----------------------------- MODULE Settlement -----------------------------
(***************************************************************************)
(* From checkout to access: createCheckout and settleWebhook in            *)
(* packages/payments/src/index.js, and the three things a settled payment  *)
(* buys (the grant callback of POST /api/webhooks/coinpay in               *)
(* apps/web/src/app.js): a term of membership, a term of a live pass, or   *)
(* a seat at a fixture, each with a commission for whoever invited the     *)
(* buyer.                                                                  *)
(*                                                                         *)
(* A webhook is one database transaction at READ COMMITTED.  It locks the  *)
(* payment's row first; what it writes is kept in the handler's record and *)
(* reaches the tables when it commits.  CoinPay delivers an event any      *)
(* number of times and in any order, and again after every failure.        *)
(***************************************************************************)
EXTENDS Integers, FiniteSetsExt, TLC

CONSTANTS Payments, Users, Handlers, NoPayment, NoOrder,
          Invited,    \* users with a row in invite_claims
          Capacity,   \* seats of the offer
          Term,       \* length of a membership or a pass
          OnSale, MaxTime, MaxFaults   \* bounds; OnSale: kinds that are bought

Kinds == {"membership", "pass", "seat"}
Orders == [user : Users, kind : Kinds]   \* the metadata of a checkout
Statuses == {"expired", "confirmed", "forwarded"}

\* Mutant: any webhook that verifies grants.
BugSettledStatus(st) == st \in Statuses

SettledStatus(st) == st \in {"confirmed", "forwarded"}

ASSUME SettlementAssumption ==
    /\ NoPayment \notin Payments /\ NoOrder \notin Orders
    /\ Invited \subseteq Users
    /\ OnSale \subseteq Kinds
    /\ Capacity \in Nat
    /\ Term \in Nat \ {0}
    /\ MaxTime \in Nat /\ MaxFaults \in Nat

VARIABLES
    now,
    order,        \* who opened each checkout, for what
    coin,         \* CoinPay: each payment's session, its money, its events
    row,          \* payments.status
    terms,        \* memberships and live_passes
    seats,        \* entitlements
    sold,         \* stream_offers.sold
    commissions,  \* referral_commissions, by payment
    handler,      \* the webhook transactions
    claims,       \* history: how often each payment took a seat
    faults

vars == <<now, order, coin, row, terms, seats, sold, commissions, handler, claims, faults>>

Coin == [session : {"none", "opened", "recorded"}, paid : BOOLEAN,
         sent : SUBSET Statuses,   \* events CoinPay has sent, and may send again
         owed : BOOLEAN]           \* forwarded, until the site answers it with a 200
TermRow == [kind : Kinds, user : Users, pay : Payments, start : Nat]
SeatRow == [user : Users, pay : Payments]

Steps == {"idle", "begin", "term", "held", "claim", "entitle", "commit"}
Handler == [step : Steps, pay : Payments \cup {NoPayment}, st : Statuses,
            began : Nat,         \* now() of the transaction
            found : BOOLEAN,     \* did the update match a row, which it then locks?
            granted : BOOLEAN,
            term : SUBSET TermRow, seat : BOOLEAN, entitled : SUBSET SeatRow]

NewHandler(p, st) ==
    [step |-> "begin", pay |-> p, st |-> st, began |-> now, found |-> FALSE, granted |-> FALSE,
     term |-> {}, seat |-> FALSE, entitled |-> {}]
Idle == [NewHandler(NoPayment, "expired") EXCEPT !.step = "idle", !.began = 0]

Buyer(p) == order[p].user
Kind(p) == order[p].kind

Init ==
    /\ now = 0
    /\ order = [p \in Payments |-> NoOrder]
    /\ coin = [p \in Payments |-> [session |-> "none", paid |-> FALSE, sent |-> {}, owed |-> FALSE]]
    /\ row = [p \in Payments |-> "none"]
    /\ terms = {} /\ seats = {} /\ commissions = {}
    /\ sold \in 0..Capacity   \* seats that others bought before
    /\ handler = [h \in Handlers |-> Idle]
    /\ claims = [p \in Payments |-> 0]
    /\ faults = MaxFaults

----------------------------------------------------------------------------
(* The checkout, and CoinPay.                                              *)

tables == <<order, row, terms, seats, sold, commissions, claims>>

\* The buy route finds a seat left on the offer; CoinPay answers createCheckout
\* with a session.
OpenSession(p, u, k) ==
    /\ coin[p].session = "none"
    /\ k \in OnSale /\ (k = "seat" => sold < Capacity)
    /\ order' = [order EXCEPT ![p] = [user |-> u, kind |-> k]]
    /\ coin' = [coin EXCEPT ![p].session = "opened"]
    /\ UNCHANGED <<now, row, terms, seats, sold, commissions, claims, handler, faults>>

\* createCheckout: the pending row is inserted, then the buyer is sent away.
InsertPayment(p) ==
    /\ coin[p].session = "opened"
    /\ coin' = [coin EXCEPT ![p].session = "recorded"]
    /\ row' = [row EXCEPT ![p] = "pending"]
    /\ UNCHANGED <<now, order, terms, seats, sold, commissions, claims, handler, faults>>

\* The buyer pays on CoinPay's page.
Pay(p) ==
    /\ coin[p].session = "recorded" /\ ~coin[p].paid
    /\ coin' = [coin EXCEPT ![p].paid = TRUE, ![p].sent = @ \cup {"confirmed"}]
    /\ UNCHANGED <<now, tables, handler, faults>>

\* The funds have gone on to the merchant's wallet.  Only this event waits in
\* CoinPay's durable queue; confirmed is re-sent for some minutes and then lost.
Forward(p) ==
    /\ coin[p].paid /\ "forwarded" \notin coin[p].sent
    /\ coin' = [coin EXCEPT ![p].sent = @ \cup {"forwarded"}, ![p].owed = TRUE]
    /\ UNCHANGED <<now, tables, handler, faults>>

\* An attempt the buyer gave up, or the whole session, expires.
Expire(p) ==
    /\ coin[p].session # "none" /\ "expired" \notin coin[p].sent
    /\ coin' = [coin EXCEPT ![p].sent = @ \cup {"expired"}]
    /\ UNCHANGED <<now, tables, handler, faults>>

Tick == now < MaxTime /\ now' = now + 1 /\ UNCHANGED <<coin, tables, handler, faults>>

----------------------------------------------------------------------------
(* The webhook.                                                            *)

Receive(h, p, st) ==
    /\ handler[h].step = "idle"
    /\ st \in coin[p].sent
    /\ handler' = [handler EXCEPT ![h] = NewHandler(p, st)]
    /\ UNCHANGED <<now, coin, tables, faults>>

\* update payments ... returning: waits for another transaction on the row.
UpdatePayment(h) ==
    LET p == handler[h].pay
        goal == IF ~SettledStatus(handler[h].st) \/ row[p] = "none" THEN "commit"
                ELSE IF Kind(p) = "seat" THEN "held" ELSE "term"
    IN  /\ handler[h].step = "begin"
        /\ \A g \in Handlers : handler[g].found => handler[g].pay # p
        /\ handler' = [handler EXCEPT ![h].step = goal, ![h].found = row[p] # "none"]
        /\ UNCHANGED <<now, coin, tables, faults>>

\* Mutant: a term begins when it is paid for.
BugStartOf(h, u, k) == handler[h].began

\* A renewal stacks: greatest(now(), max(expires_at)) over the committed rows.
StartOf(h, u, k) == Max({handler[h].began} \cup {t.start + Term : t \in {s \in terms : s.user = u /\ s.kind = k}})

\* Mutant: no unique payment_id.
BugInsertTerm(h) ==
    LET p == handler[h].pay
    IN  /\ handler[h].step = "term"
        /\ handler' = [handler EXCEPT ![h].step = "commit", ![h].granted = TRUE,
               ![h].term = {[kind |-> Kind(p), user |-> Buyer(p), pay |-> p,
                             start |-> StartOf(h, Buyer(p), Kind(p))]}]
        /\ UNCHANGED <<now, coin, tables, faults>>

\* grantMembership and grantLivePass: insert ... select ... on conflict do
\* nothing.  A replay answers with the membership it bought, or declines.
InsertTerm(h) ==
    LET p == handler[h].pay
        bought == \E t \in terms : t.pay = p
    IN  /\ handler[h].step = "term"
        /\ handler' = [handler EXCEPT ![h].step = "commit",
               ![h].granted = ~bought \/ Kind(p) = "membership",
               ![h].term = IF bought THEN {}
                           ELSE {[kind |-> Kind(p), user |-> Buyer(p), pay |-> p,
                                  start |-> StartOf(h, Buyer(p), Kind(p))]}]
        /\ UNCHANGED <<now, coin, tables, faults>>

\* Mutant: a payment that bought its seat is not recognised.
BugHeldSeat(h) ==
    /\ handler[h].step = "held"
    /\ handler' = [handler EXCEPT ![h].step = "claim"]
    /\ UNCHANGED <<now, coin, tables, faults>>

\* grantStreamSeat: did this payment already buy its seat?
HeldSeat(h) ==
    LET held == \E e \in seats : e.pay = handler[h].pay
    IN  /\ handler[h].step = "held"
        /\ handler' = [handler EXCEPT ![h].step = IF held THEN "commit" ELSE "claim",
                                      ![h].granted = held]
        /\ UNCHANGED <<now, coin, tables, faults>>

\* Mutant: the last seat is checked before it is taken.
BugClaimSeat(h) ==
    /\ handler[h].step = "claim"
    /\ handler' = [handler EXCEPT ![h].step = IF sold < Capacity THEN "entitle" ELSE "commit",
                                  ![h].seat = sold < Capacity]
    /\ UNCHANGED <<now, coin, tables, faults>>

\* claimOfferSeat: a conditional update, which waits for a transaction that
\* holds the offer's row.
ClaimSeat(h) ==
    /\ handler[h].step = "claim"
    /\ \A g \in Handlers : ~handler[g].seat
    /\ handler' = [handler EXCEPT ![h].step = IF sold < Capacity THEN "entitle" ELSE "commit",
                                  ![h].seat = sold < Capacity]
    /\ UNCHANGED <<now, coin, tables, faults>>

\* grantEventEntitlement: one per person and fixture, on conflict do nothing.
Entitle(h) ==
    LET p == handler[h].pay
    IN  /\ handler[h].step = "entitle"
        /\ handler' = [handler EXCEPT ![h].step = "commit", ![h].granted = TRUE,
               ![h].entitled = IF \E e \in seats : e.user = Buyer(p) THEN {}
                               ELSE {[user |-> Buyer(p), pay |-> p]}]
        /\ UNCHANGED <<now, coin, tables, faults>>

\* Mutant: an expired attempt un-pays the session.
BugStatusAfter(old, st) == IF SettledStatus(st) THEN "settled" ELSE "unsettled"

\* Mutant: what CoinPay says is written as it comes.
BugStatusAsSent(old, st) == IF old = "settled" THEN old ELSE st

\* A settled row never goes back.
StatusAfter(old, st) ==
    IF old = "settled" THEN old
    ELSE IF SettledStatus(st) THEN "settled" ELSE "unsettled"

\* Mutant: the inviter is credited before anything is delivered.
BugCredited(h) ==
    IF SettledStatus(handler[h].st) /\ Buyer(handler[h].pay) \in Invited
    THEN {handler[h].pay} ELSE {}

\* creditReferral, in the same transaction, once something was delivered.
Credited(h) ==
    IF handler[h].granted /\ Buyer(handler[h].pay) \in Invited THEN {handler[h].pay} ELSE {}

\* The transaction commits and CoinPay gets its 200.
Commit(h) ==
    LET p == handler[h].pay
        st == handler[h].st
    IN  /\ handler[h].step = "commit"
        /\ row' = IF handler[h].found THEN [row EXCEPT ![p] = StatusAfter(row[p], st)] ELSE row
        /\ terms' = terms \cup handler[h].term
        /\ seats' = seats \cup handler[h].entitled
        /\ sold' = IF handler[h].seat THEN sold + 1 ELSE sold
        /\ claims' = IF handler[h].seat THEN [claims EXCEPT ![p] = @ + 1] ELSE claims
        /\ commissions' = commissions \cup Credited(h)
        /\ coin' = [coin EXCEPT ![p].owed = @ /\ st # "forwarded"]
        /\ handler' = [handler EXCEPT ![h] = Idle]
        /\ UNCHANGED <<now, order, faults>>

\* A statement throws, or the process dies: nothing was written, and CoinPay
\* will send the event again.
Fail(h) ==
    /\ faults > 0 /\ handler[h].step # "idle"
    /\ faults' = faults - 1
    /\ handler' = [handler EXCEPT ![h] = Idle]
    /\ UNCHANGED <<now, coin, tables>>

HandlerStep(h) ==
    UpdatePayment(h) \/ InsertTerm(h) \/ HeldSeat(h) \/ ClaimSeat(h) \/ Entitle(h) \/ Commit(h)
CoinPayStep(p) == Pay(p) \/ Forward(p) \/ Expire(p)
CheckoutStep(p) ==
    InsertPayment(p) \/ \E u \in Users, k \in Kinds : OpenSession(p, u, k)
ReceiveStep(h) == \E p \in Payments, st \in Statuses : Receive(h, p, st)

Next ==
    \/ \E p \in Payments : CheckoutStep(p) \/ CoinPayStep(p)
    \/ \E h \in Handlers : ReceiveStep(h) \/ HandlerStep(h) \/ Fail(h)
    \/ Tick

\* A transaction that can go on does, and the database serves those that wait
\* for a row in turn; the funds are forwarded; and CoinPay's durable queue
\* delivers an event that is due whenever the site listens.
Fairness ==
    /\ \A h \in Handlers : SF_vars(HandlerStep(h))
    /\ \A p \in Payments :
          /\ WF_vars(Forward(p))
          /\ SF_vars(coin[p].owed /\ \E h \in Handlers : Receive(h, p, "forwarded"))

Spec == Init /\ [][Next]_vars
FairSpec == Spec /\ Fairness

----------------------------------------------------------------------------
(* Properties.                                                             *)

TypeOK ==
    /\ now \in 0..MaxTime
    /\ order \in [Payments -> Orders \cup {NoOrder}]
    /\ coin \in [Payments -> Coin]
    /\ row \in [Payments -> {"none", "pending", "unsettled", "settled"}]
    /\ terms \subseteq TermRow /\ seats \subseteq SeatRow
    /\ sold \in Nat /\ commissions \subseteq Payments
    /\ handler \in [Handlers -> Handler]
    /\ claims \in [Payments -> Nat]
    /\ faults \in 0..MaxFaults

\* CoinPay sends two settling events for one payment and may repeat both; the
\* payment buys one term, whatever fails and whoever handles what at once.
OneTermPerPayment == \A s, t \in terms : s.pay = t.pay => s = t

\* An offer is never oversold, and every seat somebody holds was claimed.
NotOversold == Cardinality(seats) <= sold /\ sold <= Capacity

\* When nobody buys the same fixture twice, a payment takes one seat, and
\* takes it only together with the entitlement.
OneSeatPerPayment ==
    (\A p, q \in Payments : order[p] = order[q] /\ p # q => order[p] = NoOrder \/ Kind(p) # "seat")
        => \A p \in Payments : claims[p] = IF \E e \in seats : e.pay = p THEN 1 ELSE 0

\* Nobody is given anything that was not paid for.
GrantsArePaid ==
    /\ \A t \in terms : coin[t.pay].paid /\ row[t.pay] = "settled"
    /\ \A e \in seats : coin[e.pay].paid /\ row[e.pay] = "settled"

\* A commission is owed on what was delivered, and never on a sold-out seat.
CommissionIsEarned ==
    \A p \in commissions : (\E t \in terms : t.pay = p) \/ claims[p] > 0

\* One session can carry several attempts: the one that expires does not
\* un-pay the one that paid.
SettledStays == [][\A p \in Payments : row[p] = "settled" => row'[p] = "settled"]_vars

\* Time a buyer has paid for is not taken twice: terms of one kind follow one
\* another.
TermsDoNotOverlap ==
    \A s, t \in terms :
        s.user = t.user /\ s.kind = t.kind /\ s # t
            => s.start + Term <= t.start \/ t.start + Term <= s.start

\* Money that arrived buys its term, even when every delivery of confirmed
\* was lost.
PaidIsGranted ==
    \A p \in Payments :
        (coin[p].paid /\ Kind(p) # "seat") ~> \E t \in terms : t.pay = p

\* app.js, grantStreamSeat: a payment that already bought its seat must not
\* claim a second one.
NoSecondSeat == \A p \in Payments : claims[p] <= 1

----------------------------------------------------------------------------
(* For TLC: payments, users and handlers are interchangeable. *)
Alike == Permutations(Payments) \cup Permutations(Users) \cup Permutations(Handlers)
=============================================================================
