-------------------------- MODULE SettlementProofs --------------------------
(***************************************************************************)
(* The webhook, for any number of payments, buyers and transactions: what  *)
(* a payment buys it buys once, nothing is handed out unpaid, an offer is  *)
(* not oversold and a settled payment stays settled.                       *)
(*                                                                         *)
(* The argument is one about the two row locks.  A transaction that found  *)
(* its payment holds that payment's row until it commits, and one that     *)
(* took a seat holds the offer's: what it read of either is still true     *)
(* when its writes reach the tables.                                       *)
(***************************************************************************)
EXTENDS Settlement, FiniteSetTheorems, WellFoundedInduction, TLAPS

----------------------------------------------------------------------------
(* The latest of the terms exists, so a renewal has a start.               *)

Below == {pair \in Nat \X Nat : pair[1] < pair[2]}

LEMMA LeastExists ==
    ASSUME NEW T \in SUBSET Nat, T # {} PROVE \E m \in T : \A k \in T : m <= k
<1>1. IsWellFoundedOn(Below, Nat)
  BY NatLessThanWellFounded DEF OpToRel, Below
<1>2. PICK x \in T : \A y \in T : ~(<<y, x>> \in Below)
  BY <1>1, WFMin, Zenon
<1>3. ASSUME NEW k \in T PROVE x <= k
  <2>1. <<k, x>> \in Nat \X Nat
    OBVIOUS
  <2>2. ~(k < x)
    BY <2>1, <1>2, Zenon DEF Below
  <2> QED BY <2>2
<1> QED BY <1>3

LEMMA GreatestExists ==
    ASSUME NEW S \in SUBSET Nat, NEW b \in Nat, S # {}, \A x \in S : x <= b
    PROVE  Max(S) \in S
<1> DEFINE UB == {n \in Nat : \A x \in S : x <= n}
<1>1. UB \in SUBSET Nat /\ UB # {}
  OBVIOUS
<1> HIDE DEF UB
<1>2. PICK m \in UB : \A k \in UB : m <= k
  BY <1>1, LeastExists, Zenon
<1>3. m \in Nat /\ \A x \in S : x <= m
  BY DEF UB
<1>4. m \in S
  <2> SUFFICES ASSUME m \notin S PROVE FALSE
    OBVIOUS
  <2>1. PICK x \in S : TRUE
    OBVIOUS
  <2>2. \A y \in S : y <= m - 1
    BY <1>3
  <2>3. m - 1 \in Nat
    BY <1>3, <2>1, <2>2
  <2>4. m - 1 \in UB
    BY <2>2, <2>3 DEF UB
  <2> QED BY <2>4, <1>2, <1>3
<1>5. \E x \in S : \A y \in S : x >= y
  BY <1>3, <1>4
<1> QED BY <1>5 DEF Max

----------------------------------------------------------------------------
(* The inductive invariant.                                                *)

Checkouts == \A p \in Payments :
    /\ row[p] # "none" <=> coin[p].session = "recorded"
    /\ coin[p].session # "none" => order[p] \in Orders
    /\ \A st \in coin[p].sent : SettledStatus(st) => coin[p].paid

\* What a transaction knows of the tables it has not written yet.
HandlerOK(x) ==
    /\ x.step # "idle" => x.pay \in Payments /\ x.st \in coin[x.pay].sent
    /\ x.found => x.step \notin {"idle", "begin"} /\ row[x.pay] # "none"
    /\ x.step \in {"term", "held", "claim", "entitle"} => x.found /\ SettledStatus(x.st)
    /\ x.granted \/ x.seat \/ x.term # {} \/ x.entitled # {}
          => x.found /\ SettledStatus(x.st) /\ x.step \in {"entitle", "commit"}
    /\ x.granted \/ x.term # {} \/ x.entitled # {} => x.step = "commit"
    /\ x.term # {} => \A t \in terms : t.pay # x.pay
    /\ \A t \in x.term : t.pay = x.pay
    /\ \A s, t \in x.term : s = t
    /\ x.entitled # {} \/ x.step = "entitle" => x.seat
    /\ \A e \in x.entitled : e.pay = x.pay
    /\ \A d, e \in x.entitled : d = e
    /\ x.seat => sold < Capacity
    /\ x.granted => \/ x.term # {} \/ x.seat \/ claims[x.pay] > 0
                    \/ \E t \in terms : t.pay = x.pay

Apart(x, y) == ~(x.found /\ y.found /\ x.pay = y.pay) /\ ~(x.seat /\ y.seat)

Locks == \A g, h \in Handlers : g # h => Apart(handler[g], handler[h])

Tables ==
    /\ OneTermPerPayment
    /\ GrantsArePaid
    /\ IsFiniteSet(seats)
    /\ NotOversold
    /\ \A e \in seats : claims[e.pay] > 0
    /\ CommissionIsEarned

Bounded(b, S) == \A t \in S : t.start <= b
Ended == \E b \in Nat : Bounded(b, terms) /\ \A h \in Handlers : Bounded(b, handler[h].term)

Settles ==
    /\ TypeOK /\ Checkouts /\ Locks /\ Tables /\ Ended
    /\ \A h \in Handlers : HandlerOK(handler[h])

----------------------------------------------------------------------------

(* Types, the bookkeeping of the checkout, the two row locks, what the     *)
(* tables say, and what each transaction knows: together inductive.        *)
LEMMA NewHandlerOK ==
    ASSUME TypeOK, NEW p \in Payments, NEW st \in Statuses
    PROVE  /\ NewHandler(p, st) \in Handler
           /\ Idle \in Handler
<1>1. now \in Nat
  BY SettlementAssumption DEF TypeOK
<1>2. NewHandler(p, st) \in Handler
  BY <1>1 DEF NewHandler, Handler, Steps
<1>3. NewHandler(NoPayment, "expired") \in Handler
  BY <1>1 DEF NewHandler, Handler, Steps, Statuses
<1> QED BY <1>2, <1>3 DEF Idle, Handler, Steps

LEMMA InitSettles == Init => Settles
<1> SUFFICES ASSUME Init PROVE Settles
  OBVIOUS
<1>1. Idle \in Handler /\ Idle.step = "idle" /\ ~Idle.found /\ ~Idle.granted /\ ~Idle.seat
      /\ Idle.term = {} /\ Idle.entitled = {}
  BY SettlementAssumption DEF Idle, NewHandler, Handler, Steps, Statuses, Init
<1>2. TypeOK
  BY <1>1, SettlementAssumption DEF Init, TypeOK, Coin
<1>3. Checkouts
  BY DEF Init, Checkouts
<1>4. Locks
  BY <1>1 DEF Init, Locks, Apart
<1>5. Tables
  BY FS_EmptySet, SettlementAssumption
     DEF Init, Tables, OneTermPerPayment, GrantsArePaid, NotOversold, CommissionIsEarned
<1>6. Ended
  <2>1. Bounded(0, terms) /\ \A h \in Handlers : Bounded(0, handler[h].term)
    BY <1>1 DEF Init, Bounded
  <2> QED BY <2>1 DEF Ended
<1>7. \A h \in Handlers : HandlerOK(handler[h])
  BY <1>1 DEF Init, HandlerOK
<1> QED BY <1>2, <1>3, <1>4, <1>5, <1>6, <1>7 DEF Settles

----------------------------------------------------------------------------
(* CoinPay and the checkout: what a transaction knows stays true.          *)

LEMMA CheckoutKeeps ==
    ASSUME Settles, NEW p \in Payments, CheckoutStep(p) \/ CoinPayStep(p) PROVE Settles'
<1> USE DEF Settles
<1>1. /\ coin' \in [Payments -> Coin] /\ order' \in [Payments -> Orders \cup {NoOrder}]
      /\ row' \in [Payments -> {"none", "pending", "unsettled", "settled"}]
      /\ UNCHANGED <<now, terms, seats, sold, commissions, claims, handler, faults>>
  <2>1. CASE InsertPayment(p)
    <3>1. [coin[p] EXCEPT !.session = "recorded"] \in Coin
      BY DEF TypeOK, Coin
    <3>2. coin' \in [Payments -> Coin]
      BY <2>1, <3>1 DEF InsertPayment, TypeOK
    <3> QED BY <2>1, <3>2 DEF InsertPayment, TypeOK
  <2>2. ASSUME NEW u \in Users, NEW k \in Kinds, OpenSession(p, u, k) PROVE <1>1
    <3>1. [user |-> u, kind |-> k] \in Orders
      BY DEF Orders
    <3>2. [coin[p] EXCEPT !.session = "opened"] \in Coin
      BY DEF TypeOK, Coin
    <3>3. coin' \in [Payments -> Coin]
      BY <2>2, <3>2 DEF OpenSession, TypeOK
    <3> QED BY <2>2, <3>1, <3>3 DEF OpenSession, TypeOK
  <2>3. CASE Pay(p)
    <3> DEFINE c == [coin[p] EXCEPT !.paid = TRUE, !.sent = @ \cup {"confirmed"}]
    <3>1. c \in Coin
      BY ZenonT(40) DEF TypeOK, Coin, Statuses
    <3>2. coin' = [coin EXCEPT ![p] = c]
      BY <2>3 DEF Pay
    <3> HIDE DEF c
    <3>3. coin' \in [Payments -> Coin]
      BY <3>1, <3>2 DEF TypeOK
    <3> QED BY <2>3, <3>3 DEF Pay, TypeOK, tables
  <2>4. CASE Forward(p)
    <3> DEFINE c == [coin[p] EXCEPT !.sent = @ \cup {"forwarded"}, !.owed = TRUE]
    <3>1. c \in Coin
      BY ZenonT(40) DEF TypeOK, Coin, Statuses
    <3>2. coin' = [coin EXCEPT ![p] = c]
      BY <2>4 DEF Forward
    <3> HIDE DEF c
    <3>3. coin' \in [Payments -> Coin]
      BY <3>1, <3>2 DEF TypeOK
    <3> QED BY <2>4, <3>3 DEF Forward, TypeOK, tables
  <2>5. CASE Expire(p)
    BY <2>5 DEF Expire, TypeOK, Coin, Statuses, tables
  <2> QED BY <2>1, <2>2, <2>3, <2>4, <2>5 DEF CheckoutStep, CoinPayStep
<1>2. \A q \in Payments :
        /\ coin[q].sent \subseteq coin'[q].sent
        /\ coin[q].paid => coin'[q].paid
        /\ row[q] # "none" => row'[q] = row[q]
  <2>1. CASE InsertPayment(p)
    BY <2>1 DEF InsertPayment, TypeOK, Coin, Checkouts
  <2>2. ASSUME NEW u \in Users, NEW k \in Kinds, OpenSession(p, u, k) PROVE <1>2
    BY <2>2 DEF OpenSession, TypeOK, Coin
  <2>3. CASE Pay(p)
    BY <2>3 DEF Pay, TypeOK, Coin, tables
  <2>4. CASE Forward(p)
    BY <2>4 DEF Forward, TypeOK, Coin, tables
  <2>5. CASE Expire(p)
    BY <2>5 DEF Expire, TypeOK, Coin, tables
  <2> QED BY <2>1, <2>2, <2>3, <2>4, <2>5 DEF CheckoutStep, CoinPayStep
<1>3. Checkouts'
  <2>1. CASE InsertPayment(p)
    BY <2>1 DEF InsertPayment, TypeOK, Coin, Checkouts
  <2>2. ASSUME NEW u \in Users, NEW k \in Kinds, OpenSession(p, u, k) PROVE <1>3
    <3>1. [user |-> u, kind |-> k] \in Orders
      BY DEF Orders
    <3> QED BY <2>2, <3>1 DEF OpenSession, TypeOK, Coin, Checkouts
  <2>3. CASE Pay(p)
    BY <2>3 DEF Pay, TypeOK, Coin, Checkouts, tables
  <2>4. CASE Forward(p)
    BY <2>4 DEF Forward, TypeOK, Coin, Checkouts, tables
  <2>5. CASE Expire(p)
    BY <2>5 DEF Expire, TypeOK, Coin, Checkouts, SettledStatus, tables
  <2> QED BY <2>1, <2>2, <2>3, <2>4, <2>5 DEF CheckoutStep, CoinPayStep
<1>4. TypeOK'
  BY <1>1 DEF TypeOK
<1>5. Locks' /\ Ended'
  BY <1>1 DEF Locks, Apart, Ended, Bounded
<1>6. GrantsArePaid'
  <2>1. \A t \in terms : t.pay \in Payments
    BY DEF TypeOK, TermRow
  <2>2. \A e \in seats : e.pay \in Payments
    BY DEF TypeOK, SeatRow
  <2> QED BY <1>1, <1>2, <2>1, <2>2 DEF GrantsArePaid, Tables
<1>7. Tables'
  BY <1>1, <1>6 DEF Tables, OneTermPerPayment, NotOversold, CommissionIsEarned
<1>8. \A h \in Handlers : HandlerOK(handler[h])'
  <2> SUFFICES ASSUME NEW h \in Handlers PROVE HandlerOK(handler[h])'
    OBVIOUS
  <2>1. HandlerOK(handler[h])
    OBVIOUS
  <2> DEFINE x == handler[h]
  <2>2. x.step # "idle" => x.pay \in Payments /\ x.st \in coin'[x.pay].sent
    BY <1>2, <2>1 DEF HandlerOK
  <2>3. x.found => row'[x.pay] # "none"
    BY <1>2, <2>1 DEF HandlerOK
  <2>4. handler'[h] = x
    BY <1>1
  <2> HIDE DEF x
  <2> QED BY <1>1, <2>1, <2>2, <2>3, <2>4 DEF HandlerOK, x
<1> QED BY <1>3, <1>4, <1>5, <1>7, <1>8

----------------------------------------------------------------------------
(* A statement of one transaction: the tables stay, its record changes.    *)

LEMMA StatementKeeps ==
    ASSUME Settles, NEW h \in Handlers, NEW x \in Handler,
           handler' = [handler EXCEPT ![h] = x],
           UNCHANGED <<now, coin, tables>>, faults' \in 0..MaxFaults,
           HandlerOK(x),
           \A g \in Handlers \ {h} : Apart(handler[g], x),
           \E b \in Nat : Bounded(b, x.term)
    PROVE  Settles'
<1> USE DEF Settles
<1>1. \A g \in Handlers : handler'[g] = IF g = h THEN x ELSE handler[g]
  BY DEF TypeOK
<1>2. TypeOK'
  BY DEF TypeOK, tables
<1>3. Checkouts' /\ Tables'
  BY DEF Checkouts, Tables, OneTermPerPayment, GrantsArePaid, NotOversold,
         CommissionIsEarned, tables
<1>4. Locks'
  <2> SUFFICES ASSUME NEW f \in Handlers, NEW g \in Handlers, f # g
               PROVE Apart(handler'[f], handler'[g])
    BY DEF Locks, Apart
  <2>1. Apart(handler[f], handler[g])
    BY DEF Locks
  <2>2. f # h => Apart(handler[f], x)
    OBVIOUS
  <2>3. g # h => Apart(x, handler[g])
    BY DEF Apart
  <2> QED BY <1>1, <2>1, <2>2, <2>3
<1>5. Ended'
  <2>1. PICK a \in Nat : Bounded(a, terms) /\ \A g \in Handlers : Bounded(a, handler[g].term)
    BY DEF Ended
  <2>2. PICK b \in Nat : Bounded(b, x.term)
    OBVIOUS
  <2>3. PICK c \in Nat : a <= c /\ b <= c
    OBVIOUS
  <2>4. \A t \in terms : t.start \in Nat
    BY DEF TypeOK, TermRow
  <2>5. \A g \in Handlers : \A t \in handler'[g].term : t.start \in Nat
    BY <1>2 DEF TypeOK, Handler, TermRow
  <2>6. \A g \in Handlers : Bounded(c, handler'[g].term)
    BY <1>1, <2>1, <2>2, <2>3, <2>5 DEF Bounded
  <2>7. Bounded(c, terms')
    BY <2>1, <2>3, <2>4 DEF Bounded, tables
  <2> QED BY <2>6, <2>7 DEF Ended, Bounded
<1>6. \A g \in Handlers : HandlerOK(handler[g])'
  <2>1. \A g \in Handlers : HandlerOK(handler'[g])
    BY <1>1
  <2> QED BY <2>1 DEF HandlerOK, tables
<1> QED BY <1>2, <1>3, <1>4, <1>5, <1>6

LEMMA FaultsStay == ASSUME Settles, UNCHANGED faults PROVE faults' \in 0..MaxFaults
BY DEF Settles, TypeOK

LEMMA ReceiveKeeps == ASSUME Settles, NEW h \in Handlers, ReceiveStep(h) PROVE Settles'
<1>1. PICK p \in Payments, st \in Statuses : Receive(h, p, st)
  BY DEF ReceiveStep
<1> DEFINE x == NewHandler(p, st)
<1>2. x \in Handler
  BY NewHandlerOK DEF Settles
<1>3. HandlerOK(x) /\ ~x.found /\ ~x.seat /\ x.term = {}
  BY <1>1 DEF HandlerOK, NewHandler, Receive
<1>4. handler' = [handler EXCEPT ![h] = x] /\ UNCHANGED <<now, coin, tables>> /\ UNCHANGED faults
  BY <1>1 DEF Receive
<1> HIDE DEF x
<1>5. \A g \in Handlers \ {h} : Apart(handler[g], x)
  BY <1>3 DEF Apart
<1>6. Bounded(0, x.term)
  BY <1>3 DEF Bounded
<1> QED BY <1>2, <1>3, <1>4, <1>5, <1>6, FaultsStay, StatementKeeps

LEMMA FailKeeps == ASSUME Settles, NEW h \in Handlers, Fail(h) PROVE Settles'
<1>1. Idle \in Handler /\ HandlerOK(Idle) /\ ~Idle.found /\ ~Idle.seat /\ Idle.term = {}
  BY SettlementAssumption
     DEF Settles, TypeOK, Idle, NewHandler, Handler, Steps, Statuses, HandlerOK
<1>2. handler' = [handler EXCEPT ![h] = Idle] /\ UNCHANGED <<now, coin, tables>>
  BY DEF Fail
<1>3. faults' \in 0..MaxFaults
  BY SettlementAssumption DEF Fail, Settles, TypeOK
<1>4. \A g \in Handlers \ {h} : Apart(handler[g], Idle)
  BY <1>1 DEF Apart
<1>5. Bounded(0, Idle.term)
  BY <1>1 DEF Bounded
<1> QED BY <1>1, <1>2, <1>3, <1>4, <1>5, StatementKeeps

(* The update locks the payment's row.                                     *)
LEMMA UpdateKeeps == ASSUME Settles, NEW h \in Handlers, UpdatePayment(h) PROVE Settles'
<1> DEFINE y == handler[h]
           goal == IF ~SettledStatus(y.st) \/ row[y.pay] = "none" THEN "commit"
                   ELSE IF Kind(y.pay) = "seat" THEN "held" ELSE "term"
           x == [y EXCEPT !.step = goal, !.found = row[y.pay] # "none"]
<1>1. y \in Handler /\ HandlerOK(y) /\ y.step = "begin"
  BY DEF Settles, TypeOK, UpdatePayment
<1>2. goal \in Steps /\ goal \notin {"idle", "begin", "claim", "entitle"}
      /\ (goal \in {"term", "held"} => SettledStatus(y.st) /\ row[y.pay] # "none")
  BY DEF Steps
<1>3. handler' = [handler EXCEPT ![h] = x] /\ UNCHANGED <<now, coin, tables>> /\ UNCHANGED faults
  BY DEF UpdatePayment
<1> HIDE DEF goal
<1>4. /\ x \in Handler
      /\ x.step = goal /\ x.found = (row[y.pay] # "none")
      /\ x.pay = y.pay /\ x.st = y.st /\ x.granted = y.granted /\ x.term = y.term
      /\ x.seat = y.seat /\ x.entitled = y.entitled
  BY <1>1, <1>2 DEF Handler
<1> HIDE DEF x
<1>5. HandlerOK(x)
  BY <1>1, <1>2, <1>4 DEF HandlerOK
<1>6. ~x.seat /\ x.term = {}
  BY <1>1, <1>4 DEF HandlerOK
<1>7. \A g \in Handlers \ {h} : Apart(handler[g], x)
  BY <1>4, <1>6 DEF Apart, UpdatePayment
<1>8. Bounded(0, x.term)
  BY <1>6 DEF Bounded
<1> QED BY <1>3, <1>4, <1>5, <1>7, <1>8, FaultsStay, StatementKeeps

(* Past the update, what becomes of the record keeps the row it holds.     *)
LEMMA SameRowApart ==
    ASSUME Settles, NEW h \in Handlers, NEW x,
           x.found = handler[h].found, x.pay = handler[h].pay,
           x.seat => \A g \in Handlers \ {h} : ~handler[g].seat
    PROVE  \A g \in Handlers \ {h} : Apart(handler[g], x)
BY DEF Settles, Locks, Apart

LEMMA StartIsNatural ==
    ASSUME Settles, NEW h \in Handlers, NEW u, NEW k
    PROVE  StartOf(h, u, k) \in Nat
<1> DEFINE ends == {t.start + Term : t \in {s \in terms : s.user = u /\ s.kind = k}}
           S == {handler[h].began} \cup ends
<1>1. handler[h].began \in Nat
  BY DEF Settles, TypeOK, Handler
<1>2. PICK b \in Nat : Bounded(b, terms)
  BY DEF Settles, Ended
<1>3. \A t \in terms : t.start \in Nat /\ t.start <= b
  BY <1>2 DEF Settles, TypeOK, TermRow, Bounded
<1>4. \A e \in ends : e \in Nat /\ e <= b + Term
  BY <1>3, SettlementAssumption
<1> DEFINE c == b + Term + handler[h].began
<1>5. c \in Nat /\ S \in SUBSET Nat /\ S # {} /\ \A e \in S : e <= c
  BY <1>1, <1>4, SettlementAssumption
<1>6. StartOf(h, u, k) = Max(S)
  BY DEF StartOf
<1> HIDE DEF S, c
<1>7. Max(S) \in S
  BY <1>5, GreatestExists
<1> QED BY <1>5, <1>6, <1>7

(* The insert: no other transaction can be between its own insert for the  *)
(* same payment and its commit.                                            *)
LEMMA InsertKeeps == ASSUME Settles, NEW h \in Handlers, InsertTerm(h) PROVE Settles'
<1> DEFINE y == handler[h]
           p == y.pay
           bought == \E t \in terms : t.pay = p
           new == [kind |-> Kind(p), user |-> Buyer(p), pay |-> p,
                   start |-> StartOf(h, Buyer(p), Kind(p))]
           x == [y EXCEPT !.step = "commit", !.granted = ~bought \/ Kind(p) = "membership",
                          !.term = IF bought THEN {} ELSE {new}]
<1>1. y \in Handler /\ HandlerOK(y) /\ y.step = "term"
  BY DEF Settles, TypeOK, InsertTerm
<1>2. y.found /\ SettledStatus(y.st) /\ p \in Payments /\ row[p] # "none"
  BY <1>1 DEF HandlerOK
<1>3. order[p] \in Orders
  BY <1>2 DEF Settles, Checkouts
<1>4. new \in TermRow /\ new.pay = p /\ new.start \in Nat
  <2>1. StartOf(h, Buyer(p), Kind(p)) \in Nat
    BY StartIsNatural
  <2>2. Kind(p) \in Kinds /\ Buyer(p) \in Users
    BY <1>3 DEF Orders, Kind, Buyer
  <2> QED BY <1>2, <2>1, <2>2 DEF TermRow
<1>5. handler' = [handler EXCEPT ![h] = x] /\ UNCHANGED <<now, coin, tables>> /\ UNCHANGED faults
  BY DEF InsertTerm
<1> HIDE DEF new
<1>6. /\ x \in Handler
      /\ x.step = "commit" /\ x.granted = (~bought \/ Kind(p) = "membership")
      /\ x.term = IF bought THEN {} ELSE {new}
      /\ x.pay = p /\ x.st = y.st /\ x.found = y.found
      /\ x.seat = y.seat /\ x.entitled = y.entitled
  BY <1>1, <1>4 DEF Handler, Steps
<1> HIDE DEF x
<1>7. HandlerOK(x)
  BY <1>1, <1>2, <1>4, <1>6 DEF HandlerOK
<1>8. ~x.seat
  BY <1>1, <1>6 DEF HandlerOK
<1>9. \A g \in Handlers \ {h} : Apart(handler[g], x)
  BY <1>6, <1>8, SameRowApart
<1>10. \E b \in Nat : Bounded(b, x.term)
  <2>1. Bounded(new.start, x.term)
    BY <1>4, <1>6 DEF Bounded
  <2> QED BY <1>4, <2>1
<1> QED BY <1>5, <1>6, <1>7, <1>9, <1>10, FaultsStay, StatementKeeps

LEMMA HeldKeeps == ASSUME Settles, NEW h \in Handlers, HeldSeat(h) PROVE Settles'
<1> DEFINE y == handler[h]
           held == \E e \in seats : e.pay = y.pay
           x == [y EXCEPT !.step = IF held THEN "commit" ELSE "claim", !.granted = held]
<1>1. y \in Handler /\ HandlerOK(y) /\ y.step = "held"
  BY DEF Settles, TypeOK, HeldSeat
<1>2. held => claims[y.pay] > 0
  BY DEF Settles, Tables
<1>3. handler' = [handler EXCEPT ![h] = x] /\ UNCHANGED <<now, coin, tables>> /\ UNCHANGED faults
  BY DEF HeldSeat
<1>4. /\ x \in Handler
      /\ x.step = (IF held THEN "commit" ELSE "claim") /\ x.granted = held
      /\ x.pay = y.pay /\ x.st = y.st /\ x.found = y.found /\ x.term = y.term
      /\ x.seat = y.seat /\ x.entitled = y.entitled
  BY <1>1 DEF Handler, Steps
<1> HIDE DEF x, held
<1>5. HandlerOK(x)
  BY <1>1, <1>2, <1>4 DEF HandlerOK
<1>6. ~x.seat /\ x.term = {}
  BY <1>1, <1>4 DEF HandlerOK
<1>7. \A g \in Handlers \ {h} : Apart(handler[g], x)
  BY <1>4, <1>6, SameRowApart
<1>8. Bounded(0, x.term)
  BY <1>6 DEF Bounded
<1> QED BY <1>3, <1>4, <1>5, <1>7, <1>8, FaultsStay, StatementKeeps

(* The conditional update locks the offer's row.                           *)
LEMMA ClaimKeeps == ASSUME Settles, NEW h \in Handlers, ClaimSeat(h) PROVE Settles'
<1> DEFINE y == handler[h]
           left == sold < Capacity
           x == [y EXCEPT !.step = IF left THEN "entitle" ELSE "commit", !.seat = left]
<1>1. y \in Handler /\ HandlerOK(y) /\ y.step = "claim"
  BY DEF Settles, TypeOK, ClaimSeat
<1>2. handler' = [handler EXCEPT ![h] = x] /\ UNCHANGED <<now, coin, tables>> /\ UNCHANGED faults
  BY DEF ClaimSeat
<1>b. left \in BOOLEAN
  OBVIOUS
<1> HIDE DEF left
<1>3. /\ x \in Handler
      /\ x.step = (IF left THEN "entitle" ELSE "commit") /\ x.seat = left
      /\ x.pay = y.pay /\ x.st = y.st /\ x.found = y.found /\ x.term = y.term
      /\ x.granted = y.granted /\ x.entitled = y.entitled
  BY <1>1, <1>b DEF Handler, Steps
<1> HIDE DEF x
<1>4. HandlerOK(x)
  BY <1>1, <1>3 DEF HandlerOK, left
<1>5. x.term = {}
  BY <1>1, <1>3 DEF HandlerOK
<1>6. \A g \in Handlers \ {h} : Apart(handler[g], x)
  <2>1. \A g \in Handlers : ~handler[g].seat
    BY DEF ClaimSeat
  <2> QED BY <1>3, <2>1, SameRowApart
<1>7. Bounded(0, x.term)
  BY <1>5 DEF Bounded
<1> QED BY <1>2, <1>3, <1>4, <1>6, <1>7, FaultsStay, StatementKeeps

LEMMA EntitleKeeps == ASSUME Settles, NEW h \in Handlers, Entitle(h) PROVE Settles'
<1> DEFINE y == handler[h]
           p == y.pay
           mine == IF \E e \in seats : e.user = Buyer(p) THEN {}
                   ELSE {[user |-> Buyer(p), pay |-> p]}
           x == [y EXCEPT !.step = "commit", !.granted = TRUE, !.entitled = mine]
<1>1. y \in Handler /\ HandlerOK(y) /\ y.step = "entitle"
  BY DEF Settles, TypeOK, Entitle
<1>2. y.found /\ SettledStatus(y.st) /\ p \in Payments /\ row[p] # "none"
  BY <1>1 DEF HandlerOK
<1>3. order[p] \in Orders
  BY <1>2 DEF Settles, Checkouts
<1>4. mine \in SUBSET SeatRow /\ (\A e \in mine : e.pay = p) /\ (\A d, e \in mine : d = e)
  BY <1>2, <1>3 DEF SeatRow, Orders, Buyer
<1>5. handler' = [handler EXCEPT ![h] = x] /\ UNCHANGED <<now, coin, tables>> /\ UNCHANGED faults
  BY DEF Entitle
<1> HIDE DEF mine
<1>6. /\ x \in Handler
      /\ x.step = "commit" /\ x.granted /\ x.entitled = mine
      /\ x.pay = p /\ x.st = y.st /\ x.found = y.found /\ x.term = y.term
      /\ x.seat = y.seat
  BY <1>1, <1>4 DEF Handler, Steps
<1> HIDE DEF x
<1>7. HandlerOK(x)
  BY <1>1, <1>2, <1>4, <1>6 DEF HandlerOK
<1>8. x.term = {}
  BY <1>1, <1>6 DEF HandlerOK
<1>9. \A g \in Handlers \ {h} : Apart(handler[g], x)
  <2>1. y.seat => \A g \in Handlers \ {h} : ~handler[g].seat
    BY DEF Settles, Locks, Apart
  <2> QED BY <1>6, <2>1, SameRowApart
<1>10. Bounded(0, x.term)
  BY <1>8 DEF Bounded
<1> QED BY <1>5, <1>6, <1>7, <1>9, <1>10, FaultsStay, StatementKeeps

----------------------------------------------------------------------------
(* The commit.                                                             *)

LEMMA OneMore ==
    ASSUME NEW S, NEW x, IsFiniteSet(S)
    PROVE  /\ IsFiniteSet(S \cup {x}) /\ Cardinality(S) \in Nat
           /\ Cardinality(S \cup {x}) <= Cardinality(S) + 1
<1>1. Cardinality(S) \in Nat
  BY FS_CardinalityType
<1>2. /\ IsFiniteSet(S \cup {x})
      /\ Cardinality(S \cup {x}) = IF x \in S THEN Cardinality(S) ELSE Cardinality(S) + 1
  BY FS_AddElement
<1> QED BY <1>1, <1>2

LEMMA CommitFacts ==
    ASSUME Settles, NEW h \in Handlers, Commit(h)
    PROVE  /\ handler[h] \in Handler /\ HandlerOK(handler[h]) /\ handler[h].pay \in Payments
           /\ TypeOK' /\ Checkouts'
           /\ \A g \in Handlers : handler'[g] = IF g = h THEN Idle ELSE handler[g]
           /\ \A q \in Payments :
                /\ coin'[q].sent = coin[q].sent /\ coin'[q].paid = coin[q].paid
                /\ row'[q] # "none" <=> row[q] # "none"
                /\ row[q] = "settled" => row'[q] = "settled"
                /\ claims[q] \in Nat /\ claims'[q] \in Nat /\ claims[q] <= claims'[q]
           /\ handler[h].seat => claims'[handler[h].pay] > 0
           /\ handler[h].found /\ SettledStatus(handler[h].st) => row'[handler[h].pay] = "settled"
<1> DEFINE y == handler[h]
           p == y.pay
<1>1. y \in Handler /\ HandlerOK(y) /\ p \in Payments
  BY DEF Settles, TypeOK, Commit, HandlerOK
<1>2. Idle \in Handler
  <2>1. NewHandler(p, y.st) \in Handler /\ Idle \in Handler
    BY <1>1, NewHandlerOK DEF Settles, Handler
  <2> QED BY <2>1
<1>3. /\ handler' \in [Handlers -> Handler]
      /\ \A g \in Handlers : handler'[g] = IF g = h THEN Idle ELSE handler[g]
  BY <1>2 DEF Commit, Settles, TypeOK
<1>4. /\ coin' \in [Payments -> Coin]
      /\ \A q \in Payments : coin'[q].sent = coin[q].sent /\ coin'[q].paid = coin[q].paid
                             /\ coin'[q].session = coin[q].session
  <2> DEFINE c == [coin[p] EXCEPT !.owed = @ /\ y.st # "forwarded"]
  <2>1. c \in Coin /\ c.sent = coin[p].sent /\ c.paid = coin[p].paid
        /\ c.session = coin[p].session
    BY <1>1 DEF Settles, TypeOK, Coin
  <2>2. coin' = [coin EXCEPT ![p] = c]
    BY DEF Commit
  <2> HIDE DEF c
  <2> QED BY <1>1, <2>1, <2>2 DEF Settles, TypeOK
<1>5. /\ row' \in [Payments -> {"none", "pending", "unsettled", "settled"}]
      /\ \A q \in Payments : /\ row'[q] # "none" <=> row[q] # "none"
                             /\ row[q] = "settled" => row'[q] = "settled"
      /\ y.found /\ SettledStatus(y.st) => row'[p] = "settled"
  <2>1. StatusAfter(row[p], y.st) \in {"unsettled", "settled"}
        /\ (row[p] = "settled" \/ SettledStatus(y.st) => StatusAfter(row[p], y.st) = "settled")
    BY DEF StatusAfter
  <2>2. row' = IF y.found THEN [row EXCEPT ![p] = StatusAfter(row[p], y.st)] ELSE row
    BY DEF Commit
  <2>3. y.found => row[p] # "none"
    BY <1>1 DEF HandlerOK
  <2>4. row \in [Payments -> {"none", "pending", "unsettled", "settled"}]
    BY DEF Settles, TypeOK
  <2> QED BY <1>1, <2>1, <2>2, <2>3, <2>4
<1>6. /\ claims' \in [Payments -> Nat]
      /\ \A q \in Payments : claims[q] \in Nat /\ claims'[q] \in Nat /\ claims[q] <= claims'[q]
      /\ y.seat => claims'[p] > 0
  <2>1. claims' = IF y.seat THEN [claims EXCEPT ![p] = @ + 1] ELSE claims
    BY DEF Commit
  <2>2. claims \in [Payments -> Nat]
    BY DEF Settles, TypeOK
  <2> QED BY <1>1, <2>1, <2>2
<1>7. /\ terms' \subseteq TermRow /\ seats' \subseteq SeatRow
      /\ sold' \in Nat /\ commissions' \subseteq Payments
  <2>1. Credited(h) \subseteq Payments
    BY <1>1 DEF Credited
  <2> QED BY <1>1, <2>1 DEF Commit, Settles, TypeOK, Handler
<1>8. TypeOK'
  BY <1>3, <1>4, <1>5, <1>6, <1>7 DEF Commit, Settles, TypeOK
<1>9. Checkouts'
  BY <1>4, <1>5 DEF Checkouts, Settles, Commit
<1> QED BY <1>1, <1>3, <1>4, <1>5, <1>6, <1>8, <1>9

LEMMA CommitTables ==
    ASSUME Settles, NEW h \in Handlers, Commit(h) PROVE Tables'
<1> DEFINE y == handler[h]
           p == y.pay
<1>1. /\ y \in Handler /\ HandlerOK(y) /\ p \in Payments
      /\ terms' = terms \cup y.term /\ seats' = seats \cup y.entitled
      /\ sold' = IF y.seat THEN sold + 1 ELSE sold
  BY CommitFacts DEF Commit
<1>2. /\ \A t \in terms : t.pay \in Payments
      /\ \A e \in seats : e.pay \in Payments
  BY DEF Settles, TypeOK, TermRow, SeatRow
<1>3. OneTermPerPayment'
  <2>1. \A s, t \in terms : s.pay = t.pay => s = t
    BY DEF Settles, Tables, OneTermPerPayment
  <2>2. \A t \in terms : y.term # {} => t.pay # p
    BY <1>1 DEF HandlerOK
  <2>3. (\A t \in y.term : t.pay = p) /\ (\A s, t \in y.term : s = t)
    BY <1>1 DEF HandlerOK
  <2> QED BY <1>1, <2>1, <2>2, <2>3 DEF OneTermPerPayment
<1>4. GrantsArePaid'
  <2>1. y.term # {} \/ y.entitled # {} => coin'[p].paid /\ row'[p] = "settled"
    <3> SUFFICES ASSUME y.term # {} \/ y.entitled # {}
                 PROVE  coin'[p].paid /\ row'[p] = "settled"
      OBVIOUS
    <3>1. y.found /\ SettledStatus(y.st) /\ y.st \in coin[p].sent
      BY <1>1 DEF HandlerOK, Commit
    <3>2. coin[p].paid
      BY <1>1, <3>1 DEF Settles, Checkouts
    <3> QED BY <1>1, <3>1, <3>2, CommitFacts
  <2>2. \A t \in y.term : t.pay = p
    BY <1>1 DEF HandlerOK
  <2>3. \A e \in y.entitled : e.pay = p
    BY <1>1 DEF HandlerOK
  <2>4. /\ \A t \in terms : coin'[t.pay].paid /\ row'[t.pay] = "settled"
        /\ \A e \in seats : coin'[e.pay].paid /\ row'[e.pay] = "settled"
    BY <1>2, CommitFacts DEF Settles, Tables, GrantsArePaid
  <2> QED BY <1>1, <2>1, <2>2, <2>3, <2>4 DEF GrantsArePaid
<1>5. IsFiniteSet(seats') /\ NotOversold'
  <2>1. IsFiniteSet(seats) /\ Cardinality(seats) <= sold /\ sold <= Capacity /\ sold \in Nat
    BY DEF Settles, Tables, NotOversold, TypeOK
  <2>2. CASE y.entitled = {}
    <3>1. seats' = seats
      BY <1>1, <2>2
    <3>2. sold <= sold' /\ sold' <= Capacity /\ sold' \in Nat
      BY <1>1, <2>1, SettlementAssumption DEF HandlerOK
    <3>3. Cardinality(seats) \in Nat
      BY <2>1, FS_CardinalityType
    <3> QED BY <2>1, <3>1, <3>2, <3>3 DEF NotOversold
  <2>3. CASE y.entitled # {}
    <3>1. PICK e : y.entitled = {e}
      <4>1. PICK e : e \in y.entitled
        BY <2>3
      <4>2. \A d \in y.entitled : d = e
        BY <1>1, <4>1 DEF HandlerOK
      <4> QED BY <4>1, <4>2
    <3>2. sold' = sold + 1 /\ sold' <= Capacity
      BY <1>1, <2>1, <2>3, SettlementAssumption DEF HandlerOK
    <3>3. seats' = seats \cup {e}
      BY <1>1, <3>1
    <3>4. IsFiniteSet(seats \cup {e}) /\ Cardinality(seats) \in Nat
          /\ Cardinality(seats \cup {e}) <= Cardinality(seats) + 1
      BY <2>1, OneMore
    <3>5. Cardinality(seats \cup {e}) \in Nat
      BY <3>4, FS_CardinalityType
    <3> QED BY <2>1, <3>2, <3>3, <3>4, <3>5 DEF NotOversold
  <2> QED BY <2>2, <2>3
<1>6. \A e \in seats' : claims'[e.pay] > 0
  <2>1. \A e \in seats : claims[e.pay] > 0
    BY DEF Settles, Tables
  <2>2. \A e \in y.entitled : e.pay = p /\ y.seat
    BY <1>1 DEF HandlerOK
  <2>3. \A e \in seats : claims'[e.pay] > 0
    BY <1>2, <2>1, CommitFacts
  <2> QED BY <1>1, <2>2, <2>3, CommitFacts
<1>7. CommissionIsEarned'
  <2>1. \A q \in commissions : (\E t \in terms' : t.pay = q) \/ claims'[q] > 0
    <3> SUFFICES ASSUME NEW q \in commissions
                 PROVE (\E t \in terms' : t.pay = q) \/ claims'[q] > 0
      OBVIOUS
    <3>1. q \in Payments /\ ((\E t \in terms : t.pay = q) \/ claims[q] > 0)
      BY DEF Settles, Tables, CommissionIsEarned, TypeOK
    <3>2. claims[q] \in Nat /\ claims'[q] \in Nat /\ claims[q] <= claims'[q]
      BY <3>1, CommitFacts
    <3> QED BY <1>1, <3>1, <3>2
  <2>2. y.granted => (\E t \in terms' : t.pay = p) \/ claims'[p] > 0
    <3>1. \A t \in y.term : t.pay = p
      BY <1>1 DEF HandlerOK
    <3>2. y.granted => y.term # {} \/ y.seat \/ claims[p] > 0 \/ \E t \in terms : t.pay = p
      BY <1>1 DEF HandlerOK
    <3>3. claims[p] \in Nat /\ claims'[p] \in Nat /\ claims[p] <= claims'[p]
          /\ (y.seat => claims'[p] > 0)
      BY <1>1, CommitFacts
    <3> QED BY <1>1, <3>1, <3>2, <3>3
  <2>3. commissions' = commissions \cup Credited(h)
    BY DEF Commit
  <2>4. \A q \in Credited(h) : q = p /\ y.granted
    BY DEF Credited
  <2> QED BY <2>1, <2>2, <2>3, <2>4 DEF CommissionIsEarned
<1> QED BY <1>3, <1>4, <1>5, <1>6, <1>7 DEF Tables

LEMMA CommitKeeps == ASSUME Settles, NEW h \in Handlers, Commit(h) PROVE Settles'
<1> DEFINE y == handler[h]
           p == y.pay
<1>1. /\ y \in Handler /\ HandlerOK(y) /\ p \in Payments
      /\ terms' = terms \cup y.term
      /\ sold' = IF y.seat THEN sold + 1 ELSE sold
      /\ \A g \in Handlers : handler'[g] = IF g = h THEN Idle ELSE handler[g]
  BY CommitFacts DEF Commit
<1>2. Idle.step = "idle" /\ ~Idle.found /\ ~Idle.granted /\ ~Idle.seat
      /\ Idle.term = {} /\ Idle.entitled = {}
  BY DEF Idle, NewHandler
<1>3. Locks'
  BY <1>1, <1>2 DEF Settles, Locks, Apart
<1>4. Ended'
  <2>1. PICK b \in Nat : Bounded(b, terms) /\ \A g \in Handlers : Bounded(b, handler[g].term)
    BY DEF Settles, Ended
  <2>2. Bounded(b, terms \cup y.term) /\ Bounded(b, Idle.term)
    BY <1>2, <2>1 DEF Bounded
  <2>3. Bounded(b, terms') /\ \A g \in Handlers : Bounded(b, handler'[g].term)
    BY <1>1, <2>1, <2>2
  <2> QED BY <2>3 DEF Ended, Bounded
<1>5. ASSUME NEW g \in Handlers PROVE HandlerOK(handler[g])'
  <2>1. CASE g = h
    BY <1>1, <1>2, <2>1 DEF HandlerOK
  <2>2. CASE g # h
    <3> DEFINE x == handler[g]
    <3>1. handler'[g] = x /\ HandlerOK(x) /\ Apart(y, x)
      BY <1>1, <2>2 DEF Settles, Locks
    <3>2. x.step # "idle" => x.pay \in Payments /\ x.st \in coin'[x.pay].sent
      BY <3>1, CommitFacts DEF HandlerOK
    <3>3. x.found => row'[x.pay] # "none"
      BY <3>1, CommitFacts DEF HandlerOK
    <3>4. x.term # {} => \A t \in terms' : t.pay # x.pay
      <4>1. x.term # {} => x.found /\ \A t \in terms : t.pay # x.pay
        BY <3>1 DEF HandlerOK
      <4>2. \A t \in y.term : y.found /\ t.pay = p
        BY <1>1 DEF HandlerOK
      <4> QED BY <1>1, <3>1, <4>1, <4>2 DEF Apart
    <3>5. x.seat => sold' < Capacity
      BY <1>1, <3>1 DEF HandlerOK, Apart
    <3>6. x.granted => \/ x.term # {} \/ x.seat \/ claims'[x.pay] > 0
                       \/ \E t \in terms' : t.pay = x.pay
      <4>1. x.granted => x.pay \in Payments
        BY <3>1 DEF HandlerOK
      <4>2. x.pay \in Payments => /\ claims[x.pay] \in Nat /\ claims'[x.pay] \in Nat
                                  /\ claims[x.pay] <= claims'[x.pay]
        BY CommitFacts
      <4>3. x.granted => \/ x.term # {} \/ x.seat \/ claims[x.pay] > 0
                         \/ \E t \in terms : t.pay = x.pay
        BY <3>1 DEF HandlerOK
      <4> QED BY <1>1, <4>1, <4>2, <4>3
    <3> HIDE DEF x
    <3> QED BY <3>1, <3>2, <3>3, <3>4, <3>5, <3>6 DEF HandlerOK
  <2> QED BY <2>1, <2>2
<1> QED BY <1>3, <1>4, <1>5, CommitFacts, CommitTables DEF Settles

----------------------------------------------------------------------------

(* Time passes, or nothing does.                                           *)
LEMMA TickKeeps == ASSUME Settles, Tick PROVE Settles'
<1> USE DEF Settles, Tick, tables
<1>1. TypeOK'
  BY SettlementAssumption DEF TypeOK
<1>2. Checkouts' /\ Locks' /\ Ended'
  BY DEF Checkouts, Locks, Apart, Ended, Bounded
<1>3. Tables'
  BY DEF Tables, OneTermPerPayment, GrantsArePaid, NotOversold, CommissionIsEarned
<1>4. \A h \in Handlers : HandlerOK(handler[h])'
  BY DEF HandlerOK
<1> QED BY <1>1, <1>2, <1>3, <1>4

LEMMA StutterKeeps == ASSUME Settles, UNCHANGED vars PROVE Settles'
<1> USE DEF Settles, vars
<1>1. TypeOK' /\ Checkouts' /\ Locks' /\ Ended'
  BY DEF TypeOK, Checkouts, Locks, Apart, Ended, Bounded
<1>2. Tables'
  BY DEF Tables, OneTermPerPayment, GrantsArePaid, NotOversold, CommissionIsEarned
<1>3. \A h \in Handlers : HandlerOK(handler[h])'
  BY DEF HandlerOK
<1> QED BY <1>1, <1>2, <1>3

(* The inductive invariant holds of every reachable state.                 *)
THEOREM SettlesAlways == Spec => []Settles
<1>1. Settles /\ [Next]_vars => Settles'
  <2> SUFFICES ASSUME Settles, [Next]_vars PROVE Settles'
    OBVIOUS
  <2>1. ASSUME NEW p \in Payments, CheckoutStep(p) \/ CoinPayStep(p) PROVE Settles'
    BY <2>1, CheckoutKeeps
  <2>2. ASSUME NEW h \in Handlers, ReceiveStep(h) \/ Fail(h) PROVE Settles'
    BY <2>2, ReceiveKeeps, FailKeeps
  <2>3. ASSUME NEW h \in Handlers, HandlerStep(h) PROVE Settles'
    BY <2>3, UpdateKeeps, InsertKeeps, HeldKeeps, ClaimKeeps, EntitleKeeps, CommitKeeps
       DEF HandlerStep
  <2> QED BY <2>1, <2>2, <2>3, TickKeeps, StutterKeeps DEF Next
<1> QED BY <1>1, InitSettles, PTL DEF Spec

(* Every variable keeps its type; in particular a renewal always finds the *)
(* end of the terms it stacks on (grantMembership, grantLivePass).         *)
THEOREM TypeCorrect == Spec => []TypeOK
BY SettlesAlways, PTL DEF Settles

(* A payment buys one term, however often and however concurrently its two *)
(* settling events are handled (settleWebhook, "idempotent").              *)
THEOREM TermsAreUnique == Spec => []OneTermPerPayment
<1>1. Settles => OneTermPerPayment
  BY DEF Settles, Tables
<1> QED BY <1>1, SettlesAlways, PTL

(* Nothing is handed out for an event that is genuine but says no          *)
(* (SETTLED).                                                              *)
THEOREM NothingUnpaid == Spec => []GrantsArePaid
<1>1. Settles => GrantsArePaid
  BY DEF Settles, Tables
<1> QED BY <1>1, SettlesAlways, PTL

(* The last seat goes to exactly one buyer (claimOfferSeat).               *)
THEOREM OfferHolds == Spec => []NotOversold
<1>1. Settles => NotOversold
  BY DEF Settles, Tables
<1> QED BY <1>1, SettlesAlways, PTL

(* A commission is owed on something that was delivered (creditReferral).  *)
THEOREM CommissionsEarned == Spec => []CommissionIsEarned
<1>1. Settles => CommissionIsEarned
  BY DEF Settles, Tables
<1> QED BY <1>1, SettlesAlways, PTL

(* A settled payment is never un-paid by a later event (settleWebhook).    *)
THEOREM SettledForGood == Spec => SettledStays
<1> DEFINE Stays == \A p \in Payments : row[p] = "settled" => row'[p] = "settled"
<1>1. Settles /\ [Next]_vars => Stays
  <2> SUFFICES ASSUME Settles, [Next]_vars, NEW p \in Payments, row[p] = "settled"
               PROVE  row'[p] = "settled"
    OBVIOUS
  <2>1. ASSUME NEW q \in Payments, CheckoutStep(q) \/ CoinPayStep(q) PROVE row'[p] = "settled"
    <3>1. CASE InsertPayment(q)
      BY <3>1 DEF InsertPayment, Settles, Checkouts, TypeOK
    <3>2. CASE ~InsertPayment(q)
      BY <2>1, <3>2 DEF CheckoutStep, CoinPayStep, OpenSession, Pay, Forward, Expire, tables
    <3> QED BY <3>1, <3>2
  <2>2. ASSUME NEW h \in Handlers, Commit(h) PROVE row'[p] = "settled"
    BY <2>2, CommitFacts
  <2>3. ASSUME NEW h \in Handlers, ReceiveStep(h) \/ Fail(h) \/ HandlerStep(h), ~Commit(h)
        PROVE  row'[p] = "settled"
    BY <2>3 DEF ReceiveStep, Receive, Fail, HandlerStep, UpdatePayment, InsertTerm, HeldSeat,
                ClaimSeat, Entitle, tables
  <2> QED BY <2>1, <2>2, <2>3 DEF Next, Tick, tables, vars
<1>2. Settles /\ [Next]_vars => [Stays]_vars
  BY <1>1
<1> QED BY <1>2, SettlesAlways, PTL DEF Spec, SettledStays

----------------------------------------------------------------------------
(* One seat per payment.  While a payment is between the check that it has  *)
(* no seat and its commit it holds its row, so the check stays true; what   *)
(* can still take the seat away from it is that its buyer has the fixture   *)
(* by another payment, which nobody who buys it once has.                   *)

NobodyTwice ==
    \A p, q \in Payments :
        order[p] = order[q] /\ p # q => order[p] = NoOrder \/ Kind(p) # "seat"
Seated(p) == \E e \in seats : e.pay = p

\* What a transaction for a seat knows of the seats.
SeatOK(x) ==
    /\ x.step \in {"held", "claim", "entitle"} \/ x.seat => Kind(x.pay) = "seat"
    /\ x.step \in {"claim", "entitle"} \/ x.seat => ~Seated(x.pay)
    /\ \A e \in x.entitled : e.user = Buyer(x.pay)
Together(x) == x.seat /\ x.step = "commit" => x.entitled # {}

Unopened == \A p \in Payments : coin[p].session = "none" => order[p] = NoOrder
SeatsOrdered == \A e \in seats : order[e.pay] = [user |-> e.user, kind |-> "seat"]
OneEach == NobodyTwice => /\ \A p \in Payments : claims[p] = IF Seated(p) THEN 1 ELSE 0
                          /\ \A h \in Handlers : Together(handler[h])

SeatInv == /\ Unopened /\ SeatsOrdered /\ OneEach
           /\ \A h \in Handlers : SeatOK(handler[h])

LEMMA InitSeats == Init => SeatInv
<1> SUFFICES ASSUME Init PROVE SeatInv
  OBVIOUS
<1>1. Idle.step = "idle" /\ ~Idle.seat /\ Idle.entitled = {}
  BY DEF Idle, NewHandler
<1>2. \A h \in Handlers : SeatOK(handler[h]) /\ Together(handler[h])
  BY <1>1 DEF Init, SeatOK, Together
<1> QED BY <1>2 DEF Init, SeatInv, Unopened, SeatsOrdered, OneEach, Seated

(* An order is written once, before anything is known of its payment.      *)
LEMMA CheckoutSeats ==
    ASSUME Settles, SeatInv, NEW p \in Payments, CheckoutStep(p) \/ CoinPayStep(p)
    PROVE  SeatInv'
<1>1. /\ UNCHANGED <<seats, claims, handler>>
      /\ \A q \in Payments : /\ coin[q].session # "none" => coin'[q].session # "none"
                             /\ coin[q].session # "none" => order'[q] = order[q]
                             /\ coin'[q].session = "none" => order'[q] = order[q]
  <2>1. coin \in [Payments -> Coin] /\ order \in [Payments -> Orders \cup {NoOrder}]
    BY DEF Settles, TypeOK
  <2>2. CASE InsertPayment(p)
    BY <2>1, <2>2 DEF InsertPayment, Coin
  <2>3. ASSUME NEW u \in Users, NEW k \in Kinds, OpenSession(p, u, k) PROVE <1>1!2
    BY <2>1, <2>3 DEF OpenSession, Coin
  <2>4. CASE CoinPayStep(p)
    BY <2>1, <2>4 DEF CoinPayStep, Pay, Forward, Expire, tables, Coin
  <2>5. UNCHANGED <<seats, claims, handler>>
    BY DEF CheckoutStep, InsertPayment, OpenSession, CoinPayStep, Pay, Forward, Expire, tables
  <2> QED BY <2>2, <2>3, <2>4, <2>5 DEF CheckoutStep
<1>2. \A q \in Payments : row[q] # "none" => coin[q].session # "none" /\ order'[q] = order[q]
  BY <1>1 DEF Settles, Checkouts
<1>3. Unopened'
  BY <1>1 DEF SeatInv, Unopened
<1>4. SeatsOrdered'
  <2>1. \A e \in seats : e.pay \in Payments /\ row[e.pay] # "none"
    BY DEF Settles, Tables, GrantsArePaid, TypeOK, SeatRow
  <2> QED BY <1>1, <1>2, <2>1 DEF SeatInv, SeatsOrdered
<1>5. NobodyTwice' => NobodyTwice
  <2> SUFFICES ASSUME NobodyTwice', NEW q \in Payments, NEW r \in Payments,
                      order[q] = order[r], q # r, order[q] # NoOrder
               PROVE  Kind(q) # "seat"
    BY DEF NobodyTwice
  <2>1. coin[q].session # "none" /\ coin[r].session # "none"
    BY DEF SeatInv, Unopened
  <2>2. order'[q] = order[q] /\ order'[r] = order[r]
    BY <1>1, <2>1
  <2> QED BY <2>2 DEF NobodyTwice, Kind
<1>6. OneEach'
  BY <1>1, <1>5 DEF SeatInv, OneEach, Seated, Together
<1>7. ASSUME NEW h \in Handlers PROVE SeatOK(handler[h])'
  <2> DEFINE x == handler[h]
  <2>1. SeatOK(x) /\ HandlerOK(x)
    BY DEF SeatInv, Settles
  <2>2. x.found => x.pay \in Payments /\ order'[x.pay] = order[x.pay]
    BY <1>2, <2>1 DEF HandlerOK
  <2>3. x.step \in {"held", "claim", "entitle"} \/ x.seat \/ x.entitled # {} => x.found
    BY <2>1 DEF HandlerOK
  <2>4. /\ x.step \in {"held", "claim", "entitle"} \/ x.seat => order'[x.pay].kind = "seat"
        /\ x.step \in {"claim", "entitle"} \/ x.seat => \A e \in seats : e.pay # x.pay
        /\ \A e \in x.entitled : e.user = order'[x.pay].user
    BY <2>1, <2>2, <2>3 DEF SeatOK, Kind, Buyer, Seated
  <2> QED BY <1>1, <2>4 DEF SeatOK, Kind, Buyer, Seated
<1> QED BY <1>3, <1>4, <1>6, <1>7 DEF SeatInv

(* A statement of one transaction: the tables stay, its record changes.    *)
LEMMA StatementSeats ==
    ASSUME Settles, SeatInv, NEW h \in Handlers, NEW x,
           handler' = [handler EXCEPT ![h] = x], UNCHANGED <<now, coin, tables>>,
           SeatOK(x), NobodyTwice => Together(x)
    PROVE  SeatInv'
<1>1. \A g \in Handlers : handler'[g] = IF g = h THEN x ELSE handler[g]
  BY DEF Settles, TypeOK
<1>2. Unopened' /\ SeatsOrdered'
  BY DEF SeatInv, Unopened, SeatsOrdered, tables
<1>3. \A g \in Handlers : SeatOK(handler[g])'
  <2>1. \A g \in Handlers : SeatOK(handler'[g])
    BY <1>1 DEF SeatInv
  <2> QED BY <2>1 DEF SeatOK, Kind, Buyer, Seated, tables
<1>4. OneEach'
  <2>1. NobodyTwice' => NobodyTwice
    BY DEF NobodyTwice, Kind, tables
  <2>2. NobodyTwice => \A g \in Handlers : Together(handler'[g])
    BY <1>1 DEF SeatInv, OneEach
  <2>3. NobodyTwice => \A q \in Payments : claims[q] = IF Seated(q) THEN 1 ELSE 0
    BY DEF SeatInv, OneEach
  <2> QED BY <2>1, <2>2, <2>3 DEF OneEach, Together, Seated, tables
<1> QED BY <1>2, <1>3, <1>4 DEF SeatInv

LEMMA ReceiveSeats ==
    ASSUME Settles, SeatInv, NEW h \in Handlers, ReceiveStep(h) \/ Fail(h) PROVE SeatInv'
<1>1. PICK x : /\ handler' = [handler EXCEPT ![h] = x] /\ UNCHANGED <<now, coin, tables>>
               /\ x.step \in {"idle", "begin"} /\ ~x.seat /\ x.entitled = {}
  <2>1. ASSUME NEW p \in Payments, NEW st \in Statuses, Receive(h, p, st)
        PROVE  \E x : /\ handler' = [handler EXCEPT ![h] = x] /\ UNCHANGED <<now, coin, tables>>
                      /\ x.step \in {"idle", "begin"} /\ ~x.seat /\ x.entitled = {}
    <3> DEFINE n == NewHandler(p, st)
    <3>1. n.step = "begin" /\ ~n.seat /\ n.entitled = {}
      BY DEF NewHandler
    <3>2. handler' = [handler EXCEPT ![h] = n] /\ UNCHANGED <<now, coin, tables>>
      BY <2>1 DEF Receive
    <3> HIDE DEF n
    <3> QED BY <3>1, <3>2
  <2>2. CASE Fail(h)
    <3>1. Idle.step = "idle" /\ ~Idle.seat /\ Idle.entitled = {}
      BY DEF Idle, NewHandler
    <3> QED BY <2>2, <3>1 DEF Fail
  <2> QED BY <2>1, <2>2 DEF ReceiveStep
<1>2. SeatOK(x) /\ Together(x)
  BY <1>1 DEF SeatOK, Together
<1> QED BY <1>1, <1>2, StatementSeats

LEMMA UpdateSeats == ASSUME Settles, SeatInv, NEW h \in Handlers, UpdatePayment(h) PROVE SeatInv'
<1> DEFINE y == handler[h]
           goal == IF ~SettledStatus(y.st) \/ row[y.pay] = "none" THEN "commit"
                   ELSE IF Kind(y.pay) = "seat" THEN "held" ELSE "term"
           x == [y EXCEPT !.step = goal, !.found = row[y.pay] # "none"]
<1>1. y \in Handler /\ HandlerOK(y) /\ y.step = "begin"
  BY DEF Settles, TypeOK, UpdatePayment
<1>2. handler' = [handler EXCEPT ![h] = x] /\ UNCHANGED <<now, coin, tables>>
  BY DEF UpdatePayment
<1>3. goal \in {"commit", "held", "term"} /\ (goal = "held" => Kind(y.pay) = "seat")
  OBVIOUS
<1> HIDE DEF goal
<1>4. x.step = goal /\ x.pay = y.pay /\ x.seat = y.seat /\ x.entitled = y.entitled
  BY <1>1 DEF Handler
<1> HIDE DEF x
<1>5. ~y.seat /\ y.entitled = {}
  BY <1>1 DEF HandlerOK
<1>6. SeatOK(x) /\ Together(x)
  BY <1>3, <1>4, <1>5 DEF SeatOK, Together
<1> QED BY <1>2, <1>6, StatementSeats

LEMMA InsertSeats == ASSUME Settles, SeatInv, NEW h \in Handlers, InsertTerm(h) PROVE SeatInv'
<1> DEFINE y == handler[h]
           p == y.pay
           bought == \E t \in terms : t.pay = p
           new == [kind |-> Kind(p), user |-> Buyer(p), pay |-> p,
                   start |-> StartOf(h, Buyer(p), Kind(p))]
           x == [y EXCEPT !.step = "commit", !.granted = ~bought \/ Kind(p) = "membership",
                          !.term = IF bought THEN {} ELSE {new}]
<1>1. y \in Handler /\ HandlerOK(y) /\ y.step = "term"
  BY DEF Settles, TypeOK, InsertTerm
<1>2. handler' = [handler EXCEPT ![h] = x] /\ UNCHANGED <<now, coin, tables>>
  BY DEF InsertTerm
<1> HIDE DEF new, bought
<1>3. x.step = "commit" /\ x.seat = y.seat /\ x.entitled = y.entitled
  BY <1>1 DEF Handler
<1> HIDE DEF x
<1>4. ~y.seat /\ y.entitled = {}
  BY <1>1 DEF HandlerOK
<1>5. SeatOK(x) /\ Together(x)
  BY <1>3, <1>4 DEF SeatOK, Together
<1> QED BY <1>2, <1>5, StatementSeats

LEMMA HeldSeats == ASSUME Settles, SeatInv, NEW h \in Handlers, HeldSeat(h) PROVE SeatInv'
<1> DEFINE y == handler[h]
           held == \E e \in seats : e.pay = y.pay
           x == [y EXCEPT !.step = IF held THEN "commit" ELSE "claim", !.granted = held]
<1>1. y \in Handler /\ HandlerOK(y) /\ y.step = "held" /\ SeatOK(y)
  BY DEF Settles, TypeOK, HeldSeat, SeatInv
<1>2. handler' = [handler EXCEPT ![h] = x] /\ UNCHANGED <<now, coin, tables>>
  BY DEF HeldSeat
<1>3. held <=> Seated(y.pay)
  BY DEF Seated
<1> HIDE DEF held
<1>4. /\ x.step = (IF held THEN "commit" ELSE "claim")
      /\ x.pay = y.pay /\ x.seat = y.seat /\ x.entitled = y.entitled
  BY <1>1 DEF Handler
<1> HIDE DEF x
<1>5. ~y.seat /\ y.entitled = {} /\ Kind(y.pay) = "seat"
  BY <1>1 DEF HandlerOK, SeatOK
<1>6. SeatOK(x) /\ Together(x)
  BY <1>3, <1>4, <1>5 DEF SeatOK, Together
<1> QED BY <1>2, <1>6, StatementSeats

LEMMA ClaimSeats == ASSUME Settles, SeatInv, NEW h \in Handlers, ClaimSeat(h) PROVE SeatInv'
<1> DEFINE y == handler[h]
           left == sold < Capacity
           x == [y EXCEPT !.step = IF left THEN "entitle" ELSE "commit", !.seat = left]
<1>1. y \in Handler /\ HandlerOK(y) /\ y.step = "claim" /\ SeatOK(y)
  BY DEF Settles, TypeOK, ClaimSeat, SeatInv
<1>2. handler' = [handler EXCEPT ![h] = x] /\ UNCHANGED <<now, coin, tables>>
  BY DEF ClaimSeat
<1>3. left \in BOOLEAN
  OBVIOUS
<1> HIDE DEF left
<1>4. /\ x.step = (IF left THEN "entitle" ELSE "commit") /\ x.seat = left
      /\ x.pay = y.pay /\ x.entitled = y.entitled
  BY <1>1, <1>3 DEF Handler
<1> HIDE DEF x
<1>5. y.entitled = {} /\ Kind(y.pay) = "seat" /\ ~Seated(y.pay)
  BY <1>1 DEF HandlerOK, SeatOK
<1>6. SeatOK(x) /\ Together(x)
  BY <1>3, <1>4, <1>5 DEF SeatOK, Together
<1> QED BY <1>2, <1>6, StatementSeats

(* The entitlement: only somebody who already has the fixture gets none.   *)
LEMMA EntitleSeats == ASSUME Settles, SeatInv, NEW h \in Handlers, Entitle(h) PROVE SeatInv'
<1> DEFINE y == handler[h]
           p == y.pay
           mine == IF \E e \in seats : e.user = Buyer(p) THEN {}
                   ELSE {[user |-> Buyer(p), pay |-> p]}
           x == [y EXCEPT !.step = "commit", !.granted = TRUE, !.entitled = mine]
<1>1. y \in Handler /\ HandlerOK(y) /\ y.step = "entitle" /\ SeatOK(y)
  BY DEF Settles, TypeOK, Entitle, SeatInv
<1>2. handler' = [handler EXCEPT ![h] = x] /\ UNCHANGED <<now, coin, tables>>
  BY DEF Entitle
<1>3. p \in Payments /\ Kind(p) = "seat" /\ ~Seated(p) /\ y.seat /\ row[p] # "none"
  BY <1>1 DEF HandlerOK, SeatOK
<1>4. order[p] \in Orders /\ order[p] # NoOrder
  BY <1>3, SettlementAssumption DEF Settles, Checkouts
<1>5. order[p] = [user |-> Buyer(p), kind |-> "seat"]
  BY <1>3, <1>4 DEF Orders, Buyer, Kind
<1>6. ASSUME NobodyTwice, NEW e \in seats, e.user = Buyer(p) PROVE FALSE
  <2>1. e.pay \in Payments /\ e.pay # p
    BY <1>3, <1>6 DEF Settles, TypeOK, SeatRow, Seated
  <2>2. order[e.pay] = [user |-> Buyer(p), kind |-> "seat"]
    BY <1>6 DEF SeatInv, SeatsOrdered
  <2> QED BY <1>3, <1>4, <1>5, <1>6, <2>1, <2>2 DEF NobodyTwice
<1>7. NobodyTwice => mine # {}
  BY <1>6
<1>8. \A e \in mine : e.user = Buyer(p)
  OBVIOUS
<1> HIDE DEF mine
<1>9. /\ x.step = "commit" /\ x.seat = y.seat
      /\ x.pay = p /\ x.entitled = mine
  BY <1>1 DEF Handler
<1> HIDE DEF x
<1>10. SeatOK(x) /\ (NobodyTwice => Together(x))
  BY <1>3, <1>7, <1>8, <1>9 DEF SeatOK, Together
<1> QED BY <1>2, <1>10, StatementSeats

LEMMA CommitSeats == ASSUME Settles, SeatInv, NEW h \in Handlers, Commit(h) PROVE SeatInv'
<1> DEFINE y == handler[h]
           p == y.pay
<1>1. /\ y \in Handler /\ HandlerOK(y) /\ SeatOK(y) /\ p \in Payments /\ y.step = "commit"
      /\ seats' = seats \cup y.entitled /\ order' = order
      /\ claims' = IF y.seat THEN [claims EXCEPT ![p] = @ + 1] ELSE claims
      /\ \A g \in Handlers : handler'[g] = IF g = h THEN Idle ELSE handler[g]
  BY CommitFacts DEF Commit, SeatInv
<1>2. claims \in [Payments -> Nat] /\ coin \in [Payments -> Coin]
  BY DEF Settles, TypeOK
<1>3. Idle.step = "idle" /\ ~Idle.seat /\ Idle.entitled = {}
  BY DEF Idle, NewHandler
<1>4. y.entitled # {} => y.seat /\ y.found /\ row[p] # "none"
  BY <1>1 DEF HandlerOK
<1>5. Unopened'
  <2>1. \A q \in Payments : coin'[q].session = coin[q].session
    <3> DEFINE c == [coin[p] EXCEPT !.owed = @ /\ y.st # "forwarded"]
    <3>1. c.session = coin[p].session
      BY <1>1, <1>2 DEF Coin
    <3>2. coin' = [coin EXCEPT ![p] = c]
      BY DEF Commit
    <3> HIDE DEF c
    <3> QED BY <1>1, <1>2, <3>1, <3>2
  <2> QED BY <1>1, <2>1 DEF SeatInv, Unopened
<1>6. SeatsOrdered'
  <2>1. ASSUME NEW e \in y.entitled PROVE order[e.pay] = [user |-> e.user, kind |-> "seat"]
    <3>1. e.pay = p /\ e.user = Buyer(p) /\ Kind(p) = "seat"
      BY <1>1, <1>4, <2>1 DEF HandlerOK, SeatOK
    <3>2. order[p] \in Orders
      BY <1>1, <1>4, <2>1 DEF Settles, Checkouts
    <3> QED BY <3>1, <3>2 DEF Orders, Buyer, Kind
  <2> QED BY <1>1, <2>1 DEF SeatInv, SeatsOrdered
<1>7. \A q \in Payments : Seated(q)' <=> Seated(q) \/ (q = p /\ y.entitled # {})
  <2>1. \A e \in y.entitled : e.pay = p
    BY <1>1 DEF HandlerOK
  <2> QED BY <1>1, <2>1 DEF Seated
<1>8. ASSUME NEW g \in Handlers PROVE SeatOK(handler[g])'
  <2>1. CASE g = h
    BY <1>1, <1>3, <2>1 DEF SeatOK
  <2>2. CASE g # h
    <3> DEFINE x == handler[g]
    <3>1. handler'[g] = x /\ HandlerOK(x) /\ SeatOK(x) /\ Apart(y, x)
      BY <1>1, <2>2 DEF Settles, Locks, SeatInv
    <3>2. x.step \in {"claim", "entitle"} \/ x.seat => x.found /\ x.pay \in Payments
      BY <3>1 DEF HandlerOK
    <3>3. x.step \in {"claim", "entitle"} \/ x.seat => ~(x.pay = p /\ y.entitled # {})
      BY <1>4, <3>1, <3>2 DEF Apart
    <3>4. x.step \in {"claim", "entitle"} \/ x.seat => \A e \in seats' : e.pay # x.pay
      BY <1>7, <3>1, <3>2, <3>3 DEF SeatOK, Seated
    <3> QED BY <1>1, <3>1, <3>4 DEF SeatOK, Seated, Kind, Buyer
  <2> QED BY <2>1, <2>2
<1>9. OneEach'
  <2> SUFFICES ASSUME NobodyTwice'
               PROVE  /\ \A q \in Payments : claims'[q] = IF Seated(q)' THEN 1 ELSE 0
                      /\ \A g \in Handlers : Together(handler[g])'
    BY DEF OneEach
  <2>1. NobodyTwice
    BY <1>1 DEF NobodyTwice, Kind
  <2>2. /\ \A q \in Payments : claims[q] = IF Seated(q) THEN 1 ELSE 0
        /\ \A g \in Handlers : Together(handler[g])
    BY <2>1 DEF SeatInv, OneEach
  <2>3. y.seat <=> y.entitled # {}
    BY <1>1, <1>4, <2>2 DEF Together
  <2>4. y.seat => ~Seated(p)
    BY <1>1 DEF SeatOK
  <2>5. \A q \in Payments : claims'[q] = IF Seated(q)' THEN 1 ELSE 0
    <3>1. ASSUME NEW q \in Payments, q # p PROVE claims'[q] = IF Seated(q)' THEN 1 ELSE 0
      BY <1>1, <1>2, <1>7, <2>2, <3>1
    <3>2. \A q \in Payments : q = p => claims'[q] = IF Seated(q)' THEN 1 ELSE 0
      <4>1. CASE y.seat
        BY <1>1, <1>2, <1>7, <2>2, <2>3, <2>4, <4>1
      <4>2. CASE ~y.seat
        BY <1>1, <1>2, <1>7, <2>2, <2>3, <4>2
      <4> QED BY <4>1, <4>2
    <3> QED BY <3>1, <3>2
  <2>6. \A g \in Handlers : Together(handler[g])'
    <3>1. \A g \in Handlers : Together(handler'[g])
      BY <1>1, <1>3, <2>2 DEF Together
    <3> QED BY <3>1 DEF Together
  <2> QED BY <2>5, <2>6
<1> QED BY <1>5, <1>6, <1>8, <1>9 DEF SeatInv

LEMMA QuietSeats == ASSUME SeatInv, Tick \/ UNCHANGED vars PROVE SeatInv'
<1>1. UNCHANGED <<coin, order, seats, claims, handler>>
  BY DEF Tick, tables, vars
<1> QED BY <1>1 DEF SeatInv, Unopened, SeatsOrdered, OneEach, NobodyTwice, SeatOK, Together,
                    Seated, Kind, Buyer

(* When nobody buys the same fixture twice, a payment takes one seat, and   *)
(* takes it only together with the entitlement (claimOfferSeat and          *)
(* grantEventEntitlement of one settlement).                                *)
THEOREM SeatsAreSingle == Spec => []OneSeatPerPayment
<1>1. Settles /\ SeatInv /\ [Next]_vars => SeatInv'
  <2> SUFFICES ASSUME Settles, SeatInv, [Next]_vars PROVE SeatInv'
    OBVIOUS
  <2>1. ASSUME NEW p \in Payments, CheckoutStep(p) \/ CoinPayStep(p) PROVE SeatInv'
    BY <2>1, CheckoutSeats
  <2>2. ASSUME NEW h \in Handlers, ReceiveStep(h) \/ Fail(h) PROVE SeatInv'
    BY <2>2, ReceiveSeats
  <2>3. ASSUME NEW h \in Handlers, HandlerStep(h) PROVE SeatInv'
    BY <2>3, UpdateSeats, InsertSeats, HeldSeats, ClaimSeats, EntitleSeats, CommitSeats
       DEF HandlerStep
  <2> QED BY <2>1, <2>2, <2>3, QuietSeats DEF Next
<1>2. SeatInv => OneSeatPerPayment
  BY DEF SeatInv, OneEach, NobodyTwice, Seated, OneSeatPerPayment
<1> QED BY <1>1, <1>2, InitSeats, SettlesAlways, PTL DEF Spec
=============================================================================
