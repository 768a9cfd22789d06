------------------------------- MODULE SignIn -------------------------------
(* The emailed link and what it carries: a link is minted for an address, spent    *)
(* once, and spending it makes the account if there is none.  On the way the       *)
(* signup form's fields, the personal invite of an inviter (invite_claims, what a  *)
(* commission is paid against) and the scarce invite (single use, days for both)   *)
(* are settled, each by statements of its own, so that a handler that dies leaves   *)
(* what it has written.  A credit code is redeemed by the same kind of handler.     *)
(* packages/auth/src/index.js and invites.js, packages/credits/src/index.js and the *)
(* routes /api/auth/magic, /auth/magic, /i/:code, /api/invites, /api/credits.       *)
EXTENDS Naturals, FiniteSets

CONSTANTS
    Handlers,    \* requests being served
    Links,       \* tokens of emailed links
    Newcomers,   \* addresses without an account
    Member,      \* an address whose account is older than the behaviour
    Inviters,    \* accounts that hand out their personal link
    Host,        \* the one whose scarce invite is in circulation
    Forms,       \* what a link may carry: a scarce invite, the fields of the signup form
    MaxUses,     \* max_redemptions of the credit code
    MaxRequests, \* bound: requests that are opened
    MaxFaults,   \* bound: statements that throw, processes that die
    None

Addresses == Newcomers \cup {Member}
Sides == {"invitee", "inviter"}

VARIABLES
    link,      \* login_tokens
    accounts,  \* addresses in users
    inCircle,  \* inviters whose users.invite_code is set
    claim,     \* invite_claims: by invited address, the inviter and the link it came with
    scarce,    \* the row of aff_invites: who used it and through which link, withdrawn
    terms,     \* free terms by grant_ref: live_passes and memberships without a payment
    redeemed,  \* credit_redemptions of the code
    saved,     \* addresses with the profile of their signup form
    handler,   \* locals of the requests in flight
    born,      \* history: the link whose sign-in was told that it created the account
    births,    \* history: how many sign-ins of the address were told so
    requests, faults

vars == <<link, accounts, inCircle, claim, scarce, terms, redeemed, saved, handler, born,
          births, requests, faults>>

NoLink == [state |-> "none", addr |-> Member, scarce |-> FALSE, profile |-> FALSE]
Idle == [pc |-> "idle", link |-> None, addr |-> None, code |-> None, scarce |-> FALSE,
         profile |-> FALSE, created |-> FALSE, bonus |-> {}]
Unused == [by |-> None, link |-> None, withdrawn |-> FALSE]

SignInSteps == {"consume", "account", "claim", "scarce", "bonus", "save"}

Locals ==
    [pc: {"idle", "spend", "days", "withdraw"} \cup SignInSteps,
     link: Links \cup {None}, addr: Addresses \cup {None}, code: Inviters \cup {None},
     scarce: BOOLEAN, profile: BOOLEAN, created: BOOLEAN, bonus: SUBSET Sides]

TypeOK ==
    /\ link \in [Links -> [state: {"none", "open", "expired", "spent"}, addr: Addresses,
                           scarce: BOOLEAN, profile: BOOLEAN]]
    /\ accounts \subseteq Addresses
    /\ inCircle \subseteq Inviters
    /\ claim \in [Addresses -> [by: Inviters \cup {None}, link: Links \cup {None}]]
    /\ scarce \in [by: Addresses \cup {None}, link: Links \cup {None}, withdrawn: BOOLEAN]
    /\ terms \subseteq [ref: {"code"} \cup Sides, to: Addresses \cup Inviters]
    /\ redeemed \subseteq Addresses
    /\ saved \subseteq Addresses
    /\ handler \in [Handlers -> Locals]
    /\ born \in [Addresses -> Links \cup {None}]
    /\ births \in [Addresses -> 0..Cardinality(Links)]
    /\ requests \in 0..MaxRequests
    /\ faults \in 0..MaxFaults

Init ==
    /\ link = [l \in Links |-> NoLink]
    /\ accounts = {Member}
    /\ inCircle = {}
    /\ claim = [a \in Addresses |-> [by |-> None, link |-> None]]
    /\ scarce = Unused
    /\ terms = {}
    /\ redeemed = {}
    /\ saved = {}
    /\ handler = [h \in Handlers |-> Idle]
    /\ born = [a \in Addresses |-> None]
    /\ births = [a \in Addresses |-> 0]
    /\ requests = 0
    /\ faults = 0

Request == requests < MaxRequests /\ requests' = requests + 1
Fault == faults < MaxFaults /\ faults' = faults + 1

Goto(h, pc) == handler' = [handler EXCEPT ![h].pc = pc]

-----------------------------------------------------------------------------
(* Asking for a link, and the links people hand out.                           *)

\* POST /api/auth/magic: the form's fields and a scarce invite ride on the token.  The
\* answer is the same whatever happens, and nothing is looked up.
CreateLoginLink(l, a, form) ==
    /\ link[l].state = "none"
    /\ link' = [link EXCEPT ![l] = [state |-> "open", addr |-> a, scarce |-> form.scarce,
                                    profile |-> form.profile]]
    /\ UNCHANGED <<accounts, inCircle, claim, scarce, terms, redeemed, saved, handler, born,
                   births, requests, faults>>

\* TOKEN_TTL_MINUTES have passed.
Expire(l) ==
    /\ link[l].state = "open"
    /\ link' = [link EXCEPT ![l].state = "expired"]
    /\ UNCHANGED <<accounts, inCircle, claim, scarce, terms, redeemed, saved, handler, born,
                   births, requests, faults>>

\* GET /invite: ensureInviteCode mints a code only for an account that has none.
InviteCodeFor(i) ==
    /\ i \notin inCircle
    /\ inCircle' = inCircle \cup {i}
    /\ UNCHANGED <<link, accounts, claim, scarce, terms, redeemed, saved, handler, born,
                   births, requests, faults>>

-----------------------------------------------------------------------------
(* GET /auth/magic                                                             *)

\* The link is opened in a browser that may hold either invite's cookie; the scarce one is
\* only set while inviteStatus says ok.
Open(h, l, code, withInvite) ==
    /\ Request
    /\ handler[h] = Idle
    /\ link[l].state # "none"
    /\ code \in inCircle \cup {None}
    /\ handler' = [handler EXCEPT ![h] = [Idle EXCEPT !.pc = "consume", !.link = l,
                                          !.code = code, !.scarce = withInvite]]
    /\ UNCHANGED <<link, accounts, inCircle, claim, scarce, terms, redeemed, saved, born,
                   births, faults>>

BugSpendable(l) == link[l].state \in {"open", "spent"}
Spendable(l) == link[l].state = "open"

\* consumeLoginToken: the update is the guard.  takeSignupProfile and loginTokenInvite then
\* hand out what the row carried; nobody else reads it any more.
Consume(h) ==
    LET l == handler[h].link IN
    /\ handler[h].pc = "consume"
    /\ IF Spendable(l)
       THEN /\ link' = [link EXCEPT ![l].state = "spent", ![l].profile = FALSE]
            /\ handler' = [handler EXCEPT ![h].pc = "account", ![h].addr = link[l].addr,
                                          ![h].profile = link[l].profile,
                                          ![h].scarce = @ \/ link[l].scarce]
       ELSE /\ handler' = [handler EXCEPT ![h] = Idle]
            /\ UNCHANGED link
    /\ UNCHANGED <<accounts, inCircle, claim, scarce, terms, redeemed, saved, born, births,
                   requests, faults>>

\* A mistaken version: inferred later, from an account that has not been signed in to yet.
BugCreated(a) == a \notin accounts \/ \E h \in Handlers: handler[h].addr = a /\ handler[h].created
\* Which half of the upsert ran: the address had no account when it was inserted.
Created(a) == a \notin accounts

\* findOrCreateUser, and startSession, whose row nothing below reads.
FindOrCreateUser(h) ==
    LET a == handler[h].addr IN
    /\ handler[h].pc = "account"
    /\ accounts' = accounts \cup {a}
    /\ handler' = [handler EXCEPT ![h].pc = "claim", ![h].created = Created(a)]
    /\ born' = IF Created(a) THEN [born EXCEPT ![a] = handler[h].link] ELSE born
    /\ births' = IF Created(a) THEN [births EXCEPT ![a] = @ + 1] ELSE births
    /\ UNCHANGED <<link, inCircle, claim, scarce, terms, redeemed, saved, requests, faults>>

BugIsNew(h) == handler[h].addr # None
\* `created` is the whole guard of both invites.
IsNew(h) == handler[h].created

\* claimInvite: the inviter of the code, then an insert that a first claim wins.  It
\* swallows a failure.
ClaimInvite(h) ==
    LET a == handler[h].addr
        i == handler[h].code IN
    /\ handler[h].pc = "claim"
    /\ Goto(h, "scarce")
    /\ \/ /\ claim' = IF i # None /\ IsNew(h) /\ claim[a].by = None
                      THEN [claim EXCEPT ![a] = [by |-> i, link |-> handler[h].link]]
                      ELSE claim
          /\ UNCHANGED faults
       \/ Fault /\ UNCHANGED claim
    /\ UNCHANGED <<link, accounts, inCircle, scarce, terms, redeemed, saved, born, births,
                   requests>>

BugRedeemable == ~scarce.withdrawn
\* redeemInvite of the affiliates library: one conditional update of the invite.
Redeemable == scarce.by = None /\ ~scarce.withdrawn

\* acceptInvite, until both grants: a failure is swallowed.
AcceptInvite(h) ==
    /\ handler[h].pc = "scarce"
    /\ \/ IF handler[h].scarce /\ IsNew(h) /\ Redeemable
          THEN /\ scarce' = [scarce EXCEPT !.by = handler[h].addr, !.link = handler[h].link]
               /\ handler' = [handler EXCEPT ![h].pc = "bonus", ![h].bonus = Sides]
               /\ UNCHANGED faults
          ELSE Goto(h, "save") /\ UNCHANGED <<scarce, faults>>
       \/ Fault /\ Goto(h, "save") /\ UNCHANGED scarce
    /\ UNCHANGED <<link, accounts, inCircle, claim, terms, redeemed, saved, born, births,
                   requests>>

\* The two grants in turn, the newcomer's first; grant_ref makes each one term per user.
\* A grant that throws does not take the other side's days.
GrantBonus(h, side) ==
    LET who == IF side = "invitee" THEN handler[h].addr ELSE Host
        rest == handler[h].bonus \ {side} IN
    /\ handler[h].pc = "bonus"
    /\ side \in handler[h].bonus
    /\ side = "inviter" => "invitee" \notin handler[h].bonus
    /\ handler' = [handler EXCEPT ![h].bonus = rest,
                                  ![h].pc = IF rest = {} THEN "save" ELSE "bonus"]
    /\ \/ terms' = terms \cup {[ref |-> side, to |-> who]} /\ UNCHANGED faults
       \/ Fault /\ UNCHANGED terms
    /\ UNCHANGED <<link, accounts, inCircle, claim, scarce, redeemed, saved, born, births,
                   requests>>

\* saveSignupProfile, whose failure is swallowed, and the answer: the session cookie is set
\* and both invites' cookies are cleared.
SaveProfile(h) ==
    /\ handler[h].pc = "save"
    /\ handler' = [handler EXCEPT ![h] = Idle]
    /\ \/ /\ saved' = IF handler[h].profile THEN saved \cup {handler[h].addr} ELSE saved
          /\ UNCHANGED faults
       \/ Fault /\ handler[h].profile /\ UNCHANGED saved
    /\ UNCHANGED <<link, accounts, inCircle, claim, scarce, terms, redeemed, born, births,
                   requests>>

\* A statement outside the silences throws, or the process ends.
Die(h) ==
    /\ Fault
    /\ handler[h] # Idle
    /\ handler' = [handler EXCEPT ![h] = Idle]
    /\ UNCHANGED <<link, accounts, inCircle, claim, scarce, terms, redeemed, saved, born,
                   births, requests>>

-----------------------------------------------------------------------------
(* Withdrawing an invite, redeeming a credit code.                             *)

\* revokeInvite reads the inviter's invites and refuses one that was used ...
AskWithdraw(h) ==
    /\ Request
    /\ handler[h] = Idle
    /\ scarce.by = None
    /\ Goto(h, "withdraw")
    /\ UNCHANGED <<link, accounts, inCircle, claim, scarce, terms, redeemed, saved, born,
                   births, faults>>

\* ... and then asks the library to withdraw it.
Withdraw(h) ==
    /\ handler[h].pc = "withdraw"
    /\ scarce' = [scarce EXCEPT !.withdrawn = TRUE]
    /\ handler' = [handler EXCEPT ![h] = Idle]
    /\ UNCHANGED <<link, accounts, inCircle, claim, terms, redeemed, saved, born, births,
                   requests, faults>>

\* POST /api/credits/redeem of a code whose unit can be used here.
AskRedeem(h, a) ==
    /\ Request
    /\ handler[h] = Idle
    /\ a \in accounts
    /\ handler' = [handler EXCEPT ![h] = [Idle EXCEPT !.pc = "spend", !.addr = a]]
    /\ UNCHANGED <<link, accounts, inCircle, claim, scarce, terms, redeemed, saved, born,
                   births, faults>>

\* redeem of the credits library: one redemption per user, max_redemptions in all.
SpendCode(h) ==
    LET a == handler[h].addr IN
    /\ handler[h].pc = "spend"
    /\ IF a \notin redeemed /\ Cardinality(redeemed) < MaxUses
       THEN redeemed' = redeemed \cup {a} /\ Goto(h, "days")
       ELSE handler' = [handler EXCEPT ![h] = Idle] /\ UNCHANGED redeemed
    /\ UNCHANGED <<link, accounts, inCircle, claim, scarce, terms, saved, born, births,
                   requests, faults>>

\* onGrant: the days, under grant_ref 'code:<id>'; the redemption stands if they fail.
GrantDays(h) ==
    /\ handler[h].pc = "days"
    /\ handler' = [handler EXCEPT ![h] = Idle]
    /\ terms' = terms \cup {[ref |-> "code", to |-> handler[h].addr]}
    /\ UNCHANGED <<link, accounts, inCircle, claim, scarce, redeemed, saved, born, births,
                   requests, faults>>

-----------------------------------------------------------------------------

Next ==
    \/ \E l \in Links:
          \/ \E a \in Addresses, f \in Forms: CreateLoginLink(l, a, f)
          \/ Expire(l)
    \/ \E i \in Inviters: InviteCodeFor(i)
    \/ \E h \in Handlers:
          \/ \E l \in Links, c \in Inviters \cup {None}, i \in BOOLEAN: Open(h, l, c, i)
          \/ Consume(h) \/ FindOrCreateUser(h) \/ ClaimInvite(h) \/ AcceptInvite(h)
          \/ SaveProfile(h) \/ Die(h)
          \/ \E side \in Sides: GrantBonus(h, side)
          \/ AskWithdraw(h) \/ Withdraw(h)
          \/ \E a \in Addresses: AskRedeem(h, a)
          \/ SpendCode(h) \/ GrantDays(h)

Spec == Init /\ [][Next]_vars

-----------------------------------------------------------------------------
(* Properties                                                                  *)

\* However many links of one address are spent, in whatever order and however often the
\* requests die and come again, one sign-in is told that it made the account, and none is
\* of an account that was there before (findOrCreateUser: "crediting somebody who already
\* had an account would mint earnings out of a sign-in").
CreatedOnce == \A a \in Addresses: births[a] <= IF a = Member THEN 0 ELSE 1

\* A personal invite and a scarce one are credited only by the very sign-in that made the
\* account (claimInvite, acceptInvite).
CreditIsOfTheBirth ==
    /\ \A a \in Addresses: claim[a].by # None => claim[a].link # None /\ born[a] = claim[a].link
    /\ scarce.by # None => born[scarce.by] = scarce.link

\* The scarce invite gives days once to each side, and only once it was accepted
\* (migration 0040: "single use, and they give days rather than pay money").
BonusOnce ==
    \A side \in Sides:
        LET given == {t \in terms: t.ref = side} IN
        /\ Cardinality(given) <= 1
        /\ given # {} => scarce.by # None

\* A link signs in once: of the requests that opened it at most one is past the update that
\* spends it, and an expired one signs nobody in (consumeLoginToken: "the update is the
\* guard, so a replayed link is inert").
LinkSpentOnce ==
    \A h \in Handlers: handler[h].pc \in SignInSteps \ {"consume"} =>
        /\ link[handler[h].link].state = "spent"
        /\ \A g \in Handlers \ {h}: handler[g].link = handler[h].link => handler[g].pc = "consume"

\* What a link brings is counted once: one sign-in for the link, one account for the address,
\* the credit to whoever invited the newcomer, the days once to each side.
CountedOnce == LinkSpentOnce /\ CreatedOnce /\ CreditIsOfTheBirth /\ BonusOnce

\* Spec does not imply the following: a request that dies after the account was made is not
\* made up for, as the next sign-in of the address finds the account.
NewcomerIsCredited ==
    \A a \in Newcomers: a \in accounts =>
        \/ scarce.by # None
        \/ \E h \in Handlers: handler[h].addr = a
        \/ \A l \in Links: link[l].addr = a /\ link[l].state = "spent" => ~link[l].scarce

\* Spec does not imply the following: a code is spent and its days are lost.
RedeemedIsGranted ==
    \A a \in redeemed: \/ [ref |-> "code", to |-> a] \in terms
                       \/ \E h \in Handlers: handler[h].pc = "days" /\ handler[h].addr = a
=============================================================================
