--------------------------- MODULE CoinpayIdentity ---------------------------
(* Sign in with CoinPay: which account a verified CoinPay `sub` belongs to.  The   *)
(* first login of a sub makes an account under a placeholder address nobody reads,  *)
(* so its row in coinpay_identities is the only way into it.                       *)
(* apps/web/src/lib/coinpay-signin.js (resolveCoinpayUser, disconnectCoinpay), the  *)
(* /api/v1/coinpay routes of apps/web/src/app.js and the statements of              *)
(* packages/db/src/queries.js.                                                     *)
EXTENDS Naturals, FiniteSets

CONSTANTS
    Requests,   \* callbacks and disconnects being served
    Subs,       \* CoinPay accounts
    Readers,    \* accounts with an address of their own
    Fresh,      \* ids for the accounts that logins create
    MaxInputs,  \* bound: requests that arrive
    MaxFaults,  \* bound: processes that die, deletes that fail
    None

Accounts == Readers \cup Fresh

VARIABLES
    users,     \* ids in users
    identity,  \* coinpay_identities: the account of a sub
    request,   \* locals of the requests
    home,      \* history: accounts a sub was resolved to since it was last disconnected
    lost,      \* history: accounts whose request ended half way
    inputs, faults

vars == <<users, identity, request, home, lost, inputs, faults>>

Idle == [pc |-> "idle", sub |-> None, user |-> None]

TypeOK ==
    /\ users \subseteq Accounts
    /\ identity \in [Subs -> Accounts \cup {None}]
    /\ request \in [Requests -> [pc: {"idle", "connect", "taken", "join", "login", "create",
                                      "link", "delete", "again", "leave", "unlink"},
                                 sub: Subs \cup {None}, user: Accounts \cup {None}]]
    /\ home \in [Subs -> SUBSET Accounts]
    /\ lost \subseteq Fresh
    /\ inputs \in 0..MaxInputs
    /\ faults \in 0..MaxFaults

Init ==
    /\ users = Readers
    /\ identity = [s \in Subs |-> None]
    /\ request = [r \in Requests |-> Idle]
    /\ home = [s \in Subs |-> {}]
    /\ lost = {}
    /\ inputs = 0
    /\ faults = 0

Bound(u) == \E s \in Subs: identity[s] = u
Goto(r, pc) == request' = [request EXCEPT ![r].pc = pc]
End(r) == request' = [request EXCEPT ![r] = Idle]
Resolve(s, u) == home' = [home EXCEPT ![s] = @ \cup {u}]

\* linkCoinpayIdentity: insert, `on conflict do nothing`; both columns are unique.
BugAttaches(s, u) == ~Bound(u)
Attaches(s, u) == identity[s] = None /\ ~Bound(u)

-----------------------------------------------------------------------------

\* The callback of a verified sign-in, for a visitor or for the reader who connects.
Callback(r, s, u) ==
    /\ inputs < MaxInputs
    /\ inputs' = inputs + 1
    /\ request[r] = Idle
    /\ u \in users \cup {None}
    /\ request' = [request EXCEPT ![r] = [pc |-> IF u = None THEN "login" ELSE "connect",
                                          sub |-> s, user |-> u]]
    /\ UNCHANGED <<users, identity, home, lost, faults>>

\* mode=connect: identityBySub answers a sub that is bound, here or elsewhere ...
Connect(r) ==
    LET s == request[r].sub IN
    /\ request[r].pc = "connect"
    /\ IF identity[s] = None
       THEN Goto(r, "taken") /\ UNCHANGED home
       ELSE /\ End(r)
            /\ IF identity[s] = request[r].user THEN Resolve(s, request[r].user)
               ELSE UNCHANGED home
    /\ UNCHANGED <<users, identity, lost, inputs, faults>>

\* ... identityByUser a reader who is connected already ...
Taken(r) ==
    /\ request[r].pc = "taken"
    /\ IF Bound(request[r].user) THEN End(r) ELSE Goto(r, "join")
    /\ UNCHANGED <<users, identity, home, lost, inputs, faults>>

\* ... and the insert decides between those that passed both at once.
Join(r) ==
    LET s == request[r].sub
        u == request[r].user IN
    /\ request[r].pc = "join"
    /\ End(r)
    /\ IF Attaches(s, u)
       THEN identity' = [identity EXCEPT ![s] = u] /\ Resolve(s, u)
       ELSE UNCHANGED <<identity, home>>
    /\ UNCHANGED <<users, lost, inputs, faults>>

\* mode=login: a bound sub is answered with its account (touch keeps last_login_at).
Login(r) ==
    LET s == request[r].sub IN
    /\ request[r].pc = "login"
    /\ IF identity[s] # None
       THEN End(r) /\ Resolve(s, identity[s])
       ELSE Goto(r, "create") /\ UNCHANGED home
    /\ UNCHANGED <<users, identity, lost, inputs, faults>>

\* createUserWithEmail of a random placeholder.
CreateUser(r, u) ==
    /\ request[r].pc = "create"
    /\ u \in Fresh \ (users \cup lost)
    /\ users' = users \cup {u}
    /\ request' = [request EXCEPT ![r].pc = "link", ![r].user = u]
    /\ UNCHANGED <<identity, home, lost, inputs, faults>>

\* A mistaken version: the account of a login that came second is left behind.
BugAfterConflict == "again"
AfterConflict == "delete"

Link(r) ==
    LET s == request[r].sub
        u == request[r].user IN
    /\ request[r].pc = "link"
    /\ IF Attaches(s, u)
       THEN identity' = [identity EXCEPT ![s] = u] /\ Resolve(s, u) /\ End(r)
       ELSE Goto(r, AfterConflict) /\ UNCHANGED <<identity, home>>
    /\ UNCHANGED <<users, lost, inputs, faults>>

\* deleteUser, whose failure is swallowed.
DeleteUser(r) ==
    /\ request[r].pc = "delete"
    /\ request' = [request EXCEPT ![r].pc = "again", ![r].user = None]
    /\ \/ users' = users \ {request[r].user} /\ UNCHANGED <<lost, faults>>
       \/ /\ faults < MaxFaults
          /\ faults' = faults + 1
          /\ lost' = lost \cup {request[r].user}
          /\ UNCHANGED users
    /\ UNCHANGED <<identity, home, inputs>>

\* The winner's row; without one the route says that the sign-in failed.
Again(r) ==
    LET s == request[r].sub IN
    /\ request[r].pc = "again"
    /\ End(r)
    /\ IF identity[s] # None THEN Resolve(s, identity[s]) ELSE UNCHANGED home
    /\ UNCHANGED <<users, identity, lost, inputs, faults>>

\* disconnectCoinpay: nothing to do without a row; refused for a placeholder address.
AskDisconnect(r, u) ==
    /\ inputs < MaxInputs
    /\ inputs' = inputs + 1
    /\ request[r] = Idle
    /\ u \in users
    /\ request' = [request EXCEPT ![r] = [pc |-> "leave", sub |-> None, user |-> u]]
    /\ UNCHANGED <<users, identity, home, lost, faults>>

MayLeave(u) == Bound(u) /\ u \notin Fresh

Leave(r) ==
    /\ request[r].pc = "leave"
    /\ IF MayLeave(request[r].user) THEN Goto(r, "unlink") ELSE End(r)
    /\ UNCHANGED <<users, identity, home, lost, inputs, faults>>

Unlink(r) ==
    LET gone == {s \in Subs: identity[s] = request[r].user} IN
    /\ request[r].pc = "unlink"
    /\ End(r)
    /\ identity' = [s \in Subs |-> IF s \in gone THEN None ELSE identity[s]]
    /\ home' = [s \in Subs |-> IF s \in gone THEN {} ELSE home[s]]
    /\ UNCHANGED <<users, lost, inputs, faults>>

\* A statement throws or the process ends.
Die(r) ==
    /\ request[r] # Idle
    /\ faults < MaxFaults
    /\ faults' = faults + 1
    /\ End(r)
    /\ lost' = IF request[r].pc \in {"link", "delete"} THEN lost \cup {request[r].user} ELSE lost
    /\ UNCHANGED <<users, identity, home, inputs>>

Next ==
    \E r \in Requests:
        \/ \E s \in Subs, u \in Accounts \cup {None}: Callback(r, s, u)
        \/ Connect(r) \/ Taken(r) \/ Join(r) \/ Login(r) \/ Link(r) \/ DeleteUser(r)
        \/ \E u \in Fresh: CreateUser(r, u)
        \/ Again(r) \/ Leave(r) \/ Unlink(r) \/ Die(r)
        \/ \E u \in Accounts: AskDisconnect(r, u)

Spec == Init /\ [][Next]_vars

-----------------------------------------------------------------------------

\* Migration 0042: "One CoinPay account per user and one user per CoinPay account".  As long
\* as a sub is not disconnected, every request that resolves it, however many arrive at once
\* at the first login, is answered with the account that holds it.
OneHome == \A s \in Subs: home[s] \subseteq {identity[s]}

\* An account under a placeholder address can be reached: it has an identity, or the login
\* that made it is still at work on it, unless that login died or could not clean up
\* (disconnectCoinpay: "refused when CoinPay is the only way into the account").
PlaceholdersReachable ==
    \A u \in users \cap Fresh:
        \/ Bound(u)
        \/ u \in lost
        \/ \E r \in Requests: request[r].user = u /\ request[r].pc \in {"link", "delete"}

\* Sign in with CoinPay leads to one account and leaves none nobody can reach.
IdentitiesHold == OneHome /\ PlaceholdersReachable
=============================================================================
