---------------------------- MODULE PasswordDoor ----------------------------
(* verifyPassword of packages/auth/src/password.js for one e-mail address: the      *)
(* failures of the last minutes are counted, a hash is verified, the outcome is     *)
(* recorded, a session is started, each by a statement of its own.  Meanwhile the    *)
(* account's reader sets or removes the password.                                  *)
EXTENDS Naturals, Sequences, FiniteSets

CONSTANTS
    Handlers,    \* requests being served
    Passwords,   \* what may be typed
    MaxFailures, \* MAX_FAILURES ...
    Window,      \* ... within WINDOW_MINUTES
    MaxTime,     \* bound: the clock
    MaxRequests, \* bound: requests
    MaxChanges,  \* bound: passwords set and removed
    None

VARIABLES
    now,
    hash,     \* users.password_hash: the password it is of, or none
    log,      \* login_attempts
    handler,
    held,     \* history: passwords the account had while the request ran
    tries,    \* history: wrong verifications since the last success
    requests, changes

vars == <<now, hash, log, handler, held, tries, requests, changes>>

Idle == [pc |-> "idle", typed |-> None, hash |-> None, ok |-> FALSE]

TypeOK ==
    /\ now \in 0..MaxTime
    /\ hash \in Passwords \cup {None}
    /\ log \in Seq([ok: BOOLEAN, at: 0..MaxTime])
    /\ handler \in [Handlers -> [pc: {"idle", "count", "load", "verify", "record", "session"},
                                 typed: Passwords \cup {None}, hash: Passwords \cup {None},
                                 ok: BOOLEAN]]
    /\ held \in [Handlers -> SUBSET Passwords]
    /\ tries \in Seq(0..MaxTime)
    /\ requests \in 0..MaxRequests
    /\ changes \in 0..MaxChanges

Init ==
    /\ now = 0
    /\ hash \in Passwords \cup {None}
    /\ log = <<>>
    /\ handler = [h \in Handlers |-> Idle]
    /\ held = [h \in Handlers |-> {}]
    /\ tries = <<>>
    /\ requests = 0
    /\ changes = 0

Tick ==
    /\ now < MaxTime
    /\ now' = now + 1
    /\ UNCHANGED <<hash, log, handler, held, tries, requests, changes>>

\* setPassword and removePassword, from a session that a link or a passkey started.
SetPassword(p) ==
    /\ changes < MaxChanges
    /\ changes' = changes + 1
    /\ hash' = p
    /\ held' = [h \in Handlers |-> IF handler[h] = Idle THEN {} ELSE held[h] \cup ({p} \ {None})]
    /\ UNCHANGED <<now, log, handler, tries, requests>>

Ask(h, p) ==
    /\ requests < MaxRequests
    /\ requests' = requests + 1
    /\ handler[h] = Idle
    /\ handler' = [handler EXCEPT ![h] = [Idle EXCEPT !.pc = "count", !.typed = p]]
    /\ held' = [held EXCEPT ![h] = {hash} \ {None}]
    /\ UNCHANGED <<now, hash, log, tries, changes>>

-----------------------------------------------------------------------------

\* recentFailedLogins: within the window, and since the last success.
LastSuccess ==
    LET oks == {i \in DOMAIN log: log[i].ok} IN
    IF oks = {} THEN 0 ELSE CHOOSE i \in oks: \A j \in oks: j <= i

\* A mistaken version: the window is cut short.
BugFailures == Cardinality({i \in DOMAIN log: ~log[i].ok /\ i > LastSuccess /\ log[i].at = now})
Failures ==
    Cardinality({i \in DOMAIN log: ~log[i].ok /\ i > LastSuccess /\ log[i].at + Window > now})

Count(h) ==
    /\ handler[h].pc = "count"
    /\ handler' = [handler EXCEPT ![h] =
           IF Failures >= MaxFailures THEN Idle ELSE [@ EXCEPT !.pc = "load"]]
    /\ UNCHANGED <<now, hash, log, held, tries, requests, changes>>

\* getUserForPassword.
Load(h) ==
    /\ handler[h].pc = "load"
    /\ handler' = [handler EXCEPT ![h].pc = "verify", ![h].hash = hash]
    /\ UNCHANGED <<now, hash, log, held, tries, requests, changes>>

\* An account without a password is verified against the decoy, which never matches.
BugMatches(h) == handler[h].hash \in {handler[h].typed, None}
Matches(h) == handler[h].hash = handler[h].typed

\* Bun.password.verify takes its time; nothing else is touched.
Verify(h) ==
    /\ handler[h].pc = "verify"
    /\ handler' = [handler EXCEPT ![h].pc = "record", ![h].ok = Matches(h)]
    /\ tries' = IF Matches(h) THEN tries ELSE Append(tries, now)
    /\ UNCHANGED <<now, hash, log, held, requests, changes>>

\* recordLoginAttempt; who did not match gets the generic answer.
Record(h) ==
    /\ handler[h].pc = "record"
    /\ log' = Append(log, [ok |-> handler[h].ok, at |-> now])
    /\ handler' = [handler EXCEPT ![h] = IF handler[h].ok THEN [@ EXCEPT !.pc = "session"] ELSE Idle]
    /\ tries' = IF handler[h].ok THEN <<>> ELSE tries
    /\ UNCHANGED <<now, hash, held, requests, changes>>

StartSession(h) ==
    /\ handler[h].pc = "session"
    /\ handler' = [handler EXCEPT ![h] = Idle]
    /\ UNCHANGED <<now, hash, log, held, tries, requests, changes>>

Next ==
    \/ Tick
    \/ \E p \in Passwords \cup {None}: SetPassword(p)
    \/ \E h \in Handlers:
          \/ \E p \in Passwords: Ask(h, p)
          \/ Count(h) \/ Load(h) \/ Verify(h) \/ Record(h) \/ StartSession(h)

Spec == Init /\ [][Next]_vars

-----------------------------------------------------------------------------
(* Properties                                                                  *)

\* The window holds up to the requests that counted at once: between two successes and within
\* WINDOW_MINUTES no more wrong passwords are verified than MAX_FAILURES and one less than the
\* requests in flight (password.js: "it is rate limited, and the limit is not a lockout").
GuessesBounded ==
    \A t \in 0..now:
        Cardinality({i \in DOMAIN tries: tries[i] <= t /\ tries[i] + Window > t})
            < MaxFailures + Cardinality(Handlers)

\* A session is started only for a password the account had while the request ran: the decoy
\* never authenticates anything, and neither does a password of before or after.
SessionHadPassword ==
    \A h \in Handlers: handler[h].pc = "session" => handler[h].typed \in held[h]

\* The door opens for a password the account had, and not to more guesses than the limit and
\* the requests in flight allow.
DoorHolds == GuessesBounded /\ SessionHadPassword

\* Spec does not imply the following: requests that arrive together count the same failures.
FailuresCapped == Cardinality({i \in DOMAIN tries: tries[i] + Window > now}) <= MaxFailures
=============================================================================
