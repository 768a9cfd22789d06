---------------------------- MODULE AuthThrottle ----------------------------
(* The escalating backoff of apps/web/src/lib/auth-throttle.js: a Map in the memory *)
(* of the web process from a bucket and a caller's address to its strikes, in front *)
(* of the sign-in routes of apps/web/src/app.js.                                   *)
EXTENDS Naturals, FiniteSets

CONSTANTS
    Keys,         \* a bucket and a forwarded address: each route counts on its own
    FreeAttempts, \* FREE_ATTEMPTS
    BaseLock,     \* BASE_LOCK_MS
    MaxLock,      \* MAX_LOCK_MS
    Decay,        \* DECAY_MS
    MaxTracked,   \* MAX_TRACKED
    MaxTime,      \* bound: the clock
    MaxInputs     \* bound: requests

VARIABLES
    now,
    seen,   \* the Map's insertion order: <<j, k>> when j came in no later than k
    entry,  \* the Map's values
    passed, \* per key, the requests that were let through and are still at the route
    lock,   \* history: per key, the last lock earned, the last request and how many, while remembered
    inputs

vars == <<now, seen, entry, passed, lock, inputs>>

Blank == [strikes |-> 0, lockedUntil |-> 0, lastAt |-> 0]
NoLock == [length |-> 0, asked |-> 0, times |-> 0]

MinOf(m, n) == IF m < n THEN m ELSE n
InMap(k) == <<k, k>> \in seen
Tracked == {k \in Keys: InMap(k)}

TypeOK ==
    /\ now \in 0..MaxTime
    /\ seen \subseteq Tracked \X Tracked
    /\ \A j, k \in Tracked: <<j, k>> \in seen /\ <<k, j>> \in seen <=> j = k
    /\ Cardinality(Tracked) <= MaxTracked + 1
    /\ entry \in [Keys -> [strikes: Nat, lockedUntil: Nat, lastAt: Nat]]
    /\ \A k \in Keys: ~InMap(k) => entry[k] = Blank
    /\ passed \in [Keys -> Nat]
    /\ lock \in [Keys -> [length: 0..MaxLock, asked: 0..MaxTime, times: Nat]]
    /\ inputs \in 0..MaxInputs

Init ==
    /\ now = 0
    /\ seen = {}
    /\ entry = [k \in Keys |-> Blank]
    /\ passed = [k \in Keys |-> 0]
    /\ lock = [k \in Keys |-> NoLock]
    /\ inputs = 0

Tick ==
    /\ now < MaxTime
    /\ now' = now + 1
    /\ UNCHANGED <<seen, entry, passed, lock, inputs>>

-----------------------------------------------------------------------------

\* sweep: what has decayed goes, on the longest decay of every curve; if that is not enough
\* the oldest inserted go.
\* A mistaken version: the sweep uses another clock than the attempt.
BugDecayed(k) == entry[k].lockedUntil <= now
Decayed(k) == entry[k].lockedUntil <= now /\ now - entry[k].lastAt > Decay

\* Of S, those that came in last, as many as fit.
Shed(S) == {k \in S: Cardinality({j \in S: <<k, j>> \in seen}) <= MaxTracked}

Swept ==
    IF Cardinality(Tracked) >= MaxTracked THEN Shed({k \in Tracked: ~Decayed(k)}) ELSE Tracked

\* A mistaken version: every lock earned starts the quiet anew, and the strikes with it.
BugStrikes(e) == IF now - e.lastAt > Decay \/ e.lockedUntil > 0 THEN 1 ELSE e.strikes + 1
\* A quiet of more than DECAY_MS starts again.
Strikes(e) == IF now - e.lastAt > Decay THEN 1 ELSE e.strikes + 1

\* A mistaken version: the ceiling is left out.
BugLockOf(strikes) == BaseLock * 2 ^ (strikes - FreeAttempts - 1)
\* The lock doubles with every strike past the free ones, up to the ceiling.
LockOf(strikes) == MinOf(BaseLock * 2 ^ (strikes - FreeAttempts - 1), MaxLock)

\* A mistaken version: knocking at a lock starts it again.
BugCharged(e) ==
    LET n == Strikes(e) IN
    [strikes |-> n, lastAt |-> now, lockedUntil |-> IF n > FreeAttempts THEN now + LockOf(n) ELSE 0]
\* attempt: what becomes of the caller's entry.
Charged(e) ==
    IF e.lockedUntil > now
    THEN [e EXCEPT !.lastAt = now]
    ELSE LET n == Strikes(e) IN
         [strikes |-> n, lastAt |-> now,
          lockedUntil |-> IF n > FreeAttempts THEN now + LockOf(n) ELSE e.lockedUntil]

\* The request may proceed.
Passes(e) == e.lockedUntil <= now /\ Strikes(e) <= FreeAttempts

\* The map after the sweep and the attempt of k; `e` is what was found after the sweep.
Found(k) == IF k \in Swept THEN entry[k] ELSE [Blank EXCEPT !.lastAt = now]

Attempt(k) ==
    LET kept == Swept
        e == Found(k) IN
    /\ inputs < MaxInputs
    /\ inputs' = inputs + 1
    /\ seen' = (seen \cap (kept \X kept)) \cup (IF k \in kept THEN {} ELSE (kept \cup {k}) \X {k})
    /\ entry' = [j \in Keys |-> IF j = k THEN Charged(e) ELSE IF j \in kept THEN entry[j] ELSE Blank]
    /\ lock' = [j \in Keys |->
           IF j = k
           THEN [length |-> IF e.lockedUntil <= now /\ ~Passes(e) THEN Charged(e).lockedUntil - now
                            ELSE IF k \notin kept \/ now - lock[k].asked > Decay THEN 0
                            ELSE lock[k].length,
                 asked |-> now, times |-> IF k \in kept THEN lock[k].times + 1 ELSE 1]
           ELSE IF j \in kept THEN lock[j] ELSE NoLock]
    /\ passed' = [passed EXCEPT ![k] = IF Passes(e) THEN @ + 1 ELSE @]
    /\ UNCHANGED now

Leave(k) == passed[k] > 0 /\ passed' = [passed EXCEPT ![k] = @ - 1]

\* forgive, once the credential was right: whatever the key has earned by then goes.
Forgive(k) ==
    /\ Leave(k)
    /\ seen' = {p \in seen: p[1] # k /\ p[2] # k}
    /\ entry' = [entry EXCEPT ![k] = Blank]
    /\ lock' = [lock EXCEPT ![k] = NoLock]
    /\ UNCHANGED <<now, inputs>>

\* The credential was wrong.
Fail(k) == Leave(k) /\ UNCHANGED <<now, seen, entry, lock, inputs>>

Next == Tick \/ \E k \in Keys: Attempt(k) \/ Forgive(k) \/ Fail(k)

Spec == Init /\ [][Next]_vars

-----------------------------------------------------------------------------
(* Properties                                                                  *)

\* A caller that once earned a lock, is remembered and has not been quiet for DECAY_MS is locked
\* again by its next request, twice as long up to the ceiling: neither waiting a lock out nor
\* knocking at it makes the next one shorter, or longer than twice the last ("the penalty
\* escalates once per lock earned, not once per request refused").
LocksEscalateStep ==
    \A k \in Keys:
        lock[k].length > 0 /\ entry[k].lockedUntil <= now /\ now - lock[k].asked <= Decay
            /\ lock'[k].times = lock[k].times + 1
        => entry'[k].lockedUntil = now + MinOf(2 * lock[k].length, MaxLock)
LocksEscalate == [][LocksEscalateStep]_vars

\* A lock that was earned lasts: until then its caller is refused however it knocks, unless
\* more than MAX_TRACKED callers are remembered, or one of its requests that was let through
\* before signs in.
LocksLastStep ==
    \A k \in Keys: entry[k].lockedUntil > now =>
        \/ entry'[k].lockedUntil = entry[k].lockedUntil
        \/ Cardinality(Tracked) > MaxTracked
        \/ passed'[k] < passed[k]
LocksLast == [][LocksLastStep]_vars

\* Sweeping forgives nobody before their time: an entry that goes while there is room for it
\* would have been started afresh by the caller's next attempt.
SweepIsInvisibleStep ==
    \A k \in Keys: InMap(k) /\ Cardinality(Tracked) <= MaxTracked /\ now' = now
            /\ Cardinality(Tracked') >= Cardinality(Tracked) /\ entry'[k] = Blank
        => now - entry[k].lastAt > Decay
SweepIsInvisible == [][SweepIsInvisibleStep]_vars

\* The backoff holds: a lock earned anew is twice the last, it lasts, and sweeping the map
\* forgives nobody before their time -- together, no way of knocking makes the wait shorter.
BackoffHoldsStep == LocksEscalateStep /\ LocksLastStep /\ SweepIsInvisibleStep
BackoffHolds == [][BackoffHoldsStep]_vars
=============================================================================
