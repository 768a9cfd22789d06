---------------------------- MODULE UpstreamCache ----------------------------
(* sharedFetch of packages/radio/src/upstream-cache.js: requests for one address    *)
(* share the fetch that is in flight, and its bytes are held for a while, so that   *)
(* a subscription pulls nothing twice.  The memory is bounded by a running total.   *)
EXTENDS Naturals, FiniteSets

CONSTANTS
    Requests,  \* readers' tabs
    Keys,      \* upstream addresses: manifests and segments
    Bytes,     \* what an answer to each weighs
    Ttl,       \* MANIFEST_TTL_MS and SEGMENT_TTL_MS
    MaxBytes,
    MaxTime,   \* bound: the clock
    MaxAsks,   \* bound: requests
    None

VARIABLES
    now,
    cache,     \* the Map: key, expiry, weight, and where it is in the insertion order
    heldBytes,
    inFlight,  \* keys with a promise
    waiting,   \* the key a request waits for
    upstream,  \* history: fetches open at the provider
    drift,     \* history: weight that was set over an entry and never subtracted
    asks

vars == <<now, cache, heldBytes, inFlight, waiting, upstream, drift, asks>>

Entry == [key: Keys, until: Nat, bytes: Nat, at: Nat]
\* What entries weigh together, counted byte by byte.
Weight(c) == Cardinality(UNION {{e} \X (1..e.bytes): e \in c})
At(k) == {e \in cache: e.key = k}
Live(e) == e.until > now

TypeOK ==
    /\ now \in 0..MaxTime
    /\ cache \subseteq Entry
    /\ \A d, e \in cache: d.key = e.key \/ d.at = e.at => d = e
    /\ heldBytes \in Nat
    /\ inFlight \subseteq Keys
    /\ waiting \in [Requests -> Keys \cup {None}]
    /\ upstream \in [Keys -> Nat]
    /\ drift \in Nat
    /\ asks \in 0..MaxAsks

Init ==
    /\ now = 0
    /\ cache = {}
    /\ heldBytes = 0
    /\ inFlight = {}
    /\ waiting = [r \in Requests |-> None]
    /\ upstream = [k \in Keys |-> 0]
    /\ drift = 0
    /\ asks = 0

Tick ==
    /\ now < MaxTime
    /\ now' = now + 1
    /\ UNCHANGED <<cache, heldBytes, inFlight, waiting, upstream, drift, asks>>

\* A hit that has not expired is served from memory; a fetch in flight is joined; otherwise
\* the request starts one.
BugJoins(k) == FALSE
Joins(k) == k \in inFlight

Ask(r, k) ==
    /\ asks < MaxAsks
    /\ asks' = asks + 1
    /\ waiting[r] = None
    /\ IF \E e \in At(k): Live(e)
       THEN UNCHANGED <<inFlight, waiting, upstream>>
       ELSE /\ waiting' = [waiting EXCEPT ![r] = k]
            /\ inFlight' = inFlight \cup {k}
            /\ upstream' = IF Joins(k) THEN upstream ELSE [upstream EXCEPT ![k] = @ + 1]
    /\ UNCHANGED <<now, cache, heldBytes, drift>>

\* Map.set: an entry of the key keeps its place, a new one is the last.
Place(k) ==
    IF At(k) # {} THEN (CHOOSE e \in At(k): TRUE).at
    ELSE CHOOSE n \in {e.at + 1: e \in cache} \cup {1}: \A e \in cache: e.at < n
Set(k) ==
    (cache \ At(k)) \cup {[key |-> k, until |-> now + Ttl[k], bytes |-> Bytes[k], at |-> Place(k)]}

\* Of the entries c, which weigh n by the running total, the oldest go until the rest fits: one
\* goes when it would not fit yet without those that are older.
Shed(c, n) == {e \in c: n > MaxBytes + Weight({d \in c: d.at < e.at})}

\* evict, after the insert: what has expired, and then the oldest.
Evict(c, n) ==
    LET fresh == {e \in c: Live(e)}
        m == n - Weight(c \ fresh)
        gone == Shed(fresh, m)
    IN /\ cache' = fresh \ gone
       /\ heldBytes' = m - Weight(gone)

\* The promise of a key settles, and everybody who waits for it goes on.
Settle(k) ==
    /\ inFlight' = inFlight \ {k}
    /\ waiting' = [r \in Requests |-> IF waiting[r] = k THEN None ELSE waiting[r]]
    /\ upstream' = [upstream EXCEPT ![k] = 0]
    /\ UNCHANGED <<now, asks>>

\* An answer of 200 is held.
Answered(k) ==
    /\ k \in inFlight
    /\ Evict(Set(k), heldBytes + Bytes[k])
    /\ drift' = drift + Weight(At(k))
    /\ Settle(k)

\* An error is handed on and not held; neither is a fetch that throws.
Refused(k) ==
    /\ k \in inFlight
    /\ Settle(k)
    /\ UNCHANGED <<cache, heldBytes, drift>>

Next ==
    \/ Tick
    \/ \E r \in Requests, k \in Keys: Ask(r, k)
    \/ \E k \in Keys: Answered(k) \/ Refused(k)

Spec == Init /\ [][Next]_vars

-----------------------------------------------------------------------------
(* Properties                                                                  *)

\* "The same bytes being pulled twice at once" never happens, and nobody waits for a fetch
\* that is not under way, however requests, answers and expiries interleave.
OneUpstream ==
    /\ \A k \in Keys: upstream[k] <= 1 /\ (upstream[k] = 1 <=> k \in inFlight)
    /\ \A r \in Requests: waiting[r] # None => waiting[r] \in inFlight

\* The bytes in memory never exceed MAX_BYTES, and the running total never says less than is
\* held: what it says too much is what was set over entries that had expired and not yet been
\* evicted.
MemoryBounded ==
    /\ Weight(cache) <= MaxBytes
    /\ heldBytes = Weight(cache) + drift

\* Nothing is pulled twice at once, nobody waits for nothing, and the memory is bounded.
SharedOnce == OneUpstream /\ MemoryBounded

\* "A request a second behind is served from memory rather than sent upstream again": an answer
\* that has not expired only makes room for others, when what is held does not fit.  The code
\* breaks this once enough weight has drifted.
EvictedForRoom ==
    [][\A e \in cache:
          Live(e) /\ ~(\E d \in cache': d.key = e.key)
          => \E k \in Keys: Weight(cache) + Bytes[k] > MaxBytes]_vars
=============================================================================
