------------------------- MODULE StreamSlotsProofs --------------------------
(***************************************************************************)
(* The registry of open streams, for any number of requests, probes and    *)
(* lists and any allowances: its type, that a connection which still obeys *)
(* its request is counted, that no slot is held by nothing, that a claim    *)
(* leaves no more of them than the line permits, and that a reader who      *)
(* holds one takes no other's.                                              *)
(***************************************************************************)
EXTENDS StreamSlots, FiniteSetTheorems, TLAPS

ReqOK ==
    /\ req \in [Streams -> Request]
    /\ \A s \in Streams : req[s].step \notin {"idle", "reading"} => req[s].max \in 1..Ceiling

(* The quietest of the three voices is at least one and never above the    *)
(* site's ceiling (lineAllowance, "at least 1").                           *)
THEOREM AllowanceInRange ==
    ASSUME NEW row \in Line PROVE LineAllowance(row) \in 1..Ceiling
<1> DEFINE said == IF row.panel = 0 THEN 1 ELSE row.panel
           wanted == IF row.chosen = 0 THEN said
                     ELSE IF row.panel = 0 THEN row.chosen ELSE Least(row.chosen, row.panel)
<1>1. row.panel \in Nat /\ row.chosen \in Nat
  BY DEF Line
<1>2. said \in Nat \ {0}
  BY <1>1
<1>3. wanted \in Nat \ {0}
  BY <1>1, <1>2 DEF Least
<1>4. LineAllowance(row) = Least(wanted, Ceiling)
  BY DEF LineAllowance
<1> HIDE DEF wanted
<1> QED BY <1>3, <1>4, StreamSlotsAssumption DEF Least

LEMMA IdleOK == Idle \in Request /\ Idle.step = "idle" /\ ~Idle.tied
BY StreamSlotsAssumption DEF Idle, Request, Steps, Kinds

(* What ending some handlers does to a request: it becomes idle, or keeps  *)
(* everything but the streams it was after.                                *)
LEMMA OverFacts ==
    ASSUME ReqOK, NEW E \in SUBSET Streams
    PROVE  /\ Over(E) \in [Streams -> Request]
           /\ \A t \in E : Over(E)[t] = Idle
           /\ \A t \in Streams \ E :
                /\ Over(E)[t].step = req[t].step /\ Over(E)[t].max = req[t].max
                /\ Over(E)[t].tied = req[t].tied /\ Over(E)[t].deaf = req[t].deaf
<1>1. ASSUME NEW t \in Streams
      PROVE  /\ [req[t] EXCEPT !.before = @ \ E] \in Request
             /\ [req[t] EXCEPT !.before = @ \ E].step = req[t].step
             /\ [req[t] EXCEPT !.before = @ \ E].max = req[t].max
             /\ [req[t] EXCEPT !.before = @ \ E].tied = req[t].tied
             /\ [req[t] EXCEPT !.before = @ \ E].deaf = req[t].deaf
  <2>1. req[t] \in Request
    BY DEF ReqOK
  <2> QED BY <2>1 DEF Request
<1>2. \A t \in E : Over(E)[t] = Idle
  BY DEF Over
<1>3. \A t \in Streams \ E : Over(E)[t] = [req[t] EXCEPT !.before = @ \ E]
  BY DEF Over
<1>4. Over(E) \in [Streams -> Request]
  BY <1>1, IdleOK DEF Over
<1> QED BY <1>1, <1>2, <1>3, <1>4

(* What a claim does to the requests.                                      *)
LEMMA OpenedFacts ==
    ASSUME ReqOK, NEW s \in Streams, NEW K \in SUBSET Streams,
           NEW E \in SUBSET Streams, s \notin E
    PROVE  /\ Opened(s, K, E) \in [Streams -> Request]
           /\ Opened(s, K, E)[s].step = "connecting"
           /\ Opened(s, K, E)[s].max = req[s].max
           /\ \A t \in E : Opened(s, K, E)[t] = Idle
           /\ \A t \in Streams \ (E \cup {s}) :
                /\ Opened(s, K, E)[t].step = req[t].step
                /\ Opened(s, K, E)[t].max = req[t].max
                /\ Opened(s, K, E)[t].tied = req[t].tied
                /\ Opened(s, K, E)[t].deaf = req[t].deaf
<1> DEFINE mine == [req[s] EXCEPT !.step = "connecting", !.before = K, !.deaf = req[s].left]
<1>1. req[s] \in Request
  BY DEF ReqOK
<1>2. mine \in Request /\ mine.step = "connecting" /\ mine.max = req[s].max
  BY <1>1 DEF Request, Steps
<1>3. Opened(s, K, E) = [Over(E) EXCEPT ![s] = mine]
  BY DEF Opened
<1> HIDE DEF mine
<1>4. Over(E) \in [Streams -> Request]
  BY OverFacts
<1>5. Opened(s, K, E)[s] = mine /\ \A t \in Streams \ {s} : Opened(s, K, E)[t] = Over(E)[t]
  BY <1>3, <1>4
<1>6. Opened(s, K, E) \in [Streams -> Request]
  BY <1>2, <1>3, <1>4
<1> QED BY <1>2, <1>5, <1>6, OverFacts

Safe == TypeOK /\ ConnectionIsCounted /\ SlotHasHolder

(* Ending a handler and giving its slot back keeps the registry right.     *)
LEMMA DoneSafe ==
    ASSUME Safe, NEW s \in Streams, Done(s) PROVE Safe'
<1>1. ReqOK
  BY DEF Safe, TypeOK, ReqOK
<1>2. /\ req' = Over({s}) /\ slots' = slots \ {s}
      /\ line' = line /\ probe' = probe /\ changes' = changes
  BY DEF Done
<1>3. /\ req' \in [Streams -> Request] /\ req'[s] = Idle
      /\ \A t \in Streams \ {s} :
            /\ req'[t].step = req[t].step /\ req'[t].max = req[t].max
            /\ req'[t].tied = req[t].tied /\ req'[t].deaf = req[t].deaf
  BY <1>1, <1>2, OverFacts
<1>4. TypeOK'
  BY <1>2, <1>3, IdleOK DEF Safe, TypeOK
<1>5. ConnectionIsCounted'
  BY <1>2, <1>3, IdleOK DEF Safe, ConnectionIsCounted, Hears
<1>6. SlotHasHolder'
  BY <1>2, <1>3 DEF Safe, SlotHasHolder, Connected, TypeOK
<1> QED BY <1>4, <1>5, <1>6 DEF Safe

LEMMA ClaimSafe ==
    ASSUME Safe, NEW s \in Streams, Claim(s) PROVE Safe'
<1>1. ReqOK
  BY DEF Safe, TypeOK, ReqOK
<1>2. line' = line /\ probe' = probe /\ changes' = changes /\ req[s].step = "claiming"
  BY DEF Claim
<1>3. ~Hears(s) /\ s \notin slots
  BY <1>2 DEF Hears, Safe, SlotHasHolder, Connected
<1>a. CASE req' = Over({s}) /\ slots' = slots
  <2>1. Done(s)
    BY <1>2, <1>3, <1>a DEF Done
  <2> QED BY <2>1, DoneSafe
<1>b. CASE LET kept == Kept(req[s].max)
           IN  /\ slots' = kept \cup {s}
               /\ req' = Opened(s, kept, {t \in slots \ kept : Hears(t)})
  <2> DEFINE kept == Kept(req[s].max)
             E == {t \in slots \ kept : Hears(t)}
  <2>1. kept \subseteq slots /\ slots \subseteq Streams
    BY DEF Kept, Safe, TypeOK
  <2>2. slots' = kept \cup {s} /\ req' = Opened(s, kept, E)
    BY <1>b
  <2>3. s \notin E /\ E \subseteq slots \ kept /\ \A t \in slots \ kept : Hears(t) => t \in E
    BY <1>3
  <2> HIDE DEF kept, E
  <2>4. /\ req' \in [Streams -> Request]
        /\ req'[s].step = "connecting" /\ req'[s].max = req[s].max
        /\ \A t \in E : req'[t] = Idle
        /\ \A t \in Streams \ (E \cup {s}) :
              /\ req'[t].step = req[t].step /\ req'[t].max = req[t].max
              /\ req'[t].tied = req[t].tied /\ req'[t].deaf = req[t].deaf
    BY <1>1, <2>1, <2>2, <2>3, OpenedFacts
  <2>5. \A t \in Streams :
            req'[t].step \notin {"idle", "reading"} => req'[t].max \in 1..Ceiling
    BY <1>1, <1>2, <2>1, <2>3, <2>4, IdleOK DEF ReqOK
  <2>6. TypeOK'
    BY <1>2, <2>1, <2>2, <2>4, <2>5 DEF Safe, TypeOK
  <2>7. ConnectionIsCounted'
    <3> SUFFICES ASSUME NEW t \in Streams, Hears(t)' PROVE t \in slots'
      BY DEF ConnectionIsCounted
    <3>1. CASE t \in E
      BY <2>4, <3>1, IdleOK DEF Hears
    <3>2. CASE t \notin E /\ t # s
      <4>1. Hears(t)
        BY <2>4, <3>2 DEF Hears
      <4> QED BY <4>1, <2>2, <2>3, <3>2 DEF Safe, ConnectionIsCounted
    <3>3. CASE t = s
      BY <2>2, <3>3
    <3> QED BY <3>1, <3>2, <3>3
  <2>8. SlotHasHolder'
    BY <2>1, <2>2, <2>3, <2>4 DEF Safe, SlotHasHolder, Connected
  <2> QED BY <2>6, <2>7, <2>8 DEF Safe
<1> QED BY <1>a, <1>b DEF Claim

(* A step that rewrites one request in place and keeps the registry.       *)
LEMMA SteppedSafe ==
    ASSUME Safe, NEW s \in Streams, NEW r \in Request,
           req' = [req EXCEPT ![s] = r],
           UNCHANGED <<line, slots, probe, changes>>,
           r.step \notin {"idle", "reading"} => r.max \in 1..Ceiling,
           (~r.deaf /\ (\/ r.step \in {"connecting", "sniffing"}
                        \/ (r.step \in {"marking", "playing"} /\ r.tied))) => Hears(s),
           s \in slots => r.step \in {"connecting", "sniffing", "marking", "closing", "playing"}
    PROVE  Safe'
<1>1. /\ req' \in [Streams -> Request] /\ req'[s] = r
      /\ \A t \in Streams \ {s} : req'[t] = req[t]
  BY DEF Safe, TypeOK
<1>2. TypeOK'
  BY <1>1 DEF Safe, TypeOK
<1>3. ConnectionIsCounted'
  <2>a. Hears(s)' => /\ ~r.deaf
                      /\ \/ r.step \in {"connecting", "sniffing"}
                         \/ (r.step \in {"marking", "playing"} /\ r.tied)
    BY <1>1 DEF Hears
  <2>1. slots' = slots /\ (Hears(s)' => Hears(s))
    BY <2>a
  <2>2. \A t \in Streams \ {s} : Hears(t)' => Hears(t)
    BY <1>1 DEF Hears
  <2> QED BY <2>1, <2>2 DEF Safe, ConnectionIsCounted
<1>4. SlotHasHolder'
  BY <1>1 DEF Safe, SlotHasHolder, Connected, TypeOK
<1> QED BY <1>2, <1>3, <1>4 DEF Safe

LEMMA InitSafe == Init => Safe
<1> SUFFICES ASSUME Init PROVE Safe
  OBVIOUS
<1>1. req \in [Streams -> Request] /\ \A s \in Streams : req[s] = Idle
  BY IdleOK DEF Init
<1>2. line \in [Lists -> Line]
  <2>1. PICK n \in {0, Sold[FirstList]}, choose \in [Lists -> Chooses] :
            line = [l \in Lists |-> [chosen |-> choose[l], panel |-> n]]
    BY DEF Init
  <2>2. n \in Nat /\ \A l \in Lists : choose[l] \in Nat
    BY <2>1, StreamSlotsAssumption
  <2> QED BY <2>1, <2>2 DEF Line
<1>3. changes \in 0..MaxChanges
  BY StreamSlotsAssumption DEF Init
<1>4. TypeOK
  BY <1>1, <1>2, <1>3, IdleOK DEF Init, TypeOK
<1> QED BY <1>1, <1>4, IdleOK DEF Init, Safe, ConnectionIsCounted, SlotHasHolder, Hears

LEMMA StreamStepSafe ==
    ASSUME Safe, NEW s \in Streams, StreamStep(s) PROVE Safe'
<1> USE DEF Request, Steps
<1>1. req[s] \in Request /\ req \in [Streams -> Request]
  BY DEF Safe, TypeOK
<1>2. req[s].step \notin {"idle", "reading"} => req[s].max \in 1..Ceiling
  BY DEF Safe, TypeOK
<1>3. s \in slots => Connected(s) \/ req[s].step = "closing"
  BY DEF Safe, SlotHasHolder
<1>a. CASE \E kind \in Kinds, l \in Lists : Watch(s, kind, l)
  <2>1. PICK kind \in Kinds, l \in Lists : Watch(s, kind, l)
    BY <1>a
  <2> DEFINE r == [Idle EXCEPT !.step = "reading", !.kind = kind, !.list = l]
  <2>2. r \in Request /\ r.step = "reading"
    BY <2>1, StreamSlotsAssumption DEF Idle, Kinds
  <2>3. /\ req' = [req EXCEPT ![s] = r] /\ UNCHANGED <<line, slots, probe, changes>>
        /\ s \notin slots
    BY <1>3, <2>1 DEF Watch, Connected
  <2> HIDE DEF r
  <2> QED BY <2>2, <2>3, SteppedSafe
<1>b. CASE ReadAllowance(s)
  <2> DEFINE max == AllowanceFor(req[s].kind, req[s].list)
             r == [req[s] EXCEPT !.step = "claiming", !.max = max]
  <2>1. max \in 1..Ceiling
    <3>1. \A l \in Lists : line[l] \in Line
      BY DEF Safe, TypeOK
    <3> QED BY <1>1, <3>1, AllowanceInRange, StreamSlotsAssumption DEF AllowanceFor
  <2> HIDE DEF max
  <2>m. max \in Nat
    BY <2>1, StreamSlotsAssumption
  <2>2. r \in Request /\ r.step = "claiming" /\ r.max = max
    BY <1>1, <2>m
  <2>3. /\ req' = [req EXCEPT ![s] = r] /\ UNCHANGED <<line, slots, probe, changes>>
        /\ s \notin slots
    BY <1>b, <1>1, <1>3 DEF ReadAllowance, Connected, max
  <2> HIDE DEF r
  <2> QED BY <2>1, <2>2, <2>3, SteppedSafe
<1>c. CASE Claim(s)
  BY <1>c, ClaimSafe
<1>d. CASE Accept(s)
  <2> DEFINE r == [req[s] EXCEPT !.step = "marking", !.tied = TRUE]
  <2>1. r \in Request /\ r.step = "marking" /\ r.max = req[s].max /\ r.deaf = req[s].deaf
    BY <1>1
  <2>2. /\ req' = [req EXCEPT ![s] = r] /\ UNCHANGED <<line, slots, probe, changes>>
        /\ req[s].step = "connecting"
    BY <1>d, <1>1 DEF Accept
  <2>3. ~req[s].deaf => Hears(s)
    BY <2>2 DEF Hears
  <2> HIDE DEF r
  <2> QED BY <1>2, <2>1, <2>2, <2>3, SteppedSafe
<1>e. CASE Sniff(s)
  <2> DEFINE r == [req[s] EXCEPT !.step = "sniffing"]
  <2>1. r \in Request /\ r.step = "sniffing" /\ r.max = req[s].max /\ r.deaf = req[s].deaf
    BY <1>1
  <2>2. /\ req' = [req EXCEPT ![s] = r] /\ UNCHANGED <<line, slots, probe, changes>>
        /\ req[s].step = "connecting"
    BY <1>e, <1>1 DEF Sniff
  <2>3. ~req[s].deaf => Hears(s)
    BY <2>2 DEF Hears
  <2> HIDE DEF r
  <2> QED BY <1>2, <2>1, <2>2, <2>3, SteppedSafe
<1>f. CASE SniffStream(s)
  <2> DEFINE r == [req[s] EXCEPT !.step = "marking", !.tied = FALSE]
  <2>1. r \in Request /\ r.step = "marking" /\ r.max = req[s].max /\ ~r.tied
    BY <1>1
  <2>2. /\ req' = [req EXCEPT ![s] = r] /\ UNCHANGED <<line, slots, probe, changes>>
        /\ req[s].step = "sniffing"
    BY <1>f, <1>1 DEF SniffStream
  <2> HIDE DEF r
  <2> QED BY <1>2, <2>1, <2>2, SteppedSafe
<1>g. CASE Refuse(s) \/ SniffOther(s) \/ Ended(s) \/ Cancelled(s)
  <2>1. Done(s)
    BY <1>g DEF Refuse, SniffOther, Ended, Cancelled
  <2> QED BY <2>1, DoneSafe
<1>h. CASE Marked(s)
  <2>1. CASE Done(s)
    BY <2>1, DoneSafe
  <2>2. CASE /\ req[s].step = "marking"
             /\ req' = [req EXCEPT ![s].step = "playing"]
             /\ UNCHANGED <<line, slots, probe, changes>>
    <3> DEFINE r == [req[s] EXCEPT !.step = "playing"]
    <3>1. /\ r \in Request /\ r.step = "playing" /\ r.max = req[s].max
          /\ r.tied = req[s].tied /\ r.deaf = req[s].deaf
      BY <1>1
    <3>2. req' = [req EXCEPT ![s] = r]
      BY <1>1, <2>2
    <3>3. ~req[s].deaf /\ req[s].tied => Hears(s)
      BY <2>2 DEF Hears
    <3> HIDE DEF r
    <3> QED BY <1>2, <2>2, <3>1, <3>2, <3>3, SteppedSafe
  <2> QED BY <1>h, <2>1, <2>2 DEF Marked
<1>i. CASE Leave(s)
  <2>1. CASE Done(s)
    BY <2>1, DoneSafe
  <2>2. CASE /\ Hears(s) /\ req[s].step = "marking"
             /\ req' = [req EXCEPT ![s].step = "closing", ![s].left = TRUE]
             /\ UNCHANGED <<line, slots, probe, changes>>
    <3> DEFINE r == [req[s] EXCEPT !.step = "closing", !.left = TRUE]
    <3>1. r \in Request /\ r.step = "closing" /\ r.max = req[s].max
      BY <1>1
    <3>2. req' = [req EXCEPT ![s] = r]
      BY <1>1, <2>2
    <3> HIDE DEF r
    <3> QED BY <1>2, <2>2, <3>1, <3>2, SteppedSafe
  <2>3. CASE /\ ~Hears(s)
             /\ req' = [req EXCEPT ![s].left = TRUE]
             /\ slots' = IF req[s].step = "playing" THEN slots \ {s} ELSE slots
             /\ UNCHANGED <<line, probe, changes>>
    <3> DEFINE r == [req[s] EXCEPT !.left = TRUE]
    <3>1. /\ r \in Request /\ r.step = req[s].step /\ r.max = req[s].max
          /\ r.tied = req[s].tied /\ r.deaf = req[s].deaf
      BY <1>1
    <3>2. req' = [req EXCEPT ![s] = r]
      BY <1>1, <2>3
    <3> HIDE DEF r
    <3>3. /\ req' \in [Streams -> Request] /\ req'[s] = r
          /\ \A t \in Streams \ {s} : req'[t] = req[t]
      BY <1>1, <3>1, <3>2
    <3>4. ~Hears(s)'
      BY <2>3, <3>1, <3>3 DEF Hears
    <3>5. slots' \subseteq slots /\ slots \ {s} \subseteq slots'
      BY <2>3
    <3>6. TypeOK'
      BY <2>3, <3>1, <3>3, <3>5 DEF Safe, TypeOK
    <3>7. ConnectionIsCounted'
      BY <3>3, <3>4, <3>5 DEF Safe, ConnectionIsCounted, Hears
    <3>8. SlotHasHolder'
      BY <3>1, <3>3, <3>5 DEF Safe, SlotHasHolder, Connected, TypeOK
    <3> QED BY <3>6, <3>7, <3>8 DEF Safe
  <2> QED BY <1>i, <2>1, <2>2, <2>3 DEF Leave
<1> QED BY <1>a, <1>b, <1>c, <1>d, <1>e, <1>f, <1>g, <1>h, <1>i DEF StreamStep

LEMMA NextSafe == Safe /\ [Next]_vars => Safe'
<1> SUFFICES ASSUME Safe, [Next]_vars PROVE Safe'
  OBVIOUS
<1>1. ASSUME NEW s \in Streams, StreamStep(s) PROVE Safe'
  BY <1>1, StreamStepSafe
<1>2. ASSUME NEW p \in Probes, ProbeStep(p) PROVE Safe'
  <2>1. /\ UNCHANGED <<line, slots, req, changes>>
        /\ probe' \in [Probes -> {"idle", "reading", "checking", "filing"}]
    BY <1>2 DEF ProbeStep, CheckOwn, ProbeOwn, CheckShared, ProbeForFile, ProbeOver, Safe, TypeOK
  <2> QED BY <2>1 DEF Safe, TypeOK, ConnectionIsCounted, SlotHasHolder, Hears, Connected
<1>3. ASSUME NEW l \in Lists, SettingStep(l) PROVE Safe'
  <2>1. UNCHANGED <<slots, req, probe>> /\ changes' \in 0..MaxChanges
    BY <1>3, StreamSlotsAssumption DEF SettingStep, AskPanel, SetLineConnections, Safe, TypeOK
  <2>2. line \in [Lists -> Line]
    BY DEF Safe, TypeOK
  <2>3. line' \in [Lists -> Line]
    <3>1. CASE AskPanel(l)
      <4>1. PICK n \in {0, Sold[l]} : line' = [k \in Lists |-> [line[k] EXCEPT !.panel = n]]
        BY <3>1 DEF AskPanel
      <4>2. n \in Nat
        BY <4>1, StreamSlotsAssumption
      <4> QED BY <2>2, <4>1, <4>2 DEF Line
    <3>2. CASE \E n \in Chooses : SetLineConnections(l, n)
      <4>1. PICK n \in Chooses : line' = [line EXCEPT ![l].chosen = n]
        BY <3>2 DEF SetLineConnections
      <4>2. n \in Nat
        BY <4>1, StreamSlotsAssumption
      <4> QED BY <2>2, <4>1, <4>2 DEF Line
    <3> QED BY <1>3, <3>1, <3>2 DEF SettingStep
  <2> QED BY <2>1, <2>3 DEF Safe, TypeOK, ConnectionIsCounted, SlotHasHolder, Hears, Connected
<1>4. CASE UNCHANGED vars
  BY <1>4 DEF vars, Safe, TypeOK, ConnectionIsCounted, SlotHasHolder, Hears, Connected
<1> QED BY <1>1, <1>2, <1>3, <1>4 DEF Next

THEOREM SafeAlways == Spec => []Safe
BY InitSafe, NextSafe, PTL DEF Spec

(* Every field of a handler keeps its type, and no claim is ever made with *)
(* an allowance of nothing or above the site's ceiling.                    *)
THEOREM TypeCorrect == Spec => []TypeOK
<1>1. Safe => TypeOK
  BY DEF Safe
<1> QED BY <1>1, SafeAlways, PTL

(* The registry never loses sight of a stream it could still end.          *)
THEOREM ConnectionsAreCounted == Spec => []ConnectionIsCounted
<1>1. Safe => ConnectionIsCounted
  BY DEF Safe
<1> QED BY <1>1, SafeAlways, PTL

(* Whatever ends a handler gives its slot back.                            *)
THEOREM SlotsAreHeld == Spec => []SlotHasHolder
<1>1. Safe => SlotHasHolder
  BY DEF Safe
<1> QED BY <1>1, SafeAlways, PTL

----------------------------------------------------------------------------
(* The allowance.                                                           *)

Early == {"idle", "reading", "claiming"}

\* The Set iterates in the order of insertion: `before` is a total order of
\* the registry, and who has not claimed yet is in nobody's past.
Inserted ==
    /\ \A s \in slots : s \notin req[s].before
    /\ \A s, t \in slots : s # t => s \in req[t].before \/ t \in req[s].before
    /\ \A s, t, u \in slots : s \in req[t].before /\ t \in req[u].before => s \in req[u].before
Unborn == \A s, t \in Streams : req[s].step \in Early => s \notin req[t].before

\* While the settings rest there is one allowance for all.
Resting == Lists = {FirstList} /\ changes = 0
Allowed == LineAllowance(line[FirstList])
OneVoice == Resting => \A s \in Streams : req[s].step \notin {"idle", "reading"} => req[s].max = Allowed
Fits == Resting => Cardinality(slots) <= Allowed

Newer(s) == {t \in slots : s \in req[t].before}

LEMMA RegistryFinite ==
    ASSUME Safe, NEW S \in SUBSET slots
    PROVE  IsFiniteSet(S) /\ Cardinality(S) \in Nat
<1>1. S \in SUBSET Streams
  BY DEF Safe, TypeOK
<1>2. IsFiniteSet(S)
  BY <1>1, StreamSlotsAssumption, FS_Subset
<1> QED BY <1>2, FS_CardinalityType

(* Of two streams the older has more newer ones.                            *)
LEMMA OlderHasMore ==
    ASSUME Safe, Inserted, NEW s \in slots, NEW t \in slots, s \in req[t].before
    PROVE  Cardinality(Newer(t)) < Cardinality(Newer(s))
<1>1. Newer(t) \in SUBSET Newer(s) /\ t \in Newer(s) /\ t \notin Newer(t)
  BY DEF Inserted, Newer
<1>2. Newer(s) \in SUBSET slots /\ Newer(t) \in SUBSET slots
  BY DEF Newer
<1>3. /\ IsFiniteSet(Newer(s)) /\ Cardinality(Newer(s)) \in Nat
      /\ Cardinality(Newer(t)) \in Nat
  BY <1>2, RegistryFinite
<1>4. /\ Cardinality(Newer(t)) <= Cardinality(Newer(s))
      /\ Cardinality(Newer(s)) = Cardinality(Newer(t)) => Newer(s) = Newer(t)
  BY <1>1, <1>3, FS_Subset
<1> QED BY <1>1, <1>3, <1>4

(* claimStreamSlot's loop leaves room for the newest: no two of the kept     *)
(* have the same number of newer ones, and each has fewer than max - 1.      *)
LEMMA KeptLeaveRoom ==
    ASSUME Safe, Inserted, NEW max \in Nat \ {0}
    PROVE  Cardinality(Kept(max)) <= max - 1
<1> DEFINE K == Kept(max)
           f == [s \in K |-> Cardinality(Newer(s))]
           T == 0..(max - 2)
<1>1. K \in SUBSET slots /\ \A s \in K : Cardinality(Newer(s)) < max - 1
  BY DEF Kept, Newer
<1>2. IsFiniteSet(K) /\ Cardinality(K) \in Nat
  BY <1>1, RegistryFinite
<1>3. \A s \in slots : Cardinality(Newer(s)) \in Nat
  BY RegistryFinite DEF Newer
<1>4. f \in [K -> T]
  BY <1>1, <1>3
<1>5. IsFiniteSet(T) /\ Cardinality(T) = max - 1
  BY FS_Interval
<1>6. ASSUME NEW s \in K, NEW t \in K, s # t PROVE f[s] # f[t]
  <2>1. s \in slots /\ t \in slots
    BY <1>1
  <2>2. s \in req[t].before \/ t \in req[s].before
    BY <1>6, <2>1 DEF Inserted
  <2>3. Cardinality(Newer(s)) \in Nat /\ Cardinality(Newer(t)) \in Nat
    BY <1>3, <2>1
  <2>4. Cardinality(Newer(s)) # Cardinality(Newer(t))
    BY <2>1, <2>2, <2>3, OlderHasMore
  <2> QED BY <2>4
<1> HIDE DEF K, f, T
<1>7. ~(Cardinality(T) < Cardinality(K))
  BY <1>2, <1>4, <1>5, <1>6, FS_PigeonHole
<1>8. Cardinality(K) <= max - 1
  BY <1>2, <1>5, <1>7
<1> QED BY <1>8 DEF K

(* A claim never leaves more than it was allowed.                           *)
LEMMA ClaimLeaves ==
    ASSUME Safe, Inserted, NEW s \in Streams, req[s].step = "claiming",
           slots' = Kept(req[s].max) \cup {s}
    PROVE  Cardinality(slots') <= req[s].max
<1>1. req[s].max \in Nat \ {0}
  BY StreamSlotsAssumption DEF Safe, TypeOK
<1>2. Kept(req[s].max) \in SUBSET slots
  BY DEF Kept
<1>3. /\ IsFiniteSet(Kept(req[s].max)) /\ Cardinality(Kept(req[s].max)) \in Nat
      /\ Cardinality(Kept(req[s].max)) <= req[s].max - 1
  BY <1>1, <1>2, RegistryFinite, KeptLeaveRoom
<1> DEFINE K == Kept(req[s].max)
<1> HIDE DEF K
<1>4. Cardinality(K \cup {s}) = IF s \in K THEN Cardinality(K) ELSE Cardinality(K) + 1
  BY <1>3, FS_AddElement DEF K
<1>5. slots' = K \cup {s} /\ Cardinality(K) \in Nat /\ Cardinality(K) <= req[s].max - 1
  BY <1>3 DEF K
<1>6. Cardinality(slots') = Cardinality(K \cup {s})
  BY <1>5, Zenon
<1> HIDE DEF K
<1> QED BY ONLY <1>1, <1>4, <1>5, <1>6

(* With room for one more, a claim keeps everybody.                         *)
LEMMA RoomKeepsAll ==
    ASSUME Safe, Inserted, NEW max \in Nat \ {0}, Cardinality(slots) < max
    PROVE  Kept(max) = slots
<1>1. IsFiniteSet(slots) /\ Cardinality(slots) \in Nat
  BY RegistryFinite
<1>2. ASSUME NEW s \in slots PROVE Cardinality(Newer(s)) < max - 1
  <2>1. Newer(s) \in SUBSET slots /\ s \notin Newer(s)
    BY DEF Newer, Inserted
  <2>2. Newer(s) \in SUBSET (slots \ {s})
    BY <2>1
  <2>3. IsFiniteSet(slots \ {s}) /\ Cardinality(slots \ {s}) = Cardinality(slots) - 1
    BY <1>1, <1>2, FS_RemoveElement
  <2>4. Cardinality(Newer(s)) <= Cardinality(slots \ {s})
    BY <2>2, <2>3, FS_Subset
  <2>5. Cardinality(Newer(s)) \in Nat
    BY <2>1, RegistryFinite
  <2> QED BY <1>1, <2>3, <2>4, <2>5
<1> QED BY <1>2 DEF Kept, Newer


(* A step that is no claim: nobody enters the registry or anybody's past    *)
(* but by leaving it, and an allowance is read when there is one voice.     *)
Quiet ==
    /\ slots' \subseteq slots
    /\ \A t \in Streams : req'[t].before \subseteq req[t].before
    /\ \A t \in slots' : req[t].before \cap slots' \subseteq req'[t].before
    /\ \A t \in Streams : req'[t].step \in Early => \/ req[t].step \in Early
                                                    \/ \A u \in Streams : t \notin req'[u].before
    /\ \A t \in Streams : req'[t].step \notin {"idle", "reading"} =>
          \/ req[t].step \notin {"idle", "reading"} /\ req'[t].max = req[t].max
          \/ Resting => req'[t].max = Allowed
    /\ line' = line /\ changes' = changes

Ordered == Inserted /\ Unborn /\ OneVoice /\ Fits

LEMMA QuietOrdered == ASSUME Safe, Safe', Ordered, Quiet PROVE Ordered'
<1>1. Inserted'
  BY DEF Quiet, Ordered, Inserted, Safe, TypeOK
<1>2. Unborn'
  BY DEF Quiet, Ordered, Unborn, Safe, TypeOK
<1>3. Resting' = Resting /\ Allowed' = Allowed
  BY DEF Quiet, Resting, Allowed, LineAllowance, Least
<1>4. OneVoice'
  BY <1>3 DEF Quiet, Ordered, OneVoice
<1>5. Fits'
  <2>1. IsFiniteSet(slots) /\ Cardinality(slots) \in Nat
    BY RegistryFinite
  <2>2. Cardinality(slots') <= Cardinality(slots) /\ Cardinality(slots') \in Nat
    BY <2>1, FS_Subset, FS_CardinalityType DEF Quiet
  <2>3. Resting => Cardinality(slots) <= Allowed
    BY DEF Ordered, Fits
  <2>4. Resting => Allowed \in Nat
    <3>1. line[FirstList] \in Line
      BY StreamSlotsAssumption DEF Safe, TypeOK
    <3> QED BY <3>1, AllowanceInRange, StreamSlotsAssumption DEF Allowed
  <2> QED BY <1>3, <2>1, <2>2, <2>3, <2>4 DEF Fits
<1> QED BY <1>1, <1>2, <1>4, <1>5 DEF Ordered

LEMMA OverQuiet ==
    ASSUME Safe, NEW s \in Streams, req' = Over({s}), slots' \subseteq slots \ {s},
           line' = line, changes' = changes
    PROVE  Quiet
<1>1. ReqOK
  BY DEF Safe, TypeOK, ReqOK
<1>2. /\ req'[s] = Idle /\ Idle.before = {} /\ Idle.step = "idle"
      /\ \A t \in Streams \ {s} : req'[t] = [req[t] EXCEPT !.before = @ \ {s}]
  BY DEF Over, Idle
<1>3. \A t \in Streams \ {s} : /\ req'[t].before = req[t].before \ {s}
                               /\ req'[t].step = req[t].step /\ req'[t].max = req[t].max
  <2> SUFFICES ASSUME NEW t \in Streams \ {s}
               PROVE  /\ req'[t].before = req[t].before \ {s}
                      /\ req'[t].step = req[t].step /\ req'[t].max = req[t].max
    OBVIOUS
  <2>1. req[t] \in Request
    BY <1>1 DEF ReqOK
  <2> QED BY <1>2, <2>1 DEF Request
<1>4. \A t \in Streams : s \notin req'[t].before
  BY <1>2, <1>3
<1> QED BY <1>2, <1>3, <1>4 DEF Quiet, Safe, TypeOK

LEMMA SteppedQuiet ==
    ASSUME Safe, NEW s \in Streams, NEW r \in Request, req' = [req EXCEPT ![s] = r],
           slots' \subseteq slots, line' = line, changes' = changes,
           r.before = req[s].before \/ (r.before = {} /\ s \notin slots),
           r.step \in Early => req[s].step \in Early,
           r.step \notin {"idle", "reading"} =>
              \/ req[s].step \notin {"idle", "reading"} /\ r.max = req[s].max
              \/ Resting => r.max = Allowed
    PROVE  Quiet
<1>1. req'[s] = r /\ \A t \in Streams \ {s} : req'[t] = req[t]
  BY DEF Safe, TypeOK
<1> QED BY <1>1 DEF Quiet, Safe, TypeOK

LEMMA StreamStepQuiet ==
    ASSUME Safe, NEW s \in Streams, StreamStep(s)
    PROVE  Quiet \/ (Claim(s) /\ s \in slots')
<1> USE DEF Request, Steps, Early
<1>1. req[s] \in Request /\ req \in [Streams -> Request] /\ slots \subseteq Streams
  BY DEF Safe, TypeOK
<1>3. s \in slots => Connected(s) \/ req[s].step = "closing"
  BY DEF Safe, SlotHasHolder
<1>a. CASE \E kind \in Kinds, l \in Lists : Watch(s, kind, l)
  <2>1. PICK kind \in Kinds, l \in Lists : Watch(s, kind, l)
    BY <1>a
  <2> DEFINE r == [Idle EXCEPT !.step = "reading", !.kind = kind, !.list = l]
  <2>2. r \in Request /\ r.step = "reading" /\ r.before = {}
    BY <2>1, StreamSlotsAssumption DEF Idle, Kinds
  <2>3. /\ req' = [req EXCEPT ![s] = r] /\ UNCHANGED <<line, slots, probe, changes>>
        /\ s \notin slots /\ req[s].step = "idle"
    BY <1>3, <2>1 DEF Watch, Connected
  <2> HIDE DEF r
  <2> QED BY <2>2, <2>3, SteppedQuiet
<1>b. CASE ReadAllowance(s)
  <2> DEFINE max == AllowanceFor(req[s].kind, req[s].list)
             r == [req[s] EXCEPT !.step = "claiming", !.max = max]
  <2>1. max \in Nat
    <3>1. \A l \in Lists : line[l] \in Line
      BY DEF Safe, TypeOK
    <3>2. max \in 1..Ceiling
      BY <1>1, <3>1, AllowanceInRange, StreamSlotsAssumption DEF AllowanceFor
    <3> QED BY <3>2, StreamSlotsAssumption
  <2>2. Resting => max = Allowed
    BY <1>1 DEF Resting, Allowed, AllowanceFor
  <2>3. req' = [req EXCEPT ![s] = r] /\ req[s].step = "reading"
    BY <1>b, <1>1 DEF ReadAllowance
  <2> HIDE DEF max
  <2>4. r \in Request /\ r.step = "claiming" /\ r.max = max /\ r.before = req[s].before
    BY <1>1, <2>1
  <2> HIDE DEF r
  <2> QED BY <1>b, <2>2, <2>3, <2>4, SteppedQuiet, ZenonT(40) DEF ReadAllowance
<1>c. CASE Claim(s) /\ s \notin slots'
  <2>1. req' = Over({s}) /\ slots' = slots /\ line' = line /\ changes' = changes
    BY <1>c DEF Claim
  <2> QED BY <1>c, <2>1, OverQuiet
<1>d. CASE Accept(s)
  <2> DEFINE r == [req[s] EXCEPT !.step = "marking", !.tied = TRUE]
  <2>1. r \in Request /\ r.step = "marking" /\ r.max = req[s].max /\ r.before = req[s].before
    BY <1>1
  <2>2. /\ req' = [req EXCEPT ![s] = r] /\ UNCHANGED <<line, slots, probe, changes>>
        /\ req[s].step = "connecting"
    BY <1>d, <1>1 DEF Accept
  <2> HIDE DEF r
  <2> QED BY <2>1, <2>2, SteppedQuiet
<1>e. CASE Sniff(s)
  <2> DEFINE r == [req[s] EXCEPT !.step = "sniffing"]
  <2>1. r \in Request /\ r.step = "sniffing" /\ r.max = req[s].max /\ r.before = req[s].before
    BY <1>1
  <2>2. /\ req' = [req EXCEPT ![s] = r] /\ UNCHANGED <<line, slots, probe, changes>>
        /\ req[s].step = "connecting"
    BY <1>e, <1>1 DEF Sniff
  <2> HIDE DEF r
  <2> QED BY <2>1, <2>2, SteppedQuiet
<1>f. CASE SniffStream(s)
  <2> DEFINE r == [req[s] EXCEPT !.step = "marking", !.tied = FALSE]
  <2>1. r \in Request /\ r.step = "marking" /\ r.max = req[s].max /\ r.before = req[s].before
    BY <1>1
  <2>2. /\ req' = [req EXCEPT ![s] = r] /\ UNCHANGED <<line, slots, probe, changes>>
        /\ req[s].step = "sniffing"
    BY <1>f, <1>1 DEF SniffStream
  <2> HIDE DEF r
  <2> QED BY <2>1, <2>2, SteppedQuiet
<1>g. CASE Done(s)
  BY <1>g, OverQuiet DEF Done
<1>h. CASE Marked(s) /\ ~Done(s)
  <2> DEFINE r == [req[s] EXCEPT !.step = "playing"]
  <2>1. r \in Request /\ r.step = "playing" /\ r.max = req[s].max /\ r.before = req[s].before
    BY <1>1
  <2>2. /\ req' = [req EXCEPT ![s] = r] /\ UNCHANGED <<line, slots, probe, changes>>
        /\ req[s].step = "marking"
    BY <1>h, <1>1 DEF Marked
  <2> HIDE DEF r
  <2> QED BY <2>1, <2>2, SteppedQuiet
<1>i. CASE Leave(s) /\ ~Done(s)
  <2>1. PICK st \in {req[s].step, "closing"} :
            /\ req' = [req EXCEPT ![s] = [req[s] EXCEPT !.step = st, !.left = TRUE]]
            /\ st = "closing" => req[s].step \notin {"idle", "reading"}
            /\ slots' \subseteq slots /\ line' = line /\ changes' = changes
    <3>1. CASE /\ Hears(s) /\ req[s].step = "marking"
               /\ req' = [req EXCEPT ![s].step = "closing", ![s].left = TRUE]
               /\ UNCHANGED <<line, slots, probe, changes>>
      BY <1>1, <3>1
    <3>2. CASE /\ ~Hears(s)
               /\ req' = [req EXCEPT ![s].left = TRUE]
               /\ slots' = IF req[s].step = "playing" THEN slots \ {s} ELSE slots
               /\ UNCHANGED <<line, probe, changes>>
      <4>1. [req[s] EXCEPT !.left = TRUE] = [req[s] EXCEPT !.step = req[s].step, !.left = TRUE]
        BY <1>1
      <4>2. CASE req[s].step = "closing"
        BY <1>1, <3>2, <4>1, <4>2
      <4>3. CASE req[s].step # "closing"
        BY <1>1, <3>2, <4>1, <4>3
      <4> QED BY <4>2, <4>3
    <3> QED BY <1>i, <3>1, <3>2 DEF Leave
  <2> DEFINE r == [req[s] EXCEPT !.step = st, !.left = TRUE]
  <2>2. r \in Request /\ r.step = st /\ r.max = req[s].max /\ r.before = req[s].before
    BY <1>1, <2>1
  <2>3. req' = [req EXCEPT ![s] = r]
    BY <2>1
  <2>4. r.step \in Early => req[s].step \in Early
    BY <2>1, <2>2
  <2>5. r.step \notin {"idle", "reading"} => req[s].step \notin {"idle", "reading"}
    BY <2>1, <2>2
  <2>6. slots' \subseteq slots /\ line' = line /\ changes' = changes
    BY <2>1
  <2> HIDE DEF r
  <2> QED BY <2>2, <2>3, <2>4, <2>5, <2>6, SteppedQuiet
<1> QED BY <1>a, <1>b, <1>c, <1>d, <1>e, <1>f, <1>g, <1>h, <1>i
        DEF StreamStep, Refuse, SniffOther, Ended, Cancelled

LEMMA ClaimOrdered ==
    ASSUME Safe, Safe', Ordered, NEW s \in Streams, Claim(s), s \in slots'
    PROVE  /\ Ordered'
           /\ slots' \ slots = {s} /\ slots' = Kept(req[s].max) \cup {s}
           /\ req'[s].max = req[s].max /\ Cardinality(slots') <= req[s].max
           /\ req[s].kind = "viewer" => Cardinality(slots) < req[s].max
<1>1. ReqOK
  BY DEF Safe, TypeOK, ReqOK
<1>2. line' = line /\ changes' = changes /\ req[s].step = "claiming"
  BY DEF Claim
<1>3. s \notin slots
  BY <1>2 DEF Safe, SlotHasHolder, Connected
<1> DEFINE kept == Kept(req[s].max)
           E == {t \in slots \ kept : Hears(t)}
<1>4. slots' = kept \cup {s} /\ req' = Opened(s, kept, E)
  BY <1>3 DEF Claim
<1>5. kept \subseteq slots /\ slots \subseteq Streams /\ E \subseteq slots \ kept
  BY DEF Kept, Safe, TypeOK
<1>6. Cardinality(slots') <= req[s].max
  BY <1>2, <1>4, ClaimLeaves DEF Ordered
<1>7. req[s].kind = "viewer" => Cardinality(slots) < req[s].max
  <2>1. Cardinality(slots) \in Nat /\ req[s].max \in Nat
    BY <1>1, RegistryFinite DEF ReqOK, Request
  <2> QED BY <1>3, <2>1 DEF Claim
<1> HIDE DEF kept, E
<1>8. /\ req'[s].step = "connecting" /\ req'[s].max = req[s].max /\ req'[s].before = kept
      /\ \A t \in E : req'[t] = Idle
      /\ \A t \in Streams \ (E \cup {s}) :
            /\ req'[t].step = req[t].step /\ req'[t].max = req[t].max
            /\ req'[t].before = req[t].before \ E
  <2>1. s \notin E /\ E \in SUBSET Streams /\ kept \in SUBSET Streams
    BY <1>3, <1>5
  <2>2. Over(E) \in [Streams -> Request]
    BY <1>1, <2>1, OverFacts
  <2>3. Opened(s, kept, E) = [Over(E) EXCEPT ![s] = [req[s] EXCEPT !.step = "connecting", !.before = kept,
                                                                   !.deaf = req[s].left]]
    BY DEF Opened
  <2>4. req'[s] = [req[s] EXCEPT !.step = "connecting", !.before = kept, !.deaf = req[s].left]
    BY <1>4, <2>2, <2>3
  <2>5. req[s] \in Request
    BY <1>1 DEF ReqOK
  <2>6. req'[s].before = kept
    BY <2>4, <2>5 DEF Request
  <2>7. ASSUME NEW t \in Streams \ (E \cup {s}) PROVE req'[t].before = req[t].before \ E
    <3>1. req[t] \in Request
      BY <1>1 DEF ReqOK
    <3>2. req'[t] = [req[t] EXCEPT !.before = @ \ E]
      BY <1>4, <2>2, <2>3, <2>7 DEF Over
    <3> QED BY <3>1, <3>2 DEF Request
  <2> QED BY <1>1, <1>4, <2>1, <2>6, <2>7, OpenedFacts
<1>9. \A t \in Streams : s \notin req[t].before
  BY <1>2 DEF Ordered, Unborn, Early
<1>10. \A t \in kept : req'[t].before \cap kept = req[t].before \cap kept /\ s \notin req'[t].before
  BY <1>3, <1>5, <1>8, <1>9
<1>11. Inserted'
  <2>1. \A t \in slots' : t \notin req'[t].before
    BY <1>3, <1>4, <1>5, <1>8, <1>10 DEF Ordered, Inserted
  <2>2. \A t, u \in slots' : t # u => t \in req'[u].before \/ u \in req'[t].before
    BY <1>4, <1>5, <1>8, <1>10 DEF Ordered, Inserted
  <2>3. ASSUME NEW t \in slots', NEW u \in slots', NEW v \in slots',
               t \in req'[u].before, u \in req'[v].before
        PROVE  t \in req'[v].before
    <3>1. CASE v = s
      BY <1>3, <1>4, <1>5, <1>8, <1>10, <2>1, <2>3, <3>1
    <3>2. CASE v # s
      <4>1. u \in kept /\ v \in kept
        BY <1>4, <1>10, <2>3, <3>2
      <4>2. t \in kept
        BY <1>4, <1>10, <2>3, <4>1
      <4> QED BY <1>5, <1>10, <2>3, <4>1, <4>2 DEF Ordered, Inserted
    <3> QED BY <3>1, <3>2
  <2> QED BY <2>1, <2>2, <2>3 DEF Inserted
<1>12. Unborn'
  <2>1. \A t \in E : /\ req'[t].before = {} /\ req'[t].step = "idle"
                     /\ \A u \in Streams : t \notin req'[u].before
    BY <1>5, <1>8 DEF Idle
  <2>2. \A t \in slots : req[t].step \notin Early
    BY DEF Safe, SlotHasHolder, Connected, Early
  <2>3. ASSUME NEW t \in Streams, NEW u \in Streams, req'[t].step \in Early
        PROVE  t \notin req'[u].before
    <3>1. CASE t \in E
      BY <2>1, <3>1
    <3>2. CASE t \notin E
      <4>1. t # s /\ req[t].step \in Early
        BY <1>8, <2>3, <3>2 DEF Early
      <4>2. t \notin req[u].before /\ t \notin kept
        BY <1>5, <2>2, <4>1 DEF Ordered, Unborn
      <4> QED BY <1>8, <2>1, <4>2
    <3> QED BY <3>1, <3>2
  <2> QED BY <2>3 DEF Unborn
<1>13. Resting' = Resting /\ Allowed' = Allowed
  BY <1>2 DEF Resting, Allowed, LineAllowance, Least
<1>14. Resting => req[s].max = Allowed
  BY <1>2 DEF Ordered, OneVoice
<1>15. OneVoice'
  BY <1>5, <1>8, <1>13, <1>14, IdleOK DEF Ordered, OneVoice
<1>16. Fits'
  BY <1>6, <1>13, <1>14 DEF Fits
<1> QED BY <1>3, <1>4, <1>5, <1>6, <1>7, <1>8, <1>11, <1>12, <1>15, <1>16 DEF Ordered, kept

LEMMA NextOrdered == ASSUME Safe, Safe', Ordered, [Next]_vars PROVE Ordered'
<1>1. ASSUME NEW s \in Streams, StreamStep(s) PROVE Ordered'
  <2>1. CASE Quiet
    BY <2>1, QuietOrdered
  <2>2. CASE Claim(s) /\ s \in slots'
    BY <2>2, ClaimOrdered
  <2> QED BY <1>1, <2>1, <2>2, StreamStepQuiet
<1>2. ASSUME NEW p \in Probes, ProbeStep(p) PROVE Ordered'
  <2>1. UNCHANGED <<line, slots, req, changes>>
    BY <1>2 DEF ProbeStep, CheckOwn, ProbeOwn, CheckShared, ProbeForFile, ProbeOver
  <2>2. Quiet
    BY <2>1 DEF Quiet
  <2> QED BY <2>2, QuietOrdered
<1>3. ASSUME NEW l \in Lists, SettingStep(l) PROVE Ordered'
  <2>1. slots' = slots /\ req' = req /\ changes' = changes + 1
    BY <1>3 DEF SettingStep, AskPanel, SetLineConnections
  <2>2. ~Resting'
    BY <2>1 DEF Resting, Safe, TypeOK
  <2> QED BY <2>1, <2>2 DEF Ordered, Inserted, Unborn, OneVoice, Fits
<1>4. CASE UNCHANGED vars
  <2>1. Quiet
    BY <1>4 DEF Quiet, vars
  <2> QED BY <2>1, QuietOrdered
<1> QED BY <1>1, <1>2, <1>3, <1>4 DEF Next

LEMMA InitOrdered == ASSUME Init PROVE Ordered
<1>1. /\ slots = {} /\ Cardinality(slots) = 0
      /\ \A s \in Streams : req[s].step = "idle" /\ req[s].before = {}
  BY FS_EmptySet DEF Init, Idle
<1>2. Allowed \in Nat
  <2>1. line[FirstList] \in Line
    BY InitSafe, StreamSlotsAssumption DEF Safe, TypeOK
  <2> QED BY <2>1, AllowanceInRange, StreamSlotsAssumption DEF Allowed
<1> QED BY <1>1, <1>2 DEF Ordered, Inserted, Unborn, OneVoice, Fits

LEMMA OrderedAlways == Spec => [](Safe /\ Ordered)
<1>1. Init => Safe /\ Ordered
  BY InitSafe, InitOrdered
<1>2. Safe /\ Ordered /\ [Next]_vars => (Safe /\ Ordered)'
  BY NextSafe, NextOrdered
<1> QED BY <1>1, <1>2, PTL DEF Spec

(* A stream enters the registry by its own claim.                           *)
LEMMA EntersByClaim ==
    ASSUME Safe, [Next]_vars, NEW s \in slots' \ slots
    PROVE  s \in Streams /\ Claim(s) /\ slots' \ slots = {s}
<1>1. ASSUME NEW t \in Streams, StreamStep(t) PROVE t = s /\ Claim(t)
  <2>1. ~Quiet
    BY DEF Quiet
  <2>2. Claim(t) /\ t \in slots'
    BY <1>1, <2>1, StreamStepQuiet
  <2> QED BY <2>2 DEF Claim, Kept
<1>2. ASSUME NEW p \in Probes, ProbeStep(p) PROVE FALSE
  BY <1>2 DEF ProbeStep, CheckOwn, ProbeOwn, CheckShared, ProbeForFile, ProbeOver
<1>3. ASSUME NEW l \in Lists, SettingStep(l) PROVE FALSE
  BY <1>3 DEF SettingStep, AskPanel, SetLineConnections
<1>4. ~UNCHANGED vars
  BY DEF vars
<1>5. s \in Streams /\ Claim(s)
  BY <1>1, <1>2, <1>3, <1>4 DEF Next
<1>6. slots' \ slots = {s}
  BY <1>5 DEF Claim, Kept
<1> QED BY <1>5, <1>6

(* The provider never serves more streams than the line was sold for: no    *)
(* claim leaves more than its allowance, and while the settings rest all    *)
(* connections that still obey stay within it.                              *)
THEOREM AllowanceIsKept == Spec => AllowanceHolds
<1>1. Safe /\ Ordered => LineIsRespected
  <2> SUFFICES ASSUME Safe, Ordered, Resting
               PROVE  Cardinality({s \in Streams : Hears(s)}) <= Allowed
    BY DEF LineIsRespected, Resting, Allowed
  <2> DEFINE heard == {s \in Streams : Hears(s)}
  <2>1. heard \in SUBSET slots
    BY DEF Safe, ConnectionIsCounted
  <2>2. /\ IsFiniteSet(slots) /\ Cardinality(slots) \in Nat
        /\ Cardinality(heard) \in Nat
    BY <2>1, RegistryFinite
  <2>3. Cardinality(heard) <= Cardinality(slots)
    BY <2>1, <2>2, FS_Subset
  <2>4. Cardinality(slots) <= Allowed
    BY DEF Ordered, Fits
  <2>5. Allowed \in Nat
    <3>1. line[FirstList] \in Line
      BY StreamSlotsAssumption DEF Safe, TypeOK
    <3> QED BY <3>1, AllowanceInRange, StreamSlotsAssumption DEF Allowed
  <2> QED BY <2>2, <2>3, <2>4, <2>5
<1>2. Safe /\ Safe' /\ Ordered /\ [Next]_vars => ClaimFits
  <2> SUFFICES ASSUME Safe, Safe', Ordered, [Next]_vars, NEW s \in slots' \ slots
               PROVE  Cardinality(slots') <= req'[s].max
    BY DEF ClaimFits
  <2>1. s \in Streams /\ Claim(s)
    BY EntersByClaim
  <2> QED BY <2>1, ClaimOrdered
<1>3. Safe /\ Safe' /\ Ordered /\ LineIsRespected' /\ [Next]_vars => [ClaimFits /\ LineIsRespected']_vars
  BY <1>2
<1> QED BY <1>1, <1>3, OrderedAlways, PTL DEF Spec, AllowanceHolds

(* A reader of somebody else's list never takes a stream off anyone.        *)
THEOREM ViewersTakeNothing == Spec => ViewerTakesNothing
<1>1. ASSUME Safe, Safe', Ordered, [Next]_vars, NEW s \in slots' \ slots, req[s].kind = "viewer"
      PROVE  slots \subseteq slots'
  <2>1. s \in Streams /\ Claim(s)
    BY <1>1, EntersByClaim
  <2>2. slots' = Kept(req[s].max) \cup {s} /\ Cardinality(slots) < req[s].max
    BY <1>1, <2>1, ClaimOrdered
  <2>3. req[s].max \in Nat \ {0}
    BY <1>1, <2>1, StreamSlotsAssumption DEF Claim, Safe, TypeOK
  <2>4. Kept(req[s].max) = slots
    BY <1>1, <2>2, <2>3, RoomKeepsAll DEF Ordered
  <2> QED BY <2>2, <2>4
<1>2. Safe /\ Ordered /\ (Safe /\ Ordered)' /\ [Next]_vars
         => [\A s \in slots' \ slots : req[s].kind = "viewer" => slots \subseteq slots']_vars
  BY <1>1
<1> QED BY <1>2, OrderedAlways, PTL DEF Spec, ViewerTakesNothing
=============================================================================
