----------------------------- MODULE FeedProofs -----------------------------
(***************************************************************************)
(* Proofs about the fan-out of reminders and about lines. For every set of *)
(* events and offsets, every scan interval and every slip of the scheduler, *)
(* a lookback that covers one interval and one slip leaves no gap; and     *)
(* whoever follows all the way is paged (Fanout). Who a line is open to    *)
(* (Sharing), and that a pass is one line and one list beside the reader's *)
(* own (LivePass), for any number of forms, friends, lists, calls and      *)
(* faults; these two through the instances of MCFeeds, whose registers x1, *)
(* x2, ... are their variables in the order of the module.                 *)
(***************************************************************************)
EXTENDS MCFeeds, Sequences, FiniteSetTheorems, TLAPS

(* The part of the type invariant the clock and the scan rest on. *)
ClockTypes == /\ now \in Nat /\ lastScan \in Nat
              /\ event \in [Events -> EventRow]
              /\ setAt \in [Events -> Nat]

(* The scan is never further behind than the scheduler lets it be, no row   *)
(* was changed in the future, and whatever was due by the last scan, and    *)
(* has not moved since before it was due, that scan or an earlier matched.  *)
ScanInv ==
    /\ lastScan <= now /\ now <= lastScan + ScanEvery + MaxSlip
    /\ \A e \in Events : setAt[e] <= now
    /\ \A e \in Events, o \in Offsets :
          Unmoved(e, o) /\ lastScan >= DueAt(event[e].startsAt, o)
              => <<e, o, event[e].startsAt>> \in scanned

ClockInv == ClockTypes /\ ScanInv

LEMMA InitClock == Init => ClockInv
<1> SUFFICES ASSUME Init PROVE ClockInv
  OBVIOUS
<1>1. ClockTypes
  BY FanoutAssumption DEF Init, ClockTypes
<1>2. lastScan <= now /\ now <= lastScan + ScanEvery + MaxSlip
      /\ \A e \in Events : setAt[e] <= now
  BY FanoutAssumption DEF Init
<1>3. ASSUME NEW e \in Events, NEW o \in Offsets, Unmoved(e, o)
      PROVE  ~(lastScan >= DueAt(event[e].startsAt, o))
  <2>1. DueAt(event[e].startsAt, o) > 0
    BY <1>3 DEF Init, Unmoved
  <2>2. DueAt(event[e].startsAt, o) \in Int
    BY <1>1, FanoutAssumption DEF ClockTypes, EventRow, DueAt
  <2>3. QED
    BY <2>1, <2>2 DEF Init
<1>4. QED
  BY <1>1, <1>2, <1>3 DEF ClockInv, ScanInv

(* What everything but the scan, the clock and a sync leaves alone. *)
LEMMA OthersKeepClock ==
    ASSUME ClockInv, UNCHANGED <<now, lastScan, event, setAt, scanned>>
    PROVE  ClockInv'
BY DEF ClockInv, ClockTypes, ScanInv, Unmoved

LEMMA ScanClock ==
    ASSUME Lookback >= ScanEvery + MaxSlip, ClockInv, Scan
    PROVE  ClockInv'
<1> USE FanoutAssumption DEF ClockInv, ClockTypes
<1>1. lastScan' = now /\ UNCHANGED <<now, event, setAt>>
  BY DEF Scan
<1>2. scanned \subseteq scanned'
      /\ \A id \in DuePairs : <<id[1], id[2], event[id[1]].startsAt>> \in scanned'
  BY DEF Scan
<1>3. ASSUME NEW e \in Events, NEW o \in Offsets, Unmoved(e, o),
             now >= DueAt(event[e].startsAt, o)
      PROVE  <<e, o, event[e].startsAt>> \in scanned'
  <2>0. DueAt(event[e].startsAt, o) \in Int
    BY DEF EventRow, DueAt
  <2>1. CASE lastScan >= DueAt(event[e].startsAt, o)
    BY <1>2, <1>3, <2>1 DEF ScanInv
  <2>2. CASE lastScan < DueAt(event[e].startsAt, o)
    <3>1. DueAt(event[e].startsAt, o) > now - Lookback
      BY <2>0, <2>2 DEF ScanInv
    <3>2. \E timed \in BOOLEAN : o \in ScanOffsets(timed) /\ IsDue(e, o, timed)
      BY <1>3, <3>1 DEF Unmoved, ScanOffsets, IsDue
    <3>3. <<e, o>> \in DuePairs
      BY <3>2 DEF DuePairs, FanoutIds
    <3>4. QED
      BY <1>2, <3>3
  <2>3. QED
    BY <2>0, <2>1, <2>2
<1>4. QED
  BY <1>1, <1>3 DEF ScanInv, Unmoved

LEMMA UpsertClock ==
    ASSUME ClockInv, NEW e \in Events, NEW row \in EventChoices, UpsertEvent(e, row)
    PROVE  ClockInv'
<1> USE FanoutAssumption DEF ClockInv, ClockTypes
<1>1. /\ UNCHANGED <<now, lastScan, scanned>>
      /\ event' = [event EXCEPT ![e] = row] /\ setAt' = [setAt EXCEPT ![e] = now]
  BY DEF UpsertEvent, history
<1>2. ClockTypes'
  BY <1>1
<1>3. \A x \in Events : setAt'[x] <= now'
  BY <1>1 DEF ScanInv
<1>4. ASSUME NEW x \in Events, NEW o \in Offsets, Unmoved(x, o)',
             lastScan >= DueAt(event'[x].startsAt, o)
      PROVE  <<x, o, event'[x].startsAt>> \in scanned
  <2>1. CASE x = e
    <3>1. DueAt(event'[x].startsAt, o) > now
      BY <1>1, <1>4, <2>1 DEF Unmoved
    <3>2. DueAt(event'[x].startsAt, o) \in Int
      BY <1>2 DEF EventRow, DueAt
    <3>3. QED
      BY <1>4, <3>1, <3>2 DEF ScanInv
  <2>2. CASE x # e
    BY <1>1, <1>4, <2>2 DEF Unmoved, ScanInv
  <2>3. QED
    BY <2>1, <2>2
<1>5. QED
  BY <1>1, <1>2, <1>3, <1>4 DEF ScanInv

LEMMA TickClock ==
    ASSUME ClockInv, Tick
    PROVE  ClockInv'
<1>1. /\ now' = now + 1 /\ now < lastScan + ScanEvery + MaxSlip
      /\ UNCHANGED <<lastScan, event, setAt, scanned>>
  BY DEF Tick, history
<1>2. QED
  BY <1>1, FanoutAssumption DEF ClockInv, ClockTypes, ScanInv, Unmoved

LEMMA StepClock ==
    ASSUME Lookback >= ScanEvery + MaxSlip, ClockInv, [Next]_vars
    PROVE  ClockInv'
<1>1. CASE UNCHANGED vars
  BY <1>1, OthersKeepClock DEF vars
<1>2. CASE Scan
  BY <1>2, ScanClock
<1>3. CASE FaultStep
  <2>1. UNCHANGED <<now, lastScan, event, setAt, scanned>>
    BY <1>3 DEF FaultStep, Throw, Die, LoseLock, Expire, history
  <2>2. QED
    BY <2>1, OthersKeepClock
<1>4. CASE \E w \in FanoutWorkers : WorkerStep(w)
  <2>1. UNCHANGED <<now, lastScan, event, setAt, scanned>>
    BY <1>4 DEF WorkerStep, StartFanout, ReadPage, AddBatch, history
  <2>2. QED
    BY <2>1, OthersKeepClock
<1>5. CASE Surroundings
  <2>1. ASSUME NEW e \in Events, NEW u \in Users, Follow(u, e) \/ Unfollow(u, e)
        PROVE  ClockInv'
    BY <2>1, OthersKeepClock DEF Follow, Unfollow, history
  <2>2. ASSUME NEW o \in Offsets, NEW timed \in BOOLEAN, SaveOffset(o, timed)
        PROVE  ClockInv'
    BY <2>2, OthersKeepClock DEF SaveOffset, history
  <2>3. QED
    BY <1>5, <2>1, <2>2, UpsertClock, TickClock DEF Surroundings
<1>6. QED
  BY <1>1, <1>2, <1>3, <1>4, <1>5 DEF Next

(* No reminder of an unmoved fixture falls between two scans.               *)
THEOREM NoReminderInTheGap ==
    ASSUME Lookback >= ScanEvery + MaxSlip
    PROVE  Spec => []NoGap
<1>1. Init => ClockInv
  BY InitClock
<1>2. ClockInv /\ [Next]_vars => ClockInv'
  BY StepClock
<1>3. ClockInv => NoGap
  <2> SUFFICES ASSUME ClockInv, NEW e \in Events, NEW o \in Offsets, Unmoved(e, o),
                      now >= DueAt(event[e].startsAt, o) + ScanEvery + MaxSlip
               PROVE  <<e, o, event[e].startsAt>> \in scanned
    BY DEF NoGap
  <2>1. DueAt(event[e].startsAt, o) \in Int
    BY FanoutAssumption DEF ClockInv, ClockTypes, EventRow, DueAt
  <2>2. lastScan >= DueAt(event[e].startsAt, o)
    BY <2>1, FanoutAssumption DEF ClockInv, ClockTypes, ScanInv
  <2>3. QED
    BY <2>2 DEF ClockInv, ScanInv
<1>4. QED
  BY <1>1, <1>2, <1>3, PTL DEF Spec
-----------------------------------------------------------------------------
(* What a worker of the fan-out has in hand: a busy one has a job, and a    *)
(* page it is about to add is not empty.                                    *)
FanoutRecords == [job : FanoutIds \cup {NoJob}, step : {"idle", "page", "add"},
                  after : Cursors, page : SUBSET Users, locked : BOOLEAN]
InHand ==
    \A w \in FanoutWorkers :
        /\ fw[w].step # "idle" \/ fw[w].locked => fw[w].job \in FanoutIds
        /\ fw[w].step = "add" => fw[w].page # {}

On(w, id) == fw[w].step # "idle" /\ fw[w].job = id
Page(id, c) == paged[<<id[1], id[2], c>>]
Made(id, c) == bt[<<id[1], id[2], c>>].status # "absent"

(* The walk of a fan-out that has been started at most once: one worker is  *)
(* on it; the page of a cursor is behind the cursor of every later page,    *)
(* and all of them are behind the one the worker has reached.               *)
Unstarted(id) == /\ \A w \in FanoutWorkers : ~On(w, id)
                 /\ \A c \in Cursors : Page(id, c) = {} /\ ~Made(id, c)
                 /\ steady[id] = {}
Behind(id) ==
    /\ \A v, w \in FanoutWorkers : On(v, id) /\ On(w, id) => v = w
    /\ \A c \in Cursors : \A u \in Page(id, c) : u > c
    /\ \A c, d \in Cursors : c < d /\ Page(id, d) # {} => \A u \in Page(id, c) : u <= d
    /\ \A w \in FanoutWorkers : On(w, id) =>
          \A c \in Cursors : (Page(id, c) # {} \/ Made(id, c)) =>
              c < fw[w].after /\ \A u \in Page(id, c) : u <= fw[w].after
    /\ \A w \in FanoutWorkers : On(w, id) /\ fw[w].step = "add" =>
          \A u \in fw[w].page : u > fw[w].after

(* Who followed all the way is paged up to the cursor, and on the page in   *)
(* hand unless that is full and they come after it.                         *)
AfterPage(w, u) == /\ Cardinality(fw[w].page) >= BatchSize
                   /\ \A v \in fw[w].page : v < u
Covered(id) ==
    /\ steady[id] \subseteq followers[id[1]]
    /\ \A w \in FanoutWorkers : On(w, id) =>
          \A u \in steady[id] : u <= fw[w].after => u \in AllPaged(id)
    /\ \A w \in FanoutWorkers : On(w, id) /\ fw[w].step = "add" =>
          \A u \in steady[id] : u > fw[w].after => u \in fw[w].page \/ AfterPage(w, u)

Walked(id) == /\ starts[id] = 0 => Unstarted(id)
              /\ starts[id] <= 1 => Behind(id) /\ Covered(id)
DoneCovered(id) ==
    fo[id].status = "done" /\ starts[id] = 1 /\ id \notin dropped
        => steady[id] \subseteq AllPaged(id)
PagingInv == \A id \in FanoutIds : Walked(id) /\ DoneCovered(id)
-----------------------------------------------------------------------------
(* Type correctness. *)
LEMMA IdleRecord == Idle \in FanoutRecords
BY DEF Idle, FanoutRecords, Cursors

LEMMA InitType == Init => TypeOK /\ InHand
<1> SUFFICES ASSUME Init PROVE TypeOK /\ InHand
  OBVIOUS
<1> USE FanoutAssumption DEF Init
<1>1. fo \in [FanoutIds -> JobRecords(FanoutData)]
  <2>1. JobOf("absent", [startsAt |-> 0, timed |-> TRUE]) \in JobRecords(FanoutData)
    BY DEF JobOf, JobRecords, Status, FanoutData
  <2>2. QED
    BY <2>1
<1>2. bt \in [BatchIds -> JobRecords(BatchData)]
  <2>1. JobOf("absent", [users |-> {}, timed |-> TRUE]) \in JobRecords(BatchData)
    BY DEF JobOf, JobRecords, Status, BatchData
  <2>2. QED
    BY <2>1
<1>3. fw \in [FanoutWorkers -> FanoutRecords]
  BY IdleRecord
<1>4. InHand
  BY DEF InHand, Idle
<1>5. event \in [Events -> EventRow] /\ setAt \in [Events -> Nat]
      /\ followers \in [Events -> SUBSET Users]
  OBVIOUS
<1>6. QED
  BY <1>1, <1>2, <1>3, <1>4, <1>5 DEF TypeOK, FanoutRecords

(* One worker changes its record, and the others keep theirs. *)
LEMMA OneRecord ==
    ASSUME TypeOK, InHand, NEW w \in FanoutWorkers, NEW r \in FanoutRecords,
           fw' = [fw EXCEPT ![w] = r],
           r.step # "idle" \/ r.locked => r.job \in FanoutIds,
           r.step = "add" => r.page # {}
    PROVE  fw' \in [FanoutWorkers -> FanoutRecords] /\ InHand'
BY DEF TypeOK, InHand, FanoutRecords

LEMMA GoesIdle ==
    ASSUME TypeOK, InHand, NEW w \in FanoutWorkers, fw' = [fw EXCEPT ![w] = Idle]
    PROVE  fw' \in [FanoutWorkers -> FanoutRecords] /\ InHand'
<1>1. Idle.step = "idle" /\ ~Idle.locked
  BY DEF Idle
<1>2. QED
  BY <1>1, IdleRecord, OneRecord

LEMMA ReturnType ==
    ASSUME TypeOK, InHand, NEW w \in FanoutWorkers, Return(w)
    PROVE  /\ fo' \in [FanoutIds -> JobRecords(FanoutData)]
           /\ fw' \in [FanoutWorkers -> FanoutRecords] /\ InHand'
<1>1. fo' \in [FanoutIds -> JobRecords(FanoutData)]
  BY TakenType DEF Return, TypeOK, InHand
<1>2. QED
  BY <1>1, GoesIdle DEF Return
-----------------------------------------------------------------------------
(* A finite non-empty set of numbers has a smallest and a largest element:  *)
(* a smallest counterexample would lose one element and keep both.          *)
LEMMA EndsExist ==
    ASSUME NEW S \in SUBSET Nat, IsFiniteSet(S), S # {}
    PROVE  /\ \E x \in S : \A y \in S : x >= y
           /\ \E x \in S : \A y \in S : x <= y
<1> DEFINE HasEnds(T) == /\ \E x \in T : \A y \in T : x >= y
                         /\ \E x \in T : \A y \in T : x <= y
           Bad == {T \in FiniteSubsetsOf(S) : T # {} /\ ~HasEnds(T)}
<1>1. SUFFICES ASSUME ~HasEnds(S) PROVE FALSE
  OBVIOUS
<1>2. S \in Bad
  BY <1>1 DEF FiniteSubsetsOf
<1>3. PICK T \in Bad : \A U \in Bad : <<U, T>> \notin StrictSubsetOrdering(S)
  <2>1. Bad \subseteq FiniteSubsetsOf(S) /\ Bad # {}
    BY <1>2
  <2>2. IsWellFoundedOn(StrictSubsetOrdering(S), FiniteSubsetsOf(S))
    BY FS_StrictSubsetOrderingWellFounded
  <2> HIDE DEF Bad
  <2>3. QED
    BY <2>1, <2>2, WFMin
<1>4. PICK t \in T : TRUE
  OBVIOUS
<1>5. T \ {t} \in FiniteSubsetsOf(S) /\ T \subseteq Nat
  BY FS_Subset DEF FiniteSubsetsOf
<1>6. <<T \ {t}, T>> \in StrictSubsetOrdering(S)
  BY <1>4, <1>5 DEF StrictSubsetOrdering, FiniteSubsetsOf
<1>7. T \ {t} \notin Bad
  BY <1>3, <1>6
<1>8. CASE T \ {t} = {}
  BY <1>4, <1>5, <1>8
<1>9. CASE HasEnds(T \ {t})
  <2>1. PICK m \in T \ {t} : \A y \in T \ {t} : m >= y
    BY <1>9
  <2>2. PICK k \in T \ {t} : \A y \in T \ {t} : k <= y
    BY <1>9
  <2>3. \E x \in T : \A y \in T : x >= y
    BY <1>4, <1>5, <2>1
  <2>4. \E x \in T : \A y \in T : x <= y
    BY <1>4, <1>5, <2>2
  <2>5. QED
    BY <2>3, <2>4
<1>10. QED
  BY <1>5, <1>7, <1>8, <1>9

(* The cursor after a page is the last of the users in it. *)
LEMMA LastOfPage ==
    ASSUME NEW page \in SUBSET Users, page # {}
    PROVE  Max(page) \in page /\ \A u \in page : Max(page) >= u
<1>1. page \in SUBSET Nat /\ IsFiniteSet(page)
  BY FS_Subset, FanoutAssumption
<1>2. \E x \in page : \A y \in page : x >= y
  BY <1>1, EndsExist
<1>3. QED
  BY <1>2 DEF Max

(* followersOfEventPage: the page is full or has everybody after the cursor, *)
(* and who is after the cursor and not on it comes after all who are.        *)
LEMMA PageFacts ==
    ASSUME NEW e \in Events, NEW a \in Cursors, followers \in [Events -> SUBSET Users]
    PROVE  /\ \A u \in NextPage(e, a) : u \in followers[e] /\ u > a
           /\ \A u \in followers[e] : u > a /\ u \notin NextPage(e, a) =>
                 /\ Cardinality(NextPage(e, a)) >= BatchSize
                 /\ \A p \in NextPage(e, a) : p < u
<1> DEFINE later == {u \in followers[e] : u > a}
           upTo(u) == {v \in later : v <= u}
           page == NextPage(e, a)
<1>1. page = {u \in later : Cardinality(upTo(u)) <= BatchSize}
  BY DEF NextPage
<1>2. later \subseteq Users /\ later \subseteq Nat /\ IsFiniteSet(later)
  BY FanoutAssumption, FS_Subset
<1>3. ASSUME NEW u \in later
      PROVE  IsFiniteSet(upTo(u)) /\ Cardinality(upTo(u)) \in Nat
  BY <1>2, FS_Subset, FS_CardinalityType
<1>4. ASSUME NEW u \in later, u \notin page, NEW p \in page
      PROVE  p < u
  <2>1. SUFFICES ASSUME ~(p < u) PROVE FALSE
    OBVIOUS
  <2>2. p \in later /\ Cardinality(upTo(p)) <= BatchSize
    BY <1>1
  <2>3. upTo(u) \subseteq upTo(p)
    BY <1>2, <2>1, <2>2
  <2>4. Cardinality(upTo(u)) <= Cardinality(upTo(p))
    BY <1>3, <2>2, <2>3, FS_Subset
  <2>5. Cardinality(upTo(u)) \in Nat /\ Cardinality(upTo(p)) \in Nat
    BY <1>3, <2>2
  <2> HIDE DEF later, upTo, page
  <2>6. Cardinality(upTo(u)) <= BatchSize
    BY <2>2, <2>4, <2>5, FanoutAssumption
  <2>7. QED
    BY <1>1, <1>4, <2>6
<1>5. ASSUME NEW u \in later, u \notin page
      PROVE  Cardinality(page) >= BatchSize
  <2> DEFINE rest == later \ page
  <2>1. rest \subseteq Nat /\ IsFiniteSet(rest) /\ rest # {}
    BY <1>2, <1>5, FS_Subset
  <2>2. PICK x \in rest : \A y \in rest : x <= y
    BY <2>1, EndsExist
  <2>3. upTo(x) \subseteq page \cup {x}
    BY <1>2, <2>2
  <2>4. IsFiniteSet(page) /\ IsFiniteSet(page \cup {x}) /\ Cardinality(page) \in Nat
        /\ Cardinality(page \cup {x}) = Cardinality(page) + 1
    <3>1. page \subseteq later
      BY <1>1
    <3>2. IsFiniteSet(page)
      BY <3>1, <1>2, FS_Subset
    <3>3. x \notin page
      BY <2>2
    <3> HIDE DEF page
    <3>4. QED
      BY <3>2, <3>3, FS_AddElement, FS_CardinalityType
  <2>5. Cardinality(upTo(x)) <= Cardinality(page) + 1
    BY <2>3, <2>4, FS_Subset
  <2>6. ~(Cardinality(upTo(x)) <= BatchSize) /\ Cardinality(upTo(x)) \in Nat
    BY <1>1, <1>3, <2>2
  <2> HIDE DEF later, upTo, page, rest
  <2>7. QED
    BY <2>4, <2>5, <2>6, FanoutAssumption
<1>6. QED
  BY <1>1, <1>4, <1>5
-----------------------------------------------------------------------------
(* One lemma per kind of step. *)
LEMMA ScanType ==
    ASSUME TypeOK, InHand, Scan
    PROVE  TypeOK' /\ InHand'
<1>1. /\ UNCHANGED <<now, event, setAt, followers, saved, fw, bt,
                     dropped, starts, steady, paged, faults, changes>>
      /\ lastScan' = now
  BY DEF Scan
<1>2. \A id \in FanoutIds : id[1] \in Events /\ id[2] \in Offsets /\ event[id[1]].startsAt \in Int
  BY DEF FanoutIds, TypeOK, EventRow
<1>3. ASSUME NEW id \in FanoutIds
      PROVE  fo'[id] \in JobRecords(FanoutData)
  <2> DEFINE d == [startsAt |-> event[id[1]].startsAt, timed |-> event[id[1]].class = "timed"]
  <2>1. d \in FanoutData
    BY <1>2 DEF FanoutData
  <2>2. Added(fo, id, d) \in [FanoutIds -> JobRecords(FanoutData)]
    BY <2>1, AddedFacts DEF TypeOK
  <2>3. fo'[id] = Added(fo, id, d)[id] \/ fo'[id] = fo[id]
    BY DEF Scan
  <2>4. QED
    BY <2>2, <2>3 DEF TypeOK
<1>4. fo' \in [FanoutIds -> JobRecords(FanoutData)]
  BY <1>3 DEF Scan
<1>5. scanned' \subseteq Events \X Offsets \X Int
  BY <1>2 DEF Scan, DuePairs, TypeOK
<1>6. QED
  BY <1>1, <1>4, <1>5 DEF TypeOK, InHand

LEMMA StartType ==
    ASSUME TypeOK, InHand, NEW w \in FanoutWorkers, NEW id \in FanoutIds, StartFanout(w, id)
    PROVE  TypeOK' /\ InHand'
<1>1. UNCHANGED <<now, lastScan, event, setAt, followers, saved, bt, scanned, paged, faults, changes>>
  BY DEF StartFanout
<1>2. fo' \in [FanoutIds -> JobRecords(FanoutData)]
  <2>1. fo \in [FanoutIds -> JobRecords(FanoutData)]
    BY DEF TypeOK
  <2>2. fo' = Completed(fo, id) \/ fo' = Taken(fo, id)
    BY DEF StartFanout
  <2>3. QED
    BY <2>1, <2>2, TakenType
<1>3. dropped' \subseteq FanoutIds /\ starts' \in [FanoutIds -> Nat]
  BY DEF StartFanout, TypeOK
<1>4. steady' \in [FanoutIds -> SUBSET Users]
  BY DEF StartFanout, TypeOK, FanoutIds
<1>5. fw' \in [FanoutWorkers -> FanoutRecords] /\ InHand'
  <2> DEFINE r == [job |-> id, step |-> "page", after |-> 0, page |-> {}, locked |-> TRUE]
  <2>1. CASE fw' = fw
    BY <2>1 DEF TypeOK, InHand, FanoutRecords
  <2>2. CASE fw' = [fw EXCEPT ![w] = r]
    <3>1. r \in FanoutRecords /\ r.job \in FanoutIds /\ r.step # "add"
      BY DEF FanoutRecords, Cursors
    <3> HIDE DEF r
    <3>2. QED
      BY <2>2, <3>1, OneRecord
  <2>3. QED
    BY <2>1, <2>2 DEF StartFanout
<1>6. QED
  BY <1>1, <1>2, <1>3, <1>4, <1>5 DEF TypeOK, FanoutRecords

LEMMA ReadType ==
    ASSUME TypeOK, InHand, NEW w \in FanoutWorkers, ReadPage(w)
    PROVE  TypeOK' /\ InHand'
<1> DEFINE page == NextPage(fw[w].job[1], fw[w].after)
<1>1. /\ UNCHANGED <<now, lastScan, event, setAt, followers, saved, bt, faults, changes>>
      /\ UNCHANGED history /\ fw[w].step = "page"
  BY DEF ReadPage
<1>2. fw[w] \in FanoutRecords /\ fw[w].job \in FanoutIds
  BY <1>1 DEF TypeOK, InHand, FanoutRecords
<1>3. page \in SUBSET Users
  BY <1>2 DEF NextPage, TypeOK, FanoutIds
<1>4. /\ fo' \in [FanoutIds -> JobRecords(FanoutData)]
      /\ fw' \in [FanoutWorkers -> FanoutRecords] /\ InHand'
  <2>1. CASE page = {}
    BY <2>1, ReturnType DEF ReadPage
  <2>2. CASE page # {}
    <3> DEFINE r == [fw[w] EXCEPT !.step = "add", !.page = page]
    <3>1. fw' = [fw EXCEPT ![w] = r] /\ fo' = fo
      BY <2>2 DEF ReadPage
    <3>2. r \in FanoutRecords /\ r.job \in FanoutIds /\ r.page # {}
      BY <1>2, <1>3, <2>2 DEF FanoutRecords
    <3> HIDE DEF r
    <3>3. QED
      BY <3>1, <3>2, OneRecord DEF TypeOK
  <2>3. QED
    BY <2>1, <2>2
<1>5. QED
  BY <1>1, <1>4 DEF TypeOK, FanoutRecords, history

LEMMA AddType ==
    ASSUME TypeOK, InHand, NEW w \in FanoutWorkers, AddBatch(w)
    PROVE  TypeOK' /\ InHand'
<1> DEFINE id == <<fw[w].job[1], fw[w].job[2], fw[w].after>>
           data == [users |-> fw[w].page, timed |-> fo[fw[w].job].data.timed]
<1>1. /\ UNCHANGED <<now, lastScan, event, setAt, followers, saved,
                     scanned, dropped, starts, steady, faults, changes>>
      /\ fw[w].step = "add"
  BY DEF AddBatch
<1>2. /\ fw[w] \in FanoutRecords /\ fw[w].job \in FanoutIds
      /\ fw[w].page \in SUBSET Users /\ fw[w].page # {} /\ fw[w].after \in Cursors
  BY <1>1 DEF TypeOK, InHand, FanoutRecords
<1>3. id \in BatchIds /\ data \in BatchData
  BY <1>2 DEF FanoutIds, BatchIds, BatchData, TypeOK, JobRecords, FanoutData
<1>4. bt' \in [BatchIds -> JobRecords(BatchData)]
  <2>1. bt' = Added(bt, id, data)
    BY DEF AddBatch
  <2> HIDE DEF id, data
  <2>2. QED
    BY <1>3, <2>1, AddedFacts DEF TypeOK
<1>5. paged' \in [BatchIds -> SUBSET Users]
  <2>1. paged' = paged \/ paged' = [paged EXCEPT ![id] = @ \cup fw[w].page]
    BY DEF AddBatch
  <2> HIDE DEF id
  <2>2. QED
    BY <1>2, <1>3, <2>1 DEF TypeOK
<1>6. /\ fo' \in [FanoutIds -> JobRecords(FanoutData)]
      /\ fw' \in [FanoutWorkers -> FanoutRecords] /\ InHand'
  <2>1. CASE Cardinality(fw[w].page) < BatchSize
    BY <2>1, ReturnType DEF AddBatch
  <2>2. CASE ~(Cardinality(fw[w].page) < BatchSize)
    <3> DEFINE r == [fw[w] EXCEPT !.step = "page", !.after = Max(fw[w].page), !.page = {}]
    <3>1. fw' = [fw EXCEPT ![w] = r] /\ fo' = fo
      BY <2>2 DEF AddBatch
    <3>2. Max(fw[w].page) \in Cursors
      BY <1>2, LastOfPage DEF Cursors
    <3>3. r \in FanoutRecords /\ r.job \in FanoutIds /\ r.step = "page"
      BY <1>2, <3>2 DEF FanoutRecords
    <3> HIDE DEF r
    <3>4. QED
      BY <3>1, <3>3, OneRecord DEF TypeOK
  <2>3. QED
    BY <2>1, <2>2
<1>7. QED
  BY <1>1, <1>4, <1>5, <1>6 DEF TypeOK, FanoutRecords

LEMMA FaultType ==
    ASSUME TypeOK, InHand, FaultStep
    PROVE  TypeOK' /\ InHand'
<1>1. /\ UNCHANGED <<now, lastScan, event, setAt, followers, saved, bt, changes>>
      /\ UNCHANGED history /\ faults' \in Nat
  BY DEF FaultStep, Throw, Die, LoseLock, Expire, Fault, TypeOK
<1>2. ASSUME NEW w \in FanoutWorkers, Throw(w) \/ Die(w)
      PROVE  /\ fo' \in [FanoutIds -> JobRecords(FanoutData)]
             /\ fw' \in [FanoutWorkers -> FanoutRecords] /\ InHand'
  <2>1. fw[w].job \in FanoutIds /\ fw' = [fw EXCEPT ![w] = Idle]
    BY <1>2 DEF Throw, Die, InHand
  <2>2. fo' \in [FanoutIds -> JobRecords(FanoutData)]
    BY <1>2, <2>1, FailureTypes DEF Throw, Die, TypeOK
  <2>3. QED
    BY <2>1, <2>2, GoesIdle
<1>3. ASSUME NEW w \in FanoutWorkers, LoseLock(w)
      PROVE  /\ fo' \in [FanoutIds -> JobRecords(FanoutData)]
             /\ fw' \in [FanoutWorkers -> FanoutRecords] /\ InHand'
  <2> DEFINE r == [fw[w] EXCEPT !.locked = FALSE]
  <2>1. fw[w].job \in FanoutIds /\ fw' = [fw EXCEPT ![w] = r]
    BY <1>3 DEF LoseLock, InHand
  <2>2. fo' \in [FanoutIds -> JobRecords(FanoutData)]
    BY <1>3, <2>1, FailureTypes DEF LoseLock, TypeOK
  <2>3. r \in FanoutRecords /\ r.job \in FanoutIds /\ (r.step = "add" => r.page # {})
    BY <2>1 DEF FanoutRecords, TypeOK, InHand
  <2> HIDE DEF r
  <2>4. QED
    BY <2>1, <2>2, <2>3, OneRecord
<1>4. ASSUME NEW id \in FanoutIds, Expire(id)
      PROVE  /\ fo' \in [FanoutIds -> JobRecords(FanoutData)]
             /\ fw' \in [FanoutWorkers -> FanoutRecords] /\ InHand'
  BY <1>4, FailureTypes DEF Expire, TypeOK, InHand, FanoutRecords
<1>5. QED
  BY <1>1, <1>2, <1>3, <1>4 DEF FaultStep, TypeOK, FanoutRecords, history

LEMMA OutsideType ==
    ASSUME TypeOK, InHand, Surroundings
    PROVE  TypeOK' /\ InHand'
<1>1. UNCHANGED <<lastScan, fo, fw, bt, faults, scanned, dropped, starts, paged>>
  BY DEF Surroundings, Follow, Unfollow, UpsertEvent, SaveOffset, Tick, history
<1>2. ASSUME NEW e \in Events, NEW u \in Users, Follow(u, e) \/ Unfollow(u, e)
      PROVE  TypeOK'
  <2>1. followers' \in [Events -> SUBSET Users]
    BY <1>2 DEF Follow, Unfollow, TypeOK
  <2>2. steady' \in [FanoutIds -> SUBSET Users]
    BY <1>2 DEF Follow, Unfollow, TypeOK, history
  <2>3. changes' \in Nat /\ UNCHANGED <<now, event, setAt, saved>>
    BY <1>2 DEF Follow, Unfollow, Change, TypeOK
  <2>4. QED
    BY <1>1, <2>1, <2>2, <2>3 DEF TypeOK
<1>3. ASSUME NEW e \in Events, NEW row \in EventChoices, UpsertEvent(e, row)
      PROVE  TypeOK'
  <2>1. event' \in [Events -> EventRow] /\ setAt' \in [Events -> Nat]
    BY <1>3, FanoutAssumption DEF UpsertEvent, TypeOK
  <2>2. changes' \in Nat /\ UNCHANGED <<now, followers, saved, steady>>
    BY <1>3 DEF UpsertEvent, Change, TypeOK, history
  <2>3. QED
    BY <1>1, <2>1, <2>2 DEF TypeOK
<1>4. ASSUME NEW o \in Offsets, NEW timed \in BOOLEAN, SaveOffset(o, timed)
      PROVE  TypeOK'
  <2>1. saved' \in [timed : SUBSET Offsets, dated : SUBSET Offsets]
    BY <1>4 DEF SaveOffset, TypeOK
  <2>2. changes' \in Nat /\ UNCHANGED <<now, event, setAt, followers, steady>>
    BY <1>4 DEF SaveOffset, Change, TypeOK, history
  <2>3. QED
    BY <1>1, <2>1, <2>2 DEF TypeOK
<1>5. ASSUME Tick
      PROVE  TypeOK'
  BY <1>1, <1>5 DEF Tick, TypeOK, history
<1>6. InHand'
  BY <1>1 DEF InHand
<1>7. QED
  BY <1>2, <1>3, <1>4, <1>5, <1>6 DEF Surroundings

LEMMA StepType == TypeOK /\ InHand /\ [Next]_vars => TypeOK' /\ InHand'
<1> SUFFICES ASSUME TypeOK, InHand, [Next]_vars PROVE TypeOK' /\ InHand'
  OBVIOUS
<1>1. CASE UNCHANGED vars
  BY <1>1 DEF vars, TypeOK, InHand
<1>2. QED
  BY <1>1, ScanType, StartType, ReadType, AddType, FaultType, OutsideType DEF Next, WorkerStep

(* Every variable keeps its type, for every set of users, offsets, workers  *)
(* and events.                                                              *)
THEOREM TypeCorrect == Spec => []TypeOK
<1>1. Init => TypeOK /\ InHand
  BY InitType
<1>2. TypeOK /\ InHand /\ [Next]_vars => (TypeOK /\ InHand)'
  BY StepType
<1>3. QED
  BY <1>1, <1>2, PTL DEF Spec
-----------------------------------------------------------------------------
(* The walk of a fan-out.                                                   *)
LEMMA AllPagedDef ==
    \A id \in FanoutIds : \A u : u \in AllPaged(id) <=> \E c \in Cursors : u \in Page(id, c)
BY DEF AllPaged, Page

LEMMA InitPaging == Init => PagingInv
<1> SUFFICES ASSUME Init, NEW id \in FanoutIds PROVE Walked(id) /\ DoneCovered(id)
  BY DEF PagingInv
<1>1. \A c \in Cursors : Page(id, c) = {} /\ ~Made(id, c)
  BY DEF Init, Page, Made, JobOf, FanoutIds, BatchIds
<1>2. \A w \in FanoutWorkers : ~On(w, id)
  BY DEF Init, On, Idle
<1>3. steady[id] = {} /\ starts[id] = 0
  BY DEF Init
<1>4. Unstarted(id) /\ Behind(id) /\ Covered(id)
  BY <1>1, <1>2, <1>3 DEF Unstarted, Behind, Covered
<1>5. QED
  BY <1>3, <1>4 DEF Walked, DoneCovered

(* What happens elsewhere leaves the walk of a fan-out alone. *)
Elsewhere(id) ==
    /\ starts'[id] = starts[id]
    /\ \A c \in Cursors : Page(id, c)' = Page(id, c) /\ Made(id, c)' = Made(id, c)
    /\ steady'[id] \subseteq steady[id]
    /\ steady[id] \subseteq followers[id[1]] => steady'[id] \subseteq followers'[id[1]]
    /\ \A w \in FanoutWorkers : On(w, id)' =>
          /\ On(w, id)
          /\ fw'[w].step = fw[w].step /\ fw'[w].after = fw[w].after /\ fw'[w].page = fw[w].page
QueueElsewhere(id) ==
    /\ fo'[id].status = "done" => fo[id].status = "done"
    /\ id \in dropped => id \in dropped'

LEMMA WalkElsewhere ==
    ASSUME NEW id \in FanoutIds, Walked(id), Elsewhere(id)
    PROVE  Walked(id)'
<1>1. \A u : u \in AllPaged(id)' <=> u \in AllPaged(id)
  <2>1. \A u : u \in AllPaged(id)' <=> \E c \in Cursors : u \in Page(id, c)'
    BY DEF AllPaged, Page
  <2>2. QED
    BY <2>1, AllPagedDef DEF Elsewhere
<1>2. starts[id] = 0 => Unstarted(id)'
  BY DEF Elsewhere, Walked, Unstarted
<1>3. starts[id] <= 1 => Behind(id)'
  <2> SUFFICES ASSUME Behind(id) PROVE Behind(id)'
    BY DEF Walked
  <2>1. \A v, w \in FanoutWorkers : On(v, id)' /\ On(w, id)' => v = w
    BY DEF Elsewhere, Behind
  <2>2. \A w \in FanoutWorkers : On(w, id)' =>
          \A c \in Cursors : (Page(id, c)' # {} \/ Made(id, c)') =>
              c < fw'[w].after /\ \A u \in Page(id, c)' : u <= fw'[w].after
    BY DEF Elsewhere, Behind
  <2>3. \A w \in FanoutWorkers : On(w, id)' /\ fw'[w].step = "add" =>
          \A u \in fw'[w].page : u > fw'[w].after
    BY DEF Elsewhere, Behind
  <2>4. /\ \A c \in Cursors : \A u \in Page(id, c)' : u > c
        /\ \A c, d \in Cursors : c < d /\ Page(id, d)' # {} => \A u \in Page(id, c)' : u <= d
    BY DEF Elsewhere, Behind
  <2>5. QED
    BY <2>1, <2>2, <2>3, <2>4 DEF Behind
<1>4. starts[id] <= 1 => Covered(id)'
  <2> SUFFICES ASSUME Covered(id) PROVE Covered(id)'
    BY DEF Walked
  <2>1. steady'[id] \subseteq followers'[id[1]]
    BY DEF Elsewhere, Covered
  <2>2. \A w \in FanoutWorkers : On(w, id)' =>
          \A u \in steady'[id] : u <= fw'[w].after => u \in AllPaged(id)'
    BY <1>1 DEF Elsewhere, Covered
  <2>3. \A w \in FanoutWorkers : On(w, id)' /\ fw'[w].step = "add" =>
          \A u \in steady'[id] : u > fw'[w].after => u \in fw'[w].page \/ AfterPage(w, u)'
    BY DEF Elsewhere, Covered, AfterPage
  <2>4. QED
    BY <2>1, <2>2, <2>3 DEF Covered
<1>5. QED
  BY <1>2, <1>3, <1>4 DEF Walked, Elsewhere

LEMMA DoneElsewhere ==
    ASSUME NEW id \in FanoutIds, DoneCovered(id), Elsewhere(id), QueueElsewhere(id)
    PROVE  DoneCovered(id)'
<1>1. \A u : u \in AllPaged(id) => u \in AllPaged(id)'
  <2>1. \A u : u \in AllPaged(id)' <=> \E c \in Cursors : u \in Page(id, c)'
    BY DEF AllPaged, Page
  <2>2. QED
    BY <2>1, AllPagedDef DEF Elsewhere
<1>2. QED
  BY <1>1 DEF Elsewhere, QueueElsewhere, DoneCovered

(* One fan-out's worker goes on: nothing changes for the other fan-outs. *)
LEMMA OtherFanouts ==
    ASSUME TypeOK, NEW w \in FanoutWorkers, NEW job \in FanoutIds, NEW id \in FanoutIds,
           id # job, UNCHANGED followers,
           starts'[id] = starts[id], steady'[id] = steady[id],
           \A k \in BatchIds : k[1] # job[1] \/ k[2] # job[2] =>
               paged'[k] = paged[k] /\ bt'[k] = bt[k],
           \A v \in FanoutWorkers : v = w \/ fw'[v] = fw[v],
           fw'[w].step # "idle" => fw'[w].job = job
    PROVE  Elsewhere(id)
<1>1. id[1] # job[1] \/ id[2] # job[2]
  BY DEF FanoutIds
<1>2. \A c \in Cursors : Page(id, c)' = Page(id, c) /\ Made(id, c)' = Made(id, c)
  BY <1>1 DEF Page, Made, BatchIds, FanoutIds
<1>3. QED
  BY <1>2 DEF Elsewhere, On

LEMMA StartPaging ==
    ASSUME TypeOK, InHand, PagingInv, NEW w \in FanoutWorkers, NEW job \in FanoutIds,
           StartFanout(w, job), NEW id \in FanoutIds
    PROVE  Walked(id)' /\ DoneCovered(id)'
<1>1. /\ UNCHANGED <<followers, bt, paged>> /\ fw[w].step = "idle"
      /\ starts' = [starts EXCEPT ![job] = @ + 1] /\ starts \in [FanoutIds -> Nat]
      /\ steady \in [FanoutIds -> SUBSET Users] /\ fo \in [FanoutIds -> JobRecords(FanoutData)]
      /\ fw \in [FanoutWorkers -> FanoutRecords]
  BY DEF StartFanout, TypeOK, FanoutRecords
<1>2. Walked(id) /\ DoneCovered(id)
  BY DEF PagingInv
<1> DEFINE r == [job |-> job, step |-> "page", after |-> 0, page |-> {}, locked |-> TRUE]
<1>3. \/ fw' = fw /\ job \in dropped' /\ fo' = Completed(fo, job)
      \/ fw' = [fw EXCEPT ![w] = r] /\ dropped' = dropped /\ fo' = Taken(fo, job)
  BY DEF StartFanout
<1>4. /\ dropped \subseteq dropped'
      /\ \A v \in FanoutWorkers : v = w \/ fw'[v] = fw[v]
      /\ fw'[w].step # "idle" => fw'[w].job = job /\ fw'[w].after = 0 /\ fw'[w].step = "page"
  <2>1. r.job = job /\ r.after = 0 /\ r.step = "page"
    OBVIOUS
  <2> HIDE DEF r
  <2>2. QED
    BY <1>1, <1>3, <2>1 DEF StartFanout
<1> HIDE DEF r
<1>5. CASE id # job
  <2>1. fo'[id] = fo[id] /\ starts'[id] = starts[id] /\ steady'[id] = steady[id]
    BY <1>1, <1>3, <1>5 DEF Completed, Taken, StartFanout
  <2>2. Elsewhere(id)
    BY <1>1, <1>4, <1>5, <2>1, OtherFanouts
  <2>3. QueueElsewhere(id)
    BY <1>4, <2>1 DEF QueueElsewhere
  <2>4. QED
    BY <1>2, <2>2, <2>3, WalkElsewhere, DoneElsewhere
<1>6. CASE id = job /\ starts[id] # 0
  <2>1. starts'[id] \in Nat /\ starts'[id] > 1
    BY <1>1, <1>6
  <2>2. QED
    BY <2>1 DEF Walked, DoneCovered
<1>7. CASE id = job /\ starts[id] = 0
  <2>1. starts'[id] = 1 /\ steady' = [steady EXCEPT ![id] = followers[id[1]]]
    BY <1>1, <1>7 DEF StartFanout
  <2>2. steady'[id] = followers'[id[1]] /\ followers[id[1]] \subseteq Users
    BY <1>1, <2>1 DEF TypeOK, FanoutIds
  <2>3. Unstarted(id)
    BY <1>2, <1>7 DEF Walked
  <2>4. \A c \in Cursors : Page(id, c)' = {} /\ ~Made(id, c)'
    BY <1>1, <2>3 DEF Unstarted, Page, Made
  <2>5. \A v \in FanoutWorkers : On(v, id)' => v = w /\ fw'[v].after = 0 /\ fw'[v].step = "page"
    BY <1>4, <2>3 DEF Unstarted, On
  <2>6. Behind(id)'
    BY <2>4, <2>5 DEF Behind
  <2>7. Covered(id)'
    <3>1. \A u \in Users : u \in Nat /\ u # 0
      BY FanoutAssumption
    <3>2. \A u \in steady'[id] : ~(u <= 0)
      BY <1>1, <2>2, <3>1
    <3>3. QED
      BY <2>2, <2>5, <3>2 DEF Covered
  <2>8. DoneCovered(id)'
    <3>1. fo' = Taken(fo, job) => fo'[id].status = "active"
      BY <1>1, <1>7 DEF Taken, JobRecords
    <3>2. QED
      BY <1>3, <1>7, <3>1 DEF DoneCovered
  <2>9. QED
    BY <2>1, <2>6, <2>7, <2>8 DEF Walked
<1>8. QED
  BY <1>5, <1>6, <1>7

(* A worker that is on a fan-out returns, and everybody is paged. *)
LEMMA ReturnPaging ==
    ASSUME TypeOK, InHand, NEW w \in FanoutWorkers, NEW id \in FanoutIds, NEW job \in FanoutIds,
           fw[w].job = job, Return(w)
    PROVE  /\ \A v \in FanoutWorkers : v = w \/ fw'[v] = fw[v]
           /\ fw'[w].step = "idle"
           /\ id # job => fo'[id] = fo[id]
BY DEF Return, TypeOK, Completed, Idle

LEMMA ReadPaging ==
    ASSUME TypeOK, InHand, PagingInv, NEW w \in FanoutWorkers, ReadPage(w), NEW id \in FanoutIds
    PROVE  Walked(id)' /\ DoneCovered(id)'
<1> DEFINE job == fw[w].job
           page == NextPage(job[1], fw[w].after)
<1>1. /\ UNCHANGED <<followers, bt, paged, starts, steady, dropped>> /\ fw[w].step = "page"
      /\ job \in FanoutIds /\ job[1] \in Events /\ fw[w].after \in Cursors
      /\ followers \in [Events -> SUBSET Users] /\ fw \in [FanoutWorkers -> FanoutRecords]
  BY DEF ReadPage, history, TypeOK, InHand, FanoutRecords, FanoutIds
<1>2. Walked(id) /\ DoneCovered(id)
  BY DEF PagingInv
<1>3. CASE page = {}
  <2>1. Return(w)
    BY <1>3 DEF ReadPage
  <2>2. /\ \A v \in FanoutWorkers : v = w \/ fw'[v] = fw[v]
        /\ fw'[w].step = "idle" /\ (id # job => fo'[id] = fo[id])
    BY <1>1, <2>1, ReturnPaging
  <2>3. Elsewhere(id)
    BY <1>1, <2>2 DEF Elsewhere, On, Page, Made
  <2>4. CASE id # job
    BY <1>1, <1>2, <2>2, <2>3, <2>4, WalkElsewhere, DoneElsewhere DEF QueueElsewhere
  <2>5. CASE id = job
    <3>1. SUFFICES ASSUME starts[id] = 1 PROVE steady[id] \subseteq AllPaged(id)
      BY <1>1, <1>2, <2>3, WalkElsewhere DEF DoneCovered, AllPaged
    <3>2. Covered(id) /\ On(w, id)
      BY <1>1, <1>2, <2>5, <3>1 DEF Walked, On
    <3>3. ASSUME NEW u \in steady[id], u > fw[w].after PROVE FALSE
      <4>1. u \in followers[job[1]] /\ u \notin page
        BY <1>3, <2>5, <3>2, <3>3 DEF Covered
      <4>2. Cardinality(page) >= BatchSize
        BY <1>1, <3>3, <4>1, PageFacts
      <4> HIDE DEF page
      <4>3. QED
        BY <1>3, <4>2, FS_EmptySet, FanoutAssumption
    <3>4. steady[id] \subseteq Users
      BY DEF TypeOK
    <3>5. Users \subseteq Nat /\ Cursors \subseteq Nat
      BY FanoutAssumption DEF Cursors
    <3>6. \A u \in steady[id] : u \in Nat /\ fw[w].after \in Nat
      BY <1>1, <3>4, <3>5
    <3>7. \A u \in steady[id] : u <= fw[w].after
      BY <3>3, <3>6
    <3>8. QED
      BY <3>2, <3>7 DEF Covered
  <2>6. QED
    BY <2>4, <2>5
<1>4. CASE page # {}
  <2> DEFINE r == [fw[w] EXCEPT !.step = "add", !.page = page]
  <2>1. fw' = [fw EXCEPT ![w] = r] /\ fo' = fo
    BY <1>4 DEF ReadPage
  <2>2. r.job = job /\ r.step = "add" /\ r.after = fw[w].after /\ r.page = page
    BY <1>1 DEF FanoutRecords
  <2> HIDE DEF r
  <2>3. /\ \A v \in FanoutWorkers : v = w \/ fw'[v] = fw[v]
        /\ fw'[w].job = job /\ fw'[w].step = "add" /\ fw'[w].after = fw[w].after
        /\ fw'[w].page = page
    BY <1>1, <2>1, <2>2
  <2>4. CASE id # job
    <3>1. Elsewhere(id)
      BY <1>1, <2>3, <2>4, OtherFanouts
    <3>2. QED
      BY <1>1, <1>2, <2>1, <3>1, WalkElsewhere, DoneElsewhere DEF QueueElsewhere
  <2>5. CASE id = job
    <3>1. DoneCovered(id)'
      BY <1>1, <1>2, <2>1 DEF DoneCovered, AllPaged
    <3>2. ~Unstarted(id) /\ On(w, id) /\ starts'[id] = starts[id]
      BY <1>1, <2>5 DEF Unstarted, On
    <3>3. SUFFICES ASSUME starts[id] <= 1 PROVE Behind(id)' /\ Covered(id)'
      BY <1>2, <3>1, <3>2 DEF Walked
    <3>4. Behind(id) /\ Covered(id)
      BY <1>2, <3>3 DEF Walked
    <3>5. \A v \in FanoutWorkers : On(v, id)' => v = w
      BY <2>3, <3>2, <3>4 DEF Behind, On
    <3>6. \A c \in Cursors : Page(id, c)' = Page(id, c) /\ Made(id, c)' = Made(id, c)
      BY <1>1 DEF Page, Made
    <3>7. \A u \in page : u > fw[w].after
      BY <1>1, PageFacts
    <3>8. \A u \in steady[id] : u > fw[w].after =>
             u \in page \/ (Cardinality(page) >= BatchSize /\ \A p \in page : p < u)
      BY <1>1, <2>5, <3>4, PageFacts DEF Covered
    <3> HIDE DEF page
    <3>9. Behind(id)'
      BY <2>3, <3>2, <3>4, <3>5, <3>6, <3>7 DEF Behind
    <3>10. AllPaged(id)' = AllPaged(id)
      BY <1>1 DEF AllPaged
    <3>11. Covered(id)'
      BY <1>1, <2>3, <3>2, <3>4, <3>5, <3>8, <3>10 DEF Covered, AfterPage
    <3>12. QED
      BY <3>9, <3>11
  <2>6. QED
    BY <2>4, <2>5
<1>5. QED
  BY <1>3, <1>4

(* The page in hand goes out under the cursor it was read from. *)
LEMMA AddPaging ==
    ASSUME TypeOK, InHand, PagingInv, NEW w \in FanoutWorkers, AddBatch(w), NEW id \in FanoutIds
    PROVE  Walked(id)' /\ DoneCovered(id)'
<1> DEFINE job == fw[w].job
           a == fw[w].after
           page == fw[w].page
           k == <<job[1], job[2], a>>
           data == [users |-> page, timed |-> fo[job].data.timed]
<1>1. /\ UNCHANGED <<followers, starts, steady, dropped>> /\ fw[w].step = "add"
      /\ job \in FanoutIds /\ a \in Cursors /\ page \in SUBSET Users /\ page # {}
      /\ fw \in [FanoutWorkers -> FanoutRecords] /\ fo \in [FanoutIds -> JobRecords(FanoutData)]
      /\ bt \in [BatchIds -> JobRecords(BatchData)] /\ paged \in [BatchIds -> SUBSET Users]
      /\ steady[id] \subseteq Users
  BY DEF AddBatch, TypeOK, InHand, FanoutRecords
<1>2. Walked(id) /\ DoneCovered(id)
  BY DEF PagingInv
<1>3. /\ k \in BatchIds
      /\ bt' = Added(bt, k, data)
      /\ paged' = IF bt[k].status = "absent" THEN [paged EXCEPT ![k] = @ \cup page] ELSE paged
  BY <1>1 DEF AddBatch, BatchIds, FanoutIds
<1>4. /\ Users \subseteq Nat /\ Cursors \subseteq Nat
      /\ Max(page) \in page /\ \A u \in page : Max(page) >= u
  <2>1. Users \subseteq Nat /\ Cursors \subseteq Nat
    BY FanoutAssumption DEF Cursors
  <2>2. Max(page) \in page /\ \A u \in page : Max(page) >= u
    BY <1>1, LastOfPage
  <2>3. QED
    BY <2>1, <2>2
<1>5. \/ Cardinality(page) < BatchSize /\ Return(w)
      \/ /\ ~(Cardinality(page) < BatchSize) /\ fo' = fo
         /\ fw' = [fw EXCEPT ![w].step = "page", ![w].after = Max(page), ![w].page = {}]
  BY DEF AddBatch
<1>6. /\ \A v \in FanoutWorkers : v = w \/ fw'[v] = fw[v]
      /\ fw'[w].step # "idle" =>
            /\ fw'[w].job = job /\ fw'[w].after = Max(page) /\ fw'[w].step = "page"
            /\ ~(Cardinality(page) < BatchSize)
      /\ id # job \/ ~(Cardinality(page) < BatchSize) => fo'[id] = fo[id]
  <2>1. CASE Cardinality(page) < BatchSize /\ Return(w)
    BY <1>1, <2>1, ReturnPaging
  <2>2. CASE /\ ~(Cardinality(page) < BatchSize) /\ fo' = fo
             /\ fw' = [fw EXCEPT ![w].step = "page", ![w].after = Max(page), ![w].page = {}]
    <3> DEFINE r == [fw[w] EXCEPT !.step = "page", !.after = Max(page), !.page = {}]
    <3>1. fw' = [fw EXCEPT ![w] = r]
      BY <2>2
    <3>2. r.job = job /\ r.after = Max(page) /\ r.step = "page"
      BY <1>1 DEF FanoutRecords
    <3> HIDE DEF r, page, job
    <3>3. QED
      BY <1>1, <2>2, <3>1, <3>2
  <2>3. QED
    BY <1>5, <2>1, <2>2
<1>7. CASE id # job
  <2>1. \A i \in BatchIds : i[1] # job[1] \/ i[2] # job[2] =>
            paged'[i] = paged[i] /\ bt'[i] = bt[i]
    <3> HIDE DEF data, page
    <3>1. QED
      BY <1>1, <1>3 DEF Added
  <2>2. Elsewhere(id)
    <3> HIDE DEF job, page, k
    <3>1. QED
      BY <1>1, <1>6, <1>7, <2>1, OtherFanouts
  <2>3. QueueElsewhere(id)
    BY <1>1, <1>6, <1>7 DEF QueueElsewhere
  <2>4. QED
    BY <1>2, <2>2, <2>3, WalkElsewhere, DoneElsewhere
<1>8. CASE id = job
  <2>1. SUFFICES ASSUME starts[id] <= 1 PROVE Walked(id)' /\ DoneCovered(id)'
    BY <1>1, <1>2 DEF Walked, DoneCovered, TypeOK
  <2>2. On(w, id) /\ ~Unstarted(id) /\ Behind(id) /\ Covered(id)
    BY <1>1, <1>2, <1>8, <2>1 DEF Walked, On, Unstarted
  <2>3. /\ \A c \in Cursors : (Page(id, c) # {} \/ Made(id, c)) =>
              c < a /\ \A u \in Page(id, c) : u <= a
        /\ \A u \in page : u > a
    BY <1>1, <2>2 DEF Behind
  <2>4. Page(id, a) = {} /\ ~Made(id, a)
    <3>1. a \in Cursors /\ Cursors \subseteq Nat
      BY <1>1, <1>4
    <3> HIDE DEF a, page
    <3>2. a \in Nat /\ ~(a < a)
      BY <3>1
    <3>3. QED
      BY <2>3, <3>1, <3>2
  <2>5. bt[k].status = "absent" /\ paged[k] = {}
    BY <1>8, <2>4 DEF Page, Made
  <2> HIDE DEF data
  <2>6. paged' = [paged EXCEPT ![k] = page] /\ bt' = [bt EXCEPT ![k] = JobOf("waiting", data)]
    BY <1>1, <1>3, <2>5 DEF Added
  <2>7. \A c \in Cursors : /\ c = a => Page(id, c)' = page
                           /\ c # a => Page(id, c)' = Page(id, c) /\ Made(id, c)' = Made(id, c)
    <3>1. \A c \in Cursors : /\ <<id[1], id[2], c>> \in BatchIds
                              /\ c # a => <<id[1], id[2], c>> # k
      BY <1>8 DEF FanoutIds, BatchIds
    <3>2. <<id[1], id[2], a>> = k
      BY <1>8
    <3> HIDE DEF page, a, k
    <3>3. \A c \in Cursors : c = a => Page(id, c)' = page
      BY <1>1, <1>3, <2>6, <3>2 DEF Page
    <3>4. ASSUME NEW c \in Cursors, c # a
          PROVE  Page(id, c)' = Page(id, c) /\ Made(id, c)' = Made(id, c)
      <4>1. paged'[<<id[1], id[2], c>>] = paged[<<id[1], id[2], c>>]
        BY <1>1, <1>3, <2>6, <3>1, <3>4
      <4>2. bt'[<<id[1], id[2], c>>] = bt[<<id[1], id[2], c>>]
        BY <1>1, <1>3, <2>6, <3>1, <3>4
      <4>3. QED
        BY <4>1, <4>2 DEF Page, Made
    <3>5. QED
      BY <3>3, <3>4
  <2>8. \A v \in FanoutWorkers : On(v, id)' =>
            /\ v = w /\ fw'[v].after = Max(page) /\ fw'[v].step = "page"
            /\ ~(Cardinality(page) < BatchSize)
    BY <1>6, <1>8, <2>2 DEF On, Behind
  <2>9. a < Max(page) /\ a \in Nat /\ Max(page) \in Nat
    BY <1>1, <1>4, <2>3
  <2>10. Behind(id)'
    <3> DEFINE m == Max(page)
    <3>1. ASSUME NEW c \in Cursors, NEW u \in Page(id, c)' PROVE u > c
      <4>1. CASE c = a
        <5>1. u \in page
          BY <2>7, <3>1, <4>1
        <5>2. QED
          BY <2>3, <4>1, <5>1
      <4>2. CASE c # a
        BY <2>2, <2>7, <3>1, <4>2 DEF Behind
      <4>3. QED
        BY <4>1, <4>2
    <3>2. ASSUME NEW c \in Cursors, NEW d \in Cursors, c < d, Page(id, d)' # {}, NEW u \in Page(id, c)'
          PROVE  u <= d
      <4>1. c # a
        BY <1>1, <1>4, <2>3, <2>7, <3>2
      <4>2. u \in Page(id, c)
        BY <2>7, <3>2, <4>1
      <4>3. CASE d = a
        BY <2>3, <4>2, <4>3
      <4>4. CASE d # a
        BY <2>2, <2>7, <3>2, <4>2, <4>4 DEF Behind
      <4>5. QED
        BY <4>3, <4>4
    <3>3. ASSUME NEW c \in Cursors, Page(id, c)' # {} \/ Made(id, c)'
          PROVE  c < m /\ \A u \in Page(id, c)' : u <= m
      <4>1. CASE c = a
        <5>1. Page(id, c)' = page
          BY <2>7, <4>1
        <5>2. \A u \in page : u \in Nat /\ u <= m
          BY <1>1, <1>4, <2>9
        <5> HIDE DEF page, m, a
        <5>3. QED
          BY <2>9, <4>1, <5>1, <5>2 DEF m
      <4>2. CASE c # a
        <5>1. c < a /\ c \in Nat /\ \A u \in Page(id, c)' : u <= a /\ u \in Nat
          <6>1. Page(id, c) \subseteq Users
            BY <1>1 DEF Page, BatchIds, FanoutIds
          <6>2. QED
            BY <1>4, <2>3, <2>7, <3>3, <4>2, <6>1
        <5> HIDE DEF m
        <5>2. QED
          BY <2>9, <5>1 DEF m
      <4>3. QED
        BY <4>1, <4>2
    <3> HIDE DEF page, a
    <3>4. QED
      BY <2>8, <3>1, <3>2, <3>3 DEF Behind
  <2>11. \A u : u \in AllPaged(id)' <=> u \in AllPaged(id) \/ u \in page
    <3>1. \A u : u \in AllPaged(id)' <=> \E c \in Cursors : u \in Page(id, c)'
      BY DEF AllPaged, Page
    <3>2. \A u : u \in AllPaged(id) <=> \E c \in Cursors : u \in Page(id, c)
      BY AllPagedDef
    <3>3. a \in Cursors
      BY <1>1
    <3> HIDE DEF a, page
    <3>4. QED
      BY <2>4, <2>7, <3>1, <3>2, <3>3
  <2>12. \A u \in steady[id] : u <= a => u \in AllPaged(id)
    BY <2>2 DEF Covered
  <2>13. \A u \in steady[id] : u > a => u \in page \/ (/\ Cardinality(page) >= BatchSize
                                                      /\ \A v \in page : v < u)
    BY <1>1, <2>2 DEF Covered, AfterPage
  <2>14. \A u \in steady[id] : u \in Nat
    BY <1>1, <1>4
  <2>15. Covered(id)'
    <3>1. steady'[id] \subseteq followers'[id[1]]
      BY <1>1, <2>2 DEF Covered
    <3>2. ASSUME NEW u \in steady[id], u <= Max(page) PROVE u \in AllPaged(id)'
      <4>1. u \in Nat /\ Max(page) \in Nat /\ ~(Max(page) < u)
        BY <2>9, <2>14, <3>2
      <4>2. QED
        BY <1>4, <2>9, <2>11, <2>12, <2>13, <4>1
    <3>3. QED
      BY <1>1, <2>8, <3>1, <3>2 DEF Covered
  <2>16. DoneCovered(id)'
    <3>1. SUFFICES ASSUME fo'[id].status = "done", starts[id] = 1, id \notin dropped, NEW u \in steady[id]
                   PROVE  u \in AllPaged(id)'
      BY <1>1 DEF DoneCovered
    <3>2. CASE ~(Cardinality(page) < BatchSize)
      <4>1. fo[id].status = "done"
        BY <1>6, <3>1, <3>2
      <4>2. QED
        BY <1>2, <2>11, <3>1, <4>1 DEF DoneCovered
    <3>3. CASE Cardinality(page) < BatchSize
      <4>1. IsFiniteSet(page)
        BY <1>1, FS_Subset, FanoutAssumption
      <4>2. Cardinality(page) \in Nat /\ ~(Cardinality(page) >= BatchSize)
        BY <3>3, <4>1, FS_CardinalityType, FanoutAssumption
      <4>3. u <= a \/ u > a
        BY <2>9, <2>14
      <4>4. QED
        BY <2>11, <2>12, <2>13, <3>1, <4>2, <4>3
    <3>4. QED
      BY <3>2, <3>3
  <2>17. QED
    <3>1. ~(starts'[id] = 0)
      BY <1>1, <1>2, <2>2 DEF Walked
    <3>2. QED
      BY <2>10, <2>15, <2>16, <3>1 DEF Walked
<1>9. QED
  BY <1>7, <1>8

(* What a throw, a crash, a lost lock, the end of retention, a scan or the  *)
(* surroundings do leaves every walk as it is.                              *)
LEMMA FaultPaging ==
    ASSUME TypeOK, InHand, PagingInv, FaultStep, NEW id \in FanoutIds
    PROVE  Walked(id)' /\ DoneCovered(id)'
<1>1. UNCHANGED <<followers, bt, paged, starts, steady, dropped>>
  BY DEF FaultStep, Throw, Die, LoseLock, Expire, history
<1>2. \A v \in FanoutWorkers : fw'[v].step # "idle" =>
          /\ fw'[v].job = fw[v].job /\ fw'[v].step = fw[v].step
          /\ fw'[v].after = fw[v].after /\ fw'[v].page = fw[v].page
  <2>1. ASSUME NEW w \in FanoutWorkers, fw' = [fw EXCEPT ![w] = Idle]
        PROVE  \A v \in FanoutWorkers : fw'[v].step = "idle" \/ fw'[v] = fw[v]
    BY <2>1 DEF Idle, TypeOK
  <2>2. ASSUME NEW w \in FanoutWorkers, fw' = [fw EXCEPT ![w].locked = FALSE]
        PROVE  \A v \in FanoutWorkers :
                  /\ fw'[v].job = fw[v].job /\ fw'[v].step = fw[v].step
                  /\ fw'[v].after = fw[v].after /\ fw'[v].page = fw[v].page
    BY <2>2 DEF TypeOK
  <2>3. QED
    BY <2>1, <2>2 DEF FaultStep, Throw, Die, LoseLock, Expire
<1>3. fo'[id].status = "done" => fo[id].status = "done"
  <2>1. ASSUME NEW j \in FanoutIds,
               fo' \in {Thrown(fo, j), Stalled(fo, j), Forgotten(fo, j), fo}
        PROVE  fo'[id].status = "done" => fo[id].status = "done"
    <3>1. fo \in [FanoutIds -> JobRecords(FanoutData)]
      BY DEF TypeOK
    <3>2. \A s \in {"waiting", "dead", "absent"} : s # "done"
      OBVIOUS
    <3>3. fo' = fo \/ (fo'[j].status # "done" /\ (id # j => fo'[id] = fo[id]))
      BY <2>1, <3>1 DEF Thrown, Stalled, Forgotten, JobOf, JobRecords
    <3>4. QED
      BY <3>3
  <2>2. \E j \in FanoutIds : fo' \in {Thrown(fo, j), Stalled(fo, j), Forgotten(fo, j), fo}
    <3>1. ASSUME NEW w \in FanoutWorkers, Throw(w) \/ Die(w) \/ LoseLock(w)
          PROVE  \E j \in FanoutIds : fo' \in {Thrown(fo, j), Stalled(fo, j), Forgotten(fo, j), fo}
      BY <3>1 DEF Throw, Die, LoseLock, InHand
    <3>2. QED
      BY <3>1 DEF FaultStep, Expire
  <2>3. QED
    BY <2>1, <2>2
<1>4. Elsewhere(id) /\ QueueElsewhere(id)
  BY <1>1, <1>2, <1>3 DEF Elsewhere, QueueElsewhere, On, Page, Made
<1>5. QED
  BY <1>4, WalkElsewhere, DoneElsewhere DEF PagingInv

LEMMA ScanPaging ==
    ASSUME TypeOK, PagingInv, Scan, NEW id \in FanoutIds
    PROVE  Walked(id)' /\ DoneCovered(id)'
<1>1. UNCHANGED <<followers, bt, paged, starts, steady, dropped, fw>>
  BY DEF Scan
<1>2. fo'[id].status = "done" => fo[id].status = "done"
  <2> DEFINE data(i) == [startsAt |-> event[i[1]].startsAt, timed |-> event[i[1]].class = "timed"]
  <2>1. fo'[id] = fo[id] \/ fo'[id] = Added(fo, id, data(id))[id]
    BY DEF Scan
  <2> HIDE DEF data
  <2>2. QED
    BY <2>1 DEF Added, JobOf, TypeOK
<1>3. Elsewhere(id) /\ QueueElsewhere(id)
  BY <1>1, <1>2 DEF Elsewhere, QueueElsewhere, On, Page, Made
<1>4. QED
  BY <1>3, WalkElsewhere, DoneElsewhere DEF PagingInv

LEMMA OutsidePaging ==
    ASSUME TypeOK, PagingInv, Surroundings, NEW id \in FanoutIds
    PROVE  Walked(id)' /\ DoneCovered(id)'
<1>1. UNCHANGED <<bt, fo, paged, starts, dropped, fw>>
  BY DEF Surroundings, Follow, Unfollow, UpsertEvent, SaveOffset, Tick, history
<1>2. /\ steady'[id] \subseteq steady[id]
      /\ steady[id] \subseteq followers[id[1]] => steady'[id] \subseteq followers'[id[1]]
  <2>1. id[1] \in Events
    BY DEF FanoutIds
  <2>2. ASSUME NEW e \in Events, NEW u \in Users, Follow(u, e) \/ Unfollow(u, e)
        PROVE  /\ steady'[id] \subseteq steady[id]
               /\ steady[id] \subseteq followers[id[1]] => steady'[id] \subseteq followers'[id[1]]
    BY <2>1, <2>2 DEF Follow, Unfollow, history, TypeOK
  <2>3. QED
    BY <2>2 DEF Surroundings, UpsertEvent, SaveOffset, Tick, history
<1>3. Elsewhere(id) /\ QueueElsewhere(id)
  BY <1>1, <1>2 DEF Elsewhere, QueueElsewhere, On, Page, Made
<1>4. QED
  BY <1>3, WalkElsewhere, DoneElsewhere DEF PagingInv

LEMMA StepPaging == TypeOK /\ InHand /\ PagingInv /\ [Next]_vars => PagingInv'
<1> SUFFICES ASSUME TypeOK, InHand, PagingInv, [Next]_vars, NEW id \in FanoutIds
             PROVE  Walked(id)' /\ DoneCovered(id)'
  BY DEF PagingInv
<1>1. CASE UNCHANGED vars
  <2>1. Elsewhere(id) /\ QueueElsewhere(id)
    BY <1>1 DEF vars, Elsewhere, QueueElsewhere, On, Page, Made
  <2>2. QED
    BY <2>1, WalkElsewhere, DoneElsewhere DEF PagingInv
<1>2. QED
  BY <1>1, ScanPaging, StartPaging, ReadPaging, AddPaging, FaultPaging, OutsidePaging
  DEF Next, WorkerStep

LEMMA PagingHolds == Spec => [](TypeOK /\ PagingInv)
<1>1. Init => TypeOK /\ InHand /\ PagingInv
  BY InitType, InitPaging
<1>2. TypeOK /\ InHand /\ PagingInv /\ [Next]_vars => (TypeOK /\ InHand /\ PagingInv)'
  BY StepType, StepPaging
<1>3. QED
  BY <1>1, <1>2, PTL DEF Spec

(* The keyset walk skips nobody: a fan-out that was executed once and ran   *)
(* to its end has paged everybody who followed throughout.                  *)
THEOREM NobodyIsSkipped == Spec => []SteadyFollowersPaged
<1>1. PagingInv => SteadyFollowersPaged
  BY DEF PagingInv, DoneCovered, SteadyFollowersPaged
<1>2. QED
  BY <1>1, PagingHolds, PTL

(* ... and repeats nobody: no two of its pages share a reader.              *)
THEOREM NobodyIsRepeated == Spec => []PagesAreDisjoint
<1>1. TypeOK /\ PagingInv => PagesAreDisjoint
  <2> SUFFICES ASSUME TypeOK, PagingInv, NEW id \in FanoutIds, NEW c \in Cursors, NEW d \in Cursors,
                      starts[id] <= 1, c # d, NEW u \in Page(id, c), u \in Page(id, d)
               PROVE  FALSE
    BY DEF PagesAreDisjoint, Page
  <2>1. Behind(id)
    BY DEF PagingInv, Walked
  <2>2. Page(id, c) \subseteq Users
    BY DEF TypeOK, Page, BatchIds, FanoutIds
  <2>3. u \in Nat /\ c \in Nat /\ d \in Nat
    <3>1. Users \subseteq Nat /\ Cursors \subseteq Nat
      BY FanoutAssumption DEF Cursors
    <3>2. QED
      BY <2>2, <3>1
  <2>4. u > c /\ u > d
    BY <2>1 DEF Behind
  <2>5. (c < d => u <= d) /\ (d < c => u <= c)
    BY <2>1 DEF Behind
  <2>6. QED
    BY <2>3, <2>4, <2>5
<1>2. QED
  BY <1>1, PagingHolds, PTL

(***************************************************************************)
(* Sharing. Nobody is named on a line that is not there, an order names    *)
(* every list once, and a form reaches one line: the row that is named, or *)
(* the first by position that is not managed.                              *)
(***************************************************************************)
ShareLists == 1..MaxShared
ShareLines == ShareLists \cup {RadioLine}
ShareRow == [managed : BOOLEAN, audience : {"none", "friends", "everyone"}]
FormShape == [pc : {"idle", "gate", "share", "name", "strike"}, line : ShareLines \cup {NoOne},
              audience : {"none", "friends", "everyone", NoOne}, who : Friends \cup {NoOne}]
\* A form that opens says to whom, and one that names says whom.
AskedForm ==
    {q \in FormShape : /\ q.pc = "share" \/ (q.pc = "gate" /\ q.who = NoOne) =>
                             q.audience \in {"none", "friends", "everyone"}
                       /\ q.pc = "name" => q.who \in Friends}

\* A line that is ordered is there, and is ordered once.
OrderFits(rows, queue) ==
    /\ queue \in Seq(ShareLists)
    /\ \A i \in 1..Len(queue) : rows[queue[i]] # NoOne
    /\ \A i, j \in 1..Len(queue) : queue[i] = queue[j] => i = j
\* Whoever is named is named on a line that is there; lists come up one after the other.
ShareInv ==
    /\ x1 \in [ShareLines -> ShareRow \cup {NoOne}] /\ OrderFits(x1, x2)
    /\ x3 \subseteq ShareLines \X Friends /\ \A q \in x3 : x1[q[1]] # NoOne
    /\ x6 \in [ShareForms -> AskedForm] /\ x7 \in ShareLists \cup {NoOne}
    /\ x8 \in 0..MaxShared /\ \A l \in ShareLists : l > x8 => x1[l] = NoOne

\* A list without the one at a position.
LEMMA AtIsRemoved ==
    ASSUME NEW T, NEW s \in Seq(T), NEW n \in 1..Len(s)
    PROVE  /\ Shared!RemoveAt(s, n) \in Seq(T) /\ Len(Shared!RemoveAt(s, n)) = Len(s) - 1
           /\ \A i \in 1..(Len(s) - 1) : Shared!RemoveAt(s, n)[i] = IF i < n THEN s[i] ELSE s[i + 1]
<1> DEFINE a == SubSeq(s, 1, n - 1)
           b == SubSeq(s, n + 1, Len(s))
<1>1. Len(s) \in Nat /\ n \in Nat /\ n >= 1 /\ n <= Len(s)
  OBVIOUS
<1>2. a \in Seq(T) /\ Len(a) = n - 1 /\ \A i \in 1..(n - 1) : a[i] = s[i]
  BY <1>1
<1>3. b \in Seq(T) /\ Len(b) = Len(s) - n /\ \A i \in 1..(Len(s) - n) : b[i] = s[i + n]
  BY <1>1
<1>4. Shared!RemoveAt(s, n) = a \o b
  BY DEF Shared!RemoveAt
<1> HIDE DEF a, b
<1>5. a \o b \in Seq(T) /\ Len(a \o b) = Len(s) - 1
  <2>1. a \in Seq(T) /\ b \in Seq(T)
    BY <1>2, <1>3
  <2>2. a \o b \in Seq(T)
    BY <2>1
  <2>3. Len(a \o b) = Len(a) + Len(b)
    BY <2>1
  <2> QED BY <1>1, <1>2, <1>3, <2>2, <2>3
<1>6. ASSUME NEW i \in 1..(Len(s) - 1) PROVE (a \o b)[i] = IF i < n THEN s[i] ELSE s[i + 1]
  <2>1. CASE i < n
    BY <1>1, <1>2, <1>3, <2>1
  <2>2. CASE ~(i < n)
    <3>1. (a \o b)[i] = b[i - Len(a)] /\ i - (n - 1) \in 1..(Len(s) - n)
      BY <1>1, <1>2, <1>3, <2>2
    <3>2. b[i - (n - 1)] = s[(i - (n - 1)) + n]
      BY <1>3, <3>1
    <3>3. (i - (n - 1)) + n = i + 1
      BY <1>1
    <3> QED BY <1>2, <2>2, <3>1, <3>2, <3>3
  <2> QED BY <2>1, <2>2
<1> QED BY <1>4, <1>5, <1>6

\* The order of the lists but one: it fits the rows without it.
LEMMA WithoutFits ==
    ASSUME NEW l, NEW rows, OrderFits(x1, x2), \A k \in ShareLists : k # l => rows[k] = x1[k]
    PROVE  /\ OrderFits(rows, Shared!OrderWithout(l))
           /\ \A i \in 1..Len(Shared!OrderWithout(l)) : Shared!OrderWithout(l)[i] # l
<1>1. x2 \in Seq(ShareLists) /\ DOMAIN x2 = 1..Len(x2) /\ Len(x2) \in Nat
  BY DEF OrderFits
<1>2. CASE \E n \in 1..Len(x2) : x2[n] = l
  <2> DEFINE n == CHOOSE n \in 1..Len(x2) : x2[n] = l
             rest == Shared!RemoveAt(x2, n)
  <2>1. n \in 1..Len(x2) /\ x2[n] = l
    BY <1>2
  <2>2. Shared!OrderWithout(l) = rest
    BY <1>1, <1>2 DEF Shared!OrderWithout
  <2> HIDE DEF n
  <2>3. /\ rest \in Seq(ShareLists) /\ Len(rest) = Len(x2) - 1
        /\ \A i \in 1..(Len(x2) - 1) : rest[i] = IF i < n THEN x2[i] ELSE x2[i + 1]
    BY <1>1, <2>1, AtIsRemoved
  <2> HIDE DEF rest
  <2> DEFINE at(i) == IF i < n THEN i ELSE i + 1
  <2>4. \A i \in 1..(Len(x2) - 1) : at(i) \in 1..Len(x2) /\ at(i) # n /\ rest[i] = x2[at(i)]
    BY <1>1, <2>1, <2>3
  <2>5. \A i, j \in 1..(Len(x2) - 1) : at(i) = at(j) => i = j
    BY <1>1, <2>1
  <2> HIDE DEF at
  <2>6. \A i \in 1..Len(rest) : rest[i] # l
    BY <2>1, <2>3, <2>4 DEF OrderFits
  <2>7. \A i \in 1..Len(rest) : rows[rest[i]] # NoOne
    BY <1>1, <2>3, <2>4, <2>6 DEF OrderFits
  <2>8. \A i, j \in 1..Len(rest) : rest[i] = rest[j] => i = j
    BY <2>3, <2>4, <2>5 DEF OrderFits
  <2> QED BY <2>2, <2>3, <2>6, <2>7, <2>8 DEF OrderFits
<1>3. CASE ~(\E n \in 1..Len(x2) : x2[n] = l)
  <2>1. Shared!OrderWithout(l) = x2
    BY <1>1, <1>3 DEF Shared!OrderWithout
  <2>2. \A i \in 1..Len(x2) : x2[i] \in ShareLists /\ x2[i] # l
    BY <1>1, <1>3
  <2> QED BY <2>1, <2>2 DEF OrderFits
<1> QED BY <1>2, <1>3

\* A new list is behind the others.
LEMMA BehindFits ==
    ASSUME NEW l \in ShareLists, NEW rows, OrderFits(x1, x2), x1[l] = NoOne, rows[l] # NoOne,
           \A k \in ShareLists : k # l => rows[k] = x1[k]
    PROVE  OrderFits(rows, Append(x2, l))
<1>1. x2 \in Seq(ShareLists) /\ Len(x2) \in Nat
  BY DEF OrderFits
<1>2. /\ Append(x2, l) \in Seq(ShareLists) /\ Len(Append(x2, l)) = Len(x2) + 1
      /\ Append(x2, l)[Len(x2) + 1] = l /\ \A i \in 1..Len(x2) : Append(x2, l)[i] = x2[i]
  BY <1>1
<1>3. \A i \in 1..(Len(x2) + 1) : i \in 1..Len(x2) \/ i = Len(x2) + 1
  BY <1>1
<1>4. \A i \in 1..Len(x2) : x2[i] # l /\ x2[i] \in ShareLists
  BY <1>1 DEF OrderFits
<1> DEFINE w == Append(x2, l)
<1> HIDE DEF w
<1>5. /\ w \in Seq(ShareLists) /\ Len(w) = Len(x2) + 1 /\ w[Len(x2) + 1] = l
      /\ \A i \in 1..Len(x2) : w[i] = x2[i]
  BY <1>2 DEF w
<1>6. \A i \in 1..Len(w) : rows[w[i]] # NoOne
  BY <1>3, <1>4, <1>5 DEF OrderFits
<1>7. \A i, j \in 1..Len(w) : w[i] = w[j] => i = j
  BY <1>3, <1>4, <1>5 DEF OrderFits
<1> QED BY <1>5, <1>6, <1>7 DEF OrderFits, w

\* A list moved to the front is followed by the others.
LEMMA FrontFits ==
    ASSUME NEW l \in ShareLists, NEW rest, OrderFits(x1, rest), x1[l] # NoOne, \A i \in 1..Len(rest) : rest[i] # l
    PROVE  OrderFits(x1, <<l>> \o rest)
<1>1. rest \in Seq(ShareLists) /\ Len(rest) \in Nat
  BY DEF OrderFits
<1>2. /\ <<l>> \o rest \in Seq(ShareLists) /\ Len(<<l>> \o rest) = Len(rest) + 1
      /\ (<<l>> \o rest)[1] = l /\ \A i \in 2..(Len(rest) + 1) : (<<l>> \o rest)[i] = rest[i - 1]
  BY <1>1
<1> DEFINE w == <<l>> \o rest
<1> HIDE DEF w
<1>3. /\ w \in Seq(ShareLists) /\ Len(w) = Len(rest) + 1 /\ w[1] = l
      /\ \A i \in 2..(Len(rest) + 1) : w[i] = rest[i - 1]
  BY <1>2 DEF w
<1>4. \A i \in 1..Len(w) : i = 1 \/ (i \in 2..(Len(rest) + 1) /\ i - 1 \in 1..Len(rest))
  BY <1>1, <1>3
<1>5. \A i \in 1..Len(w) : x1[w[i]] # NoOne
  <2> SUFFICES ASSUME NEW i \in 1..Len(w) PROVE x1[w[i]] # NoOne
    OBVIOUS
  <2>1. CASE i = 1
    BY <1>3, <2>1
  <2>2. CASE i # 1
    <3>1. w[i] = rest[i - 1] /\ i - 1 \in 1..Len(rest)
      BY <1>3, <1>4, <2>2
    <3> QED BY <3>1 DEF OrderFits
  <2> QED BY <2>1, <2>2
<1>6. \A i, j \in 1..Len(w) : w[i] = w[j] => i = j
  <2> SUFFICES ASSUME NEW i \in 1..Len(w), NEW j \in 1..Len(w), w[i] = w[j] PROVE i = j
    OBVIOUS
  <2>1. CASE i = 1 \/ j = 1
    BY <1>3, <1>4, <2>1
  <2>2. CASE i # 1 /\ j # 1
    <3>1. rest[i - 1] = rest[j - 1] /\ i - 1 \in 1..Len(rest) /\ j - 1 \in 1..Len(rest)
      BY <1>3, <1>4, <2>2
    <3>2. i - 1 = j - 1
      BY <3>1 DEF OrderFits
    <3> QED BY <3>2
  <2> QED BY <2>1, <2>2
<1> QED BY <1>3, <1>5, <1>6 DEF OrderFits, w

\* What a statement reaches: one line at most, that is there, and for the forms that open, not ours.
LEMMA ReachedIs ==
    ASSUME SharingAssumption, OrderFits(x1, x2), NEW l \in ShareLines \cup {NoOne}
    PROVE  /\ \A k \in Shared!Target(l) : k \in ShareLines /\ x1[k] # NoOne
           /\ \A j, k \in Shared!Target(l) : j = k
           /\ Shared!Scope(l) \subseteq Shared!Target(l) /\ \A k \in Shared!Scope(l) : ~x1[k].managed
<1>1. x2 \in Seq(ShareLists) /\ DOMAIN x2 = 1..Len(x2) /\ Len(x2) \in Nat
  BY DEF OrderFits
<1>2. CASE l # NoOne
  BY <1>2 DEF Shared!Target, Shared!Scope
<1>3. CASE l = NoOne
  <2> DEFINE first == {j \in Shared!Theirs : \A k \in Shared!Theirs : j <= k}
  <2>1. first \subseteq 1..Len(x2)
    BY <1>1 DEF Shared!Theirs
  <2>2. \A j, k \in first : j = k
    <3>1. \A j, k \in first : j <= k /\ k <= j /\ j \in Int /\ k \in Int
      BY <1>1 DEF Shared!Theirs
    <3> HIDE DEF first
    <3> QED BY <3>1
  <2>3. Shared!Target(l) = {x2[i] : i \in first}
    BY <1>3 DEF Shared!Target
  <2> HIDE DEF first
  <2>4. \A k \in Shared!Target(l) : k \in ShareLists /\ x1[k] # NoOne
    <3>1. \A i \in 1..Len(x2) : x2[i] \in ShareLists /\ x1[x2[i]] # NoOne
      BY <1>1 DEF OrderFits
    <3> QED BY <2>1, <2>3, <3>1
  <2>5. \A j, k \in Shared!Target(l) : j = k
    BY <2>2, <2>3
  <2> QED BY <2>4, <2>5 DEF ShareLines, Shared!Scope
<1> QED BY <1>2, <1>3

\* The invariant holds at the start.
LEMMA ShareInit == ASSUME SharingAssumption, Shared!Init PROVE ShareInv
<1>1. Shared!Closed \in ShareRow /\ x1 \in [ShareLines -> ShareRow \cup {NoOne}]
  BY DEF Shared!Init, Shared!Closed, Shared!Lines, Shared!Lists, ShareLines, ShareLists, ShareRow
<1>2. \A l \in ShareLists : x1[l] = NoOne
  BY DEF SharingAssumption, Shared!Init, Shared!Lines, Shared!Lists, ShareLists
<1>3. OrderFits(x1, x2)
  <2>1. x2 = <<>> /\ x2 \in Seq(ShareLists) /\ Len(x2) = 0
    BY DEF Shared!Init
  <2> QED BY <2>1 DEF OrderFits
<1>4. x6 \in [ShareForms -> AskedForm]
  BY DEF Shared!Init, Shared!Idle, AskedForm, FormShape
<1> QED BY <1>1, <1>2, <1>3, <1>4 DEF Shared!Init, ShareInv, SharingAssumption

\* The lines stay as they are, or nobody else is named on them.
SameLines == x1' = x1 /\ x2' = x2 /\ x8' = x8 /\ x7' = x7

\* What is asked for is a form.
LEMMA FormAsked ==
    ASSUME SharingAssumption, ShareInv, NEW f \in ShareForms, NEW q \in AskedForm, x6' = [x6 EXCEPT ![f] = q],
           SameLines, x3' = x3
    PROVE  ShareInv'
BY DEF ShareInv, SameLines

\* A request that is over is a form too.
LEMMA IdleForm == Shared!Idle \in AskedForm
BY DEF Shared!Idle, AskedForm, FormShape

\* Nothing is opened, nobody is named.
NothingOpened ==
    /\ \A l \in ShareLines : x1[l] # NoOne /\ x1'[l] # NoOne => x1'[l].audience = x1[l].audience
    /\ \A l \in ShareLines : x1[l] # NoOne /\ x1'[l] # NoOne => \A p : <<l, p>> \in x3' <=> <<l, p>> \in x3

\* What opens nothing does as was asked.
LEMMA NothingIsAsAsked ==
    ASSUME SharingAssumption, ShareInv, ShareInv', NothingOpened, \A l \in ShareLists : x1'[l] = NoOne => \A p : <<l, p>> \notin x3'
    PROVE  Shared!OpenedAsAskedStep
<1>1. Shared!ManagedNotOpenedStep
  <2> SUFFICES ASSUME NEW l \in ShareLists, x1[l] # NoOne
               PROVE  /\ x1'[l] # NoOne => ~Shared!Wider(x1[l].audience, x1'[l].audience)
                      /\ \A p \in Friends : <<l, p>> \in x3' => <<l, p>> \in x3
    BY DEF Shared!ManagedNotOpenedStep, Shared!Lists, ShareLists
  <2>1. l \in ShareLines
    BY DEF ShareLines
  <2> QED BY <2>1 DEF NothingOpened, Shared!Wider
<1>2. Shared!OneLinePerFormStep
  <2> SUFFICES ASSUME NEW l \in ShareLines, x1[l] # NoOne, x1'[l] # NoOne
               PROVE  x1'[l].audience = x1[l].audience /\ {g \in x3' : g[1] = l} = {g \in x3 : g[1] = l}
    BY DEF Shared!OneLinePerFormStep, Shared!Lines, Shared!Lists, ShareLines, ShareLists
  <2>1. x3 \subseteq ShareLines \X Friends /\ x3' \subseteq ShareLines \X Friends
    BY DEF ShareInv
  <2>2. \A g \in ShareLines \X Friends : g[1] = l => (g \in x3' <=> g \in x3)
    <3> SUFFICES ASSUME NEW a \in ShareLines, NEW p \in Friends, a = l PROVE <<a, p>> \in x3' <=> <<a, p>> \in x3
      OBVIOUS
    <3> QED BY DEF NothingOpened
  <2>3. {g \in x3' : g[1] = l} = {g \in x3 : g[1] = l}
    BY <2>1, <2>2
  <2> QED BY <2>3 DEF NothingOpened
<1>3. Shared!NamedOnALine'
  BY DEF ShareInv, Shared!NamedOnALine
<1> QED BY <1>1, <1>2, <1>3 DEF Shared!OpenedAsAskedStep

\* What a form does reaches one line, and none of ours.
LEMMA FormReaches ==
    ASSUME SharingAssumption, ShareInv, ShareInv', NEW l \in ShareLines \cup {NoOne}, NEW S, S \subseteq Shared!Target(l),
           \A k \in S : x1[k].managed => \A p : <<k, p>> \in x3' => <<k, p>> \in x3,
           \A k \in S : x1[k].managed => x1'[k] = x1[k],
           \A k \in ShareLines \ S : x1'[k] = x1[k] /\ \A p : <<k, p>> \in x3' <=> <<k, p>> \in x3
    PROVE  Shared!OpenedAsAskedStep
<1>1. Shared!ManagedNotOpenedStep
  <2> SUFFICES ASSUME NEW k \in ShareLists, x1[k] # NoOne, x1[k].managed
               PROVE  /\ ~Shared!Wider(x1[k].audience, x1'[k].audience)
                      /\ \A p \in Friends : <<k, p>> \in x3' => <<k, p>> \in x3
    BY DEF Shared!ManagedNotOpenedStep, Shared!Lists, ShareLists
  <2>1. k \in ShareLines
    BY DEF ShareLines
  <2>2. x1'[k] = x1[k]
    BY <2>1
  <2> QED BY <2>1, <2>2 DEF Shared!Wider
<1>2. Shared!OneLinePerFormStep
  <2> SUFFICES ASSUME NEW j \in ShareLines, NEW k \in ShareLines, j # k
               PROVE  \/ x1'[j].audience = x1[j].audience /\ {g \in x3' : g[1] = j} = {g \in x3 : g[1] = j}
                      \/ x1'[k].audience = x1[k].audience /\ {g \in x3' : g[1] = k} = {g \in x3 : g[1] = k}
    BY DEF Shared!OneLinePerFormStep, Shared!Lines, Shared!Lists, ShareLines, ShareLists
  <2>1. j \notin S \/ k \notin S
    BY ReachedIs DEF ShareInv
  <2>2. ASSUME NEW m \in ShareLines, m \notin S
        PROVE  x1'[m].audience = x1[m].audience /\ {g \in x3' : g[1] = m} = {g \in x3 : g[1] = m}
    <3>1. x3 \subseteq ShareLines \X Friends /\ x3' \subseteq ShareLines \X Friends
      BY DEF ShareInv
    <3>2. \A g \in ShareLines \X Friends : g[1] = m => (g \in x3' <=> g \in x3)
      <4> SUFFICES ASSUME NEW a \in ShareLines, NEW p \in Friends, a = m PROVE <<a, p>> \in x3' <=> <<a, p>> \in x3
        OBVIOUS
      <4> QED BY <2>2
    <3>3. {g \in x3' : g[1] = m} = {g \in x3 : g[1] = m}
      BY <3>1, <3>2
    <3> QED BY <2>2, <3>3
  <2> QED BY <2>1, <2>2
<1>3. Shared!NamedOnALine'
  BY DEF ShareInv, Shared!NamedOnALine
<1> QED BY <1>1, <1>2, <1>3 DEF Shared!OpenedAsAskedStep

\* A form that opens a line.
LEMMA ShareOpens ==
    ASSUME SharingAssumption, ShareInv, NEW f \in ShareForms, Shared!Share(f)
    PROVE  ShareInv' /\ Shared!OpenedAsAskedStep
<1> DEFINE l == x6[f].line
           S == Shared!Scope(l)
           opened(k) == [x1[k] EXCEPT !.audience = x6[f].audience]
<1>1. /\ x6[f].pc = "share" /\ x1' = [k \in ShareLines |-> IF k \in S THEN opened(k) ELSE x1[k]]
      /\ x6' = [x6 EXCEPT ![f] = Shared!Idle] /\ x2' = x2 /\ x3' = x3 /\ x7' = x7 /\ x8' = x8
  BY DEF Shared!Share, Shared!Lines, Shared!Lists, ShareLines, ShareLists
<1>2. l \in ShareLines \cup {NoOne} /\ x6[f].audience \in {"none", "friends", "everyone"}
  BY <1>1 DEF ShareInv, AskedForm, FormShape
<1>3. /\ S \subseteq Shared!Target(l) /\ S \subseteq ShareLines /\ \A k \in S : ~x1[k].managed /\ x1[k] \in ShareRow
  <2>1. \A k \in Shared!Target(l) : k \in ShareLines /\ x1[k] # NoOne
    BY <1>2, ReachedIs DEF ShareInv
  <2>2. S \subseteq Shared!Target(l) /\ \A k \in S : ~x1[k].managed
    BY <1>2, ReachedIs DEF ShareInv
  <2> QED BY <2>1, <2>2 DEF ShareInv
<1>4. \A k \in S : opened(k) \in ShareRow
  BY <1>2, <1>3 DEF ShareRow
<1> HIDE DEF l, S, opened
<1>5. /\ x1' \in [ShareLines -> ShareRow \cup {NoOne}] /\ \A k \in ShareLines \ S : x1'[k] = x1[k]
      /\ \A k \in S : x1'[k] \in ShareRow
  BY <1>1, <1>3, <1>4 DEF ShareInv
<1>6. \A k \in ShareLines : (x1'[k] = NoOne <=> x1[k] = NoOne)
  BY <1>3, <1>5 DEF SharingAssumption, ShareRow
<1>7. ShareInv'
  <2>1. OrderFits(x1', x2')
    <3>1. \A i \in 1..Len(x2) : x2[i] \in ShareLines
      BY DEF ShareInv, OrderFits, ShareLines
    <3> QED BY <1>1, <1>6, <3>1 DEF ShareInv, OrderFits
  <2>2. x6' \in [ShareForms -> AskedForm]
    BY <1>1, IdleForm DEF ShareInv
  <2>3. \A q \in x3 : x1'[q[1]] # NoOne
    BY <1>6 DEF ShareInv
  <2>4. \A k \in ShareLists : k > x8 => x1'[k] = NoOne
    BY <1>6 DEF ShareInv, ShareLines
  <2> QED BY <1>1, <1>5, <2>1, <2>2, <2>3, <2>4 DEF ShareInv
<1> QED BY <1>1, <1>2, <1>3, <1>5, <1>7, FormReaches

\* A form that names somebody, or takes the name off.
LEMMA NameReaches ==
    ASSUME SharingAssumption, ShareInv, NEW f \in ShareForms, Shared!Name(f) \/ Shared!Strike(f)
    PROVE  ShareInv' /\ Shared!OpenedAsAskedStep
<1> DEFINE l == x6[f].line
           T == Shared!Target(l)
           who == x6[f].who
<1>1. /\ x6' = [x6 EXCEPT ![f] = Shared!Idle] /\ x1' = x1 /\ x2' = x2 /\ x7' = x7 /\ x8' = x8
      /\ \/ x6[f].pc = "name" /\ x3' = x3 \cup (Shared!Scope(l) \X {who})
         \/ x3' = x3 \ (T \X {who})
  <2>1. CASE Shared!Name(f) /\ TRUE
    BY <2>1 DEF Shared!Name
  <2>2. CASE Shared!Strike(f) /\ TRUE
    BY <2>2 DEF Shared!Strike
  <2> QED BY <2>1, <2>2
<1>2. l \in ShareLines \cup {NoOne} /\ (x6[f].pc = "name" => who \in Friends)
  BY DEF ShareInv, AskedForm, FormShape
<1>3. /\ \A k \in T : k \in ShareLines /\ x1[k] # NoOne
      /\ Shared!Scope(l) \subseteq T /\ \A k \in Shared!Scope(l) : ~x1[k].managed
  BY <1>2, ReachedIs DEF ShareInv
<1>4. /\ x3' \subseteq ShareLines \X Friends /\ \A q \in x3' : x1[q[1]] # NoOne
      /\ \A k \in ShareLines \ T : \A p : <<k, p>> \in x3' <=> <<k, p>> \in x3
      /\ \A k \in T : x1[k].managed => \A p : <<k, p>> \in x3' => <<k, p>> \in x3
  <2> HIDE DEF T, l, who
  <2>1. CASE x6[f].pc = "name" /\ x3' = x3 \cup (Shared!Scope(l) \X {who})
    BY <1>2, <1>3, <2>1 DEF ShareInv
  <2>2. CASE x3' = x3 \ (T \X {who})
    BY <1>3, <2>2 DEF ShareInv
  <2> QED BY <1>1, <2>1, <2>2
<1> HIDE DEF l, T, who
<1>5. ShareInv'
  <2>1. x6' \in [ShareForms -> AskedForm]
    BY <1>1, IdleForm DEF ShareInv
  <2> QED BY <1>1, <1>4, <2>1 DEF ShareInv
<1>6. T \subseteq Shared!Target(l)
  BY DEF T
<1> QED BY <1>1, <1>2, <1>4, <1>5, <1>6, FormReaches

\* A form is asked, and passes the gate of the membership.
LEMMA FormStep ==
    ASSUME SharingAssumption, ShareInv, NEW f \in ShareForms,
           \/ \E l \in Shared!Lines \cup {NoOne} :
                 \/ \E a \in Shared!Audiences : Shared!AskShare(f, l, a)
                 \/ \E p \in Friends : Shared!AskName(f, l, p) \/ Shared!AskStrike(f, l, p)
           \/ Shared!Gate(f)
    PROVE  ShareInv' /\ SameLines /\ x3' = x3
<1>1. \E q \in AskedForm : x6' = [x6 EXCEPT ![f] = q] /\ SameLines /\ x3' = x3
  <2>1. CASE Shared!Gate(f) /\ TRUE
    <3> DEFINE r == x6[f]
               to == IF r.who = NoOne THEN "share" ELSE "name"
               q == IF ~x5 THEN Shared!Idle ELSE [r EXCEPT !.pc = to]
    <3>1. r \in AskedForm /\ r.pc = "gate"
      BY <2>1 DEF Shared!Gate, ShareInv
    <3>2. [r EXCEPT !.pc = to] \in AskedForm
      BY <3>1 DEF AskedForm, FormShape
    <3>3. q \in AskedForm
      BY <3>2, IdleForm
    <3>4. x6' = [x6 EXCEPT ![f] = q] /\ SameLines /\ x3' = x3
      BY <2>1 DEF Shared!Gate, SameLines, ShareInv
    <3> HIDE DEF q
    <3> QED BY <3>3, <3>4
  <2>2. ASSUME NEW l \in Shared!Lines \cup {NoOne}, NEW a \in Shared!Audiences, Shared!AskShare(f, l, a) /\ TRUE
        PROVE  \E q \in AskedForm : x6' = [x6 EXCEPT ![f] = q] /\ SameLines /\ x3' = x3
    <3> DEFINE pc == IF a = "friends" THEN "gate" ELSE "share"
               q == [Shared!Idle EXCEPT !.line = l, !.audience = a, !.pc = pc]
    <3>1. q \in AskedForm
      BY DEF Shared!Idle, AskedForm, FormShape, Shared!Audiences, Shared!Lines, Shared!Lists, ShareLines, ShareLists,
             SharingAssumption, ShareRow
    <3>2. x6' = [x6 EXCEPT ![f] = q] /\ SameLines /\ x3' = x3
      BY <2>2 DEF Shared!AskShare, SameLines
    <3> HIDE DEF q
    <3> QED BY <3>1, <3>2
  <2>3. ASSUME NEW l \in Shared!Lines \cup {NoOne}, NEW p \in Friends, Shared!AskName(f, l, p) \/ Shared!AskStrike(f, l, p)
        PROVE  \E q \in AskedForm : x6' = [x6 EXCEPT ![f] = q] /\ SameLines /\ x3' = x3
    <3> DEFINE q(pc) == [Shared!Idle EXCEPT !.line = l, !.who = p, !.pc = pc]
    <3>1. q("gate") \in AskedForm /\ q("strike") \in AskedForm
      BY DEF Shared!Idle, AskedForm, FormShape, Shared!Lines, Shared!Lists, ShareLines, ShareLists, SharingAssumption
    <3>2. (x6' = [x6 EXCEPT ![f] = q("gate")] \/ x6' = [x6 EXCEPT ![f] = q("strike")]) /\ SameLines /\ x3' = x3
      <4>1. CASE Shared!AskName(f, l, p) /\ TRUE
        BY <4>1 DEF Shared!AskName, SameLines
      <4>2. CASE Shared!AskStrike(f, l, p) /\ TRUE
        BY <4>2 DEF Shared!AskStrike, SameLines
      <4> QED BY <2>3, <4>1, <4>2
    <3> HIDE DEF q
    <3> QED BY <3>1, <3>2
  <2> QED BY <2>1, <2>2, <2>3
<1> QED BY <1>1, FormAsked

\* Lists come, go and move; nothing is opened, and nobody named.
LEMMA NewListIs ==
    ASSUME SharingAssumption, ShareInv, Shared!Insert, x3' = x3
    PROVE  /\ x1' \in [ShareLines -> ShareRow \cup {NoOne}] /\ OrderFits(x1', x2') /\ x8' \in ShareLists
           /\ \A q \in x3' : x1'[q[1]] # NoOne
           /\ \A l \in ShareLists : l > x8' => x1'[l] = NoOne
           /\ NothingOpened
<1> DEFINE n == x8 + 1
<1>1. /\ x8 < MaxShared /\ x8' = n /\ x1' = [x1 EXCEPT ![n] = Shared!Closed] /\ x2' = Append(x2, n)
  BY DEF Shared!Insert
<1>2. n \in ShareLists /\ n > x8 /\ n \in ShareLines
  BY <1>1 DEF ShareInv, ShareLists, ShareLines, SharingAssumption
<1>3. Shared!Closed \in ShareRow /\ Shared!Closed # NoOne
  <2>1. Shared!Closed \in ShareRow
    BY DEF Shared!Closed, ShareRow
  <2>2. NoOne \notin ShareRow
    BY DEF ShareRow, SharingAssumption
  <2> QED BY <2>1, <2>2
<1>4. x1[n] = NoOne
  BY <1>2 DEF ShareInv
<1> HIDE DEF n
<1>5. /\ x1' \in [ShareLines -> ShareRow \cup {NoOne}] /\ x1'[n] # NoOne
      /\ \A k \in ShareLines : k # n => x1'[k] = x1[k]
  BY <1>1, <1>2, <1>3 DEF ShareInv
<1>6. OrderFits(x1', x2')
  BY <1>1, <1>2, <1>4, <1>5, BehindFits DEF ShareInv, ShareLines
<1>7. \A q \in x3' : x1'[q[1]] # NoOne
  BY <1>4, <1>5 DEF ShareInv
<1>8. \A l \in ShareLists : l > x8' => x1'[l] = NoOne
  <2> SUFFICES ASSUME NEW l \in ShareLists, l > x8 + 1 PROVE x1'[l] = NoOne
    BY <1>1 DEF n
  <2>1. l > x8 /\ l # n /\ l \in ShareLines
    BY DEF n, ShareInv, ShareLists, ShareLines
  <2> QED BY <1>5, <2>1 DEF ShareInv
<1>9. NothingOpened
  BY <1>4, <1>5 DEF NothingOpened
<1> QED BY <1>1, <1>2, <1>5, <1>6, <1>7, <1>8, <1>9

\* Added by the owner, or imported for a pass.
LEMMA ListComes ==
    ASSUME SharingAssumption, ShareInv, Shared!AddList \/ Shared!ImportOurs
    PROVE  ShareInv' /\ NothingOpened
<1>1. Shared!Insert /\ x3' = x3 /\ x6' = x6 /\ (x7' = x7 \/ x7' = x8')
  <2>1. CASE Shared!AddList /\ TRUE
    BY <2>1 DEF Shared!AddList
  <2>2. CASE Shared!ImportOurs /\ TRUE
    BY <2>2 DEF Shared!ImportOurs
  <2> QED BY <2>1, <2>2
<1>2. /\ x1' \in [ShareLines -> ShareRow \cup {NoOne}] /\ OrderFits(x1', x2') /\ x8' \in ShareLists
      /\ \A q \in x3' : x1'[q[1]] # NoOne
      /\ \A l \in ShareLists : l > x8' => x1'[l] = NoOne
      /\ NothingOpened
  BY <1>1, NewListIs
<1>3. x8' \in 0..MaxShared
  BY <1>2 DEF ShareLists, SharingAssumption
<1> QED BY <1>1, <1>2, <1>3 DEF ShareInv

\* An imported list is marked as ours, and open to whom it was.
LEMMA ListMarked ==
    ASSUME SharingAssumption, ShareInv, Shared!MarkOurs
    PROVE  ShareInv' /\ NothingOpened
<1> DEFINE marked == IF x1[x7] = NoOne THEN NoOne ELSE [x1[x7] EXCEPT !.managed = TRUE]
<1>1. /\ x7 # NoOne /\ x1' = [x1 EXCEPT ![x7] = marked] /\ x7' = NoOne
      /\ x2' = x2 /\ x3' = x3 /\ x6' = x6 /\ x8' = x8
  BY DEF Shared!MarkOurs
<1>2. x7 \in ShareLists /\ x7 \in ShareLines
  BY <1>1 DEF ShareInv, ShareLines
<1>3. /\ marked \in ShareRow \cup {NoOne} /\ (marked = NoOne <=> x1[x7] = NoOne)
      /\ x1[x7] # NoOne => marked.audience = x1[x7].audience
  <2>1. x1[x7] \in ShareRow \cup {NoOne}
    BY <1>2 DEF ShareInv
  <2>2. x1[x7] \in ShareRow => [x1[x7] EXCEPT !.managed = TRUE] \in ShareRow
    BY DEF ShareRow
  <2> QED BY <2>1, <2>2 DEF ShareRow, SharingAssumption
<1> HIDE DEF marked
<1>4. /\ x1' \in [ShareLines -> ShareRow \cup {NoOne}]
      /\ \A k \in ShareLines : /\ x1'[k] = NoOne <=> x1[k] = NoOne
                               /\ x1[k] # NoOne => x1'[k].audience = x1[k].audience
  BY <1>1, <1>2, <1>3 DEF ShareInv
<1>5. OrderFits(x1', x2')
  <2>1. \A i \in 1..Len(x2) : x2[i] \in ShareLines
    BY DEF ShareInv, OrderFits, ShareLines
  <2> QED BY <1>1, <1>4, <2>1 DEF ShareInv, OrderFits
<1>6. \A q \in x3' : x1'[q[1]] # NoOne
  BY <1>1, <1>4 DEF ShareInv
<1>7. \A l \in ShareLists : l > x8' => x1'[l] = NoOne
  BY <1>1, <1>4 DEF ShareInv, ShareLines
<1>8. NothingOpened
  BY <1>1, <1>4 DEF NothingOpened
<1> QED BY <1>1, <1>4, <1>5, <1>6, <1>7, <1>8 DEF ShareInv

\* A line that goes takes its names with it.
LEMMA LineGoes ==
    ASSUME SharingAssumption, ShareInv, NEW l \in ShareLines, Shared!RemoveLine(l)
    PROVE  ShareInv' /\ NothingOpened
<1>1. /\ x1' = [x1 EXCEPT ![l] = NoOne] /\ x2' = Shared!OrderWithout(l) /\ x3' = {q \in x3 : q[1] # l}
      /\ x6' = x6 /\ x7' = x7 /\ x8' = x8
  BY DEF Shared!RemoveLine, Shared!WithoutRow
<1>2. /\ x1' \in [ShareLines -> ShareRow \cup {NoOne}] /\ x1'[l] = NoOne
      /\ \A k \in ShareLines : k # l => x1'[k] = x1[k]
  BY <1>1 DEF ShareInv
<1>3. OrderFits(x1', x2')
  <2>1. \A k \in ShareLists : k # l => x1'[k] = x1[k]
    BY <1>2 DEF ShareLines
  <2> QED BY <1>1, <2>1, WithoutFits DEF ShareInv
<1>4. x3' \subseteq ShareLines \X Friends /\ \A q \in x3' : x1'[q[1]] # NoOne
  BY <1>1, <1>2 DEF ShareInv
<1>5. \A k \in ShareLists : k > x8' => x1'[k] = NoOne
  BY <1>1, <1>2 DEF ShareInv, ShareLines
<1>6. NothingOpened
  BY <1>1, <1>2 DEF NothingOpened
<1> QED BY <1>1, <1>2, <1>3, <1>4, <1>5, <1>6 DEF ShareInv

\* A list moves to the front.
LEMMA ListMoves ==
    ASSUME SharingAssumption, ShareInv, NEW l \in ShareLists, Shared!MakePrimary(l)
    PROVE  ShareInv' /\ NothingOpened
<1>1. /\ x1[l] # NoOne /\ x2' = <<l>> \o Shared!OrderWithout(l) /\ x1' = x1 /\ x3' = x3 /\ x6' = x6 /\ x7' = x7 /\ x8' = x8
  BY DEF Shared!MakePrimary
<1>2. OrderFits(x1, Shared!OrderWithout(l)) /\ \A i \in 1..Len(Shared!OrderWithout(l)) : Shared!OrderWithout(l)[i] # l
  BY WithoutFits DEF ShareInv
<1>3. OrderFits(x1, x2')
  BY <1>1, <1>2, FrontFits
<1> QED BY <1>1, <1>3 DEF ShareInv, NothingOpened

\* The radio is connected again, as a line nobody is named on.
LEMMA RadioComes ==
    ASSUME SharingAssumption, ShareInv, Shared!Reconnect
    PROVE  ShareInv' /\ NothingOpened
<1>1. /\ x1[RadioLine] = NoOne /\ x1' = [x1 EXCEPT ![RadioLine] = Shared!Closed]
      /\ x2' = x2 /\ x3' = x3 /\ x6' = x6 /\ x7' = x7 /\ x8' = x8
  BY DEF Shared!Reconnect
<1>2. Shared!Closed \in ShareRow
  BY DEF Shared!Closed, ShareRow
<1>3. /\ x1' \in [ShareLines -> ShareRow \cup {NoOne}]
      /\ \A k \in ShareLines : k # RadioLine => x1'[k] = x1[k]
  BY <1>1, <1>2 DEF ShareInv
<1>4. \A k \in ShareLists : x1'[k] = x1[k]
  BY <1>3 DEF ShareLines, ShareLists, SharingAssumption
<1>5. OrderFits(x1', x2')
  <2>1. \A i \in 1..Len(x2) : x2[i] \in ShareLists
    BY DEF ShareInv, OrderFits
  <2> QED BY <1>1, <1>4, <2>1 DEF ShareInv, OrderFits
<1>6. \A q \in x3' : x1'[q[1]] # NoOne
  BY <1>1, <1>3 DEF ShareInv
<1>7. NothingOpened
  BY <1>1, <1>3 DEF NothingOpened
<1> QED BY <1>1, <1>3, <1>4, <1>5, <1>6, <1>7 DEF ShareInv

\* Every step keeps the invariant, and does as was asked.
LEMMA ShareStep ==
    ASSUME SharingAssumption, ShareInv, [Shared!Next]_(Shared!vars)
    PROVE  ShareInv' /\ Shared!OpenedAsAskedStep
<1>1. ASSUME ShareInv', NothingOpened PROVE Shared!OpenedAsAskedStep
  <2>1. \A l \in ShareLists : x1'[l] = NoOne => \A p : <<l, p>> \notin x3'
    <3> SUFFICES ASSUME NEW l \in ShareLists, x1'[l] = NoOne, NEW p, <<l, p>> \in x3' PROVE FALSE
      OBVIOUS
    <3>1. x1'[<<l, p>>[1]] # NoOne
      BY <1>1 DEF ShareInv
    <3> QED BY <3>1
  <2> QED BY <1>1, <2>1, NothingIsAsAsked
<1>2. ASSUME SameLines, x3' = x3 PROVE NothingOpened
  BY <1>2 DEF SameLines, NothingOpened
<1>3. ASSUME NEW f \in ShareForms,
             \/ \E l \in Shared!Lines \cup {NoOne} :
                   \/ \E a \in Shared!Audiences : Shared!AskShare(f, l, a)
                   \/ \E p \in Friends : Shared!AskName(f, l, p) \/ Shared!AskStrike(f, l, p)
             \/ Shared!Gate(f) \/ Shared!Share(f) \/ Shared!Name(f) \/ Shared!Strike(f)
      PROVE  ShareInv' /\ Shared!OpenedAsAskedStep
  <2>1. CASE \/ \E l \in Shared!Lines \cup {NoOne} :
                   \/ \E a \in Shared!Audiences : Shared!AskShare(f, l, a)
                   \/ \E p \in Friends : Shared!AskName(f, l, p) \/ Shared!AskStrike(f, l, p)
             \/ Shared!Gate(f)
    <3>1. ShareInv' /\ SameLines /\ x3' = x3
      BY <2>1, FormStep
    <3> QED BY <1>1, <1>2, <3>1
  <2>2. CASE Shared!Share(f) /\ TRUE
    BY <2>2, ShareOpens
  <2>3. CASE Shared!Name(f) \/ Shared!Strike(f)
    BY <2>3, NameReaches
  <2> QED BY <1>3, <2>1, <2>2, <2>3
<1>4. CASE Shared!AddList \/ Shared!ImportOurs
  BY <1>1, <1>4, ListComes
<1>5. CASE Shared!MarkOurs \/ Shared!Reconnect
  BY <1>1, <1>5, ListMarked, RadioComes
<1>6. CASE \E l \in Shared!Lines : Shared!RemoveLine(l)
  BY <1>1, <1>6, LineGoes DEF Shared!Lines, Shared!Lists, ShareLines, ShareLists
<1>7. CASE \E l \in Shared!Lists : Shared!MakePrimary(l)
  BY <1>1, <1>7, ListMoves DEF Shared!Lists, ShareLists
<1>8. CASE (\E p \in Friends : Shared!Unfollow(p)) \/ Shared!MembershipLapses \/ UNCHANGED Shared!vars
  <2>1. SameLines /\ x3' = x3 /\ x6' = x6
    BY <1>8 DEF Shared!Unfollow, Shared!MembershipLapses, Shared!vars, SameLines
  <2>2. ShareInv'
    BY <2>1 DEF ShareInv, SameLines
  <2> QED BY <1>1, <1>2, <2>1, <2>2
<1> QED BY <1>3, <1>4, <1>5, <1>6, <1>7, <1>8 DEF Shared!Next

(***************************************************************************)
(* LivePass. A line that is open is stored, or in the hand of the call that *)
(* will store it, unless an answer was lost or two calls met; a list is ours *)
(* as long as it is managed or about to be, unless it was torn.            *)
(***************************************************************************)
\* ---- LivePass ----
PassFits(g) ==
    /\ IsFiniteSet(g.handlers) /\ g.terms \subseteq Nat
    /\ g.month \in Nat \ {0} /\ g.year \in Nat \ {0} /\ g.grace \in Nat /\ g.time \in Nat
    /\ g.lines \in Nat /\ g.ids \in Nat \ {0} /\ g.inputs \in Nat /\ g.faults \in Nat

LineOf(g) == [id : 0..g.lines, end : Nat]
CallOf(g) ==
    [step : {"idle", "asked", "creating", "created", "extending", "extended", "lined", "importing", "inserted", "imported"},
     until : Nat, line : LineOf(g), id : 0..g.ids]
ListRow == [there : BOOLEAN, ours : BOOLEAN, managed : BOOLEAN]
Blank == [id |-> 0, end |-> 0]

PassTypes(g) ==
    /\ x1 \in Nat /\ x2 \in Nat /\ x3 \in BOOLEAN
    /\ x4 \in LineOf(g) /\ x5 \in [1..g.lines -> Nat]
    /\ x6 \in [1..g.ids -> ListRow] /\ x7 \in 1..g.ids
    /\ x8 \in [g.handlers -> CallOf(g)]
    /\ x9 \in 0..g.ids /\ x10 \subseteq 1..g.ids /\ x14 \subseteq 1..g.ids
    /\ x13 \in BOOLEAN /\ x15 \in BOOLEAN

\* The provider knows the line l.
Held(g, ends, l) == l.id \in 1..g.lines /\ ends[l.id] > 0
Busy(call) == call.step # "idle"
\* No two calls are under way, if none met another.
Alone(g, calls, met) == ~met => \A h, k \in g.handlers : Busy(calls[h]) /\ Busy(calls[k]) => h = k

\* What the provider has opened are the first so many lines; the stored line is one of them, and
\* so is the one a call has in hand.
LinesOpened(g, ends) == \E n \in 0..g.lines : \A l \in 1..g.lines : ends[l] > 0 <=> l <= n
LinesHeld(g, stored, ends, calls) ==
    /\ stored = Blank \/ Held(g, ends, stored)
    /\ \A h \in g.handlers :
          /\ calls[h].step \in {"created", "extending", "extended"} => Held(g, ends, calls[h].line)
          /\ calls[h].step \in {"extending", "extended"} => stored # Blank
\* While no answer was lost and no two calls met: a line that is open is stored, or in the hand of
\* the call that will store it.
LineKept(g, open, stored, ends, calls) ==
    /\ \A h \in g.handlers : calls[h].step \in {"asked", "creating", "created"} => open
    /\ \A h \in g.handlers : calls[h].step \in {"creating", "created"} => stored = Blank
    /\ stored = Blank => \A l \in 1..g.lines : ends[l] > 0 =>
          \E h \in g.handlers : calls[h].step = "created" /\ calls[h].line.id = l
    /\ \A k, l \in 1..g.lines : ends[k] > 0 /\ ends[l] > 0 => k = l
ShopInv(g) ==
    /\ LinesOpened(g, x5) /\ LinesHeld(g, x4, x5, x8)
    /\ ~x13 /\ ~x15 => LineKept(g, x3, x4, x5, x8)

Importing(call, i) == call.step \in {"inserted", "imported"} /\ call.id = i
\* The lists: what is gone is nothing, an id is used once, and a list is ours as long as it is
\* managed or about to be, except those that were torn.
ShelfFits(g) ==
    /\ \A i \in 1..g.ids : x6[i].managed \/ x6[i].ours => x6[i].there
    /\ \A i \in 1..g.ids : i > x7 => ~x6[i].there /\ i \notin x14 /\ i \notin x10
    /\ x9 # 0 => x9 \in x14
    /\ \A h \in g.handlers : x8[h].step \in {"inserted", "imported"} => x8[h].id \in 1..x7
OursIsManaged(g) ==
    \A i \in (1..g.ids) \ x14 : x6[i].there =>
        \/ x6[i].managed <=> x6[i].ours
        \/ x6[i].ours /\ \E h \in g.handlers : Importing(x8[h], i)
PickedIsOurs(g) == \A i \in x10 : i \notin x14 /\ x6[i].there => x6[i].ours
OneIsOurs(g) ==
    ~x15 => /\ \A i, j \in (1..g.ids) \ x14 : x6[i].ours /\ x6[j].ours => i = j
            /\ \A h \in g.handlers : x8[h].step = "importing" => \A i \in 1..g.ids : ~x6[i].managed
ImportIsOurs(g) ==
    \A h \in g.handlers : \A i \in (1..g.ids) \ x14 : Importing(x8[h], i) /\ x6[i].there => x6[i].ours
ShelfInv(g) == ShelfFits(g) /\ OursIsManaged(g) /\ PickedIsOurs(g) /\ OneIsOurs(g) /\ ImportIsOurs(g)

PassInv(g) == PassTypes(g) /\ Alone(g, x8, x15) /\ ShopInv(g) /\ ShelfInv(g)

\* The instance counts as the library does.
LEMMA PassCount == ASSUME NEW g, NEW S PROVE Pass(g)!Cardinality(S) = Cardinality(S)
BY Zenon DEF Pass!Cardinality, Cardinality

\* A call goes on, with a step, a line or an id of its own.
Went(g, calls, h, r) ==
    /\ calls \in [g.handlers -> CallOf(g)] /\ r \in CallOf(g) /\ calls[h] = r
    /\ \A k \in g.handlers : k # h => calls[k] = x8[k]

\* One call changes, the others stay.
LEMMA CallGoes ==
    ASSUME NEW g, NEW h \in g.handlers, x8 \in [g.handlers -> CallOf(g)], NEW r \in CallOf(g)
    PROVE  Went(g, [x8 EXCEPT ![h] = r], h, r)
BY DEF Went

\* The invariant holds at the start.
LEMMA PassInit ==
    ASSUME NEW g, PassFits(g), Pass(g)!Init
    PROVE  PassInv(g)
<1>1. /\ x6 \in [1..g.ids -> ListRow] /\ \A i \in 1..g.ids : ~x6[i].managed /\ ~x6[i].ours
      /\ \A i \in 1..g.ids : i > 1 => ~x6[i].there
  <2> DEFINE row(i) == IF i = 1 THEN [Pass(g)!Gone EXCEPT !.there = TRUE] ELSE Pass(g)!Gone
  <2>1. \A i : row(i) \in ListRow /\ ~row(i).managed /\ ~row(i).ours
    BY DEF Pass!Gone, ListRow
  <2>2. \A i \in 1..g.ids : i > 1 => ~row(i).there
    BY DEF Pass!Gone
  <2>3. x6 = [i \in 1..g.ids |-> row(i)]
    BY DEF Pass!Init, Pass!Ids
  <2> HIDE DEF row
  <2> QED BY <2>1, <2>2, <2>3
<1>2. \A h \in g.handlers : x8[h].step = "idle"
  BY DEF Pass!Init, Pass!Idle
<1>3. PassTypes(g)
  <2>1. Pass(g)!NoLine \in LineOf(g)
    BY DEF Pass!NoLine, LineOf, PassFits
  <2>2. Pass(g)!Idle \in CallOf(g)
    BY <2>1 DEF Pass!Idle, CallOf, PassFits
  <2>3. x8 \in [g.handlers -> CallOf(g)]
    BY <2>2 DEF Pass!Init
  <2>4. 1 \in 1..g.ids /\ 0 \in 0..g.ids
    BY DEF PassFits
  <2> QED BY <1>1, <2>1, <2>3, <2>4 DEF Pass!Init, PassTypes
<1>4. Alone(g, x8, x15)
  BY <1>2 DEF Alone, Busy
<1>5. LinesOpened(g, x5)
  <2>1. 0 \in 0..g.lines /\ \A l \in 1..g.lines : x5[l] > 0 <=> l <= 0
    BY DEF Pass!Init, PassFits
  <2> QED BY <2>1 DEF LinesOpened
<1>6. ShopInv(g)
  BY <1>5 DEF Pass!Init, ShopInv, LinesHeld, LineKept, Blank, Pass!NoLine, Pass!Idle
<1>7. ShelfInv(g)
  <2>1. x7 = 1 /\ x9 = 0 /\ x10 = {} /\ x14 = {}
    BY DEF Pass!Init
  <2>2. ShelfFits(g)
    BY <1>1, <1>2, <2>1 DEF ShelfFits
  <2>3. OursIsManaged(g)
    BY <1>1, <1>2, <2>1, Zenon DEF OursIsManaged
  <2>4. PickedIsOurs(g) /\ OneIsOurs(g)
    BY <1>1, <1>2, <2>1, Zenon DEF PickedIsOurs, OneIsOurs
  <2>5. ImportIsOurs(g)
    BY <1>2 DEF ImportIsOurs, Importing
  <2> QED BY <2>2, <2>3, <2>4, <2>5 DEF ShelfInv
<1> QED BY <1>3, <1>4, <1>6, <1>7 DEF PassInv

Quiet(step) == step \notin {"asked", "creating", "created", "extending", "extended"}
NotImporting(step) == step \notin {"importing", "inserted", "imported"}
SameShelf == x6' = x6 /\ x7' = x7 /\ x9' = x9 /\ x10' = x10 /\ x14' = x14
SameShop == x3' = x3 /\ x4' = x4 /\ x5' = x5

\* A call that was under way meets nobody by going on.
LEMMA AloneGoes ==
    ASSUME NEW g, NEW h \in g.handlers, NEW r, Went(g, x8', h, r), Busy(x8[h]), x15' = x15, Alone(g, x8, x15)
    PROVE  Alone(g, x8', x15')
BY DEF Went, Alone, Busy

\* The lists stay as they are.
LEMMA ShelfStays ==
    ASSUME NEW g, ShelfInv(g), SameShelf, x8' = x8, x15' = x15
    PROVE  ShelfInv(g)'
BY DEF ShelfInv, SameShelf, ShelfFits, OursIsManaged, PickedIsOurs, OneIsOurs, ImportIsOurs

\* A call goes on that has no list yet.
LEMMA ShelfGoes ==
    ASSUME NEW g, NEW h \in g.handlers, NEW r, Went(g, x8', h, r), ShelfInv(g), SameShelf, x15 => x15',
           NotImporting(r.step), x8[h].step \notin {"inserted", "imported"}
    PROVE  ShelfInv(g)'
<1>1. \A k \in g.handlers : \A i : Importing(x8[k], i) <=> Importing(x8'[k], i)
  BY DEF Went, Importing, NotImporting
<1>2. ShelfFits(g)'
  BY DEF ShelfInv, ShelfFits, SameShelf, Went, NotImporting
<1>3. OursIsManaged(g)'
  BY <1>1, Zenon DEF ShelfInv, OursIsManaged, SameShelf
<1>4. PickedIsOurs(g)'
  BY DEF ShelfInv, PickedIsOurs, SameShelf
<1>5. OneIsOurs(g)'
  BY DEF ShelfInv, OneIsOurs, SameShelf, Went, NotImporting
<1>6. ImportIsOurs(g)'
  BY <1>1, Zenon DEF ShelfInv, ImportIsOurs, SameShelf
<1> QED BY <1>2, <1>3, <1>4, <1>5, <1>6 DEF ShelfInv

\* The lines stay as they are.
LEMMA ShopStays ==
    ASSUME NEW g, ShopInv(g), SameShop, x8' = x8, x13 => x13', x15' = x15
    PROVE  ShopInv(g)'
BY DEF ShopInv, SameShop

\* A call goes on to a step that needs no line.
LEMMA ShopGoes ==
    ASSUME NEW g, NEW h \in g.handlers, NEW r, Went(g, x8', h, r), ShopInv(g), SameShop, x13 => x13', x15 => x15',
           Quiet(r.step), x8[h].step = "created" => x13'
    PROVE  ShopInv(g)'
<1>1. LinesOpened(g, x5)' /\ LinesHeld(g, x4, x5, x8)'
  BY DEF ShopInv, SameShop, LinesHeld, LinesOpened, Held, Went, Quiet
<1>2. ASSUME ~x13', ~x15' PROVE LineKept(g, x3', x4', x5', x8')
  BY <1>2 DEF ShopInv, SameShop, LineKept, Went, Quiet
<1> QED BY <1>1, <1>2 DEF ShopInv

\* The call of h alone goes on, to a step.
Stepped(g, h, step) == Went(g, x8', h, x8'[h]) /\ x8'[h].step = step
Kept(h) == x8'[h].line = x8[h].line /\ x8'[h].id = x8[h].id /\ x8'[h].until = x8[h].until
StepsOfCall ==
    {"idle", "asked", "creating", "created", "extending", "extended", "lined", "importing", "inserted", "imported"}

\* A call takes its next step and keeps the rest.
LEMMA GoesIs ==
    ASSUME NEW g, NEW h \in g.handlers, x8 \in [g.handlers -> CallOf(g)], NEW step \in StepsOfCall,
           Pass(g)!Goes(h, step)
    PROVE  Stepped(g, h, step) /\ Kept(h)
<1> DEFINE r == [x8[h] EXCEPT !.step = step]
<1>1. x8' = [x8 EXCEPT ![h] = r]
  BY DEF Pass!Goes
<1>2. /\ r \in CallOf(g) /\ r.step = step /\ r.line = x8[h].line /\ r.id = x8[h].id /\ r.until = x8[h].until
  BY DEF CallOf, StepsOfCall
<1> HIDE DEF r
<1>3. Went(g, x8', h, r) /\ x8'[h] = r
  BY <1>1, <1>2, CallGoes DEF Went
<1> QED BY <1>2, <1>3 DEF Stepped, Kept

\* A call is over.
LEMMA StopsIs ==
    ASSUME NEW g, PassFits(g), NEW h \in g.handlers, x8 \in [g.handlers -> CallOf(g)], Pass(g)!Stops(h)
    PROVE  Stepped(g, h, "idle")
<1>1. Pass(g)!Idle \in CallOf(g) /\ Pass(g)!Idle.step = "idle"
  BY DEF Pass!Idle, Pass!NoLine, CallOf, LineOf, PassFits
<1>2. x8' = [x8 EXCEPT ![h] = Pass(g)!Idle]
  BY DEF Pass!Stops
<1>3. Went(g, x8', h, Pass(g)!Idle) /\ x8'[h] = Pass(g)!Idle
  BY <1>1, <1>2, CallGoes DEF Went
<1> QED BY <1>1, <1>3 DEF Stepped

\* A call begins: with the vault open, and alone unless it met another.
LEMMA BeginKeeps ==
    ASSUME NEW g, PassFits(g), PassInv(g), NEW h \in g.handlers, Pass(g)!Begin(h)
    PROVE  PassInv(g)'
<1> DEFINE r == [Pass(g)!Idle EXCEPT !.step = "asked", !.until = x2]
<1>1. r \in CallOf(g) /\ r.step = "asked"
  <2>1. Pass(g)!Idle \in CallOf(g)
    BY DEF Pass!Idle, Pass!NoLine, CallOf, LineOf, PassFits
  <2>2. x2 \in Nat
    BY DEF PassInv, PassTypes
  <2> QED BY <2>1, <2>2 DEF CallOf
<1>2. x8' = [x8 EXCEPT ![h] = r]
  BY DEF Pass!Begin
<1> HIDE DEF r
<1>3. Went(g, x8', h, r)
  BY <1>1, <1>2, CallGoes DEF PassInv, PassTypes
<1>4. /\ x8[h].step = "idle" /\ x3 /\ x15' = (x15 \/ Pass(g)!Running # {}) /\ (x15 => x15')
      /\ SameShelf /\ SameShop /\ x1' = x1 /\ x2' = x2 /\ x13' = x13
  BY DEF Pass!Begin, Pass!MaySeal, Pass!World, Pass!Shop, Pass!Shelf, SameShelf, SameShop
<1>5. PassTypes(g)'
  BY <1>3, <1>4 DEF PassInv, PassTypes, SameShelf, SameShop, Went
<1>6. Alone(g, x8', x15')
  <2>1. ~x15' => \A k \in g.handlers : ~Busy(x8[k])
    BY <1>4 DEF Pass!Running, Busy
  <2> QED BY <2>1, <1>3 DEF Alone, Busy, Went
<1>7. ShopInv(g)'
  <2>1. LinesOpened(g, x5)' /\ LinesHeld(g, x4, x5, x8)'
    BY <1>1, <1>3, <1>4 DEF PassInv, ShopInv, SameShop, LinesHeld, LinesOpened, Held, Went
  <2>2. ASSUME ~x13', ~x15' PROVE LineKept(g, x3', x4', x5', x8')
    BY <1>1, <1>3, <1>4, <2>2 DEF PassInv, ShopInv, SameShop, LineKept, Went
  <2> QED BY <2>1, <2>2 DEF ShopInv
<1>8. ShelfInv(g)'
  BY <1>1, <1>3, <1>4, ShelfGoes DEF PassInv, NotImporting
<1> QED BY <1>5, <1>6, <1>7, <1>8 DEF PassInv

\* The stored line is read; without one, a line will be created.
LEMMA ReadLineKeeps ==
    ASSUME NEW g, PassFits(g), PassInv(g), NEW h \in g.handlers, Pass(g)!ReadLine(h)
    PROVE  PassInv(g)'
<1> DEFINE to == IF x4 = Blank THEN "creating" ELSE IF x4.end < x8[h].until THEN "extending" ELSE "lined"
           r == [x8[h] EXCEPT !.line = x4, !.step = to]
<1>1. /\ x8[h].step = "asked" /\ x8' = [x8 EXCEPT ![h].line = x4, ![h].step = to]
      /\ SameShelf /\ SameShop /\ x1' = x1 /\ x2' = x2 /\ x13' = x13 /\ x15' = x15
  BY DEF Pass!ReadLine, Pass!World, Pass!Shop, Pass!Shelf, Pass!Past, Pass!NoLine, SameShelf, SameShop, Blank
<1>2. to \in {"creating", "extending", "lined"} /\ (to = "creating" <=> x4 = Blank)
  OBVIOUS
<1> HIDE DEF to
<1>3. r \in CallOf(g) /\ r.step = to /\ r.line = x4
  BY <1>2 DEF PassInv, PassTypes, CallOf
<1>4. x8' = [x8 EXCEPT ![h] = r]
  BY <1>1
<1> HIDE DEF r
<1>5. Went(g, x8', h, r)
  BY <1>3, <1>4, CallGoes DEF PassInv, PassTypes
<1>6. PassTypes(g)'
  BY <1>5, <1>1 DEF PassInv, PassTypes, SameShelf, SameShop, Went
<1>7. Alone(g, x8', x15')
  BY <1>5, <1>1, AloneGoes DEF PassInv, Busy
<1>8. ShopInv(g)'
  <2>1. LinesOpened(g, x5)' /\ LinesHeld(g, x4, x5, x8)'
    BY <1>1, <1>2, <1>3, <1>5 DEF PassInv, ShopInv, SameShop, LinesHeld, LinesOpened, Held, Went
  <2>2. ASSUME ~x13', ~x15' PROVE LineKept(g, x3', x4', x5', x8')
    BY <1>1, <1>2, <1>3, <1>5, <2>2 DEF PassInv, ShopInv, SameShop, LineKept, Went
  <2> QED BY <2>1, <2>2 DEF ShopInv
<1>9. ShelfInv(g)'
  BY <1>1, <1>2, <1>3, <1>5, ShelfGoes DEF PassInv, NotImporting
<1> QED BY <1>6, <1>7, <1>8, <1>9 DEF PassInv

Count(g) == Pass(g)!Cardinality(Pass(g)!Opened)

\* The provider opened the lines up to their number.
LEMMA OpenedIs ==
    ASSUME NEW g, PassFits(g), LinesOpened(g, x5)
    PROVE  /\ Count(g) \in 0..g.lines /\ Pass(g)!Opened = 1..Count(g)
           /\ \A l \in 1..g.lines : x5[l] > 0 <=> l <= Count(g)
<1>1. PICK n \in 0..g.lines : \A l \in 1..g.lines : x5[l] > 0 <=> l <= n
  BY DEF LinesOpened
<1>2. n \in Nat /\ g.lines \in Nat /\ n <= g.lines
  BY DEF PassFits
<1>3. Pass(g)!Opened = 1..n
  BY <1>1, <1>2 DEF Pass!Opened
<1>4. Cardinality(1..n) = n
  BY <1>2, FS_Interval
<1>5. Count(g) = n
  BY <1>3, <1>4, PassCount DEF Count
<1> QED BY <1>1, <1>3, <1>5

\* A package is longer than nothing.
LEMMA PackageIs ==
    ASSUME NEW g, PassFits(g), NEW m, NEW n
    PROVE  Pass(g)!Package(m, n) \in Nat \ {0}
BY DEF PassFits, Pass!Package

\* A line is created: the first, when no answer was lost and no two calls met.
LEMMA CreateKeeps ==
    ASSUME NEW g, PassFits(g), PassInv(g), NEW h \in g.handlers, Pass(g)!Create(h)
    PROVE  PassInv(g)'
<1> DEFINE l == Count(g) + 1
           end == x1 + Pass(g)!Package(x1, x8[h].until)
           line == [id |-> l, end |-> end]
           r == [x8[h] EXCEPT !.step = "created", !.line = line]
<1>1. /\ x8[h].step = "creating" /\ Count(g) < g.lines /\ x5' = [x5 EXCEPT ![l] = end]
      /\ \/ x8' = [x8 EXCEPT ![h].step = "created", ![h].line = line] /\ x13' = x13
         \/ Pass(g)!Stops(h) /\ x13' = TRUE
      /\ SameShelf /\ x1' = x1 /\ x2' = x2 /\ x3' = x3 /\ x4' = x4 /\ x15' = x15
  BY DEF Pass!Create, Count, Pass!World, Pass!Shelf, Pass!Past, SameShelf
<1>2. /\ Count(g) \in 0..g.lines /\ \A k \in 1..g.lines : x5[k] > 0 <=> k <= Count(g)
  BY OpenedIs DEF PassInv, ShopInv
<1>3. l \in 1..g.lines /\ end \in Nat /\ end > 0 /\ line \in LineOf(g) /\ line.id = l
  <2>1. x1 \in Nat /\ Pass(g)!Package(x1, x8[h].until) \in Nat \ {0} /\ g.lines \in Nat
    BY PackageIs DEF PassInv, PassTypes, PassFits
  <2>2. l \in 1..g.lines /\ end \in Nat /\ end > 0
    <3> HIDE DEF end
    <3>1. l \in 1..g.lines
      BY <1>1, <1>2, <2>1
    <3> QED BY <3>1, <2>1 DEF end
  <2> HIDE DEF l, end
  <2> QED BY <2>1, <2>2 DEF LineOf
<1> HIDE DEF l, end, line
<1>4. /\ x5' \in [1..g.lines -> Nat] /\ x5'[l] > 0 /\ \A k \in 1..g.lines : k # l => x5'[k] = x5[k]
  BY <1>1, <1>3 DEF PassInv, PassTypes
<1>5. LinesOpened(g, x5')
  <2>1. \A k \in 1..g.lines : x5'[k] > 0 <=> k <= l
    BY <1>2, <1>3, <1>4 DEF l
  <2>2. l \in 0..g.lines
    BY <1>3 DEF PassFits
  <2> QED BY <2>1, <2>2 DEF LinesOpened
<1>6. r \in CallOf(g) /\ r.step = "created" /\ r.line = line
  BY <1>3 DEF PassInv, PassTypes, CallOf
<1>7. CASE x8' = [x8 EXCEPT ![h].step = "created", ![h].line = line] /\ x13' = x13
  <2>1. x8' = [x8 EXCEPT ![h] = r]
    BY <1>7
  <2> HIDE DEF r
  <2>2. Went(g, x8', h, r)
    BY <1>6, <2>1, CallGoes DEF PassInv, PassTypes
  <2>3. PassTypes(g)'
    BY <1>1, <1>4, <1>7, <2>2 DEF PassInv, PassTypes, SameShelf, Went
  <2>4. Alone(g, x8', x15')
    BY <2>2, <1>1, AloneGoes DEF PassInv, Busy
  <2>5. LinesHeld(g, x4', x5', x8')
    BY <1>1, <1>3, <1>4, <1>6, <2>2 DEF PassInv, ShopInv, LinesHeld, Held, Went
  <2>6. ASSUME ~x13', ~x15' PROVE LineKept(g, x3', x4', x5', x8')
    <3>1. LineKept(g, x3, x4, x5, x8) /\ Alone(g, x8, x15) /\ ~x15
      BY <1>1, <1>7, <2>6 DEF PassInv, ShopInv
    <3>2. x4 = Blank /\ x3
      BY <1>1, <3>1 DEF LineKept
    <3>3. \A k \in 1..g.lines : ~(x5[k] > 0)
      <4>1. SUFFICES ASSUME NEW k \in 1..g.lines, x5[k] > 0 PROVE FALSE
        OBVIOUS
      <4>2. PICK j \in g.handlers : x8[j].step = "created"
        BY <3>1, <3>2, <4>1 DEF LineKept
      <4>3. j = h
        BY <1>1, <3>1, <4>2 DEF Alone, Busy
      <4> QED BY <1>1, <4>2, <4>3
    <3>4. \A k \in 1..g.lines : x5'[k] > 0 => k = l
      BY <1>4, <3>3
    <3>5. x8'[h].step = "created" /\ x8'[h].line.id = l
      BY <1>3, <1>6, <2>2 DEF Went
    <3>6. \A k \in g.handlers : x8'[k].step \in {"creating", "created"} => x4' = Blank
      BY <1>1, <3>2
    <3>7. \A k \in g.handlers : x8'[k].step \in {"asked", "creating", "created"} => x3'
      BY <1>1, <3>2
    <3> QED BY <3>4, <3>5, <3>6, <3>7 DEF LineKept
  <2>7. ShelfInv(g)'
    BY <1>1, <1>6, <2>2, ShelfGoes DEF PassInv, NotImporting
  <2> QED BY <1>5, <2>3, <2>4, <2>5, <2>6, <2>7 DEF PassInv, ShopInv
<1>8. CASE Pass(g)!Stops(h) /\ x13' = TRUE
  <2>1. Stepped(g, h, "idle")
    BY <1>8, StopsIs DEF PassInv, PassTypes
  <2>2. Went(g, x8', h, x8'[h]) /\ x8'[h].step = "idle"
    BY <2>1 DEF Stepped
  <2>3. PassTypes(g)'
    BY <1>1, <1>4, <1>8, <2>2 DEF PassInv, PassTypes, SameShelf, Went
  <2>4. Alone(g, x8', x15')
    BY <2>2, <1>1, AloneGoes DEF PassInv, Busy
  <2>5. LinesHeld(g, x4', x5', x8')
    BY <1>1, <1>3, <1>4, <2>2 DEF PassInv, ShopInv, LinesHeld, Held, Went
  <2>6. ShelfInv(g)'
    BY <1>1, <2>2, ShelfGoes DEF PassInv, NotImporting
  <2> QED BY <1>5, <1>8, <2>3, <2>4, <2>5, <2>6 DEF PassInv, ShopInv
<1> QED BY <1>1, <1>7, <1>8

\* The line in hand is stored.
LEMMA SaveLineKeeps ==
    ASSUME NEW g, PassFits(g), PassInv(g), NEW h \in g.handlers, Pass(g)!SaveLine(h)
    PROVE  PassInv(g)'
<1>1. /\ x8[h].step = "created"
      /\ IF x3 THEN x4' = x8[h].line /\ Pass(g)!Goes(h, "lined") ELSE Pass(g)!Stops(h) /\ x4' = x4
      /\ SameShelf /\ x1' = x1 /\ x2' = x2 /\ x3' = x3 /\ x5' = x5 /\ x13' = x13 /\ x15' = x15
  BY DEF Pass!SaveLine, Pass!World, Pass!Shelf, Pass!Past, SameShelf
<1>2. /\ Went(g, x8', h, x8'[h]) /\ x8'[h].step \in {"lined", "idle"}
  BY <1>1, GoesIs, StopsIs DEF PassInv, PassTypes, Stepped, StepsOfCall
<1>3. Held(g, x5, x8[h].line) /\ x8[h].line # Blank
  <2>1. Held(g, x5, x8[h].line)
    BY <1>1 DEF PassInv, ShopInv, LinesHeld
  <2> QED BY <2>1 DEF Held, Blank
<1>4. PassTypes(g)'
  <2>1. x8[h].line \in LineOf(g)
    BY DEF PassInv, PassTypes, CallOf
  <2> QED BY <1>1, <1>2, <2>1 DEF PassInv, PassTypes, SameShelf, Went
<1>5. Alone(g, x8', x15')
  BY <1>1, <1>2, AloneGoes DEF PassInv, Busy
<1>6. LinesOpened(g, x5)' /\ LinesHeld(g, x4, x5, x8)'
  BY <1>1, <1>2, <1>3 DEF PassInv, ShopInv, LinesHeld, LinesOpened, Held, Went
<1>7. ASSUME ~x13', ~x15' PROVE LineKept(g, x3', x4', x5', x8')
  <2>1. LineKept(g, x3, x4, x5, x8) /\ Alone(g, x8, x15) /\ ~x15
    BY <1>1, <1>7 DEF PassInv, ShopInv
  <2>2. x3 /\ x4' # Blank
    BY <1>1, <1>3, <2>1 DEF LineKept
  <2>3. \A k \in g.handlers : x8'[k].step \notin {"asked", "creating", "created"}
    BY <1>1, <1>2, <2>1 DEF Alone, Busy, Went
  <2> QED BY <1>1, <2>1, <2>2, <2>3 DEF LineKept
<1>8. ShelfInv(g)'
  BY <1>1, <1>2, ShelfGoes DEF PassInv, NotImporting
<1> QED BY <1>4, <1>5, <1>6, <1>7, <1>8 DEF PassInv, ShopInv

\* The stored line is extended; no line is opened by it.
LEMMA ExtendKeeps ==
    ASSUME NEW g, PassFits(g), PassInv(g), NEW h \in g.handlers, Pass(g)!Extend(h)
    PROVE  PassInv(g)'
<1> DEFINE l == x8[h].line.id
           end == Pass(g)!Mx(x5[l], x1) + Pass(g)!Package(x8[h].line.end, x8[h].until)
<1>1. /\ x8[h].step = "extending" /\ x5' = [x5 EXCEPT ![l] = end]
      /\ Pass(g)!Goes(h, "extended") \/ Pass(g)!Stops(h)
      /\ SameShelf /\ x1' = x1 /\ x2' = x2 /\ x3' = x3 /\ x4' = x4 /\ x13' = x13 /\ x15' = x15
  BY DEF Pass!Extend, Pass!World, Pass!Shelf, Pass!Past, SameShelf
<1>2. /\ Went(g, x8', h, x8'[h])
      /\ x8'[h].step = "idle" \/ (x8'[h].step = "extended" /\ x8'[h].line = x8[h].line)
  <2>1. x8 \in [g.handlers -> CallOf(g)]
    BY DEF PassInv, PassTypes
  <2>2. CASE Pass(g)!Goes(h, "extended")
    BY <2>1, <2>2, GoesIs DEF Stepped, StepsOfCall, Kept
  <2>3. CASE Pass(g)!Stops(h) /\ x4' = x4
    BY <2>1, <2>3, StopsIs DEF Stepped
  <2> QED BY <1>1, <2>2, <2>3
<1>3. Held(g, x5, x8[h].line) /\ x4 # Blank
  BY <1>1 DEF PassInv, ShopInv, LinesHeld
<1>4. /\ x5' \in [1..g.lines -> Nat] /\ \A k \in 1..g.lines : x5'[k] > 0 <=> x5[k] > 0
  <2>1. Pass(g)!Package(x8[h].line.end, x8[h].until) \in Nat \ {0}
    BY PackageIs
  <2>2. l \in 1..g.lines /\ x5[l] \in Nat /\ x5[l] > 0 /\ x1 \in Nat
    BY <1>3 DEF Held, PassInv, PassTypes
  <2>3. Pass(g)!Mx(x5[l], x1) \in Nat
    BY <2>2 DEF Pass!Mx
  <2>4. end \in Nat /\ end > 0
    BY <2>1, <2>3
  <2> HIDE DEF end, l
  <2> QED BY <1>1, <2>2, <2>4 DEF PassInv, PassTypes
<1> HIDE DEF l, end
<1>5. PassTypes(g)'
  BY <1>1, <1>2, <1>4 DEF PassInv, PassTypes, SameShelf, Went
<1>6. Alone(g, x8', x15')
  BY <1>1, <1>2, AloneGoes DEF PassInv, Busy
<1>7. LinesOpened(g, x5)' /\ LinesHeld(g, x4, x5, x8)'
  BY <1>1, <1>2, <1>3, <1>4 DEF PassInv, ShopInv, LinesHeld, LinesOpened, Held, Went
<1>8. ASSUME ~x13', ~x15' PROVE LineKept(g, x3', x4', x5', x8')
  BY <1>1, <1>2, <1>3, <1>4, <1>8 DEF PassInv, ShopInv, LineKept, Went
<1>9. ShelfInv(g)'
  BY <1>1, <1>2, ShelfGoes DEF PassInv, NotImporting
<1> QED BY <1>5, <1>6, <1>7, <1>8, <1>9 DEF PassInv, ShopInv

\* The new end is read back, or the old one stays.
LEMMA TouchKeeps ==
    ASSUME NEW g, PassFits(g), PassInv(g), NEW h \in g.handlers, Pass(g)!Touch(h)
    PROVE  PassInv(g)'
<1>1. /\ x8[h].step = "extended" /\ Pass(g)!Goes(h, "lined")
      /\ x4' = [x4 EXCEPT !.end = x5[x8[h].line.id]] \/ x4' = x4
      /\ SameShelf /\ x1' = x1 /\ x2' = x2 /\ x3' = x3 /\ x5' = x5 /\ x13' = x13 /\ x15' = x15
  BY DEF Pass!Touch, Pass!World, Pass!Shelf, Pass!Past, SameShelf
<1>2. Went(g, x8', h, x8'[h]) /\ x8'[h].step = "lined"
  BY <1>1, GoesIs DEF PassInv, PassTypes, Stepped, StepsOfCall
<1>3. Held(g, x5, x8[h].line) /\ x4 # Blank /\ Held(g, x5, x4)
  BY <1>1 DEF PassInv, ShopInv, LinesHeld
<1>4. x4' \in LineOf(g) /\ x4' # Blank /\ Held(g, x5, x4')
  <2>1. x5[x8[h].line.id] \in Nat /\ x4 \in LineOf(g) /\ x4.id # 0
    BY <1>3 DEF Held, PassInv, PassTypes
  <2>2. x4' \in LineOf(g) /\ x4'.id = x4.id
    BY <1>1, <2>1 DEF LineOf
  <2> QED BY <1>3, <2>1, <2>2 DEF Held, Blank
<1>5. PassTypes(g)'
  BY <1>1, <1>2, <1>4 DEF PassInv, PassTypes, SameShelf, Went
<1>6. Alone(g, x8', x15')
  BY <1>1, <1>2, AloneGoes DEF PassInv, Busy
<1>7. LinesOpened(g, x5)' /\ LinesHeld(g, x4, x5, x8)'
  BY <1>1, <1>2, <1>4 DEF PassInv, ShopInv, LinesHeld, LinesOpened, Held, Went
<1>8. ASSUME ~x13', ~x15' PROVE LineKept(g, x3', x4', x5', x8')
  BY <1>1, <1>2, <1>3, <1>4, <1>8 DEF PassInv, ShopInv, LineKept, Went
<1>9. ShelfInv(g)'
  BY <1>1, <1>2, ShelfGoes DEF PassInv, NotImporting
<1> QED BY <1>5, <1>6, <1>7, <1>8, <1>9 DEF PassInv, ShopInv

\* A list that is gone is nobody's.
RowGone(row) == ~row.there /\ ~row.ours /\ ~row.managed
\* No list is added and none is marked: each is as it was or gone, but for those that are torn.
Shrinks(g) ==
    /\ \A i \in (1..g.ids) \ x14' : x6'[i] = x6[i] \/ RowGone(x6'[i])
    /\ \A i \in 1..g.ids : /\ x6'[i].managed \/ x6'[i].ours => x6'[i].there
                           /\ x6'[i].there => x6[i].there
                           /\ x6'[i].managed => x6[i].managed
    /\ x7' = x7 /\ x10' \subseteq x10 /\ x14 \subseteq x14' /\ x14' \subseteq 1..x7
    /\ x9' # 0 => x9' \in x14'
\* No call takes up a list of another, and none that is left is dropped.
CallsGoOn(g) ==
    /\ \A h \in g.handlers :
          /\ x8'[h].step = "importing" => x8[h].step = "importing" \/ \A i \in 1..g.ids : ~x6[i].managed
          /\ x8'[h].step \in {"inserted", "imported"} =>
                x8[h].step \in {"inserted", "imported"} /\ x8'[h].id = x8[h].id
    /\ \A h \in g.handlers, i \in (1..g.ids) \ x14' :
          Importing(x8[h], i) => Importing(x8'[h], i) \/ ~x6'[i].there

\* No list is added or marked: what holds of the lists still holds.
LEMMA ShelfShrinks ==
    ASSUME NEW g, ShelfInv(g), Shrinks(g), CallsGoOn(g), x15 => x15', PassTypes(g)
    PROVE  ShelfInv(g)'
<1>1. ShelfFits(g)'
  <2>1. x7 \in Int
    BY DEF PassTypes
  <2> QED BY <2>1 DEF ShelfInv, ShelfFits, Shrinks, CallsGoOn
<1>2. OursIsManaged(g)'
  <2> SUFFICES ASSUME NEW i \in (1..g.ids) \ x14', x6'[i].there
               PROVE  \/ x6'[i].managed <=> x6'[i].ours
                      \/ x6'[i].ours /\ \E h \in g.handlers : Importing(x8'[h], i)
    BY DEF OursIsManaged
  <2>1. x6'[i] = x6[i] /\ i \in (1..g.ids) \ x14
    BY DEF Shrinks, RowGone
  <2>2. CASE x6[i].managed <=> x6[i].ours
    BY <2>1, <2>2
  <2>3. CASE x6[i].ours /\ \E h \in g.handlers : Importing(x8[h], i)
    BY <2>1, <2>3 DEF CallsGoOn
  <2> QED BY <2>1, <2>2, <2>3 DEF ShelfInv, OursIsManaged
<1>3. PickedIsOurs(g)'
  <2> SUFFICES ASSUME NEW i \in x10', i \notin x14', x6'[i].there PROVE x6'[i].ours
    BY DEF PickedIsOurs
  <2>1. i \in 1..g.ids
    BY DEF Shrinks, PassTypes
  <2> QED BY <2>1 DEF Shrinks, RowGone, PickedIsOurs, ShelfInv
<1>4. OneIsOurs(g)'
  <2> SUFFICES ASSUME ~x15'
               PROVE  /\ \A i, j \in (1..g.ids) \ x14' : x6'[i].ours /\ x6'[j].ours => i = j
                      /\ \A h \in g.handlers : x8'[h].step = "importing" => \A i \in 1..g.ids : ~x6'[i].managed
    BY DEF OneIsOurs
  <2>1. \A i \in (1..g.ids) \ x14' : i \in (1..g.ids) \ x14 /\ (x6'[i].ours => x6[i].ours)
    BY DEF Shrinks, RowGone
  <2> QED BY <2>1 DEF Shrinks, CallsGoOn, OneIsOurs, ShelfInv
<1>5. ImportIsOurs(g)'
  <2> SUFFICES ASSUME NEW h \in g.handlers, NEW i \in (1..g.ids) \ x14', Importing(x8'[h], i), x6'[i].there
               PROVE  x6'[i].ours
    BY DEF ImportIsOurs
  <2>1. Importing(x8[h], i) /\ i \in (1..g.ids) \ x14 /\ x6'[i] = x6[i]
    BY DEF Shrinks, RowGone, CallsGoOn, Importing
  <2> QED BY <2>1 DEF ImportIsOurs, ShelfInv
<1> QED BY <1>1, <1>2, <1>3, <1>4, <1>5 DEF ShelfInv

\* One list is taken away.
LEMMA RowGoes ==
    ASSUME NEW g, PassTypes(g), NEW i \in 1..g.ids, x6' = [x6 EXCEPT ![i] = Pass(g)!Gone]
    PROVE  /\ x6' \in [1..g.ids -> ListRow] /\ RowGone(x6'[i])
           /\ \A j \in 1..g.ids : j # i => x6'[j] = x6[j]
<1>1. Pass(g)!Gone \in ListRow /\ RowGone(Pass(g)!Gone)
  BY DEF Pass!Gone, ListRow, RowGone
<1> QED BY <1>1 DEF PassTypes

\* A list is imported only while none is managed.
LEMMA FindListKeeps ==
    ASSUME NEW g, PassFits(g), PassInv(g), NEW h \in g.handlers, Pass(g)!FindList(h)
    PROVE  PassInv(g)'
<1>1. /\ x8[h].step = "lined"
      /\ \/ Pass(g)!Stops(h) /\ x6' = x6
         \/ Pass(g)!Goes(h, "importing") /\ \A i \in 1..g.ids : ~x6[i].managed
      /\ SameShelf /\ SameShop /\ x1' = x1 /\ x2' = x2 /\ x13' = x13 /\ x15' = x15 /\ x6' = x6
  BY DEF Pass!FindList, Pass!World, Pass!Shop, Pass!Shelf, Pass!Past, SameShelf, SameShop, Pass!Managed, Pass!Ids
<1>2. /\ Went(g, x8', h, x8'[h])
      /\ x8'[h].step = "idle" \/ (x8'[h].step = "importing" /\ \A i \in 1..g.ids : ~x6[i].managed)
  <2>1. x8 \in [g.handlers -> CallOf(g)]
    BY DEF PassInv, PassTypes
  <2>2. CASE Pass(g)!Stops(h) /\ x6' = x6
    BY <2>1, <2>2, StopsIs DEF Stepped
  <2>3. CASE Pass(g)!Goes(h, "importing") /\ \A i \in 1..g.ids : ~x6[i].managed
    BY <2>1, <2>3, GoesIs DEF Stepped, StepsOfCall, Kept
  <2> QED BY <1>1, <2>2, <2>3
<1>3. PassTypes(g)'
  BY <1>1, <1>2 DEF PassInv, PassTypes, SameShelf, SameShop, Went
<1>4. Alone(g, x8', x15')
  BY <1>1, <1>2, AloneGoes DEF PassInv, Busy
<1>5. ShopInv(g)'
  BY <1>1, <1>2, ShopGoes DEF PassInv, Quiet
<1>6. ShelfInv(g)'
  <2>1. Shrinks(g)
    BY <1>1 DEF Shrinks, SameShelf, PassInv, PassTypes, ShelfInv, ShelfFits
  <2>2. CallsGoOn(g)
    BY <1>1, <1>2 DEF CallsGoOn, Went, Importing
  <2> QED BY <1>1, <2>1, <2>2, ShelfShrinks DEF PassInv, PassTypes
<1> QED BY <1>3, <1>4, <1>5, <1>6 DEF PassInv

\* The list is filled, or taken back.
LEMMA FilledKeeps ==
    ASSUME NEW g, PassFits(g), PassInv(g), NEW h \in g.handlers, Pass(g)!Filled(h)
    PROVE  PassInv(g)'
<1>1. /\ x8[h].step = "inserted"
      /\ \/ Pass(g)!Goes(h, "imported") /\ x6' = x6
         \/ Pass(g)!Stops(h) /\ x6' = [x6 EXCEPT ![x8[h].id] = Pass(g)!Gone]
      /\ SameShop /\ x1' = x1 /\ x2' = x2 /\ x7' = x7 /\ x9' = x9 /\ x10' = x10 /\ x13' = x13 /\ x14' = x14
      /\ x15' = x15
  BY DEF Pass!Filled, Pass!World, Pass!Shop, Pass!Past, SameShop
<1>2. x8[h].id \in 1..g.ids /\ x7 \in 1..g.ids
  <2>1. x8[h].id \in 1..x7 /\ x7 \in 1..g.ids
    BY <1>1 DEF PassInv, PassTypes, ShelfInv, ShelfFits
  <2> QED BY <2>1 DEF PassFits
<1>3. /\ Went(g, x8', h, x8'[h])
      /\ \/ x8'[h].step = "imported" /\ x8'[h].id = x8[h].id /\ x6' = x6
         \/ /\ x8'[h].step = "idle" /\ x6' \in [1..g.ids -> ListRow] /\ RowGone(x6'[x8[h].id])
            /\ \A j \in 1..g.ids : j # x8[h].id => x6'[j] = x6[j]
  <2>1. x8 \in [g.handlers -> CallOf(g)] /\ PassTypes(g)
    BY DEF PassInv, PassTypes
  <2>2. CASE Pass(g)!Goes(h, "imported") /\ x6' = x6
    BY <2>1, <2>2, GoesIs DEF Stepped, StepsOfCall, Kept
  <2>3. CASE Pass(g)!Stops(h) /\ x6' = [x6 EXCEPT ![x8[h].id] = Pass(g)!Gone]
    BY <1>2, <2>1, <2>3, StopsIs, RowGoes DEF Stepped
  <2> QED BY <1>1, <2>2, <2>3
<1>4. PassTypes(g)'
  BY <1>1, <1>3 DEF PassInv, PassTypes, SameShop, Went
<1>5. Alone(g, x8', x15')
  BY <1>1, <1>3, AloneGoes DEF PassInv, Busy
<1>6. ShopInv(g)'
  BY <1>1, <1>3, ShopGoes DEF PassInv, Quiet
<1>7. ShelfInv(g)'
  <2>1. /\ \A i \in 1..g.ids : x6'[i] = x6[i] \/ RowGone(x6'[i])
        /\ \A i \in 1..g.ids : x6[i].managed \/ x6[i].ours => x6[i].there
    BY <1>3 DEF PassInv, ShelfInv, ShelfFits
  <2>2. x14' \subseteq 1..x7 /\ (x9' # 0 => x9' \in x14')
    BY <1>1, <1>2 DEF PassInv, PassTypes, ShelfInv, ShelfFits
  <2>3. Shrinks(g)
    BY <1>1, <2>1, <2>2 DEF Shrinks, RowGone
  <2>4. CallsGoOn(g)
    BY <1>1, <1>3 DEF CallsGoOn, Went, Importing, RowGone
  <2> QED BY <1>1, <2>3, <2>4, ShelfShrinks DEF PassInv, PassTypes
<1> QED BY <1>4, <1>5, <1>6, <1>7 DEF PassInv

\* A call breaks off, and its list is torn.
LEMMA BreaksKeeps ==
    ASSUME NEW g, PassFits(g), PassInv(g), NEW h \in g.handlers, Pass(g)!Breaks(h)
    PROVE  PassInv(g)'
<1>1. /\ x8[h].step # "idle" /\ Pass(g)!Stops(h) /\ x13' = (x13 \/ x8[h].step = "created")
      /\ \/ x8[h].step \in {"inserted", "imported"} /\ x14' = x14 \cup {x8[h].id}
         \/ x8[h].step \notin {"inserted", "imported"} /\ x14' = x14
      /\ SameShop /\ x1' = x1 /\ x2' = x2 /\ x6' = x6 /\ x7' = x7 /\ x9' = x9 /\ x10' = x10 /\ x15' = x15
  BY DEF Pass!Breaks, Pass!World, Pass!Shop, Pass!Shelf, SameShop
<1>2. Went(g, x8', h, x8'[h]) /\ x8'[h].step = "idle"
  BY <1>1, StopsIs DEF PassInv, PassTypes, Stepped
<1>3. /\ x14 \subseteq x14' /\ x14' \subseteq 1..x7 /\ x14' \subseteq 1..g.ids
      /\ x8[h].step \in {"inserted", "imported"} => x8[h].id \in x14'
  <2>1. x14 \subseteq 1..x7
    BY DEF PassInv, PassTypes, ShelfInv, ShelfFits
  <2>2. x8[h].step \in {"inserted", "imported"} => x8[h].id \in 1..x7
    BY DEF PassInv, ShelfInv, ShelfFits
  <2>3. 1..x7 \subseteq 1..g.ids
    BY DEF PassInv, PassTypes, PassFits
  <2> QED BY <1>1, <2>1, <2>2, <2>3
<1>4. PassTypes(g)'
  BY <1>1, <1>2, <1>3 DEF PassInv, PassTypes, SameShop, Went
<1>5. Alone(g, x8', x15')
  BY <1>1, <1>2, AloneGoes DEF PassInv, Busy
<1>6. ShopInv(g)'
  BY <1>1, <1>2, ShopGoes DEF PassInv, PassTypes, Quiet
<1>7. ShelfInv(g)'
  <2>1. Shrinks(g)
    BY <1>1, <1>3 DEF Shrinks, PassInv, ShelfInv, ShelfFits
  <2>2. CallsGoOn(g)
    BY <1>1, <1>2, <1>3 DEF CallsGoOn, Went, Importing
  <2> QED BY <1>1, <2>1, <2>2, ShelfShrinks DEF PassInv, PassTypes
<1> QED BY <1>4, <1>5, <1>6, <1>7 DEF PassInv

\* The list is inserted: the only one of ours, unless two calls met.
LEMMA InsertKeeps ==
    ASSUME NEW g, PassFits(g), PassInv(g), NEW h \in g.handlers, Pass(g)!Insert(h)
    PROVE  PassInv(g)'
<1> DEFINE new == [there |-> TRUE, ours |-> TRUE, managed |-> FALSE]
           r == [x8[h] EXCEPT !.step = "inserted", !.id = x7 + 1]
<1>1. /\ x8[h].step = "importing" /\ x7 < g.ids /\ x7' = x7 + 1 /\ x6' = [x6 EXCEPT ![x7 + 1] = new]
      /\ x8' = [x8 EXCEPT ![h].step = "inserted", ![h].id = x7 + 1]
      /\ SameShop /\ x1' = x1 /\ x2' = x2 /\ x9' = x9 /\ x10' = x10 /\ x13' = x13 /\ x14' = x14 /\ x15' = x15
  BY DEF Pass!Insert, Pass!World, Pass!Shop, Pass!Past, SameShop
<1>2. x7 \in Nat /\ x7 + 1 \in 1..g.ids /\ x7 + 1 \in Nat
  BY <1>1 DEF PassInv, PassTypes, PassFits
<1>3. r \in CallOf(g) /\ r.step = "inserted" /\ r.id = x7 + 1
  <2>1. x7 + 1 \in 0..g.ids
    BY <1>2
  <2> QED BY <2>1 DEF PassInv, PassTypes, CallOf
<1>4. Went(g, x8', h, r)
  <2>1. x8' = [x8 EXCEPT ![h] = r]
    BY <1>1
  <2> HIDE DEF r
  <2> QED BY <1>3, <2>1, CallGoes DEF PassInv, PassTypes
<1>5. /\ x6' \in [1..g.ids -> ListRow] /\ x6'[x7 + 1].there /\ x6'[x7 + 1].ours /\ ~x6'[x7 + 1].managed
      /\ \A i \in 1..g.ids : i # x7 + 1 => x6'[i] = x6[i]
  <2>1. new \in ListRow /\ new.there /\ new.ours /\ ~new.managed
    BY DEF ListRow
  <2> HIDE DEF new
  <2> QED BY <1>1, <1>2, <2>1 DEF PassInv, PassTypes
<1> HIDE DEF new, r
<1>6. PassTypes(g)'
  BY <1>1, <1>2, <1>4, <1>5 DEF PassInv, PassTypes, SameShop, Went
<1>7. Alone(g, x8', x15')
  BY <1>1, <1>4, AloneGoes DEF PassInv, Busy
<1>8. ShopInv(g)'
  BY <1>1, <1>3, <1>4, ShopGoes DEF PassInv, Quiet
<1>9. x7 + 1 \notin x14 /\ x7 + 1 \notin x10 /\ ~x6[x7 + 1].there
  BY <1>2 DEF PassInv, ShelfInv, ShelfFits
<1>10. ShelfFits(g)'
  <2>1. \A i \in 1..g.ids : x6'[i].managed \/ x6'[i].ours => x6'[i].there
    BY <1>5 DEF PassInv, ShelfInv, ShelfFits
  <2>2. \A i \in 1..g.ids : i > x7' => ~x6'[i].there /\ i \notin x14' /\ i \notin x10'
    <3> SUFFICES ASSUME NEW i \in 1..g.ids, i > x7 + 1 PROVE ~x6'[i].there /\ i \notin x14 /\ i \notin x10
      BY <1>1
    <3>1. i > x7 /\ i # x7 + 1
      BY <1>2
    <3> QED BY <1>5, <3>1 DEF PassInv, ShelfInv, ShelfFits
  <2>3. \A k \in g.handlers : x8'[k].step \in {"inserted", "imported"} => x8'[k].id \in 1..(x7 + 1)
    <3>1. \A i \in 1..x7 : i \in 1..(x7 + 1)
      BY <1>2
    <3>2. x7 + 1 \in 1..(x7 + 1)
      BY <1>2
    <3> QED BY <1>3, <1>4, <3>1, <3>2 DEF PassInv, ShelfInv, ShelfFits, Went
  <2> QED BY <1>1, <2>1, <2>2, <2>3 DEF PassInv, ShelfInv, ShelfFits
<1>11. \A k \in g.handlers, i \in 1..g.ids : Importing(x8[k], i) => Importing(x8'[k], i)
  BY <1>1, <1>4 DEF Importing, Went
<1>12. Importing(x8'[h], x7 + 1)
  BY <1>3, <1>4 DEF Importing, Went
<1>13. OursIsManaged(g)'
  <2> SUFFICES ASSUME NEW i \in (1..g.ids) \ x14, x6'[i].there
               PROVE  \/ x6'[i].managed <=> x6'[i].ours
                      \/ x6'[i].ours /\ \E k \in g.handlers : Importing(x8'[k], i)
    BY <1>1 DEF OursIsManaged
  <2>1. CASE i = x7 + 1
    BY <1>5, <1>12, <2>1
  <2>2. CASE i # x7 + 1
    BY <1>5, <1>11, <2>2 DEF PassInv, ShelfInv, OursIsManaged
  <2> QED BY <2>1, <2>2
<1>14. PickedIsOurs(g)'
  BY <1>1, <1>5, <1>9 DEF PassInv, PassTypes, ShelfInv, PickedIsOurs
<1>15. ASSUME ~x15
       PROVE  /\ \A i \in (1..g.ids) \ x14 : ~x6[i].ours
              /\ \A k \in g.handlers : x8'[k].step # "importing"
  <2>1. \A i \in 1..g.ids : ~x6[i].managed
    BY <1>1, <1>15 DEF PassInv, ShelfInv, OneIsOurs
  <2>2. \A k \in g.handlers : k # h => x8[k].step = "idle"
    BY <1>1, <1>15 DEF PassInv, Alone, Busy
  <2>3. \A k \in g.handlers, i \in 1..g.ids : ~Importing(x8[k], i)
    BY <1>1, <2>2 DEF Importing
  <2>4. \A i \in (1..g.ids) \ x14 : ~x6[i].ours
    BY <2>1, <2>3 DEF PassInv, ShelfInv, ShelfFits, OursIsManaged
  <2> QED BY <1>3, <1>4, <2>2, <2>4 DEF Went
<1>16. OneIsOurs(g)'
  <2> SUFFICES ASSUME ~x15
               PROVE  /\ \A i, j \in (1..g.ids) \ x14 : x6'[i].ours /\ x6'[j].ours => i = j
                      /\ \A k \in g.handlers : x8'[k].step = "importing" => \A i \in 1..g.ids : ~x6'[i].managed
    BY <1>1 DEF OneIsOurs
  <2>1. \A i \in (1..g.ids) \ x14 : x6'[i].ours => i = x7 + 1
    BY <1>5, <1>15
  <2> QED BY <1>15, <2>1
<1>17. ImportIsOurs(g)'
  <2> SUFFICES ASSUME NEW k \in g.handlers, NEW i \in (1..g.ids) \ x14, Importing(x8'[k], i), x6'[i].there
               PROVE  x6'[i].ours
    BY <1>1 DEF ImportIsOurs
  <2>1. CASE i = x7 + 1
    BY <1>5, <2>1
  <2>2. CASE i # x7 + 1
    <3>1. Importing(x8[k], i) /\ x6'[i] = x6[i]
      BY <1>3, <1>4, <1>5, <2>2 DEF Importing, Went
    <3> QED BY <3>1 DEF PassInv, ShelfInv, ImportIsOurs
  <2> QED BY <2>1, <2>2
<1> QED BY <1>6, <1>7, <1>8, <1>10, <1>13, <1>14, <1>16, <1>17 DEF PassInv, ShelfInv

\* The imported list, and no other, is marked.
LEMMA MarkKeeps ==
    ASSUME NEW g, PassFits(g), PassInv(g), NEW h \in g.handlers, Pass(g)!Mark(h)
    PROVE  PassInv(g)'
<1> DEFINE id == x8[h].id
           marked == [x6[id] EXCEPT !.managed = x6[id].there]
<1>1. /\ x8[h].step = "imported" /\ x6' = [x6 EXCEPT ![id].managed = x6[id].there] /\ Pass(g)!Stops(h)
      /\ SameShop /\ x1' = x1 /\ x2' = x2 /\ x7' = x7 /\ x9' = x9 /\ x10' = x10 /\ x13' = x13 /\ x14' = x14
      /\ x15' = x15
  BY DEF Pass!Mark, Pass!Marked, Pass!World, Pass!Shop, Pass!Past, SameShop
<1>2. id \in 1..g.ids
  <2>1. id \in 1..x7 /\ x7 \in 1..g.ids
    BY <1>1 DEF PassInv, PassTypes, ShelfInv, ShelfFits
  <2> QED BY <2>1 DEF PassFits
<1>3. Went(g, x8', h, x8'[h]) /\ x8'[h].step = "idle"
  BY <1>1, StopsIs DEF PassInv, PassTypes, Stepped
<1>4. /\ x6' \in [1..g.ids -> ListRow] /\ \A i \in 1..g.ids : i # id => x6'[i] = x6[i]
      /\ (x6'[id].there <=> x6[id].there) /\ (x6'[id].ours <=> x6[id].ours) /\ (x6'[id].managed <=> x6[id].there)
  <2>1. x6[id] \in ListRow
    BY <1>2 DEF PassInv, PassTypes
  <2>2. /\ marked \in ListRow /\ (marked.there <=> x6[id].there) /\ (marked.ours <=> x6[id].ours)
        /\ (marked.managed <=> x6[id].there)
    BY <2>1 DEF ListRow
  <2>3. x6' = [x6 EXCEPT ![id] = marked]
    BY <1>1
  <2> HIDE DEF marked, id
  <2> QED BY <1>2, <2>2, <2>3 DEF PassInv, PassTypes
<1>5. Importing(x8[h], id)
  BY <1>1 DEF Importing
<1>6. \A k \in g.handlers, i \in 1..g.ids : (Importing(x8'[k], i) => Importing(x8[k], i))
  BY <1>3 DEF Importing, Went
<1>7. \A k \in g.handlers, i \in 1..g.ids : Importing(x8[k], i) => Importing(x8'[k], i) \/ i = id
  BY <1>3 DEF Importing, Went
<1> HIDE DEF id, marked
<1>8. PassTypes(g)'
  BY <1>1, <1>3, <1>4 DEF PassInv, PassTypes, SameShop, Went
<1>9. Alone(g, x8', x15')
  BY <1>1, <1>3, AloneGoes DEF PassInv, Busy
<1>10. ShopInv(g)'
  BY <1>1, <1>3, ShopGoes DEF PassInv, Quiet
<1>11. ShelfFits(g)'
  BY <1>1, <1>2, <1>3, <1>4 DEF PassInv, ShelfInv, ShelfFits, Went
<1>12. OursIsManaged(g)'
  <2> SUFFICES ASSUME NEW i \in (1..g.ids) \ x14, x6'[i].there
               PROVE  \/ x6'[i].managed <=> x6'[i].ours
                      \/ x6'[i].ours /\ \E k \in g.handlers : Importing(x8'[k], i)
    BY <1>1 DEF OursIsManaged
  <2>1. CASE i = id
    BY <1>4, <1>5, <2>1 DEF PassInv, ShelfInv, ImportIsOurs
  <2>2. CASE i # id
    BY <1>4, <1>7, <2>2 DEF PassInv, ShelfInv, OursIsManaged
  <2> QED BY <2>1, <2>2
<1>13. PickedIsOurs(g)'
  BY <1>1, <1>4 DEF PassInv, PassTypes, ShelfInv, PickedIsOurs
<1>14. OneIsOurs(g)'
  <2> SUFFICES ASSUME ~x15
               PROVE  /\ \A i, j \in (1..g.ids) \ x14 : x6'[i].ours /\ x6'[j].ours => i = j
                      /\ \A k \in g.handlers : x8'[k].step = "importing" => \A i \in 1..g.ids : ~x6'[i].managed
    BY <1>1 DEF OneIsOurs
  <2>1. \A i \in 1..g.ids : x6'[i].ours <=> x6[i].ours
    BY <1>4
  <2>2. \A k \in g.handlers : x8'[k].step # "importing"
    BY <1>1, <1>3 DEF PassInv, Alone, Busy, Went
  <2> QED BY <2>1, <2>2 DEF PassInv, ShelfInv, OneIsOurs
<1>15. ImportIsOurs(g)'
  BY <1>1, <1>4, <1>6 DEF PassInv, ShelfInv, ImportIsOurs
<1> QED BY <1>8, <1>9, <1>10, <1>11, <1>12, <1>13, <1>14, <1>15 DEF PassInv, ShelfInv

\* No call goes on.
NoCall == x8' = x8 /\ x15' = x15

\* Calls that stay go on.
LEMMA CallsStay ==
    ASSUME NEW g, x8' = x8 PROVE CallsGoOn(g)
BY DEF CallsGoOn

\* The tick selects what is managed, which is ours.
LEMMA SelectKeeps ==
    ASSUME NEW g, PassFits(g), PassInv(g), Pass(g)!Select
    PROVE  PassInv(g)'
<1>1. /\ x10' = {i \in 1..g.ids : x6[i].managed} /\ SameShop /\ NoCall
      /\ x1' = x1 /\ x2' = x2 /\ x6' = x6 /\ x7' = x7 /\ x9' = x9 /\ x13' = x13 /\ x14' = x14
  BY DEF Pass!Select, Pass!Managed, Pass!Ids, Pass!World, Pass!Shop, Pass!Shelf, Pass!Past, SameShop, NoCall
<1>2. PassTypes(g)'
  BY <1>1 DEF PassInv, PassTypes, SameShop, NoCall
<1>3. Alone(g, x8', x15') /\ ShopInv(g)'
  BY <1>1, ShopStays DEF PassInv, NoCall
<1>4. ShelfFits(g)'
  BY <1>1 DEF PassInv, ShelfInv, ShelfFits, NoCall
<1>5. PickedIsOurs(g)'
  <2>1. \A i \in 1..g.ids : i \notin x14 /\ x6[i].there /\ x6[i].managed => x6[i].ours
    BY DEF PassInv, ShelfInv, OursIsManaged
  <2> QED BY <1>1, <2>1 DEF PickedIsOurs
<1>6. OursIsManaged(g)' /\ OneIsOurs(g)' /\ ImportIsOurs(g)'
  BY <1>1 DEF PassInv, ShelfInv, OursIsManaged, OneIsOurs, ImportIsOurs, NoCall
<1> QED BY <1>2, <1>3, <1>4, <1>5, <1>6 DEF PassInv, ShelfInv

\* The shelf shrinks while no call goes on.
LEMMA ListGoes ==
    ASSUME NEW g, PassFits(g), PassInv(g), Shrinks(g), SameShop, NoCall, x1' = x1, x2' = x2, x13' = x13,
           x6' \in [1..g.ids -> ListRow], x9' \in 0..g.ids
    PROVE  PassInv(g)'
<1>1. x7' \in 1..g.ids /\ x10' \subseteq 1..g.ids /\ x14' \subseteq 1..g.ids
  <2>1. 1..x7 \subseteq 1..g.ids
    BY DEF PassInv, PassTypes, PassFits
  <2> QED BY <2>1 DEF PassInv, PassTypes, Shrinks
<1>2. PassTypes(g)'
  BY <1>1 DEF PassInv, PassTypes, SameShop, NoCall
<1>3. Alone(g, x8', x15') /\ ShopInv(g)'
  BY ShopStays DEF PassInv, NoCall
<1>4. ShelfInv(g)'
  <2>1. x15 => x15'
    BY DEF NoCall
  <2> QED BY <2>1, CallsStay, ShelfShrinks DEF PassInv, NoCall
<1> QED BY <1>2, <1>3, <1>4 DEF PassInv

\* A torn list had an id.
LEMMA TornAreHandedOut ==
    ASSUME NEW g, PassInv(g) PROVE x14 \subseteq 1..x7 /\ x7 \in Int
BY DEF PassInv, PassTypes, ShelfInv, ShelfFits

\* A list is taken down by the tick, or removed by its owner.
LEMMA TakeDownKeeps ==
    ASSUME NEW g, PassFits(g), PassInv(g), NEW i \in 1..g.ids, Pass(g)!TakeDown(i) \/ Pass(g)!Remove(i)
    PROVE  PassInv(g)'
<1>1. /\ x6' = [x6 EXCEPT ![i] = Pass(g)!Gone] /\ x10' \subseteq x10 /\ SameShop /\ NoCall
      /\ x1' = x1 /\ x2' = x2 /\ x7' = x7 /\ x9' = x9 /\ x13' = x13 /\ x14' = x14
  <2>1. CASE Pass(g)!TakeDown(i) /\ TRUE
    BY <2>1 DEF Pass!TakeDown, Pass!TakenDown, Pass!World, Pass!Shop, Pass!Past, SameShop, NoCall
  <2>2. CASE Pass(g)!Remove(i) /\ TRUE
    BY <2>2 DEF Pass!Remove, Pass!World, Pass!Shop, Pass!Past, SameShop, NoCall
  <2> QED BY <2>1, <2>2
<1>2. /\ x6' \in [1..g.ids -> ListRow] /\ RowGone(x6'[i])
      /\ \A j \in 1..g.ids : j # i => x6'[j] = x6[j]
  BY <1>1, RowGoes DEF PassInv
<1>3. \A j \in 1..g.ids : x6[j].managed \/ x6[j].ours => x6[j].there
  BY DEF PassInv, ShelfInv, ShelfFits
<1>4. x9 # 0 => x9 \in x14
  BY DEF PassInv, ShelfInv, ShelfFits
<1>5. Shrinks(g)
  BY <1>1, <1>2, <1>3, <1>4, TornAreHandedOut DEF Shrinks, RowGone
<1>6. x9' \in 0..g.ids
  BY <1>1 DEF PassInv, PassTypes
<1> QED BY <1>1, <1>2, <1>5, <1>6, ListGoes

\* A managed list gets an address of its owner's.
LEMMA RetargetKeeps ==
    ASSUME NEW g, PassFits(g), PassInv(g), NEW i \in 1..g.ids, Pass(g)!Retarget(i)
    PROVE  PassInv(g)'
<1> DEFINE theirs == [x6[i] EXCEPT !.ours = FALSE]
<1>1. /\ x6[i].managed /\ x6' = [x6 EXCEPT ![i].ours = FALSE] /\ x9' = i /\ x14' = x14 \cup {i} /\ SameShop /\ NoCall
      /\ x1' = x1 /\ x2' = x2 /\ x7' = x7 /\ x10' = x10 /\ x13' = x13
  BY DEF Pass!Retarget, Pass!World, Pass!Shop, SameShop, NoCall
<1>2. /\ x6' \in [1..g.ids -> ListRow] /\ \A j \in 1..g.ids : j # i => x6'[j] = x6[j]
      /\ (x6'[i].there <=> x6[i].there) /\ (x6'[i].managed <=> x6[i].managed)
  <2>1. x6[i] \in ListRow
    BY DEF PassInv, PassTypes
  <2>2. theirs \in ListRow /\ (theirs.there <=> x6[i].there) /\ (theirs.managed <=> x6[i].managed)
    BY <2>1 DEF ListRow
  <2>3. x6' = [x6 EXCEPT ![i] = theirs]
    BY <1>1
  <2> HIDE DEF theirs
  <2> QED BY <2>2, <2>3 DEF PassInv, PassTypes
<1> HIDE DEF theirs
<1>3. \A j \in 1..g.ids : x6[j].managed \/ x6[j].ours => x6[j].there
  BY DEF PassInv, ShelfInv, ShelfFits
<1>4. i \in 1..x7
  <2>1. ~(i > x7)
    BY <1>1, <1>3 DEF PassInv, ShelfInv, ShelfFits
  <2> QED BY <2>1, TornAreHandedOut
<1>5. Shrinks(g)
  <2>1. \A j \in 1..g.ids : x6'[j].managed \/ x6'[j].ours => x6'[j].there
    BY <1>1, <1>2, <1>3
  <2> QED BY <1>1, <1>2, <1>4, <2>1, TornAreHandedOut DEF Shrinks
<1>6. x9' \in 0..g.ids
  BY <1>1
<1> QED BY <1>1, <1>2, <1>5, <1>6, ListGoes

\* It is its owner's from then on.
LEMMA UnmarkKeeps ==
    ASSUME NEW g, PassFits(g), PassInv(g), Pass(g)!Unmark
    PROVE  PassInv(g)'
<1> DEFINE left == [x6[x9] EXCEPT !.managed = FALSE]
<1>1. /\ x9 # 0 /\ x6' = [x6 EXCEPT ![x9].managed = FALSE] /\ x9' = 0 /\ SameShop /\ NoCall
      /\ x1' = x1 /\ x2' = x2 /\ x7' = x7 /\ x10' = x10 /\ x13' = x13 /\ x14' = x14
  BY DEF Pass!Unmark, Pass!World, Pass!Shop, Pass!Past, SameShop, NoCall
<1>2. x9 \in 1..g.ids /\ x9 \in x14
  BY <1>1 DEF PassInv, PassTypes, ShelfInv, ShelfFits
<1>3. /\ x6' \in [1..g.ids -> ListRow] /\ \A j \in 1..g.ids : j # x9 => x6'[j] = x6[j]
      /\ (x6'[x9].there <=> x6[x9].there) /\ ~x6'[x9].managed /\ (x6'[x9].ours <=> x6[x9].ours)
  <2>1. x6[x9] \in ListRow
    BY <1>2 DEF PassInv, PassTypes
  <2>2. left \in ListRow /\ (left.there <=> x6[x9].there) /\ ~left.managed /\ (left.ours <=> x6[x9].ours)
    BY <2>1 DEF ListRow
  <2>3. x6' = [x6 EXCEPT ![x9] = left]
    BY <1>1
  <2> HIDE DEF left
  <2> QED BY <1>2, <2>2, <2>3 DEF PassInv, PassTypes
<1> HIDE DEF left
<1>4. \A j \in 1..g.ids : x6[j].managed \/ x6[j].ours => x6[j].there
  BY DEF PassInv, ShelfInv, ShelfFits
<1>5. Shrinks(g)
  <2>1. \A j \in 1..g.ids : x6'[j].managed \/ x6'[j].ours => x6'[j].there
    BY <1>2, <1>3, <1>4
  <2> QED BY <1>1, <1>2, <1>3, <2>1, TornAreHandedOut DEF Shrinks
<1>6. x9' \in 0..g.ids
  BY <1>1 DEF PassFits
<1> QED BY <1>1, <1>3, <1>5, <1>6, ListGoes

\* The address cannot be read: ours is put back.
LEMMA UnreadKeeps ==
    ASSUME NEW g, PassFits(g), PassInv(g), Pass(g)!Unread
    PROVE  PassInv(g)'
<1> DEFINE back == [x6[x9] EXCEPT !.ours = TRUE]
<1>1. /\ x9 # 0 /\ x9' = 0 /\ SameShop /\ NoCall
      /\ (x6[x9].there /\ x6' = [x6 EXCEPT ![x9].ours = TRUE]) \/ x6' = x6
      /\ x1' = x1 /\ x2' = x2 /\ x7' = x7 /\ x10' = x10 /\ x13' = x13 /\ x14' = x14
  BY DEF Pass!Unread, Pass!World, Pass!Shop, Pass!Past, SameShop, NoCall
<1>2. x9 \in 1..g.ids /\ x9 \in x14
  BY <1>1 DEF PassInv, PassTypes, ShelfInv, ShelfFits
<1>3. \A j \in 1..g.ids : x6[j].managed \/ x6[j].ours => x6[j].there
  BY DEF PassInv, ShelfInv, ShelfFits
<1>4. /\ x6' \in [1..g.ids -> ListRow] /\ \A j \in 1..g.ids : j # x9 => x6'[j] = x6[j]
      /\ (x6'[x9].there <=> x6[x9].there) /\ (x6'[x9].managed <=> x6[x9].managed)
      /\ x6'[x9].managed \/ x6'[x9].ours => x6'[x9].there
  <2>1. x6[x9] \in ListRow /\ x6 \in [1..g.ids -> ListRow]
    BY <1>2 DEF PassInv, PassTypes
  <2>2. /\ back \in ListRow /\ (back.there <=> x6[x9].there) /\ (back.managed <=> x6[x9].managed)
    BY <2>1 DEF ListRow
  <2>3. (x6[x9].there /\ x6' = [x6 EXCEPT ![x9] = back]) \/ x6' = x6
    BY <1>1
  <2> HIDE DEF back
  <2>4. CASE x6' = x6
    BY <1>2, <1>3, <2>1, <2>4
  <2>5. CASE x6[x9].there /\ x6' = [x6 EXCEPT ![x9] = back]
    BY <1>2, <2>1, <2>2, <2>5
  <2> QED BY <2>3, <2>4, <2>5
<1> HIDE DEF back
<1>5. Shrinks(g)
  <2>1. \A j \in 1..g.ids : x6'[j].managed \/ x6'[j].ours => x6'[j].there
    BY <1>2, <1>3, <1>4
  <2> QED BY <1>1, <1>2, <1>4, <2>1, TornAreHandedOut DEF Shrinks
<1>6. x9' \in 0..g.ids
  BY <1>1 DEF PassFits
<1> QED BY <1>1, <1>4, <1>5, <1>6, ListGoes

\* A term is bought, the vault locks or opens, time passes.
LEMMA WorldKeeps ==
    ASSUME NEW g, PassFits(g), PassInv(g),
           (\E t \in g.terms : Pass(g)!Buy(t)) \/ Pass(g)!Lock \/ Pass(g)!Unlock \/ Pass(g)!Tick
    PROVE  PassInv(g)'
<1>1. /\ SameShelf /\ NoCall /\ x4' = x4 /\ x5' = x5 /\ x1' \in Nat /\ x2' \in Nat /\ x3' \in BOOLEAN
      /\ \/ x3' = x3 /\ x13' = x13
         \/ /\ x3' = FALSE /\ x13' \in BOOLEAN /\ (x13 => x13')
            /\ ~x13' => \A h \in g.handlers : x8[h].step \notin {"asked", "creating", "created"}
         \/ x3' = TRUE /\ x13' = x13
  <2>1. CASE \E t \in g.terms : Pass(g)!Buy(t)
    <3>1. PICK t \in g.terms : Pass(g)!Buy(t) /\ TRUE
      BY <2>1
    <3>2. /\ x2' = Pass(g)!Mx(x2, x1) + t /\ SameShelf /\ NoCall /\ SameShop /\ x1' = x1 /\ x13' = x13
      BY <3>1 DEF Pass!Buy, Pass!Shop, Pass!Shelf, Pass!Past, SameShelf, NoCall, SameShop
    <3>3. x2' \in Nat
      <4>1. x1 \in Nat /\ x2 \in Nat /\ t \in Nat
        BY DEF PassInv, PassTypes, PassFits
      <4> QED BY <3>2, <4>1 DEF Pass!Mx
    <3> QED BY <3>2, <3>3 DEF PassInv, PassTypes, SameShop
  <2>2. CASE Pass(g)!Lock /\ TRUE
    <3> DEFINE asked == \E h \in g.handlers : x8[h].step \in {"asked", "creating", "created"}
    <3>1. /\ SameShelf /\ NoCall /\ x4' = x4 /\ x5' = x5 /\ x1' = x1 /\ x2' = x2 /\ x3' = FALSE
          /\ x13' = (x13 \/ asked)
      BY <2>2 DEF Pass!Lock, Pass!Shop, Pass!Shelf, SameShelf, NoCall
    <3>2. ~asked => \A h \in g.handlers : x8[h].step \notin {"asked", "creating", "created"}
      OBVIOUS
    <3> HIDE DEF asked
    <3>3. x13' \in BOOLEAN /\ (x13 => x13') /\ (asked => x13')
      BY <3>1, Zenon
    <3> QED BY <3>1, <3>2, <3>3 DEF PassInv, PassTypes
  <2>3. CASE Pass(g)!Unlock /\ TRUE
    BY <2>3 DEF Pass!Unlock, Pass!Shop, Pass!Shelf, Pass!Past, SameShelf, NoCall, PassInv, PassTypes
  <2>4. CASE Pass(g)!Tick /\ TRUE
    BY <2>4 DEF Pass!Tick, Pass!Shop, Pass!Shelf, Pass!Past, SameShelf, NoCall, PassInv, PassTypes
  <2> QED BY <2>1, <2>2, <2>3, <2>4
<1>2. x13' \in BOOLEAN /\ (x13 => x13')
  BY <1>1 DEF PassInv, PassTypes
<1>3. PassTypes(g)'
  BY <1>1, <1>2 DEF PassInv, PassTypes, SameShelf, NoCall
<1>4. Alone(g, x8', x15')
  BY <1>1 DEF PassInv, NoCall
<1>5. LinesOpened(g, x5)' /\ LinesHeld(g, x4, x5, x8)'
  BY <1>1 DEF PassInv, ShopInv, NoCall
<1>6. ASSUME ~x13', ~x15' PROVE LineKept(g, x3', x4', x5', x8')
  <2>1. LineKept(g, x3, x4, x5, x8)
    BY <1>1, <1>2, <1>6 DEF PassInv, ShopInv, NoCall
  <2>2. \A h \in g.handlers : x8[h].step \in {"asked", "creating", "created"} => x3'
    BY <1>1, <1>6, <2>1 DEF LineKept
  <2> QED BY <1>1, <2>1, <2>2 DEF LineKept, NoCall
<1>7. ShelfInv(g)'
  BY <1>1, ShelfStays DEF PassInv, NoCall
<1> QED BY <1>3, <1>4, <1>5, <1>6, <1>7 DEF PassInv, ShopInv

\* Every step keeps the invariant.
LEMMA PassStep ==
    ASSUME NEW g, PassFits(g), PassInv(g), [Pass(g)!Next]_(Pass(g)!vars)
    PROVE  PassInv(g)'
<1>1. CASE \E h \in g.handlers : Pass(g)!Begin(h) \/ Pass(g)!EnsureStep(h)
  <2>1. PICK h \in g.handlers : Pass(g)!Begin(h) \/ Pass(g)!EnsureStep(h)
    BY <1>1
  <2> QED
    BY <2>1, BeginKeeps, ReadLineKeeps, CreateKeeps, SaveLineKeeps, ExtendKeeps, TouchKeeps, FindListKeeps,
       InsertKeeps, FilledKeeps, MarkKeeps, BreaksKeeps DEF Pass!EnsureStep
<1>2. CASE \E i \in Pass(g)!Ids : Pass(g)!TakeDown(i) \/ Pass(g)!Retarget(i) \/ Pass(g)!Remove(i)
  <2>1. PICK i \in 1..g.ids : Pass(g)!TakeDown(i) \/ Pass(g)!Retarget(i) \/ Pass(g)!Remove(i)
    BY <1>2 DEF Pass!Ids
  <2> QED BY <2>1, TakeDownKeeps, RetargetKeeps
<1>3. CASE Pass(g)!Select \/ Pass(g)!Unmark \/ Pass(g)!Unread
  BY <1>3, SelectKeeps, UnmarkKeeps, UnreadKeeps
<1>4. CASE (\E t \in g.terms : Pass(g)!Buy(t)) \/ Pass(g)!Lock \/ Pass(g)!Unlock \/ Pass(g)!Tick
  BY <1>4, WorldKeeps
<1>5. CASE UNCHANGED Pass(g)!vars
  BY <1>5 DEF Pass!vars, PassInv, PassTypes, Alone, ShopInv, ShelfInv, ShelfFits, OursIsManaged, PickedIsOurs,
              OneIsOurs, ImportIsOurs
<1> QED BY <1>1, <1>2, <1>3, <1>4, <1>5 DEF Pass!Next

\* The invariant makes the line one, and the managed list one and ours.
LEMMA PassHolds ==
    ASSUME NEW g, PassFits(g), PassInv(g)
    PROVE  Pass(g)!OneLine /\ Pass(g)!ManagedIsOurs /\ Pass(g)!OneManaged
<1>1. Pass(g)!OneLine
  <2>1. SUFFICES ASSUME ~x13, ~x15 PROVE Count(g) <= 1
    BY DEF Pass!OneLine, Count
  <2>2. /\ Count(g) \in 0..g.lines /\ \A l \in 1..g.lines : x5[l] > 0 <=> l <= Count(g)
    BY OpenedIs DEF PassInv, ShopInv
  <2>3. \A k, l \in 1..g.lines : x5[k] > 0 /\ x5[l] > 0 => k = l
    BY <2>1 DEF PassInv, ShopInv, LineKept
  <2>4. ASSUME Count(g) > 1 PROVE FALSE
    <3>1. 1 \in 1..g.lines /\ 2 \in 1..g.lines /\ 1 <= Count(g) /\ 2 <= Count(g)
      BY <2>2, <2>4 DEF PassFits
    <3> QED BY <2>2, <2>3, <3>1
  <2> QED BY <2>2, <2>4
<1>2. Pass(g)!ManagedIsOurs
  <2> SUFFICES ASSUME Pass(g)!Running = {}, NEW i \in 1..g.ids, x6[i].there, i \notin x14
               PROVE  x6[i].managed = x6[i].ours
    BY DEF Pass!ManagedIsOurs, Pass!Ids
  <2>1. \A h \in g.handlers : x8[h].step = "idle"
    BY DEF Pass!Running
  <2>2. x6[i].managed <=> x6[i].ours
    BY <2>1 DEF PassInv, ShelfInv, OursIsManaged, Importing
  <2>3. x6[i].managed \in BOOLEAN /\ x6[i].ours \in BOOLEAN
    BY DEF PassInv, PassTypes, ListRow
  <2> QED BY <2>2, <2>3
<1>3. Pass(g)!OneManaged
  <2> DEFINE S == {i \in (1..g.ids) \ x14 : x6[i].there /\ x6[i].ours}
  <2>1. SUFFICES ASSUME ~x15 PROVE Cardinality(S) <= 1
    BY PassCount DEF Pass!OneManaged, Pass!Ids
  <2>2. \A i, j \in S : i = j
    BY <2>1 DEF PassInv, ShelfInv, OneIsOurs
  <2> HIDE DEF S
  <2>3. CASE S = {}
    BY <2>3, FS_EmptySet
  <2>4. CASE S # {}
    <3>1. PICK i : S = {i}
      BY <2>2, <2>4
    <3>2. Cardinality({i}) = 1
      BY FS_Singleton
    <3> QED BY <3>1, <3>2
  <2> QED BY <2>3, <2>4
<1> QED BY <1>1, <1>2, <1>3

\* The tick takes down what is ours, or torn.
LEMMA TheirsAreLeft ==
    ASSUME NEW g, PassFits(g), PassInv(g), [Pass(g)!Next]_(Pass(g)!vars)
    PROVE  Pass(g)!TheirsStayStep
<1> SUFFICES ASSUME x10' # x10, NEW i \in 1..g.ids, x6[i].there, ~x6[i].ours, i \notin x14
             PROVE  x6'[i] = x6[i]
  BY DEF Pass!TheirsStayStep, Pass!Ids
<1>1. Pass(g)!Select \/ \E k \in 1..g.ids : Pass(g)!TakeDown(k)
  BY DEF Pass!Next, Pass!vars, Pass!Ids, Pass!Begin, Pass!EnsureStep, Pass!ReadLine, Pass!Create, Pass!SaveLine,
         Pass!Extend, Pass!Touch, Pass!FindList, Pass!Insert, Pass!Filled, Pass!Mark, Pass!Breaks, Pass!Buy,
         Pass!Retarget, Pass!Unmark, Pass!Unread, Pass!Remove, Pass!Lock, Pass!Unlock, Pass!Tick
<1>2. CASE Pass(g)!Select /\ TRUE
  BY <1>2 DEF Pass!Select, Pass!Shelf
<1>3. CASE \E k \in 1..g.ids : Pass(g)!TakeDown(k)
  <2>1. PICK k \in 1..g.ids : k \in x10 /\ x6' = [x6 EXCEPT ![k] = Pass(g)!Gone]
    BY <1>3 DEF Pass!TakeDown, Pass!TakenDown
  <2>2. i # k
    BY <2>1 DEF PassInv, ShelfInv, PickedIsOurs
  <2> QED BY <2>1, <2>2 DEF PassInv, PassTypes
<1> QED BY <1>1, <1>2, <1>3

(***************************************************************************)
(* Both, while the focus is on them.                                       *)
(***************************************************************************)
\* Each module moves while it has the focus, with the parameters of the assumptions.
LEMMA LinesMove ==
    ASSUME [FeedsNext]_all
    PROVE  /\ focus' = focus
           /\ focus = "sharing" => [Shared!Next]_(Shared!vars)
           /\ focus = "pass" => [Pass(OneCall)!Next]_(Pass(OneCall)!vars)
           /\ focus = "passes" => [Pass(TwoCalls)!Next]_(Pass(TwoCalls)!vars)
<1> USE DEF Rest0, Rest1, Rest2, Rest3, Rest4, Rest5, Rest6, Rest7, Rest8, Rest9, Rest10, Rest11, Rest12, Rest13,
            Rest14, Rest15
<1>1. CASE FeedsNext
  BY <1>1 DEF FeedsNext
<1>2. CASE UNCHANGED all
  BY <1>2 DEF all, Shared!vars, Pass!vars
<1> QED BY <1>1, <1>2

\* Both sets of parameters are such as the lemmas ask for.
LEMMA PassesFit == PassFits(OneCall) /\ PassFits(TwoCalls)
BY PassAssumption DEF PassFits

LinesGood ==
    /\ focus = "sharing" => ShareInv
    /\ focus = "pass" => PassInv(OneCall)
    /\ focus = "passes" => PassInv(TwoCalls)

\* The invariants hold in every state.
LEMMA LinesInductive == FeedsSpec => []LinesGood
<1>1. FeedsInit => LinesGood
  BY SharingAssumption, PassesFit, ShareInit, PassInit DEF FeedsInit, LinesGood
<1>2. LinesGood /\ [FeedsNext]_all => LinesGood'
  BY SharingAssumption, PassesFit, LinesMove, ShareStep, PassStep DEF LinesGood
<1> QED BY <1>1, <1>2, PTL DEF FeedsSpec

\* For any forms, friends, lists and passes, in any order and whatever fails: a form reaches one
\* line, and none that came with a pass by the time the statement runs; nobody is named on a
\* line that is gone (Sharing).  One line is opened for a reader when no answer was lost and no
\* two calls met; what is managed is ours and there is one of it; and the tick takes down
\* none of the reader's own (LivePass).
THEOREM LinesAreTheirs == FeedsSpec => LinesHold
<1>1. ASSUME NEW CONSTANT g, PassFits(g)
      PROVE  (PassInv(g) => Pass(g)!OneLine /\ Pass(g)!ManagedIsOurs /\ Pass(g)!OneManaged)'
  <2>1. PassInv(g) => Pass(g)!OneLine /\ Pass(g)!ManagedIsOurs /\ Pass(g)!OneManaged
    BY <1>1, PassHolds
  <2> QED BY <2>1, PTL
<1>2. ASSUME NEW CONSTANT g, PassFits(g), PassInv(g), [Pass(g)!Next]_(Pass(g)!vars)
      PROVE  Pass(g)!PassBesideTheirsStep
  <2>1. PassInv(g)' /\ Pass(g)!TheirsStayStep
    BY <1>2, PassStep, TheirsAreLeft
  <2> QED BY <1>1, <1>2, <2>1 DEF Pass!PassBesideTheirsStep
<1>3. LinesGood /\ [FeedsNext]_all => [LinesHoldStep]_all
  <2> SUFFICES ASSUME LinesGood, [FeedsNext]_all PROVE LinesHoldStep
    OBVIOUS
  <2>1. focus = "sharing" => Shared!OpenedAsAskedStep
    BY SharingAssumption, ShareStep, LinesMove DEF LinesGood
  <2>2. /\ focus = "pass" => Pass(OneCall)!PassBesideTheirsStep
        /\ focus = "passes" => Pass(TwoCalls)!PassBesideTheirsStep
    BY <1>2, PassesFit, LinesMove DEF LinesGood
  <2> QED BY <2>1, <2>2 DEF LinesHoldStep
<1> QED BY <1>3, LinesInductive, PTL DEF FeedsSpec, LinesHold
=============================================================================
