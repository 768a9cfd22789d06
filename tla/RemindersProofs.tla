-------------------------- MODULE RemindersProofs --------------------------
(***************************************************************************)
(* The pipeline of module Reminders is an instance of the delivery tier:   *)
(* whatever the scan, the fan-out, the readers and the faults do, the jobs *)
(* that reach runBatch are jobs the specification of Delivery allows for.  *)
(***************************************************************************)
EXTENDS Reminders, FiniteSetTheorems, WellFoundedInduction, TLAPS

FanoutRecords == [job : F!FanoutIds \cup {NoJob}, step : {"idle", "page", "add"},
                  after : F!Cursors, page : SUBSET Users, locked : BOOLEAN]

(* What a worker of the fan-out holds: a page it is about to add is a       *)
(* non-empty set of users, of a job that is really in the table.            *)
PagesInHand ==
    \A w \in FanoutWorkers :
        /\ fw[w].step # "idle" \/ fw[w].locked => fw[w].job \in F!FanoutIds
        /\ fw[w].step = "add" => fw[w].page # {}

FanoutInv ==
    /\ event \in [Events -> F!EventRow]
    /\ followers \in [Events -> SUBSET Users]
    /\ fo \in [F!FanoutIds -> F!JobRecords(F!FanoutData)]
    /\ fw \in [FanoutWorkers -> FanoutRecords]
    /\ PagesInHand
-----------------------------------------------------------------------------
(* A finite non-empty set of numbers has a largest element: a smallest      *)
(* counterexample would lose one element and keep its maximum.              *)
LEMMA MaxExists ==
    ASSUME NEW S \in SUBSET Nat, IsFiniteSet(S), S # {}
    PROVE  \E x \in S : \A y \in S : x >= y
<1> DEFINE HasMax(T) == \E x \in T : \A y \in T : x >= y
           Bad == {T \in FiniteSubsetsOf(S) : T # {} /\ ~HasMax(T)}
<1>1. SUFFICES ASSUME ~HasMax(S) PROVE FALSE
  OBVIOUS
<1>2. S \in Bad
  BY <1>1 DEF FiniteSubsetsOf
<1>3. PICK T \in Bad : \A U \in Bad : <<U, T>> \notin StrictSubsetOrdering(S)
  <2>1. Bad \subseteq FiniteSubsetsOf(S) /\ Bad # {}
    BY <1>2
  <2>2. IsWellFoundedOn(StrictSubsetOrdering(S), FiniteSubsetsOf(S))
    BY FS_StrictSubsetOrderingWellFounded
  <2> HIDE DEF Bad
  <2>3. QED
    BY <2>1, <2>2, WFMin
<1>4. PICK t \in T : TRUE
  OBVIOUS
<1>5. T \ {t} \in FiniteSubsetsOf(S) /\ T \subseteq Nat
  BY FS_Subset DEF FiniteSubsetsOf
<1>6. <<T \ {t}, T>> \in StrictSubsetOrdering(S)
  BY <1>4, <1>5 DEF StrictSubsetOrdering, FiniteSubsetsOf
<1>7. T \ {t} \notin Bad
  BY <1>3, <1>6
<1>8. CASE T \ {t} = {}
  BY <1>4, <1>5, <1>8
<1>9. CASE HasMax(T \ {t})
  <2>1. PICK m \in T \ {t} : \A y \in T \ {t} : m >= y
    BY <1>9
  <2>2. HasMax(T)
    BY <1>4, <1>5, <2>1
  <2>3. QED
    BY <2>2
<1>10. QED
  BY <1>5, <1>7, <1>8, <1>9

(* So the cursor after a page is one of the users in it. *)
LEMMA CursorInPage ==
    ASSUME NEW page \in SUBSET Users, page # {}
    PROVE  F!Max(page) \in page
<1>1. page \in SUBSET Nat /\ IsFiniteSet(page)
  BY FS_Subset, RemindersAssumption
<1>2. \E x \in page : \A y \in page : x >= y
  BY <1>1, MaxExists
<1>3. QED
  BY <1>2 DEF F!Max
-----------------------------------------------------------------------------
(* Every operation of the job table that ends or re-queues a job leaves the *)
(* data it was added with alone.                                            *)
LEMMA QueueKeepsType ==
    ASSUME NEW Ids, NEW Data, NEW q \in [Ids -> F!JobRecords(Data)], NEW id \in Ids
    PROVE  /\ F!Taken(q, id) \in [Ids -> F!JobRecords(Data)]
           /\ F!Completed(q, id) \in [Ids -> F!JobRecords(Data)]
           /\ F!Thrown(q, id) \in [Ids -> F!JobRecords(Data)]
           /\ F!Stalled(q, id) \in [Ids -> F!JobRecords(Data)]
           /\ F!Forgotten(q, id) \in [Ids -> F!JobRecords(Data)]
<1>1. /\ q[id] = [status |-> q[id].status, data |-> q[id].data,
                  tries |-> q[id].tries, stalls |-> q[id].stalls]
      /\ q[id].status \in F!Status /\ q[id].data \in Data
      /\ q[id].tries \in Nat /\ q[id].stalls \in Nat
  BY DEF F!JobRecords
<1>2. ASSUME NEW s \in F!Status, NEW t \in Nat, NEW n \in Nat
      PROVE  [status |-> s, data |-> q[id].data, tries |-> t, stalls |-> n]
                \in F!JobRecords(Data)
  BY <1>1 DEF F!JobRecords
<1>3. ASSUME NEW j \in F!JobRecords(Data)
      PROVE  [q EXCEPT ![id] = j] \in [Ids -> F!JobRecords(Data)]
  OBVIOUS
<1>4. F!Taken(q, id) \in [Ids -> F!JobRecords(Data)]
  <2>1. F!Taken(q, id) = [q EXCEPT ![id] = [q[id] EXCEPT !.status = "active"]]
    BY DEF F!Taken
  <2>2. [q[id] EXCEPT !.status = "active"] \in F!JobRecords(Data)
    BY DEF F!JobRecords, F!Status
  <2>3. QED
    BY <2>1, <2>2
<1>5. F!Completed(q, id) \in [Ids -> F!JobRecords(Data)]
  <2>1. F!Completed(q, id) = [q EXCEPT ![id] = [q[id] EXCEPT !.status = "done"]]
    BY DEF F!Completed
  <2>2. [q[id] EXCEPT !.status = "done"] \in F!JobRecords(Data)
    BY DEF F!JobRecords, F!Status
  <2>3. QED
    BY <2>1, <2>2
<1>6. F!Thrown(q, id) \in [Ids -> F!JobRecords(Data)]
  <2> DEFINE s == IF q[id].tries + 1 < MaxAttempts THEN "waiting" ELSE "dead"
  <2>1. s \in F!Status
    BY DEF F!Status
  <2>2. F!Thrown(q, id) = [q EXCEPT ![id] = [[q[id] EXCEPT !.tries = @ + 1] EXCEPT !.status = s]]
    BY DEF F!Thrown
  <2>3. [[q[id] EXCEPT !.tries = @ + 1] EXCEPT !.status = s] \in F!JobRecords(Data)
    <3>1. [q[id] EXCEPT !.tries = @ + 1] \in F!JobRecords(Data)
      BY <1>1, q[id].tries + 1 \in Nat DEF F!JobRecords
    <3>2. QED
      BY <3>1, <2>1 DEF F!JobRecords
  <2>4. QED
    BY <2>2, <2>3
<1>7. F!Stalled(q, id) \in [Ids -> F!JobRecords(Data)]
  <2> DEFINE s == IF q[id].stalls < MaxStalls THEN "waiting" ELSE "dead"
  <2>1. s \in F!Status
    BY DEF F!Status
  <2>2. F!Stalled(q, id) = [q EXCEPT ![id] = [[q[id] EXCEPT !.stalls = @ + 1] EXCEPT !.status = s]]
    BY DEF F!Stalled
  <2>3. [[q[id] EXCEPT !.stalls = @ + 1] EXCEPT !.status = s] \in F!JobRecords(Data)
    <3>1. [q[id] EXCEPT !.stalls = @ + 1] \in F!JobRecords(Data)
      BY <1>1, q[id].stalls + 1 \in Nat DEF F!JobRecords
    <3>2. QED
      BY <3>1, <2>1 DEF F!JobRecords
  <2>4. QED
    BY <2>2, <2>3
<1>8. F!Forgotten(q, id) \in [Ids -> F!JobRecords(Data)]
  BY <1>1, <1>2 DEF F!Forgotten, F!JobOf, F!Status
<1>9. QED
  BY <1>4, <1>5, <1>6, <1>7, <1>8

LEMMA IdleRecord == F!Idle \in FanoutRecords
BY DEF F!Idle, FanoutRecords, F!Cursors

LEMMA InitFanoutInv == Init => FanoutInv
<1> SUFFICES ASSUME Init PROVE FanoutInv
  OBVIOUS
<1> USE RemindersAssumption DEF Init
<1>1. event \in [Events -> F!EventRow] /\ followers \in [Events -> SUBSET Users]
  OBVIOUS
<1>2. fo \in [F!FanoutIds -> F!JobRecords(F!FanoutData)]
  <2>1. F!JobOf("absent", [startsAt |-> 0, timed |-> TRUE]) \in F!JobRecords(F!FanoutData)
    BY DEF F!JobOf, F!JobRecords, F!Status, F!FanoutData
  <2>2. QED
    BY <2>1
<1>3. fw \in [FanoutWorkers -> FanoutRecords]
  BY IdleRecord
<1>4. PagesInHand
  BY DEF PagesInHand, F!Idle
<1>5. QED
  BY <1>1, <1>2, <1>3, <1>4 DEF FanoutInv

-----------------------------------------------------------------------------
(* One lemma per kind of step of the fan-out tier. *)
LEMMA ScanKeeps ==
    ASSUME FanoutInv, F!Scan
    PROVE  FanoutInv'
<1>1. UNCHANGED <<event, followers, fw>>
  BY DEF F!Scan
<1>2. ASSUME NEW id \in F!FanoutIds
      PROVE  fo'[id] \in F!JobRecords(F!FanoutData)
  <2> DEFINE d == [startsAt |-> event[id[1]].startsAt, timed |-> event[id[1]].class = "timed"]
  <2>1. id[1] \in Events
    BY DEF F!FanoutIds
  <2>2. event[id[1]].startsAt \in Int
    BY <2>1 DEF FanoutInv, F!EventRow
  <2>3. d \in F!FanoutData
    BY <2>2 DEF F!FanoutData
  <2>4. F!JobOf("waiting", d) \in F!JobRecords(F!FanoutData)
    BY <2>3 DEF F!JobOf, F!JobRecords, F!Status
  <2>5. F!Added(fo, id, d)[id] \in F!JobRecords(F!FanoutData)
    BY <2>4 DEF F!Added, FanoutInv
  <2>6. fo'[id] = F!Added(fo, id, d)[id] \/ fo'[id] = fo[id]
    BY DEF F!Scan
  <2>7. QED
    BY <2>5, <2>6 DEF FanoutInv
<1>3. fo' \in [F!FanoutIds -> F!JobRecords(F!FanoutData)]
  BY <1>2 DEF F!Scan
<1>4. QED
  BY <1>1, <1>3 DEF FanoutInv, PagesInHand

(* A worker goes idle while the table changes in one of the permitted ways. *)
LEMMA IdleKeeps ==
    ASSUME FanoutInv, NEW w \in FanoutWorkers, UNCHANGED <<event, followers>>,
           fw' = [fw EXCEPT ![w] = F!Idle],
           fo' \in [F!FanoutIds -> F!JobRecords(F!FanoutData)]
    PROVE  FanoutInv'
<1>1. fw' \in [FanoutWorkers -> FanoutRecords]
  BY IdleRecord DEF FanoutInv
<1>2. PagesInHand'
  BY DEF FanoutInv, PagesInHand, F!Idle
<1>3. QED
  BY <1>1, <1>2 DEF FanoutInv

LEMMA ReturnKeeps ==
    ASSUME FanoutInv, NEW w \in FanoutWorkers, UNCHANGED <<event, followers>>, F!Return(w)
    PROVE  FanoutInv'
<1>1. fo' \in [F!FanoutIds -> F!JobRecords(F!FanoutData)]
  BY QueueKeepsType DEF F!Return, FanoutInv, PagesInHand
<1>2. QED
  BY <1>1, IdleKeeps DEF F!Return

LEMMA WorkerKeeps ==
    ASSUME FanoutInv, NEW w \in FanoutWorkers, F!WorkerStep(w)
    PROVE  FanoutInv'
<1>1. ASSUME NEW id \in F!FanoutIds, F!StartFanout(w, id)
      PROVE  FanoutInv'
  <2>1. UNCHANGED <<event, followers>>
    BY <1>1 DEF F!StartFanout
  <2>2. fo' \in [F!FanoutIds -> F!JobRecords(F!FanoutData)]
    BY <1>1, QueueKeepsType DEF F!StartFanout, FanoutInv
  <2> DEFINE r == [job |-> id, step |-> "page", after |-> 0, page |-> {}, locked |-> TRUE]
  <2>3. fw' = fw \/ fw' = [fw EXCEPT ![w] = r]
    BY <1>1 DEF F!StartFanout
  <2>4. r \in FanoutRecords
    BY DEF FanoutRecords, F!Cursors
  <2>5. fw' \in [FanoutWorkers -> FanoutRecords] /\ PagesInHand'
    <3>1. CASE fw' = fw
      BY <3>1 DEF FanoutInv, PagesInHand
    <3>2. CASE fw' = [fw EXCEPT ![w] = r]
      <4>1. fw' \in [FanoutWorkers -> FanoutRecords]
        BY <3>2, <2>4 DEF FanoutInv
      <4>2. r.job = id /\ r.step = "page"
        OBVIOUS
      <4> HIDE DEF r
      <4>3. PagesInHand'
        BY <3>2, <4>2 DEF FanoutInv, PagesInHand
      <4>4. QED
        BY <4>1, <4>3
    <3>3. QED
      BY <2>3, <3>1, <3>2
  <2>6. QED
    BY <2>1, <2>2, <2>5 DEF FanoutInv
<1>2. ASSUME F!ReadPage(w)
      PROVE  FanoutInv'
  <2> DEFINE page == F!NextPage(fw[w].job[1], fw[w].after)
  <2>1. UNCHANGED <<event, followers>> /\ fw[w].step = "page"
    BY <1>2 DEF F!ReadPage
  <2>2. fw[w].job[1] \in Events
    BY <2>1 DEF FanoutInv, PagesInHand, F!FanoutIds
  <2>3. page \in SUBSET Users
    BY <2>2 DEF F!NextPage, FanoutInv
  <2>4. CASE page = {}
    BY <1>2, <2>1, <2>4, ReturnKeeps DEF F!ReadPage
  <2>5. CASE page # {}
    <3>1. fw' = [fw EXCEPT ![w].step = "add", ![w].page = page] /\ fo' = fo
      BY <1>2, <2>5 DEF F!ReadPage
    <3> HIDE DEF page
    <3>2. fw' \in [FanoutWorkers -> FanoutRecords]
      BY <3>1, <2>3, ZenonT(40) DEF FanoutInv, FanoutRecords
    <3>3. PagesInHand'
      BY <3>1, <2>1, <2>5 DEF FanoutInv, FanoutRecords, PagesInHand
    <3>4. QED
      BY <3>1, <3>2, <3>3, <2>1 DEF FanoutInv
  <2>6. QED
    BY <2>4, <2>5
<1>3. ASSUME F!AddBatch(w)
      PROVE  FanoutInv'
  <2>1. UNCHANGED <<event, followers>> /\ fw[w].step = "add"
    BY <1>3 DEF F!AddBatch
  <2>2. CASE F!Cardinality(fw[w].page) < BatchSize
    BY <1>3, <2>1, <2>2, ReturnKeeps DEF F!AddBatch
  <2>3. CASE ~(F!Cardinality(fw[w].page) < BatchSize)
    <3> DEFINE top == F!Max(fw[w].page)
    <3>1. top \in Users
      BY <2>1, CursorInPage DEF FanoutInv, PagesInHand, FanoutRecords
    <3>2. fw' = [fw EXCEPT ![w].step = "page", ![w].after = top, ![w].page = {}]
          /\ fo' = fo
      BY <1>3, <2>3 DEF F!AddBatch
    <3> HIDE DEF top
    <3>3. fw' \in [FanoutWorkers -> FanoutRecords]
      <4> DEFINE r == [fw[w] EXCEPT !.step = "page", !.after = top, !.page = {}]
      <4>1. fw[w] \in FanoutRecords /\ top \in F!Cursors
        BY <3>1 DEF FanoutInv, F!Cursors
      <4>2. r \in FanoutRecords
        BY <4>1 DEF FanoutRecords
      <4>3. fw' = [fw EXCEPT ![w] = r]
        BY <3>2
      <4> HIDE DEF r
      <4> QED BY <4>2, <4>3 DEF FanoutInv
    <3>4. PagesInHand'
      BY <3>2, <2>1 DEF FanoutInv, FanoutRecords, PagesInHand
    <3>5. QED
      BY <3>2, <3>3, <3>4, <2>1 DEF FanoutInv
  <2>4. QED
    BY <2>2, <2>3
<1>4. QED
  BY <1>1, <1>2, <1>3 DEF F!WorkerStep

LEMMA FaultKeeps ==
    ASSUME FanoutInv, F!FaultStep
    PROVE  FanoutInv'
<1>1. ASSUME NEW w \in FanoutWorkers, F!Throw(w) \/ F!Die(w)
      PROVE  FanoutInv'
  <2>1. /\ UNCHANGED <<event, followers>> /\ fw[w].step # "idle"
        /\ fw' = [fw EXCEPT ![w] = F!Idle]
        /\ \/ fo' = fo
           \/ fo' = F!Thrown(fo, fw[w].job)
           \/ fo' = F!Stalled(fo, fw[w].job)
    BY <1>1 DEF F!Throw, F!Die
  <2>2. fo' \in [F!FanoutIds -> F!JobRecords(F!FanoutData)]
    BY <2>1, QueueKeepsType DEF FanoutInv, PagesInHand
  <2>3. QED
    BY <2>1, <2>2, IdleKeeps
<1>2. ASSUME NEW w \in FanoutWorkers, F!LoseLock(w)
      PROVE  FanoutInv'
  <2>1. /\ UNCHANGED <<event, followers>> /\ fw[w].locked
        /\ fw' = [fw EXCEPT ![w].locked = FALSE]
        /\ fo' = F!Stalled(fo, fw[w].job)
    BY <1>2 DEF F!LoseLock
  <2>2. fo' \in [F!FanoutIds -> F!JobRecords(F!FanoutData)]
    BY <2>1, QueueKeepsType DEF FanoutInv, PagesInHand
  <2>3. fw' \in [FanoutWorkers -> FanoutRecords] /\ PagesInHand'
    BY <2>1 DEF FanoutInv, FanoutRecords, PagesInHand
  <2>4. QED
    BY <2>1, <2>2, <2>3 DEF FanoutInv
<1>3. ASSUME NEW id \in F!FanoutIds, F!Expire(id)
      PROVE  FanoutInv'
  <2>1. UNCHANGED <<event, followers, fw>> /\ fo' = F!Forgotten(fo, id)
    BY <1>3 DEF F!Expire
  <2>2. fo' \in [F!FanoutIds -> F!JobRecords(F!FanoutData)]
    BY <2>1, QueueKeepsType DEF FanoutInv
  <2>3. QED
    BY <2>1, <2>2 DEF FanoutInv, PagesInHand
<1>4. QED
  BY <1>1, <1>2, <1>3 DEF F!FaultStep

LEMMA OutsideKeeps ==
    ASSUME FanoutInv, OutsideStep
    PROVE  FanoutInv'
<1>1. UNCHANGED <<fo, fw>>
  BY DEF OutsideStep, F!Follow, F!Unfollow, F!UpsertEvent, F!Tick
<1>2. followers' \in [Events -> SUBSET Users]
  BY DEF OutsideStep, F!Follow, F!Unfollow, F!UpsertEvent, F!Tick, FanoutInv
<1>3. event' \in [Events -> F!EventRow]
  BY RemindersAssumption
     DEF OutsideStep, F!Follow, F!Unfollow, F!UpsertEvent, F!Tick, FanoutInv
<1>4. QED
  BY <1>1, <1>2, <1>3 DEF FanoutInv, PagesInHand

LEMMA StepKeeps == FanoutInv /\ [Next]_vars => FanoutInv'
<1> SUFFICES ASSUME FanoutInv, [Next]_vars PROVE FanoutInv'
  OBVIOUS
<1>1. ASSUME UNCHANGED <<event, followers, fo, fw>> PROVE FanoutInv'
  BY <1>1 DEF FanoutInv, PagesInHand
<1>2. CASE UNCHANGED vars
  BY <1>1, <1>2 DEF vars, fanoutVars
<1>3. CASE ScanStep \/ FanoutFault \/ OutsideStep
  BY <1>3, ScanKeeps, FaultKeeps, OutsideKeeps DEF ScanStep, FanoutFault
<1>4. CASE \E w \in FanoutWorkers : FanoutWorkerStep(w)
  BY <1>4, WorkerKeeps DEF FanoutWorkerStep
<1>5. CASE DeliveryOutside \/ \E w \in BatchWorkers : BatchWorkerStep(w)
  BY <1>1, <1>5 DEF DeliveryOutside, BatchWorkerStep, fanoutVars
<1>6. QED
  BY <1>2, <1>3, <1>4, <1>5 DEF Next
-----------------------------------------------------------------------------
(* The page a fan-out adds is a batch job the delivery tier may be given.   *)
LEMMA AddIsEnqueue ==
    ASSUME FanoutInv, NEW w \in FanoutWorkers, UNCHANGED deliveryVars, F!AddBatch(w)
    PROVE  \E id \in D!BatchIds, data \in D!BatchData : D!Enqueue(id, data)
<1> DEFINE id == <<fw[w].job[1], fw[w].job[2], fw[w].after>>
           data == [users |-> fw[w].page, timed |-> fo[fw[w].job].data.timed]
<1>1. fw[w].step = "add" /\ fw[w].job \in F!FanoutIds
  BY DEF F!AddBatch, FanoutInv, PagesInHand
<1>2. id \in D!BatchIds
  BY <1>1 DEF FanoutInv, FanoutRecords, F!FanoutIds, F!Cursors, D!BatchIds
<1>3. data \in D!BatchData /\ data.users # {}
  BY <1>1 DEF FanoutInv, FanoutRecords, PagesInHand, F!JobRecords, F!FanoutData, D!BatchData
<1>4. bt' = D!Added(bt, id, data)
  BY DEF F!AddBatch, F!Added, D!Added, F!JobOf, D!JobOf
<1>5. D!Enqueue(id, data)
  BY <1>3, <1>4 DEF D!Enqueue, deliveryVars
<1>6. QED
  BY <1>2, <1>3, <1>5

(* Every step of the pipeline is a step of the delivery tier or none at all *)
(* to it.                                                                   *)
LEMMA StepRefines == FanoutInv /\ [Next]_vars => [D!Next]_(D!vars)
<1> SUFFICES ASSUME FanoutInv, [Next]_vars PROVE [D!Next]_(D!vars)
  OBVIOUS
<1>1. ASSUME UNCHANGED <<deliveryVars, bt>> PROVE UNCHANGED D!vars
  BY <1>1 DEF deliveryVars, D!vars
<1>2. CASE UNCHANGED vars
  BY <1>1, <1>2 DEF vars
<1>3. CASE ScanStep \/ FanoutFault \/ OutsideStep
  <2>1. UNCHANGED <<deliveryVars, bt>>
    BY <1>3 DEF ScanStep, FanoutFault, OutsideStep, F!Scan, F!FaultStep, F!Throw, F!Die,
                F!LoseLock, F!Expire, F!Follow, F!Unfollow, F!UpsertEvent, F!Tick
  <2>2. QED
    BY <1>1, <2>1
<1>4. ASSUME NEW w \in FanoutWorkers, FanoutWorkerStep(w)
      PROVE  [D!Next]_(D!vars)
  <2>1. CASE F!AddBatch(w)
    BY <1>4, <2>1, AddIsEnqueue DEF FanoutWorkerStep, D!Next
  <2>2. CASE F!ReadPage(w) \/ \E id \in F!FanoutIds : F!StartFanout(w, id)
    <3>1. UNCHANGED <<deliveryVars, bt>>
      BY <1>4, <2>2 DEF FanoutWorkerStep, F!ReadPage, F!StartFanout
    <3>2. QED
      BY <1>1, <3>1
  <2>3. QED
    BY <1>4, <2>1, <2>2 DEF FanoutWorkerStep, F!WorkerStep
<1>5. CASE DeliveryOutside \/ \E w \in BatchWorkers : BatchWorkerStep(w)
  BY <1>5 DEF DeliveryOutside, BatchWorkerStep, D!Next, D!DeliveryStep
<1>6. QED
  BY <1>2, <1>3, <1>4, <1>5 DEF Next

(* The pipeline implements the delivery tier under arbitrary arrivals: what *)
(* module DeliveryProofs shows of that tier (nobody is told twice, the      *)
(* ledger is true) is so of the pipeline, whatever scans and fan-outs do.   *)
THEOREM PipelineIsDelivery == Spec => DeliverySpec
<1>1. Init => D!Init
  BY DEF Init
<1>2. Init => FanoutInv
  BY InitFanoutInv
<1>3. FanoutInv /\ [Next]_vars => FanoutInv' /\ [D!Next]_(D!vars)
  BY StepKeeps, StepRefines
<1>4. QED
  BY <1>1, <1>2, <1>3, PTL DEF Spec, DeliverySpec, D!Spec

-----------------------------------------------------------------------------
(* The theorems of DeliveryProofs, instantiated with the pipeline's state.  *)
DP == INSTANCE DeliveryProofs WITH Cursors <- {0} \cup Users

(* The two instances of Delivery, the composed one and the proved one, have *)
(* the same steps; nothing but their definitions is needed for that.        *)
LEMMA SameInit == D!Init => DP!Init
BY DEF D!Init, DP!Init, D!BatchIds, DP!BatchIds, D!Row, DP!Row, D!Idle, DP!Idle,
       D!JobOf, DP!JobOf

LEMMA SameStep == [D!Next]_(D!vars) => [DP!Next]_(DP!vars)
BY DEF D!vars, DP!vars, D!Next, DP!Next, D!DeliveryStep, DP!DeliveryStep,
       D!FaultStep, DP!FaultStep, D!ReaderStep, DP!ReaderStep,
       D!WorkerStep, DP!WorkerStep, D!StartBatch, DP!StartBatch,
       D!LoadTargets, DP!LoadTargets, D!Claim, DP!Claim,
       D!SendFulfilled, DP!SendFulfilled, D!SendRejected, DP!SendRejected,
       D!MarkFailed, DP!MarkFailed, D!Finish, DP!Finish, D!Throw, DP!Throw,
       D!Die, DP!Die, D!LoseLock, DP!LoseLock, D!Expire, DP!Expire,
       D!SavePrefs, DP!SavePrefs, D!SavePushSubscription, DP!SavePushSubscription,
       D!DeletePushSubscription, DP!DeletePushSubscription, D!Enqueue, DP!Enqueue,
       D!BatchIds, DP!BatchIds, D!BatchData, DP!BatchData, D!Row, DP!Row,
       D!Return, DP!Return, D!CandidateRows, DP!CandidateRows, D!Won, DP!Won,
       D!ToSend, DP!ToSend, D!PhaseOf, DP!PhaseOf, D!Holds, DP!Holds,
       D!AtQuery, DP!AtQuery, D!Fault, DP!Fault, D!Change, DP!Change,
       D!Idle, DP!Idle, D!Wanted, DP!Wanted, D!Reachable, DP!Reachable,
       D!Added, DP!Added, D!Taken, DP!Taken, D!Completed, DP!Completed,
       D!Thrown, DP!Thrown, D!Stalled, DP!Stalled, D!Ended, DP!Ended,
       D!Forgotten, DP!Forgotten, D!JobOf, DP!JobOf

(* The pipeline's constants are ones the delivery tier allows for. *)
LEMMA DPHypotheses ==
    /\ Channels = {"webpush", "email"}
    /\ NoJob \notin DP!BatchIds
    /\ Mailless \subseteq Users
    /\ PrefChoices \subseteq DP!Prefs
    /\ InitPrefs \in DP!Prefs
    /\ MaxFaults \in Nat
    /\ MaxChanges \in Nat
    /\ MaxAttempts \in Nat \ {0} /\ MaxStalls \in Nat
BY RemindersAssumption DEF DP!BatchIds, D!BatchIds, DP!Prefs, D!Prefs

(* End to end: no reader is successfully sent the same reminder on one      *)
(* channel twice, by any run of the whole pipeline.                         *)
THEOREM PipelineTellsOnce == Spec => []ReadersToldAtMostOnce
<1>1. DP!Spec => []DP!ToldAtMostOnce
  BY DPHypotheses, DP!AtMostOnce
<1>2. D!Spec => DP!Spec
  BY SameInit, SameStep, PTL DEF D!Spec, DP!Spec
<1>3. DP!ToldAtMostOnce => ReadersToldAtMostOnce
  BY DEF DP!ToldAtMostOnce, ReadersToldAtMostOnce, D!ToldAtMostOnce, DP!Row, D!Row
<1>4. QED
  BY <1>1, <1>2, <1>3, PipelineIsDelivery, PTL DEF DeliverySpec
-----------------------------------------------------------------------------
(* Where a told row comes from.  A start some scan matched, a job, a worker *)
(* on the job, a page, the batch that carries it, the rows a delivery       *)
(* worker made of the batch: each is there only because of the one before,  *)
(* and what a scan matched and a fan-out paged stays on record.             *)
Matched(e, o) == \E s \in Int : <<e, o, s>> \in scanned
Backed(r) == /\ Matched(r.event, r.offset)
             /\ \E c \in F!Cursors : r.user \in paged[<<r.event, r.offset, c>>]

FanoutTrace ==
    /\ now \in Nat
    /\ scanned \subseteq Events \X Offsets \X Int
    /\ paged \in [F!BatchIds -> SUBSET Users]
    /\ \A x \in scanned : x[3] - x[2] <= now
    /\ \A id \in F!FanoutIds : fo[id].status # "absent" => Matched(id[1], id[2])
    /\ \A w \in FanoutWorkers : fw[w].step # "idle" \/ fw[w].locked => Matched(fw[w].job[1], fw[w].job[2])
    /\ \A k \in F!BatchIds : /\ paged[k] # {} => Matched(k[1], k[2])
                             /\ bt[k].data.users \subseteq paged[k]
TraceInv ==
    /\ FanoutTrace
    /\ \A w \in BatchWorkers : \A r \in bw[w].todo \cup bw[w].failed : Backed(r)
    /\ \A r \in D!Row : told[r] >= 1 => Backed(r)

(* What the delivery tier's own proof shows of the shapes of its state. *)
WorkerRecords == [job : D!BatchIds \cup {NoJob}, step : {"idle", "load", "claim", "send"},
                  todo : SUBSET D!Row, failed : SUBSET D!Row, locked : BOOLEAN]
DeliveryTypes ==
    /\ bt \in [F!BatchIds -> D!JobRecords(D!BatchData)]
    /\ bw \in [BatchWorkers -> WorkerRecords]
    /\ told \in [D!Row -> Nat]
    /\ \A w \in BatchWorkers : bw[w].step # "idle" \/ bw[w].locked => bw[w].job \in D!BatchIds

LEMMA SameIds == F!BatchIds = D!BatchIds
BY DEF F!BatchIds, D!BatchIds, F!Cursors

(* What was scanned and paged stays so, and the clock does not go back. *)
Grow == /\ now' \in Nat /\ now <= now'
        /\ scanned \subseteq scanned'
        /\ \A k \in F!BatchIds : paged[k] \subseteq paged'[k]

LEMMA StaysBacked ==
    ASSUME Grow
    PROVE  /\ \A e, o : Matched(e, o) => Matched(e, o)'
           /\ \A r \in D!Row : Backed(r) => Backed(r)'
<1>1. \A e, o : Matched(e, o) => Matched(e, o)'
  BY DEF Grow, Matched
<1>2. ASSUME NEW r \in D!Row, Backed(r)
      PROVE  Backed(r)'
  <2>1. PICK c \in F!Cursors : r.user \in paged[<<r.event, r.offset, c>>]
    BY <1>2 DEF Backed
  <2>2. <<r.event, r.offset, c>> \in F!BatchIds
    BY DEF D!Row, F!BatchIds
  <2>3. r.user \in paged'[<<r.event, r.offset, c>>]
    BY <2>1, <2>2 DEF Grow
  <2>4. Matched(r.event, r.offset)'
    BY <1>1, <1>2 DEF Backed
  <2>5. QED
    BY <2>3, <2>4 DEF Backed
<1>3. QED
  BY <1>1, <1>2

LEMMA InitTrace == Init => TraceInv
<1> SUFFICES ASSUME Init PROVE TraceInv
  OBVIOUS
<1>1. /\ now = 0 /\ scanned = {} /\ paged = [id \in F!BatchIds |-> {}]
      /\ \A id \in F!FanoutIds : fo[id].status = "absent"
      /\ \A w \in FanoutWorkers : fw[w].step = "idle" /\ ~fw[w].locked
  BY DEF Init, F!JobOf, F!Idle
<1>2. /\ \A k \in F!BatchIds : bt[k].data.users = {}
      /\ \A w \in BatchWorkers : bw[w].todo = {} /\ bw[w].failed = {}
      /\ \A r \in D!Row : told[r] = 0
  BY SameIds DEF Init, D!Init, D!JobOf, D!Idle
<1>3. QED
  BY <1>1, <1>2 DEF TraceInv, FanoutTrace

LEMMA ScanTrace ==
    ASSUME FanoutInv, FanoutTrace, F!Scan
    PROVE  Grow /\ FanoutTrace'
<1> DEFINE data(id) == [startsAt |-> event[id[1]].startsAt,
                        timed |-> event[id[1]].class = "timed"]
<1>1. /\ UNCHANGED <<now, fw, bt, paged, event>>
      /\ scanned' = scanned \cup {<<id[1], id[2], event[id[1]].startsAt>> : id \in F!DuePairs}
      /\ \A id \in F!FanoutIds :
            id \in F!DuePairs \/ fo'[id] = fo[id]
  BY DEF F!Scan
<1>2. \A id \in F!DuePairs : id \in F!FanoutIds /\ event[id[1]].startsAt - id[2] <= now
  BY DEF F!DuePairs, F!IsDue, F!DueAt
<1>3. \A id \in F!DuePairs : /\ event[id[1]].startsAt \in Int
                             /\ <<id[1], id[2], event[id[1]].startsAt>> \in Events \X Offsets \X Int
  BY <1>2 DEF FanoutInv, F!FanoutIds, F!EventRow
<1>4. Grow
  BY <1>1 DEF Grow, FanoutTrace
<1>5. \A id \in F!DuePairs : Matched(id[1], id[2])'
  BY <1>1, <1>3 DEF Matched
<1>6. scanned' \subseteq Events \X Offsets \X Int
  BY <1>1, <1>3 DEF FanoutTrace
<1>7. ASSUME NEW x \in scanned'
      PROVE  x[3] - x[2] <= now'
  <2>1. CASE x \in scanned
    BY <1>1, <2>1 DEF FanoutTrace
  <2>2. CASE \E id \in F!DuePairs : x = <<id[1], id[2], event[id[1]].startsAt>>
    BY <1>1, <1>2, <2>2
  <2>3. QED
    BY <1>1, <1>7, <2>1, <2>2
<1>8. \A id \in F!FanoutIds : fo'[id].status # "absent" => Matched(id[1], id[2])'
  BY <1>1, <1>4, <1>5, StaysBacked DEF FanoutTrace
<1>9. QED
  BY <1>1, <1>4, <1>6, <1>7, <1>8, StaysBacked DEF FanoutTrace

(* A table whose jobs that are there were there, workers on jobs they were  *)
(* on: nothing new is claimed to have been scanned.                         *)
LEMMA KeepsTrace ==
    ASSUME FanoutTrace, UNCHANGED <<bt, scanned, paged>>, now' \in Nat, now <= now',
           \A id \in F!FanoutIds : fo'[id].status # "absent" =>
               fo[id].status # "absent" \/ Matched(id[1], id[2]),
           \A w \in FanoutWorkers : fw'[w].step # "idle" \/ fw'[w].locked =>
               Matched(fw'[w].job[1], fw'[w].job[2])
    PROVE  Grow /\ FanoutTrace'
<1>1. Grow
  BY DEF Grow, FanoutTrace
<1>2. \A x \in scanned' : x[3] - x[2] <= now'
  <2>1. \A x \in scanned : x[2] \in Int /\ x[3] \in Int
    <3>1. Offsets \subseteq Int /\ scanned \subseteq Events \X Offsets \X Int
      BY RemindersAssumption DEF FanoutTrace
    <3>2. QED
      BY <3>1
  <2>2. \A x \in scanned : x[3] - x[2] <= now /\ now \in Nat
    BY DEF FanoutTrace
  <2>3. QED
    BY <2>1, <2>2
<1>3. /\ \A id \in F!FanoutIds : fo'[id].status # "absent" => Matched(id[1], id[2])'
      /\ \A w \in FanoutWorkers : fw'[w].step # "idle" \/ fw'[w].locked =>
            Matched(fw[w].job[1], fw[w].job[2])'
  <2>1. \A id \in F!FanoutIds : fo'[id].status # "absent" => Matched(id[1], id[2])'
    BY <1>1, StaysBacked DEF FanoutTrace
  <2>2. ASSUME NEW w \in FanoutWorkers, Matched(fw'[w].job[1], fw'[w].job[2])
        PROVE  Matched(fw[w].job[1], fw[w].job[2])'
    BY <2>2 DEF Matched
  <2>3. QED
    BY <2>1, <2>2
<1>4. QED
  BY <1>1, <1>2, <1>3, StaysBacked DEF FanoutTrace

(* Ending or re-queueing a job makes none appear. *)
LEMMA NoneAppears ==
    ASSUME NEW id \in F!FanoutIds, NEW j \in F!FanoutIds, FanoutInv,
           fo' \in {fo, F!Taken(fo, j), F!Completed(fo, j), F!Thrown(fo, j), F!Stalled(fo, j),
                    F!Forgotten(fo, j)}
    PROVE  fo'[id].status # "absent" => fo[id].status # "absent" \/ id = j
<1>1. CASE id = j
  BY <1>1
<1>2. CASE id # j
  BY <1>2 DEF FanoutInv, F!Taken, F!Completed, F!Thrown, F!Stalled, F!Forgotten
<1>3. QED
  BY <1>1, <1>2

LEMMA WorkerTrace ==
    ASSUME FanoutInv, FanoutTrace, DeliveryTypes, NEW w \in FanoutWorkers, F!WorkerStep(w)
    PROVE  Grow /\ FanoutTrace'
<1>1. now' = now /\ scanned' = scanned /\ fw \in [FanoutWorkers -> FanoutRecords] /\ now \in Nat
  BY DEF F!WorkerStep, F!StartFanout, F!ReadPage, F!AddBatch, F!history, FanoutInv, FanoutTrace
<1>2. ASSUME NEW id \in F!FanoutIds, F!StartFanout(w, id)
      PROVE  Grow /\ FanoutTrace'
  <2> DEFINE r == [job |-> id, step |-> "page", after |-> 0, page |-> {}, locked |-> TRUE]
  <2>1. Matched(id[1], id[2])
    BY <1>2 DEF F!StartFanout, FanoutTrace
  <2>2. /\ UNCHANGED <<bt, paged>> /\ fo' \in {F!Taken(fo, id), F!Completed(fo, id)}
        /\ fw' = fw \/ fw' = [fw EXCEPT ![w] = r]
    BY <1>2 DEF F!StartFanout
  <2>3. r.job = id
    OBVIOUS
  <2> HIDE DEF r
  <2>4. \A v \in FanoutWorkers : fw'[v].step # "idle" \/ fw'[v].locked =>
            Matched(fw'[v].job[1], fw'[v].job[2])
    BY <1>1, <2>1, <2>2, <2>3 DEF FanoutTrace
  <2>5. \A i \in F!FanoutIds : fo'[i].status # "absent" =>
            fo[i].status # "absent" \/ Matched(i[1], i[2])
    BY <2>1, <2>2, NoneAppears
  <2>6. QED
    BY <1>1, <2>2, <2>4, <2>5, KeepsTrace
<1>3. ASSUME F!Return(w), UNCHANGED <<bt, paged>>
      PROVE  Grow /\ FanoutTrace'
  <2>1. /\ fw' = [fw EXCEPT ![w] = F!Idle] /\ fo' \in {F!Completed(fo, fw[w].job), fo}
        /\ ~fw[w].locked => fo' = fo
    BY <1>3 DEF F!Return
  <2>2. \A v \in FanoutWorkers : fw'[v].step # "idle" \/ fw'[v].locked =>
            Matched(fw'[v].job[1], fw'[v].job[2])
    BY <1>1, <2>1 DEF FanoutTrace, F!Idle
  <2>3. fw[w].locked => fw[w].job \in F!FanoutIds /\ Matched(fw[w].job[1], fw[w].job[2])
    BY DEF FanoutTrace, FanoutInv, PagesInHand
  <2>4. \A i \in F!FanoutIds : fo'[i].status # "absent" =>
            fo[i].status # "absent" \/ Matched(i[1], i[2])
    BY <2>1, <2>3, NoneAppears
  <2>5. QED
    BY <1>1, <1>3, <2>2, <2>4, KeepsTrace
<1>4. ASSUME F!ReadPage(w)
      PROVE  Grow /\ FanoutTrace'
  <2> DEFINE page == F!NextPage(fw[w].job[1], fw[w].after)
             r == [fw[w] EXCEPT !.step = "add", !.page = page]
  <2>1. UNCHANGED <<bt, paged>> /\ fw[w].step = "page"
    BY <1>4 DEF F!ReadPage, F!history
  <2>2. CASE page = {}
    BY <1>3, <1>4, <2>1, <2>2 DEF F!ReadPage
  <2>3. CASE page # {}
    <3>1. fw' = [fw EXCEPT ![w] = r] /\ fo' = fo
      BY <1>4, <2>3 DEF F!ReadPage
    <3>2. r.job = fw[w].job
      BY <1>1 DEF FanoutRecords
    <3> HIDE DEF r, page
    <3>3. \A v \in FanoutWorkers : fw'[v].step # "idle" \/ fw'[v].locked =>
              Matched(fw'[v].job[1], fw'[v].job[2])
      BY <1>1, <2>1, <3>1, <3>2 DEF FanoutTrace
    <3>4. QED
      BY <1>1, <2>1, <3>1, <3>3, KeepsTrace
  <2>4. QED
    BY <2>2, <2>3
<1>5. ASSUME F!AddBatch(w)
      PROVE  Grow /\ FanoutTrace'
  <2> DEFINE me == fw[w]
             k == <<fw[w].job[1], fw[w].job[2], fw[w].after>>
             data == [users |-> fw[w].page, timed |-> fo[fw[w].job].data.timed]
  <2>1. /\ fw[w].step = "add" /\ bt' = F!Added(bt, k, data)
        /\ paged' = IF bt[k].status = "absent"
                    THEN [paged EXCEPT ![k] = @ \cup fw[w].page] ELSE paged
    BY <1>5 DEF F!AddBatch
  <2>2. /\ fw[w].job \in F!FanoutIds /\ fw[w].page \in SUBSET Users /\ k \in F!BatchIds
        /\ Matched(fw[w].job[1], fw[w].job[2])
    BY <1>1, <2>1 DEF FanoutInv, PagesInHand, FanoutRecords, F!FanoutIds, F!BatchIds, FanoutTrace
  <2>3. Matched(k[1], k[2]) /\ data.users = fw[w].page
    BY <2>2
  <2> HIDE DEF k, data
  <2>4. /\ paged' \in [F!BatchIds -> SUBSET Users]
        /\ \A i \in F!BatchIds : paged[i] \subseteq paged'[i]
        /\ \A i \in F!BatchIds : i # k => paged'[i] = paged[i] /\ bt'[i] = bt[i]
    BY <2>1, <2>2 DEF FanoutTrace, DeliveryTypes, F!Added
  <2>5. bt'[k].data.users \subseteq paged'[k]
    <3>1. CASE bt[k].status = "absent"
      <4>1. bt'[k] = F!JobOf("waiting", data)
        BY <2>1, <2>2, <3>1 DEF F!Added, DeliveryTypes
      <4>2. bt'[k].data.users = fw[w].page
        BY <2>3, <4>1 DEF F!JobOf
      <4>3. QED
        BY <2>1, <2>2, <3>1, <4>2 DEF FanoutTrace
    <3>2. CASE bt[k].status # "absent"
      BY <2>1, <2>2, <3>2 DEF F!Added, FanoutTrace
    <3>3. QED
      BY <3>1, <3>2
  <2>6. Grow
    BY <1>1, <2>4 DEF Grow
  <2>7. \A v \in FanoutWorkers : fw'[v].step # "idle" \/ fw'[v].locked =>
            Matched(fw'[v].job[1], fw'[v].job[2])
    <3>1. CASE F!Return(w)
      BY <1>1, <3>1 DEF F!Return, F!Idle, FanoutTrace
    <3>2. CASE ~F!Return(w)
      <4> DEFINE r == [fw[w] EXCEPT !.step = "page", !.after = F!Max(me.page), !.page = {}]
      <4>1. fw' = [fw EXCEPT ![w] = r]
        BY <1>5, <3>2 DEF F!AddBatch
      <4>2. r.job = fw[w].job
        BY <1>1 DEF FanoutRecords
      <4> HIDE DEF r, me
      <4>3. QED
        BY <1>1, <2>2, <4>1, <4>2 DEF FanoutTrace
    <3>3. QED
      BY <3>1, <3>2
  <2>8. \A i \in F!FanoutIds : fo'[i].status # "absent" =>
            fo[i].status # "absent" \/ Matched(i[1], i[2])
    <3>1. fo' \in {F!Completed(fo, fw[w].job), fo}
      BY <1>5 DEF F!AddBatch, F!Return
    <3>2. QED
      BY <2>2, <3>1, NoneAppears
  <2>9. /\ \A i \in F!FanoutIds : fo'[i].status # "absent" => Matched(i[1], i[2])'
        /\ \A v \in FanoutWorkers : fw'[v].step # "idle" \/ fw'[v].locked =>
              Matched(fw[v].job[1], fw[v].job[2])'
    <3>1. \A i \in F!FanoutIds : fo'[i].status # "absent" => Matched(i[1], i[2])'
      BY <2>6, <2>8, StaysBacked DEF FanoutTrace
    <3>2. ASSUME NEW v \in FanoutWorkers, Matched(fw'[v].job[1], fw'[v].job[2])
          PROVE  Matched(fw[v].job[1], fw[v].job[2])'
      BY <1>1, <3>2 DEF Matched
    <3>3. QED
      BY <2>7, <3>1, <3>2
  <2>10. \A i \in F!BatchIds : /\ paged'[i] # {} => Matched(i[1], i[2])'
                               /\ bt'[i].data.users \subseteq paged'[i]
    <3>1. ASSUME NEW i \in F!BatchIds, i # k
          PROVE  /\ paged'[i] # {} => Matched(i[1], i[2])'
                 /\ bt'[i].data.users \subseteq paged'[i]
      BY <2>4, <2>6, <3>1, StaysBacked DEF FanoutTrace
    <3>2. \A i \in F!BatchIds : i = k => Matched(i[1], i[2])'
      BY <1>1, <2>3 DEF Matched
    <3>3. QED
      BY <2>5, <3>1, <3>2
  <2>11. /\ scanned' \subseteq Events \X Offsets \X Int
         /\ \A x \in scanned' : x[3] - x[2] <= now'
    BY <1>1 DEF FanoutTrace
  <2>12. QED
    BY <1>1, <2>4, <2>6, <2>9, <2>10, <2>11 DEF FanoutTrace
<1>6. QED
  BY <1>2, <1>4, <1>5 DEF F!WorkerStep

LEMMA FaultTrace ==
    ASSUME FanoutInv, FanoutTrace, F!FaultStep
    PROVE  Grow /\ FanoutTrace'
<1>1. /\ UNCHANGED <<now, bt, scanned, paged>> /\ now \in Nat
      /\ fw \in [FanoutWorkers -> FanoutRecords]
  BY DEF F!FaultStep, F!Throw, F!Die, F!LoseLock, F!Expire, F!history, FanoutTrace, FanoutInv
<1>2. ASSUME NEW w \in FanoutWorkers, F!Throw(w) \/ F!Die(w) \/ F!LoseLock(w)
      PROVE  Grow /\ FanoutTrace'
  <2> DEFINE r == [fw[w] EXCEPT !.locked = FALSE]
  <2>1. /\ fw[w].job \in F!FanoutIds /\ Matched(fw[w].job[1], fw[w].job[2])
        /\ fo' \in {fo, F!Thrown(fo, fw[w].job), F!Stalled(fo, fw[w].job)}
        /\ fw' = [fw EXCEPT ![w] = F!Idle] \/ fw' = [fw EXCEPT ![w] = r]
    BY <1>2 DEF F!Throw, F!Die, F!LoseLock, FanoutInv, PagesInHand, FanoutTrace
  <2>2. r.job = fw[w].job
    BY <1>1 DEF FanoutRecords
  <2> HIDE DEF r
  <2>3. \A v \in FanoutWorkers : fw'[v].step # "idle" \/ fw'[v].locked =>
            Matched(fw'[v].job[1], fw'[v].job[2])
    BY <1>1, <2>1, <2>2 DEF FanoutTrace, F!Idle
  <2>4. \A i \in F!FanoutIds : fo'[i].status # "absent" =>
            fo[i].status # "absent" \/ Matched(i[1], i[2])
    BY <2>1, NoneAppears
  <2>5. QED
    BY <1>1, <2>3, <2>4, KeepsTrace
<1>3. ASSUME NEW id \in F!FanoutIds, F!Expire(id)
      PROVE  Grow /\ FanoutTrace'
  <2>1. fo' = F!Forgotten(fo, id) /\ fw' = fw /\ fo[id].status # "absent"
    BY <1>3 DEF F!Expire, F!Ended
  <2>2. \A i \in F!FanoutIds : fo'[i].status # "absent" =>
            fo[i].status # "absent" \/ Matched(i[1], i[2])
    BY <2>1, NoneAppears
  <2>3. QED
    BY <1>1, <2>1, <2>2, KeepsTrace DEF FanoutTrace
<1>4. QED
  BY <1>2, <1>3 DEF F!FaultStep

LEMMA OutsideTrace ==
    ASSUME FanoutTrace, OutsideStep
    PROVE  Grow /\ FanoutTrace'
<1>1. UNCHANGED <<bt, scanned, paged, fo, fw>>
  BY DEF OutsideStep, F!Follow, F!Unfollow, F!UpsertEvent, F!Tick, F!history
<1>2. now' \in Nat /\ now <= now'
  BY DEF OutsideStep, F!Follow, F!Unfollow, F!UpsertEvent, F!Tick, FanoutTrace
<1>3. QED
  BY <1>1, <1>2, KeepsTrace DEF FanoutTrace

(* What the delivery tier does to the batches leaves their readers alone.   *)
LEMMA DataStays ==
    ASSUME NEW Ids, NEW Data, NEW q \in [Ids -> D!JobRecords(Data)], NEW j \in Ids, NEW id \in Ids
    PROVE  /\ D!Taken(q, j)[id].data = q[id].data
           /\ D!Completed(q, j)[id].data = q[id].data
           /\ D!Thrown(q, j)[id].data = q[id].data
           /\ D!Stalled(q, j)[id].data = q[id].data
           /\ D!Forgotten(q, j)[id].data = q[id].data
<1>1. q[j] \in D!JobRecords(Data)
  OBVIOUS
<1>2. /\ D!Taken(q, j)[id].data = q[id].data
      /\ D!Completed(q, j)[id].data = q[id].data
  BY <1>1 DEF D!Taken, D!Completed, D!JobRecords
<1>3. D!Thrown(q, j)[id].data = q[id].data
  BY <1>1 DEF D!Thrown, D!JobRecords
<1>4. D!Stalled(q, j)[id].data = q[id].data
  BY <1>1 DEF D!Stalled, D!JobRecords
<1>5. D!Forgotten(q, j)[id].data = q[id].data
  BY <1>1 DEF D!Forgotten, D!JobOf
<1>6. QED
  BY <1>2, <1>3, <1>4, <1>5

(* The delivery tier makes rows only of the batches it is given.            *)
LEMMA BatchTrace ==
    ASSUME TraceInv, DeliveryTypes, DeliveryTypes', UNCHANGED fanoutVars,
           NEW w \in BatchWorkers, D!WorkerStep(w) \/ D!Throw(w) \/ D!Die(w) \/ D!LoseLock(w)
    PROVE  TraceInv'
<1>1. /\ UNCHANGED <<now, scanned, paged, fo, fw>> /\ now \in Nat
      /\ bw \in [BatchWorkers -> WorkerRecords] /\ told \in [D!Row -> Nat]
      /\ bt \in [D!BatchIds -> D!JobRecords(D!BatchData)]
  BY SameIds DEF fanoutVars, TraceInv, FanoutTrace, DeliveryTypes
<1>2. Grow
  BY <1>1 DEF Grow
<1>3. ASSUME NEW k \in F!BatchIds PROVE bt'[k].data = bt[k].data
  <2>1. k \in D!BatchIds
    BY <1>3, SameIds
  <2>2. ASSUME NEW id \in D!BatchIds, D!StartBatch(w, id) PROVE bt'[k].data = bt[k].data
    BY <1>1, <2>1, <2>2, DataStays DEF D!StartBatch
  <2>3. CASE D!Return(w)
    BY <1>1, <2>1, <2>3, DataStays DEF D!Return, DeliveryTypes
  <2>4. CASE D!Throw(w) \/ D!Die(w) \/ D!LoseLock(w)
    BY <1>1, <2>1, <2>4, DataStays DEF D!Throw, D!Die, D!LoseLock, DeliveryTypes
  <2>5. QED
    BY <2>2, <2>3, <2>4
    DEF D!WorkerStep, D!LoadTargets, D!Claim, D!SendFulfilled, D!SendRejected, D!MarkFailed, D!Finish
<1>4. FanoutTrace'
  BY <1>1, <1>2, <1>3, StaysBacked DEF TraceInv, FanoutTrace
<1>5. \A r \in D!Row : Backed(r) => Backed(r)'
  BY <1>2, StaysBacked
<1>6. ASSUME D!LoadTargets(w), NEW r \in D!CandidateRows(bw[w].job)
      PROVE  Backed(r)
  <2>1. bw[w].job \in F!BatchIds
    BY <1>6, SameIds DEF D!LoadTargets, DeliveryTypes
  <2>2. PICK c \in F!Cursors : bw[w].job = <<r.event, r.offset, c>>
    <3>1. r.event = bw[w].job[1] /\ r.offset = bw[w].job[2]
      BY <1>6 DEF D!CandidateRows
    <3>2. QED
      BY <2>1, <3>1 DEF F!BatchIds
  <2>3. r.user \in bt[bw[w].job].data.users
    BY <1>6 DEF D!CandidateRows
  <2>4. r.user \in paged[bw[w].job] /\ Matched(bw[w].job[1], bw[w].job[2])
    BY <2>1, <2>3 DEF TraceInv, FanoutTrace
  <2>5. QED
    BY <2>2, <2>4 DEF Backed
<1>7. ASSUME NEW v \in BatchWorkers, NEW r \in bw'[v].todo \cup bw'[v].failed
      PROVE  Backed(r)
  <2>1. CASE v # w
    <3>1. bw'[v] = bw[v]
      BY <1>1, <2>1 DEF D!WorkerStep, D!StartBatch, D!LoadTargets, D!Claim, D!SendFulfilled,
         D!SendRejected, D!MarkFailed, D!Finish, D!Return, D!Throw, D!Die, D!LoseLock
    <3>2. QED
      BY <1>7, <3>1 DEF TraceInv
  <2>2. CASE v = w
    <3>1. CASE bw' = [bw EXCEPT ![w] = D!Idle]
      BY <1>1, <1>7, <2>2, <3>1 DEF D!Idle
    <3>2. CASE D!LoadTargets(w)
      <4> DEFINE rows == D!CandidateRows(bw[w].job)
                 rec == [bw[w] EXCEPT !.step = "claim", !.todo = rows]
      <4>1. CASE rows = {}
        BY <3>1, <3>2, <4>1 DEF D!LoadTargets, D!Return
      <4>2. CASE rows # {}
        <5>1. bw' = [bw EXCEPT ![w] = rec]
          BY <3>2, <4>2 DEF D!LoadTargets
        <5>2. rec.todo = rows /\ rec.failed = bw[w].failed
          BY <1>1 DEF WorkerRecords
        <5> HIDE DEF rec
        <5>3. bw'[w] = rec
          BY <1>1, <5>1
        <5>4. r \in rows \/ r \in bw[w].failed
          BY <1>7, <2>2, <5>2, <5>3
        <5>5. QED
          BY <1>6, <3>2, <5>4 DEF TraceInv
      <4>3. QED
        BY <4>1, <4>2
    <3>3. CASE bw'[w].todo \cup bw'[w].failed \subseteq bw[w].todo \cup bw[w].failed
      BY <1>7, <2>2, <3>3 DEF TraceInv
    <3>4. CASE D!Claim(w)
      <4> DEFINE won == D!Won(bw[w].todo)
                 rec == [bw[w] EXCEPT !.step = "send", !.todo = won]
      <4>1. CASE won = {}
        BY <3>1, <3>4, <4>1 DEF D!Claim, D!Return
      <4>2. CASE won # {}
        <5>1. bw' = [bw EXCEPT ![w] = rec]
          BY <3>4, <4>2 DEF D!Claim
        <5>2. rec.todo \subseteq bw[w].todo /\ rec.failed = bw[w].failed
          BY <1>1 DEF WorkerRecords, D!Won
        <5> HIDE DEF rec
        <5>3. QED
          BY <1>1, <3>3, <5>1, <5>2
      <4>3. QED
        BY <4>1, <4>2
    <3>5. ASSUME NEW id \in D!BatchIds, D!StartBatch(w, id)
          PROVE  Backed(r)
      <4> DEFINE rec == [job |-> id, step |-> "load", todo |-> {}, failed |-> {}, locked |-> TRUE]
      <4>1. bw' = [bw EXCEPT ![w] = rec] /\ rec.todo = {} /\ rec.failed = {}
        BY <3>5 DEF D!StartBatch
      <4> HIDE DEF rec
      <4>2. QED
        BY <1>1, <1>7, <2>2, <4>1
    <3>6. ASSUME NEW x \in D!Row, D!SendFulfilled(w, x) \/ D!MarkFailed(w, x)
          PROVE  Backed(r)
      BY <1>1, <3>3, <3>6 DEF D!SendFulfilled, D!MarkFailed, WorkerRecords
    <3>7. ASSUME NEW x \in D!Row, D!SendRejected(w, x)
          PROVE  Backed(r)
      <4> DEFINE rec == [bw[w] EXCEPT !.todo = @ \ {x}, !.failed = @ \cup {x}]
      <4>1. bw' = [bw EXCEPT ![w] = rec] /\ x \in bw[w].todo
        BY <3>7 DEF D!SendRejected, D!ToSend
      <4>2. rec.todo \subseteq bw[w].todo /\ rec.failed = bw[w].failed \cup {x}
        BY <1>1 DEF WorkerRecords
      <4> HIDE DEF rec
      <4>3. QED
        BY <1>1, <3>3, <4>1, <4>2
    <3>8. CASE D!LoseLock(w)
      BY <1>1, <3>3, <3>8 DEF D!LoseLock, WorkerRecords
    <3>9. QED
      BY <3>1, <3>2, <3>4, <3>5, <3>6, <3>7, <3>8
      DEF D!WorkerStep, D!Finish, D!Return, D!Throw, D!Die
  <2>3. QED
    BY <2>1, <2>2
<1>8. ASSUME NEW r \in D!Row, told'[r] >= 1
      PROVE  Backed(r)
  <2>1. told'[r] = told[r] \/ r \in bw[w].todo
    BY <1>1 DEF D!WorkerStep, D!StartBatch, D!LoadTargets, D!Claim, D!SendFulfilled,
       D!SendRejected, D!MarkFailed, D!Finish, D!ToSend, D!Throw, D!Die, D!LoseLock
  <2>2. QED
    BY <1>8, <2>1 DEF TraceInv
<1>9. \A v \in BatchWorkers : bw'[v].todo \cup bw'[v].failed \subseteq D!Row
  <2>1. bw' \in [BatchWorkers -> WorkerRecords]
    BY DEF DeliveryTypes
  <2>2. QED
    BY <2>1 DEF WorkerRecords
<1>10. QED
  BY <1>4, <1>5, <1>7, <1>8, <1>9 DEF TraceInv

LEMMA StepTrace ==
    FanoutInv /\ TraceInv /\ DeliveryTypes /\ DeliveryTypes' /\ [Next]_vars => TraceInv'
<1> SUFFICES ASSUME FanoutInv, TraceInv, DeliveryTypes, DeliveryTypes', [Next]_vars
             PROVE  TraceInv'
  OBVIOUS
<1>1. ASSUME UNCHANGED deliveryVars, Grow, FanoutTrace'
      PROVE  TraceInv'
  <2>1. bw' = bw /\ told' = told /\ \A r \in D!Row : Backed(r) => Backed(r)'
    BY <1>1, StaysBacked DEF deliveryVars
  <2>2. \A w \in BatchWorkers : bw[w].todo \cup bw[w].failed \subseteq D!Row
    BY DEF DeliveryTypes, WorkerRecords
  <2>3. QED
    BY <1>1, <2>1, <2>2 DEF TraceInv
<1>2. CASE ScanStep \/ FanoutFault \/ OutsideStep
  <2>1. Grow /\ FanoutTrace' /\ UNCHANGED deliveryVars
    BY <1>2, ScanTrace, FaultTrace, OutsideTrace DEF ScanStep, FanoutFault, OutsideStep, TraceInv
  <2>2. QED
    BY <1>1, <2>1
<1>3. ASSUME NEW w \in FanoutWorkers, FanoutWorkerStep(w)
      PROVE  TraceInv'
  BY <1>1, <1>3, WorkerTrace DEF FanoutWorkerStep, TraceInv
<1>4. ASSUME NEW w \in BatchWorkers, BatchWorkerStep(w)
      PROVE  TraceInv'
  BY <1>4, BatchTrace DEF BatchWorkerStep
<1>5. ASSUME UNCHANGED fanoutVars, UNCHANGED <<bw, told>>,
             \A k \in F!BatchIds : bt'[k].data = bt[k].data
      PROVE  TraceInv'
  <2>1. Grow /\ FanoutTrace'
    <3>1. UNCHANGED <<now, scanned, paged, fo, fw>> /\ now \in Nat
      BY <1>5 DEF fanoutVars, TraceInv, FanoutTrace
    <3>2. Grow
      BY <3>1 DEF Grow
    <3>3. QED
      BY <1>5, <3>1, <3>2, StaysBacked DEF TraceInv, FanoutTrace
  <2>2. \A r \in D!Row : Backed(r) => Backed(r)'
    BY <2>1, StaysBacked
  <2>3. \A w \in BatchWorkers : bw[w].todo \cup bw[w].failed \subseteq D!Row
    BY DEF DeliveryTypes, WorkerRecords
  <2>4. QED
    BY <1>5, <2>1, <2>2, <2>3 DEF TraceInv
<1>6. CASE DeliveryOutside
  <2>1. UNCHANGED fanoutVars
    BY <1>6 DEF DeliveryOutside
  <2>2. ASSUME NEW w \in BatchWorkers, D!Throw(w) \/ D!Die(w) \/ D!LoseLock(w)
        PROVE  TraceInv'
    BY <2>1, <2>2, BatchTrace
  <2>3. ASSUME NEW id \in D!BatchIds, D!Expire(id)
        PROVE  TraceInv'
    <3>1. \A k \in F!BatchIds : bt'[k].data = bt[k].data
      BY <2>3, SameIds, DataStays DEF D!Expire, DeliveryTypes
    <3>2. QED
      BY <1>5, <2>1, <2>3, <3>1 DEF D!Expire
  <2>4. CASE D!ReaderStep
    <3>1. UNCHANGED <<bt, bw, told>>
      BY <2>4 DEF D!ReaderStep, D!SavePrefs, D!SavePushSubscription, D!DeletePushSubscription
    <3>2. QED
      BY <1>5, <2>1, <3>1
  <2>5. QED
    BY <1>6, <2>2, <2>3, <2>4 DEF DeliveryOutside, D!FaultStep
<1>7. CASE UNCHANGED vars
  BY <1>5, <1>7 DEF vars, fanoutVars, deliveryVars
<1>8. QED
  BY <1>2, <1>3, <1>4, <1>6, <1>7 DEF Next

(* The types of the delivery tier, from its own proof. *)
LEMMA DeliveryTyped == Spec => []DeliveryTypes
<1>1. DP!Spec => [](DP!TypeOK /\ DP!BusyHasJob /\ DP!Shape /\ DP!IInv)
  BY DPHypotheses, DP!Inductive
<1>2. D!Spec => DP!Spec
  BY SameInit, SameStep, PTL DEF D!Spec, DP!Spec
<1>3. DP!TypeOK /\ DP!BusyHasJob => DeliveryTypes
  <2>1. DP!Row = D!Row /\ DP!BatchIds = D!BatchIds
    BY DEF DP!Row, D!Row, DP!BatchIds, D!BatchIds
  <2>2. DP!JobRecords(DP!BatchData) = D!JobRecords(D!BatchData)
    BY DEF DP!JobRecords, D!JobRecords, DP!BatchData, D!BatchData, DP!Status, D!Status
  <2>3. QED
    BY <2>1, <2>2, SameIds DEF DP!TypeOK, DP!BusyHasJob, DeliveryTypes, WorkerRecords
<1>4. QED
  BY <1>1, <1>2, <1>3, PipelineIsDelivery, PTL DEF DeliverySpec

(* Told rows never come from nowhere: whoever is told was put on a page by  *)
(* a fan-out, for an offset of the fixture that some scan found due.        *)
THEOREM ToldRowsWereScanned == Spec => []ToldWereScanned
<1>1. Init => FanoutInv /\ TraceInv
  BY InitFanoutInv, InitTrace
<1>2. FanoutInv /\ TraceInv /\ DeliveryTypes /\ DeliveryTypes' /\ [Next]_vars
          => (FanoutInv /\ TraceInv)'
  BY StepKeeps, StepTrace
<1>3. TraceInv => ToldWereScanned
  <2> SUFFICES ASSUME TraceInv, NEW r \in D!Row, told[r] >= 1
               PROVE  /\ \E s \in {x[3] : x \in scanned} :
                           <<r.event, r.offset, s>> \in scanned /\ s - r.offset <= now
                      /\ r.user \in F!AllPaged(<<r.event, r.offset>>)
    BY DEF ToldWereScanned
  <2>1. Backed(r)
    BY DEF TraceInv
  <2>2. PICK s \in Int : <<r.event, r.offset, s>> \in scanned
    BY <2>1 DEF Backed, Matched
  <2>3. s - r.offset <= now
    BY <2>2 DEF TraceInv, FanoutTrace
  <2>4. r.user \in F!AllPaged(<<r.event, r.offset>>)
    BY <2>1 DEF Backed, F!AllPaged
  <2>5. QED
    BY <2>2, <2>3, <2>4
<1>4. QED
  BY <1>1, <1>2, <1>3, DeliveryTyped, PTL DEF Spec
=============================================================================
