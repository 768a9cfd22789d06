--------------------------- MODULE DeliveryProofs ---------------------------
(***************************************************************************)
(* Proofs about module Delivery, for every set of events, users, offsets   *)
(* and workers, and for every bound on faults and changes.                 *)
(***************************************************************************)
EXTENDS Delivery, TLAPS

WorkerRecords == [job : BatchIds \cup {NoJob},
                  step : {"idle", "load", "claim", "send"},
                  todo : SUBSET Row, failed : SUBSET Row, locked : BOOLEAN]

(* A worker that is executing is executing some job. *)
BusyHasJob == \A w \in BatchWorkers :
                  (bw[w].step # "idle" \/ bw[w].locked) => bw[w].job \in BatchIds

LEMMA IdleType == Idle \in WorkerRecords
BY DEF Idle, WorkerRecords

LEMMA InitType == Init => TypeOK /\ BusyHasJob
<1> SUFFICES ASSUME Init PROVE TypeOK /\ BusyHasJob
  OBVIOUS
<1> USE DeliveryAssumption DEF Init
<1>1. bt \in [BatchIds -> JobRecords(BatchData)]
  <2>1. JobOf("absent", [users |-> {}, timed |-> TRUE]) \in JobRecords(BatchData)
    BY DEF JobOf, JobRecords, Status, BatchData
  <2>2. QED
    BY <2>1
<1>2. bw \in [BatchWorkers -> WorkerRecords]
  BY IdleType
<1>3. BusyHasJob
  BY DEF BusyHasJob, Idle
<1>4. QED
  BY <1>1, <1>2, <1>3 DEF TypeOK, WorkerRecords

(* Return ends an execution; it is part of three actions. *)
LEMMA ReturnType ==
    ASSUME TypeOK, BusyHasJob, NEW w \in BatchWorkers, Return(w)
    PROVE  /\ bt' \in [BatchIds -> JobRecords(BatchData)]
           /\ bw' \in [BatchWorkers -> WorkerRecords]
           /\ BusyHasJob'
<1>1. bt' \in [BatchIds -> JobRecords(BatchData)]
  BY TakenType DEF Return, TypeOK, BusyHasJob
<1>2. bw' \in [BatchWorkers -> WorkerRecords]
  BY IdleType DEF Return, TypeOK, WorkerRecords
<1>3. BusyHasJob'
  BY DEF Return, TypeOK, BusyHasJob, Idle
<1>4. QED
  BY <1>1, <1>2, <1>3

LEMMA StepType == TypeOK /\ BusyHasJob /\ [Next]_vars => TypeOK' /\ BusyHasJob'
<1> SUFFICES ASSUME TypeOK, BusyHasJob, [Next]_vars
             PROVE  TypeOK' /\ BusyHasJob'
  OBVIOUS
<1>t. bw \in [BatchWorkers -> WorkerRecords]
  BY DEF TypeOK, WorkerRecords
<1>s. SUFFICES ASSUME TRUE
               PROVE  /\ bt' \in [BatchIds -> JobRecords(BatchData)]
                      /\ bw' \in [BatchWorkers -> WorkerRecords]
                      /\ claims' \in [Row -> {"none", "sent", "failed"}]
                      /\ prefs' \in [Users -> Prefs]
                      /\ devices' \subseteq Users
                      /\ told' \in [Row -> Nat] /\ reached' \in [Row -> Nat]
                      /\ abandoned' \subseteq Row
                      /\ faults' \in Nat /\ changes' \in Nat
                      /\ BusyHasJob'
  BY DEF TypeOK, WorkerRecords
<1>1. ASSUME NEW w \in BatchWorkers, NEW id \in BatchIds, StartBatch(w, id)
      PROVE  /\ bt' \in [BatchIds -> JobRecords(BatchData)]
             /\ bw' \in [BatchWorkers -> WorkerRecords]
             /\ BusyHasJob'
  <2>1. bt' \in [BatchIds -> JobRecords(BatchData)]
    BY <1>1, TakenType DEF StartBatch, TypeOK
  <2>2. bw' \in [BatchWorkers -> WorkerRecords]
    BY <1>1, <1>t DEF StartBatch, WorkerRecords
  <2>3. BusyHasJob'
    BY <1>1, <1>t DEF StartBatch, BusyHasJob
  <2>4. QED
    BY <2>1, <2>2, <2>3
<1>2. ASSUME NEW w \in BatchWorkers, LoadTargets(w)
      PROVE  /\ bt' \in [BatchIds -> JobRecords(BatchData)]
             /\ bw' \in [BatchWorkers -> WorkerRecords]
             /\ BusyHasJob'
  <2> DEFINE rows == CandidateRows(bw[w].job)
  <2>1. CASE Return(w)
    BY <2>1, ReturnType
  <2>2. CASE bt' = bt /\ bw' = [bw EXCEPT ![w].step = "claim", ![w].todo = rows]
    <3>1. rows \in SUBSET Row
      BY DEF CandidateRows
    <3> HIDE DEF rows
    <3>2. QED
      BY <2>2, <3>1, <1>2, <1>t DEF TypeOK, WorkerRecords, BusyHasJob, LoadTargets
  <2>3. QED
    BY <1>2, <2>1, <2>2 DEF LoadTargets
<1>3. ASSUME NEW w \in BatchWorkers, Claim(w)
      PROVE  /\ bt' \in [BatchIds -> JobRecords(BatchData)]
             /\ bw' \in [BatchWorkers -> WorkerRecords]
             /\ claims' \in [Row -> {"none", "sent", "failed"}]
             /\ BusyHasJob'
  <2>1. CASE Return(w)
    BY <1>3, <2>1, ReturnType DEF Claim, TypeOK
  <2>2. CASE bt' = bt /\ bw' = [bw EXCEPT ![w].step = "send", ![w].todo = Won(bw[w].todo)]
    <3>1. Won(bw[w].todo) \in SUBSET Row
      BY <1>t DEF Won, WorkerRecords
    <3>2. bw' \in [BatchWorkers -> WorkerRecords]
      BY <2>2, <3>1, <1>t, ZenonT(40) DEF WorkerRecords
    <3>3. BusyHasJob'
      BY <1>3, <2>2, <1>t DEF BusyHasJob, Claim, WorkerRecords
    <3>4. claims' \in [Row -> {"none", "sent", "failed"}]
      BY <1>3 DEF Claim, TypeOK
    <3>5. QED
      BY <2>2, <3>2, <3>3, <3>4 DEF TypeOK
  <2>3. QED
    BY <1>3, <2>1, <2>2 DEF Claim
<1>4. ASSUME NEW w \in BatchWorkers, NEW r \in Row,
             SendFulfilled(w, r) \/ SendRejected(w, r) \/ MarkFailed(w, r)
      PROVE  /\ bw' \in [BatchWorkers -> WorkerRecords]
             /\ BusyHasJob'
  <2>1. bw[w].todo \ {r} \in SUBSET Row /\ bw[w].failed \ {r} \in SUBSET Row
        /\ bw[w].failed \cup {r} \in SUBSET Row
    BY <1>t DEF WorkerRecords
  <2>2. CASE SendFulfilled(w, r)
    BY <2>1, <2>2, <1>t DEF SendFulfilled, WorkerRecords, BusyHasJob
  <2>3. CASE SendRejected(w, r)
    <3>1. bw' = [bw EXCEPT ![w].todo = bw[w].todo \ {r},
                           ![w].failed = bw[w].failed \cup {r}]
      BY <2>3 DEF SendRejected
    <3>2. bw' \in [BatchWorkers -> WorkerRecords]
      BY <2>1, <3>1, <1>t, ZenonT(40) DEF WorkerRecords
    <3>3. BusyHasJob'
      BY <3>1, <1>t DEF BusyHasJob, WorkerRecords
    <3>4. QED
      BY <3>2, <3>3
  <2>4. CASE MarkFailed(w, r)
    BY <2>1, <2>4, <1>t DEF MarkFailed, WorkerRecords, BusyHasJob
  <2>5. QED
    BY <1>4, <2>2, <2>3, <2>4
<1>5. ASSUME NEW w \in BatchWorkers, Throw(w) \/ Die(w)
      PROVE  /\ bt' \in [BatchIds -> JobRecords(BatchData)]
             /\ bw' \in [BatchWorkers -> WorkerRecords]
             /\ abandoned' \subseteq Row
             /\ BusyHasJob'
  <2>1. bt' \in [BatchIds -> JobRecords(BatchData)]
    BY <1>5, FailureTypes DEF Throw, Die, TypeOK, BusyHasJob
  <2>2. bw' \in [BatchWorkers -> WorkerRecords]
    BY <1>5, <1>t, IdleType DEF Throw, Die
  <2>3. abandoned' \subseteq Row
    BY <1>5, <1>t DEF Throw, Die, Holds, TypeOK, WorkerRecords
  <2>4. BusyHasJob'
    BY <1>5, <1>t DEF Throw, Die, BusyHasJob, Idle
  <2>5. QED
    BY <2>1, <2>2, <2>3, <2>4
<1>6. ASSUME NEW w \in BatchWorkers, LoseLock(w)
      PROVE  /\ bt' \in [BatchIds -> JobRecords(BatchData)]
             /\ bw' \in [BatchWorkers -> WorkerRecords]
             /\ BusyHasJob'
  <2>1. bt' \in [BatchIds -> JobRecords(BatchData)]
    BY <1>6, FailureTypes DEF LoseLock, TypeOK, BusyHasJob
  <2>2. QED
    BY <2>1, <1>6, <1>t, ZenonT(40) DEF LoseLock, WorkerRecords, BusyHasJob
<1>7. ASSUME NEW id \in BatchIds, Expire(id)
      PROVE  bt' \in [BatchIds -> JobRecords(BatchData)]
  BY <1>7, FailureTypes DEF Expire, TypeOK
<1>8. ASSUME NEW id \in BatchIds, NEW d \in BatchData, Enqueue(id, d)
      PROVE  bt' \in [BatchIds -> JobRecords(BatchData)]
  BY <1>8, AddedFacts DEF Enqueue, TypeOK
<1>9. ASSUME NEW u \in Users, NEW p \in PrefChoices, NEW keep \in BOOLEAN,
             SavePrefs(u, p, keep)
      PROVE  prefs' \in [Users -> Prefs]
  <2>1. p \in Prefs /\ prefs[u] \in Prefs
    BY DeliveryAssumption DEF TypeOK
  <2>2. [p EXCEPT !.dated = prefs[u].dated] \in Prefs
    BY <2>1 DEF Prefs
  <2>3. QED
    BY <1>9, <2>1, <2>2 DEF SavePrefs, TypeOK
<1>10. CASE UNCHANGED vars
  BY <1>10, <1>t DEF vars, TypeOK, BusyHasJob
<1>11. CASE \E w \in BatchWorkers : WorkerStep(w)
  <2>1. PICK w \in BatchWorkers : WorkerStep(w)
    BY <1>11
  <2>2. CASE \E id \in BatchIds : StartBatch(w, id)
    BY <2>2, <1>1 DEF StartBatch, TypeOK
  <2>3. CASE LoadTargets(w)
    BY <2>3, <1>2 DEF LoadTargets, TypeOK
  <2>4. CASE Claim(w)
    BY <2>4, <1>3 DEF Claim, TypeOK
  <2>5. ASSUME NEW r \in Row, SendFulfilled(w, r) \/ SendRejected(w, r) \/ MarkFailed(w, r)
        PROVE  /\ bt' = bt /\ claims' \in [Row -> {"none", "sent", "failed"}]
               /\ prefs' = prefs /\ devices' \subseteq Users
               /\ told' \in [Row -> Nat] /\ reached' \in [Row -> Nat]
               /\ UNCHANGED <<abandoned, faults, changes>>
    <3>1. CASE SendFulfilled(w, r)
      BY <3>1 DEF SendFulfilled, TypeOK
    <3>2. CASE SendRejected(w, r)
      <4>1. devices' \subseteq Users
        BY <3>2 DEF SendRejected, TypeOK
      <4>2. reached' \in [Row -> Nat]
        BY <3>2 DEF SendRejected, TypeOK
      <4>3. UNCHANGED <<bt, claims, prefs, told, abandoned, faults, changes>>
        BY <3>2 DEF SendRejected
      <4>4. QED
        BY <4>1, <4>2, <4>3 DEF TypeOK
    <3>3. CASE MarkFailed(w, r)
      BY <3>3 DEF MarkFailed, TypeOK
    <3>4. QED
      BY <2>5, <3>1, <3>2, <3>3
  <2>6. CASE Finish(w)
    BY <2>6, ReturnType DEF Finish, TypeOK
  <2>7. QED
    BY <2>1, <2>2, <2>3, <2>4, <2>5, <2>6, <1>4 DEF WorkerStep, TypeOK
<1>12. CASE FaultStep
  <2>1. faults' \in Nat
    BY <1>12 DEF FaultStep, Throw, Die, LoseLock, Expire, Fault, TypeOK
  <2>2. ASSUME NEW w \in BatchWorkers, Throw(w) \/ Die(w)
        PROVE  UNCHANGED <<claims, prefs, devices, told, reached, changes>>
    BY <2>2 DEF Throw, Die
  <2>3. ASSUME NEW w \in BatchWorkers, LoseLock(w)
        PROVE  UNCHANGED <<claims, prefs, devices, told, reached, abandoned, changes>>
    BY <2>3 DEF LoseLock
  <2>4. ASSUME NEW id \in BatchIds, Expire(id)
        PROVE  UNCHANGED <<bw, claims, prefs, devices, told, reached, abandoned, changes>>
               /\ BusyHasJob'
    BY <2>4 DEF Expire, BusyHasJob
  <2>5. QED
    BY <1>12, <2>1, <2>2, <2>3, <2>4, <1>5, <1>6, <1>7, <1>t DEF FaultStep, TypeOK
<1>13. CASE ReaderStep
  <2>1. PICK u \in Users : \/ \E p \in PrefChoices, keep \in BOOLEAN : SavePrefs(u, p, keep)
                           \/ SavePushSubscription(u)
                           \/ DeletePushSubscription(u)
    BY <1>13 DEF ReaderStep
  <2>2. prefs' \in [Users -> Prefs]
    BY <2>1, <1>9 DEF SavePushSubscription, DeletePushSubscription, TypeOK
  <2>3. changes' \in Nat /\ devices' \subseteq Users
    BY <2>1 DEF SavePrefs, SavePushSubscription, DeletePushSubscription, Change, TypeOK
  <2>4. UNCHANGED <<bt, bw, claims, told, reached, abandoned, faults>>
    BY <2>1 DEF SavePrefs, SavePushSubscription, DeletePushSubscription
  <2>5. QED
    BY <2>2, <2>3, <2>4, <1>t DEF TypeOK, BusyHasJob
<1>14. CASE \E id \in BatchIds, d \in BatchData : Enqueue(id, d)
  BY <1>14, <1>8, <1>t DEF Enqueue, TypeOK, BusyHasJob
<1>15. QED
  BY <1>10, <1>11, <1>12, <1>13, <1>14 DEF Next, DeliveryStep

(* Every reachable state of the delivery tier is well typed. *)
THEOREM TypeCorrect == Spec => []TypeOK
<1>1. Init => TypeOK /\ BusyHasJob
  BY InitType
<1>2. TypeOK /\ BusyHasJob /\ [Next]_vars => (TypeOK /\ BusyHasJob)'
  BY StepType
<1>3. QED
  BY <1>1, <1>2, PTL DEF Spec
-----------------------------------------------------------------------------
(***************************************************************************)
(* Safety.  Of all that runBatch does, five things matter to a row: an     *)
(* execution takes rows, tells one, marks one failed, is cut short, or     *)
(* does something that leaves every row where it was.                      *)
(***************************************************************************)

(* The sets of a worker never overlap, and it has failures only to send.   *)
Shape == \A w \in BatchWorkers : /\ bw[w].todo \cap bw[w].failed = {}
                                 /\ bw[w].step # "send" => bw[w].failed = {}

OthersKeep(w) == \A v \in BatchWorkers \ {w} : Holds(v)' = Holds(v)

Quiet == /\ \A w \in BatchWorkers : Holds(w)' = Holds(w)
         /\ UNCHANGED <<claims, told, abandoned>>

Takes(w, S) == /\ Holds(w) = {} /\ Holds(w)' = S /\ OthersKeep(w)
               /\ \A r \in S : claims[r] # "sent"
               /\ claims' = [r \in Row |-> IF r \in S THEN "sent" ELSE claims[r]]
               /\ UNCHANGED <<told, abandoned>>

Tells(w, r) == /\ r \in Holds(w) /\ Holds(w)' = Holds(w) \ {r} /\ OthersKeep(w)
               /\ told' = [told EXCEPT ![r] = @ + 1]
               /\ UNCHANGED <<claims, abandoned>>

Fails(w, r) == /\ r \in Holds(w) /\ Holds(w)' = Holds(w) \ {r} /\ OthersKeep(w)
               /\ claims' = [claims EXCEPT ![r] = "failed"]
               /\ UNCHANGED <<told, abandoned>>

Drops(w) == /\ Holds(w)' = {} /\ OthersKeep(w)
            /\ abandoned' = abandoned \cup Holds(w)
            /\ UNCHANGED <<claims, told>>

Effect == \/ Quiet
          \/ \E w \in BatchWorkers, S \in SUBSET Row : Takes(w, S)
          \/ \E w \in BatchWorkers, r \in Row : Tells(w, r) \/ Fails(w, r)
          \/ \E w \in BatchWorkers : Drops(w)

(* A step that only rewrites one worker keeps what the others hold. *)
LEMMA OneWorker ==
    ASSUME TypeOK, NEW w \in BatchWorkers, NEW rec, bw' = [bw EXCEPT ![w] = rec]
    PROVE  OthersKeep(w) /\ bw'[w] = rec /\ \A v \in BatchWorkers \ {w} : bw'[v] = bw[v]
BY DEF TypeOK, OthersKeep, Holds

LEMMA SameWorkers ==
    ASSUME bw' = bw, UNCHANGED <<claims, told, abandoned>>, Shape
    PROVE  Quiet /\ Shape'
BY DEF Quiet, Holds, Shape

(* Ending an execution that holds nothing is quiet. *)
LEMMA ReturnEffect ==
    ASSUME TypeOK, Shape, NEW w \in BatchWorkers, Return(w), Holds(w) = {},
           UNCHANGED <<claims, told, abandoned>>
    PROVE  Quiet /\ Shape'
<1>1. bw' = [bw EXCEPT ![w] = Idle]
  BY DEF Return
<1>2. OthersKeep(w) /\ bw'[w] = Idle /\ \A v \in BatchWorkers \ {w} : bw'[v] = bw[v]
  BY <1>1, OneWorker
<1>3. Holds(w)' = {}
  BY <1>2 DEF Holds, Idle
<1>4. Shape'
  BY <1>2 DEF Shape, Idle
<1>5. QED
  BY <1>2, <1>3, <1>4 DEF Quiet, OthersKeep

LEMMA WorkerEffect ==
    ASSUME TypeOK, Shape, NEW w \in BatchWorkers, WorkerStep(w)
    PROVE  Effect /\ Shape'
<1>t. bw[w] \in WorkerRecords /\ bw \in [BatchWorkers -> WorkerRecords]
  BY DEF TypeOK, WorkerRecords
<1>1. ASSUME NEW id \in BatchIds, StartBatch(w, id) PROVE Quiet /\ Shape'
  <2> DEFINE rec == [job |-> id, step |-> "load", todo |-> {}, failed |-> {}, locked |-> TRUE]
  <2>1. bw' = [bw EXCEPT ![w] = rec] /\ bw[w].step = "idle"
    BY <1>1 DEF StartBatch
  <2>2. OthersKeep(w) /\ bw'[w] = rec /\ \A v \in BatchWorkers \ {w} : bw'[v] = bw[v]
    BY <2>1, OneWorker
  <2>3. Holds(w)' = Holds(w)
    BY <2>1, <2>2 DEF Holds
  <2>4. Shape'
    BY <2>2 DEF Shape
  <2>5. QED
    BY <1>1, <2>2, <2>3, <2>4 DEF StartBatch, Quiet, OthersKeep
<1>2. ASSUME LoadTargets(w) PROVE Quiet /\ Shape'
  <2>1. Holds(w) = {} /\ UNCHANGED <<claims, told, abandoned>> /\ bw[w].step = "load"
    BY <1>2 DEF LoadTargets, Holds
  <2>2. CASE Return(w)
    BY <2>1, <2>2, ReturnEffect
  <2>3. CASE \E rows \in SUBSET Row : bw' = [bw EXCEPT ![w].step = "claim", ![w].todo = rows]
    <3>1. PICK rows \in SUBSET Row : bw' = [bw EXCEPT ![w].step = "claim", ![w].todo = rows]
      BY <2>3
    <3>2. bw'[w].step = "claim" /\ bw'[w].failed = bw[w].failed /\ bw'[w].todo = rows
          /\ \A v \in BatchWorkers \ {w} : bw'[v] = bw[v]
      BY <3>1, <1>t DEF WorkerRecords
    <3>3. bw[w].failed = {}
      BY <2>1 DEF Shape
    <3>4. QED
      BY <2>1, <3>2, <3>3 DEF Quiet, Shape, Holds
  <2>4. CandidateRows(bw[w].job) \in SUBSET Row
    BY DEF CandidateRows
  <2>5. QED
    BY <1>2, <2>2, <2>3, <2>4 DEF LoadTargets
<1>3. ASSUME Claim(w) PROVE Effect /\ Shape'
  <2> DEFINE S == Won(bw[w].todo)
  <2>1. bw[w].step = "claim" /\ Holds(w) = {} /\ bw[w].failed = {}
    BY <1>3 DEF Claim, Holds, Shape
  <2>2. S \in SUBSET Row /\ \A r \in S : claims[r] # "sent"
    BY <1>t DEF Won, WorkerRecords
  <2>3. claims' = [r \in Row |-> IF r \in S THEN "sent" ELSE claims[r]]
        /\ UNCHANGED <<told, abandoned>>
    BY <1>3 DEF Claim
  <2>4. CASE S = {} /\ Return(w)
    <3>1. claims' = claims
      BY <2>3, <2>4 DEF TypeOK
    <3>2. QED
      BY <2>1, <2>3, <2>4, <3>1, ReturnEffect DEF Effect
  <2>5. CASE bw' = [bw EXCEPT ![w].step = "send", ![w].todo = S]
    <3> HIDE DEF S
    <3>1. bw'[w].step = "send" /\ bw'[w].failed = {} /\ bw'[w].todo = S
          /\ \A v \in BatchWorkers \ {w} : bw'[v] = bw[v]
      BY <2>1, <2>5, <1>t DEF WorkerRecords
    <3>2. Holds(w)' = S /\ OthersKeep(w)
      BY <3>1 DEF Holds, OthersKeep
    <3>3. Takes(w, S)
      BY <2>1, <2>2, <2>3, <3>2 DEF Takes
    <3>4. Shape'
      BY <3>1 DEF Shape
    <3>5. QED
      BY <2>2, <3>3, <3>4 DEF Effect
  <2>6. QED
    BY <1>3, <2>4, <2>5 DEF Claim
<1>4. ASSUME NEW r \in Row, SendFulfilled(w, r) PROVE Tells(w, r) /\ Shape'
  <2>1. bw[w].step = "send" /\ r \in bw[w].todo /\ r \notin bw[w].failed
    BY <1>4 DEF SendFulfilled, ToSend, Shape
  <2>2. bw'[w].step = "send" /\ bw'[w].failed = bw[w].failed /\ bw'[w].todo = bw[w].todo \ {r}
        /\ \A v \in BatchWorkers \ {w} : bw'[v] = bw[v]
    BY <1>4, <2>1, <1>t DEF SendFulfilled, WorkerRecords
  <2>3. r \in Holds(w) /\ Holds(w)' = Holds(w) \ {r} /\ OthersKeep(w)
    BY <2>1, <2>2 DEF Holds, OthersKeep
  <2>4. Shape'
    BY <2>2 DEF Shape
  <2>5. QED
    BY <1>4, <2>3, <2>4 DEF Tells, SendFulfilled
<1>5. ASSUME NEW r \in Row, SendRejected(w, r) PROVE Quiet /\ Shape'
  <2>1. bw[w].step = "send" /\ r \in bw[w].todo /\ r \notin bw[w].failed
    BY <1>5 DEF SendRejected, ToSend, Shape
  <2>2. bw' = [bw EXCEPT ![w].todo = bw[w].todo \ {r}, ![w].failed = bw[w].failed \cup {r}]
    BY <1>5 DEF SendRejected
  <2>3. bw'[w].step = "send" /\ bw'[w].failed = bw[w].failed \cup {r}
        /\ bw'[w].todo = bw[w].todo \ {r}
        /\ \A v \in BatchWorkers \ {w} : bw'[v] = bw[v]
    BY <2>1, <2>2, <1>t DEF WorkerRecords
  <2>4. \A v \in BatchWorkers : Holds(v)' = Holds(v)
    BY <2>1, <2>3 DEF Holds
  <2>5. Shape'
    BY <2>3 DEF Shape
  <2>6. UNCHANGED <<claims, told, abandoned>>
    BY <1>5 DEF SendRejected
  <2>7. QED
    BY <2>4, <2>5, <2>6 DEF Quiet
<1>6. ASSUME NEW r \in Row, MarkFailed(w, r) PROVE Fails(w, r) /\ Shape'
  <2>1. bw[w].step = "send" /\ r \in bw[w].failed /\ r \notin bw[w].todo
    BY <1>6 DEF MarkFailed, Shape
  <2>2. bw'[w].step = "send" /\ bw'[w].todo = bw[w].todo /\ bw'[w].failed = bw[w].failed \ {r}
        /\ \A v \in BatchWorkers \ {w} : bw'[v] = bw[v]
    BY <1>6, <2>1, <1>t DEF MarkFailed, WorkerRecords
  <2>3. r \in Holds(w) /\ Holds(w)' = Holds(w) \ {r} /\ OthersKeep(w)
    BY <2>1, <2>2 DEF Holds, OthersKeep
  <2>4. Shape'
    BY <2>2 DEF Shape
  <2>5. QED
    BY <1>6, <2>3, <2>4 DEF Fails, MarkFailed
<1>7. ASSUME Finish(w) PROVE Quiet /\ Shape'
  <2>1. Holds(w) = {} /\ Return(w) /\ UNCHANGED <<claims, told, abandoned>>
    BY <1>7 DEF Finish, Holds
  <2>2. QED
    BY <2>1, ReturnEffect
<1>8. QED
  BY <1>1, <1>2, <1>3, <1>4, <1>5, <1>6, <1>7 DEF WorkerStep, Effect

LEMMA StepEffect == TypeOK /\ Shape /\ [Next]_vars => Effect /\ Shape'
<1> SUFFICES ASSUME TypeOK, Shape, [Next]_vars PROVE Effect /\ Shape'
  OBVIOUS
<1>1. CASE UNCHANGED vars
  BY <1>1, SameWorkers DEF vars, Effect
<1>2. ASSUME NEW w \in BatchWorkers, WorkerStep(w) PROVE Effect /\ Shape'
  BY <1>2, WorkerEffect
<1>3. ASSUME NEW w \in BatchWorkers, Throw(w) \/ Die(w) PROVE Effect /\ Shape'
  <2>1. bw' = [bw EXCEPT ![w] = Idle] /\ abandoned' = abandoned \cup Holds(w)
        /\ UNCHANGED <<claims, told>>
    BY <1>3 DEF Throw, Die
  <2>2. OthersKeep(w) /\ bw'[w] = Idle /\ \A v \in BatchWorkers \ {w} : bw'[v] = bw[v]
    BY <2>1, OneWorker
  <2>3. Holds(w)' = {} /\ Shape'
    BY <2>2 DEF Holds, Idle, Shape
  <2>4. Drops(w)
    BY <2>1, <2>2, <2>3 DEF Drops
  <2>5. QED
    BY <2>3, <2>4 DEF Effect
<1>4. ASSUME NEW w \in BatchWorkers, LoseLock(w) PROVE Effect /\ Shape'
  <2>1. bw' = [bw EXCEPT ![w].locked = FALSE] /\ UNCHANGED <<claims, told, abandoned>>
    BY <1>4 DEF LoseLock
  <2>2. \A v \in BatchWorkers : /\ bw'[v].step = bw[v].step /\ bw'[v].todo = bw[v].todo
                               /\ bw'[v].failed = bw[v].failed
    <3>1. bw \in [BatchWorkers -> WorkerRecords]
      BY DEF TypeOK, WorkerRecords
    <3>2. QED
      BY <2>1, <3>1 DEF WorkerRecords
  <2>3. QED
    BY <2>1, <2>2 DEF Effect, Quiet, Holds, Shape
<1>5. ASSUME NEW id \in BatchIds, Expire(id) PROVE Effect /\ Shape'
  BY <1>5, SameWorkers DEF Expire, Effect
<1>6. ASSUME NEW id \in BatchIds, NEW d \in BatchData, Enqueue(id, d) PROVE Effect /\ Shape'
  BY <1>6, SameWorkers DEF Enqueue, Effect
<1>7. CASE ReaderStep
  <2>1. bw' = bw /\ UNCHANGED <<claims, told, abandoned>>
    BY <1>7 DEF ReaderStep, SavePrefs, SavePushSubscription, DeletePushSubscription
  <2>2. QED
    BY <2>1, SameWorkers DEF Effect
<1>8. QED
  BY <1>1, <1>2, <1>3, <1>4, <1>5, <1>6, <1>7 DEF Next, DeliveryStep, FaultStep
-----------------------------------------------------------------------------
(* What is inductive.  OneHolder and ToldAtMostOnce need to know that a row *)
(* somebody holds is claimed and untold, or two executions could come to    *)
(* hold it, or one could tell it again.                                     *)
HeldIsClaimed ==
    \A w \in BatchWorkers : \A r \in Holds(w) : claims[r] = "sent" /\ told[r] = 0

IInv == OneHolder /\ HeldIsClaimed /\ ToldAtMostOnce /\ LedgerIsTrue

LEMMA HeldDef == \A r : r \in Held <=> \E w \in BatchWorkers : r \in Holds(w)
BY DEF Held

LEMMA InitIInv == Init => Shape /\ IInv
<1> SUFFICES ASSUME Init PROVE Shape /\ IInv
  OBVIOUS
<1>1. \A w \in BatchWorkers : bw[w] = Idle
  BY DEF Init
<1>2. Shape /\ \A w \in BatchWorkers : Holds(w) = {}
  BY <1>1 DEF Shape, Holds, Idle
<1>3. \A r \in Row : claims[r] = "none" /\ told[r] = 0
  BY DEF Init
<1>4. QED
  BY <1>2, <1>3 DEF IInv, OneHolder, HeldIsClaimed, ToldAtMostOnce, LedgerIsTrue

LEMMA EffectIInv == TypeOK /\ IInv /\ Effect => IInv'
<1> SUFFICES ASSUME TypeOK, IInv, Effect PROVE IInv'
  OBVIOUS
<1>t. \A w \in BatchWorkers : Holds(w) \subseteq Row
  BY DEF TypeOK, Holds
<1>f. /\ claims \in [Row -> {"none", "sent", "failed"}]
      /\ told \in [Row -> Nat]
  BY DEF TypeOK
<1>h. \A r : r \in Held' <=> \E w \in BatchWorkers : r \in Holds(w)'
  BY DEF Held
<1> USE DEF IInv, OneHolder, HeldIsClaimed, ToldAtMostOnce, LedgerIsTrue
<1>1. CASE Quiet
  BY <1>1, <1>h, HeldDef DEF Quiet
<1>2. ASSUME NEW w \in BatchWorkers, NEW S \in SUBSET Row, Takes(w, S)
      PROVE  IInv'
  <2>1. \A v \in BatchWorkers \ {w} : Holds(v)' = Holds(v) /\ Holds(v) \cap S = {}
    BY <1>2 DEF Takes, OthersKeep
  <2>2. \A r \in S : told[r] = 0
    BY <1>2, <1>f DEF Takes
  <2>3. /\ Holds(w)' = S /\ Holds(w) = {} /\ told' = told /\ abandoned' = abandoned
        /\ \A r \in Row : claims'[r] = IF r \in S THEN "sent" ELSE claims[r]
    BY <1>2 DEF Takes
  <2>4. OneHolder' /\ HeldIsClaimed' /\ ToldAtMostOnce'
    BY <2>1, <2>2, <2>3, <1>t
  <2>5. LedgerIsTrue'
    <3>1. \A r \in Row : r \notin Held' => r \notin S /\ r \notin Held
      BY <2>1, <2>3, <1>h, HeldDef
    <3>2. QED
      BY <2>3, <2>2, <3>1
  <2>6. QED
    BY <2>4, <2>5
<1>3. ASSUME NEW w \in BatchWorkers, NEW r \in Row, Tells(w, r)
      PROVE  IInv'
  <2>1. /\ r \in Holds(w) /\ Holds(w)' = Holds(w) \ {r} /\ claims' = claims
        /\ abandoned' = abandoned
        /\ \A v \in BatchWorkers \ {w} : Holds(v)' = Holds(v) /\ r \notin Holds(v)
    BY <1>3 DEF Tells, OthersKeep
  <2>2. /\ told[r] = 0 /\ told'[r] = 1 /\ claims[r] = "sent"
        /\ \A x \in Row \ {r} : told'[x] = told[x]
    BY <1>3, <1>f, <2>1 DEF Tells
  <2>3. OneHolder' /\ HeldIsClaimed' /\ ToldAtMostOnce'
    BY <2>1, <2>2, <1>t
  <2>4. LedgerIsTrue'
    <3>1. \A x \in Row \ {r} : x \in Held' <=> x \in Held
      BY <2>1, <1>h, HeldDef
    <3>2. QED
      BY <2>1, <2>2, <3>1
  <2>5. QED
    BY <2>3, <2>4
<1>4. ASSUME NEW w \in BatchWorkers, NEW r \in Row, Fails(w, r)
      PROVE  IInv'
  <2>1. /\ r \in Holds(w) /\ Holds(w)' = Holds(w) \ {r} /\ told' = told
        /\ abandoned' = abandoned
        /\ \A v \in BatchWorkers \ {w} : Holds(v)' = Holds(v) /\ r \notin Holds(v)
    BY <1>4 DEF Fails, OthersKeep
  <2>2. /\ told[r] = 0 /\ claims'[r] = "failed"
        /\ \A x \in Row \ {r} : claims'[x] = claims[x]
    BY <1>4, <1>f, <2>1 DEF Fails
  <2>3. OneHolder' /\ HeldIsClaimed' /\ ToldAtMostOnce'
    BY <2>1, <2>2, <1>t
  <2>4. LedgerIsTrue'
    <3>1. \A x \in Row \ {r} : x \in Held' <=> x \in Held
      BY <2>1, <1>h, HeldDef
    <3>2. QED
      BY <2>1, <2>2, <3>1
  <2>5. QED
    BY <2>3, <2>4
<1>5. ASSUME NEW w \in BatchWorkers, Drops(w)
      PROVE  IInv'
  <2>1. /\ Holds(w)' = {} /\ claims' = claims /\ told' = told
        /\ abandoned' = abandoned \cup Holds(w)
        /\ \A v \in BatchWorkers \ {w} : Holds(v)' = Holds(v)
    BY <1>5 DEF Drops, OthersKeep
  <2>2. \A x : x \in Held => x \in Held' \/ x \in Holds(w)
    BY <2>1, <1>h, HeldDef
  <2>3. QED
    BY <2>1, <2>2
<1>6. QED
  BY <1>1, <1>2, <1>3, <1>4, <1>5 DEF Effect

LEMMA Inductive == Spec => [](TypeOK /\ BusyHasJob /\ Shape /\ IInv)
<1>1. Init => TypeOK /\ BusyHasJob /\ Shape /\ IInv
  BY InitType, InitIInv
<1>2. TypeOK /\ BusyHasJob /\ Shape /\ IInv /\ [Next]_vars
         => (TypeOK /\ BusyHasJob /\ Shape /\ IInv)'
  BY StepType, StepEffect, EffectIInv
<1>3. QED
  BY <1>1, <1>2, PTL DEF Spec

(* No two executions ever have the same row to send or to mark. *)
THEOREM RowsHaveOneHolder == Spec => []OneHolder
BY Inductive, PTL DEF IInv

(* No reader is successfully sent the same reminder on one channel twice.   *)
THEOREM AtMostOnce == Spec => []ToldAtMostOnce
BY Inductive, PTL DEF IInv

(* The ledger tells the truth of every settled send. *)
THEOREM LedgerTruth == Spec => []LedgerIsTrue
BY Inductive, PTL DEF IInv
-----------------------------------------------------------------------------
(* The delivery tier implements ReminderPromise under Fate.                 *)
LEMMA InitPromise == Init => P!Init
<1> SUFFICES ASSUME Init PROVE P!Init
  OBVIOUS
<1>1. \A w \in BatchWorkers : bw[w] = Idle
  BY DEF Init
<1>2. \A w \in BatchWorkers : Holds(w) = {}
  BY <1>1 DEF Holds, Idle
<1>3. \A r \in Row : claims[r] = "none" /\ told[r] = 0 /\ r \notin Held
  BY <1>2, HeldDef DEF Init
<1>4. QED
  BY <1>3 DEF P!Init, Fate

LEMMA StepPromise == TypeOK /\ IInv /\ IInv' /\ TypeOK' /\ Effect => [P!Next]_Fate
<1> SUFFICES ASSUME TypeOK, IInv, IInv', TypeOK', Effect PROVE [P!Next]_Fate
  OBVIOUS
<1>t. \A w \in BatchWorkers : Holds(w) \subseteq Row
  BY DEF TypeOK, Holds
<1>f. /\ claims \in [Row -> {"none", "sent", "failed"}]
      /\ told \in [Row -> Nat]
      /\ claims' \in [Row -> {"none", "sent", "failed"}]
      /\ told' \in [Row -> Nat]
  BY DEF TypeOK
<1>h. \A r : r \in Held' <=> \E w \in BatchWorkers : r \in Holds(w)'
  BY DEF Held
<1>fate. Fate = [r \in Row |-> Fate[r]] /\ Fate' = [r \in Row |-> Fate'[r]]
  BY DEF Fate
<1>held. \A w \in BatchWorkers : \A r \in Holds(w) : Fate[r] = "held"
  BY <1>t, <1>f, HeldDef DEF Fate, IInv, HeldIsClaimed
<1>1. CASE Quiet
  <2>1. Held' = Held
    BY <1>1, <1>h, HeldDef DEF Quiet
  <2>2. Fate' = Fate
    BY <1>1, <2>1 DEF Quiet, Fate
  <2>3. QED
    BY <2>2
<1>2. ASSUME NEW w \in BatchWorkers, NEW S \in SUBSET Row, Takes(w, S)
      PROVE  P!Next
  <2>1. \A r \in Row : r \in Held' <=> (r \in Held \/ r \in S)
    BY <1>2, <1>h, HeldDef DEF Takes, OthersKeep
  <2>2. \A r \in S : told[r] = 0 /\ r \notin Held /\ claims[r] # "sent"
    BY <1>2, <1>f, HeldDef DEF Takes, IInv, LedgerIsTrue, HeldIsClaimed
  <2>3. \A r \in S : Fate[r] \in {"open", "failed"}
    BY <2>2, <1>f DEF Fate
  <2>4. \A r \in S : Fate'[r] = "held"
    BY <1>2, <2>1, <2>2 DEF Takes, Fate
  <2>5. \A r \in Row \ S : Fate'[r] = Fate[r]
    BY <1>2, <2>1 DEF Takes, Fate
  <2>6. Fate' = [r \in Row |-> IF r \in S THEN "held" ELSE Fate[r]]
    BY <1>fate, <2>4, <2>5
  <2>7. QED
    BY <2>3, <2>6 DEF P!Next, P!Take
<1>3. ASSUME NEW w \in BatchWorkers, NEW r \in Row, Tells(w, r)
      PROVE  P!Next
  <2>1. Fate[r] = "held"
    BY <1>3, <1>held DEF Tells
  <2>2. \A x \in Row \ {r} : x \in Held' <=> x \in Held
    BY <1>3, <1>h, HeldDef DEF Tells, OthersKeep
  <2>3. told'[r] >= 1 /\ \A x \in Row \ {r} : told'[x] = told[x]
    BY <1>3, <1>f DEF Tells
  <2>4. Fate'[r] = "told"
    BY <2>3 DEF Fate
  <2>5. \A x \in Row \ {r} : Fate'[x] = Fate[x]
    BY <1>3, <2>2, <2>3 DEF Tells, Fate
  <2>6. Fate' = [Fate EXCEPT ![r] = "told"]
    BY <1>fate, <2>4, <2>5
  <2>7. QED
    BY <2>1, <2>6 DEF P!Next, P!Tell
<1>4. ASSUME NEW w \in BatchWorkers, NEW r \in Row, Fails(w, r)
      PROVE  P!Next
  <2>1. Fate[r] = "held"
    BY <1>4, <1>held DEF Fails
  <2>2. \A x \in Row \ {r} : x \in Held' <=> x \in Held
    BY <1>4, <1>h, HeldDef DEF Fails, OthersKeep
  <2>3. claims'[r] = "failed" /\ \A x \in Row \ {r} : claims'[x] = claims[x]
    BY <1>4, <1>f DEF Fails
  <2>4. r \notin Held' /\ told'[r] = 0
    BY <1>4, <2>1, <2>3, <1>h DEF Fails, IInv, HeldIsClaimed
  <2>5. Fate'[r] = "failed"
    BY <2>3, <2>4 DEF Fate
  <2>6. \A x \in Row \ {r} : Fate'[x] = Fate[x]
    BY <1>4, <2>2, <2>3 DEF Fails, Fate
  <2>7. Fate' = [Fate EXCEPT ![r] = "failed"]
    BY <1>fate, <2>5, <2>6
  <2>8. QED
    BY <2>1, <2>7 DEF P!Next, P!Fail
<1>5. ASSUME NEW w \in BatchWorkers, Drops(w)
      PROVE  P!Next
  <2> DEFINE S == Holds(w)
  <2>1. S \in SUBSET Row /\ \A r \in S : Fate[r] = "held" /\ told[r] = 0 /\ claims[r] = "sent"
    BY <1>t, <1>held DEF IInv, HeldIsClaimed
  <2>2. \A r \in S : r \notin Held'
    BY <1>5, <1>h DEF Drops, OthersKeep, IInv, OneHolder
  <2>3. \A r \in Row \ S : r \in Held' <=> r \in Held
    BY <1>5, <1>h, HeldDef DEF Drops, OthersKeep
  <2>4. \A r \in S : Fate'[r] = "lost"
    BY <1>5, <2>1, <2>2 DEF Drops, Fate
  <2>5. \A r \in Row \ S : Fate'[r] = Fate[r]
    BY <1>5, <2>3 DEF Drops, Fate
  <2> HIDE DEF S
  <2>6. Fate' = [r \in Row |-> IF r \in S THEN "lost" ELSE Fate[r]]
    BY <1>fate, <2>4, <2>5
  <2>7. QED
    BY <2>1, <2>6 DEF P!Next, P!Lose
<1>6. QED
  BY <1>1, <1>2, <1>3, <1>4, <1>5 DEF Effect

(* However jobs are repeated, crash or overlap, a row goes from open to     *)
(* held to told, failed or lost, and only a failed one is ever taken again. *)
THEOREM KeepsPromise == Spec => PromiseKept
<1>1. Init => P!Init
  BY InitPromise
<1>2. TypeOK /\ Shape /\ IInv /\ TypeOK' /\ IInv' /\ [Next]_vars => [P!Next]_Fate
  BY StepEffect, StepPromise
<1>3. QED
  BY <1>1, <1>2, Inductive, PTL DEF Spec, PromiseKept, P!Spec
=============================================================================
