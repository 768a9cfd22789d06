------------------------------ MODULE JobQueue ------------------------------
(***************************************************************************)
(* The part of BullMQ the reminder pipeline relies on, as operators on a   *)
(* job table: a function from job ids to job records.                      *)
(*                                                                         *)
(* Every job the pipeline adds has a deterministic id, and a job that has  *)
(* ended is RETAINED for a while, so adding a known id returns the old job *)
(* whatever state it is in.  A handler that throws is attempted again up   *)
(* to MaxAttempts times; a job whose worker stops renewing its lock is put *)
(* back MaxStalls times.  BullMQ is a library: MaxStalls and the two       *)
(* failure paths are modelled from its contract, MaxAttempts and the       *)
(* retention from packages/queue/src/index.js.                             *)
(***************************************************************************)
EXTENDS Naturals, TLAPS

CONSTANTS MaxAttempts,  \* `attempts` of the queues' default job options
          MaxStalls     \* BullMQ's maxStalledCount

ASSUME RetryAssumption == MaxAttempts \in Nat \ {0} /\ MaxStalls \in Nat

Status == {"absent", "waiting", "active", "done", "dead"}

(* The table entry of a job carrying `data`. *)
JobOf(status, data) == [status |-> status, data |-> data, tries |-> 0, stalls |-> 0]

JobRecords(Data) == [status : Status, data : Data, tries : Nat, stalls : Nat]

(* Queue.add with a jobId: a retained job of that id, ended or not, wins. *)
Added(q, id, data) ==
    IF q[id].status = "absent" THEN [q EXCEPT ![id] = JobOf("waiting", data)] ELSE q

Taken(q, id) == [q EXCEPT ![id].status = "active"]

Completed(q, id) == [q EXCEPT ![id].status = "done"]

(* The handler threw: back to waiting while attempts remain, else failed. *)
Thrown(q, id) ==
    [q EXCEPT ![id].tries = @ + 1,
              ![id].status = IF q[id].tries + 1 < MaxAttempts THEN "waiting" ELSE "dead"]

(* The worker's lock expired: BullMQ hands the job to another worker. *)
Stalled(q, id) ==
    [q EXCEPT ![id].stalls = @ + 1,
              ![id].status = IF q[id].stalls < MaxStalls THEN "waiting" ELSE "dead"]

(* removeOnComplete / removeOnFail: an ended job's id is free again. *)
Ended(q, id) == q[id].status \in {"done", "dead"}
Forgotten(q, id) == [q EXCEPT ![id] = JobOf("absent", q[id].data)]

----------------------------------------------------------------------------
(* Facts about these operators, for any set of ids and any kind of data.    *)

(* Adding a job keeps the table's type, changes no other entry, and leaves *)
(* a retained job of that id, ended or not, exactly as it was.             *)
LEMMA AddedFacts ==
    ASSUME NEW Ids, NEW Data, NEW q \in [Ids -> JobRecords(Data)], NEW id \in Ids,
           NEW d \in Data
    PROVE  /\ Added(q, id, d) \in [Ids -> JobRecords(Data)]
           /\ \A j \in Ids \ {id} : Added(q, id, d)[j] = q[j]
           /\ q[id].status # "absent" => Added(q, id, d) = q
<1>1. JobOf("waiting", d) \in JobRecords(Data)
  BY DEF JobOf, JobRecords, Status
<1>2. QED
  BY <1>1 DEF Added

(* Taking a job, and completing one, keep the type. *)
LEMMA TakenType ==
    ASSUME NEW Ids, NEW Data, NEW q \in [Ids -> JobRecords(Data)], NEW id \in Ids
    PROVE  /\ Taken(q, id) \in [Ids -> JobRecords(Data)]
           /\ Completed(q, id) \in [Ids -> JobRecords(Data)]
<1>1. q[id] \in JobRecords(Data)
  OBVIOUS
<1>2. /\ [q[id] EXCEPT !.status = "active"] \in JobRecords(Data)
      /\ [q[id] EXCEPT !.status = "done"] \in JobRecords(Data)
  BY <1>1 DEF JobRecords, Status
<1>3. QED
  BY <1>2 DEF Taken, Completed

(* So do a throw, a stall and the end of retention. *)
LEMMA FailureTypes ==
    ASSUME NEW Ids, NEW Data, NEW q \in [Ids -> JobRecords(Data)], NEW id \in Ids
    PROVE  /\ Thrown(q, id) \in [Ids -> JobRecords(Data)]
           /\ Stalled(q, id) \in [Ids -> JobRecords(Data)]
           /\ Forgotten(q, id) \in [Ids -> JobRecords(Data)]
<1>1. q[id] \in JobRecords(Data) /\ q[id].tries \in Nat /\ q[id].stalls \in Nat
      /\ q[id].data \in Data
  BY DEF JobRecords
<1>2. ASSUME NEW s \in Status
      PROVE  /\ [[q[id] EXCEPT !.tries = @ + 1] EXCEPT !.status = s] \in JobRecords(Data)
             /\ [[q[id] EXCEPT !.stalls = @ + 1] EXCEPT !.status = s] \in JobRecords(Data)
  <2>1. [q[id] EXCEPT !.tries = @ + 1] \in JobRecords(Data)
    BY <1>1, q[id].tries + 1 \in Nat DEF JobRecords
  <2>2. [q[id] EXCEPT !.stalls = @ + 1] \in JobRecords(Data)
    BY <1>1, q[id].stalls + 1 \in Nat DEF JobRecords
  <2>3. ASSUME NEW j \in JobRecords(Data)
        PROVE  [j EXCEPT !.status = s] \in JobRecords(Data)
    BY DEF JobRecords
  <2>4. QED
    BY <2>1, <2>2, <2>3
<1>3. Thrown(q, id) \in [Ids -> JobRecords(Data)]
  <2> DEFINE s == IF q[id].tries + 1 < MaxAttempts THEN "waiting" ELSE "dead"
  <2>1. s \in Status
    BY DEF Status
  <2>2. Thrown(q, id) = [q EXCEPT ![id] = [[q[id] EXCEPT !.tries = @ + 1] EXCEPT !.status = s]]
    BY DEF Thrown
  <2>3. QED
    BY <2>1, <2>2, <1>2
<1>4. Stalled(q, id) \in [Ids -> JobRecords(Data)]
  <2> DEFINE s == IF q[id].stalls < MaxStalls THEN "waiting" ELSE "dead"
  <2>1. s \in Status
    BY DEF Status
  <2>2. Stalled(q, id) = [q EXCEPT ![id] = [[q[id] EXCEPT !.stalls = @ + 1] EXCEPT !.status = s]]
    BY DEF Stalled
  <2>3. QED
    BY <2>1, <2>2, <1>2
<1>5. Forgotten(q, id) \in [Ids -> JobRecords(Data)]
  BY <1>1 DEF Forgotten, JobOf, JobRecords, Status
<1>6. QED
  BY <1>3, <1>4, <1>5
=============================================================================
