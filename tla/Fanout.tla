------------------------------- MODULE Fanout -------------------------------
(***************************************************************************)
(* The first two tiers of the reminder pipeline (runScan and runFanout in  *)
(* packages/queue/src/workers.js): every tick finds the (event, offset)    *)
(* pairs that have just come due and adds one fan-out job each; a fan-out  *)
(* walks the event's followers by keyset pages and adds one batch job per  *)
(* page.  Readers follow and unfollow, and syncs move events, between any  *)
(* two of its queries.                                                     *)
(*                                                                         *)
(* Time is counted in units of the model; users are numbers because their  *)
(* ids are ordered and 0 stands for the all-zero uuid paging starts from.  *)
(***************************************************************************)
EXTENDS JobQueue, Integers, FiniteSetsExt

CONSTANTS Events, Offsets, Users,
          FanoutWorkers, NoJob,
          BatchSize,          \* REMINDER_BATCH_SIZE
          MaxLate,            \* REMINDER_MAX_LATENESS_SECONDS
          Lookback,           \* max(REMINDER_MAX_LATENESS_SECONDS, 120)
          TimedDefaults, DateDefaults,   \* REMINDER_OFFSETS, REMINDER_DATE_OFFSETS
          ScanEvery, MaxSlip, \* the scan's interval, and how late a tick may run
          EventChoices,       \* what a sync may write to an event
          InitFollowers,      \* who follows an event at the start
          MaxTime, MaxFaults, MaxChanges   \* bounds

FanoutIds == Events \X Offsets
Cursors == {0} \cup Users
BatchIds == Events \X Offsets \X Cursors
BatchData == [users : SUBSET Users, timed : BOOLEAN]
EventRow == [state : {"pre", "in", "post"}, class : {"timed", "dated", "vague"},
             startsAt : Int]
FanoutData == [startsAt : Int, timed : BOOLEAN]

ASSUME FanoutAssumption ==
    /\ Users \subseteq Nat \ {0} /\ IsFiniteSet(Users)
    /\ Offsets \subseteq Nat
    /\ NoJob \notin FanoutIds
    /\ BatchSize \in Nat \ {0}
    /\ MaxLate \in Nat /\ Lookback \in Nat
    /\ TimedDefaults \subseteq Offsets /\ DateDefaults \subseteq Offsets
    /\ ScanEvery \in Nat \ {0} /\ MaxSlip \in Nat
    /\ EventChoices \subseteq EventRow
    /\ InitFollowers \subseteq Users
    /\ MaxTime \in Nat /\ MaxFaults \in Nat /\ MaxChanges \in Nat

VARIABLES
    now,        \* the clock every process reads
    lastScan,   \* when the last scan ran
    event,      \* the events table
    setAt,      \* history: when an event's row was last changed
    followers,  \* follows, as the users followersOfEventPage finds for an event
    saved,      \* the offsets readers have saved, per class
    fo,         \* the reminder-fanout queue
    fw,         \* fan-out workers: the local variables of runFanout
    bt,         \* the reminder-batch queue
    scanned,    \* history: (event, offset, start) some scan has matched
    dropped,    \* history: fan-outs that were dropped as too late
    starts,     \* history: how often a fan-out id was started
    steady,     \* history: who followed all the way since the first start
    paged,      \* history: the users of each batch job a fan-out created
    faults, changes

vars == <<now, lastScan, event, setAt, followers, saved, fo, fw, bt,
          scanned, dropped, starts, steady, paged, faults, changes>>
history == <<scanned, dropped, starts, steady, paged>>

Idle == [job |-> NoJob, step |-> "idle", after |-> 0, page |-> {}, locked |-> FALSE]

Init ==
    /\ now = 0 /\ lastScan = 0
    /\ event \in [Events -> EventChoices]
    /\ setAt = [e \in Events |-> 0]
    /\ followers = [e \in Events |-> InitFollowers]
    /\ saved = [timed |-> {}, dated |-> {}]
    /\ fo = [id \in FanoutIds |-> JobOf("absent", [startsAt |-> 0, timed |-> TRUE])]
    /\ fw = [w \in FanoutWorkers |-> Idle]
    /\ bt = [id \in BatchIds |-> JobOf("absent", [users |-> {}, timed |-> TRUE])]
    /\ scanned = {}
    /\ dropped = {}
    /\ starts = [id \in FanoutIds |-> 0]
    /\ steady = [id \in FanoutIds |-> {}]
    /\ paged = [id \in BatchIds |-> {}]
    /\ faults = MaxFaults /\ changes = MaxChanges
-----------------------------------------------------------------------------
(* distinctReminderOffsets: the defaults and whatever readers saved; zero   *)
(* means something for a date and nothing for a kickoff.                    *)
ScanOffsets(timed) ==
    IF timed THEN {o \in TimedDefaults \cup saved.timed : o > 0}
             ELSE DateDefaults \cup saved.dated

DueAt(startsAt, o) == startsAt - o

(* Mutants: a lookback of one scan interval; no upper bound on the window. *)
BugShortLookback(e, o, timed) ==
    /\ event[e].state = "pre"
    /\ event[e].class = IF timed THEN "timed" ELSE "dated"
    /\ DueAt(event[e].startsAt, o) <= now
    /\ DueAt(event[e].startsAt, o) > now - ScanEvery
BugDueEarly(e, o, timed) ==
    /\ event[e].state = "pre"
    /\ event[e].class = IF timed THEN "timed" ELSE "dated"
    /\ DueAt(event[e].startsAt, o) > now - Lookback

(* eventsDueForReminder. *)
IsDue(e, o, timed) ==
    /\ event[e].state = "pre"
    /\ event[e].class = IF timed THEN "timed" ELSE "dated"
    /\ DueAt(event[e].startsAt, o) <= now
    /\ DueAt(event[e].startsAt, o) > now - Lookback

DuePairs == {id \in FanoutIds : \E timed \in BOOLEAN :
                 id[2] \in ScanOffsets(timed) /\ IsDue(id[1], id[2], timed)}

(* One run of runScan.  It carries the start it saw, and adds nothing for a *)
(* pair whose job is still retained.                                        *)
Scan ==
    /\ LET data(id) == [startsAt |-> event[id[1]].startsAt,
                        timed |-> event[id[1]].class = "timed"]
       IN  /\ fo' = [id \in FanoutIds |->
                        IF id \in DuePairs THEN Added(fo, id, data(id))[id] ELSE fo[id]]
           /\ scanned' = scanned \cup
                 {<<id[1], id[2], event[id[1]].startsAt>> : id \in DuePairs}
    /\ lastScan' = now
    /\ UNCHANGED <<now, event, setAt, followers, saved, fw, bt,
                   dropped, starts, steady, paged, faults, changes>>
-----------------------------------------------------------------------------
(* Mutant: the page starts at the cursor instead of after it. *)
BugPageFromCursor(e, after) ==
    LET later == {u \in followers[e] : u >= after}
    IN  {u \in later : Cardinality({v \in later : v <= u}) <= BatchSize}

(* followersOfEventPage: the first BatchSize followers after the cursor.    *)
NextPage(e, after) ==
    LET later == {u \in followers[e] : u > after}
    IN  {u \in later : Cardinality({v \in later : v <= u}) <= BatchSize}

(* The lateness guard of runFanout: the only one in the pipeline. *)
TooLate(id) == now - DueAt(fo[id].data.startsAt, id[2]) > MaxLate

Return(w) ==
    /\ fo' = IF fw[w].locked THEN Completed(fo, fw[w].job) ELSE fo
    /\ fw' = [fw EXCEPT ![w] = Idle]

StartFanout(w, id) ==
    /\ fw[w].step = "idle"
    /\ fo[id].status = "waiting"
    /\ starts' = [starts EXCEPT ![id] = @ + 1]
    /\ steady' = IF starts[id] = 0 THEN [steady EXCEPT ![id] = followers[id[1]]] ELSE steady
    /\ IF TooLate(id)
       THEN /\ fo' = Completed(fo, id)
            /\ dropped' = dropped \cup {id}
            /\ fw' = fw
       ELSE /\ fo' = Taken(fo, id)
            /\ dropped' = dropped
            /\ fw' = [fw EXCEPT ![w] = [job |-> id, step |-> "page", after |-> 0,
                                        page |-> {}, locked |-> TRUE]]
    /\ UNCHANGED <<now, lastScan, event, setAt, followers, saved, bt,
                   scanned, paged, faults, changes>>

ReadPage(w) ==
    /\ fw[w].step = "page"
    /\ LET page == NextPage(fw[w].job[1], fw[w].after)
       IN  IF page = {}
           THEN Return(w)
           ELSE /\ fw' = [fw EXCEPT ![w].step = "add", ![w].page = page]
                /\ fo' = fo
    /\ UNCHANGED <<now, lastScan, event, setAt, followers, saved, bt, faults, changes>>
    /\ UNCHANGED history

(* Mutants: the last full page taken for a short one; a cursor one too far; *)
(* a job id that is never found.                                            *)
BugStopOnFullPage(w) ==
    /\ fw[w].step = "add"
    /\ LET me == fw[w]
           id == <<me.job[1], me.job[2], me.after>>
           data == [users |-> me.page, timed |-> fo[me.job].data.timed]
       IN  /\ bt' = Added(bt, id, data)
           /\ paged' = IF bt[id].status = "absent"
                       THEN [paged EXCEPT ![id] = @ \cup me.page] ELSE paged
           /\ Return(w)
    /\ UNCHANGED <<now, lastScan, event, setAt, followers, saved,
                   scanned, dropped, starts, steady, faults, changes>>
BugCursorPlusOne(w) ==
    /\ fw[w].step = "add"
    /\ fw' = [fw EXCEPT ![w].step = "page", ![w].after = Max(fw[w].page) + 1,
                        ![w].page = {}]
    /\ UNCHANGED <<now, lastScan, event, setAt, followers, saved, fo, bt, faults, changes>>
    /\ UNCHANGED history
BugAddAgain(w) ==
    /\ fw[w].step = "add"
    /\ LET me == fw[w]
           id == <<me.job[1], me.job[2], me.after>>
           data == [users |-> me.page, timed |-> fo[me.job].data.timed]
       IN  /\ bt' = [bt EXCEPT ![id] = JobOf("waiting", data)]
           /\ paged' = [paged EXCEPT ![id] = @ \cup me.page]
           /\ fw' = [fw EXCEPT ![w].step = "page", ![w].after = Max(me.page),
                               ![w].page = {}]
    /\ UNCHANGED <<now, lastScan, event, setAt, followers, saved, fo,
                   scanned, dropped, starts, steady, faults, changes>>

(* batch.add: the id names the cursor the page was read from, so a page     *)
(* that an earlier attempt already added is not added again.                *)
AddBatch(w) ==
    /\ fw[w].step = "add"
    /\ LET me == fw[w]
           id == <<me.job[1], me.job[2], me.after>>
           data == [users |-> me.page, timed |-> fo[me.job].data.timed]
       IN  /\ bt' = Added(bt, id, data)
           /\ paged' = IF bt[id].status = "absent"
                       THEN [paged EXCEPT ![id] = @ \cup me.page] ELSE paged
           /\ IF Cardinality(me.page) < BatchSize
              THEN Return(w)
              ELSE /\ fw' = [fw EXCEPT ![w].step = "page", ![w].after = Max(me.page),
                                       ![w].page = {}]
                   /\ fo' = fo
    /\ UNCHANGED <<now, lastScan, event, setAt, followers, saved,
                   scanned, dropped, starts, steady, faults, changes>>
-----------------------------------------------------------------------------
Fault == faults > 0 /\ faults' = faults - 1

(* A query or an add throws: the job is attempted again from the start. *)
Throw(w) ==
    /\ Fault /\ fw[w].step # "idle"
    /\ fo' = IF fw[w].locked THEN Thrown(fo, fw[w].job) ELSE fo
    /\ fw' = [fw EXCEPT ![w] = Idle]
    /\ UNCHANGED <<now, lastScan, event, setAt, followers, saved, bt, changes>>
    /\ UNCHANGED history

(* The process dies. *)
Die(w) ==
    /\ Fault /\ fw[w].step # "idle"
    /\ fo' = IF fw[w].locked THEN Stalled(fo, fw[w].job) ELSE fo
    /\ fw' = [fw EXCEPT ![w] = Idle]
    /\ UNCHANGED <<now, lastScan, event, setAt, followers, saved, bt, changes>>
    /\ UNCHANGED history

(* The lock of a slow worker expires; it carries on, and so does another. *)
LoseLock(w) ==
    /\ Fault /\ fw[w].locked
    /\ fo' = Stalled(fo, fw[w].job)
    /\ fw' = [fw EXCEPT ![w].locked = FALSE]
    /\ UNCHANGED <<now, lastScan, event, setAt, followers, saved, bt, changes>>
    /\ UNCHANGED history

Expire(id) ==
    /\ Fault /\ Ended(fo, id)
    /\ fo' = Forgotten(fo, id)
    /\ UNCHANGED <<now, lastScan, event, setAt, followers, saved, fw, bt, changes>>
    /\ UNCHANGED history
-----------------------------------------------------------------------------
Change == changes > 0 /\ changes' = changes - 1

Follow(u, e) ==
    /\ Change
    /\ followers' = [followers EXCEPT ![e] = @ \cup {u}]
    /\ UNCHANGED <<now, lastScan, event, setAt, saved, fo, fw, bt, faults>>
    /\ UNCHANGED history

Unfollow(u, e) ==
    /\ Change
    /\ followers' = [followers EXCEPT ![e] = @ \ {u}]
    /\ steady' = [id \in FanoutIds |-> IF id[1] = e THEN steady[id] \ {u} ELSE steady[id]]
    /\ UNCHANGED <<now, lastScan, event, setAt, saved, fo, fw, bt,
                   scanned, dropped, starts, paged, faults>>

(* upsertEvents: a sync rewrites the row. *)
UpsertEvent(e, row) ==
    /\ Change
    /\ event' = [event EXCEPT ![e] = row]
    /\ setAt' = [setAt EXCEPT ![e] = now]
    /\ UNCHANGED <<now, lastScan, followers, saved, fo, fw, bt, faults>>
    /\ UNCHANGED history

(* Some reader saves an offset nobody had. *)
SaveOffset(o, timed) ==
    /\ Change
    /\ saved' = IF timed THEN [saved EXCEPT !.timed = @ \cup {o}]
                         ELSE [saved EXCEPT !.dated = @ \cup {o}]
    /\ UNCHANGED <<now, lastScan, event, setAt, followers, fo, fw, bt, faults>>
    /\ UNCHANGED history

(* Time passes.  The scheduler keeps the scan within MaxSlip of its beat.   *)
Tick ==
    /\ now < MaxTime
    /\ now < lastScan + ScanEvery + MaxSlip
    /\ now' = now + 1
    /\ UNCHANGED <<lastScan, event, setAt, followers, saved, fo, fw, bt, faults, changes>>
    /\ UNCHANGED history
-----------------------------------------------------------------------------
WorkerStep(w) ==
    \/ \E id \in FanoutIds : StartFanout(w, id)
    \/ ReadPage(w)
    \/ AddBatch(w)

FaultStep ==
    \/ \E w \in FanoutWorkers : Throw(w) \/ Die(w) \/ LoseLock(w)
    \/ \E id \in FanoutIds : Expire(id)

Surroundings ==
    \/ \E e \in Events, u \in Users : Follow(u, e) \/ Unfollow(u, e)
    \/ \E e \in Events, row \in EventChoices : UpsertEvent(e, row)
    \/ \E o \in Offsets, timed \in BOOLEAN : SaveOffset(o, timed)
    \/ Tick

Next == Scan \/ FaultStep \/ Surroundings \/ \E w \in FanoutWorkers : WorkerStep(w)

Spec == Init /\ [][Next]_vars
-----------------------------------------------------------------------------
TypeOK ==
    /\ now \in Nat /\ lastScan \in Nat
    /\ event \in [Events -> EventRow]
    /\ setAt \in [Events -> Nat]
    /\ followers \in [Events -> SUBSET Users]
    /\ saved \in [timed : SUBSET Offsets, dated : SUBSET Offsets]
    /\ fo \in [FanoutIds -> JobRecords(FanoutData)]
    /\ fw \in [FanoutWorkers -> [job : FanoutIds \cup {NoJob},
                                 step : {"idle", "page", "add"},
                                 after : Cursors, page : SUBSET Users,
                                 locked : BOOLEAN]]
    /\ bt \in [BatchIds -> JobRecords(BatchData)]
    /\ scanned \subseteq Events \X Offsets \X Int
    /\ dropped \subseteq FanoutIds
    /\ starts \in [FanoutIds -> Nat]
    /\ steady \in [FanoutIds -> SUBSET Users]
    /\ paged \in [BatchIds -> SUBSET Users]
    /\ faults \in Nat /\ changes \in Nat

(* "The lookback must exceed the scan interval or a tick that runs late     *)
(* leaves a gap no later tick will ever revisit."  With it long enough, no  *)
(* default reminder of a fixture that stayed as it was from before the      *)
(* reminder came due is missed: by the latest tick, a scan has matched it.  *)
Unmoved(e, o) ==
    /\ event[e].state = "pre"
    /\ \/ event[e].class = "timed" /\ o \in TimedDefaults /\ o > 0
       \/ event[e].class = "dated" /\ o \in DateDefaults
    /\ DueAt(event[e].startsAt, o) > setAt[e]
NoGap ==
    \A e \in Events, o \in Offsets :
        Unmoved(e, o) /\ now >= DueAt(event[e].startsAt, o) + ScanEvery + MaxSlip
            => <<e, o, event[e].startsAt>> \in scanned

(* The keyset walk "cannot skip or repeat a row when someone follows the    *)
(* team mid-fan-out": a fan-out that was executed once and ran to its end   *)
(* has put everybody who followed throughout into a page...                 *)
AllPaged(id) == UNION {paged[<<id[1], id[2], c>>] : c \in Cursors}
SteadyFollowersPaged ==
    \A id \in FanoutIds :
        fo[id].status = "done" /\ starts[id] = 1 /\ id \notin dropped
            => steady[id] \subseteq AllPaged(id)

(* ... and nobody into two, whoever comes and goes meanwhile.               *)
PagesAreDisjoint ==
    \A id \in FanoutIds, c, d \in Cursors :
        starts[id] <= 1 /\ c # d
            => paged[<<id[1], id[2], c>>] \cap paged[<<id[1], id[2], d>>] = {}

(* The same words without the exception for a fan-out that was executed     *)
(* again (a retry, a crash, a lost lock).                                   *)
NoFollowerSkipped ==
    \A id \in FanoutIds :
        fo[id].status = "done" /\ id \notin dropped
            => steady[id] \subseteq AllPaged(id)
=============================================================================
