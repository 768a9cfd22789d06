----------------------------- MODULE Reminders ------------------------------
(***************************************************************************)
(* The whole reminder pipeline: the scan and the fan-out of module Fanout  *)
(* feeding the delivery tier of module Delivery.  The two share the        *)
(* reminder-batch queue and the readers' preferences, which decide both    *)
(* which offsets the scan looks for and who is told.                       *)
(***************************************************************************)
EXTENDS Integers, FiniteSets

CONSTANTS MaxAttempts, MaxStalls, Events, Offsets, Users, Channels,
          FanoutWorkers, BatchWorkers, NoJob, BatchSize, MaxLate, Lookback,
          TimedDefaults, DateDefaults, ScanEvery, MaxSlip,
          EventChoices, InitFollowers, Mailless, PrefChoices, InitPrefs,
          MaxTime, MaxFaults, MaxChanges   \* bounds; each tier has its own budget

VARIABLES now, lastScan, event, setAt, followers, fo, fw, bt,
          scanned, dropped, starts, steady, paged,
          bw, claims, prefs, devices, told, reached, abandoned,
          faults, changes, fanoutFaults, fanoutChanges

(* distinctReminderOffsets reads the lists out of reminder_prefs. *)
saved == [timed |-> UNION {prefs[u].timed : u \in Users},
          dated |-> UNION {prefs[u].dated : u \in Users}]

F == INSTANCE Fanout WITH faults <- fanoutFaults, changes <- fanoutChanges
D == INSTANCE Delivery WITH Cursors <- {0} \cup Users

fanoutVars == <<now, lastScan, event, setAt, followers, fo, fw,
                scanned, dropped, starts, steady, paged, fanoutFaults, fanoutChanges>>
deliveryVars == <<bw, claims, prefs, devices, told, reached, abandoned,
                  faults, changes>>
vars == <<fanoutVars, bt, deliveryVars>>

ASSUME RemindersAssumption ==
    /\ Users \subseteq Nat \ {0} /\ IsFiniteSet(Users)
    /\ Offsets \subseteq Nat
    /\ BatchSize \in Nat \ {0}
    /\ EventChoices \subseteq F!EventRow
    /\ InitFollowers \subseteq Users
    /\ Channels = {"webpush", "email"}
    /\ NoJob \notin D!BatchIds
    /\ Mailless \subseteq Users
    /\ PrefChoices \subseteq D!Prefs /\ InitPrefs \in D!Prefs
    /\ MaxAttempts \in Nat \ {0} /\ MaxStalls \in Nat
    /\ MaxFaults \in Nat /\ MaxChanges \in Nat

(* Readers start from the site's defaults. *)
Init ==
    /\ D!Init
    /\ now = 0 /\ lastScan = 0
    /\ event \in [Events -> EventChoices]
    /\ setAt = [e \in Events |-> 0]
    /\ followers = [e \in Events |-> InitFollowers]
    /\ fo = [id \in F!FanoutIds |-> F!JobOf("absent", [startsAt |-> 0, timed |-> TRUE])]
    /\ fw = [w \in FanoutWorkers |-> F!Idle]
    /\ scanned = {} /\ dropped = {}
    /\ starts = [id \in F!FanoutIds |-> 0]
    /\ steady = [id \in F!FanoutIds |-> {}]
    /\ paged = [id \in F!BatchIds |-> {}]
    /\ fanoutFaults = MaxFaults /\ fanoutChanges = MaxChanges

FanoutWorkerStep(w) == UNCHANGED deliveryVars /\ F!WorkerStep(w)
ScanStep == UNCHANGED deliveryVars /\ F!Scan
FanoutFault == UNCHANGED deliveryVars /\ F!FaultStep
OutsideStep ==
    /\ UNCHANGED deliveryVars
    /\ \/ \E e \in Events, u \in Users : F!Follow(u, e) \/ F!Unfollow(u, e)
       \/ \E e \in Events, row \in EventChoices : F!UpsertEvent(e, row)
       \/ F!Tick
BatchWorkerStep(w) == D!WorkerStep(w) /\ UNCHANGED fanoutVars
DeliveryOutside == (D!FaultStep \/ D!ReaderStep) /\ UNCHANGED fanoutVars

Next ==
    \/ ScanStep \/ FanoutFault \/ OutsideStep
    \/ \E w \in FanoutWorkers : FanoutWorkerStep(w)
    \/ \E w \in BatchWorkers : BatchWorkerStep(w)
    \/ DeliveryOutside

Spec == Init /\ [][Next]_vars

(* The worker process is up: every worker goes on, the scan comes round,    *)
(* and the clock runs.  Readers, syncs and faults owe nothing.              *)
Fairness == /\ \A w \in FanoutWorkers : WF_vars(FanoutWorkerStep(w))
            /\ \A w \in BatchWorkers : WF_vars(BatchWorkerStep(w))
FairSpec == Spec /\ Fairness
-----------------------------------------------------------------------------
(* The composition is an instance of the delivery tier fed with jobs: what  *)
(* is shown of Delivery under arbitrary arrivals holds of the pipeline.     *)
DeliverySpec == D!Spec

(* No reader is successfully sent the same reminder on one channel twice,   *)
(* whatever the scan, the fan-out, a sync and the followers do meanwhile.   *)
ReadersToldAtMostOnce == D!ToldAtMostOnce

(* A reader who is told was put on a page by a fan-out, for an offset of    *)
(* the fixture some scan found due: told rows never come from nowhere.      *)
ToldWereScanned ==
    \A r \in D!Row : told[r] >= 1 =>
        /\ \E s \in {x[3] : x \in scanned} :
               <<r.event, r.offset, s>> \in scanned /\ s - r.offset <= now
        /\ r.user \in F!AllPaged(<<r.event, r.offset>>)

(* End to end, when nothing fails: a fan-out that is waiting is dropped as  *)
(* too late, or every reader who asks for the reminder and can be reached   *)
(* from then on, and who follows the fixture from the fan-out's start to    *)
(* its end, gets a row in reminder_deliveries: an attempt to tell them.     *)
Asks(r) == /\ \A timed \in BOOLEAN : D!Wanted(r.event, r.user, r.offset, timed)
           /\ r.channel \in prefs[r.user].channels
           /\ D!Reachable(r.user, r.channel)
SteadyFollowersAttempted ==
    \A r \in D!Row :
        LET id == <<r.event, r.offset>>
        IN  (fo[id].status = "waiting" /\ []Asks(r))
                ~> \/ id \in dropped
                   \/ starts[id] > 0 /\ (r.user \in steady[id] => claims[r] # "none")

(* README.md: "Reminders more than REMINDER_MAX_LATENESS_SECONDS past due   *)
(* are dropped rather than delivered late."                                 *)
NeverDeliveredLate ==
    [][\A r \in D!Row : told'[r] > told[r] =>
          now <= F!DueAt(fo[<<r.event, r.offset>>].data.startsAt, r.offset) + MaxLate]_vars
=============================================================================
