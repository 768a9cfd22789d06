------------------------------ MODULE Delivery ------------------------------
(***************************************************************************)
(* The delivery tier of the reminder pipeline: runBatch in                 *)
(* packages/queue/src/workers.js with the statements it runs from          *)
(* packages/db/src/queries.js and the senders of packages/notify.          *)
(*                                                                         *)
(* Several workers execute batch jobs at once.  A job can be executed more *)
(* than once, by two workers at the same time even (a worker that loses    *)
(* its lock keeps running).  The only thing between a reader and a second  *)
(* notification is the table reminder_deliveries.                          *)
(*                                                                         *)
(* Batch jobs come from outside (Enqueue): module Reminders composes this  *)
(* one with the scan and the fan-out that produce them.                    *)
(***************************************************************************)
EXTENDS JobQueue

CONSTANTS Events, Offsets, Users, Channels,
          Cursors,        \* the keyset cursors a batch id may end in
          BatchWorkers,   \* concurrent executions of runBatch
          NoJob,          \* what an idle worker is executing
          Mailless,       \* users with no email address on file
          PrefChoices,    \* the preferences a user may save
          InitPrefs,      \* the preferences users start with
          MaxFaults,      \* bound on crashes, lost locks, throws, expiries
          MaxChanges      \* bound on what readers change

BatchIds == Events \X Offsets \X Cursors
Prefs == [timed : SUBSET Offsets, dated : SUBSET Offsets, channels : SUBSET Channels]
BatchData == [users : SUBSET Users, timed : BOOLEAN]

ASSUME DeliveryAssumption ==
    /\ Channels = {"webpush", "email"}
    /\ NoJob \notin BatchIds
    /\ Mailless \subseteq Users
    /\ PrefChoices \subseteq Prefs
    /\ InitPrefs \in Prefs
    /\ MaxFaults \in Nat
    /\ MaxChanges \in Nat

(* A row of reminder_deliveries is named by its primary key. *)
Row == [event : Events, user : Users, offset : Offsets, channel : Channels]

VARIABLES
    bt,         \* the reminder-batch queue: job id -> job
    bw,         \* the batch workers: the local variables of runBatch
    claims,     \* reminder_deliveries: its `status`, "none" where no row is
    prefs,      \* reminder_prefs
    devices,    \* users with a live push subscription
    told,       \* history: how many sends of the row were fulfilled
    reached,    \* history: how many times the provider really delivered it
    abandoned,  \* history: rows some execution held when it was cut short
    faults, changes   \* what is left of the bounds

vars == <<bt, bw, claims, prefs, devices, told, reached, abandoned, faults, changes>>

Idle == [job |-> NoJob, step |-> "idle", todo |-> {}, failed |-> {}, locked |-> FALSE]

(* The rows worker w has claimed and not settled: still to be sent, or sent *)
(* without success and not yet marked.                                      *)
Holds(w) == IF bw[w].step = "send" THEN bw[w].todo \cup bw[w].failed ELSE {}
Held == UNION {Holds(w) : w \in BatchWorkers}

Init ==
    /\ bt = [id \in BatchIds |-> JobOf("absent", [users |-> {}, timed |-> TRUE])]
    /\ bw = [w \in BatchWorkers |-> Idle]
    /\ claims = [r \in Row |-> "none"]
    /\ prefs = [u \in Users |-> InitPrefs]
    /\ devices = Users
    /\ told = [r \in Row |-> 0]
    /\ reached = [r \in Row |-> 0]
    /\ abandoned = {}
    /\ faults = MaxFaults
    /\ changes = MaxChanges
-----------------------------------------------------------------------------
(* deliveryTargets and the loop over it: the rows this job should claim.    *)
Wanted(e, u, o, timed) == o \in IF timed THEN prefs[u].timed ELSE prefs[u].dated
Reachable(u, ch) == /\ ch = "webpush" => u \in devices
                    /\ ch = "email" => u \notin Mailless
CandidateRows(id) ==
    LET data == bt[id].data
    IN  {r \in Row : /\ r.event = id[1]
                     /\ r.offset = id[2]
                     /\ r.user \in data.users
                     /\ Wanted(r.event, r.user, r.offset, data.timed)
                     /\ r.channel \in prefs[r.user].channels
                     /\ Reachable(r.user, r.channel)}

(* Mutant: the upsert without its `where status = 'failed'`. *)
BugWonEverything(rows) == rows

(* claimDeliveries: insert, or revive a row marked failed; returns these.   *)
Won(rows) == {r \in rows : claims[r] # "sent"}

(* settle runs for webpush and then for email; within one, everything is    *)
(* sent before anything is marked.                                          *)
PhaseOf(w) ==
    IF \E r \in Holds(w) : r.channel = "webpush" THEN "webpush" ELSE "email"
BugSendBothAtOnce(w) == bw[w].todo   \* mutant: one Promise.all for both channels
ToSend(w) == {r \in bw[w].todo : r.channel = PhaseOf(w)}
-----------------------------------------------------------------------------
(* A batch job arrives.  Nothing is assumed about who adds it or how often. *)
Enqueue(id, data) ==
    /\ data.users # {}
    /\ bt' = Added(bt, id, data)
    /\ UNCHANGED <<bw, claims, prefs, devices, told, reached, abandoned, faults, changes>>

(* A worker takes a waiting job; getEvent finds the event (the code never   *)
(* deletes one).                                                            *)
StartBatch(w, id) ==
    /\ bw[w].step = "idle"
    /\ bt[id].status = "waiting"
    /\ bt' = Taken(bt, id)
    /\ bw' = [bw EXCEPT ![w] = [job |-> id, step |-> "load", todo |-> {}, failed |-> {},
                                locked |-> TRUE]]
    /\ UNCHANGED <<claims, prefs, devices, told, reached, abandoned, faults, changes>>

(* Mutant: the handler's promise never settles. *)
BugNeverReturns(w) == bw' = [bw EXCEPT ![w] = Idle] /\ bt' = bt

(* The execution returns; a worker that lost its lock completes nothing.    *)
Return(w) ==
    /\ bt' = IF bw[w].locked THEN Completed(bt, bw[w].job) ELSE bt
    /\ bw' = [bw EXCEPT ![w] = Idle]

(* Mutant: the kickoff list is read for every class of event. *)
BugLoadTimedList(w) ==
    /\ bw[w].step = "load"
    /\ LET rows == {r \in CandidateRows(bw[w].job) : r.offset \in prefs[r.user].timed}
       IN  IF rows = {}
           THEN Return(w)
           ELSE /\ bw' = [bw EXCEPT ![w].step = "claim", ![w].todo = rows]
                /\ bt' = bt
    /\ UNCHANGED <<claims, prefs, devices, told, reached, abandoned, faults, changes>>

LoadTargets(w) ==
    /\ bw[w].step = "load"
    /\ LET rows == CandidateRows(bw[w].job)
       IN  IF rows = {}
           THEN Return(w)
           ELSE /\ bw' = [bw EXCEPT ![w].step = "claim", ![w].todo = rows]
                /\ bt' = bt
    /\ UNCHANGED <<claims, prefs, devices, told, reached, abandoned, faults, changes>>

Claim(w) ==
    /\ bw[w].step = "claim"
    /\ LET won == Won(bw[w].todo)
       IN  /\ claims' = [r \in Row |-> IF r \in won THEN "sent" ELSE claims[r]]
           /\ IF won = {}
              THEN Return(w)
              ELSE /\ bw' = [bw EXCEPT ![w].step = "send", ![w].todo = won]
                   /\ bt' = bt
    /\ UNCHANGED <<prefs, devices, told, reached, abandoned, faults, changes>>

(* One send is fulfilled. *)
SendFulfilled(w, r) ==
    /\ bw[w].step = "send" /\ r \in ToSend(w)
    /\ bw' = [bw EXCEPT ![w].todo = @ \ {r}]
    /\ told' = [told EXCEPT ![r] = @ + 1]
    /\ reached' = [reached EXCEPT ![r] = @ + 1]
    /\ UNCHANGED <<bt, claims, prefs, devices, abandoned, faults, changes>>

(* One send is rejected: an error from the provider; every push endpoint    *)
(* gone, which disables them; or an answer that came after the timeout, of  *)
(* a message the provider did deliver.                                      *)
SendRejected(w, r) ==
    /\ bw[w].step = "send" /\ r \in ToSend(w)
    /\ bw' = [bw EXCEPT ![w].todo = @ \ {r}, ![w].failed = @ \cup {r}]
    /\ \/ UNCHANGED <<reached, devices>>
       \/ /\ r.channel = "webpush"
          /\ devices' = devices \ {r.user}
          /\ UNCHANGED reached
       \/ /\ reached' = [reached EXCEPT ![r] = @ + 1]
          /\ UNCHANGED devices
    /\ UNCHANGED <<bt, claims, prefs, told, abandoned, faults, changes>>

(* Mutants: the update forgets the channel; it writes a status of its own. *)
BugMarkBothChannels(w, r) ==
    /\ bw[w].step = "send" /\ ToSend(w) = {}
    /\ r \in bw[w].failed /\ r.channel = PhaseOf(w)
    /\ claims' = [x \in Row |-> IF x = [r EXCEPT !.channel = x.channel] /\ claims[x] # "none"
                               THEN "failed" ELSE claims[x]]
    /\ bw' = [bw EXCEPT ![w].failed = @ \ {r}]
    /\ UNCHANGED <<bt, prefs, devices, told, reached, abandoned, faults, changes>>
BugMarkBounced(w, r) ==
    /\ bw[w].step = "send" /\ ToSend(w) = {}
    /\ r \in bw[w].failed /\ r.channel = PhaseOf(w)
    /\ claims' = [claims EXCEPT ![r] = "bounced"]
    /\ bw' = [bw EXCEPT ![w].failed = @ \ {r}]
    /\ UNCHANGED <<bt, prefs, devices, told, reached, abandoned, faults, changes>>

(* markDeliveryFailed, once every send of the phase has settled.            *)
MarkFailed(w, r) ==
    /\ bw[w].step = "send" /\ ToSend(w) = {}
    /\ r \in bw[w].failed /\ r.channel = PhaseOf(w)
    /\ claims' = [claims EXCEPT ![r] = "failed"]
    /\ bw' = [bw EXCEPT ![w].failed = @ \ {r}]
    /\ UNCHANGED <<bt, prefs, devices, told, reached, abandoned, faults, changes>>

(* Mutant: failures are counted and never marked. *)
BugFinishUnmarked(w) ==
    /\ bw[w].step = "send" /\ bw[w].todo = {}
    /\ Return(w)
    /\ UNCHANGED <<claims, prefs, devices, told, reached, abandoned, faults, changes>>

Finish(w) ==
    /\ bw[w].step = "send" /\ bw[w].todo = {} /\ bw[w].failed = {}
    /\ Return(w)
    /\ UNCHANGED <<claims, prefs, devices, told, reached, abandoned, faults, changes>>
-----------------------------------------------------------------------------
Fault == faults > 0 /\ faults' = faults - 1

(* A statement throws (connection lost, deadlock, pool timeout).  Sends do  *)
(* not: allSettled swallows them, so the only await that can throw while    *)
(* rows are held is markDeliveryFailed.                                     *)
AtQuery(w) == \/ bw[w].step \in {"load", "claim"}
              \/ bw[w].step = "send" /\ ToSend(w) = {} /\ bw[w].failed # {}

Throw(w) ==
    /\ Fault /\ AtQuery(w)
    /\ bt' = IF bw[w].locked THEN Thrown(bt, bw[w].job) ELSE bt
    /\ abandoned' = abandoned \cup Holds(w)
    /\ bw' = [bw EXCEPT ![w] = Idle]
    /\ UNCHANGED <<claims, prefs, devices, told, reached, changes>>

(* The process dies: its job stalls and goes to another worker.             *)
Die(w) ==
    /\ Fault /\ bw[w].step # "idle"
    /\ bt' = IF bw[w].locked THEN Stalled(bt, bw[w].job) ELSE bt
    /\ abandoned' = abandoned \cup Holds(w)
    /\ bw' = [bw EXCEPT ![w] = Idle]
    /\ UNCHANGED <<claims, prefs, devices, told, reached, changes>>

(* The lock expires under a worker that is only slow: the job runs again    *)
(* somewhere else while this execution carries on.                          *)
LoseLock(w) ==
    /\ Fault /\ bw[w].locked
    /\ bt' = Stalled(bt, bw[w].job)
    /\ bw' = [bw EXCEPT ![w].locked = FALSE]
    /\ UNCHANGED <<claims, prefs, devices, told, reached, abandoned, changes>>

(* Retention ends, by age or because 5000 newer jobs have completed.        *)
Expire(id) ==
    /\ Fault /\ Ended(bt, id)
    /\ bt' = Forgotten(bt, id)
    /\ UNCHANGED <<bw, claims, prefs, devices, told, reached, abandoned, changes>>
-----------------------------------------------------------------------------
Change == changes > 0 /\ changes' = changes - 1

(* savePrefs: without date offsets in the request the stored list stays.    *)
SavePrefs(u, p, keepDates) ==
    /\ Change
    /\ prefs' = [prefs EXCEPT ![u] = IF keepDates THEN [p EXCEPT !.dated = prefs[u].dated]
                                                  ELSE p]
    /\ UNCHANGED <<bt, bw, claims, devices, told, reached, abandoned, faults>>

SavePushSubscription(u) ==
    /\ Change /\ devices' = devices \cup {u}
    /\ UNCHANGED <<bt, bw, claims, prefs, told, reached, abandoned, faults>>

DeletePushSubscription(u) ==
    /\ Change /\ devices' = devices \ {u}
    /\ UNCHANGED <<bt, bw, claims, prefs, told, reached, abandoned, faults>>
-----------------------------------------------------------------------------
WorkerStep(w) ==
    \/ \E id \in BatchIds : StartBatch(w, id)
    \/ LoadTargets(w)
    \/ Claim(w)
    \/ \E r \in Row : SendFulfilled(w, r) \/ SendRejected(w, r) \/ MarkFailed(w, r)
    \/ Finish(w)

FaultStep ==
    \/ \E w \in BatchWorkers : Throw(w) \/ Die(w) \/ LoseLock(w)
    \/ \E id \in BatchIds : Expire(id)

ReaderStep ==
    \E u \in Users :
        \/ \E p \in PrefChoices, keep \in BOOLEAN : SavePrefs(u, p, keep)
        \/ SavePushSubscription(u)
        \/ DeletePushSubscription(u)

(* What the delivery tier does with the jobs it is given. *)
DeliveryStep == FaultStep \/ ReaderStep \/ \E w \in BatchWorkers : WorkerStep(w)

Next == DeliveryStep \/ \E id \in BatchIds, data \in BatchData : Enqueue(id, data)

Spec == Init /\ [][Next]_vars

(* A worker process that is up keeps executing its job and taking new ones; *)
(* nothing is assumed of readers, faults or the arrival of jobs.            *)
Fairness == \A w \in BatchWorkers : WF_vars(WorkerStep(w))
FairSpec == Spec /\ Fairness
-----------------------------------------------------------------------------
(* Every variable keeps its shape. *)
TypeOK ==
    /\ bt \in [BatchIds -> JobRecords(BatchData)]
    /\ bw \in [BatchWorkers -> [job : BatchIds \cup {NoJob},
                               step : {"idle", "load", "claim", "send"},
                               todo : SUBSET Row, failed : SUBSET Row,
                               locked : BOOLEAN]]
    /\ claims \in [Row -> {"none", "sent", "failed"}]
    /\ prefs \in [Users -> Prefs]
    /\ devices \subseteq Users
    /\ told \in [Row -> Nat]
    /\ reached \in [Row -> Nat]
    /\ abandoned \subseteq Row
    /\ faults \in Nat /\ changes \in Nat

(* The claim is worth something only while one execution at a time has it:  *)
(* however often a job is executed, no two executions of runBatch have the  *)
(* same row to send or to mark.                                             *)
OneHolder ==
    \A v, w \in BatchWorkers : v # w => Holds(v) \cap Holds(w) = {}

(* The promise of claimDeliveries ("resurrect a failure without ever        *)
(* duplicating a success"): no reader is successfully sent the same         *)
(* reminder on the same channel twice, across retries, lost locks, crashes  *)
(* and expired jobs.                                                        *)
ToldAtMostOnce == \A r \in Row : told[r] <= 1

(* The delivery tier keeps the promise of module ReminderPromise: a told or *)
(* a lost row is never taken again, and only a held one changes hands.      *)
Fate == [r \in Row |-> IF told[r] >= 1 THEN "told"
                       ELSE IF r \in Held THEN "held"
                       ELSE IF claims[r] = "failed" THEN "failed"
                       ELSE IF claims[r] = "sent" THEN "lost"
                       ELSE "open"]
P == INSTANCE ReminderPromise WITH fate <- Fate
PromiseKept == P!Spec

(* A row of reminder_deliveries never says something untrue of a settled    *)
(* send: a fulfilled send stays `sent` (nobody may revive it), and a row    *)
(* that says `sent` with nobody working on it was either fulfilled or in    *)
(* the hands of an execution that was cut short.                            *)
LedgerIsTrue ==
    \A r \in Row :
        /\ told[r] >= 1 => claims[r] = "sent"
        /\ claims[r] = "sent" /\ r \notin Held => told[r] >= 1 \/ r \in abandoned

(* Within one execution the email is not sent before push is settled AND    *)
(* recorded: no email is in a provider's hands while a failed push row of   *)
(* the same execution still says `sent`.                                    *)
PushIsRecordedFirst ==
    [][\A w \in BatchWorkers, r \in Row :
          /\ r.channel = "email"
          /\ r \in Holds(w) /\ (r \notin bw'[w].todo) /\ r \in bw[w].todo
          /\ bw'[w].step = "send"
          => \A x \in Holds(w) : x.channel = "email"]_vars

(* Jobs do not get stuck: whatever throws, dies or loses its lock, a        *)
(* waiting batch ends.                                                      *)
BatchesEnd ==
    \A id \in BatchIds : bt[id].status = "waiting" ~> bt[id].status \in {"done", "dead"}

(* And a batch that ends as done has decided about every reader in it who   *)
(* wanted the reminder when it was loaded: nothing remains unclaimed.       *)
Undecided(id) == {r \in CandidateRows(id) : claims[r] = "none"}
CandidatesAreClaimed ==
    \A id \in BatchIds, r \in Row :
        (bt[id].status = "waiting" /\ r \in Undecided(id))
            ~> (claims[r] # "none" \/ bt[id].status = "dead" \/ r \notin CandidateRows(id))

(* What the comment on claimDeliveries says the revival is for: a send that *)
(* failed is attempted again while the job has attempts left.               *)
FailedIsRetried ==
    \A id \in BatchIds, r \in Row :
        (claims[r] = "failed" /\ r \in CandidateRows(id) /\ ~Ended(bt, id))
            ~> (claims[r] = "sent" \/ bt[id].status = "dead" \/ r \notin CandidateRows(id))

(* What README.md and workers.js say of claiming before sending: the worst  *)
(* case is a dropped notification, never a second one on the same phone.    *)
ReachedAtMostOnce == \A r \in Row : reached[r] <= 1
=============================================================================
