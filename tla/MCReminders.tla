---------------------------- MODULE MCReminders -----------------------------
(***************************************************************************)
(* Instances of the whole pipeline for TLC: behaviours without a fault, in *)
(* which readers follow and unfollow until the clock stops, and shorter    *)
(* ones with a fault in either tier.  `smooth` says which it is.           *)
(***************************************************************************)
EXTENDS Reminders

CONSTANT FaultyUntil   \* bound: the clock of a behaviour with faults

VARIABLE smooth

MCEvents == {"final"}
MCChannels == {"webpush", "email"}
PushOnly == [timed |-> {1}, dated |-> {1}, channels |-> {"webpush"}]
Kickoff == {[state |-> "pre", class |-> "timed", startsAt |-> 2]}
NoChoices == {}

NoFault == UNCHANGED <<faults, fanoutFaults>>
Short == UNCHANGED <<changes, fanoutChanges>> /\ now' <= FaultyUntil

PipelineInit == Init /\ smooth \in BOOLEAN

PipelineNext == Next /\ UNCHANGED smooth /\ IF smooth THEN NoFault ELSE Short

Smooth(A) == smooth /\ UNCHANGED smooth /\ NoFault /\ A
PipelineFair ==
    /\ \A w \in FanoutWorkers : WF_<<vars, smooth>>(Smooth(FanoutWorkerStep(w)))
    /\ \A w \in BatchWorkers : WF_<<vars, smooth>>(Smooth(BatchWorkerStep(w)))

PipelineSpec == PipelineInit /\ [][PipelineNext]_<<vars, smooth>> /\ PipelineFair

(* SteadyFollowersAttempted of Reminders, of the behaviours without a fault: *)
(* a waiting fan-out is dropped as too late, or whoever follows the fixture  *)
(* from its start to its end gets a row.                                     *)
FollowersAttempted == smooth => SteadyFollowersAttempted
=============================================================================
