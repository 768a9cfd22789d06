-------------------------- MODULE ReminderPromise ---------------------------
(***************************************************************************)
(* What the reminder pipeline promises about one row of                    *)
(* reminder_deliveries -- (event, user, offset, channel) -- with nothing   *)
(* of how it keeps the promise: a row is open until somebody takes it;     *)
(* taken, it ends told, failed or lost; a failed one may be taken again,   *)
(* a told or a lost one never.                                             *)
(***************************************************************************)
CONSTANT Row
VARIABLE fate

Fates == {"open", "held", "failed", "told", "lost"}

Init == fate = [r \in Row |-> "open"]

(* Some rows go to one executor at once. *)
Take(S) ==
    /\ \A r \in S : fate[r] \in {"open", "failed"}
    /\ fate' = [r \in Row |-> IF r \in S THEN "held" ELSE fate[r]]

Tell(r) == fate[r] = "held" /\ fate' = [fate EXCEPT ![r] = "told"]

Fail(r) == fate[r] = "held" /\ fate' = [fate EXCEPT ![r] = "failed"]

(* An executor is cut short with all it had left. *)
Lose(S) ==
    /\ \A r \in S : fate[r] = "held"
    /\ fate' = [r \in Row |-> IF r \in S THEN "lost" ELSE fate[r]]

Next == \/ \E S \in SUBSET Row : Take(S) \/ Lose(S)
        \/ \E r \in Row : Tell(r) \/ Fail(r)

Spec == Init /\ [][Next]_fate
=============================================================================
