----------------------------- MODULE MCDelivery -----------------------------
(* Instances of Delivery for TLC: one event and one offset, so that every   *)
(* execution competes for the same rows.                                    *)
EXTENDS Delivery, TLC

MCEvents == {"final"}
MCOffsets == {60}
MCChannels == {"webpush", "email"}
Wants(offsets, channels) == [timed |-> offsets, dated |-> offsets, channels |-> channels]
MCInitPrefs == Wants({60}, MCChannels)
MCPrefChoices == {Wants({}, MCChannels), Wants({60}, {"email"})}
MCNoChoices == {}
MCOneChoice == {Wants({60}, {"email"})}

(* Two faults, or one and a change of mind. *)
FewEvents == changes = MaxChanges \/ faults > 0

(* Executions are interchangeable. *)
Symmetry == Permutations(BatchWorkers)
=============================================================================
