---------------------------- MODULE MCCoordinator ----------------------------
(* Instances of Coordinator for TLC. *)
EXTENDS Coordinator, TLC

TwoVoters == <<"v1", "v2">>
Writes == {"add", "other", "delete"}
Kinds == [w \in Writes |-> IF w = "delete" THEN "delete" ELSE "add"]
\* The deletion is of the document that one of the others adds.
Targets == [w \in Writes |-> IF w = "other" THEN "other" ELSE "document"]
NoneOrTwo == {<<>>, <<"add", "other">>}

\* Two writes at most: an import of two documents, or an addition and a deletion.
\* One change of leadership and one failed call, or a second change that brings back
\* a deposed leader with the deletion not committed.
TwoWrites ==
  /\ changes' + faults' <= 2
  /\ changes' = 2 /\ changes = 1 => chief' # None /\ \E i \in DOMAIN log[chief'] :
                                      i > Len(committed) /\ log[chief'][i].write = "delete"
  /\ task'[IF batch = <<>> THEN "other" ELSE "delete"] = Idle

\* At the start the leader is not the voter that is asked first.
CoordinatorTwoWrites ==
  /\ CoordinatorInit /\ chief = "v2"
  /\ [][CoordinatorNext /\ TwoWrites]_coordinatorVars
  /\ CoordinatorFairness
=============================================================================
