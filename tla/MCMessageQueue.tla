-------------------------- MODULE MCMessageQueue --------------------------
(***************************************************************************)
(* Instances of MessageQueue for TLC.                                      *)
(***************************************************************************)
EXTENDS MessageQueue

QueueConditions == {"not_full", "not_empty"}

(***************************************************************************)
(* Nothing tells the processes apart.                                      *)
(***************************************************************************)
ProcSymmetry == Permutations(Proc)

=============================================================================
