------------------------------ MODULE Blocking ------------------------------
(***************************************************************************)
(* process_block and process_wake, on which the condition variables and    *)
(* the semaphores are built.  The repository calls them and has no         *)
(* definition of them; they are modelled from their uses.                  *)
(***************************************************************************)
EXTENDS Naturals, Sequences, SequencesExt, FiniteSets

CONSTANT Proc  \* the processes

VARIABLE pstate  \* state of each process: "READY" (runs or may) or "BLOCKED"

BlockingTypeOK == pstate \in [Proc -> {"READY", "BLOCKED"}]

BlockingInit == pstate = [p \in Proc |-> "READY"]

(***************************************************************************)
(* process_block makes its caller BLOCKED; process_wake makes a process    *)
(* READY, and so does nothing to one that has not blocked yet.             *)
(***************************************************************************)
process_block(p) == pstate' = [pstate EXCEPT ![p] = "BLOCKED"]

process_wake(ps) == pstate' = [p \in Proc |-> IF p \in ps THEN "READY" ELSE pstate[p]]

=============================================================================
