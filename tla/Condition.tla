------------------------------ MODULE Condition ------------------------------
(***************************************************************************)
(* Condition variables, kernel/condition.c.                                *)
(*                                                                         *)
(* A region under the spinlock cond->lock runs with interrupts disabled    *)
(* and is one step.  The wait is two steps, because the spinlock is        *)
(* released before process_block is called.                                *)
(***************************************************************************)
EXTENDS Blocking

CONSTANT Cond  \* the condition variables

VARIABLE cwaiters  \* the processes of the list cond->waiters, per condition

condVars == <<cwaiters, pstate>>

ConditionTypeOK ==
    /\ BlockingTypeOK
    /\ cwaiters \in [Cond -> Seq(Proc)]

(***************************************************************************)
(* condition_init.                                                         *)
(***************************************************************************)
condition_init ==
    /\ BlockingInit
    /\ cwaiters = [c \in Cond |-> <<>>]

(***************************************************************************)
(* condition_wait up to the release of the spinlock: p queues itself.  The *)
(* mutex is released in the same step.                                     *)
(***************************************************************************)
Enqueue(c, p) == cwaiters' = [cwaiters EXCEPT ![c] = Append(@, p)]

(***************************************************************************)
(* condition_signal takes the first waiter off the list and wakes it.      *)
(***************************************************************************)
condition_signal(c) ==
    IF cwaiters[c] = <<>>
    THEN UNCHANGED condVars
    ELSE /\ cwaiters' = [cwaiters EXCEPT ![c] = Tail(@)]
         /\ process_wake({Head(cwaiters[c])})

\* Mutant: the list is dropped and only its first process is woken.
condition_broadcast_WakesFirst(c) ==
    /\ cwaiters' = [cwaiters EXCEPT ![c] = <<>>]
    /\ process_wake({cwaiters[c][i] : i \in (1 .. Len(cwaiters[c])) \cap {1}})

(***************************************************************************)
(* condition_broadcast, and condition_destroy, which does the same.        *)
(***************************************************************************)
condition_broadcast(c) ==
    /\ cwaiters' = [cwaiters EXCEPT ![c] = <<>>]
    /\ process_wake({cwaiters[c][i] : i \in 1 .. Len(cwaiters[c])})

=============================================================================
