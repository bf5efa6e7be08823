------------------------------ MODULE Semaphore ------------------------------
(***************************************************************************)
(* Counting semaphores, kernel/semaphore.c.                                *)
(*                                                                         *)
(* A region under the spinlock sem->lock runs with interrupts disabled and *)
(* is one step.  semaphore_wait is one such region when it passes at once, *)
(* and otherwise three: queueing, process_block, and after the wakeup the  *)
(* removal of the entry.                                                   *)
(***************************************************************************)
EXTENDS Blocking

CONSTANT Sem  \* the semaphores

VARIABLES value,    \* sem->value, per semaphore
          swaiters  \* the processes of the list sem->waiters, per semaphore

semVars == <<value, swaiters, pstate>>

SemaphoreTypeOK ==
    /\ BlockingTypeOK
    /\ value \in [Sem -> Nat]
    /\ swaiters \in [Sem -> Seq(Proc)]

semaphore_init(initial) ==
    /\ BlockingInit
    /\ value = initial
    /\ swaiters = [s \in Sem |-> <<>>]

-----------------------------------------------------------------------------
(***************************************************************************)
(* semaphore_wait on a positive value; also semaphore_try_wait returning   *)
(* true.                                                                   *)
(***************************************************************************)
Decrement(s) ==
    /\ value[s] > 0
    /\ value' = [value EXCEPT ![s] = @ - 1]
    /\ UNCHANGED <<swaiters, pstate>>

(***************************************************************************)
(* semaphore_wait on a value of 0 without memory for the waiter entry: it  *)
(* returns as if it had passed.                                            *)
(***************************************************************************)
WaitNoMemory(s) == value[s] = 0 /\ UNCHANGED semVars

(***************************************************************************)
(* semaphore_wait on a value of 0, up to the release of the spinlock.      *)
(***************************************************************************)
Enqueue(s, p) ==
    /\ value[s] = 0
    /\ swaiters' = [swaiters EXCEPT ![s] = Append(@, p)]
    /\ UNCHANGED value

(***************************************************************************)
(* The last part of semaphore_wait.  Whoever was woken passes without      *)
(* decrementing the value that the signal incremented.                     *)
(***************************************************************************)
Dequeue(s, p) ==
    /\ swaiters' = [swaiters EXCEPT ![s] = RemoveFirst(@, p)]
    /\ UNCHANGED <<value, pstate>>

\* Mutant: only a signal that finds the value 0 wakes a waiter.
semaphore_signal_WakesAtZero(s) ==
    /\ value' = [value EXCEPT ![s] = @ + 1]
    /\ process_wake({swaiters[s][i] : i \in {j \in 1 .. Len(swaiters[s]) : j = 1 /\ value[s] = 0}})
    /\ UNCHANGED swaiters

(***************************************************************************)
(* semaphore_signal.  The first waiter is woken and keeps its entry until  *)
(* it runs, so a second signal before that wakes it once more.             *)
(***************************************************************************)
semaphore_signal(s) ==
    /\ value' = [value EXCEPT ![s] = @ + 1]
    /\ process_wake({swaiters[s][i] : i \in (1 .. Len(swaiters[s])) \cap {1}})
    /\ UNCHANGED swaiters

=============================================================================
