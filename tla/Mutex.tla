-------------------------------- MODULE Mutex --------------------------------
(***************************************************************************)
(* The sleeping lock, kernel/mutex.c.                                      *)
(*                                                                         *)
(* Every region between interrupt_disable and interrupt_restore is one     *)
(* step: the kernel starts no processor but the first, so nothing runs     *)
(* inside it.  A process that finds the mutex taken queues a waiter entry  *)
(* and then tries again each time the scheduler runs it; it is never       *)
(* BLOCKED, so the process_wake of mutex_unlock changes nothing.           *)
(*                                                                         *)
(* mutex_lock returns no result.  held[p] counts how many of p's calls     *)
(* have returned without a matching mutex_unlock: what p, which cannot     *)
(* know better, takes for its hold on the mutex.                           *)
(***************************************************************************)
EXTENDS Naturals, Sequences, SequencesExt, FiniteSets

CONSTANTS Proc,      \* the processes that use the mutex
          NULL,      \* the null pointer
          MaxHeld    \* bound on the depth of nested mutex_lock calls of a process

ASSUME MutexAssumption ==
    /\ NULL \notin Proc
    /\ MaxHeld \in Nat \ {0}

VARIABLES locked,   \* mutex->locked
          owner,    \* mutex->owner
          waiters,  \* the processes of the list mutex->waiters
          pc,       \* "run" outside mutex_lock, "wait" in its retry loop
          held,     \* calls of mutex_lock that returned and were not undone
          misled    \* a mutex_lock returned to a process that had not acquired it

mutexVars == <<locked, owner, waiters, pc, held, misled>>

MutexTypeOK ==
    /\ locked \in {0, 1}
    /\ owner \in Proc \cup {NULL}
    /\ waiters \in Seq(Proc)
    /\ pc \in [Proc -> {"run", "wait"}]
    /\ held \in [Proc -> 0 .. MaxHeld]
    /\ misled \in BOOLEAN

(***************************************************************************)
(* mutex_init.                                                             *)
(***************************************************************************)
mutex_init ==
    /\ locked = 0
    /\ owner = NULL
    /\ waiters = <<>>
    /\ pc = [p \in Proc |-> "run"]
    /\ held = [p \in Proc |-> 0]
    /\ misled = FALSE

-----------------------------------------------------------------------------
\* Mutant: the lock word is set without looking at it.
AcquireUnseen(p) ==
    /\ locked' = 1
    /\ owner' = p

(***************************************************************************)
(* The compare-and-swap of locked from 0 to 1, with the owner it records.  *)
(***************************************************************************)
Acquire(p) ==
    /\ locked = 0
    /\ locked' = 1
    /\ owner' = p

Calls(p) == pc[p] = "run" /\ held[p] < MaxHeld

Returns(p) == held' = [held EXCEPT ![p] = @ + 1]

(***************************************************************************)
(* mutex_lock when the mutex is free; also mutex_try_lock returning true   *)
(* (when it returns false nothing changes).                                *)
(***************************************************************************)
LockFree(p) ==
    /\ Calls(p)
    /\ Acquire(p)
    /\ Returns(p)
    /\ UNCHANGED <<waiters, pc, misled>>

(***************************************************************************)
(* mutex_lock by the owner returns at once, without a count of the calls.  *)
(***************************************************************************)
LockOwned(p) ==
    /\ Calls(p)
    /\ locked = 1
    /\ owner = p
    /\ Returns(p)
    /\ misled' = TRUE
    /\ UNCHANGED <<locked, owner, waiters, pc>>

(***************************************************************************)
(* mutex_lock on a taken mutex when there is no memory for the waiter.     *)
(***************************************************************************)
LockNoMemory(p) ==
    /\ Calls(p)
    /\ locked = 1
    /\ owner # p
    /\ Returns(p)
    /\ misled' = TRUE
    /\ UNCHANGED <<locked, owner, waiters, pc>>

(***************************************************************************)
(* mutex_lock on a taken mutex: the waiter entry goes to the end of the    *)
(* list, the first try of the retry loop fails and the process yields.     *)
(***************************************************************************)
LockWait(p) ==
    /\ Calls(p)
    /\ locked = 1
    /\ owner # p
    /\ waiters' = Append(waiters, p)
    /\ pc' = [pc EXCEPT ![p] = "wait"]
    /\ UNCHANGED <<locked, owner, held, misled>>

(***************************************************************************)
(* A later try of the retry loop that succeeds: the process takes its      *)
(* entry out of the list and returns.  A try that fails only yields.       *)
(***************************************************************************)
LockRetry(p) ==
    /\ pc[p] = "wait"
    /\ Acquire(p)
    /\ waiters' = RemoveFirst(waiters, p)
    /\ pc' = [pc EXCEPT ![p] = "run"]
    /\ Returns(p)
    /\ UNCHANGED misled

(***************************************************************************)
(* mutex_unlock.  The first waiter is woken, and keeps its entry.          *)
(***************************************************************************)
mutex_unlock(p) ==
    /\ pc[p] = "run"
    /\ held[p] > 0
    /\ held' = [held EXCEPT ![p] = @ - 1]
    /\ IF owner = p
       THEN locked' = 0 /\ owner' = NULL
       ELSE UNCHANGED <<locked, owner>>
    /\ UNCHANGED <<waiters, pc, misled>>

MutexStep(p) ==
    \/ LockFree(p)
    \/ LockOwned(p)
    \/ LockNoMemory(p)
    \/ LockWait(p)
    \/ LockRetry(p)
    \/ mutex_unlock(p)

MutexNext == \E p \in Proc : MutexStep(p)

MutexSpec == mutex_init /\ [][MutexNext]_mutexVars

-----------------------------------------------------------------------------
(***************************************************************************)
(* The mutex is locked exactly when it has an owner, and the list holds    *)
(* exactly the waiting processes, each once: mutex_lock frees the entry it *)
(* queued and no other one.                                                *)
(***************************************************************************)
WaitersAreWaiting ==
    /\ locked = 1 <=> owner # NULL
    /\ \A p \in Proc : Contains(waiters, p) <=> pc[p] = "wait"
    /\ IsInjective(waiters)
    /\ ~Contains(waiters, owner)

(***************************************************************************)
(* As long as no mutex_lock returned without acquiring, a process that     *)
(* thinks it holds the mutex does: two of them are never inside.           *)
(***************************************************************************)
MutualExclusion ==
    ~misled => \A p, q \in Proc : held[p] > 0 /\ held[q] > 0 => p = q

(***************************************************************************)
(* The mutex is never taken from its owner, not even by the unlock of a    *)
(* process that mutex_lock misled.                                         *)
(***************************************************************************)
OnlyOwnerReleases ==
    [][owner # NULL /\ owner' # owner =>
         owner' = NULL /\ held'[owner] < held[owner]]_mutexVars

(***************************************************************************)
(* The mutex is a lock whose holder is the recorded owner, whatever the    *)
(* callers take it for.                                                    *)
(***************************************************************************)
L == INSTANCE Lock WITH holder <- owner,
                        waiting <- {p \in Proc : pc[p] = "wait"}

LockSpec == L!Spec

=============================================================================
