----------------------------- MODULE MutexYield -----------------------------
(***************************************************************************)
(* The mutex on the scheduler: only the scheduler's current process        *)
(* executes, and a process that waits for the mutex yields by calling      *)
(* scheduler_switch_task (kernel/mutex.c, the retry loop of mutex_lock).   *)
(***************************************************************************)
EXTENDS Scheduler

CONSTANT MaxHeld

VARIABLES locked, owner, waiters, pc, held, misled

M == INSTANCE Mutex

mutexVars == <<locked, owner, waiters, pc, held, misled>>

allVars == <<vars, mutexVars>>

YieldInit == Init /\ M!mutex_init

(***************************************************************************)
(* The kernel creates processes, starts the scheduler and lists tasks.     *)
(***************************************************************************)
Start ==
    /\ \E p \in Proc :
          \/ Create(p)
          \/ scheduler_init(p)
          \/ \E priority \in Priority : scheduler_add_task(p, priority)
    /\ UNCHANGED mutexVars

(***************************************************************************)
(* The first switch, which the kernel calls itself: the timer callback     *)
(* does nothing while there is no current process.                         *)
(***************************************************************************)
FirstSwitch == scur = NULL /\ scheduler_switch_task /\ UNCHANGED mutexVars

Tick == timer_handler /\ UNCHANGED mutexVars

Runs(p) == scur = p /\ p # idle

(***************************************************************************)
(* The current process makes a step of a mutex operation.                  *)
(***************************************************************************)
Operate(p) ==
    /\ Runs(p)
    /\ M!LockFree(p) \/ M!LockWait(p)
    /\ UNCHANGED vars

Unlock(p) == Runs(p) /\ M!mutex_unlock(p) /\ UNCHANGED vars

Retry(p) == Runs(p) /\ M!LockRetry(p) /\ UNCHANGED vars

(***************************************************************************)
(* The current process found the mutex taken and yields.                   *)
(***************************************************************************)
Yield(p) ==
    /\ Runs(p)
    /\ pc[p] = "wait"
    /\ locked = 1
    /\ scheduler_switch_task
    /\ UNCHANGED mutexVars

YieldNext ==
    \/ Start
    \/ FirstSwitch
    \/ Tick
    \/ \E p \in Proc : Operate(p) \/ Unlock(p) \/ Retry(p) \/ Yield(p)

(***************************************************************************)
(* The timer interrupts for ever, the current process executes, and an     *)
(* owner that is run often enough leaves its critical section.             *)
(***************************************************************************)
YieldSpec ==
    /\ YieldInit
    /\ [][YieldNext]_allVars
    /\ WF_allVars(Tick)
    /\ \A p \in Proc : /\ WF_allVars(Retry(p))
                       /\ WF_allVars(Yield(p))
                       /\ SF_allVars(Unlock(p))

-----------------------------------------------------------------------------
(***************************************************************************)
(* Yielding lets the other processes run (kernel/mutex.c:84): a process    *)
(* that waits for the mutex gets it in the end.                            *)
(***************************************************************************)
WaiterProceeds == \A p \in Proc : pc[p] = "wait" ~> pc[p] = "run"

=============================================================================
