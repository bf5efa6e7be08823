------------------------------ MODULE Scheduler ------------------------------
(***************************************************************************)
(* The preemptive priority scheduler, kernel/scheduler.c, on top of the    *)
(* process manager, with the timer interrupt that drives it and the system *)
(* call that ends a process.                                               *)
(*                                                                         *)
(* The list tasks holds process_t pointers in descending priority.  Time   *)
(* accounting (total_runtime, last_run, total_switches) is left out.       *)
(*                                                                         *)
(* The timer's interrupt is not delivered again before timer_handler has   *)
(* acknowledged it, which it does after the callback returns: a process    *)
(* that the callback switched from acknowledges when it runs again.        *)
(***************************************************************************)
EXTENDS Process

CONSTANT MAX_TASKS  \* size of scheduler_state.tasks

ASSUME TasksAssumption == MAX_TASKS \in Nat \ {0}

VARIABLES tasks,       \* scheduler_state.tasks[0 .. task_count - 1]
          scur,        \* scheduler_state.current_process
          idle,        \* scheduler_state.idle_process, NULL until scheduler_init
          inService,   \* a timer interrupt was delivered and not acknowledged
          interrupted, \* processes whose saved context is inside timer_handler
          misused      \* a caller broke a rule the code relies on and does not check

timerVars == <<inService, interrupted>>
vars == <<live, proc, processes, current, cpu, tasks, scur, idle, inService, interrupted,
          misused>>

initialized == idle # NULL

Listed(p) == Contains(tasks, p)

TypeOK ==
    /\ ProcessTypeOK
    /\ tasks \in Seq(Proc)
    /\ Len(tasks) <= MAX_TASKS
    /\ scur \in Proc \cup {NULL}
    /\ idle \in Proc \cup {NULL}
    /\ inService \in BOOLEAN
    /\ interrupted \in SUBSET Proc
    /\ misused \in BOOLEAN

Init ==
    /\ ProcessInit
    /\ tasks = <<>>
    /\ scur = NULL
    /\ idle = NULL
    /\ inService = FALSE
    /\ interrupted = {}
    /\ misused = FALSE

-----------------------------------------------------------------------------
(***************************************************************************)
(* scheduler_init: creates the idle process and registers the timer        *)
(* callback.  When process_create fails it leaves no trace but the memory  *)
(* process_create wrote.  A second call returns at once.                   *)
(***************************************************************************)
scheduler_init(p) ==
    /\ ~initialized
    /\ Len(processes) < MAX_PROCESSES
    /\ p \in Proc \ live
    /\ live' = live \cup {p}
    /\ proc' = [proc EXCEPT ![p] = [NewProcess(p, Len(processes)) EXCEPT !.priority = 0]]
    /\ processes' = Append(processes, p)
    /\ idle' = p
    /\ interrupted' = interrupted \ {p}
    /\ UNCHANGED <<current, cpu, tasks, scur, inService, misused>>

(***************************************************************************)
(* One pass of adjacent exchanges over the list s, from its end to its     *)
(* front, under the priorities in mem.  The task that reaches slot i in    *)
(* the pass is the first of the highest priority in s[i..]; it is moved on *)
(* in front of s[i-1] when its priority is higher.                         *)
(***************************************************************************)
Risen(mem, s, i) ==
    s[CHOOSE k \in i .. Len(s) :
        /\ \A j \in i .. Len(s) : mem[s[j]].priority <= mem[s[k]].priority
        /\ \A j \in i .. k - 1 : mem[s[j]].priority < mem[s[k]].priority]

SortPass(mem, s) ==
    [i \in 1 .. Len(s) |->
        IF i > 1 /\ mem[Risen(mem, s, i)].priority > mem[s[i - 1]].priority
        THEN s[i - 1]
        ELSE Risen(mem, s, i)]

(***************************************************************************)
(* scheduler_add_task.  Nothing in it looks whether p is listed already;   *)
(* a caller that adds a listed task again misuses it.                      *)
(***************************************************************************)
scheduler_add_task(p, priority) ==
    /\ initialized
    /\ Len(tasks) < MAX_TASKS
    /\ p \in live \ {idle}
    /\ LET mem == [proc EXCEPT ![p].quantum = SCHEDULER_QUANTUM,
                               ![p].priority = priority,
                               ![p].state = "READY"]
       IN  /\ proc' = mem
           /\ tasks' = SortPass(mem, Append(tasks, p))
    /\ misused' = (misused \/ Listed(p))
    /\ UNCHANGED <<live, processes, current, cpu, scur, idle, timerVars>>

(***************************************************************************)
(* scheduler_remove_task.  current_process keeps pointing at p.            *)
(***************************************************************************)
scheduler_remove_task(p) ==
    /\ initialized
    /\ Listed(p)
    /\ tasks' = RemoveFirst(tasks, p)
    /\ UNCHANGED <<live, proc, processes, current, cpu, scur, idle, timerVars, misused>>

(***************************************************************************)
(* scheduler_switch_task, from the memory contents mem.  It returns early  *)
(* when no task is listed; otherwise the current process becomes READY     *)
(* whatever its state was, and the first READY task of the list, or idle,  *)
(* runs next.                                                              *)
(***************************************************************************)
Ready(mem, i) == mem[tasks[i]].state = "READY"

\* Mutant: the search for a READY task does not stop at the first.
NextProcessLast(mem) ==
    IF \E i \in 1 .. Len(tasks) : Ready(mem, i)
    THEN tasks[CHOOSE i \in 1 .. Len(tasks) :
                  Ready(mem, i) /\ \A j \in i + 1 .. Len(tasks) : ~Ready(mem, j)]
    ELSE idle

NextProcess(mem) ==
    IF \E i \in 1 .. Len(tasks) : Ready(mem, i)
    THEN tasks[CHOOSE i \in 1 .. Len(tasks) :
                  Ready(mem, i) /\ \A j \in 1 .. i - 1 : ~Ready(mem, j)]
    ELSE idle

SwitchFrom(mem) ==
    LET released == IF scur = NULL THEN mem ELSE [mem EXCEPT ![scur].state = "READY"]
        next     == NextProcess(released)
    IN  /\ process_switch([released EXCEPT ![next].quantum = SCHEDULER_QUANTUM,
                                           ![next].state = "RUNNING"],
                          current, next)
        /\ scur' = next

(***************************************************************************)
(* The process switched to goes on where it was suspended.  If that is in  *)
(* timer_handler, its next call is apic_eoi.  pending tells whether an     *)
(* interrupt is to be acknowledged, suspended the processes to do so.      *)
(***************************************************************************)
Resume(pending, suspended) ==
    /\ inService' = (pending /\ scur' \notin suspended)
    /\ interrupted' = suspended \ {scur'}

scheduler_switch_task ==
    /\ initialized
    /\ tasks # <<>>
    /\ SwitchFrom(proc)
    /\ Resume(inService, interrupted)
    /\ UNCHANGED <<tasks, idle, misused>>

\* Mutants: a quantum that is used up is decremented; no quantum is.
TickedBelowZero == [proc EXCEPT ![scur].quantum = @ - 1]

TickedNever == proc

(***************************************************************************)
(* scheduler_timer_callback takes a tick from the quantum of the current   *)
(* process and switches when none is left.                                 *)
(***************************************************************************)
Ticked == [proc EXCEPT ![scur].quantum = IF @ > 0 THEN @ - 1 ELSE 0]

scheduler_timer_callback ==
    IF Ticked[scur].quantum = 0 /\ tasks # <<>>
    THEN SwitchFrom(Ticked)
    ELSE proc' = Ticked /\ UNCHANGED <<live, processes, current, cpu, scur>>

(***************************************************************************)
(* A timer interrupt.  timer_handler calls the callback and then apic_eoi; *)
(* when the callback switches, apic_eoi waits until the process that was   *)
(* interrupted runs again.                                                 *)
(***************************************************************************)
timer_handler ==
    /\ ~inService
    /\ initialized
    /\ scur # NULL
    /\ scheduler_timer_callback
    /\ IF current' = current
       THEN UNCHANGED timerVars
       ELSE Resume(TRUE, interrupted \cup ({current} \ {NULL}))
    /\ UNCHANGED <<tasks, idle, misused>>

(***************************************************************************)
(* process_block and process_wake have no definition in the repository.    *)
(* As mutex.c, semaphore.c and condition.c use them: the running process   *)
(* marks itself BLOCKED, and becomes READY when another one wakes it.      *)
(***************************************************************************)
process_block ==
    /\ scur # NULL
    /\ scur # idle
    /\ proc[scur].state = "RUNNING"
    /\ proc' = [proc EXCEPT ![scur].state = "BLOCKED"]
    /\ UNCHANGED <<live, processes, current, cpu, tasks, scur, idle, timerVars, misused>>

process_wake(p) ==
    /\ p \in live
    /\ proc[p].state = "BLOCKED"
    /\ proc' = [proc EXCEPT ![p].state = "READY"]
    /\ UNCHANGED <<live, processes, current, cpu, tasks, scur, idle, timerVars, misused>>

(***************************************************************************)
(* sys_exit destroys the process manager's current process.  The idle      *)
(* process, a loop of hlt, makes no system call.  Nothing takes the        *)
(* process off the task list: an exit while it is listed is a misuse.      *)
(***************************************************************************)
sys_exit ==
    /\ current # NULL
    /\ current # idle
    /\ process_destroy(current)
    /\ misused' = (misused \/ Listed(current))
    /\ UNCHANGED <<tasks, scur, idle, timerVars>>

-----------------------------------------------------------------------------
Create(p) ==
    /\ process_create(p)
    /\ interrupted' = interrupted \ {p}
    /\ UNCHANGED <<tasks, scur, idle, inService, misused>>

CreateFails(p) ==
    /\ process_create_fails(p)
    /\ UNCHANGED <<tasks, scur, idle, timerVars, misused>>

Next ==
    \/ \E p \in Proc :
          \/ Create(p)
          \/ CreateFails(p)
          \/ scheduler_init(p)
          \/ scheduler_remove_task(p)
          \/ process_wake(p)
          \/ \E priority \in Priority : scheduler_add_task(p, priority)
    \/ scheduler_switch_task
    \/ timer_handler
    \/ process_block
    \/ sys_exit

Spec == Init /\ [][Next]_vars

(***************************************************************************)
(* The timer is periodic and keeps interrupting while its interrupts are   *)
(* acknowledged; every other step is the callers' choice.                  *)
(***************************************************************************)
FairSpec == Spec /\ WF_vars(timer_handler)

-----------------------------------------------------------------------------
(***************************************************************************)
(* At most one process is RUNNING and it is the scheduler's current one,   *)
(* also while pointers to freed processes are still in use:                *)
(* scheduler_switch_task takes the state from the old process before it    *)
(* gives it to the next.                                                   *)
(***************************************************************************)
RunningIsCurrent == \A p \in Proc : proc[p].state = "RUNNING" => p = scur

(***************************************************************************)
(* Unless a caller misused the scheduler, no context switch of             *)
(* scheduler_switch_task or of the timer loses or mixes up a context, also *)
(* when the process it switches from has exited.                           *)
(***************************************************************************)
ContextsKept == ~misused => SavedContextIsOwn

(***************************************************************************)
(* Unless a caller misused it, the task list is in descending priority and *)
(* lists no process twice: the single exchange pass of scheduler_add_task  *)
(* is enough to sort it.                                                   *)
(***************************************************************************)
TasksSorted ==
    ~misused => \A i, j \in 1 .. Len(tasks) :
        i < j => /\ proc[tasks[i]].priority >= proc[tasks[j]].priority
                 /\ tasks[i] # tasks[j]

(***************************************************************************)
(* When the scheduler changes to another process, no READY task is left    *)
(* waiting that has a higher priority, and idle runs only when no task is  *)
(* READY.                                                                  *)
(***************************************************************************)
PicksHighest ==
    [][scur' # scur =>
         \A i \in 1 .. Len(tasks) :
            proc'[tasks[i]].state = "READY" =>
               /\ scur' # idle
               /\ ~misused => proc'[tasks[i]].priority <= proc'[scur'].priority]_vars

(***************************************************************************)
(* The first task of the list runs once it is READY, as long as it stays   *)
(* the first, the current process stays listed (or is idle) and the last   *)
(* timer interrupt was acknowledged: the timer uses up the quantum of the  *)
(* current process, and then the first READY task is taken.                *)
(***************************************************************************)
FirstTaskRuns ==
    \A p \in Proc :
        LET Waits == /\ ~misused
                     /\ ~inService
                     /\ scur = idle \/ Listed(scur)
                     /\ tasks # <<>>
                     /\ tasks[1] = p
                     /\ proc[p].state = "READY"
        IN  Waits ~> ~Waits

(***************************************************************************)
(* The quantum of the current process expires (kernel/scheduler.c:35): it  *)
(* does not run on for ever beside a task of higher priority.              *)
(***************************************************************************)
QuantumExpires ==
    \A p, q \in Proc :
        LET Outranked == /\ ~misused
                         /\ scur = q
                         /\ q \in live
                         /\ Listed(p)
                         /\ proc[p].state = "READY"
                         /\ proc[p].priority > proc[q].priority
        IN  Outranked ~> ~Outranked

=============================================================================
