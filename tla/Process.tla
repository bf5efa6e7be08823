------------------------------- MODULE Process -------------------------------
(***************************************************************************)
(* The process manager, kernel/process.c: the table pm of process_t        *)
(* pointers, the numbering of processes and the context switch.            *)
(*                                                                         *)
(* A process_t pointer is an element of Proc, an address that kmalloc may  *)
(* return.  The memory at an address keeps its contents (proc[p]) when it  *)
(* is freed, and kmalloc may return the address again, so that a pointer   *)
(* kept by another component can dangle.  Each operation is one step: the  *)
(* kernel enters them through interrupt gates, with interrupts disabled.   *)
(*                                                                         *)
(* Names, entry points, file tables and the pages of a stack are left out. *)
(* What is kept of a stack is whose it is: the field saved, for the C      *)
(* fields esp and ebp, is the process (or Boot) on whose stack they point, *)
(* and NULL while they are zero.                                           *)
(***************************************************************************)
EXTENDS Naturals, Sequences, SequencesExt, FiniteSets

CONSTANTS Proc,               \* the addresses kmalloc may return for a process_t
          NULL,               \* the null pointer
          Boot,               \* the stack kernel_main runs on
          MAX_PROCESSES,      \* size of pm.processes
          SCHEDULER_QUANTUM,  \* ticks a process is given (10 in the code)
          MAX_PRIORITY        \* largest value of the uint8_t priority

ASSUME ProcessAssumption ==
    /\ NULL \notin Proc
    /\ Boot \notin Proc
    /\ NULL # Boot
    /\ MAX_PROCESSES \in Nat \ {0}
    /\ SCHEDULER_QUANTUM \in Nat \ {0}
    /\ MAX_PRIORITY \in Nat \ {0}

VARIABLES live,       \* the addresses that hold an allocated process_t
          proc,       \* the contents of the process_t at each address
          processes,  \* pm.processes[0 .. process_count - 1]
          current,    \* pm.current_process
          cpu         \* whose stack the processor executes on

processVars == <<live, proc, processes, current, cpu>>

(***************************************************************************)
(* PROCESS_STATE_TERMINATED is declared and never assigned.                *)
(***************************************************************************)
State == {"READY", "RUNNING", "BLOCKED"}

Priority == 0 .. MAX_PRIORITY

Process_t == [pid      : 0 .. MAX_PROCESSES - 1,
              state    : State,
              priority : Priority,
              quantum  : 0 .. SCHEDULER_QUANTUM,
              saved    : Proc \cup {Boot, NULL}]

ProcessTypeOK ==
    /\ live \in SUBSET Proc
    /\ proc \in [Proc -> Process_t]
    /\ processes \in Seq(Proc)
    /\ Len(processes) <= MAX_PROCESSES
    /\ current \in Proc \cup {NULL}
    /\ cpu \in Proc \cup {Boot, NULL}

(***************************************************************************)
(* State after process_init: the table is empty and the processor is still *)
(* on the boot stack.  Memory never allocated holds some fixed contents.   *)
(***************************************************************************)
ProcessInit ==
    /\ live = {}
    /\ proc = [p \in Proc |-> [pid |-> 0, state |-> "READY", priority |-> 0,
                               quantum |-> 0, saved |-> NULL]]
    /\ processes = <<>>
    /\ current = NULL
    /\ cpu = Boot

-----------------------------------------------------------------------------
(***************************************************************************)
(* What process_create writes into a fresh process_t.  The context points  *)
(* at the frame it builds on the process's own stack.                      *)
(***************************************************************************)
NewProcess(p, pid) ==
    [pid |-> pid, state |-> "READY", priority |-> 1,
     quantum |-> SCHEDULER_QUANTUM, saved |-> p]

(***************************************************************************)
(* process_create returning the address p.  The table slot is              *)
(* pm.processes[process->id]; process.h declares pid and no id, and id is  *)
(* read here as that number.                                               *)
(***************************************************************************)
process_create(p) ==
    /\ Len(processes) < MAX_PROCESSES
    /\ p \in Proc \ live
    /\ live' = live \cup {p}
    /\ proc' = [proc EXCEPT ![p] = NewProcess(p, Len(processes))]
    /\ processes' = Append(processes, p)
    /\ UNCHANGED <<current, cpu>>

(***************************************************************************)
(* process_create when there is memory for the process_t at p and none for *)
(* the stack: the structure is filled in but for its stack pointer, then   *)
(* freed, and process_count is decremented again.                          *)
(***************************************************************************)
process_create_fails(p) ==
    /\ Len(processes) < MAX_PROCESSES
    /\ p \in Proc \ live
    /\ proc' = [proc EXCEPT ![p] = [NewProcess(p, Len(processes)) EXCEPT !.saved = NULL]]
    /\ UNCHANGED <<live, processes, current, cpu>>

(***************************************************************************)
(* The first slot of table t (counted from 1) that holds p.                *)
(***************************************************************************)
SlotOf(t, p) == SelectInSeq(t, LAMBDA q : q = p)

\* Mutant: the processes that move up keep their old numbers.
RenumberNothing(t, k) == proc

(***************************************************************************)
(* The memory contents after the processes that table t holds from slot k  *)
(* on were numbered by their slots.                                        *)
(***************************************************************************)
Renumber(t, k) ==
    [q \in Proc |-> IF \E i \in k .. Len(t) : t[i] = q
                    THEN [proc[q] EXCEPT !.pid = SlotOf(t, q) - 1]
                    ELSE proc[q]]

(***************************************************************************)
(* process_destroy: p leaves the table, the processes behind it move up    *)
(* and are renumbered, its memory is freed.  The scheduler is not told:    *)
(* its pointers to p stay.                                                 *)
(***************************************************************************)
process_destroy(p) ==
    /\ IF Contains(processes, p)
       THEN LET k == SlotOf(processes, p)
            IN  /\ processes' = RemoveAt(processes, k)
                /\ proc' = Renumber(RemoveAt(processes, k), k)
       ELSE UNCHANGED <<processes, proc>>
    /\ live' = live \ {p}
    /\ current' = IF current = p THEN NULL ELSE current
    /\ UNCHANGED cpu

(***************************************************************************)
(* process_switch applied to the memory contents mem: the processor's      *)
(* context is saved in the process cur, then next's context is loaded.     *)
(* next is the argument of the call.  A compiler that keeps it in the      *)
(* frame, as gcc does without optimisation, reads it after the switch from *)
(* the frame that the new stack has there; the model is of a build that    *)
(* has it in a register, and of a first frame that returns into the entry  *)
(* point.                                                                  *)
(***************************************************************************)
Saved(mem, cur) ==
    IF cur = NULL THEN mem ELSE [mem EXCEPT ![cur].saved = cpu]

\* Mutant: the context is saved in the process that is switched to.
process_switch_SavesInNext(mem, cur, next) ==
    /\ proc' = [mem EXCEPT ![next].saved = cpu]
    /\ cpu' = mem[next].saved
    /\ current' = next
    /\ UNCHANGED <<live, processes>>

process_switch(mem, cur, next) ==
    /\ proc' = Saved(mem, cur)
    /\ cpu' = Saved(mem, cur)[next].saved
    /\ current' = next
    /\ UNCHANGED <<live, processes>>

-----------------------------------------------------------------------------
(***************************************************************************)
(* The table numbers the live processes by their slots, each once, so that *)
(* a pid leads to its process and no process is lost or listed twice.      *)
(***************************************************************************)
PidIsSlot ==
    /\ \A p \in Proc : p \in live <=> Contains(processes, p)
    /\ \A i \in 1 .. Len(processes) : proc[processes[i]].pid = i - 1

(***************************************************************************)
(* Every process that is not on the processor has its own stack saved, and *)
(* the current process is the one on the processor: no context switch lets *)
(* a process resume on the stack of another.                               *)
(***************************************************************************)
SavedContextIsOwn ==
    /\ \A p \in live : p # current => proc[p].saved = p
    /\ current # NULL => cpu = current

=============================================================================
