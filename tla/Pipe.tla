-------------------------------- MODULE Pipe --------------------------------
(***************************************************************************)
(* The pipe between processes, kernel/pipe.c: a ring of bytes, a mutex,    *)
(* and the semaphores read_sem and write_sem.                              *)
(*                                                                         *)
(* The mutex is taken for the lock that module Mutex shows it to be, so    *)
(* what a call does under it is one step.  The test of pipe->closed before *)
(* mutex_lock belongs to that step: the work under the mutex touches the   *)
(* ring only, so nobody can tell whether a pipe that is closed between the *)
(* two was closed after both.                                              *)
(***************************************************************************)
EXTENDS Semaphore, FiniteSetsExt

CONSTANTS Readers,           \* the processes with the read end
          Writers,           \* the processes with the write end
          Byte,              \* the bytes
          Data,              \* what the callers of pipe_write write
          Size,              \* the sizes that the callers of pipe_read ask for
          PIPE_BUFFER_SIZE,
          MaxPermits,        \* bound on the permits: from it on no call begins
          Faults             \* the combinations of mishaps that may happen

(***************************************************************************)
(* "no_memory":  kmalloc finds no memory for a waiter entry.               *)
(***************************************************************************)
Fault == {"no_memory"}

ASSUME PipeAssumption ==
    /\ Sem = {"read_sem", "write_sem"}
    /\ IsFiniteSet(Proc)
    /\ Proc = Readers \cup Writers
    /\ Byte # {}
    /\ Data \subseteq Seq(Byte) \ {<<>>}
    /\ Size \subseteq Nat \ {0}
    /\ PIPE_BUFFER_SIZE \in Nat \ {0}
    /\ MaxPermits \in Nat
    /\ Faults \subseteq SUBSET Fault

VARIABLES buffer, read_pos, write_pos, count,  \* the ring
          closed,                              \* pipe->closed
          pc,                                  \* where each process is
          op,                                  \* the call each process makes
          hand,    \* the caller's buffer: bytes read, or bytes still to write
          size,    \* the size that a pipe_read asks for
          faults,  \* the mishaps of this behaviour, chosen at the start
          missed   \* history: a signal went to a process still to block

ringVars == <<buffer, read_pos, write_pos, count>>
callVars == <<pc, op, hand, size>>
vars == <<semVars, ringVars, closed, callVars, faults, missed>>

(***************************************************************************)
(* "idle"    outside the calls;                                            *)
(* "wait"    at the head of the loop, before semaphore_wait;               *)
(* "block"   in semaphore_wait, about to call process_block;               *)
(* "asleep"  in process_block;                                             *)
(* "work"    before the test of closed and mutex_lock;                     *)
(* "signal"  after mutex_unlock, before semaphore_signal;                  *)
(* "loop"    after semaphore_signal, before the test of closed;            *)
(* "wake1"   in pipe_close, before the signal of read_sem;                 *)
(* "wake2"   in pipe_close, before the signal of write_sem.                *)
(***************************************************************************)
PC == {"idle", "wait", "block", "asleep", "work", "signal", "loop",
       "wake1", "wake2"}

Op == {"none", "read", "write", "close"}

Position == 0 .. PIPE_BUFFER_SIZE - 1

TypeOK ==
    /\ SemaphoreTypeOK
    /\ buffer \in [Position -> Byte]
    /\ read_pos \in Position
    /\ write_pos \in Position
    /\ count \in 0 .. PIPE_BUFFER_SIZE
    /\ closed \in BOOLEAN
    /\ pc \in [Proc -> PC]
    /\ op \in [Proc -> Op]
    /\ hand \in [Proc -> Seq(Byte)]
    /\ size \in [Proc -> Size \cup {0}]
    /\ faults \in Faults
    /\ missed \in BOOLEAN

(***************************************************************************)
(* pipe_create.  write_sem starts with the number of bytes of the ring.    *)
(* Fresh memory holds some fixed contents.                                 *)
(***************************************************************************)
Init ==
    /\ semaphore_init([s \in Sem |-> IF s = "read_sem" THEN 0 ELSE PIPE_BUFFER_SIZE])
    /\ buffer = [i \in Position |-> CHOOSE b \in Byte : TRUE]
    /\ read_pos = 0
    /\ write_pos = 0
    /\ count = 0
    /\ closed = FALSE
    /\ pc = [p \in Proc |-> "idle"]
    /\ op = [p \in Proc |-> "none"]
    /\ hand = [p \in Proc |-> <<>>]
    /\ size = [p \in Proc |-> 0]
    /\ faults \in Faults
    /\ missed = FALSE

-----------------------------------------------------------------------------
Goto(p, l) == pc' = [pc EXCEPT ![p] = l]

Return(p) ==
    /\ Goto(p, "idle")
    /\ op' = [op EXCEPT ![p] = "none"]
    /\ hand' = [hand EXCEPT ![p] = <<>>]
    /\ size' = [size EXCEPT ![p] = 0]

(***************************************************************************)
(* A process enters pipe_read or pipe_write, which return at once when the *)
(* pipe is closed, or pipe_close, whose first step closes the pipe.        *)
(***************************************************************************)
Holders == {p \in Proc : pc[p] \in {"work", "signal"}}

Permits == value["read_sem"] + value["write_sem"] + Cardinality(Holders)

Bounded == Permits < MaxPermits

Calls(p) == pc[p] = "idle" /\ Bounded

CallRead(p, n) ==
    /\ Calls(p)
    /\ ~closed
    /\ Goto(p, "wait")
    /\ op' = [op EXCEPT ![p] = "read"]
    /\ size' = [size EXCEPT ![p] = n]
    /\ UNCHANGED <<semVars, ringVars, closed, hand>>

CallWrite(p, d) ==
    /\ Calls(p)
    /\ ~closed
    /\ Goto(p, "wait")
    /\ op' = [op EXCEPT ![p] = "write"]
    /\ hand' = [hand EXCEPT ![p] = d]
    /\ UNCHANGED <<semVars, ringVars, closed, size>>

pipe_close(p) ==
    /\ Calls(p)
    /\ closed' = TRUE
    /\ Goto(p, "wake1")
    /\ op' = [op EXCEPT ![p] = "close"]
    /\ UNCHANGED <<semVars, ringVars, hand, size>>

WakeReader(p) ==
    /\ pc[p] = "wake1"
    /\ semaphore_signal("read_sem")
    /\ Goto(p, "wake2")
    /\ UNCHANGED <<ringVars, closed, op, hand, size>>

WakeWriter(p) ==
    /\ pc[p] = "wake2"
    /\ semaphore_signal("write_sem")
    /\ Return(p)
    /\ UNCHANGED <<ringVars, closed>>

-----------------------------------------------------------------------------
(***************************************************************************)
(* semaphore_wait in the loops of pipe_read and pipe_write.                *)
(***************************************************************************)
Awaits(p) == IF op[p] = "read" THEN "read_sem" ELSE "write_sem"

Pass(p) ==
    /\ pc[p] = "wait"
    /\ \/ Decrement(Awaits(p))
       \/ "no_memory" \in faults /\ Bounded /\ WaitNoMemory(Awaits(p))
    /\ Goto(p, "work")
    /\ UNCHANGED <<ringVars, closed, op, hand, size>>

Sleep(p) ==
    /\ pc[p] = "wait"
    /\ Enqueue(Awaits(p), p)
    /\ Goto(p, "block")
    /\ UNCHANGED <<pstate, ringVars, closed, op, hand, size>>

(***************************************************************************)
(* The process_block of semaphore_wait.  The timer may come before it.     *)
(***************************************************************************)
Block(p) ==
    /\ pc[p] = "block"
    /\ process_block(p)
    /\ Goto(p, "asleep")
    /\ UNCHANGED <<value, swaiters, ringVars, closed, op, hand, size>>

WakeUp(p) ==
    /\ pc[p] = "asleep"
    /\ pstate[p] = "READY"
    /\ Dequeue(Awaits(p), p)
    /\ Goto(p, "work")
    /\ UNCHANGED <<ringVars, closed, op, hand, size>>

-----------------------------------------------------------------------------
(***************************************************************************)
(* A pipe that was closed meanwhile ends the call.                         *)
(***************************************************************************)
Stop(p) ==
    /\ pc[p] = "work"
    /\ closed
    /\ Return(p)
    /\ UNCHANGED <<semVars, ringVars, closed>>

(***************************************************************************)
(* The part of pipe_read under the mutex: as many bytes as are wanted and  *)
(* available go from the ring to the caller.  They may be none.            *)
(***************************************************************************)
At(i) == (read_pos + i) % PIPE_BUFFER_SIZE

FirstBytes(n) == [i \in 1 .. n |-> buffer[At(i - 1)]]

\* Mutant: read_pos stays where it is.
pipe_read_KeepsPosition(p) ==
    /\ pc[p] = "work"
    /\ op[p] = "read"
    /\ ~closed
    /\ LET to_read == Min({size[p] - Len(hand[p]), count})
       IN  /\ hand' = [hand EXCEPT ![p] = @ \o FirstBytes(to_read)]
           /\ count' = count - to_read
    /\ Goto(p, "signal")
    /\ UNCHANGED <<semVars, buffer, read_pos, write_pos, closed, op, size>>

pipe_read(p) ==
    /\ pc[p] = "work"
    /\ op[p] = "read"
    /\ ~closed
    /\ LET to_read == Min({size[p] - Len(hand[p]), count})
       IN  /\ hand' = [hand EXCEPT ![p] = @ \o FirstBytes(to_read)]
           /\ read_pos' = At(to_read)
           /\ count' = count - to_read
    /\ Goto(p, "signal")
    /\ UNCHANGED <<semVars, buffer, write_pos, closed, op, size>>

(***************************************************************************)
(* The part of pipe_write under the mutex: as many bytes as there are and  *)
(* find space go from the caller to the ring.                              *)
(***************************************************************************)
Written(d) ==
    [i \in Position |->
        LET k == (i + (PIPE_BUFFER_SIZE - write_pos)) % PIPE_BUFFER_SIZE
        IN  IF k < Len(d) THEN d[k + 1] ELSE buffer[i]]

Space == PIPE_BUFFER_SIZE - count

pipe_write(p) ==
    /\ pc[p] = "work"
    /\ op[p] = "write"
    /\ ~closed
    /\ LET to_write == Min({Len(hand[p]), Space})
       IN  /\ buffer' = Written(SubSeq(hand[p], 1, to_write))
           /\ hand' = [hand EXCEPT ![p] = SubSeq(@, to_write + 1, Len(@))]
           /\ write_pos' = (write_pos + to_write) % PIPE_BUFFER_SIZE
           /\ count' = count + to_write
    /\ Goto(p, "signal")
    /\ UNCHANGED <<semVars, read_pos, closed, op, size>>

(***************************************************************************)
(* The other side is signalled, also when no byte was moved.  A call that  *)
(* is served ends; the others test closed before they go on.               *)
(***************************************************************************)
Served(p) ==
    CASE op[p] = "read"  -> Len(hand[p]) = size[p]
      [] op[p] = "write" -> hand[p] = <<>>

EndIfServed(p) ==
    IF Served(p) THEN Return(p) ELSE Goto(p, "loop") /\ UNCHANGED <<op, hand, size>>

\* Mutant: a reader that has no byte yet does not signal.
SignalIfRead(p) ==
    /\ pc[p] = "signal"
    /\ IF op[p] = "read"
       THEN IF hand[p] # <<>> THEN semaphore_signal("write_sem") ELSE UNCHANGED semVars
       ELSE semaphore_signal("read_sem")
    /\ EndIfServed(p)
    /\ UNCHANGED <<ringVars, closed>>

Signal(p) ==
    /\ pc[p] = "signal"
    /\ semaphore_signal(IF op[p] = "read" THEN "write_sem" ELSE "read_sem")
    /\ EndIfServed(p)
    /\ UNCHANGED <<ringVars, closed>>

Loop(p) ==
    /\ pc[p] = "loop"
    /\ IF closed THEN Return(p) ELSE Goto(p, "wait") /\ UNCHANGED <<op, hand, size>>
    /\ UNCHANGED <<semVars, ringVars, closed>>

Work(p) ==
    \/ Pass(p)
    \/ Sleep(p)
    \/ Block(p)
    \/ WakeUp(p)
    \/ Stop(p)
    \/ pipe_read(p)
    \/ pipe_write(p)
    \/ Signal(p)
    \/ Loop(p)
    \/ WakeReader(p)
    \/ WakeWriter(p)

Enter(p) ==
    \/ p \in Readers /\ \E n \in Size : CallRead(p, n)
    \/ p \in Writers /\ \E d \in Data : CallWrite(p, d)
    \/ pipe_close(p)

(***************************************************************************)
(* A semaphore was signalled whose first waiter is still to block.         *)
(***************************************************************************)
SignalTooEarly ==
    \E s \in Sem : /\ value'[s] > value[s]
                   /\ swaiters[s] # <<>>
                   /\ pc[Head(swaiters[s])] = "block"

Next ==
    /\ \E p \in Proc : Work(p) \/ Enter(p)
    /\ missed' = (missed \/ SignalTooEarly)
    /\ UNCHANGED faults

Spec == Init /\ [][Next]_vars

-----------------------------------------------------------------------------
(***************************************************************************)
(* The list of a semaphore holds exactly the processes that wait for it,   *)
(* each once: the removal of an entry in semaphore_wait never runs off the *)
(* end of the list, and no signal is spent on a process that has gone on.  *)
(***************************************************************************)
ListedAreWaiting ==
    /\ \A s \in Sem : IsInjective(swaiters[s])
    /\ \A s \in Sem, p \in Proc :
          Contains(swaiters[s], p) <=> pc[p] \in {"block", "asleep"} /\ Awaits(p) = s

(***************************************************************************)
(* The bytes of the ring are a channel: pipe_read delivers them in the     *)
(* order of pipe_write, whatever the sizes and wherever the ring wraps,    *)
(* and a call ends when all its bytes were moved or the pipe is closed.    *)
(***************************************************************************)
Channel == INSTANCE ByteChannel WITH
               Capacity <- PIPE_BUFFER_SIZE,
               contents <- FirstBytes(count)

ChannelSpec == Channel!Spec

(***************************************************************************)
(* No permit is lost: every pass through a loop that took one gives one to *)
(* the other side, so the semaphores and the processes between their wait  *)
(* and their signal hold at least as many as the pipe started with.        *)
(***************************************************************************)
PermitsKept == ~closed => Permits >= PIPE_BUFFER_SIZE

(***************************************************************************)
(* A reader and a writer never sleep side by side for good: while both are *)
(* asleep some process has passed or was woken and is still to signal one  *)
(* of them, although neither semaphore counts bytes.  No signal went to a  *)
(* process between the release of the spinlock and process_block.          *)
(***************************************************************************)
Sleeps(p) == pc[p] = "asleep" /\ pstate[p] = "BLOCKED"

Active(p) == pc[p] \in {"work", "signal"} \/ (pc[p] = "asleep" /\ pstate[p] = "READY")

NoStandstill ==
    ~closed /\ ~missed =>
        \A r, w \in Proc : Sleeps(r) /\ op[r] = "read" /\ Sleeps(w) /\ op[w] = "write"
            => \E p \in Proc : Active(p)

=============================================================================
