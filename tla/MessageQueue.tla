---------------------------- MODULE MessageQueue ----------------------------
(***************************************************************************)
(* The bounded message queue between processes, kernel/message_queue.c,    *)
(* with its mutex and the two condition variables not_full and not_empty.  *)
(*                                                                         *)
(* The mutex is taken for the lock that module Mutex shows it to be, with  *)
(* memory for the waiter entries.  All accesses to the queue but the first *)
(* test of closed are made under it, so that what a call does from one     *)
(* acquisition of the mutex to its release is one step.                    *)
(*                                                                         *)
(* A message is its size: the sizes tell messages apart, and are what      *)
(* msgqueue_receive compares with the room in the caller's buffer.         *)
(***************************************************************************)
EXTENDS Condition

CONSTANTS MaxMessages,  \* queue->max_messages
          MaxSize,      \* queue->max_size
          Faults        \* the combinations of mishaps that may happen

(***************************************************************************)
(* "no_memory":     kmalloc finds no memory for a message;                 *)
(* "small_buffer":  a receiver's buffer may be too small for the message.  *)
(***************************************************************************)
Fault == {"no_memory", "small_buffer"}

ASSUME QueueAssumption ==
    /\ IsFiniteSet(Proc)
    /\ Cond = {"not_full", "not_empty"}
    /\ MaxMessages \in Nat \ {0}
    /\ MaxSize \in Nat \ {0}
    /\ Faults \subseteq SUBSET Fault

VARIABLES queue,   \* the sizes of the linked messages, first to last
          closed,  \* queue->closed
          pc,      \* where each process is
          op,      \* the call each process makes
          size,    \* its message size or buffer size
          faults   \* the mishaps of this behaviour, chosen at the start

(***************************************************************************)
(* Two histories, which no guard reads:                                    *)
(* missed   the processes that were signalled between releasing the mutex  *)
(*          and calling process_block;                                     *)
(* lost     how many places became free without a sender being woken for   *)
(*          them, since a sender last went to wait, up to MaxMessages.     *)
(***************************************************************************)
VARIABLES missed, lost

vars == <<cwaiters, pstate, queue, closed, pc, op, size, faults, missed, lost>>

(***************************************************************************)
(* "idle"    outside the calls;                                            *)
(* "lock"    in mutex_lock, at the start of a call;                        *)
(* "block"   in condition_wait, the mutex and the spinlock released,       *)
(*           about to call process_block;                                  *)
(* "asleep"  in process_block, and then in the mutex_lock that follows;    *)
(* "wake1"   in msgqueue_close, before the broadcast of not_full;          *)
(* "wake2"   in msgqueue_close, before the broadcast of not_empty.         *)
(***************************************************************************)
PC == {"idle", "lock", "block", "asleep", "wake1", "wake2"}

Op == {"send", "try_send", "receive", "try_receive", "close"}

TypeOK ==
    /\ ConditionTypeOK
    /\ queue \in Seq(1 .. MaxSize)
    /\ Len(queue) <= MaxMessages
    /\ closed \in BOOLEAN
    /\ pc \in [Proc -> PC]
    /\ op \in [Proc -> Op \cup {"none"}]
    /\ faults \in Faults
    /\ size \in [Proc -> 1 .. MaxSize]
    /\ missed \subseteq Proc
    /\ lost \in 0 .. MaxMessages

(***************************************************************************)
(* msgqueue_create.                                                        *)
(***************************************************************************)
Init ==
    /\ condition_init
    /\ queue = <<>>
    /\ closed = FALSE
    /\ pc = [p \in Proc |-> "idle"]
    /\ op = [p \in Proc |-> "none"]
    /\ size = [p \in Proc |-> 1]
    /\ faults \in Faults
    /\ missed = {}
    /\ lost = 0

-----------------------------------------------------------------------------
Goto(p, l) ==
    /\ pc' = [pc EXCEPT ![p] = l]
    /\ UNCHANGED <<op, size>>

(***************************************************************************)
(* A call returns and its arguments are gone.                              *)
(***************************************************************************)
Return(p) ==
    /\ pc' = [pc EXCEPT ![p] = "idle"]
    /\ op' = [op EXCEPT ![p] = "none"]
    /\ size' = [size EXCEPT ![p] = 1]

(***************************************************************************)
(* A process enters one of the calls.  All but msgqueue_close return at    *)
(* once when they see the queue closed, without the mutex.                 *)
(***************************************************************************)
Call(p, o, n) ==
    /\ pc[p] = "idle"
    /\ o # "close" => ~closed
    /\ o \in {"receive", "try_receive"} => n = MaxSize \/ "small_buffer" \in faults
    /\ op' = [op EXCEPT ![p] = o]
    /\ size' = [size EXCEPT ![p] = n]
    /\ pc' = [pc EXCEPT ![p] = "lock"]
    /\ UNCHANGED <<cwaiters, pstate, queue, closed, lost>>

(***************************************************************************)
(* p gets the mutex: at the start of a call, or when process_block let it  *)
(* go on.                                                                  *)
(***************************************************************************)
HasLock(p) == pc[p] = "lock" \/ (pc[p] = "asleep" /\ pstate[p] = "READY")

(***************************************************************************)
(* condition_wait under the mutex, up to process_block.  (Without memory   *)
(* for the waiter entry it returns with the mutex held and the loop around *)
(* it tries again.)                                                        *)
(***************************************************************************)
condition_wait(p, c) ==
    /\ Enqueue(c, p)
    /\ Goto(p, "block")
    /\ lost' = IF c = "not_full" THEN 0 ELSE lost
    /\ UNCHANGED <<pstate, queue, closed>>

(***************************************************************************)
(* The process_block of condition_wait.  The timer may come before it.     *)
(***************************************************************************)
Block(p) ==
    /\ pc[p] = "block"
    /\ process_block(p)
    /\ Goto(p, "asleep")
    /\ UNCHANGED <<cwaiters, queue, closed, lost>>

OneMoreLost == lost' = IF lost < MaxMessages THEN lost + 1 ELSE lost

\* Mutant: no receiver is signalled.
PutSilently(p) ==
    /\ queue' = Append(queue, size[p])
    /\ UNCHANGED <<cwaiters, pstate, closed, lost>>
    /\ Return(p)

(***************************************************************************)
(* The message is linked in and one receiver is signalled, or there is no  *)
(* memory for it: then a sender that was woken for the free place returns  *)
(* without using it.                                                       *)
(***************************************************************************)
Put(p) ==
    /\ \/ /\ queue' = Append(queue, size[p])
          /\ condition_signal("not_empty")
          /\ UNCHANGED lost
       \/ /\ "no_memory" \in faults
          /\ IF pc[p] = "asleep" THEN OneMoreLost ELSE UNCHANGED lost
          /\ UNCHANGED <<queue, cwaiters, pstate>>
    /\ Return(p)
    /\ UNCHANGED closed

\* Mutant: no sender is signalled.
TakeSilently(p) ==
    /\ queue' = Tail(queue)
    /\ UNCHANGED <<cwaiters, pstate, closed, lost>>
    /\ Return(p)

(***************************************************************************)
(* The first message is unlinked.  If the buffer is too small for it, it   *)
(* is freed and no sender is signalled.                                    *)
(***************************************************************************)
Take(p) ==
    /\ queue' = Tail(queue)
    /\ IF size[p] < Head(queue)
       THEN OneMoreLost /\ UNCHANGED condVars
       ELSE condition_signal("not_full") /\ UNCHANGED lost
    /\ Return(p)
    /\ UNCHANGED closed

ReturnFalse(p) == Return(p) /\ UNCHANGED <<cwaiters, pstate, queue, closed, lost>>

Full == Len(queue) >= MaxMessages

msgqueue_send(p) ==
    /\ op[p] = "send"
    /\ HasLock(p)
    /\ CASE Full /\ ~closed -> condition_wait(p, "not_full")
         [] closed          -> ReturnFalse(p)
         [] OTHER           -> Put(p)

msgqueue_receive(p) ==
    /\ op[p] = "receive"
    /\ HasLock(p)
    /\ CASE queue = <<>> /\ ~closed -> condition_wait(p, "not_empty")
         [] queue = <<>> /\ closed  -> ReturnFalse(p)
         [] OTHER                   -> Take(p)

(***************************************************************************)
(* msgqueue_try_send does not test closed again under the mutex.           *)
(***************************************************************************)
msgqueue_try_send(p) ==
    /\ op[p] = "try_send"
    /\ HasLock(p)
    /\ IF Full THEN ReturnFalse(p) ELSE Put(p)

msgqueue_try_receive(p) ==
    /\ op[p] = "try_receive"
    /\ HasLock(p)
    /\ IF queue = <<>> THEN ReturnFalse(p) ELSE Take(p)

(***************************************************************************)
(* msgqueue_close sets closed under the mutex and broadcasts both          *)
(* conditions after releasing it.                                          *)
(***************************************************************************)
msgqueue_close(p) ==
    /\ op[p] = "close"
    /\ HasLock(p)
    /\ closed' = TRUE
    /\ Goto(p, "wake1")
    /\ UNCHANGED <<cwaiters, pstate, queue, lost>>

WakeSenders(p) ==
    /\ pc[p] = "wake1"
    /\ condition_broadcast("not_full")
    /\ Goto(p, "wake2")
    /\ UNCHANGED <<queue, closed, lost>>

\* Mutant: closing broadcasts not_full only.
WakeReceiversNot(p) ==
    /\ pc[p] = "wake2"
    /\ Return(p)
    /\ UNCHANGED <<cwaiters, pstate, queue, closed, lost>>

WakeReceivers(p) ==
    /\ pc[p] = "wake2"
    /\ condition_broadcast("not_empty")
    /\ Return(p)
    /\ UNCHANGED <<queue, closed, lost>>

Work(p) ==
    \/ Block(p)
    \/ msgqueue_send(p)
    \/ msgqueue_receive(p)
    \/ msgqueue_try_send(p)
    \/ msgqueue_try_receive(p)
    \/ msgqueue_close(p)
    \/ WakeSenders(p)
    \/ WakeReceivers(p)

(***************************************************************************)
(* The condition on which the call of p waits, and whether p is on its     *)
(* list.                                                                   *)
(***************************************************************************)
Awaits(p) == IF op[p] = "send" THEN "not_full" ELSE "not_empty"

Listed(p) == \E i \in 1 .. Len(cwaiters[Awaits(p)]) : cwaiters[Awaits(p)][i] = p

Next ==
    /\ \E p \in Proc : Work(p) \/ \E o \in Op, n \in 1 .. MaxSize : Call(p, o, n)
    /\ missed' = missed \cup {p \in Proc : pc[p] = "block" /\ Listed(p) /\ ~Listed(p)'}
    /\ UNCHANGED faults

Spec == Init /\ [][Next]_vars

-----------------------------------------------------------------------------
Sleeps(p) == pc[p] = "asleep" /\ pstate[p] = "BLOCKED"

(***************************************************************************)
(* A listed process is in a call that waits for that condition, and listed *)
(* once: condition_signal never spends a signal on a process that has gone *)
(* on.                                                                     *)
(***************************************************************************)
ListedAreWaiting ==
    \A c \in Cond : \A i \in 1 .. Len(cwaiters[c]) :
        LET p == cwaiters[c][i]
        IN  /\ pc[p] = "block" \/ Sleeps(p)
            /\ op[p] \in {"send", "receive"}
            /\ Awaits(p) = c
            /\ \A j \in 1 .. Len(cwaiters[c]) : cwaiters[c][j] = p => j = i

(***************************************************************************)
(* A process BLOCKED in a call is on the list of the condition it waits    *)
(* for, where the next signal or broadcast finds it, unless its signal     *)
(* came between the release of the mutex and process_block: the window in  *)
(* condition_wait is the only way to lose a sleeper.                       *)
(***************************************************************************)
SleepersAreListed == \A p \in Proc : Sleeps(p) => Listed(p) \/ p \in missed

(***************************************************************************)
(* The processes that were woken and have not looked at the queue yet.     *)
(***************************************************************************)
Woken(c) == {p \in Proc : pc[p] = "asleep" /\ pstate[p] = "READY" /\ Awaits(p) = c}

(***************************************************************************)
(* While a receiver sleeps, each message in the queue has a receiver that  *)
(* was woken and is still to look (message_queue.c:99): whatever is taken  *)
(* by others meanwhile, with too small a buffer or not, no receiver sleeps *)
(* beside a message once all those that were woken have run.  No signal    *)
(* fell into the window of condition_wait.                                 *)
(***************************************************************************)
NoReceiverForgotten ==
    missed = {} /\ ~closed =>
        \A p \in Proc : Sleeps(p) /\ op[p] = "receive"
            => Len(queue) <= Cardinality(Woken("not_empty"))

(***************************************************************************)
(* While a sender sleeps, each free place in the queue has a sender that   *)
(* was woken and is still to look (message_queue.c:145), but for the       *)
(* places that were freed in silence: by a receiver whose buffer was too   *)
(* small (message_queue.c:133) or by a woken sender that had no memory for *)
(* its message (message_queue.c:78).  No signal fell into the window of    *)
(* condition_wait.                                                         *)
(***************************************************************************)
NoSenderForgotten ==
    missed = {} /\ ~closed =>
        \A p \in Proc : Sleeps(p) /\ op[p] = "send"
            => MaxMessages - Len(queue) <= Cardinality(Woken("not_full")) + lost

(***************************************************************************)
(* A process sleeps in a closed queue only while the process that closed   *)
(* it is still to broadcast its condition (message_queue.c:245), unless    *)
(* its signal came too early.  A call that saw the queue open and gets the *)
(* mutex after the broadcasts does not go to sleep.                        *)
(***************************************************************************)
CloserWillWake ==
    closed =>
        \A p \in Proc : Sleeps(p) /\ p \notin missed =>
            \E q \in Proc : \/ pc[q] = "wake1"
                            \/ pc[q] = "wake2" /\ op[p] = "receive"

=============================================================================
