------------------------- MODULE MessageQueueProofs -------------------------
(***************************************************************************)
(* Theorems about the message queue and its condition variables (modules   *)
(* MessageQueue and Condition), for any number of processes, any capacity  *)
(* and any combination of mishaps.                                         *)
(***************************************************************************)
EXTENDS MessageQueue, SequenceLemmas, FiniteSetTheorems

(***************************************************************************)
(* Only the calls that may wait are ever inside condition_wait.            *)
(***************************************************************************)
WaitersMayWait ==
    \A p \in Proc : pc[p] \in {"block", "asleep"} => op[p] \in {"send", "receive"}

(***************************************************************************)
(* A process inside condition_wait is listed until it is signalled, and    *)
(* one that is signalled before it blocks has missed the signal.           *)
(***************************************************************************)
WaitersAreListed ==
    \A p \in Proc : pc[p] = "block" \/ Sleeps(p) => Listed(p) \/ p \in missed

(***************************************************************************)
(* The inductive invariant.  That a sleeper is listed is kept by a signal  *)
(* only because a process is listed once, so that the entry taken off the  *)
(* list is the last of the process it wakes.                               *)
(***************************************************************************)
QueueInv == TypeOK /\ WaitersMayWait /\ ListedAreWaiting /\ WaitersAreListed

(***************************************************************************)
(* What a step adds to the history of missed signals.                      *)
(***************************************************************************)
MissedStep == missed' = missed \cup {p \in Proc : pc[p] = "block" /\ Listed(p) /\ ~Listed(p)'}

(***************************************************************************)
(* What ListedAreWaiting says of one entry of a list.                      *)
(***************************************************************************)
LEMMA ListedFacts ==
    ASSUME ListedAreWaiting, NEW d \in Cond, NEW j \in 1 .. Len(cwaiters[d]), NEW q, q = cwaiters[d][j]
    PROVE  /\ pc[q] = "block" \/ Sleeps(q)
           /\ op[q] \in {"send", "receive"}
           /\ Awaits(q) = d
           /\ \A h \in 1 .. Len(cwaiters[d]) : cwaiters[d][h] = q => h = j
  BY Zenon DEF ListedAreWaiting

-----------------------------------------------------------------------------
(***************************************************************************)
(* The types of the state, one by one.                                     *)
(***************************************************************************)
LEMMA QueueTypes ==
    ASSUME TypeOK
    PROVE  /\ \A c \in Cond : cwaiters[c] \in Seq(Proc) /\ Len(cwaiters[c]) \in Nat
           /\ \A c \in Cond : \A i \in 1 .. Len(cwaiters[c]) : cwaiters[c][i] \in Proc
           /\ DOMAIN cwaiters = Cond
           /\ Cond = {"not_full", "not_empty"}
           /\ queue \in Seq(1 .. MaxSize)
           /\ Len(queue) \in Nat
           /\ \A p \in Proc : Awaits(p) \in Cond
<1>1. cwaiters \in [Cond -> Seq(Proc)]
  BY DEF TypeOK, ConditionTypeOK
<1>2. Cond = {"not_full", "not_empty"}
  BY QueueAssumption
<1>3. ASSUME NEW c \in Cond
      PROVE  /\ cwaiters[c] \in Seq(Proc) /\ Len(cwaiters[c]) \in Nat
             /\ \A i \in 1 .. Len(cwaiters[c]) : cwaiters[c][i] \in Proc
  <2>1. cwaiters[c] \in Seq(Proc)
    BY <1>1
  <2> QED
    BY <2>1, LenProperties, ElementOfSeq
<1>4. queue \in Seq(1 .. MaxSize) /\ Len(queue) \in Nat
  BY LenProperties DEF TypeOK
<1>5. \A p \in Proc : Awaits(p) \in Cond
  BY <1>2 DEF Awaits
<1> QED
  BY <1>1, <1>2, <1>3, <1>4, <1>5

(***************************************************************************)
(* A process that gets the mutex is on no list.                            *)
(***************************************************************************)
LEMMA RunnerIsUnlisted ==
    ASSUME TypeOK, ListedAreWaiting, NEW p \in Proc, ~(pc[p] = "block" \/ Sleeps(p)),
           NEW c \in Cond
    PROVE  \A i \in 1 .. Len(cwaiters[c]) : cwaiters[c][i] # p
  BY DEF ListedAreWaiting

(***************************************************************************)
(* A step that takes the first k processes off the list of c and wakes     *)
(* them, while process p moves about outside the lists: no process (k =    *)
(* 0), a signal (k = 1) and a broadcast (k the length of the list).        *)
(***************************************************************************)
Wakes(c, k) ==
    /\ cwaiters' \in [Cond -> Seq(Proc)]
    /\ \A d \in Cond \ {c} : cwaiters'[d] = cwaiters[d]
    /\ Len(cwaiters'[c]) = Len(cwaiters[c]) - k
    /\ \A i \in 1 .. Len(cwaiters[c]) - k : cwaiters'[c][i] = cwaiters[c][i + k]
    /\ pstate' \in [Proc -> {"READY", "BLOCKED"}]
    /\ \A q \in Proc :
          pstate'[q] = IF \E i \in 1 .. k : cwaiters[c][i] = q THEN "READY" ELSE pstate[q]

(***************************************************************************)
(* A step that leaves the conditions alone wakes nobody.                   *)
(***************************************************************************)
LEMMA NobodyWoken ==
    ASSUME TypeOK, NEW c \in Cond, UNCHANGED condVars
    PROVE  Wakes(c, 0)
  BY QueueTypes DEF Wakes, condVars, TypeOK, ConditionTypeOK, BlockingTypeOK

(***************************************************************************)
(* condition_signal wakes the first waiter, if there is one.               *)
(***************************************************************************)
LEMMA SignalWakes ==
    ASSUME TypeOK, NEW c \in Cond, condition_signal(c)
    PROVE  \/ Len(cwaiters[c]) = 0 /\ Wakes(c, 0)
           \/ Len(cwaiters[c]) > 0 /\ Wakes(c, 1)
<1>0. cwaiters \in [Cond -> Seq(Proc)] /\ pstate \in [Proc -> {"READY", "BLOCKED"}]
  BY DEF TypeOK, ConditionTypeOK, BlockingTypeOK
<1>1. CASE cwaiters[c] = <<>>
  BY <1>1, NobodyWoken, QueueTypes, EmptySeq DEF condition_signal
<1>2. CASE cwaiters[c] # <<>>
  <2>1. /\ cwaiters' = [cwaiters EXCEPT ![c] = Tail(cwaiters[c])]
        /\ pstate' = [q \in Proc |-> IF q = cwaiters[c][1] THEN "READY" ELSE pstate[q]]
    BY <1>2, QueueTypes DEF condition_signal, process_wake
  <2>2. /\ Len(cwaiters[c]) \in Nat \ {0}
        /\ Tail(cwaiters[c]) \in Seq(Proc)
        /\ Len(Tail(cwaiters[c])) = Len(cwaiters[c]) - 1
        /\ \A i \in 1 .. Len(cwaiters[c]) - 1 : Tail(cwaiters[c])[i] = cwaiters[c][i + 1]
    BY <1>2, QueueTypes, HeadTailProperties, EmptySeq
  <2>3. \A q : (\E i \in 1 .. 1 : cwaiters[c][i] = q) <=> q = cwaiters[c][1]
    OBVIOUS
  <2>4. Wakes(c, 1)
    BY <1>0, <2>1, <2>2, <2>3 DEF Wakes
  <2> QED
    BY <2>2, <2>4
<1> QED
  BY <1>1, <1>2

(***************************************************************************)
(* A signal as a step that wakes the first so many.                        *)
(***************************************************************************)
LEMMA SignalWakesSome ==
    ASSUME TypeOK, NEW c \in Cond, condition_signal(c)
    PROVE  \E k \in 0 .. Len(cwaiters[c]) : Wakes(c, k)
<1>1. Len(cwaiters[c]) \in Nat
  BY QueueTypes
<1>2. CASE Len(cwaiters[c]) = 0 /\ Wakes(c, 0)
  BY <1>1, <1>2
<1>3. CASE Len(cwaiters[c]) > 0 /\ Wakes(c, 1)
  <2>1. 1 \in 0 .. Len(cwaiters[c])
    BY <1>1, <1>3
  <2> QED
    BY <1>3, <2>1
<1> QED
  BY <1>2, <1>3, SignalWakes

(***************************************************************************)
(* condition_broadcast wakes every waiter.                                 *)
(***************************************************************************)
LEMMA BroadcastWakes ==
    ASSUME TypeOK, NEW c \in Cond, condition_broadcast(c)
    PROVE  Wakes(c, Len(cwaiters[c]))
<1>0. cwaiters \in [Cond -> Seq(Proc)] /\ pstate \in [Proc -> {"READY", "BLOCKED"}]
  BY DEF TypeOK, ConditionTypeOK, BlockingTypeOK
<1>1. cwaiters' = [cwaiters EXCEPT ![c] = <<>>]
  BY DEF condition_broadcast
<1>2. pstate' = [q \in Proc |-> IF q \in {cwaiters[c][i] : i \in 1 .. Len(cwaiters[c])}
                                THEN "READY" ELSE pstate[q]]
  BY DEF condition_broadcast, process_wake
<1> QED
  BY <1>0, <1>1, <1>2, QueueTypes DEF Wakes

(***************************************************************************)
(* Process p runs outside the lists and stays outside, and wakes others.   *)
(***************************************************************************)
LEMMA WakingKeeps ==
    ASSUME QueueInv, NEW p \in Proc, ~(pc[p] = "block" \/ Sleeps(p)),
           NEW c \in Cond, NEW k \in 0 .. Len(cwaiters[c]), Wakes(c, k),
           queue' \in Seq(1 .. MaxSize), Len(queue') <= MaxMessages, closed' \in BOOLEAN,
           faults' = faults, MissedStep, lost' \in 0 .. MaxMessages,
           NEW l \in PC \ {"block", "asleep"}, pc' = [pc EXCEPT ![p] = l],
           NEW o \in Op \cup {"none"}, op' = [op EXCEPT ![p] = o],
           NEW n \in 1 .. MaxSize, size' = [size EXCEPT ![p] = n]
    PROVE  QueueInv'
<1>0. TypeOK /\ WaitersMayWait /\ ListedAreWaiting /\ WaitersAreListed
  BY DEF QueueInv
<1>1. TypeOK'
  BY <1>0 DEF TypeOK, ConditionTypeOK, BlockingTypeOK, Wakes, MissedStep
<1>2. WaitersMayWait'
  BY <1>0 DEF WaitersMayWait, TypeOK
<1>3. \A q \in Proc \ {p} : pc'[q] = pc[q] /\ op'[q] = op[q] /\ Awaits(q)' = Awaits(q)
  BY <1>0 DEF TypeOK, Awaits
<1>a. ~Sleeps(p)'
  BY <1>0 DEF Sleeps, TypeOK
<1>b. \A i \in 1 .. Len(cwaiters'[c]) :
         i + k \in 1 .. Len(cwaiters[c]) /\ cwaiters'[c][i] = cwaiters[c][i + k]
  BY <1>0, QueueTypes DEF Wakes
<1>d. k \in Nat /\ \A d \in Cond : Len(cwaiters[d]) \in Nat /\ Len(cwaiters'[d]) \in Nat
  <2>1. \A d \in Cond : Len(cwaiters[d]) \in Nat
    BY <1>0, QueueTypes
  <2>2. \A d \in Cond : cwaiters'[d] \in Seq(Proc)
    BY DEF Wakes
  <2> QED
    BY <2>1, <2>2, LenProperties
<1>c. \A d \in Cond : \A i \in 1 .. Len(cwaiters'[d]) :
         \E j \in 1 .. Len(cwaiters[d]) :
            cwaiters'[d][i] = cwaiters[d][j] /\ (d = c => j = i + k) /\ (d # c => j = i)
  BY <1>b DEF Wakes
<1>4. ListedAreWaiting'
  <2>0. \A d \in Cond : \A i \in 1 .. Len(cwaiters'[d]) : cwaiters'[d][i] \in Proc
    <3> SUFFICES ASSUME NEW d \in Cond, NEW i \in 1 .. Len(cwaiters'[d]) PROVE cwaiters'[d][i] \in Proc
      OBVIOUS
    <3>1. cwaiters'[d] \in Seq(Proc)
      BY DEF Wakes
    <3> QED
      BY <3>1, ElementOfSeq
  <2> SUFFICES ASSUME NEW d \in Cond, NEW i \in 1 .. Len(cwaiters'[d]), NEW q \in Proc,
                      q = cwaiters'[d][i]
               PROVE  /\ pc'[q] = "block" \/ Sleeps(q)'
                      /\ op'[q] \in {"send", "receive"}
                      /\ Awaits(q)' = d
                      /\ \A h \in 1 .. Len(cwaiters'[d]) : cwaiters'[d][h] = q => h = i
    BY <2>0 DEF ListedAreWaiting, Sleeps, Awaits
  <2>1. PICK j \in 1 .. Len(cwaiters[d]) :
           q = cwaiters[d][j] /\ (d = c => j = i + k) /\ (d # c => j = i)
    BY <1>c
  <2>2. q # p
    BY <1>0, <2>1, RunnerIsUnlisted
  <2>3. /\ pc[q] = "block" \/ Sleeps(q)
        /\ op[q] \in {"send", "receive"}
        /\ Awaits(q) = d
        /\ \A h \in 1 .. Len(cwaiters[d]) : cwaiters[d][h] = q => h = j
    BY <1>0, <2>1, ListedFacts
  <2>4. ~ \E h \in 1 .. k : cwaiters[c][h] = q
    <3> SUFFICES ASSUME NEW h \in 1 .. k, cwaiters[c][h] = q PROVE FALSE
      OBVIOUS
    <3>1. h \in 1 .. Len(cwaiters[c])
      BY <1>0, QueueTypes
    <3>2. Awaits(q) = c
      BY <1>0, <3>1 DEF ListedAreWaiting
    <3>3. d = c /\ h = j
      BY <2>3, <3>1, <3>2
    <3> QED
      BY <2>1, <3>3
  <2>5. pstate'[q] = pstate[q]
    BY <2>2, <2>4 DEF Wakes
  <2>6. \A h \in 1 .. Len(cwaiters'[d]) : cwaiters'[d][h] = q => h = i
    <3> SUFFICES ASSUME NEW h \in 1 .. Len(cwaiters'[d]), cwaiters'[d][h] = q PROVE h = i
      OBVIOUS
    <3>1. PICK g \in 1 .. Len(cwaiters[d]) :
             cwaiters'[d][h] = cwaiters[d][g] /\ (d = c => g = h + k) /\ (d # c => g = h)
      BY <1>c
    <3>2. g = j
      BY <2>3, <3>1
    <3>3. h \in Nat /\ i \in Nat /\ k \in Nat
      BY <1>d
    <3> QED
      BY <2>1, <3>1, <3>2, <3>3
  <2>7. Sleeps(q)' <=> Sleeps(q)
    BY <1>3, <2>2, <2>5 DEF Sleeps
  <2> QED
    BY <1>3, <2>2, <2>3, <2>6, <2>7
<1>5. WaitersAreListed'
  <2> SUFFICES ASSUME NEW q \in Proc, pc'[q] = "block" \/ Sleeps(q)', q \notin missed'
               PROVE  Listed(q)'
    BY Zenon DEF WaitersAreListed
  <2>1. q # p
    BY <1>0, <1>a DEF TypeOK
  <2>0. q \notin missed /\ (pc[q] = "block" /\ Listed(q) => Listed(q)')
    BY DEF MissedStep
  <2>b. CASE pc'[q] = "block"
    BY <1>0, <1>3, <2>0, <2>1, <2>b DEF WaitersAreListed
  <2>s. CASE Sleeps(q)'
    <3> SUFFICES \E i \in 1 .. Len(cwaiters'[Awaits(q)']) : cwaiters'[Awaits(q)'][i] = q
      BY DEF Listed
    <3> USE <2>s
    <3>2. pstate'[q] = pstate[q] /\ ~ \E h \in 1 .. k : cwaiters[c][h] = q
      <4>1. pstate'[q] = "BLOCKED"
        BY DEF Sleeps
      <4>2. pstate'[q] = IF \E h \in 1 .. k : cwaiters[c][h] = q THEN "READY" ELSE pstate[q]
        BY DEF Wakes
      <4> QED
        BY <4>1, <4>2
    <3>3. Sleeps(q)
      BY <1>3, <2>1, <3>2 DEF Sleeps
    <3>4. PICK j \in 1 .. Len(cwaiters[Awaits(q)]) : cwaiters[Awaits(q)][j] = q
      BY <1>0, <2>0, <3>3 DEF WaitersAreListed, Listed
    <3>5. Awaits(q)' = Awaits(q) /\ Awaits(q) \in Cond
      BY <1>0, <1>3, <2>1, QueueTypes
    <3>6. CASE Awaits(q) = c
      <4>1. j \notin 1 .. k /\ j \in Nat /\ k \in Nat /\ Len(cwaiters[c]) \in Nat
        BY <1>0, <3>2, <3>4, <3>6, QueueTypes
      <4>2. j - k \in 1 .. Len(cwaiters[c]) - k /\ (j - k) + k = j
        BY <3>4, <3>6, <4>1
      <4>3. j - k \in 1 .. Len(cwaiters'[c]) /\ cwaiters'[c][j - k] = q
        BY <3>4, <3>6, <4>2 DEF Wakes
      <4> QED
        BY <3>5, <3>6, <4>3
    <3>7. CASE Awaits(q) # c
      <4>1. cwaiters'[Awaits(q)] = cwaiters[Awaits(q)]
        BY <3>5, <3>7 DEF Wakes
      <4> QED
        BY <3>4, <3>5, <4>1
    <3> QED
      BY <3>6, <3>7
  <2> QED
    BY <2>b, <2>s
<1> QED
  BY <1>1, <1>2, <1>4, <1>5 DEF QueueInv

(***************************************************************************)
(* Process p joins the list of the condition its call awaits.              *)
(***************************************************************************)
LEMMA JoiningKeeps ==
    ASSUME QueueInv, NEW p \in Proc, HasLock(p), op[p] \in {"send", "receive"},
           condition_wait(p, Awaits(p)), faults' = faults, MissedStep
    PROVE  QueueInv'
<1> DEFINE a == Awaits(p)
<1>0. TypeOK /\ WaitersMayWait /\ ListedAreWaiting /\ WaitersAreListed
  BY DEF QueueInv
<1>1. ~(pc[p] = "block" \/ Sleeps(p))
  BY DEF HasLock, Sleeps
<1>2. /\ a \in Cond
      /\ cwaiters \in [Cond -> Seq(Proc)]
      /\ pstate \in [Proc -> {"READY", "BLOCKED"}]
      /\ pc \in [Proc -> PC]
  BY <1>0, QueueTypes DEF TypeOK, ConditionTypeOK, BlockingTypeOK
<1>3. /\ cwaiters' = [cwaiters EXCEPT ![a] = Append(cwaiters[a], p)]
      /\ UNCHANGED <<op, size, queue, closed>>
      /\ lost' \in 0 .. MaxMessages
      /\ missed' \subseteq Proc /\ missed \subseteq missed'
  BY <1>0, QueueAssumption DEF condition_wait, Enqueue, Goto, TypeOK, MissedStep
<1>4. pc' = [pc EXCEPT ![p] = "block"] /\ pstate' = pstate
  BY DEF condition_wait, Goto
<1> HIDE DEF a
<1>5. /\ Append(cwaiters[a], p) \in Seq(Proc)
      /\ Len(Append(cwaiters[a], p)) = Len(cwaiters[a]) + 1
      /\ Append(cwaiters[a], p)[Len(cwaiters[a]) + 1] = p
      /\ \A i \in 1 .. Len(cwaiters[a]) : Append(cwaiters[a], p)[i] = cwaiters[a][i]
      /\ Len(cwaiters[a]) \in Nat
  BY <1>2, AppendProperties, LenProperties
<1>6. /\ cwaiters' \in [Cond -> Seq(Proc)]
      /\ pstate' \in [Proc -> {"READY", "BLOCKED"}]
      /\ pc' \in [Proc -> PC]
  BY <1>2, <1>3, <1>4, <1>5 DEF PC
<1>7. TypeOK'
  BY <1>0, <1>3, <1>6 DEF TypeOK, ConditionTypeOK, BlockingTypeOK
<1>8. /\ \A q \in Proc : Awaits(q)' = Awaits(q)
      /\ \A q \in Proc \ {p} : pc'[q] = pc[q] /\ pstate'[q] = pstate[q]
      /\ pc'[p] = "block"
  BY <1>2, <1>3, <1>4 DEF Awaits, Sleeps
<1>9. WaitersMayWait'
  BY <1>0, <1>3, <1>8 DEF WaitersMayWait, Sleeps
<1>10. \A d \in Cond \ {a} : cwaiters'[d] = cwaiters[d]
  BY <1>2, <1>3
<1>11. cwaiters'[a] = Append(cwaiters[a], p)
  BY <1>2, <1>3
<1>12. ListedAreWaiting'
  <2>1. ASSUME NEW d \in Cond, NEW i \in 1 .. Len(cwaiters'[d])
        PROVE  \/ d = a /\ i = Len(cwaiters[a]) + 1 /\ cwaiters'[d][i] = p
               \/ i \in 1 .. Len(cwaiters[d]) /\ cwaiters'[d][i] = cwaiters[d][i]
    BY <1>2, <1>5, <1>10, <1>11
  <2>2. \A d \in Cond : \A i \in 1 .. Len(cwaiters[d]) :
           cwaiters[d][i] \in Proc /\ cwaiters[d][i] # p
    BY <1>0, <1>1, QueueTypes, RunnerIsUnlisted
  <2> SUFFICES ASSUME NEW d \in Cond, NEW i \in 1 .. Len(cwaiters'[d]), NEW q \in Proc,
                      q = cwaiters'[d][i]
               PROVE  /\ pc'[q] = "block" \/ Sleeps(q)'
                      /\ op'[q] \in {"send", "receive"}
                      /\ Awaits(q)' = d
                      /\ \A h \in 1 .. Len(cwaiters'[d]) : cwaiters'[d][h] = q => h = i
    BY <2>1, <2>2 DEF ListedAreWaiting, Sleeps, Awaits
  <2>3. CASE q = p
    <3>1. d = a /\ i = Len(cwaiters[a]) + 1
      BY <2>1, <2>2, <2>3
    <3>2. \A h \in 1 .. Len(cwaiters'[d]) : cwaiters'[d][h] = q => h = i
      BY <2>1, <2>2, <2>3, <3>1
    <3>3. Awaits(q)' = d
      BY <1>8, <2>3, <3>1 DEF a
    <3> QED
      BY <1>3, <1>8, <2>3, <3>2, <3>3
  <2>4. CASE q # p
    <3>1. i \in 1 .. Len(cwaiters[d]) /\ q = cwaiters[d][i]
      BY <2>1, <2>4
    <3>2. /\ pc[q] = "block" \/ Sleeps(q)
          /\ op[q] \in {"send", "receive"}
          /\ Awaits(q) = d
          /\ \A h \in 1 .. Len(cwaiters[d]) : cwaiters[d][h] = q => h = i
      BY <1>0, <3>1 DEF ListedAreWaiting
    <3>3. \A h \in 1 .. Len(cwaiters'[d]) : cwaiters'[d][h] = q => h = i
      BY <2>1, <2>4, <3>2
    <3>4. pc'[q] = "block" \/ Sleeps(q)'
      BY <1>8, <2>4, <3>2 DEF Sleeps
    <3> QED
      BY <1>3, <1>8, <3>2, <3>3, <3>4
  <2> QED
    BY <2>3, <2>4
<1>13. WaitersAreListed'
  <2> SUFFICES ASSUME NEW q \in Proc, pc'[q] = "block" \/ Sleeps(q)', q \notin missed'
               PROVE  \E i \in 1 .. Len(cwaiters'[Awaits(q)']) : cwaiters'[Awaits(q)'][i] = q
    BY Zenon DEF WaitersAreListed, Listed
  <2>1. CASE q = p
    <3>1. Awaits(q)' = a
      BY <1>8, <2>1 DEF a
    <3> QED
      BY <1>5, <1>11, <2>1, <3>1
  <2>2. CASE q # p
    <3>1. /\ pc[q] = "block" \/ Sleeps(q)
          /\ Awaits(q)' = Awaits(q) /\ Awaits(q) \in Cond
          /\ q \notin missed
      BY <1>0, <1>3, <1>8, <2>2, QueueTypes DEF Sleeps
    <3>2. PICK i \in 1 .. Len(cwaiters[Awaits(q)]) : cwaiters[Awaits(q)][i] = q
      BY <1>0, <3>1 DEF WaitersAreListed, Listed
    <3>3. i \in 1 .. Len(cwaiters'[Awaits(q)]) /\ cwaiters'[Awaits(q)][i] = q
      BY <1>5, <1>10, <1>11, <3>1, <3>2
    <3> QED
      BY <3>1, <3>3
  <2> QED
    BY <2>1, <2>2
<1> QED
  BY <1>7, <1>9, <1>12, <1>13 DEF QueueInv

(***************************************************************************)
(* Block: the process may have been taken off the list already.            *)
(***************************************************************************)
LEMMA BlockKeeps ==
    ASSUME QueueInv, NEW p \in Proc, Block(p), faults' = faults, MissedStep
    PROVE  QueueInv'
<1>0. TypeOK /\ WaitersMayWait /\ ListedAreWaiting /\ WaitersAreListed
  BY DEF QueueInv
<1>1. /\ pc \in [Proc -> PC]
      /\ pstate \in [Proc -> {"READY", "BLOCKED"}]
      /\ pc[p] = "block"
      /\ pc' = [pc EXCEPT ![p] = "asleep"]
      /\ pstate' = [pstate EXCEPT ![p] = "BLOCKED"]
      /\ UNCHANGED <<cwaiters, queue, closed, op, size, lost>>
  BY <1>0 DEF TypeOK, ConditionTypeOK, BlockingTypeOK, Block, Goto, process_block
<1>2. TypeOK'
  BY <1>0, <1>1 DEF TypeOK, ConditionTypeOK, BlockingTypeOK, PC, MissedStep
<1>3. /\ \A q \in Proc : Awaits(q)' = Awaits(q)
      /\ \A q \in Proc \ {p} : pc'[q] = pc[q] /\ pstate'[q] = pstate[q]
      /\ Sleeps(p)'
  BY <1>0, <1>1 DEF Awaits, Sleeps, WaitersMayWait
<1>4. WaitersMayWait'
  BY <1>0, <1>1, <1>3 DEF WaitersMayWait
<1>5. ListedAreWaiting'
  <2>0. \A d \in Cond : \A i \in 1 .. Len(cwaiters[d]) : cwaiters[d][i] \in Proc
    BY <1>0, QueueTypes
  <2> SUFFICES ASSUME NEW d \in Cond, NEW i \in 1 .. Len(cwaiters[d]), NEW q \in Proc,
                      q = cwaiters[d][i]
               PROVE  /\ pc'[q] = "block" \/ Sleeps(q)'
                      /\ op'[q] \in {"send", "receive"}
                      /\ Awaits(q)' = d
                      /\ \A h \in 1 .. Len(cwaiters[d]) : cwaiters[d][h] = q => h = i
    BY <1>1, <2>0 DEF ListedAreWaiting, Sleeps, Awaits
  <2>1. /\ pc[q] = "block" \/ Sleeps(q)
        /\ op[q] \in {"send", "receive"}
        /\ Awaits(q) = d
        /\ \A h \in 1 .. Len(cwaiters[d]) : cwaiters[d][h] = q => h = i
    BY <1>0 DEF ListedAreWaiting
  <2>2. pc'[q] = "block" \/ Sleeps(q)'
    BY <1>3, <2>1 DEF Sleeps
  <2> QED
    BY <1>1, <1>3, <2>1, <2>2
<1>6. WaitersAreListed'
  <2>1. \A q \in Proc : Listed(q)' <=> Listed(q)
    BY <1>1, <1>3 DEF Listed
  <2>2. missed \subseteq missed'
    BY DEF MissedStep
  <2> QED
    BY <1>0, <1>1, <1>3, <2>1, <2>2 DEF WaitersAreListed, Sleeps
<1> QED
  BY <1>2, <1>4, <1>5, <1>6 DEF QueueInv

(***************************************************************************)
(* Put and Take, which end a call under the mutex.                         *)
(***************************************************************************)
LEMMA PutKeeps ==
    ASSUME QueueInv, NEW p \in Proc, HasLock(p), ~Full, Put(p), faults' = faults, MissedStep
    PROVE  QueueInv'
<1>0. TypeOK /\ ~(pc[p] = "block" \/ Sleeps(p)) /\ "not_empty" \in Cond
  BY QueueAssumption DEF QueueInv, HasLock, Sleeps
<1>1. /\ pc' = [pc EXCEPT ![p] = "idle"]
      /\ op' = [op EXCEPT ![p] = "none"]
      /\ size' = [size EXCEPT ![p] = 1]
      /\ closed' = closed
  BY DEF Put, Return
<1>2. 1 \in 1 .. MaxSize /\ "idle" \in PC \ {"block", "asleep"} /\ closed' \in BOOLEAN
  BY <1>0, <1>1, QueueAssumption DEF PC, TypeOK
<1>l. lost' \in 0 .. MaxMessages
  BY <1>0, QueueAssumption DEF TypeOK, Put, OneMoreLost
<1>3. CASE queue' = Append(queue, size[p]) /\ condition_signal("not_empty")
  <2>1. PICK k \in 0 .. Len(cwaiters["not_empty"]) : Wakes("not_empty", k)
    BY <1>0, <1>3, SignalWakesSome
  <2>2. queue' \in Seq(1 .. MaxSize) /\ Len(queue') <= MaxMessages
    <3>1. queue \in Seq(1 .. MaxSize) /\ size[p] \in 1 .. MaxSize /\ Len(queue) \in Nat
      BY <1>0, QueueTypes DEF TypeOK
    <3> QED
      BY <1>3, <3>1, AppendProperties, QueueAssumption DEF Full
  <2> QED
    BY <1>0, <1>1, <1>2, <1>l, <2>1, <2>2, WakingKeeps
<1>4. CASE UNCHANGED <<queue, cwaiters, pstate>>
  <2>1. Wakes("not_empty", 0) /\ 0 \in 0 .. Len(cwaiters["not_empty"])
    BY <1>0, <1>4, NobodyWoken, QueueTypes DEF condVars
  <2>2. queue' \in Seq(1 .. MaxSize) /\ Len(queue') <= MaxMessages
    BY <1>0, <1>4 DEF TypeOK
  <2> QED
    BY <1>0, <1>1, <1>2, <1>l, <2>1, <2>2, WakingKeeps
<1> QED
  BY <1>3, <1>4 DEF Put

(***************************************************************************)
(* Taking a message and signalling not_full keeps the queue's invariant.   *)
(***************************************************************************)
LEMMA TakeKeeps ==
    ASSUME QueueInv, NEW p \in Proc, HasLock(p), queue # <<>>, Take(p), faults' = faults,
           MissedStep
    PROVE  QueueInv'
<1>0. TypeOK /\ ~(pc[p] = "block" \/ Sleeps(p)) /\ "not_full" \in Cond
  BY QueueAssumption DEF QueueInv, HasLock, Sleeps
<1>1. /\ pc' = [pc EXCEPT ![p] = "idle"]
      /\ op' = [op EXCEPT ![p] = "none"]
      /\ size' = [size EXCEPT ![p] = 1]
      /\ closed' = closed
  BY DEF Take, Return
<1>2. 1 \in 1 .. MaxSize /\ "idle" \in PC \ {"block", "asleep"} /\ closed' \in BOOLEAN
  BY <1>0, <1>1, QueueAssumption DEF PC, TypeOK
<1>l. lost' \in 0 .. MaxMessages
  BY <1>0, QueueAssumption DEF TypeOK, Take, OneMoreLost
<1>3. queue' \in Seq(1 .. MaxSize) /\ Len(queue') <= MaxMessages
  <2>1. queue \in Seq(1 .. MaxSize) /\ Len(queue) \in Nat /\ Len(queue) <= MaxMessages
    BY <1>0, QueueTypes DEF TypeOK
  <2>2. Tail(queue) \in Seq(1 .. MaxSize) /\ Len(Tail(queue)) = Len(queue) - 1
    BY <2>1, HeadTailProperties
  <2> QED
    BY <2>1, <2>2, QueueAssumption DEF Take
<1>4. PICK k \in 0 .. Len(cwaiters["not_full"]) : Wakes("not_full", k)
  <2>1. 0 \in 0 .. Len(cwaiters["not_full"])
    BY <1>0, QueueTypes
  <2> QED
    BY <1>0, <2>1, NobodyWoken, SignalWakesSome DEF Take
<1> QED
  BY <1>0, <1>1, <1>2, <1>l, <1>3, <1>4, WakingKeeps

(***************************************************************************)
(* A step that wakes nobody and leaves the messages alone.                 *)
(***************************************************************************)
LEMMA QuietKeeps ==
    ASSUME QueueInv, NEW p \in Proc, ~(pc[p] = "block" \/ Sleeps(p)),
           UNCHANGED <<cwaiters, pstate, queue, faults, lost>>, closed' \in BOOLEAN,
           MissedStep,
           NEW l \in PC \ {"block", "asleep"}, pc' = [pc EXCEPT ![p] = l],
           NEW o \in Op \cup {"none"}, op' = [op EXCEPT ![p] = o],
           NEW n \in 1 .. MaxSize, size' = [size EXCEPT ![p] = n]
    PROVE  QueueInv'
<1>1. TypeOK /\ "not_full" \in Cond
  BY QueueAssumption DEF QueueInv
<1>2. Wakes("not_full", 0) /\ 0 \in 0 .. Len(cwaiters["not_full"])
  BY <1>1, NobodyWoken, QueueTypes DEF condVars
<1>3. queue' \in Seq(1 .. MaxSize) /\ Len(queue') <= MaxMessages /\ lost' \in 0 .. MaxMessages
  BY <1>1 DEF TypeOK
<1> QED
  BY <1>1, <1>2, <1>3, WakingKeeps

(***************************************************************************)
(* Returning without success keeps the queue's invariant.                  *)
(***************************************************************************)
LEMMA ReturnFalseKeeps ==
    ASSUME QueueInv, NEW p \in Proc, HasLock(p), ReturnFalse(p), faults' = faults,
           MissedStep
    PROVE  QueueInv'
<1>1. ~(pc[p] = "block" \/ Sleeps(p)) /\ closed' \in BOOLEAN
  BY DEF HasLock, Sleeps, QueueInv, TypeOK, ReturnFalse
<1>2. 1 \in 1 .. MaxSize /\ "idle" \in PC \ {"block", "asleep"}
  BY QueueAssumption DEF PC
<1> QED
  BY <1>1, <1>2, QuietKeeps DEF ReturnFalse, Return

(***************************************************************************)
(* At first nobody waits.                                                  *)
(***************************************************************************)
LEMMA QueueInvInit == Init => QueueInv
<1> SUFFICES ASSUME Init PROVE QueueInv
  OBVIOUS
<1>1. TypeOK
  <2>1. ConditionTypeOK
    BY DEF Init, condition_init, BlockingInit, ConditionTypeOK, BlockingTypeOK
  <2>2. queue \in Seq(1 .. MaxSize) /\ Len(queue) <= MaxMessages
    BY QueueAssumption DEF Init
  <2>3. size \in [Proc -> 1 .. MaxSize]
    BY QueueAssumption DEF Init
  <2>4. missed \subseteq Proc /\ lost \in 0 .. MaxMessages
    BY QueueAssumption DEF Init
  <2> QED
    BY <2>1, <2>2, <2>3, <2>4 DEF Init, TypeOK, PC, Op
<1>2. \A c \in Cond : Len(cwaiters[c]) = 0
  BY DEF Init, condition_init
<1>3. ListedAreWaiting
  BY <1>2 DEF ListedAreWaiting
<1>4. WaitersMayWait /\ WaitersAreListed
  BY DEF Init, WaitersMayWait, WaitersAreListed, Sleeps
<1> QED
  BY <1>1, <1>3, <1>4 DEF QueueInv

(***************************************************************************)
(* Every step keeps the invariant: one case per operation.                 *)
(***************************************************************************)
LEMMA QueueInvNext == QueueInv /\ [Next]_vars => QueueInv'
<1> SUFFICES ASSUME QueueInv, [Next]_vars PROVE QueueInv'
  OBVIOUS
<1>0. TypeOK /\ WaitersMayWait
  BY DEF QueueInv
<1>1. CASE UNCHANGED vars
  <2>1. UNCHANGED <<cwaiters, pstate, queue, closed, pc, op, size, faults, missed, lost>>
    BY <1>1 DEF vars
  <2>2. \A q \in Proc : (Sleeps(q)' <=> Sleeps(q)) /\ Awaits(q)' = Awaits(q)
                         /\ (Listed(q)' <=> Listed(q))
    BY <2>1 DEF Sleeps, Awaits, Listed
  <2> QED
    BY <2>1, <2>2 DEF QueueInv, TypeOK, ConditionTypeOK, BlockingTypeOK, WaitersMayWait,
       ListedAreWaiting, WaitersAreListed, Sleeps, Awaits
<1>2. ASSUME NEW p \in Proc, Work(p), faults' = faults, MissedStep PROVE QueueInv'
  <2>0. HasLock(p) => ~(pc[p] = "block" \/ Sleeps(p))
    BY DEF HasLock, Sleeps
  <2>1. CASE Block(p)
    BY <1>2, <2>1, BlockKeeps
  <2>2. CASE msgqueue_send(p)
    <3>1. op[p] = "send" /\ HasLock(p) /\ Awaits(p) = "not_full"
      BY <2>2 DEF msgqueue_send, Awaits
    <3>2. \/ condition_wait(p, Awaits(p))
          \/ ReturnFalse(p)
          \/ ~Full /\ Put(p)
      BY <2>2, <3>1 DEF msgqueue_send
    <3> QED
      BY <1>2, <3>1, <3>2, JoiningKeeps, ReturnFalseKeeps, PutKeeps
  <2>3. CASE msgqueue_receive(p)
    <3>1. op[p] = "receive" /\ HasLock(p) /\ Awaits(p) = "not_empty"
      BY <2>3 DEF msgqueue_receive, Awaits
    <3>2. \/ condition_wait(p, Awaits(p))
          \/ ReturnFalse(p)
          \/ queue # <<>> /\ Take(p)
      BY <2>3, <3>1 DEF msgqueue_receive
    <3> QED
      BY <1>2, <3>1, <3>2, JoiningKeeps, ReturnFalseKeeps, TakeKeeps
  <2>4. CASE msgqueue_try_send(p)
    BY <1>2, <2>4, ReturnFalseKeeps, PutKeeps DEF msgqueue_try_send
  <2>5. CASE msgqueue_try_receive(p)
    BY <1>2, <2>5, ReturnFalseKeeps, TakeKeeps DEF msgqueue_try_receive
  <2>6. CASE msgqueue_close(p)
    <3>1. /\ op' = [op EXCEPT ![p] = op[p]] /\ op[p] \in Op \cup {"none"}
          /\ size' = [size EXCEPT ![p] = size[p]] /\ size[p] \in 1 .. MaxSize
          /\ pc' = [pc EXCEPT ![p] = "wake1"]
          /\ "wake1" \in PC \ {"block", "asleep"}
          /\ closed' \in BOOLEAN
      BY <1>0, <2>6 DEF msgqueue_close, Goto, TypeOK, PC
    <3> QED
      BY <1>2, <2>0, <2>6, <3>1, QuietKeeps DEF msgqueue_close
  <2>7. CASE WakeSenders(p)
    <3>1. /\ op' = [op EXCEPT ![p] = op[p]] /\ op[p] \in Op \cup {"none"}
          /\ size' = [size EXCEPT ![p] = size[p]] /\ size[p] \in 1 .. MaxSize
          /\ pc' = [pc EXCEPT ![p] = "wake2"]
          /\ "wake2" \in PC \ {"block", "asleep"}
          /\ closed' \in BOOLEAN /\ queue' \in Seq(1 .. MaxSize) /\ Len(queue') <= MaxMessages
          /\ lost' \in 0 .. MaxMessages
      BY <1>0, <2>7 DEF WakeSenders, Goto, TypeOK, PC
    <3>2. ~(pc[p] = "block" \/ Sleeps(p)) /\ condition_broadcast("not_full")
      BY <2>7 DEF WakeSenders, Sleeps
    <3>3. "not_full" \in Cond
      BY QueueAssumption
    <3>4. /\ Wakes("not_full", Len(cwaiters["not_full"]))
          /\ Len(cwaiters["not_full"]) \in 0 .. Len(cwaiters["not_full"])
      BY <1>0, <3>2, <3>3, BroadcastWakes, QueueTypes
    <3> QED
      BY <1>2, <3>1, <3>2, <3>3, <3>4, WakingKeeps
  <2>8. CASE WakeReceivers(p)
    <3>1. /\ op' = [op EXCEPT ![p] = "none"]
          /\ size' = [size EXCEPT ![p] = 1] /\ 1 \in 1 .. MaxSize
          /\ pc' = [pc EXCEPT ![p] = "idle"]
          /\ "idle" \in PC \ {"block", "asleep"}
          /\ closed' \in BOOLEAN /\ queue' \in Seq(1 .. MaxSize) /\ Len(queue') <= MaxMessages
          /\ lost' \in 0 .. MaxMessages
      BY <1>0, <2>8, QueueAssumption DEF WakeReceivers, Return, TypeOK, PC
    <3>2. ~(pc[p] = "block" \/ Sleeps(p)) /\ condition_broadcast("not_empty")
      BY <2>8 DEF WakeReceivers, Sleeps
    <3>3. "not_empty" \in Cond
      BY QueueAssumption
    <3>4. /\ Wakes("not_empty", Len(cwaiters["not_empty"]))
          /\ Len(cwaiters["not_empty"]) \in 0 .. Len(cwaiters["not_empty"])
      BY <1>0, <3>2, <3>3, BroadcastWakes, QueueTypes
    <3> QED
      BY <1>2, <3>1, <3>2, <3>3, <3>4, WakingKeeps
  <2> QED
    BY <1>2, <2>1, <2>2, <2>3, <2>4, <2>5, <2>6, <2>7, <2>8, Zenon DEF Work
<1>3. ASSUME NEW p \in Proc, NEW o \in Op, NEW n \in 1 .. MaxSize, Call(p, o, n),
             faults' = faults, MissedStep
      PROVE  QueueInv'
  <2>1. ~(pc[p] = "block" \/ Sleeps(p)) /\ "lock" \in PC \ {"block", "asleep"}
    BY <1>3 DEF Call, Sleeps, PC
  <2>2. closed' \in BOOLEAN
    BY <1>0, <1>3 DEF Call, TypeOK
  <2> QED
    BY <1>3, <2>1, <2>2, QuietKeeps DEF Call
<1> QED
  BY <1>1, <1>2, <1>3, Zenon DEF Next, MissedStep

(***************************************************************************)
(* Whatever the processes call and whatever goes wrong, the inductive      *)
(* invariant holds in every state of the message queue.                    *)
(***************************************************************************)
THEOREM QueueInvariant == Spec => []QueueInv
<1>1. Init => QueueInv
  BY QueueInvInit
<1>2. QueueInv /\ [Next]_vars => QueueInv'
  BY QueueInvNext
<1> QED
  BY <1>1, <1>2, PTL DEF Spec

(***************************************************************************)
(* The queue never holds more than max_messages, and the state stays of    *)
(* its types.                                                              *)
(***************************************************************************)
THEOREM QueueTypeCorrect == Spec => []TypeOK
<1>1. QueueInv => TypeOK
  BY DEF QueueInv
<1> QED
  BY <1>1, QueueInvariant, PTL

(***************************************************************************)
(* condition_signal never spends a signal on a process that has gone on:   *)
(* a listed process waits for that condition, and is listed once.          *)
(***************************************************************************)
THEOREM QueueListedAreWaiting == Spec => []ListedAreWaiting
<1>1. QueueInv => ListedAreWaiting
  BY DEF QueueInv
<1> QED
  BY <1>1, QueueInvariant, PTL

(***************************************************************************)
(* A process BLOCKED in msgqueue_send or msgqueue_receive is on the list   *)
(* where a signal finds it, unless its signal came between the release of  *)
(* the spinlock and process_block.                                         *)
(***************************************************************************)
THEOREM QueueSleepersAreListed == Spec => []SleepersAreListed
<1>1. QueueInv => SleepersAreListed
  BY DEF QueueInv, WaitersAreListed, SleepersAreListed
<1> QED
  BY <1>1, QueueInvariant, PTL

-----------------------------------------------------------------------------
(***************************************************************************)
(* The counting argument.  ClosersHaveClosed and the three parts of        *)
(* CountInv speak of the lists rather than of the sleepers, so that they   *)
(* also cover a process that is listed and still to block.                 *)
(***************************************************************************)
ClosersHaveClosed == \A p \in Proc : pc[p] \in {"wake1", "wake2"} => closed

ReceiversCounted ==
    missed = {} /\ ~closed /\ Len(cwaiters["not_empty"]) > 0
        => Len(queue) <= Cardinality(Woken("not_empty"))

SendersCounted ==
    missed = {} /\ ~closed /\ Len(cwaiters["not_full"]) > 0
        => MaxMessages - Len(queue) <= Cardinality(Woken("not_full")) + lost

BroadcastsToCome ==
    closed => /\ Len(cwaiters["not_full"]) > 0 => \E q \in Proc : pc[q] = "wake1"
              /\ Len(cwaiters["not_empty"]) > 0 => \E q \in Proc : pc[q] \in {"wake1", "wake2"}

CountInv == ClosersHaveClosed /\ ReceiversCounted /\ SendersCounted /\ BroadcastsToCome

(***************************************************************************)
(* The woken processes are finitely many.                                  *)
(***************************************************************************)
LEMMA WokenFinite ==
    ASSUME NEW c
    PROVE  /\ IsFiniteSet(Woken(c)) /\ Cardinality(Woken(c)) \in Nat
           /\ IsFiniteSet(Woken(c)') /\ Cardinality(Woken(c)') \in Nat
<1>1. Woken(c) \subseteq Proc /\ Woken(c)' \subseteq Proc /\ IsFiniteSet(Proc)
  BY QueueAssumption DEF Woken
<1>2. IsFiniteSet(Woken(c)) /\ IsFiniteSet(Woken(c)')
  BY <1>1, FS_Subset
<1> QED
  BY <1>2, FS_CardinalityType

(***************************************************************************)
(* A set without one of its elements, and with one more.                   *)
(***************************************************************************)
LEMMA CountWithout ==
    ASSUME NEW S, IsFiniteSet(S), NEW e
    PROVE  /\ IsFiniteSet(S \ {e})
           /\ Cardinality(S) \in Nat /\ Cardinality(S \ {e}) \in Nat
           /\ Cardinality(S) <= Cardinality(S \ {e}) + 1
           /\ e \notin S => Cardinality(S \ {e}) = Cardinality(S)
<1>1. IsFiniteSet(S \ {e}) /\ Cardinality(S) \in Nat /\ Cardinality(S \ {e}) \in Nat
  BY FS_RemoveElement, FS_CardinalityType, FS_Subset
<1>2. Cardinality(S \ {e}) = IF e \in S THEN Cardinality(S) - 1 ELSE Cardinality(S)
  BY FS_RemoveElement
<1> QED
  BY <1>1, <1>2

(***************************************************************************)
(* How many are woken now, without p, and after the step.                  *)
(***************************************************************************)
LEMMA CountsOf ==
    ASSUME NEW d, NEW p
    PROVE  /\ Cardinality(Woken(d)) \in Nat /\ Cardinality(Woken(d)') \in Nat
           /\ Cardinality(Woken(d) \ {p}) \in Nat
           /\ Cardinality(Woken(d)) <= Cardinality(Woken(d) \ {p}) + 1
           /\ p \notin Woken(d) => Cardinality(Woken(d) \ {p}) = Cardinality(Woken(d))
<1>1. IsFiniteSet(Woken(d)) /\ Cardinality(Woken(d)') \in Nat
  BY WokenFinite, Zenon
<1> QED
  BY <1>1, CountWithout

(***************************************************************************)
(* Process p runs, is neither in condition_wait afterwards nor waits       *)
(* there now, and wakes the first k of the list of c: how the woken        *)
(* processes change.                                                       *)
(***************************************************************************)
Runs(p) ==
    /\ ~(pc[p] = "block" \/ Sleeps(p))
    /\ pc' \in [Proc -> PC] /\ pc'[p] \notin {"block", "asleep"}
    /\ \A q \in Proc \ {p} : pc'[q] = pc[q] /\ op'[q] = op[q]

(***************************************************************************)
(* Of the condition that is not signalled, those on their way are the same *)
(* but for the process that runs.                                          *)
(***************************************************************************)
LEMMA WokenOthers ==
    ASSUME QueueInv, NEW p \in Proc, Runs(p), NEW c \in Cond,
           NEW k \in 0 .. Len(cwaiters[c]), Wakes(c, k), NEW d \in Cond, d # c \/ k = 0
    PROVE  Woken(d)' = Woken(d) \ {p}
<1>0. TypeOK /\ ListedAreWaiting /\ Len(cwaiters[c]) \in Nat
  BY QueueTypes DEF QueueInv
<1>1. \A q \in Proc \ {p} : Awaits(q)' = Awaits(q)
  BY DEF Runs, Awaits
<1>2. ASSUME NEW q \in Proc \ {p} PROVE q \in Woken(d)' <=> q \in Woken(d)
  <2>1. CASE \E i \in 1 .. k : cwaiters[c][i] = q
    <3>1. PICK i \in 1 .. k : cwaiters[c][i] = q
      BY <2>1
    <3>2. i \in 1 .. Len(cwaiters[c]) /\ k # 0
      BY <1>0, <3>1
    <3>3. Awaits(q) = c
      BY <1>0, <3>1, <3>2, ListedFacts
    <3> QED
      BY <1>1, <1>2, <3>2, <3>3 DEF Woken
  <2>2. CASE ~ \E i \in 1 .. k : cwaiters[c][i] = q
    <3>1. pstate'[q] = pstate[q]
      BY <2>2 DEF Wakes
    <3> QED
      BY <1>1, <1>2, <3>1 DEF Woken, Runs
  <2> QED
    BY <2>1, <2>2
<1>3. p \notin Woken(d)'
  BY DEF Woken, Runs
<1>4. \A q : (q \in Woken(d) => q \in Proc) /\ (q \in Woken(d)' => q \in Proc)
  BY DEF Woken
<1> QED
  BY <1>2, <1>3, <1>4

(***************************************************************************)
(* A signal to the list of c: either its head was asleep and is one more   *)
(* of the woken, or it was still to block and has missed the signal.       *)
(***************************************************************************)
LEMMA WokenHead ==
    ASSUME QueueInv, NEW p \in Proc, Runs(p), NEW c \in Cond,
           Len(cwaiters[c]) > 0, Wakes(c, 1), MissedStep, missed' = {}
    PROVE  Cardinality(Woken(c)') = Cardinality(Woken(c) \ {p}) + 1
<1>0. TypeOK /\ ListedAreWaiting /\ Len(cwaiters[c]) \in Nat
  BY QueueTypes DEF QueueInv
<1>h. 1 \in 1 .. Len(cwaiters[c]) /\ cwaiters[c][1] \in Proc
  BY <1>0, QueueTypes
<1>1. PICK h \in Proc : h = cwaiters[c][1]
  BY <1>h
<1>2. /\ pc[h] = "block" \/ Sleeps(h)
      /\ Awaits(h) = c
      /\ \A i \in 1 .. Len(cwaiters[c]) : cwaiters[c][i] = h => i = 1
  BY <1>0, <1>1, <1>h, ListedFacts
<1>3. h # p
  BY <1>2 DEF Runs
<1>4. Listed(h) /\ Awaits(h)' = c
  BY <1>1, <1>h, <1>2, <1>3 DEF Listed, Runs, Awaits
<1>5. ~Listed(h)'
  <2> SUFFICES ASSUME NEW i \in 1 .. Len(cwaiters'[c]), cwaiters'[c][i] = h PROVE FALSE
    BY <1>4 DEF Listed
  <2>1. Len(cwaiters'[c]) = Len(cwaiters[c]) - 1 /\ cwaiters'[c][i] = cwaiters[c][i + 1]
    BY <1>0 DEF Wakes
  <2>2. i + 1 \in 1 .. Len(cwaiters[c]) /\ i + 1 # 1
    BY <1>0, <2>1
  <2> QED
    BY <1>2, <2>1, <2>2
<1>6. pc[h] # "block"
  BY <1>1, <1>4, <1>5 DEF MissedStep
<1>7. Sleeps(h)
  BY <1>2, <1>6
<1>8. \A q \in Proc : (\E i \in 1 .. 1 : cwaiters[c][i] = q) <=> q = h
  BY <1>1
<1>9. /\ pstate'[h] = "READY"
      /\ \A q \in Proc \ {h} : pstate'[q] = pstate[q]
  BY <1>1, <1>8 DEF Wakes
<1>10. Woken(c)' = (Woken(c) \ {p}) \cup {h}
  <2>1. \A q \in Proc \ {p} : Awaits(q)' = Awaits(q) /\ pc'[q] = pc[q]
    BY DEF Runs, Awaits
  <2>2. \A q \in Proc \ {p, h} : q \in Woken(c)' <=> q \in Woken(c)
    BY <1>9, <2>1 DEF Woken
  <2>3. p \notin Woken(c)'
    BY DEF Woken, Runs
  <2>4. h \in Woken(c)'
    BY <1>1, <1>3, <1>4, <1>7, <1>9, <2>1 DEF Woken, Sleeps
  <2>5. \A q : (q \in Woken(c) => q \in Proc) /\ (q \in Woken(c)' => q \in Proc)
    BY DEF Woken
  <2> QED
    BY <2>2, <2>3, <2>4, <2>5
<1>11. h \notin Woken(c) \ {p}
  BY <1>7 DEF Woken, Sleeps
<1>12. IsFiniteSet(Woken(c) \ {p})
  BY WokenFinite, CountWithout
<1> QED
  BY <1>10, <1>11, <1>12, FS_AddElement

(***************************************************************************)
(* A message put has woken a receiver for itself, if one was asleep; a     *)
(* sender that gives up for want of memory leaves its place lost.          *)
(***************************************************************************)
LEMMA PutCounts ==
    ASSUME QueueInv, CountInv, NEW p \in Proc, HasLock(p), op[p] \in {"send", "try_send"},
           ~Full, Put(p), MissedStep
    PROVE  CountInv'
<1>0. /\ TypeOK /\ WaitersMayWait
      /\ ClosersHaveClosed /\ ReceiversCounted /\ SendersCounted /\ BroadcastsToCome
      /\ "not_empty" \in Cond /\ "not_full" \in Cond /\ "not_full" # "not_empty"
      /\ Len(queue) \in Nat /\ MaxMessages \in Nat /\ lost \in Nat
      /\ Len(queue) <= MaxMessages /\ lost <= MaxMessages
  BY QueueAssumption, QueueTypes DEF QueueInv, CountInv, TypeOK
<1>1. /\ pc' = [pc EXCEPT ![p] = "idle"] /\ op' = [op EXCEPT ![p] = "none"]
      /\ closed' = closed
  BY DEF Put, Return
<1>2. Runs(p) /\ pc[p] \notin {"wake1", "wake2"} /\ pc'[p] = "idle"
  BY <1>0, <1>1 DEF HasLock, Runs, Sleeps, TypeOK, PC
<1>3. ClosersHaveClosed'
  BY <1>0, <1>1, <1>2 DEF ClosersHaveClosed, Runs
<1>4. missed \subseteq missed'
  BY DEF MissedStep
<1>5. p \notin Woken("not_empty") /\ (pc[p] # "asleep" => p \notin Woken("not_full"))
  BY <1>0 DEF Woken, Awaits, WaitersMayWait
<1> DEFINE nf  == Cardinality(Woken("not_full"))
           nfp == Cardinality(Woken("not_full") \ {p})
           mf  == Cardinality(Woken("not_full")')
           ne  == Cardinality(Woken("not_empty"))
           nep == Cardinality(Woken("not_empty") \ {p})
           me  == Cardinality(Woken("not_empty")')
<1>c. /\ nf \in Nat /\ nfp \in Nat /\ mf \in Nat /\ nf <= nfp + 1
      /\ pc[p] # "asleep" => nfp = nf
      /\ ne \in Nat /\ nep \in Nat /\ me \in Nat /\ nep = ne
  <2>2. nf \in Nat /\ nfp \in Nat /\ mf \in Nat /\ nf <= nfp + 1 /\ (p \notin Woken("not_full") => nfp = nf)
    BY CountsOf, Zenon
  <2>3. ne \in Nat /\ nep \in Nat /\ me \in Nat /\ (p \notin Woken("not_empty") => nep = ne)
    BY CountsOf, Zenon
  <2> HIDE DEF nf, nfp, mf, ne, nep, me
  <2> QED
    BY <1>5, <2>2, <2>3
<1>b. ASSUME \A d \in Cond : Len(cwaiters'[d]) > 0 => Len(cwaiters[d]) > 0 PROVE BroadcastsToCome'
  BY <1>0, <1>1, <1>2, <1>b DEF BroadcastsToCome, Runs
<1>6. CASE queue' = Append(queue, size[p]) /\ condition_signal("not_empty") /\ lost' = lost
  <2>1. Len(queue') = Len(queue) + 1
    BY <1>0, <1>6, AppendProperties DEF TypeOK
  <2>2. \/ Len(cwaiters["not_empty"]) = 0 /\ Wakes("not_empty", 0)
        \/ Len(cwaiters["not_empty"]) > 0 /\ Wakes("not_empty", 1)
    BY <1>0, <1>6, SignalWakes
  <2>3. PICK k \in 0 .. Len(cwaiters["not_empty"]) : Wakes("not_empty", k)
    BY <1>0, <1>6, SignalWakesSome
  <2>4. /\ Len(cwaiters["not_empty"]) \in Nat /\ cwaiters'["not_full"] = cwaiters["not_full"]
        /\ Len(cwaiters'["not_empty"]) = Len(cwaiters["not_empty"]) - k
    BY <1>0, <2>3, QueueTypes DEF Wakes
  <2>5. mf = nfp
    BY <1>0, <1>2, <2>3, WokenOthers, Zenon
  <2>6. SendersCounted'
    <3> SUFFICES ASSUME missed' = {}, ~closed', Len(cwaiters'["not_full"]) > 0
                 PROVE  MaxMessages - Len(queue') <= mf + lost'
      BY Zenon DEF SendersCounted
    <3>1. MaxMessages - Len(queue) <= nf + lost
      BY <1>0, <1>1, <1>4, <2>4 DEF SendersCounted
    <3> HIDE DEF nf, nfp, mf
    <3> QED
      BY <1>0, <1>6, <1>c, <2>1, <2>5, <3>1
  <2>7. ReceiversCounted'
    <3> SUFFICES ASSUME missed' = {}, ~closed', Len(cwaiters'["not_empty"]) > 0
                 PROVE  Len(queue') <= me
      BY Zenon DEF ReceiversCounted
    <3>1. Len(cwaiters["not_empty"]) > 0 /\ Wakes("not_empty", 1)
      BY <2>2, <2>3, <2>4
    <3>2. Len(queue) <= ne
      BY <1>0, <1>1, <1>4, <3>1 DEF ReceiversCounted
    <3>3. me = nep + 1
      BY <1>0, <1>2, <3>1, WokenHead, Zenon
    <3> HIDE DEF ne, nep, me
    <3> QED
      BY <1>0, <1>c, <2>1, <3>2, <3>3
  <2>8. \A d \in Cond : Len(cwaiters'[d]) > 0 => Len(cwaiters[d]) > 0
    <3>1. \A d \in Cond : d \in {"not_full", "not_empty"}
      BY QueueAssumption
    <3> QED
      BY <2>3, <2>4, <3>1
  <2> QED
    BY <1>3, <1>b, <2>6, <2>7, <2>8 DEF CountInv
<1>7. CASE /\ UNCHANGED <<queue, cwaiters, pstate>>
           /\ IF pc[p] = "asleep" THEN OneMoreLost ELSE UNCHANGED lost
  <2>1. Wakes("not_empty", 0) /\ 0 \in 0 .. Len(cwaiters["not_empty"])
    BY <1>0, <1>7, NobodyWoken, QueueTypes DEF condVars
  <2>2. mf = nfp /\ me = nep
    BY <1>0, <1>2, <2>1, WokenOthers, Zenon
  <2>3. ReceiversCounted'
    <3> SUFFICES ASSUME missed' = {}, ~closed', Len(cwaiters'["not_empty"]) > 0
                 PROVE  Len(queue') <= me
      BY Zenon DEF ReceiversCounted
    <3>1. Len(queue) <= ne
      BY <1>0, <1>1, <1>4, <1>7 DEF ReceiversCounted
    <3> HIDE DEF ne, nep, me
    <3> QED
      BY <1>0, <1>7, <1>c, <2>2, <3>1
  <2>4. SendersCounted'
    <3> SUFFICES ASSUME missed' = {}, ~closed', Len(cwaiters'["not_full"]) > 0
                 PROVE  MaxMessages - Len(queue') <= mf + lost'
      BY Zenon DEF SendersCounted
    <3>1. MaxMessages - Len(queue) <= nf + lost
      BY <1>0, <1>1, <1>4, <1>7 DEF SendersCounted
    <3>2. pc[p] = "asleep" => lost' = IF lost < MaxMessages THEN lost + 1 ELSE lost
      BY <1>7 DEF OneMoreLost
    <3> HIDE DEF nf, nfp, mf
    <3> QED
      BY <1>0, <1>7, <1>c, <2>2, <3>1, <3>2
  <2> QED
    BY <1>3, <1>7, <1>b, <2>3, <2>4 DEF CountInv
<1> QED
  BY <1>6, <1>7 DEF Put

(***************************************************************************)
(* A place freed has woken a sender, or is lost when the buffer was too    *)
(* small.                                                                  *)
(***************************************************************************)
LEMMA TakeCounts ==
    ASSUME QueueInv, CountInv, NEW p \in Proc, HasLock(p), op[p] \in {"receive", "try_receive"},
           queue # <<>>, Take(p), MissedStep
    PROVE  CountInv'
<1>0. /\ TypeOK /\ WaitersMayWait
      /\ ClosersHaveClosed /\ ReceiversCounted /\ SendersCounted /\ BroadcastsToCome
      /\ "not_empty" \in Cond /\ "not_full" \in Cond /\ "not_full" # "not_empty"
      /\ Len(queue) \in Nat /\ MaxMessages \in Nat /\ lost \in Nat
      /\ Len(queue) <= MaxMessages /\ lost <= MaxMessages
  BY QueueAssumption, QueueTypes DEF QueueInv, CountInv, TypeOK
<1>1. /\ pc' = [pc EXCEPT ![p] = "idle"] /\ op' = [op EXCEPT ![p] = "none"]
      /\ closed' = closed
  BY DEF Take, Return
<1>2. Runs(p) /\ pc[p] \notin {"wake1", "wake2"} /\ pc'[p] = "idle"
  BY <1>0, <1>1 DEF HasLock, Runs, Sleeps, TypeOK, PC
<1>3. ClosersHaveClosed'
  BY <1>0, <1>1, <1>2 DEF ClosersHaveClosed, Runs
<1>4. missed \subseteq missed'
  BY DEF MissedStep
<1>5. p \notin Woken("not_full")
  BY DEF Woken, Awaits
<1>6. Len(queue') = Len(queue) - 1 /\ Len(queue) >= 1
  <2>1. queue \in Seq(1 .. MaxSize) /\ queue' = Tail(queue)
    BY <1>0 DEF TypeOK, Take
  <2>2. Len(queue) # 0
    BY <2>1, EmptySeq
  <2> QED
    BY <1>0, <2>1, <2>2, HeadTailProperties
<1> DEFINE nf  == Cardinality(Woken("not_full"))
           nfp == Cardinality(Woken("not_full") \ {p})
           mf  == Cardinality(Woken("not_full")')
           ne  == Cardinality(Woken("not_empty"))
           nep == Cardinality(Woken("not_empty") \ {p})
           me  == Cardinality(Woken("not_empty")')
<1>c. /\ nf \in Nat /\ nfp \in Nat /\ mf \in Nat /\ nfp = nf
      /\ ne \in Nat /\ nep \in Nat /\ me \in Nat /\ ne <= nep + 1
  <2>1. nf \in Nat /\ nfp \in Nat /\ mf \in Nat /\ (p \notin Woken("not_full") => nfp = nf)
    BY CountsOf, Zenon
  <2>2. ne \in Nat /\ nep \in Nat /\ me \in Nat /\ ne <= nep + 1
    BY CountsOf, Zenon
  <2> HIDE DEF nf, nfp, mf, ne, nep, me
  <2> QED
    BY <1>5, <2>1, <2>2
<1>7. \/ /\ lost' = IF lost < MaxMessages THEN lost + 1 ELSE lost
         /\ Wakes("not_full", 0)
      \/ /\ lost' = lost
         /\ condition_signal("not_full")
  BY <1>0, NobodyWoken DEF Take, OneMoreLost
<1>8. PICK k \in 0 .. Len(cwaiters["not_full"]) : Wakes("not_full", k)
  <2>1. 0 \in 0 .. Len(cwaiters["not_full"])
    BY <1>0, QueueTypes
  <2> QED
    BY <1>0, <1>7, <2>1, SignalWakesSome
<1>9. /\ Len(cwaiters["not_full"]) \in Nat /\ cwaiters'["not_empty"] = cwaiters["not_empty"]
      /\ Len(cwaiters'["not_full"]) = Len(cwaiters["not_full"]) - k
  BY <1>0, <1>8, QueueTypes DEF Wakes
<1>10. me = nep
  BY <1>0, <1>2, <1>8, WokenOthers, Zenon
<1>11. ReceiversCounted'
  <2> SUFFICES ASSUME missed' = {}, ~closed', Len(cwaiters'["not_empty"]) > 0
               PROVE  Len(queue') <= me
    BY Zenon DEF ReceiversCounted
  <2>1. Len(queue) <= ne
    BY <1>0, <1>1, <1>4, <1>9 DEF ReceiversCounted
  <2> HIDE DEF ne, nep, me
  <2> QED
    BY <1>0, <1>6, <1>10, <1>c, <2>1
<1>12. SendersCounted'
  <2> SUFFICES ASSUME missed' = {}, ~closed', Len(cwaiters'["not_full"]) > 0
               PROVE  MaxMessages - Len(queue') <= mf + lost'
    BY Zenon DEF SendersCounted
  <2>1. MaxMessages - Len(queue) <= nf + lost
    <3>1. Len(cwaiters["not_full"]) > 0
      BY <1>8, <1>9
    <3> QED
      BY <1>0, <1>1, <1>4, <3>1 DEF SendersCounted
  <2>2. CASE /\ lost' = IF lost < MaxMessages THEN lost + 1 ELSE lost
             /\ Wakes("not_full", 0)
    <3>1. 0 \in 0 .. Len(cwaiters["not_full"])
      BY <1>9
    <3>2. mf = nfp
      BY <1>0, <1>2, <2>2, <3>1, WokenOthers, Zenon
    <3> HIDE DEF nf, nfp, mf
    <3> QED
      BY <1>0, <1>6, <1>c, <2>1, <2>2, <3>2
  <2>3. CASE lost' = lost /\ condition_signal("not_full")
    <3>1. Len(cwaiters["not_full"]) > 0 /\ Wakes("not_full", 1)
      BY <1>0, <1>8, <1>9, <2>3, SignalWakes
    <3>2. mf = nfp + 1
      BY <1>0, <1>2, <3>1, WokenHead, Zenon
    <3> HIDE DEF nf, nfp, mf
    <3> QED
      BY <1>0, <1>6, <1>c, <2>1, <2>3, <3>2
  <2> QED
    BY <1>7, <2>2, <2>3
<1>13. BroadcastsToCome'
  <2>1. Len(cwaiters'["not_full"]) > 0 => Len(cwaiters["not_full"]) > 0
    BY <1>8, <1>9
  <2> QED
    BY <1>0, <1>1, <1>2, <1>9, <2>1 DEF BroadcastsToCome, Runs
<1> QED
  BY <1>3, <1>11, <1>12, <1>13 DEF CountInv

(***************************************************************************)
(* A step of a process that nobody counts: it was not woken, or the queue  *)
(* is closed.                                                              *)
(***************************************************************************)
LEMMA QuietCounts ==
    ASSUME QueueInv, CountInv, NEW p \in Proc, Runs(p), MissedStep,
           UNCHANGED <<cwaiters, pstate, queue, closed, lost>>,
           closed \/ pc[p] # "asleep",
           pc[p] \notin {"wake1", "wake2"}, pc'[p] \notin {"wake1", "wake2"}
    PROVE  CountInv'
<1>0. /\ ClosersHaveClosed /\ ReceiversCounted /\ SendersCounted /\ BroadcastsToCome
      /\ "not_empty" \in Cond /\ "not_full" \in Cond
  BY QueueAssumption DEF QueueInv, CountInv
<1>1. missed \subseteq missed'
  BY DEF MissedStep
<1>2. ClosersHaveClosed' /\ BroadcastsToCome'
  BY <1>0 DEF ClosersHaveClosed, BroadcastsToCome, Runs
<1>3. CASE closed
  BY <1>2, <1>3 DEF CountInv, ReceiversCounted, SendersCounted
<1>4. CASE pc[p] # "asleep"
  <2>1. ASSUME NEW d \in Cond PROVE Woken(d)' = Woken(d)
    <3>1. \A q \in Proc \ {p} : Awaits(q)' = Awaits(q)
      BY DEF Awaits, Runs
    <3>2. \A q \in Proc \ {p} : q \in Woken(d)' <=> q \in Woken(d)
      BY <3>1 DEF Woken, Runs
    <3>3. p \notin Woken(d)' /\ p \notin Woken(d)
      BY <1>4 DEF Woken, Runs
    <3>4. \A q : (q \in Woken(d) => q \in Proc) /\ (q \in Woken(d)' => q \in Proc)
      BY DEF Woken
    <3> QED
      BY <3>2, <3>3, <3>4
  <2>2. /\ Cardinality(Woken("not_empty"))' = Cardinality(Woken("not_empty"))
        /\ Cardinality(Woken("not_full"))' = Cardinality(Woken("not_full"))
    BY <1>0, <2>1, Zenon
  <2>3. ReceiversCounted' /\ SendersCounted'
    BY <1>0, <1>1, <2>2 DEF ReceiversCounted, SendersCounted
  <2> QED
    BY <1>2, <2>3 DEF CountInv
<1> QED
  BY <1>3, <1>4

(***************************************************************************)
(* A process goes to wait: its own condition does not hold then, and it is *)
(* none of those that were woken for the other.                            *)
(***************************************************************************)
LEMMA JoiningCounts ==
    ASSUME QueueInv, CountInv, NEW p \in Proc, HasLock(p), op[p] \in {"send", "receive"}, ~closed,
           op[p] = "send" => Full, op[p] = "receive" => queue = <<>>,
           condition_wait(p, Awaits(p)), MissedStep
    PROVE  CountInv'
<1>0. /\ TypeOK
      /\ ClosersHaveClosed /\ ReceiversCounted /\ SendersCounted
      /\ "not_empty" \in Cond /\ "not_full" \in Cond /\ "not_full" # "not_empty"
      /\ Len(queue) \in Nat /\ MaxMessages \in Nat /\ Len(queue) <= MaxMessages
  BY QueueAssumption, QueueTypes DEF QueueInv, CountInv, TypeOK
<1>1. /\ pc' = [pc EXCEPT ![p] = "block"]
      /\ UNCHANGED <<op, pstate, queue, closed>>
      /\ lost' = IF Awaits(p) = "not_full" THEN 0 ELSE lost
      /\ cwaiters' = [cwaiters EXCEPT ![Awaits(p)] = Append(@, p)]
      /\ missed \subseteq missed'
  BY DEF condition_wait, Goto, Enqueue, MissedStep
<1>2. /\ pc'[p] = "block"
      /\ \A q \in Proc \ {p} : pc'[q] = pc[q]
      /\ \A q \in Proc : Awaits(q)' = Awaits(q)
      /\ cwaiters \in [Cond -> Seq(Proc)]
  BY <1>0, <1>1 DEF TypeOK, PC, Awaits, ConditionTypeOK
<1>3. ClosersHaveClosed' /\ BroadcastsToCome'
  BY <1>0, <1>1, <1>2 DEF ClosersHaveClosed, BroadcastsToCome
<1>4. ASSUME NEW d \in Cond, d # Awaits(p) PROVE Woken(d)' = Woken(d) /\ cwaiters'[d] = cwaiters[d]
  <2>1. \A q \in Proc \ {p} : q \in Woken(d)' <=> q \in Woken(d)
    BY <1>1, <1>2 DEF Woken
  <2>2. p \notin Woken(d)' /\ p \notin Woken(d)
    BY <1>2, <1>4 DEF Woken
  <2>3. \A q : (q \in Woken(d) => q \in Proc) /\ (q \in Woken(d)' => q \in Proc)
    BY DEF Woken
  <2>4. \A q : q \in Woken(d)' <=> q \in Woken(d)
    BY <2>1, <2>2, <2>3, Zenon
  <2>6. Woken(d)' = Woken(d)
    BY <2>4, Zenon
  <2>5. cwaiters'[d] = cwaiters[d]
    BY <1>1, <1>2, <1>4
  <2> QED
    BY <2>5, <2>6
<1>5. CASE op[p] = "send"
  <2>1. Awaits(p) = "not_full" /\ Awaits(p) # "not_empty"
    BY <1>5 DEF Awaits
  <2>2. SendersCounted'
    <3>1. Cardinality(Woken("not_full")') \in Nat
      BY WokenFinite, Zenon
    <3>2. MaxMessages - Len(queue') = 0 /\ lost' = 0
      BY <1>0, <1>1, <1>5, <2>1 DEF Full
    <3> QED
      BY <3>1, <3>2 DEF SendersCounted
  <2>3. /\ Cardinality(Woken("not_empty"))' = Cardinality(Woken("not_empty"))
        /\ cwaiters'["not_empty"] = cwaiters["not_empty"]
    BY <1>0, <1>4, <2>1, Zenon
  <2>4. ReceiversCounted'
    BY <1>0, <1>1, <2>3 DEF ReceiversCounted
  <2> QED
    BY <1>3, <2>2, <2>4 DEF CountInv
<1>6. CASE op[p] = "receive"
  <2>1. Awaits(p) = "not_empty" /\ Awaits(p) # "not_full"
    BY <1>6 DEF Awaits
  <2>2. ReceiversCounted'
    <3>1. Cardinality(Woken("not_empty")') \in Nat
      BY WokenFinite, Zenon
    <3>2. Len(queue') = 0
      BY <1>1, <1>6
    <3> QED
      BY <3>1, <3>2 DEF ReceiversCounted
  <2>3. /\ Cardinality(Woken("not_full"))' = Cardinality(Woken("not_full"))
        /\ cwaiters'["not_full"] = cwaiters["not_full"]
    BY <1>0, <1>4, <2>1, Zenon
  <2>4. SendersCounted'
    BY <1>0, <1>1, <2>1, <2>3 DEF SendersCounted
  <2> QED
    BY <1>3, <2>2, <2>4 DEF CountInv
<1> QED
  BY <1>5, <1>6

(***************************************************************************)
(* A process blocks: it was listed, or missed its signal, and in no count. *)
(***************************************************************************)
LEMMA BlockCounts ==
    ASSUME QueueInv, CountInv, NEW p \in Proc, Block(p), MissedStep
    PROVE  CountInv'
<1>0. /\ TypeOK
      /\ ClosersHaveClosed /\ ReceiversCounted /\ SendersCounted /\ BroadcastsToCome
      /\ "not_empty" \in Cond /\ "not_full" \in Cond
  BY QueueAssumption DEF QueueInv, CountInv
<1>1. /\ pc' = [pc EXCEPT ![p] = "asleep"] /\ pc[p] = "block"
      /\ pstate' = [pstate EXCEPT ![p] = "BLOCKED"]
      /\ UNCHANGED <<op, cwaiters, queue, closed, lost>>
      /\ missed \subseteq missed'
  BY DEF Block, Goto, process_block, MissedStep
<1>2. /\ pc'[p] = "asleep" /\ pstate'[p] = "BLOCKED"
      /\ \A q \in Proc \ {p} : pc'[q] = pc[q] /\ pstate'[q] = pstate[q]
      /\ \A q \in Proc : Awaits(q)' = Awaits(q)
  BY <1>0, <1>1 DEF TypeOK, ConditionTypeOK, BlockingTypeOK, Awaits
<1>3. ClosersHaveClosed' /\ BroadcastsToCome'
  BY <1>0, <1>1, <1>2 DEF ClosersHaveClosed, BroadcastsToCome
<1>4. ASSUME NEW d \in Cond PROVE Woken(d)' = Woken(d)
  <2>1. \A q \in Proc \ {p} : q \in Woken(d)' <=> q \in Woken(d)
    BY <1>2 DEF Woken
  <2>2. p \notin Woken(d)' /\ p \notin Woken(d)
    BY <1>1, <1>2 DEF Woken
  <2>3. \A q : (q \in Woken(d) => q \in Proc) /\ (q \in Woken(d)' => q \in Proc)
    BY DEF Woken
  <2> QED
    BY <2>1, <2>2, <2>3
<1>5. /\ Cardinality(Woken("not_empty"))' = Cardinality(Woken("not_empty"))
      /\ Cardinality(Woken("not_full"))' = Cardinality(Woken("not_full"))
  BY <1>0, <1>4, Zenon
<1>6. ReceiversCounted' /\ SendersCounted'
  BY <1>0, <1>1, <1>5 DEF ReceiversCounted, SendersCounted
<1> QED
  BY <1>3, <1>6 DEF CountInv

(***************************************************************************)
(* The three steps of msgqueue_close, each of which leaves the queue       *)
(* closed.                                                                 *)
(***************************************************************************)
LEMMA CloseCounts ==
    ASSUME QueueInv, CountInv, NEW p \in Proc,
           msgqueue_close(p) \/ WakeSenders(p) \/ WakeReceivers(p)
    PROVE  CountInv'
<1>0. /\ pc \in [Proc -> PC] /\ cwaiters \in [Cond -> Seq(Proc)]
      /\ ClosersHaveClosed /\ BroadcastsToCome
      /\ "not_empty" \in Cond /\ "not_full" \in Cond /\ "not_full" # "not_empty"
  BY QueueAssumption DEF QueueInv, CountInv, TypeOK, ConditionTypeOK
<1>1. closed' = TRUE
  BY <1>0 DEF msgqueue_close, WakeSenders, WakeReceivers, ClosersHaveClosed
<1>2. ClosersHaveClosed' /\ ReceiversCounted' /\ SendersCounted'
  BY <1>1 DEF ClosersHaveClosed, ReceiversCounted, SendersCounted
<1>3. BroadcastsToCome'
  <2>1. CASE msgqueue_close(p)
    <3>1. pc'[p] = "wake1"
      BY <1>0, <2>1 DEF msgqueue_close, Goto
    <3> QED
      BY <3>1 DEF BroadcastsToCome
  <2>2. CASE WakeSenders(p)
    <3>1. pc'[p] = "wake2"
      BY <1>0, <2>2 DEF WakeSenders, Goto
    <3>2. Len(cwaiters'["not_full"]) = 0
      BY <1>0, <2>2 DEF WakeSenders, condition_broadcast
    <3> QED
      BY <3>1, <3>2 DEF BroadcastsToCome
  <2>3. CASE WakeReceivers(p)
    <3>1. pc[p] = "wake2" /\ closed /\ \A q \in Proc \ {p} : pc'[q] = pc[q]
      BY <1>0, <2>3 DEF WakeReceivers, Return, ClosersHaveClosed
    <3>2. Len(cwaiters'["not_empty"]) = 0 /\ cwaiters'["not_full"] = cwaiters["not_full"]
      BY <1>0, <2>3 DEF WakeReceivers, condition_broadcast
    <3>3. Len(cwaiters["not_full"]) > 0 => \E q \in Proc \ {p} : pc[q] = "wake1"
      BY <1>0, <3>1 DEF BroadcastsToCome
    <3> QED
      BY <3>1, <3>2, <3>3 DEF BroadcastsToCome
  <2> QED
    BY <2>1, <2>2, <2>3
<1> QED
  BY <1>2, <1>3 DEF CountInv

(***************************************************************************)
(* At first nobody waits and nobody has closed the queue.                  *)
(***************************************************************************)
LEMMA CountInvInit == Init => CountInv
<1> SUFFICES ASSUME Init PROVE CountInv
  OBVIOUS
<1>1. Len(cwaiters["not_full"]) = 0 /\ Len(cwaiters["not_empty"]) = 0
  BY QueueAssumption DEF Init, condition_init
<1>2. ClosersHaveClosed
  BY DEF Init, ClosersHaveClosed
<1> QED
  BY <1>1, <1>2 DEF CountInv, ReceiversCounted, SendersCounted, BroadcastsToCome

(***************************************************************************)
(* Every step keeps the counts: one case per operation.                    *)
(***************************************************************************)
LEMMA CountInvNext == QueueInv /\ CountInv /\ [Next]_vars => CountInv'
<1> SUFFICES ASSUME QueueInv, CountInv, [Next]_vars PROVE CountInv'
  OBVIOUS
<1>0. TypeOK /\ WaitersMayWait
  BY DEF QueueInv
<1>1. CASE UNCHANGED vars
  <2>1. UNCHANGED <<cwaiters, pstate, queue, closed, pc, op, size, faults, missed, lost>>
    BY <1>1 DEF vars
  <2>2. Woken("not_empty")' = Woken("not_empty") /\ Woken("not_full")' = Woken("not_full")
    BY <2>1 DEF Woken, Awaits
  <2>3. ReceiversCounted' /\ SendersCounted'
    BY <2>1, <2>2 DEF CountInv, ReceiversCounted, SendersCounted
  <2> QED
    BY <2>1, <2>3 DEF CountInv, ClosersHaveClosed, BroadcastsToCome
<1>2. ASSUME NEW p \in Proc, Work(p), MissedStep PROVE CountInv'
  <2>r. ASSUME HasLock(p), ReturnFalse(p), closed \/ op[p] \in {"try_send", "try_receive"}
        PROVE  CountInv'
    <3>1. /\ pc' = [pc EXCEPT ![p] = "idle"] /\ op' = [op EXCEPT ![p] = "none"]
          /\ UNCHANGED <<cwaiters, pstate, queue, closed, lost>>
      BY <2>r DEF ReturnFalse, Return
    <3>2. Runs(p) /\ pc[p] \notin {"wake1", "wake2"} /\ pc'[p] \notin {"wake1", "wake2"}
      BY <1>0, <2>r, <3>1 DEF HasLock, Runs, Sleeps, TypeOK, PC
    <3>3. closed \/ pc[p] # "asleep"
      BY <1>0, <2>r DEF WaitersMayWait
    <3> QED
      BY <1>2, <3>1, <3>2, <3>3, QuietCounts
  <2>1. CASE Block(p)
    BY <1>2, <2>1, BlockCounts
  <2>2. CASE msgqueue_send(p)
    <3>1. op[p] = "send" /\ HasLock(p) /\ Awaits(p) = "not_full"
      BY <2>2 DEF msgqueue_send, Awaits
    <3>2. \/ Full /\ ~closed /\ condition_wait(p, Awaits(p))
          \/ closed /\ ReturnFalse(p)
          \/ ~Full /\ Put(p)
      BY <2>2, <3>1 DEF msgqueue_send
    <3> QED
      BY <1>2, <2>r, <3>1, <3>2, JoiningCounts, PutCounts
  <2>3. CASE msgqueue_receive(p)
    <3>1. op[p] = "receive" /\ HasLock(p) /\ Awaits(p) = "not_empty"
      BY <2>3 DEF msgqueue_receive, Awaits
    <3>2. \/ queue = <<>> /\ ~closed /\ condition_wait(p, Awaits(p))
          \/ closed /\ ReturnFalse(p)
          \/ queue # <<>> /\ Take(p)
      BY <2>3, <3>1 DEF msgqueue_receive
    <3> QED
      BY <1>2, <2>r, <3>1, <3>2, JoiningCounts, TakeCounts
  <2>4. CASE msgqueue_try_send(p)
    BY <1>2, <2>4, <2>r, PutCounts DEF msgqueue_try_send
  <2>5. CASE msgqueue_try_receive(p)
    BY <1>2, <2>5, <2>r, TakeCounts DEF msgqueue_try_receive
  <2>6. CASE msgqueue_close(p) \/ WakeSenders(p) \/ WakeReceivers(p)
    BY <2>6, CloseCounts
  <2> QED
    BY <1>2, <2>1, <2>2, <2>3, <2>4, <2>5, <2>6, Zenon DEF Work
<1>3. ASSUME NEW p \in Proc, NEW o \in Op, NEW n \in 1 .. MaxSize, Call(p, o, n), MissedStep
      PROVE  CountInv'
  <2>1. /\ Runs(p) /\ pc[p] = "idle" /\ pc'[p] = "lock"
        /\ UNCHANGED <<cwaiters, pstate, queue, closed, lost>>
    BY <1>0, <1>3 DEF Call, Runs, Sleeps, TypeOK, PC
  <2> QED
    BY <1>3, <2>1, QuietCounts
<1> QED
  BY <1>1, <1>2, <1>3, Zenon DEF Next, MissedStep

(***************************************************************************)
(* The counts hold in every state of the message queue.                    *)
(***************************************************************************)
THEOREM QueueCounted == Spec => [](QueueInv /\ CountInv)
<1>1. Init => QueueInv /\ CountInv
  BY QueueInvInit, CountInvInit
<1>2. QueueInv /\ CountInv /\ [Next]_vars => (QueueInv /\ CountInv)'
  BY QueueInvNext, CountInvNext
<1> QED
  BY <1>1, <1>2, PTL DEF Spec

(***************************************************************************)
(* A sleeper that missed no signal is on the list of its condition.        *)
(***************************************************************************)
LEMMA SleeperFacts ==
    ASSUME QueueInv, NEW p \in Proc, Sleeps(p), p \notin missed
    PROVE  /\ op[p] \in {"send", "receive"}
           /\ op[p] = "send" => Len(cwaiters["not_full"]) > 0
           /\ op[p] = "receive" => Len(cwaiters["not_empty"]) > 0
<1>1. Listed(p) /\ op[p] \in {"send", "receive"}
  BY DEF QueueInv, WaitersAreListed, WaitersMayWait, Sleeps
<1>2. Len(cwaiters[Awaits(p)]) \in Nat
  BY QueueTypes DEF QueueInv
<1>3. Len(cwaiters[Awaits(p)]) > 0
  BY <1>1, <1>2 DEF Listed
<1> QED
  BY <1>1, <1>3 DEF Awaits

(***************************************************************************)
(* No receiver sleeps on beside a message: while one sleeps, as many       *)
(* receivers as there are messages are on their way (message_queue.c:99),  *)
(* for any number of processes, any capacity and any mishaps.              *)
(***************************************************************************)
THEOREM QueueNoReceiverForgotten == Spec => []NoReceiverForgotten
<1>1. QueueInv /\ CountInv => NoReceiverForgotten
  BY SleeperFacts DEF CountInv, ReceiversCounted, NoReceiverForgotten
<1> QED
  BY <1>1, QueueCounted, PTL

(***************************************************************************)
(* No sender sleeps on beside a free place, but for the places that were   *)
(* freed in silence (message_queue.c:78, 133).                             *)
(***************************************************************************)
THEOREM QueueNoSenderForgotten == Spec => []NoSenderForgotten
<1>1. QueueInv /\ CountInv => NoSenderForgotten
  BY SleeperFacts DEF CountInv, SendersCounted, NoSenderForgotten
<1> QED
  BY <1>1, QueueCounted, PTL

(***************************************************************************)
(* Nobody sleeps in a closed queue but those a broadcast is still to wake  *)
(* (message_queue.c:245) and those whose signal came too early.            *)
(***************************************************************************)
THEOREM QueueCloserWillWake == Spec => []CloserWillWake
<1>1. QueueInv /\ CountInv => CloserWillWake
  <2> SUFFICES ASSUME QueueInv, CountInv, closed, NEW p \in Proc, Sleeps(p), p \notin missed
               PROVE  \E q \in Proc : \/ pc[q] = "wake1"
                                      \/ pc[q] = "wake2" /\ op[p] = "receive"
    BY DEF CloserWillWake
  <2> QED
    BY SleeperFacts DEF CountInv, BroadcastsToCome
<1> QED
  BY <1>1, QueueCounted, PTL
=============================================================================
