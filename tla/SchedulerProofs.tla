--------------------------- MODULE SchedulerProofs ---------------------------
(***************************************************************************)
(* Theorems about the scheduler and the process manager (modules Scheduler *)
(* and Process), for any number of processes, tasks and priorities.        *)
(***************************************************************************)
EXTENDS Scheduler, SequenceLemmas

-----------------------------------------------------------------------------
(***************************************************************************)
(* The task that the exchange pass brings to slot i stands in the list     *)
(* from slot i on, and has the highest priority there.                     *)
(***************************************************************************)
LEMMA RisenProperties ==
    ASSUME NEW mem \in [Proc -> Process_t], NEW s \in Seq(Proc),
           NEW i \in 1 .. Len(s)
    PROVE  \E k \in i .. Len(s) :
              /\ Risen(mem, s, i) = s[k]
              /\ \A j \in i .. Len(s) : mem[s[j]].priority <= mem[s[k]].priority
              /\ \A j \in i .. k - 1 : mem[s[j]].priority < mem[s[k]].priority
<1> USE ProcessAssumption
<1> DEFINE pr(j) == mem[s[j]].priority
           P == {pr(j) : j \in i .. Len(s)}
<1>1. Len(s) \in Nat /\ \A j \in i .. Len(s) : s[j] \in Proc
  OBVIOUS
<1>2. \A j \in i .. Len(s) : pr(j) \in 0 .. MAX_PRIORITY
  BY <1>1 DEF Process_t, Priority
<1>3. \E x \in P : \A y \in P : y <= x
  <2>1. P \in SUBSET (0 .. MAX_PRIORITY)
    BY <1>2
  <2>2. pr(i) \in P
    OBVIOUS
  <2>3. P # {} /\ MAX_PRIORITY \in Nat
    BY <2>2
  <2> HIDE DEF P, pr
  <2> QED
    BY <2>1, <2>3, GreatestElement
<1>4. PICK m \in i .. Len(s) : \A j \in i .. Len(s) : pr(j) <= pr(m)
  BY <1>3
<1> DEFINE T == {k \in i .. Len(s) : pr(k) = pr(m)}
<1>5. \E k \in T : \A j \in i .. k - 1 : j \notin T
  <2>1. T \in SUBSET (i .. Len(s)) /\ T # {} /\ i \in Nat
    BY <1>1
  <2> HIDE DEF T
  <2> QED
    BY <1>1, <2>1, FirstInRange
<1>6. PICK k \in i .. Len(s) :
         /\ \A j \in i .. Len(s) : pr(j) <= pr(k)
         /\ \A j \in i .. k - 1 : pr(j) < pr(k)
  <2>1. PICK k \in T : \A j \in i .. k - 1 : j \notin T
    BY <1>5
  <2>2. ASSUME NEW j \in i .. k - 1 PROVE pr(j) < pr(k)
    <3>1. j \in i .. Len(s) /\ pr(j) # pr(m) /\ pr(k) = pr(m)
      BY <1>1, <2>1
    <3> HIDE DEF pr
    <3> QED
      BY <1>2, <1>4, <3>1
  <2> QED
    BY <1>4, <2>1, <2>2
<1> QED
  BY <1>6 DEF Risen

(***************************************************************************)
(* The pass keeps the length of the list and puts processes only.          *)
(***************************************************************************)
LEMMA SortPassType ==
    ASSUME NEW mem \in [Proc -> Process_t], NEW s \in Seq(Proc)
    PROVE  SortPass(mem, s) \in Seq(Proc) /\ Len(SortPass(mem, s)) = Len(s)
<1>1. ASSUME NEW i \in 1 .. Len(s)
      PROVE  Risen(mem, s, i) \in Proc /\ (i > 1 => s[i - 1] \in Proc)
  <2>1. PICK k \in i .. Len(s) : Risen(mem, s, i) = s[k]
    BY RisenProperties
  <2> QED
    BY <2>1
<1>2. SortPass(mem, s) \in [1 .. Len(s) -> Proc]
  BY <1>1 DEF SortPass
<1> QED
  BY <1>2

(***************************************************************************)
(* The pass puts only processes of the list.                               *)
(***************************************************************************)
LEMMA SortPassEntries ==
    ASSUME NEW mem \in [Proc -> Process_t], NEW s \in Seq(Proc), NEW q,
           Contains(SortPass(mem, s), q)
    PROVE  Contains(s, q)
<1>1. Len(SortPass(mem, s)) = Len(s) /\ Len(s) \in Nat
  BY SortPassType
<1>2. PICK i \in 1 .. Len(s) : SortPass(mem, s)[i] = q
  BY <1>1 DEF Contains
<1>3. PICK k \in i .. Len(s) : Risen(mem, s, i) = s[k]
  BY RisenProperties
<1>4. q = s[k] \/ (i > 1 /\ q = s[i - 1])
  BY <1>2, <1>3 DEF SortPass
<1>5. k \in 1 .. Len(s) /\ (i > 1 => i - 1 \in 1 .. Len(s))
  BY <1>1
<1> QED
  BY <1>4, <1>5 DEF Contains

(***************************************************************************)
(* The list s is in descending priority under mem and has no repetitions.  *)
(***************************************************************************)
Sorted(mem, s) ==
    \A i, j \in 1 .. Len(s) :
        i < j => mem[s[i]].priority >= mem[s[j]].priority /\ s[i] # s[j]

(***************************************************************************)
(* One pass over a sorted list with one new task at its end sorts it.      *)
(***************************************************************************)
LEMMA SortPassSorts ==
    ASSUME NEW mem \in [Proc -> Process_t], NEW t \in Seq(Proc), NEW p \in Proc,
           Sorted(mem, t), ~Contains(t, p)
    PROVE  Sorted(mem, SortPass(mem, Append(t, p)))
<1> USE ProcessAssumption
<1> DEFINE s     == Append(t, p)
           n     == Len(t) + 1
           pr(j) == mem[s[j]].priority
           x     == mem[p].priority
           up(i) == i < n /\ pr(i) >= x
           at(i) == IF up(i) THEN i ELSE IF i > 1 /\ x > pr(i - 1) THEN i - 1 ELSE n
<1>1. /\ s \in Seq(Proc)
      /\ Len(s) = n
      /\ \A i \in 1 .. Len(t) : s[i] = t[i]
      /\ s[n] = p
      /\ n \in Nat
      /\ n - 1 = Len(t)
  BY AppendProperties
<1>2. \A j \in 1 .. n : s[j] \in Proc /\ pr(j) \in Nat
  BY <1>1 DEF Process_t, Priority
<1>3. pr(n) = x /\ x \in Nat
  BY <1>1, <1>2
<1>4. \A i, j \in 1 .. n - 1 : i < j => pr(i) >= pr(j) /\ s[i] # s[j]
  BY <1>1 DEF Sorted
<1>5. \A i \in 1 .. n - 1 : s[i] # p
  BY <1>1 DEF Contains
<1>6. \A i, j \in 1 .. n : i # j => s[i] # s[j]
  <2>1. \A i, j \in 1 .. n : i < j => s[i] # s[j]
    BY <1>1, <1>4, <1>5
  <2> QED
    BY <1>1, <2>1
<1> HIDE DEF s, n
<1>7. ASSUME NEW i \in 1 .. n
      PROVE  Risen(mem, s, i) = IF up(i) THEN s[i] ELSE p
  <2>1. PICK k \in i .. n :
           /\ Risen(mem, s, i) = s[k]
           /\ \A j \in i .. n : pr(j) <= pr(k)
           /\ \A j \in i .. k - 1 : pr(j) < pr(k)
    BY <1>1, RisenProperties
  <2>2. CASE up(i)
    <3>1. k = i
      <4>1. ASSUME k > i PROVE FALSE
        <5>1. pr(i) < pr(k)
          BY <1>1, <2>1, <4>1
        <5>2. pr(i) >= pr(k)
          BY <1>1, <1>3, <1>4, <2>2, <4>1
        <5> HIDE DEF pr
        <5> QED
          BY <1>1, <1>2, <5>1, <5>2
      <4> QED
        BY <1>1, <4>1
    <3> QED
      BY <2>1, <2>2, <3>1
  <2>3. CASE ~up(i)
    <3>1. k = n
      <4>1. ASSUME k < n PROVE FALSE
        <5>1. i < n /\ i \in 1 .. n - 1 /\ k \in 1 .. n - 1
          BY <1>1, <4>1
        <5>2. pr(i) < x
          BY <1>2, <1>3, <2>3, <5>1
        <5>3. pr(i) >= pr(k)
          BY <1>1, <1>2, <1>4, <5>1
        <5>4. x <= pr(k)
          BY <1>1, <1>3, <2>1
        <5>5. pr(i) \in Nat /\ pr(k) \in Nat
          BY <1>1, <1>2, <5>1
        <5> HIDE DEF pr, x
        <5> QED
          BY <1>3, <5>2, <5>3, <5>4, <5>5
      <4> QED
        BY <1>1, <4>1
    <3> QED
      BY <1>1, <2>1, <2>3, <3>1
  <2> QED
    BY <2>2, <2>3
<1>8. ASSUME NEW i \in 1 .. n
      PROVE  at(i) \in 1 .. n /\ SortPass(mem, s)[i] = s[at(i)]
  <2>1. at(i) \in 1 .. n
    BY <1>1
  <2>2. SortPass(mem, s)[i] = IF i > 1 /\ mem[Risen(mem, s, i)].priority > pr(i - 1)
                              THEN s[i - 1] ELSE Risen(mem, s, i)
    BY <1>1 DEF SortPass
  <2>3. CASE up(i)
    <3>1. i > 1 => pr(i - 1) >= pr(i)
      BY <1>1, <1>4, <2>3
    <3>2. i > 1 => pr(i - 1) \in Nat /\ pr(i) \in Nat
      BY <1>1, <1>2
    <3>3. ~(i > 1 /\ pr(i) > pr(i - 1))
      <4> HIDE DEF pr
      <4> QED
        BY <3>1, <3>2
    <3> QED
      BY <1>7, <2>2, <2>3, <3>3
  <2>4. CASE ~up(i)
    BY <1>1, <1>7, <2>2, <2>4
  <2> QED
    BY <2>1, <2>3, <2>4
<1>9. ASSUME NEW i \in 1 .. n, NEW j \in 1 .. n, i < j
      PROVE  pr(at(i)) >= pr(at(j)) /\ at(i) # at(j)
  <2>0. i \in 1 .. n - 1 /\ j - 1 \in 1 .. n - 1 /\ j > 1
    BY <1>1, <1>9
  <2>n. \A k \in 1 .. n : pr(k) \in Nat
    BY <1>2
  <2>1. CASE up(j)
    <3>1. j \in 1 .. n - 1 /\ pr(i) >= pr(j) /\ pr(j) >= x
      BY <1>1, <1>4, <1>9, <2>0, <2>1
    <3>2. up(i)
      <4>1. pr(i) >= x
        <5> HIDE DEF pr, x
        <5> QED
          BY <1>3, <2>n, <3>1
      <4> QED
        BY <1>1, <2>0, <4>1
    <3> QED
      BY <1>9, <2>1, <3>1, <3>2
  <2>2. CASE up(i) /\ ~up(j)
    <3>1. at(i) = i /\ pr(i) >= x
      BY <2>2
    <3>2. CASE x > pr(j - 1)
      <4>1. at(j) = j - 1
        BY <2>0, <2>2, <3>2
      <4>2. pr(i) >= pr(j - 1) /\ i # j - 1
        <5>1. i \in 1 .. n /\ j - 1 \in 1 .. n
          BY <1>1, <2>0
        <5>2. pr(i) \in Nat /\ pr(j - 1) \in Nat
          BY <2>n, <5>1
        <5> HIDE DEF pr, x
        <5>3. pr(i) > pr(j - 1)
          BY <1>3, <3>1, <3>2, <5>2
        <5> QED
          BY <5>2, <5>3
      <4> HIDE DEF at
      <4> QED
        BY <3>1, <4>1, <4>2
    <3>3. CASE ~(x > pr(j - 1))
      <4>1. at(j) = n
        BY <2>0, <2>2, <3>3
      <4> HIDE DEF at
      <4> QED
        BY <1>1, <1>3, <2>0, <3>1, <4>1
    <3> QED
      BY <3>2, <3>3
  <2>3. CASE ~up(i) /\ ~up(j)
    <3>1. pr(i) < x
      <4>1. ~(pr(i) >= x) /\ i \in 1 .. n
        BY <1>1, <2>0, <2>3
      <4> HIDE DEF pr, x
      <4> QED
        BY <1>3, <2>n, <4>1
    <3>2. pr(j - 1) <= pr(i)
      <4>1. CASE j - 1 = i
        BY <2>n, <4>1
      <4>2. CASE i < j - 1
        BY <1>4, <2>0, <4>2
      <4> QED
        BY <1>9, <2>0, <4>1, <4>2
    <3>3. x > pr(j - 1)
      <4> HIDE DEF pr, x
      <4> QED
        BY <1>1, <1>3, <2>0, <2>n, <3>1, <3>2
    <3>4. at(j) = j - 1
      BY <2>0, <2>3, <3>3
    <3>5. CASE i > 1 /\ x > pr(i - 1)
      <4>1. at(i) = i - 1
        BY <2>3, <3>5
      <4>2. pr(i - 1) >= pr(j - 1) /\ i - 1 # j - 1
        BY <1>1, <1>4, <1>9, <2>0, <3>5
      <4> HIDE DEF at
      <4> QED
        BY <3>4, <4>1, <4>2
    <3>6. CASE ~(i > 1 /\ x > pr(i - 1))
      <4>1. at(i) = n
        BY <2>3, <3>6
      <4>2. x >= pr(j - 1) /\ n # j - 1
        <5>1. j - 1 \in 1 .. n /\ n # j - 1
          BY <1>1, <2>0
        <5>2. pr(j - 1) \in Nat
          BY <2>n, <5>1
        <5> HIDE DEF pr, x
        <5> QED
          BY <1>3, <3>3, <5>1, <5>2
      <4> HIDE DEF at
      <4> QED
        BY <1>3, <3>4, <4>1, <4>2
    <3> QED
      BY <3>5, <3>6
  <2> QED
    BY <2>1, <2>2, <2>3
<1> HIDE DEF up, at
<1>10. Len(SortPass(mem, s)) = n
  BY <1>1, SortPassType
<1>11. ASSUME NEW i \in 1 .. n, NEW j \in 1 .. n, i < j
       PROVE  /\ mem[SortPass(mem, s)[i]].priority >= mem[SortPass(mem, s)[j]].priority
              /\ SortPass(mem, s)[i] # SortPass(mem, s)[j]
  BY <1>6, <1>8, <1>9, <1>11
<1>12. Sorted(mem, SortPass(mem, s))
  <2> HIDE DEF pr, x
  <2> QED
    BY <1>10, <1>11 DEF Sorted
<1> QED
  BY <1>12 DEF s

-----------------------------------------------------------------------------
(***************************************************************************)
(* The process that scheduler_switch_task chooses: the first READY task,   *)
(* or idle when none is READY.                                             *)
(***************************************************************************)
LEMMA NextProcessChosen ==
    ASSUME NEW mem, tasks \in Seq(Proc)
    PROVE  \/ \E i \in 1 .. Len(tasks) : /\ NextProcess(mem) = tasks[i]
                                         /\ Ready(mem, i)
                                         /\ \A j \in 1 .. i - 1 : ~Ready(mem, j)
           \/ /\ NextProcess(mem) = idle
              /\ \A j \in 1 .. Len(tasks) : ~Ready(mem, j)
<1>1. CASE \E i \in 1 .. Len(tasks) : Ready(mem, i)
  <2> DEFINE T == {i \in 1 .. Len(tasks) : Ready(mem, i)}
  <2>1. T \in SUBSET (1 .. Len(tasks)) /\ T # {} /\ Len(tasks) \in Nat /\ 1 \in Nat
    BY <1>1
  <2>2. PICK i \in T : \A j \in 1 .. i - 1 : j \notin T
    <3> HIDE DEF T
    <3> QED
      BY <2>1, FirstInRange
  <2>3. \A j \in 1 .. i - 1 : ~Ready(mem, j)
    BY <2>1, <2>2
  <2> QED
    BY <1>1, <2>2, <2>3 DEF NextProcess
<1>2. CASE ~\E i \in 1 .. Len(tasks) : Ready(mem, i)
  BY <1>2 DEF NextProcess
<1> QED
  BY <1>1, <1>2

(***************************************************************************)
(* The memory contents in which the current process gave up the processor. *)
(***************************************************************************)
Released(mem) ==
    IF scur = NULL THEN mem ELSE [mem EXCEPT ![scur].state = "READY"]

(***************************************************************************)
(* What a context switch from the memory contents mem does.                *)
(***************************************************************************)
LEMMA SwitchEffect ==
    ASSUME TypeOK, idle \in Proc, NEW mem \in [Proc -> Process_t], SwitchFrom(mem)
    PROVE  /\ scur' = NextProcess(Released(mem))
           /\ current' = scur'
           /\ scur' \in Proc
           /\ scur' = idle \/ Contains(tasks, scur')
           /\ proc' \in [Proc -> Process_t]
           /\ \A p \in Proc :
                 /\ proc'[p].pid = mem[p].pid
                 /\ proc'[p].priority = mem[p].priority
                 /\ proc'[p].state = IF p = scur' THEN "RUNNING"
                                     ELSE IF p = scur THEN "READY" ELSE mem[p].state
                 /\ proc'[p].saved = IF p = current THEN cpu ELSE mem[p].saved
           /\ cpu' = proc'[scur'].saved
           /\ UNCHANGED <<live, processes>>
<1> USE ProcessAssumption
<1> DEFINE next  == NextProcess(Released(mem))
           taken == [Released(mem) EXCEPT ![next].quantum = SCHEDULER_QUANTUM,
                                          ![next].state = "RUNNING"]
<1>1. /\ scur' = next
      /\ current' = next
      /\ proc' = Saved(taken, current)
      /\ cpu' = proc'[next].saved
      /\ UNCHANGED <<live, processes>>
  BY DEF SwitchFrom, Released, process_switch
<1>2. next \in Proc /\ (next = idle \/ Contains(tasks, next))
  <2>1. tasks \in Seq(Proc)
    BY DEF TypeOK
  <2>2. \/ \E i \in 1 .. Len(tasks) : next = tasks[i]
        \/ next = idle
    BY <2>1, NextProcessChosen
  <2> QED
    BY <2>1, <2>2 DEF Contains
<1> HIDE DEF next
<1>3. /\ Released(mem) \in [Proc -> Process_t]
      /\ \A p \in Proc :
            /\ Released(mem)[p].pid = mem[p].pid
            /\ Released(mem)[p].priority = mem[p].priority
            /\ Released(mem)[p].state = IF p = scur THEN "READY" ELSE mem[p].state
            /\ Released(mem)[p].saved = mem[p].saved
  <2>1. CASE scur = NULL
    BY <2>1 DEF Released
  <2>2. CASE scur # NULL
    <3> DEFINE r == [mem[scur] EXCEPT !.state = "READY"]
    <3>1. scur \in Proc /\ mem[scur] \in Process_t
      BY <2>2 DEF TypeOK
    <3>2. /\ r \in Process_t
          /\ r.pid = mem[scur].pid
          /\ r.priority = mem[scur].priority
          /\ r.state = "READY"
          /\ r.saved = mem[scur].saved
      BY <3>1 DEF Process_t, State
    <3>3. Released(mem) = [mem EXCEPT ![scur] = r]
      BY <2>2, <3>1 DEF Released
    <3> HIDE DEF r
    <3> QED
      BY <3>1, <3>2, <3>3
  <2> QED
    BY <2>1, <2>2
<1>4. /\ taken \in [Proc -> Process_t]
      /\ \A p \in Proc :
            /\ taken[p].pid = mem[p].pid
            /\ taken[p].priority = mem[p].priority
            /\ taken[p].state = IF p = next THEN "RUNNING"
                                ELSE IF p = scur THEN "READY" ELSE mem[p].state
            /\ taken[p].saved = mem[p].saved
  <2> DEFINE rel == Released(mem)
             r   == [rel[next] EXCEPT !.quantum = SCHEDULER_QUANTUM, !.state = "RUNNING"]
  <2>1. rel[next] \in Process_t
    BY <1>2, <1>3
  <2>2. /\ r \in Process_t
        /\ r.pid = rel[next].pid
        /\ r.priority = rel[next].priority
        /\ r.state = "RUNNING"
        /\ r.saved = rel[next].saved
    <3> HIDE DEF rel
    <3> DEFINE r1 == [rel[next] EXCEPT !.quantum = SCHEDULER_QUANTUM]
    <3>1. /\ r1 \in Process_t
          /\ r1.pid = rel[next].pid
          /\ r1.priority = rel[next].priority
          /\ r1.saved = rel[next].saved
      BY <2>1 DEF Process_t
    <3>2. r = [r1 EXCEPT !.state = "RUNNING"]
      BY <2>1 DEF Process_t
    <3> HIDE DEF r1
    <3> QED
      BY <3>1, <3>2 DEF Process_t, State
  <2>3. taken = [rel EXCEPT ![next] = r]
    BY <1>2, <1>3
  <2> HIDE DEF rel, r, taken
  <2>4. taken \in [Proc -> Process_t]
    BY <1>2, <1>3, <2>2, <2>3 DEF rel
  <2>5. ASSUME NEW p \in Proc
        PROVE  taken[p] = IF p = next THEN r ELSE rel[p]
    BY <1>2, <1>3, <2>3 DEF rel
  <2> QED
    BY <1>2, <1>3, <2>2, <2>4, <2>5 DEF rel
<1> HIDE DEF taken
<1>5. /\ proc' \in [Proc -> Process_t]
      /\ \A p \in Proc :
            /\ proc'[p].pid = taken[p].pid
            /\ proc'[p].priority = taken[p].priority
            /\ proc'[p].state = taken[p].state
            /\ proc'[p].saved = IF p = current THEN cpu ELSE taken[p].saved
  <2>1. CASE current = NULL
    BY <1>1, <1>4, <2>1 DEF Saved
  <2>2. CASE current \in Proc
    <3> DEFINE r == [taken[current] EXCEPT !.saved = cpu]
    <3>1. taken[current] \in Process_t /\ cpu \in Proc \cup {Boot, NULL}
      BY <1>4, <2>2 DEF TypeOK, ProcessTypeOK
    <3>2. /\ r \in Process_t
          /\ r.pid = taken[current].pid
          /\ r.priority = taken[current].priority
          /\ r.state = taken[current].state
          /\ r.saved = cpu
      BY <3>1 DEF Process_t
    <3>3. proc' = [taken EXCEPT ![current] = r]
      BY <1>1, <1>4, <2>2 DEF Saved
    <3> HIDE DEF r
    <3>4. proc' \in [Proc -> Process_t]
      BY <1>4, <2>2, <3>2, <3>3
    <3>5. ASSUME NEW p \in Proc
          PROVE  proc'[p] = IF p = current THEN r ELSE taken[p]
      BY <1>4, <2>2, <3>3
    <3> QED
      BY <3>2, <3>4, <3>5
  <2> QED
    BY <2>1, <2>2 DEF TypeOK, ProcessTypeOK
<1> QED
  BY <1>1, <1>2, <1>4, <1>5 DEF next

-----------------------------------------------------------------------------
(***************************************************************************)
(* The search for a process in the table finds it.                         *)
(***************************************************************************)
LEMMA SlotOfFound ==
    ASSUME NEW t \in Seq(Proc), NEW p, Contains(t, p)
    PROVE  SlotOf(t, p) \in 1 .. Len(t) /\ t[SlotOf(t, p)] = p
BY FirstIndex, Zenon DEF SlotOf

(***************************************************************************)
(* process_create writes a process_t.                                      *)
(***************************************************************************)
LEMMA NewProcessType ==
    ASSUME NEW p \in Proc, NEW pid \in 0 .. MAX_PROCESSES - 1, NEW prio \in Priority,
           NEW sv \in Proc \cup {Boot, NULL}
    PROVE  /\ NewProcess(p, pid) \in Process_t
           /\ [NewProcess(p, pid) EXCEPT !.priority = prio] \in Process_t
           /\ [NewProcess(p, pid) EXCEPT !.saved = sv] \in Process_t
<1> USE ProcessAssumption
<1>1. NewProcess(p, pid) \in Process_t
  BY DEF NewProcess, Process_t, State, Priority
<1>2. [NewProcess(p, pid) EXCEPT !.priority = prio] \in Process_t
  BY <1>1 DEF Process_t
<1>3. [NewProcess(p, pid) EXCEPT !.saved = sv] \in Process_t
  BY <1>1 DEF Process_t
<1> QED
  BY <1>1, <1>2, <1>3

(***************************************************************************)
(* What process_destroy does to the memory and the table: it changes pids  *)
(* only, and the table loses at most the entry of p.                       *)
(***************************************************************************)
LEMMA DestroyEffect ==
    ASSUME ProcessTypeOK, NEW p \in Proc, process_destroy(p)
    PROVE  /\ proc' \in [Proc -> Process_t]
           /\ \A q \in Proc : /\ proc'[q].state = proc[q].state
                              /\ proc'[q].priority = proc[q].priority
                              /\ proc'[q].quantum = proc[q].quantum
                              /\ proc'[q].saved = proc[q].saved
           /\ processes' \in Seq(Proc)
           /\ Len(processes') <= MAX_PROCESSES
<1> USE ProcessAssumption
<1> USE DEF ProcessTypeOK
<1>1. CASE ~Contains(processes, p)
  BY <1>1 DEF process_destroy
<1>2. CASE Contains(processes, p)
  <2> DEFINE k == SlotOf(processes, p)
             t == RemoveAt(processes, k)
  <2>1. k \in 1 .. Len(processes) /\ processes[k] = p
    BY <1>2, SlotOfFound
  <2>2. processes' = t /\ proc' = Renumber(t, k)
    BY <1>2 DEF process_destroy
  <2> HIDE DEF k
  <2>3. t \in Seq(Proc) /\ Len(t) = Len(processes) - 1
    BY <2>1, RemoveAtProperties
  <2> HIDE DEF t
  <2>4. ASSUME NEW q \in Proc
        PROVE  /\ proc'[q] \in Process_t
               /\ proc'[q].state = proc[q].state
               /\ proc'[q].priority = proc[q].priority
               /\ proc'[q].quantum = proc[q].quantum
               /\ proc'[q].saved = proc[q].saved
    <3>1. CASE \E i \in k .. Len(t) : t[i] = q
      <4>1. Contains(t, q)
        BY <2>1, <2>3, <3>1 DEF Contains
      <4>2. SlotOf(t, q) \in 1 .. Len(t)
        BY <2>3, <4>1, SlotOfFound
      <4>3. SlotOf(t, q) - 1 \in 0 .. MAX_PROCESSES - 1
        BY <2>3, <4>2
      <4>4. proc'[q] = [proc[q] EXCEPT !.pid = SlotOf(t, q) - 1]
        BY <2>2, <3>1 DEF Renumber
      <4>5. proc[q] \in Process_t
        OBVIOUS
      <4> QED
        BY <4>3, <4>4, <4>5 DEF Process_t
    <3>2. CASE ~\E i \in k .. Len(t) : t[i] = q
      BY <2>2, <3>2 DEF Renumber
    <3> QED
      BY <3>1, <3>2
  <2>5. proc' \in [Proc -> Process_t]
    <3>1. proc' = [q \in Proc |-> proc'[q]]
      BY <2>2 DEF Renumber
    <3> QED
      BY <2>4, <3>1
  <2> QED
    BY <2>2, <2>3, <2>4, <2>5
<1> QED
  BY <1>1, <1>2

(***************************************************************************)
(* The memory contents that scheduler_add_task writes.                     *)
(***************************************************************************)
Added(p, priority) == [proc EXCEPT ![p].quantum = SCHEDULER_QUANTUM,
                                   ![p].priority = priority,
                                   ![p].state = "READY"]

\* scheduler_add_task writes the new task only.
LEMMA AddedEffect ==
    ASSUME ProcessTypeOK, NEW p \in Proc, NEW priority \in Priority
    PROVE  /\ Added(p, priority) \in [Proc -> Process_t]
           /\ \A q \in Proc \ {p} : Added(p, priority)[q] = proc[q]
           /\ Added(p, priority)[p].pid = proc[p].pid
           /\ Added(p, priority)[p].priority = priority
           /\ Added(p, priority)[p].state = "READY"
           /\ Added(p, priority)[p].saved = proc[p].saved
<1> USE ProcessAssumption
<1> DEFINE r1 == [proc[p] EXCEPT !.quantum = SCHEDULER_QUANTUM]
           r2 == [r1 EXCEPT !.priority = priority]
           r3 == [r2 EXCEPT !.state = "READY"]
           r  == [proc[p] EXCEPT !.quantum = SCHEDULER_QUANTUM,
                                 !.priority = priority,
                                 !.state = "READY"]
<1>1. proc[p] \in Process_t
  BY DEF ProcessTypeOK
<1>2. r1 \in Process_t /\ r1.pid = proc[p].pid /\ r1.saved = proc[p].saved
  BY <1>1 DEF Process_t
<1>3. /\ r2 \in Process_t
      /\ r2.pid = r1.pid
      /\ r2.saved = r1.saved
      /\ r2.priority = priority
  <2> HIDE DEF r1
  <2> QED
    BY <1>2 DEF Process_t
<1>4. /\ r3 \in Process_t
      /\ r3.pid = r2.pid
      /\ r3.saved = r2.saved
      /\ r3.priority = r2.priority
      /\ r3.state = "READY"
  <2> HIDE DEF r2
  <2> QED
    BY <1>3 DEF Process_t, State
<1>5. r = r3
  BY <1>1 DEF Process_t
<1>6. Added(p, priority) = [proc EXCEPT ![p] = r]
  BY DEF Added, ProcessTypeOK
<1> HIDE DEF r, r1, r2, r3
<1>7. /\ Added(p, priority) \in [Proc -> Process_t]
      /\ \A q \in Proc : Added(p, priority)[q] = IF q = p THEN r ELSE proc[q]
  BY <1>4, <1>5, <1>6 DEF ProcessTypeOK
<1>8. /\ r.pid = proc[p].pid
      /\ r.priority = priority
      /\ r.state = "READY"
      /\ r.saved = proc[p].saved
  BY <1>2, <1>3, <1>4, <1>5
<1> QED
  BY <1>7, <1>8

(***************************************************************************)
(* A timer tick changes nothing but a quantum.                             *)
(***************************************************************************)
LEMMA TickedEffect ==
    ASSUME ProcessTypeOK, scur \in Proc
    PROVE  /\ Ticked \in [Proc -> Process_t]
           /\ \A q \in Proc : /\ Ticked[q].pid = proc[q].pid
                              /\ Ticked[q].state = proc[q].state
                              /\ Ticked[q].priority = proc[q].priority
                              /\ Ticked[q].saved = proc[q].saved
<1> USE ProcessAssumption
<1> DEFINE x == proc[scur].quantum
           n == IF x > 0 THEN x - 1 ELSE 0
           r == [proc[scur] EXCEPT !.quantum = n]
<1>1. proc[scur] \in Process_t
  BY DEF ProcessTypeOK
<1>2. x \in 0 .. SCHEDULER_QUANTUM
  BY <1>1 DEF Process_t
<1>3. n \in 0 .. SCHEDULER_QUANTUM
  <2> HIDE DEF x
  <2> QED
    BY <1>2
<1>4. Ticked = [proc EXCEPT ![scur] = r]
  BY DEF Ticked, ProcessTypeOK
<1> HIDE DEF n
<1>5. /\ r \in Process_t
      /\ r.pid = proc[scur].pid
      /\ r.state = proc[scur].state
      /\ r.priority = proc[scur].priority
      /\ r.saved = proc[scur].saved
  BY <1>1, <1>3 DEF Process_t
<1> HIDE DEF r
<1> QED
  BY <1>4, <1>5 DEF ProcessTypeOK

(***************************************************************************)
(* Setting the state of a process.                                         *)
(***************************************************************************)
LEMMA StateSet ==
    ASSUME ProcessTypeOK, NEW p \in Proc, NEW st \in State,
           proc' = [proc EXCEPT ![p].state = st]
    PROVE  /\ proc' \in [Proc -> Process_t]
           /\ \A q \in Proc : /\ proc'[q].pid = proc[q].pid
                              /\ proc'[q].state = IF q = p THEN st ELSE proc[q].state
                              /\ proc'[q].priority = proc[q].priority
                              /\ proc'[q].saved = proc[q].saved
<1> DEFINE r == [proc[p] EXCEPT !.state = st]
<1>1. proc[p] \in Process_t
  BY DEF ProcessTypeOK
<1>2. proc' = [proc EXCEPT ![p] = r]
  BY DEF ProcessTypeOK
<1>3. /\ r \in Process_t
      /\ r.pid = proc[p].pid
      /\ r.state = st
      /\ r.priority = proc[p].priority
      /\ r.saved = proc[p].saved
  BY <1>1 DEF Process_t
<1> HIDE DEF r
<1> QED
  BY <1>2, <1>3 DEF ProcessTypeOK

-----------------------------------------------------------------------------
(***************************************************************************)
(* The types hold in the initial state and every action keeps them.        *)
(***************************************************************************)
LEMMA TypeInit == Init => TypeOK
<1> SUFFICES ASSUME Init PROVE TypeOK
  OBVIOUS
<1> USE ProcessAssumption, TasksAssumption
<1> DEFINE r == [pid |-> 0, state |-> "READY", priority |-> 0, quantum |-> 0, saved |-> NULL]
<1>1. r \in Process_t
  BY DEF Process_t, State, Priority
<1>2. proc = [p \in Proc |-> r]
  BY DEF Init, ProcessInit
<1> HIDE DEF r
<1>3. ProcessTypeOK
  BY <1>1, <1>2 DEF Init, ProcessInit, ProcessTypeOK
<1>4. misused \in BOOLEAN /\ inService \in BOOLEAN /\ interrupted \in SUBSET Proc
  BY Zenon DEF Init
<1> QED
  BY <1>3, <1>4 DEF Init, TypeOK

\* Every step keeps the types.
LEMMA TypeNext == TypeOK /\ [Next]_vars => TypeOK'
<1> SUFFICES ASSUME TypeOK, [Next]_vars PROVE TypeOK'
  OBVIOUS
<1> USE ProcessAssumption, TasksAssumption
<1>0. ProcessTypeOK /\ proc \in [Proc -> Process_t]
  BY DEF TypeOK, ProcessTypeOK
<1>t. inService' \in BOOLEAN /\ interrupted' \in SUBSET Proc
  <2>1. inService \in BOOLEAN /\ interrupted \in SUBSET Proc
    BY DEF TypeOK
  <2>2. CASE UNCHANGED timerVars
    BY <2>1, <2>2 DEF timerVars
  <2>3. ASSUME NEW p \in Proc, Create(p) \/ scheduler_init(p)
        PROVE  inService' \in BOOLEAN /\ interrupted' \in SUBSET Proc
    BY <2>1, <2>3 DEF Create, scheduler_init
  <2>4. ASSUME NEW pending, NEW suspended \in SUBSET Proc, Resume(pending, suspended)
        PROVE  inService' \in BOOLEAN /\ interrupted' \in SUBSET Proc
    <3>1. inService' \in BOOLEAN
      BY <2>4, Zenon DEF Resume
    <3> QED
      BY <2>4, <3>1 DEF Resume
  <2>5. CASE scheduler_switch_task
    BY <2>1, <2>4, <2>5 DEF scheduler_switch_task
  <2>6. CASE timer_handler
    <3>1. interrupted \cup ({current} \ {NULL}) \in SUBSET Proc
      BY <1>0, <2>1 DEF ProcessTypeOK
    <3> QED
      BY <2>2, <2>4, <2>6, <3>1 DEF timer_handler
  <2>7. CASE process_block \/ sys_exit
    BY <2>2, <2>7 DEF process_block, sys_exit
  <2>8. ASSUME NEW p \in Proc,
               \/ CreateFails(p) \/ scheduler_remove_task(p) \/ process_wake(p)
               \/ \E priority \in Priority : scheduler_add_task(p, priority)
        PROVE  UNCHANGED timerVars
    BY <2>8 DEF CreateFails, scheduler_remove_task, process_wake, scheduler_add_task
  <2>9. CASE UNCHANGED vars
    BY <2>2, <2>9 DEF vars, timerVars
  <2> QED
    BY <2>2, <2>3, <2>5, <2>6, <2>7, <2>8, <2>9 DEF Next
<1>n. ASSUME NEW p \in Proc, Len(processes) < MAX_PROCESSES
      PROVE  /\ NewProcess(p, Len(processes)) \in Process_t
             /\ [NewProcess(p, Len(processes)) EXCEPT !.priority = 0] \in Process_t
             /\ [NewProcess(p, Len(processes)) EXCEPT !.saved = NULL] \in Process_t
  <2>1. Len(processes) \in 0 .. MAX_PROCESSES - 1
    BY <1>n DEF TypeOK, ProcessTypeOK
  <2>2. 0 \in Priority /\ NULL \in Proc \cup {Boot, NULL}
    BY DEF Priority
  <2> QED
    BY <2>1, <2>2, NewProcessType, Zenon
<1>a. ASSUME NEW p \in Proc, Len(processes) < MAX_PROCESSES
      PROVE  /\ Append(processes, p) \in Seq(Proc)
             /\ Len(Append(processes, p)) <= MAX_PROCESSES
  BY <1>a, AppendProperties DEF TypeOK, ProcessTypeOK
<1>1. ASSUME NEW p \in Proc, Create(p) PROVE TypeOK'
  <2>1. proc' \in [Proc -> Process_t]
    BY <1>0, <1>1, <1>n DEF Create, process_create
  <2> QED
    BY <1>t, <1>0, <1>1, <1>a, <2>1 DEF Create, process_create, TypeOK, ProcessTypeOK
<1>2. ASSUME NEW p \in Proc, CreateFails(p) PROVE TypeOK'
  <2>1. proc' \in [Proc -> Process_t]
    BY <1>0, <1>2, <1>n DEF CreateFails, process_create_fails
  <2> QED
    BY <1>t, <1>0, <1>2, <2>1
    DEF CreateFails, process_create_fails, TypeOK, ProcessTypeOK
<1>3. ASSUME NEW p \in Proc, scheduler_init(p) PROVE TypeOK'
  <2>1. proc' \in [Proc -> Process_t]
    BY <1>0, <1>3, <1>n DEF scheduler_init
  <2> QED
    BY <1>t, <1>0, <1>3, <1>a, <2>1 DEF scheduler_init, TypeOK, ProcessTypeOK
<1>4. ASSUME NEW p \in Proc, scheduler_remove_task(p) PROVE TypeOK'
  <2>1. tasks \in Seq(Proc) /\ Contains(tasks, p)
    BY <1>4 DEF scheduler_remove_task, Listed, TypeOK
  <2>2. PICK f \in 1 .. Len(tasks) : RemoveFirst(tasks, p) = RemoveAt(tasks, f)
    BY <2>1, RemoveFirstIsRemoveAt
  <2>3. RemoveAt(tasks, f) \in Seq(Proc) /\ Len(RemoveAt(tasks, f)) = Len(tasks) - 1
    BY <2>1, <2>2, RemoveAtProperties
  <2>4. tasks' \in Seq(Proc) /\ Len(tasks') <= MAX_TASKS
    BY <1>4, <2>1, <2>2, <2>3 DEF scheduler_remove_task, TypeOK
  <2> QED
    BY <1>t, <1>4, <2>4 DEF scheduler_remove_task, TypeOK, ProcessTypeOK
<1>5. ASSUME NEW p \in Proc, NEW priority \in Priority, scheduler_add_task(p, priority)
      PROVE  TypeOK'
  <2>1. proc' = Added(p, priority) /\ tasks' = SortPass(Added(p, priority), Append(tasks, p))
    BY <1>5 DEF scheduler_add_task, Added
  <2>2. Added(p, priority) \in [Proc -> Process_t]
    BY <1>0, AddedEffect
  <2>3. Append(tasks, p) \in Seq(Proc) /\ Len(Append(tasks, p)) = Len(tasks) + 1
    BY AppendProperties DEF TypeOK
  <2>4. tasks' \in Seq(Proc) /\ Len(tasks') <= MAX_TASKS
    <3> DEFINE s == Append(tasks, p)
               m == Added(p, priority)
    <3>1. SortPass(m, s) \in Seq(Proc) /\ Len(SortPass(m, s)) = Len(s)
      <4> HIDE DEF s, m
      <4> QED
        BY <2>2, <2>3, SortPassType DEF s, m
    <3> QED
      BY <1>5, <2>1, <2>3, <3>1 DEF scheduler_add_task, TypeOK
  <2>5. misused' \in BOOLEAN
    BY <1>5, Zenon DEF scheduler_add_task
  <2> QED
    BY <1>t, <1>5, <2>1, <2>2, <2>4, <2>5 DEF scheduler_add_task, TypeOK, ProcessTypeOK
<1>6. ASSUME NEW p \in Proc, process_wake(p) PROVE TypeOK'
  <2>1. proc' \in [Proc -> Process_t]
    BY <1>0, <1>6, StateSet DEF process_wake, State
  <2> QED
    BY <1>t, <1>6, <2>1 DEF process_wake, TypeOK, ProcessTypeOK
<1>s. ASSUME NEW mem \in [Proc -> Process_t], initialized, SwitchFrom(mem),
             UNCHANGED <<tasks, idle, misused>>
      PROVE  TypeOK'
  <2>1. idle \in Proc
    BY <1>s DEF initialized, TypeOK
  <2>2. /\ proc' \in [Proc -> Process_t]
        /\ scur' \in Proc
        /\ current' = scur'
        /\ cpu' = proc'[scur'].saved
        /\ UNCHANGED <<live, processes>>
    BY <1>s, <2>1, SwitchEffect
  <2>3. cpu' \in Proc \cup {Boot, NULL}
    BY <2>2 DEF Process_t
  <2> QED
    BY <1>t, <1>s, <2>2, <2>3 DEF TypeOK, ProcessTypeOK
<1>7. CASE scheduler_switch_task
  BY <1>0, <1>7, <1>s DEF scheduler_switch_task
<1>8. CASE timer_handler
  <2>1. scur \in Proc /\ Ticked \in [Proc -> Process_t]
    BY <1>0, <1>8, TickedEffect DEF timer_handler, scheduler_timer_callback, TypeOK
  <2>2. CASE SwitchFrom(Ticked)
    BY <1>8, <1>s, <2>1, <2>2 DEF timer_handler, scheduler_timer_callback
  <2>3. CASE proc' = Ticked /\ UNCHANGED <<live, processes, current, cpu, scur>>
    BY <1>t, <1>8, <2>1, <2>3 DEF timer_handler, scheduler_timer_callback, TypeOK, ProcessTypeOK
  <2> QED
    BY <1>8, <2>2, <2>3 DEF timer_handler, scheduler_timer_callback
<1>9. CASE process_block
  <2>1. proc' \in [Proc -> Process_t]
    BY <1>0, <1>9, StateSet DEF process_block, State, TypeOK
  <2> QED
    BY <1>t, <1>9, <2>1 DEF process_block, TypeOK, ProcessTypeOK
<1>10. CASE sys_exit
  <2>1. current \in Proc /\ process_destroy(current)
    BY <1>10 DEF sys_exit, TypeOK, ProcessTypeOK
  <2>2. /\ proc' \in [Proc -> Process_t]
        /\ processes' \in Seq(Proc)
        /\ Len(processes') <= MAX_PROCESSES
    BY <1>0, <2>1, DestroyEffect
  <2>3. misused' \in BOOLEAN
    BY <1>10, Zenon DEF sys_exit
  <2> QED
    BY <1>t, <1>10, <2>1, <2>2, <2>3 DEF sys_exit, process_destroy, TypeOK, ProcessTypeOK
<1>11. CASE UNCHANGED vars
  BY <1>t, <1>11 DEF vars, TypeOK, ProcessTypeOK
<1> QED
  BY <1>1, <1>2, <1>3, <1>4, <1>5, <1>6, <1>7, <1>8, <1>9, <1>10, <1>11 DEF Next

(***************************************************************************)
(* Type correctness of the process manager and the scheduler: no slot,     *)
(* pid, quantum or priority leaves its range, and every pointer is NULL or *)
(* the address of a process_t.                                             *)
(***************************************************************************)
THEOREM TypeCorrect == Spec => []TypeOK
BY TypeInit, TypeNext, PTL DEF Spec

-----------------------------------------------------------------------------
(***************************************************************************)
(* Every action keeps RunningIsCurrent, which is inductive under the       *)
(* types.                                                                  *)
(***************************************************************************)
LEMMA RunningNext == TypeOK /\ RunningIsCurrent /\ [Next]_vars => RunningIsCurrent'
<1> SUFFICES ASSUME TypeOK, RunningIsCurrent, [Next]_vars PROVE RunningIsCurrent'
  OBVIOUS
<1> USE ProcessAssumption
<1> USE DEF RunningIsCurrent
<1>0. ProcessTypeOK /\ proc \in [Proc -> Process_t]
  BY DEF TypeOK, ProcessTypeOK
<1>1. ASSUME NEW p \in Proc, Create(p) \/ CreateFails(p) \/ scheduler_init(p)
      PROVE  RunningIsCurrent'
  <2>1. /\ \A q \in Proc \ {p} : proc'[q] = proc[q]
        /\ proc'[p].state = "READY"
        /\ scur' = scur
    BY <1>0, <1>1 DEF Create, process_create, CreateFails, process_create_fails,
                      scheduler_init, NewProcess
  <2> QED
    BY <2>1
<1>2. ASSUME NEW p \in Proc, scheduler_remove_task(p) PROVE RunningIsCurrent'
  BY <1>2 DEF scheduler_remove_task
<1>3. ASSUME NEW p \in Proc, NEW priority \in Priority, scheduler_add_task(p, priority)
      PROVE  RunningIsCurrent'
  <2>1. proc' = Added(p, priority) /\ scur' = scur
    BY <1>3 DEF scheduler_add_task, Added
  <2>2. /\ \A q \in Proc \ {p} : Added(p, priority)[q] = proc[q]
        /\ Added(p, priority)[p].state = "READY"
    BY <1>0, AddedEffect
  <2> QED
    BY <2>1, <2>2
<1>4. ASSUME NEW p \in Proc, process_wake(p) PROVE RunningIsCurrent'
  <2>1. \A q \in Proc : proc'[q].state = IF q = p THEN "READY" ELSE proc[q].state
    BY <1>0, <1>4, StateSet DEF process_wake, State
  <2> QED
    BY <1>4, <2>1 DEF process_wake
<1>s. ASSUME NEW mem \in [Proc -> Process_t], initialized, SwitchFrom(mem),
             \A q \in Proc : mem[q].state = proc[q].state
      PROVE  RunningIsCurrent'
  <2>1. idle \in Proc
    BY <1>s DEF initialized, TypeOK
  <2>2. \A q \in Proc : proc'[q].state = IF q = scur' THEN "RUNNING"
                                         ELSE IF q = scur THEN "READY" ELSE mem[q].state
    BY <1>s, <2>1, SwitchEffect
  <2> QED
    BY <1>s, <2>2
<1>5. CASE scheduler_switch_task
  BY <1>0, <1>5, <1>s DEF scheduler_switch_task
<1>6. CASE timer_handler
  <2>1. /\ Ticked \in [Proc -> Process_t]
        /\ \A q \in Proc : Ticked[q].state = proc[q].state
    BY <1>0, <1>6, TickedEffect DEF timer_handler, scheduler_timer_callback, TypeOK
  <2>2. CASE SwitchFrom(Ticked)
    BY <1>6, <1>s, <2>1, <2>2 DEF timer_handler, scheduler_timer_callback
  <2>3. CASE proc' = Ticked /\ scur' = scur
    BY <2>1, <2>3
  <2> QED
    BY <1>6, <2>2, <2>3 DEF timer_handler, scheduler_timer_callback
<1>7. CASE process_block
  <2>1. \A q \in Proc : proc'[q].state = IF q = scur THEN "BLOCKED" ELSE proc[q].state
    BY <1>0, <1>7, StateSet DEF process_block, State, TypeOK
  <2> QED
    BY <1>7, <2>1 DEF process_block
<1>8. CASE sys_exit
  <2>1. current \in Proc /\ process_destroy(current)
    BY <1>8 DEF sys_exit, TypeOK, ProcessTypeOK
  <2>2. \A q \in Proc : proc'[q].state = proc[q].state
    BY <1>0, <2>1, DestroyEffect
  <2> QED
    BY <1>8, <2>2 DEF sys_exit
<1>9. CASE UNCHANGED vars
  BY <1>9 DEF vars
<1> QED
  BY <1>1, <1>2, <1>3, <1>4, <1>5, <1>6, <1>7, <1>8, <1>9 DEF Next

(***************************************************************************)
(* At most one process is RUNNING, and it is the scheduler's current one,  *)
(* whatever callers do.                                                    *)
(***************************************************************************)
THEOREM RunningCorrect == Spec => []RunningIsCurrent
<1>1. Init => RunningIsCurrent
  BY DEF Init, ProcessInit, RunningIsCurrent
<1> QED
  BY <1>1, RunningNext, TypeCorrect, PTL DEF Spec

-----------------------------------------------------------------------------
(***************************************************************************)
(* A table that numbers its processes by slot holds each once.             *)
(***************************************************************************)
LEMMA TableDistinct == ProcessTypeOK /\ PidIsSlot => IsInjective(processes)
<1> SUFFICES ASSUME ProcessTypeOK, PidIsSlot,
                    NEW i \in 1 .. Len(processes), NEW j \in 1 .. Len(processes),
                    processes[i] = processes[j]
             PROVE  i = j
  BY DEF IsInjective, ProcessTypeOK
<1>1. i - 1 = j - 1
  BY DEF PidIsSlot
<1> QED
  BY <1>1

(***************************************************************************)
(* The steps that add a process to the table and those that take one away  *)
(* keep the numbering.                                                     *)
(***************************************************************************)
LEMMA PidCreate ==
    ASSUME ProcessTypeOK, PidIsSlot, NEW p \in Proc \ live,
           live' = live \cup {p},
           processes' = Append(processes, p),
           \A q \in Proc \ {p} : proc'[q] = proc[q],
           proc'[p].pid = Len(processes)
    PROVE  PidIsSlot'
<1>1. /\ processes' \in Seq(Proc)
      /\ Len(processes') = Len(processes) + 1
      /\ \A i \in 1 .. Len(processes) : processes'[i] = processes[i]
      /\ processes'[Len(processes) + 1] = p
  BY AppendProperties DEF ProcessTypeOK
<1>2. processes \in Seq(Proc) /\ Len(processes) \in Nat
  BY DEF ProcessTypeOK
<1>3. \A q : Contains(processes', q) <=> Contains(processes, q) \/ q = p
  BY <1>2, AppendDistinct, Zenon
<1>4. \A i \in 1 .. Len(processes) : processes[i] \in Proc \ {p}
  BY <1>2 DEF PidIsSlot, Contains
<1>5. ASSUME NEW i \in 1 .. Len(processes') PROVE proc'[processes'[i]].pid = i - 1
  <2>1. CASE i \in 1 .. Len(processes)
    BY <1>1, <1>4, <2>1 DEF PidIsSlot
  <2>2. CASE i = Len(processes) + 1
    BY <1>1, <1>2, <2>2
  <2> QED
    BY <1>1, <1>2, <2>1, <2>2
<1> QED
  BY <1>3, <1>5 DEF PidIsSlot

\* process_destroy renumbers what follows the freed slot.
LEMMA PidDestroy ==
    ASSUME ProcessTypeOK, PidIsSlot, NEW p \in Proc, process_destroy(p)
    PROVE  PidIsSlot'
<1>1. CASE ~Contains(processes, p)
  BY <1>1 DEF process_destroy, PidIsSlot
<1>2. CASE Contains(processes, p)
  <2> DEFINE k == SlotOf(processes, p)
             t == RemoveAt(processes, k)
  <2>0. processes \in Seq(Proc) /\ Len(processes) \in Nat /\ proc \in [Proc -> Process_t]
    BY DEF ProcessTypeOK
  <2>1. k \in 1 .. Len(processes) /\ processes[k] = p
    BY <1>2, <2>0, SlotOfFound
  <2>2. processes' = t /\ proc' = Renumber(t, k) /\ live' = live \ {p}
    BY <1>2 DEF process_destroy
  <2> HIDE DEF k
  <2>3. /\ t \in Seq(Proc)
        /\ Len(t) = Len(processes) - 1
        /\ \A i \in 1 .. Len(processes) - 1 :
              t[i] = IF i < k THEN processes[i] ELSE processes[i + 1]
    BY <2>0, <2>1, RemoveAtProperties
  <2>4. /\ IsInjective(t)
        /\ \A q : Contains(t, q) <=> Contains(processes, q) /\ q # p
    <3>1. IsInjective(processes)
      BY TableDistinct
    <3>2. /\ IsInjective(RemoveAt(processes, k))
          /\ \A q : Contains(RemoveAt(processes, k), q)
                       <=> Contains(processes, q) /\ q # processes[k]
      BY <2>0, <2>1, <3>1, RemoveAtDistinct, Zenon
    <3> QED
      BY <2>1, <3>2
  <2> HIDE DEF t
  <2>5. ASSUME NEW i \in 1 .. Len(t) PROVE proc'[t[i]].pid = i - 1
    <3>0. t[i] \in Proc
      BY <2>3
    <3>1. CASE i >= k
      <4>1. Contains(t, t[i])
        BY DEF Contains
      <4>2. SlotOf(t, t[i]) = i
        <5>1. SlotOf(t, t[i]) \in 1 .. Len(t) /\ t[SlotOf(t, t[i])] = t[i]
          BY <2>3, <4>1, SlotOfFound
        <5> QED
          BY <2>3, <2>4, <5>1 DEF IsInjective
      <4>3. \E j \in k .. Len(t) : t[j] = t[i]
        BY <2>0, <2>1, <2>3, <3>1
      <4>4. proc'[t[i]] = [proc[t[i]] EXCEPT !.pid = i - 1]
        BY <2>2, <3>0, <4>2, <4>3 DEF Renumber
      <4>5. proc[t[i]] \in Process_t
        BY <2>0, <3>0
      <4> QED
        BY <4>4, <4>5 DEF Process_t
    <3>2. CASE i < k
      <4>1. \A j \in k .. Len(t) : t[j] # t[i]
        BY <2>0, <2>1, <2>3, <2>4, <3>2 DEF IsInjective
      <4>2. proc'[t[i]] = proc[t[i]]
        BY <2>2, <3>0, <4>1 DEF Renumber
      <4>3. t[i] = processes[i] /\ i \in 1 .. Len(processes)
        BY <2>0, <2>1, <2>3, <3>2
      <4> QED
        BY <4>2, <4>3 DEF PidIsSlot
    <3> QED
      BY <2>0, <2>1, <2>3, <3>1, <3>2
  <2> QED
    BY <2>2, <2>4, <2>5 DEF PidIsSlot
<1> QED
  BY <1>1, <1>2

\* Every step keeps pids and slots in step.
LEMMA PidNext == TypeOK /\ PidIsSlot /\ [Next]_vars => PidIsSlot'
<1> SUFFICES ASSUME TypeOK, PidIsSlot, [Next]_vars PROVE PidIsSlot'
  OBVIOUS
<1> USE ProcessAssumption
<1>0. /\ ProcessTypeOK
      /\ proc \in [Proc -> Process_t]
      /\ \A i \in 1 .. Len(processes) : processes[i] \in Proc
  BY DEF TypeOK, ProcessTypeOK
<1>k. ASSUME UNCHANGED <<live, processes>>,
             \A q \in live : proc'[q].pid = proc[q].pid
      PROVE  PidIsSlot'
  <2>1. \A i \in 1 .. Len(processes) : processes[i] \in live
    BY <1>0 DEF PidIsSlot, Contains
  <2> QED
    BY <1>0, <1>k, <2>1 DEF PidIsSlot
<1>l. live \subseteq Proc
  BY <1>0 DEF ProcessTypeOK
<1>1. ASSUME NEW p \in Proc, Create(p) \/ scheduler_init(p) PROVE PidIsSlot'
  <2>1. /\ p \in Proc \ live
        /\ live' = live \cup {p}
        /\ processes' = Append(processes, p)
        /\ \A q \in Proc \ {p} : proc'[q] = proc[q]
        /\ proc'[p].pid = Len(processes)
    BY <1>0, <1>1 DEF Create, process_create, scheduler_init, NewProcess
  <2> QED
    BY <1>0, <2>1, PidCreate
<1>2. ASSUME NEW p \in Proc, CreateFails(p) PROVE PidIsSlot'
  <2>1. p \notin live /\ \A q \in Proc \ {p} : proc'[q] = proc[q]
    BY <1>0, <1>2 DEF CreateFails, process_create_fails
  <2> QED
    BY <1>2, <1>k, <1>l, <2>1 DEF CreateFails, process_create_fails
<1>3. ASSUME NEW p \in Proc, scheduler_remove_task(p) PROVE PidIsSlot'
  BY <1>3, <1>k DEF scheduler_remove_task
<1>4. ASSUME NEW p \in Proc, NEW priority \in Priority, scheduler_add_task(p, priority)
      PROVE  PidIsSlot'
  <2>1. proc' = Added(p, priority) /\ UNCHANGED <<live, processes>>
    BY <1>4 DEF scheduler_add_task, Added
  <2>2. \A q \in Proc : Added(p, priority)[q].pid = proc[q].pid
    BY <1>0, AddedEffect
  <2> QED
    BY <1>k, <1>l, <2>1, <2>2
<1>5. ASSUME NEW p \in Proc, process_wake(p) PROVE PidIsSlot'
  <2>1. \A q \in Proc : proc'[q].pid = proc[q].pid
    BY <1>0, <1>5, StateSet DEF process_wake, State
  <2> QED
    BY <1>5, <1>k, <1>l, <2>1 DEF process_wake
<1>s. ASSUME NEW mem \in [Proc -> Process_t], initialized, SwitchFrom(mem),
             \A q \in Proc : mem[q].pid = proc[q].pid
      PROVE  PidIsSlot'
  <2>1. idle \in Proc
    BY <1>s DEF initialized, TypeOK
  <2>2. /\ \A q \in Proc : proc'[q].pid = mem[q].pid
        /\ UNCHANGED <<live, processes>>
    BY <1>s, <2>1, SwitchEffect
  <2> QED
    BY <1>k, <1>l, <1>s, <2>2
<1>6. CASE scheduler_switch_task
  BY <1>0, <1>6, <1>s DEF scheduler_switch_task
<1>7. CASE timer_handler
  <2>1. /\ Ticked \in [Proc -> Process_t]
        /\ \A q \in Proc : Ticked[q].pid = proc[q].pid
    BY <1>0, <1>7, TickedEffect DEF timer_handler, scheduler_timer_callback, TypeOK
  <2>2. CASE SwitchFrom(Ticked)
    BY <1>7, <1>s, <2>1, <2>2 DEF timer_handler, scheduler_timer_callback
  <2>3. CASE proc' = Ticked /\ UNCHANGED <<live, processes>>
    BY <1>k, <1>l, <2>1, <2>3
  <2> QED
    BY <1>7, <2>2, <2>3 DEF timer_handler, scheduler_timer_callback
<1>8. CASE process_block
  <2>1. \A q \in Proc : proc'[q].pid = proc[q].pid
    BY <1>0, <1>8, StateSet DEF process_block, State, TypeOK
  <2> QED
    BY <1>8, <1>k, <1>l, <2>1 DEF process_block
<1>9. CASE sys_exit
  <2>1. current \in Proc /\ process_destroy(current)
    BY <1>9 DEF sys_exit, TypeOK, ProcessTypeOK
  <2> QED
    BY <1>0, <2>1, PidDestroy
<1>10. CASE UNCHANGED vars
  BY <1>10, <1>k DEF vars
<1> QED
  BY <1>1, <1>2, <1>3, <1>4, <1>5, <1>6, <1>7, <1>8, <1>9, <1>10 DEF Next

(***************************************************************************)
(* The table holds exactly the live processes, each at the slot its pid    *)
(* names, across every creation, failed creation and exit.                 *)
(***************************************************************************)
THEOREM PidCorrect == Spec => []PidIsSlot
<1>1. Init => PidIsSlot
  BY DEF Init, ProcessInit, PidIsSlot, Contains
<1> QED
  BY <1>1, PidNext, TypeCorrect, PTL DEF Spec

-----------------------------------------------------------------------------
(***************************************************************************)
(* What the scheduler's pointers point at: the idle process is never freed *)
(* nor listed, and unless a caller misused the scheduler every listed task *)
(* and the process manager's current process are live.  (The scheduler's   *)
(* own current process may be freed even then.)                            *)
(***************************************************************************)
PointersLive ==
    /\ idle # NULL => idle \in live
    /\ idle = NULL => tasks = <<>>
    /\ ~Contains(tasks, idle)
    /\ ~misused => /\ \A p \in Proc : Contains(tasks, p) => p \in live
                   /\ current \in live \cup {NULL}

\* Nothing is listed before scheduler_init.
LEMMA PointersInit == Init => PointersLive
BY ProcessAssumption DEF Init, ProcessInit, PointersLive, Contains

\* Every step keeps the pointers of the scheduler live.
LEMMA PointersNext == TypeOK /\ PointersLive /\ [Next]_vars => PointersLive'
<1> SUFFICES ASSUME TypeOK, PointersLive, [Next]_vars PROVE PointersLive'
  OBVIOUS
<1> USE ProcessAssumption
<1>0. /\ ProcessTypeOK
      /\ proc \in [Proc -> Process_t]
      /\ tasks \in Seq(Proc)
  BY DEF TypeOK, ProcessTypeOK
<1>k. ASSUME UNCHANGED <<tasks, idle, misused, current>>, live \subseteq live'
      PROVE  PointersLive'
  BY <1>k DEF PointersLive
<1>1. ASSUME NEW p \in Proc, Create(p) PROVE PointersLive'
  BY <1>1, <1>k DEF Create, process_create
<1>2. ASSUME NEW p \in Proc, CreateFails(p) PROVE PointersLive'
  BY <1>2, <1>k DEF CreateFails, process_create_fails
<1>3. ASSUME NEW p \in Proc, scheduler_init(p) PROVE PointersLive'
  <2>1. tasks = <<>> /\ tasks' = <<>> /\ idle' = p /\ live' = live \cup {p}
    BY <1>3 DEF scheduler_init, initialized, PointersLive
  <2>2. \A q : ~Contains(tasks', q)
    BY <2>1 DEF Contains
  <2> QED
    BY <1>3, <2>1, <2>2 DEF scheduler_init, PointersLive
<1>4. ASSUME NEW p \in Proc, scheduler_remove_task(p) PROVE PointersLive'
  <2>1. Contains(tasks, p)
    BY <1>4 DEF scheduler_remove_task, Listed
  <2>2. PICK f \in 1 .. Len(tasks) : RemoveFirst(tasks, p) = RemoveAt(tasks, f)
    BY <1>0, <2>1, RemoveFirstIsRemoveAt
  <2>3. /\ Len(RemoveAt(tasks, f)) = Len(tasks) - 1
        /\ \A i \in 1 .. Len(tasks) - 1 :
              RemoveAt(tasks, f)[i] = IF i < f THEN tasks[i] ELSE tasks[i + 1]
    BY <1>0, <2>2, RemoveAtProperties
  <2>4. \A q : Contains(tasks', q) => Contains(tasks, q)
    <3> SUFFICES ASSUME NEW i \in 1 .. Len(tasks') PROVE Contains(tasks, tasks'[i])
      BY DEF Contains
    <3>1. tasks' = RemoveAt(tasks, f)
      BY <1>4, <2>2 DEF scheduler_remove_task
    <3>2. i \in 1 .. Len(tasks) - 1
      BY <2>3, <3>1
    <3>3. i \in 1 .. Len(tasks) /\ i + 1 \in 1 .. Len(tasks)
      BY <1>0, <3>2
    <3>4. tasks'[i] = tasks[i] \/ tasks'[i] = tasks[i + 1]
      BY <2>3, <3>1, <3>2
    <3> QED
      BY <3>3, <3>4 DEF Contains
  <2>5. idle # NULL
    BY <1>4 DEF scheduler_remove_task, initialized
  <2> QED
    BY <1>4, <2>4, <2>5 DEF scheduler_remove_task, PointersLive
<1>5. ASSUME NEW p \in Proc, NEW priority \in Priority, scheduler_add_task(p, priority)
      PROVE  PointersLive'
  <2>1. tasks' = SortPass(Added(p, priority), Append(tasks, p))
    BY <1>5 DEF scheduler_add_task, Added
  <2>2. Added(p, priority) \in [Proc -> Process_t]
    BY <1>0, AddedEffect
  <2>3. Append(tasks, p) \in Seq(Proc)
    BY <1>0, AppendProperties
  <2>4. \A q : Contains(Append(tasks, p), q) => Contains(tasks, q) \/ q = p
    BY <1>0, AppendDistinct, Zenon
  <2>5. \A q : Contains(tasks', q) => Contains(tasks, q) \/ q = p
    <3>1. \A q : Contains(tasks', q) => Contains(Append(tasks, p), q)
      BY <2>1, <2>2, <2>3, SortPassEntries, Zenon
    <3> QED
      BY <2>4, <3>1
  <2> QED
    BY <1>5, <2>5 DEF scheduler_add_task, initialized, PointersLive
<1>6. ASSUME NEW p \in Proc, process_wake(p) PROVE PointersLive'
  BY <1>6, <1>k DEF process_wake
<1>s. ASSUME NEW mem \in [Proc -> Process_t], initialized, SwitchFrom(mem),
             UNCHANGED <<tasks, idle, misused>>
      PROVE  PointersLive'
  <2>1. idle \in Proc
    BY <1>s DEF initialized, TypeOK
  <2>2. /\ scur' \in Proc
        /\ current' = scur'
        /\ scur' = idle \/ Contains(tasks, scur')
        /\ UNCHANGED <<live, processes>>
    BY <1>s, <2>1, SwitchEffect
  <2> QED
    BY <1>s, <2>1, <2>2 DEF initialized, PointersLive
<1>7. CASE scheduler_switch_task
  BY <1>0, <1>7, <1>s DEF scheduler_switch_task
<1>8. CASE timer_handler
  <2>1. Ticked \in [Proc -> Process_t]
    BY <1>0, <1>8, TickedEffect DEF timer_handler, scheduler_timer_callback, TypeOK
  <2>2. CASE SwitchFrom(Ticked)
    BY <1>8, <1>s, <2>1, <2>2 DEF timer_handler, scheduler_timer_callback
  <2>3. CASE UNCHANGED <<live, processes, current, cpu, scur>>
    BY <1>8, <1>k, <2>3 DEF timer_handler, scheduler_timer_callback
  <2> QED
    BY <1>8, <2>2, <2>3 DEF timer_handler, scheduler_timer_callback
<1>9. CASE process_block
  BY <1>9, <1>k DEF process_block
<1>10. CASE sys_exit
  <2>1. /\ current # idle
        /\ live' = live \ {current}
        /\ current' = NULL
        /\ UNCHANGED <<tasks, idle>>
        /\ ~misused' => ~misused /\ ~Contains(tasks, current)
    BY <1>10 DEF sys_exit, process_destroy, Listed
  <2> QED
    BY <2>1 DEF PointersLive
<1>11. CASE UNCHANGED vars
  BY <1>11, <1>k DEF vars
<1> QED
  BY <1>1, <1>2, <1>3, <1>4, <1>5, <1>6, <1>7, <1>8, <1>9, <1>10, <1>11 DEF Next

(***************************************************************************)
(* The idle process that scheduler_switch_task falls back on exists, and   *)
(* so do the tasks it may choose unless a caller misused the scheduler.    *)
(***************************************************************************)
THEOREM PointersCorrect == Spec => []PointersLive
BY PointersInit, PointersNext, TypeCorrect, PTL DEF Spec

-----------------------------------------------------------------------------
(***************************************************************************)
(* A context switch saves the processor's context in the process it        *)
(* belongs to and loads the one the next process saved.  The next process  *)
(* is live because the scheduler's pointers are.                           *)
(***************************************************************************)
LEMMA ContextsNext ==
    TypeOK /\ PointersLive /\ PointersLive' /\ ContextsKept /\ [Next]_vars => ContextsKept'
<1> SUFFICES ASSUME TypeOK, PointersLive, PointersLive', ContextsKept, [Next]_vars, ~misused'
             PROVE  SavedContextIsOwn'
  BY DEF ContextsKept
<1> USE ProcessAssumption
<1>0. /\ ProcessTypeOK
      /\ proc \in [Proc -> Process_t]
      /\ live \subseteq Proc
  BY DEF TypeOK, ProcessTypeOK
<1>k. ASSUME ~misused, UNCHANGED <<live, current, cpu>>,
             \A q \in live : proc'[q].saved = proc[q].saved
      PROVE  SavedContextIsOwn'
  BY <1>k DEF ContextsKept, SavedContextIsOwn
<1>1. ASSUME NEW p \in Proc, Create(p) \/ scheduler_init(p) PROVE SavedContextIsOwn'
  <2>1. /\ p \notin live
        /\ live' = live \cup {p}
        /\ \A q \in Proc \ {p} : proc'[q] = proc[q]
        /\ proc'[p].saved = p
        /\ UNCHANGED <<current, cpu, misused>>
    BY <1>0, <1>1 DEF Create, process_create, scheduler_init, NewProcess
  <2> QED
    BY <1>0, <2>1 DEF ContextsKept, SavedContextIsOwn
<1>2. ASSUME NEW p \in Proc, CreateFails(p) PROVE SavedContextIsOwn'
  <2>1. p \notin live /\ \A q \in Proc \ {p} : proc'[q] = proc[q]
    BY <1>0, <1>2 DEF CreateFails, process_create_fails
  <2> QED
    BY <1>0, <1>2, <1>k, <2>1 DEF CreateFails, process_create_fails
<1>3. ASSUME NEW p \in Proc, scheduler_remove_task(p) PROVE SavedContextIsOwn'
  BY <1>3, <1>k DEF scheduler_remove_task
<1>4. ASSUME NEW p \in Proc, NEW priority \in Priority, scheduler_add_task(p, priority)
      PROVE  SavedContextIsOwn'
  <2>1. proc' = Added(p, priority) /\ UNCHANGED <<live, current, cpu>> /\ ~misused
    BY <1>4 DEF scheduler_add_task, Added
  <2>2. \A q \in Proc : Added(p, priority)[q].saved = proc[q].saved
    BY <1>0, AddedEffect
  <2> QED
    BY <1>0, <1>k, <2>1, <2>2
<1>5. ASSUME NEW p \in Proc, process_wake(p) PROVE SavedContextIsOwn'
  <2>1. \A q \in Proc : proc'[q].saved = proc[q].saved
    BY <1>0, <1>5, StateSet DEF process_wake, State
  <2> QED
    BY <1>0, <1>5, <1>k, <2>1 DEF process_wake
<1>s. ASSUME NEW mem \in [Proc -> Process_t], initialized, SwitchFrom(mem), ~misused,
             \A q \in Proc : mem[q].saved = proc[q].saved
      PROVE  SavedContextIsOwn'
  <2>1. idle \in Proc
    BY <1>s DEF initialized, TypeOK
  <2>2. /\ current' = scur'
        /\ scur' \in Proc
        /\ \A q \in Proc : proc'[q].saved = IF q = current THEN cpu ELSE mem[q].saved
        /\ cpu' = proc'[scur'].saved
        /\ live' = live
    BY <1>s, <2>1, SwitchEffect
  <2>3. scur' \in live
    BY <2>2 DEF PointersLive
  <2>4. \A q \in live : proc'[q].saved = q
    BY <1>0, <1>s, <2>2 DEF ContextsKept, SavedContextIsOwn
  <2> QED
    BY <2>2, <2>3, <2>4 DEF SavedContextIsOwn
<1>6. CASE scheduler_switch_task
  BY <1>0, <1>6, <1>s DEF scheduler_switch_task
<1>7. CASE timer_handler
  <2>1. /\ Ticked \in [Proc -> Process_t]
        /\ \A q \in Proc : Ticked[q].saved = proc[q].saved
    BY <1>0, <1>7, TickedEffect DEF timer_handler, scheduler_timer_callback, TypeOK
  <2>2. CASE SwitchFrom(Ticked)
    BY <1>7, <1>s, <2>1, <2>2 DEF timer_handler, scheduler_timer_callback
  <2>3. CASE proc' = Ticked /\ UNCHANGED <<live, processes, current, cpu, scur>>
    BY <1>0, <1>7, <1>k, <2>1, <2>3 DEF timer_handler, scheduler_timer_callback
  <2> QED
    BY <1>7, <2>2, <2>3 DEF timer_handler, scheduler_timer_callback
<1>8. CASE process_block
  <2>1. \A q \in Proc : proc'[q].saved = proc[q].saved
    BY <1>0, <1>8, StateSet DEF process_block, State, TypeOK
  <2> QED
    BY <1>0, <1>8, <1>k, <2>1 DEF process_block
<1>9. CASE sys_exit
  <2>1. current \in Proc /\ process_destroy(current)
    BY <1>9 DEF sys_exit, TypeOK, ProcessTypeOK
  <2>2. \A q \in Proc : proc'[q].saved = proc[q].saved
    BY <1>0, <2>1, DestroyEffect
  <2>3. live' = live \ {current} /\ current' = NULL /\ ~misused
    BY <1>9 DEF sys_exit, process_destroy
  <2> QED
    BY <1>0, <2>2, <2>3 DEF ContextsKept, SavedContextIsOwn
<1>10. CASE UNCHANGED vars
  BY <1>10, <1>k DEF vars
<1> QED
  BY <1>1, <1>2, <1>3, <1>4, <1>5, <1>6, <1>7, <1>8, <1>9, <1>10 DEF Next

(***************************************************************************)
(* No context is lost or mixed up by scheduler_switch_task or the timer,   *)
(* unless a caller misused the scheduler.                                  *)
(***************************************************************************)
THEOREM ContextsCorrect == Spec => []ContextsKept
<1>1. Init => ContextsKept
  BY DEF Init, ProcessInit, ContextsKept, SavedContextIsOwn
<1> QED
  BY <1>1, ContextsNext, PointersCorrect, TypeCorrect, PTL DEF Spec

-----------------------------------------------------------------------------
(***************************************************************************)
(* A sorted list stays sorted when one task is taken out, and when the     *)
(* priorities of its tasks do not change.                                  *)
(***************************************************************************)
LEMMA SortedRemove ==
    ASSUME NEW mem, NEW s \in Seq(Proc), NEW f \in 1 .. Len(s), Sorted(mem, s)
    PROVE  Sorted(mem, RemoveAt(s, f))
<1> DEFINE t == RemoveAt(s, f)
           at(i) == IF i < f THEN i ELSE i + 1
<1>1. /\ Len(t) = Len(s) - 1
      /\ \A i \in 1 .. Len(s) - 1 : t[i] = IF i < f THEN s[i] ELSE s[i + 1]
  BY RemoveAtProperties
<1>2. Len(s) \in Nat
  OBVIOUS
<1> HIDE DEF t
<1>3. \A i \in 1 .. Len(t) : at(i) \in 1 .. Len(s) /\ t[i] = s[at(i)]
  BY <1>1, <1>2
<1>4. \A i, j \in 1 .. Len(t) : i < j => at(i) < at(j)
  BY <1>1, <1>2
<1> HIDE DEF at
<1>5. Sorted(mem, t)
  BY <1>3, <1>4 DEF Sorted
<1> QED
  BY <1>5 DEF t

\* A list stays sorted when the priorities of its tasks stay.
LEMMA SortedSame ==
    ASSUME NEW mem, NEW new, NEW s \in Seq(Proc), Sorted(mem, s),
           \A q \in Proc : Contains(s, q) => new[q].priority = mem[q].priority
    PROVE  Sorted(new, s)
<1>1. \A i \in 1 .. Len(s) : s[i] \in Proc /\ Contains(s, s[i])
  BY DEF Contains
<1>2. \A i \in 1 .. Len(s) : new[s[i]].priority = mem[s[i]].priority
  BY <1>1
<1> QED
  BY <1>2 DEF Sorted

(***************************************************************************)
(* The list stays sorted: scheduler_add_task's pass puts the new task in   *)
(* its place, and no other step changes the priority of a listed task,     *)
(* since a listed task is live and process_create writes free memory.      *)
(***************************************************************************)
LEMMA SortedNext ==
    TypeOK /\ PointersLive /\ TasksSorted /\ [Next]_vars => TasksSorted'
<1> SUFFICES ASSUME TypeOK, PointersLive, TasksSorted, [Next]_vars, ~misused'
             PROVE  Sorted(proc', tasks')
  BY DEF TasksSorted, Sorted
<1> USE ProcessAssumption
<1>0. /\ ProcessTypeOK
      /\ proc \in [Proc -> Process_t]
      /\ tasks \in Seq(Proc)
  BY DEF TypeOK, ProcessTypeOK
<1>i. ~misused => Sorted(proc, tasks)
  BY DEF TasksSorted, Sorted
<1>k. ASSUME ~misused, tasks' = tasks,
             \A q \in Proc : Contains(tasks, q) => proc'[q].priority = proc[q].priority
      PROVE  Sorted(proc', tasks')
  <2>1. Sorted(proc', tasks)
    BY <1>0, <1>i, <1>k, SortedSame
  <2> QED
    BY <1>k, <2>1
<1>1. ASSUME NEW p \in Proc, Create(p) \/ CreateFails(p) \/ scheduler_init(p)
      PROVE  Sorted(proc', tasks')
  <2>1. /\ p \notin live
        /\ \A q \in Proc \ {p} : proc'[q] = proc[q]
        /\ UNCHANGED <<tasks, misused>>
    BY <1>0, <1>1
    DEF Create, CreateFails, process_create, process_create_fails, scheduler_init
  <2>2. ~Contains(tasks, p)
    BY <2>1 DEF PointersLive
  <2> QED
    BY <1>k, <2>1, <2>2
<1>2. ASSUME NEW p \in Proc, scheduler_remove_task(p) PROVE Sorted(proc', tasks')
  <2>1. Contains(tasks, p) /\ ~misused /\ proc' = proc /\ tasks' = RemoveFirst(tasks, p)
    BY <1>2 DEF scheduler_remove_task, Listed
  <2>2. PICK f \in 1 .. Len(tasks) : RemoveFirst(tasks, p) = RemoveAt(tasks, f)
    BY <1>0, <2>1, RemoveFirstIsRemoveAt
  <2>3. Sorted(proc, RemoveAt(tasks, f))
    BY <1>0, <1>i, <2>1, SortedRemove
  <2> QED
    BY <2>1, <2>2, <2>3
<1>3. ASSUME NEW p \in Proc, NEW priority \in Priority, scheduler_add_task(p, priority)
      PROVE  Sorted(proc', tasks')
  <2> DEFINE mem == Added(p, priority)
  <2>1. /\ proc' = mem
        /\ tasks' = SortPass(mem, Append(tasks, p))
        /\ ~misused
        /\ ~Contains(tasks, p)
    BY <1>3 DEF scheduler_add_task, Added, Listed
  <2>2. mem \in [Proc -> Process_t] /\ \A q \in Proc \ {p} : mem[q] = proc[q]
    BY <1>0, AddedEffect
  <2> HIDE DEF mem
  <2>3. Sorted(mem, tasks)
    BY <1>0, <1>i, <2>1, <2>2, SortedSame
  <2>4. Sorted(mem, SortPass(mem, Append(tasks, p)))
    BY <1>0, <2>1, <2>2, <2>3, SortPassSorts
  <2> QED
    BY <2>1, <2>4
<1>4. ASSUME NEW p \in Proc, process_wake(p) PROVE Sorted(proc', tasks')
  <2>1. \A q \in Proc : proc'[q].priority = proc[q].priority
    BY <1>0, <1>4, StateSet DEF process_wake, State
  <2> QED
    BY <1>4, <1>k, <2>1 DEF process_wake
<1>s. ASSUME NEW mem \in [Proc -> Process_t], initialized, SwitchFrom(mem),
             UNCHANGED <<tasks, misused>>,
             \A q \in Proc : mem[q].priority = proc[q].priority
      PROVE  Sorted(proc', tasks')
  <2>1. idle \in Proc
    BY <1>s DEF initialized, TypeOK
  <2>2. \A q \in Proc : proc'[q].priority = mem[q].priority
    BY <1>s, <2>1, SwitchEffect
  <2> QED
    BY <1>k, <1>s, <2>2
<1>5. CASE scheduler_switch_task
  BY <1>0, <1>5, <1>s DEF scheduler_switch_task
<1>6. CASE timer_handler
  <2>1. /\ Ticked \in [Proc -> Process_t]
        /\ \A q \in Proc : Ticked[q].priority = proc[q].priority
    BY <1>0, <1>6, TickedEffect DEF timer_handler, scheduler_timer_callback, TypeOK
  <2>2. CASE SwitchFrom(Ticked)
    BY <1>6, <1>s, <2>1, <2>2 DEF timer_handler, scheduler_timer_callback
  <2>3. CASE proc' = Ticked
    BY <1>6, <1>k, <2>1, <2>3 DEF timer_handler, scheduler_timer_callback
  <2> QED
    BY <1>6, <2>2, <2>3 DEF timer_handler, scheduler_timer_callback
<1>7. CASE process_block
  <2>1. \A q \in Proc : proc'[q].priority = proc[q].priority
    BY <1>0, <1>7, StateSet DEF process_block, State, TypeOK
  <2> QED
    BY <1>7, <1>k, <2>1 DEF process_block
<1>8. CASE sys_exit
  <2>1. current \in Proc /\ process_destroy(current)
    BY <1>8 DEF sys_exit, TypeOK, ProcessTypeOK
  <2>2. \A q \in Proc : proc'[q].priority = proc[q].priority
    BY <1>0, <2>1, DestroyEffect
  <2> QED
    BY <1>8, <1>k, <2>2 DEF sys_exit
<1>9. CASE UNCHANGED vars
  BY <1>9, <1>k DEF vars
<1> QED
  BY <1>1, <1>2, <1>3, <1>4, <1>5, <1>6, <1>7, <1>8, <1>9 DEF Next

(***************************************************************************)
(* The task list is in descending priority and lists no process twice,     *)
(* unless a caller misused the scheduler.                                  *)
(***************************************************************************)
THEOREM SortedCorrect == Spec => []TasksSorted
<1>1. Init => TasksSorted
  BY DEF Init, TasksSorted
<1> QED
  BY <1>1, SortedNext, PointersCorrect, TypeCorrect, PTL DEF Spec

-----------------------------------------------------------------------------
(***************************************************************************)
(* The priority field of a process record is a natural number.             *)
(***************************************************************************)
LEMMA PriorityNat == \A r \in Process_t : r.priority \in Nat
<1> SUFFICES ASSUME NEW r \in Process_t PROVE r.priority \in Nat
  OBVIOUS
<1>1. r.priority \in Priority
  BY DEF Process_t
<1> QED
  BY <1>1, ProcessAssumption DEF Priority

(***************************************************************************)
(* What a switch from the memory contents mem leaves READY has no claim to *)
(* run before the process it chose.                                        *)
(***************************************************************************)
LEMMA SwitchPicks ==
    ASSUME TypeOK, PointersLive, TasksSorted, idle \in Proc,
           NEW mem \in [Proc -> Process_t], SwitchFrom(mem),
           \A q \in Proc : mem[q].priority = proc[q].priority,
           NEW i \in 1 .. Len(tasks), proc'[tasks[i]].state = "READY"
    PROVE  /\ scur' # idle
           /\ ~misused => proc'[tasks[i]].priority <= proc'[scur'].priority
<1> USE ProcessAssumption
<1> DEFINE rel == Released(mem)
<1>0. tasks \in Seq(Proc) /\ tasks[i] \in Proc /\ Len(tasks) \in Nat
  BY DEF TypeOK
<1>1. /\ scur' = NextProcess(rel)
      /\ scur' \in Proc
      /\ \A p \in Proc :
            /\ proc'[p].priority = mem[p].priority
            /\ proc'[p].state = IF p = scur' THEN "RUNNING"
                                ELSE IF p = scur THEN "READY" ELSE mem[p].state
  BY SwitchEffect
<1>2. Ready(rel, i)
  <2>1. rel[tasks[i]].state = IF tasks[i] = scur THEN "READY" ELSE mem[tasks[i]].state
    BY <1>0 DEF Released, TypeOK, Process_t
  <2>2. "RUNNING" # "READY"
    OBVIOUS
  <2>3. rel[tasks[i]].state = "READY"
    <3> HIDE DEF rel
    <3> QED
      BY <1>0, <1>1, <2>1, <2>2
  <2> QED
    BY <2>3 DEF Ready
<1> HIDE DEF rel
<1>3. PICK k \in 1 .. Len(tasks) : /\ scur' = tasks[k]
                                   /\ \A j \in 1 .. k - 1 : ~Ready(rel, j)
  BY <1>0, <1>1, <1>2, NextProcessChosen
<1>4. k <= i
  BY <1>0, <1>2, <1>3
<1>5. scur' # idle
  BY <1>0, <1>3 DEF PointersLive, Contains
<1>6. ASSUME ~misused PROVE proc'[tasks[i]].priority <= proc'[scur'].priority
  <2>1. proc[tasks[k]].priority \in Nat /\ proc[tasks[i]].priority \in Nat
    <3>1. tasks[k] \in Proc
      BY <1>1, <1>3
    <3>2. proc[tasks[k]] \in Process_t /\ proc[tasks[i]] \in Process_t
      BY <1>0, <3>1 DEF TypeOK, ProcessTypeOK
    <3> QED
      BY <3>2, PriorityNat
  <2>2. proc[tasks[k]].priority >= proc[tasks[i]].priority
    <3>1. CASE k = i
      BY <2>1, <3>1
    <3>2. CASE k < i
      BY <1>6, <3>2 DEF TasksSorted
    <3> QED
      BY <1>4, <3>1, <3>2
  <2>3. /\ proc'[tasks[i]].priority = proc[tasks[i]].priority
        /\ proc'[scur'].priority = proc[tasks[k]].priority
    BY <1>0, <1>1, <1>3
  <2> QED
    BY <2>1, <2>2, <2>3
<1> QED
  BY <1>5, <1>6

(***************************************************************************)
(* When the scheduler changes to another process, no READY task of higher  *)
(* priority is left waiting, and idle runs only when no task is READY.     *)
(***************************************************************************)
THEOREM PicksHighestCorrect == Spec => PicksHighest
<1> DEFINE Picks ==
       scur' # scur =>
         \A i \in 1 .. Len(tasks) :
            proc'[tasks[i]].state = "READY" =>
               /\ scur' # idle
               /\ ~misused => proc'[tasks[i]].priority <= proc'[scur'].priority
<1>1. TypeOK /\ PointersLive /\ TasksSorted /\ [Next]_vars => [Picks]_vars
  <2> SUFFICES ASSUME TypeOK, PointersLive, TasksSorted, Next, scur' # scur
               PROVE  Picks
    OBVIOUS
  <2>0. ProcessTypeOK /\ proc \in [Proc -> Process_t]
    BY DEF TypeOK, ProcessTypeOK
  <2>s. ASSUME NEW mem \in [Proc -> Process_t], initialized, SwitchFrom(mem),
               \A q \in Proc : mem[q].priority = proc[q].priority
        PROVE  Picks
    <3>1. idle \in Proc
      BY <2>s DEF initialized, TypeOK
    <3> QED
      BY <2>s, <3>1, SwitchPicks
  <2>1. CASE scheduler_switch_task
    BY <2>0, <2>1, <2>s DEF scheduler_switch_task
  <2>2. CASE timer_handler
    <3>1. /\ Ticked \in [Proc -> Process_t]
          /\ \A q \in Proc : Ticked[q].priority = proc[q].priority
      BY <2>0, <2>2, TickedEffect, ProcessAssumption DEF timer_handler, scheduler_timer_callback, TypeOK
    <3>2. SwitchFrom(Ticked)
      BY <2>2 DEF timer_handler, scheduler_timer_callback
    <3> QED
      BY <2>2, <2>s, <3>1, <3>2 DEF timer_handler, scheduler_timer_callback
  <2>3. CASE process_block \/ sys_exit
    BY <2>3 DEF process_block, sys_exit
  <2>4. ASSUME NEW p \in Proc,
               \/ Create(p) \/ CreateFails(p) \/ scheduler_init(p)
               \/ scheduler_remove_task(p) \/ process_wake(p)
               \/ \E priority \in Priority : scheduler_add_task(p, priority)
        PROVE  FALSE
    BY <2>4 DEF Create, CreateFails, scheduler_init, scheduler_remove_task, process_wake,
                scheduler_add_task
  <2> QED
    BY <2>1, <2>2, <2>3, <2>4 DEF Next
<1> QED
  BY <1>1, TypeCorrect, PointersCorrect, SortedCorrect, PTL DEF Spec, PicksHighest

=============================================================================
