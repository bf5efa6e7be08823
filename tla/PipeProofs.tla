----------------------------- MODULE PipeProofs -----------------------------
(***************************************************************************)
(* Theorems about the pipe (module Pipe), for any number of readers and    *)
(* writers, any size of the ring and any sizes of reads and writes.        *)
(***************************************************************************)
EXTENDS Pipe, SequenceLemmas, FiniteSetTheorems

(***************************************************************************)
(* A call begins with an empty hand, a reader never has more bytes than it *)
(* asked for, and only pipe_close wakes the waiters.                       *)
(***************************************************************************)
HandFits ==
    \A p \in Proc :
        /\ pc[p] = "idle" => hand[p] = <<>>
        /\ pc[p] = "idle" <=> op[p] = "none"
        /\ pc[p] \in {"wake1", "wake2"} => op[p] = "close"
        /\ op[p] = "read" => Len(hand[p]) <= size[p]

(***************************************************************************)
(* write_pos is where the bytes of the ring end.                           *)
(***************************************************************************)
RingOK == write_pos = At(count)

(***************************************************************************)
(* The inductive invariant: TypeOK needs HandFits, without which to_read   *)
(* might be negative, and the order of the bytes needs RingOK.             *)
(***************************************************************************)
PipeInv == TypeOK /\ HandFits /\ RingOK

-----------------------------------------------------------------------------
(***************************************************************************)
(* How far position i - 1 behind r lies behind position c behind r, in a   *)
(* ring of N positions.                                                    *)
(***************************************************************************)
Behind(N, c, i) == IF i <= c THEN N - c + (i - 1) ELSE i - 1 - c

\* How far the i-th slot after read_pos is behind write_pos.
LEMMA RingDistance ==
    ASSUME NEW N \in Nat \ {0}, NEW r \in 0 .. N - 1, NEW c \in 0 .. N, NEW i \in 1 .. N
    PROVE  (((r + (i - 1)) % N) + (N - ((r + c) % N))) % N = Behind(N, c, i)
<1> DEFINE a == (r + (i - 1)) % N
           w == (r + c) % N
           D == Behind(N, c, i)
<1>1. D \in 0 .. N - 1
  BY DEF Behind
<1>2. a = IF r + (i - 1) < N THEN r + (i - 1) ELSE r + (i - 1) - N
  <2> DEFINE x == r + (i - 1)
  <2>1. x \in 0 .. 2 * N - 1 /\ a = x % N
    OBVIOUS
  <2> HIDE DEF x, a
  <2>2. a = IF x < N THEN x ELSE x - N
    BY <2>1, ModTwice
  <2> QED
    BY <2>2 DEF x
<1>3. w = IF r + c < N THEN r + c ELSE r + c - N
  <2> DEFINE x == r + c
  <2>1. x \in 0 .. 2 * N - 1 /\ w = x % N
    OBVIOUS
  <2> HIDE DEF x, w
  <2>2. w = IF x < N THEN x ELSE x - N
    BY <2>1, ModTwice
  <2> QED
    BY <2>2 DEF x
<1> HIDE DEF a, w
<1>4. a + (N - w) = D \/ a + (N - w) = D + N
  BY <1>2, <1>3 DEF Behind
<1> HIDE DEF D
<1>5. D % N = D
  BY <1>1, ModSmall
<1>6. (D + N) % N = D
  <2>1. D + N \in N .. 2 * N - 1
    BY <1>1
  <2>2. (D + N) - N = D
    BY <1>1
  <2> QED
    BY <2>1, <2>2, ModOnce
<1>7. (a + (N - w)) % N = D
  BY <1>4, <1>5, <1>6, Zenon
<1> QED
  BY <1>7 DEF a, w, D

(***************************************************************************)
(* The lesser of two numbers, as pipe_read and pipe_write compute it.      *)
(***************************************************************************)
LEMMA MinTwo ==
    ASSUME NEW a \in Nat, NEW b \in Nat
    PROVE  Min({a, b}) \in Nat /\ Min({a, b}) <= a /\ Min({a, b}) <= b
<1>1. \E x \in {a, b} : \A y \in {a, b} : x <= y
  OBVIOUS
<1>2. Min({a, b}) \in {a, b} /\ \A y \in {a, b} : Min({a, b}) <= y
  BY <1>1 DEF Min
<1> QED
  BY <1>2

(***************************************************************************)
(* The types of the numbers that a call works with.                        *)
(***************************************************************************)
LEMMA TypeFacts ==
    ASSUME TypeOK, NEW p \in Proc
    PROVE  /\ PIPE_BUFFER_SIZE \in Nat \ {0}
           /\ count \in Nat /\ PIPE_BUFFER_SIZE - count \in Nat
           /\ read_pos \in 0 .. PIPE_BUFFER_SIZE - 1
           /\ write_pos \in 0 .. PIPE_BUFFER_SIZE - 1
           /\ hand[p] \in Seq(Byte) /\ Len(hand[p]) \in Nat
           /\ size[p] \in Nat
<1>1. PIPE_BUFFER_SIZE \in Nat \ {0} /\ Size \subseteq Nat
  BY PipeAssumption
<1>2. hand[p] \in Seq(Byte) /\ size[p] \in Size \cup {0}
  BY DEF TypeOK
<1>3. Len(hand[p]) \in Nat
  BY <1>2, LenProperties
<1>4. size[p] \in Nat
  <2>1. 0 \in Nat
    OBVIOUS
  <2> QED
    BY <1>1, <1>2, <2>1, Zenon
<1>5. count \in 0 .. PIPE_BUFFER_SIZE /\ read_pos \in Position /\ write_pos \in Position
  BY DEF TypeOK
<1>6. count \in Nat /\ PIPE_BUFFER_SIZE - count \in Nat
  BY <1>1, <1>5
<1> QED
  BY <1>1, <1>2, <1>3, <1>4, <1>5, <1>6 DEF Position

(***************************************************************************)
(* The first bytes of the ring are a sequence of bytes.                    *)
(***************************************************************************)
LEMMA FirstBytesType ==
    ASSUME TypeOK, NEW n \in Nat
    PROVE  /\ FirstBytes(n) \in Seq(Byte)
           /\ Len(FirstBytes(n)) = n
           /\ \A i \in 1 .. n : FirstBytes(n)[i] = buffer[At(i - 1)]
<1>1. \A i \in 1 .. n : buffer[At(i - 1)] \in Byte
  <2> SUFFICES ASSUME NEW i \in 1 .. n PROVE buffer[At(i - 1)] \in Byte
    OBVIOUS
  <2>1. read_pos + (i - 1) \in Nat
    BY DEF TypeOK, Position
  <2>2. At(i - 1) \in Position
    BY <2>1, PipeAssumption DEF At, Position
  <2> QED
    BY <2>2 DEF TypeOK
<1>2. FirstBytes(n) \in [1 .. n -> Byte]
  BY <1>1 DEF FirstBytes
<1> QED
  BY <1>2 DEF FirstBytes

(***************************************************************************)
(* What pipe_read does: some number k of bytes, no more than available and *)
(* wanted, go to the reader.                                               *)
(***************************************************************************)
LEMMA ReadEffect ==
    ASSUME TypeOK, HandFits, NEW p \in Proc, pipe_read(p)
    PROVE  \E k \in 0 .. count :
              /\ Len(hand[p]) + k <= size[p]
              /\ hand' = [hand EXCEPT ![p] = hand[p] \o FirstBytes(k)]
              /\ read_pos' = At(k)
              /\ count' = count - k
<1> DEFINE want == size[p] - Len(hand[p])
           k    == Min({want, count})
<1>1. want \in Nat /\ count \in Nat /\ Len(hand[p]) \in Nat /\ size[p] \in Nat
  <2>1. op[p] = "read"
    BY DEF pipe_read
  <2>2. count \in Nat /\ Len(hand[p]) \in Nat /\ size[p] \in Nat
    BY TypeFacts
  <2>3. Len(hand[p]) <= size[p]
    BY <2>1 DEF HandFits
  <2> QED
    BY <2>2, <2>3
<1>2. k \in Nat /\ k <= want /\ k <= count
  <2> HIDE DEF want
  <2> QED
    BY <1>1, MinTwo
<1>3. /\ hand' = [hand EXCEPT ![p] = hand[p] \o FirstBytes(k)]
      /\ read_pos' = At(k)
      /\ count' = count - k
  BY Zenon DEF pipe_read
<1> HIDE DEF k
<1>4. k \in 0 .. count /\ Len(hand[p]) + k <= size[p]
  BY <1>1, <1>2
<1> QED
  BY <1>3, <1>4

(***************************************************************************)
(* What pipe_write does: some number k of bytes, no more than there are    *)
(* and find space, go from the writer to the ring.                         *)
(***************************************************************************)
LEMMA WriteEffect ==
    ASSUME TypeOK, NEW p \in Proc, pipe_write(p)
    PROVE  \E k \in 0 .. Len(hand[p]) :
              /\ count + k <= PIPE_BUFFER_SIZE
              /\ buffer' = Written(SubSeq(hand[p], 1, k))
              /\ hand' = [hand EXCEPT ![p] = SubSeq(hand[p], k + 1, Len(hand[p]))]
              /\ write_pos' = (write_pos + k) % PIPE_BUFFER_SIZE
              /\ count' = count + k
<1> DEFINE k == Min({Len(hand[p]), Space})
<1>1. Space \in Nat /\ count \in Nat /\ Len(hand[p]) \in Nat
  BY TypeFacts DEF Space
<1>2. k \in Nat /\ k <= Len(hand[p]) /\ k <= Space
  BY <1>1, MinTwo
<1>3. /\ buffer' = Written(SubSeq(hand[p], 1, k))
      /\ hand' = [hand EXCEPT ![p] = SubSeq(hand[p], k + 1, Len(hand[p]))]
      /\ write_pos' = (write_pos + k) % PIPE_BUFFER_SIZE
      /\ count' = count + k
  BY Zenon DEF pipe_write
<1> HIDE DEF k
<1>4. k \in 0 .. Len(hand[p]) /\ count + k <= PIPE_BUFFER_SIZE
  BY <1>1, <1>2, PipeAssumption DEF Space
<1> QED
  BY <1>3, <1>4

(***************************************************************************)
(* The part of a text from one place to another is a text.                 *)
(***************************************************************************)
LEMMA SubText ==
    ASSUME NEW s \in Seq(Byte), NEW m \in Nat \ {0}, NEW n \in 0 .. Len(s), m <= n + 1
    PROVE  /\ SubSeq(s, m, n) \in Seq(Byte)
           /\ Len(SubSeq(s, m, n)) = n - m + 1
           /\ \A i \in 1 .. n - m + 1 : SubSeq(s, m, n)[i] = s[m + i - 1]
<1>1. m \in Int /\ n \in Int /\ \A i \in m .. n : s[i] \in Byte
  BY LenProperties
<1>2. /\ SubSeq(s, m, n) \in Seq(Byte)
      /\ Len(SubSeq(s, m, n)) = IF m <= n THEN n - m + 1 ELSE 0
      /\ \A i \in 1 .. n - m + 1 : SubSeq(s, m, n)[i] = s[m + i - 1]
  BY <1>1, SubSeqProperties
<1> QED
  BY <1>1, <1>2

-----------------------------------------------------------------------------
(***************************************************************************)
(* The operations on semaphores keep their types.                          *)
(***************************************************************************)
LEMMA SemaphoreTypes ==
    ASSUME SemaphoreTypeOK, NEW s \in Sem, NEW p \in Proc,
           \/ Decrement(s)
           \/ WaitNoMemory(s)
           \/ Enqueue(s, p) /\ (UNCHANGED pstate \/ process_block(p))
           \/ Dequeue(s, p)
           \/ semaphore_signal(s)
           \/ UNCHANGED <<value, swaiters>> /\ process_block(p)
    PROVE  SemaphoreTypeOK'
<1> USE DEF SemaphoreTypeOK, BlockingTypeOK
<1>1. swaiters[s] \in Seq(Proc)
  OBVIOUS
<1>2. CASE Decrement(s)
  BY <1>2 DEF Decrement
<1>3. CASE WaitNoMemory(s)
  BY <1>3 DEF WaitNoMemory, semVars
<1>4. CASE Enqueue(s, p) /\ (UNCHANGED pstate \/ process_block(p))
  <2>1. Append(swaiters[s], p) \in Seq(Proc)
    BY <1>1, AppendProperties
  <2> QED
    BY <1>4, <2>1 DEF Enqueue, process_block
<1>5. CASE Dequeue(s, p)
  <2>1. RemoveFirst(swaiters[s], p) \in Seq(Proc)
    <3>1. CASE Contains(swaiters[s], p)
      <4>1. PICK f \in 1 .. Len(swaiters[s]) :
               RemoveFirst(swaiters[s], p) = RemoveAt(swaiters[s], f)
        BY <1>1, <3>1, RemoveFirstIsRemoveAt, Zenon
      <4> QED
        BY <1>1, <4>1, RemoveAtProperties, Zenon
    <3>2. CASE ~Contains(swaiters[s], p)
      BY <1>1, <3>2, Zenon DEF RemoveFirst, Contains
    <3> QED
      BY <3>1, <3>2
  <2> QED
    BY <1>5, <2>1 DEF Dequeue
<1>6. CASE semaphore_signal(s)
  BY <1>6 DEF semaphore_signal, process_wake
<1>7. CASE UNCHANGED <<value, swaiters>> /\ process_block(p)
  BY <1>7 DEF process_block
<1> QED
  BY <1>2, <1>3, <1>4, <1>5, <1>6, <1>7

(***************************************************************************)
(* What belongs to the calls: the places, the calls and the hands.         *)
(***************************************************************************)
CallInv ==
    /\ pc \in [Proc -> PC]
    /\ op \in [Proc -> Op]
    /\ hand \in [Proc -> Seq(Byte)]
    /\ size \in [Proc -> Size \cup {0}]
    /\ HandFits

(***************************************************************************)
(* A step of a call that does not end it.                                  *)
(***************************************************************************)
GoesOn(p) ==
    /\ \E l \in PC \ {"idle"} : Goto(p, l) /\ (l \in {"wake1", "wake2"} => op[p] = "close")
    /\ UNCHANGED <<op, hand, size>>

(***************************************************************************)
(* A call that goes on or returns keeps it.                                *)
(***************************************************************************)
LEMMA CallGoesOn ==
    ASSUME CallInv, NEW p \in Proc, pc[p] # "idle",
           \/ Return(p)
           \/ GoesOn(p)
    PROVE  CallInv'
<1> USE DEF CallInv
<1>1. CASE Return(p)
  <2>1. /\ pc' = [pc EXCEPT ![p] = "idle"]
        /\ op' = [op EXCEPT ![p] = "none"]
        /\ hand' = [hand EXCEPT ![p] = <<>>]
        /\ size' = [size EXCEPT ![p] = 0]
    BY <1>1 DEF Return, Goto
  <2>2. <<>> \in Seq(Byte) /\ "idle" \in PC /\ "none" \in Op
    BY DEF PC, Op
  <2>3. HandFits'
    BY <2>1 DEF HandFits
  <2> QED
    BY <2>1, <2>2, <2>3
<1>2. CASE GoesOn(p)
  <2>1. PICK l \in PC \ {"idle"} : Goto(p, l) /\ (l \in {"wake1", "wake2"} => op[p] = "close")
    BY <1>2 DEF GoesOn
  <2>2. op' = op /\ hand' = hand /\ size' = size /\ pc' = [pc EXCEPT ![p] = l]
    BY <1>2, <2>1 DEF GoesOn, Goto
  <2>3. l \in PC /\ l # "idle"
    BY <2>1
  <2>4. ASSUME NEW q \in Proc
        PROVE  /\ pc'[q] = "idle" => hand'[q] = <<>>
               /\ pc'[q] = "idle" <=> op'[q] = "none"
               /\ pc'[q] \in {"wake1", "wake2"} => op'[q] = "close"
               /\ op'[q] = "read" => Len(hand'[q]) <= size'[q]
    <3>1. CASE q = p
      <4>1. pc'[q] = l
        BY <2>2, <3>1
      <4> QED
        BY <2>1, <2>2, <2>3, <3>1, <4>1 DEF HandFits
    <3>2. CASE q # p
      <4>1. pc'[q] = pc[q]
        BY <2>2, <3>2
      <4> QED
        BY <2>2, <4>1 DEF HandFits
    <3> QED
      BY <3>1, <3>2
  <2>5. HandFits'
    BY <2>4 DEF HandFits
  <2> QED
    BY <2>2, <2>3, <2>5
<1> QED
  BY <1>1, <1>2

-----------------------------------------------------------------------------
(***************************************************************************)
(* pipe_create establishes the invariant.                                  *)
(***************************************************************************)
LEMMA PipeInvInit == Init => PipeInv
<1> SUFFICES ASSUME Init PROVE PipeInv
  OBVIOUS
<1>1. PIPE_BUFFER_SIZE \in Nat \ {0} /\ (CHOOSE b \in Byte : TRUE) \in Byte
  BY PipeAssumption
<1>2. SemaphoreTypeOK
  BY <1>1 DEF Init, semaphore_init, SemaphoreTypeOK, BlockingInit, BlockingTypeOK
<1>3. /\ buffer \in [Position -> Byte]
      /\ read_pos \in Position
      /\ write_pos \in Position
      /\ count \in 0 .. PIPE_BUFFER_SIZE
  BY <1>1 DEF Init, Position
<1>4. closed \in BOOLEAN /\ faults \in Faults /\ missed \in BOOLEAN
  BY Zenon DEF Init
<1>5. CallInv
  BY DEF Init, CallInv, HandFits, PC, Op
<1>6. RingOK
  BY <1>1, ModSmall DEF Init, RingOK, At
<1> QED
  BY <1>2, <1>3, <1>4, <1>5, <1>6 DEF PipeInv, TypeOK, CallInv

(***************************************************************************)
(* A step that moves no byte keeps the invariant if it keeps the types of  *)
(* the semaphores and what belongs to the calls.                           *)
(***************************************************************************)
LEMMA RingUntouched ==
    ASSUME PipeInv, UNCHANGED <<ringVars, faults>>, closed' \in BOOLEAN, missed' \in BOOLEAN,
           SemaphoreTypeOK', CallInv'
    PROVE  PipeInv'
<1>1. /\ buffer' = buffer /\ read_pos' = read_pos /\ write_pos' = write_pos
      /\ count' = count /\ faults' = faults
  BY DEF ringVars
<1>2. TypeOK'
  BY <1>1 DEF PipeInv, TypeOK, CallInv, Position
<1>3. RingOK'
  BY <1>1 DEF PipeInv, RingOK, At
<1> QED
  BY <1>2, <1>3 DEF PipeInv, CallInv

(***************************************************************************)
(* pipe_read keeps it: the end of the bytes stays where it is while their  *)
(* beginning moves towards it.                                             *)
(***************************************************************************)
LEMMA ReadKeeps ==
    ASSUME PipeInv, NEW p \in Proc, pipe_read(p), UNCHANGED faults, missed' \in BOOLEAN
    PROVE  PipeInv'
<1> DEFINE N == PIPE_BUFFER_SIZE
<1>0. TypeOK /\ HandFits /\ RingOK
  BY DEF PipeInv
<1>1. PICK k \in 0 .. count :
              /\ Len(hand[p]) + k <= size[p]
              /\ hand' = [hand EXCEPT ![p] = hand[p] \o FirstBytes(k)]
              /\ read_pos' = At(k)
              /\ count' = count - k
  BY <1>0, ReadEffect
<1>2. /\ pc' = [pc EXCEPT ![p] = "signal"] /\ op[p] = "read"
      /\ UNCHANGED <<value, swaiters, pstate, buffer, write_pos, closed, op, size>>
  BY DEF pipe_read, Goto, semVars
<1>3. /\ N \in Nat \ {0}
      /\ count \in Nat /\ N - count \in Nat
      /\ read_pos \in 0 .. N - 1
      /\ hand[p] \in Seq(Byte) /\ Len(hand[p]) \in Nat
  BY <1>0, TypeFacts
<1>4. FirstBytes(k) \in Seq(Byte) /\ Len(FirstBytes(k)) = k
  BY <1>0, <1>3, FirstBytesType
<1>5. /\ hand[p] \o FirstBytes(k) \in Seq(Byte)
      /\ Len(hand[p] \o FirstBytes(k)) = Len(hand[p]) + k
  BY <1>3, <1>4, ConcatProperties
<1>6. CallInv'
  <2>1. hand' \in [Proc -> Seq(Byte)]
    BY <1>0, <1>1, <1>5 DEF TypeOK
  <2>2. pc' \in [Proc -> PC] /\ op' \in [Proc -> Op] /\ size' \in [Proc -> Size \cup {0}]
    BY <1>0, <1>2 DEF TypeOK, PC
  <2>3. ASSUME NEW q \in Proc
        PROVE  /\ pc'[q] = "idle" => hand'[q] = <<>>
               /\ pc'[q] = "idle" <=> op'[q] = "none"
               /\ pc'[q] \in {"wake1", "wake2"} => op'[q] = "close"
               /\ op'[q] = "read" => Len(hand'[q]) <= size'[q]
    <3>1. CASE q = p
      BY <1>0, <1>1, <1>2, <1>5, <3>1 DEF TypeOK
    <3>2. CASE q # p
      <4>1. hand'[q] = hand[q] /\ pc'[q] = pc[q] /\ op' = op /\ size' = size
        BY <1>0, <1>1, <1>2, <3>2 DEF TypeOK
      <4> QED
        BY <1>0, <4>1 DEF HandFits
    <3> QED
      BY <3>1, <3>2
  <2> QED
    BY <2>1, <2>2, <2>3 DEF CallInv, HandFits
<1>7. read_pos' \in Position /\ count' \in 0 .. N
  BY <1>1, <1>3, ModPosition DEF At, Position
<1>8. RingOK'
  <2>1. (((read_pos + k) % N) + (count - k)) % N = (read_pos + count) % N
    <3>1. count \in 0 .. N
      BY <1>3
    <3> QED
      BY <1>3, <3>1, ModShift
  <2> QED
    BY <1>0, <1>1, <1>2, <2>1 DEF RingOK, At
<1>9. SemaphoreTypeOK'
  BY <1>0, <1>2 DEF TypeOK, SemaphoreTypeOK, BlockingTypeOK
<1> QED
  BY <1>0, <1>2, <1>6, <1>7, <1>8, <1>9 DEF PipeInv, TypeOK, CallInv, Position

(***************************************************************************)
(* What the ring holds after d was written at write_pos.                   *)
(***************************************************************************)
LEMMA WrittenType ==
    ASSUME TypeOK, NEW d \in Seq(Byte)
    PROVE  Written(d) \in [Position -> Byte]
<1> SUFFICES ASSUME NEW i \in Position
             PROVE  LET k == (i + (PIPE_BUFFER_SIZE - write_pos)) % PIPE_BUFFER_SIZE
                    IN  (IF k < Len(d) THEN d[k + 1] ELSE buffer[i]) \in Byte
  BY DEF Written
<1> DEFINE k == (i + (PIPE_BUFFER_SIZE - write_pos)) % PIPE_BUFFER_SIZE
<1>1. PIPE_BUFFER_SIZE \in Nat \ {0} /\ write_pos \in 0 .. PIPE_BUFFER_SIZE - 1
  BY PipeAssumption DEF TypeOK, Position
<1>2. i + (PIPE_BUFFER_SIZE - write_pos) \in Nat
  BY <1>1 DEF Position
<1>3. k \in Nat
  BY <1>1, <1>2, ModPosition
<1> HIDE DEF k
<1>4. CASE k < Len(d)
  <2>1. k + 1 \in 1 .. Len(d)
    BY <1>3, <1>4, LenProperties
  <2>2. d[k + 1] \in Byte
    BY <2>1, LenProperties
  <2> QED
    BY <1>4, <2>2 DEF k
<1>5. CASE ~(k < Len(d))
  <2>1. buffer[i] \in Byte
    BY DEF TypeOK
  <2> QED
    BY <1>5, <2>1 DEF k
<1> QED
  BY <1>4, <1>5

(***************************************************************************)
(* pipe_write keeps the invariant: the beginning of the bytes stays where  *)
(* it is and their end moves on.                                           *)
(***************************************************************************)
LEMMA WriteKeeps ==
    ASSUME PipeInv, NEW p \in Proc, pipe_write(p), UNCHANGED faults, missed' \in BOOLEAN
    PROVE  PipeInv'
<1> DEFINE N == PIPE_BUFFER_SIZE
<1>0. TypeOK /\ HandFits /\ RingOK
  BY DEF PipeInv
<1>1. PICK k \in 0 .. Len(hand[p]) :
              /\ count + k <= N
              /\ buffer' = Written(SubSeq(hand[p], 1, k))
              /\ hand' = [hand EXCEPT ![p] = SubSeq(hand[p], k + 1, Len(hand[p]))]
              /\ write_pos' = (write_pos + k) % N
              /\ count' = count + k
  BY <1>0, WriteEffect
<1>2. /\ pc' = [pc EXCEPT ![p] = "signal"]
      /\ UNCHANGED <<value, swaiters, pstate, read_pos, closed, op, size>>
      /\ op[p] = "write"
  BY DEF pipe_write, Goto, semVars
<1>3. /\ N \in Nat \ {0}
      /\ count \in Nat
      /\ read_pos \in 0 .. N - 1
      /\ write_pos \in 0 .. N - 1
      /\ hand[p] \in Seq(Byte) /\ Len(hand[p]) \in Nat
  BY <1>0, TypeFacts
<1>4. SubSeq(hand[p], 1, k) \in Seq(Byte)
  BY <1>3, SubText
<1>5. SubSeq(hand[p], k + 1, Len(hand[p])) \in Seq(Byte)
  BY <1>3, SubText
<1>6. CallInv'
  <2>1. hand' \in [Proc -> Seq(Byte)]
    BY <1>0, <1>1, <1>5 DEF TypeOK
  <2>2. pc' \in [Proc -> PC] /\ op' \in [Proc -> Op] /\ size' \in [Proc -> Size \cup {0}]
    BY <1>0, <1>2 DEF TypeOK, PC
  <2>3. ASSUME NEW q \in Proc
        PROVE  /\ pc'[q] = "idle" => hand'[q] = <<>>
               /\ pc'[q] = "idle" <=> op'[q] = "none"
               /\ pc'[q] \in {"wake1", "wake2"} => op'[q] = "close"
               /\ op'[q] = "read" => Len(hand'[q]) <= size'[q]
    <3>1. CASE q = p
      BY <1>0, <1>2, <3>1 DEF TypeOK
    <3>2. CASE q # p
      <4>1. hand'[q] = hand[q] /\ pc'[q] = pc[q] /\ op' = op /\ size' = size
        BY <1>0, <1>1, <1>2, <3>2 DEF TypeOK
      <4> QED
        BY <1>0, <4>1 DEF HandFits
    <3> QED
      BY <3>1, <3>2
  <2> QED
    BY <2>1, <2>2, <2>3 DEF CallInv, HandFits
<1>7. write_pos' \in Position /\ count' \in 0 .. N
  BY <1>1, <1>3, ModPosition DEF Position
<1>8. RingOK'
  <2>1. (((read_pos + count) % N) + ((count + k) - count)) % N = (read_pos + (count + k)) % N
    <3>1. count + k \in 0 .. N /\ count \in 0 .. count + k
      BY <1>1, <1>3
    <3> QED
      BY <1>3, <3>1, ModShift
  <2>2. (count + k) - count = k
    BY <1>1, <1>3
  <2> QED
    BY <1>0, <1>1, <1>2, <2>1, <2>2 DEF RingOK, At
<1>9. SemaphoreTypeOK'
  BY <1>0, <1>2 DEF TypeOK, SemaphoreTypeOK, BlockingTypeOK
<1>10. buffer' \in [Position -> Byte]
  BY <1>0, <1>1, <1>4, WrittenType
<1> QED
  BY <1>0, <1>2, <1>6, <1>7, <1>8, <1>9, <1>10 DEF PipeInv, TypeOK, CallInv, Position

(***************************************************************************)
(* Every step keeps the invariant.                                         *)
(***************************************************************************)
LEMMA PipeInvNext == PipeInv /\ [Next]_vars => PipeInv'
<1> SUFFICES ASSUME PipeInv, [Next]_vars PROVE PipeInv'
  OBVIOUS
<1>0. SemaphoreTypeOK /\ CallInv /\ closed \in BOOLEAN /\ missed \in BOOLEAN
  BY DEF PipeInv, TypeOK, CallInv
<1>a. \A p \in Proc : Awaits(p) \in Sem
  BY PipeAssumption DEF Awaits
<1>s. "read_sem" \in Sem /\ "write_sem" \in Sem
  BY PipeAssumption
<1>1. ASSUME NEW p \in Proc, pc[p] = "idle", UNCHANGED <<semVars, ringVars, faults>>,
             closed' \in BOOLEAN, missed' \in BOOLEAN,
             \/ \E n \in Size : CallRead(p, n)
             \/ \E d \in Data : CallWrite(p, d)
             \/ pipe_close(p)
      PROVE  PipeInv'
  <2>1. hand[p] = <<>> /\ hand \in [Proc -> Seq(Byte)] /\ size \in [Proc -> Size \cup {0}]
    BY <1>0, <1>1 DEF CallInv, HandFits
  <2>2. CallInv'
    <3>1. ASSUME NEW n \in Size, CallRead(p, n) PROVE CallInv'
      <4>1. /\ pc' = [pc EXCEPT ![p] = "wait"]
            /\ op' = [op EXCEPT ![p] = "read"]
            /\ size' = [size EXCEPT ![p] = n]
            /\ hand' = hand
        BY <3>1 DEF CallRead, Goto
      <4>2. Len(<<>>) = 0 /\ n \in Nat
        BY PipeAssumption
      <4>3. HandFits'
        BY <1>0, <2>1, <4>1, <4>2 DEF CallInv, HandFits
      <4> QED
        BY <1>0, <4>1, <4>3 DEF CallInv, PC, Op
    <3>2. ASSUME NEW d \in Data, CallWrite(p, d) PROVE CallInv'
      <4>1. /\ pc' = [pc EXCEPT ![p] = "wait"]
            /\ op' = [op EXCEPT ![p] = "write"]
            /\ hand' = [hand EXCEPT ![p] = d]
            /\ size' = size
        BY <3>2 DEF CallWrite, Goto
      <4>2. d \in Seq(Byte)
        BY PipeAssumption
      <4>3. HandFits'
        BY <1>0, <2>1, <4>1 DEF CallInv, HandFits
      <4> QED
        BY <1>0, <4>1, <4>2, <4>3 DEF CallInv, PC, Op
    <3>3. CASE pipe_close(p)
      <4>1. /\ pc' = [pc EXCEPT ![p] = "wake1"]
            /\ op' = [op EXCEPT ![p] = "close"]
            /\ hand' = hand /\ size' = size
        BY <3>3 DEF pipe_close, Goto
      <4>2. HandFits'
        BY <1>0, <4>1 DEF CallInv, HandFits
      <4> QED
        BY <1>0, <4>1, <4>2 DEF CallInv, PC, Op
    <3> QED
      BY <1>1, <3>1, <3>2, <3>3
  <2>3. SemaphoreTypeOK'
    BY <1>0, <1>1 DEF SemaphoreTypeOK, BlockingTypeOK, semVars
  <2> QED
    BY <1>1, <2>2, <2>3, RingUntouched
<1>2. ASSUME NEW p \in Proc, UNCHANGED faults, missed' \in BOOLEAN,
             Pass(p) \/ Sleep(p) \/ Block(p) \/ WakeUp(p)
      PROVE  PipeInv'
  <2>1. UNCHANGED ringVars /\ closed' \in BOOLEAN
    BY <1>0, <1>2, Zenon DEF Pass, Sleep, Block, WakeUp
  <2>2. CallInv'
    <3>1. pc[p] # "idle" /\ (Return(p) \/ GoesOn(p))
      BY <1>2 DEF Pass, Sleep, Block, WakeUp, PC, GoesOn
    <3> QED
      BY <1>0, <3>1, CallGoesOn
  <2>3. SemaphoreTypeOK'
    <3>1. \E s \in Sem :
             \/ Decrement(s)
             \/ WaitNoMemory(s)
             \/ Enqueue(s, p) /\ (UNCHANGED pstate \/ process_block(p))
             \/ Dequeue(s, p)
             \/ semaphore_signal(s)
             \/ UNCHANGED <<value, swaiters>> /\ process_block(p)
      BY <1>2, <1>a DEF Pass, Sleep, Block, WakeUp
    <3> QED
      BY <1>0, <3>1, SemaphoreTypes
  <2> QED
    BY <1>2, <2>1, <2>2, <2>3, RingUntouched
<1>3. ASSUME NEW p \in Proc, UNCHANGED faults, missed' \in BOOLEAN,
             Signal(p) \/ WakeReader(p) \/ WakeWriter(p)
      PROVE  PipeInv'
  <2>1. UNCHANGED ringVars /\ closed' \in BOOLEAN
    BY <1>0, <1>3, Zenon DEF Signal, WakeReader, WakeWriter
  <2>2. CallInv'
    <3>1. pc[p] # "idle" /\ (Return(p) \/ GoesOn(p))
      BY <1>0, <1>3 DEF Signal, EndIfServed, WakeReader, WakeWriter, PC, GoesOn, CallInv, HandFits
    <3> QED
      BY <1>0, <3>1, CallGoesOn
  <2>3. SemaphoreTypeOK'
    <3>1. \E s \in Sem : semaphore_signal(s)
      BY <1>3, <1>s DEF Signal, WakeReader, WakeWriter
    <3> QED
      BY <1>0, <3>1, SemaphoreTypes
  <2> QED
    BY <1>3, <2>1, <2>2, <2>3, RingUntouched
<1>6. ASSUME NEW p \in Proc, UNCHANGED faults, missed' \in BOOLEAN,
             Stop(p) \/ Loop(p) PROVE PipeInv'
  <2>1. UNCHANGED ringVars /\ UNCHANGED semVars /\ closed' \in BOOLEAN
    BY <1>0, <1>6, Zenon DEF Stop, Loop
  <2>2. CallInv'
    <3>1. pc[p] # "idle" /\ (Return(p) \/ GoesOn(p))
      BY <1>6 DEF Stop, Loop, PC, GoesOn
    <3> QED
      BY <1>0, <3>1, CallGoesOn
  <2>3. SemaphoreTypeOK'
    BY <1>0, <2>1 DEF SemaphoreTypeOK, BlockingTypeOK, semVars
  <2> QED
    BY <1>6, <2>1, <2>2, <2>3, RingUntouched
<1>4. CASE UNCHANGED vars
  <2>1. UNCHANGED <<value, swaiters, pstate, ringVars, closed, pc, op, hand, size, faults, missed>>
    BY <1>4 DEF vars, semVars, callVars
  <2>2. SemaphoreTypeOK' /\ CallInv' /\ closed' \in BOOLEAN /\ missed' \in BOOLEAN
    BY <1>0, <2>1 DEF SemaphoreTypeOK, BlockingTypeOK, CallInv, HandFits
  <2> QED
    BY <2>1, <2>2, RingUntouched
<1>5. ASSUME NEW p \in Proc, Enter(p), UNCHANGED faults, missed' \in BOOLEAN PROVE PipeInv'
  <2>1. pc[p] = "idle" /\ UNCHANGED <<semVars, ringVars>> /\ closed' \in BOOLEAN
    BY <1>0, <1>5, Zenon DEF Enter, CallRead, CallWrite, pipe_close, Calls
  <2> QED
    BY <1>1, <1>5, <2>1 DEF Enter
<1>7. Next => missed' \in BOOLEAN
  BY Zenon DEF Next
<1> QED
  BY <1>2, <1>3, <1>4, <1>5, <1>6, <1>7, ReadKeeps, WriteKeeps DEF Next, Work

(***************************************************************************)
(* The invariant holds in every reachable state.                           *)
(***************************************************************************)
THEOREM PipeInvariant == Spec => []PipeInv
<1> QED
  BY PipeInvInit, PipeInvNext, PTL DEF Spec

(***************************************************************************)
(* Type correctness of the pipe: no position leaves the ring, count stays  *)
(* within it and no semaphore's value becomes negative.                    *)
(***************************************************************************)
THEOREM PipeTypeCorrect == Spec => []TypeOK
<1> QED
  BY PipeInvariant, PTL DEF PipeInv

-----------------------------------------------------------------------------
(***************************************************************************)
(* Texts of the same length with the same bytes are equal.                 *)
(***************************************************************************)
LEMMA SameText ==
    ASSUME NEW s \in Seq(Byte), NEW t \in Seq(Byte), Len(s) = Len(t),
           \A i \in 1 .. Len(s) : s[i] = t[i]
    PROVE  s = t
  BY SeqEqual

(***************************************************************************)
(* pipe_read takes the first bytes of the ring out of it.                  *)
(***************************************************************************)
LEMMA ReadTakes ==
    ASSUME PipeInv, PipeInv', NEW k \in 0 .. count,
           read_pos' = At(k), count' = count - k, buffer' = buffer
    PROVE  /\ FirstBytes(k) = SubSeq(FirstBytes(count), 1, k)
           /\ FirstBytes(count)' = SubSeq(FirstBytes(count), k + 1, count)
<1> DEFINE N == PIPE_BUFFER_SIZE
           c == FirstBytes(count)
<1>1. /\ N \in Nat \ {0} /\ count \in 0 .. N /\ read_pos \in 0 .. N - 1
      /\ TypeOK /\ TypeOK' /\ k \in Nat /\ count' \in Nat
  BY PipeAssumption DEF PipeInv, TypeOK, Position
<1>2. c \in Seq(Byte) /\ Len(c) = count /\ \A i \in 1 .. count : c[i] = buffer[At(i - 1)]
  <2>1. count \in Nat
    BY <1>1
  <2> QED
    BY <1>1, <2>1, FirstBytesType
<1>3. /\ FirstBytes(k) \in Seq(Byte) /\ Len(FirstBytes(k)) = k
      /\ \A i \in 1 .. k : FirstBytes(k)[i] = buffer[At(i - 1)]
  BY <1>1, FirstBytesType
<1>4. /\ c' \in Seq(Byte) /\ Len(c') = count'
      /\ \A i \in 1 .. count' : c'[i] = buffer'[At(i - 1)']
  <2>1. \A i \in 1 .. count' : buffer'[At(i - 1)'] \in Byte
    <3> SUFFICES ASSUME NEW i \in 1 .. count' PROVE buffer'[At(i - 1)'] \in Byte
      OBVIOUS
    <3>1. read_pos' + (i - 1) \in Nat
      BY <1>1 DEF TypeOK, Position
    <3>2. At(i - 1)' \in Position
      BY <1>1, <3>1, ModPosition DEF At, Position
    <3> QED
      BY <1>1, <3>2 DEF TypeOK, Position
  <2>2. c' = [i \in 1 .. count' |-> buffer'[At(i - 1)']]
    BY DEF FirstBytes
  <2> HIDE DEF c
  <2> QED
    BY <1>1, <2>1, <2>2
<1> HIDE DEF c
<1>5. /\ SubSeq(c, 1, k) \in Seq(Byte) /\ Len(SubSeq(c, 1, k)) = k
      /\ \A i \in 1 .. k : SubSeq(c, 1, k)[i] = c[i]
  BY <1>1, <1>2, SubText
<1>6. /\ SubSeq(c, k + 1, count) \in Seq(Byte) /\ Len(SubSeq(c, k + 1, count)) = count - k
      /\ \A i \in 1 .. count - k : SubSeq(c, k + 1, count)[i] = c[k + i]
  BY <1>1, <1>2, SubText
<1>7. FirstBytes(k) = SubSeq(c, 1, k)
  <2>1. \A i \in 1 .. k : FirstBytes(k)[i] = SubSeq(c, 1, k)[i]
    BY <1>1, <1>2, <1>3, <1>5
  <2> QED
    BY <1>3, <1>5, <2>1, SameText
<1>8. c' = SubSeq(c, k + 1, count)
  <2>1. ASSUME NEW i \in 1 .. count - k PROVE c'[i] = SubSeq(c, k + 1, count)[i]
    <3>1. (((read_pos + k) % N) + (i - 1)) % N = (read_pos + (k + i - 1)) % N
      <4>1. k + i - 1 \in 0 .. N /\ k \in 0 .. k + i - 1 /\ (k + i - 1) - k = i - 1
        BY <1>1
      <4> QED
        BY <1>1, <4>1, ModShift
    <3>2. c'[i] = buffer[(((read_pos + k) % N) + (i - 1)) % N]
      BY <1>4 DEF At
    <3>3. c[k + i] = buffer[(read_pos + (k + i - 1)) % N]
      <4>1. k + i \in 1 .. count
        BY <1>1
      <4>2. c[k + i] = buffer[At(k + i - 1)]
        BY <1>2, <4>1
      <4> QED
        BY <4>2 DEF At
    <3> QED
      BY <1>6, <3>1, <3>2, <3>3
  <2> QED
    BY <1>4, <1>6, <2>1, SameText
<1> QED
  BY <1>7, <1>8 DEF c

(***************************************************************************)
(* pipe_write puts the first bytes of the writer behind those in the ring. *)
(* The bytes already there keep their places, because no more are written  *)
(* than find space.                                                        *)
(***************************************************************************)
LEMMA WritePuts ==
    ASSUME PipeInv, PipeInv', NEW d \in Seq(Byte), count + Len(d) <= PIPE_BUFFER_SIZE,
           buffer' = Written(d), read_pos' = read_pos, count' = count + Len(d)
    PROVE  FirstBytes(count)' = FirstBytes(count) \o d
<1> DEFINE N == PIPE_BUFFER_SIZE
           c == FirstBytes(count)
<1>1. /\ N \in Nat \ {0} /\ count \in Nat /\ count <= N /\ read_pos \in 0 .. N - 1
      /\ TypeOK /\ TypeOK' /\ count' \in Nat /\ write_pos \in 0 .. N - 1
  BY PipeAssumption DEF PipeInv, TypeOK, Position
<1>n. Len(d) \in Nat
  BY LenProperties
<1>2. c \in Seq(Byte) /\ Len(c) = count /\ \A i \in 1 .. count : c[i] = buffer[At(i - 1)]
  BY <1>1, FirstBytesType
<1>3. \A i \in 1 .. count' : At(i - 1)' = At(i - 1) /\ At(i - 1) \in Position
  <2> SUFFICES ASSUME NEW i \in 1 .. count'
               PROVE  At(i - 1)' = At(i - 1) /\ At(i - 1) \in Position
    OBVIOUS
  <2>1. read_pos + (i - 1) \in Nat
    BY <1>1
  <2> QED
    BY <1>1, <2>1, ModPosition DEF At, Position
<1>4. /\ c' \in Seq(Byte) /\ Len(c') = count'
      /\ \A i \in 1 .. count' : c'[i] = buffer'[At(i - 1)]
  <2>1. \A i \in 1 .. count' : buffer'[At(i - 1)] \in Byte
    BY <1>1, <1>3 DEF TypeOK, Position
  <2>2. c' = [i \in 1 .. count' |-> buffer'[At(i - 1)]]
    BY <1>3 DEF FirstBytes
  <2> HIDE DEF c
  <2> QED
    BY <1>1, <2>1, <2>2
<1> HIDE DEF c
<1>5. /\ c \o d \in Seq(Byte) /\ Len(c \o d) = count + Len(d)
      /\ \A i \in 1 .. count + Len(d) :
            (c \o d)[i] = IF i <= count THEN c[i] ELSE d[i - count]
  BY <1>2, ConcatProperties
<1>6. ASSUME NEW i \in 1 .. count + Len(d) PROVE c'[i] = (c \o d)[i]
  <2> DEFINE a == At(i - 1)
             k == (a + (N - write_pos)) % N
  <2>1. a \in 0 .. N - 1 /\ a \in Position
    BY <1>3 DEF Position
  <2>2. c'[i] = IF k < Len(d) THEN d[k + 1] ELSE buffer[a]
    <3>1. c'[i] = Written(d)[a]
      BY <1>4
    <3> QED
      BY <2>1, <3>1 DEF Written
  <2>3. k = Behind(N, count, i)
    <3>1. /\ N \in Nat \ {0} /\ read_pos \in 0 .. N - 1
          /\ i \in 1 .. N /\ count \in 0 .. N
      BY <1>1, <1>n
    <3> DEFINE x == (read_pos + (i - 1)) % N
               w == (read_pos + count) % N
    <3>2. a = x /\ write_pos = w
      BY DEF PipeInv, RingOK, At
    <3>3. (x + (N - w)) % N = Behind(N, count, i)
      BY <3>1, RingDistance
    <3> HIDE DEF a, x, w
    <3> QED
      BY <3>2, <3>3, Zenon
  <2> HIDE DEF k, a
  <2>4. CASE i <= count
    <3>1. ~(k < Len(d))
      BY <1>1, <1>n, <2>3, <2>4 DEF Behind
    <3>2. c[i] = buffer[a]
      BY <1>2, <2>4 DEF a
    <3> QED
      BY <1>5, <2>2, <2>4, <3>1, <3>2
  <2>5. CASE ~(i <= count)
    <3>1. k < Len(d) /\ k + 1 = i - count
      BY <1>1, <1>n, <2>3, <2>5 DEF Behind
    <3> QED
      BY <1>5, <2>2, <2>5, <3>1
  <2> QED
    BY <2>4, <2>5
<1>7. c' = c \o d
  BY <1>4, <1>5, <1>6, SameText
<1> QED
  BY <1>7 DEF c

(***************************************************************************)
(* The pipe implements the byte channel: pipe_read delivers the bytes in   *)
(* the order in which pipe_write took them, each once, for every size of   *)
(* the ring; a call ends when its bytes were all moved or the pipe is      *)
(* closed.                                                                 *)
(***************************************************************************)
THEOREM PipeImplementsChannel == Spec => ChannelSpec
<1>1. Init => Channel!Init
  <2> SUFFICES ASSUME Init PROVE Channel!Init
    OBVIOUS
  <2>1. FirstBytes(0) \in Seq(Byte) /\ Len(FirstBytes(0)) = 0
    BY PipeInvInit, FirstBytesType DEF PipeInv
  <2>2. FirstBytes(0) = <<>>
    BY <2>1, EmptySeq
  <2> QED
    BY <2>2 DEF Init, Channel!Init
<1>2. PipeInv /\ PipeInv' /\ [Next]_vars => [Channel!Next]_(Channel!channelVars)
  <2> SUFFICES ASSUME PipeInv, PipeInv', [Next]_vars
               PROVE  Channel!Next \/ UNCHANGED Channel!channelVars
    OBVIOUS
  <2>0. /\ TypeOK /\ HandFits
        /\ hand \in [Proc -> Seq(Byte)] /\ hand' \in [Proc -> Seq(Byte)]
        /\ op \in [Proc -> Op]
        /\ size \in [Proc -> Size \cup {0}]
    BY DEF PipeInv, TypeOK
  <2>2. UNCHANGED ringVars => FirstBytes(count)' = FirstBytes(count)
    BY DEF ringVars, FirstBytes, At
  <2>3. ASSUME NEW p \in Proc,
               \/ Pass(p) \/ Sleep(p) \/ Block(p) \/ WakeUp(p) \/ WakeReader(p)
               \/ Signal(p) /\ ~Served(p)
               \/ Loop(p) /\ ~closed
        PROVE  UNCHANGED Channel!channelVars
    <3>1. UNCHANGED ringVars /\ UNCHANGED <<closed, op, hand, size>>
      BY <2>3 DEF Pass, Sleep, Block, WakeUp, Signal, WakeReader, Loop, EndIfServed
    <3> QED
      BY <2>2, <3>1 DEF Channel!channelVars
  <2>4. ASSUME NEW p \in Proc,
               \/ Stop(p) \/ WakeWriter(p)
               \/ Signal(p) /\ Served(p)
               \/ Loop(p) /\ closed
        PROVE  Channel!End(p)
    <3>1. UNCHANGED ringVars /\ closed' = closed /\ Return(p)
      BY <2>4 DEF Stop, Signal, WakeWriter, Loop, EndIfServed
    <3>2. op[p] \in {"read", "write", "close"}
      BY <2>0, <2>4 DEF Stop, Signal, WakeWriter, Loop, HandFits, Op
    <3>3. closed \/ Served(p) \/ op[p] = "close"
      BY <2>0, <2>4 DEF Stop, WakeWriter, HandFits
    <3>4. /\ op' = [op EXCEPT ![p] = "none"]
          /\ size' = [size EXCEPT ![p] = 0]
          /\ hand' = [hand EXCEPT ![p] = <<>>]
      BY <3>1 DEF Return
    <3>5. \/ op[p] = "write" /\ (hand[p] = <<>> \/ closed)
          \/ op[p] = "read" /\ (Len(hand[p]) = size[p] \/ closed)
          \/ op[p] = "close"
      BY <3>2, <3>3 DEF Served
    <3> QED
      BY <2>2, <3>1, <3>4, <3>5 DEF Channel!End
  <2>5. ASSUME NEW p \in Proc, Enter(p)
        PROVE  Channel!BeginRead(p) \/ Channel!BeginWrite(p) \/ Channel!Close(p)
    <3>0. pc[p] = "idle" /\ UNCHANGED ringVars
      BY <2>5 DEF Enter, CallRead, CallWrite, pipe_close, Calls
    <3>1. op[p] = "none" /\ FirstBytes(count)' = FirstBytes(count)
      BY <2>0, <2>2, <3>0 DEF HandFits
    <3>2. ASSUME NEW n \in Size, CallRead(p, n) PROVE Channel!BeginRead(p)
      <4>1. /\ ~closed /\ UNCHANGED <<closed, hand>>
            /\ op' = [op EXCEPT ![p] = "read"]
            /\ size' = [size EXCEPT ![p] = n]
        BY <3>2 DEF CallRead
      <4>2. size'[p] = n /\ n \in Nat \ {0}
        BY <2>0, <4>1, PipeAssumption
      <4> QED
        BY <3>1, <4>1, <4>2 DEF Channel!BeginRead
    <3>3. ASSUME NEW d \in Data, CallWrite(p, d) PROVE Channel!BeginWrite(p)
      <4>1. /\ ~closed /\ UNCHANGED <<closed, size>>
            /\ op' = [op EXCEPT ![p] = "write"]
            /\ hand' = [hand EXCEPT ![p] = d]
        BY <3>3 DEF CallWrite
      <4>2. hand'[p] = d /\ d \in Seq(Byte) \ {<<>>}
        BY <2>0, <4>1, PipeAssumption
      <4> QED
        BY <3>1, <4>1, <4>2 DEF Channel!BeginWrite
    <3>4. CASE pipe_close(p)
      BY <3>1, <3>4 DEF pipe_close, Channel!Close
    <3> QED
      BY <2>5, <3>2, <3>3, <3>4 DEF Enter
  <2>6. ASSUME NEW p \in Proc, pipe_read(p) PROVE \E k \in 0 .. Len(FirstBytes(count)) : Channel!Get(p, k)
    <3>1. PICK k \in 0 .. count :
              /\ Len(hand[p]) + k <= size[p]
              /\ hand' = [hand EXCEPT ![p] = hand[p] \o FirstBytes(k)]
              /\ read_pos' = At(k)
              /\ count' = count - k
      BY <2>0, <2>6, ReadEffect
    <3>2. buffer' = buffer /\ op[p] = "read" /\ ~closed /\ UNCHANGED <<closed, op, size>>
      BY <2>6 DEF pipe_read
    <3>3. /\ FirstBytes(k) = SubSeq(FirstBytes(count), 1, k)
          /\ FirstBytes(count)' = SubSeq(FirstBytes(count), k + 1, count)
      BY <3>1, <3>2, ReadTakes
    <3>4. count \in Nat
      BY <2>0, TypeFacts
    <3>5. Len(FirstBytes(count)) = count
      BY <2>0, <3>4, FirstBytesType
    <3>6. Channel!Get(p, k)
      BY <3>1, <3>2, <3>3, <3>5, Zenon DEF Channel!Get
    <3> QED
      BY <3>1, <3>5, <3>6
  <2>7. ASSUME NEW p \in Proc, pipe_write(p) PROVE \E k \in 0 .. Len(hand[p]) : Channel!Put(p, k)
    <3>1. PICK k \in 0 .. Len(hand[p]) :
              /\ count + k <= PIPE_BUFFER_SIZE
              /\ buffer' = Written(SubSeq(hand[p], 1, k))
              /\ hand' = [hand EXCEPT ![p] = SubSeq(hand[p], k + 1, Len(hand[p]))]
              /\ write_pos' = (write_pos + k) % PIPE_BUFFER_SIZE
              /\ count' = count + k
      BY <2>0, <2>7, WriteEffect
    <3>2. read_pos' = read_pos /\ op[p] = "write" /\ ~closed /\ UNCHANGED <<closed, op, size>>
      BY <2>7 DEF pipe_write
    <3>3. count \in Nat /\ hand[p] \in Seq(Byte) /\ Len(hand[p]) \in Nat
      BY <2>0, TypeFacts
    <3> DEFINE d == SubSeq(hand[p], 1, k)
    <3>4. d \in Seq(Byte) /\ Len(d) = k
      BY <3>3, SubText
    <3>5. FirstBytes(count)' = FirstBytes(count) \o d
      <4> HIDE DEF d
      <4>1. /\ count + Len(d) <= PIPE_BUFFER_SIZE
            /\ buffer' = Written(d) /\ count' = count + Len(d)
        BY <3>1, <3>4 DEF d
      <4> QED
        BY <3>2, <3>4, <4>1, WritePuts
    <3>6. Len(FirstBytes(count)) + k <= PIPE_BUFFER_SIZE
      BY <2>0, <3>1, <3>3, FirstBytesType
    <3>7. Channel!Put(p, k)
      BY <3>1, <3>2, <3>5, <3>6, Zenon DEF Channel!Put
    <3> QED
      BY <3>1, <3>7
  <2>8. CASE UNCHANGED vars
    <3>1. UNCHANGED ringVars /\ UNCHANGED <<closed, op, hand, size>>
      BY <2>8 DEF vars, callVars
    <3> QED
      BY <2>2, <3>1 DEF Channel!channelVars
  <2>9. ASSUME NEW p \in Proc, Work(p) \/ Enter(p)
        PROVE  Channel!Next \/ UNCHANGED Channel!channelVars
    <3>1. CASE Enter(p)
      BY <2>5, <3>1 DEF Channel!Next
    <3>2. CASE pipe_read(p)
      BY <2>6, <3>2, Zenon DEF Channel!Next
    <3>3. CASE pipe_write(p)
      BY <2>7, <3>3, Zenon DEF Channel!Next
    <3>4. CASE \/ Pass(p) \/ Sleep(p) \/ Block(p) \/ WakeUp(p) \/ WakeReader(p)
               \/ Signal(p) /\ ~Served(p)
               \/ Loop(p) /\ ~closed
      BY <2>3, <3>4, Zenon
    <3>5. CASE \/ Stop(p) \/ WakeWriter(p)
               \/ Signal(p) /\ Served(p)
               \/ Loop(p) /\ closed
      BY <2>4, <3>5, Zenon DEF Channel!Next
    <3> QED
      BY <2>9, <3>1, <3>2, <3>3, <3>4, <3>5, Zenon DEF Work
  <2> QED
    BY <2>8, <2>9, Zenon DEF Next
<1> QED
  BY <1>1, <1>2, PipeInvariant, PTL DEF Spec, ChannelSpec, Channel!Spec

-----------------------------------------------------------------------------
(***************************************************************************)
(* A step that touches no list and moves no process into or out of its     *)
(* sleep leaves the lists right.                                           *)
(***************************************************************************)
Sleeping(p) == pc[p] \in {"block", "asleep"}

\* A step that neither lists nor puts to sleep keeps the waiter lists right.
LEMMA ListsUntouched ==
    ASSUME ListedAreWaiting, swaiters' = swaiters,
           \A q \in Proc : Sleeping(q)' <=> Sleeping(q),
           \A q \in Proc : Sleeping(q) => op'[q] = op[q]
    PROVE  ListedAreWaiting'
<1>1. \A s \in Sem, q \in Proc :
         Sleeping(q)' /\ Awaits(q)' = s <=> Sleeping(q) /\ Awaits(q) = s
  BY DEF Awaits
<1> QED
  BY <1>1, Zenon DEF ListedAreWaiting, Sleeping

(***************************************************************************)
(* Joining a list and falling asleep.                                      *)
(***************************************************************************)
LEMMA ListJoined ==
    ASSUME TypeOK, ListedAreWaiting, NEW p \in Proc, ~Sleeping(p), Enqueue(Awaits(p), p),
           NEW l \in {"block", "asleep"}, Goto(p, l), op' = op
    PROVE  ListedAreWaiting'
<1> DEFINE a == Awaits(p)
<1>1. a \in Sem /\ swaiters \in [Sem -> Seq(Proc)] /\ pc \in [Proc -> PC]
  BY PipeAssumption DEF Awaits, TypeOK, SemaphoreTypeOK
<1>2. swaiters' = [swaiters EXCEPT ![a] = Append(swaiters[a], p)]
  BY DEF Enqueue
<1>3. \A q \in Proc : Awaits(q)' = Awaits(q)
  BY DEF Awaits
<1>4. \A q \in Proc : Sleeping(q)' <=> Sleeping(q) \/ q = p
  BY <1>1 DEF Sleeping, Goto
<1>5. swaiters[a] \in Seq(Proc)
  BY <1>1
<1>6. IsInjective(swaiters[a]) /\ ~Contains(swaiters[a], p)
  BY <1>1, Zenon DEF ListedAreWaiting, Sleeping
<1>7. /\ IsInjective(Append(swaiters[a], p))
      /\ \A d : Contains(Append(swaiters[a], p), d) <=> Contains(swaiters[a], d) \/ d = p
  BY <1>5, <1>6, AppendDistinct, Zenon
<1>8. ASSUME NEW s \in Sem
      PROVE  /\ IsInjective(swaiters'[s])
             /\ \A q \in Proc : Contains(swaiters'[s], q) <=> Sleeping(q)' /\ Awaits(q)' = s
  <2>0. /\ IsInjective(swaiters[s])
        /\ \A q \in Proc : Contains(swaiters[s], q) <=> Sleeping(q) /\ Awaits(q) = s
    BY Zenon DEF ListedAreWaiting, Sleeping
  <2>1. CASE s = a
    <3>1. swaiters'[s] = Append(swaiters[a], p)
      BY <1>1, <1>2, <2>1
    <3> QED
      BY <1>3, <1>4, <1>7, <2>0, <2>1, <3>1, Zenon
  <2>2. CASE s # a
    <3>1. swaiters'[s] = swaiters[s]
      BY <1>1, <1>2, <2>2
    <3> QED
      BY <1>3, <1>4, <2>0, <2>2, <3>1, Zenon
  <2> QED
    BY <2>1, <2>2
<1> QED
  BY <1>8, Zenon DEF ListedAreWaiting, Sleeping

(***************************************************************************)
(* Waking up and leaving the list.                                         *)
(***************************************************************************)
LEMMA ListLeft ==
    ASSUME TypeOK, ListedAreWaiting, NEW p \in Proc, Sleeping(p), Dequeue(Awaits(p), p),
           ~Sleeping(p)', \A q \in Proc \ {p} : pc'[q] = pc[q] /\ op'[q] = op[q]
    PROVE  ListedAreWaiting'
<1> DEFINE a == Awaits(p)
<1>1. a \in Sem /\ swaiters \in [Sem -> Seq(Proc)]
  BY PipeAssumption DEF Awaits, TypeOK, SemaphoreTypeOK
<1>2. swaiters' = [swaiters EXCEPT ![a] = RemoveFirst(swaiters[a], p)]
  BY DEF Dequeue
<1>3. \A q \in Proc \ {p} : (Awaits(q)' = Awaits(q)) /\ (Sleeping(q)' <=> Sleeping(q))
  BY DEF Awaits, Sleeping
<1>5. swaiters[a] \in Seq(Proc)
  BY <1>1
<1>6. IsInjective(swaiters[a]) /\ Contains(swaiters[a], p)
  BY <1>1, Zenon DEF ListedAreWaiting, Sleeping
<1>7. /\ IsInjective(RemoveFirst(swaiters[a], p))
      /\ \A d : Contains(RemoveFirst(swaiters[a], p), d) <=> Contains(swaiters[a], d) /\ d # p
  BY <1>5, <1>6, RemoveFirstDistinct, Zenon
<1>8. ASSUME NEW s \in Sem
      PROVE  /\ IsInjective(swaiters'[s])
             /\ \A q \in Proc : Contains(swaiters'[s], q) <=> Sleeping(q)' /\ Awaits(q)' = s
  <2>0. /\ IsInjective(swaiters[s])
        /\ \A q \in Proc : Contains(swaiters[s], q) <=> Sleeping(q) /\ Awaits(q) = s
    BY Zenon DEF ListedAreWaiting, Sleeping
  <2>1. CASE s = a
    <3>1. swaiters'[s] = RemoveFirst(swaiters[a], p)
      BY <1>1, <1>2, <2>1
    <3>2. IsInjective(swaiters'[s])
      BY <1>7, <3>1
    <3>3. ASSUME NEW q \in Proc, q # p
          PROVE  Contains(swaiters'[s], q) <=> Sleeping(q)' /\ Awaits(q)' = s
      BY <1>3, <1>7, <2>0, <2>1, <3>1, <3>3, Zenon
    <3>4. ~Contains(swaiters'[s], p)
      BY <1>7, <3>1, Zenon
    <3> QED
      BY <3>2, <3>3, <3>4, Zenon
  <2>2. CASE s # a
    <3>1. swaiters'[s] = swaiters[s]
      BY <1>1, <1>2, <2>2
    <3>3. ASSUME NEW q \in Proc, q # p
          PROVE  Contains(swaiters'[s], q) <=> Sleeping(q)' /\ Awaits(q)' = s
      BY <1>3, <2>0, <3>1, <3>3, Zenon
    <3>4. ~Contains(swaiters'[s], p)
      BY <2>0, <2>2, <3>1, Zenon
    <3> QED
      BY <2>0, <3>1, <3>3, <3>4, Zenon
  <2> QED
    BY <2>1, <2>2
<1> QED
  BY <1>8, Zenon DEF ListedAreWaiting, Sleeping

(***************************************************************************)
(* The list of a semaphore holds exactly the processes that wait for it.   *)
(***************************************************************************)
THEOREM PipeListedAreWaiting == Spec => []ListedAreWaiting
<1>1. Init => ListedAreWaiting
  BY DEF Init, semaphore_init, ListedAreWaiting, IsInjective, Contains
<1>2. TypeOK /\ ListedAreWaiting /\ [Next]_vars => ListedAreWaiting'
  <2> SUFFICES ASSUME TypeOK, ListedAreWaiting, [Next]_vars PROVE ListedAreWaiting'
    OBVIOUS
  <2>0. pc \in [Proc -> PC] /\ op \in [Proc -> Op]
    BY DEF TypeOK
  <2>1. ASSUME NEW p \in Proc, Enter(p) PROVE ListedAreWaiting'
    <3>1. /\ swaiters' = swaiters /\ ~Sleeping(p)
          /\ \E l \in {"wait", "wake1"} : pc' = [pc EXCEPT ![p] = l]
          /\ \E o \in Op : op' = [op EXCEPT ![p] = o]
      BY <2>1 DEF Enter, CallRead, CallWrite, pipe_close, Calls, Goto, semVars, Op, Sleeping
    <3>2. \A q \in Proc : Sleeping(q)' <=> Sleeping(q)
      BY <2>0, <3>1 DEF Sleeping
    <3>3. \A q \in Proc : Sleeping(q) => op'[q] = op[q]
      BY <2>0, <3>1
    <3> QED
      BY <3>1, <3>2, <3>3, ListsUntouched
  <2>2. ASSUME NEW p \in Proc,
               \/ Pass(p) \/ Stop(p) \/ Signal(p) \/ Loop(p) \/ WakeReader(p) \/ WakeWriter(p)
        PROVE  ListedAreWaiting'
    <3>1. swaiters' = swaiters /\ ~Sleeping(p)
      BY <2>2 DEF Pass, Stop, Signal, Loop, WakeReader, WakeWriter, Decrement, WaitNoMemory,
                  semaphore_signal, semVars, Sleeping
    <3>2. /\ \E l \in {"idle", "wait", "work", "loop", "wake2"} : pc' = [pc EXCEPT ![p] = l]
          /\ op' = op \/ op' = [op EXCEPT ![p] = "none"]
      BY <2>2 DEF Pass, Stop, Signal, EndIfServed, Loop, WakeReader, WakeWriter, Return, Goto
    <3>3. \A q \in Proc : Sleeping(q)' <=> Sleeping(q)
      BY <2>0, <3>1, <3>2 DEF Sleeping
    <3>4. \A q \in Proc : Sleeping(q) => op'[q] = op[q]
      BY <2>0, <3>1, <3>2
    <3> QED
      BY <3>1, <3>3, <3>4, ListsUntouched
  <2>3. ASSUME NEW p \in Proc, pipe_read(p) \/ pipe_write(p) PROVE ListedAreWaiting'
    <3>1. /\ swaiters' = swaiters /\ op' = op /\ ~Sleeping(p)
          /\ pc' = [pc EXCEPT ![p] = "signal"]
      BY <2>3 DEF pipe_read, pipe_write, semVars, Goto, Sleeping
    <3>2. \A q \in Proc : Sleeping(q)' <=> Sleeping(q)
      BY <2>0, <3>1 DEF Sleeping
    <3> QED
      BY <3>1, <3>2, ListsUntouched
  <2>4. ASSUME NEW p \in Proc, Block(p) PROVE ListedAreWaiting'
    <3>1. /\ swaiters' = swaiters /\ op' = op /\ Sleeping(p)
          /\ pc' = [pc EXCEPT ![p] = "asleep"]
      BY <2>4 DEF Block, Goto, Sleeping
    <3>2. \A q \in Proc : Sleeping(q)' <=> Sleeping(q)
      BY <2>0, <3>1 DEF Sleeping
    <3> QED
      BY <3>1, <3>2, ListsUntouched
  <2>5. ASSUME NEW p \in Proc, Sleep(p) PROVE ListedAreWaiting'
    <3>1. /\ ~Sleeping(p) /\ Enqueue(Awaits(p), p) /\ op' = op
          /\ \E l \in {"block", "asleep"} : Goto(p, l)
      BY <2>5 DEF Sleep, Sleeping
    <3> QED
      BY <3>1, ListJoined
  <2>6. ASSUME NEW p \in Proc, WakeUp(p) PROVE ListedAreWaiting'
    <3>1. Sleeping(p) /\ Dequeue(Awaits(p), p)
      BY <2>6 DEF WakeUp, Sleeping
    <3>2. pc' = [pc EXCEPT ![p] = "work"] /\ op' = op
      BY <2>6 DEF WakeUp, Goto
    <3>3. ~Sleeping(p)' /\ \A q \in Proc \ {p} : pc'[q] = pc[q] /\ op'[q] = op[q]
      BY <2>0, <3>2 DEF Sleeping
    <3> QED
      BY <3>1, <3>3, ListLeft
  <2>7. CASE UNCHANGED vars
    <3>1. swaiters' = swaiters /\ pc' = pc /\ op' = op
      BY <2>7 DEF vars, semVars, callVars
    <3> QED
      BY <3>1, ListsUntouched DEF Sleeping
  <2> QED
    BY <2>1, <2>2, <2>3, <2>4, <2>5, <2>6, <2>7 DEF Next, Work
<1> QED
  BY <1>1, <1>2, PipeTypeCorrect, PTL DEF Spec

-----------------------------------------------------------------------------
(***************************************************************************)
(* The permits in terms of natural numbers.                                *)
(***************************************************************************)
PermitsAreCounted ==
    /\ value["read_sem"] \in Nat /\ value["write_sem"] \in Nat
    /\ IsFiniteSet(Holders) /\ Cardinality(Holders) \in Nat

\* The permits of well-typed states are numbers.
LEMMA PermitsFacts == TypeOK => PermitsAreCounted
<1> SUFFICES ASSUME TypeOK PROVE PermitsAreCounted
  OBVIOUS
<1>1. value["read_sem"] \in Nat /\ value["write_sem"] \in Nat
  BY PipeAssumption DEF TypeOK, SemaphoreTypeOK
<1>2. IsFiniteSet(Holders)
  BY PipeAssumption, FS_Subset DEF Holders
<1> QED
  BY <1>1, <1>2, FS_CardinalityType DEF PermitsAreCounted

(***************************************************************************)
(* A permit that one semaphore gains or loses changes the sum by one.      *)
(***************************************************************************)
LEMMA PermitsChange ==
    ASSUME TypeOK, TypeOK', NEW s \in Sem
    PROVE  /\ value' = value => Permits' + Cardinality(Holders) = Permits + Cardinality(Holders)'
           /\ value' = [value EXCEPT ![s] = @ + 1]
              => Permits' + Cardinality(Holders) = (Permits + Cardinality(Holders)') + 1
           /\ value' = [value EXCEPT ![s] = @ - 1]
              => (Permits' + Cardinality(Holders)) + 1 = Permits + Cardinality(Holders)'
<1> DEFINE h == Cardinality(Holders)
           k == Cardinality(Holders)'
           r == value["read_sem"]
           w == value["write_sem"]
           rr == value'["read_sem"]
           ww == value'["write_sem"]
           P == Permits
           PP == Permits'
<1>0. PermitsAreCounted /\ PermitsAreCounted'
  BY PermitsFacts, PTL
<1>1. h \in Nat /\ k \in Nat /\ r \in Nat /\ w \in Nat /\ rr \in Nat /\ ww \in Nat
  BY <1>0 DEF PermitsAreCounted
<1>2. P = (r + w) + h /\ PP = (rr + ww) + k
  BY DEF Permits
<1>3. /\ s \in {"read_sem", "write_sem"} /\ "read_sem" \in Sem /\ "write_sem" \in Sem
      /\ value \in [Sem -> Nat]
  BY PipeAssumption DEF TypeOK, SemaphoreTypeOK
<1>4. /\ value' = value => rr = r /\ ww = w
      /\ value' = [value EXCEPT ![s] = @ + 1]
         => \/ rr = r + 1 /\ ww = w
            \/ rr = r /\ ww = w + 1
      /\ value' = [value EXCEPT ![s] = @ - 1]
         => \/ rr = r - 1 /\ ww = w
            \/ rr = r /\ ww = w - 1
  BY <1>3
<1> HIDE DEF h, k, r, w, rr, ww, P, PP
<1>5. /\ rr = r /\ ww = w => PP + h = P + k
      /\ rr = r + 1 /\ ww = w => PP + h = (P + k) + 1
      /\ rr = r /\ ww = w + 1 => PP + h = (P + k) + 1
      /\ rr = r - 1 /\ ww = w => (PP + h) + 1 = P + k
      /\ rr = r /\ ww = w - 1 => (PP + h) + 1 = P + k
  BY <1>1, <1>2
<1>6. /\ value' = value => PP + h = P + k
      /\ value' = [value EXCEPT ![s] = @ + 1] => PP + h = (P + k) + 1
      /\ value' = [value EXCEPT ![s] = @ - 1] => (PP + h) + 1 = P + k
  BY <1>4, <1>5, Zenon
<1> QED
  BY <1>6, Zenon DEF h, k, P, PP

(***************************************************************************)
(* No permit is lost while the pipe is open.                               *)
(***************************************************************************)
THEOREM PipePermitsKept == Spec => []PermitsKept
<1>1. Init => PermitsKept
  <2> SUFFICES ASSUME Init PROVE Permits >= PIPE_BUFFER_SIZE
    BY DEF PermitsKept
  <2>1. TypeOK
    BY PipeInvInit DEF PipeInv
  <2>2. value["write_sem"] = PIPE_BUFFER_SIZE
    BY PipeAssumption DEF Init, semaphore_init
  <2> QED
    BY <2>1, <2>2, PermitsFacts, PipeAssumption DEF PermitsAreCounted, Permits
<1>2. TypeOK /\ TypeOK' /\ PermitsKept /\ [Next]_vars => PermitsKept'
  <2> SUFFICES ASSUME TypeOK, TypeOK', PermitsKept, [Next]_vars, ~closed'
               PROVE  Permits' >= PIPE_BUFFER_SIZE
    BY DEF PermitsKept
  <2>0. pc \in [Proc -> PC] /\ PIPE_BUFFER_SIZE \in Nat
    BY PipeAssumption DEF TypeOK
  <2>a. ~closed /\ Permits >= PIPE_BUFFER_SIZE
    <3>1. ~closed
      BY DEF Next, Work, Enter, Pass, Sleep, Block, WakeUp, Stop, pipe_read, pipe_write,
             Signal, Loop, WakeReader, WakeWriter, CallRead, CallWrite, pipe_close, vars
    <3> QED
      BY <3>1 DEF PermitsKept
  <2>p. PermitsAreCounted /\ PermitsAreCounted'
    BY PermitsFacts, PTL
  <2>b. Permits \in Nat /\ Permits' \in Nat
    BY <2>p DEF PermitsAreCounted, Permits
  <2>c. /\ IsFiniteSet(Holders) /\ Cardinality(Holders) \in Nat
        /\ Cardinality(Holders)' \in Nat
    BY <2>p DEF PermitsAreCounted
  <2>s. \A p \in Proc : Awaits(p) \in Sem
    BY PipeAssumption DEF Awaits
  <2>1. ASSUME Holders' = Holders, NEW s \in Sem,
               value' = value \/ value' = [value EXCEPT ![s] = @ + 1]
        PROVE  Permits' >= PIPE_BUFFER_SIZE
    <3>1. Cardinality(Holders)' = Cardinality(Holders)
      BY <2>1
    <3>2. Permits' = Permits \/ Permits' = Permits + 1
      BY <2>1, <2>b, <2>c, <3>1, PermitsChange
    <3> QED
      BY <2>0, <2>a, <2>b, <3>2
  <2>2. ASSUME NEW p \in Proc, p \notin Holders, Holders' = Holders \cup {p}, NEW s \in Sem,
               value' = value \/ value' = [value EXCEPT ![s] = @ - 1]
        PROVE  Permits' >= PIPE_BUFFER_SIZE
    <3>1. Cardinality(Holders)' = Cardinality(Holders) + 1
      BY <2>2, <2>c, FS_AddElement
    <3>2. CASE value' = value
      <4>1. Permits' + Cardinality(Holders) = Permits + Cardinality(Holders)'
        BY <2>2, <3>2, PermitsChange, Zenon
      <4> QED
        BY <2>0, <2>a, <2>b, <2>c, <3>1, <4>1
    <3>3. CASE value' = [value EXCEPT ![s] = @ - 1]
      <4>1. (Permits' + Cardinality(Holders)) + 1 = Permits + Cardinality(Holders)'
        BY <2>2, <3>3, PermitsChange, Zenon
      <4> QED
        BY <2>0, <2>a, <2>b, <2>c, <3>1, <4>1
    <3> QED
      BY <2>2, <3>2, <3>3
  <2>3. ASSUME NEW p \in Proc,
               \/ Enter(p) \/ Sleep(p) \/ Block(p) \/ pipe_read(p) \/ pipe_write(p)
               \/ Loop(p) \/ WakeReader(p) \/ WakeWriter(p)
        PROVE  Permits' >= PIPE_BUFFER_SIZE
    <3>1. \E s \in Sem : value' = value \/ value' = [value EXCEPT ![s] = @ + 1]
      BY <2>3, PipeAssumption
         DEF Enter, CallRead, CallWrite, pipe_close, Sleep, Block, pipe_read, pipe_write,
             Loop, WakeReader, WakeWriter, Enqueue, semaphore_signal, semVars
    <3>2. \E l \in PC : /\ pc' = [pc EXCEPT ![p] = l]
                        /\ l \in {"work", "signal"} <=> pc[p] \in {"work", "signal"}
      BY <2>3
         DEF Enter, CallRead, CallWrite, pipe_close, Calls, Sleep, Block, pipe_read, pipe_write,
             Loop, WakeReader, WakeWriter, Goto, Return, PC
    <3>3. Holders' = Holders
      BY <2>0, <3>2 DEF Holders
    <3> QED
      BY <2>1, <3>1, <3>3
  <2>4. ASSUME NEW p \in Proc, Pass(p) \/ WakeUp(p) PROVE Permits' >= PIPE_BUFFER_SIZE
    <3>1. \E s \in Sem : value' = value \/ value' = [value EXCEPT ![s] = @ - 1]
      BY <2>4, <2>s DEF Pass, WakeUp, Decrement, WaitNoMemory, Dequeue, semVars
    <3>2. pc' = [pc EXCEPT ![p] = "work"] /\ pc[p] \in {"wait", "asleep"}
      BY <2>4 DEF Pass, WakeUp, Goto
    <3>3. p \notin Holders /\ Holders' = Holders \cup {p}
      BY <2>0, <3>2 DEF Holders
    <3> QED
      BY <2>2, <3>1, <3>3
  <2>5. ASSUME NEW p \in Proc, Signal(p) PROVE Permits' >= PIPE_BUFFER_SIZE
    <3>1. PICK s \in Sem : value' = [value EXCEPT ![s] = @ + 1]
      BY <2>5, PipeAssumption DEF Signal, semaphore_signal
    <3>2. /\ \E l \in {"idle", "loop"} : pc' = [pc EXCEPT ![p] = l]
          /\ pc[p] = "signal"
      BY <2>5 DEF Signal, EndIfServed, Goto, Return
    <3>3. p \in Holders /\ Holders' = Holders \ {p}
      BY <2>0, <3>2 DEF Holders
    <3>4. Cardinality(Holders)' = Cardinality(Holders) - 1
      BY <2>c, <3>3, FS_RemoveElement
    <3>5. Permits' + Cardinality(Holders) = (Permits + Cardinality(Holders)') + 1
      BY <3>1, PermitsChange, Zenon
    <3> QED
      BY <2>0, <2>a, <2>b, <2>c, <3>4, <3>5
  <2>6. CASE UNCHANGED vars
    <3>1. value' = value /\ pc' = pc
      BY <2>6 DEF vars, semVars, callVars
    <3>2. Holders' = Holders
      BY <3>1 DEF Holders
    <3> QED
      BY <2>1, <3>1, <3>2, PipeAssumption
  <2>7. ASSUME NEW p \in Proc, Stop(p) PROVE FALSE
    BY <2>a, <2>7 DEF Stop
  <2> QED
    BY <2>3, <2>4, <2>5, <2>6, <2>7 DEF Next, Work
<1> QED
  BY <1>1, <1>2, PipeTypeCorrect, PTL DEF Spec

-----------------------------------------------------------------------------
(***************************************************************************)
(* A process waits for semaphore s, blocked or about to block.             *)
(***************************************************************************)
Waits(p, s) == Awaits(p) = s /\ (pc[p] = "block" \/ Sleeps(p))

SomeActive == \E p \in Proc : Active(p)

(***************************************************************************)
(* The inductive form of NoStandstill.  A process queues on a semaphore    *)
(* of value 0, so what keeps the other side from queueing as well must be  *)
(* known before: with a waiter on one side, somebody is active or the      *)
(* other semaphore has a permit.                                           *)
(***************************************************************************)
OtherSideOpen ==
    \A p \in Proc, s, t \in Sem : s # t /\ Waits(p, s) => SomeActive \/ value[t] > 0

SomebodyActive ==
    \A p, q \in Proc, s, t \in Sem : s # t /\ Waits(p, s) /\ Waits(q, t) => SomeActive

Relay == ~closed /\ ~missed => OtherSideOpen /\ SomebodyActive

\* A step after which some process is active keeps it.
LEMMA RelayActive ==
    ASSUME SomeActive' PROVE OtherSideOpen' /\ SomebodyActive'
  BY DEF OtherSideOpen, SomebodyActive

\* So does a step that takes no permit, adds no waiter and leaves the active ones active.
LEMMA RelayUntouched ==
    ASSUME OtherSideOpen, SomebodyActive, TypeOK,
           \A s \in Sem : value[s] > 0 => value'[s] > 0,
           \A q \in Proc, s \in Sem : Waits(q, s)' => Waits(q, s),
           \A q \in Proc : Active(q) => Active(q)'
    PROVE  OtherSideOpen' /\ SomebodyActive'
<1>1. SomeActive => SomeActive'
  BY Zenon DEF SomeActive
<1>2. OtherSideOpen'
  <2> SUFFICES ASSUME NEW p \in Proc, NEW s \in Sem, NEW t \in Sem, s # t, Waits(p, s)'
               PROVE  SomeActive' \/ value'[t] > 0
    BY Zenon DEF OtherSideOpen
  <2>1. Waits(p, s)
    BY Zenon
  <2>2. SomeActive \/ value[t] > 0
    BY <2>1, Zenon DEF OtherSideOpen
  <2> QED
    BY <1>1, <2>2, Zenon
<1>3. SomebodyActive'
  <2> SUFFICES ASSUME NEW p \in Proc, NEW q \in Proc, NEW s \in Sem, NEW t \in Sem,
                      s # t, Waits(p, s)', Waits(q, t)'
               PROVE  SomeActive'
    BY Zenon DEF SomebodyActive
  <2>1. Waits(p, s) /\ Waits(q, t)
    BY Zenon
  <2> QED
    BY <1>1, <2>1, Zenon DEF SomebodyActive
<1> QED
  BY <1>2, <1>3

(***************************************************************************)
(* A signal wakes the first waiter, or leaves a permit where nobody waits. *)
(***************************************************************************)
LEMMA RelaySignal ==
    ASSUME TypeOK, TypeOK', ListedAreWaiting, OtherSideOpen, SomebodyActive, ~SignalTooEarly,
           NEW s \in Sem, semaphore_signal(s), NEW p \in Proc, ~Sleeping(p), ~Sleeping(p)',
           \A q \in Proc \ {p} : pc'[q] = pc[q] /\ op'[q] = op[q]
    PROVE  OtherSideOpen' /\ SomebodyActive'
<1>1. /\ swaiters \in [Sem -> Seq(Proc)] /\ value \in [Sem -> Nat]
      /\ pstate \in [Proc -> {"READY", "BLOCKED"}]
  BY DEF TypeOK, SemaphoreTypeOK, BlockingTypeOK
<1>2. value' = [value EXCEPT ![s] = @ + 1]
  BY DEF semaphore_signal
<1>3. value'[s] > value[s] /\ value'[s] > 0
  BY <1>1, <1>2
<1>4. CASE swaiters[s] # <<>>
  <2> DEFINE h == Head(swaiters[s])
  <2>1. swaiters[s] \in Seq(Proc) /\ Len(swaiters[s]) \in Nat /\ 1 \in 1 .. Len(swaiters[s])
        /\ h = swaiters[s][1] /\ h \in Proc
    BY <1>1, <1>4
  <2>2. Contains(swaiters[s], h)
    BY <2>1 DEF Contains
  <2>3. pc[h] \in {"block", "asleep"}
    BY <2>1, <2>2, Zenon DEF ListedAreWaiting
  <2>4. pc[h] # "block"
    BY <1>3, <1>4, Zenon DEF SignalTooEarly
  <2>5. pstate'[h] = "READY"
    <3>1. h \in {swaiters[s][i] : i \in (1 .. Len(swaiters[s])) \cap {1}}
      BY <2>1
    <3> HIDE DEF h
    <3> QED
      BY <2>1, <3>1 DEF semaphore_signal, process_wake
  <2>6. pc'[h] = "asleep"
    BY <2>1, <2>3, <2>4 DEF Sleeping
  <2>7. SomeActive'
    BY <2>1, <2>5, <2>6 DEF SomeActive, Active
  <2> QED
    BY <2>7, RelayActive
<1>5. CASE swaiters[s] = <<>>
  <2>1. \A q \in Proc : ~Contains(swaiters[s], q)
    BY <1>5 DEF Contains
  <2>2. \A q \in Proc : ~(Sleeping(q) /\ Awaits(q) = s)
    BY <2>1, Zenon DEF ListedAreWaiting, Sleeping
  <2>3. \A q \in Proc : ~Waits(q, s)'
    <3> SUFFICES ASSUME NEW q \in Proc, Waits(q, s)' PROVE FALSE
      OBVIOUS
    <3>1. Sleeping(q)' /\ Awaits(q)' = s
      BY DEF Waits, Sleeping, Sleeps
    <3>2. q # p
      BY <3>1
    <3>3. Sleeping(q) /\ Awaits(q) = s
      BY <3>1, <3>2 DEF Sleeping, Awaits
    <3> QED
      BY <2>2, <3>3
  <2>4. Sem = {"read_sem", "write_sem"}
    BY PipeAssumption
  <2>5. \A t, u \in Sem : t # u => t = s \/ u = s
    BY <2>4
  <2>6. OtherSideOpen'
    BY <1>3, <2>3, <2>5, Zenon DEF OtherSideOpen
  <2>7. SomebodyActive'
    BY <2>3, <2>5, Zenon DEF SomebodyActive
  <2> QED
    BY <2>6, <2>7
<1> QED
  BY <1>4, <1>5

(***************************************************************************)
(* A process queues where no permit is left, so by PermitsKept the other   *)
(* semaphore has one or a process holds it.                                *)
(***************************************************************************)
LEMMA RelaySleep ==
    ASSUME TypeOK, PermitsKept, ~closed, OtherSideOpen, SomebodyActive, NEW p \in Proc, Sleep(p)
    PROVE  OtherSideOpen' /\ SomebodyActive'
<1>1. /\ pc' = [pc EXCEPT ![p] = "block"] /\ pc[p] = "wait"
      /\ value' = value /\ pstate' = pstate /\ op' = op /\ value[Awaits(p)] = 0
  BY DEF Sleep, Goto, Enqueue
<1>2. pc \in [Proc -> PC]
  BY DEF TypeOK
<1>3. \A q \in Proc : Awaits(q)' = Awaits(q) /\ Awaits(q) \in Sem
  BY <1>1, PipeAssumption DEF Awaits
<1>4. \A q \in Proc : Active(q) => Active(q)'
  BY <1>1, <1>2 DEF Active
<1>5. SomeActive => SomeActive'
  BY <1>4, Zenon DEF SomeActive
<1>6. \A q \in Proc, s \in Sem : q # p /\ Waits(q, s)' => Waits(q, s)
  BY <1>1, <1>2, <1>3 DEF Waits, Sleeps
<1>7. \A s \in Sem : Waits(p, s)' => s = Awaits(p)
  BY <1>3 DEF Waits
<1>8. SomeActive \/ \E t \in Sem : value[t] > 0
  <2>1. PermitsAreCounted /\ Permits >= PIPE_BUFFER_SIZE /\ PIPE_BUFFER_SIZE \in Nat \ {0}
    BY PermitsFacts, PipeAssumption DEF PermitsKept
  <2>2. CASE Holders = {}
    <3>1. Cardinality(Holders) = 0
      BY <2>2, FS_EmptySet
    <3>2. value["read_sem"] > 0 \/ value["write_sem"] > 0
      BY <2>1, <3>1 DEF Permits, PermitsAreCounted
    <3> QED
      BY <3>2, PipeAssumption
  <2>3. CASE Holders # {}
    BY <2>3 DEF Holders, SomeActive, Active
  <2> QED
    BY <2>2, <2>3
<1>9. \A t \in Sem : value[t] > 0 => t # Awaits(p)
  BY <1>1
<1>s. \A s, t, u \in Sem : s # t /\ u # s => u = t
  BY PipeAssumption
<1>10. OtherSideOpen'
  <2> SUFFICES ASSUME NEW q \in Proc, NEW s \in Sem, NEW t \in Sem, s # t, Waits(q, s)'
               PROVE  SomeActive' \/ value'[t] > 0
    BY Zenon DEF OtherSideOpen
  <2>1. CASE q = p
    <3>1. s = Awaits(p)
      BY <1>7, <2>1
    <3>2. SomeActive \/ value[t] > 0
      BY <1>8, <1>9, <1>s, <3>1, Zenon
    <3> QED
      BY <1>1, <1>5, <3>2, Zenon
  <2>2. CASE q # p
    <3>1. SomeActive \/ value[t] > 0
      BY <1>6, <2>2, Zenon DEF OtherSideOpen
    <3> QED
      BY <1>1, <1>5, <3>1, Zenon
  <2> QED
    BY <2>1, <2>2
<1>11. ASSUME NEW q \in Proc, q # p, NEW s \in Sem, s # Awaits(p), Waits(q, s)'
       PROVE  SomeActive'
  <2>1. SomeActive \/ value[Awaits(p)] > 0
    BY <1>3, <1>6, <1>11, Zenon DEF OtherSideOpen
  <2>2. ~(value[Awaits(p)] > 0)
    BY <1>1
  <2> QED
    BY <1>5, <2>1, <2>2, Zenon
<1>12. SomebodyActive'
  <2> SUFFICES ASSUME NEW q \in Proc, NEW r \in Proc, NEW s \in Sem, NEW t \in Sem,
                      s # t, Waits(q, s)', Waits(r, t)'
               PROVE  SomeActive'
    BY Zenon DEF SomebodyActive
  <2>1. CASE q # p /\ r # p
    <3>1. SomeActive
      BY <1>6, <2>1, Zenon DEF SomebodyActive
    <3> QED
      BY <1>5, <3>1
  <2>2. CASE q = p /\ r # p
    BY <1>7, <1>11, <2>2, Zenon
  <2>3. CASE q # p /\ r = p
    BY <1>7, <1>11, <2>3, Zenon
  <2>4. CASE q = p /\ r = p
    BY <1>7, <2>4, Zenon
  <2> QED
    BY <2>1, <2>2, <2>3, <2>4
<1> QED
  BY <1>10, <1>12

(***************************************************************************)
(* Every step of an open pipe keeps it, as long as no signal comes too     *)
(* early.                                                                  *)
(***************************************************************************)
LEMMA RelayNext ==
    ASSUME TypeOK, TypeOK', HandFits, ListedAreWaiting, PermitsKept, Relay, [Next]_vars
    PROVE  Relay'
<1> SUFFICES ASSUME ~closed', ~missed' PROVE OtherSideOpen' /\ SomebodyActive'
  BY DEF Relay
<1>0. ~closed
  BY DEF Next, Work, Enter, Pass, Sleep, Block, WakeUp, Stop, pipe_read, pipe_write,
         Signal, Loop, WakeReader, WakeWriter, CallRead, CallWrite, pipe_close, vars
<1>1. ~missed
  BY Zenon DEF Next, vars
<1>2. OtherSideOpen /\ SomebodyActive
  BY <1>0, <1>1 DEF Relay
<1>3. pc \in [Proc -> PC] /\ op \in [Proc -> Op] /\ pstate \in [Proc -> {"READY", "BLOCKED"}]
  BY DEF TypeOK, SemaphoreTypeOK, BlockingTypeOK
<1>4. ASSUME NEW p \in Proc, Pass(p) \/ WakeUp(p) \/ pipe_read(p) \/ pipe_write(p)
      PROVE  OtherSideOpen' /\ SomebodyActive'
  <2>1. \E l \in {"work", "signal"} : pc' = [pc EXCEPT ![p] = l]
    BY <1>4 DEF Pass, WakeUp, pipe_read, pipe_write, Goto
  <2>2. SomeActive'
    BY <1>3, <2>1 DEF SomeActive, Active
  <2> QED
    BY <2>2, RelayActive
<1>5. ASSUME NEW p \in Proc, Enter(p) \/ Loop(p) \/ Block(p)
      PROVE  OtherSideOpen' /\ SomebodyActive'
  <2>1. value' = value
    BY <1>5 DEF Enter, CallRead, CallWrite, pipe_close, Loop, Block, semVars
  <2>2. ASSUME NEW q \in Proc, NEW s \in Sem, Waits(q, s)' PROVE Waits(q, s)
    <3>1. CASE Block(p)
      <4>1. op' = op /\ pc' = [pc EXCEPT ![p] = "asleep"] /\ pc[p] = "block"
            /\ pstate' = [pstate EXCEPT ![p] = "BLOCKED"]
        BY <3>1 DEF Block, Goto, process_block
      <4>2. CASE q = p
        BY <2>2, <4>1, <4>2 DEF Waits, Awaits
      <4>3. CASE q # p
        BY <1>3, <2>2, <4>1, <4>3 DEF Waits, Awaits, Sleeps
      <4> QED
        BY <4>2, <4>3
    <3>2. CASE Enter(p) \/ Loop(p)
      <4>1. /\ \E l \in {"wait", "idle", "wake1"} : pc' = [pc EXCEPT ![p] = l]
            /\ \E o \in Op : op' = [op EXCEPT ![p] = o]
            /\ pstate' = pstate
        <5>1. CASE Enter(p)
          BY <5>1 DEF Enter, CallRead, CallWrite, pipe_close, Goto, Op, semVars
        <5>2. CASE Loop(p)
          <6>1. pc' = [pc EXCEPT ![p] = "wait"] /\ op' = op /\ pstate' = pstate
            BY <1>0, <5>2 DEF Loop, Goto, semVars
          <6>2. op[p] \in Op /\ op = [op EXCEPT ![p] = op[p]]
            BY <1>3
          <6> QED
            BY <6>1, <6>2
        <5> QED
          BY <3>2, <5>1, <5>2
      <4>2. q # p
        BY <1>3, <2>2, <4>1 DEF Waits, Sleeps
      <4>3. pc'[q] = pc[q] /\ op'[q] = op[q] /\ pstate'[q] = pstate[q]
        BY <1>3, <4>1, <4>2
      <4> QED
        BY <2>2, <4>3 DEF Waits, Sleeps, Awaits
    <3> QED
      BY <1>5, <3>1, <3>2
  <2>3. ASSUME NEW q \in Proc, Active(q) PROVE Active(q)'
    <3>1. pc[p] \in {"idle", "loop", "block"}
      BY <1>5 DEF Enter, CallRead, CallWrite, pipe_close, Calls, Loop, Block
    <3>2. q # p
      BY <2>3, <3>1 DEF Active
    <3>3. pc'[q] = pc[q] /\ pstate'[q] = pstate[q]
      BY <1>3, <1>5, <3>2 DEF Enter, CallRead, CallWrite, pipe_close, Loop, Block, Goto, Return,
                              semVars, process_block
    <3> QED
      BY <2>3, <3>3 DEF Active
  <2> QED
    BY <1>2, <2>1, <2>2, <2>3, RelayUntouched
<1>6. ASSUME NEW p \in Proc, Signal(p) \/ WakeReader(p) \/ WakeWriter(p), ~SignalTooEarly
      PROVE  OtherSideOpen' /\ SomebodyActive'
  <2>1. PICK s \in Sem : semaphore_signal(s)
    BY <1>6, PipeAssumption DEF Signal, WakeReader, WakeWriter
  <2>2. /\ \E l \in {"idle", "loop", "wake2"} : pc' = [pc EXCEPT ![p] = l]
        /\ op' = op \/ op' = [op EXCEPT ![p] = "none"]
        /\ pc[p] \in {"signal", "wake1", "wake2"}
    BY <1>6 DEF Signal, EndIfServed, WakeReader, WakeWriter, Goto, Return
  <2>3. ~Sleeping(p) /\ ~Sleeping(p)'
    BY <1>3, <2>2 DEF Sleeping
  <2>4. \A q \in Proc \ {p} : pc'[q] = pc[q] /\ op'[q] = op[q]
    BY <1>3, <2>2
  <2> QED
    BY <1>2, <1>6, <2>1, <2>3, <2>4, RelaySignal
<1>7. CASE UNCHANGED vars
  <2>1. value' = value /\ pc' = pc /\ op' = op /\ pstate' = pstate
    BY <1>7 DEF vars, semVars, callVars
  <2>2. \A q \in Proc, s \in Sem : Waits(q, s)' => Waits(q, s)
    BY <2>1 DEF Waits, Sleeps, Awaits
  <2>3. \A q \in Proc : Active(q) => Active(q)'
    BY <2>1 DEF Active
  <2> QED
    BY <1>2, <2>1, <2>2, <2>3, RelayUntouched
<1>8. ASSUME NEW p \in Proc, Stop(p) PROVE FALSE
  BY <1>0, <1>8 DEF Stop
<1>9. Next => ~SignalTooEarly
  BY Zenon DEF Next
<1>10. ASSUME NEW p \in Proc, Sleep(p) PROVE OtherSideOpen' /\ SomebodyActive'
  BY <1>0, <1>2, <1>10, RelaySleep
<1> QED
  BY <1>4, <1>5, <1>6, <1>7, <1>8, <1>9, <1>10, Zenon DEF Next, Work

(***************************************************************************)
(* A reader and a writer never sleep side by side with nobody left to wake *)
(* one of them, for any number of processes and any size of the ring.      *)
(***************************************************************************)
THEOREM PipeNoStandstill == Spec => []NoStandstill
<1>1. Init => Relay
  <2> SUFFICES ASSUME Init PROVE OtherSideOpen /\ SomebodyActive
    BY DEF Relay
  <2>1. \A p \in Proc, s \in Sem : ~Waits(p, s)
    BY DEF Init, Waits, Sleeps
  <2> QED
    BY <2>1, Zenon DEF OtherSideOpen, SomebodyActive
<1>2. Relay => NoStandstill
  <2> SUFFICES ASSUME OtherSideOpen, SomebodyActive, NEW r \in Proc, NEW w \in Proc,
                      Sleeps(r), op[r] = "read", Sleeps(w), op[w] = "write"
               PROVE  SomeActive
    BY Zenon DEF Relay, NoStandstill, SomeActive
  <2>1. Waits(r, "read_sem") /\ Waits(w, "write_sem")
    BY DEF Waits, Awaits
  <2>2. "read_sem" \in Sem /\ "write_sem" \in Sem /\ "read_sem" # "write_sem"
    BY PipeAssumption
  <2> QED
    BY <2>1, <2>2, Zenon DEF SomebodyActive
<1>3. /\ TypeOK /\ TypeOK' /\ HandFits /\ ListedAreWaiting /\ PermitsKept /\ Relay
      /\ [Next]_vars
      => Relay'
  BY RelayNext
<1>4. PipeInv => TypeOK /\ HandFits
  BY DEF PipeInv
<1> QED
  BY <1>1, <1>2, <1>3, <1>4, PipeInvariant, PipeListedAreWaiting, PipePermitsKept, PTL DEF Spec

=============================================================================
