--------------------------- MODULE SequenceLemmas ---------------------------
(***************************************************************************)
(* What the sequence operators of the models return.                       *)
(***************************************************************************)
EXTENDS Integers, Sequences, SequencesExt, SequenceTheorems,
        WellFoundedInduction, TLAPS

(***************************************************************************)
(* Removing entry i, the shift loops of process_destroy,                   *)
(* scheduler_remove_task and mutex_lock: one entry fewer, the ones behind  *)
(* it one place further up.                                                *)
(***************************************************************************)
LEMMA RemoveAtProperties ==
    ASSUME NEW S, NEW s \in Seq(S), NEW i \in 1 .. Len(s)
    PROVE  /\ RemoveAt(s, i) \in Seq(S)
           /\ Len(RemoveAt(s, i)) = Len(s) - 1
           /\ \A k \in 1 .. Len(s) - 1 :
                 RemoveAt(s, i)[k] = IF k < i THEN s[k] ELSE s[k + 1]
<1> DEFINE front == SubSeq(s, 1, i - 1)
           back  == SubSeq(s, i + 1, Len(s))
<1>1. /\ front \in Seq(S)
      /\ Len(front) = i - 1
      /\ \A k \in 1 .. i - 1 : front[k] = s[k]
  BY LenProperties, SubSeqProperties
<1>2. /\ back \in Seq(S)
      /\ Len(back) = Len(s) - i
      /\ \A k \in 1 .. Len(s) - i : back[k] = s[i + k]
  BY LenProperties, SubSeqProperties
<1>3. /\ front \o back \in Seq(S)
      /\ Len(front \o back) = Len(front) + Len(back)
      /\ \A k \in 1 .. Len(front) + Len(back) :
            (front \o back)[k] = IF k <= Len(front) THEN front[k]
                                 ELSE back[k - Len(front)]
  BY <1>1, <1>2, ConcatProperties
<1>4. RemoveAt(s, i) = front \o back
  BY DEF RemoveAt
<1> HIDE DEF front, back
<1>5. Len(s) \in Nat /\ i \in Nat
  BY LenProperties
<1>6. Len(RemoveAt(s, i)) = Len(s) - 1
  <2>1. Len(RemoveAt(s, i)) = Len(front) + Len(back)
    BY <1>3, <1>4, Zenon
  <2>2. Len(front) = i - 1 /\ Len(back) = Len(s) - i
    BY <1>1, <1>2, Zenon
  <2> QED
    BY <1>5, <2>1, <2>2
<1>7. ASSUME NEW k \in 1 .. Len(s) - 1
      PROVE  RemoveAt(s, i)[k] = IF k < i THEN s[k] ELSE s[k + 1]
  <2>1. CASE k < i
    BY <1>1, <1>2, <1>3, <1>4, <1>5, <2>1
  <2>2. CASE ~(k < i)
    <3>1. RemoveAt(s, i)[k] = back[k - (i - 1)]
      BY <1>1, <1>2, <1>3, <1>4, <1>5, <2>2
    <3>2. /\ k - (i - 1) \in 1 .. Len(s) - i
          /\ i + (k - (i - 1)) = k + 1
      BY <1>5, <2>2
    <3> QED
      BY <1>2, <2>2, <3>1, <3>2
  <2> QED
    BY <2>1, <2>2
<1> QED
  BY <1>3, <1>4, <1>6, <1>7

(***************************************************************************)
(* Inserting e as entry i, the descriptor that kmalloc puts behind the     *)
(* block it splits: the entries from i on are one place further down.      *)
(***************************************************************************)
LEMMA InsertAtProperties ==
    ASSUME NEW S, NEW s \in Seq(S), NEW i \in 1 .. Len(s) + 1, NEW e \in S
    PROVE  /\ InsertAt(s, i, e) \in Seq(S)
           /\ Len(InsertAt(s, i, e)) = Len(s) + 1
           /\ \A k \in 1 .. Len(s) + 1 :
                 InsertAt(s, i, e)[k] = IF k < i THEN s[k] ELSE IF k = i THEN e ELSE s[k - 1]
<1> DEFINE front == SubSeq(s, 1, i - 1)
           one   == <<e>>
           back  == SubSeq(s, i, Len(s))
           both  == front \o one
           all   == both \o back
<1>1. Len(s) \in Nat /\ i \in Nat
  BY LenProperties
<1>2. /\ front \in Seq(S)
      /\ Len(front) = i - 1
      /\ \A k \in 1 .. i - 1 : front[k] = s[k]
  BY <1>1, SubSeqProperties
<1>3. /\ back \in Seq(S)
      /\ Len(back) = Len(s) + 1 - i
      /\ \A k \in 1 .. Len(s) + 1 - i : back[k] = s[i + k - 1]
  BY <1>1, SubSeqProperties
<1>4. one \in Seq(S) /\ Len(one) = 1 /\ one[1] = e
  OBVIOUS
<1>5. InsertAt(s, i, e) = all
  BY DEF InsertAt
<1> HIDE DEF front, one, back
<1>6. /\ both \in Seq(S)
      /\ Len(both) = i
      /\ \A k \in 1 .. i : both[k] = IF k < i THEN s[k] ELSE e
  <2>1. /\ both \in Seq(S)
        /\ Len(both) = Len(front) + Len(one)
        /\ \A k \in 1 .. Len(front) + Len(one) :
              both[k] = IF k <= Len(front) THEN front[k] ELSE one[k - Len(front)]
    BY <1>2, <1>4, ConcatProperties
  <2> HIDE DEF both
  <2> QED
    BY <1>1, <1>2, <1>4, <2>1
<1> HIDE DEF both
<1>7. /\ all \in Seq(S)
      /\ Len(all) = Len(both) + Len(back)
      /\ \A k \in 1 .. Len(both) + Len(back) :
            all[k] = IF k <= Len(both) THEN both[k] ELSE back[k - Len(both)]
  BY <1>3, <1>6, ConcatProperties
<1> HIDE DEF all
<1>8. Len(all) = Len(s) + 1
  BY <1>1, <1>3, <1>6, <1>7
<1>9. ASSUME NEW k \in 1 .. Len(s) + 1
      PROVE  all[k] = IF k < i THEN s[k] ELSE IF k = i THEN e ELSE s[k - 1]
  <2>1. CASE k <= i
    BY <1>1, <1>3, <1>6, <1>7, <2>1
  <2>2. CASE k > i
    <3>1. all[k] = back[k - i]
      BY <1>1, <1>3, <1>6, <1>7, <2>2
    <3>2. k - i \in 1 .. Len(s) + 1 - i /\ i + (k - i) - 1 = k - 1
      BY <1>1, <2>2
    <3>3. back[k - i] = s[i + (k - i) - 1]
      BY <1>3, <3>2
    <3> QED
      BY <1>1, <2>2, <3>1, <3>2, <3>3
  <2> QED
    BY <1>1, <2>1, <2>2
<1> QED
  BY <1>5, <1>7, <1>8, <1>9

(***************************************************************************)
(* Removing entry f from a sequence without repetitions leaves a sequence  *)
(* without repetitions that lacks that entry and no other.                 *)
(***************************************************************************)
LEMMA RemoveAtDistinct ==
    ASSUME NEW S, NEW s \in Seq(S), NEW f \in 1 .. Len(s), IsInjective(s)
    PROVE  /\ IsInjective(RemoveAt(s, f))
           /\ \A e : Contains(RemoveAt(s, f), e) <=> Contains(s, e) /\ e # s[f]
<1> DEFINE t == RemoveAt(s, f)
<1>1. /\ t \in Seq(S)
      /\ Len(t) = Len(s) - 1
      /\ \A k \in 1 .. Len(s) - 1 : t[k] = IF k < f THEN s[k] ELSE s[k + 1]
  BY RemoveAtProperties
<1> HIDE DEF t
<1>2. Len(s) \in Nat /\ f \in Nat
  BY LenProperties
<1> DEFINE from(k) == IF k < f THEN k ELSE k + 1
<1>3. \A k \in 1 .. Len(t) : from(k) \in 1 .. Len(s) /\ from(k) # f /\ t[k] = s[from(k)]
  BY <1>1, <1>2
<1>4. \A i, j \in 1 .. Len(t) : i # j => from(i) # from(j)
  BY <1>1, <1>2
<1>5. \A i \in 1 .. Len(s) : i # f => \E k \in 1 .. Len(t) : from(k) = i
  <2> SUFFICES ASSUME NEW i \in 1 .. Len(s), i # f
               PROVE  \E k \in 1 .. Len(t) : from(k) = i
    OBVIOUS
  <2>1. CASE i < f
    <3>1. i \in 1 .. Len(t) /\ from(i) = i
      BY <1>1, <1>2, <2>1
    <3> QED
      BY <3>1
  <2>2. CASE i > f
    <3>1. i - 1 \in 1 .. Len(t) /\ from(i - 1) = i
      BY <1>1, <1>2, <2>2
    <3> QED
      BY <3>1
  <2> QED
    BY <1>2, <2>1, <2>2
<1> HIDE DEF from
<1>6. IsInjective(t)
  <2>1. DOMAIN s = 1 .. Len(s) /\ DOMAIN t = 1 .. Len(t)
    BY <1>1, LenProperties
  <2>2. ASSUME NEW i \in 1 .. Len(t), NEW j \in 1 .. Len(t), t[i] = t[j]
        PROVE  i = j
    <3>1. s[from(i)] = s[from(j)] /\ from(i) \in DOMAIN s /\ from(j) \in DOMAIN s
      BY <1>3, <2>1, <2>2, Zenon
    <3>2. from(i) = from(j)
      BY <3>1, Zenon DEF IsInjective
    <3> QED
      BY <1>4, <3>2, Zenon
  <2> QED
    BY <2>1, <2>2, Zenon DEF IsInjective
<1>7. ASSUME NEW e, Contains(t, e)
      PROVE  Contains(s, e) /\ e # s[f]
  BY <1>3, <1>7 DEF Contains, IsInjective
<1>8. ASSUME NEW e, Contains(s, e), e # s[f]
      PROVE  Contains(t, e)
  <2>1. PICK i \in 1 .. Len(s) : s[i] = e
    BY <1>8 DEF Contains
  <2>2. PICK k \in 1 .. Len(t) : from(k) = i
    BY <1>5, <1>8, <2>1
  <2> QED
    BY <1>3, <2>1, <2>2 DEF Contains
<1> QED
  BY <1>6, <1>7, <1>8 DEF t

(***************************************************************************)
(* Appending an entry that a sequence lacks: it gains that entry, and      *)
(* still has no repetitions.                                               *)
(***************************************************************************)
LEMMA AppendDistinct ==
    ASSUME NEW S, NEW s \in Seq(S), NEW e \in S
    PROVE  /\ IsInjective(s) /\ ~Contains(s, e) => IsInjective(Append(s, e))
           /\ \A d : Contains(Append(s, e), d) <=> Contains(s, d) \/ d = e
<1> DEFINE t == Append(s, e)
<1>1. /\ t \in Seq(S)
      /\ Len(t) = Len(s) + 1
      /\ \A i \in 1 .. Len(s) : t[i] = s[i]
      /\ t[Len(s) + 1] = e
  BY AppendProperties
<1> HIDE DEF t
<1>2. Len(s) \in Nat
  BY LenProperties
<1>3. \A i \in 1 .. Len(t) : i \in 1 .. Len(s) \/ i = Len(s) + 1
  BY <1>1, <1>2
<1>4. /\ \A i \in 1 .. Len(s) : i \in 1 .. Len(t)
      /\ Len(s) + 1 \in 1 .. Len(t)
  BY <1>1, <1>2
<1>5. IsInjective(s) /\ ~Contains(s, e) => IsInjective(t)
  BY <1>1, <1>2, <1>3 DEF IsInjective, Contains
<1>6. \A d : Contains(t, d) => Contains(s, d) \/ d = e
  BY <1>1, <1>3 DEF Contains
<1>7. \A d : Contains(s, d) \/ d = e => Contains(t, d)
  BY <1>1, <1>4 DEF Contains
<1> QED
  BY <1>5, <1>6, <1>7 DEF t

-----------------------------------------------------------------------------
(***************************************************************************)
(* A nonempty set of numbers has a least element.                          *)
(***************************************************************************)
LEMMA LeastElement ==
    ASSUME NEW T \in SUBSET Nat, T # {}
    PROVE  \E x \in T : \A y \in T : x <= y
<1>1. PICK x \in T : \A y \in T : ~(<<y, x>> \in OpToRel(<, Nat))
  BY NatLessThanWellFounded, WFMin
<1>2. \A y \in T : ~(y < x)
  BY <1>1 DEF OpToRel
<1> QED
  BY <1>2

(***************************************************************************)
(* A nonempty set of numbers up to n has a greatest element.               *)
(***************************************************************************)
LEMMA GreatestElement ==
    ASSUME NEW n \in Nat, NEW T \in SUBSET (0 .. n), T # {}
    PROVE  \E x \in T : \A y \in T : y <= x
<1> DEFINE D == {n - x : x \in T}
<1>1. D \in SUBSET Nat /\ D # {}
  <2>1. \A x \in T : n - x \in Nat
    OBVIOUS
  <2>2. PICK x \in T : TRUE
    OBVIOUS
  <2>3. n - x \in D
    OBVIOUS
  <2> QED
    BY <2>1, <2>3
<1>2. PICK d \in D : \A e \in D : d <= e
  BY <1>1, LeastElement
<1>3. PICK x \in T : d = n - x
  OBVIOUS
<1>4. ASSUME NEW y \in T PROVE y <= x
  <2>1. n - x <= n - y
    BY <1>2, <1>3
  <2> QED
    BY <2>1
<1> QED
  BY <1>4

(***************************************************************************)
(* The first of the numbers k .. n that belong to T.                       *)
(***************************************************************************)
LEMMA FirstInRange ==
    ASSUME NEW k \in Nat, NEW n \in Nat, NEW T \in SUBSET (k .. n), T # {}
    PROVE  \E i \in T : \A j \in k .. i - 1 : j \notin T
<1>1. PICK i \in T : \A j \in T : i <= j
  BY LeastElement
<1> QED
  BY <1>1

(***************************************************************************)
(* The search loops over a list: the slot at which they stop.              *)
(***************************************************************************)
LEMMA FirstIndex ==
    ASSUME NEW S, NEW s \in Seq(S), NEW e, Contains(s, e)
    PROVE  LET f == SelectInSeq(s, LAMBDA v : v = e)
           IN  f \in 1 .. Len(s) /\ s[f] = e
<1> DEFINE I == {i \in 1 .. Len(s) : s[i] = e}
<1>1. I # {} /\ I \in SUBSET Nat
  BY LenProperties DEF Contains
<1>2. \E x \in I : \A y \in I : x <= y
  BY <1>1, LeastElement
<1>3. Min(I) \in I
  BY <1>2 DEF Min
<1>4. SelectInSeq(s, LAMBDA v : v = e) = Min(I)
  BY <1>1 DEF SelectInSeq
<1> QED
  BY <1>3, <1>4

(***************************************************************************)
(* RemoveFirst as the removal of one entry, found by the search.           *)
(***************************************************************************)
LEMMA RemoveFirstIsRemoveAt ==
    ASSUME NEW S, NEW s \in Seq(S), NEW e, Contains(s, e)
    PROVE  \E f \in 1 .. Len(s) : s[f] = e /\ RemoveFirst(s, e) = RemoveAt(s, f)
<1> DEFINE f == SelectInSeq(s, LAMBDA v : v = e)
<1>1. f \in 1 .. Len(s) /\ s[f] = e
  BY FirstIndex, Zenon
<1>2. RemoveFirst(s, e) = RemoveAt(s, f)
  BY Zenon DEF RemoveFirst, Contains
<1> HIDE DEF f
<1> QED
  BY <1>1, <1>2

(***************************************************************************)
(* Removing a process from a list that holds it once.                      *)
(***************************************************************************)
LEMMA RemoveFirstDistinct ==
    ASSUME NEW S, NEW s \in Seq(S), NEW e, Contains(s, e), IsInjective(s)
    PROVE  /\ RemoveFirst(s, e) \in Seq(S)
           /\ Len(RemoveFirst(s, e)) = Len(s) - 1
           /\ IsInjective(RemoveFirst(s, e))
           /\ \A d : Contains(RemoveFirst(s, e), d) <=> Contains(s, d) /\ d # e
<1>1. PICK f \in 1 .. Len(s) : s[f] = e /\ RemoveFirst(s, e) = RemoveAt(s, f)
  BY RemoveFirstIsRemoveAt
<1>2. RemoveAt(s, f) \in Seq(S) /\ Len(RemoveAt(s, f)) = Len(s) - 1
  BY RemoveAtProperties
<1>3. /\ IsInjective(RemoveAt(s, f))
      /\ \A d : Contains(RemoveAt(s, f), d) <=> Contains(s, d) /\ d # s[f]
  BY RemoveAtDistinct, Zenon
<1> QED
  BY <1>1, <1>2, <1>3

-----------------------------------------------------------------------------
(***************************************************************************)
(* Facts about remainders, for positions in the ring.                      *)
(***************************************************************************)
LEMMA ModSmall == ASSUME NEW N \in Nat \ {0}, NEW x \in 0 .. N - 1 PROVE x % N = x
  OBVIOUS

\* A position past the end of the ring wraps to its start.
LEMMA ModOnce == ASSUME NEW N \in Nat \ {0}, NEW x \in N .. 2 * N - 1 PROVE x % N = x - N
  OBVIOUS

\* A position less than two rings away wraps at most once.
LEMMA ModTwice ==
    ASSUME NEW N \in Nat \ {0}, NEW x \in 0 .. 2 * N - 1
    PROVE  x % N = IF x < N THEN x ELSE x - N
<1>1. CASE x < N
  BY <1>1, ModSmall
<1>2. CASE ~(x < N)
  <2>1. x \in N .. 2 * N - 1
    BY <1>2
  <2> QED
    BY <1>2, <2>1, ModOnce
<1> QED
  BY <1>1, <1>2

\* A position modulo the size is in the ring.
LEMMA ModPosition == ASSUME NEW N \in Nat \ {0}, NEW x \in Nat PROVE x % N \in 0 .. N - 1
  OBVIOUS

(***************************************************************************)
(* Stepping on by k and then by the rest is stepping on by the whole.      *)
(***************************************************************************)
LEMMA ModShift ==
    ASSUME NEW N \in Nat \ {0}, NEW r \in 0 .. N - 1, NEW c \in 0 .. N, NEW k \in 0 .. c
    PROVE  (((r + k) % N) + (c - k)) % N = (r + c) % N
<1>1. CASE r + k < N
  <2>1. r + k \in 0 .. N - 1 /\ (r + k) + (c - k) = r + c
    BY <1>1
  <2>2. (r + k) % N = r + k
    BY <2>1, ModSmall
  <2> QED
    BY <2>1, <2>2
<1>2. CASE ~(r + k < N)
  <2>1. r + k \in N .. 2 * N - 1 /\ r + c \in N .. 2 * N - 1 /\ r + c - N \in 0 .. N - 1
    BY <1>2
  <2>2. (r + k) % N = r + k - N
    BY <2>1, ModOnce
  <2>3. (r + c) % N = r + c - N
    BY <2>1, ModOnce
  <2>4. (r + k - N) + (c - k) = r + c - N
    OBVIOUS
  <2>5. (r + c - N) % N = r + c - N
    BY <2>1, ModSmall
  <2> QED
    BY <2>2, <2>3, <2>4, <2>5
<1> QED
  BY <1>1, <1>2

\* The way from t round to h.
LEMMA ModDistance ==
    ASSUME NEW N \in Nat \ {0}, NEW h \in 0 .. N - 1, NEW t \in 0 .. N - 1
    PROVE  (h - t) % N = IF h >= t THEN h - t ELSE h - t + N
<1>1. CASE h >= t
  BY <1>1
<1>2. CASE ~(h >= t)
  <2>1. h - t \in -(N - 1) .. -1
    BY <1>2
  <2>2. \A x \in -(N - 1) .. -1 : x % N = x + N
    OBVIOUS
  <2> QED
    BY <1>2, <2>1, <2>2
<1> QED
  BY <1>1, <1>2

\* Going the distance from t to h leads to h, and a place before that does not.
LEMMA ModReaches ==
    ASSUME NEW N \in Nat \ {0}, NEW h \in 0 .. N - 1, NEW t \in 0 .. N - 1,
           NEW k \in 0 .. N - 1
    PROVE  /\ (h - t) % N \in 0 .. N - 1
           /\ (t + k) % N = h <=> k = (h - t) % N
<1>1. (h - t) % N = IF h >= t THEN h - t ELSE h - t + N
  BY ModDistance
<1>2. (t + k) % N = IF t + k < N THEN t + k ELSE t + k - N
  <2> DEFINE x == t + k
  <2>1. x \in 0 .. 2 * N - 1
    OBVIOUS
  <2> HIDE DEF x
  <2>2. x % N = IF x < N THEN x ELSE x - N
    BY <2>1, ModTwice
  <2> QED
    BY <2>2 DEF x
<1> QED
  BY <1>1, <1>2

\* Different distances reach different positions.
LEMMA ModDistinct ==
    ASSUME NEW N \in Nat \ {0}, NEW t \in 0 .. N - 1, NEW j \in 0 .. N - 1,
           NEW k \in 0 .. N - 1, j # k
    PROVE  (t + j) % N # (t + k) % N
<1> DEFINE p == t + j
           q == t + k
<1>1. p \in 0 .. 2 * N - 1 /\ q \in 0 .. 2 * N - 1
  OBVIOUS
<1> HIDE DEF p, q
<1>2. p % N = IF p < N THEN p ELSE p - N
  BY <1>1, ModTwice
<1>3. q % N = IF q < N THEN q ELSE q - N
  BY <1>1, ModTwice
<1> DEFINE u == p % N
           v == q % N
<1> HIDE DEF u, v
<1>4. u # v
  BY <1>2, <1>3 DEF p, q, u, v
<1> QED
  BY <1>4 DEF p, q, u, v

\* The slot behind h is h + 1, or the first.
LEMMA ModNext ==
    ASSUME NEW N \in Nat \ {0}, NEW h \in 0 .. N - 1
    PROVE  (h + 1) % N = (IF h = N - 1 THEN 0 ELSE h + 1) /\ (h + 1) % N \in 0 .. N - 1
<1> DEFINE k == h + 1
<1>1. k \in 0 .. 2 * N - 1
  OBVIOUS
<1> HIDE DEF k
<1>2. k % N = IF k < N THEN k ELSE k - N
  BY <1>1, ModTwice
<1> QED
  BY <1>2 DEF k

\* The slot before t, and the slot behind that.
LEMMA ModBefore ==
    ASSUME NEW N \in Nat \ {0}, NEW t \in 0 .. N - 1
    PROVE  /\ (t + N - 1) % N \in 0 .. N - 1
           /\ (((t + N - 1) % N) + 1) % N = t
           /\ (((t + 1) % N) + N - 1) % N = t
<1>1. \A k \in 0 .. N - 1 : (k + N - 1) % N = IF k = 0 THEN N - 1 ELSE k - 1
  <2> SUFFICES ASSUME NEW k \in 0 .. N - 1
               PROVE  (k + N - 1) % N = IF k = 0 THEN N - 1 ELSE k - 1
    OBVIOUS
  <2> DEFINE j == k + N - 1
  <2>1. j \in 0 .. 2 * N - 1
    OBVIOUS
  <2> HIDE DEF j
  <2>2. j % N = IF j < N THEN j ELSE j - N
    BY <2>1, ModTwice
  <2> QED
    BY <2>2 DEF j
<1>2. (t + N - 1) % N \in 0 .. N - 1
  BY <1>1
<1>3. (((t + N - 1) % N) + 1) % N = t
  <2> DEFINE k == (t + N - 1) % N
  <2>1. k = IF t = 0 THEN N - 1 ELSE t - 1
    BY <1>1
  <2> HIDE DEF k
  <2>2. k \in 0 .. N - 1
    BY <2>1
  <2>3. (k + 1) % N = IF k = N - 1 THEN 0 ELSE k + 1
    BY <2>2, ModNext
  <2>4. (k + 1) % N = t
    BY <2>1, <2>3
  <2> QED
    BY <2>4 DEF k
<1>4. (((t + 1) % N) + N - 1) % N = t
  <2> DEFINE k == (t + 1) % N
  <2>1. k = (IF t = N - 1 THEN 0 ELSE t + 1) /\ k \in 0 .. N - 1
    BY ModNext
  <2> HIDE DEF k
  <2>2. (k + N - 1) % N = IF k = 0 THEN N - 1 ELSE k - 1
    BY <1>1, <2>1
  <2>3. (k + N - 1) % N = t
    BY <2>1, <2>2
  <2> QED
    BY <2>3 DEF k
<1> QED
  BY <1>2, <1>3, <1>4

\* The head of a ring with a free slot moves away from the tail.
LEMMA ModGrows ==
    ASSUME NEW N \in Nat \ {0}, NEW h \in 0 .. N - 1, NEW t \in 0 .. N - 1, (h + 1) % N # t
    PROVE  (((h + 1) % N) - t) % N = ((h - t) % N) + 1
<1> DEFINE u == (h + 1) % N
<1>1. u = (IF h = N - 1 THEN 0 ELSE h + 1) /\ u \in 0 .. N - 1
  BY ModNext
<1> HIDE DEF u
<1>2. (u - t) % N = IF u >= t THEN u - t ELSE u - t + N
  BY <1>1, ModDistance
<1>3. (h - t) % N = IF h >= t THEN h - t ELSE h - t + N
  BY ModDistance
<1>4. u # t
  BY DEF u
<1> QED
  BY <1>1, <1>2, <1>3, <1>4 DEF u

\* The tail of a ring that is not empty moves towards the head.
LEMMA ModShrinks ==
    ASSUME NEW N \in Nat \ {0}, NEW h \in 0 .. N - 1, NEW t \in 0 .. N - 1, h # t
    PROVE  (h - ((t + 1) % N)) % N = ((h - t) % N) - 1 /\ (h - t) % N \in 1 .. N - 1
<1> DEFINE u == (t + 1) % N
<1>1. u = (IF t = N - 1 THEN 0 ELSE t + 1) /\ u \in 0 .. N - 1
  BY ModNext
<1> HIDE DEF u
<1>2. (h - u) % N = IF h >= u THEN h - u ELSE h - u + N
  BY <1>1, ModDistance
<1>3. (h - t) % N = IF h >= t THEN h - t ELSE h - t + N
  BY ModDistance
<1> QED
  BY <1>1, <1>2, <1>3 DEF u

-----------------------------------------------------------------------------
(***************************************************************************)
(* A ring of N slots holds n entries from slot f on: the keyboard buffer,  *)
(* the event queue and the kernel log.                                     *)
(***************************************************************************)
RingSeq(r, N, f, n) == [i \in 1 .. n |-> r[(f + i - 1) % N]]

(***************************************************************************)
(* Storing an entry behind the c entries from slot t on; taking the first. *)
(***************************************************************************)
RingPushes(S, N, r, e, t, c) ==
    RingSeq([r EXCEPT ![(t + c) % N] = e], N, t, c + 1) = Append(RingSeq(r, N, t, c), e)

RingPops(S, N, r, t, c) ==
    /\ RingSeq(r, N, t, c) # <<>>
    /\ Head(RingSeq(r, N, t, c)) = r[t]
    /\ Tail(RingSeq(r, N, t, c)) = RingSeq(r, N, (t + 1) % N, c - 1)

RingHolds(S, N, r, t, c) == RingSeq(r, N, t, c) \in Seq(S) /\ Len(RingSeq(r, N, t, c)) = c

\* The slots are those of the ring.
LEMMA RingSlots ==
    ASSUME NEW N \in Nat \ {0}, NEW f \in Nat, NEW n \in Nat
    PROVE  \A i \in 1 .. n : (f + i - 1) % N \in 0 .. N - 1
<1> SUFFICES ASSUME NEW i \in 1 .. n PROVE (f + i - 1) % N \in 0 .. N - 1
  OBVIOUS
<1> DEFINE k == f + i - 1
<1>1. k \in Nat
  OBVIOUS
<1> HIDE DEF k
<1>2. k % N \in 0 .. N - 1
  BY <1>1, ModPosition
<1> QED
  BY <1>2 DEF k

\* It is a sequence of n entries.
LEMMA RingSeqType ==
    ASSUME NEW S, NEW N \in Nat \ {0}, NEW r \in [0 .. N - 1 -> S], NEW f \in Nat,
           NEW n \in Nat
    PROVE  /\ RingSeq(r, N, f, n) \in Seq(S)
           /\ Len(RingSeq(r, N, f, n)) = n
           /\ \A i \in 1 .. n : RingSeq(r, N, f, n)[i] = r[(f + i - 1) % N]
<1>1. \A i \in 1 .. n : (f + i - 1) % N \in 0 .. N - 1
  BY RingSlots
<1>2. RingSeq(r, N, f, n) \in [1 .. n -> S]
  BY <1>1 DEF RingSeq
<1> HIDE DEF RingSeq
<1>3. RingSeq(r, N, f, n) \in Seq(S) /\ Len(RingSeq(r, N, f, n)) = n
  BY <1>2
<1> QED
  BY <1>3 DEF RingSeq

\* The c entries from slot t on.
LEMMA RingLength ==
    ASSUME NEW S, NEW N \in Nat \ {0}, NEW r \in [0 .. N - 1 -> S], NEW t \in 0 .. N - 1,
           NEW c \in 0 .. N
    PROVE  RingHolds(S, N, r, t, c)
<1>1. t \in Nat /\ c \in Nat
  OBVIOUS
<1>2. \A i \in 1 .. c : (t + i - 1) % N \in 0 .. N - 1
  BY <1>1, RingSlots
<1>3. RingSeq(r, N, t, c) \in [1 .. c -> S]
  BY <1>2 DEF RingSeq
<1> QED
  BY <1>1, <1>3 DEF RingHolds

\* Only the slot that f stands for matters.
LEMMA RingSeqFrom ==
    ASSUME NEW N \in Nat \ {0}, NEW r, NEW f \in 0 .. 2 * N - 1, NEW n \in 0 .. N
    PROVE  RingSeq(r, N, f, n) = RingSeq(r, N, f % N, n)
<1>1. f % N = IF f < N THEN f ELSE f - N
  BY ModTwice
<1>2. ASSUME NEW i \in 1 .. n PROVE ((f % N) + i - 1) % N = (f + i - 1) % N
  <2>1. CASE f < N
    BY <1>1, <2>1
  <2>2. CASE ~(f < N)
    <3> DEFINE k == f - N + (i - 1)
    <3>1. k \in 0 .. 2 * N - 1 /\ (f % N) + i - 1 = k /\ f + i - 1 = k + N
      BY <1>1, <2>2
    <3> HIDE DEF k
    <3>2. (k + N) % N = k % N
      <4>1. CASE k < N
        <5>1. k + N \in N .. 2 * N - 1 /\ k \in 0 .. N - 1 /\ (k + N) - N = k
          BY <3>1, <4>1
        <5> QED
          BY <5>1, ModSmall, ModOnce
      <4>2. CASE ~(k < N)
        <5>1. k \in N .. 2 * N - 1 /\ k + N \in 2 * N .. 3 * N - 1
          BY <3>1, <4>2
        <5>2. (k + N) % N = (k + N) - 2 * N
          BY <5>1
        <5>3. k % N = k - N
          BY <5>1, ModOnce
        <5> QED
          BY <5>1, <5>2, <5>3
      <4> QED
        BY <4>1, <4>2
    <3> QED
      BY <3>1, <3>2
  <2> QED
    BY <2>1, <2>2
<1> QED
  BY <1>2 DEF RingSeq

\* An entry is stored behind the last one.
LEMMA RingPush ==
    ASSUME NEW S, NEW N \in Nat \ {0}, NEW r \in [0 .. N - 1 -> S], NEW e \in S,
           NEW t \in 0 .. N - 1, NEW c \in 0 .. N - 1
    PROVE  RingPushes(S, N, r, e, t, c)
<1> DEFINE h == (t + c) % N
           q == [r EXCEPT ![h] = e]
           new == RingSeq(q, N, t, c + 1)
           old == RingSeq(r, N, t, c)
<1>1. h \in 0 .. N - 1
  BY ModPosition
<1>3. \A i \in 1 .. c : (t + i - 1) % N # h
  <2> SUFFICES ASSUME NEW i \in 1 .. c PROVE (t + i - 1) % N # h
    OBVIOUS
  <2>1. i - 1 \in 0 .. N - 1 /\ i - 1 # c /\ t + (i - 1) = t + i - 1
    OBVIOUS
  <2>2. (t + (i - 1)) % N # (t + c) % N
    BY <2>1, ModDistinct
  <2> QED
    BY <2>1, <2>2
<1>4. q \in [0 .. N - 1 -> S] /\ q[h] = e /\ \A k \in 0 .. N - 1 : k # h => q[k] = r[k]
  BY <1>1
<1> HIDE DEF q
<1>5. /\ new \in Seq(S) /\ Len(new) = c + 1
      /\ \A i \in 1 .. c + 1 : new[i] = q[(t + i - 1) % N]
  <2>1. t \in Nat /\ c + 1 \in Nat
    OBVIOUS
  <2>2. \A i \in 1 .. c + 1 : (t + i - 1) % N \in 0 .. N - 1
    BY <2>1, RingSlots
  <2>3. new \in [1 .. c + 1 -> S]
    BY <1>4, <2>2 DEF RingSeq
  <2>4. new \in Seq(S) /\ Len(new) = c + 1
    BY <2>1, <2>3
  <2>5. \A i \in 1 .. c + 1 : new[i] = q[(t + i - 1) % N]
    BY <2>1 DEF RingSeq
  <2> QED
    BY <2>4, <2>5
<1>6. /\ old \in Seq(S) /\ Len(old) = c
      /\ \A i \in 1 .. c : old[i] = r[(t + i - 1) % N]
  <2>1. t \in Nat /\ c \in Nat
    OBVIOUS
  <2>2. \A i \in 1 .. c : (t + i - 1) % N \in 0 .. N - 1
    BY <2>1, RingSlots
  <2>3. old \in [1 .. c -> S]
    BY <2>2 DEF RingSeq
  <2> QED
    BY <2>1, <2>3 DEF RingSeq
<1>7. \A i \in 1 .. c : new[i] = old[i]
  <2> SUFFICES ASSUME NEW i \in 1 .. c PROVE new[i] = old[i]
    OBVIOUS
  <2>1. (t + i - 1) % N \in 0 .. N - 1
    BY ModPosition
  <2> QED
    BY <1>3, <1>4, <1>5, <1>6, <2>1
<1>8. new[c + 1] = e
  <2>1. (t + (c + 1)) - 1 = t + c
    OBVIOUS
  <2> QED
    BY <1>4, <1>5, <2>1
<1> HIDE DEF new, old, h
<1>9. /\ Append(old, e) \in Seq(S) /\ Len(Append(old, e)) = c + 1
      /\ Append(old, e)[c + 1] = e /\ \A i \in 1 .. c : Append(old, e)[i] = old[i]
  BY <1>6, AppendProperties
<1>10. new = Append(old, e)
  <2>1. \A i \in 1 .. c + 1 : new[i] = Append(old, e)[i]
    BY <1>7, <1>8, <1>9
  <2> QED
    BY <1>5, <1>9, <2>1, SeqEqual
<1> QED
  BY <1>10 DEF new, old, q, h, RingPushes

\* The first entry is taken.
LEMMA RingPop ==
    ASSUME NEW S, NEW N \in Nat \ {0}, NEW r \in [0 .. N - 1 -> S],
           NEW t \in 0 .. N - 1, NEW c \in 1 .. N
    PROVE  RingPops(S, N, r, t, c)
<1> DEFINE old == RingSeq(r, N, t, c)
           u == (t + 1) % N
           new == RingSeq(r, N, u, c - 1)
<1>1. /\ old \in Seq(S) /\ Len(old) = c
      /\ \A i \in 1 .. c : old[i] = r[(t + i - 1) % N]
  <2>1. t \in Nat /\ c \in Nat
    OBVIOUS
  <2>2. \A i \in 1 .. c : (t + i - 1) % N \in 0 .. N - 1
    BY <2>1, RingSlots
  <2>3. old \in [1 .. c -> S]
    BY <2>2 DEF RingSeq
  <2> QED
    BY <2>1, <2>3 DEF RingSeq
<1>2. u \in 0 .. N - 1
  BY ModPosition
<1>3. /\ new \in Seq(S) /\ Len(new) = c - 1
      /\ \A i \in 1 .. c - 1 : new[i] = r[(u + i - 1) % N]
  <2>1. u \in Nat /\ c - 1 \in Nat
    BY <1>2
  <2> HIDE DEF u
  <2>2. \A i \in 1 .. c - 1 : (u + i - 1) % N \in 0 .. N - 1
    BY <2>1, RingSlots
  <2>3. new \in [1 .. c - 1 -> S]
    BY <2>2 DEF RingSeq
  <2> QED
    BY <2>1, <2>3 DEF RingSeq
<1>4. \A i \in 1 .. c - 1 : (u + i - 1) % N = (t + (i + 1) - 1) % N
  <2> SUFFICES ASSUME NEW i \in 1 .. c - 1 PROVE (u + i - 1) % N = (t + (i + 1) - 1) % N
    OBVIOUS
  <2>1. i \in 0 .. N /\ 1 \in 0 .. i
    OBVIOUS
  <2>2. (u + (i - 1)) % N = (t + i) % N
    BY <2>1, ModShift
  <2>3. u + (i - 1) = u + i - 1 /\ t + i = t + (i + 1) - 1
    BY <1>2
  <2> QED
    BY <2>2, <2>3
<1> HIDE DEF old, u, new, RingPops
<1>5. /\ old # <<>> /\ Head(old) = old[1]
      /\ Tail(old) \in Seq(S) /\ Len(Tail(old)) = c - 1
      /\ \A i \in 1 .. c - 1 : Tail(old)[i] = old[i + 1]
  BY <1>1, HeadTailProperties
<1>6. \A i \in 1 .. c - 1 : Tail(old)[i] = new[i]
  <2> SUFFICES ASSUME NEW i \in 1 .. c - 1 PROVE Tail(old)[i] = new[i]
    OBVIOUS
  <2>1. i + 1 \in 1 .. c
    OBVIOUS
  <2>2. Tail(old)[i] = r[(t + (i + 1) - 1) % N]
    BY <1>1, <1>5, <2>1
  <2> QED
    BY <1>3, <1>4, <2>2
<1>7. Tail(old) = new
  BY <1>3, <1>5, <1>6, SeqEqual
<1>8. old[1] = r[t]
  <2>1. (t + 1) - 1 = t /\ t % N = t
    BY ModSmall
  <2> QED
    BY <1>1, <2>1
<1> QED
  BY <1>5, <1>7, <1>8 DEF old, u, new, RingPops

(***************************************************************************)
(* The sequences of one and of two elements.                               *)
(***************************************************************************)
LEMMA ShortSeqs ==
    ASSUME NEW S, NEW a \in S, NEW b \in S
    PROVE  <<a>> \in Seq(S) /\ <<a, b>> \in Seq(S)
  OBVIOUS

(***************************************************************************)
(* Of one entry more than n, the last n are all but the first.             *)
(***************************************************************************)
LEMMA LastAreTail ==
    ASSUME NEW S, NEW s \in Seq(S), NEW e \in S, s # <<>>
    PROVE  SubSeq(Append(s, e), 2, Len(s) + 1) = Append(Tail(s), e)
<1> DEFINE all == Append(s, e)
           last == SubSeq(all, 2, Len(s) + 1)
           tail == Append(Tail(s), e)
<1>1. /\ all \in Seq(S) /\ Len(all) = Len(s) + 1 /\ Len(s) \in Nat \ {0}
      /\ \A k \in 1 .. Len(s) : all[k] = s[k]
      /\ all[Len(s) + 1] = e
  BY EmptySeq, AppendProperties
<1>2. /\ Tail(s) \in Seq(S) /\ Len(Tail(s)) = Len(s) - 1
      /\ \A k \in 1 .. Len(s) - 1 : Tail(s)[k] = s[k + 1]
  BY HeadTailProperties
<1>3. /\ tail \in Seq(S) /\ Len(tail) = Len(s)
      /\ \A k \in 1 .. Len(s) - 1 : tail[k] = s[k + 1]
      /\ tail[Len(s)] = e
  <2>1. /\ tail \in Seq(S) /\ Len(tail) = Len(Tail(s)) + 1
        /\ \A k \in 1 .. Len(Tail(s)) : tail[k] = Tail(s)[k]
        /\ tail[Len(Tail(s)) + 1] = e
    BY <1>2, AppendProperties
  <2> QED
    BY <1>1, <1>2, <2>1
<1>4. /\ last \in Seq(S) /\ Len(last) = Len(s)
      /\ \A k \in 1 .. Len(s) : last[k] = all[k + 1]
  <2> HIDE DEF all
  <2> DEFINE n == Len(s) + 1
  <2>1. n \in Int /\ \A k \in 2 .. n : all[k] \in S
    BY <1>1, ElementOfSeq
  <2> HIDE DEF n
  <2>2. /\ SubSeq(all, 2, n) \in Seq(S)
        /\ Len(SubSeq(all, 2, n)) = IF 2 <= n THEN n - 2 + 1 ELSE 0
        /\ \A k \in 1 .. n - 2 + 1 : SubSeq(all, 2, n)[k] = all[2 + k - 1]
    BY <2>1, SubSeqProperties
  <2> QED
    BY <1>1, <2>2 DEF n
<1> HIDE DEF all, last, tail
<1>5. ASSUME NEW k \in 1 .. Len(s) PROVE last[k] = tail[k]
  <2>1. CASE k < Len(s)
    <3>1. k \in 1 .. Len(s) - 1 /\ k + 1 \in 1 .. Len(s)
      BY <1>1, <2>1
    <3>2. last[k] = all[k + 1] /\ all[k + 1] = s[k + 1]
      BY <1>1, <1>4, <3>1
    <3> QED
      BY <1>3, <3>1, <3>2
  <2>2. CASE k = Len(s)
    BY <1>1, <1>3, <1>4, <2>2
  <2> QED
    BY <1>1, <2>1, <2>2
<1>6. last = tail
  BY <1>3, <1>4, <1>5, SeqEqual
<1> QED
  BY <1>6 DEF all, last, tail

(***************************************************************************)
(* Numbers less than N apart have different remainders.                    *)
(***************************************************************************)
LEMMA ModDiffers ==
    ASSUME NEW N \in Nat \ {0}, NEW a \in Nat, NEW b \in Nat, a < b, b - a < N
    PROVE  a % N # b % N
<1> DEFINE p == a \div N
           q == b \div N
<1>1. p \in Int /\ q \in Int /\ a = N * p + (a % N) /\ b = N * q + (b % N)
  OBVIOUS
<1> HIDE DEF p, q
<1> SUFFICES ASSUME a % N = b % N PROVE FALSE
  OBVIOUS
<1>2. b - a = N * q - N * p
  BY <1>1
<1>3. N * q - N * p = N * (q - p)
  BY <1>1
<1> DEFINE d == q - p
<1>4. d \in Int /\ N * d = b - a
  BY <1>1, <1>2, <1>3
<1> HIDE DEF d
<1>5. CASE d <= 0
  <2>1. N * d <= 0
    BY <1>4, <1>5
  <2> QED
    BY <1>4, <2>1
<1>6. CASE d >= 1
  <2>1. N * d >= N
    BY <1>4, <1>6
  <2> QED
    BY <1>4, <2>1
<1> QED
  BY <1>4, <1>5, <1>6

\* A count modulo N goes on where its remainder does.
LEMMA ModCounts ==
    ASSUME NEW N \in Nat \ {0}, NEW a \in Nat
    PROVE  ((a % N) + 1) % N = (a + 1) % N
<1> DEFINE r == a % N
           z == (a + 1) % N
           p == a \div N
           q == (a + 1) \div N
           d == q - p
<1>1. /\ p \in Int /\ q \in Int /\ a = N * p + r /\ a + 1 = N * q + z
      /\ r \in 0 .. N - 1 /\ z \in 0 .. N - 1
  OBVIOUS
<1>2. (r + 1) % N = (IF r = N - 1 THEN 0 ELSE r + 1)
  BY <1>1, ModNext
<1> HIDE DEF p, q, r, z
<1>3. N * q - N * p = N * d /\ d \in Int
  BY <1>1
<1> HIDE DEF d
<1>4. N * d = r + 1 - z
  BY <1>1, <1>3
<1>5. d >= 0
  <2>1. CASE d <= -1
    <3>1. N * d <= -N
      BY <1>3, <2>1
    <3> QED
      BY <1>1, <1>4, <3>1
  <2> QED
    BY <1>3, <2>1
<1>6. CASE d = 0
  BY <1>1, <1>2, <1>4, <1>6 DEF r, z
<1>7. CASE d >= 1
  <2>1. N * d >= N
    BY <1>3, <1>7
  <2>2. r = N - 1 /\ z = 0
    BY <1>1, <1>4, <2>1
  <2> QED
    BY <1>2, <2>2 DEF r, z
<1> QED
  BY <1>3, <1>5, <1>6, <1>7

\* The elements of a list.
LEMMA RangeContains ==
    ASSUME NEW S, NEW q \in Seq(S), NEW e
    PROVE  e \in Range(q) <=> Contains(q, e)
<1>1. DOMAIN q = 1 .. Len(q)
  BY LenProperties
<1> QED
  BY <1>1 DEF Range, Contains

\* A list with a new head.
LEMMA PrependDistinct ==
    ASSUME NEW S, NEW q \in Seq(S), NEW e \in S, IsInjective(q), e \notin Range(q)
    PROVE  IsInjective(<<e>> \o q) /\ Range(<<e>> \o q) = Range(q) \cup {e}
<1> DEFINE u == <<e>>
           v == u \o q
<1>1. u \in Seq(S) /\ Len(u) = 1 /\ u[1] = e
  OBVIOUS
<1> HIDE DEF u
<1>2. /\ v \in Seq(S) /\ Len(v) = Len(u) + Len(q) /\ Len(q) \in Nat
      /\ \A i \in 1 .. Len(u) + Len(q) : v[i] = IF i <= Len(u) THEN u[i] ELSE q[i - Len(u)]
      /\ DOMAIN v = 1 .. Len(v) /\ DOMAIN q = 1 .. Len(q)
  BY <1>1, ConcatProperties, LenProperties
<1> HIDE DEF v
<1>3. /\ 1 \in 1 .. Len(v) /\ v[1] = e
      /\ \A i \in 1 .. Len(v) : i # 1 => i - 1 \in 1 .. Len(q) /\ v[i] = q[i - 1]
      /\ \A i \in 1 .. Len(q) : i + 1 \in 1 .. Len(v) /\ (i + 1) - 1 = i /\ i + 1 # 1
  BY <1>1, <1>2
<1>4. \A i \in 1 .. Len(q) : v[i + 1] = q[i]
  BY <1>3
<1>5. \A i \in 1 .. Len(q) : q[i] # e
  BY <1>2 DEF Range
<1>6. IsInjective(v)
  <2> SUFFICES ASSUME NEW a \in 1 .. Len(v), NEW b \in 1 .. Len(v), v[a] = v[b] PROVE a = b
    BY <1>2 DEF IsInjective
  <2>1. CASE a # 1 /\ b # 1
    <3>1. a - 1 \in 1 .. Len(q) /\ b - 1 \in 1 .. Len(q) /\ q[a - 1] = q[b - 1]
      BY <1>3, <2>1
    <3>2. a - 1 = b - 1
      BY <1>2, <3>1 DEF IsInjective
    <3> QED
      BY <3>2
  <2>2. CASE a = 1 \/ b = 1
    BY <1>3, <1>5, <2>2
  <2> QED
    BY <2>1, <2>2
<1>7. Range(v) = Range(q) \cup {e}
  <2>1. ASSUME NEW y \in Range(v) PROVE y \in Range(q) \cup {e}
    BY <1>2, <1>3 DEF Range
  <2>2. ASSUME NEW y \in Range(q) PROVE y \in Range(v)
    <3>1. PICK i \in 1 .. Len(q) : y = q[i]
      BY <1>2 DEF Range
    <3>2. i + 1 \in DOMAIN v /\ v[i + 1] = y
      BY <1>2, <1>3, <1>4, <3>1
    <3> QED
      BY <3>2 DEF Range
  <2>3. e \in Range(v)
    BY <1>2, <1>3 DEF Range
  <2> QED
    BY <2>1, <2>2, <2>3
<1> QED
  BY <1>6, <1>7 DEF v, u

=============================================================================
