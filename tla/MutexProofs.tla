----------------------------- MODULE MutexProofs -----------------------------
(***************************************************************************)
(* Theorems about the mutex (module Mutex), for any number of processes    *)
(* and any depth of nested calls.                                          *)
(***************************************************************************)
EXTENDS Mutex, SequenceLemmas

(***************************************************************************)
(* As long as no call was misled, what a process takes for its hold on the *)
(* mutex is what the mutex records: one call of the owner, none of anybody *)
(* else.                                                                   *)
(***************************************************************************)
HeldByOwner ==
    ~misled => \A p \in Proc : held[p] = IF owner = p THEN 1 ELSE 0

(***************************************************************************)
(* A process that waits called within its bound of nested calls, so that   *)
(* the call may still return.                                              *)
(***************************************************************************)
WaiterMayReturn == \A p \in Proc : pc[p] = "wait" => held[p] < MaxHeld

(***************************************************************************)
(* The inductive invariant.  MutualExclusion alone is not inductive: that  *)
(* two processes are never inside needs that the one inside is the owner,  *)
(* and that a mutex with an owner is locked.                               *)
(***************************************************************************)
MutexInv ==
    /\ MutexTypeOK
    /\ WaitersAreWaiting
    /\ HeldByOwner
    /\ WaiterMayReturn

-----------------------------------------------------------------------------
(***************************************************************************)
(* The invariant holds after mutex_init.                                   *)
(***************************************************************************)
LEMMA MutexInvInit == mutex_init => MutexInv
<1> SUFFICES ASSUME mutex_init PROVE MutexInv
  OBVIOUS
<1>1. MutexTypeOK
  <2>1. misled \in BOOLEAN
    BY Zenon DEF mutex_init
  <2> QED
    BY <2>1, MutexAssumption DEF mutex_init, MutexTypeOK
<1>2. WaitersAreWaiting
  BY MutexAssumption DEF mutex_init, WaitersAreWaiting, Contains, IsInjective
<1>3. HeldByOwner
  BY MutexAssumption DEF mutex_init, HeldByOwner
<1>4. WaiterMayReturn
  BY DEF mutex_init, WaiterMayReturn
<1> QED
  BY <1>1, <1>2, <1>3, <1>4 DEF MutexInv

(***************************************************************************)
(* Every step keeps the invariant: one step of the proof per action.       *)
(***************************************************************************)
LEMMA MutexInvNext == MutexInv /\ [MutexNext]_mutexVars => MutexInv'
<1> SUFFICES ASSUME MutexInv, [MutexNext]_mutexVars
             PROVE  MutexInv'
  OBVIOUS
<1> USE MutexAssumption
<1> USE DEF MutexInv
<1>1. ASSUME NEW p \in Proc, LockFree(p) PROVE MutexInv'
  <2> USE <1>1 DEF LockFree, Calls, Acquire, Returns
  <2>1. MutexTypeOK'
    BY DEF MutexTypeOK
  <2>2. WaitersAreWaiting'
    BY DEF WaitersAreWaiting, MutexTypeOK
  <2>3. HeldByOwner'
    <3> SUFFICES ASSUME ~misled', NEW q \in Proc
                 PROVE  held'[q] = IF owner' = q THEN 1 ELSE 0
      BY DEF HeldByOwner
    <3>1. owner = NULL
      BY DEF WaitersAreWaiting, MutexTypeOK
    <3>2. held[q] = 0
      BY <3>1 DEF HeldByOwner
    <3> QED
      BY <3>2 DEF MutexTypeOK
  <2>4. WaiterMayReturn'
    BY DEF WaiterMayReturn, MutexTypeOK
  <2> QED
    BY <2>1, <2>2, <2>3, <2>4
<1>2. ASSUME NEW p \in Proc, LockOwned(p) \/ LockNoMemory(p) PROVE MutexInv'
  <2> USE <1>2 DEF LockOwned, LockNoMemory, Calls, Returns
  <2>0. misled' \in BOOLEAN
    BY Zenon
  <2>1. MutexTypeOK'
    BY <2>0 DEF MutexTypeOK
  <2>2. WaitersAreWaiting'
    BY DEF WaitersAreWaiting
  <2>3. HeldByOwner'
    BY DEF HeldByOwner
  <2>4. WaiterMayReturn'
    BY DEF WaiterMayReturn, MutexTypeOK
  <2> QED
    BY <2>1, <2>2, <2>3, <2>4
<1>3. ASSUME NEW p \in Proc, LockWait(p) PROVE MutexInv'
  <2> USE <1>3 DEF LockWait, Calls
  <2>1. ~Contains(waiters, p)
    BY DEF WaitersAreWaiting
  <2>2. /\ waiters' \in Seq(Proc)
        /\ IsInjective(waiters')
        /\ \A q : Contains(waiters', q) <=> Contains(waiters, q) \/ q = p
    <3>1. /\ IsInjective(Append(waiters, p))
          /\ \A q : Contains(Append(waiters, p), q) <=> Contains(waiters, q) \/ q = p
      BY <2>1, AppendDistinct, Zenon DEF WaitersAreWaiting, MutexTypeOK
    <3>2. Append(waiters, p) \in Seq(Proc)
      BY AppendProperties DEF MutexTypeOK
    <3> QED
      BY <3>1, <3>2
  <2>3. MutexTypeOK'
    BY <2>2 DEF MutexTypeOK
  <2>4. WaitersAreWaiting'
    BY <2>2 DEF WaitersAreWaiting, MutexTypeOK
  <2>5. HeldByOwner'
    BY DEF HeldByOwner
  <2>6. WaiterMayReturn'
    BY DEF WaiterMayReturn, MutexTypeOK
  <2> QED
    BY <2>3, <2>4, <2>5, <2>6
<1>4. ASSUME NEW p \in Proc, LockRetry(p) PROVE MutexInv'
  <2> USE <1>4 DEF LockRetry, Acquire, Returns
  <2>1. /\ waiters' \in Seq(Proc)
        /\ IsInjective(waiters')
        /\ \A q : Contains(waiters', q) <=> Contains(waiters, q) /\ q # p
    <3>1. Contains(waiters, p) /\ IsInjective(waiters) /\ waiters \in Seq(Proc)
      BY DEF WaitersAreWaiting, MutexTypeOK
    <3>2. /\ RemoveFirst(waiters, p) \in Seq(Proc)
          /\ IsInjective(RemoveFirst(waiters, p))
          /\ \A q : Contains(RemoveFirst(waiters, p), q) <=> Contains(waiters, q) /\ q # p
      BY <3>1, RemoveFirstDistinct, Zenon
    <3> QED
      BY <3>2
  <2>2. held[p] < MaxHeld
    BY DEF WaiterMayReturn
  <2>3. MutexTypeOK'
    BY <2>1, <2>2 DEF MutexTypeOK
  <2>5. WaitersAreWaiting'
    BY <2>1 DEF WaitersAreWaiting, MutexTypeOK
  <2>6. HeldByOwner'
    <3> SUFFICES ASSUME ~misled', NEW q \in Proc
                 PROVE  held'[q] = IF owner' = q THEN 1 ELSE 0
      BY DEF HeldByOwner
    <3>1. owner = NULL
      BY DEF WaitersAreWaiting, MutexTypeOK
    <3>2. held[q] = 0
      BY <3>1 DEF HeldByOwner
    <3> QED
      BY <3>2 DEF MutexTypeOK
  <2>7. WaiterMayReturn'
    BY DEF WaiterMayReturn, MutexTypeOK
  <2> QED
    BY <2>3, <2>5, <2>6, <2>7
<1>5. ASSUME NEW p \in Proc, mutex_unlock(p) PROVE MutexInv'
  <2> USE <1>5 DEF mutex_unlock
  <2>1. MutexTypeOK'
    BY DEF MutexTypeOK
  <2>2. WaitersAreWaiting'
    <3>1. ~Contains(waiters, NULL)
      BY DEF Contains, MutexTypeOK
    <3> QED
      BY <3>1 DEF WaitersAreWaiting, MutexTypeOK
  <2>3. HeldByOwner'
    BY DEF MutexTypeOK, HeldByOwner
  <2>4. WaiterMayReturn'
    BY DEF WaiterMayReturn, MutexTypeOK
  <2> QED
    BY <2>1, <2>2, <2>3, <2>4
<1>6. CASE UNCHANGED mutexVars
  BY <1>6 DEF mutexVars, MutexTypeOK, WaitersAreWaiting, HeldByOwner, WaiterMayReturn
<1> QED
  BY <1>1, <1>2, <1>3, <1>4, <1>5, <1>6 DEF MutexNext, MutexStep

(***************************************************************************)
(* MutexInv is an invariant of the mutex.                                  *)
(***************************************************************************)
THEOREM MutexInvariant == MutexSpec => []MutexInv
BY MutexInvInit, MutexInvNext, PTL DEF MutexSpec

(***************************************************************************)
(* Type correctness of mutex.c's state.                                    *)
(***************************************************************************)
THEOREM MutexTypeCorrect == MutexSpec => []MutexTypeOK
<1>1. MutexInv => MutexTypeOK
  BY DEF MutexInv
<1> QED
  BY <1>1, MutexInvariant, PTL

(***************************************************************************)
(* The list of waiters is exactly the waiting processes: mutex_lock frees  *)
(* the entry it queued and no other.                                       *)
(***************************************************************************)
THEOREM MutexWaiters == MutexSpec => []WaitersAreWaiting
<1>1. MutexInv => WaitersAreWaiting
  BY DEF MutexInv
<1> QED
  BY <1>1, MutexInvariant, PTL

(***************************************************************************)
(* While no mutex_lock returned without acquiring, two processes are never *)
(* inside.                                                                 *)
(***************************************************************************)
THEOREM MutexExcludes == MutexSpec => []MutualExclusion
<1>1. MutexInv => MutualExclusion
  BY DEF MutexInv, HeldByOwner, MutualExclusion
<1> QED
  BY <1>1, MutexInvariant, PTL

(***************************************************************************)
(* Only the owner's mutex_unlock ends its hold on the mutex.               *)
(***************************************************************************)
THEOREM MutexOnlyOwnerReleases == MutexSpec => OnlyOwnerReleases
<1> DEFINE Keeps == owner # NULL /\ owner' # owner =>
                       owner' = NULL /\ held'[owner] < held[owner]
<1>1. MutexInv /\ [MutexNext]_mutexVars => [Keeps]_mutexVars
  <2> SUFFICES ASSUME MutexInv, MutexNext PROVE Keeps
    OBVIOUS
  <2>1. PICK p \in Proc : MutexStep(p)
    BY DEF MutexNext
  <2>2. CASE LockFree(p) \/ LockRetry(p)
    BY <2>2 DEF LockFree, LockRetry, Acquire, MutexInv, WaitersAreWaiting
  <2>3. CASE LockOwned(p) \/ LockNoMemory(p) \/ LockWait(p)
    BY <2>3 DEF LockOwned, LockNoMemory, LockWait
  <2>4. CASE mutex_unlock(p)
    BY <2>4 DEF mutex_unlock, MutexInv, MutexTypeOK
  <2> QED
    BY <2>1, <2>2, <2>3, <2>4 DEF MutexStep
<1> QED
  BY <1>1, MutexInvariant, PTL DEF MutexSpec, OnlyOwnerReleases

(***************************************************************************)
(* The mutex implements the abstract lock.  LockFree and LockRetry grant   *)
(* it, LockWait asks for it, the owner's mutex_unlock releases it, and the *)
(* other steps change nothing a user of the lock can see.                  *)
(***************************************************************************)
THEOREM MutexImplementsLock == MutexSpec => LockSpec
<1>1. mutex_init => L!Init
  BY DEF mutex_init, L!Init
<1>2. MutexInv /\ [MutexNext]_mutexVars => [L!Next]_(L!lockVars)
  <2> SUFFICES ASSUME MutexInv, [MutexNext]_mutexVars
               PROVE  [L!Next]_(L!lockVars)
    OBVIOUS
  <2> USE DEF MutexInv
  <2>1. ASSUME NEW p \in Proc, LockFree(p) PROVE L!Grant(p)
    BY <2>1 DEF LockFree, Calls, Acquire, L!Grant, WaitersAreWaiting, MutexTypeOK
  <2>2. ASSUME NEW p \in Proc, LockRetry(p) PROVE L!Grant(p)
    BY <2>2 DEF LockRetry, Acquire, L!Grant, WaitersAreWaiting, MutexTypeOK
  <2>3. ASSUME NEW p \in Proc, LockWait(p) PROVE L!Request(p)
    BY <2>3 DEF LockWait, Calls, L!Request, WaitersAreWaiting, MutexTypeOK
  <2>4. ASSUME NEW p \in Proc, LockOwned(p) \/ LockNoMemory(p)
        PROVE  UNCHANGED L!lockVars
    BY <2>4 DEF LockOwned, LockNoMemory, L!lockVars
  <2>5. ASSUME NEW p \in Proc, mutex_unlock(p)
        PROVE  L!Release(p) \/ UNCHANGED L!lockVars
    BY <2>5 DEF mutex_unlock, L!Release, L!lockVars
  <2>6. CASE UNCHANGED mutexVars
    BY <2>6 DEF mutexVars, L!lockVars
  <2> QED
    BY <2>1, <2>2, <2>3, <2>4, <2>5, <2>6 DEF MutexNext, MutexStep, L!Next
<1> QED
  BY <1>1, <1>2, MutexInvariant, PTL DEF MutexSpec, LockSpec, L!Spec

=============================================================================
