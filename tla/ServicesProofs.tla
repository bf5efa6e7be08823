--------------------------- MODULE ServicesProofs ---------------------------
(***************************************************************************)
(* Theorems about the kernel's services: the spinlock for any set of       *)
(* processors, the capability table, the interrupt controllers and the     *)
(* timer driver, the log, the FAT32 file system, the AHCI driver, the      *)
(* terminal, the text console, the kernel heap and the PCI scan, for any   *)
(* sizes of their tables, rings, screens, blocks and buses.                *)
(***************************************************************************)
EXTENDS Fat32, Ahci, Heap, Spinlock, Capabilities, Interrupts, Logging, Terminal, Vga, Pci,
        SequenceLemmas, TLAPS

-----------------------------------------------------------------------------
\* Spinlock.

Place == {"outside", "acquire", "spin", "own", "try", "try_own", "try_flags", "release", "restore"}

SpinTypeOK ==
    /\ locked \in Bit
    /\ owner \in CPUs \cup {NoCpu}
    /\ interrupt_flags \in Bit
    /\ enabled \in [CPUs -> Bit]
    /\ at \in [CPUs -> Place]
    /\ flags \in [CPUs -> Bit]
    /\ holds \in [CPUs -> Nat]
    /\ nested \subseteq CPUs
    /\ before \in [CPUs -> Bit]
    /\ mixed \subseteq CPUs

\* Where a processor is that does not hold the lock, when none calls again.
Without == {"acquire", "spin", "own", "try_own", "try_flags", "release", "restore"}

(***************************************************************************)
(* The inductive invariant: whoever is inside has locked set, a processor  *)
(* counts the lock at most once and only outside of the calls that take    *)
(* and give it back, is the owner only while it counts it or is about to,  *)
(* which keeps AcquireRecursive from a processor that does not hold the    *)
(* lock, and is the owner as long as it counts it, so that its release     *)
(* never returns early.                                                    *)
(***************************************************************************)
OneInside == \A c, d \in CPUs : Inside(c) /\ Inside(d) => c = d
InsideLocks == \A c \in CPUs : Inside(c) => locked = 1
WithoutHolds == \A c \in CPUs : at[c] \in Without => holds[c] = 0
HeldOnce == \A c \in CPUs : holds[c] <= 1
OwnerHolds == \A c \in CPUs : owner = c => holds[c] > 0 \/ at[c] = "try_flags"
HolderOwns == \A c \in CPUs : holds[c] > 0 \/ at[c] = "try_flags" => owner = c

SpinInv ==
    nested = {} => OneInside /\ InsideLocks /\ WithoutHolds /\ HeldOnce /\ OwnerHolds /\ HolderOwns

(***************************************************************************)
(* What a processor will be given back is what it had: in its local flags  *)
(* or, unless another call overwrote them, in interrupt_flags.             *)
(***************************************************************************)
AsBefore(c) ==
    /\ at[c] = "outside" /\ holds[c] = 0 => c \in mixed \/ enabled[c] = before[c]
    /\ Keeps(c) => c \in mixed \/ interrupt_flags = before[c]
    /\ at[c] \in {"try", "try_own", "try_flags"} /\ holds[c] = 0 => flags[c] = before[c]

FlagsInv == nested = {} => \A c \in CPUs : AsBefore(c)

-----------------------------------------------------------------------------
\* The variables have their types.
LEMMA SpinTypeStep == SpinTypeOK /\ [SpinNext]_spinVars => SpinTypeOK'
<1> SUFFICES ASSUME SpinTypeOK, [SpinNext]_spinVars PROVE SpinTypeOK'
  OBVIOUS
<1> USE DEF SpinTypeOK, Goes, lockVars, ghosts
<1>0. /\ 0 \in Bit /\ 1 \in Bit
      /\ "outside" \in Place /\ "acquire" \in Place /\ "spin" \in Place /\ "own" \in Place
      /\ "try" \in Place /\ "try_own" \in Place /\ "try_flags" \in Place
      /\ "release" \in Place /\ "restore" \in Place
  BY DEF Bit, Place
<1>1. CASE UNCHANGED spinVars
  BY <1>1 DEF spinVars
<1>2. ASSUME NEW c \in CPUs, spinlock_acquire(c) \/ AcquireRecursive(c) \/ Spins(c) \/ Takes(c) \/ Owns(c)
      PROVE  SpinTypeOK'
  <2>1. CASE spinlock_acquire(c)
    <3>1. interrupt_flags' \in Bit /\ mixed' \subseteq CPUs
      BY <2>1 DEF spinlock_acquire, StoresFlags
    <3>2. before' \in [CPUs -> Bit]
      BY <2>1 DEF spinlock_acquire, Before
    <3> QED BY <1>0, <2>1, <3>1, <3>2 DEF spinlock_acquire
  <2>2. CASE AcquireRecursive(c)
    <3>1. enabled' \in [CPUs -> Bit]
      BY <1>0, <2>2 DEF AcquireRecursive
    <3>2. holds' \in [CPUs -> Nat]
      BY <2>2 DEF AcquireRecursive
    <3>3. at' \in [CPUs -> Place]
      BY <1>0, <2>2 DEF AcquireRecursive
    <3> QED BY <2>2, <3>1, <3>2, <3>3 DEF AcquireRecursive
  <2>3. CASE Spins(c)
    BY <1>0, <2>3 DEF Spins
  <2>4. CASE Takes(c)
    BY <1>0, <2>4 DEF Takes
  <2>5. CASE Owns(c)
    <3>1. owner' \in CPUs \cup {NoCpu}
      BY <1>0, <2>5 DEF Owns
    <3>2. holds' \in [CPUs -> Nat]
      BY <2>5 DEF Owns
    <3>3. at' \in [CPUs -> Place]
      BY <1>0, <2>5 DEF Owns
    <3> QED BY <2>5, <3>1, <3>2, <3>3 DEF Owns
  <2> QED BY <1>2, <2>1, <2>2, <2>3, <2>4, <2>5
<1>3. ASSUME NEW c \in CPUs,
             spinlock_try_acquire(c) \/ TryFails(c) \/ TryTakes(c) \/ TryOwns(c) \/ TryKeepsFlags(c)
      PROVE  SpinTypeOK'
  <2>1. CASE spinlock_try_acquire(c)
    <3>1. before' \in [CPUs -> Bit] /\ mixed' \subseteq CPUs
      BY <2>1 DEF spinlock_try_acquire, Before
    <3> QED BY <1>0, <2>1, <3>1 DEF spinlock_try_acquire
  <2>2. CASE TryFails(c)
    BY <1>0, <2>2 DEF TryFails, AfterFailed
  <2>3. CASE TryTakes(c)
    BY <1>0, <2>3 DEF TryTakes
  <2>4. CASE TryOwns(c)
    BY <1>0, <2>4 DEF TryOwns
  <2>5. CASE TryKeepsFlags(c)
    <3>1. interrupt_flags' \in Bit /\ mixed' \subseteq CPUs
      BY <1>0, <2>5 DEF TryKeepsFlags, StoresFlags
    <3>2. holds' \in [CPUs -> Nat]
      BY <2>5 DEF TryKeepsFlags
    <3>3. at' \in [CPUs -> Place]
      BY <1>0, <2>5 DEF TryKeepsFlags
    <3> QED BY <2>5, <3>1, <3>2, <3>3 DEF TryKeepsFlags
  <2> QED BY <1>3, <2>1, <2>2, <2>3, <2>4, <2>5
<1>4. ASSUME NEW c \in CPUs, spinlock_release(c) \/ Unlocks(c) \/ Restores(c) PROVE SpinTypeOK'
  <2>1. CASE spinlock_release(c)
    <3>1. holds' \in [CPUs -> Nat]
      BY <2>1 DEF spinlock_release
    <3>2. owner' \in CPUs \cup {NoCpu}
      BY <1>0, <2>1 DEF spinlock_release
    <3>3. at' \in [CPUs -> Place]
      BY <1>0, <2>1 DEF spinlock_release
    <3> QED BY <2>1, <3>1, <3>2, <3>3 DEF spinlock_release
  <2>2. CASE Unlocks(c)
    BY <1>0, <2>2 DEF Unlocks
  <2>3. CASE Restores(c)
    BY <1>0, <2>3 DEF Restores
  <2> QED BY <1>4, <2>1, <2>2, <2>3
<1> QED BY <1>1, <1>2, <1>3, <1>4 DEF SpinNext

\* What a step does to where a processor is and to what it counts.
LEMMA PlaceMoves ==
    ASSUME NEW c \in CPUs, NEW to, at \in [CPUs -> Place], Goes(c, to)
    PROVE  at'[c] = to /\ \A d \in CPUs : d # c => at'[d] = at[d]
BY DEF Goes

\* A processor changes its own count only.
LEMMA Counts ==
    ASSUME NEW c \in CPUs, NEW n, holds \in [CPUs -> Nat], holds' = [holds EXCEPT ![c] = n]
    PROVE  holds'[c] = n /\ \A d \in CPUs : d # c => holds'[d] = holds[d]
OBVIOUS

\* Each step keeps the inductive invariant.
LEMMA SpinStep == SpinTypeOK /\ SpinInv /\ [SpinNext]_spinVars => SpinInv'
<1> SUFFICES ASSUME SpinTypeOK, SpinInv, [SpinNext]_spinVars, nested' = {} PROVE SpinInv'
  BY DEF SpinInv
<1>0. at \in [CPUs -> Place] /\ holds \in [CPUs -> Nat]
  BY DEF SpinTypeOK
<1>1. \A c \in CPUs : holds[c] \in Nat
  BY <1>0
<1>2. CASE UNCHANGED spinVars
  BY <1>2 DEF spinVars, SpinInv, OneInside, InsideLocks, WithoutHolds, HeldOnce, OwnerHolds, HolderOwns, Inside
<1>3. ASSUME SpinNext PROVE nested = {}
  <2>1. ASSUME NEW c \in CPUs, spinlock_acquire(c) PROVE nested = {}
    <3>1. nested \subseteq nested'
      BY <2>1 DEF spinlock_acquire
    <3> QED BY <3>1
  <2>2. ASSUME ~(\E c \in CPUs : spinlock_acquire(c)) PROVE nested' = nested
    BY <1>3, <2>2, Zenon DEF SpinNext, ghosts, AcquireRecursive, Spins, Takes, Owns, spinlock_try_acquire, TryFails, TryTakes, TryOwns, TryKeepsFlags, spinlock_release, Unlocks, Restores
  <2> QED BY <2>1, <2>2
<1> SUFFICES ASSUME SpinNext PROVE SpinInv'
  BY <1>2
<1>4. OneInside /\ InsideLocks /\ WithoutHolds /\ HeldOnce /\ OwnerHolds /\ HolderOwns
  BY <1>3 DEF SpinInv
<1>5. ASSUME NEW c \in CPUs, spinlock_acquire(c) PROVE SpinInv'
  <2>1. at'[c] = "acquire" /\ \A d \in CPUs : d # c => at'[d] = at[d]
    BY <1>0, <1>5, PlaceMoves DEF spinlock_acquire
  <2>2. holds'[c] = holds[c] /\ \A d \in CPUs : d # c => holds'[d] = holds[d]
    BY <1>5 DEF spinlock_acquire
  <2> USE <1>1, <1>4, <1>5, <2>1, <2>2 DEF spinlock_acquire, Goes, lockVars, Without
  <2>3. OneInside'
    BY DEF OneInside, InsideLocks, Inside
  <2>4. InsideLocks'
    BY DEF OneInside, InsideLocks, WithoutHolds, HeldOnce, Inside
  <2>5. WithoutHolds'
    BY DEF InsideLocks, WithoutHolds, HeldOnce, Inside
  <2>6. HeldOnce'
    BY DEF WithoutHolds, HeldOnce
  <2>7. OwnerHolds'
    BY DEF OwnerHolds
  <2>8. HolderOwns'
    BY DEF HolderOwns, OneInside, WithoutHolds, HeldOnce, Inside
  <2> QED BY <2>3, <2>4, <2>5, <2>6, <2>7, <2>8 DEF SpinInv
<1>6. ASSUME NEW c \in CPUs, AcquireRecursive(c) PROVE SpinInv'
  <2>1. holds[c] = 0 /\ owner = c /\ at[c] = "acquire"
    BY <1>4, <1>6 DEF AcquireRecursive, Recursive, WithoutHolds, Without
  <2> QED BY <1>4, <2>1 DEF OwnerHolds
<1>7. ASSUME NEW c \in CPUs, Spins(c) PROVE SpinInv'
  <2>1. at'[c] = "spin" /\ \A d \in CPUs : d # c => at'[d] = at[d]
    BY <1>0, <1>7, PlaceMoves DEF Spins
  <2>2. holds'[c] = holds[c] /\ \A d \in CPUs : d # c => holds'[d] = holds[d]
    BY <1>7 DEF Spins
  <2> USE <1>1, <1>4, <1>7, <2>1, <2>2 DEF Spins, Goes, lockVars, Without
  <2>3. OneInside'
    BY DEF OneInside, InsideLocks, Inside
  <2>4. InsideLocks'
    BY DEF OneInside, InsideLocks, WithoutHolds, HeldOnce, Inside
  <2>5. WithoutHolds'
    BY DEF InsideLocks, WithoutHolds, HeldOnce, Inside
  <2>6. HeldOnce'
    BY DEF WithoutHolds, HeldOnce
  <2>7. OwnerHolds'
    BY DEF OwnerHolds
  <2>8. HolderOwns'
    BY DEF HolderOwns, OneInside, WithoutHolds, HeldOnce, Inside
  <2> QED BY <2>3, <2>4, <2>5, <2>6, <2>7, <2>8 DEF SpinInv
<1>8. ASSUME NEW c \in CPUs, Takes(c) PROVE SpinInv'
  <2>1. at'[c] = "own" /\ \A d \in CPUs : d # c => at'[d] = at[d]
    BY <1>0, <1>8, PlaceMoves DEF Takes
  <2>2. holds'[c] = holds[c] /\ \A d \in CPUs : d # c => holds'[d] = holds[d]
    BY <1>8 DEF Takes
  <2> USE <1>1, <1>4, <1>8, <2>1, <2>2 DEF Takes, Free, Goes, lockVars, Without
  <2>3. OneInside'
    BY DEF OneInside, InsideLocks, Inside
  <2>4. InsideLocks'
    BY DEF OneInside, InsideLocks, WithoutHolds, HeldOnce, Inside
  <2>5. WithoutHolds'
    BY DEF InsideLocks, WithoutHolds, HeldOnce, Inside
  <2>6. HeldOnce'
    BY DEF WithoutHolds, HeldOnce
  <2>7. OwnerHolds'
    BY DEF OwnerHolds
  <2>8. HolderOwns'
    BY DEF HolderOwns, OneInside, WithoutHolds, HeldOnce, Inside
  <2> QED BY <2>3, <2>4, <2>5, <2>6, <2>7, <2>8 DEF SpinInv
<1>9. ASSUME NEW c \in CPUs, Owns(c) PROVE SpinInv'
  <2>1. at'[c] = "outside" /\ \A d \in CPUs : d # c => at'[d] = at[d]
    BY <1>0, <1>9, PlaceMoves DEF Owns
  <2>2. holds'[c] = holds[c] + 1 /\ \A d \in CPUs : d # c => holds'[d] = holds[d]
    BY <1>0, <1>9, Counts DEF Owns
  <2> USE <1>1, <1>4, <1>9, <2>1, <2>2 DEF Owns, Goes, lockVars, Without
  <2>3. OneInside'
    BY DEF OneInside, InsideLocks, Inside
  <2>4. InsideLocks'
    BY DEF OneInside, InsideLocks, WithoutHolds, HeldOnce, Inside
  <2>5. WithoutHolds'
    BY DEF InsideLocks, WithoutHolds, HeldOnce, Inside
  <2>6. HeldOnce'
    BY DEF WithoutHolds, HeldOnce
  <2>7. OwnerHolds'
    BY DEF OwnerHolds
  <2>8. HolderOwns'
    BY DEF HolderOwns, OneInside, WithoutHolds, HeldOnce, Inside
  <2> QED BY <2>3, <2>4, <2>5, <2>6, <2>7, <2>8 DEF SpinInv
<1>10. ASSUME NEW c \in CPUs, spinlock_try_acquire(c) PROVE SpinInv'
  <2>1. at'[c] = "try" /\ \A d \in CPUs : d # c => at'[d] = at[d]
    BY <1>0, <1>10, PlaceMoves DEF spinlock_try_acquire
  <2>2. holds'[c] = holds[c] /\ \A d \in CPUs : d # c => holds'[d] = holds[d]
    BY <1>10 DEF spinlock_try_acquire
  <2> USE <1>1, <1>4, <1>10, <2>1, <2>2 DEF spinlock_try_acquire, Goes, lockVars, Without
  <2>3. OneInside'
    BY DEF OneInside, InsideLocks, Inside
  <2>4. InsideLocks'
    BY DEF OneInside, InsideLocks, WithoutHolds, HeldOnce, Inside
  <2>5. WithoutHolds'
    BY DEF InsideLocks, WithoutHolds, HeldOnce, Inside
  <2>6. HeldOnce'
    BY DEF WithoutHolds, HeldOnce
  <2>7. OwnerHolds'
    BY DEF OwnerHolds
  <2>8. HolderOwns'
    BY DEF HolderOwns, OneInside, WithoutHolds, HeldOnce, Inside
  <2> QED BY <2>3, <2>4, <2>5, <2>6, <2>7, <2>8 DEF SpinInv
<1>11. ASSUME NEW c \in CPUs, TryFails(c) PROVE SpinInv'
  <2>1. at'[c] = "outside" /\ \A d \in CPUs : d # c => at'[d] = at[d]
    BY <1>0, <1>11, PlaceMoves DEF TryFails
  <2>2. holds'[c] = holds[c] /\ \A d \in CPUs : d # c => holds'[d] = holds[d]
    BY <1>11 DEF TryFails
  <2> USE <1>1, <1>4, <1>11, <2>1, <2>2 DEF TryFails, AfterFailed, Goes, lockVars, Without
  <2>3. OneInside'
    BY DEF OneInside, InsideLocks, Inside
  <2>4. InsideLocks'
    BY DEF OneInside, InsideLocks, WithoutHolds, HeldOnce, Inside
  <2>5. WithoutHolds'
    BY DEF InsideLocks, WithoutHolds, HeldOnce, Inside
  <2>6. HeldOnce'
    BY DEF WithoutHolds, HeldOnce
  <2>7. OwnerHolds'
    BY DEF OwnerHolds
  <2>8. HolderOwns'
    BY DEF HolderOwns, OneInside, WithoutHolds, HeldOnce, Inside
  <2> QED BY <2>3, <2>4, <2>5, <2>6, <2>7, <2>8 DEF SpinInv
<1>12. ASSUME NEW c \in CPUs, TryTakes(c) PROVE SpinInv'
  <2>1. at'[c] = "try_own" /\ \A d \in CPUs : d # c => at'[d] = at[d]
    BY <1>0, <1>12, PlaceMoves DEF TryTakes
  <2>2. holds'[c] = holds[c] /\ \A d \in CPUs : d # c => holds'[d] = holds[d]
    BY <1>12 DEF TryTakes
  <2> USE <1>1, <1>4, <1>12, <2>1, <2>2 DEF TryTakes, Free, Goes, lockVars, Without
  <2>3. OneInside'
    BY DEF OneInside, InsideLocks, Inside
  <2>4. InsideLocks'
    BY DEF OneInside, InsideLocks, WithoutHolds, HeldOnce, Inside
  <2>5. WithoutHolds'
    BY DEF InsideLocks, WithoutHolds, HeldOnce, Inside
  <2>6. HeldOnce'
    BY DEF WithoutHolds, HeldOnce
  <2>7. OwnerHolds'
    BY DEF OwnerHolds
  <2>8. HolderOwns'
    BY DEF HolderOwns, OneInside, WithoutHolds, HeldOnce, Inside
  <2> QED BY <2>3, <2>4, <2>5, <2>6, <2>7, <2>8 DEF SpinInv
<1>13. ASSUME NEW c \in CPUs, TryOwns(c) PROVE SpinInv'
  <2>1. at'[c] = "try_flags" /\ \A d \in CPUs : d # c => at'[d] = at[d]
    BY <1>0, <1>13, PlaceMoves DEF TryOwns
  <2>2. holds'[c] = holds[c] /\ \A d \in CPUs : d # c => holds'[d] = holds[d]
    BY <1>13 DEF TryOwns
  <2> USE <1>1, <1>4, <1>13, <2>1, <2>2 DEF TryOwns, Goes, lockVars, Without
  <2>3. OneInside'
    BY DEF OneInside, InsideLocks, Inside
  <2>4. InsideLocks'
    BY DEF OneInside, InsideLocks, WithoutHolds, HeldOnce, Inside
  <2>5. WithoutHolds'
    BY DEF InsideLocks, WithoutHolds, HeldOnce, Inside
  <2>6. HeldOnce'
    BY DEF WithoutHolds, HeldOnce
  <2>7. OwnerHolds'
    BY DEF OwnerHolds
  <2>8. HolderOwns'
    BY DEF HolderOwns, OneInside, WithoutHolds, HeldOnce, Inside
  <2> QED BY <2>3, <2>4, <2>5, <2>6, <2>7, <2>8 DEF SpinInv
<1>14. ASSUME NEW c \in CPUs, TryKeepsFlags(c) PROVE SpinInv'
  <2>1. at'[c] = "outside" /\ \A d \in CPUs : d # c => at'[d] = at[d]
    BY <1>0, <1>14, PlaceMoves DEF TryKeepsFlags
  <2>2. holds'[c] = holds[c] + 1 /\ \A d \in CPUs : d # c => holds'[d] = holds[d]
    BY <1>0, <1>14, Counts DEF TryKeepsFlags
  <2> USE <1>1, <1>4, <1>14, <2>1, <2>2 DEF TryKeepsFlags, Goes, lockVars, Without
  <2>3. OneInside'
    BY DEF OneInside, InsideLocks, Inside
  <2>4. InsideLocks'
    BY DEF OneInside, InsideLocks, WithoutHolds, HeldOnce, Inside
  <2>5. WithoutHolds'
    BY DEF InsideLocks, WithoutHolds, HeldOnce, Inside
  <2>6. HeldOnce'
    BY DEF WithoutHolds, HeldOnce
  <2>7. OwnerHolds'
    BY DEF OwnerHolds
  <2>8. HolderOwns'
    BY DEF HolderOwns, OneInside, WithoutHolds, HeldOnce, Inside
  <2> QED BY <2>3, <2>4, <2>5, <2>6, <2>7, <2>8 DEF SpinInv
<1>15. ASSUME NEW c \in CPUs, spinlock_release(c) PROVE SpinInv'
  <2>1. /\ at'[c] \in {"outside", "release"}
        /\ at'[c] = "release" => owner' # c
        /\ \A d \in CPUs : d # c => at'[d] = at[d]
    BY <1>0, <1>15, SpinlockAssumption DEF spinlock_release, Goes
  <2>2. holds'[c] = holds[c] - 1 /\ \A d \in CPUs : d # c => holds'[d] = holds[d]
    BY <1>0, <1>15, Counts DEF spinlock_release
  <2> USE <1>1, <1>4, <1>15, <2>1, <2>2 DEF spinlock_release, Goes, lockVars, Without
  <2>3. OneInside'
    BY DEF OneInside, InsideLocks, Inside
  <2>4. InsideLocks'
    BY DEF OneInside, InsideLocks, WithoutHolds, HeldOnce, Inside
  <2>5. WithoutHolds'
    BY DEF InsideLocks, WithoutHolds, HeldOnce, Inside
  <2>6. HeldOnce'
    BY DEF WithoutHolds, HeldOnce
  <2>7. OwnerHolds'
    <3>1. CASE owner = c
      BY <3>1, SpinlockAssumption DEF OwnerHolds
    <3>2. CASE owner # c
      BY <3>2 DEF OwnerHolds
    <3> QED BY <3>1, <3>2
  <2>8. HolderOwns'
    BY DEF HolderOwns, OneInside, WithoutHolds, HeldOnce, Inside
  <2> QED BY <2>3, <2>4, <2>5, <2>6, <2>7, <2>8 DEF SpinInv
<1>16. ASSUME NEW c \in CPUs, Unlocks(c) PROVE SpinInv'
  <2>1. at'[c] = "restore" /\ \A d \in CPUs : d # c => at'[d] = at[d]
    BY <1>0, <1>16, PlaceMoves DEF Unlocks
  <2>2. holds'[c] = holds[c] /\ \A d \in CPUs : d # c => holds'[d] = holds[d]
    BY <1>16 DEF Unlocks
  <2> USE <1>1, <1>4, <1>16, <2>1, <2>2 DEF Unlocks, Goes, lockVars, Without
  <2>3. OneInside'
    BY DEF OneInside, InsideLocks, Inside
  <2>4. InsideLocks'
    BY DEF OneInside, InsideLocks, WithoutHolds, HeldOnce, Inside
  <2>5. WithoutHolds'
    BY DEF InsideLocks, WithoutHolds, HeldOnce, Inside
  <2>6. HeldOnce'
    BY DEF WithoutHolds, HeldOnce
  <2>7. OwnerHolds'
    BY DEF OwnerHolds
  <2>8. HolderOwns'
    BY DEF HolderOwns, OneInside, WithoutHolds, HeldOnce, Inside
  <2> QED BY <2>3, <2>4, <2>5, <2>6, <2>7, <2>8 DEF SpinInv
<1>17. ASSUME NEW c \in CPUs, Restores(c) PROVE SpinInv'
  <2>1. at'[c] = "outside" /\ \A d \in CPUs : d # c => at'[d] = at[d]
    BY <1>0, <1>17, PlaceMoves DEF Restores
  <2>2. holds'[c] = holds[c] /\ \A d \in CPUs : d # c => holds'[d] = holds[d]
    BY <1>17 DEF Restores
  <2> USE <1>1, <1>4, <1>17, <2>1, <2>2 DEF Restores, Goes, lockVars, Without
  <2>3. OneInside'
    BY DEF OneInside, InsideLocks, Inside
  <2>4. InsideLocks'
    BY DEF OneInside, InsideLocks, WithoutHolds, HeldOnce, Inside
  <2>5. WithoutHolds'
    BY DEF InsideLocks, WithoutHolds, HeldOnce, Inside
  <2>6. HeldOnce'
    BY DEF WithoutHolds, HeldOnce
  <2>7. OwnerHolds'
    BY DEF OwnerHolds
  <2>8. HolderOwns'
    BY DEF HolderOwns, OneInside, WithoutHolds, HeldOnce, Inside
  <2> QED BY <2>3, <2>4, <2>5, <2>6, <2>7, <2>8 DEF SpinInv
<1> QED BY <1>5, <1>6, <1>7, <1>8, <1>9, <1>10, <1>11, <1>12, <1>13, <1>14, <1>15, <1>16, <1>17 DEF SpinNext

\* Each step keeps what a processor will be given back.
LEMMA FlagsStep == SpinTypeOK /\ SpinInv /\ FlagsInv /\ [SpinNext]_spinVars => FlagsInv'
<1> SUFFICES ASSUME SpinTypeOK, SpinInv, FlagsInv, [SpinNext]_spinVars, nested' = {}
             PROVE  \A d \in CPUs : AsBefore(d)'
  BY DEF FlagsInv
<1>0. /\ at \in [CPUs -> Place] /\ holds \in [CPUs -> Nat]
      /\ enabled \in [CPUs -> Bit] /\ flags \in [CPUs -> Bit] /\ before \in [CPUs -> Bit]
  BY DEF SpinTypeOK
<1>1. \A c \in CPUs : holds[c] \in Nat
  BY <1>0
<1>2. CASE UNCHANGED spinVars
  BY <1>2 DEF spinVars, FlagsInv, AsBefore, Keeps
<1>3. ASSUME SpinNext PROVE nested = {}
  <2>1. ASSUME NEW c \in CPUs, spinlock_acquire(c) PROVE nested = {}
    <3>1. nested \subseteq nested'
      BY <2>1 DEF spinlock_acquire
    <3> QED BY <3>1
  <2>2. ASSUME ~(\E c \in CPUs : spinlock_acquire(c)) PROVE nested' = nested
    BY <1>3, <2>2, Zenon DEF SpinNext, ghosts, AcquireRecursive, Spins, Takes, Owns, spinlock_try_acquire, TryFails, TryTakes, TryOwns, TryKeepsFlags, spinlock_release, Unlocks, Restores
  <2> QED BY <2>1, <2>2
<1> SUFFICES ASSUME SpinNext, NEW d \in CPUs PROVE AsBefore(d)'
  BY <1>2
<1>4. InsideLocks /\ WithoutHolds /\ HeldOnce /\ OwnerHolds /\ HolderOwns
  BY <1>3 DEF SpinInv
<1>5. AsBefore(d)
  BY <1>3 DEF FlagsInv
<1>6. ASSUME NEW c \in CPUs, spinlock_acquire(c) PROVE AsBefore(d)'
  <2>1. at'[c] = "acquire" /\ \A e \in CPUs : e # c => at'[e] = at[e]
    BY <1>0, <1>6, PlaceMoves DEF spinlock_acquire
  <2>2. holds'[c] = holds[c] /\ \A e \in CPUs : e # c => holds'[e] = holds[e]
    BY <1>6 DEF spinlock_acquire
  <2>3. enabled'[c] = 0 /\ \A e \in CPUs : e # c => enabled'[e] = enabled[e]
    BY <1>0, <1>6 DEF spinlock_acquire
  <2>4. flags' = flags
    BY <1>6 DEF spinlock_acquire
  <2>5. interrupt_flags' = enabled[c]
    BY <1>6 DEF spinlock_acquire, StoresFlags
  <2>6. holds[c] = 0
    <3>1. nested' = IF holds[c] > 0 THEN nested \cup {c} ELSE nested
      BY <1>6 DEF spinlock_acquire
    <3> QED BY <1>1, <3>1
  <2>7. before'[c] = enabled[c] /\ \A e \in CPUs : e # c => before'[e] = before[e]
    BY <1>0, <1>6, <2>6 DEF spinlock_acquire, Before
  <2>8. CASE d = c
    BY <2>1, <2>5, <2>7, <2>8 DEF AsBefore, Keeps
  <2>9. CASE d # c
    <3>1. d \in mixed' <=> d \in mixed \/ (Keeps(d) /\ before[d] # enabled[c])
      BY <1>6, <2>9 DEF spinlock_acquire, StoresFlags
    <3> QED BY <1>5, <2>1, <2>2, <2>3, <2>4, <2>5, <2>7, <2>9, <3>1 DEF AsBefore, Keeps
  <2> QED BY <2>8, <2>9
<1>7. ASSUME NEW c \in CPUs, AcquireRecursive(c) PROVE AsBefore(d)'
  <2>1. holds[c] = 0 /\ owner = c /\ at[c] = "acquire"
    BY <1>4, <1>7 DEF AcquireRecursive, Recursive, WithoutHolds, Without
  <2> QED BY <1>4, <2>1 DEF OwnerHolds
<1>8. ASSUME NEW c \in CPUs, Spins(c) PROVE AsBefore(d)'
  <2>1. at'[c] = "spin" /\ \A e \in CPUs : e # c => at'[e] = at[e]
    BY <1>0, <1>8, PlaceMoves DEF Spins
  <2>2. holds'[c] = holds[c] /\ \A e \in CPUs : e # c => holds'[e] = holds[e]
    BY <1>8 DEF Spins
  <2>3. enabled' = enabled
    BY <1>8 DEF Spins
  <2>4. flags' = flags
    BY <1>8 DEF Spins
  <2>5. interrupt_flags' = interrupt_flags /\ before' = before /\ mixed' = mixed
    BY <1>8 DEF Spins, lockVars, ghosts
  <2> QED BY <1>1, <1>4, <1>5, <1>8, <2>1, <2>2, <2>3, <2>4, <2>5
          DEF Spins, AsBefore, Keeps, InsideLocks, WithoutHolds, Inside, Without
<1>9. ASSUME NEW c \in CPUs, Takes(c) PROVE AsBefore(d)'
  <2>1. at'[c] = "own" /\ \A e \in CPUs : e # c => at'[e] = at[e]
    BY <1>0, <1>9, PlaceMoves DEF Takes
  <2>2. holds'[c] = holds[c] /\ \A e \in CPUs : e # c => holds'[e] = holds[e]
    BY <1>9 DEF Takes
  <2>3. enabled' = enabled
    BY <1>9 DEF Takes
  <2>4. flags' = flags
    BY <1>9 DEF Takes
  <2>5. interrupt_flags' = interrupt_flags /\ before' = before /\ mixed' = mixed
    BY <1>9 DEF Takes, lockVars, ghosts
  <2> QED BY <1>1, <1>4, <1>5, <1>9, <2>1, <2>2, <2>3, <2>4, <2>5
          DEF Takes, AsBefore, Keeps, InsideLocks, WithoutHolds, Inside, Without, Free
<1>10. ASSUME NEW c \in CPUs, Owns(c) PROVE AsBefore(d)'
  <2>1. at'[c] = "outside" /\ \A e \in CPUs : e # c => at'[e] = at[e]
    BY <1>0, <1>10, PlaceMoves DEF Owns
  <2>2. holds'[c] = holds[c] + 1 /\ \A e \in CPUs : e # c => holds'[e] = holds[e]
    BY <1>0, <1>10, Counts DEF Owns
  <2>3. enabled' = enabled
    BY <1>10 DEF Owns
  <2>4. flags' = flags
    BY <1>10 DEF Owns
  <2>5. interrupt_flags' = interrupt_flags /\ before' = before /\ mixed' = mixed
    BY <1>10 DEF Owns, lockVars, ghosts
  <2> QED BY <1>1, <1>4, <1>5, <1>10, <2>1, <2>2, <2>3, <2>4, <2>5
          DEF Owns, AsBefore, Keeps, InsideLocks, WithoutHolds, Inside, Without
<1>11. ASSUME NEW c \in CPUs, spinlock_try_acquire(c) PROVE AsBefore(d)'
  <2>1. at'[c] = "try" /\ \A e \in CPUs : e # c => at'[e] = at[e]
    BY <1>0, <1>11, PlaceMoves DEF spinlock_try_acquire
  <2>2. holds'[c] = holds[c] /\ \A e \in CPUs : e # c => holds'[e] = holds[e]
    BY <1>11 DEF spinlock_try_acquire
  <2>3. enabled'[c] = 0 /\ \A e \in CPUs : e # c => enabled'[e] = enabled[e]
    BY <1>0, <1>11 DEF spinlock_try_acquire
  <2>4. flags'[c] = enabled[c] /\ \A e \in CPUs : e # c => flags'[e] = flags[e]
    BY <1>0, <1>11 DEF spinlock_try_acquire
  <2>5. interrupt_flags' = interrupt_flags
    BY <1>11 DEF spinlock_try_acquire, lockVars
  <2>6. /\ before' = Before(c) /\ mixed' = IF holds[c] = 0 THEN mixed \ {c} ELSE mixed
        /\ at[c] = "outside"
    BY <1>11 DEF spinlock_try_acquire
  <2>7. CASE d # c
    <3>1. before'[d] = before[d] /\ (d \in mixed' <=> d \in mixed)
      BY <1>0, <2>6, <2>7 DEF Before
    <3> QED BY <1>5, <2>1, <2>2, <2>3, <2>4, <2>5, <2>7, <3>1 DEF AsBefore, Keeps
  <2>8. CASE d = c /\ holds[c] = 0
    <3>1. before'[c] = enabled[c]
      BY <1>0, <2>6, <2>8 DEF Before
    <3> QED BY <2>1, <2>2, <2>4, <2>8, <3>1 DEF AsBefore, Keeps
  <2>9. CASE d = c /\ holds[c] # 0
    <3>1. before' = before /\ mixed' = mixed
      BY <2>6, <2>9 DEF Before
    <3> QED BY <1>1, <1>5, <2>1, <2>2, <2>5, <2>9, <3>1 DEF AsBefore, Keeps
  <2> QED BY <2>7, <2>8, <2>9
<1>12. ASSUME NEW c \in CPUs, TryFails(c) PROVE AsBefore(d)'
  <2>1. at'[c] = "outside" /\ \A e \in CPUs : e # c => at'[e] = at[e]
    BY <1>0, <1>12, PlaceMoves DEF TryFails
  <2>2. holds'[c] = holds[c] /\ \A e \in CPUs : e # c => holds'[e] = holds[e]
    BY <1>12 DEF TryFails
  <2>3. enabled'[c] = flags[c] /\ \A e \in CPUs : e # c => enabled'[e] = enabled[e]
    BY <1>0, <1>12 DEF TryFails, AfterFailed
  <2>4. flags' = flags
    BY <1>12 DEF TryFails
  <2>5. interrupt_flags' = interrupt_flags /\ before' = before /\ mixed' = mixed
    BY <1>12 DEF TryFails, lockVars, ghosts
  <2> QED BY <1>1, <1>4, <1>5, <1>12, <2>1, <2>2, <2>3, <2>4, <2>5
          DEF TryFails, AsBefore, Keeps, InsideLocks, WithoutHolds, Inside, Without
<1>13. ASSUME NEW c \in CPUs, TryTakes(c) PROVE AsBefore(d)'
  <2>1. at'[c] = "try_own" /\ \A e \in CPUs : e # c => at'[e] = at[e]
    BY <1>0, <1>13, PlaceMoves DEF TryTakes
  <2>2. holds'[c] = holds[c] /\ \A e \in CPUs : e # c => holds'[e] = holds[e]
    BY <1>13 DEF TryTakes
  <2>3. enabled' = enabled
    BY <1>13 DEF TryTakes
  <2>4. flags' = flags
    BY <1>13 DEF TryTakes
  <2>5. interrupt_flags' = interrupt_flags /\ before' = before /\ mixed' = mixed
    BY <1>13 DEF TryTakes, lockVars, ghosts
  <2> QED BY <1>1, <1>4, <1>5, <1>13, <2>1, <2>2, <2>3, <2>4, <2>5
          DEF TryTakes, AsBefore, Keeps, InsideLocks, WithoutHolds, Inside, Without, Free
<1>14. ASSUME NEW c \in CPUs, TryOwns(c) PROVE AsBefore(d)'
  <2>1. at'[c] = "try_flags" /\ \A e \in CPUs : e # c => at'[e] = at[e]
    BY <1>0, <1>14, PlaceMoves DEF TryOwns
  <2>2. holds'[c] = holds[c] /\ \A e \in CPUs : e # c => holds'[e] = holds[e]
    BY <1>14 DEF TryOwns
  <2>3. enabled' = enabled
    BY <1>14 DEF TryOwns
  <2>4. flags' = flags
    BY <1>14 DEF TryOwns
  <2>5. interrupt_flags' = interrupt_flags /\ before' = before /\ mixed' = mixed
    BY <1>14 DEF TryOwns, lockVars, ghosts
  <2> QED BY <1>1, <1>4, <1>5, <1>14, <2>1, <2>2, <2>3, <2>4, <2>5
          DEF TryOwns, AsBefore, Keeps, InsideLocks, WithoutHolds, Inside, Without
<1>15. ASSUME NEW c \in CPUs, TryKeepsFlags(c) PROVE AsBefore(d)'
  <2>1. at'[c] = "outside" /\ \A e \in CPUs : e # c => at'[e] = at[e]
    BY <1>0, <1>15, PlaceMoves DEF TryKeepsFlags
  <2>2. holds'[c] = holds[c] + 1 /\ \A e \in CPUs : e # c => holds'[e] = holds[e]
    BY <1>0, <1>15, Counts DEF TryKeepsFlags
  <2>3. enabled' = enabled
    BY <1>15 DEF TryKeepsFlags
  <2>4. flags' = flags
    BY <1>15 DEF TryKeepsFlags
  <2>5. interrupt_flags' = flags[c] /\ before' = before /\ at[c] = "try_flags"
    BY <1>15 DEF TryKeepsFlags, StoresFlags
  <2>6. CASE d = c
    <3>1. holds[c] = 0
      BY <1>4, <2>5 DEF WithoutHolds, Without
    <3>2. flags[c] = before[c]
      BY <1>5, <2>5, <2>6, <3>1 DEF AsBefore
    <3> QED BY <2>1, <2>2, <2>5, <2>6, <3>1, <3>2 DEF AsBefore, Keeps
  <2>7. CASE d # c
    <3>1. d \in mixed' <=> d \in mixed \/ (Keeps(d) /\ before[d] # flags[c])
      BY <1>15, <2>7 DEF TryKeepsFlags, StoresFlags
    <3> QED BY <1>5, <2>1, <2>2, <2>3, <2>4, <2>5, <2>7, <3>1 DEF AsBefore, Keeps
  <2> QED BY <2>6, <2>7
<1>16. ASSUME NEW c \in CPUs, spinlock_release(c) PROVE AsBefore(d)'
  <2>1. /\ at'[c] \in {"outside", "release"}
        /\ \A e \in CPUs : e # c => at'[e] = at[e]
        /\ owner = c => at'[c] = "release"
    BY <1>0, <1>16 DEF spinlock_release, Goes
  <2>2. holds'[c] = holds[c] - 1 /\ \A e \in CPUs : e # c => holds'[e] = holds[e]
    BY <1>0, <1>16, Counts DEF spinlock_release
  <2>3. enabled' = enabled /\ flags' = flags
    BY <1>16 DEF spinlock_release
  <2>4. interrupt_flags' = interrupt_flags /\ before' = before /\ mixed' = mixed
    BY <1>16 DEF spinlock_release, ghosts
  <2> QED BY <1>1, <1>4, <1>5, <1>16, <2>1, <2>2, <2>3, <2>4
          DEF spinlock_release, AsBefore, Keeps, HolderOwns, HeldOnce
<1>17. ASSUME NEW c \in CPUs, Unlocks(c) PROVE AsBefore(d)'
  <2>1. at'[c] = "restore" /\ \A e \in CPUs : e # c => at'[e] = at[e]
    BY <1>0, <1>17, PlaceMoves DEF Unlocks
  <2>2. holds'[c] = holds[c] /\ \A e \in CPUs : e # c => holds'[e] = holds[e]
    BY <1>17 DEF Unlocks
  <2>3. enabled' = enabled
    BY <1>17 DEF Unlocks
  <2>4. flags' = flags
    BY <1>17 DEF Unlocks
  <2>5. interrupt_flags' = interrupt_flags /\ before' = before /\ mixed' = mixed
    BY <1>17 DEF Unlocks, lockVars, ghosts
  <2> QED BY <1>1, <1>4, <1>5, <1>17, <2>1, <2>2, <2>3, <2>4, <2>5
          DEF Unlocks, AsBefore, Keeps, InsideLocks, WithoutHolds, Inside, Without
<1>18. ASSUME NEW c \in CPUs, Restores(c) PROVE AsBefore(d)'
  <2>1. at'[c] = "outside" /\ \A e \in CPUs : e # c => at'[e] = at[e]
    BY <1>0, <1>18, PlaceMoves DEF Restores
  <2>2. holds'[c] = holds[c] /\ \A e \in CPUs : e # c => holds'[e] = holds[e]
    BY <1>18 DEF Restores
  <2>3. enabled'[c] = interrupt_flags /\ \A e \in CPUs : e # c => enabled'[e] = enabled[e]
    BY <1>0, <1>18 DEF Restores
  <2>4. flags' = flags
    BY <1>18 DEF Restores
  <2>5. interrupt_flags' = interrupt_flags /\ before' = before /\ mixed' = mixed
    BY <1>18 DEF Restores, lockVars, ghosts
  <2> QED BY <1>1, <1>4, <1>5, <1>18, <2>1, <2>2, <2>3, <2>4, <2>5
          DEF Restores, AsBefore, Keeps, InsideLocks, WithoutHolds, Inside, Without
<1> QED BY <1>6, <1>7, <1>8, <1>9, <1>10, <1>11, <1>12, <1>13, <1>14, <1>15, <1>16, <1>17, <1>18 DEF SpinNext

-----------------------------------------------------------------------------
(***************************************************************************)
(* spinlock_acquire and spinlock_try_acquire never let two processors in   *)
(* at a time, as long as none calls for a lock it holds: the test-and-set  *)
(* alone decides, the owner that is written after it and cleared before    *)
(* locked is never taken for another's.                                    *)
(***************************************************************************)
THEOREM SpinExcludes == SpinSpec => []SpinExclusion
<1>1. SpinInit => SpinTypeOK /\ SpinInv
  BY SpinlockAssumption DEF SpinInit, SpinTypeOK, Bit, SpinInv, OneInside, InsideLocks, WithoutHolds, HeldOnce, OwnerHolds, HolderOwns, Inside, Without, Place
<1>2. SpinInv => SpinExclusion
  BY DEF SpinInv, SpinExclusion, OneInside
<1> QED BY <1>1, <1>2, SpinTypeStep, SpinStep, PTL DEF SpinSpec

(***************************************************************************)
(* However the calls of the processors interleave, each has its interrupts *)
(* as before when it has left, unless another call stored other flags over *)
(* its own in the meantime: spinlock_release and the failing paths of      *)
(* spinlock_try_acquire give back what was saved.                          *)
(***************************************************************************)
THEOREM SpinFlagsRestored == SpinSpec => []FlagsRestored
<1>1. SpinInit => SpinTypeOK /\ SpinInv
  BY SpinlockAssumption DEF SpinInit, SpinTypeOK, Bit, SpinInv, OneInside, InsideLocks, WithoutHolds, HeldOnce, OwnerHolds, HolderOwns, Inside, Without, Place
<1>2. SpinInit => FlagsInv
  <2> SUFFICES ASSUME SpinInit, NEW c \in CPUs PROVE AsBefore(c)
    BY DEF FlagsInv
  <2>1. at[c] = "outside" /\ holds[c] = 0 /\ enabled[c] = before[c]
    BY DEF SpinInit
  <2> QED BY <2>1 DEF AsBefore, Keeps
<1>3. FlagsInv => FlagsRestored
  BY DEF FlagsInv, FlagsRestored, AsBefore
<1> QED BY <1>1, <1>2, <1>3, SpinTypeStep, SpinStep, FlagsStep, PTL DEF SpinSpec

-----------------------------------------------------------------------------
\* Capabilities.

CapEntry == [active : BOOLEAN, pid : Pids \cup {0}, caps : SUBSET Caps]

CapTypeOK ==
    /\ cap_table \in [Entry -> CapEntry]
    /\ sec_initialized \in BOOLEAN
    /\ granted \in [Pids -> SUBSET Caps]

\* A pid has at most one entry, so that the first one found is all of it.
OneEntry ==
    \A i, j \in Entry :
        cap_table[i].active /\ cap_table[j].active /\ cap_table[i].pid = cap_table[j].pid => i = j

\* An entry holds what is granted, and who has no entry was granted nothing.
EntriesAsGranted ==
    \A pid \in Pids :
        /\ \A i \in sec_find_entry(pid) : cap_table[i].caps = granted[pid]
        /\ sec_find_entry(pid) = {} => granted[pid] = {}

\* Before sec_init nothing is granted and no entry is in use.
NothingBefore == ~sec_initialized => \A i \in Entry : ~cap_table[i].active

CapInv == CapTypeOK /\ OneEntry /\ EntriesAsGranted /\ NothingBefore

\* The entry that sec_find_entry and sec_alloc_entry choose is one of those they look for.
LEMMA FirstIn == ASSUME NEW S \in SUBSET Entry, S # {} PROVE First(S) \in S
<1>1. S \in SUBSET Nat
  BY CapabilitiesAssumption DEF Entry
<1>2. \E i \in S : \A j \in S : i <= j
  BY <1>1, LeastElement
<1> QED BY <1>2 DEF First

\* The entry that memset leaves is an entry, and not active.
LEMMA NoEntryType == NoEntry \in CapEntry /\ ~NoEntry.active
BY DEF NoEntry, CapEntry

\* The table that memset left.
LEMMA EmptyTable ==
    ASSUME NEW t, t = [i \in Entry |-> NoEntry]
    PROVE  t \in [Entry -> CapEntry] /\ \A i \in Entry : ~t[i].active
BY NoEntryType

\* The empty table answers as nothing was granted.
LEMMA CapsInit == CapInit => CapInv
<1> SUFFICES ASSUME CapInit PROVE CapInv
  OBVIOUS
<1>1. cap_table \in [Entry -> CapEntry] /\ \A i \in Entry : ~cap_table[i].active
  BY EmptyTable DEF CapInit
<1>2. CapTypeOK
  BY <1>1 DEF CapInit, CapTypeOK
<1>3. OneEntry /\ NothingBefore
  BY <1>1 DEF OneEntry, NothingBefore
<1>4. EntriesAsGranted
  BY <1>1 DEF CapInit, EntriesAsGranted, sec_find_entry
<1> QED BY <1>2, <1>3, <1>4 DEF CapInv

\* The entry that sec_grant_cap and sec_revoke_cap write, and only that.
LEMMA WritesEntry ==
    ASSUME CapInv, NEW pid \in Pids, NEW k \in Entry, NEW caps \in SUBSET Caps,
           k \in sec_find_entry(pid) \/ (sec_find_entry(pid) = {} /\ ~cap_table[k].active),
           sec_initialized, sec_initialized' = sec_initialized,
           NEW e \in CapEntry, e.active, e.pid = pid, e.caps = caps,
           cap_table' = [cap_table EXCEPT ![k] = e],
           granted' = [granted EXCEPT ![pid] = caps]
    PROVE  CapInv'
<1>0. cap_table \in [Entry -> CapEntry] /\ granted \in [Pids -> SUBSET Caps]
  BY DEF CapInv, CapTypeOK
<1>2. CapTypeOK'
  BY <1>0 DEF CapInv, CapTypeOK
<1>3. /\ cap_table'[k].active /\ cap_table'[k].pid = pid /\ cap_table'[k].caps = caps
      /\ \A i \in Entry \ {k} : cap_table'[i] = cap_table[i]
  BY <1>0
<1>4. \A i \in Entry \ {k} : ~(cap_table[i].active /\ cap_table[i].pid = pid)
  BY DEF CapInv, OneEntry, sec_find_entry
<1>5. OneEntry'
  BY <1>3, <1>4 DEF CapInv, OneEntry
<1>6. granted'[pid] = caps /\ \A q \in Pids \ {pid} : granted'[q] = granted[q]
  BY <1>0
<1>7. sec_find_entry(pid)' = {k}
  BY <1>3, <1>4 DEF sec_find_entry
<1>8. \A q \in Pids \ {pid} : k \notin sec_find_entry(q)
  BY DEF sec_find_entry
<1>9. \A q \in Pids \ {pid} : k \notin sec_find_entry(q)'
  BY <1>3 DEF sec_find_entry
<1>10. \A q \in Pids \ {pid} : sec_find_entry(q)' = sec_find_entry(q)
  BY <1>3, <1>8, <1>9 DEF sec_find_entry
<1>11. EntriesAsGranted'
  <2>1. ASSUME NEW q \in Pids, q # pid
        PROVE  /\ \A i \in sec_find_entry(q)' : cap_table'[i].caps = granted'[q]
               /\ sec_find_entry(q)' = {} => granted'[q] = {}
    <3>1. sec_find_entry(q)' = sec_find_entry(q) /\ granted'[q] = granted[q]
      BY <1>6, <1>10, <2>1
    <3>2. \A i \in sec_find_entry(q) : cap_table'[i] = cap_table[i]
      BY <1>3, <1>8, <2>1 DEF sec_find_entry
    <3> QED BY <3>1, <3>2 DEF CapInv, EntriesAsGranted
  <2>2. /\ \A i \in sec_find_entry(pid)' : cap_table'[i].caps = granted'[pid]
        /\ sec_find_entry(pid)' = {} => granted'[pid] = {}
    BY <1>3, <1>6, <1>7
  <2> QED BY <2>1, <2>2 DEF EntriesAsGranted
<1>12. NothingBefore'
  BY Zenon DEF NothingBefore
<1> QED BY <1>2, <1>5, <1>11, <1>12 DEF CapInv

\* Each step keeps the inductive invariant.
LEMMA CapsNext == CapInv /\ [CapNext]_capVars => CapInv'
<1> SUFFICES ASSUME CapInv, [CapNext]_capVars PROVE CapInv'
  OBVIOUS
<1>0. cap_table \in [Entry -> CapEntry] /\ granted \in [Pids -> SUBSET Caps]
  BY DEF CapInv, CapTypeOK
<1>1. CASE UNCHANGED capVars
  BY <1>1 DEF capVars, CapInv, CapTypeOK, OneEntry, EntriesAsGranted, NothingBefore, sec_find_entry
<1>2. CASE sec_init
  <2>1. cap_table' \in [Entry -> CapEntry] /\ \A i \in Entry : ~cap_table'[i].active
    BY <1>2, EmptyTable DEF sec_init
  <2>2. \A pid \in Pids : sec_find_entry(pid) = {} /\ granted[pid] = {}
    <3>1. \A i \in Entry : ~cap_table[i].active
      BY <1>2, Zenon DEF sec_init, CapInv, NothingBefore
    <3>2. \A pid \in Pids : sec_find_entry(pid) = {}
      BY <3>1 DEF sec_find_entry
    <3> QED BY <3>2 DEF CapInv, EntriesAsGranted
  <2>3. CapTypeOK'
    BY <1>0, <1>2, <2>1 DEF sec_init, CapTypeOK
  <2>4. OneEntry' /\ NothingBefore'
    BY <2>1 DEF OneEntry, NothingBefore
  <2>5. EntriesAsGranted'
    BY <1>2, <2>1, <2>2 DEF sec_init, EntriesAsGranted, sec_find_entry
  <2> QED BY <2>3, <2>4, <2>5 DEF CapInv
<1>3. ASSUME NEW pid \in Pids, NEW caps \in SUBSET Caps, sec_grant_cap(pid, caps) PROVE CapInv'
  <2> DEFINE k == First(GrantEntries(pid))
             all == caps \cup (IF cap_table[k].active THEN cap_table[k].caps ELSE {})
  <2>1. k \in GrantEntries(pid) /\ k \in Entry
    <3>1. GrantEntries(pid) \in SUBSET Entry /\ GrantEntries(pid) # {}
      BY <1>3 DEF sec_grant_cap, GrantEntries, sec_find_entry, sec_alloc_entry
    <3> QED BY <3>1, FirstIn
  <2>2. /\ cap_table' = [cap_table EXCEPT ![k] = [active |-> TRUE, pid |-> pid, caps |-> all]]
        /\ granted' = [granted EXCEPT ![pid] = granted[pid] \cup caps]
        /\ sec_initialized /\ sec_initialized' = sec_initialized
    BY <1>3 DEF sec_grant_cap
  <2> HIDE DEF k
  <2>3. k \in sec_find_entry(pid) \/ (sec_find_entry(pid) = {} /\ ~cap_table[k].active)
    BY <2>1 DEF GrantEntries, sec_alloc_entry
  <2>4. all = granted[pid] \cup caps
    <3>1. CASE k \in sec_find_entry(pid)
      <4>1. cap_table[k].active /\ cap_table[k].caps = granted[pid]
        BY <3>1 DEF CapInv, EntriesAsGranted, sec_find_entry
      <4> QED BY <4>1
    <3>2. CASE sec_find_entry(pid) = {} /\ ~cap_table[k].active
      BY <3>2 DEF CapInv, EntriesAsGranted
    <3> QED BY <2>3, <3>1, <3>2
  <2>5. all \in SUBSET Caps
    BY <1>0, <2>4
  <2> HIDE DEF all
  <2>6. granted' = [granted EXCEPT ![pid] = all]
    BY <2>2, <2>4
  <2> DEFINE e == [active |-> TRUE, pid |-> pid, caps |-> all]
  <2>7. e \in CapEntry /\ e.active /\ e.pid = pid /\ e.caps = all
    BY <2>5 DEF CapEntry
  <2>8. cap_table' = [cap_table EXCEPT ![k] = e]
    BY <2>2, Zenon
  <2>9. sec_initialized /\ sec_initialized' = sec_initialized
    BY <2>2, Zenon
  <2> HIDE DEF e
  <2> QED BY <2>1, <2>3, <2>5, <2>6, <2>7, <2>8, <2>9, WritesEntry, Zenon
<1>4. ASSUME NEW pid \in Pids, NEW caps \in SUBSET Caps, sec_revoke_cap(pid, caps) PROVE CapInv'
  <2> DEFINE k == First(sec_find_entry(pid))
             rest == granted[pid] \ caps
  <2>1. k \in sec_find_entry(pid) /\ k \in Entry
    <3>1. sec_find_entry(pid) \in SUBSET Entry /\ sec_find_entry(pid) # {}
      BY <1>4 DEF sec_revoke_cap, sec_find_entry
    <3> QED BY <3>1, FirstIn
  <2>2. /\ cap_table' = [cap_table EXCEPT ![k] = [cap_table[k] EXCEPT !.caps = cap_table[k].caps \ caps]]
        /\ granted' = [granted EXCEPT ![pid] = rest]
        /\ sec_initialized /\ sec_initialized' = sec_initialized
    BY <1>4 DEF sec_revoke_cap
  <2> HIDE DEF k
  <2>3. cap_table[k].active /\ cap_table[k].pid = pid /\ cap_table[k].caps = granted[pid]
    BY <2>1 DEF CapInv, EntriesAsGranted, sec_find_entry
  <2>4. cap_table[k] \in CapEntry
    BY <1>0, <2>1
  <2> DEFINE e == [cap_table[k] EXCEPT !.caps = cap_table[k].caps \ caps]
  <2>5. e.pid = pid /\ e.caps = rest /\ e.active = cap_table[k].active
    BY <2>3, <2>4 DEF CapEntry
  <2>6. rest \in SUBSET Caps
    BY <1>0
  <2> HIDE DEF rest
  <2>7. e \in CapEntry
    <3>1. cap_table[k].caps \ caps \in SUBSET Caps
      BY <2>4 DEF CapEntry
    <3> QED BY <2>4, <3>1 DEF CapEntry
  <2>8. cap_table' = [cap_table EXCEPT ![k] = e] /\ e.active
    BY <2>2, <2>3, <2>5, Zenon
  <2> HIDE DEF e
  <2> QED BY <2>1, <2>2, <2>5, <2>6, <2>7, <2>8, WritesEntry, Zenon
<1> QED BY <1>1, <1>2, <1>3, <1>4 DEF CapNext

(***************************************************************************)
(* sec_check_cap answers by what sec_grant_cap and sec_revoke_cap were     *)
(* asked for, for any size of the table.                                   *)
(***************************************************************************)
THEOREM CapsCorrect == CapSpec => []CapsAsGranted
<1>1. CapInv => CapsAsGranted
  <2> SUFFICES ASSUME CapInv, NEW pid \in Pids, NEW caps \in (SUBSET Caps) \ {{}}
               PROVE  sec_check_cap(pid, caps) <=> caps \subseteq granted[pid]
    BY Zenon DEF CapsAsGranted
  <2>1. CASE sec_find_entry(pid) = {}
    <3>1. granted[pid] = {}
      BY <2>1 DEF CapInv, EntriesAsGranted
    <3>2. caps # {}
      OBVIOUS
    <3>3. ~(caps \subseteq granted[pid])
      BY <3>1, <3>2, Zenon
    <3> QED BY <2>1, <3>3, Zenon DEF sec_check_cap
  <2>2. CASE sec_find_entry(pid) # {}
    <3>1. First(sec_find_entry(pid)) \in sec_find_entry(pid)
      BY <2>2, FirstIn DEF sec_find_entry
    <3>2. cap_table[First(sec_find_entry(pid))].caps = granted[pid]
      BY <3>1 DEF CapInv, EntriesAsGranted
    <3>3. sec_initialized
      BY <3>1, Zenon DEF CapInv, NothingBefore, sec_find_entry
    <3> QED BY <2>2, <3>2, <3>3 DEF sec_check_cap, sec_get_caps
  <2> QED BY <2>1, <2>2
<1> QED BY <1>1, CapsInit, CapsNext, PTL DEF CapSpec

-----------------------------------------------------------------------------
\* Interrupts: the controllers and the timer driver.

(***************************************************************************)
(* The lines in service are those of the interrupt that is entered.        *)
(***************************************************************************)
LinesInv ==
    /\ entered \in {Out} \cup (Vector \X BOOLEAN)
    /\ int_flag \in BOOLEAN
    /\ handling \in BOOLEAN /\ (handling => entered # Out /\ entered[1] \in Irqs)
    /\ LinesAcknowledged
    /\ entered # Out /\ entered[1] = 32 /\ ~handling => pic1 = {0} /\ pic2 = {}
    /\ entered # Out /\ entered[1] = 40 /\ ~handling => pic1 = {2} /\ pic2 = {0}

(***************************************************************************)
(* The end of the only interrupt in service leaves none.                   *)
(***************************************************************************)
LEMMA EndOfOne == ASSUME NEW k \in Nat PROVE EndOfInterrupt({k}) = {}
<1>1. Min({k}) \in {k}
  <2>1. \E l \in {k} : \A m \in {k} : l <= m
    OBVIOUS
  <2> QED
    BY <2>1 DEF Min
<1> QED
  BY <1>1 DEF EndOfInterrupt

(***************************************************************************)
(* Every step keeps the lines in service those of the entered interrupt.   *)
(***************************************************************************)
LEMMA LinesInvNext == LinesInv /\ [IntNext]_intVars => LinesInv'
<1> SUFFICES ASSUME LinesInv, [IntNext]_intVars PROVE LinesInv'
  OBVIOUS
<1>0. ASSUME UNCHANGED <<entered, handling, int_flag, picVars>> PROVE LinesInv'
  BY <1>0 DEF LinesInv, LinesAcknowledged, picVars
<1>1. CASE UNCHANGED intVars
  BY <1>0, <1>1 DEF intVars
<1>2. ASSUME entered = Out, UNCHANGED <<entered, handling, picVars>>, int_flag' \in BOOLEAN PROVE LinesInv'
  BY <1>2 DEF LinesInv, LinesAcknowledged, picVars
<1>3. CASE idt_install \/ crash_handler_init \/ timer_init \/ AddReturns \/ WaitReturns
  BY <1>0, <1>3 DEF idt_install, crash_handler_init, timer_init, AddReturns, WaitReturns
<1>4. CASE enable_interrupts \/ disable_interrupts
  BY <1>2, <1>4 DEF enable_interrupts, disable_interrupts, Thread
<1>5. ASSUME NEW n \in DriverVectors, irq_install_handler(n) \/ irq_uninstall_handler(n) PROVE LinesInv'
  BY <1>0, <1>5 DEF irq_install_handler, irq_uninstall_handler
<1>6. ASSUME NEW ms \in Intervals, timer_add_callback(ms) PROVE LinesInv'
  BY <1>0, <1>6 DEF timer_add_callback
<1>7. ASSUME NEW i \in Callback, timer_remove_callback(i) PROVE LinesInv'
  BY <1>0, <1>7 DEF timer_remove_callback
<1>8. ASSUME NEW ticks \in 0 .. WORD - 1, timer_wait(ticks) PROVE LinesInv'
  BY <1>0, <1>8 DEF timer_wait
<1>9. ASSUME NEW n \in Irqs, Irq(n) PROVE LinesInv'
  <2>1. /\ pic1 = {} /\ pic2 = {} /\ entered' = <<n, int_flag>> /\ int_flag' = FALSE
        /\ handling' = handling /\ handling = FALSE
    BY <1>9 DEF Irq, Thread, LinesInv, LinesAcknowledged
  <2>2. entered' \in Vector \X BOOLEAN /\ entered' # Out /\ entered'[1] = n
    BY <2>1 DEF LinesInv, Vector, Out
  <2>3. CASE n = 32
    <3>1. pic1' = {0} /\ pic2' = {}
      BY <1>9, <2>1, <2>3 DEF Irq
    <3>2. entered'[1] = 32 /\ entered'[1] # 40 /\ entered'[1] \notin Faults
      BY <2>2, <2>3 DEF Faults
    <3> QED
      BY <2>1, <2>2, <3>1, <3>2, Zenon DEF LinesInv, LinesAcknowledged
  <2>4. CASE n = 40
    <3>1. pic1' = {2} /\ pic2' = {0}
      BY <1>9, <2>1, <2>4 DEF Irq
    <3>2. entered'[1] = 40 /\ entered'[1] # 32 /\ entered'[1] \notin Faults
      BY <2>2, <2>4 DEF Faults
    <3> QED
      BY <2>1, <2>2, <3>1, <3>2, Zenon DEF LinesInv, LinesAcknowledged
  <2> QED
    BY <2>3, <2>4 DEF Irqs
<1>10. ASSUME NEW n \in Faults, Fault(n) PROVE LinesInv'
  <2>1. /\ pic1' = {} /\ pic2' = {} /\ entered' = <<n, int_flag>> /\ int_flag' = FALSE
        /\ handling' = handling /\ handling = FALSE
    BY <1>10 DEF Fault, Thread, LinesInv, LinesAcknowledged, picVars
  <2>2. entered' \in Vector \X BOOLEAN /\ entered' # Out /\ entered'[1] = n
    BY <2>1 DEF LinesInv, Vector, Out
  <2>3. entered'[1] # 32 /\ entered'[1] # 40
    BY <2>2 DEF Faults
  <2> QED
    BY <2>1, <2>2, <2>3, Zenon DEF LinesInv, LinesAcknowledged
<1>11. CASE irq_handler
  <2>1. /\ entered # Out /\ entered[1] \in {32, 40} /\ entered[1] \in Irqs /\ ~handling
        /\ entered' = entered /\ handling' = TRUE /\ int_flag' = int_flag
    BY <1>11 DEF irq_handler, Irqs
  <2>3. pic1' = {} /\ pic2' = {}
    <3>1. CASE entered[1] = 32
      BY <1>11, <2>1, <3>1, EndOfOne DEF irq_handler, LinesInv, OfSecond
    <3>2. CASE entered[1] = 40
      BY <1>11, <2>1, <3>2, EndOfOne DEF irq_handler, LinesInv, OfSecond
    <3> QED
      BY <2>1, <3>1, <3>2
  <2> QED
    BY <2>1, <2>3 DEF LinesInv, LinesAcknowledged
<1>12. CASE isr_handler
  <2>0. handling = FALSE
    BY <1>12 DEF isr_handler, LinesInv, Irqs, Faults
  <2>1. /\ entered # Out /\ entered[2] \in BOOLEAN /\ pic1 = {} /\ pic2 = {}
    BY <1>12 DEF isr_handler, LinesInv, LinesAcknowledged
  <2>2. entered' = Out /\ int_flag' = entered[2] /\ pic1' = {} /\ pic2' = {} /\ handling' = handling
    BY <1>12, <2>1 DEF isr_handler, Iret, picVars
  <2> QED
    BY <2>0, <2>1, <2>2 DEF LinesInv, LinesAcknowledged
<1>13. CASE crash_dump
  BY <1>0, <1>13 DEF crash_dump
<1>14. CASE HandlerReturns \/ HandlerSwitches
  <2>1. entered # Out /\ entered[2] \in BOOLEAN /\ pic1 = {} /\ pic2 = {}
    BY <1>14 DEF HandlerReturns, HandlerSwitches, LinesInv, LinesAcknowledged
  <2>2. entered' = Out /\ int_flag' \in BOOLEAN /\ pic1' = {} /\ pic2' = {} /\ handling' = FALSE
    BY <1>14, <2>1 DEF HandlerReturns, HandlerSwitches, Iret, picVars
  <2> QED
    BY <2>2 DEF LinesInv, LinesAcknowledged
<1> QED
  BY <1>1, <1>3, <1>4, <1>5, <1>6, <1>7, <1>8, <1>9, <1>10, <1>11, <1>12, <1>13, <1>14 DEF IntNext

(***************************************************************************)
(* Whatever is entered, raised and installed, no line is left in service   *)
(* after its interrupt or while its handler runs.                          *)
(***************************************************************************)
THEOREM InterruptLinesAcknowledged == IntSpec => []LinesAcknowledged
<1>1. IntInit => LinesInv
  BY DEF IntInit, LinesInv, LinesAcknowledged, Out
<1>2. LinesInv => LinesAcknowledged
  BY DEF LinesInv
<1> QED
  BY <1>1, <1>2, LinesInvNext, PTL DEF IntSpec

-----------------------------------------------------------------------------
Every(cb) == IF cb.interval = 0 THEN 1 ELSE cb.interval

TimerCallback == [active : BOOLEAN, interval : Nat, counter : Nat, gap : Nat, gaps : SUBSET Nat]

\* timer_handler has called it on every interval-th run.
Regular(cb) == cb.counter = cb.gap /\ cb.gap < Every(cb) /\ cb.gaps \subseteq {Every(cb)}

(***************************************************************************)
(* The counter of a callback that has been added counts the runs since the *)
(* last call, and the unsigned difference is the time a wait has run.      *)
(***************************************************************************)
CallbacksInv ==
    /\ timer_callbacks \in [Callback -> TimerCallback]
    /\ adding = NotAdding \/ adding \in Callback \X Nat
    /\ \A i \in Callback :
          timer_callbacks[i].active /\ (adding = NotAdding \/ adding[1] # i) => Regular(timer_callbacks[i])

WaitInv ==
    /\ tick_count \in 0 .. WORD - 1
    /\ wait \in [running : BOOLEAN, start : 0 .. WORD - 1, ticks : 0 .. WORD - 1, elapsed : 0 .. WORD - 1]
    /\ wait.running => (tick_count - wait.start) % WORD = wait.elapsed
    /\ ~wait.running => wait.elapsed >= wait.ticks

(***************************************************************************)
(* A tick keeps a callback regular: it is called when its interval is over *)
(* and its counter starts again.                                           *)
(***************************************************************************)
LEMMA TickedRegular ==
    ASSUME NEW cb \in TimerCallback
    PROVE  /\ Ticked(cb) \in TimerCallback
           /\ Ticked(cb).active = cb.active
           /\ cb.active /\ Regular(cb) => Regular(Ticked(cb))
<1>1. CASE ~cb.active
  BY <1>1 DEF Ticked
<1>2. CASE cb.active /\ Due(cb)
  <2>1. Ticked(cb) = [cb EXCEPT !.counter = 0, !.gap = 0, !.gaps = @ \cup {cb.gap + 1}]
    BY <1>2 DEF Ticked
  <2>0. cb.gap + 1 \in Nat /\ cb.gaps \cup {cb.gap + 1} \in SUBSET Nat
    BY DEF TimerCallback
  <2>2. Ticked(cb) \in TimerCallback
    <3> DEFINE g == cb.gaps \cup {cb.gap + 1}
    <3>1. Ticked(cb) = [cb EXCEPT !.counter = 0, !.gap = 0, !.gaps = g] /\ g \in SUBSET Nat
      BY <2>0, <2>1, Zenon
    <3> HIDE DEF g
    <3>2. /\ cb.active \in BOOLEAN /\ cb.interval \in Nat
          /\ cb = [active |-> cb.active, interval |-> cb.interval, counter |-> cb.counter,
                   gap |-> cb.gap, gaps |-> cb.gaps]
      BY DEF TimerCallback
    <3>3. Ticked(cb) = [active |-> cb.active, interval |-> cb.interval, counter |-> 0,
                        gap |-> 0, gaps |-> g]
      BY <3>1, <3>2
    <3>4. 0 \in Nat
      OBVIOUS
    <3> QED
      BY <3>1, <3>2, <3>3, <3>4, Zenon DEF TimerCallback
  <2>3. /\ Ticked(cb).counter = 0 /\ Ticked(cb).gap = 0 /\ Ticked(cb).interval = cb.interval
        /\ Ticked(cb).gaps = cb.gaps \cup {cb.gap + 1} /\ Ticked(cb).active = cb.active
    BY <2>1 DEF TimerCallback
  <2>4. ASSUME Regular(cb) PROVE Regular(Ticked(cb))
    <3>1. /\ cb.interval \in Nat /\ cb.gap \in Nat /\ cb.counter = cb.gap /\ cb.gap < Every(cb)
          /\ cb.gaps \subseteq {Every(cb)} /\ cb.gap + 1 >= cb.interval
      BY <1>2, <2>4 DEF Regular, Due, TimerCallback
    <3>2. cb.gap + 1 = Every(cb) /\ Every(cb) > 0
      BY <3>1 DEF Every
    <3>3. Every(Ticked(cb)) = Every(cb)
      BY <2>3 DEF Every
    <3> QED
      BY <2>3, <3>1, <3>2, <3>3 DEF Regular
  <2> QED
    BY <2>2, <2>3, <2>4
<1>3. CASE cb.active /\ ~Due(cb)
  <2>1. Ticked(cb) = [cb EXCEPT !.counter = @ + 1, !.gap = @ + 1]
    BY <1>3 DEF Ticked
  <2>0. cb.gap + 1 \in Nat /\ cb.counter + 1 \in Nat
    BY DEF TimerCallback
  <2>2. Ticked(cb) \in TimerCallback
    BY <2>0, <2>1 DEF TimerCallback
  <2>3. /\ Ticked(cb).counter = cb.counter + 1 /\ Ticked(cb).gap = cb.gap + 1
        /\ Ticked(cb).interval = cb.interval
        /\ Ticked(cb).gaps = cb.gaps /\ Ticked(cb).active = cb.active
    BY <2>1 DEF TimerCallback
  <2>4. ASSUME Regular(cb) PROVE Regular(Ticked(cb))
    <3>1. /\ cb.interval \in Nat /\ cb.gap \in Nat /\ cb.counter = cb.gap /\ cb.gap < Every(cb)
          /\ cb.gaps \subseteq {Every(cb)} /\ ~(cb.gap + 1 >= cb.interval)
      BY <1>3, <2>4 DEF Regular, Due, TimerCallback
    <3>2. cb.gap + 1 < Every(cb)
      BY <3>1 DEF Every
    <3>3. Every(Ticked(cb)) = Every(cb)
      BY <2>3 DEF Every
    <3> QED
      BY <2>3, <3>1, <3>2, <3>3 DEF Regular
  <2> QED
    BY <2>2, <2>3, <2>4
<1> QED
  BY <1>1, <1>2, <1>3

(***************************************************************************)
(* An unused entry has the type of a callback and is not active.           *)
(***************************************************************************)
LEMMA NoCallbackOK == NoCallback \in TimerCallback /\ ~NoCallback.active
  BY DEF NoCallback, TimerCallback

(***************************************************************************)
(* A callback is regular once timer_add_callback has set its interval.     *)
(***************************************************************************)
LEMMA AddedRegular ==
    ASSUME NEW n \in Nat
    PROVE  LET cb == [NoCallback EXCEPT !.active = TRUE, !.interval = n]
           IN  cb \in TimerCallback /\ Regular(cb)
<1> DEFINE cb == [NoCallback EXCEPT !.active = TRUE, !.interval = n]
<1>1. /\ cb \in TimerCallback /\ cb.interval = n /\ cb.counter = NoCallback.counter
      /\ cb.gap = NoCallback.gap /\ cb.gaps = NoCallback.gaps
  BY NoCallbackOK DEF TimerCallback
<1>2. NoCallback.counter = 0 /\ NoCallback.gap = 0 /\ NoCallback.gaps = {}
  BY DEF NoCallback
<1> HIDE DEF cb
<1>3. cb.counter = 0 /\ cb.gap = 0 /\ cb.gaps = {} /\ cb.interval = n
  BY <1>1, <1>2
<1>4. Every(cb) > 0
  BY <1>3 DEF Every
<1>5. Regular(cb)
  BY <1>3, <1>4 DEF Regular
<1> QED
  BY <1>1, <1>5 DEF cb

(***************************************************************************)
(* timer_handler ticks every active callback and the clock of the waiters. *)
(***************************************************************************)
LEMMA HandlerKeeps ==
    ASSUME CallbacksInv, WaitInv, timer_handler
    PROVE  CallbacksInv' /\ WaitInv'
<1>1. /\ timer_callbacks' = [i \in Callback |-> Ticked(timer_callbacks[i])] /\ adding' = adding
      /\ \A i \in Callback : timer_callbacks[i] \in TimerCallback
  BY DEF timer_handler, CallbacksInv
<1>2. CallbacksInv'
  <2>1. timer_callbacks' \in [Callback -> TimerCallback]
    BY <1>1, TickedRegular
  <2>2. ASSUME NEW i \in Callback, timer_callbacks'[i].active, adding = NotAdding \/ adding[1] # i
        PROVE  Regular(timer_callbacks'[i])
    <3>1. timer_callbacks'[i] = Ticked(timer_callbacks[i]) /\ timer_callbacks[i] \in TimerCallback
      BY <1>1
    <3>2. timer_callbacks[i].active
      BY <2>2, <3>1, TickedRegular
    <3>3. Regular(timer_callbacks[i])
      BY <2>2, <3>2 DEF CallbacksInv
    <3> QED
      BY <3>1, <3>2, <3>3, TickedRegular
  <2> QED
    BY <1>1, <2>1, <2>2 DEF CallbacksInv
<1>3. WaitInv'
  <2> DEFINE h == tick_count
             t == wait.start
             N == WORD
             e == wait.elapsed
  <2>0. /\ h \in 0 .. N - 1 /\ t \in 0 .. N - 1 /\ N \in Nat \ {0} /\ e \in 0 .. N - 1
        /\ wait.running \in BOOLEAN
    BY InterruptsAssumption DEF WaitInv
  <2>1. tick_count' \in 0 .. N - 1
    BY <2>0, ModNext DEF timer_handler
  <2>2. CASE ~wait.running
    <3>1. wait' = wait
      BY <2>2 DEF timer_handler
    <3> QED
      BY <2>1, <2>2, <3>1 DEF WaitInv
  <2>3. CASE wait.running
    <3>1. wait' = [wait EXCEPT !.elapsed = @ + 1] /\ e < N - 1 /\ h' = (h + 1) % N /\ (h - t) % N = e
      BY <2>3 DEF timer_handler, WaitInv
    <3>2. /\ wait' \in [running : BOOLEAN, start : 0 .. N - 1, ticks : 0 .. N - 1, elapsed : 0 .. N - 1]
          /\ wait'.running /\ wait'.start = t /\ wait'.elapsed = e + 1
      <4>1. e + 1 \in 0 .. N - 1
        BY <2>0, <3>1
      <4> QED
        BY <2>3, <3>1, <4>1 DEF WaitInv
    <3>3. (h + 1) % N # t
      <4>1. (h - t) % N = IF h >= t THEN h - t ELSE h - t + N
        BY <2>0, ModDistance
      <4>2. (h + 1) % N = (IF h = N - 1 THEN 0 ELSE h + 1)
        BY <2>0, ModNext
      <4> HIDE DEF h, t, N, e
      <4> QED
        BY <2>0, <3>1, <4>1, <4>2
    <3>4. (((h + 1) % N) - t) % N = ((h - t) % N) + 1
      BY <2>0, <3>3, ModGrows
    <3>5. (tick_count' - wait'.start) % WORD = wait'.elapsed
      BY <3>1, <3>2, <3>4
    <3> QED
      BY <2>1, <3>2, <3>5 DEF WaitInv
  <2> QED
    BY <2>2, <2>3
<1> QED
  BY <1>2, <1>3

(***************************************************************************)
(* Every step keeps the callbacks regular and the waits timely.            *)
(***************************************************************************)
LEMMA TimeInvNext == CallbacksInv /\ WaitInv /\ [IntNext]_intVars => CallbacksInv' /\ WaitInv'
<1> SUFFICES ASSUME CallbacksInv, WaitInv, [IntNext]_intVars PROVE CallbacksInv' /\ WaitInv'
  OBVIOUS
<1>0. ASSUME UNCHANGED <<timer_callbacks, adding>> PROVE CallbacksInv'
  BY <1>0 DEF CallbacksInv
<1>00. ASSUME UNCHANGED <<tick_count, wait>> PROVE WaitInv'
  BY <1>00 DEF WaitInv
<1>1. ASSUME UNCHANGED timerVars PROVE CallbacksInv' /\ WaitInv'
  BY <1>0, <1>00, <1>1 DEF timerVars
<1>2. CASE UNCHANGED intVars
  BY <1>1, <1>2 DEF intVars
<1>3. CASE idt_install \/ crash_handler_init \/ enable_interrupts \/ disable_interrupts
  BY <1>1, <1>3 DEF idt_install, crash_handler_init, enable_interrupts, disable_interrupts
<1>4. ASSUME NEW n \in DriverVectors, irq_install_handler(n) \/ irq_uninstall_handler(n)
      PROVE CallbacksInv' /\ WaitInv'
  BY <1>1, <1>4 DEF irq_install_handler, irq_uninstall_handler
<1>5. ASSUME NEW n \in Irqs, Irq(n) PROVE CallbacksInv' /\ WaitInv'
  BY <1>1, <1>5 DEF Irq
<1>6. ASSUME NEW n \in Faults, Fault(n) PROVE CallbacksInv' /\ WaitInv'
  BY <1>1, <1>6 DEF Fault
<1>7. CASE irq_handler \/ HandlerReturns \/ HandlerSwitches \/ crash_dump
  BY <1>1, <1>7 DEF irq_handler, HandlerReturns, HandlerSwitches, crash_dump
<1>8. CASE isr_handler
  BY <1>1, <1>8, HandlerKeeps DEF isr_handler
<1>9. CASE timer_init
  <2>1. /\ timer_callbacks' = [i \in Callback |-> NoCallback] /\ adding' = adding
        /\ UNCHANGED <<tick_count, wait>>
    BY <1>9 DEF timer_init
  <2>2. CallbacksInv'
    BY <2>1, NoCallbackOK DEF CallbacksInv
  <2> QED
    BY <1>00, <2>1, <2>2
<1>10. CASE AddReturns
  <2> DEFINE new == [NoCallback EXCEPT !.active = TRUE, !.interval = adding[2]]
  <2>1. /\ timer_callbacks' = [timer_callbacks EXCEPT ![adding[1]] = new] /\ adding' = NotAdding
        /\ UNCHANGED <<tick_count, wait>> /\ adding \in Callback \X Nat
    BY <1>10 DEF AddReturns, CallbacksInv
  <2>2. new \in TimerCallback /\ Regular(new)
    BY <2>1, AddedRegular
  <2> HIDE DEF new
  <2>3. timer_callbacks' \in [Callback -> TimerCallback]
    BY <2>1, <2>2 DEF CallbacksInv
  <2>4. ASSUME NEW i \in Callback, timer_callbacks'[i].active PROVE Regular(timer_callbacks'[i])
    <3>1. CASE i = adding[1]
      BY <2>1, <2>2, <3>1 DEF CallbacksInv
    <3>2. CASE i # adding[1]
      BY <2>1, <2>4, <3>2 DEF CallbacksInv
    <3> QED
      BY <3>1, <3>2
  <2> QED
    BY <1>00, <2>1, <2>3, <2>4 DEF CallbacksInv
<1>11. ASSUME NEW ms \in Intervals, timer_add_callback(ms) PROVE CallbacksInv' /\ WaitInv'
  <2>1. PICK k \in Callback :
            /\ ~timer_callbacks[k].active
            /\ \A j \in Callback : j < k => timer_callbacks[j].active
            /\ timer_callbacks' = [timer_callbacks EXCEPT ![k].active = TRUE]
            /\ adding' = <<k, (ms * TPS) \div 1000>>
    BY <1>11, Zenon DEF timer_add_callback
  <2>2. (ms * TPS) \div 1000 \in Nat
    <3> DEFINE m == ms * TPS
    <3>1. m \in Nat
      BY InterruptsAssumption
    <3> HIDE DEF m
    <3>2. m \div 1000 \in Nat
      BY <3>1
    <3> QED
      BY <3>2 DEF m
  <2>3. adding' \in Callback \X Nat /\ adding'[1] = k /\ adding' # NotAdding /\ adding = NotAdding
    BY <1>11, <2>1, <2>2 DEF timer_add_callback, NotAdding
  <2>4. /\ timer_callbacks' \in [Callback -> TimerCallback]
        /\ \A i \in Callback : i # k => timer_callbacks'[i] = timer_callbacks[i]
    BY <2>1 DEF CallbacksInv, TimerCallback
  <2>5. CallbacksInv'
    BY <2>3, <2>4 DEF CallbacksInv
  <2> QED
    BY <1>00, <1>11, <2>5 DEF timer_add_callback
<1>12. ASSUME NEW k \in Callback, timer_remove_callback(k) PROVE CallbacksInv' /\ WaitInv'
  <2>1. /\ timer_callbacks' = [timer_callbacks EXCEPT ![k] = NoCallback] /\ adding' = adding
        /\ UNCHANGED <<tick_count, wait>>
    BY <1>12 DEF timer_remove_callback
  <2>2. CallbacksInv'
    BY <2>1, NoCallbackOK DEF CallbacksInv
  <2> QED
    BY <1>00, <2>1, <2>2
<1>13. ASSUME NEW ticks \in 0 .. WORD - 1, timer_wait(ticks) PROVE CallbacksInv' /\ WaitInv'
  <2>1. /\ wait' = [running |-> TRUE, start |-> tick_count, ticks |-> ticks, elapsed |-> 0]
        /\ UNCHANGED <<timer_callbacks, adding, tick_count>>
    BY <1>13 DEF timer_wait
  <2>2. tick_count - tick_count = 0 /\ 0 % WORD = 0 /\ 0 \in 0 .. WORD - 1
    BY InterruptsAssumption DEF WaitInv
  <2>3. wait' \in [running : BOOLEAN, start : 0 .. WORD - 1, ticks : 0 .. WORD - 1, elapsed : 0 .. WORD - 1]
    BY <2>1, <2>2 DEF WaitInv
  <2>4. wait'.running /\ wait'.start = tick_count /\ wait'.elapsed = 0
    BY <2>1
  <2>5. WaitInv'
    BY <2>1, <2>2, <2>3, <2>4 DEF WaitInv
  <2> QED
    BY <1>0, <2>1, <2>5
<1>14. CASE WaitReturns
  <2>1. /\ wait' = [wait EXCEPT !.running = FALSE] /\ wait.running /\ WaitOver
        /\ UNCHANGED <<timer_callbacks, adding, tick_count>>
    BY <1>14 DEF WaitReturns
  <2>2. wait.elapsed >= wait.ticks
    BY <2>1 DEF WaitInv, WaitOver
  <2>3. /\ wait' \in [running : BOOLEAN, start : 0 .. WORD - 1, ticks : 0 .. WORD - 1, elapsed : 0 .. WORD - 1]
        /\ ~wait'.running /\ wait'.elapsed = wait.elapsed /\ wait'.ticks = wait.ticks
    BY <2>1 DEF WaitInv
  <2>4. WaitInv'
    BY <2>1, <2>2, <2>3 DEF WaitInv
  <2> QED
    BY <1>0, <2>1, <2>4
<1> QED
  BY <1>2, <1>3, <1>4, <1>5, <1>6, <1>7, <1>8, <1>9, <1>10, <1>11, <1>12, <1>13, <1>14 DEF IntNext

(***************************************************************************)
(* A callback is called on time and a wait never ends early, across the    *)
(* wrap of tick_count, with timer_add_callback interrupted half way.       *)
(***************************************************************************)
THEOREM TimerOnTime == IntSpec => []OnTime
<1>1. IntInit => CallbacksInv /\ WaitInv
  <2> SUFFICES ASSUME IntInit PROVE CallbacksInv /\ WaitInv
    OBVIOUS
  <2>1. CallbacksInv
    BY NoCallbackOK DEF IntInit, CallbacksInv
  <2>2. 0 \in 0 .. WORD - 1
    BY InterruptsAssumption
  <2>3. WaitInv
    BY <2>2 DEF IntInit, WaitInv, NoWait
  <2> QED
    BY <2>1, <2>3
<1>2. CallbacksInv /\ WaitInv => OnTime
  <2> SUFFICES ASSUME CallbacksInv, WaitInv PROVE OnTime
    OBVIOUS
  <2>1. ASSUME NEW i \in Callback, timer_callbacks[i].active, adding = NotAdding \/ adding[1] # i
        PROVE  timer_callbacks[i].gaps \subseteq {Every(timer_callbacks[i])}
               /\ timer_callbacks[i].gap < Every(timer_callbacks[i])
    BY <2>1 DEF CallbacksInv, Regular
  <2>2. ~wait.running => wait.elapsed >= wait.ticks
    BY DEF WaitInv
  <2> QED
    BY <2>1, <2>2 DEF OnTime, Every
<1> QED
  BY <1>1, <1>2, TimeInvNext, PTL DEF IntSpec

-----------------------------------------------------------------------------
\* Logging.

Logged == {"nul", "info", "x", "nl", "panic"}

Rings == [buf : [Index -> Logged], head : Index, tail : Index, count : 0 .. KLOG_RING_SIZE]

(***************************************************************************)
(* Ring r has the characters s in the slots from tail on, and the next one *)
(* goes to the slot behind them.                                           *)
(***************************************************************************)
RingOf(r, s) ==
    /\ r \in Rings
    /\ r.head = (r.tail + r.count) % KLOG_RING_SIZE
    /\ s = RingSeq(r.buf, KLOG_RING_SIZE, r.tail, r.count)

(***************************************************************************)
(* Ring r after the first access of ring_putc, after the second, and when  *)
(* it is done.                                                             *)
(***************************************************************************)
Stored(r, c) == [r EXCEPT !.buf[r.head] = c]

Advanced(r, c) == [Stored(r, c) EXCEPT !.head = (@ + 1) % KLOG_RING_SIZE]

Put(r, c) ==
    [buf   |-> [r.buf EXCEPT ![r.head] = c],
     head  |-> (r.head + 1) % KLOG_RING_SIZE,
     tail  |-> IF r.count < KLOG_RING_SIZE THEN r.tail ELSE (r.tail + 1) % KLOG_RING_SIZE,
     count |-> IF r.count < KLOG_RING_SIZE THEN r.count + 1 ELSE r.count]

(***************************************************************************)
(* The ring was r, with the last characters, before the one ring_putc that *)
(* is in progress.                                                         *)
(***************************************************************************)
Tracks(r) ==
    /\ RingOf(r, recent)
    /\ (\A w \in Writers : putc[w] = "none") => ring = r
    /\ \A w \in Writers :
          /\ putc[w] # "none" => pending[w] # <<>>
          /\ putc[w] = "stored" => ring = Stored(r, Head(pending[w]))
          /\ putc[w] = "advanced" => ring = Advanced(r, Head(pending[w]))

LogTypes ==
    /\ log_initialized \in BOOLEAN
    /\ torn \in BOOLEAN
    /\ pending \in [Writers -> Seq(Logged)]
    /\ putc \in [Writers -> {"none", "stored", "advanced"}]

LogInv ==
    /\ LogTypes
    /\ ~torn => /\ \A v, w \in Writers : putc[v] # "none" /\ putc[w] # "none" => v = w
                /\ \E r : Tracks(r)
    /\ ~log_initialized => /\ ring = ZeroRing /\ recent = <<>>
                           /\ \A w \in Writers : pending[w] = <<>> /\ putc[w] = "none"

(***************************************************************************)
(* A character is stored behind the others and, when the ring is full,     *)
(* over the oldest of them (ring_putc).                                    *)
(***************************************************************************)
LEMMA PutKeepsRecent ==
    ASSUME NEW r, NEW s, RingOf(r, s), NEW c \in Logged
    PROVE  RingOf(Put(r, c), LastOf(Append(s, c)))
<1> DEFINE N == KLOG_RING_SIZE
           b == r.buf
           t == r.tail
           n == r.count
           h == r.head
           u == (t + 1) % N
           v == (h + 1) % N
           p == Put(r, c)
<1>0. /\ N \in Nat \ {0} /\ Index = 0 .. N - 1
      /\ b \in [0 .. N - 1 -> Logged] /\ t \in 0 .. N - 1 /\ n \in 0 .. N /\ h \in 0 .. N - 1
      /\ h = (t + n) % N /\ s = RingSeq(b, N, t, n)
  BY LoggingAssumption DEF RingOf, Rings, Index
<1>1. /\ u \in 0 .. N - 1 /\ u = (IF t = N - 1 THEN 0 ELSE t + 1)
      /\ v \in 0 .. N - 1 /\ v = (IF h = N - 1 THEN 0 ELSE h + 1)
  BY <1>0, ModNext
<1>2. p = [buf |-> [b EXCEPT ![h] = c], head |-> v,
           tail |-> IF n < N THEN t ELSE u, count |-> IF n < N THEN n + 1 ELSE n]
  BY Zenon DEF Put
<1> HIDE DEF N, b, t, n, h, u, v, p
<1>3. s \in Seq(Logged) /\ Len(s) = n
  <2>1. RingHolds(Logged, N, b, t, n)
    BY <1>0, RingLength, Zenon
  <2> QED
    BY <1>0, <2>1, Zenon DEF RingHolds
<1>4. Append(s, c) \in Seq(Logged) /\ Len(Append(s, c)) = n + 1
  BY <1>3, AppendProperties
<1>5. CASE n < N
  <2>1. p = [buf |-> [b EXCEPT ![h] = c], head |-> v, tail |-> t, count |-> n + 1]
    BY <1>2, <1>5
  <2>2. n + 1 \in 0 .. N /\ n \in 0 .. N - 1 /\ n \in 0 .. n + 1 /\ (n + 1) - n = 1
    BY <1>0, <1>5
  <2>3. LastOf(Append(s, c)) = Append(s, c)
    <3>1. LastOf(Append(s, c)) = SubSeq(Append(s, c), 1, Len(Append(s, c)))
      BY <1>0, <1>4, <2>2 DEF LastOf, N
    <3> QED
      BY <1>4, <3>1, SubSeqFull
  <2>4. RingPushes(Logged, N, b, c, t, n)
    BY <1>0, <2>2, RingPush, Zenon
  <2>5. Append(s, c) = RingSeq([b EXCEPT ![h] = c], N, t, n + 1)
    BY <1>0, <2>4, Zenon DEF RingPushes
  <2>6. v = (t + (n + 1)) % N
    <3> DEFINE m == n + 1
    <3>1. m \in 0 .. N /\ n \in 0 .. m /\ m - n = 1
      BY <2>2
    <3> HIDE DEF m
    <3>2. (((t + n) % N) + (m - n)) % N = (t + m) % N
      BY <1>0, <3>1, ModShift
    <3>3. v = (t + m) % N
      BY <1>0, <3>1, <3>2 DEF v
    <3> QED
      BY <3>3 DEF m
  <2>7. p \in [buf : [0 .. N - 1 -> Logged], head : 0 .. N - 1, tail : 0 .. N - 1, count : 0 .. N]
    BY <1>0, <1>1, <2>1, <2>2
  <2>8. p.head = v /\ p.tail = t /\ p.count = n + 1 /\ p.buf = [b EXCEPT ![h] = c]
    BY <2>1
  <2>9. p.head = (p.tail + p.count) % N
    BY <2>6, <2>8, Zenon
  <2>10. LastOf(Append(s, c)) = RingSeq(p.buf, N, p.tail, p.count)
    BY <2>3, <2>5, <2>8, Zenon
  <2> QED
    BY <1>0, <2>7, <2>9, <2>10, Zenon DEF RingOf, Rings, p, N
<1>6. CASE ~(n < N)
  <2>1. p = [buf |-> [b EXCEPT ![h] = c], head |-> v, tail |-> u, count |-> n] /\ n = N
    BY <1>0, <1>2, <1>6
  <2>2. h = t
    <3> DEFINE m == t + N
    <3>1. m \in N .. 2 * N - 1 /\ m - N = t
      BY <1>0
    <3> HIDE DEF m
    <3>2. m % N = m - N
      BY <1>0, <3>1, ModOnce
    <3> QED
      BY <1>0, <2>1, <3>1, <3>2 DEF m
  <2>3. u = v
    BY <2>2 DEF u, v
  <2>4. LastOf(Append(s, c)) = Append(Tail(s), c)
    <3>1. Len(s) = N /\ s # <<>>
      BY <1>0, <1>3, <2>1, EmptySeq
    <3>2. LastOf(Append(s, c)) = SubSeq(Append(s, c), 2, Len(s) + 1)
      <4>1. N + 1 > N /\ N + 1 - N + 1 = 2
        BY <1>0
      <4>2. Len(Append(s, c)) = N + 1
        BY <1>4, <2>1
      <4> QED
        BY <3>1, <4>1, <4>2 DEF LastOf, N
    <3> QED
      BY <1>3, <3>1, <3>2, LastAreTail
  <2>5. N \in 1 .. N /\ N - 1 \in 0 .. N - 1 /\ N \in 0 .. N
    BY <1>0
  <2>6. RingPops(Logged, N, b, t, N)
    BY <1>0, <2>5, RingPop, Zenon
  <2>7. Tail(s) = RingSeq(b, N, u, N - 1)
    BY <1>0, <2>1, <2>6, Zenon DEF RingPops, u
  <2>8. RingPushes(Logged, N, b, c, u, N - 1)
    BY <1>0, <1>1, <2>5, RingPush, Zenon
  <2>9. (u + (N - 1)) % N = t
    <3>1. (((t + 1) % N) + N - 1) % N = t
      BY <1>0, ModBefore
    <3>2. u + N - 1 = u + (N - 1)
      BY <1>0, <1>1
    <3> QED
      BY <3>1, <3>2 DEF u
  <2>10. (N - 1) + 1 = N
    BY <1>0
  <2>11. RingSeq([b EXCEPT ![h] = c], N, u, N) = Append(Tail(s), c)
    BY <2>2, <2>7, <2>8, <2>9, <2>10, Zenon DEF RingPushes
  <2>12. v = (u + N) % N
    <3> DEFINE m == u + N
    <3>1. m \in N .. 2 * N - 1 /\ m - N = u
      BY <1>0, <1>1
    <3> HIDE DEF m
    <3>2. m % N = m - N
      BY <1>0, <3>1, ModOnce
    <3> QED
      BY <2>3, <3>1, <3>2 DEF m
  <2>13. p \in [buf : [0 .. N - 1 -> Logged], head : 0 .. N - 1, tail : 0 .. N - 1, count : 0 .. N]
    BY <1>0, <1>1, <2>1, <2>5
  <2>14. p.head = v /\ p.tail = u /\ p.count = N /\ p.buf = [b EXCEPT ![h] = c]
    BY <2>1
  <2>15. p.head = (p.tail + p.count) % N
    BY <2>12, <2>14, Zenon
  <2>16. LastOf(Append(s, c)) = RingSeq(p.buf, N, p.tail, p.count)
    BY <2>4, <2>11, <2>14, Zenon
  <2> QED
    BY <1>0, <2>13, <2>15, <2>16, Zenon DEF RingOf, Rings, p, N
<1> QED
  BY <1>5, <1>6

(***************************************************************************)
(* The accesses of ring_putc, one after the other, store the character.    *)
(***************************************************************************)
LEMMA AccessesPut ==
    ASSUME NEW r \in Rings, NEW c
    PROVE  CountOrDrop(Advanced(r, c)) = Put(r, c)
<1>1. r = [buf |-> r.buf, head |-> r.head, tail |-> r.tail, count |-> r.count]
  BY DEF Rings
<1>2. Advanced(r, c) = [buf |-> [r.buf EXCEPT ![r.head] = c], head |-> (r.head + 1) % KLOG_RING_SIZE,
                        tail |-> r.tail, count |-> r.count]
  <2>1. PICK b, h, t, n : b = r.buf /\ h = r.head /\ t = r.tail /\ n = r.count
    OBVIOUS
  <2>2. Stored(r, c) = [buf |-> [b EXCEPT ![h] = c], head |-> h, tail |-> t, count |-> n]
    BY <1>1, <2>1 DEF Stored
  <2>3. Advanced(r, c) = [buf |-> [b EXCEPT ![h] = c], head |-> (h + 1) % KLOG_RING_SIZE,
                          tail |-> t, count |-> n]
    BY <2>2 DEF Advanced
  <2> QED
    BY <2>1, <2>3
<1>3. CASE r.count < KLOG_RING_SIZE
  BY <1>2, <1>3 DEF CountOrDrop, Put
<1>4. CASE ~(r.count < KLOG_RING_SIZE)
  BY <1>2, <1>4 DEF CountOrDrop, Put
<1> QED
  BY <1>3, <1>4

(***************************************************************************)
(* The ring is empty before klog_init and after it.                        *)
(***************************************************************************)
LEMMA ZeroRingEmpty == RingOf(ZeroRing, <<>>)
<1>1. 0 \in Index /\ 0 \in 0 .. KLOG_RING_SIZE /\ (0 + 0) % KLOG_RING_SIZE = 0
  BY LoggingAssumption DEF Index
<1>2. [i \in Index |-> "nul"] \in [Index -> Logged]
  BY DEF Logged
<1>3. RingSeq(ZeroRing.buf, KLOG_RING_SIZE, 0, 0) = <<>>
  BY DEF RingSeq
<1>4. ZeroRing.head = 0 /\ ZeroRing.tail = 0 /\ ZeroRing.count = 0
  BY DEF ZeroRing
<1>5. ZeroRing \in Rings
  BY <1>1, <1>2 DEF ZeroRing, Rings
<1> QED
  BY <1>1, <1>3, <1>4, <1>5 DEF RingOf

\* An idle log of a ring with the last characters is followed.
LEMMA IdleFollows ==
    ASSUME RingOf(ring, recent), \A w \in Writers : putc[w] = "none"
    PROVE  Tracks(ring)
BY DEF Tracks

(***************************************************************************)
(* Before klog_init the ring is the zeroed memory of the kernel image.     *)
(***************************************************************************)
LEMMA LogInvInit == LogInit => LogInv
<1> SUFFICES ASSUME LogInit PROVE LogInv
  OBVIOUS
<1>1. /\ pending \in [Writers -> Seq(Logged)] /\ putc \in [Writers -> {"none", "stored", "advanced"}]
      /\ \A w \in Writers : pending[w] = <<>> /\ putc[w] = "none"
  BY EmptySeq DEF LogInit
<1>2. Tracks(ring)
  BY <1>1, ZeroRingEmpty, IdleFollows DEF LogInit
<1> QED
  BY <1>1, <1>2 DEF LogInit, LogInv, LogTypes

\* The lines that klog writes.
LEMMA LinesLogged == \A line \in Lines : line \in Seq(Logged) /\ line # <<>>
<1>1. "info" \in Logged /\ "x" \in Logged /\ "nl" \in Logged /\ "panic" \in Logged
  BY DEF Logged
<1>2. <<"info", "x", "nl">> \in Seq(Logged) /\ <<"info", "x", "nl">> # <<>>
  BY <1>1
<1>3. <<"panic", "nl">> \in Seq(Logged) /\ <<"panic", "nl">> # <<>>
  BY <1>1
<1> QED
  BY <1>2, <1>3 DEF Lines

(***************************************************************************)
(* A writer that begins a line leaves the ring as it is.                   *)
(***************************************************************************)
LEMMA KlogKeeps ==
    ASSUME LogInv, NEW w \in Writers, NEW line \in Seq(Logged), pending[w] = <<>>,
           pending' = [pending EXCEPT ![w] = line], log_initialized', UNCHANGED <<ring, putc, recent, torn>>
    PROVE  LogInv'
<1>1. LogTypes'
  BY DEF LogInv, LogTypes
<1>2. ASSUME ~torn PROVE \E r : Tracks(r)'
  <2>1. PICK r : Tracks(r)
    BY <1>2 DEF LogInv
  <2>2. putc[w] = "none"
    BY <2>1 DEF Tracks
  <2>3. \A v \in Writers : v # w => pending'[v] = pending[v]
    BY DEF LogInv, LogTypes
  <2>4. Tracks(r)'
    BY <2>1, <2>2, <2>3 DEF Tracks
  <2> QED
    BY <2>4
<1> QED
  BY <1>1, <1>2 DEF LogInv

(***************************************************************************)
(* The accesses of ring_putc keep the ring followed, unless one tears it.  *)
(***************************************************************************)
LEMMA StoreKeeps == ASSUME LogInv, NEW w \in Writers, ring_putc(w) PROVE LogInv'
<1>1. LogTypes' /\ log_initialized'
  BY DEF LogInv, LogTypes, ring_putc
<1>2. putc'[w] = "stored" /\ \A v \in Writers : v # w => putc'[v] = putc[v]
  BY DEF LogInv, LogTypes, ring_putc
<1>3. ASSUME ~torn'
      PROVE  /\ \A u, v \in Writers : putc'[u] # "none" /\ putc'[v] # "none" => u = v
             /\ \E r : Tracks(r)'
  <2>1. \A v \in Writers : putc[v] = "none"
    BY <1>3 DEF ring_putc
  <2>2. PICK r : Tracks(r)
    BY DEF LogInv, ring_putc
  <2>3. ring = r /\ ring' = Stored(r, Head(pending[w])) /\ pending' = pending /\ recent' = recent
    BY <2>1, <2>2 DEF Tracks, ring_putc, Stored
  <2>4. pending[w] # <<>>
    BY DEF ring_putc
  <2>5. RingOf(r, recent)'
    BY <2>2, <2>3 DEF Tracks
  <2>6. Tracks(r)'
    BY <1>2, <2>1, <2>3, <2>4, <2>5 DEF Tracks
  <2> QED
    BY <1>2, <2>1, <2>6
<1> QED
  BY <1>1, <1>3 DEF LogInv

\* The second access.
LEMMA AdvanceKeeps == ASSUME LogInv, NEW w \in Writers, AdvanceHead(w) PROVE LogInv'
<1>1. LogTypes' /\ log_initialized'
  BY DEF LogInv, LogTypes, AdvanceHead
<1>2. putc'[w] = "advanced" /\ \A v \in Writers : v # w => putc'[v] = putc[v]
  BY DEF LogInv, LogTypes, AdvanceHead
<1>3. /\ ~torn /\ putc[w] = "stored" /\ UNCHANGED <<pending, recent>>
      /\ ring' = [ring EXCEPT !.head = (@ + 1) % KLOG_RING_SIZE]
  BY DEF AdvanceHead
<1>4. \A v \in Writers : v # w => putc[v] = "none"
  BY <1>3 DEF LogInv
<1>5. PICK r : Tracks(r)
  BY <1>3 DEF LogInv
<1>6. ring = Stored(r, Head(pending[w])) /\ pending[w] # <<>>
  BY <1>3, <1>5 DEF Tracks
<1>7. ring' = Advanced(r, Head(pending[w]))
  BY <1>3, <1>6 DEF Advanced
<1>8. RingOf(r, recent)'
  BY <1>3, <1>5 DEF Tracks
<1>9. Tracks(r)'
  BY <1>2, <1>3, <1>4, <1>6, <1>7, <1>8 DEF Tracks
<1> QED
  BY <1>1, <1>2, <1>4, <1>9 DEF LogInv

\* The last access.
LEMMA FinishKeeps == ASSUME LogInv, NEW w \in Writers, Finish(w) PROVE LogInv'
<1>1. /\ ~torn /\ torn' = torn /\ putc[w] = "advanced" /\ log_initialized' = log_initialized
      /\ ring' = CountOrDrop(ring) /\ putc' = [putc EXCEPT ![w] = "none"]
      /\ pending' = [pending EXCEPT ![w] = Tail(@)]
      /\ recent' = LastOf(Append(recent, Head(pending[w])))
  BY DEF Finish
<1>2. log_initialized'
  BY <1>1 DEF LogInv, LogTypes
<1>3. PICK r : Tracks(r)
  BY <1>1 DEF LogInv
<1>4. /\ pending[w] \in Seq(Logged) /\ pending[w] # <<>>
      /\ ring = Advanced(r, Head(pending[w])) /\ RingOf(r, recent)
  BY <1>1, <1>3 DEF Tracks, LogInv, LogTypes
<1>5. Head(pending[w]) \in Logged /\ Tail(pending[w]) \in Seq(Logged)
  BY <1>4, HeadTailProperties
<1>6. LogTypes'
  BY <1>1, <1>2, <1>5 DEF LogInv, LogTypes
<1>7. ring' = Put(r, Head(pending[w]))
  BY <1>1, <1>4, AccessesPut DEF RingOf
<1>8. RingOf(Put(r, Head(pending[w])), LastOf(Append(recent, Head(pending[w]))))
  <2>1. PICK c, s : c = Head(pending[w]) /\ s = recent
    OBVIOUS
  <2>2. RingOf(Put(r, c), LastOf(Append(s, c)))
    BY <1>4, <1>5, <2>1, PutKeepsRecent
  <2> QED
    BY <2>1, <2>2
<1>9. RingOf(ring', recent')
  BY <1>1, <1>7, <1>8
<1>10. \A v \in Writers : putc'[v] = "none"
  BY <1>1 DEF LogInv, LogTypes
<1>11. \E q : Tracks(q)'
  <2>1. RingOf(ring, recent)'
    BY <1>9
  <2>2. Tracks(ring)'
    BY <1>10, <2>1 DEF Tracks
  <2> QED
    BY <2>2
<1> QED
  BY <1>2, <1>6, <1>10, <1>11 DEF LogInv

(***************************************************************************)
(* Every step keeps the ring's content the last characters logged.         *)
(***************************************************************************)
LEMMA LogInvNext == LogInv /\ [LogNext]_logVars => LogInv'
<1> SUFFICES ASSUME LogInv, [LogNext]_logVars PROVE LogInv'
  OBVIOUS
<1>1. CASE UNCHANGED logVars
  BY <1>1 DEF LogInv, LogTypes, Tracks, RingOf, logVars
<1>2. ASSUME NEW w \in Writers, klog_init(w) PROVE LogInv'
  <2>1. <<"info", "x", "nl">> \in Seq(Logged)
    BY LinesLogged DEF Lines
  <2>2. pending[w] = <<>> /\ ring' = ring
    BY <1>2 DEF klog_init, LogInv
  <2> QED
    BY <1>2, <2>1, <2>2, KlogKeeps DEF klog_init
<1>3. ASSUME NEW w \in Writers, NEW line \in Lines, klog(w, line) PROVE LogInv'
  BY <1>3, LinesLogged, KlogKeeps DEF klog
<1> QED
  BY <1>1, <1>2, <1>3, StoreKeeps, AdvanceKeeps, FinishKeeps DEF LogNext

(***************************************************************************)
(* The slot where the next character goes holds none of the characters of  *)
(* the ring, unless the ring is full: then it holds the oldest.            *)
(***************************************************************************)
LEMMA NextSlot ==
    ASSUME NEW N \in Nat \ {0}, NEW t \in 0 .. N - 1, NEW n \in 0 .. N, NEW i \in 1 .. n,
           (t + i - 1) % N = (t + n) % N
    PROVE  i = 1 /\ n = N
<1> DEFINE p == t + i - 1
           q == t + n
<1>1. p \in 0 .. 2 * N - 1 /\ q \in 0 .. 2 * N - 1
  OBVIOUS
<1> HIDE DEF p, q
<1>2. /\ p % N = IF p < N THEN p ELSE p - N
      /\ q % N = IF q < N THEN q ELSE q - N
  BY <1>1, ModTwice
<1>3. p % N = q % N
  BY DEF p, q
<1> QED
  BY <1>1, <1>2, <1>3 DEF p, q

(***************************************************************************)
(* Whoever writes, however often the ring has wrapped, and wherever        *)
(* ring_putc is, what klog_dump_serial writes is the end of the log as     *)
(* LogIsRecent says.                                                       *)
(***************************************************************************)
THEOREM LogDumpIsRecent == LogSpec => []LogIsRecent
<1>1. ASSUME LogInv PROVE LogIsRecent
  <2> SUFFICES ASSUME ~torn
               PROVE  /\ Len(klog_dump_serial) = Len(recent)
                      /\ \A i \in DOMAIN recent :
                            \/ klog_dump_serial[i] = recent[i]
                            \/ /\ i = 1 /\ ring.count = KLOG_RING_SIZE
                               /\ \E w \in Writers : putc[w] # "none" /\ klog_dump_serial[i] = Head(pending[w])
    BY DEF LogIsRecent
  <2>1. PICK r : Tracks(r)
    BY <1>1 DEF LogInv
  <2> DEFINE N == KLOG_RING_SIZE
             t == r.tail
             n == r.count
             b == r.buf
  <2>2. /\ N \in Nat \ {0} /\ t \in 0 .. N - 1 /\ n \in 0 .. N /\ b \in [0 .. N - 1 -> Logged]
        /\ r.head = (t + n) % N /\ recent = RingSeq(b, N, t, n) /\ r \in Rings
    BY <2>1, LoggingAssumption DEF Tracks, RingOf, Rings, Index
  <2>3. ring.tail = t /\ ring.count = n /\ \A k \in 0 .. N - 1 : k # r.head => ring.buf[k] = b[k]
    <3>1. \A c : /\ Stored(r, c).tail = t /\ Stored(r, c).count = n
                 /\ Advanced(r, c).tail = t /\ Advanced(r, c).count = n
                 /\ Advanced(r, c).buf = Stored(r, c).buf
                 /\ \A k \in 0 .. N - 1 : k # r.head => Stored(r, c).buf[k] = b[k]
      BY <2>2 DEF Stored, Advanced, Rings, Index
    <3>2. ring = r \/ \E c : ring = Stored(r, c) \/ ring = Advanced(r, c)
      BY <1>1, <2>1 DEF Tracks, LogInv, LogTypes
    <3> QED
      BY <3>1, <3>2
  <2>4. (\A w \in Writers : putc[w] = "none") => ring.buf = b
    BY <2>1 DEF Tracks
  <2>5. ASSUME NEW w \in Writers, putc[w] # "none" PROVE ring.buf[r.head] = Head(pending[w])
    <3>1. \A c : Stored(r, c).buf[r.head] = c /\ Advanced(r, c).buf = Stored(r, c).buf
      BY <2>2 DEF Stored, Advanced, Rings, Index
    <3>2. ring = Stored(r, Head(pending[w])) \/ ring = Advanced(r, Head(pending[w]))
      BY <1>1, <2>1, <2>5 DEF Tracks, LogInv, LogTypes
    <3> QED
      BY <3>1, <3>2
  <2> HIDE DEF N, t, n, b
  <2>6. /\ Len(recent) = n /\ DOMAIN recent = 1 .. n
        /\ \A i \in 1 .. n : recent[i] = b[(t + i - 1) % N]
    <3>1. t \in Nat /\ n \in Nat
      BY <2>2
    <3> QED
      BY <2>2, <3>1, RingSeqType DEF RingSeq
  <2>7. /\ Len(klog_dump_serial) = n
        /\ \A i \in 1 .. n : klog_dump_serial[i] = ring.buf[(t + i - 1) % N]
    <3>1. klog_dump_serial = [i \in 1 .. n |-> ring.buf[(t + i - 1) % N]]
      BY <2>3 DEF klog_dump_serial, N
    <3> QED
      BY <2>2, <3>1
  <2>8. ASSUME NEW i \in 1 .. n, klog_dump_serial[i] # recent[i]
        PROVE  /\ i = 1 /\ n = N
               /\ \E w \in Writers : putc[w] # "none" /\ klog_dump_serial[i] = Head(pending[w])
    <3>1. PICK k : k = (t + i - 1) % N
      OBVIOUS
    <3>2. k \in 0 .. N - 1
      <4>1. t + i - 1 \in Nat
        BY <2>2
      <4> QED
        BY <2>2, <3>1, <4>1, ModPosition
    <3>3. ring.buf[k] # b[k]
      BY <2>6, <2>7, <2>8, <3>1
    <3>4. k = r.head
      BY <2>3, <3>2, <3>3
    <3>5. i = 1 /\ n = N
      BY <2>2, <3>1, <3>4, NextSlot
    <3>6. PICK w \in Writers : putc[w] # "none"
      BY <2>4, <3>3
    <3> QED
      BY <2>5, <2>7, <3>1, <3>4, <3>5, <3>6
  <2> QED
    BY <2>3, <2>6, <2>7, <2>8 DEF N
<1> QED
  BY <1>1, LogInvInit, LogInvNext, PTL DEF LogSpec

-----------------------------------------------------------------------------
\* Fat32.

Piece == [from : Cluster, units : Nat]

CallType ==
    [pc : {"idle", "init", "search", "copy", "read", "crashed", "overrun"}, step : 0 .. 7, cluster : Link, remaining : Nat,
     out : Seq(Piece), result : BOOLEAN]

\* The buffers that fat32_init holds when it comes to a step.
HeldAt(k) ==
    (IF k > 1 THEN {"cluster_buffer"} ELSE {}) \cup (IF k > 3 THEN {"boot_sector"} ELSE {})
      \cup (IF k > 6 THEN {"fat_table"} ELSE {})

FatType ==
    /\ disk \in Image
    /\ mounted \in BOOLEAN
    /\ fat_table \in [Cluster -> Link]
    /\ call \in CallType

(***************************************************************************)
(* fat32_init holds what the steps behind it have allocated.               *)
(***************************************************************************)
MountInv ==
    /\ call.pc = "init" => ~mounted /\ call.step \in 1 .. 7 /\ buffers = HeldAt(call.step)
    /\ call.pc \in {"search", "copy", "read"} => mounted
    /\ BuffersFreed

(***************************************************************************)
(* Where the copy stands: the pieces are the chain so far, all of them     *)
(* whole but perhaps the last of all, and cluster is the next.             *)
(***************************************************************************)
CopyInv ==
    LET n == Len(call.out)
    IN  /\ call.cluster = IF n = 0 THEN disk.first ELSE fat_table[call.out[n].from]
        /\ n > 0 => call.out[1].from = disk.first
        /\ \A i \in 1 .. n - 1 :
              call.out[i + 1].from = fat_table[call.out[i].from] /\ call.out[i].units = UNITS
        /\ \/ /\ call.remaining > 0 /\ call.remaining + n * UNITS = disk.size
              /\ n > 0 => call.out[n].units = UNITS
           \/ call.remaining = 0 /\ n = 0 /\ disk.size = 0
           \/ call.remaining = 0 /\ n > 0 /\ (n - 1) * UNITS + call.out[n].units = disk.size

\* What was read of the FAT is what is on the disk.
TableInv == mounted => fat_table \in Tables

FileInv ==
    /\ call.pc = "search" => call.out = <<>>
    /\ call.pc = "copy" => CopyInv
    /\ ReadIsFile

(***************************************************************************)
(* Cluster 2, the first of the root directory, and 0 are links, and so is  *)
(* every cluster.                                                          *)
(***************************************************************************)
LEMMA LinkFacts == 0 \in Link /\ 2 \in Cluster /\ 2 \in Link /\ \A c \in Cluster : c \in Link
  BY Fat32Assumption DEF Link, Cluster

(***************************************************************************)
(* Between two calls nothing is held, and what was read is kept.           *)
(***************************************************************************)
LEMMA IdleType ==
    ASSUME NEW result \in BOOLEAN, NEW out \in Seq(Piece)
    PROVE  /\ Idle(result, out) \in CallType /\ Idle(result, out).pc = "idle"
           /\ Idle(result, out).out = out
  BY LinkFacts DEF Idle, CallType

\* What the steps of fat32_init allocate and free.
LEMMA StepFacts ==
    ASSUME NEW k \in 1 .. 7
    PROVE  /\ Len(InitSteps) = 7
           /\ k < 7 => HeldAt(k) \cup Allocates(InitSteps[k]) = HeldAt(k + 1)
           /\ k = 7 => HeldAt(k) \cup Allocates(InitSteps[k]) = {"cluster_buffer", "boot_sector", "fat_table"}
           /\ InitSteps[k] # "clusters_count" => HeldAt(k) \ Freed(InitSteps[k]) = {}
<1>0. Len(InitSteps) = 7
  BY DEF InitSteps
<1>1. CASE k = 1
  <2>1. InitSteps[k] = "cluster_buffer"
    BY <1>1 DEF InitSteps
  <2>2. Freed("cluster_buffer") = {}
    BY DEF Freed
  <2> QED
    BY <1>0, <1>1, <2>1, <2>2 DEF HeldAt, Allocates
<1>2. CASE k = 2
  <2>1. InitSteps[k] = "read boot sector"
    BY <1>2 DEF InitSteps
  <2>2. Freed("read boot sector") = {"cluster_buffer"}
    BY DEF Freed
  <2>3. Allocates("read boot sector") = {} /\ HeldAt(2) = {"cluster_buffer"} /\ HeldAt(3) = {"cluster_buffer"}
    BY DEF HeldAt, Allocates
  <2>4. k + 1 = 3 /\ k # 7
    BY <1>2
  <2> QED
    BY <1>0, <1>2, <2>1, <2>2, <2>3, <2>4, Zenon
<1>3. CASE k = 3
  <2>1. InitSteps[k] = "boot_sector"
    BY <1>3 DEF InitSteps
  <2>2. Freed("boot_sector") = {"cluster_buffer"}
    BY DEF Freed
  <2> QED
    BY <1>0, <1>3, <2>1, <2>2 DEF HeldAt, Allocates
<1>4. CASE k = 4
  <2>1. InitSteps[k] = "signature"
    BY <1>4 DEF InitSteps
  <2>2. Freed("signature") = {"boot_sector", "cluster_buffer"}
    BY DEF Freed
  <2> QED
    BY <1>0, <1>4, <2>1, <2>2 DEF HeldAt, Allocates
<1>5. CASE k = 5
  <2>1. InitSteps[k] = "clusters_count" /\ k < 7
    BY <1>5 DEF InitSteps
  <2>2. Allocates("clusters_count") = {} /\ HeldAt(5) = HeldAt(6)
    BY DEF HeldAt, Allocates
  <2>3. k + 1 = 6 /\ k # 7
    BY <1>5
  <2> QED
    BY <1>0, <1>5, <2>1, <2>2, <2>3, Zenon
<1>6. CASE k = 6
  <2>1. InitSteps[k] = "fat_table"
    BY <1>6 DEF InitSteps
  <2>2. Freed("fat_table") = {"boot_sector", "cluster_buffer"}
    BY DEF Freed
  <2> QED
    BY <1>0, <1>6, <2>1, <2>2 DEF HeldAt, Allocates
<1>7. CASE k = 7
  <2>1. InitSteps[k] = "read fat"
    BY <1>7 DEF InitSteps
  <2>2. Freed("read fat") = {"fat_table", "boot_sector", "cluster_buffer"}
    BY DEF Freed
  <2>3. Allocates("read fat") = {} /\ HeldAt(7) = {"cluster_buffer", "boot_sector", "fat_table"}
    BY DEF HeldAt, Allocates
  <2>4. ~(k < 7)
    BY <1>7
  <2> QED
    BY <1>0, <1>7, <2>1, <2>2, <2>3, <2>4, Zenon
<1> QED
  BY <1>1, <1>2, <1>3, <1>4, <1>5, <1>6, <1>7

-----------------------------------------------------------------------------
(***************************************************************************)
(* Every step of a call keeps the types.                                   *)
(***************************************************************************)
LEMMA FatTypeNext == FatType /\ [FatNext]_fatVars => FatType'
<1> SUFFICES ASSUME FatType, [FatNext]_fatVars PROVE FatType'
  OBVIOUS
<1>0. call \in CallType /\ <<>> \in Seq(Piece) /\ call.out \in Seq(Piece)
  BY EmptySeq DEF FatType, CallType
<1>1. ASSUME UNCHANGED <<disk, mounted, fat_table>>, call' \in CallType PROVE FatType'
  BY <1>1 DEF FatType
<1>2. CASE UNCHANGED fatVars
  BY <1>0, <1>1, <1>2 DEF fatVars
<1>3. CASE ata_init
  BY <1>0, <1>1, <1>3 DEF ata_init
<1>4. CASE fat32_init
  <2>0. call' = [call EXCEPT !.pc = "init", !.step = 1] /\ 1 \in 0 .. 7
    BY <1>4 DEF fat32_init
  <2>1. call' \in CallType
    BY <1>0, <2>0 DEF CallType
  <2> QED
    BY <1>1, <1>4, <2>1 DEF fat32_init
<1>5. CASE InitPasses
  <2>1. /\ call' = IF call.step = Len(InitSteps) THEN Idle(TRUE, <<>>) ELSE [call EXCEPT !.step = @ + 1]
        /\ mounted' = (call.step = Len(InitSteps)) /\ disk' = disk /\ Len(InitSteps) = 7
    BY <1>5 DEF InitPasses, InitSteps
  <2>0. fat_table' \in [Cluster -> Link]
    BY <1>5 DEF InitPasses, FatType, Tables
  <2>2. CASE call.step = 7
    BY <1>0, <2>0, <2>1, <2>2, IdleType DEF FatType
  <2>3. CASE call.step # 7
    <3>1. call' \in CallType
      BY <1>0, <2>1, <2>3 DEF CallType
    <3> QED
      BY <2>0, <2>1, <2>3, <3>1 DEF FatType
  <2> QED
    BY <2>2, <2>3
<1>6. CASE InitFails
  BY <1>0, <1>1, <1>6, IdleType DEF InitFails
<1>7. CASE fat32_cleanup
  BY <1>0, <1>7, IdleType DEF fat32_cleanup, FatType
<1>8. CASE fat32_read_file
  <2>1. Idle(FALSE, <<>>) \in CallType
    BY <1>0, IdleType
  <2>2. call' \in CallType
    BY <1>8, <2>1, LinkFacts DEF fat32_read_file, CallType
  <2> QED
    BY <1>1, <1>8, <2>2 DEF fat32_read_file
<1>9. CASE Search
  <2>1. call.cluster \in Cluster /\ UNCHANGED <<disk, mounted, fat_table>>
    BY <1>9 DEF Search, fat32_read_cluster
  <2>2. disk.first \in Link /\ disk.size \in Nat /\ fat_table[call.cluster] \in Link
    BY <2>1, Fat32Assumption DEF FatType, Image
  <2>3. call' \in CallType
    <3>1. CASE disk.file = call.cluster
      BY <1>0, <1>9, <2>2, <3>1 DEF Search, CallType
    <3>2. CASE disk.file # call.cluster
      BY <1>0, <1>9, <2>2, <3>2 DEF Search, CallType
    <3> QED
      BY <3>1, <3>2
  <2> QED
    BY <1>1, <2>1, <2>3
<1>10. CASE Copy
  <2> DEFINE piece == [from |-> call.cluster, units |-> ToCopy(call.remaining)]
             left == call.remaining - ToCopy(call.remaining)
             link == fat_table[call.cluster]
             pieces == Append(call.out, piece)
  <2>1. call.cluster \in Cluster /\ UNCHANGED <<disk, mounted, fat_table>>
    BY <1>10 DEF Copy, fat32_read_cluster
  <2>2. link \in Link
    BY <2>1 DEF FatType, Image
  <2>3. ToCopy(call.remaining) \in Nat /\ left \in Nat
    BY <1>0, Fat32Assumption DEF CallType, ToCopy
  <2>4. piece \in Piece
    BY <2>1, <2>3 DEF Piece
  <2>5. pieces \in Seq(Piece)
    BY <1>0, <2>4, AppendProperties
  <2>6. call' = [call EXCEPT !.out = pieces, !.remaining = left, !.cluster = link]
    BY <1>10 DEF Copy
  <2> HIDE DEF piece, left, link, pieces
  <2>7. call' \in CallType
    BY <1>0, <2>2, <2>3, <2>5, <2>6 DEF CallType
  <2> QED
    BY <1>1, <2>1, <2>7
<1>11. CASE Fails
  BY <1>0, <1>1, <1>11, IdleType DEF Fails
<1>12. CASE Returns
  <2>1. Idle(TRUE, call.out) \in CallType
    BY <1>0, IdleType
  <2>2. call' \in CallType
    BY <1>12, <2>1 DEF Returns, CallType
  <2> QED
    BY <1>1, <1>12, <2>2 DEF Returns
<1>13. CASE Done
  BY <1>0, <1>1, <1>13, IdleType DEF Done
<1>14. CASE DivisionError
  <2>1. call' = [call EXCEPT !.pc = "crashed"] /\ UNCHANGED <<disk, mounted, fat_table>>
    BY <1>14 DEF DivisionError
  <2> QED
    BY <1>0, <1>1, <2>1 DEF CallType
<1>15. CASE Overrun
  <2>1. call' = [call EXCEPT !.pc = "overrun"] /\ UNCHANGED <<disk, mounted, fat_table>>
    BY <1>15 DEF Overrun
  <2> QED
    BY <1>0, <1>1, <2>1 DEF CallType
<1> QED
  BY <1>2, <1>3, <1>4, <1>5, <1>6, <1>7, <1>8, <1>9, <1>10, <1>11, <1>12, <1>13, <1>14, <1>15 DEF FatNext

-----------------------------------------------------------------------------
\* The steps that leave the buffers and the mount alone.
LEMMA ReadsKeepMount ==
    ASSUME MountInv, UNCHANGED <<mounted, buffers>>, FatType', FatType,
           call.pc # "init", call'.pc # "init",
           call'.pc \in {"search", "copy", "read"} => mounted,
           call'.pc = "idle" => call.pc = "idle" \/ mounted
    PROVE  MountInv'
<1>1. call'.pc \in {"idle", "init", "search", "copy", "read", "crashed", "overrun"}
  BY DEF FatType, CallType
<1> QED
  BY <1>1 DEF MountInv, BuffersFreed

(***************************************************************************)
(* Every step keeps the account of fat32_init's buffers: each error path   *)
(* frees what was allocated before it.                                     *)
(***************************************************************************)
LEMMA MountInvNext == MountInv /\ FatType /\ [FatNext]_fatVars => MountInv'
<1> SUFFICES ASSUME MountInv, FatType, [FatNext]_fatVars PROVE MountInv'
  OBVIOUS
<1>0. call \in CallType /\ <<>> \in Seq(Piece) /\ call.out \in Seq(Piece)
  BY EmptySeq DEF FatType, CallType
<1>00. FatType'
  BY FatTypeNext
<1>1. CASE UNCHANGED fatVars
  BY <1>1 DEF MountInv, BuffersFreed, fatVars
<1>2. CASE ata_init
  BY <1>2 DEF MountInv, BuffersFreed, ata_init
<1>3. CASE fat32_init
  <2>1. /\ call.pc = "idle" /\ ~mounted /\ call' = [call EXCEPT !.pc = "init", !.step = 1]
        /\ UNCHANGED <<mounted, buffers>>
    BY <1>3 DEF fat32_init
  <2>2. call'.pc = "init" /\ call'.step = 1
    BY <1>0, <2>1 DEF CallType
  <2>3. buffers = {} /\ HeldAt(1) = {}
    BY <2>1 DEF MountInv, BuffersFreed, HeldAt
  <2> QED
    BY <2>1, <2>2, <2>3 DEF MountInv, BuffersFreed
<1>4. CASE InitPasses
  <2> DEFINE k == call.step
  <2>1. /\ call.pc = "init" /\ k \in 1 .. 7 /\ ~mounted /\ buffers = HeldAt(k)
        /\ buffers' = buffers \cup Allocates(InitSteps[k])
        /\ mounted' = (k = Len(InitSteps))
        /\ call' = IF k = Len(InitSteps) THEN Idle(TRUE, <<>>) ELSE [call EXCEPT !.step = @ + 1]
    BY <1>4 DEF InitPasses, MountInv
  <2>2. Len(InitSteps) = 7
    BY DEF InitSteps
  <2>3. CASE k = 7
    <3>1. mounted' = TRUE /\ call' = Idle(TRUE, <<>>) /\ buffers' = {"cluster_buffer", "boot_sector", "fat_table"}
      BY <2>1, <2>2, <2>3, StepFacts
    <3>2. call'.pc = "idle"
      BY <1>0, <3>1, IdleType
    <3> QED
      BY <3>1, <3>2 DEF MountInv, BuffersFreed
  <2>4. CASE k # 7
    <3>1. /\ mounted' = FALSE /\ call' = [call EXCEPT !.step = k + 1] /\ buffers' = HeldAt(k + 1)
          /\ k + 1 \in 1 .. 7
      <4>1. k \in 1 .. 7 /\ k < 7 /\ k # Len(InitSteps)
        BY <2>1, <2>2, <2>4
      <4>2. HeldAt(k) \cup Allocates(InitSteps[k]) = HeldAt(k + 1)
        BY <4>1, StepFacts
      <4>3. k + 1 \in 1 .. 7
        BY <4>1
      <4> QED
        BY <2>1, <4>1, <4>2, <4>3, Zenon
    <3>2. call'.pc = "init" /\ call'.step = k + 1
      BY <1>0, <2>1, <3>1 DEF CallType
    <3> QED
      BY <3>1, <3>2 DEF MountInv, BuffersFreed
  <2> QED
    BY <2>3, <2>4
<1>5. CASE InitFails
  <2> DEFINE k == call.step
  <2>1. /\ call.pc = "init" /\ k \in 1 .. 7 /\ ~mounted /\ buffers = HeldAt(k)
        /\ buffers' = buffers \ Freed(InitSteps[k]) /\ mounted' = mounted
        /\ InitSteps[k] # "clusters_count" /\ call' = Idle(FALSE, <<>>)
    BY <1>5 DEF InitFails, MountInv
  <2>2. buffers' = {}
    BY <2>1, StepFacts
  <2>3. call'.pc = "idle"
    BY <1>0, <2>1, IdleType
  <2> QED
    BY <2>1, <2>2, <2>3 DEF MountInv, BuffersFreed
<1>6. CASE fat32_cleanup
  <2>1. call' = Idle(FALSE, <<>>) /\ mounted' = FALSE /\ buffers' = {}
    BY <1>6 DEF fat32_cleanup
  <2>2. call'.pc = "idle"
    BY <1>0, <2>1, IdleType
  <2> QED
    BY <2>1, <2>2 DEF MountInv, BuffersFreed
<1>7. CASE fat32_read_file
  <2>1. /\ call.pc = "idle" /\ mounted /\ UNCHANGED <<mounted, buffers>>
        /\ call' = [Idle(FALSE, <<>>) EXCEPT !.pc = "search", !.cluster = 2]
    BY <1>7 DEF fat32_read_file
  <2>2. Idle(FALSE, <<>>) \in CallType
    BY <1>0, IdleType
  <2>3. call'.pc = "search"
    BY <2>1, <2>2, LinkFacts DEF CallType
  <2> QED
    BY <1>00, <2>1, <2>3, ReadsKeepMount
<1>8. CASE Search
  <2>1. call.pc = "search" /\ mounted /\ call.cluster \in Cluster /\ UNCHANGED <<mounted, buffers>>
    BY <1>8 DEF Search, fat32_read_cluster
  <2>2. call'.pc \in {"search", "copy"}
    BY <1>0, <1>8 DEF Search, CallType
  <2> QED
    BY <1>00, <2>1, <2>2, ReadsKeepMount
<1>9. CASE Copy
  <2>1. /\ call.pc = "copy" /\ mounted /\ call.cluster \in Cluster /\ UNCHANGED <<mounted, buffers>>
        /\ call'.pc = "copy"
    BY <1>0, <1>9 DEF Copy, fat32_read_cluster, CallType
  <2> QED
    BY <1>00, <2>1, ReadsKeepMount
<1>10. CASE Fails
  <2>1. call' = Idle(FALSE, call.out) /\ call.pc \in {"search", "copy"} /\ UNCHANGED <<mounted, buffers>>
    BY <1>10 DEF Fails
  <2>2. call'.pc = "idle"
    BY <1>0, <2>1, IdleType
  <2>3. mounted
    BY <2>1 DEF MountInv
  <2> QED
    BY <1>00, <2>1, <2>2, <2>3, ReadsKeepMount
<1>11. CASE Returns
  <2>1. /\ call' = [Idle(TRUE, call.out) EXCEPT !.pc = "read"] /\ call.pc = "copy"
        /\ UNCHANGED <<mounted, buffers>>
    BY <1>11 DEF Returns
  <2>2. Idle(TRUE, call.out) \in CallType
    BY <1>0, IdleType
  <2>3. call'.pc = "read" /\ mounted
    BY <2>1, <2>2 DEF CallType, MountInv
  <2> QED
    BY <1>00, <2>1, <2>3, ReadsKeepMount
<1>12. CASE Done
  <2>1. call' = Idle(FALSE, <<>>) /\ call.pc = "read" /\ UNCHANGED <<mounted, buffers>>
    BY <1>12 DEF Done
  <2>2. call'.pc = "idle" /\ mounted
    BY <1>0, <2>1, IdleType DEF MountInv
  <2> QED
    BY <1>00, <2>1, <2>2, ReadsKeepMount
<1>13. CASE DivisionError
  <2>1. /\ call' = [call EXCEPT !.pc = "crashed"] /\ UNCHANGED <<mounted, buffers>> /\ call.pc = "init"
    BY <1>13 DEF DivisionError
  <2>2. call'.pc = "crashed" /\ ~mounted
    BY <1>0, <2>1 DEF CallType, MountInv
  <2> QED
    BY <2>1, <2>2 DEF MountInv, BuffersFreed
<1>14. CASE Overrun
  <2>1. /\ call' = [call EXCEPT !.pc = "overrun"] /\ UNCHANGED <<mounted, buffers>>
        /\ call.pc \in {"search", "copy"}
    BY <1>14 DEF Overrun
  <2>2. call'.pc = "overrun"
    BY <1>0, <2>1 DEF CallType
  <2> QED
    BY <1>00, <2>1, <2>2, ReadsKeepMount
<1> QED
  BY <1>1, <1>2, <1>3, <1>4, <1>5, <1>6, <1>7, <1>8, <1>9, <1>10, <1>11, <1>12, <1>13, <1>14 DEF FatNext

(***************************************************************************)
(* No error path of fat32_init, in whatever step, leaves a buffer behind.  *)
(***************************************************************************)
THEOREM FatBuffersFreed == FatSpec => []BuffersFreed
<1>1. FatInit => FatType /\ MountInv
  <2> SUFFICES ASSUME FatInit PROVE FatType /\ MountInv
    OBVIOUS
  <2>1. call \in CallType /\ call.pc = "idle"
    BY IdleType, EmptySeq DEF FatInit
  <2> QED
    BY <2>1, LinkFacts DEF FatInit, FatType, MountInv, BuffersFreed
<1>2. MountInv => BuffersFreed
  BY DEF MountInv
<1> QED
  BY <1>1, <1>2, FatTypeNext, MountInvNext, PTL DEF FatSpec

-----------------------------------------------------------------------------
(***************************************************************************)
(* Copying a cluster of the file (the loop of fat32_read_file) appends the *)
(* piece that comes next, and stops where the size ends.                   *)
(***************************************************************************)
LEMMA CopyKeeps == ASSUME FatType, CopyInv, Copy PROVE CopyInv'
<1> DEFINE s == call.out
           n == Len(call.out)
           r == call.remaining
           k == ToCopy(call.remaining)
           c == call.cluster
           piece == [from |-> c, units |-> k]
           t == Append(s, piece)
<1>1. /\ s \in Seq(Piece) /\ r \in Nat /\ r > 0 /\ c \in Cluster
      /\ call'.out = t /\ call'.remaining = r - k /\ call'.cluster = fat_table[c]
      /\ disk' = disk /\ fat_table' = fat_table
  BY DEF FatType, CallType, Copy, fat32_read_cluster
<1>2. /\ UNITS \in Nat \ {0} /\ disk.size \in Nat /\ n \in Nat
  BY <1>1, Fat32Assumption, LenProperties DEF FatType, Image
<1>3. k \in Nat /\ (r > UNITS => k = UNITS) /\ (~(r > UNITS) => k = r)
  BY <1>1, <1>2 DEF ToCopy
<1>4. piece \in Piece /\ piece.from = c /\ piece.units = k
  BY <1>1, <1>3 DEF Piece
<1>5. /\ c = IF n = 0 THEN disk.first ELSE fat_table[s[n].from]
      /\ n > 0 => s[1].from = disk.first
      /\ \A i \in 1 .. n - 1 : s[i + 1].from = fat_table[s[i].from] /\ s[i].units = UNITS
      /\ r + n * UNITS = disk.size
      /\ n > 0 => s[n].units = UNITS
  BY <1>1 DEF CopyInv
<1> HIDE DEF piece
<1>6. /\ Len(t) = n + 1 /\ t[n + 1] = piece
      /\ \A i \in 1 .. n : t[i] = s[i]
  BY <1>1, <1>4, AppendProperties
<1> HIDE DEF t, k, c, r, s, n
<1>7. fat_table[c] = IF n + 1 = 0 THEN disk.first ELSE fat_table[t[n + 1].from]
  BY <1>2, <1>4, <1>6
<1>8. t[1].from = disk.first
  <2>1. CASE n = 0
    BY <1>4, <1>5, <1>6, <2>1
  <2>2. CASE n > 0
    BY <1>2, <1>5, <1>6, <2>2
  <2> QED
    BY <1>2, <2>1, <2>2
<1>9. ASSUME NEW i \in 1 .. n
      PROVE  t[i + 1].from = fat_table[t[i].from] /\ t[i].units = UNITS
  <2>1. t[i] = s[i]
    BY <1>6
  <2>2. CASE i = n
    BY <1>2, <1>4, <1>5, <1>6, <2>1, <2>2
  <2>3. CASE i # n
    <3>1. i \in 1 .. n - 1 /\ i + 1 \in 1 .. n
      BY <1>2, <2>3
    <3> QED
      BY <1>5, <1>6, <2>1, <3>1
  <2> QED
    BY <2>2, <2>3
<1>10. (n + 1) * UNITS = n * UNITS + UNITS /\ n * UNITS \in Nat /\ (n + 1) - 1 = n /\ n + 1 > 0
  BY <1>2
<1>11. \/ r - k > 0 /\ r - k + (n + 1) * UNITS = disk.size /\ t[n + 1].units = UNITS
       \/ r - k = 0 /\ n + 1 > 0 /\ ((n + 1) - 1) * UNITS + t[n + 1].units = disk.size
  <2> DEFINE all == n * UNITS
             more == (n + 1) * UNITS
  <2>1. all \in Nat /\ more = all + UNITS /\ r + all = disk.size
    BY <1>5, <1>10
  <2> HIDE DEF all, more
  <2>2. CASE r > UNITS
    <3>1. r - k > 0 /\ r - k + more = disk.size /\ t[n + 1].units = UNITS
      BY <1>1, <1>2, <1>3, <1>4, <1>6, <2>1, <2>2
    <3> QED
      BY <3>1 DEF more
  <2>3. CASE ~(r > UNITS)
    <3>1. r - k = 0 /\ all + t[n + 1].units = disk.size
      BY <1>1, <1>2, <1>3, <1>4, <1>6, <2>1, <2>3
    <3> QED
      BY <1>10, <3>1 DEF all
  <2> QED
    BY <2>2, <2>3
<1>12. /\ Len(call'.out) = n + 1 /\ 1 .. (n + 1) - 1 = 1 .. n
  BY <1>1, <1>2, <1>6
<1> QED
  BY <1>1, <1>7, <1>8, <1>9, <1>10, <1>11, <1>12, Zenon DEF CopyInv

\* fat32_init succeeds only after it has read the FAT, and nothing writes the table then.
LEMMA TableInvNext == TableInv /\ [FatNext]_fatVars => TableInv'
<1> SUFFICES ASSUME TableInv, [FatNext]_fatVars PROVE TableInv'
  OBVIOUS
<1>1. ASSUME disk' = disk PROVE Tables' = Tables
  BY <1>1 DEF Tables, InTable
<1>2. CASE InitPasses
  <2>1. CASE call.step = Len(InitSteps)
    <3>1. InitSteps[call.step] = "read fat"
      BY <2>1 DEF InitSteps
    <3>2. fat_table' \in Tables /\ disk' = disk
      BY <1>2, <3>1 DEF InitPasses
    <3> QED
      BY <1>1, <3>2 DEF TableInv
  <2>2. CASE call.step # Len(InitSteps)
    BY <1>2, <2>2 DEF InitPasses, TableInv
  <2> QED
    BY <2>1, <2>2
<1>3. CASE fat32_cleanup
  BY <1>3 DEF fat32_cleanup, TableInv
<1>4. CASE ~InitPasses /\ ~fat32_cleanup
  <2>1. UNCHANGED <<disk, mounted, fat_table>>
    BY <1>4 DEF FatNext, fatVars, ata_init, fat32_init, InitFails, DivisionError, fat32_read_file, Search,
         Copy, Overrun, Fails, Returns, Done
  <2> QED
    BY <1>1, <2>1 DEF TableInv
<1> QED
  BY <1>2, <1>3, <1>4

(***************************************************************************)
(* Every step keeps what fat32_read_file has copied the beginning of the   *)
(* file.                                                                   *)
(***************************************************************************)
LEMMA FileInvNext == FatType /\ MountInv /\ TableInv /\ FileInv /\ [FatNext]_fatVars => FileInv'
<1> SUFFICES ASSUME FatType, MountInv, TableInv, FileInv, [FatNext]_fatVars PROVE FileInv'
  OBVIOUS
<1>0. call \in CallType /\ <<>> \in Seq(Piece) /\ call.out \in Seq(Piece)
  BY EmptySeq DEF FatType, CallType
<1>1. ASSUME call'.pc \in {"idle", "init", "crashed", "overrun"} PROVE FileInv'
  BY <1>1 DEF FileInv, ReadIsFile
<1>2. CASE UNCHANGED <<call, disk, fat_table>>
  BY <1>2 DEF FileInv, ReadIsFile, CopyInv, InTable
<1>3. CASE fat32_init
  BY <1>0, <1>1, <1>3 DEF fat32_init, CallType
<1>4. CASE InitPasses
  <2>1. call.pc = "init" /\ (call' = Idle(TRUE, <<>>) \/ call' = [call EXCEPT !.step = @ + 1])
    BY <1>4 DEF InitPasses
  <2>2. call'.pc = "idle" \/ call'.pc = "init"
    <3>1. CASE call' = Idle(TRUE, <<>>)
      BY <1>0, <3>1, IdleType
    <3>2. CASE call' = [call EXCEPT !.step = @ + 1]
      BY <1>0, <2>1, <3>2 DEF CallType
    <3> QED
      BY <2>1, <3>1, <3>2
  <2> QED
    BY <1>1, <2>2
<1>5. CASE InitFails \/ fat32_cleanup \/ Fails \/ Done
  <2>1. call' = Idle(FALSE, <<>>) \/ call' = Idle(FALSE, call.out)
    BY <1>5 DEF InitFails, fat32_cleanup, Fails, Done
  <2>2. call'.pc = "idle"
    BY <1>0, <2>1, IdleType
  <2> QED
    BY <1>1, <2>2
<1>6. CASE fat32_read_file
  <2>1. Idle(FALSE, <<>>) \in CallType /\ Idle(FALSE, <<>>).out = <<>>
    BY <1>0, IdleType
  <2>2. call'.pc = "search" /\ call'.out = <<>>
    BY <1>6, <2>1 DEF fat32_read_file, CallType
  <2> QED
    BY <2>2 DEF FileInv, ReadIsFile
<1>7. CASE Search
  <2>1. call.pc = "search" /\ call.out = <<>> /\ disk' = disk
    BY <1>7 DEF Search, FileInv
  <2>2. CASE disk.file = call.cluster
    <3>1. call'.pc = "copy" /\ call'.cluster = disk.first /\ call'.remaining = disk.size /\ call'.out = <<>>
      BY <1>0, <1>7, <2>1, <2>2 DEF Search, CallType
    <3>2. disk.size \in Nat /\ Len(call'.out) = 0 /\ 0 * UNITS = 0
      BY <3>1, Fat32Assumption, EmptySeq DEF FatType, Image
    <3>3. CopyInv'
      BY <2>1, <3>1, <3>2 DEF CopyInv
    <3> QED
      BY <3>1, <3>3 DEF FileInv, ReadIsFile
  <2>3. CASE disk.file # call.cluster
    <3>1. call'.pc = "search" /\ call'.out = <<>>
      BY <1>0, <1>7, <2>1, <2>3 DEF Search, CallType
    <3> QED
      BY <3>1 DEF FileInv, ReadIsFile
  <2> QED
    BY <2>2, <2>3
<1>8. CASE Copy
  <2>1. CopyInv /\ call'.pc = "copy"
    BY <1>0, <1>8 DEF Copy, FileInv, CallType
  <2>2. CopyInv'
    BY <1>8, <2>1, CopyKeeps
  <2> QED
    BY <2>1, <2>2 DEF FileInv, ReadIsFile
<1>9. CASE Returns
  <2> DEFINE n == Len(call.out)
  <2>1. Idle(TRUE, call.out) \in CallType /\ Idle(TRUE, call.out).out = call.out
    BY <1>0, IdleType
  <2>2. /\ call.pc = "copy" /\ disk' = disk /\ call'.pc = "read" /\ call'.out = call.out
        /\ ~InChain(call.cluster) \/ call.remaining <= 0
    BY <1>9, <2>1 DEF Returns, CallType
  <2>3. CopyInv
    BY <2>2 DEF FileInv
  <2>0. mounted /\ fat_table \in Tables
    BY <2>2 DEF MountInv, TableInv
  <2>4. /\ n \in Nat /\ call.remaining \in Nat /\ n * UNITS \in Nat /\ disk.size \in Nat
    BY <1>0, LenProperties, Fat32Assumption DEF CallType, FatType, Image
  <2>5. /\ n > 0 => call.out[1].from = disk.first
        /\ \A i \in 1 .. n - 1 :
              call.out[i + 1].from = fat_table[call.out[i].from] /\ call.out[i].units = UNITS
    BY <2>3 DEF CopyInv
  <2>50. ASSUME NEW i \in 1 .. n, InTable(call.out[i].from)
         PROVE  fat_table[call.out[i].from] = disk.fat[call.out[i].from]
    <3>1. call.out[i] \in Piece
      BY <1>0, ElementOfSeq
    <3>2. call.out[i].from \in Cluster
      BY <3>1 DEF Piece
    <3> QED
      BY <2>0, <2>50, <3>2 DEF Tables
  <2>51. \A i \in 1 .. n - 1 :
            /\ call.out[i].units = UNITS
            /\ InTable(call.out[i].from) => call.out[i + 1].from = disk.fat[call.out[i].from]
    <3> SUFFICES ASSUME NEW i \in 1 .. n - 1
                 PROVE  /\ call.out[i].units = UNITS
                        /\ InTable(call.out[i].from) => call.out[i + 1].from = disk.fat[call.out[i].from]
      OBVIOUS
    <3>1. i \in 1 .. n
      BY <2>4
    <3> QED
      BY <2>5, <2>50, <3>1, Zenon
  <2>6. \/ (n = 0 /\ disk.size = 0)
        \/ n > 0 /\ (n - 1) * UNITS + call.out[n].units = disk.size
        \/ n = 0 /\ 0 < disk.size /\ ~InChain(disk.first)
        \/ /\ n > 0 /\ n * UNITS < disk.size
           /\ InTable(call.out[n].from) => ~InChain(disk.fat[call.out[n].from])
    <3>1. CASE call.remaining = 0
      BY <2>3, <3>1 DEF CopyInv
    <3>2. CASE call.remaining > 0
      <4>1. ~InChain(call.cluster)
        BY <2>2, <2>4, <3>2
      <4>2. /\ call.remaining + n * UNITS = disk.size
            /\ call.cluster = IF n = 0 THEN disk.first ELSE fat_table[call.out[n].from]
        BY <2>3, <3>2 DEF CopyInv
      <4>3. n * UNITS < disk.size
        <5> DEFINE all == n * UNITS
        <5>1. all \in Nat /\ call.remaining + all = disk.size
          BY <2>4, <4>2
        <5> HIDE DEF all
        <5>2. all < disk.size
          BY <2>4, <3>2, <5>1
        <5> QED
          BY <5>2 DEF all
      <4>4. CASE n = 0
        <5>1. call.cluster = disk.first /\ 0 * UNITS = 0
          BY <4>2, <4>4, Fat32Assumption
        <5>2. 0 < disk.size
          BY <4>3, <4>4, <5>1
        <5> QED
          BY <4>1, <4>4, <5>1, <5>2
      <4>5. CASE n > 0
        <5>1. call.cluster = fat_table[call.out[n].from] /\ n \in 1 .. n
          BY <2>4, <4>2, <4>5
        <5> QED
          BY <2>50, <4>1, <4>3, <4>5, <5>1, Zenon
      <4> QED
        BY <2>4, <4>4, <4>5
    <3> QED
      BY <2>4, <3>1, <3>2
  <2>7. ReadIsFile'
    BY <2>2, <2>5, <2>51, <2>6, Zenon DEF ReadIsFile, InChain, InTable
  <2> QED
    BY <2>2, <2>7 DEF FileInv
<1>10. CASE DivisionError \/ Overrun
  <2>1. call' = [call EXCEPT !.pc = "crashed"] \/ call' = [call EXCEPT !.pc = "overrun"]
    BY <1>10 DEF DivisionError, Overrun
  <2>2. call'.pc = "crashed" \/ call'.pc = "overrun"
    BY <1>0, <2>1 DEF CallType
  <2> QED
    BY <1>1, <2>2
<1> QED
  BY <1>2, <1>3, <1>4, <1>5, <1>6, <1>7, <1>8, <1>9, <1>10 DEF FatNext, fatVars, ata_init

(***************************************************************************)
(* On any image, damaged ones and ones whose chains are cycles included,   *)
(* for any number of entries in a sector and any boot sectors, what        *)
(* fat32_read_file returns is the chain of the file up to its size, as far *)
(* as the FAT was read (ata_read_sectors takes the count as a byte).       *)
(***************************************************************************)
THEOREM FatReadIsFile == FatSpec => []ReadIsFile
<1>1. FatInit => FatType /\ MountInv /\ TableInv /\ FileInv
  <2> SUFFICES ASSUME FatInit PROVE FatType /\ MountInv /\ TableInv /\ FileInv
    OBVIOUS
  <2>1. call \in CallType /\ call.pc = "idle"
    BY IdleType, EmptySeq DEF FatInit
  <2> QED
    BY <2>1, LinkFacts DEF FatInit, FatType, MountInv, BuffersFreed, TableInv, FileInv, ReadIsFile
<1>2. FileInv => ReadIsFile
  BY DEF FileInv
<1> QED
  BY <1>1, <1>2, FatTypeNext, MountInvNext, TableInvNext, FileInvNext, PTL DEF FatSpec

-----------------------------------------------------------------------------
\* Ahci.

(***************************************************************************)
(* The buffers held are those of some of the ports that are counted; in    *)
(* the first call of ahci_init and after it has succeeded, of all of them. *)
(***************************************************************************)
DmaInv ==
    /\ port_count \in Nat
    /\ inits \in Nat
    /\ initialized \in BOOLEAN /\ twice \in BOOLEAN
    /\ inits <= 1 => ~twice
    /\ initialized => todo = {}
    /\ inits = 0 => todo = {} /\ ~initialized
    /\ ~initialized /\ todo = {} => owed = {}
    /\ owed \subseteq PortsBefore(port_count)
    /\ inits = 0 => port_count = 0
    /\ inits = 1 /\ (initialized \/ todo # {}) => owed = PortsBefore(port_count)

(***************************************************************************)
(* The memory of k + 1 ports is that of the k before and the k-th's.       *)
(***************************************************************************)
LEMMA PortsBeforeNext ==
    ASSUME NEW k \in Nat
    PROVE  PortsBefore(k + 1) = PortsBefore(k) \cup PortParts(k)
<1>1. 0 .. (k + 1) - 1 = (0 .. k - 1) \cup {k}
  OBVIOUS
<1> QED
  BY <1>1, Zenon DEF PortsBefore

(***************************************************************************)
(* No port comes before the first.                                         *)
(***************************************************************************)
LEMMA NoPortsBefore == PortsBefore(0) = {}
<1>1. 0 .. 0 - 1 = {}
  OBVIOUS
<1> QED
  BY <1>1, Zenon DEF PortsBefore

(***************************************************************************)
(* Every step of the driver keeps the account of the ports' memory:        *)
(* ahci_init, ahci_port_initialize when it succeeds and when it fails, and *)
(* the reads, which leave it alone.                                        *)
(***************************************************************************)
LEMMA DmaInvNext == DmaInv /\ [AhciNext]_ahciVars => DmaInv'
<1> SUFFICES ASSUME DmaInv, [AhciNext]_ahciVars PROVE DmaInv'
  OBVIOUS
<1>1. ASSUME UNCHANGED <<port_count, initialized, owed, twice, todo, inits>> PROVE DmaInv'
  BY <1>1 DEF DmaInv
<1>2. CASE UNCHANGED ahciVars
  BY <1>1, <1>2 DEF ahciVars
<1>3. ASSUME NEW p \in Port, ahci_read_sectors(p) PROVE DmaInv'
  BY <1>1, <1>3 DEF ahci_read_sectors
<1>4. CASE ReadReturns \/ Completes
  BY <1>1, <1>4 DEF ReadReturns, Completes
<1>5. CASE ahci_init
  <2>1. /\ ~initialized /\ todo = {} /\ inits' = inits + 1 /\ todo' = drives
        /\ initialized' = (drives = {}) /\ UNCHANGED <<port_count, owed, twice>>
    BY <1>5 DEF ahci_init
  <2>2. owed = {} /\ inits' \in Nat /\ inits' # 0 /\ (inits' = 1 => port_count = 0)
    BY <2>1 DEF DmaInv
  <2>3. inits' = 1 => owed' = PortsBefore(port_count')
    BY <2>1, <2>2, NoPortsBefore
  <2> QED
    BY <2>1, <2>2, <2>3 DEF DmaInv
<1>6. CASE ahci_port_initialize
  <2>1. /\ todo # {} /\ owed' = owed \cup PortParts(port_count) /\ port_count' = port_count + 1
        /\ initialized' = (todo' = {}) /\ inits' = inits /\ twice' = twice
    BY <1>6 DEF ahci_port_initialize
  <2>2. PortsBefore(port_count') = PortsBefore(port_count) \cup PortParts(port_count)
    BY <2>1, PortsBeforeNext DEF DmaInv
  <2>3. port_count' \in Nat /\ inits # 0
    BY <2>1 DEF DmaInv
  <2> QED
    BY <2>1, <2>2, <2>3 DEF DmaInv
<1>7. CASE InitError
  <2>1. PICK taken \in Partial(port_count) :
            owed' = ((owed \cup taken) \ PortError(taken)) \ PortsBefore(port_count)
    BY <1>7 DEF InitError
  <2>2. owed' = {}
    BY <2>1, Zenon DEF DmaInv, PortError
  <2>3. /\ todo # {} /\ todo' = {} /\ UNCHANGED <<port_count, initialized, inits>>
        /\ twice' = (twice \/ ~(PortsBefore(port_count) \subseteq owed))
    BY <1>7 DEF InitError
  <2>4. inits' <= 1 => ~twice'
    <3>1. inits <= 1 => inits = 1
      BY <2>3 DEF DmaInv
    <3>2. inits = 1 => PortsBefore(port_count) \subseteq owed
      BY <2>3, Zenon DEF DmaInv
    <3> QED
      BY <2>3, <3>1, <3>2 DEF DmaInv
  <2>5. twice' \in BOOLEAN
    BY <2>3, Zenon
  <2> QED
    BY <2>2, <2>3, <2>4, <2>5 DEF DmaInv
<1> QED
  BY <1>2, <1>3, <1>4, <1>5, <1>6, <1>7 DEF AhciNext

(***************************************************************************)
(* However many ports have a drive and wherever the memory runs out,       *)
(* ahci_init keeps all buffers or gives all of them to memory_free_dma.    *)
(***************************************************************************)
THEOREM AhciDmaGivenBack == AhciSpec => []DmaGivenBack
<1>1. AhciInit => DmaInv
  <2> SUFFICES ASSUME AhciInit PROVE DmaInv
    OBVIOUS
  <2>1. /\ port_count = 0 /\ inits = 0 /\ initialized = FALSE /\ todo = {} /\ owed = {} /\ twice = FALSE
        /\ 0 \in Nat /\ 0 # 1
    BY DEF AhciInit
  <2> QED
    BY <2>1, Zenon DEF DmaInv
<1>2. DmaInv => DmaGivenBack
  BY DEF DmaInv, DmaGivenBack
<1> QED
  BY <1>1, <1>2, DmaInvNext, PTL DEF AhciSpec

-----------------------------------------------------------------------------
\* Terminal.

Text == Commands \cup {"commands", "not found", "a", "nl", "unknown", "terminal", "type help"}

(***************************************************************************)
(* The lines, and the ring of commands, hold the last of what was written. *)
(***************************************************************************)
TermType ==
    /\ term_lines \in [0 .. TERM_ROWS - 1 -> Text]
    /\ current_command \in Commands
    /\ history \in [0 .. MAX_HISTORY - 1 -> Text]
    /\ history_count \in Nat
    /\ output \in Seq(Text)
    /\ written \in Seq(Text)
    /\ executed \in Seq(Text)

TermLinesInv ==
    /\ line_count = Len(written)
    /\ line_count <= TERM_ROWS
    /\ \A i \in 1 .. line_count : term_lines[i - 1] = written[i]

HistoryInv ==
    /\ Len(executed) = IF history_count > MAX_HISTORY THEN MAX_HISTORY ELSE history_count
    /\ \A i \in 0 .. Len(executed) - 1 :
          history[(history_count - 1 - i) % MAX_HISTORY] = executed[Len(executed) - i]

(***************************************************************************)
(* The last N of at most N entries and one more: by place, and counted     *)
(* from the end.                                                           *)
(***************************************************************************)
RecentIs(S, N, s, e, t) ==
    /\ t \in Seq(S)
    /\ Len(s) < N => t = Append(s, e) /\ Len(t) = Len(s) + 1
    /\ Len(s) = N => Len(t) = N
    /\ \A i \in 1 .. Len(t) - 1 : t[i] = IF Len(s) < N THEN s[i] ELSE s[i + 1]
    /\ t[Len(t)] = e

(***************************************************************************)
(* What is kept of at most N entries when one more is appended.            *)
(***************************************************************************)
LEMMA RecentAppend ==
    ASSUME NEW S, NEW N \in Nat \ {0}, NEW s \in Seq(S), NEW e \in S, Len(s) <= N
    PROVE  RecentIs(S, N, s, e, Recent(Append(s, e), N))
<1> DEFINE t == Recent(Append(s, e), N)
<1>1. /\ Append(s, e) \in Seq(S) /\ Len(Append(s, e)) = Len(s) + 1 /\ Len(s) \in Nat
      /\ \A i \in 1 .. Len(s) : Append(s, e)[i] = s[i]
      /\ Append(s, e)[Len(s) + 1] = e
  BY AppendProperties, LenProperties
<1>2. CASE Len(s) < N
  <2>1. t = Append(s, e)
    BY <1>1, <1>2 DEF Recent
  <2> HIDE DEF t
  <2>2. Len(t) - 1 = Len(s) /\ Len(t) = Len(s) + 1 /\ Len(s) # N
    BY <1>1, <1>2, <2>1
  <2>3. t \in Seq(S) /\ t[Len(t)] = e /\ \A i \in 1 .. Len(t) - 1 : t[i] = s[i]
    BY <1>1, <2>1, <2>2
  <2>4. RecentIs(S, N, s, e, t)
    BY <1>2, <2>1, <2>2, <2>3, Zenon DEF RecentIs
  <2> QED
    BY <2>4 DEF t
<1>3. CASE Len(s) = N
  <2>1. s # <<>>
    BY <1>3, EmptySeq
  <2>2. t = SubSeq(Append(s, e), 2, Len(s) + 1)
    <3>1. Len(Append(s, e)) > N /\ Len(Append(s, e)) - N + 1 = 2
      BY <1>1, <1>3
    <3> QED
      BY <1>1, <3>1 DEF Recent
  <2>3. t = Append(Tail(s), e)
    BY <2>1, <2>2, LastAreTail
  <2>4. /\ Tail(s) \in Seq(S) /\ Len(Tail(s)) = Len(s) - 1
        /\ \A k \in 1 .. Len(s) - 1 : Tail(s)[k] = s[k + 1]
    BY <2>1, HeadTailProperties
  <2> HIDE DEF t
  <2>5. /\ t \in Seq(S) /\ Len(t) = Len(Tail(s)) + 1
        /\ \A k \in 1 .. Len(Tail(s)) : t[k] = Tail(s)[k]
        /\ t[Len(Tail(s)) + 1] = e
    BY <2>3, <2>4, AppendProperties
  <2>6. Len(t) = N /\ Len(t) - 1 = Len(Tail(s)) /\ Len(s) - 1 = Len(t) - 1 /\ ~(Len(s) < N)
    BY <1>1, <1>3, <2>4, <2>5
  <2>7. t[Len(t)] = e /\ \A i \in 1 .. Len(t) - 1 : t[i] = s[i + 1]
    BY <2>4, <2>5, <2>6
  <2>8. RecentIs(S, N, s, e, t)
    BY <2>5, <2>6, <2>7, Zenon DEF RecentIs
  <2> QED
    BY <2>8 DEF t
<1> QED
  BY <1>1, <1>2, <1>3

(***************************************************************************)
(* What a command prints is text.                                          *)
(***************************************************************************)
LEMMA OutputType == ASSUME NEW c \in Commands PROVE <<c>> \o Output(c) \in Seq(Text)
<1>1. c \in Text
  BY DEF Text
<1>2. <<c>> \in Seq(Text)
  BY <1>1
<1>3. Output(c) \in Seq(Text)
  <2>1. "commands" \in Text /\ "not found" \in Text /\ "a" \in Text /\ "nl" \in Text /\ "unknown" \in Text
    BY DEF Text
  <2>2. /\ <<"commands">> \in Seq(Text) /\ <<"not found">> \in Seq(Text) /\ <<"unknown">> \in Seq(Text)
    BY <2>1, ShortSeqs, Zenon
  <2>3. <<"a", "nl">> \in Seq(Text)
    BY <2>1, ShortSeqs, Zenon
  <2>4. <<>> \in Seq(Text)
    BY EmptySeq
  <2>5. Output(c) \in {<<"commands">>, <<"not found">>, <<"a", "nl">>, <<"unknown">>, <<>>}
    BY DEF Output
  <2> QED
    BY <2>2, <2>3, <2>4, <2>5, Zenon
<1> QED
  BY <1>2, <1>3, ConcatProperties

(***************************************************************************)
(* The banner is text.                                                     *)
(***************************************************************************)
LEMMA BannerType == Banner \in Seq(Text)
<1>1. "terminal" \in Text /\ "type help" \in Text
  BY DEF Text
<1> QED
  BY <1>1, ShortSeqs, Zenon DEF Banner

-----------------------------------------------------------------------------
(***************************************************************************)
(* terminal_writeln puts the line behind the others, or scrolls first.     *)
(***************************************************************************)
LEMMA WritelnKeeps ==
    ASSUME TermType, TermLinesInv, terminal_writeln
    PROVE  TermType' /\ TermLinesInv'
<1> DEFINE e == Head(output)
           N == TERM_ROWS
           s == written
           t == Recent(Append(written, Head(output)), TERM_ROWS)
<1>1. /\ e \in Text /\ Tail(output) \in Seq(Text)
  BY HeadTailProperties DEF terminal_writeln, TermType
<1>2. /\ N \in Nat \ {0} /\ s \in Seq(Text) /\ Len(s) \in Nat /\ Len(s) <= N /\ line_count = Len(s)
      /\ \A i \in 1 .. Len(s) : term_lines[i - 1] = s[i]
      /\ term_lines \in [0 .. N - 1 -> Text]
  BY TerminalAssumption, LenProperties DEF TermType, TermLinesInv
<1>3. /\ written' = t /\ output' = Tail(output)
      /\ UNCHANGED <<current_command, history, history_count, executed>>
      /\ line_count < N => /\ term_lines' = [term_lines EXCEPT ![line_count] = e]
                           /\ line_count' = line_count + 1
      /\ ~(line_count < N) => /\ term_lines' = [i \in 0 .. N - 1 |->
                                                    IF i = N - 1 THEN e ELSE term_lines[i + 1]]
                              /\ line_count' = line_count
  BY DEF terminal_writeln, Scrolled
<1> HIDE DEF e, N, s, t
<1>4. RecentIs(Text, N, s, e, t)
  BY <1>1, <1>2, RecentAppend, Zenon DEF t, e, s, N
<1>5. CASE Len(s) < N
  <2>1. /\ t \in Seq(Text) /\ Len(t) = Len(s) + 1 /\ t[Len(t)] = e
        /\ \A i \in 1 .. Len(t) - 1 : t[i] = s[i]
    BY <1>4, <1>5, Zenon DEF RecentIs
  <2>2. term_lines' = [term_lines EXCEPT ![Len(s)] = e] /\ line_count' = Len(s) + 1
    BY <1>2, <1>3, <1>5
  <2>3. term_lines' \in [0 .. N - 1 -> Text]
    BY <1>1, <1>2, <2>2
  <2>4. ASSUME NEW i \in 1 .. line_count' PROVE term_lines'[i - 1] = t[i]
    <3>1. CASE i = Len(s) + 1
      BY <1>2, <1>5, <2>1, <2>2, <3>1
    <3>2. CASE i # Len(s) + 1
      <4>1. i \in 1 .. Len(s) /\ i \in 1 .. Len(t) - 1 /\ i - 1 # Len(s) /\ i - 1 \in 0 .. N - 1
        BY <1>2, <1>5, <2>1, <2>2, <3>2
      <4> QED
        BY <1>2, <2>1, <2>2, <4>1
    <3> QED
      BY <3>1, <3>2
  <2>5. line_count' = Len(written') /\ line_count' <= N
    BY <1>2, <1>3, <1>5, <2>1, <2>2
  <2> QED
    BY <1>1, <1>3, <2>1, <2>3, <2>4, <2>5 DEF TermType, TermLinesInv, N
<1>6. CASE ~(Len(s) < N)
  <2>0. Len(s) = N
    BY <1>2, <1>6
  <2>1. /\ t \in Seq(Text) /\ Len(t) = N /\ t[Len(t)] = e
        /\ \A i \in 1 .. Len(t) - 1 : t[i] = s[i + 1]
    BY <1>4, <1>6, <2>0, Zenon DEF RecentIs
  <2>2. /\ term_lines' = [i \in 0 .. N - 1 |-> IF i = N - 1 THEN e ELSE term_lines[i + 1]]
        /\ line_count' = N
    BY <1>2, <1>3, <2>0
  <2>3. term_lines' \in [0 .. N - 1 -> Text]
    BY <1>1, <1>2, <2>2
  <2>4. ASSUME NEW i \in 1 .. line_count' PROVE term_lines'[i - 1] = t[i]
    <3>1. CASE i = N
      BY <1>2, <2>1, <2>2, <3>1
    <3>2. CASE i # N
      <4>1. i \in 1 .. N - 1 /\ i - 1 \in 0 .. N - 1 /\ i - 1 # N - 1 /\ (i - 1) + 1 = i /\ i + 1 \in 1 .. Len(s)
            /\ (i + 1) - 1 = i
        BY <1>2, <2>0, <2>2, <3>2
      <4>2. term_lines'[i - 1] = term_lines[i]
        BY <2>2, <4>1
      <4>3. term_lines[i] = s[i + 1]
        BY <1>2, <4>1
      <4> QED
        BY <2>1, <4>1, <4>2, <4>3
    <3> QED
      BY <3>1, <3>2
  <2>5. line_count' = Len(written') /\ line_count' <= N
    BY <1>2, <1>3, <2>1, <2>2
  <2> QED
    BY <1>1, <1>3, <2>1, <2>3, <2>4, <2>5 DEF TermType, TermLinesInv, N
<1> QED
  BY <1>5, <1>6

(***************************************************************************)
(* Storing a command at history_count % MAX_HISTORY overwrites the oldest  *)
(* one when the ring is full.                                              *)
(***************************************************************************)
LEMMA ExecuteKeeps ==
    ASSUME TermType, HistoryInv, NEW e \in Text,
           history' = [history EXCEPT ![history_count % MAX_HISTORY] = e],
           history_count' = history_count + 1,
           executed' = Recent(Append(executed, e), MAX_HISTORY)
    PROVE  history' \in [0 .. MAX_HISTORY - 1 -> Text] /\ executed' \in Seq(Text) /\ HistoryInv'
<1> DEFINE N == MAX_HISTORY
           s == executed
           t == Recent(Append(executed, e), MAX_HISTORY)
           c == history_count
           k == history_count % MAX_HISTORY
<1>1. /\ N \in Nat \ {0} /\ s \in Seq(Text) /\ Len(s) \in Nat /\ Len(s) <= N
      /\ history \in [0 .. N - 1 -> Text] /\ c \in Nat
      /\ Len(s) = IF c > N THEN N ELSE c
      /\ \A i \in 0 .. Len(s) - 1 : history[(c - 1 - i) % N] = s[Len(s) - i]
  BY TerminalAssumption, LenProperties DEF TermType, HistoryInv
<1>2. k \in 0 .. N - 1
  BY <1>1, ModPosition
<1>3. executed' = t /\ history' = [history EXCEPT ![k] = e] /\ history_count' = c + 1
  OBVIOUS
<1> HIDE DEF N, s, t, c
<1>4. RecentIs(Text, N, s, e, t)
  BY <1>1, RecentAppend, Zenon DEF t, s, N
<1>5. /\ t \in Seq(Text) /\ t[Len(t)] = e
      /\ Len(t) = IF c + 1 > N THEN N ELSE c + 1
      /\ Len(t) = Len(s) + 1 \/ (Len(t) = N /\ Len(s) = N)
      /\ \A i \in 1 .. Len(t) - 1 : t[Len(t) - i] = s[Len(s) - (i - 1)]
  <2>1. CASE Len(s) < N
    <3>1. /\ t \in Seq(Text) /\ t[Len(t)] = e /\ Len(t) = Len(s) + 1
          /\ \A i \in 1 .. Len(t) - 1 : t[i] = s[i]
      BY <1>4, <2>1, Zenon DEF RecentIs
    <3>2. ASSUME NEW i \in 1 .. Len(t) - 1 PROVE t[Len(t) - i] = s[Len(s) - (i - 1)]
      <4>1. Len(t) - i \in 1 .. Len(t) - 1 /\ Len(s) - (i - 1) = Len(t) - i
        BY <1>1, <3>1
      <4>2. t[Len(t) - i] = s[Len(t) - i]
        BY <3>1, <4>1, Zenon
      <4> QED
        BY <4>1, <4>2, Zenon
    <3>3. Len(t) = (IF c + 1 > N THEN N ELSE c + 1) /\ (Len(t) = Len(s) + 1 \/ (Len(t) = N /\ Len(s) = N))
      BY <1>1, <2>1, <3>1
    <3> QED
      BY <3>1, <3>2, <3>3, Zenon
  <2>2. CASE Len(s) = N
    <3>1. /\ t \in Seq(Text) /\ t[Len(t)] = e /\ Len(t) = N
          /\ \A i \in 1 .. Len(t) - 1 : t[i] = IF Len(s) < N THEN s[i] ELSE s[i + 1]
      BY <1>4, <2>2, Zenon DEF RecentIs
    <3>2. ASSUME NEW i \in 1 .. Len(t) - 1 PROVE t[Len(t) - i] = s[Len(s) - (i - 1)]
      <4>1. Len(t) - i \in 1 .. Len(t) - 1 /\ Len(s) - (i - 1) = (Len(t) - i) + 1 /\ ~(Len(s) < N)
        BY <1>1, <2>2, <3>1
      <4>2. t[Len(t) - i] = s[(Len(t) - i) + 1]
        BY <3>1, <4>1, Zenon
      <4> QED
        BY <4>1, <4>2, Zenon
    <3>3. Len(t) = (IF c + 1 > N THEN N ELSE c + 1) /\ (Len(t) = Len(s) + 1 \/ (Len(t) = N /\ Len(s) = N))
      BY <1>1, <2>2, <3>1
    <3> QED
      BY <3>1, <3>2, <3>3, Zenon
  <2> QED
    BY <1>1, <2>1, <2>2
<1>6. ASSUME NEW i \in 0 .. Len(t) - 1
      PROVE  history'[((c + 1) - 1 - i) % N] = t[Len(t) - i]
  <2>1. CASE i = 0
    <3>1. (c + 1) - 1 - i = c /\ Len(t) - i = Len(t)
      BY <1>1, <1>5, <2>1
    <3>2. history'[k] = e
      BY <1>1, <1>2, <1>3
    <3>3. k = c % N
      BY DEF c, N
    <3> HIDE DEF k
    <3> QED
      BY <1>5, <3>1, <3>2, <3>3, Zenon
  <2>2. CASE i # 0
    <3> DEFINE j == i - 1
               a == c - i
    <3>1. /\ i \in 1 .. Len(t) - 1 /\ j \in 0 .. Len(s) - 1 /\ c - 1 - j = a /\ (c + 1) - 1 - i = a
          /\ a \in Nat /\ a < c /\ c - a < N
      BY <1>1, <1>5, <2>2
    <3>2. k = c % N
      BY DEF c, N
    <3> HIDE DEF k, a
    <3>3. a % N # c % N
      BY <1>1, <3>1, ModDiffers
    <3>4. a % N \in 0 .. N - 1
      BY <1>1, <3>1, ModPosition
    <3> DEFINE m == a % N
    <3>5. m # k /\ m \in 0 .. N - 1
      BY <3>2, <3>3, <3>4
    <3> HIDE DEF m
    <3>6. history'[m] = history[m]
      BY <1>1, <1>2, <1>3, <3>5
    <3>7. history[(c - 1 - j) % N] = s[Len(s) - j]
      BY <1>1, <3>1
    <3>8. t[Len(t) - i] = s[Len(s) - j]
      BY <1>5, <3>1
    <3> HIDE DEF j
    <3> QED
      BY <3>1, <3>6, <3>7, <3>8, Zenon DEF m
  <2> QED
    BY <2>1, <2>2
<1>7. history' \in [0 .. N - 1 -> Text]
  BY <1>1, <1>2, <1>3
<1>8. HistoryInv'
  BY <1>3, <1>5, <1>6, Zenon DEF HistoryInv, N
<1> QED
  BY <1>3, <1>5, <1>7, <1>8 DEF N

(***************************************************************************)
(* Every step keeps the lines and the history the last ones.               *)
(***************************************************************************)
LEMMA TermInvNext ==
    TermType /\ TermLinesInv /\ HistoryInv /\ [TermNext]_termVars => TermType' /\ TermLinesInv' /\ HistoryInv'
<1> SUFFICES ASSUME TermType, TermLinesInv, HistoryInv, [TermNext]_termVars
             PROVE  TermType' /\ TermLinesInv' /\ HistoryInv'
  OBVIOUS
<1>a. ASSUME UNCHANGED <<term_lines, line_count, written>> PROVE TermLinesInv'
  BY <1>a DEF TermLinesInv
<1>b. ASSUME UNCHANGED <<history, history_count, executed>> PROVE HistoryInv'
  BY <1>b DEF HistoryInv
<1>1. CASE UNCHANGED termVars
  BY <1>1, <1>a, <1>b DEF termVars, TermType
<1>2. CASE terminal_writeln
  BY <1>2, <1>b, WritelnKeeps DEF terminal_writeln
<1>3. ASSUME NEW line \in Commands, Typed(line) PROVE TermType' /\ TermLinesInv' /\ HistoryInv'
  BY <1>3, <1>a, <1>b DEF Typed, TermType
<1>4. CASE terminal_init
  <2>1. /\ term_lines' = [i \in 0 .. TERM_ROWS - 1 |-> ""] /\ line_count' = 0
        /\ history' = [i \in 0 .. MAX_HISTORY - 1 |-> ""] /\ history_count' = 0
        /\ output' = Banner /\ written' = <<>> /\ executed' = <<>> /\ current_command' = current_command
    BY <1>4 DEF terminal_init
  <2>2. "" \in Text /\ <<>> \in Seq(Text) /\ Len(<<>>) = 0
    BY EmptySeq DEF Text, Commands
  <2>3. TermType'
    BY <2>1, <2>2, BannerType DEF TermType
  <2>4. TermLinesInv' /\ HistoryInv'
    <3>1. Len(written') = 0 /\ Len(executed') = 0 /\ line_count' = 0 /\ history_count' = 0
      BY <2>1, <2>2, Zenon
    <3> QED
      BY <3>1, TerminalAssumption DEF TermLinesInv, HistoryInv
  <2> QED
    BY <2>3, <2>4
<1>5. CASE terminal_handle_input
  <2>1. /\ output' = <<current_command>> \o Output(current_command) /\ current_command' = ""
        /\ UNCHANGED <<term_lines, line_count, written>>
        /\ current_command \in Commands /\ current_command \in Text /\ "" \in Commands
    BY <1>5 DEF terminal_handle_input, TermType, Text, Commands
  <2>2. output' \in Seq(Text)
    BY <2>1, OutputType
  <2>3. CASE current_command = ""
    <3>1. UNCHANGED <<history, history_count, executed>>
      BY <1>5, <2>3 DEF terminal_handle_input
    <3>2. TermType'
      BY <2>1, <2>2, <3>1 DEF TermType
    <3> QED
      BY <1>a, <1>b, <2>1, <3>1, <3>2
  <2>4. CASE current_command # ""
    <3>1. /\ history' = [history EXCEPT ![history_count % MAX_HISTORY] = current_command]
          /\ history_count' = history_count + 1
          /\ executed' = Recent(Append(executed, current_command), MAX_HISTORY)
      BY <1>5, <2>4 DEF terminal_handle_input
    <3>2. history' \in [0 .. MAX_HISTORY - 1 -> Text] /\ executed' \in Seq(Text) /\ HistoryInv'
      BY <2>1, <3>1, ExecuteKeeps
    <3>3. history_count' \in Nat
      BY <3>1 DEF TermType
    <3>4. TermType'
      BY <2>1, <2>2, <3>2, <3>3 DEF TermType
    <3> QED
      BY <1>a, <2>1, <3>2, <3>4
  <2> QED
    BY <2>3, <2>4
<1> QED
  BY <1>1, <1>2, <1>3, <1>4, <1>5 DEF TermNext

(***************************************************************************)
(* For any size of the terminal and of the history the lines and the       *)
(* commands shown are the last ones, in order.                             *)
(***************************************************************************)
THEOREM TerminalShowsRecent == TermSpec => []ShowsRecent
<1>1. TermInit => TermType /\ TermLinesInv /\ HistoryInv
  <2> SUFFICES ASSUME TermInit PROVE TermType /\ TermLinesInv /\ HistoryInv
    OBVIOUS
  <2>2. "" \in Text /\ "" \in Commands /\ <<>> \in Seq(Text) /\ Len(<<>>) = 0
    BY EmptySeq DEF Text, Commands
  <2>3. TermType
    BY <2>2, BannerType DEF TermType, TermInit
  <2>4. TermLinesInv /\ HistoryInv
    <3>1. Len(written) = 0 /\ Len(executed) = 0 /\ line_count = 0 /\ history_count = 0
      BY <2>2, Zenon DEF TermInit
    <3> QED
      BY <3>1, TerminalAssumption DEF TermLinesInv, HistoryInv
  <2> QED
    BY <2>3, <2>4
<1>2. TermLinesInv /\ HistoryInv => ShowsRecent
  BY Zenon DEF TermLinesInv, HistoryInv, ShowsRecent, shell_get_history, shell_get_history_count
<1> QED
  BY <1>1, <1>2, TermInvNext, PTL DEF TermSpec

-----------------------------------------------------------------------------
\* Vga.

Glyph == {"a", Blank}
BlankRow == [c \in Column |-> Blank]

(***************************************************************************)
(* The screen is a window on the sheet, which is blank below it.           *)
(***************************************************************************)
ScreenInv ==
    /\ buffer \in [Row -> [Column -> Glyph]]
    /\ sheet \in [SheetRow -> [Column -> Glyph]]
    /\ top \in 0 .. MAX_TOP
    /\ cursor_enabled \in BOOLEAN
    /\ ScreenIsSheet
    /\ \A r \in SheetRow : r >= top + VGA_HEIGHT => sheet[r] = BlankRow

\* A row of the screen is a row of the sheet.
LEMMA SheetRows ==
    ASSUME NEW t \in 0 .. MAX_TOP, NEW r \in Row
    PROVE  t + r \in SheetRow /\ t + r < t + VGA_HEIGHT
  BY VgaAssumption DEF Row, SheetRow

\* Where the characters of the switch put the cursor.
LEMMA MovesInside ==
    ASSUME NEW c \in {"a", "newline", "return", "tab", "backspace"}, x \in Column, y \in Row
    PROVE  /\ Wrapped(Moves(c))[1] \in Column
           /\ Wrapped(Moves(c))[2] \in 0 .. VGA_HEIGHT
<1>1. ASSUME NEW p, NEW i \in Nat, NEW j \in 0 .. VGA_HEIGHT, p = <<i, j>>, i >= VGA_WIDTH => j < VGA_HEIGHT
      PROVE  Wrapped(p)[1] \in Column /\ Wrapped(p)[2] \in 0 .. VGA_HEIGHT
  <2>1. p[1] = i /\ p[2] = j
    BY <1>1
  <2>2. CASE i >= VGA_WIDTH
    <3>1. Wrapped(p) = <<0, j + 1>>
      BY <2>1, <2>2 DEF Wrapped
    <3> QED
      BY <1>1, <2>2, <3>1, VgaAssumption DEF Column
  <2>3. CASE ~(i >= VGA_WIDTH)
    <3>1. Wrapped(p) = p
      BY <2>1, <2>3 DEF Wrapped
    <3> QED
      BY <1>1, <2>1, <2>3, <3>1, VgaAssumption DEF Column
  <2> QED
    BY <2>2, <2>3
<1>2. /\ VGA_WIDTH \in Nat \ {0} /\ VGA_HEIGHT \in Nat \ {0} /\ TAB \in Nat \ {0}
      /\ x \in 0 .. VGA_WIDTH - 1 /\ y \in 0 .. VGA_HEIGHT - 1
  BY VgaAssumption DEF Column, Row
<1>3. CASE c = "newline"
  <2>1. Moves(c) = <<0, y + 1>> /\ 0 \in Nat /\ y + 1 \in 0 .. VGA_HEIGHT /\ ~(0 >= VGA_WIDTH)
    BY <1>2, <1>3 DEF Moves
  <2> QED
    BY <1>1, <2>1
<1>4. CASE c = "return"
  <2>1. Moves(c) = <<0, y>> /\ 0 \in Nat /\ y \in 0 .. VGA_HEIGHT /\ ~(0 >= VGA_WIDTH)
    BY <1>2, <1>4 DEF Moves
  <2> QED
    BY <1>1, <2>1
<1>5. CASE c = "tab"
  <2> DEFINE i == (x \div TAB + 1) * TAB
  <2>1. i \in Nat
    <3> DEFINE q == x \div TAB
    <3>1. q \in Nat
      BY <1>2
    <3> HIDE DEF q
    <3>2. (q + 1) * TAB \in Nat
      BY <1>2, <3>1
    <3> QED
      BY <3>2 DEF q
  <2>2. Moves(c) = <<i, y>>
    BY <1>5 DEF Moves
  <2> HIDE DEF i
  <2>3. y \in 0 .. VGA_HEIGHT /\ y < VGA_HEIGHT
    BY <1>2
  <2> QED
    BY <1>1, <2>1, <2>2, <2>3
<1>6. CASE c = "backspace"
  <2>1. Moves(c) = Back
    BY <1>6 DEF Moves
  <2>2. PICK i \in Nat, j \in 0 .. VGA_HEIGHT : Back = <<i, j>> /\ j < VGA_HEIGHT
    BY <1>2 DEF Back
  <2> QED
    BY <1>1, <2>1, <2>2
<1>7. CASE c = "a"
  <2>1. Moves(c) = <<x + 1, y>> /\ x + 1 \in Nat /\ y \in 0 .. VGA_HEIGHT /\ y < VGA_HEIGHT
    BY <1>2, <1>7 DEF Moves
  <2> QED
    BY <1>1, <2>1
<1> QED
  BY <1>3, <1>4, <1>5, <1>6, <1>7

\* A cell is written, on the screen and on the sheet, or none.
LEMMA WritesCell ==
    ASSUME NEW c \in {"a", "newline", "return", "tab", "backspace"}, x \in Column, y \in Row
    PROVE  \/ Written(buffer, 0, c) = buffer /\ Written(sheet, top, c) = sheet
           \/ \E j \in Row, i \in Column, g \in Glyph :
                 /\ Written(buffer, 0, c) = [buffer EXCEPT ![j][i] = g]
                 /\ Written(sheet, top, c) = [sheet EXCEPT ![top + j][i] = g]
<1>1. CASE c \in {"newline", "return", "tab"}
  BY <1>1 DEF Written
<1>2. CASE c = "a"
  <2> DEFINE row == y
             col == x
             glyph == "a"
  <2>1. /\ Written(buffer, 0, c) = [buffer EXCEPT ![0 + row][col] = glyph]
        /\ Written(sheet, top, c) = [sheet EXCEPT ![top + row][col] = glyph]
    BY <1>2 DEF Written
  <2>2. row \in Row /\ col \in Column /\ 0 + row = row
    BY VgaAssumption DEF Row
  <2>3. glyph \in Glyph
    BY DEF Glyph
  <2> HIDE DEF row, col, glyph
  <2>4. Written(buffer, 0, c) = [buffer EXCEPT ![row][col] = glyph]
    BY <2>1, <2>2
  <2> USE <2>2, <2>3
  <2>5. \E j \in Row, i \in Column, g \in Glyph :
           /\ Written(buffer, 0, c) = [buffer EXCEPT ![j][i] = g]
           /\ Written(sheet, top, c) = [sheet EXCEPT ![top + j][i] = g]
    <3> WITNESS row \in Row, col \in Column, glyph \in Glyph
    <3> QED
      BY <2>1, <2>4
  <2> QED
    BY <2>5
<1>3. CASE c = "backspace"
  <2>1. /\ Written(buffer, 0, c) = [buffer EXCEPT ![0 + Back[2]][Back[1]] = Blank]
        /\ Written(sheet, top, c) = [sheet EXCEPT ![top + Back[2]][Back[1]] = Blank]
    BY <1>3 DEF Written
  <2>2. Back[2] \in Row /\ Back[1] \in Column /\ 0 + Back[2] = Back[2]
    BY VgaAssumption DEF Back, Row, Column
  <2>3. Blank \in Glyph
    BY DEF Glyph
  <2> DEFINE row == Back[2]
             col == Back[1]
  <2>4. row \in Row /\ col \in Column /\ 0 + row = row
    BY <2>2
  <2>5. /\ Written(buffer, 0, c) = [buffer EXCEPT ![0 + row][col] = Blank]
        /\ Written(sheet, top, c) = [sheet EXCEPT ![top + row][col] = Blank]
    BY <2>1
  <2> HIDE DEF row, col
  <2>6. Written(buffer, 0, c) = [buffer EXCEPT ![row][col] = Blank]
    BY <2>4, <2>5
  <2> USE <2>3, <2>4
  <2>7. \E j \in Row, i \in Column, g \in Glyph :
           /\ Written(buffer, 0, c) = [buffer EXCEPT ![j][i] = g]
           /\ Written(sheet, top, c) = [sheet EXCEPT ![top + j][i] = g]
    <3> WITNESS row \in Row, col \in Column, Blank \in Glyph
    <3> QED
      BY <2>5, <2>6
  <2> QED
    BY <2>7
<1> QED
  BY <1>1, <1>2, <1>3

(***************************************************************************)
(* Writing a character at the cursor changes the screen and the sheet's    *)
(* window alike.                                                           *)
(***************************************************************************)
LEMMA WrittenSame ==
    ASSUME ScreenInv, NEW c \in {"a", "newline", "return", "tab", "backspace"}
    PROVE  /\ Written(buffer, 0, c) \in [Row -> [Column -> Glyph]]
           /\ Written(sheet, top, c) \in [SheetRow -> [Column -> Glyph]]
           /\ \A r \in Row : Written(buffer, 0, c)[r] = Written(sheet, top, c)[top + r]
           /\ \A r \in SheetRow : r >= top + VGA_HEIGHT => Written(sheet, top, c)[r] = BlankRow
<1> DEFINE b == Written(buffer, 0, c)
           s == Written(sheet, top, c)
<1>0. x \in Column /\ y \in Row /\ \A r \in Row : buffer[r] = sheet[top + r]
  BY DEF ScreenInv, ScreenIsSheet
<1>1. ASSUME b = buffer, s = sheet
      PROVE  /\ b \in [Row -> [Column -> Glyph]] /\ s \in [SheetRow -> [Column -> Glyph]]
             /\ \A r \in Row : b[r] = s[top + r]
             /\ \A r \in SheetRow : r >= top + VGA_HEIGHT => s[r] = BlankRow
  <2> HIDE DEF b, s
  <2> QED
    BY <1>0, <1>1 DEF ScreenInv
<1>2. ASSUME NEW j \in Row, NEW i \in Column, NEW g \in Glyph,
             b = [buffer EXCEPT ![j][i] = g], s = [sheet EXCEPT ![top + j][i] = g]
      PROVE  /\ b \in [Row -> [Column -> Glyph]] /\ s \in [SheetRow -> [Column -> Glyph]]
             /\ \A r \in Row : b[r] = s[top + r]
             /\ \A r \in SheetRow : r >= top + VGA_HEIGHT => s[r] = BlankRow
  <2> HIDE DEF b, s
  <2> DEFINE k == top + j
  <2>1. k \in SheetRow /\ k < top + VGA_HEIGHT /\ top \in Nat /\ VGA_HEIGHT \in Nat
    BY SheetRows, VgaAssumption DEF ScreenInv
  <2>2. s = [sheet EXCEPT ![k][i] = g]
    BY <1>2
  <2>3. \A r \in Row : top + r \in SheetRow /\ (top + r = k <=> r = j)
    <3>1. top \in 0 .. MAX_TOP /\ \A r \in Row : r \in Int
      BY VgaAssumption DEF ScreenInv, Row
    <3>2. \A r \in Row : top + r \in SheetRow
      BY <3>1, SheetRows
    <3>3. ASSUME NEW r \in Row PROVE top + r = top + j <=> r = j
      <4>1. top \in Int /\ r \in Int /\ j \in Int
        BY <2>1, <3>1
      <4> QED
        BY <4>1
    <3> QED
      BY <3>2, <3>3
  <2>4. k \in Int /\ \A r \in SheetRow : r \in Int
    BY <2>1, VgaAssumption DEF SheetRow
  <2>5. buffer[j] = sheet[k]
    BY <1>0
  <2> HIDE DEF k
  <2>6. /\ b \in [Row -> [Column -> Glyph]] /\ s \in [SheetRow -> [Column -> Glyph]]
    <3>1. buffer \in [Row -> [Column -> Glyph]] /\ sheet \in [SheetRow -> [Column -> Glyph]]
      BY DEF ScreenInv
    <3>2. b \in [Row -> [Column -> Glyph]]
      BY <1>2, <3>1
    <3>3. s \in [SheetRow -> [Column -> Glyph]]
      BY <2>1, <2>2, <3>1
    <3> QED
      BY <3>2, <3>3
  <2>7. ASSUME NEW r \in Row PROVE b[r] = s[top + r]
    <3>1. CASE r = j
      <4>1. b[j] = [buffer[j] EXCEPT ![i] = g]
        BY <1>2 DEF ScreenInv
      <4>2. s[k] = [sheet[k] EXCEPT ![i] = g]
        BY <2>1, <2>2 DEF ScreenInv
      <4>3. top + r = k
        BY <2>3, <3>1
      <4> QED
        BY <2>5, <3>1, <4>1, <4>2, <4>3
    <3>2. CASE r # j
      <4>1. b[r] = buffer[r]
        BY <1>2, <3>2 DEF ScreenInv
      <4> DEFINE m == top + r
      <4>2. m \in SheetRow /\ m # k
        BY <2>3, <3>2
      <4>3. buffer[r] = sheet[m]
        BY <1>0
      <4> HIDE DEF m
      <4>4. s[m] = sheet[m]
        BY <2>1, <2>2, <4>2 DEF ScreenInv
      <4> QED
        BY <4>1, <4>3, <4>4 DEF m
    <3> QED
      BY <3>1, <3>2
  <2>8. ASSUME NEW r \in SheetRow, r >= top + VGA_HEIGHT PROVE s[r] = BlankRow
    <3>1. r # k
      BY <2>1, <2>4, <2>8
    <3>2. s[r] = sheet[r]
      BY <2>1, <2>2, <3>1 DEF ScreenInv
    <3> QED
      BY <2>8, <3>2 DEF ScreenInv
  <2> QED
    BY <2>6, <2>7, <2>8
<1>3. \/ b = buffer /\ s = sheet
      \/ \E j \in Row, i \in Column, g \in Glyph :
            b = [buffer EXCEPT ![j][i] = g] /\ s = [sheet EXCEPT ![top + j][i] = g]
  BY <1>0, WritesCell
<1> HIDE DEF b, s
<1>4. /\ b \in [Row -> [Column -> Glyph]] /\ s \in [SheetRow -> [Column -> Glyph]]
      /\ \A r \in Row : b[r] = s[top + r]
      /\ \A r \in SheetRow : r >= top + VGA_HEIGHT => s[r] = BlankRow
  BY <1>1, <1>2, <1>3, Zenon
<1> QED
  BY <1>4, Zenon DEF b, s

(***************************************************************************)
(* vga_putchar writes, moves the cursor and scrolls when it leaves the     *)
(* last row.                                                               *)
(***************************************************************************)
LEMMA PutcharKeeps ==
    ASSUME ScreenInv, NEW c \in {"a", "newline", "return", "tab", "backspace"}, vga_putchar(c)
    PROVE  ScreenInv'
<1> DEFINE to == Wrapped(Moves(c))
           b == Written(buffer, 0, c)
           s == Written(sheet, top, c)
           H == VGA_HEIGHT
<1>1. /\ b \in [Row -> [Column -> Glyph]] /\ s \in [SheetRow -> [Column -> Glyph]]
      /\ \A r \in Row : b[r] = s[top + r]
      /\ \A r \in SheetRow : r >= top + H => s[r] = BlankRow
  BY WrittenSame
<1>2. to[1] \in Column /\ to[2] \in 0 .. H
  BY MovesInside DEF ScreenInv, ScreenIsSheet
<1>3. /\ to[2] >= H => top < MAX_TOP
      /\ buffer' = IF to[2] >= H THEN vga_scroll(b) ELSE b
      /\ x' = to[1] /\ y' = IF to[2] >= H THEN H - 1 ELSE to[2]
      /\ cursor' = IF cursor_enabled THEN y' * VGA_WIDTH + x' ELSE cursor
      /\ sheet' = s /\ top' = IF to[2] >= H THEN top + 1 ELSE top
      /\ cursor_enabled' = cursor_enabled
  BY DEF vga_putchar, vga_update_cursor
<1> HIDE DEF to, b, s
<1>4. H \in Nat \ {0} /\ top \in 0 .. MAX_TOP /\ MAX_TOP \in Nat /\ Row = 0 .. H - 1
      /\ SheetRow = 0 .. MAX_TOP + H - 1
  BY VgaAssumption DEF ScreenInv, Row, SheetRow
<1>5. cursor_enabled' \in BOOLEAN /\ (cursor_enabled' => cursor' = y' * VGA_WIDTH + x')
  BY <1>3, Zenon DEF ScreenInv
<1>6. CASE to[2] >= H
  <2>1. /\ buffer' = vga_scroll(b) /\ y' = H - 1 /\ top' = top + 1 /\ top < MAX_TOP
    BY <1>3, <1>6
  <2>2. y' \in Row /\ x' \in Column /\ top' \in 0 .. MAX_TOP
    BY <1>2, <1>3, <1>4, <2>1
  <2>3. BlankRow \in [Column -> Glyph]
    BY DEF BlankRow, Glyph
  <2>4. buffer' = [r \in Row |-> IF r < H - 1 THEN b[r + 1] ELSE BlankRow]
    BY <2>1, Zenon DEF vga_scroll, BlankRow
  <2>5. \A r \in Row : r < H - 1 => r + 1 \in Row
    BY <1>4
  <2>6. buffer' \in [Row -> [Column -> Glyph]]
    BY <1>1, <2>3, <2>4, <2>5
  <2>7. ASSUME NEW r \in Row PROVE buffer'[r] = sheet'[top' + r]
    <3>1. CASE r < H - 1
      <4>1. r + 1 \in Row /\ top' + r = top + (r + 1)
        BY <1>4, <2>1, <2>5, <3>1
      <4>2. b[r + 1] = s[top + (r + 1)]
        BY <1>1, <4>1
      <4>3. buffer'[r] = b[r + 1]
        BY <2>4, <3>1
      <4> QED
        BY <1>3, <4>1, <4>2, <4>3
    <3>2. CASE ~(r < H - 1)
      <4>1. top' + r = top + H /\ top + H \in SheetRow /\ top + H >= top + H
        BY <1>4, <2>1, <3>2
      <4>2. s[top + H] = BlankRow
        BY <1>1, <4>1
      <4>3. buffer'[r] = BlankRow
        BY <2>4, <3>2
      <4> QED
        BY <1>3, <4>1, <4>2, <4>3
    <3> QED
      BY <3>1, <3>2
  <2>8. ASSUME NEW r \in SheetRow, r >= top' + H PROVE sheet'[r] = BlankRow
    <3>1. r >= top + H
      BY <1>4, <2>1, <2>8
    <3> QED
      BY <1>1, <1>3, <3>1
  <2> QED
    BY <1>1, <1>3, <1>5, <2>2, <2>6, <2>7, <2>8 DEF ScreenInv, ScreenIsSheet
<1>7. CASE ~(to[2] >= H)
  <2>1. buffer' = b /\ y' = to[2] /\ top' = top
    BY <1>3, <1>7
  <2>2. y' \in Row /\ x' \in Column
    BY <1>2, <1>3, <1>4, <1>7, <2>1
  <2> QED
    BY <1>1, <1>3, <1>4, <1>5, <2>1, <2>2 DEF ScreenInv, ScreenIsSheet
<1> QED
  BY <1>6, <1>7

(***************************************************************************)
(* The cleared screen is the beginning of a cleared sheet.                 *)
(***************************************************************************)
LEMMA ClearedOK ==
    /\ [r \in Row |-> [c \in Column |-> Blank]] \in [Row -> [Column -> Glyph]]
    /\ [r \in SheetRow |-> [c \in Column |-> Blank]] \in [SheetRow -> [Column -> Glyph]]
    /\ \A r \in Row : [k \in Row |-> [c \in Column |-> Blank]][r]
                        = [k \in SheetRow |-> [c \in Column |-> Blank]][0 + r]
    /\ \A r \in SheetRow : [k \in SheetRow |-> [c \in Column |-> Blank]][r] = BlankRow
    /\ 0 \in Column /\ 0 \in Row /\ 0 \in 0 .. MAX_TOP
<1>1. 0 \in Column /\ 0 \in Row /\ 0 \in 0 .. MAX_TOP
  BY VgaAssumption DEF Column, Row
<1>2. \A r \in Row : 0 + r \in SheetRow
  BY <1>1, SheetRows
<1>3. [c \in Column |-> Blank] \in [Column -> Glyph]
  BY DEF Glyph
<1>4. BlankRow = [c \in Column |-> Blank]
  BY DEF BlankRow
<1> DEFINE z == [c \in Column |-> Blank]
<1> HIDE DEF z
<1>5. /\ [r \in Row |-> z] \in [Row -> [Column -> Glyph]]
      /\ [r \in SheetRow |-> z] \in [SheetRow -> [Column -> Glyph]]
      /\ \A r \in Row : [k \in Row |-> z][r] = [k \in SheetRow |-> z][0 + r]
      /\ \A r \in SheetRow : [k \in SheetRow |-> z][r] = BlankRow
  <2>1. z \in [Column -> Glyph] /\ BlankRow = z
    BY <1>3, <1>4 DEF z
  <2> QED
    BY <1>2, <2>1
<1> QED
  BY <1>1, <1>5, Zenon DEF z

(***************************************************************************)
(* Every step keeps the screen the sheet's window.                         *)
(***************************************************************************)
LEMMA ScreenInvNext == ScreenInv /\ [VgaNext]_vgaVars => ScreenInv'
<1> SUFFICES ASSUME ScreenInv, [VgaNext]_vgaVars PROVE ScreenInv'
  OBVIOUS
<1>1. CASE UNCHANGED vgaVars
  BY <1>1 DEF vgaVars, ScreenInv, ScreenIsSheet
<1>2. CASE vga_clear
  <2>1. /\ buffer' = [r \in Row |-> [c \in Column |-> Blank]] /\ x' = 0 /\ y' = 0
        /\ cursor' = (IF cursor_enabled THEN y' * VGA_WIDTH + x' ELSE cursor)
        /\ sheet' = [r \in SheetRow |-> [c \in Column |-> Blank]] /\ top' = 0
        /\ cursor_enabled' = cursor_enabled
    BY <1>2 DEF vga_clear, vga_update_cursor
  <2>2. cursor_enabled' \in BOOLEAN /\ (cursor_enabled' => cursor' = y' * VGA_WIDTH + x')
    BY <2>1, Zenon DEF ScreenInv
  <2>3. \A r \in Row : buffer'[r] = sheet'[top' + r]
    BY <2>1, ClearedOK, Zenon
  <2>4. /\ buffer' \in [Row -> [Column -> Glyph]] /\ sheet' \in [SheetRow -> [Column -> Glyph]]
        /\ x' \in Column /\ y' \in Row /\ top' \in 0 .. MAX_TOP
        /\ \A r \in SheetRow : sheet'[r] = BlankRow
    BY <2>1, ClearedOK, Zenon
  <2> QED
    BY <2>2, <2>3, <2>4, Zenon DEF ScreenInv, ScreenIsSheet
<1>3. CASE vga_enable_cursor
  BY <1>3 DEF vga_enable_cursor, ScreenInv, ScreenIsSheet
<1>4. CASE vga_disable_cursor
  BY <1>4 DEF vga_disable_cursor, ScreenInv, ScreenIsSheet
<1>5. ASSUME NEW c \in {"a", "newline", "return", "tab", "backspace"}, vga_putchar(c) PROVE ScreenInv'
  BY <1>5, PutcharKeeps
<1>6. ASSUME NEW c \in Column, NEW r \in Row, vga_set_cursor(c, r) PROVE ScreenInv'
  <2>1. /\ x' \in Column /\ y' \in Row /\ UNCHANGED <<buffer, cursor_enabled, sheet, top>>
        /\ cursor' = (IF cursor_enabled THEN y' * VGA_WIDTH + x' ELSE cursor)
    BY <1>6 DEF vga_set_cursor, vga_update_cursor
  <2> QED
    BY <2>1, Zenon DEF ScreenInv, ScreenIsSheet
<1> QED
  BY <1>1, <1>2, <1>3, <1>4, <1>5, <1>6 DEF VgaNext

(***************************************************************************)
(* On a screen of any size, for any sequence of characters and cursor      *)
(* moves, the screen is a window on what was written.                      *)
(***************************************************************************)
THEOREM VgaScreenIsSheet == VgaSpec => []ScreenIsSheet
<1>1. VgaInit => ScreenInv
  <2> SUFFICES ASSUME VgaInit PROVE ScreenInv
    OBVIOUS
  <2>1. /\ buffer = [r \in Row |-> [c \in Column |-> Blank]] /\ x = 0 /\ y = 0 /\ cursor = 0
        /\ sheet = [r \in SheetRow |-> [c \in Column |-> Blank]] /\ top = 0 /\ cursor_enabled = TRUE
    BY DEF VgaInit
  <2>2. y * VGA_WIDTH + x = 0
    BY <2>1, VgaAssumption
  <2>3. \A r \in Row : buffer[r] = sheet[top + r]
    BY <2>1, ClearedOK, Zenon
  <2>4. /\ buffer \in [Row -> [Column -> Glyph]] /\ sheet \in [SheetRow -> [Column -> Glyph]]
        /\ x \in Column /\ y \in Row /\ top \in 0 .. MAX_TOP
        /\ \A r \in SheetRow : sheet[r] = BlankRow
    BY <2>1, ClearedOK, Zenon
  <2> QED
    BY <2>1, <2>2, <2>3, <2>4, Zenon DEF ScreenInv, ScreenIsSheet
<1>2. ScreenInv => ScreenIsSheet
  BY DEF ScreenInv
<1> QED
  BY <1>1, <1>2, ScreenInvNext, PTL DEF VgaSpec

-----------------------------------------------------------------------------
\* The kernel heap.

(***************************************************************************)
(* What a list of blocks is like: no two free blocks are next to each      *)
(* other, the blocks start at increasing addresses, and one that starts at *)
(* s is in use and has z words or more.                                    *)
(***************************************************************************)
Merged(blocks) == \A i \in 1 .. Len(blocks) - 1 : blocks[i].used \/ blocks[i + 1].used

Increasing(blocks) ==
    \A i, j \in 1 .. Len(blocks) : i < j => blocks[i].start < blocks[j].start

InUse(blocks, s, z) ==
    \E i \in 1 .. Len(blocks) : blocks[i].start = s /\ blocks[i].used /\ blocks[i].size >= z

Heaps == [blocks : Seq(Block), used_memory : Int]

\* kmalloc finds a block that fits when there is one.
LEMMA BestFitFits ==
    ASSUME NEW h \in Heaps, NEW size \in Nat, Fits(h, size) # {}
    PROVE  BestFit(h, size) \in Fits(h, size)
<1> DEFINE F == Fits(h, size)
           Over == {h.blocks[i].size - size : i \in F}
<1>1. h.blocks \in Seq(Block)
  BY DEF Heaps
<1>2. \A i \in F : /\ i \in Nat /\ i \in 1 .. Len(h.blocks)
                   /\ h.blocks[i].size \in Int /\ h.blocks[i].size >= size
  <2> SUFFICES ASSUME NEW i \in F
               PROVE  /\ i \in Nat /\ i \in 1 .. Len(h.blocks)
                      /\ h.blocks[i].size \in Int /\ h.blocks[i].size >= size
    OBVIOUS
  <2>1. i \in 1 .. Len(h.blocks) /\ h.blocks[i].size >= size
    BY DEF Fits
  <2>2. h.blocks[i] \in Block
    BY <1>1, <2>1
  <2>3. h.blocks[i].size \in Int
    BY <2>2 DEF Block
  <2> QED
    BY <1>1, <2>1, <2>3
<1> HIDE DEF F
<1>3. Over \in SUBSET Nat /\ Over # {}
  <2>1. PICK i \in F : TRUE
    BY DEF F
  <2>2. \A j \in F : h.blocks[j].size - size \in Nat
    BY <1>2
  <2> QED
    BY <2>1, <2>2
<1>4. PICK least \in Over : \A o \in Over : least <= o
  BY <1>3, LeastElement
<1> DEFINE Best == {i \in F : h.blocks[i].size - size = least}
<1>5. Best \in SUBSET Nat /\ Best # {}
  BY <1>2, <1>4
<1>6. PICK i \in Best : \A j \in Best : i <= j
  BY <1>5, LeastElement
<1>7. ASSUME NEW j \in F
      PROVE  \/ h.blocks[i].size < h.blocks[j].size
             \/ h.blocks[i].size = h.blocks[j].size /\ i <= j
  <2>1. h.blocks[j].size - size \in Over /\ h.blocks[i].size - size = least /\ i \in F
    BY <1>6
  <2>2. least <= h.blocks[j].size - size
    BY <1>4, <2>1
  <2>3. CASE h.blocks[j].size - size = least
    <3>1. j \in Best
      BY <2>3
    <3>2. i <= j
      BY <1>6, <3>1
    <3> HIDE DEF Best, Over
    <3>3. h.blocks[i].size = h.blocks[j].size
      BY <1>2, <2>1, <2>3
    <3> QED
      BY <3>2, <3>3
  <2>4. CASE h.blocks[j].size - size # least
    <3>1. least \in Nat
      BY <1>3, <1>4
    <3> HIDE DEF Best, Over
    <3> QED
      BY <1>2, <2>1, <2>2, <2>4, <3>1
  <2> QED
    BY <2>3, <2>4
<1>8. i \in F
  BY <1>6
<1> QED
  BY <1>7, <1>8 DEF F, BestFit

\* The fields of a block.
LEMMA BlockFields ==
    ASSUME NEW b \in Block
    PROVE  b.start \in Nat /\ b.size \in Int /\ b.used \in BOOLEAN
  BY DEF Block

\* Blocks with the same fields are the same.
LEMMA BlockEqual ==
    ASSUME NEW b \in Block, NEW c \in Block,
           b.start = c.start, b.size = c.size, b.used = c.used
    PROVE  b = c
  BY DEF Block

\* Changing one field of a block.
LEMMA BlockUsed ==
    ASSUME NEW b \in Block, NEW v \in BOOLEAN
    PROVE  /\ [b EXCEPT !.used = v] \in Block
           /\ [b EXCEPT !.used = v].start = b.start
           /\ [b EXCEPT !.used = v].size = b.size
           /\ [b EXCEPT !.used = v].used = v
  BY DEF Block

\* Changing the size of a block.
LEMMA BlockSize ==
    ASSUME NEW b \in Block, NEW z \in Int
    PROVE  /\ [b EXCEPT !.size = z] \in Block
           /\ [b EXCEPT !.size = z].start = b.start
           /\ [b EXCEPT !.size = z].size = z
           /\ [b EXCEPT !.size = z].used = b.used
  BY DEF Block

\* A block of given fields.
LEMMA BlockOf ==
    ASSUME NEW b \in Nat, NEW z \in Int, NEW v \in BOOLEAN
    PROVE  /\ [start |-> b, size |-> z, used |-> v] \in Block
           /\ [start |-> b, size |-> z, used |-> v].start = b
           /\ [start |-> b, size |-> z, used |-> v].size = z
           /\ [start |-> b, size |-> z, used |-> v].used = v
  BY DEF Block

\* A block that is taken and what is left of it.
SplitBlock(block, size) == [start |-> block.start, size |-> size, used |-> TRUE]

SplitAt(new, blocks, i, size) ==
    /\ Len(new) = Len(blocks) + 1
    /\ \A k \in 1 .. Len(blocks) + 1 :
          new[k] = IF k < i THEN blocks[k]
                   ELSE IF k = i THEN SplitBlock(blocks[i], size)
                   ELSE IF k = i + 1 THEN Rest(blocks[i], size)
                   ELSE blocks[k - 1]

UsedBlock(block) == [start |-> block.start, size |-> block.size, used |-> TRUE]

MarkedAt(new, blocks, i) ==
    /\ Len(new) = Len(blocks)
    /\ \A k \in 1 .. Len(blocks) : new[k] = IF k = i THEN UsedBlock(blocks[i]) ELSE blocks[k]

TakenAs(new, blocks, i, size) ==
    /\ new \in Seq(Block)
    /\ Splits(blocks[i], size) => SplitAt(new, blocks, i, size)
    /\ ~Splits(blocks[i], size) => MarkedAt(new, blocks, i)

\* The list after a block is taken.
LEMMA TakenBlocks ==
    ASSUME NEW blocks \in Seq(Block), NEW i \in 1 .. Len(blocks), NEW size \in Nat
    PROVE  TakenAs(Taken(blocks, i, size), blocks, i, size)
<1>1. Len(blocks) \in Nat /\ blocks[i] \in Block
  BY LenProperties
<1>2. DESCRIPTOR \in Nat
  BY HeapAssumption
<1> DEFINE block == [blocks[i] EXCEPT !.used = TRUE]
           less == [block EXCEPT !.size = size]
<1>3. block = UsedBlock(blocks[i]) /\ block \in Block
  <2>1. /\ block \in Block /\ block.start = blocks[i].start /\ block.size = blocks[i].size
        /\ block.used = TRUE
    BY <1>1, BlockUsed
  <2> DEFINE used == UsedBlock(blocks[i])
  <2>2. /\ used \in Block /\ used.start = blocks[i].start /\ used.size = blocks[i].size
        /\ used.used = TRUE
    BY <1>1, BlockFields, BlockOf DEF UsedBlock
  <2> HIDE DEF used, block
  <2>3. block = used
    BY <2>1, <2>2, BlockEqual
  <2> QED
    BY <2>1, <2>3 DEF used
<1>4. less = SplitBlock(blocks[i], size) /\ less \in Block
  <2>1. block.start = blocks[i].start /\ block.used = TRUE
    BY <1>1, BlockUsed
  <2> HIDE DEF block
  <2>2. /\ less \in Block /\ less.start = blocks[i].start /\ less.size = size
        /\ less.used = TRUE
    BY <1>3, <2>1, BlockSize
  <2> DEFINE split == SplitBlock(blocks[i], size)
  <2>3. /\ split \in Block /\ split.start = blocks[i].start /\ split.size = size
        /\ split.used = TRUE
    <3>1. blocks[i].start \in Nat /\ size \in Int /\ TRUE \in BOOLEAN
      BY <1>1, BlockFields
    <3> QED
      BY <3>1, BlockOf, Zenon DEF SplitBlock
  <2> HIDE DEF split, less
  <2>4. less = split
    BY <2>2, <2>3, BlockEqual
  <2> QED
    BY <2>2, <2>4 DEF split
<1>5. Rest(blocks[i], size) \in Block
  BY <1>1, <1>2 DEF Block, Rest
<1>6. CASE Splits(blocks[i], size)
  <2> DEFINE cut == [blocks EXCEPT ![i] = less]
             rest == Rest(blocks[i], size)
             place == i + 1
             new == InsertAt(cut, place, rest)
  <2>1. Taken(blocks, i, size) = new
    BY <1>6 DEF Taken
  <2> HIDE DEF less, rest, block
  <2>2. /\ cut \in Seq(Block) /\ Len(cut) = Len(blocks)
        /\ \A k \in 1 .. Len(blocks) : cut[k] = IF k = i THEN less ELSE blocks[k]
    BY <1>4
  <2> HIDE DEF cut
  <2>3. place \in 1 .. Len(cut) + 1 /\ rest \in Block /\ cut \in Seq(Block)
    BY <1>1, <1>5, <2>2 DEF rest
  <2> HIDE DEF place
  <2>4. /\ new \in Seq(Block)
        /\ Len(new) = Len(cut) + 1
        /\ \A k \in 1 .. Len(cut) + 1 :
              new[k] = IF k < place THEN cut[k] ELSE IF k = place THEN rest ELSE cut[k - 1]
    BY <2>3, InsertAtProperties
  <2> HIDE DEF new
  <2> USE DEF place
  <2>5. \A k \in 1 .. Len(blocks) + 1 :
          new[k] = IF k < i THEN blocks[k] ELSE IF k = i THEN less
                   ELSE IF k = i + 1 THEN rest ELSE blocks[k - 1]
    <3> SUFFICES ASSUME NEW k \in 1 .. Len(blocks) + 1
                 PROVE  new[k] = IF k < i THEN blocks[k] ELSE IF k = i THEN less
                                 ELSE IF k = i + 1 THEN rest ELSE blocks[k - 1]
      OBVIOUS
    <3>1. CASE k <= i
      BY <1>1, <2>2, <2>4, <3>1
    <3>2. CASE k = i + 1
      BY <1>1, <2>2, <2>4, <3>2
    <3>3. CASE k > i + 1
      <4>1. k - 1 \in 1 .. Len(blocks) /\ k - 1 # i
        BY <1>1, <3>3
      <4> QED
        <5>1. new[k] = cut[k - 1]
          BY <1>1, <2>2, <2>4, <3>3
        <5>2. cut[k - 1] = blocks[k - 1]
          BY <2>2, <4>1
        <5> QED
          BY <1>1, <3>3, <5>1, <5>2
    <3> QED
      BY <1>1, <3>1, <3>2, <3>3
  <2>6. SplitAt(new, blocks, i, size)
    BY <1>4, <2>2, <2>4, <2>5 DEF SplitAt, rest
  <2> QED
    BY <1>6, <2>1, <2>4, <2>6 DEF TakenAs
<1>7. CASE ~Splits(blocks[i], size)
  <2> DEFINE new == [blocks EXCEPT ![i] = block]
  <2>1. Taken(blocks, i, size) = new
    BY <1>7 DEF Taken
  <2> HIDE DEF block
  <2>2. new \in Seq(Block) /\ MarkedAt(new, blocks, i)
    BY <1>3 DEF MarkedAt
  <2> QED
    BY <1>7, <2>1, <2>2 DEF TakenAs
<1> QED
  BY <1>6, <1>7

\* The list after block i swallowed the next one.
Swallowed(block, next) ==
    [start |-> block.start, size |-> block.size + next.size + DESCRIPTOR, used |-> block.used]

MergedAs(new, blocks, i) ==
    /\ new \in Seq(Block)
    /\ Len(new) = Len(blocks) - 1
    /\ \A k \in 1 .. Len(blocks) - 1 :
          new[k] = IF k < i THEN blocks[k]
                   ELSE IF k = i THEN Swallowed(blocks[i], blocks[i + 1])
                   ELSE blocks[k + 1]

\* The list after a merge.
LEMMA MergeBlocks ==
    ASSUME NEW blocks \in Seq(Block), NEW i \in 1 .. Len(blocks) - 1
    PROVE  MergedAs(Merge(blocks, i), blocks, i)
<1>1. Len(blocks) \in Nat
  BY LenProperties
<1>2. i \in 1 .. Len(blocks) /\ i + 1 \in 1 .. Len(blocks)
  BY <1>1
<1>3. blocks[i] \in Block /\ blocks[i + 1] \in Block
  BY <1>2
<1>4. DESCRIPTOR \in Nat
  BY HeapAssumption
<1> DEFINE big == [blocks EXCEPT ![i].size = @ + blocks[i + 1].size + DESCRIPTOR]
           swallowed == Swallowed(blocks[i], blocks[i + 1])
           new == RemoveAt(big, i + 1)
<1>5. swallowed \in Block
  BY <1>3, <1>4 DEF Swallowed, Block
<1>6. [blocks[i] EXCEPT !.size = @ + blocks[i + 1].size + DESCRIPTOR] = swallowed
  <2> DEFINE z == blocks[i].size + blocks[i + 1].size + DESCRIPTOR
             grown == [blocks[i] EXCEPT !.size = z]
  <2>1. z \in Int
    BY <1>3, <1>4, BlockFields
  <2> HIDE DEF z
  <2>2. /\ grown \in Block /\ grown.start = blocks[i].start /\ grown.size = z
        /\ grown.used = blocks[i].used
    BY <1>3, <2>1, BlockSize
  <2>3. /\ swallowed.start = blocks[i].start /\ swallowed.size = z
        /\ swallowed.used = blocks[i].used
    BY DEF Swallowed, z
  <2> HIDE DEF swallowed, grown
  <2>4. grown = swallowed
    BY <1>5, <2>2, <2>3, BlockEqual
  <2>5. [blocks[i] EXCEPT !.size = @ + blocks[i + 1].size + DESCRIPTOR] = grown
    BY DEF grown, z
  <2> QED
    BY <2>4, <2>5
<1>7. big = [blocks EXCEPT ![i] = swallowed]
  BY <1>2, <1>6
<1> HIDE DEF swallowed, big
<1>8. /\ big \in Seq(Block) /\ Len(big) = Len(blocks)
      /\ \A k \in 1 .. Len(blocks) : big[k] = IF k = i THEN swallowed ELSE blocks[k]
  BY <1>5, <1>7
<1>9. /\ new \in Seq(Block)
      /\ Len(new) = Len(big) - 1
      /\ \A k \in 1 .. Len(big) - 1 : new[k] = IF k < i + 1 THEN big[k] ELSE big[k + 1]
  BY <1>2, <1>8, RemoveAtProperties
<1> HIDE DEF new
<1>10. \A k \in 1 .. Len(blocks) - 1 :
         new[k] = IF k < i THEN blocks[k] ELSE IF k = i THEN swallowed ELSE blocks[k + 1]
  <2> SUFFICES ASSUME NEW k \in 1 .. Len(blocks) - 1
               PROVE  new[k] = IF k < i THEN blocks[k] ELSE IF k = i THEN swallowed
                               ELSE blocks[k + 1]
    OBVIOUS
  <2>1. CASE k <= i
    BY <1>1, <1>8, <1>9, <2>1
  <2>2. CASE k > i
    <3>1. k + 1 \in 1 .. Len(blocks) /\ k + 1 # i
      BY <1>1, <2>2
    <3> QED
      BY <1>1, <1>8, <1>9, <2>2, <3>1
  <2> QED
    BY <1>1, <2>1, <2>2
<1>11. Merge(blocks, i) = new
  BY DEF Merge, new, big
<1> QED
  BY <1>8, <1>9, <1>10, <1>11 DEF MergedAs, swallowed


\* Taking a free block leaves no two free blocks next to each other.
LEMMA TakenMerged ==
    ASSUME NEW blocks \in Seq(Block), NEW i \in 1 .. Len(blocks), NEW size \in Nat, NEW new,
           TakenAs(new, blocks, i, size), ~blocks[i].used, Merged(blocks)
    PROVE  Merged(new)
<1> DEFINE n == Len(blocks)
<1>1. n \in Nat
  BY LenProperties
<1> HIDE DEF n
<1>2. i \in 1 .. n
  BY DEF n
<1>3. CASE Splits(blocks[i], size)
  <2>1. Len(new) = n + 1
    BY <1>3 DEF TakenAs, SplitAt, n
  <2>2. ASSUME NEW k \in 1 .. n + 1
        PROVE  new[k] = IF k < i THEN blocks[k]
                        ELSE IF k = i THEN SplitBlock(blocks[i], size)
                        ELSE IF k = i + 1 THEN Rest(blocks[i], size)
                        ELSE blocks[k - 1]
    BY <1>3 DEF TakenAs, SplitAt, n
  <2>3. SplitBlock(blocks[i], size).used
    BY DEF SplitBlock
  <2>4. \A k \in 1 .. n - 1 : blocks[k].used \/ blocks[k + 1].used
    BY DEF Merged, n
  <2> SUFFICES ASSUME NEW k \in 1 .. n PROVE new[k].used \/ new[k + 1].used
    BY <1>1, <2>1 DEF Merged
  <2>5. k \in 1 .. n + 1 /\ k + 1 \in 1 .. n + 1
    BY <1>1
  <2>6. CASE k = i
    BY <1>1, <1>2, <2>2, <2>3, <2>5, <2>6
  <2>7. CASE k + 1 = i
    BY <1>1, <1>2, <2>2, <2>3, <2>5, <2>7
  <2>8. CASE k = i + 1
    <3>1. i \in 1 .. n - 1
      BY <1>1, <1>2, <2>8
    <3>2. blocks[i + 1].used
      BY <2>4, <3>1
    <3>3. new[k + 1] = blocks[(k + 1) - 1]
      BY <1>1, <1>2, <2>2, <2>5, <2>8
    <3>4. (k + 1) - 1 = i + 1
      BY <1>2, <2>8
    <3> QED
      BY <3>2, <3>3, <3>4
  <2>9. CASE k + 1 < i
    <3>1. new[k] = blocks[k] /\ new[k + 1] = blocks[k + 1] /\ k \in 1 .. n - 1
      BY <1>1, <1>2, <2>2, <2>5, <2>9
    <3> QED
      BY <2>4, <3>1
  <2>10. CASE k > i + 1
    <3>1. new[k] = blocks[k - 1] /\ new[k + 1] = blocks[(k + 1) - 1]
      BY <1>1, <1>2, <2>2, <2>5, <2>10
    <3>2. k - 1 \in 1 .. n - 1 /\ (k + 1) - 1 = (k - 1) + 1
      BY <1>1, <1>2, <2>10
    <3> QED
      BY <2>4, <3>1, <3>2
  <2> QED
    BY <1>1, <1>2, <2>6, <2>7, <2>8, <2>9, <2>10
<1>4. CASE ~Splits(blocks[i], size)
  <2>1. Len(new) = n
    BY <1>4 DEF TakenAs, MarkedAt, n
  <2>2. ASSUME NEW k \in 1 .. n
        PROVE  new[k] = IF k = i THEN UsedBlock(blocks[i]) ELSE blocks[k]
    BY <1>4 DEF TakenAs, MarkedAt, n
  <2>3. UsedBlock(blocks[i]).used
    BY DEF UsedBlock
  <2>4. \A k \in 1 .. n - 1 : blocks[k].used \/ blocks[k + 1].used
    BY DEF Merged, n
  <2> SUFFICES ASSUME NEW k \in 1 .. n - 1 PROVE new[k].used \/ new[k + 1].used
    BY <1>1, <2>1 DEF Merged
  <2>5. k \in 1 .. n /\ k + 1 \in 1 .. n
    BY <1>1
  <2>6. CASE k = i \/ k + 1 = i
    BY <2>2, <2>3, <2>5, <2>6
  <2>7. CASE ~(k = i \/ k + 1 = i)
    BY <2>2, <2>4, <2>5, <2>7
  <2> QED
    BY <2>6, <2>7
<1> QED
  BY <1>3, <1>4

(***************************************************************************)
(* Taking a free block keeps the blocks that are in use, and the one that  *)
(* is taken is in use, with the words that were asked for.                 *)
(***************************************************************************)
KeepsUsed(new, blocks) == \A s \in Nat, z \in Nat : InUse(blocks, s, z) => InUse(new, s, z)

\* The blocks in use stay in use when one is taken.
LEMMA TakenKeepsUsed ==
    ASSUME NEW blocks \in Seq(Block), NEW i \in 1 .. Len(blocks), NEW size \in Nat, NEW new,
           TakenAs(new, blocks, i, size), ~blocks[i].used, blocks[i].size >= size
    PROVE  KeepsUsed(new, blocks) /\ InUse(new, blocks[i].start, size)
<1> DEFINE n == Len(blocks)
<1>1. n \in Nat
  BY LenProperties
<1> HIDE DEF n
<1>2. i \in 1 .. n
  BY DEF n
<1>3. CASE Splits(blocks[i], size)
  <2>1. Len(new) = n + 1
    BY <1>3 DEF TakenAs, SplitAt, n
  <2>2. ASSUME NEW k \in 1 .. n + 1
        PROVE  new[k] = IF k < i THEN blocks[k]
                        ELSE IF k = i THEN SplitBlock(blocks[i], size)
                        ELSE IF k = i + 1 THEN Rest(blocks[i], size)
                        ELSE blocks[k - 1]
    BY <1>3 DEF TakenAs, SplitAt, n
  <2>3. ASSUME NEW s \in Nat, NEW z \in Nat, InUse(blocks, s, z) PROVE InUse(new, s, z)
    <3>1. PICK k \in 1 .. n : blocks[k].start = s /\ blocks[k].used /\ blocks[k].size >= z
      BY <2>3 DEF InUse, n
    <3>2. k # i
      BY <3>1
    <3>3. CASE k < i
      <4>1. k \in 1 .. n + 1 /\ new[k] = blocks[k]
        BY <1>1, <1>2, <2>2, <3>3
      <4> QED
        BY <2>1, <3>1, <4>1 DEF InUse
    <3>4. CASE k > i
      <4>1. k + 1 \in 1 .. n + 1 /\ (k + 1) - 1 = k /\ ~(k + 1 < i) /\ k + 1 # i /\ k + 1 # i + 1
        BY <1>1, <1>2, <3>4
      <4>2. new[k + 1] = blocks[k]
        BY <2>2, <4>1
      <4> QED
        BY <2>1, <3>1, <4>1, <4>2 DEF InUse
    <3> QED
      BY <1>2, <3>2, <3>3, <3>4
  <2>4. new[i] = SplitBlock(blocks[i], size) /\ i \in 1 .. n + 1
    BY <1>1, <1>2, <2>2
  <2>5. /\ SplitBlock(blocks[i], size).start = blocks[i].start
        /\ SplitBlock(blocks[i], size).used
        /\ SplitBlock(blocks[i], size).size >= size
    BY DEF SplitBlock
  <2>6. InUse(new, blocks[i].start, size)
    BY <2>1, <2>4, <2>5 DEF InUse
  <2> QED
    BY <2>3, <2>6 DEF KeepsUsed
<1>4. CASE ~Splits(blocks[i], size)
  <2>1. Len(new) = n
    BY <1>4 DEF TakenAs, MarkedAt, n
  <2>2. ASSUME NEW k \in 1 .. n
        PROVE  new[k] = IF k = i THEN UsedBlock(blocks[i]) ELSE blocks[k]
    BY <1>4 DEF TakenAs, MarkedAt, n
  <2>3. ASSUME NEW s \in Nat, NEW z \in Nat, InUse(blocks, s, z) PROVE InUse(new, s, z)
    <3>1. PICK k \in 1 .. n : blocks[k].start = s /\ blocks[k].used /\ blocks[k].size >= z
      BY <2>3 DEF InUse, n
    <3>2. new[k] = blocks[k]
      BY <2>2, <3>1
    <3> QED
      BY <2>1, <3>1, <3>2 DEF InUse
  <2>4. new[i] = UsedBlock(blocks[i])
    BY <1>2, <2>2
  <2>5. /\ UsedBlock(blocks[i]).start = blocks[i].start
        /\ UsedBlock(blocks[i]).used
        /\ UsedBlock(blocks[i]).size >= size
    BY DEF UsedBlock
  <2>6. InUse(new, blocks[i].start, size)
    BY <1>2, <2>1, <2>4, <2>5 DEF InUse
  <2> QED
    BY <2>3, <2>6 DEF KeepsUsed
<1> QED
  BY <1>3, <1>4

\* The descriptors are apart in the list.
LEMMA TakenIncreasing ==
    ASSUME NEW blocks \in Seq(Block), NEW i \in 1 .. Len(blocks), NEW size \in Nat \ {0},
           NEW h \in Heaps,
           TakenAs(h.blocks, blocks, i, size), Increasing(blocks), Apart(h)
    PROVE  Increasing(h.blocks)
<1> DEFINE n == Len(blocks)
           new == h.blocks
<1>1. n \in Nat
  BY LenProperties
<1> HIDE DEF n, new
<1>2. i \in 1 .. n
  BY DEF n
<1>3. \A k \in 1 .. n : blocks[k].start \in Nat
  BY BlockFields DEF n
<1>4. CASE Splits(blocks[i], size)
  <2>1. Len(new) = n + 1
    BY <1>4 DEF TakenAs, SplitAt, n, new
  <2>2. ASSUME NEW k \in 1 .. n + 1
        PROVE  new[k] = IF k < i THEN blocks[k]
                        ELSE IF k = i THEN SplitBlock(blocks[i], size)
                        ELSE IF k = i + 1 THEN Rest(blocks[i], size)
                        ELSE blocks[k - 1]
    BY <1>4 DEF TakenAs, SplitAt, n, new
  <2>3. /\ SplitBlock(blocks[i], size).start = blocks[i].start
        /\ Rest(blocks[i], size).start = blocks[i].start + size
    BY DEF SplitBlock, Rest
  <2> DEFINE old(k) == IF k <= i THEN k ELSE k - 1
  <2>4. ASSUME NEW k \in 1 .. n + 1, k # i + 1
        PROVE  new[k].start = blocks[old(k)].start /\ old(k) \in 1 .. n
    <3>1. old(k) \in 1 .. n
      BY <1>1, <1>2, <2>4
    <3>2. CASE k < i
      <4>1. new[k] = blocks[k] /\ old(k) = k
        BY <1>2, <2>2, <3>2
      <4> QED
        BY <3>1, <4>1
    <3>3. CASE k = i
      <4>1. new[k] = SplitBlock(blocks[i], size) /\ old(k) = i
        BY <1>2, <2>2, <3>3
      <4> QED
        BY <2>3, <3>1, <4>1
    <3>4. CASE k > i
      <4>1. new[k] = blocks[k - 1] /\ old(k) = k - 1
        BY <1>2, <2>2, <2>4, <3>4
      <4> QED
        BY <3>1, <4>1
    <3> QED
      BY <1>2, <3>2, <3>3, <3>4
  <2>5. new[i + 1].start = blocks[i].start + size
    BY <1>1, <1>2, <2>2, <2>3
  <2>6. \A j, k \in 1 .. n : j < k => blocks[j].start < blocks[k].start
    BY DEF Increasing, n
  <2> SUFFICES ASSUME NEW j \in 1 .. n + 1, NEW k \in 1 .. n + 1, j < k
               PROVE  new[j].start < new[k].start
    BY <2>1 DEF Increasing, new
  <2>7. CASE j # i + 1 /\ k # i + 1
    <3>1. old(j) < old(k)
      BY <1>1, <1>2, <2>7
    <3> QED
      BY <2>4, <2>6, <2>7, <3>1
  <2>8. CASE k = i + 1
    <3>1. new[j].start = blocks[j].start /\ j \in 1 .. n /\ j <= i
      BY <1>1, <1>2, <2>4, <2>8
    <3>2. blocks[j].start <= blocks[i].start
      BY <1>2, <1>3, <2>6, <3>1
    <3> QED
      BY <1>2, <1>3, <2>5, <2>8, <3>1, <3>2
  <2>9. CASE j = i + 1
    <3>1. DescriptorAt(h, j) + DESCRIPTOR <= DescriptorAt(h, k)
      BY <2>1 DEF Apart, new
    <3>2. DescriptorAt(h, j) = new[j].start /\ DescriptorAt(h, k) = new[k].start
      BY <1>2, <2>9 DEF DescriptorAt, new
    <3>3. k # i + 1 /\ new[k].start \in Nat
      BY <1>3, <2>4, <2>9
    <3>4. new[j].start \in Nat
      BY <1>2, <1>3, <2>5, <2>9
    <3> QED
      BY <3>1, <3>2, <3>3, <3>4, HeapAssumption
  <2> QED
    BY <2>7, <2>8, <2>9
<1>5. CASE ~Splits(blocks[i], size)
  <2>1. Len(new) = n
    BY <1>5 DEF TakenAs, MarkedAt, n, new
  <2>2. ASSUME NEW k \in 1 .. n
        PROVE  new[k] = IF k = i THEN UsedBlock(blocks[i]) ELSE blocks[k]
    BY <1>5 DEF TakenAs, MarkedAt, n, new
  <2>3. UsedBlock(blocks[i]).start = blocks[i].start
    BY DEF UsedBlock
  <2>4. \A k \in 1 .. n : new[k].start = blocks[k].start
    BY <2>2, <2>3
  <2> QED
    BY <2>1, <2>4 DEF Increasing, n, new
<1> QED
  BY <1>4, <1>5

-----------------------------------------------------------------------------
\* Sums of the sizes of the blocks.

IsSums(f, s) ==
    /\ f \in [0 .. Len(s) -> Int]
    /\ f[0] = 0
    /\ \A i \in 1 .. Len(s) : f[i] = f[i - 1] + s[i]

\* Every sequence of numbers has sums.
LEMMA SumsExist ==
    ASSUME NEW s \in Seq(Int)
    PROVE  \E f : IsSums(f, s)
<1> DEFINE P(n) == \E f \in [0 .. n -> Int] :
                      f[0] = 0 /\ \A i \in 1 .. n : f[i] = f[i - 1] + s[i]
           Bad == {n \in 0 .. Len(s) : ~P(n)}
<1>1. Len(s) \in Nat /\ \A i \in 1 .. Len(s) : s[i] \in Int
  BY LenProperties
<1>2. Bad = {}
  <2> SUFFICES ASSUME Bad # {} PROVE FALSE
    OBVIOUS
  <2>1. Bad \in SUBSET Nat
    BY <1>1
  <2>2. PICK n \in Bad : \A m \in Bad : n <= m
    BY <2>1, LeastElement
  <2>3. n \in 0 .. Len(s) /\ ~P(n)
    BY <2>2
  <2>4. P(0)
    <3> DEFINE z == [i \in 0 .. 0 |-> 0]
    <3>1. z \in [0 .. 0 -> Int] /\ z[0] = 0
      OBVIOUS
    <3> HIDE DEF z
    <3>2. \A i \in 1 .. 0 : z[i] = z[i - 1] + s[i]
      OBVIOUS
    <3> QED
      BY <3>1, <3>2
  <2> HIDE DEF P
  <2>5. n # 0 /\ n - 1 \in 0 .. Len(s)
    <3>1. n # 0
      BY <2>3, <2>4
    <3> QED
      BY <1>1, <2>3, <3>1
  <2>6. n - 1 \notin Bad
    <3> HIDE DEF Bad
    <3> QED
      BY <1>1, <2>2, <2>3, <2>5
  <2>7. P(n - 1)
    BY <2>5, <2>6
  <2>8. PICK f \in [0 .. n - 1 -> Int] :
          f[0] = 0 /\ \A i \in 1 .. n - 1 : f[i] = f[i - 1] + s[i]
    BY <2>7 DEF P
  <2> HIDE DEF Bad
  <2> DEFINE g == [i \in 0 .. n |-> IF i = n THEN f[n - 1] + s[n] ELSE f[i]]
  <2>9. g \in [0 .. n -> Int] /\ g[0] = 0
    BY <1>1, <2>3, <2>5, <2>8
  <2>10. ASSUME NEW i \in 1 .. n PROVE g[i] = g[i - 1] + s[i]
    <3>1. CASE i = n
      BY <1>1, <2>3, <2>5, <3>1
    <3>2. CASE i # n
      BY <1>1, <2>3, <2>5, <2>8, <3>2
    <3> QED
      BY <3>1, <3>2
  <2> HIDE DEF g
  <2>11. P(n)
    BY <2>9, <2>10 DEF P
  <2> QED
    BY <2>3, <2>11
<1> HIDE DEF P
<1>3. P(Len(s))
  BY <1>1, <1>2
<1> QED
  BY <1>3 DEF P, IsSums

\* The total is the last of the sums.
LEMMA TotalIs ==
    ASSUME NEW s \in Seq(Int), NEW f, IsSums(f, s)
    PROVE  Total(s) = f[Len(s)]
<1> DEFINE n == Len(s)
           g == Sums(s)
           Bad == {i \in 0 .. n : g[i] # f[i]}
<1>1. n \in Nat
  BY LenProperties
<1>2. /\ f \in [0 .. n -> Int] /\ f[0] = 0
      /\ \A i \in 1 .. n : f[i] = f[i - 1] + s[i]
  BY DEF IsSums
<1>3. f = [i \in 0 .. n |-> IF i = 0 THEN 0 ELSE f[i - 1] + s[i]]
  <2>1. \A i \in 0 .. n : f[i] = IF i = 0 THEN 0 ELSE f[i - 1] + s[i]
    BY <1>1, <1>2
  <2> QED
    BY <1>2, <2>1
<1>4. g = [i \in 0 .. n |-> IF i = 0 THEN 0 ELSE g[i - 1] + s[i]]
  BY <1>3, Zenon DEF Sums
<1> HIDE DEF g
<1>5. \A i \in 0 .. n : g[i] = IF i = 0 THEN 0 ELSE g[i - 1] + s[i]
  BY <1>4
<1> HIDE DEF n
<1>6. Bad = {}
  <2> SUFFICES ASSUME Bad # {} PROVE FALSE
    OBVIOUS
  <2>1. Bad \in SUBSET Nat
    BY <1>1
  <2>2. PICK i \in Bad : \A j \in Bad : i <= j
    BY <2>1, LeastElement
  <2>3. i \in 0 .. n /\ g[i] # f[i]
    BY <2>2
  <2>4. i # 0
    BY <1>1, <1>2, <1>5, <2>3
  <2>5. i - 1 \in 0 .. n /\ i \in 1 .. n
    BY <1>1, <2>3, <2>4
  <2>6. i - 1 \notin Bad
    <3> HIDE DEF Bad
    <3> QED
      BY <1>1, <2>2, <2>3, <2>5
  <2>7. g[i - 1] = f[i - 1]
    BY <2>5, <2>6
  <2>8. g[i] = g[i - 1] + s[i]
    BY <1>5, <2>3, <2>4
  <2>9. f[i] = f[i - 1] + s[i]
    BY <1>2, <2>5
  <2> QED
    BY <2>3, <2>7, <2>8, <2>9
<1>7. n \in 0 .. n
  BY <1>1
<1>8. g[n] = f[n]
  BY <1>6, <1>7
<1> QED
  BY <1>8 DEF Total, g, n

\* The sums of s up to entry k, and the types that go with them.
SumsStep(f, s, n, k) ==
    /\ k - 1 \in 0 .. n /\ f[k - 1] \in Int /\ f[k] \in Int /\ s[k] \in Int
    /\ f[k] = f[k - 1] + s[k]

\* Sums of a sequence, one entry at a time.
LEMMA SumsOf ==
    ASSUME NEW s \in Seq(Int)
    PROVE  \E f \in [0 .. Len(s) -> Int] :
              /\ f[0] = 0 /\ Total(s) = f[Len(s)]
              /\ \A k \in 1 .. Len(s) : SumsStep(f, s, Len(s), k)
<1>1. PICK f : IsSums(f, s)
  BY SumsExist
<1>2. Total(s) = f[Len(s)]
  BY <1>1, TotalIs
<1>3. f \in [0 .. Len(s) -> Int] /\ f[0] = 0 /\ Len(s) \in Nat
  BY <1>1, LenProperties DEF IsSums
<1>4. ASSUME NEW k \in 1 .. Len(s) PROVE SumsStep(f, s, Len(s), k)
  <2>1. f[k] = f[k - 1] + s[k]
    BY <1>1 DEF IsSums
  <2>2. k - 1 \in 0 .. Len(s) /\ k \in 0 .. Len(s) /\ s[k] \in Int
    BY <1>3
  <2>3. f[k - 1] \in Int /\ f[k] \in Int
    BY <1>3, <2>2
  <2> QED
    BY <2>1, <2>2, <2>3 DEF SumsStep
<1> QED
  BY <1>2, <1>3, <1>4

\* The total is a number.
LEMMA TotalIsNumber == ASSUME NEW s \in Seq(Int) PROVE Total(s) \in Int
<1>1. PICK f \in [0 .. Len(s) -> Int] : Total(s) = f[Len(s)]
  BY SumsOf
<1>2. Len(s) \in 0 .. Len(s)
  BY LenProperties
<1> QED
  BY <1>1, <1>2

\* One entry grows by d.
ChangedBy(t, s, i, d) ==
    /\ Len(t) = Len(s)
    /\ i \in 1 .. Len(s)
    /\ t[i] = s[i] + d
    /\ \A k \in 1 .. Len(s) : k # i => t[k] = s[k]

\* The total grows by as much.
LEMMA TotalChange ==
    ASSUME NEW s \in Seq(Int), NEW t \in Seq(Int), NEW i, NEW d \in Int, ChangedBy(t, s, i, d)
    PROVE  Total(t) = Total(s) + d
<1> DEFINE n == Len(s)
<1>1. n \in Nat /\ i \in 1 .. n /\ Len(t) = n
  BY LenProperties DEF ChangedBy
<1>2. PICK f \in [0 .. n -> Int] : /\ f[0] = 0 /\ Total(s) = f[n]
                                   /\ \A k \in 1 .. n : SumsStep(f, s, n, k)
  BY SumsOf
<1>3. t[i] = s[i] + d /\ \A k \in 1 .. n : k # i => t[k] = s[k]
  BY DEF ChangedBy
<1> HIDE DEF n
<1> DEFINE g == [k \in 0 .. n |-> IF k < i THEN f[k] ELSE f[k] + d]
<1>4. g \in [0 .. n -> Int] /\ g[0] = 0 /\ g[n] = f[n] + d
  BY <1>1, <1>2
<1>5. ASSUME NEW k \in 1 .. n PROVE g[k] = g[k - 1] + t[k]
  <2>1. /\ k - 1 \in 0 .. n /\ f[k - 1] \in Int /\ f[k] \in Int /\ s[k] \in Int
        /\ f[k] = f[k - 1] + s[k]
    BY <1>2 DEF SumsStep
  <2>2. g[k] = (IF k < i THEN f[k] ELSE f[k] + d)
    BY <1>1
  <2>3. g[k - 1] = (IF k - 1 < i THEN f[k - 1] ELSE f[k - 1] + d)
    BY <2>1
  <2> HIDE DEF g
  <2>4. CASE k < i
    <3>1. t[k] = s[k] /\ k - 1 < i
      BY <1>1, <1>3, <2>4
    <3> QED
      BY <2>1, <2>2, <2>3, <2>4, <3>1
  <2>5. CASE k = i
    <3>1. t[k] = s[k] + d /\ k - 1 < i /\ ~(k < i)
      BY <1>1, <1>3, <2>5
    <3> QED
      BY <2>1, <2>2, <2>3, <3>1
  <2>6. CASE k > i
    <3>1. t[k] = s[k] /\ ~(k - 1 < i) /\ ~(k < i)
      BY <1>1, <1>3, <2>6
    <3> QED
      BY <2>1, <2>2, <2>3, <3>1
  <2> QED
    BY <1>1, <2>4, <2>5, <2>6
<1> HIDE DEF g
<1>6. IsSums(g, t)
  BY <1>1, <1>4, <1>5 DEF IsSums
<1>7. Total(t) = g[n]
  BY <1>1, <1>6, TotalIs
<1> QED
  BY <1>2, <1>4, <1>7

\* One entry becomes two, which together are d more.
SplitBy(t, s, i, d) ==
    /\ Len(t) = Len(s) + 1
    /\ i \in 1 .. Len(s)
    /\ t[i] + t[i + 1] = s[i] + d
    /\ \A k \in 1 .. Len(s) : /\ k < i => t[k] = s[k]
                              /\ k > i => t[k + 1] = s[k]

\* The total is d more.
LEMMA TotalSplit ==
    ASSUME NEW s \in Seq(Int), NEW t \in Seq(Int), NEW i, NEW d \in Int, SplitBy(t, s, i, d)
    PROVE  Total(t) = Total(s) + d
<1> DEFINE n == Len(s)
<1>1. n \in Nat /\ i \in 1 .. n /\ Len(t) = n + 1
  BY LenProperties DEF SplitBy
<1>2. PICK f \in [0 .. n -> Int] : /\ f[0] = 0 /\ Total(s) = f[n]
                                   /\ \A k \in 1 .. n : SumsStep(f, s, n, k)
  BY SumsOf
<1>3. \A k \in 1 .. n : (k < i => t[k] = s[k]) /\ (k > i => t[k + 1] = s[k])
  BY DEF SplitBy
<1>4. t[i] \in Int /\ t[i + 1] \in Int /\ t[i] + t[i + 1] = s[i] + d
  <2>1. i \in 1 .. Len(t) /\ i + 1 \in 1 .. Len(t)
    BY <1>1
  <2> QED
    BY <2>1 DEF SplitBy
<1>5. ASSUME NEW k \in 1 .. n
      PROVE  /\ k - 1 \in 0 .. n /\ f[k - 1] \in Int /\ f[k] \in Int /\ s[k] \in Int
             /\ f[k] = f[k - 1] + s[k]
  BY <1>2 DEF SumsStep
<1> HIDE DEF n
<1> DEFINE G(k) == IF k < i THEN f[k] ELSE IF k = i THEN f[i - 1] + t[i] ELSE f[k - 1] + d
           g == [k \in 0 .. n + 1 |-> G(k)]
<1>6. ASSUME NEW k \in 0 .. n + 1 PROVE G(k) \in Int
  <2>1. CASE k < i
    <3>1. k \in 0 .. n
      BY <1>1, <2>1
    <3> QED
      BY <1>2, <2>1, <3>1
  <2>2. CASE k = i
    BY <1>1, <1>4, <1>5, <2>2
  <2>3. CASE k > i
    <3>1. k - 1 \in 0 .. n /\ ~(k < i) /\ k # i
      BY <1>1, <2>3
    <3>2. f[k - 1] \in Int
      BY <1>2, <3>1
    <3> QED
      BY <3>1, <3>2
  <2> QED
    BY <1>1, <2>1, <2>2, <2>3
<1>7. G(0) = 0 /\ G(n + 1) = f[n] + d
  <2>1. 0 < i /\ ~(n + 1 < i) /\ n + 1 # i /\ (n + 1) - 1 = n
    BY <1>1
  <2> QED
    BY <1>2, <2>1
<1>8. ASSUME NEW k \in 1 .. n + 1 PROVE G(k) = G(k - 1) + t[k]
  <2>1. CASE k < i
    <3>1. k \in 1 .. n /\ k - 1 < i
      BY <1>1, <2>1
    <3>2. f[k] = f[k - 1] + s[k] /\ t[k] = s[k]
      BY <1>3, <1>5, <2>1, <3>1
    <3> QED
      BY <2>1, <3>1, <3>2
  <2>2. CASE k = i
    <3>1. k - 1 < i /\ ~(k < i)
      BY <1>1, <2>2
    <3> QED
      BY <2>2, <3>1
  <2>3. CASE k = i + 1
    <3>1. k - 1 = i /\ ~(k < i) /\ k # i /\ ~(k - 1 < i)
      BY <1>1, <2>3
    <3>2. G(k) = f[i] + d /\ G(k - 1) = f[i - 1] + t[i]
      BY <3>1
    <3>4. f[i] + d = (f[i - 1] + t[i]) + t[i + 1]
      <4> DEFINE fi == f[i]
                 fp == f[i - 1]
                 si == s[i]
                 t1 == t[i]
                 t2 == t[i + 1]
      <4>1. /\ fi \in Int /\ fp \in Int /\ si \in Int /\ t1 \in Int /\ t2 \in Int
            /\ fi = fp + si /\ t1 + t2 = si + d
        BY <1>1, <1>4, <1>5
      <4> HIDE DEF fi, fp, si, t1, t2
      <4>2. fi + d = (fp + t1) + t2
        BY <4>1
      <4> QED
        BY <4>2 DEF fi, fp, si, t1, t2
    <3> HIDE DEF G
    <3>3. t[k] = t[i + 1]
      BY <2>3
    <3> QED
      BY <3>2, <3>3, <3>4, Zenon
  <2>4. CASE k > i + 1
    <3> DEFINE m == k - 1
    <3>1. m \in 1 .. n /\ m > i /\ k = m + 1 /\ ~(m < i) /\ m # i /\ ~(k < i) /\ k # i
      BY <1>1, <2>4
    <3>2. G(k) = f[m] + d /\ G(m) = f[m - 1] + d
      BY <3>1
    <3> HIDE DEF m, G
    <3>3. t[k] = s[m]
      BY <1>3, <3>1
    <3>4. f[m] = f[m - 1] + s[m] /\ f[m - 1] \in Int /\ s[m] \in Int
      BY <1>5, <3>1
    <3>5. G(k) = G(m) + t[k]
      BY <3>2, <3>3, <3>4
    <3> QED
      BY <3>5 DEF m
  <2> QED
    BY <1>1, <2>1, <2>2, <2>3, <2>4
<1> HIDE DEF G
<1>9. IsSums(g, t)
  <2>1. g \in [0 .. n + 1 -> Int] /\ g[0] = 0
    BY <1>1, <1>6, <1>7
  <2>2. ASSUME NEW k \in 1 .. n + 1 PROVE g[k] = g[k - 1] + t[k]
    <3>1. k \in 0 .. n + 1 /\ k - 1 \in 0 .. n + 1
      BY <1>1
    <3>2. g[k] = G(k) /\ g[k - 1] = G(k - 1)
      BY <3>1
    <3> QED
      BY <1>8, <3>2
  <2> HIDE DEF g
  <2> QED
    BY <1>1, <2>1, <2>2 DEF IsSums
<1>10. Total(t) = g[n + 1]
  BY <1>1, <1>9, TotalIs
<1>11. g[n + 1] = G(n + 1)
  BY <1>1
<1> HIDE DEF g
<1> QED
  BY <1>2, <1>7, <1>10, <1>11

\* The lists of which the totals are taken.
LEMMA ExtentsOf ==
    ASSUME NEW blocks \in Seq(Block)
    PROVE  /\ Extents(blocks) \in Seq(Int)
           /\ Len(Extents(blocks)) = Len(blocks)
           /\ \A k \in 1 .. Len(blocks) : Extents(blocks)[k] = blocks[k].size + DESCRIPTOR
<1>1. Len(blocks) \in Nat
  BY LenProperties
<1>2. ASSUME NEW k \in 1 .. Len(blocks) PROVE blocks[k].size + DESCRIPTOR \in Int
  <2>1. blocks[k] \in Block
    OBVIOUS
  <2> QED
    BY <2>1, BlockFields, HeapAssumption
<1>3. Extents(blocks) \in [1 .. Len(blocks) -> Int]
  BY <1>2 DEF Extents
<1>4. \A k \in 1 .. Len(blocks) : Extents(blocks)[k] = blocks[k].size + DESCRIPTOR
  BY DEF Extents
<1> HIDE DEF Extents
<1>5. Extents(blocks) \in Seq(Int) /\ Len(Extents(blocks)) = Len(blocks)
  BY <1>1, <1>3
<1> QED
  BY <1>4, <1>5

\* The sizes of the blocks in use.
LEMMA UsedSizesOf ==
    ASSUME NEW blocks \in Seq(Block)
    PROVE  /\ UsedSizes(blocks) \in Seq(Int)
           /\ Len(UsedSizes(blocks)) = Len(blocks)
           /\ \A k \in 1 .. Len(blocks) :
                 UsedSizes(blocks)[k] = IF blocks[k].used THEN blocks[k].size ELSE 0
<1>1. Len(blocks) \in Nat
  BY LenProperties
<1>2. ASSUME NEW k \in 1 .. Len(blocks)
      PROVE  (IF blocks[k].used THEN blocks[k].size ELSE 0) \in Int
  <2>1. blocks[k] \in Block
    OBVIOUS
  <2> QED
    BY <2>1, BlockFields
<1>3. UsedSizes(blocks) \in [1 .. Len(blocks) -> Int]
  BY <1>2 DEF UsedSizes
<1>4. \A k \in 1 .. Len(blocks) :
        UsedSizes(blocks)[k] = IF blocks[k].used THEN blocks[k].size ELSE 0
  BY DEF UsedSizes
<1> HIDE DEF UsedSizes
<1>5. UsedSizes(blocks) \in Seq(Int) /\ Len(UsedSizes(blocks)) = Len(blocks)
  BY <1>1, <1>3
<1> QED
  BY <1>4, <1>5

\* A list whose blocks cover as much, d words more of it in use.
Covers(new, blocks, d) ==
    /\ Total(Extents(new)) = Total(Extents(blocks))
    /\ Total(UsedSizes(new)) = Total(UsedSizes(blocks)) + d

\* Taking a block loses no word, and counts the ones that are taken.
LEMMA TakenSums ==
    ASSUME NEW blocks \in Seq(Block), NEW i \in 1 .. Len(blocks), NEW size \in Nat, NEW new,
           TakenAs(new, blocks, i, size), ~blocks[i].used
    PROVE  new[i].size \in Int /\ Covers(new, blocks, new[i].size)
<1> DEFINE n == Len(blocks)
           e == Extents(blocks)
           u == UsedSizes(blocks)
           E == Extents(new)
           U == UsedSizes(new)
<1>1. n \in Nat /\ i \in 1 .. n /\ blocks[i] \in Block
  BY LenProperties
<1>2. blocks[i].size \in Int /\ DESCRIPTOR \in Int /\ size \in Int
  BY <1>1, BlockFields, HeapAssumption
<1>3. /\ e \in Seq(Int) /\ Len(e) = n
      /\ \A k \in 1 .. n : e[k] = blocks[k].size + DESCRIPTOR
  BY ExtentsOf
<1>4. /\ u \in Seq(Int) /\ Len(u) = n
      /\ \A k \in 1 .. n : u[k] = IF blocks[k].used THEN blocks[k].size ELSE 0
  BY UsedSizesOf
<1>5. new \in Seq(Block)
  BY DEF TakenAs
<1>6. /\ E \in Seq(Int) /\ Len(E) = Len(new)
      /\ \A k \in 1 .. Len(new) : E[k] = new[k].size + DESCRIPTOR
  BY <1>5, ExtentsOf
<1>7. /\ U \in Seq(Int) /\ Len(U) = Len(new)
      /\ \A k \in 1 .. Len(new) : U[k] = IF new[k].used THEN new[k].size ELSE 0
  BY <1>5, UsedSizesOf
<1>8. u[i] = 0
  BY <1>1, <1>4
<1> HIDE DEF e, u, E, U
<1>9. CASE Splits(blocks[i], size)
  <2>1. Len(new) = n + 1
    BY <1>9 DEF TakenAs, SplitAt
  <2>2. ASSUME NEW k \in 1 .. n + 1
        PROVE  new[k] = IF k < i THEN blocks[k]
                        ELSE IF k = i THEN SplitBlock(blocks[i], size)
                        ELSE IF k = i + 1 THEN Rest(blocks[i], size)
                        ELSE blocks[k - 1]
    BY <1>9 DEF TakenAs, SplitAt
  <2> HIDE DEF n
  <2>3. new[i].size = size /\ new[i].used
    BY <1>1, <2>2 DEF SplitBlock
  <2>4. new[i + 1].size = blocks[i].size - size - DESCRIPTOR /\ ~new[i + 1].used
    BY <1>1, <2>2 DEF Rest
  <2>5. ASSUME NEW k \in 1 .. n
        PROVE  (k < i => new[k] = blocks[k]) /\ (k > i => new[k + 1] = blocks[k])
    <3>1. CASE k < i
      BY <1>1, <2>2, <3>1
    <3>2. CASE k > i
      <4>1. k + 1 \in 1 .. n + 1 /\ (k + 1) - 1 = k /\ ~(k + 1 < i) /\ k + 1 # i /\ k + 1 # i + 1
        BY <1>1, <3>2
      <4>2. new[k + 1] = blocks[(k + 1) - 1]
        BY <2>2, <4>1
      <4> QED
        BY <1>1, <3>2, <4>1, <4>2
    <3> QED
      BY <1>1, <3>1, <3>2
  <2>6. i \in 1 .. n + 1 /\ i + 1 \in 1 .. n + 1
        /\ \A k \in 1 .. n : k \in 1 .. n + 1 /\ k + 1 \in 1 .. n + 1
    BY <1>1
  <2>7. SplitBy(E, e, i, 0)
    <3>1. E[i] = size + DESCRIPTOR /\ E[i + 1] = (blocks[i].size - size - DESCRIPTOR) + DESCRIPTOR
      BY <1>6, <2>1, <2>3, <2>4, <2>6
    <3>2. e[i] = blocks[i].size + DESCRIPTOR
      BY <1>1, <1>3
    <3>3. E[i] + E[i + 1] = e[i] + 0
      BY <1>2, <3>1, <3>2
    <3>4. \A k \in 1 .. n : (k < i => E[k] = e[k]) /\ (k > i => E[k + 1] = e[k])
      <4> SUFFICES ASSUME NEW k \in 1 .. n
                   PROVE  (k < i => E[k] = e[k]) /\ (k > i => E[k + 1] = e[k])
        OBVIOUS
      <4>1. k \in 1 .. n + 1 /\ k + 1 \in 1 .. n + 1
        BY <2>6
      <4>2. CASE k < i
        <5>1. new[k] = blocks[k] /\ ~(k > i)
          BY <1>1, <2>5, <4>2
        <5> QED
          BY <1>3, <1>6, <2>1, <4>1, <4>2, <5>1
      <4>3. CASE k > i
        <5>1. new[k + 1] = blocks[k] /\ ~(k < i)
          BY <1>1, <2>5, <4>3
        <5> QED
          BY <1>3, <1>6, <2>1, <4>1, <4>3, <5>1
      <4> QED
        BY <4>2, <4>3
    <3> QED
      BY <1>1, <1>3, <1>6, <2>1, <3>3, <3>4 DEF SplitBy
  <2>8. SplitBy(U, u, i, size)
    <3>1. U[i] = size /\ U[i + 1] = 0
      BY <1>7, <2>1, <2>3, <2>4, <2>6
    <3>2. U[i] + U[i + 1] = u[i] + size
      BY <1>2, <1>8, <3>1
    <3>3. \A k \in 1 .. n : (k < i => U[k] = u[k]) /\ (k > i => U[k + 1] = u[k])
      <4> SUFFICES ASSUME NEW k \in 1 .. n
                   PROVE  (k < i => U[k] = u[k]) /\ (k > i => U[k + 1] = u[k])
        OBVIOUS
      <4>1. k \in 1 .. n + 1 /\ k + 1 \in 1 .. n + 1
        BY <2>6
      <4>2. CASE k < i
        <5>1. new[k] = blocks[k] /\ ~(k > i)
          BY <1>1, <2>5, <4>2
        <5> QED
          BY <1>4, <1>7, <2>1, <4>1, <4>2, <5>1
      <4>3. CASE k > i
        <5>1. new[k + 1] = blocks[k] /\ ~(k < i)
          BY <1>1, <2>5, <4>3
        <5> QED
          BY <1>4, <1>7, <2>1, <4>1, <4>3, <5>1
      <4> QED
        BY <4>2, <4>3
    <3> QED
      BY <1>1, <1>4, <1>7, <2>1, <3>2, <3>3 DEF SplitBy
  <2>9. Total(E) = Total(e) + 0
    BY <1>3, <1>6, <2>7, TotalSplit
  <2>10. Total(U) = Total(u) + size
    BY <1>2, <1>4, <1>7, <2>8, TotalSplit
  <2>11. Total(e) \in Int
    BY <1>3, TotalIsNumber
  <2> QED
    BY <1>2, <2>3, <2>9, <2>10, <2>11 DEF Covers, E, e, U, u
<1>10. CASE ~Splits(blocks[i], size)
  <2>1. Len(new) = n
    BY <1>10 DEF TakenAs, MarkedAt
  <2>2. ASSUME NEW k \in 1 .. n
        PROVE  new[k] = IF k = i THEN UsedBlock(blocks[i]) ELSE blocks[k]
    BY <1>10 DEF TakenAs, MarkedAt
  <2> HIDE DEF n
  <2>3. new[i].size = blocks[i].size /\ new[i].used
    BY <1>1, <2>2 DEF UsedBlock
  <2>4. E = e
    <3>1. \A k \in 1 .. n : E[k] = e[k]
      <4> SUFFICES ASSUME NEW k \in 1 .. n PROVE E[k] = e[k]
        OBVIOUS
      <4>1. CASE k = i
        BY <1>1, <1>3, <1>6, <2>1, <2>3, <4>1
      <4>2. CASE k # i
        BY <1>3, <1>6, <2>1, <2>2, <4>2
      <4> QED
        BY <4>1, <4>2
    <3> QED
      BY <1>3, <1>6, <2>1, <3>1, SeqEqual
  <2>5. ChangedBy(U, u, i, blocks[i].size)
    <3>1. U[i] = u[i] + blocks[i].size
      BY <1>1, <1>2, <1>7, <1>8, <2>1, <2>3
    <3>2. \A k \in 1 .. n : k # i => U[k] = u[k]
      BY <1>4, <1>7, <2>1, <2>2
    <3> QED
      BY <1>1, <1>4, <1>7, <2>1, <3>1, <3>2 DEF ChangedBy
  <2>6. Total(U) = Total(u) + blocks[i].size
    BY <1>2, <1>4, <1>7, <2>5, TotalChange
  <2> QED
    BY <1>2, <2>3, <2>4, <2>6 DEF Covers, E, e, U, u
<1> QED
  BY <1>9, <1>10

\* A merge of two free blocks covers as much.
LEMMA MergeSums ==
    ASSUME NEW blocks \in Seq(Block), NEW i \in 1 .. Len(blocks) - 1, NEW new,
           MergedAs(new, blocks, i), ~blocks[i].used, ~blocks[i + 1].used
    PROVE  Covers(new, blocks, 0)
<1> DEFINE n == Len(blocks)
           e == Extents(blocks)
           u == UsedSizes(blocks)
           E == Extents(new)
           U == UsedSizes(new)
<1>1. n \in Nat /\ i \in 1 .. n - 1
  BY LenProperties
<1>2. i \in 1 .. n /\ i + 1 \in 1 .. n
  BY <1>1
<1>3. blocks[i] \in Block /\ blocks[i + 1] \in Block
  BY <1>2
<1>4. blocks[i].size \in Int /\ blocks[i + 1].size \in Int /\ DESCRIPTOR \in Int
  BY <1>3, BlockFields, HeapAssumption
<1>5. /\ e \in Seq(Int) /\ Len(e) = n
      /\ \A k \in 1 .. n : e[k] = blocks[k].size + DESCRIPTOR
  BY ExtentsOf
<1>6. /\ u \in Seq(Int) /\ Len(u) = n
      /\ \A k \in 1 .. n : u[k] = IF blocks[k].used THEN blocks[k].size ELSE 0
  BY UsedSizesOf
<1>7. new \in Seq(Block) /\ Len(new) = n - 1
  BY DEF MergedAs
<1>8. /\ E \in Seq(Int) /\ Len(E) = n - 1
      /\ \A k \in 1 .. n - 1 : E[k] = new[k].size + DESCRIPTOR
  BY <1>7, ExtentsOf
<1>9. /\ U \in Seq(Int) /\ Len(U) = n - 1
      /\ \A k \in 1 .. n - 1 : U[k] = IF new[k].used THEN new[k].size ELSE 0
  BY <1>7, UsedSizesOf
<1>10. ASSUME NEW k \in 1 .. n - 1
       PROVE  new[k] = IF k < i THEN blocks[k]
                       ELSE IF k = i THEN Swallowed(blocks[i], blocks[i + 1])
                       ELSE blocks[k + 1]
  BY DEF MergedAs
<1> HIDE DEF n, e, u, E, U
<1>11. new[i].size = blocks[i].size + blocks[i + 1].size + DESCRIPTOR /\ ~new[i].used
  BY <1>1, <1>10 DEF Swallowed
<1>12. ASSUME NEW k \in 1 .. n - 1
       PROVE  /\ k \in 1 .. n /\ k + 1 \in 1 .. n
              /\ k < i => new[k] = blocks[k]
              /\ k > i => new[k] = blocks[k + 1]
  BY <1>1, <1>10
<1>13. n = (n - 1) + 1
  BY <1>1
<1>14. SplitBy(e, E, i, 0)
  <2>1. e[i] = blocks[i].size + DESCRIPTOR /\ e[i + 1] = blocks[i + 1].size + DESCRIPTOR
    BY <1>2, <1>5
  <2>2. E[i] = (blocks[i].size + blocks[i + 1].size + DESCRIPTOR) + DESCRIPTOR
    BY <1>1, <1>8, <1>11
  <2>3. e[i] + e[i + 1] = E[i] + 0
    BY <1>4, <2>1, <2>2
  <2>4. \A k \in 1 .. n - 1 : (k < i => e[k] = E[k]) /\ (k > i => e[k + 1] = E[k])
    <3> SUFFICES ASSUME NEW k \in 1 .. n - 1
                 PROVE  (k < i => e[k] = E[k]) /\ (k > i => e[k + 1] = E[k])
      OBVIOUS
    <3>1. k \in 1 .. n /\ k + 1 \in 1 .. n
      BY <1>12
    <3>2. CASE k < i
      <4>1. new[k] = blocks[k] /\ ~(k > i)
        BY <1>1, <1>12, <3>2
      <4> QED
        BY <1>5, <1>8, <3>1, <3>2, <4>1
    <3>3. CASE k > i
      <4>1. new[k] = blocks[k + 1] /\ ~(k < i)
        BY <1>1, <1>12, <3>3
      <4> QED
        BY <1>5, <1>8, <3>1, <3>3, <4>1
    <3> QED
      BY <3>2, <3>3
  <2> QED
    BY <1>1, <1>5, <1>8, <1>13, <2>3, <2>4 DEF SplitBy
<1>15. SplitBy(u, U, i, 0)
  <2>1. u[i] = 0 /\ u[i + 1] = 0 /\ U[i] = 0
    BY <1>1, <1>2, <1>6, <1>9, <1>11
  <2>2. u[i] + u[i + 1] = U[i] + 0
    BY <2>1
  <2>3. \A k \in 1 .. n - 1 : (k < i => u[k] = U[k]) /\ (k > i => u[k + 1] = U[k])
    <3> SUFFICES ASSUME NEW k \in 1 .. n - 1
                 PROVE  (k < i => u[k] = U[k]) /\ (k > i => u[k + 1] = U[k])
      OBVIOUS
    <3>1. k \in 1 .. n /\ k + 1 \in 1 .. n
      BY <1>12
    <3>2. CASE k < i
      <4>1. new[k] = blocks[k] /\ ~(k > i)
        BY <1>1, <1>12, <3>2
      <4> QED
        BY <1>6, <1>9, <3>1, <3>2, <4>1
    <3>3. CASE k > i
      <4>1. new[k] = blocks[k + 1] /\ ~(k < i)
        BY <1>1, <1>12, <3>3
      <4> QED
        BY <1>6, <1>9, <3>1, <3>3, <4>1
    <3> QED
      BY <3>2, <3>3
  <2> QED
    BY <1>1, <1>6, <1>9, <1>13, <2>2, <2>3 DEF SplitBy
<1>16. Total(e) = Total(E) + 0 /\ Total(u) = Total(U) + 0
  BY <1>5, <1>6, <1>8, <1>9, <1>14, <1>15, TotalSplit
<1>17. Total(E) \in Int /\ Total(U) \in Int
  BY <1>8, <1>9, TotalIsNumber
<1> QED
  BY <1>16, <1>17 DEF Covers, E, e, U, u

\* A merge of two free blocks keeps the ones in use, and the order of the blocks.
LEMMA MergeKeeps ==
    ASSUME NEW blocks \in Seq(Block), NEW i \in 1 .. Len(blocks) - 1, NEW new,
           MergedAs(new, blocks, i), ~blocks[i].used, ~blocks[i + 1].used
    PROVE  KeepsUsed(new, blocks) /\ (Increasing(blocks) => Increasing(new))
<1> DEFINE n == Len(blocks)
<1>1. n \in Nat
  BY LenProperties
<1> HIDE DEF n
<1>2. i \in 1 .. n - 1
  BY DEF n
<1>3. Len(new) = n - 1
  BY DEF MergedAs, n
<1>4. ASSUME NEW k \in 1 .. n - 1
      PROVE  new[k] = IF k < i THEN blocks[k]
                      ELSE IF k = i THEN Swallowed(blocks[i], blocks[i + 1])
                      ELSE blocks[k + 1]
  BY DEF MergedAs, n
<1>5. ASSUME NEW s \in Nat, NEW z \in Nat, InUse(blocks, s, z) PROVE InUse(new, s, z)
  <2>1. PICK k \in 1 .. n : blocks[k].start = s /\ blocks[k].used /\ blocks[k].size >= z
    BY <1>5 DEF InUse, n
  <2>2. k # i /\ k # i + 1
    BY <2>1
  <2>3. CASE k < i
    <3>1. k \in 1 .. n - 1 /\ new[k] = blocks[k]
      BY <1>1, <1>2, <1>4, <2>3
    <3> QED
      BY <1>3, <2>1, <3>1 DEF InUse
  <2>4. CASE k > i + 1
    <3>1. k - 1 \in 1 .. n - 1 /\ (k - 1) + 1 = k /\ ~(k - 1 < i) /\ k - 1 # i
      BY <1>1, <1>2, <2>4
    <3>2. new[k - 1] = blocks[k]
      BY <1>4, <3>1
    <3> QED
      BY <1>3, <2>1, <3>1, <3>2 DEF InUse
  <2> QED
    BY <1>2, <2>2, <2>3, <2>4
<1>6. ASSUME Increasing(blocks) PROVE Increasing(new)
  <2> DEFINE old(k) == IF k <= i THEN k ELSE k + 1
  <2>1. Swallowed(blocks[i], blocks[i + 1]).start = blocks[i].start
    BY DEF Swallowed
  <2>2. ASSUME NEW k \in 1 .. n - 1
        PROVE  new[k].start = blocks[old(k)].start /\ old(k) \in 1 .. n
    <3>1. old(k) \in 1 .. n
      BY <1>1, <1>2
    <3>2. CASE k < i
      <4>1. new[k] = blocks[k] /\ old(k) = k
        BY <1>2, <1>4, <3>2
      <4> QED
        BY <3>1, <4>1
    <3>3. CASE k = i
      <4>1. new[k] = Swallowed(blocks[i], blocks[i + 1]) /\ old(k) = i
        BY <1>2, <1>4, <3>3
      <4> QED
        BY <2>1, <3>1, <4>1
    <3>4. CASE k > i
      <4>1. new[k] = blocks[k + 1] /\ old(k) = k + 1
        BY <1>2, <1>4, <3>4
      <4> QED
        BY <3>1, <4>1
    <3> QED
      BY <1>2, <3>2, <3>3, <3>4
  <2>3. \A j, k \in 1 .. n : j < k => blocks[j].start < blocks[k].start
    BY <1>6 DEF Increasing, n
  <2> SUFFICES ASSUME NEW j \in 1 .. n - 1, NEW k \in 1 .. n - 1, j < k
               PROVE  new[j].start < new[k].start
    BY <1>3 DEF Increasing
  <2>4. old(j) < old(k)
    BY <1>1, <1>2
  <2> QED
    BY <2>2, <2>3, <2>4
<1> QED
  BY <1>5, <1>6 DEF KeepsUsed

\* Free blocks are merged but for block i with its neighbours, or with the one before it.
MergedBut(blocks, i) ==
    \A k \in 1 .. Len(blocks) - 1 : k # i /\ k + 1 # i => blocks[k].used \/ blocks[k + 1].used

MergedButBefore(blocks, i) ==
    \A k \in 1 .. Len(blocks) - 1 : k + 1 # i => blocks[k].used \/ blocks[k + 1].used

\* Block i of the list is free.
FreeAt(blocks, i) == blocks \in Seq(Block) /\ i \in 1 .. Len(blocks) /\ ~blocks[i].used

\* The list that a merge leaves keeps the order, the blocks in use and the totals.
Follows(new, blocks) ==
    /\ KeepsUsed(new, blocks)
    /\ Increasing(blocks) => Increasing(new)
    /\ Covers(new, blocks, 0)

\* The block that is freed is merged with the next one.
LEMMA MergeNextKeeps ==
    ASSUME NEW blocks, NEW i, FreeAt(blocks, i)
    PROVE  /\ FreeAt(MergeNext(blocks, i), i)
           /\ Follows(MergeNext(blocks, i), blocks)
           /\ MergedBut(blocks, i) => MergedButBefore(MergeNext(blocks, i), i)
<1> DEFINE n == Len(blocks)
           new == MergeNext(blocks, i)
<1>1. blocks \in Seq(Block) /\ i \in 1 .. n /\ ~blocks[i].used
  BY DEF FreeAt
<1>2. n \in Nat
  BY <1>1, LenProperties
<1>3. CASE i < n /\ ~blocks[i + 1].used
  <2>1. i \in 1 .. n - 1
    BY <1>1, <1>2, <1>3
  <2>2. new = Merge(blocks, i)
    BY <1>3 DEF MergeNext
  <2>3. MergedAs(new, blocks, i)
    BY <1>1, <2>1, <2>2, MergeBlocks
  <2> HIDE DEF new
  <2>4. Follows(new, blocks)
    BY <1>1, <1>3, <2>1, <2>3, MergeKeeps, MergeSums DEF Follows
  <2>5. new \in Seq(Block) /\ Len(new) = n - 1
    BY <2>3 DEF MergedAs
  <2> HIDE DEF n
  <2>6. ASSUME NEW k \in 1 .. n - 1
        PROVE  new[k] = IF k < i THEN blocks[k]
                        ELSE IF k = i THEN Swallowed(blocks[i], blocks[i + 1])
                        ELSE blocks[k + 1]
    BY <2>3 DEF MergedAs, n
  <2>7. ~Swallowed(blocks[i], blocks[i + 1]).used
    BY <1>1 DEF Swallowed
  <2>8. ~new[i].used
    BY <1>1, <2>1, <2>6, <2>7
  <2>9. ASSUME MergedBut(blocks, i) PROVE MergedButBefore(new, i)
    <3>1. \A k \in 1 .. n - 1 : k # i /\ k + 1 # i => blocks[k].used \/ blocks[k + 1].used
      BY <2>9 DEF MergedBut, n
    <3> SUFFICES ASSUME NEW k \in 1 .. (n - 1) - 1, k + 1 # i
                 PROVE  new[k].used \/ new[k + 1].used
      BY <2>5 DEF MergedButBefore
    <3>2. k \in 1 .. n - 1 /\ k + 1 \in 1 .. n - 1
      BY <1>2
    <3>3. CASE k < i
      <4>1. new[k] = blocks[k] /\ new[k + 1] = blocks[k + 1]
        BY <1>1, <2>6, <3>2, <3>3
      <4> QED
        BY <3>1, <3>2, <3>3, <4>1
    <3>4. CASE k >= i
      <4>1. new[k + 1] = blocks[(k + 1) + 1]
        BY <1>1, <2>6, <3>2, <3>4
      <4>2. k + 1 # i /\ (k + 1) + 1 # i /\ k + 1 \in 1 .. n - 1
        BY <1>1, <1>2, <3>4
      <4>3. blocks[k + 1].used \/ blocks[(k + 1) + 1].used
        BY <3>1, <4>2
      <4>4. CASE k = i
        BY <1>3, <4>1, <4>3, <4>4
      <4>5. CASE k > i
        <5>1. new[k] = blocks[k + 1]
          BY <1>1, <2>6, <3>2, <4>5
        <5> QED
          BY <4>1, <4>3, <5>1
      <4> QED
        BY <1>1, <3>4, <4>4, <4>5
    <3> QED
      BY <1>1, <3>3, <3>4
  <2> QED
    BY <2>1, <2>4, <2>5, <2>8, <2>9 DEF FreeAt, new
<1>4. CASE ~(i < n /\ ~blocks[i + 1].used)
  <2>1. new = blocks
    BY <1>4 DEF MergeNext
  <2> HIDE DEF new
  <2>2. Follows(blocks, blocks)
    <3>1. Covers(blocks, blocks, 0)
      BY <1>1, ExtentsOf, UsedSizesOf, TotalIsNumber DEF Covers
    <3> QED
      BY <3>1 DEF Follows, KeepsUsed
  <2>3. ASSUME MergedBut(blocks, i) PROVE MergedButBefore(blocks, i)
    <3> SUFFICES ASSUME NEW k \in 1 .. n - 1, k + 1 # i
                 PROVE  blocks[k].used \/ blocks[k + 1].used
      BY DEF MergedButBefore
    <3>1. CASE k = i
      BY <1>1, <1>2, <1>4, <3>1
    <3>2. CASE k # i
      BY <2>3, <3>2 DEF MergedBut
    <3> QED
      BY <3>1, <3>2
  <2> QED
    BY <2>1, <2>2, <2>3 DEF new
<1> QED
  BY <1>3, <1>4

\* The block that is freed is merged with the previous one.
LEMMA MergePreviousKeeps ==
    ASSUME NEW blocks, NEW i, FreeAt(blocks, i)
    PROVE  /\ MergePrevious(blocks, i) \in Seq(Block)
           /\ Follows(MergePrevious(blocks, i), blocks)
           /\ MergedButBefore(blocks, i) => Merged(MergePrevious(blocks, i))
<1> DEFINE n == Len(blocks)
           new == MergePrevious(blocks, i)
<1>1. blocks \in Seq(Block) /\ i \in 1 .. n /\ ~blocks[i].used
  BY DEF FreeAt
<1>2. n \in Nat
  BY <1>1, LenProperties
<1>3. CASE i > 1 /\ ~blocks[i - 1].used
  <2> DEFINE p == i - 1
  <2>1. p \in 1 .. n - 1 /\ p + 1 = i
    BY <1>1, <1>2, <1>3
  <2>2. new = Merge(blocks, p) /\ ~blocks[p].used
    BY <1>3 DEF MergePrevious
  <2> HIDE DEF p
  <2>3. MergedAs(new, blocks, p)
    BY <1>1, <2>1, <2>2, MergeBlocks
  <2> HIDE DEF new
  <2>4. Follows(new, blocks)
    BY <1>1, <2>1, <2>2, <2>3, MergeKeeps, MergeSums DEF Follows
  <2>5. new \in Seq(Block) /\ Len(new) = n - 1
    BY <2>3 DEF MergedAs
  <2> HIDE DEF n
  <2>6. ASSUME NEW k \in 1 .. n - 1
        PROVE  new[k] = IF k < p THEN blocks[k]
                        ELSE IF k = p THEN Swallowed(blocks[p], blocks[p + 1])
                        ELSE blocks[k + 1]
    BY <2>3 DEF MergedAs, n
  <2>7. ASSUME MergedButBefore(blocks, i) PROVE Merged(new)
    <3>1. \A k \in 1 .. n - 1 : k + 1 # i => blocks[k].used \/ blocks[k + 1].used
      BY <2>7 DEF MergedButBefore, n
    <3> SUFFICES ASSUME NEW k \in 1 .. (n - 1) - 1 PROVE new[k].used \/ new[k + 1].used
      BY <2>5 DEF Merged
    <3>2. k \in 1 .. n - 1 /\ k + 1 \in 1 .. n - 1
      BY <1>2
    <3>3. CASE k < p
      <4>1. new[k] = blocks[k]
        BY <2>1, <2>6, <3>2, <3>3
      <4>2. blocks[k].used \/ blocks[k + 1].used
        BY <2>1, <3>1, <3>2, <3>3
      <4>3. CASE k + 1 = p
        BY <2>2, <4>1, <4>2, <4>3
      <4>4. CASE k + 1 # p
        <5>1. new[k + 1] = blocks[k + 1]
          BY <2>1, <2>6, <3>2, <3>3, <4>4
        <5> QED
          BY <4>1, <4>2, <5>1
      <4> QED
        BY <4>3, <4>4
    <3>4. CASE k >= p
      <4>1. new[k + 1] = blocks[(k + 1) + 1]
        BY <2>1, <2>6, <3>2, <3>4
      <4>2. (k + 1) + 1 # i /\ k + 1 \in 1 .. n - 1
        BY <1>2, <2>1, <3>4
      <4>3. blocks[k + 1].used \/ blocks[(k + 1) + 1].used
        BY <3>1, <4>2
      <4>4. CASE k = p
        BY <1>1, <2>1, <4>1, <4>3, <4>4
      <4>5. CASE k > p
        <5>1. new[k] = blocks[k + 1]
          BY <2>1, <2>6, <3>2, <4>5
        <5> QED
          BY <4>1, <4>3, <5>1
      <4> QED
        BY <2>1, <3>4, <4>4, <4>5
    <3> QED
      BY <2>1, <3>3, <3>4
  <2> QED
    BY <2>4, <2>5, <2>7 DEF new
<1>4. CASE ~(i > 1 /\ ~blocks[i - 1].used)
  <2>1. new = blocks
    BY <1>4 DEF MergePrevious
  <2> HIDE DEF new
  <2>2. Follows(blocks, blocks)
    <3>1. Covers(blocks, blocks, 0)
      BY <1>1, ExtentsOf, UsedSizesOf, TotalIsNumber DEF Covers
    <3> QED
      BY <3>1 DEF Follows, KeepsUsed
  <2>3. ASSUME MergedButBefore(blocks, i) PROVE Merged(blocks)
    <3> SUFFICES ASSUME NEW k \in 1 .. n - 1 PROVE blocks[k].used \/ blocks[k + 1].used
      BY DEF Merged
    <3>1. CASE k + 1 = i
      <4>1. i > 1 /\ i - 1 = k
        BY <1>2, <3>1
      <4> QED
        BY <1>4, <4>1
    <3>2. CASE k + 1 # i
      BY <2>3, <3>2 DEF MergedButBefore
    <3> QED
      BY <3>1, <3>2
  <2> QED
    BY <1>1, <2>1, <2>2, <2>3 DEF new
<1> QED
  BY <1>3, <1>4

-----------------------------------------------------------------------------
(***************************************************************************)
(* What holds of the heap after every call, and what holds of it as long   *)
(* as it is intact.                                                        *)
(***************************************************************************)
Sound(h) == h \in Heaps /\ Merged(h.blocks) /\ Total(Extents(h.blocks)) = HEAP_SIZE

Ordered(h) == Increasing(h.blocks) /\ Total(UsedSizes(h.blocks)) = h.used_memory

KeepsUsedBut(new, blocks, p) ==
    \A s \in Nat, z \in Nat : s # p /\ InUse(blocks, s, z) => InUse(new, s, z)

\* No block in use starts at p.
Unused(blocks, p) == \A z \in Nat : ~InUse(blocks, p, z)

\* In a list in order, a block in use is the only one that starts where it does.
LEMMA OneStart ==
    ASSUME NEW blocks \in Seq(Block), Increasing(blocks),
           NEW i \in 1 .. Len(blocks), NEW j \in 1 .. Len(blocks),
           blocks[i].start = blocks[j].start
    PROVE  i = j
<1>1. Len(blocks) \in Nat /\ blocks[i] \in Block /\ blocks[j] \in Block
  BY LenProperties
<1>2. blocks[i].start \in Nat /\ blocks[j].start \in Nat
  BY <1>1, BlockFields
<1>3. ~(i < j) /\ ~(j < i)
  BY <1>2 DEF Increasing
<1> QED
  BY <1>1, <1>3

KmallocDoes(h, size, g, p) ==
    /\ Sound(h) => Sound(g)
    /\ Ordered(h) /\ Apart(g) => Ordered(g)
    /\ KeepsUsed(g.blocks, h.blocks)
    /\ p # NULL => /\ p \in Nat
                   /\ InUse(g.blocks, p, size)
                   /\ Increasing(h.blocks) => Unused(h.blocks, p)

\* What kmalloc does.
LEMMA KmallocKeeps ==
    ASSUME NEW h \in Heaps, NEW size \in Nat \ {0}
    PROVE  kmalloc(h, size) \in Heaps /\ KmallocDoes(h, size, kmalloc(h, size), Pointer(h, size))
<1> DEFINE g == kmalloc(h, size)
           p == Pointer(h, size)
<1>1. h.blocks \in Seq(Block) /\ h.used_memory \in Int
  BY DEF Heaps
<1>2. CASE Fits(h, size) = {}
  <2>1. g = h /\ p = NULL
    BY <1>2 DEF kmalloc, Pointer
  <2> QED
    BY <2>1 DEF KmallocDoes, KeepsUsed
<1>3. CASE Fits(h, size) # {}
  <2> DEFINE i == BestFit(h, size)
             new == Taken(h.blocks, i, size)
  <2>1. i \in Fits(h, size)
    BY <1>3, BestFitFits
  <2>2. g = Take(h, i, size) /\ p = h.blocks[i].start
    BY <1>3 DEF kmalloc, Pointer
  <2> HIDE DEF i, p
  <2>3. i \in 1 .. Len(h.blocks) /\ ~h.blocks[i].used /\ h.blocks[i].size >= size
    BY <2>1 DEF Fits
  <2>4. TakenAs(new, h.blocks, i, size)
    BY <1>1, <2>3, TakenBlocks
  <2>5. g = [blocks |-> new, used_memory |-> h.used_memory + new[i].size]
    BY <2>2 DEF Take
  <2> HIDE DEF new, g
  <2>6. g.blocks = new /\ g.used_memory = h.used_memory + new[i].size
    BY <2>5
  <2>7. new[i].size \in Int /\ Covers(new, h.blocks, new[i].size)
    BY <1>1, <2>3, <2>4, TakenSums
  <2>8. new \in Seq(Block)
    BY <2>4 DEF TakenAs
  <2>9. g \in Heaps
    BY <1>1, <2>5, <2>7, <2>8 DEF Heaps
  <2>10. ASSUME Sound(h) PROVE Sound(g)
    <3>1. Merged(new)
      BY <1>1, <2>3, <2>4, <2>10, TakenMerged DEF Sound
    <3> QED
      BY <2>6, <2>7, <2>9, <2>10, <3>1 DEF Sound, Covers
  <2>11. ASSUME Ordered(h), Apart(g) PROVE Ordered(g)
    <3>1. Increasing(g.blocks)
      BY <1>1, <2>3, <2>4, <2>6, <2>9, <2>11, TakenIncreasing DEF Ordered
    <3>2. Total(UsedSizes(g.blocks)) = g.used_memory
      BY <2>6, <2>7, <2>11 DEF Ordered, Covers
    <3> QED
      BY <3>1, <3>2 DEF Ordered
  <2>12. KeepsUsed(new, h.blocks) /\ InUse(new, h.blocks[i].start, size)
    BY <1>1, <2>3, <2>4, TakenKeepsUsed
  <2>13. p \in Nat
    <3>1. h.blocks[i] \in Block
      BY <1>1, <2>3
    <3> QED
      BY <2>2, <3>1, BlockFields
  <2>14. ASSUME Increasing(h.blocks) PROVE Unused(h.blocks, p)
    <3> SUFFICES ASSUME NEW z \in Nat, InUse(h.blocks, p, z) PROVE FALSE
      BY DEF Unused
    <3>1. PICK k \in 1 .. Len(h.blocks) : h.blocks[k].start = p /\ h.blocks[k].used
      BY DEF InUse
    <3>2. k = i
      BY <1>1, <2>2, <2>3, <2>14, <3>1, OneStart
    <3> QED
      BY <2>3, <3>1, <3>2
  <2> QED
    BY <2>2, <2>6, <2>9, <2>10, <2>11, <2>12, <2>13, <2>14 DEF KmallocDoes, g, p
<1> QED
  BY <1>2, <1>3

\* The list after block i is marked as free.
FreedAs(new, blocks, i) ==
    /\ new \in Seq(Block)
    /\ Len(new) = Len(blocks)
    /\ new[i].start = blocks[i].start /\ new[i].size = blocks[i].size /\ ~new[i].used
    /\ \A k \in 1 .. Len(blocks) : k # i => new[k] = blocks[k]

\* kfree marks the block as free.
LEMMA FreedBlocks ==
    ASSUME NEW blocks \in Seq(Block), NEW i \in 1 .. Len(blocks)
    PROVE  FreedAs([blocks EXCEPT ![i].used = FALSE], blocks, i)
<1> DEFINE free == [blocks[i] EXCEPT !.used = FALSE]
           new == [blocks EXCEPT ![i].used = FALSE]
<1>1. blocks[i] \in Block
  OBVIOUS
<1>2. /\ free \in Block /\ free.start = blocks[i].start /\ free.size = blocks[i].size
      /\ free.used = FALSE
  BY <1>1, BlockUsed
<1>3. new = [blocks EXCEPT ![i] = free]
  OBVIOUS
<1> HIDE DEF free, new
<1>4. /\ new \in Seq(Block) /\ Len(new) = Len(blocks)
      /\ \A k \in 1 .. Len(blocks) : new[k] = IF k = i THEN free ELSE blocks[k]
  BY <1>2, <1>3
<1>5. new[i] = free
  BY <1>4
<1>6. ~new[i].used
  BY <1>2, <1>5
<1> QED
  BY <1>2, <1>4, <1>5, <1>6 DEF FreedAs, new

\* What is left after the mark.
LEMMA FreedKeeps ==
    ASSUME NEW blocks \in Seq(Block), NEW i \in 1 .. Len(blocks), NEW new,
           FreedAs(new, blocks, i)
    PROVE  /\ FreeAt(new, i)
           /\ Merged(blocks) => MergedBut(new, i)
           /\ Increasing(blocks) => Increasing(new)
           /\ KeepsUsedBut(new, blocks, blocks[i].start)
           /\ Total(Extents(new)) = Total(Extents(blocks))
           /\ blocks[i].used => Total(UsedSizes(new)) = Total(UsedSizes(blocks)) - blocks[i].size
<1> DEFINE n == Len(blocks)
<1>1. n \in Nat /\ i \in 1 .. n /\ blocks[i] \in Block
  BY LenProperties
<1>2. /\ new \in Seq(Block) /\ Len(new) = n
      /\ new[i].start = blocks[i].start /\ new[i].size = blocks[i].size /\ ~new[i].used
      /\ \A k \in 1 .. n : k # i => new[k] = blocks[k]
  BY DEF FreedAs
<1>3. FreeAt(new, i)
  BY <1>1, <1>2 DEF FreeAt
<1>4. ASSUME Merged(blocks) PROVE MergedBut(new, i)
  <2> SUFFICES ASSUME NEW k \in 1 .. n - 1, k # i, k + 1 # i
               PROVE  new[k].used \/ new[k + 1].used
    BY <1>2 DEF MergedBut
  <2>1. k \in 1 .. n /\ k + 1 \in 1 .. n
    BY <1>1
  <2>2. new[k] = blocks[k] /\ new[k + 1] = blocks[k + 1]
    BY <1>2, <2>1
  <2> QED
    BY <1>4, <2>2 DEF Merged
<1>5. \A k \in 1 .. n : new[k].start = blocks[k].start /\ new[k].size = blocks[k].size
  BY <1>2
<1>6. ASSUME Increasing(blocks) PROVE Increasing(new)
  BY <1>2, <1>5, <1>6 DEF Increasing
<1>7. KeepsUsedBut(new, blocks, blocks[i].start)
  <2> SUFFICES ASSUME NEW s \in Nat, NEW z \in Nat, s # blocks[i].start, InUse(blocks, s, z)
               PROVE  InUse(new, s, z)
    BY DEF KeepsUsedBut
  <2>1. PICK k \in 1 .. n : blocks[k].start = s /\ blocks[k].used /\ blocks[k].size >= z
    BY DEF InUse
  <2>2. new[k] = blocks[k]
    BY <1>2, <2>1
  <2> QED
    BY <1>2, <2>1, <2>2 DEF InUse
<1>8. Extents(new) = Extents(blocks)
  <2>1. \A k \in 1 .. n : Extents(new)[k] = Extents(blocks)[k]
    BY <1>2, <1>5, ExtentsOf
  <2> QED
    BY <1>2, <2>1, ExtentsOf, SeqEqual
<1>9. ASSUME blocks[i].used
      PROVE  Total(UsedSizes(new)) = Total(UsedSizes(blocks)) - blocks[i].size
  <2> DEFINE u == UsedSizes(blocks)
             U == UsedSizes(new)
             z == blocks[i].size
  <2>1. z \in Int /\ 0 - z \in Int
    BY <1>1, BlockFields
  <2>2. /\ u \in Seq(Int) /\ Len(u) = n
        /\ \A k \in 1 .. n : u[k] = IF blocks[k].used THEN blocks[k].size ELSE 0
    BY UsedSizesOf
  <2>3. /\ U \in Seq(Int) /\ Len(U) = n
        /\ \A k \in 1 .. n : U[k] = IF new[k].used THEN new[k].size ELSE 0
    BY <1>2, UsedSizesOf
  <2> HIDE DEF u, U
  <2>4. U[i] = 0 /\ u[i] = z
    BY <1>1, <1>2, <1>9, <2>2, <2>3
  <2>5. \A k \in 1 .. n : k # i => U[k] = u[k]
    BY <1>2, <2>2, <2>3
  <2> HIDE DEF z
  <2>6. U[i] = u[i] + (0 - z)
    BY <2>1, <2>4
  <2>7. ChangedBy(U, u, i, 0 - z)
    BY <1>1, <2>2, <2>3, <2>5, <2>6 DEF ChangedBy
  <2>8. Total(U) = Total(u) + (0 - z)
    BY <2>1, <2>2, <2>3, <2>7, TotalChange
  <2>9. Total(u) \in Int
    BY <2>2, TotalIsNumber
  <2>10. Total(U) = Total(u) - z
    BY <2>1, <2>8, <2>9
  <2> QED
    BY <2>10 DEF u, U, z
<1> QED
  BY <1>3, <1>4, <1>6, <1>7, <1>8, <1>9

\* What freeing block i does.
ReleaseDoes(h, i, g) ==
    /\ Sound(h) => Sound(g)
    /\ Increasing(h.blocks) => Increasing(g.blocks)
    /\ Ordered(h) /\ h.blocks[i].used => Ordered(g)
    /\ KeepsUsedBut(g.blocks, h.blocks, h.blocks[i].start)

\* A block is freed and merged with its neighbours.
LEMMA ReleaseKeeps ==
    ASSUME NEW h \in Heaps, NEW i \in 1 .. Len(h.blocks)
    PROVE  Release(h, i) \in Heaps /\ ReleaseDoes(h, i, Release(h, i))
<1> DEFINE b == h.blocks
           f == [h.blocks EXCEPT ![i].used = FALSE]
           m == MergeNext(f, i)
           q == MergePrevious(m, i)
           g == Release(h, i)
<1>1. b \in Seq(Block) /\ h.used_memory \in Int /\ b[i] \in Block
  BY DEF Heaps
<1>2. b[i].size \in Int
  BY <1>1, BlockFields
<1>3. g = [blocks |-> q, used_memory |-> h.used_memory - b[i].size]
  BY DEF Release
<1>4. FreedAs(f, b, i)
  BY <1>1, FreedBlocks
<1> HIDE DEF f, g
<1>5. /\ FreeAt(f, i)
      /\ Merged(b) => MergedBut(f, i)
      /\ Increasing(b) => Increasing(f)
      /\ KeepsUsedBut(f, b, b[i].start)
      /\ Total(Extents(f)) = Total(Extents(b))
      /\ b[i].used => Total(UsedSizes(f)) = Total(UsedSizes(b)) - b[i].size
  BY <1>1, <1>4, FreedKeeps
<1>6. FreeAt(m, i) /\ Follows(m, f) /\ (MergedBut(f, i) => MergedButBefore(m, i))
  BY <1>5, MergeNextKeeps
<1> HIDE DEF m
<1>7. q \in Seq(Block) /\ Follows(q, m) /\ (MergedButBefore(m, i) => Merged(q))
  BY <1>6, MergePreviousKeeps
<1> HIDE DEF q
<1>8. g.blocks = q /\ g.used_memory = h.used_memory - b[i].size
  BY <1>3
<1>9. g \in Heaps
  BY <1>1, <1>2, <1>3, <1>7 DEF Heaps
<1>10. Total(Extents(q)) = Total(Extents(b))
  BY <1>5, <1>6, <1>7 DEF Follows, Covers
<1>11. ASSUME Sound(h) PROVE Sound(g)
  BY <1>5, <1>6, <1>7, <1>8, <1>9, <1>10, <1>11 DEF Sound
<1>12. Increasing(b) => Increasing(q)
  BY <1>5, <1>6, <1>7 DEF Follows
<1>13. ASSUME Ordered(h), b[i].used PROVE Ordered(g)
  <2>1. Total(UsedSizes(f)) \in Int /\ Total(UsedSizes(m)) \in Int
    BY <1>5, <1>6, UsedSizesOf, TotalIsNumber DEF FreeAt
  <2>2. Total(UsedSizes(q)) = Total(UsedSizes(f))
    BY <1>6, <1>7, <2>1 DEF Follows, Covers
  <2>3. Total(UsedSizes(q)) = h.used_memory - b[i].size
    BY <1>5, <1>13, <2>2 DEF Ordered
  <2> QED
    BY <1>8, <1>12, <1>13, <2>3 DEF Ordered
<1>14. KeepsUsedBut(q, b, b[i].start)
  BY <1>5, <1>6, <1>7 DEF Follows, KeepsUsed, KeepsUsedBut
<1> QED
  BY <1>8, <1>9, <1>11, <1>12, <1>13, <1>14 DEF ReleaseDoes, g

KfreeDoes(h, ptr, g) ==
    /\ Sound(h) => Sound(g)
    /\ Increasing(h.blocks) => Increasing(g.blocks)
    /\ \A z \in Nat : Ordered(h) /\ InUse(h.blocks, ptr, z) => Ordered(g)
    /\ KeepsUsedBut(g.blocks, h.blocks, ptr)
    /\ At(h, ptr) = {} => g = h

\* What kfree does.
LEMMA KfreeKeeps ==
    ASSUME NEW h \in Heaps, NEW ptr \in Nat
    PROVE  kfree(h, ptr) \in Heaps /\ KfreeDoes(h, ptr, kfree(h, ptr))
<1> DEFINE g == kfree(h, ptr)
<1>1. h.blocks \in Seq(Block)
  BY DEF Heaps
<1>2. CASE At(h, ptr) = {}
  <2>1. g = h
    BY <1>2 DEF kfree
  <2>2. ASSUME NEW z \in Nat, InUse(h.blocks, ptr, z) PROVE FALSE
    BY <1>2, <2>2 DEF InUse, At
  <2> QED
    BY <2>1, <2>2 DEF KfreeDoes, KeepsUsedBut
<1>3. CASE At(h, ptr) # {}
  <2> DEFINE i == Min(At(h, ptr))
  <2>1. i \in At(h, ptr)
    <3>1. At(h, ptr) \in SUBSET Nat
      BY <1>1, LenProperties DEF At
    <3>2. \E a \in At(h, ptr) : \A c \in At(h, ptr) : a <= c
      BY <1>3, <3>1, LeastElement
    <3> QED
      BY <3>2 DEF Min
  <2>2. g = Release(h, i)
    BY <1>3 DEF kfree
  <2> HIDE DEF i
  <2>3. i \in 1 .. Len(h.blocks) /\ h.blocks[i].start = ptr
    BY <2>1 DEF At
  <2>4. g \in Heaps /\ ReleaseDoes(h, i, g)
    BY <2>2, <2>3, ReleaseKeeps
  <2> HIDE DEF g
  <2>5. ASSUME NEW z \in Nat, Ordered(h), InUse(h.blocks, ptr, z) PROVE Ordered(g)
    <3>1. PICK k \in 1 .. Len(h.blocks) : h.blocks[k].start = ptr /\ h.blocks[k].used
      BY <2>5 DEF InUse
    <3>2. k = i
      BY <1>1, <2>3, <2>5, <3>1, OneStart DEF Ordered
    <3> QED
      BY <2>4, <2>5, <3>1, <3>2 DEF ReleaseDoes
  <2> QED
    BY <1>3, <2>3, <2>4, <2>5 DEF KfreeDoes, ReleaseDoes, g
<1> QED
  BY <1>2, <1>3

\* An address is rounded up.
LEMMA RoundUpAtLeast ==
    ASSUME NEW n \in Nat
    PROVE  RoundUp(n) \in Nat /\ RoundUp(n) >= n
<1> DEFINE m == n + PAGE_SIZE - 1
           q == m \div PAGE_SIZE
           r == m % PAGE_SIZE
<1>1. PAGE_SIZE \in Nat \ {0} /\ m \in Nat
  BY HeapAssumption
<1>2. RoundUp(n) = q * PAGE_SIZE
  BY DEF RoundUp
<1> HIDE DEF m
<1>3. q \in Int /\ r \in 0 .. PAGE_SIZE - 1 /\ m = PAGE_SIZE * q + r
  BY <1>1
<1> HIDE DEF q, r
<1>4. q * PAGE_SIZE = PAGE_SIZE * q /\ PAGE_SIZE * q \in Int
  BY <1>1, <1>3
<1> DEFINE pages == PAGE_SIZE * q
<1>5. pages \in Int /\ m = pages + r /\ RoundUp(n) = pages
  BY <1>2, <1>3, <1>4
<1> HIDE DEF pages
<1> QED
  BY <1>1, <1>3, <1>5 DEF m

\* A block in use with z words has 0 words or more.
LEMMA LargeInUse ==
    ASSUME NEW blocks \in Seq(Block), NEW s, NEW z \in Nat, InUse(blocks, s, z)
    PROVE  InUse(blocks, s, 0)
<1>1. PICK i \in 1 .. Len(blocks) : blocks[i].start = s /\ blocks[i].used /\ blocks[i].size >= z
  BY DEF InUse
<1>2. blocks[i] \in Block
  OBVIOUS
<1>3. blocks[i].size >= 0
  BY <1>1, <1>2, BlockFields
<1> QED
  BY <1>1, <1>3 DEF InUse

AlignedDoes(h, got) ==
    /\ Sound(h) => Sound(got.heap)
    /\ got.ptr # NULL => got.ptr \in Nat /\ got.start \in Nat
    /\ Ordered(h) /\ Apart(got.first) /\ Apart(got.heap) =>
          /\ Ordered(got.heap)
          /\ KeepsUsed(got.heap.blocks, h.blocks)
          /\ got.ptr # NULL => /\ InUse(got.heap.blocks, got.start, 0)
                               /\ Unused(h.blocks, got.start)

(***************************************************************************)
(* What kmalloc_aligned does: between its two calls of kmalloc, the block  *)
(* it gives back is the one that it took.                                  *)
(***************************************************************************)
LEMMA AlignedKeeps ==
    ASSUME NEW h \in Heaps, NEW size \in Nat
    PROVE  kmalloc_aligned(h, size).heap \in Heaps /\ AlignedDoes(h, kmalloc_aligned(h, size))
<1> DEFINE whole == RoundUp(size) + PAGE_SIZE
           ptr == Pointer(h, whole)
           first == kmalloc(h, whole)
           again == kfree(first, ptr)
           smaller == RoundUp(size) + RoundUp(ptr) - ptr
           second == kmalloc(again, smaller)
           start == Pointer(again, smaller)
           got == kmalloc_aligned(h, size)
<1>1. RoundUp(size) \in Nat /\ whole \in Nat \ {0} /\ NULL \notin Nat
  BY RoundUpAtLeast, HeapAssumption
<1>2. first \in Heaps /\ KmallocDoes(h, whole, first, ptr)
  BY <1>1, KmallocKeeps
<1>3. CASE ptr = NULL
  <2>1. got = [first |-> h, heap |-> h, start |-> NULL, ptr |-> NULL]
    BY <1>3 DEF kmalloc_aligned
  <2> HIDE DEF got
  <2>2. got.heap = h /\ got.ptr = NULL
    BY <2>1
  <2> QED
    BY <2>2 DEF AlignedDoes, KeepsUsed, got
<1>4. CASE ptr # NULL /\ ptr = RoundUp(ptr)
  <2>1. got = [first |-> first, heap |-> first, start |-> ptr, ptr |-> ptr]
    BY <1>4 DEF kmalloc_aligned
  <2> HIDE DEF got, first, ptr, whole
  <2>2. got.heap = first /\ got.ptr = ptr /\ got.start = ptr /\ got.first = first
    BY <2>1
  <2>3. ptr \in Nat /\ InUse(first.blocks, ptr, whole)
    BY <1>2, <1>4 DEF KmallocDoes
  <2>4. InUse(first.blocks, ptr, 0)
    BY <1>1, <1>2, <2>3, LargeInUse DEF Heaps
  <2> QED
    BY <1>2, <1>4, <2>2, <2>3, <2>4 DEF KmallocDoes, AlignedDoes, Ordered, got
<1>5. CASE ptr # NULL /\ ptr # RoundUp(ptr)
  <2>1. got = [first |-> first, heap |-> second, start |-> start,
               ptr |-> IF start = NULL THEN NULL ELSE RoundUp(ptr)]
    BY <1>5 DEF kmalloc_aligned
  <2>2. ptr \in Nat
    BY <1>2, <1>5 DEF KmallocDoes
  <2>3. RoundUp(ptr) \in Nat /\ RoundUp(ptr) >= ptr
    BY <2>2, RoundUpAtLeast
  <2>4. smaller \in Nat \ {0}
    <3>1. RoundUp(ptr) # ptr
      BY <1>5
    <3> HIDE DEF ptr
    <3> QED
      BY <1>1, <2>2, <2>3, <3>1
  <2>5. again \in Heaps /\ KfreeDoes(first, ptr, again)
    BY <1>2, <2>2, KfreeKeeps
  <2>6. second \in Heaps /\ KmallocDoes(again, smaller, second, start)
    BY <2>4, <2>5, KmallocKeeps
  <2> HIDE DEF got, first, ptr, whole, again, smaller, second, start
  <2>7. /\ got.heap = second /\ got.start = start /\ got.first = first
        /\ got.ptr = IF start = NULL THEN NULL ELSE RoundUp(ptr)
    BY <2>1
  <2>8. got.ptr # NULL => start # NULL
    BY <2>7
  <2>9. Sound(h) => Sound(second)
    BY <1>2, <2>5, <2>6 DEF KmallocDoes, KfreeDoes
  <2>10. got.ptr # NULL => got.ptr \in Nat /\ start \in Nat
    BY <1>1, <2>3, <2>6, <2>7, <2>8 DEF KmallocDoes
  <2>11. ASSUME Ordered(h), Apart(first), Apart(second)
         PROVE  /\ Ordered(second)
                /\ KeepsUsed(second.blocks, h.blocks)
                /\ got.ptr # NULL => InUse(second.blocks, start, 0) /\ Unused(h.blocks, start)
    <3>1. Ordered(first) /\ KeepsUsed(first.blocks, h.blocks)
      BY <1>2, <2>11 DEF KmallocDoes
    <3>2. InUse(first.blocks, ptr, whole) /\ Unused(h.blocks, ptr)
      BY <1>2, <1>5, <2>11 DEF KmallocDoes, Ordered
    <3>3. Ordered(again) /\ KeepsUsedBut(again.blocks, first.blocks, ptr)
      BY <1>1, <2>5, <3>1, <3>2 DEF KfreeDoes
    <3>4. KeepsUsed(again.blocks, h.blocks)
      BY <3>1, <3>2, <3>3 DEF KeepsUsed, KeepsUsedBut, Unused
    <3>5. Ordered(second) /\ KeepsUsed(second.blocks, again.blocks)
      BY <2>6, <2>11, <3>3 DEF KmallocDoes
    <3>6. KeepsUsed(second.blocks, h.blocks)
      BY <3>4, <3>5 DEF KeepsUsed
    <3>7. ASSUME got.ptr # NULL
          PROVE  InUse(second.blocks, start, 0) /\ Unused(h.blocks, start)
      <4>1. start \in Nat /\ InUse(second.blocks, start, smaller) /\ Unused(again.blocks, start)
        BY <2>6, <2>8, <3>3, <3>7 DEF KmallocDoes, Ordered
      <4>2. Unused(h.blocks, start)
        BY <3>4, <4>1 DEF KeepsUsed, Unused
      <4>3. InUse(second.blocks, start, 0)
        BY <2>4, <2>6, <4>1, LargeInUse DEF Heaps
      <4> QED
        BY <4>2, <4>3
    <3> QED
      BY <3>5, <3>6, <3>7
  <2> QED
    BY <2>6, <2>7, <2>9, <2>10, <2>11 DEF AlignedDoes, got
<1> QED
  BY <1>3, <1>4, <1>5

-----------------------------------------------------------------------------
(***************************************************************************)
(* The inductive invariant: the blocks cover the heap and free ones are    *)
(* merged; and while the heap is intact, the blocks are in order, the      *)
(* count is right, and what the callers hold starts blocks in use, each    *)
(* its own, also those of the aligned pointers that are where their block  *)
(* starts.  So kfree finds the block it was given and no other.            *)
(***************************************************************************)
HeapTypeOK ==
    /\ heap \in Heaps
    /\ held \in SUBSET [ptr : Nat, size : Nat \ {0}]
    /\ dma \in SUBSET [ptr : Nat, start : Nat]
    /\ mmu_initialized \in BOOLEAN
    /\ tables \in [Directory -> Nat \cup {NULL}]
    /\ intact \in BOOLEAN

HeldInUse(blocks, some) == \A p \in some : InUse(blocks, p.ptr, p.size)
DmaInUse(blocks, some) == \A p \in some : p.ptr = p.start => InUse(blocks, p.ptr, 0)
HeldDistinct(some) == \A p, q \in some : p.ptr = q.ptr => p = q
HeldNotDma(some, other) == \A p \in some, q \in other : q.ptr = q.start => p.ptr # q.ptr

Owned(h, some, other) ==
    /\ Ordered(h)
    /\ HeldInUse(h.blocks, some)
    /\ DmaInUse(h.blocks, other)
    /\ HeldDistinct(some)
    /\ HeldNotDma(some, other)

HeapInv ==
    /\ HeapTypeOK
    /\ Sound(heap)
    /\ intact => Owned(heap, held, dma)

\* The heap of heap_init is one free block.
LEMMA HeapInitInv == HeapInit => HeapInv
<1> SUFFICES ASSUME HeapInit PROVE HeapInv
  OBVIOUS
<1> DEFINE b == [start |-> DESCRIPTOR, size |-> HEAP_SIZE - DESCRIPTOR, used |-> FALSE]
           blocks == <<b>>
<1>1. DESCRIPTOR \in Nat /\ HEAP_SIZE \in Nat
  BY HeapAssumption
<1>2. b \in Block /\ b.size = HEAP_SIZE - DESCRIPTOR /\ ~b.used
  BY <1>1 DEF Block
<1>3. heap = [blocks |-> blocks, used_memory |-> 0]
  BY DEF HeapInit, heap_init
<1> HIDE DEF b
<1>4. blocks \in Seq(Block) /\ Len(blocks) = 1 /\ blocks[1] = b
  BY <1>2
<1> HIDE DEF blocks
<1>5. heap \in Heaps /\ heap.blocks = blocks /\ heap.used_memory = 0
  BY <1>3, <1>4 DEF Heaps
<1>6. Merged(blocks)
  BY <1>4 DEF Merged
<1>7. Increasing(blocks)
  BY <1>4 DEF Increasing
<1>8. Total(Extents(blocks)) = HEAP_SIZE
  <2> DEFINE e == Extents(blocks)
             f == [i \in 0 .. 1 |-> IF i = 0 THEN 0 ELSE HEAP_SIZE]
  <2>1. e \in Seq(Int) /\ Len(e) = 1 /\ e[1] = (HEAP_SIZE - DESCRIPTOR) + DESCRIPTOR
    BY <1>2, <1>4, ExtentsOf
  <2>2. f \in [0 .. 1 -> Int] /\ f[0] = 0 /\ f[1] = HEAP_SIZE
    BY <1>1
  <2> HIDE DEF e, f
  <2>3. f[1] = f[0] + e[1]
    BY <1>1, <2>1, <2>2
  <2>4. \A i \in 1 .. 1 : f[i] = f[i - 1] + e[i]
    BY <2>3
  <2>5. IsSums(f, e)
    BY <2>1, <2>2, <2>4 DEF IsSums
  <2>6. Total(e) = f[1]
    BY <2>1, <2>5, TotalIs
  <2> QED
    BY <2>2, <2>6 DEF e
<1>9. Total(UsedSizes(blocks)) = 0
  <2> DEFINE u == UsedSizes(blocks)
             f == [i \in 0 .. 1 |-> 0]
  <2>1. u \in Seq(Int) /\ Len(u) = 1 /\ u[1] = 0
    BY <1>2, <1>4, UsedSizesOf
  <2>2. f \in [0 .. 1 -> Int] /\ f[0] = 0 /\ f[1] = 0
    OBVIOUS
  <2> HIDE DEF u, f
  <2>3. f[1] = f[0] + u[1]
    BY <2>1, <2>2
  <2>4. \A i \in 1 .. 1 : f[i] = f[i - 1] + u[i]
    BY <2>3
  <2>5. IsSums(f, u)
    BY <2>1, <2>2, <2>4 DEF IsSums
  <2>6. Total(u) = f[1]
    BY <2>1, <2>5, TotalIs
  <2> QED
    BY <2>2, <2>6 DEF u
<1>10. HeapTypeOK
  BY <1>5 DEF HeapTypeOK, HeapInit
<1>11. Owned(heap, held, dma)
  BY <1>5, <1>7, <1>9
     DEF Owned, Ordered, HeldInUse, DmaInUse, HeldDistinct, HeldNotDma, HeapInit
<1> QED
  BY <1>5, <1>6, <1>8, <1>10, <1>11 DEF HeapInv, Sound

\* What the callers hold stays theirs when the blocks in use stay in use.
LEMMA OwnedKept ==
    ASSUME NEW h, NEW g, NEW some \in SUBSET [ptr : Nat, size : Nat \ {0}],
           NEW other \in SUBSET [ptr : Nat, start : Nat],
           Owned(h, some, other), Ordered(g), KeepsUsed(g.blocks, h.blocks)
    PROVE  Owned(g, some, other)
<1>1. HeldInUse(g.blocks, some)
  BY DEF Owned, HeldInUse, KeepsUsed
<1>2. DmaInUse(g.blocks, other)
  <2> SUFFICES ASSUME NEW p \in other, p.ptr = p.start PROVE InUse(g.blocks, p.ptr, 0)
    BY DEF DmaInUse
  <2>1. InUse(h.blocks, p.ptr, 0) /\ p.ptr \in Nat /\ 0 \in Nat
    BY DEF Owned, DmaInUse
  <2> QED
    BY <2>1 DEF KeepsUsed
<1> QED
  BY <1>1, <1>2 DEF Owned

\* kmalloc keeps the invariant.
LEMMA AllocateKeeps ==
    ASSUME HeapInv, NEW size \in Sizes, Allocate(size)
    PROVE  HeapInv'
<1> DEFINE g == kmalloc(heap, size)
           p == Pointer(heap, size)
           new == [ptr |-> p, size |-> size]
<1>1. size \in Nat \ {0}
  BY HeapAssumption
<1>2. HeapTypeOK /\ Sound(heap) /\ Owned(heap, held, dma)
  BY DEF HeapInv, Allocate
<1>3. g \in Heaps /\ KmallocDoes(heap, size, g, p)
  BY <1>1, <1>2, KmallocKeeps DEF HeapTypeOK
<1> HIDE DEF g, p
<1>4. /\ heap' = g /\ dma' = dma /\ intact' = Apart(heap')
      /\ mmu_initialized' = mmu_initialized /\ tables' = tables
      /\ held' = IF p = NULL THEN held ELSE held \cup {new}
  BY DEF Allocate, paging, g, p
<1>5. held' \in SUBSET [ptr : Nat, size : Nat \ {0}]
  <2>1. CASE p = NULL
    BY <1>2, <1>4, <2>1 DEF HeapTypeOK
  <2>2. CASE p # NULL
    <3>1. p \in Nat
      BY <1>3, <2>2 DEF KmallocDoes
    <3> QED
      BY <1>1, <1>2, <1>4, <2>2, <3>1 DEF HeapTypeOK
  <2> QED
    BY <2>1, <2>2
<1>6. intact' \in BOOLEAN
  BY <1>4 DEF Apart
<1>7. HeapTypeOK'
  BY <1>2, <1>3, <1>4, <1>5, <1>6 DEF HeapTypeOK
<1>8. Sound(heap')
  BY <1>2, <1>3, <1>4 DEF KmallocDoes
<1>9. ASSUME intact' PROVE Owned(heap', held', dma')
  <2>1. Ordered(g) /\ KeepsUsed(g.blocks, heap.blocks)
    BY <1>2, <1>3, <1>4, <1>9 DEF KmallocDoes, Owned
  <2>2. Owned(g, held, dma)
    BY <1>2, <2>1, OwnedKept DEF HeapTypeOK
  <2>3. CASE p = NULL
    BY <1>4, <2>2, <2>3
  <2>4. CASE p # NULL
    <3>1. p \in Nat /\ InUse(g.blocks, p, size) /\ Unused(heap.blocks, p)
      BY <1>2, <1>3, <2>4 DEF KmallocDoes, Owned, Ordered
    <3>2. new.ptr = p /\ new.size = size
      OBVIOUS
    <3> HIDE DEF new
    <3>3. \A q \in held : q.ptr # p
      <4> SUFFICES ASSUME NEW q \in held, q.ptr = p PROVE FALSE
        OBVIOUS
      <4>1. q.size \in Nat /\ InUse(heap.blocks, q.ptr, q.size)
        BY <1>2 DEF HeapTypeOK, Owned, HeldInUse
      <4> QED
        BY <3>1, <4>1 DEF Unused
    <3>4. \A q \in dma : q.ptr = q.start => q.ptr # p
      <4> SUFFICES ASSUME NEW q \in dma, q.ptr = q.start, q.ptr = p PROVE FALSE
        OBVIOUS
      <4>1. InUse(heap.blocks, q.ptr, 0) /\ 0 \in Nat
        BY <1>2 DEF Owned, DmaInUse
      <4> QED
        BY <3>1, <4>1 DEF Unused
    <3>5. HeldInUse(g.blocks, held \cup {new})
      BY <2>2, <3>1, <3>2 DEF Owned, HeldInUse
    <3>6. HeldDistinct(held \cup {new})
      BY <2>2, <3>2, <3>3 DEF Owned, HeldDistinct
    <3>7. HeldNotDma(held \cup {new}, dma)
      BY <2>2, <3>2, <3>4 DEF Owned, HeldNotDma
    <3>8. Owned(g, held \cup {new}, dma)
      BY <2>2, <3>5, <3>6, <3>7 DEF Owned
    <3>9. held' = held \cup {new}
      BY <1>4, <2>4
    <3> QED
      BY <1>4, <3>8, <3>9
  <2> QED
    BY <2>3, <2>4
<1> QED
  BY <1>7, <1>8, <1>9 DEF HeapInv

\* kfree of a pointer of kmalloc keeps the invariant.
LEMMA DeallocateKeeps ==
    ASSUME HeapInv, NEW p \in held, Deallocate(p)
    PROVE  HeapInv'
<1> DEFINE g == kfree(heap, p.ptr)
<1>1. HeapTypeOK /\ Sound(heap) /\ Owned(heap, held, dma)
  BY DEF HeapInv, Deallocate
<1>2. p.ptr \in Nat /\ p.size \in Nat /\ heap \in Heaps
  BY <1>1 DEF HeapTypeOK
<1>3. g \in Heaps /\ KfreeDoes(heap, p.ptr, g)
  BY <1>2, KfreeKeeps
<1> HIDE DEF g
<1>4. /\ heap' = g /\ held' = held \ {p} /\ dma' = dma /\ intact' = intact
      /\ mmu_initialized' = mmu_initialized /\ tables' = tables
  BY DEF Deallocate, paging, g
<1>5. HeapTypeOK'
  BY <1>1, <1>3, <1>4 DEF HeapTypeOK
<1>6. Sound(heap')
  BY <1>1, <1>3, <1>4 DEF KfreeDoes
<1>7. Ordered(g) /\ KeepsUsedBut(g.blocks, heap.blocks, p.ptr)
  <2>1. Ordered(heap) /\ InUse(heap.blocks, p.ptr, p.size)
    BY <1>1 DEF Owned, HeldInUse
  <2> QED
    BY <1>2, <1>3, <2>1 DEF KfreeDoes
<1>8. HeldInUse(g.blocks, held \ {p})
  <2> SUFFICES ASSUME NEW q \in held \ {p} PROVE InUse(g.blocks, q.ptr, q.size)
    BY DEF HeldInUse
  <2>1. q.ptr # p.ptr /\ InUse(heap.blocks, q.ptr, q.size)
    BY <1>1 DEF Owned, HeldDistinct, HeldInUse
  <2>2. q.ptr \in Nat /\ q.size \in Nat
    BY <1>1 DEF HeapTypeOK
  <2> QED
    BY <1>7, <2>1, <2>2 DEF KeepsUsedBut
<1>9. DmaInUse(g.blocks, dma)
  <2> SUFFICES ASSUME NEW q \in dma, q.ptr = q.start PROVE InUse(g.blocks, q.ptr, 0)
    BY DEF DmaInUse
  <2>1. q.ptr # p.ptr /\ InUse(heap.blocks, q.ptr, 0)
    BY <1>1 DEF Owned, HeldNotDma, DmaInUse
  <2>2. q.ptr \in Nat /\ 0 \in Nat
    BY <1>1 DEF HeapTypeOK
  <2> QED
    BY <1>7, <2>1, <2>2 DEF KeepsUsedBut
<1>10. HeldDistinct(held \ {p}) /\ HeldNotDma(held \ {p}, dma)
  BY <1>1 DEF Owned, HeldDistinct, HeldNotDma
<1> QED
  BY <1>4, <1>5, <1>6, <1>7, <1>8, <1>9, <1>10 DEF HeapInv, Owned

\* The pages that are taken keep the invariant but for what is done with them.
LEMMA AlignedInv ==
    ASSUME HeapInv, intact, NEW size \in Nat, NEW got, got = kmalloc_aligned(heap, size)
    PROVE  /\ got.heap \in Heaps /\ Sound(got.heap)
           /\ got.ptr # NULL => got.ptr \in Nat /\ got.start \in Nat
           /\ Apart(got.first) /\ Apart(got.heap) =>
                 /\ Owned(got.heap, held, dma)
                 /\ got.ptr # NULL => /\ InUse(got.heap.blocks, got.start, 0)
                                      /\ Unused(heap.blocks, got.start)
<1>1. HeapTypeOK /\ Sound(heap) /\ Owned(heap, held, dma)
  BY DEF HeapInv
<1>2. got.heap \in Heaps /\ AlignedDoes(heap, got)
  BY <1>1, AlignedKeeps DEF HeapTypeOK
<1>3. ASSUME Apart(got.first), Apart(got.heap)
      PROVE  /\ Owned(got.heap, held, dma)
             /\ got.ptr # NULL => /\ InUse(got.heap.blocks, got.start, 0)
                                  /\ Unused(heap.blocks, got.start)
  <2>1. Ordered(got.heap) /\ KeepsUsed(got.heap.blocks, heap.blocks)
    BY <1>1, <1>2, <1>3 DEF AlignedDoes, Owned
  <2>2. Owned(got.heap, held, dma)
    BY <1>1, <2>1, OwnedKept DEF HeapTypeOK
  <2> QED
    BY <1>1, <1>2, <1>3, <2>2 DEF AlignedDoes, Owned
<1> QED
  BY <1>1, <1>2, <1>3 DEF AlignedDoes

\* memory_alloc_dma keeps the invariant.
LEMMA AllocDmaKeeps ==
    ASSUME HeapInv, NEW size \in Sizes, memory_alloc_dma(size)
    PROVE  HeapInv'
<1> DEFINE got == kmalloc_aligned(heap, size)
           new == [ptr |-> got.ptr, start |-> got.start]
<1>1. HeapTypeOK /\ intact /\ size \in Nat
  BY HeapAssumption DEF HeapInv, memory_alloc_dma
<1>2. /\ heap' = got.heap /\ held' = held /\ intact' = (Apart(got.first) /\ Apart(got.heap))
      /\ mmu_initialized' = mmu_initialized /\ tables' = tables
      /\ dma' = IF got.ptr = NULL THEN dma ELSE dma \cup {new}
  BY DEF memory_alloc_dma, paging
<1>3. /\ got.heap \in Heaps /\ Sound(got.heap)
      /\ got.ptr # NULL => got.ptr \in Nat /\ got.start \in Nat
      /\ Apart(got.first) /\ Apart(got.heap) =>
            /\ Owned(got.heap, held, dma)
            /\ got.ptr # NULL => /\ InUse(got.heap.blocks, got.start, 0)
                                 /\ Unused(heap.blocks, got.start)
  BY <1>1, AlignedInv
<1> HIDE DEF got
<1>4. dma' \in SUBSET [ptr : Nat, start : Nat]
  <2>1. CASE got.ptr = NULL
    BY <1>1, <1>2, <2>1 DEF HeapTypeOK
  <2>2. CASE got.ptr # NULL
    BY <1>1, <1>2, <1>3, <2>2 DEF HeapTypeOK
  <2> QED
    BY <2>1, <2>2
<1>5. intact' \in BOOLEAN
  BY <1>2 DEF Apart
<1>6. HeapTypeOK'
  BY <1>1, <1>2, <1>3, <1>4, <1>5 DEF HeapTypeOK
<1>7. ASSUME intact' PROVE Owned(heap', held', dma')
  <2>1. /\ Owned(got.heap, held, dma)
        /\ got.ptr # NULL => /\ InUse(got.heap.blocks, got.start, 0)
                             /\ Unused(heap.blocks, got.start)
    BY <1>2, <1>3, <1>7
  <2>2. CASE got.ptr = NULL
    BY <1>2, <2>1, <2>2
  <2>3. CASE got.ptr # NULL
    <3>1. new.ptr = got.ptr /\ new.start = got.start
      OBVIOUS
    <3> HIDE DEF new
    <3>2. DmaInUse(got.heap.blocks, dma \cup {new})
      BY <2>1, <2>3, <3>1 DEF Owned, DmaInUse
    <3>3. HeldNotDma(held, dma \cup {new})
      <4> SUFFICES ASSUME NEW p \in held, new.ptr = new.start, p.ptr = new.ptr PROVE FALSE
        BY <2>1 DEF Owned, HeldNotDma
      <4>1. p.size \in Nat /\ InUse(heap.blocks, p.ptr, p.size)
        BY <1>1 DEF HeapInv, HeapTypeOK, Owned, HeldInUse
      <4>2. p.ptr = got.start
        BY <3>1
      <4> QED
        BY <2>1, <2>3, <4>1, <4>2 DEF Unused
    <3>4. Owned(got.heap, held, dma \cup {new})
      BY <2>1, <3>2, <3>3 DEF Owned
    <3>5. dma' = dma \cup {new}
      BY <1>2, <2>3
    <3> QED
      BY <1>2, <3>4, <3>5
  <2> QED
    BY <2>2, <2>3
<1> QED
  BY <1>2, <1>3, <1>6, <1>7 DEF HeapInv

\* memory_free_dma keeps the invariant.
LEMMA FreeDmaKeeps ==
    ASSUME HeapInv, NEW p \in dma, memory_free_dma(p)
    PROVE  HeapInv'
<1> DEFINE g == kfree(heap, p.ptr)
<1>1. HeapTypeOK /\ Sound(heap) /\ Owned(heap, held, dma)
  BY DEF HeapInv, memory_free_dma
<1>2. p.ptr \in Nat /\ p.start \in Nat /\ heap \in Heaps /\ DOMAIN p = {"ptr", "start"}
  BY <1>1 DEF HeapTypeOK
<1>3. g \in Heaps /\ KfreeDoes(heap, p.ptr, g)
  BY <1>2, KfreeKeeps
<1> HIDE DEF g
<1>4. /\ heap' = g /\ dma' = dma \ {p} /\ held' = held
      /\ intact' = (p.ptr = p.start \/ At(heap, p.ptr) = {})
      /\ mmu_initialized' = mmu_initialized /\ tables' = tables
  BY DEF memory_free_dma, paging, g
<1>5. HeapTypeOK'
  BY <1>1, <1>3, <1>4 DEF HeapTypeOK
<1>6. Sound(heap')
  BY <1>1, <1>3, <1>4 DEF KfreeDoes
<1>7. ASSUME intact' PROVE Owned(heap', held', dma')
  <2>1. CASE At(heap, p.ptr) = {}
    <3>1. heap' = heap
      BY <1>3, <1>4, <2>1 DEF KfreeDoes
    <3>2. Owned(heap, held, dma \ {p})
      BY <1>1 DEF Owned, DmaInUse, HeldNotDma
    <3> QED
      BY <1>4, <3>1, <3>2
  <2>2. CASE p.ptr = p.start
    <3>1. InUse(heap.blocks, p.ptr, 0) /\ Ordered(heap) /\ 0 \in Nat
      BY <1>1, <2>2 DEF Owned, DmaInUse
    <3>2. Ordered(g) /\ KeepsUsedBut(g.blocks, heap.blocks, p.ptr)
      BY <1>3, <3>1 DEF KfreeDoes
    <3>3. HeldInUse(g.blocks, held)
      <4> SUFFICES ASSUME NEW q \in held PROVE InUse(g.blocks, q.ptr, q.size)
        BY DEF HeldInUse
      <4>1. q.ptr # p.ptr /\ InUse(heap.blocks, q.ptr, q.size)
        BY <1>1, <2>2 DEF Owned, HeldNotDma, HeldInUse
      <4>2. q.ptr \in Nat /\ q.size \in Nat
        BY <1>1 DEF HeapTypeOK
      <4> QED
        BY <3>2, <4>1, <4>2 DEF KeepsUsedBut
    <3>4. DmaInUse(g.blocks, dma \ {p})
      <4> SUFFICES ASSUME NEW q \in dma \ {p}, q.ptr = q.start PROVE InUse(g.blocks, q.ptr, 0)
        BY DEF DmaInUse
      <4>1. q \in [ptr : Nat, start : Nat] /\ p \in [ptr : Nat, start : Nat]
        BY <1>1 DEF HeapTypeOK
      <4>2. q.ptr # p.ptr
        BY <2>2, <4>1
      <4>3. InUse(heap.blocks, q.ptr, 0) /\ q.ptr \in Nat
        BY <1>1, <4>1 DEF Owned, DmaInUse
      <4> QED
        BY <3>1, <3>2, <4>2, <4>3 DEF KeepsUsedBut
    <3>5. HeldDistinct(held) /\ HeldNotDma(held, dma \ {p})
      BY <1>1 DEF Owned, HeldNotDma
    <3> QED
      BY <1>4, <3>2, <3>3, <3>4, <3>5 DEF Owned
  <2> QED
    BY <1>4, <1>7, <2>1, <2>2
<1> QED
  BY <1>5, <1>6, <1>7 DEF HeapInv

\* A write keeps the list, or the model stops.
LEMMA WriteKeeps ==
    ASSUME HeapInv, NEW ptr, NEW size, Write(ptr, size)
    PROVE  HeapInv'
<1>1. /\ heap' = heap /\ held' = held /\ dma' = dma /\ intact /\ intact' \in BOOLEAN
      /\ mmu_initialized' = mmu_initialized /\ tables' = tables
  BY DEF Write, paging, Overwrites
<1> QED
  BY <1>1 DEF HeapInv, HeapTypeOK

\* A page that vmm_init or page_map takes.
LEMMA PageKeeps ==
    ASSUME HeapInv, intact, NEW got, got = kmalloc_aligned(heap, PAGE_SIZE), TakePage(got)
    PROVE  /\ heap' \in Heaps /\ Sound(heap') /\ intact' \in BOOLEAN
           /\ held' = held /\ dma' = dma
           /\ got.ptr \in Nat \cup {NULL}
           /\ intact' => Owned(heap', held', dma')
<1>1. PAGE_SIZE \in Nat
  BY HeapAssumption
<1>2. /\ got.heap \in Heaps /\ Sound(got.heap)
      /\ got.ptr # NULL => got.ptr \in Nat /\ got.start \in Nat
      /\ Apart(got.first) /\ Apart(got.heap) => Owned(got.heap, held, dma)
  BY <1>1, AlignedInv
<1>3. heap' = got.heap /\ held' = held /\ dma' = dma
  BY DEF TakePage
<1>4. intact' \in BOOLEAN
  BY DEF TakePage, Apart, Overwrites
<1>5. ASSUME intact' PROVE Owned(heap', held', dma')
  <2>1. Apart(got.first) /\ Apart(got.heap)
    BY <1>5 DEF TakePage
  <2> QED
    BY <1>2, <1>3, <2>1
<1> QED
  BY <1>2, <1>3, <1>4, <1>5

\* vmm_init keeps the invariant.
LEMMA VmmInitKeeps ==
    ASSUME HeapInv, vmm_init
    PROVE  HeapInv'
<1> DEFINE got == kmalloc_aligned(heap, PAGE_SIZE)
<1>1. intact /\ TakePage(got) /\ mmu_initialized' = (got.ptr # NULL) /\ tables' = tables
  BY DEF vmm_init
<1>2. /\ heap' \in Heaps /\ Sound(heap') /\ intact' \in BOOLEAN
      /\ held' = held /\ dma' = dma
      /\ intact' => Owned(heap', held', dma')
  BY <1>1, PageKeeps
<1> HIDE DEF got
<1>3. HeapTypeOK'
  BY <1>1, <1>2 DEF HeapInv, HeapTypeOK
<1> QED
  BY <1>2, <1>3 DEF HeapInv

\* page_map keeps the invariant.
LEMMA PageMapKeeps ==
    ASSUME HeapInv, NEW i \in Directory, page_map(i)
    PROVE  HeapInv'
<1> DEFINE got == kmalloc_aligned(heap, PAGE_SIZE)
<1>1. /\ intact /\ TakePage(got) /\ tables' = [tables EXCEPT ![i] = got.ptr]
      /\ mmu_initialized' = mmu_initialized
  BY DEF page_map
<1>2. /\ heap' \in Heaps /\ Sound(heap') /\ intact' \in BOOLEAN
      /\ held' = held /\ dma' = dma
      /\ got.ptr \in Nat \cup {NULL}
      /\ intact' => Owned(heap', held', dma')
  BY <1>1, PageKeeps
<1> HIDE DEF got
<1>3. HeapTypeOK'
  BY <1>1, <1>2 DEF HeapInv, HeapTypeOK
<1> QED
  BY <1>2, <1>3 DEF HeapInv

\* The invariant of the heap is inductive.
LEMMA HeapInvariant == HeapSpec => []HeapInv
<1>1. HeapInit => HeapInv
  BY HeapInitInv
<1>2. HeapInv /\ [HeapNext]_heapVars => HeapInv'
  <2> SUFFICES ASSUME HeapInv, [HeapNext]_heapVars PROVE HeapInv'
    OBVIOUS
  <2>1. ASSUME NEW size \in Sizes, Allocate(size) \/ memory_alloc_dma(size) PROVE HeapInv'
    BY <2>1, AllocateKeeps, AllocDmaKeeps
  <2>2. ASSUME NEW p \in held, Deallocate(p) \/ Write(p.ptr, p.size) PROVE HeapInv'
    BY <2>2, DeallocateKeeps, WriteKeeps
  <2>3. ASSUME NEW p \in dma, memory_free_dma(p) \/ Write(p.ptr, 1) PROVE HeapInv'
    BY <2>3, FreeDmaKeeps, WriteKeeps
  <2>4. CASE vmm_init
    BY <2>4, VmmInitKeeps
  <2>5. ASSUME NEW i \in Directory, page_map(i) PROVE HeapInv'
    BY <2>5, PageMapKeeps
  <2>6. CASE UNCHANGED heapVars
    BY <2>6 DEF heapVars, HeapInv, HeapTypeOK
  <2> QED
    BY <2>1, <2>2, <2>3, <2>4, <2>5, <2>6 DEF HeapNext
<1> QED
  BY <1>1, <1>2, PTL DEF HeapSpec

(***************************************************************************)
(* kmalloc and kfree lose no word of the heap and count none twice,        *)
(* whatever is split, merged, given back or refused.                       *)
(***************************************************************************)
THEOREM HeapSizesAddUp == HeapSpec => []SizesAddUp
<1>1. HeapInv => SizesAddUp
  BY DEF HeapInv, Sound, Owned, Ordered, SizesAddUp
<1> QED
  BY <1>1, HeapInvariant, PTL

(***************************************************************************)
(* kfree leaves no two free blocks next to each other, whatever the order  *)
(* of the calls.                                                           *)
(***************************************************************************)
THEOREM HeapFreeAreMerged == HeapSpec => []FreeAreMerged
<1>1. HeapInv => FreeAreMerged
  BY DEF HeapInv, Sound, Merged, FreeAreMerged
<1> QED
  BY <1>1, HeapInvariant, PTL

-----------------------------------------------------------------------------
(***************************************************************************)
(* Pci.  The loops visit the functions in the order of their buses,        *)
(* devices and numbers.                                                    *)
(***************************************************************************)
Precedes(g, h) ==
    \/ g[1] < h[1]
    \/ g[1] = h[1] /\ g[2] < h[2]
    \/ g[1] = h[1] /\ g[2] = h[2] /\ g[3] < h[3]

Here(c) == <<c.bus, c.device, c.function>>

\* The functions before the one at c, if the first bus is 0.
Passed(c) == (c.bus * PCI_MAX_DEVICES + c.device) * PCI_MAX_FUNCTIONS + c.function

Cursor == [host : 0 .. PCI_MAX_FUNCTIONS, bus : 0 .. PCI_MAX_BUSES,
           device : 0 .. PCI_MAX_DEVICES - 1, function : Function]

Kind == {"io", "memory", "low", "high"}

PciType ==
    /\ present \subseteq Functions
    /\ scan \in Cursor
    /\ devices \in Seq([at : Functions, bar : [Register -> Kind]])
    /\ pci_initialized \in BOOLEAN
    /\ pci_initialized => scan.host = PCI_MAX_FUNCTIONS
    /\ scan.host = PCI_MAX_FUNCTIONS /\ ~pci_initialized => devices = <<>>

Recorded(g) == \E i \in 1 .. Len(devices) : devices[i].at = g

\* The registers of a function are the firmware's until it is recorded.
PciBars ==
    /\ \E layout \in Layouts :
          /\ DOMAIN bar = Functions
          /\ \A g \in Functions : bar[g] = layout \/ (bar[g] = WrittenBack(layout) /\ Recorded(g))
    /\ \A i \in 1 .. Len(devices) :
          \/ devices[i].bar \in Layouts
          \/ \E j \in 1 .. i - 1 : devices[j].at = devices[i].at

\* What the first host controller's buses have given so far.
FirstPass ==
    /\ Len(devices) <= Passed(scan)
    /\ \A g \in Answering : Precedes(g, Here(scan)) => Recorded(g)
    /\ \A i \in 1 .. Len(devices) : Precedes(devices[i].at, Here(scan))
    /\ \A i, j \in 1 .. Len(devices) : i < j => Precedes(devices[i].at, devices[j].at)

PciInv ==
    /\ PciType
    /\ PciBars
    /\ \A i \in 1 .. Len(devices) : devices[i].at \in Answering
    /\ 0 \in Hosts /\ scan.host = 0 => FirstPass
    /\ 0 \in Hosts /\ (scan.host \in 1 .. PCI_MAX_FUNCTIONS - 1 \/ pci_initialized) =>
          \A g \in Answering : Recorded(g)
    /\ Single => \A i, j \in 1 .. Len(devices) : i < j => Precedes(devices[i].at, devices[j].at)

\* The functions before the next are those before this one, and this one.
LEMMA AdvancePasses ==
    ASSUME NEW c \in Cursor, c.bus < PCI_MAX_BUSES
    PROVE  /\ Advance(c) \in Cursor
           /\ Advance(c).host = c.host
           /\ Here(c) \in Functions
           /\ \A g \in Functions : Precedes(g, Here(Advance(c))) <=> Precedes(g, Here(c)) \/ g = Here(c)
<1>1. /\ c.host \in 0 .. PCI_MAX_FUNCTIONS /\ c.bus \in 0 .. PCI_MAX_BUSES - 1
      /\ c.device \in 0 .. PCI_MAX_DEVICES - 1 /\ c.function \in Function
  BY PciAssumption DEF Cursor
<1>2. Here(c) \in Functions
  BY <1>1 DEF Here, Functions
<1>3. CASE c.function + 1 < PCI_MAX_FUNCTIONS
  <2> DEFINE a == Position(c.host, c.bus, c.device, c.function + 1)
  <2>1. Advance(c) = a
    BY <1>3 DEF Advance
  <2>2. /\ a \in Cursor /\ a.host = c.host /\ a.bus = c.bus /\ a.device = c.device
        /\ a.function = c.function + 1
    BY <1>1, <1>3, PciAssumption DEF Cursor, Function, Position
  <2> HIDE DEF a
  <2>3. ASSUME NEW g \in Functions
        PROVE  Precedes(g, Here(a)) <=> Precedes(g, Here(c)) \/ g = Here(c)
    BY <1>1, <2>2 DEF Precedes, Here, Functions, Function
  <2> QED
    BY <1>2, <2>1, <2>2, <2>3
<1>4. CASE ~(c.function + 1 < PCI_MAX_FUNCTIONS) /\ c.device + 1 < PCI_MAX_DEVICES
  <2> DEFINE a == Position(c.host, c.bus, c.device + 1, 0)
  <2>1. Advance(c) = a
    BY <1>4 DEF Advance
  <2>2. /\ a \in Cursor /\ a.host = c.host /\ a.bus = c.bus /\ a.device = c.device + 1
        /\ a.function = 0
    <3>1. c.bus \in 0 .. PCI_MAX_BUSES /\ c.device + 1 \in 0 .. PCI_MAX_DEVICES - 1 /\ 0 \in Function
      BY <1>1, <1>4, PciAssumption DEF Function
    <3> QED
      BY <1>1, <3>1 DEF Cursor, Position
  <2> HIDE DEF a
  <2>3. c.function = PCI_MAX_FUNCTIONS - 1
    BY <1>1, <1>4, PciAssumption DEF Function
  <2>4. ASSUME NEW g \in Functions
        PROVE  Precedes(g, Here(a)) <=> Precedes(g, Here(c)) \/ g = Here(c)
    BY <1>1, <2>2, <2>3, PciAssumption DEF Precedes, Here, Functions, Function
  <2> QED
    BY <1>2, <2>1, <2>2, <2>4
<1>5. CASE ~(c.function + 1 < PCI_MAX_FUNCTIONS) /\ ~(c.device + 1 < PCI_MAX_DEVICES)
  <2> DEFINE a == Position(c.host, c.bus + 1, 0, 0)
  <2>1. Advance(c) = a
    BY <1>5 DEF Advance
  <2>2. /\ a \in Cursor /\ a.host = c.host /\ a.bus = c.bus + 1 /\ a.device = 0
        /\ a.function = 0
    <3>1. c.bus + 1 \in 0 .. PCI_MAX_BUSES /\ 0 \in 0 .. PCI_MAX_DEVICES - 1 /\ 0 \in Function
      BY <1>1, PciAssumption DEF Function
    <3> QED
      BY <1>1, <3>1 DEF Cursor, Position
  <2> HIDE DEF a
  <2>3. c.function = PCI_MAX_FUNCTIONS - 1 /\ c.device = PCI_MAX_DEVICES - 1
    BY <1>1, <1>5, PciAssumption DEF Function
  <2>4. ASSUME NEW g \in Functions
        PROVE  Precedes(g, Here(a)) <=> Precedes(g, Here(c)) \/ g = Here(c)
    BY <1>1, <2>2, <2>3, PciAssumption DEF Precedes, Here, Functions, Function
  <2> QED
    BY <1>2, <2>1, <2>2, <2>4
<1> QED
  BY <1>3, <1>4, <1>5

\* Products of natural numbers.
LEMMA TimesNat == \A m, n \in Nat : m * n \in Nat /\ (m + 1) * n = m * n + n
OBVIOUS

\* A product does not shrink when a factor grows.
LEMMA TimesGrows ==
    ASSUME NEW m \in Nat, NEW n \in Nat, NEW k \in Nat, m <= n
    PROVE  m * k <= n * k
<1>1. PICK d \in Nat : n = m + d
  <2>1. n - m \in Nat /\ n = m + (n - m)
    OBVIOUS
  <2> QED
    BY <2>1
<1>2. n * k = m * k + d * k /\ m * k \in Nat /\ d * k \in Nat
  BY <1>1
<1> QED
  BY <1>2

\* A step passes at least one more, and before the last bus is done fewer
\* than the entries of the table have been passed.
LEMMA AdvanceCounts ==
    ASSUME NEW c \in Cursor, c.bus < PCI_MAX_BUSES
    PROVE  /\ Passed(c) \in Nat /\ Passed(c) < MAX_ENTRIES
           /\ Passed(Advance(c)) \in Nat /\ Passed(c) + 1 <= Passed(Advance(c))
<1>1. /\ c.host \in 0 .. PCI_MAX_FUNCTIONS /\ c.bus \in 0 .. PCI_MAX_BUSES - 1
      /\ c.device \in 0 .. PCI_MAX_DEVICES - 1 /\ c.function \in Function
  BY PciAssumption DEF Cursor
<1> DEFINE D == PCI_MAX_DEVICES
           F == PCI_MAX_FUNCTIONS
           b == c.bus * D
           p == (b + c.device) * F
<1>2. /\ D \in Nat /\ F \in Nat /\ D >= 1 /\ F >= 1 /\ c.bus \in Nat /\ c.device \in Nat
      /\ c.function \in Nat /\ c.device + 1 <= D /\ c.function + 1 <= F
      /\ c.bus + 1 <= PCI_MAX_BUSES /\ PCI_MAX_BUSES \in Nat
  BY <1>1, PciAssumption DEF Function
<1>3. Passed(c) = p + c.function /\ MAX_ENTRIES = PCI_MAX_BUSES * D * F
  BY DEF Passed, MAX_ENTRIES
<1> HIDE DEF D, F
<1>4. b \in Nat /\ (c.bus + 1) * D = b + D
  BY <1>2, TimesNat
<1> HIDE DEF b
<1>5. b + D \in Nat /\ b + c.device \in Nat /\ b + c.device + 1 \in Nat /\ b + c.device + 1 <= b + D
  BY <1>2, <1>4
<1>6. p \in Nat /\ (b + c.device + 1) * F = p + F
  BY <1>2, <1>5, TimesNat
<1> HIDE DEF p
<1>7. p + F <= (b + D) * F /\ (b + D) * F \in Nat
  BY <1>2, <1>5, <1>6, TimesGrows, TimesNat
<1>8. b + D <= PCI_MAX_BUSES * D /\ PCI_MAX_BUSES * D \in Nat
  <2>1. c.bus + 1 \in Nat
    BY <1>2
  <2> QED
    BY <1>2, <1>4, <2>1, TimesGrows, TimesNat
<1>9. (b + D) * F <= PCI_MAX_BUSES * D * F /\ PCI_MAX_BUSES * D * F \in Nat
  BY <1>2, <1>5, <1>8, TimesGrows, TimesNat
<1>10. Passed(c) \in Nat /\ Passed(c) < MAX_ENTRIES
  BY <1>2, <1>3, <1>6, <1>7, <1>9
<1>11. Passed(Advance(c)) \in Nat /\ Passed(c) + 1 <= Passed(Advance(c))
  <2>1. CASE c.function + 1 < F
    <3>1. Passed(Advance(c)) = p + (c.function + 1)
      <4>1. Advance(c) = Position(c.host, c.bus, c.device, c.function + 1)
        BY <2>1 DEF Advance, F
      <4>2. /\ Advance(c).bus = c.bus /\ Advance(c).device = c.device
            /\ Advance(c).function = c.function + 1
        BY <4>1 DEF Position
      <4> QED
        BY <4>2 DEF Passed, p, b, F, D
    <3> QED
      BY <1>2, <1>3, <1>6, <3>1
  <2>2. CASE ~(c.function + 1 < F) /\ c.device + 1 < D
    <3>1. Passed(Advance(c)) = (b + (c.device + 1)) * F + 0
      <4>1. Advance(c) = Position(c.host, c.bus, c.device + 1, 0)
        BY <2>2 DEF Advance, F, D
      <4>2. /\ Advance(c).bus = c.bus /\ Advance(c).device = c.device + 1
            /\ Advance(c).function = 0
        BY <4>1 DEF Position
      <4> QED
        BY <4>2 DEF Passed, b, F, D
    <3>2. b + (c.device + 1) = b + c.device + 1
      BY <1>2, <1>4
    <3> QED
      BY <1>2, <1>3, <1>6, <3>1, <3>2
  <2>3. CASE ~(c.function + 1 < F) /\ ~(c.device + 1 < D)
    <3>1. Passed(Advance(c)) = ((c.bus + 1) * D + 0) * F + 0
      <4>1. Advance(c) = Position(c.host, c.bus + 1, 0, 0)
        BY <2>3 DEF Advance, F, D
      <4>2. /\ Advance(c).bus = c.bus + 1 /\ Advance(c).device = 0
            /\ Advance(c).function = 0
        BY <4>1 DEF Position
      <4> QED
        BY <4>2 DEF Passed, F, D
    <3>2. (c.bus + 1) * D + 0 = b + D
      BY <1>2, <1>4
    <3> QED
      BY <1>2, <1>3, <1>6, <1>7, <3>1, <3>2
  <2> QED
    BY <2>1, <2>2, <2>3
<1> QED
  BY <1>10, <1>11

\* The loop steps over the register after one with a lower half that is not
\* itself stepped over.
LEMMA UpperIs ==
    ASSUME NEW b
    PROVE  /\ Upper(b)[1] = FALSE
           /\ Upper(b)[2] = (b[1] = "low")
           /\ Upper(b)[3] = (b[2] = "low" /\ b[1] # "low")
<1> DEFINE E(u) == [r \in Register |-> r > 1 /\ b[r - 1] = "low" /\ ~u[r - 1]]
           w == [r \in Register |-> IF r = 1 THEN FALSE
                                    ELSE IF r = 2 THEN b[1] = "low" ELSE b[2] = "low" /\ b[1] # "low"]
<1>1. /\ 1 \in Register /\ 2 \in Register /\ 3 \in Register
      /\ ~(1 > 1) /\ 2 > 1 /\ 3 > 1 /\ 2 - 1 = 1 /\ 3 - 1 = 2 /\ 2 # 1 /\ 3 # 1 /\ 3 # 2
      /\ \A r \in Register : r = 1 \/ r = 2 \/ r = 3
  BY DEF Register
<1>2. w[1] = FALSE /\ w[2] = (b[1] = "low") /\ w[3] = (b[2] = "low" /\ b[1] # "low")
  BY <1>1, Zenon
<1>3. ASSUME NEW u
      PROVE  /\ E(u)[1] = FALSE
             /\ E(u)[2] = (b[1] = "low" /\ ~u[1])
             /\ E(u)[3] = (b[2] = "low" /\ ~u[2])
  <2>1. E(u)[1] = (1 > 1 /\ b[1 - 1] = "low" /\ ~u[1 - 1])
    BY <1>1, Zenon
  <2>2. E(u)[2] = (2 > 1 /\ b[2 - 1] = "low" /\ ~u[2 - 1])
    BY <1>1, Zenon
  <2>3. E(u)[3] = (3 > 1 /\ b[3 - 1] = "low" /\ ~u[3 - 1])
    BY <1>1, Zenon
  <2> HIDE DEF E
  <2> QED
    BY <1>1, <2>1, <2>2, <2>3, Zenon
<1>4. w = E(w)
  <2>1. w = [r \in Register |-> w[r]] /\ E(w) = [r \in Register |-> E(w)[r]]
    OBVIOUS
  <2> HIDE DEF E, w
  <2>2. ASSUME NEW r \in Register PROVE w[r] = E(w)[r]
    <3>1. CASE r = 1
      BY <1>2, <1>3, <3>1, Zenon
    <3>2. CASE r = 2
      BY <1>2, <1>3, <3>2, Zenon
    <3>3. CASE r = 3
      BY <1>2, <1>3, <3>3, Zenon
    <3> QED
      BY <1>1, <3>1, <3>2, <3>3, Zenon
  <2> QED
    BY <2>1, <2>2, Zenon
<1>5. Upper(b) = CHOOSE u : u = E(u)
  BY DEF Upper
<1> HIDE DEF E, w
<1>6. \E u : u = E(u)
  BY <1>4
<1> DEFINE v == CHOOSE u : u = E(u)
<1>7. v = E(v)
  BY <1>6, Zenon
<1> HIDE DEF v
<1>8. v[1] = FALSE /\ v[2] = (b[1] = "low" /\ ~v[1]) /\ v[3] = (b[2] = "low" /\ ~v[2])
  <2>1. /\ E(v)[1] = FALSE
        /\ E(v)[2] = (b[1] = "low" /\ ~v[1])
        /\ E(v)[3] = (b[2] = "low" /\ ~v[2])
    BY <1>3, Zenon
  <2>2. v[1] = E(v)[1] /\ v[2] = E(v)[2] /\ v[3] = E(v)[3]
    BY <1>7
  <2> QED
    BY <2>1, <2>2, Zenon
<1>9. v[2] = (b[1] = "low")
  BY <1>8, Zenon
<1>10. v[3] = (b[2] = "low" /\ b[1] # "low")
  BY <1>8, <1>9, Zenon
<1> QED
  BY <1>5, <1>8, <1>9, <1>10, Zenon DEF v

\* Writing back changes only upper halves, and a second time nothing.
LEMMA BackOnce ==
    ASSUME NEW layout \in Layouts
    PROVE  /\ layout \in [Register -> Kind]
           /\ WrittenBack(layout) \in [Register -> Kind]
           /\ WrittenBack(WrittenBack(layout)) = WrittenBack(layout)
           /\ \A r \in Register : layout[r] # "high" => WrittenBack(layout)[r] = layout[r]
<1>1. /\ 1 \in Register /\ 2 \in Register /\ 3 \in Register
      /\ \A r \in Register : r = 1 \/ r = 2 \/ r = 3
  BY DEF Register
<1>2. ASSUME NEW b
      PROVE  /\ WrittenBack(b) = [r \in Register |-> WrittenBack(b)[r]]
             /\ WrittenBack(b)[1] = b[1]
             /\ WrittenBack(b)[2] = IF b[1] = "low" THEN b[1] ELSE b[2]
             /\ WrittenBack(b)[3] = IF b[2] = "low" /\ b[1] # "low" THEN b[2] ELSE b[3]
  <2> DEFINE u == Upper(b)
  <2>1. u[1] = FALSE /\ u[2] = (b[1] = "low") /\ u[3] = (b[2] = "low" /\ b[1] # "low")
    BY UpperIs
  <2>2. WrittenBack(b) = [r \in Register |-> IF u[r] THEN b[r - 1] ELSE b[r]]
    BY DEF WrittenBack
  <2> HIDE DEF u
  <2>3. ASSUME NEW r \in Register PROVE WrittenBack(b)[r] = IF u[r] THEN b[r - 1] ELSE b[r]
    BY <2>2, Zenon
  <2>4. 1 \in Register /\ 2 \in Register /\ 3 \in Register
    BY <1>1
  <2>5. WrittenBack(b)[1] = IF u[1] THEN b[1 - 1] ELSE b[1]
    BY <2>3, <2>4, Zenon
  <2>6. WrittenBack(b)[2] = IF u[2] THEN b[2 - 1] ELSE b[2]
    BY <2>3, <2>4, Zenon
  <2>7. WrittenBack(b)[3] = IF u[3] THEN b[3 - 1] ELSE b[3]
    BY <2>3, <2>4, Zenon
  <2>8. 2 - 1 = 1 /\ 3 - 1 = 2
    OBVIOUS
  <2>9. WrittenBack(b)[1] = b[1]
    BY <2>1, <2>5, Zenon
  <2>10. WrittenBack(b)[2] = IF b[1] = "low" THEN b[1] ELSE b[2]
    BY <2>1, <2>6, <2>8, Zenon
  <2>11. WrittenBack(b)[3] = IF b[2] = "low" /\ b[1] # "low" THEN b[2] ELSE b[3]
    BY <2>1, <2>7, <2>8, Zenon
  <2>12. WrittenBack(b) = [r \in Register |-> WrittenBack(b)[r]]
    BY <2>2
  <2> QED
    BY <2>9, <2>10, <2>11, <2>12
<1> DEFINE back == WrittenBack(layout)
           again == WrittenBack(back)
<1>3. /\ back = [r \in Register |-> back[r]]
      /\ back[1] = layout[1]
      /\ back[2] = IF layout[1] = "low" THEN layout[1] ELSE layout[2]
      /\ back[3] = IF layout[2] = "low" /\ layout[1] # "low" THEN layout[2] ELSE layout[3]
  BY <1>2
<1>4. /\ again = [r \in Register |-> again[r]]
      /\ again[1] = back[1]
      /\ again[2] = IF back[1] = "low" THEN back[1] ELSE back[2]
      /\ again[3] = IF back[2] = "low" /\ back[1] # "low" THEN back[2] ELSE back[3]
  BY <1>2
<1> HIDE DEF back, again
<1>5. \/ layout[1] = "io" /\ layout[2] = "memory" /\ layout[3] = "memory"
      \/ layout[1] = "low" /\ layout[2] = "high" /\ layout[3] = "io"
      \/ layout[1] = "memory" /\ layout[2] = "low" /\ layout[3] = "high"
  BY DEF Layouts
<1>6. layout \in [Register -> Kind]
  BY DEF Layouts, Kind, Register
<1>7. /\ again[1] = back[1] /\ again[2] = back[2] /\ again[3] = back[3]
      /\ back[1] \in Kind /\ back[2] \in Kind /\ back[3] \in Kind
      /\ layout[1] # "high" => back[1] = layout[1]
      /\ layout[2] # "high" => back[2] = layout[2]
      /\ layout[3] # "high" => back[3] = layout[3]
  BY <1>3, <1>4, <1>5 DEF Kind
<1>8. \A r \in Register : /\ again[r] = back[r] /\ back[r] \in Kind
                          /\ layout[r] # "high" => back[r] = layout[r]
  BY <1>1, <1>7, Zenon
<1>9. again = back /\ back \in [Register -> Kind]
  BY <1>3, <1>4, <1>8
<1> QED
  BY <1>6, <1>8, <1>9 DEF back, again

\* An entry names a function.
LEMMA EntryAt ==
    ASSUME PciType
    PROVE  Len(devices) \in Nat /\ \A i \in 1 .. Len(devices) : devices[i].at \in Functions
<1> DEFINE E == [at : Functions, bar : [Register -> Kind]]
<1>1. devices \in Seq(E)
  BY DEF PciType
<1>2. \A e \in E : e.at \in Functions
  OBVIOUS
<1> HIDE DEF E
<1>3. Len(devices) \in Nat /\ \A i \in 1 .. Len(devices) : devices[i] \in E
  BY <1>1
<1> QED
  BY <1>2, <1>3

\* What the steps leave unchanged.
LEMMA PciStays ==
    ASSUME UNCHANGED <<present, multi>>
    PROVE  Answering' = Answering /\ Hosts' = Hosts /\ Single' = Single
BY DEF Answering, Hosts, Single

\* Hosts are functions; the first is one if it answers.
LEMMA HostsAre ==
    /\ Hosts \subseteq Function
    /\ 0 \in Hosts <=> Address(<<0, 0>>, 0) \in present
    /\ Single => Hosts = {0}
<1>1. 0 \in Function /\ {0} \subseteq Function
  BY PciAssumption DEF Function
<1>2. CASE Single
  BY <1>1, <1>2 DEF Hosts, Single
<1>3. CASE ~Single
  BY <1>1, <1>3 DEF Hosts
<1> QED
  BY <1>2, <1>3

\* Nothing is recorded.
LEMMA PciInvInit == PciInit => PciInv
<1> SUFFICES ASSUME PciInit PROVE PciInv
  OBVIOUS
<1>1. /\ present \in SUBSET Functions /\ devices = <<>> /\ scan = From(PCI_MAX_FUNCTIONS)
      /\ pci_initialized = FALSE
  BY DEF PciInit
<1>2. Len(devices) = 0 /\ 1 .. Len(devices) = {}
  BY <1>1
<1>3. /\ scan.host = PCI_MAX_FUNCTIONS /\ scan \in Cursor
  BY <1>1, PciAssumption DEF From, Position, Cursor, Function
<1>4. PciType
  <2>1. <<>> \in Seq([at : Functions, bar : [Register -> Kind]])
    OBVIOUS
  <2> QED
    BY <1>1, <1>3, <2>1, Zenon DEF PciType
<1>5. PciBars
  <2>1. PICK layout \in Layouts : bar = [f \in Functions |-> layout]
    BY DEF PciInit
  <2>2. DOMAIN bar = Functions /\ \A g \in Functions : bar[g] = layout
    BY <2>1
  <2> QED
    BY <1>2, <2>2 DEF PciBars
<1>6. PCI_MAX_FUNCTIONS # 0 /\ PCI_MAX_FUNCTIONS \notin 1 .. PCI_MAX_FUNCTIONS - 1
  BY PciAssumption
<1> QED
  BY <1>1, <1>2, <1>3, <1>4, <1>5, <1>6 DEF PciInv

\* The scan begins at the first function of the first bus.
LEMMA PciInitKeeps == PciInv /\ pci_init => PciInv'
<1> SUFFICES ASSUME PciInv, pci_init PROVE PciInv'
  OBVIOUS
<1>1. /\ ~pci_initialized /\ scan.host = PCI_MAX_FUNCTIONS /\ devices' = <<>> /\ scan' = From(0)
      /\ UNCHANGED <<present, multi, bar, pci_initialized>>
  BY DEF pci_init
<1>2. devices = <<>> /\ PciType /\ PciBars
  BY <1>1 DEF PciInv, PciType
<1>3. Len(devices') = 0 /\ 1 .. Len(devices') = {} /\ 1 .. Len(devices) = {}
  BY <1>1, <1>2
<1>4. /\ scan' \in Cursor /\ scan'.host = 0 /\ Here(scan') = <<0, 0, 0>>
      /\ Passed(scan') = (0 * PCI_MAX_DEVICES + 0) * PCI_MAX_FUNCTIONS + 0
  BY <1>1, PciAssumption DEF From, Position, Cursor, Function, Here, Passed
<1>5. PCI_MAX_FUNCTIONS # 0 /\ ~(0 \in 1 .. PCI_MAX_FUNCTIONS - 1)
  BY PciAssumption
<1>6. PciType'
  BY <1>1, <1>2, <1>4, <1>5 DEF PciType
<1>7. PciBars'
  <2>1. devices' = devices /\ bar' = bar
    BY <1>1, <1>2
  <2> QED
    BY <1>2, <2>1 DEF PciBars, Recorded
<1>8. FirstPass'
  <2>1. Len(devices') <= Passed(scan')
    BY <1>3, <1>4, PciAssumption
  <2>2. ASSUME NEW g \in Answering' PROVE ~Precedes(g, Here(scan'))
    <3>1. g \in Functions
      BY <1>2, <1>1 DEF Answering, PciType
    <3> QED
      BY <1>4, <3>1 DEF Precedes, Functions, Function
  <2> QED
    BY <1>3, <2>1, <2>2 DEF FirstPass
<1> QED
  BY <1>1, <1>3, <1>4, <1>5, <1>6, <1>7, <1>8 DEF PciInv

\* A controller that is done with has recorded all that answers.
LEMMA NextHostKeeps == PciInv /\ next_host => PciInv'
<1> SUFFICES ASSUME PciInv, next_host PROVE PciInv'
  OBVIOUS
<1>1. /\ scan.host < PCI_MAX_FUNCTIONS
      /\ scan.host \in Hosts => scan.bus = PCI_MAX_BUSES
      /\ scan' = From(scan.host + 1)
      /\ pci_initialized' = (scan'.host = PCI_MAX_FUNCTIONS)
      /\ UNCHANGED <<present, multi, bar, devices>>
  BY DEF next_host
<1>2. PciType /\ PciBars
  BY DEF PciInv
<1>3. /\ scan.host \in 0 .. PCI_MAX_FUNCTIONS - 1 /\ scan.bus \in 0 .. PCI_MAX_BUSES
      /\ scan.device \in 0 .. PCI_MAX_DEVICES - 1 /\ scan.function \in Function
  BY <1>1, <1>2, PciAssumption DEF PciType, Cursor
<1>4. scan'.host = scan.host + 1 /\ scan' \in Cursor
  BY <1>1, <1>3, PciAssumption DEF From, Position, Cursor, Function
<1>5. PciType'
  BY <1>1, <1>2, <1>4, Zenon DEF PciType
<1>6. PciBars'
  BY <1>1, <1>2 DEF PciBars, Recorded
<1>7. Answering' = Answering /\ Hosts' = Hosts /\ Single' = Single
  BY <1>1, PciStays
<1>8. 0 \in Hosts => \A g \in Answering : Recorded(g)
  <2>1. CASE scan.host = 0
    <3>1. ASSUME 0 \in Hosts, NEW g \in Answering PROVE Recorded(g)
      <4>1. scan.bus = PCI_MAX_BUSES
        BY <1>1, <2>1, <3>1
      <4>2. g \in Functions
        BY <1>2 DEF Answering, PciType
      <4>3. Precedes(g, Here(scan))
        BY <4>1, <4>2, PciAssumption DEF Precedes, Here, Functions
      <4> QED
        BY <2>1, <3>1, <4>3 DEF PciInv, FirstPass
    <3> QED
      BY <3>1
  <2>2. CASE scan.host # 0
    <3>1. scan.host \in 1 .. PCI_MAX_FUNCTIONS - 1
      BY <1>3, <2>2, PciAssumption
    <3> QED
      BY <3>1 DEF PciInv
  <2> QED
    BY <2>1, <2>2
<1>9. scan'.host # 0
  BY <1>3, <1>4
<1>10. \A g : Recorded(g)' <=> Recorded(g)
  BY <1>1 DEF Recorded
<1> QED
  BY <1>1, <1>5, <1>6, <1>7, <1>8, <1>9, <1>10 DEF PciInv

\* What pci_check_device passes on is what a driver may ask for.
LEMMA ChecksAnswering ==
    ASSUME PciType, NEW d, d = <<scan.bus, scan.device>>, scan.bus < PCI_MAX_BUSES
    PROVE  /\ Address(d, scan.function) = Here(scan)
           /\ Here(scan) \in Answering <=> Checks(d, scan.function)
<1>1. Address(d, scan.function) = Here(scan) /\ Address(Here(scan), 0) = Address(d, 0)
  BY DEF Address, Here
<1>2. Here(scan)[3] = scan.function /\ <<Here(scan)[1], Here(scan)[2]>> = d
  BY DEF Here
<1>3. Here(scan) \in Answering <=> /\ Here(scan) \in present
                                   /\ Address(Here(scan), 0) \in present
                                   /\ Here(scan)[3] = 0 \/ <<Here(scan)[1], Here(scan)[2]>> \in multi
  BY DEF Answering
<1> QED
  BY <1>1, <1>2, <1>3, Zenon DEF Checks

\* What is recorded for a function that answers.
LEMMA RecordKeeps ==
    ASSUME PciInv, scan.host \in Hosts, scan.bus < PCI_MAX_BUSES,
           NEW here, here = Here(scan), here \in Answering,
           devices' = Append(devices, [at |-> here, bar |-> bar[here]]),
           bar' = [bar EXCEPT ![here] = WrittenBack(@)],
           scan' = Advance(scan),
           UNCHANGED <<present, multi, pci_initialized>>
    PROVE  PciInv'
<1> DEFINE n == Len(devices)
           e == [at |-> here, bar |-> bar[here]]
<1>1. PciType /\ PciBars
  BY DEF PciInv
<1>2. /\ scan' \in Cursor /\ scan'.host = scan.host /\ here \in Functions
      /\ \A g \in Functions : Precedes(g, Here(scan')) <=> Precedes(g, here) \/ g = here
  BY <1>1, AdvancePasses DEF PciType
<1>3. /\ Passed(scan) \in Nat /\ Passed(scan') \in Nat /\ Passed(scan) + 1 <= Passed(scan')
  BY <1>1, AdvanceCounts DEF PciType
<1>4. Answering' = Answering /\ Hosts' = Hosts /\ Single' = Single
  BY PciStays
<1>5. /\ scan.host # PCI_MAX_FUNCTIONS /\ (Single => 0 \in Hosts /\ scan.host = 0)
      /\ ~pci_initialized
  BY <1>1, HostsAre, PciAssumption DEF Function, PciType
<1>6. PICK layout \in Layouts :
         /\ DOMAIN bar = Functions
         /\ \A g \in Functions : bar[g] = layout \/ (bar[g] = WrittenBack(layout) /\ Recorded(g))
  BY <1>1 DEF PciBars
<1>7. /\ layout \in [Register -> Kind] /\ WrittenBack(layout) \in [Register -> Kind]
      /\ WrittenBack(WrittenBack(layout)) = WrittenBack(layout)
  BY BackOnce
<1>8. e \in [at : Functions, bar : [Register -> Kind]] /\ e.at = here /\ e.bar = bar[here]
  <2>1. bar[here] \in [Register -> Kind]
    BY <1>2, <1>6, <1>7
  <2> QED
    BY <1>2, <2>1
<1>9. devices \in Seq([at : Functions, bar : [Register -> Kind]]) /\ devices' = Append(devices, e)
  BY <1>1 DEF PciType
<1> HIDE DEF e
<1>10. /\ n \in Nat /\ Len(devices') = n + 1 /\ devices'[n + 1] = e
       /\ \A i \in 1 .. n : devices'[i] = devices[i]
       /\ devices' \in Seq([at : Functions, bar : [Register -> Kind]])
  BY <1>8, <1>9
<1>11. \A i \in 1 .. n : devices[i].at \in Functions
  BY <1>1, EntryAt
<1> HIDE DEF n
<1>12. 1 .. Len(devices') = (1 .. n) \cup {n + 1} /\ n + 1 \notin 1 .. n
  BY <1>10
<1>13. Recorded(here)' /\ \A g : Recorded(g) => Recorded(g)'
  <2>1. n + 1 \in 1 .. Len(devices') /\ devices'[n + 1].at = here
    BY <1>8, <1>10, <1>12
  <2>2. ASSUME NEW g, NEW i \in 1 .. n, devices[i].at = g
        PROVE  i \in 1 .. Len(devices') /\ devices'[i].at = g
    BY <1>10, <1>12, <2>2
  <2> QED
    BY <2>1, <2>2 DEF Recorded, n
<1>14. PciType'
  BY <1>1, <1>2, <1>5, <1>10 DEF PciType
<1>15. PciBars'
  <2>1. DOMAIN bar' = Functions
    BY <1>6
  <2>2. ASSUME NEW g \in Functions
        PROVE  bar'[g] = layout \/ (bar'[g] = WrittenBack(layout) /\ Recorded(g)')
    <3>1. CASE g = here
      <4>1. bar'[here] = WrittenBack(bar[here])
        BY <1>2, <1>6
      <4>2. bar[here] = layout \/ bar[here] = WrittenBack(layout)
        BY <1>2, <1>6
      <4>3. bar'[here] = WrittenBack(layout)
        BY <1>7, <4>1, <4>2, Zenon
      <4> QED
        BY <1>13, <3>1, <4>3
    <3>2. CASE g # here
      <4>1. bar'[g] = bar[g]
        BY <1>6, <3>2
      <4> QED
        BY <1>6, <1>13, <4>1, Zenon
    <3> QED
      BY <3>1, <3>2
  <2>3. ASSUME NEW i \in 1 .. n
        PROVE  \/ devices'[i].bar \in Layouts
               \/ \E j \in 1 .. i - 1 : devices'[j].at = devices'[i].at
    <3>1. devices'[i] = devices[i] /\ \A j \in 1 .. i - 1 : devices'[j] = devices[j]
      BY <1>10
    <3>2. \/ devices[i].bar \in Layouts
          \/ \E j \in 1 .. i - 1 : devices[j].at = devices[i].at
      BY <1>1 DEF PciBars, n
    <3> QED
      BY <3>1, <3>2, Zenon
  <2>4. \/ devices'[n + 1].bar \in Layouts
        \/ \E j \in 1 .. (n + 1) - 1 : devices'[j].at = devices'[n + 1].at
    <3>1. (n + 1) - 1 = n
      BY <1>10
    <3>2. devices'[n + 1].bar = bar[here] /\ devices'[n + 1].at = here
      BY <1>8, <1>10
    <3>3. CASE bar[here] = layout
      BY <3>2, <3>3
    <3>4. CASE Recorded(here)
      <4>1. PICK j \in 1 .. n : devices[j].at = here
        BY <3>4 DEF Recorded, n
      <4>2. devices'[j] = devices[j]
        BY <1>10
      <4> QED
        BY <3>1, <3>2, <4>1, <4>2
    <3> QED
      BY <1>2, <1>6, <3>3, <3>4
  <2>5. \A i \in 1 .. Len(devices') :
            \/ devices'[i].bar \in Layouts
            \/ \E j \in 1 .. i - 1 : devices'[j].at = devices'[i].at
    BY <1>12, <2>3, <2>4
  <2> QED
    BY <2>1, <2>2, <2>5 DEF PciBars
<1>16. \A i \in 1 .. Len(devices') : devices'[i].at \in Answering
  BY <1>8, <1>10, <1>12 DEF PciInv, n
<1>17. CASE 0 \in Hosts /\ scan.host = 0
  <2>1. FirstPass
    BY <1>17 DEF PciInv
  <2>2. Len(devices') <= Passed(scan')
    BY <1>3, <1>10, <2>1 DEF FirstPass, n
  <2>3. ASSUME NEW g \in Answering, Precedes(g, Here(scan')) PROVE Recorded(g)'
    <3>1. g \in Functions
      BY <1>1 DEF Answering, PciType
    <3>2. Precedes(g, here) \/ g = here
      BY <1>2, <2>3, <3>1
    <3> QED
      BY <1>13, <2>1, <3>2 DEF FirstPass
  <2>4. \A i \in 1 .. n : Precedes(devices'[i].at, here)
    BY <1>10, <2>1 DEF FirstPass, n
  <2>5. devices'[n + 1].at = here
    BY <1>8, <1>10
  <2>6. ASSUME NEW i \in 1 .. Len(devices') PROVE Precedes(devices'[i].at, Here(scan'))
    BY <1>2, <1>10, <1>11, <1>12, <2>4, <2>5
  <2>7. ASSUME NEW i \in 1 .. Len(devices'), NEW j \in 1 .. Len(devices'), i < j
        PROVE  Precedes(devices'[i].at, devices'[j].at)
    <3>1. i \in 1 .. n
      BY <1>10, <2>7
    <3>2. CASE j = n + 1
      BY <2>4, <2>5, <3>1, <3>2
    <3>3. CASE j \in 1 .. n
      BY <1>10, <2>1, <2>7, <3>1, <3>3 DEF FirstPass, n
    <3> QED
      BY <1>12, <3>2, <3>3
  <2>8. FirstPass'
    BY <1>4, <2>2, <2>3, <2>6, <2>7 DEF FirstPass
  <2>9. scan'.host = 0 /\ ~pci_initialized'
    BY <1>2, <1>5, <1>17
  <2>10. ~(0 \in 1 .. PCI_MAX_FUNCTIONS - 1)
    BY PciAssumption
  <2> QED
    BY <1>4, <1>14, <1>15, <1>16, <2>7, <2>8, <2>9, <2>10 DEF PciInv
<1>18. CASE ~(0 \in Hosts /\ scan.host = 0)
  <2>1. ~Single
    BY <1>5, <1>18
  <2>2. ASSUME 0 \in Hosts, scan'.host \in 1 .. PCI_MAX_FUNCTIONS - 1 PROVE \A g \in Answering : Recorded(g)'
    <3>1. \A g \in Answering : Recorded(g)
      BY <1>2, <2>2 DEF PciInv
    <3> QED
      BY <1>13, <3>1
  <2>3. ~(0 \in Hosts /\ scan'.host = 0) /\ ~pci_initialized'
    BY <1>2, <1>5, <1>18
  <2> QED
    BY <1>4, <1>14, <1>15, <1>16, <2>1, <2>2, <2>3 DEF PciInv
<1> QED
  BY <1>17, <1>18

\* A function that is not recorded does not answer, or came too late.
LEMMA SkipKeeps ==
    ASSUME PciInv, scan.host \in Hosts, scan.bus < PCI_MAX_BUSES,
           ~(Here(scan) \in Answering /\ Len(devices) < MAX_ENTRIES),
           scan' = Advance(scan),
           UNCHANGED <<present, multi, pci_initialized, devices, bar>>
    PROVE  PciInv'
<1>1. PciType /\ PciBars
  BY DEF PciInv
<1>2. /\ scan' \in Cursor /\ scan'.host = scan.host
      /\ \A g \in Functions : Precedes(g, Here(scan')) <=> Precedes(g, Here(scan)) \/ g = Here(scan)
  BY <1>1, AdvancePasses DEF PciType
<1>3. /\ Passed(scan) \in Nat /\ Passed(scan') \in Nat /\ Passed(scan) < Passed(scan')
      /\ Passed(scan) < MAX_ENTRIES
  BY <1>1, AdvanceCounts DEF PciType
<1>4. Answering' = Answering /\ Hosts' = Hosts /\ Single' = Single
  BY PciStays
<1>5. /\ scan.host # PCI_MAX_FUNCTIONS /\ ~pci_initialized
  BY <1>1, HostsAre, PciAssumption DEF Function, PciType
<1>6. PciType'
  BY <1>1, <1>2, <1>5 DEF PciType
<1>7. PciBars'
  BY <1>1 DEF PciBars, Recorded
<1>8. \A g : Recorded(g)' <=> Recorded(g)
  BY DEF Recorded
<1>9. ASSUME 0 \in Hosts, scan.host = 0 PROVE FirstPass'
  <2>1. FirstPass
    BY <1>9 DEF PciInv
  <2>2. Len(devices) < MAX_ENTRIES /\ Len(devices) <= Passed(scan')
    <3>1. Len(devices) \in Nat
      BY <1>1 DEF PciType
    <3>2. MAX_ENTRIES \in Nat
      BY PciAssumption, TimesNat DEF MAX_ENTRIES
    <3> QED
      BY <1>3, <2>1, <3>1, <3>2 DEF FirstPass
  <2>3. ASSUME NEW g \in Answering, Precedes(g, Here(scan')) PROVE Recorded(g)'
    <3>1. g \in Functions
      BY <1>1 DEF Answering, PciType
    <3>2. Precedes(g, Here(scan))
      BY <1>2, <2>2, <2>3, <3>1
    <3> QED
      BY <1>8, <2>1, <3>2 DEF FirstPass
  <2>4. ASSUME NEW i \in 1 .. Len(devices) PROVE Precedes(devices[i].at, Here(scan'))
    <3>1. devices[i].at \in Functions
      BY <1>1, EntryAt
    <3> QED
      BY <1>2, <2>1, <3>1 DEF FirstPass
  <2> QED
    BY <1>4, <2>1, <2>2, <2>3, <2>4 DEF FirstPass
<1> QED
  BY <1>2, <1>4, <1>6, <1>7, <1>8, <1>9 DEF PciInv

\* One function more.
LEMMA CheckKeeps == PciInv /\ pci_check_function => PciInv'
<1> SUFFICES ASSUME PciInv, pci_check_function PROVE PciInv'
  OBVIOUS
<1> DEFINE d == <<scan.bus, scan.device>>
           here == Address(d, scan.function)
<1>1. /\ scan.host \in Hosts /\ scan.bus < PCI_MAX_BUSES
      /\ IF Checks(d, scan.function) /\ Len(devices) < MAX_ENTRIES
         THEN /\ devices' = Append(devices, [at |-> here, bar |-> bar[here]])
              /\ bar' = [bar EXCEPT ![here] = WrittenBack(@)]
         ELSE UNCHANGED <<devices, bar>>
      /\ scan' = Advance(scan)
      /\ UNCHANGED <<present, multi, pci_initialized>>
  BY DEF pci_check_function
<1>2. here = Here(scan) /\ (Here(scan) \in Answering <=> Checks(d, scan.function))
  BY <1>1, ChecksAnswering DEF PciInv
<1> HIDE DEF here, d
<1>3. CASE here \in Answering /\ Len(devices) < MAX_ENTRIES
  BY <1>1, <1>2, <1>3, RecordKeeps
<1>4. CASE ~(here \in Answering /\ Len(devices) < MAX_ENTRIES)
  BY <1>1, <1>2, <1>4, SkipKeeps
<1> QED
  BY <1>3, <1>4

\* An idle step.
LEMMA PciIdle == PciInv /\ UNCHANGED pciVars => PciInv'
<1> SUFFICES ASSUME PciInv, UNCHANGED pciVars PROVE PciInv'
  OBVIOUS
<1>1. UNCHANGED <<present, multi, bar, devices, scan, pci_initialized>>
  BY DEF pciVars
<1>2. Answering' = Answering /\ Hosts' = Hosts /\ Single' = Single
  BY <1>1, PciStays
<1>3. PciType' /\ PciBars'
  BY <1>1 DEF PciInv, PciType, PciBars, Recorded
<1>4. FirstPass => FirstPass'
  BY <1>1, <1>2 DEF FirstPass, Recorded
<1>5. \A g : Recorded(g)' <=> Recorded(g)
  BY <1>1 DEF Recorded
<1> QED
  BY <1>1, <1>2, <1>3, <1>4, <1>5 DEF PciInv

\* What the scan has found is what the property says.
LEMMA FoundBy == PciInv => FunctionsFound
<1> SUFFICES ASSUME PciInv PROVE FunctionsFound
  OBVIOUS
<1>1. DOMAIN devices = 1 .. Len(devices) /\ Len(devices) \in Nat
      /\ \A i \in 1 .. Len(devices) : devices[i].at \in Functions
  <2>1. PciType
    BY DEF PciInv
  <2>2. DOMAIN devices = 1 .. Len(devices)
    BY <2>1 DEF PciType
  <2> QED
    BY <2>1, <2>2, EntryAt
<1>2. ASSUME pci_initialized, Address(<<0, 0>>, 0) \in present
      PROVE  {devices[i].at : i \in DOMAIN devices} = Answering
  <2>1. \A g \in Answering : Recorded(g)
    BY <1>2, HostsAre DEF PciInv
  <2>2. \A i \in 1 .. Len(devices) : devices[i].at \in Answering
    BY DEF PciInv
  <2> QED
    BY <1>1, <2>1, <2>2, Zenon DEF Recorded
<1>3. ASSUME Single, NEW i \in DOMAIN devices, NEW j \in DOMAIN devices, devices[i].at = devices[j].at
      PROVE  i = j
  <2>1. \A a, b \in 1 .. Len(devices) : a < b => Precedes(devices[a].at, devices[b].at)
    BY <1>3 DEF PciInv
  <2>2. \A g \in Functions : ~Precedes(g, g)
    BY DEF Precedes, Functions, Function
  <2> QED
    BY <1>1, <1>3, <2>1, <2>2
<1>4. \A i \in DOMAIN devices :
          \/ devices[i].bar \in Layouts
          \/ \E j \in 1 .. i - 1 : devices[j].at = devices[i].at
  BY <1>1 DEF PciInv, PciBars
<1>5. \E layout \in Layouts : \A f \in Functions, r \in Register :
          layout[r] # "high" => bar[f][r] = layout[r]
  <2>1. PICK layout \in Layouts :
          \A g \in Functions : bar[g] = layout \/ bar[g] = WrittenBack(layout)
    BY DEF PciInv, PciBars
  <2>2. \A r \in Register : layout[r] # "high" => WrittenBack(layout)[r] = layout[r]
    BY BackOnce
  <2>3. ASSUME NEW f \in Functions, NEW r \in Register, layout[r] # "high"
        PROVE  bar[f][r] = layout[r]
    <3>1. CASE bar[f] = layout
      BY <3>1
    <3>2. CASE bar[f] = WrittenBack(layout)
      BY <2>2, <2>3, <3>2
    <3> QED
      BY <2>1, <3>1, <3>2
  <2> QED
    BY <2>3
<1> QED
  BY <1>2, <1>3, <1>4, <1>5 DEF FunctionsFound

(***************************************************************************)
(* A scan that the first host controller answers finds every function that *)
(* answers, with a single controller each once, with the addresses the     *)
(* firmware gave it, for any buses, devices and functions and whatever     *)
(* answers: the table is not full before every function is in it.          *)
(***************************************************************************)
THEOREM PciFunctionsFound == PciSpec => []FunctionsFound
<1>1. PciInv /\ [PciNext]_pciVars => PciInv'
  BY PciInitKeeps, NextHostKeeps, CheckKeeps, PciIdle DEF PciNext
<1>2. PciInit => PciInv
  BY PciInvInit
<1>3. PciInv => FunctionsFound
  BY FoundBy
<1> QED
  BY <1>1, <1>2, <1>3, PTL DEF PciSpec

=============================================================================
