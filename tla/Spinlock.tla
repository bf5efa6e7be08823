------------------------------ MODULE Spinlock ------------------------------
(***************************************************************************)
(* One lock of kernel/spinlock.c and the processors that use it.  A        *)
(* processor that calls again while it holds the lock is taken for its     *)
(* owner: spinlock_acquire returns as if the lock were taken once more,    *)
(* and nothing counts the calls.  The interrupt flags go into the shared   *)
(* lock before the lock is owned.                                          *)
(***************************************************************************)
EXTENDS Integers

CONSTANTS CPUs,      \* the processors, apic_get_id()
          NoCpu      \* the owner -1

ASSUME SpinlockAssumption == NoCpu \notin CPUs

VARIABLES locked,             \* lock->locked
          owner,              \* lock->cpu
          interrupt_flags,    \* lock->interrupt_flags, the interrupt bit
          enabled,            \* the interrupt bit of a processor
          at,                 \* how far the running call of a processor is
          flags,              \* the local flags of spinlock_try_acquire
          holds,              \* calls of a processor that took the lock, less its releases
          nested,             \* ghost: the processors that called while they held the lock
          before,             \* ghost: the interrupt bits before the call that takes the lock
          mixed               \* ghost: those whose flags another call overwrote with other flags

spinVars == <<locked, owner, interrupt_flags, enabled, at, flags, holds, nested, before, mixed>>
lockVars == <<locked, owner, interrupt_flags>>
ghosts == <<nested, before, mixed>>

Bit == {0, 1}

\* spinlock_init.
SpinInit ==
    /\ locked = 0
    /\ owner = NoCpu
    /\ interrupt_flags = 0
    /\ enabled \in [CPUs -> Bit]
    /\ at = [c \in CPUs |-> "outside"]
    /\ flags = [c \in CPUs |-> 0]
    /\ holds = [c \in CPUs |-> 0]
    /\ nested = {}
    /\ before = enabled
    /\ mixed = {}

Goes(c, to) == at' = [at EXCEPT ![c] = to]

Recursive(c) == locked = 1 /\ owner = c

\* The processors whose flags lock->interrupt_flags should hold.
Keeps(c) == at[c] \in {"acquire", "spin", "own", "release", "restore"} \/ holds[c] > 0

\* A call of c stores its flags in the lock, over those of the others.
StoresFlags(c, value) ==
    /\ interrupt_flags' = value
    /\ mixed' = (mixed \ {c}) \cup {d \in CPUs \ {c} : Keeps(d) /\ before[d] # value}

Before(c) == IF holds[c] = 0 THEN [before EXCEPT ![c] = enabled[c]] ELSE before

\* Mutant: the lock is tested by its owner, which is set later.
FreeByOwner == owner = NoCpu

\* What __sync_lock_test_and_set finds.
Free == locked = 0

-----------------------------------------------------------------------------
spinlock_acquire(c) ==
    /\ at[c] = "outside"
    /\ holds[c] < 2
    /\ StoresFlags(c, enabled[c])
    /\ enabled' = [enabled EXCEPT ![c] = 0]
    /\ Goes(c, "acquire")
    /\ nested' = IF holds[c] > 0 THEN nested \cup {c} ELSE nested
    /\ before' = Before(c)
    /\ UNCHANGED <<locked, owner, flags, holds>>

AcquireRecursive(c) ==
    /\ at[c] = "acquire"
    /\ Recursive(c)
    /\ enabled' = [enabled EXCEPT ![c] = interrupt_flags]
    /\ holds' = [holds EXCEPT ![c] = @ + 1]
    /\ Goes(c, "outside")
    /\ UNCHANGED <<locked, owner, interrupt_flags, flags, ghosts>>

Spins(c) ==
    /\ at[c] = "acquire"
    /\ ~Recursive(c)
    /\ Goes(c, "spin")
    /\ UNCHANGED <<lockVars, enabled, flags, holds, ghosts>>

Takes(c) ==
    /\ at[c] = "spin"
    /\ Free
    /\ locked' = 1
    /\ Goes(c, "own")
    /\ UNCHANGED <<owner, interrupt_flags, enabled, flags, holds, ghosts>>

Owns(c) ==
    /\ at[c] = "own"
    /\ owner' = c
    /\ holds' = [holds EXCEPT ![c] = @ + 1]
    /\ Goes(c, "outside")
    /\ UNCHANGED <<locked, interrupt_flags, enabled, flags, ghosts>>

-----------------------------------------------------------------------------
spinlock_try_acquire(c) ==
    /\ at[c] = "outside"
    /\ flags' = [flags EXCEPT ![c] = enabled[c]]
    /\ enabled' = [enabled EXCEPT ![c] = 0]
    /\ Goes(c, "try")
    /\ before' = Before(c)
    /\ mixed' = IF holds[c] = 0 THEN mixed \ {c} ELSE mixed
    /\ UNCHANGED <<lockVars, holds, nested>>

\* Mutant: the failing path leaves the interrupts disabled.
AfterFailedDisabled(c) == 0

\* interrupt_restore(flags) of the failing paths.
AfterFailed(c) == flags[c]

TryFails(c) ==
    /\ at[c] = "try"
    /\ Recursive(c) \/ ~Free
    /\ enabled' = [enabled EXCEPT ![c] = AfterFailed(c)]
    /\ Goes(c, "outside")
    /\ UNCHANGED <<lockVars, flags, holds, ghosts>>

TryTakes(c) ==
    /\ at[c] = "try"
    /\ ~Recursive(c) /\ Free
    /\ locked' = 1
    /\ Goes(c, "try_own")
    /\ UNCHANGED <<owner, interrupt_flags, enabled, flags, holds, ghosts>>

TryOwns(c) ==
    /\ at[c] = "try_own"
    /\ owner' = c
    /\ Goes(c, "try_flags")
    /\ UNCHANGED <<locked, interrupt_flags, enabled, flags, holds, ghosts>>

TryKeepsFlags(c) ==
    /\ at[c] = "try_flags"
    /\ StoresFlags(c, flags[c])
    /\ holds' = [holds EXCEPT ![c] = @ + 1]
    /\ Goes(c, "outside")
    /\ UNCHANGED <<locked, owner, enabled, flags, nested, before>>

-----------------------------------------------------------------------------
\* spinlock_release, by a processor that holds the lock or thinks so.
spinlock_release(c) ==
    /\ at[c] = "outside"
    /\ holds[c] > 0
    /\ holds' = [holds EXCEPT ![c] = @ - 1]
    /\ IF owner = c THEN owner' = NoCpu /\ Goes(c, "release")
       ELSE UNCHANGED <<owner, at>>
    /\ UNCHANGED <<locked, interrupt_flags, enabled, flags, ghosts>>

Unlocks(c) ==
    /\ at[c] = "release"
    /\ locked' = 0
    /\ Goes(c, "restore")
    /\ UNCHANGED <<owner, interrupt_flags, enabled, flags, holds, ghosts>>

Restores(c) ==
    /\ at[c] = "restore"
    /\ enabled' = [enabled EXCEPT ![c] = interrupt_flags]
    /\ Goes(c, "outside")
    /\ UNCHANGED <<lockVars, flags, holds, ghosts>>

SpinNext ==
    \E c \in CPUs :
       \/ spinlock_acquire(c) \/ AcquireRecursive(c) \/ Spins(c) \/ Takes(c) \/ Owns(c)
       \/ spinlock_try_acquire(c) \/ TryFails(c) \/ TryTakes(c) \/ TryOwns(c) \/ TryKeepsFlags(c)
       \/ spinlock_release(c) \/ Unlocks(c) \/ Restores(c)

SpinSpec == SpinInit /\ [][SpinNext]_spinVars

-----------------------------------------------------------------------------
\* From the test-and-set to the write that unlocks.
Inside(c) == at[c] \in {"own", "try_own", "try_flags", "release"} \/ holds[c] > 0

(***************************************************************************)
(* As long as no processor calls spinlock_acquire for a lock it holds, at  *)
(* most one processor is inside, whatever the order of the test-and-sets,  *)
(* the writes of the owner and the releases of the others.                 *)
(***************************************************************************)
SpinExclusion == nested = {} => \A c, d \in CPUs : Inside(c) /\ Inside(d) => c = d

(***************************************************************************)
(* The flags of all callers share one field, which a waiting processor     *)
(* overwrites before it owns the lock.  As long as nobody calls for a lock *)
(* it holds, a processor that has left has its interrupts as they were     *)
(* before its call, unless another call stored other flags while its own   *)
(* were in the field: a call that fails, or that others alike overlap,     *)
(* loses nothing (spinlock_release, spinlock_try_acquire).                 *)
(***************************************************************************)
FlagsRestored ==
    nested = {} =>
        \A c \in CPUs \ mixed : at[c] = "outside" /\ holds[c] = 0 => enabled[c] = before[c]

=============================================================================
