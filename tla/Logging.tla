------------------------------ MODULE Logging ------------------------------
(***************************************************************************)
(* kernel/logging.c: the ring of the kernel log.  klog runs in the thread  *)
(* and in interrupt handlers, and ring_putc protects nothing: a writer may *)
(* come between its accesses, and so may klog_dump_serial, in a crash.  A  *)
(* ring_putc that begins in the middle of another one tears the ring; what *)
(* the ring holds after that depends on the build, and is not followed.    *)
(***************************************************************************)
EXTENDS Naturals, Sequences, SequencesExt

CONSTANTS KLOG_RING_SIZE, Writers

ASSUME LoggingAssumption == KLOG_RING_SIZE \in Nat \ {0}

VARIABLES ring,       \* buf, head, tail and count
          log_initialized,
          pending,    \* what a writer's klog has still to write
          putc,       \* where a writer's ring_putc is
          recent,     \* ghost: the last characters that were written
          torn        \* ghost: a ring_putc began in the middle of another one

logVars == <<ring, log_initialized, pending, putc, recent, torn>>

Index == 0 .. KLOG_RING_SIZE - 1
Lines == {<<"info", "x", "nl">>, <<"panic", "nl">>}     \* level, message and newline
ZeroRing == [buf |-> [i \in Index |-> "nul"], head |-> 0, tail |-> 0, count |-> 0]

LogInit ==
    /\ ring = ZeroRing
    /\ log_initialized = FALSE
    /\ pending = [w \in Writers |-> <<>>]
    /\ putc = [w \in Writers |-> "none"]
    /\ recent = <<>>
    /\ torn = FALSE

klog_init(w) ==
    /\ ~log_initialized
    /\ ring' = ZeroRing
    /\ log_initialized' = TRUE
    /\ pending' = [pending EXCEPT ![w] = <<"info", "x", "nl">>]
    /\ UNCHANGED <<putc, recent, torn>>

klog(w, line) ==
    /\ log_initialized
    /\ pending[w] = <<>>
    /\ pending' = [pending EXCEPT ![w] = line]
    /\ UNCHANGED <<ring, log_initialized, putc, recent, torn>>

(***************************************************************************)
(* ring_putc: the character is stored, head moves on, and then the         *)
(* character is counted or, when the ring is full, the oldest dropped.     *)
(***************************************************************************)
ring_putc(w) ==
    /\ pending[w] # <<>> /\ putc[w] = "none" /\ ~torn
    /\ ring' = [ring EXCEPT !.buf[ring.head] = Head(pending[w])]
    /\ putc' = [putc EXCEPT ![w] = "stored"]
    /\ torn' = (\E v \in Writers : putc[v] # "none")
    /\ UNCHANGED <<log_initialized, pending, recent>>

AdvanceHead(w) ==
    /\ putc[w] = "stored" /\ ~torn
    /\ ring' = [ring EXCEPT !.head = (@ + 1) % KLOG_RING_SIZE]
    /\ putc' = [putc EXCEPT ![w] = "advanced"]
    /\ UNCHANGED <<log_initialized, pending, recent, torn>>

\* Mutant: the tail stays when the oldest byte is overwritten.
TailStays(r) == IF r.count < KLOG_RING_SIZE THEN [r EXCEPT !.count = @ + 1] ELSE r

CountOrDrop(r) ==
    IF r.count < KLOG_RING_SIZE THEN [r EXCEPT !.count = @ + 1]
                                ELSE [r EXCEPT !.tail = (@ + 1) % KLOG_RING_SIZE]

LastOf(s) == SubSeq(s, IF Len(s) > KLOG_RING_SIZE THEN Len(s) - KLOG_RING_SIZE + 1 ELSE 1, Len(s))

Finish(w) ==
    /\ putc[w] = "advanced" /\ ~torn
    /\ ring' = CountOrDrop(ring)
    /\ putc' = [putc EXCEPT ![w] = "none"]
    /\ pending' = [pending EXCEPT ![w] = Tail(@)]
    /\ recent' = LastOf(Append(recent, Head(pending[w])))
    /\ UNCHANGED <<log_initialized, torn>>

\* What klog_dump_serial writes to the serial port.
klog_dump_serial == [i \in 1 .. ring.count |-> ring.buf[(ring.tail + i - 1) % KLOG_RING_SIZE]]

LogNext ==
    \E w \in Writers :
        \/ klog_init(w)
        \/ \E line \in Lines : klog(w, line)
        \/ ring_putc(w) \/ AdvanceHead(w) \/ Finish(w)

LogSpec == LogInit /\ [][LogNext]_logVars

-----------------------------------------------------------------------------
(***************************************************************************)
(* As long as no ring_putc begins in the middle of another, what           *)
(* klog_dump_serial writes is the last KLOG_RING_SIZE characters that were *)
(* logged, oldest first, before and after the ring has filled.  A dump in  *)
(* the middle of ring_putc, in a crash, may have the new character in the  *)
(* place of the oldest one when the ring is full, and differs in no other. *)
(***************************************************************************)
LogIsRecent ==
    ~torn =>
        /\ Len(klog_dump_serial) = Len(recent)
        /\ \A i \in DOMAIN recent :
              \/ klog_dump_serial[i] = recent[i]
              \/ /\ i = 1 /\ ring.count = KLOG_RING_SIZE
                 /\ \E w \in Writers : putc[w] # "none" /\ klog_dump_serial[i] = Head(pending[w])

=============================================================================
