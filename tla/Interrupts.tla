----------------------------- MODULE Interrupts -----------------------------
(***************************************************************************)
(* kernel/interrupts.c with the stubs of boot/idt.asm, and what installs   *)
(* handlers: drivers/timer.c, kernel/crash_handler.c and the drivers.      *)
(*                                                                         *)
(* irq_install_handler takes an IRQ for a vector: the timer's handler is   *)
(* in vector 0, which a division error enters, and IRQ 0 enters vector 32. *)
(* A handler is called "run" here whatever entered its vector.  int 0x80   *)
(* has no gate and enters vector 13.                                       *)
(***************************************************************************)
EXTENDS Integers, FiniteSets, FiniteSetsExt

CONSTANTS MAX_TIMER_CALLBACKS,
          TPS,                   \* ticks_per_second
          DriverVectors,         \* the vectors that drivers install a handler in
          Intervals,             \* the intervals asked for, in milliseconds
          WORD                   \* tick_count wraps here; bound on the ticks of a wait

ASSUME InterruptsAssumption ==
    /\ MAX_TIMER_CALLBACKS \in Nat /\ TPS \in Nat /\ Intervals \subseteq Nat \ {0} /\ WORD \in Nat \ {0}
    /\ DriverVectors \subseteq {0, 13, 32, 40}

VARIABLES installed,            \* interrupts_initialized
          interrupt_handlers,   \* the handler in a vector
          int_flag,             \* the processor takes interrupts
          entered,              \* the vector that is entered and whether it interrupted, or Out
          handling,             \* irq_handler has acknowledged and is in the handler
          pic1, pic2,           \* the lines each PIC has in service
          halted,
          timer_initialized, tick_count,
          timer_callbacks,      \* by slot: the callback's interval and counter
          adding,               \* the slot timer_add_callback is filling, and the interval
          wait                  \* the running or last timer_wait

timerVars == <<timer_initialized, tick_count, timer_callbacks, adding, wait>>
picVars == <<pic1, pic2>>
intVars == <<installed, interrupt_handlers, int_flag, entered, handling, picVars, halted, timerVars>>

Faults == {0, 13}        \* division error, general protection; 8 and 14 are alike
Irqs == {32, 40}         \* the first line of each PIC
Vector == Faults \cup Irqs

Out == <<>>
Callback == 0 .. MAX_TIMER_CALLBACKS - 1
NoCallback == [active |-> FALSE, interval |-> 0, counter |-> 0, gap |-> 0, gaps |-> {}]
NotAdding == <<>>
NoWait == [running |-> FALSE, start |-> 0, ticks |-> 0, elapsed |-> 0]

IntInit ==
    /\ installed = FALSE
    /\ interrupt_handlers = [n \in Vector |-> "none"]
    /\ int_flag = FALSE
    /\ entered = Out /\ handling = FALSE
    /\ pic1 = {} /\ pic2 = {}
    /\ halted = FALSE
    /\ timer_initialized = FALSE
    /\ tick_count = 0
    /\ timer_callbacks = [i \in Callback |-> NoCallback]
    /\ adding = NotAdding
    /\ wait = NoWait

Thread == entered = Out /\ ~halted

-----------------------------------------------------------------------------
idt_install ==
    /\ Thread /\ ~installed
    /\ installed' = TRUE
    /\ interrupt_handlers' = [n \in Vector |-> "none"]
    /\ UNCHANGED <<int_flag, entered, handling, picVars, halted, timerVars>>

register_interrupt_handler(n, handler) ==
    interrupt_handlers' = [interrupt_handlers EXCEPT ![n] = handler]

\* A driver's handler, through either of the two functions.
irq_install_handler(n) ==
    /\ Thread /\ installed
    /\ register_interrupt_handler(n, "driver")
    /\ UNCHANGED <<installed, int_flag, entered, handling, picVars, halted, timerVars>>

irq_uninstall_handler(n) ==
    /\ Thread /\ installed
    /\ register_interrupt_handler(n, "none")
    /\ UNCHANGED <<installed, int_flag, entered, handling, picVars, halted, timerVars>>

crash_handler_init ==
    /\ Thread /\ installed
    /\ interrupt_handlers' = [n \in Vector |-> IF n \in Faults THEN "crash" ELSE interrupt_handlers[n]]
    /\ UNCHANGED <<installed, int_flag, entered, handling, picVars, halted, timerVars>>

enable_interrupts ==
    /\ Thread /\ installed
    /\ int_flag' = TRUE
    /\ UNCHANGED <<installed, interrupt_handlers, entered, handling, picVars, halted, timerVars>>

disable_interrupts ==
    /\ Thread
    /\ int_flag' = FALSE
    /\ UNCHANGED <<installed, interrupt_handlers, entered, handling, picVars, halted, timerVars>>

-----------------------------------------------------------------------------
(***************************************************************************)
(* drivers/timer.c.  timer_handler runs the callbacks whose counter has    *)
(* come to the interval; gap counts the runs since the last call, gaps     *)
(* keeps the gaps there were since timer_add_callback returned.            *)
(***************************************************************************)
timer_init ==
    /\ Thread /\ installed /\ ~timer_initialized
    /\ register_interrupt_handler(0, "timer")
    /\ timer_initialized' = TRUE
    /\ timer_callbacks' = [i \in Callback |-> NoCallback]
    /\ UNCHANGED <<installed, int_flag, entered, handling, picVars, halted, tick_count, adding, wait>>

\* Mutant: the comparison is strict.
DueLate(cb) == cb.counter + 1 > cb.interval

Due(cb) == cb.counter + 1 >= cb.interval

Ticked(cb) ==
    IF ~cb.active THEN cb
    ELSE IF Due(cb) THEN [cb EXCEPT !.counter = 0, !.gap = 0, !.gaps = @ \cup {cb.gap + 1}]
    ELSE [cb EXCEPT !.counter = @ + 1, !.gap = @ + 1]

timer_handler ==
    /\ ~wait.running \/ wait.elapsed < WORD - 1
    /\ tick_count' = (tick_count + 1) % WORD
    /\ timer_callbacks' = [i \in Callback |-> Ticked(timer_callbacks[i])]
    /\ wait' = IF wait.running THEN [wait EXCEPT !.elapsed = @ + 1] ELSE wait
    /\ UNCHANGED <<timer_initialized, adding>>

\* The callback is set first, its interval and counter after: two steps.
timer_add_callback(ms) ==
    /\ Thread /\ timer_initialized
    /\ adding = NotAdding
    /\ \E i \in Callback :
          /\ ~timer_callbacks[i].active
          /\ \A j \in Callback : j < i => timer_callbacks[j].active
          /\ timer_callbacks' = [timer_callbacks EXCEPT ![i].active = TRUE]
          /\ adding' = <<i, (ms * TPS) \div 1000>>
    /\ UNCHANGED <<installed, interrupt_handlers, int_flag, entered, handling, picVars, halted,
                   timer_initialized, tick_count, wait>>

AddReturns ==
    /\ Thread
    /\ adding # NotAdding
    /\ timer_callbacks' = [timer_callbacks EXCEPT ![adding[1]] =
                              [NoCallback EXCEPT !.active = TRUE, !.interval = adding[2]]]
    /\ adding' = NotAdding
    /\ UNCHANGED <<installed, interrupt_handlers, int_flag, entered, handling, picVars, halted,
                   timer_initialized, tick_count, wait>>

timer_remove_callback(i) ==
    /\ Thread /\ timer_initialized
    /\ adding = NotAdding
    /\ timer_callbacks' = [timer_callbacks EXCEPT ![i] = NoCallback]
    /\ UNCHANGED <<installed, interrupt_handlers, int_flag, entered, handling, picVars, halted,
                   timer_initialized, tick_count, adding, wait>>

timer_wait(ticks) ==
    /\ Thread /\ timer_initialized
    /\ ~wait.running
    /\ wait' = [running |-> TRUE, start |-> tick_count, ticks |-> ticks, elapsed |-> 0]
    /\ UNCHANGED <<installed, interrupt_handlers, int_flag, entered, handling, picVars, halted,
                   timer_initialized, tick_count, timer_callbacks, adding>>

\* Unsigned: the difference is right across a wrap.
WaitOver == (tick_count - wait.start) % WORD >= wait.ticks

WaitReturns ==
    /\ Thread
    /\ wait.running
    /\ WaitOver
    /\ wait' = [wait EXCEPT !.running = FALSE]
    /\ UNCHANGED <<installed, interrupt_handlers, int_flag, entered, handling, picVars, halted,
                   timer_initialized, tick_count, timer_callbacks, adding>>

-----------------------------------------------------------------------------
\* External: a PIC raises a line unless one before it is in service there.
Irq(n) ==
    /\ Thread /\ installed /\ int_flag
    /\ IF n >= 40
       THEN /\ \A l \in pic1 : l > 2
            /\ \A l \in pic2 : l > n - 40
            /\ pic1' = pic1 \cup {2} /\ pic2' = pic2 \cup {n - 40}
       ELSE /\ \A l \in pic1 : l > n - 32
            /\ pic1' = pic1 \cup {n - 32} /\ UNCHANGED pic2
    /\ entered' = <<n, int_flag>>
    /\ int_flag' = FALSE
    /\ UNCHANGED <<installed, interrupt_handlers, handling, halted, timerVars>>

\* A fault in the code that is running.
Fault(n) ==
    /\ Thread /\ installed
    /\ entered' = <<n, int_flag>>
    /\ int_flag' = FALSE
    /\ UNCHANGED <<installed, interrupt_handlers, handling, picVars, halted, timerVars>>

\* What a non-specific end of interrupt leaves in service.
EndOfInterrupt(lines) == IF lines = {} THEN {} ELSE lines \ {Min(lines)}

\* Mutant: the first line of the second PIC is not acknowledged.
OfSecondPast(n) == n > 40

OfSecond(n) == n >= 40

Iret == entered' = Out /\ int_flag' = entered[2]

Handler == interrupt_handlers[entered[1]]

(***************************************************************************)
(* irq_handler acknowledges, then calls the handler, if there is one.  A   *)
(* handler returns or leaves the processor to another process, whose flags *)
(* are its own.  IRQ vectors only have drivers' handlers.                  *)
(***************************************************************************)
irq_handler ==
    /\ entered # Out /\ entered[1] \in Irqs /\ ~handling
    /\ pic2' = IF OfSecond(entered[1]) THEN EndOfInterrupt(pic2) ELSE pic2
    /\ pic1' = EndOfInterrupt(pic1)
    /\ handling' = TRUE
    /\ UNCHANGED <<installed, interrupt_handlers, int_flag, entered, halted, timerVars>>

HandlerReturns ==
    /\ handling
    /\ Iret
    /\ handling' = FALSE
    /\ UNCHANGED <<installed, interrupt_handlers, picVars, halted, timerVars>>

HandlerSwitches ==
    /\ handling /\ Handler # "none"
    /\ entered' = Out /\ int_flag' \in BOOLEAN
    /\ handling' = FALSE
    /\ UNCHANGED <<installed, interrupt_handlers, picVars, halted, timerVars>>

isr_handler ==
    /\ entered # Out /\ entered[1] \in Faults
    /\ Handler # "crash"
    /\ IF Handler = "timer" THEN timer_handler ELSE UNCHANGED timerVars
    /\ Iret
    /\ UNCHANGED <<installed, interrupt_handlers, handling, picVars, halted>>

crash_dump ==
    /\ entered # Out /\ entered[1] \in Faults
    /\ Handler = "crash"
    /\ halted' = TRUE
    /\ UNCHANGED <<installed, interrupt_handlers, int_flag, entered, handling, picVars, timerVars>>

IntNext ==
    \/ idt_install \/ crash_handler_init \/ enable_interrupts \/ disable_interrupts
    \/ \E n \in DriverVectors : irq_install_handler(n) \/ irq_uninstall_handler(n)
    \/ timer_init \/ AddReturns \/ WaitReturns
    \/ \E ms \in Intervals : timer_add_callback(ms)
    \/ \E i \in Callback : timer_remove_callback(i)
    \/ \E ticks \in 0 .. WORD - 1 : timer_wait(ticks)
    \/ \E n \in Irqs : Irq(n)
    \/ \E n \in Faults : Fault(n)
    \/ irq_handler \/ HandlerReturns \/ HandlerSwitches \/ isr_handler \/ crash_dump

IntSpec == IntInit /\ [][IntNext]_intVars

-----------------------------------------------------------------------------
(***************************************************************************)
(* Once timer_add_callback has returned, its callback is called on every   *)
(* interval-th run of timer_handler and on no other (on every run when the *)
(* interval is less than a tick), and timer_wait never returns before its  *)
(* ticks have passed, across a wrap of tick_count too.                     *)
(***************************************************************************)
OnTime ==
    /\ \A i \in Callback :
          LET cb == timer_callbacks[i]
              every == IF cb.interval = 0 THEN 1 ELSE cb.interval
          IN  cb.active /\ (adding = NotAdding \/ adding[1] # i) =>
                  cb.gaps \subseteq {every} /\ cb.gap < every
    /\ ~wait.running => wait.elapsed >= wait.ticks

(***************************************************************************)
(* No line stays in service after its interrupt, nor while its handler     *)
(* runs, nor when the handler leaves the processor and does not come back: *)
(* irq_handler acknowledges both PICs for the lines of the second, before  *)
(* the handler.                                                            *)
(***************************************************************************)
LinesAcknowledged ==
    entered = Out \/ entered[1] \in Faults \/ handling => pic1 = {} /\ pic2 = {}

=============================================================================
