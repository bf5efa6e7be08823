-------------------------------- MODULE Input --------------------------------
(***************************************************************************)
(* The way of a key or a mouse packet into the system: the interrupt       *)
(* handlers of drivers/keyboard.c and drivers/mouse.c, the event queue of  *)
(* gui/input.c, the main loop of kernel/kernel.c that empties it, and the  *)
(* start menu and flyouts of gui/desktop.c.                                *)
(*                                                                         *)
(* A handler is one step: interrupt gates disable interrupts.  The main    *)
(* loop and a reader of the keyboard buffer run with interrupts enabled,   *)
(* and are modelled access by access: the kernel is compiled without       *)
(* optimisation, and queue_count-- is a load, a subtraction and a store.   *)
(*                                                                         *)
(* mode says what is attached and who listens: "text" is a keyboard before *)
(* maya_input_init sets the callback, read with keyboard_get_char; "keys"  *)
(* is a keyboard and "mouse" a mouse with the main loop.  Both callbacks   *)
(* pass scancode 0, so that no modifier is ever set and no shortcut of     *)
(* maya_input_add_key_event is taken.                                      *)
(***************************************************************************)
EXTENDS Integers, Sequences, FiniteSets

CONSTANTS QUEUE_SIZE,            \* slots of the event queue (32 in the code)
          KEYBOARD_BUFFER_SIZE,  \* slots of the keyboard buffer
          SCREEN_WIDTH,          \* positions of the pointer; one axis is kept
          MAX_SEARCH             \* characters the search holds (63 in the code)

ASSUME InputAssumption ==
    /\ QUEUE_SIZE \in Nat \ {0}
    /\ KEYBOARD_BUFFER_SIZE \in Nat \ {0}
    /\ SCREEN_WIDTH \in Nat \ {0}
    /\ MAX_SEARCH \in Nat

VARIABLES mode,
          keyboard,   \* keyboard_state without its ring
          buffer,     \* keyboard_state.buffer
          kb_head, kb_tail,
          reader,     \* the character keyboard_buffer_pop has read and not yet removed
          mouse,      \* mouse_state, mouse_cycle and the bytes kept so far
          event_queue, queue_head, queue_tail, queue_count,
          pointer,    \* mouse_x, mouse_buttons, is_double_click of the input manager
          loop,       \* where the main loop is, its event and its register
          open,       \* the overlays that are shown
          search_len, \* start_menu_search_len
          \* Ghosts: what was put in and not taken out yet, and whether a
          \* handler has run between the load and the store of queue_count.
          typed, posted, torn

keyboardVars == <<keyboard, buffer, kb_head, kb_tail, typed>>
queueVars == <<event_queue, queue_head, queue_count, posted, torn>>
inputVars == <<mode, keyboardVars, reader, mouse, queueVars, queue_tail, pointer, loop, open, search_len>>

Char == {"lower", "upper", "backspace"}
Event == Char \cup {"move", "click", "release"}
Overlay == {"start_menu", "network", "volume", "battery"}
Position == 0 .. SCREEN_WIDTH - 1
None == "none"

InputTypeOK ==
    /\ mode \in {"text", "keys", "mouse"}
    /\ keyboard \in [shift_pressed : BOOLEAN, caps_lock : BOOLEAN]
    /\ buffer \in [0 .. KEYBOARD_BUFFER_SIZE - 1 -> Char \cup {None}]
    /\ kb_head \in 0 .. KEYBOARD_BUFFER_SIZE - 1
    /\ kb_tail \in 0 .. KEYBOARD_BUFFER_SIZE - 1
    /\ reader \in Char \cup {None}
    /\ mouse \in [x : Position, buttons : {0, 1}, cycle : 0 .. 2, down : {0, 1}, x_mov : -1 .. 1]
    /\ event_queue \in [0 .. QUEUE_SIZE - 1 -> Event \cup {None}]
    /\ queue_head \in 0 .. QUEUE_SIZE - 1
    /\ queue_tail \in 0 .. QUEUE_SIZE - 1
    /\ queue_count \in 0 .. QUEUE_SIZE
    /\ pointer \in [x : Position, buttons : {0, 1}, double : BOOLEAN]
    /\ loop \in [pc : {"poll", "copied", "advanced", "loaded", "taken"},
                 event : Event \cup {None}, register : 0 .. QUEUE_SIZE]
    /\ open \in SUBSET Overlay
    /\ search_len \in 0 .. MAX_SEARCH
    /\ typed \in Seq(Char)
    /\ posted \in Seq(Event)
    /\ torn \in BOOLEAN

InputInit ==
    /\ mode \in {"text", "keys", "mouse"}
    /\ keyboard = [shift_pressed |-> FALSE, caps_lock |-> FALSE]
    /\ buffer = [i \in 0 .. KEYBOARD_BUFFER_SIZE - 1 |-> None]
    /\ kb_head = 0
    /\ kb_tail = 0
    /\ reader = None
    /\ mouse = [x |-> SCREEN_WIDTH \div 2, buttons |-> 0, cycle |-> 0, down |-> 0, x_mov |-> 0]
    /\ event_queue = [i \in 0 .. QUEUE_SIZE - 1 |-> None]
    /\ queue_head = 0
    /\ queue_tail = 0
    /\ queue_count = 0
    /\ pointer = [x |-> 0, buttons |-> 0, double |-> FALSE]
    /\ loop = [pc |-> "poll", event |-> None, register |-> 0]
    /\ open = {}
    /\ search_len = 0
    /\ typed = <<>>
    /\ posted = <<>>
    /\ torn = FALSE

-----------------------------------------------------------------------------
(***************************************************************************)
(* The end of maya_input_add_key_event and maya_input_add_mouse_event: the *)
(* event is stored unless the queue is full.                               *)
(***************************************************************************)
Full == queue_count >= QUEUE_SIZE

Post(e) ==
    /\ event_queue' = [event_queue EXCEPT ![queue_head] = e]
    /\ queue_head' = (queue_head + 1) % QUEUE_SIZE
    /\ queue_count' = queue_count + 1
    /\ torn' = (torn \/ loop.pc = "loaded")
    /\ posted' = IF torn' THEN <<>> ELSE Append(posted, e)

(***************************************************************************)
(* maya_input_add_key_event_callback, for a press with scancode 0.         *)
(***************************************************************************)
maya_input_add_key_event(c) ==
    IF Full THEN UNCHANGED queueVars ELSE Post(c)

\* Mutant: the last free slot is used too, and a full buffer looks empty.
buffer_push_unchecked(c) ==
    /\ buffer' = [buffer EXCEPT ![kb_head] = c]
    /\ kb_head' = (kb_head + 1) % KEYBOARD_BUFFER_SIZE
    /\ typed' = Append(typed, c)

(***************************************************************************)
(* keyboard_buffer_push: one slot always stays free.                       *)
(***************************************************************************)
keyboard_buffer_push(c) ==
    LET next == (kb_head + 1) % KEYBOARD_BUFFER_SIZE
    IN  IF next # kb_tail
        THEN /\ buffer' = [buffer EXCEPT ![kb_head] = c]
             /\ kb_head' = next
             /\ typed' = Append(typed, c)
        ELSE UNCHANGED <<buffer, kb_head, typed>>

(***************************************************************************)
(* The character of a letter key under shift and caps lock.                *)
(***************************************************************************)
Letter == IF keyboard.shift_pressed = keyboard.caps_lock THEN "lower" ELSE "upper"

(***************************************************************************)
(* keyboard_handler on a shift key, on caps lock, and on a key with a      *)
(* character.  Num lock and scroll lock are only reported; they and the    *)
(* releases of other keys change nothing here.                             *)
(***************************************************************************)
keyboard_shift(pressed) ==
    /\ mode # "mouse"
    /\ keyboard' = [keyboard EXCEPT !.shift_pressed = pressed]
    /\ UNCHANGED <<mode, buffer, kb_head, kb_tail, typed, reader, mouse, queueVars, queue_tail,
                   pointer, loop, open, search_len>>

keyboard_caps_lock ==
    /\ mode # "mouse"
    /\ keyboard' = [keyboard EXCEPT !.caps_lock = ~@]
    /\ UNCHANGED <<mode, buffer, kb_head, kb_tail, typed, reader, mouse, queueVars, queue_tail,
                   pointer, loop, open, search_len>>

keyboard_char ==
    /\ mode # "mouse"
    /\ \E c \in {Letter, "backspace"} :
           /\ keyboard_buffer_push(c)
           /\ IF mode = "keys" THEN maya_input_add_key_event(c) ELSE UNCHANGED queueVars
    /\ UNCHANGED <<mode, keyboard, kb_tail, reader, mouse, queue_tail, pointer, loop, open, search_len>>

(***************************************************************************)
(* keyboard_buffer_pop, from keyboard_get_char or keyboard_read: the       *)
(* character is read, then the tail is advanced.                           *)
(***************************************************************************)
pop_reads ==
    /\ mode = "text"
    /\ reader = None
    /\ kb_tail # kb_head
    /\ reader' = buffer[kb_tail]
    /\ UNCHANGED <<mode, keyboardVars, mouse, queueVars, queue_tail, pointer, loop, open, search_len>>

pop_removes ==
    /\ reader # None
    /\ kb_tail' = (kb_tail + 1) % KEYBOARD_BUFFER_SIZE
    /\ reader' = None
    /\ typed' = Tail(typed)
    /\ UNCHANGED <<mode, keyboard, buffer, kb_head, mouse, queueVars, queue_tail, pointer, loop,
                   open, search_len>>

-----------------------------------------------------------------------------
(***************************************************************************)
(* maya_input_add_mouse_event: a report that moves the pointer is a move,  *)
(* also when a button changed with it.  Whether a click is the second of a *)
(* double click depends on time and place and is left open.                *)
(***************************************************************************)
maya_input_add_mouse_event(x, buttons) ==
    IF Full \/ (x = pointer.x /\ buttons = pointer.buttons)
    THEN UNCHANGED <<queueVars, pointer>>
    ELSE LET e == IF x # pointer.x THEN "move"
                  ELSE IF buttons > pointer.buttons THEN "click" ELSE "release"
         IN  /\ Post(e)
             /\ \E double \in IF e = "click" THEN BOOLEAN ELSE {pointer.double} :
                    pointer' = [x |-> x, buttons |-> buttons, double |-> double]

(***************************************************************************)
(* The pointer stays on the screen.                                        *)
(***************************************************************************)
Clamp(x) == IF x < 0 THEN 0 ELSE IF x >= SCREEN_WIDTH THEN SCREEN_WIDTH - 1 ELSE x

(***************************************************************************)
(* mouse_handler: three bytes make a packet.  A first byte without the     *)
(* sync bit is dropped and changes nothing.                                *)
(***************************************************************************)
mouse_first ==
    /\ mode = "mouse"
    /\ mouse.cycle = 0
    /\ \E down \in {0, 1} : mouse' = [mouse EXCEPT !.cycle = 1, !.down = down]
    /\ UNCHANGED <<mode, keyboardVars, kb_tail, reader, queueVars, queue_tail, pointer, loop, open, search_len>>

mouse_second ==
    /\ mouse.cycle = 1
    /\ \E m \in -1 .. 1 : mouse' = [mouse EXCEPT !.cycle = 2, !.x_mov = m]
    /\ UNCHANGED <<mode, keyboardVars, kb_tail, reader, queueVars, queue_tail, pointer, loop, open, search_len>>

mouse_third ==
    /\ mouse.cycle = 2
    /\ LET x == Clamp(mouse.x + mouse.x_mov)
       IN  /\ mouse' = [x |-> x, buttons |-> mouse.down, cycle |-> 0, down |-> 0, x_mov |-> 0]
           /\ maya_input_add_mouse_event(x, mouse.down)
    /\ UNCHANGED <<mode, keyboardVars, kb_tail, reader, queue_tail, loop, open, search_len>>

-----------------------------------------------------------------------------
(***************************************************************************)
(* The main loop of kernel_main and maya_input_get_event.                  *)
(***************************************************************************)
loop_copies ==
    /\ loop.pc = "poll"
    /\ queue_count > 0
    /\ loop' = [loop EXCEPT !.pc = "copied", !.event = event_queue[queue_tail]]
    /\ UNCHANGED <<mode, keyboardVars, kb_tail, reader, mouse, queueVars, queue_tail, pointer, open, search_len>>

loop_advances ==
    /\ loop.pc = "copied"
    /\ queue_tail' = (queue_tail + 1) % QUEUE_SIZE
    /\ loop' = [loop EXCEPT !.pc = "advanced"]
    /\ UNCHANGED <<mode, keyboardVars, kb_tail, reader, mouse, queueVars, pointer, open, search_len>>

loop_loads ==
    /\ loop.pc = "advanced"
    /\ loop' = [loop EXCEPT !.pc = "loaded", !.register = queue_count]
    /\ UNCHANGED <<mode, keyboardVars, kb_tail, reader, mouse, queueVars, queue_tail, pointer, open, search_len>>

\* Mutant: the count is not decremented.
loop_store_forgotten ==
    /\ loop.pc = "loaded"
    /\ loop' = [loop EXCEPT !.pc = "taken", !.register = 0]
    /\ posted' = IF torn THEN <<>> ELSE Tail(posted)
    /\ UNCHANGED <<mode, keyboardVars, kb_tail, reader, mouse, event_queue, queue_head, queue_count,
                   queue_tail, torn, pointer, open, search_len>>

loop_stores ==
    /\ loop.pc = "loaded"
    /\ queue_count' = loop.register - 1
    /\ loop' = [loop EXCEPT !.pc = "taken", !.register = 0]
    /\ posted' = IF torn THEN <<>> ELSE Tail(posted)
    /\ UNCHANGED <<mode, keyboardVars, kb_tail, reader, mouse, event_queue, queue_head, queue_tail,
                   torn, pointer, open, search_len>>

(***************************************************************************)
(* desktop_handle_start_menu_input of a key press.                         *)
(***************************************************************************)
SearchAfter(c) ==
    IF "start_menu" \notin open THEN search_len
    ELSE IF c = "backspace" THEN (IF search_len > 0 THEN search_len - 1 ELSE 0)
    ELSE IF search_len < MAX_SEARCH THEN search_len + 1
    ELSE search_len

loop_handles ==
    /\ loop.pc = "taken"
    /\ search_len' = IF loop.event \in Char THEN SearchAfter(loop.event) ELSE search_len
    /\ loop' = [loop EXCEPT !.pc = "poll", !.event = None]
    /\ UNCHANGED <<mode, keyboardVars, kb_tail, reader, mouse, queueVars, queue_tail, pointer, open>>

-----------------------------------------------------------------------------
(***************************************************************************)
(* desktop_toggle_start_menu and the toggles of the three flyouts, from a  *)
(* click on the taskbar: the one that opens closes the others.             *)
(***************************************************************************)
toggled(o) == IF o \in open THEN open \ {o} ELSE {o}

taskbar_handle_click(o) ==
    /\ mode = "keys"
    /\ loop.pc = "poll"
    /\ open' = toggled(o)
    /\ search_len' = IF o = "start_menu" THEN 0 ELSE search_len
    /\ UNCHANGED <<mode, keyboardVars, kb_tail, reader, mouse, queueVars, queue_tail, pointer, loop>>

-----------------------------------------------------------------------------
Interrupt ==
    \/ \E pressed \in BOOLEAN : keyboard_shift(pressed)
    \/ keyboard_caps_lock
    \/ keyboard_char
    \/ mouse_first \/ mouse_second \/ mouse_third

MainLoop == loop_copies \/ loop_advances \/ loop_loads \/ loop_stores \/ loop_handles

Reader == pop_reads \/ pop_removes

InputNext == Interrupt \/ MainLoop \/ Reader \/ \E o \in Overlay : taskbar_handle_click(o)

InputSpec == InputInit /\ [][InputNext]_inputVars

-----------------------------------------------------------------------------
(***************************************************************************)
(* The n slots of ring r from slot from on.                                *)
(***************************************************************************)
Slots(r, size, from, n) == [i \in 1 .. n |-> r[(from + i - 1) % size]]

(***************************************************************************)
(* The keyboard buffer is a queue: the characters from tail to head are    *)
(* those typed and not yet popped, in their order, although the handler    *)
(* may run between the two accesses of keyboard_buffer_pop.                *)
(***************************************************************************)
KeyboardIsQueue ==
    /\ typed = Slots(buffer, KEYBOARD_BUFFER_SIZE, kb_tail,
                     (kb_head - kb_tail) % KEYBOARD_BUFFER_SIZE)
    /\ reader # None => reader = Head(typed)

(***************************************************************************)
(* Until a handler runs between the load and the store of queue_count, the *)
(* events of the queue are those posted and not yet taken, in their order. *)
(***************************************************************************)
EventsAreQueue ==
    ~torn =>
        LET from == IF loop.pc \in {"advanced", "loaded"}
                    THEN queue_tail + QUEUE_SIZE - 1 ELSE queue_tail
        IN  posted = Slots(event_queue, QUEUE_SIZE, from, queue_count)

=============================================================================
