------------------------------- MODULE Windows -------------------------------
(***************************************************************************)
(* The window manager, gui/window.c: the stack of windows from bottom to   *)
(* top, the focused window and the mouse handler.                          *)
(*                                                                         *)
(* A window_t pointer is an element of Window, an address that kmalloc may *)
(* return.  Freed memory keeps its contents, so that a pointer that an     *)
(* application keeps can dangle.  Of the position and size of a window the *)
(* field place keeps what decides which windows the pointer can reach:     *)
(* "screen" is as large as the screen and at its corner, "moved" is as     *)
(* large and elsewhere, "normal" is smaller.  Pixels, titles and widgets   *)
(* are left out.  Nothing in the program hides a window, so that every     *)
(* listed window is visible.                                               *)
(***************************************************************************)
EXTENDS Naturals, Sequences, SequencesExt, FiniteSets

CONSTANTS Window,      \* the addresses kmalloc may return for a window_t
          NULL,        \* the null pointer
          MAX_WINDOWS  \* size of wm.windows

ASSUME WindowsAssumption ==
    /\ NULL \notin Window
    /\ MAX_WINDOWS \in Nat \ {0}

VARIABLES windows,  \* wm.windows[0 .. window_count - 1], bottom to top
          focused,  \* wm.focused_window
          mem,      \* the contents of the window_t at each address
          live      \* the addresses that hold an allocated window_t

windowVars == <<windows, focused, mem, live>>

Place == {"normal", "screen", "moved"}

Window_t == [id        : 0 .. MAX_WINDOWS - 1,
             dragging  : BOOLEAN,
             maximized : BOOLEAN,
             place     : Place]

WindowsTypeOK ==
    /\ windows \in Seq(Window)
    /\ Len(windows) <= MAX_WINDOWS
    /\ focused \in Window \cup {NULL}
    /\ mem \in [Window -> Window_t]
    /\ live \in SUBSET Window

(***************************************************************************)
(* window_manager_init.  Memory never allocated holds some fixed contents. *)
(***************************************************************************)
WindowsInit ==
    /\ windows = <<>>
    /\ focused = NULL
    /\ mem = [w \in Window |-> [id |-> 0, dragging |-> FALSE,
                                maximized |-> FALSE, place |-> "normal"]]
    /\ live = {}

-----------------------------------------------------------------------------
(***************************************************************************)
(* The slot of list t (counted from 1) that holds w.                       *)
(***************************************************************************)
SlotOf(t, w) == SelectInSeq(t, LAMBDA v : v = w)

\* Mutant: the windows that move down keep their ids.
IdsKept(t, k) == mem

(***************************************************************************)
(* The memory contents after the windows that list t holds from slot k on  *)
(* were numbered by their slots.                                           *)
(***************************************************************************)
Numbered(t, k) ==
    [w \in Window |-> IF \E i \in k .. Len(t) : t[i] = w
                      THEN [mem[w] EXCEPT !.id = SlotOf(t, w) - 1]
                      ELSE mem[w]]

NewWindow(id) ==
    [id |-> id, dragging |-> FALSE, maximized |-> FALSE, place |-> "normal"]

(***************************************************************************)
(* window_create returning w: it is appended, and then focused, which      *)
(* leaves it where it is.                                                  *)
(***************************************************************************)
window_create(w) ==
    /\ Len(windows) < MAX_WINDOWS
    /\ w \in Window \ live
    /\ live' = live \cup {w}
    /\ mem' = [mem EXCEPT ![w] = NewWindow(Len(windows))]
    /\ windows' = Append(windows, w)
    /\ focused' = w

(***************************************************************************)
(* window_create when there is memory for the window_t at w and none for   *)
(* its buffer: window_count is decremented again.                          *)
(***************************************************************************)
window_create_fails(w) ==
    /\ Len(windows) < MAX_WINDOWS
    /\ w \in Window \ live
    /\ mem' = [mem EXCEPT ![w] = NewWindow(Len(windows))]
    /\ UNCHANGED <<windows, focused, live>>

(***************************************************************************)
(* window_destroy.                                                         *)
(***************************************************************************)
window_destroy(w) ==
    LET rest == IF Contains(windows, w)
                THEN RemoveAt(windows, SlotOf(windows, w))
                ELSE windows
    IN  /\ windows' = rest
        /\ mem' = IF Contains(windows, w) THEN Numbered(rest, SlotOf(windows, w)) ELSE mem
        /\ focused' = IF focused # w THEN focused
                      ELSE IF rest = <<>> THEN NULL ELSE Last(rest)
        /\ live' = live \ {w}

(***************************************************************************)
(* The list with the listed window w moved to the top.                     *)
(***************************************************************************)
Raised(w) == Append(RemoveAt(windows, SlotOf(windows, w)), w)

\* Mutant: the focused window stays where it is in the stack.
NotRaised(w, drag) ==
    /\ focused' = w
    /\ mem' = [mem EXCEPT ![w].dragging = mem[w].dragging \/ drag]
    /\ UNCHANGED <<windows, live>>

(***************************************************************************)
(* window_focus; with drag the caller then starts to drag the window.  A   *)
(* pointer that is not listed is focused all the same.                     *)
(***************************************************************************)
window_focus(w, drag) ==
    LET raise    == focused # w /\ Contains(windows, w)
        numbered == IF raise THEN Numbered(Raised(w), SlotOf(windows, w)) ELSE mem
    IN  /\ windows' = IF raise THEN Raised(w) ELSE windows
        /\ focused' = w
        /\ mem' = [numbered EXCEPT ![w].dragging = @ \/ drag]
        /\ UNCHANGED live

(***************************************************************************)
(* The windows that the pointer can be over: no window above covers all.   *)
(***************************************************************************)
Reachable ==
    {w \in ToSet(windows) :
        \A i \in 1 .. Len(windows) :
            i > SlotOf(windows, w) => mem[windows[i]].place # "screen"}

(***************************************************************************)
(* window_handle_mouse with the left button on the close button of w.      *)
(***************************************************************************)
mouse_close(w) ==
    /\ w \in Reachable
    /\ window_destroy(w)

(***************************************************************************)
(* window_resize of w to the size of the screen or to a smaller one: there *)
(* may be no memory for the buffer, and the size then stays.               *)
(***************************************************************************)
window_resize(w, large, memory) == IF memory THEN large ELSE mem[w].place # "normal"

(***************************************************************************)
(* The same on the maximize button: state and position are changed in any  *)
(* case, the size by window_resize.                                        *)
(***************************************************************************)
mouse_maximize(w, memory) ==
    /\ w \in Reachable
    /\ LET maximize == ~mem[w].maximized
           corner   == IF maximize THEN "screen" ELSE "moved"
       IN  mem' = [mem EXCEPT ![w].maximized = maximize,
                              ![w].place = IF window_resize(w, maximize, memory)
                                           THEN corner ELSE "normal"]
    /\ UNCHANGED <<windows, focused, live>>

(***************************************************************************)
(* The same on the rest of the title bar, where the minimize button is     *)
(* too.  The test for the resize corner is never true there: the title bar *)
(* is 20 high and a window at least 50.                                    *)
(***************************************************************************)
mouse_title(w) ==
    /\ w \in Reachable
    /\ ~mem[w].dragging
    /\ window_focus(w, TRUE)

(***************************************************************************)
(* window_handle_mouse when the pointer is over no window: the focused     *)
(* window follows it, or is let go when the button is up.                  *)
(***************************************************************************)
OverNothing == \A w \in ToSet(windows) : mem[w].place # "screen"

mouse_drag ==
    /\ OverNothing
    /\ focused # NULL
    /\ mem[focused].dragging
    /\ \E p \in IF mem[focused].place = "normal" THEN {"normal"} ELSE {"screen", "moved"} :
           mem' = [mem EXCEPT ![focused].place = p]
    /\ UNCHANGED <<windows, focused, live>>

mouse_release ==
    /\ OverNothing
    /\ focused # NULL
    /\ mem[focused].dragging
    /\ mem' = [mem EXCEPT ![focused].dragging = FALSE]
    /\ UNCHANGED <<windows, focused, live>>

=============================================================================
