------------------------------- MODULE Desktop -------------------------------
(***************************************************************************)
(* What acts on the stack of windows: the applications that keep pointers  *)
(* into it (gui/desktop.c, gui/apps/) and the task view (gui/taskview.c).  *)
(*                                                                         *)
(* The shortcuts of gui/input.c open the task view.  The drivers pass scan *)
(* code 0, with which none of them acts; the functions are modelled as     *)
(* they are written.  Alt + F4, which would close a window inside the      *)
(* keyboard interrupt, is left out.                                        *)
(*                                                                         *)
(* Of the applications the hardware manager focuses the window it opened   *)
(* before; the others open a new window at each launch.  The flags running *)
(* of an application and the virtual desktops are only drawn and are left  *)
(* out.                                                                    *)
(***************************************************************************)
EXTENDS Windows

VARIABLES hw_win,        \* hardware_manager.c: the window it opened
          tv,            \* taskview.c: the task view
          misused        \* a window_t that was freed has been used as a window

vars == <<windows, focused, mem, live, hw_win, tv, misused>>

TypeOK ==
    /\ WindowsTypeOK
    /\ hw_win \in Window \cup {NULL}
    /\ tv \in [visible : BOOLEAN, alt_tab : BOOLEAN, focused_idx : 0 .. MAX_WINDOWS - 1]
    /\ misused \in BOOLEAN

(***************************************************************************)
(* The other fields are set again by taskview_open.                        *)
(***************************************************************************)
taskview_close == [visible |-> FALSE, alt_tab |-> FALSE, focused_idx |-> 0]

Init ==
    /\ WindowsInit
    /\ hw_win = NULL
    /\ tv = taskview_close
    /\ misused = FALSE

(***************************************************************************)
(* Launch of an application that opens a window each time.                 *)
(***************************************************************************)
app_init(w) ==
    /\ window_create(w) \/ window_create_fails(w)
    /\ UNCHANGED <<hw_win, tv, misused>>

(***************************************************************************)
(* hardware_manager_init, as launched from its icon or menu entry.  The    *)
(* pointer is not cleared when the window is closed.                       *)
(***************************************************************************)
hardware_manager_opens(w) ==
    /\ hw_win = NULL
    /\ \/ window_create(w) /\ hw_win' = w
       \/ window_create_fails(w) /\ UNCHANGED hw_win
    /\ UNCHANGED <<tv, misused>>

hardware_manager_focuses ==
    /\ hw_win # NULL
    /\ window_focus(hw_win, FALSE)
    /\ misused' = (misused \/ hw_win \notin live)
    /\ UNCHANGED <<hw_win, tv>>

(***************************************************************************)
(* desktop_launch_application.                                             *)
(***************************************************************************)
Launch ==
    \/ \E w \in Window : app_init(w) \/ hardware_manager_opens(w)
    \/ hardware_manager_focuses

-----------------------------------------------------------------------------
(***************************************************************************)
(* window_handle_mouse.                                                    *)
(***************************************************************************)
Mouse ==
    /\ \/ \E w \in Window :
              \/ mouse_close(w)
              \/ \E memory \in BOOLEAN : mouse_maximize(w, memory)
              \/ mouse_title(w)
       \/ mouse_drag
       \/ mouse_release
    /\ UNCHANGED <<hw_win, tv, misused>>

-----------------------------------------------------------------------------
taskview_open(alt_tab) ==
    /\ tv' = [visible |-> TRUE, alt_tab |-> alt_tab, focused_idx |-> 0]
    /\ UNCHANGED <<windowVars, hw_win, misused>>

(***************************************************************************)
(* taskview_handle_key: right and left move through the windows there are  *)
(* now; the index may be beyond them when windows were closed meanwhile.   *)
(***************************************************************************)
Count == IF windows = <<>> THEN 1 ELSE Len(windows)

taskview_arrow ==
    /\ tv.visible
    /\ \/ tv' = [tv EXCEPT !.focused_idx = (@ + 1) % Count]
       \/ tv' = [tv EXCEPT !.focused_idx =
                     IF windows = <<>> THEN 0 ELSE (@ + Len(windows) - 1) % Count]
    /\ UNCHANGED <<windowVars, hw_win, misused>>

(***************************************************************************)
(* Enter in taskview_handle_key: the window with the index is focused, if  *)
(* there is one.                                                           *)
(***************************************************************************)
taskview_enter ==
    /\ tv.visible
    /\ IF tv.focused_idx < Len(windows)
       THEN window_focus(windows[tv.focused_idx + 1], FALSE)
       ELSE UNCHANGED windowVars
    /\ tv' = taskview_close
    /\ UNCHANGED <<hw_win, misused>>

(***************************************************************************)
(* taskview_handle_mouse with a button down: on a card of the full view;   *)
(* elsewhere, or anywhere in the compact view, the view is closed, as by   *)
(* the escape key.                                                         *)
(***************************************************************************)
taskview_card ==
    /\ tv.visible
    /\ ~tv.alt_tab
    /\ \E i \in 1 .. Len(windows) : window_focus(windows[i], FALSE)
    /\ tv' = taskview_close
    /\ UNCHANGED <<hw_win, misused>>

taskview_leave ==
    /\ tv.visible
    /\ tv' = taskview_close
    /\ UNCHANGED <<windowVars, hw_win, misused>>

-----------------------------------------------------------------------------
Next ==
    \/ Launch
    \/ Mouse
    \/ \E alt_tab \in BOOLEAN : taskview_open(alt_tab)
    \/ taskview_arrow
    \/ taskview_enter
    \/ taskview_card
    \/ taskview_leave

Spec == Init /\ [][Next]_vars

-----------------------------------------------------------------------------
(***************************************************************************)
(* The list holds exactly the allocated windows, each once, and the id of  *)
(* a window is its slot, whatever was created, closed, raised or used      *)
(* after it was freed (window_create, window_destroy, window_focus).       *)
(***************************************************************************)
IdIsSlot ==
    /\ ToSet(windows) = live
    /\ \A i \in 1 .. Len(windows) : mem[windows[i]].id = i - 1

(***************************************************************************)
(* The focused window is the top of the stack, and there is one whenever a *)
(* window is open, as long as nobody used a window that was closed.        *)
(***************************************************************************)
FocusedIsTop ==
    ~misused => focused = IF windows = <<>> THEN NULL ELSE Last(windows)

=============================================================================
