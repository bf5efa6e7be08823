---------------------------- MODULE DesktopProofs ----------------------------
(***************************************************************************)
(* Theorems about Desktop, for any number of windows.                      *)
(***************************************************************************)
EXTENDS Desktop, Input, SequenceLemmas

Top == IF windows = <<>> THEN NULL ELSE Last(windows)

(***************************************************************************)
(* The inductive invariant: types, and the ids that keep the list free of  *)
(* repetitions, without which a window that leaves its slot could still be *)
(* listed in another.                                                      *)
(***************************************************************************)
StackInv == WindowsTypeOK /\ IdIsSlot

\* What a step of the window manager keeps, and keeps of the focus.
Keeps == StackInv' /\ (focused = Top => focused' = Top')

\* The allocated windows are those of the list.
LEMMA ListedIsLive == IdIsSlot => \A w : Contains(windows, w) <=> w \in live
BY DEF IdIsSlot, ToSet, Contains

\* The search loops of window_destroy and window_focus find a listed window.
LEMMA SlotFound ==
    ASSUME NEW t \in Seq(Window), NEW w, Contains(t, w)
    PROVE  SlotOf(t, w) \in 1 .. Len(t) /\ t[SlotOf(t, w)] = w
BY FirstIndex, Zenon DEF SlotOf

\* A window with two slots would have two ids.
LEMMA StackDistinct == StackInv => IsInjective(windows)
<1> SUFFICES ASSUME StackInv, NEW i \in 1 .. Len(windows), NEW j \in 1 .. Len(windows),
                    windows[i] = windows[j]
             PROVE  i = j
  BY DEF IsInjective, StackInv, WindowsTypeOK
<1>1. mem[windows[i]].id = i - 1 /\ mem[windows[j]].id = j - 1
  BY DEF StackInv, IdIsSlot
<1> QED BY <1>1

(***************************************************************************)
(* The renumbering loops of window_destroy and window_focus: when the      *)
(* windows below slot k have their ids, all have them afterwards.          *)
(***************************************************************************)
LEMMA NumberedIds ==
    ASSUME mem \in [Window -> Window_t], NEW t \in Seq(Window), Len(t) <= MAX_WINDOWS,
           IsInjective(t), NEW k \in Nat \ {0},
           \A i \in 1 .. Len(t) : i < k => mem[t[i]].id = i - 1
    PROVE  /\ Numbered(t, k) \in [Window -> Window_t]
           /\ \A i \in 1 .. Len(t) : Numbered(t, k)[t[i]].id = i - 1
<1> USE WindowsAssumption
<1>1. ASSUME NEW w \in Window PROVE Numbered(t, k)[w] \in Window_t
  <2>1. CASE \E i \in k .. Len(t) : t[i] = w
    <3>1. Contains(t, w)
      BY <2>1 DEF Contains
    <3>2. SlotOf(t, w) \in 1 .. Len(t)
      BY <3>1, SlotFound
    <3>3. SlotOf(t, w) - 1 \in 0 .. MAX_WINDOWS - 1
      BY <3>2
    <3>4. Numbered(t, k)[w] = [mem[w] EXCEPT !.id = SlotOf(t, w) - 1]
      BY <2>1 DEF Numbered
    <3> QED BY <3>3, <3>4 DEF Window_t
  <2>2. CASE ~\E i \in k .. Len(t) : t[i] = w
    BY <2>2 DEF Numbered
  <2> QED BY <2>1, <2>2
<1>2. Numbered(t, k) \in [Window -> Window_t]
  BY <1>1 DEF Numbered
<1>3. ASSUME NEW i \in 1 .. Len(t) PROVE Numbered(t, k)[t[i]].id = i - 1
  <2>0. t[i] \in Window
    OBVIOUS
  <2>1. CASE i >= k
    <3>1. Contains(t, t[i])
      BY DEF Contains
    <3>2. SlotOf(t, t[i]) \in 1 .. Len(t) /\ t[SlotOf(t, t[i])] = t[i]
      BY <3>1, SlotFound
    <3>3. SlotOf(t, t[i]) = i
      BY <3>2 DEF IsInjective
    <3>4. \E j \in k .. Len(t) : t[j] = t[i]
      BY <2>1
    <3>5. Numbered(t, k)[t[i]] = [mem[t[i]] EXCEPT !.id = i - 1]
      BY <2>0, <3>3, <3>4 DEF Numbered
    <3>6. mem[t[i]] \in Window_t
      BY <2>0
    <3> QED BY <3>5, <3>6 DEF Window_t
  <2>2. CASE i < k
    <3>1. \A j \in k .. Len(t) : t[j] # t[i]
      BY <2>2 DEF IsInjective
    <3>2. Numbered(t, k)[t[i]] = mem[t[i]]
      BY <2>0, <3>1 DEF Numbered
    <3> QED BY <2>2, <3>2
  <2> QED BY <2>1, <2>2
<1> QED BY <1>2, <1>3

(***************************************************************************)
(* What is left of the list without the window of slot k.                  *)
(***************************************************************************)
LEMMA WithoutWindow ==
    ASSUME StackInv, NEW w \in Window, Contains(windows, w)
    PROVE  LET k == SlotOf(windows, w)
               t == RemoveAt(windows, k)
           IN  /\ k \in 1 .. Len(windows) /\ windows[k] = w
               /\ t \in Seq(Window) /\ Len(t) = Len(windows) - 1 /\ IsInjective(t)
               /\ \A v : Contains(t, v) <=> Contains(windows, v) /\ v # w
               /\ \A i \in 1 .. Len(t) : t[i] = IF i < k THEN windows[i] ELSE windows[i + 1]
               /\ \A i \in 1 .. Len(t) : i < k => mem[t[i]].id = i - 1
<1> DEFINE k == SlotOf(windows, w)
           t == RemoveAt(windows, k)
<1>0. windows \in Seq(Window)
  BY DEF StackInv, WindowsTypeOK
<1>1. k \in 1 .. Len(windows) /\ windows[k] = w
  BY <1>0, SlotFound
<1> HIDE DEF k
<1>2. t \in Seq(Window) /\ Len(t) = Len(windows) - 1
  BY <1>0, <1>1, RemoveAtProperties
<1>3. \A i \in 1 .. Len(windows) - 1 : t[i] = IF i < k THEN windows[i] ELSE windows[i + 1]
  BY <1>0, <1>1, RemoveAtProperties
<1>4. IsInjective(windows)
  BY StackDistinct
<1>5. IsInjective(t) /\ \A v : Contains(t, v) <=> Contains(windows, v) /\ v # windows[k]
  BY <1>0, <1>1, <1>4, RemoveAtDistinct, Zenon
<1> HIDE DEF t
<1>6. \A i \in 1 .. Len(t) : i < k => mem[t[i]].id = i - 1
  BY <1>0, <1>1, <1>2, <1>3 DEF StackInv, IdIsSlot
<1> QED BY <1>1, <1>2, <1>3, <1>5, <1>6 DEF k, t

-----------------------------------------------------------------------------
\* A list that has its ids in memory is what IdIsSlot says.
LEMMA StackFrom ==
    ASSUME windows' \in Seq(Window), Len(windows') <= MAX_WINDOWS,
           focused' \in Window \cup {NULL}, mem' \in [Window -> Window_t], live' \in SUBSET Window,
           \A w : Contains(windows', w) <=> w \in live',
           \A i \in 1 .. Len(windows') : mem'[windows'[i]].id = i - 1
    PROVE  StackInv'
<1>1. ToSet(windows') = live'
  BY DEF ToSet, Contains
<1> QED BY <1>1 DEF StackInv, WindowsTypeOK, IdIsSlot

\* The window_t that window_create fills in has the id it was given.
LEMMA NewWindowType ==
    ASSUME NEW id \in 0 .. MAX_WINDOWS - 1
    PROVE  NewWindow(id) \in Window_t /\ NewWindow(id).id = id
BY DEF NewWindow, Window_t, Place

\* window_create puts the new window on top, with the next slot as its id, or fails.
LEMMA CreateKeeps ==
    ASSUME StackInv, NEW w \in Window, window_create(w) \/ window_create_fails(w)
    PROVE  Keeps
<1>0. /\ windows \in Seq(Window) /\ Len(windows) < MAX_WINDOWS /\ Len(windows) \in Nat
      /\ focused \in Window \cup {NULL} /\ mem \in [Window -> Window_t] /\ live \in SUBSET Window
      /\ w \notin live
  BY DEF StackInv, WindowsTypeOK, window_create, window_create_fails
<1>1. \A v : Contains(windows, v) <=> v \in live
  BY ListedIsLive DEF StackInv
<1>2. \A i \in 1 .. Len(windows) : windows[i] \in Window /\ windows[i] # w
  BY <1>0, <1>1 DEF Contains
<1>3. NewWindow(Len(windows)) \in Window_t /\ NewWindow(Len(windows)).id = Len(windows)
  <2>1. Len(windows) \in 0 .. MAX_WINDOWS - 1
    BY <1>0, WindowsAssumption
  <2> QED BY <2>1, NewWindowType
<1>4. /\ mem' \in [Window -> Window_t]
      /\ mem'[w].id = Len(windows)
      /\ \A v \in Window \ {w} : mem'[v] = mem[v]
  BY <1>0, <1>3 DEF window_create, window_create_fails
<1>5. \A i \in 1 .. Len(windows) : mem'[windows[i]].id = i - 1
  BY <1>2, <1>4 DEF StackInv, IdIsSlot
<1>6. CASE window_create(w)
  <2>1. windows' = Append(windows, w) /\ live' = live \cup {w} /\ focused' = w
    BY <1>6 DEF window_create
  <2>2. /\ windows' \in Seq(Window) /\ Len(windows') = Len(windows) + 1
        /\ windows'[Len(windows) + 1] = w
        /\ \A i \in 1 .. Len(windows) : windows'[i] = windows[i]
    BY <1>0, <2>1
  <2>3. \A v : Contains(windows', v) <=> v \in live'
    BY <1>0, <1>1, <2>1, AppendDistinct
  <2>4. \A i \in 1 .. Len(windows') : mem'[windows'[i]].id = i - 1
    BY <1>0, <1>4, <1>5, <2>2
  <2>5. StackInv'
    <3>1. Len(windows') <= MAX_WINDOWS /\ focused' \in Window \cup {NULL} /\ live' \in SUBSET Window
      BY <1>0, <2>1, <2>2, WindowsAssumption
    <3> QED BY <1>4, <2>2, <2>3, <2>4, <3>1, StackFrom, Zenon
  <2>6. focused' = Top'
    BY <1>0, <2>1, <2>2 DEF Top, Last
  <2> QED BY <2>5, <2>6 DEF Keeps
<1>7. CASE window_create_fails(w)
  <2>1. windows' = windows /\ focused' = focused /\ live' = live
    BY <1>7 DEF window_create_fails
  <2>2. StackInv'
    BY <1>4, <1>5, <2>1 DEF StackInv, WindowsTypeOK, IdIsSlot
  <2> QED BY <2>1, <2>2 DEF Keeps, Top
<1> QED BY <1>6, <1>7

\* window_destroy renumbers what was above, and the new top has the focus.
LEMMA DestroyKeeps ==
    ASSUME StackInv, NEW w \in Window, window_destroy(w)
    PROVE  Keeps
<1>0. /\ windows \in Seq(Window) /\ Len(windows) <= MAX_WINDOWS /\ Len(windows) \in Nat
      /\ focused \in Window \cup {NULL} /\ mem \in [Window -> Window_t] /\ live \in SUBSET Window
  BY DEF StackInv, WindowsTypeOK
<1>1. \A v : Contains(windows, v) <=> v \in live
  BY ListedIsLive DEF StackInv
<1>2. CASE ~Contains(windows, w)
  <2>1. /\ windows' = windows /\ mem' = mem /\ live' = live
        /\ focused' = IF focused # w THEN focused ELSE IF windows = <<>> THEN NULL ELSE Last(windows)
    BY <1>1, <1>2 DEF window_destroy
  <2>2. windows # <<>> => Last(windows) \in Window
    BY <1>0 DEF Last
  <2>3. focused' \in Window \cup {NULL}
    BY <1>0, <2>1, <2>2
  <2>4. StackInv'
    BY <1>0, <1>1, <2>1, <2>3, StackFrom DEF StackInv, IdIsSlot
  <2> QED BY <2>1, <2>4 DEF Keeps, Top
<1>3. CASE Contains(windows, w)
  <2> DEFINE k == SlotOf(windows, w)
             t == RemoveAt(windows, k)
  <2>1. /\ k \in 1 .. Len(windows) /\ windows[k] = w
        /\ t \in Seq(Window) /\ Len(t) = Len(windows) - 1 /\ IsInjective(t)
        /\ \A v : Contains(t, v) <=> Contains(windows, v) /\ v # w
        /\ \A i \in 1 .. Len(t) : t[i] = IF i < k THEN windows[i] ELSE windows[i + 1]
        /\ \A i \in 1 .. Len(t) : i < k => mem[t[i]].id = i - 1
    BY <1>3, WithoutWindow, Zenon
  <2>2. /\ windows' = t /\ mem' = Numbered(t, k) /\ live' = live \ {w}
        /\ focused' = IF focused # w THEN focused ELSE IF t = <<>> THEN NULL ELSE Last(t)
    BY <1>3 DEF window_destroy
  <2> HIDE DEF k, t
  <2>3. mem' \in [Window -> Window_t] /\ \A i \in 1 .. Len(t) : mem'[t[i]].id = i - 1
    <3>1. Len(t) <= MAX_WINDOWS /\ k \in Nat \ {0}
      BY <1>0, <2>1, WindowsAssumption
    <3>2. /\ Numbered(t, k) \in [Window -> Window_t]
          /\ \A i \in 1 .. Len(t) : Numbered(t, k)[t[i]].id = i - 1
      BY <1>0, <2>1, <3>1, NumberedIds, Zenon
    <3> QED BY <2>2, <3>2, Zenon
  <2>4. \A v : Contains(windows', v) <=> v \in live'
    BY <1>1, <2>1, <2>2, Zenon
  <2>5. t # <<>> => Last(t) \in Window
    BY <2>1 DEF Last
  <2>6. focused' \in Window \cup {NULL}
    BY <1>0, <2>2, <2>5
  <2>7. StackInv'
    <3>1. windows' \in Seq(Window) /\ Len(windows') <= MAX_WINDOWS /\ live' \in SUBSET Window
      BY <1>0, <2>1, <2>2, WindowsAssumption
    <3>2. \A i \in 1 .. Len(windows') : mem'[windows'[i]].id = i - 1
      BY <2>2, <2>3
    <3> QED BY <2>3, <2>4, <2>6, <3>1, <3>2, StackFrom, Zenon
  <2>8. ASSUME focused = Top PROVE focused' = Top'
    <3>1. CASE focused = w
      BY <2>2, <3>1 DEF Top
    <3>2. CASE focused # w
      <4>1. focused = windows[Len(windows)] /\ k < Len(windows)
        BY <1>0, <2>1, <2>8, <3>2 DEF Top, Last
      <4>2. Len(t) > 0 /\ t[Len(t)] = windows[Len(windows)]
        BY <1>0, <2>1, <4>1
      <4> QED BY <2>1, <2>2, <3>2, <4>1, <4>2 DEF Top, Last
    <3> QED BY <3>1, <3>2
  <2> QED BY <2>7, <2>8 DEF Keeps
<1> QED BY <1>2, <1>3

\* Writing a window_t with the same id keeps types and ids.
LEMMA FieldKept ==
    ASSUME NEW m \in [Window -> Window_t], NEW w \in Window, NEW r \in Window_t, r.id = m[w].id
    PROVE  /\ [m EXCEPT ![w] = r] \in [Window -> Window_t]
           /\ \A v \in Window : [m EXCEPT ![w] = r][v].id = m[v].id
OBVIOUS

\* The fields that the mouse handler writes.
LEMMA FieldTypes ==
    ASSUME NEW r \in Window_t, NEW d \in BOOLEAN, NEW p \in Place
    PROVE  /\ [r EXCEPT !.dragging = d] \in Window_t /\ [r EXCEPT !.dragging = d].id = r.id
           /\ [r EXCEPT !.maximized = d] \in Window_t /\ [r EXCEPT !.maximized = d].id = r.id
           /\ [r EXCEPT !.place = p] \in Window_t /\ [r EXCEPT !.place = p].id = r.id
<1>1. [r EXCEPT !.dragging = d] \in Window_t /\ [r EXCEPT !.dragging = d].id = r.id
  BY DEF Window_t
<1>2. [r EXCEPT !.maximized = d] \in Window_t /\ [r EXCEPT !.maximized = d].id = r.id
  BY DEF Window_t
<1>3. [r EXCEPT !.place = p] \in Window_t /\ [r EXCEPT !.place = p].id = r.id
  BY DEF Window_t
<1> QED BY <1>1, <1>2, <1>3, Zenon

\* window_focus moves a listed window to the top; of a freed one only the list is kept.
LEMMA FocusKeeps ==
    ASSUME StackInv, NEW w \in Window, NEW drag \in BOOLEAN, window_focus(w, drag)
    PROVE  StackInv' /\ (w \in live /\ focused = Top => focused' = Top')
<1>0. /\ windows \in Seq(Window) /\ Len(windows) <= MAX_WINDOWS /\ Len(windows) \in Nat
      /\ focused \in Window \cup {NULL} /\ mem \in [Window -> Window_t] /\ live \in SUBSET Window
  BY DEF StackInv, WindowsTypeOK
<1>1. \A v : Contains(windows, v) <=> v \in live
  BY ListedIsLive DEF StackInv
<1>2. focused' = w /\ live' = live
  BY DEF window_focus
<1>3. ASSUME NEW m \in [Window -> Window_t], mem' = [m EXCEPT ![w].dragging = @ \/ drag]
      PROVE  mem' \in [Window -> Window_t] /\ \A v \in Window : mem'[v].id = m[v].id
  <2> DEFINE r == [m[w] EXCEPT !.dragging = @ \/ drag]
  <2>1. r \in Window_t /\ r.id = m[w].id
    <3>1. m[w] \in Window_t /\ (m[w].dragging \/ drag) \in BOOLEAN
      BY Zenon
    <3> QED BY <3>1 DEF Window_t
  <2>2. mem' = [m EXCEPT ![w] = r]
    BY <1>3, Zenon
  <2> HIDE DEF r
  <2>3. /\ [m EXCEPT ![w] = r] \in [Window -> Window_t]
        /\ \A v \in Window : [m EXCEPT ![w] = r][v].id = m[v].id
    BY <2>1, FieldKept
  <2> QED BY <2>2, <2>3, Zenon
<1>4. CASE focused = w \/ ~Contains(windows, w)
  <2>1. windows' = windows /\ mem' = [mem EXCEPT ![w].dragging = @ \/ drag]
    BY <1>4 DEF window_focus
  <2>2. mem' \in [Window -> Window_t] /\ \A v \in Window : mem'[v].id = mem[v].id
    BY <1>0, <1>3, <2>1
  <2>3. StackInv'
    BY <1>0, <1>2, <2>1, <2>2 DEF StackInv, WindowsTypeOK, IdIsSlot
  <2>4. ASSUME w \in live, focused = Top PROVE focused' = Top'
    BY <1>1, <1>2, <1>4, <2>1, <2>4 DEF Top
  <2> QED BY <2>3, <2>4
<1>5. CASE focused # w /\ Contains(windows, w)
  <2> DEFINE k == SlotOf(windows, w)
             t == RemoveAt(windows, k)
             u == Append(t, w)
  <2>1. /\ k \in 1 .. Len(windows) /\ windows[k] = w
        /\ t \in Seq(Window) /\ Len(t) = Len(windows) - 1 /\ IsInjective(t)
        /\ \A v : Contains(t, v) <=> Contains(windows, v) /\ v # w
        /\ \A i \in 1 .. Len(t) : t[i] = IF i < k THEN windows[i] ELSE windows[i + 1]
        /\ \A i \in 1 .. Len(t) : i < k => mem[t[i]].id = i - 1
    BY <1>5, WithoutWindow, Zenon
  <2>2. windows' = u /\ mem' = [Numbered(u, k) EXCEPT ![w].dragging = @ \/ drag]
    BY <1>5 DEF window_focus, Raised
  <2> HIDE DEF k, t
  <2>3. /\ u \in Seq(Window) /\ Len(u) = Len(windows) /\ u[Len(windows)] = w
        /\ \A i \in 1 .. Len(t) : u[i] = t[i]
    BY <1>0, <2>1
  <2>4. IsInjective(u) /\ \A v : Contains(u, v) <=> Contains(t, v) \/ v = w
    <3>1. ~Contains(t, w)
      BY <2>1, Zenon
    <3> QED BY <2>1, <3>1, AppendDistinct
  <2> HIDE DEF u
  <2>5. \A i \in 1 .. Len(u) : i < k => mem[u[i]].id = i - 1
    <3>1. ASSUME NEW i \in 1 .. Len(u), i < k PROVE i \in 1 .. Len(t) /\ u[i] = t[i]
      BY <1>0, <2>1, <2>3, <3>1
    <3> QED BY <2>1, <3>1, Zenon
  <2>6. /\ Numbered(u, k) \in [Window -> Window_t]
        /\ \A i \in 1 .. Len(u) : Numbered(u, k)[u[i]].id = i - 1
    <3>1. Len(u) <= MAX_WINDOWS /\ k \in Nat \ {0}
      BY <1>0, <2>1, <2>3
    <3> QED BY <1>0, <2>3, <2>4, <2>5, <3>1, NumberedIds, Zenon
  <2>7. mem' \in [Window -> Window_t] /\ \A v \in Window : mem'[v].id = Numbered(u, k)[v].id
    BY <1>3, <2>2, <2>6, Zenon
  <2>8. \A i \in 1 .. Len(windows') : mem'[windows'[i]].id = i - 1
    <3>1. ASSUME NEW i \in 1 .. Len(u) PROVE mem'[u[i]].id = i - 1
      <4>1. u[i] \in Window
        BY <2>3
      <4> QED BY <2>6, <2>7, <4>1, Zenon
    <3> QED BY <2>2, <3>1, Zenon
  <2>9. \A v : Contains(windows', v) <=> v \in live'
    BY <1>1, <1>2, <1>5, <2>1, <2>2, <2>4, Zenon
  <2>10. /\ windows' \in Seq(Window) /\ Len(windows') <= MAX_WINDOWS
         /\ focused' \in Window \cup {NULL} /\ live' \in SUBSET Window
    BY <1>0, <1>2, <2>2, <2>3
  <2>11. StackInv'
    BY <2>7, <2>8, <2>9, <2>10, StackFrom, Zenon
  <2>12. focused' = Top'
    BY <1>0, <1>2, <2>1, <2>2, <2>3 DEF Top, Last
  <2> QED BY <2>11, <2>12
<1> QED BY <1>4, <1>5

\* A window_t is written and the list stays.
LEMMA WriteKeeps ==
    ASSUME StackInv, NEW w \in Window, NEW r \in Window_t, r.id = mem[w].id,
           mem' = [mem EXCEPT ![w] = r], windows' = windows, focused' = focused, live' = live
    PROVE  Keeps
<1>1. mem \in [Window -> Window_t] /\ \A i \in 1 .. Len(windows) : windows[i] \in Window
  BY DEF StackInv, WindowsTypeOK
<1>2. mem' \in [Window -> Window_t] /\ \A v \in Window : mem'[v].id = mem[v].id
  BY <1>1
<1>3. StackInv'
  BY <1>1, <1>2 DEF StackInv, WindowsTypeOK, IdIsSlot
<1> QED BY <1>3 DEF Keeps, Top

\* Each branch of window_handle_mouse keeps the stack and the focus.
LEMMA MouseKeeps == StackInv /\ Mouse => Keeps
<1> SUFFICES ASSUME StackInv, Mouse PROVE Keeps
  OBVIOUS
<1>0. mem \in [Window -> Window_t] /\ focused \in Window \cup {NULL}
  BY DEF StackInv, WindowsTypeOK
<1>1. ASSUME NEW w \in Window, mouse_close(w) PROVE Keeps
  BY <1>1, DestroyKeeps DEF mouse_close
<1>2. ASSUME NEW w \in Window, NEW memory \in BOOLEAN, mouse_maximize(w, memory) PROVE Keeps
  <2> DEFINE x == ~mem[w].maximized
             p == IF window_resize(w, x, memory) THEN IF x THEN "screen" ELSE "moved" ELSE "normal"
             r == [mem[w] EXCEPT !.maximized = x]
             q == [r EXCEPT !.place = p]
  <2>1. /\ mem' = [mem EXCEPT ![w].maximized = x, ![w].place = p]
        /\ windows' = windows /\ focused' = focused /\ live' = live
    BY <1>2, Zenon DEF mouse_maximize
  <2>2. mem' = [mem EXCEPT ![w] = q]
    BY <1>0, <2>1
  <2>3. x \in BOOLEAN /\ mem[w] \in Window_t
    BY <1>0, Zenon
  <2>4. p \in Place
    BY Zenon DEF Place
  <2> HIDE DEF x, p
  <2>5. r \in Window_t /\ r.id = mem[w].id
    BY <2>3, <2>4, FieldTypes
  <2> HIDE DEF r
  <2>6. q \in Window_t /\ q.id = mem[w].id
    BY <2>3, <2>4, <2>5, FieldTypes
  <2> HIDE DEF q
  <2> QED BY <2>1, <2>2, <2>6, WriteKeeps, Zenon
<1>3. ASSUME NEW w \in Window, mouse_title(w) PROVE Keeps
  <2>1. w \in live
    BY <1>3 DEF mouse_title, Reachable, StackInv, IdIsSlot
  <2> QED BY <1>3, <2>1, FocusKeeps DEF mouse_title, Keeps
<1>4. ASSUME mouse_drag PROVE Keeps
  <2>1. PICK p \in Place : mem' = [mem EXCEPT ![focused].place = p]
    BY <1>4 DEF mouse_drag, Place
  <2>2. focused \in Window /\ windows' = windows /\ focused' = focused /\ live' = live
    BY <1>0, <1>4 DEF mouse_drag
  <2> DEFINE r == [mem[focused] EXCEPT !.place = p]
  <2>3. r \in Window_t /\ r.id = mem[focused].id
    BY <1>0, <2>2 DEF Window_t
  <2>4. mem' = [mem EXCEPT ![focused] = r]
    BY <2>1
  <2> HIDE DEF r
  <2> QED BY <2>2, <2>3, <2>4, WriteKeeps, Zenon
<1>5. ASSUME mouse_release PROVE Keeps
  <2>1. /\ focused \in Window /\ windows' = windows /\ focused' = focused /\ live' = live
        /\ mem' = [mem EXCEPT ![focused].dragging = FALSE]
    BY <1>0, <1>5 DEF mouse_release
  <2> DEFINE r == [mem[focused] EXCEPT !.dragging = FALSE]
  <2>2. r \in Window_t /\ r.id = mem[focused].id
    BY <1>0, <2>1 DEF Window_t
  <2>3. mem' = [mem EXCEPT ![focused] = r]
    BY <2>1
  <2> HIDE DEF r
  <2> QED BY <2>1, <2>2, <2>3, WriteKeeps, Zenon
<1> QED BY <1>1, <1>2, <1>3, <1>4, <1>5 DEF Mouse

-----------------------------------------------------------------------------
\* The pointers and the index that select a window.
Selects == hw_win \in Window \cup {NULL} /\ tv \in [visible : BOOLEAN, alt_tab : BOOLEAN, focused_idx : Nat]

DesktopInv == StackInv /\ Selects

\* What the task view is set to when it opens and closes.
LEMMA TaskviewType ==
    /\ taskview_close \in [visible : BOOLEAN, alt_tab : BOOLEAN, focused_idx : Nat]
    /\ \A b \in BOOLEAN : [visible |-> TRUE, alt_tab |-> b, focused_idx |-> 0]
                             \in [visible : BOOLEAN, alt_tab : BOOLEAN, focused_idx : Nat]
BY DEF taskview_close

\* Each step keeps the pointers and the index in their sets.
LEMMA SelectsNext == DesktopInv /\ Next => Selects'
<1> SUFFICES ASSUME DesktopInv, Next PROVE Selects'
  OBVIOUS
<1>1. Len(windows) \in Nat
  BY DEF DesktopInv, StackInv, WindowsTypeOK
<1>2. tv \in [visible : BOOLEAN, alt_tab : BOOLEAN, focused_idx : Nat] /\ hw_win \in Window \cup {NULL}
  BY DEF DesktopInv, Selects
<1>3. CASE Launch
  BY <1>2, <1>3 DEF Launch, app_init, hardware_manager_opens, hardware_manager_focuses, Selects
<1>4. CASE Mouse
  BY <1>2, <1>4 DEF Mouse, Selects
<1>5. ASSUME NEW b \in BOOLEAN, taskview_open(b) PROVE Selects'
  BY <1>2, <1>5, TaskviewType DEF taskview_open, Selects
<1>6. CASE taskview_enter \/ taskview_card \/ taskview_leave
  BY <1>2, <1>6, TaskviewType DEF taskview_enter, taskview_card, taskview_leave, Selects
<1>7. CASE taskview_arrow
  <2>1. Count \in Nat /\ Count > 0
    BY <1>1, EmptySeq DEF Count, DesktopInv, StackInv, WindowsTypeOK
  <2>2. tv.focused_idx \in Nat
    BY <1>2
  <2>3. \A n \in Nat : n % Count \in Nat
    BY <2>1
  <2>4. PICK n \in Nat : tv' = [tv EXCEPT !.focused_idx = n]
    BY <1>1, <1>7, <2>1, <2>2, <2>3 DEF taskview_arrow, Count
  <2> QED BY <1>2, <1>7, <2>4 DEF taskview_arrow, Selects
<1> QED BY <1>3, <1>4, <1>5, <1>6, <1>7 DEF Next

(***************************************************************************)
(* Each step keeps the stack, and the focus on its top unless it makes the *)
(* focused window one that is not allocated.                               *)
(***************************************************************************)
LEMMA StackNext ==
    DesktopInv /\ Next => StackInv' /\ (~misused' => (~misused /\ (focused = Top => focused' = Top')))
<1> SUFFICES ASSUME DesktopInv, Next
             PROVE  StackInv' /\ (~misused' => (~misused /\ (focused = Top => focused' = Top')))
  OBVIOUS
<1>0. StackInv /\ WindowsTypeOK /\ hw_win \in Window \cup {NULL} /\ tv.focused_idx \in Nat
  BY DEF DesktopInv, StackInv, Selects
<1>1. ASSUME Keeps, misused' = misused
      PROVE  StackInv' /\ (~misused' => (~misused /\ (focused = Top => focused' = Top')))
  BY <1>1, Zenon DEF Keeps
<1>2. ASSUME windows' = windows, focused' = focused, mem' = mem, live' = live PROVE Keeps
  BY <1>0, <1>2 DEF Keeps, StackInv, WindowsTypeOK, IdIsSlot, Top
<1>3. CASE \E w \in Window : app_init(w) \/ hardware_manager_opens(w)
  <2>1. PICK w \in Window : (window_create(w) \/ window_create_fails(w)) /\ misused' = misused
    BY <1>3 DEF app_init, hardware_manager_opens
  <2> QED BY <1>0, <1>1, <2>1, CreateKeeps, Zenon
<1>4. CASE hardware_manager_focuses
  <2>1. /\ hw_win \in Window /\ window_focus(hw_win, FALSE)
        /\ misused' = (misused \/ hw_win \notin live)
    BY <1>0, <1>4 DEF hardware_manager_focuses
  <2>2. StackInv' /\ (hw_win \in live /\ focused = Top => focused' = Top')
    BY <1>0, <2>1, FocusKeeps, Zenon
  <2>3. ~misused' => ~misused /\ hw_win \in live
    BY <2>1, Zenon
  <2> QED BY <2>2, <2>3, Zenon
<1>5. CASE Mouse
  BY <1>0, <1>1, <1>5, MouseKeeps DEF Mouse
<1>7. CASE (\E b \in BOOLEAN : taskview_open(b)) \/ taskview_arrow \/ taskview_leave
  <2>1. windows' = windows /\ focused' = focused /\ mem' = mem /\ live' = live /\ misused' = misused
    BY <1>7 DEF taskview_open, taskview_arrow, taskview_leave, windowVars
  <2> QED BY <1>1, <1>2, <2>1, Zenon
<1>8. ASSUME NEW i \in 1 .. Len(windows), window_focus(windows[i], FALSE), misused' = misused
      PROVE  StackInv' /\ (~misused' => (~misused /\ (focused = Top => focused' = Top')))
  <2>1. windows[i] \in Window /\ windows[i] \in live
    BY <1>0, ListedIsLive DEF WindowsTypeOK, StackInv, Contains
  <2>2. StackInv' /\ (focused = Top => focused' = Top')
    BY <1>0, <1>8, <2>1, FocusKeeps, Zenon
  <2> QED BY <1>8, <2>2, Zenon
<1>9. CASE taskview_card
  BY <1>8, <1>9, Zenon DEF taskview_card
<1>10. CASE taskview_enter
  <2>0. misused' = misused
    BY <1>10 DEF taskview_enter
  <2>1. CASE tv.focused_idx < Len(windows)
    <3>1. window_focus(windows[tv.focused_idx + 1], FALSE)
      BY <1>10, <2>1, Zenon DEF taskview_enter
    <3>2. tv.focused_idx + 1 \in 1 .. Len(windows)
      BY <1>0, <2>1 DEF WindowsTypeOK
    <3> QED BY <1>8, <2>0, <3>1, <3>2, Zenon
  <2>2. CASE ~(tv.focused_idx < Len(windows))
    <3>1. windows' = windows /\ focused' = focused /\ mem' = mem /\ live' = live
      BY <1>10, <2>2 DEF taskview_enter, windowVars
    <3> QED BY <1>1, <1>2, <2>0, <3>1, Zenon
  <2> QED BY <2>1, <2>2
<1> QED BY <1>3, <1>4, <1>5, <1>7, <1>9, <1>10, Zenon DEF Next, Launch

\* There is no window at first.
LEMMA DesktopInit == Init => DesktopInv /\ focused = Top
<1> SUFFICES ASSUME Init PROVE DesktopInv /\ focused = Top
  OBVIOUS
<1>1. windows = <<>> /\ focused = NULL /\ live = {} /\ hw_win = NULL /\ tv = taskview_close
  BY DEF Init, WindowsInit
<1>2. mem \in [Window -> Window_t]
  <2>1. 0 \in 0 .. MAX_WINDOWS - 1
    BY WindowsAssumption
  <2>2. mem = [w \in Window |-> NewWindow(0)]
    BY DEF Init, WindowsInit, NewWindow
  <2> QED BY <2>1, <2>2, NewWindowType
<1>3. WindowsTypeOK /\ IdIsSlot
  BY <1>1, <1>2, WindowsAssumption DEF WindowsTypeOK, IdIsSlot, ToSet
<1>4. Selects
  BY <1>1, TaskviewType DEF Selects
<1> QED BY <1>1, <1>3, <1>4 DEF DesktopInv, StackInv, Top

\* The invariant is inductive.
LEMMA DesktopStep == DesktopInv /\ [Next]_vars => DesktopInv'
<1>1. DesktopInv /\ UNCHANGED vars => DesktopInv'
  BY DEF vars, DesktopInv, StackInv, WindowsTypeOK, IdIsSlot, Selects
<1> QED BY <1>1, SelectsNext, StackNext, Zenon DEF DesktopInv

(***************************************************************************)
(* window_create, window_destroy and window_focus keep the list, the ids   *)
(* and the allocated windows in step, for any number of windows and also   *)
(* when the hardware manager focuses a window that was closed.             *)
(***************************************************************************)
THEOREM IdsCorrect == Spec => []IdIsSlot
<1>1. DesktopInv => IdIsSlot
  BY DEF DesktopInv, StackInv
<1> QED BY <1>1, DesktopInit, DesktopStep, PTL DEF Spec

(***************************************************************************)
(* Keyboard focus is on the top of the stack, across every way to open,    *)
(* close, raise and switch windows, as long as no closed window is used.   *)
(***************************************************************************)
THEOREM FocusCorrect == Spec => []FocusedIsTop
<1>1. FocusedIsTop <=> (~misused => focused = Top)
  BY Zenon DEF FocusedIsTop, Top
<1>2. DesktopInv /\ FocusedIsTop /\ [Next]_vars => FocusedIsTop'
  <2>1. ASSUME UNCHANGED vars, FocusedIsTop PROVE FocusedIsTop'
    BY <2>1 DEF vars, FocusedIsTop
  <2>2. ASSUME DesktopInv, FocusedIsTop, Next PROVE FocusedIsTop'
    <3>1. ~misused' => focused' = Top'
      BY <1>1, <2>2, StackNext, Zenon
    <3> QED BY <3>1, Zenon DEF FocusedIsTop, Top
  <2> QED BY <2>1, <2>2
<1> QED BY <1>1, <1>2, DesktopInit, DesktopStep, PTL DEF Spec

-----------------------------------------------------------------------------
\* Input: the queues between the interrupt handlers and their readers.

(***************************************************************************)
(* The keyboard buffer and its reader: the inductive invariant of the      *)
(* order of the characters.  A character that has been read and not yet    *)
(* removed keeps the buffer from being empty.                              *)
(***************************************************************************)
KeyboardInv ==
    /\ buffer \in [0 .. KEYBOARD_BUFFER_SIZE - 1 -> Char \cup {None}]
    /\ kb_head \in 0 .. KEYBOARD_BUFFER_SIZE - 1
    /\ kb_tail \in 0 .. KEYBOARD_BUFFER_SIZE - 1
    /\ reader \in Char \cup {None}
    /\ typed \in Seq(Char)
    /\ KeyboardIsQueue
    /\ reader # None => kb_head # kb_tail

(***************************************************************************)
(* The slot of the oldest event that still counts.                         *)
(***************************************************************************)
First ==
    IF loop.pc \in {"advanced", "loaded"} THEN (queue_tail + QUEUE_SIZE - 1) % QUEUE_SIZE
    ELSE queue_tail

(***************************************************************************)
(* The event queue: the inductive invariant of the order of the events.    *)
(* The count stays right as long as the register of the main loop holds    *)
(* the count it is about to write back, less one.                          *)
(***************************************************************************)
EventInv ==
    /\ event_queue \in [0 .. QUEUE_SIZE - 1 -> Event \cup {None}]
    /\ queue_head \in 0 .. QUEUE_SIZE - 1
    /\ queue_tail \in 0 .. QUEUE_SIZE - 1
    /\ queue_count \in 0 .. QUEUE_SIZE
    /\ loop \in [pc : {"poll", "copied", "advanced", "loaded", "taken"},
                 event : Event \cup {None}, register : 0 .. QUEUE_SIZE]
    /\ posted \in Seq(Event)
    /\ torn \in BOOLEAN
    /\ loop.pc \in {"copied", "advanced"} => queue_count > 0
    /\ loop.pc = "loaded" => loop.register > 0
    /\ ~torn => /\ posted = RingSeq(event_queue, QUEUE_SIZE, First, queue_count)
                /\ queue_head = (First + queue_count) % QUEUE_SIZE
                /\ loop.pc = "loaded" => loop.register = queue_count

-----------------------------------------------------------------------------
(***************************************************************************)
(* keyboard_buffer_push of a character, between any two accesses of a      *)
(* reader.                                                                 *)
(***************************************************************************)
LEMMA PushKeeps ==
    ASSUME KeyboardInv, NEW c \in Char, keyboard_buffer_push(c), UNCHANGED <<kb_tail, reader>>
    PROVE  KeyboardInv'
<1> DEFINE N == KEYBOARD_BUFFER_SIZE
           n == (kb_head - kb_tail) % N
           S == Char \cup {None}
<1>0. /\ N \in Nat \ {0} /\ buffer \in [0 .. N - 1 -> S]
      /\ kb_head \in 0 .. N - 1 /\ kb_tail \in 0 .. N - 1
      /\ typed = RingSeq(buffer, N, kb_tail, n) /\ typed \in Seq(Char)
  BY InputAssumption DEF KeyboardInv, KeyboardIsQueue, Slots, RingSeq
<1>1. CASE UNCHANGED <<buffer, kb_head, typed>>
  BY <1>1 DEF KeyboardInv, KeyboardIsQueue
<1>2. CASE /\ (kb_head + 1) % N # kb_tail
           /\ buffer' = [buffer EXCEPT ![kb_head] = c]
           /\ kb_head' = (kb_head + 1) % N
           /\ typed' = Append(typed, c)
  <2>1. kb_head' \in 0 .. N - 1
    BY <1>0, <1>2, ModNext
  <2>2. (kb_head' - kb_tail) % N = n + 1
    BY <1>0, <1>2, ModGrows
  <2>3. n \in 0 .. N - 1 /\ (kb_tail + n) % N = kb_head
    BY <1>0, ModReaches
  <2>4. typed' = RingSeq(buffer', N, kb_tail, n + 1)
    <3> HIDE DEF N, n
    <3>1. c \in S
      OBVIOUS
    <3> HIDE DEF S
    <3>2. RingPushes(S, N, buffer, c, kb_tail, n)
      BY <1>0, <2>3, <3>1, RingPush, Zenon
    <3> QED
      BY <1>0, <1>2, <2>3, <3>2, Zenon DEF RingPushes
  <2>5. typed' \in Seq(Char)
    BY <1>0, <1>2, AppendProperties
  <2>6. buffer' \in [0 .. N - 1 -> S]
    BY <1>0, <1>2
  <2>7. ASSUME reader' # None PROVE reader' = Head(typed') /\ kb_head' # kb_tail'
    <3>1. reader = Head(typed) /\ kb_head # kb_tail
      BY <2>7 DEF KeyboardInv, KeyboardIsQueue
    <3>2. n # 0
      <4>1. (kb_tail + 0) % N = kb_tail
        BY <1>0, ModSmall
      <4> QED
        BY <2>3, <3>1, <4>1
    <3>3. typed # <<>>
      <4>1. DOMAIN typed = 1 .. n
        BY <1>0 DEF RingSeq
      <4> QED
        BY <2>3, <3>2, <4>1
    <3>4. Head(Append(typed, c)) = Head(typed)
      BY <1>0, <3>3, AppendProperties, LenProperties, EmptySeq
    <3> QED
      BY <1>2, <3>1, <3>4
  <2>8. KeyboardIsQueue'
    <3>1. typed' = Slots(buffer', N, kb_tail', (kb_head' - kb_tail') % N)
      BY <2>2, <2>4 DEF Slots, RingSeq
    <3> QED
      BY <2>7, <3>1 DEF KeyboardIsQueue
  <2>9. reader' \in S
    BY DEF KeyboardInv
  <2> QED
    BY <1>0, <2>1, <2>5, <2>6, <2>7, <2>8, <2>9 DEF KeyboardInv
<1> QED
  BY <1>1, <1>2 DEF keyboard_buffer_push

(***************************************************************************)
(* keyboard_buffer_pop reads a character and later removes it.             *)
(***************************************************************************)
LEMMA PopReadsKeeps ==
    ASSUME KeyboardInv, pop_reads
    PROVE  KeyboardInv'
<1> DEFINE N == KEYBOARD_BUFFER_SIZE
           n == (kb_head - kb_tail) % N
           S == Char \cup {None}
<1>0. /\ N \in Nat \ {0} /\ buffer \in [0 .. N - 1 -> S]
      /\ kb_head \in 0 .. N - 1 /\ kb_tail \in 0 .. N - 1
      /\ typed = RingSeq(buffer, N, kb_tail, n) /\ typed \in Seq(Char)
  BY InputAssumption DEF KeyboardInv, KeyboardIsQueue, Slots, RingSeq
<1>1. kb_tail # kb_head /\ reader' = buffer[kb_tail]
  BY DEF pop_reads
<1>2. UNCHANGED <<buffer, kb_head, kb_tail, typed>>
  BY DEF pop_reads, keyboardVars
<1>3. n \in 1 .. N
  BY <1>0, <1>1, ModShrinks
<1>4. typed # <<>> /\ Head(typed) = reader'
  <2> HIDE DEF N, n, S
  <2>1. RingPops(S, N, buffer, kb_tail, n)
    BY <1>0, <1>3, RingPop, Zenon
  <2> QED
    BY <1>0, <1>1, <2>1, Zenon DEF RingPops
<1>5. reader' \in Char
  BY <1>0, <1>4, HeadTailProperties
<1> QED
  BY <1>1, <1>2, <1>4, <1>5 DEF KeyboardInv, KeyboardIsQueue

(***************************************************************************)
(* The second half of keyboard_buffer_pop, the tail's advance, removes the *)
(* character that the first half read.                                     *)
(***************************************************************************)
LEMMA PopRemovesKeeps ==
    ASSUME KeyboardInv, pop_removes
    PROVE  KeyboardInv'
<1> DEFINE N == KEYBOARD_BUFFER_SIZE
           n == (kb_head - kb_tail) % N
           S == Char \cup {None}
<1>0. /\ N \in Nat \ {0} /\ buffer \in [0 .. N - 1 -> S]
      /\ kb_head \in 0 .. N - 1 /\ kb_tail \in 0 .. N - 1
      /\ typed = RingSeq(buffer, N, kb_tail, n) /\ typed \in Seq(Char)
  BY InputAssumption DEF KeyboardInv, KeyboardIsQueue, Slots, RingSeq
<1>1. /\ kb_tail' = (kb_tail + 1) % N /\ reader' = None /\ typed' = Tail(typed)
      /\ buffer' = buffer /\ kb_head' = kb_head
  BY DEF pop_removes
<1>2. kb_head # kb_tail
  BY DEF pop_removes, KeyboardInv
<1>3. n \in 1 .. N /\ (kb_head - kb_tail') % N = n - 1
  <2>1. n \in 1 .. N - 1 /\ (kb_head - ((kb_tail + 1) % N)) % N = n - 1
    BY <1>0, <1>2, ModShrinks
  <2> HIDE DEF n
  <2>2. n \in 1 .. N
    BY <1>0, <2>1
  <2>3. kb_tail' = (kb_tail + 1) % N
    BY <1>1
  <2>4. (kb_head - kb_tail') % N = (kb_head - ((kb_tail + 1) % N)) % N
    BY <2>3
  <2> QED
    BY <2>1, <2>2, <2>4
<1>4. typed # <<>> /\ typed' = RingSeq(buffer, N, kb_tail', n - 1)
  <2> HIDE DEF N, n, S
  <2>1. RingPops(S, N, buffer, kb_tail, n)
    BY <1>0, <1>3, RingPop, Zenon
  <2> QED
    BY <1>0, <1>1, <2>1, Zenon DEF RingPops
<1>5. kb_tail' \in 0 .. N - 1
  BY <1>0, <1>1, ModNext
<1>6. typed' \in Seq(Char)
  BY <1>0, <1>1, <1>4, HeadTailProperties
<1>7. typed' = Slots(buffer', N, kb_tail', (kb_head' - kb_tail') % N)
  BY <1>1, <1>3, <1>4 DEF Slots, RingSeq
<1> QED
  BY <1>0, <1>1, <1>5, <1>6, <1>7 DEF KeyboardInv, KeyboardIsQueue

(***************************************************************************)
(* The buffer is empty at first.                                           *)
(***************************************************************************)
LEMMA KeyboardInvInit == InputInit => KeyboardInv
<1> SUFFICES ASSUME InputInit PROVE KeyboardInv
  OBVIOUS
<1>1. (0 - 0) % KEYBOARD_BUFFER_SIZE = 0
  BY InputAssumption
<1> QED
  BY <1>1, InputAssumption DEF InputInit, KeyboardInv, KeyboardIsQueue, Slots, Char

(***************************************************************************)
(* Every step keeps the keyboard's buffer a queue.                         *)
(***************************************************************************)
LEMMA KeyboardInvNext == KeyboardInv /\ [InputNext]_inputVars => KeyboardInv'
<1> SUFFICES ASSUME KeyboardInv, [InputNext]_inputVars PROVE KeyboardInv'
  OBVIOUS
<1>1. ASSUME UNCHANGED <<buffer, kb_head, kb_tail, typed, reader>> PROVE KeyboardInv'
  BY <1>1 DEF KeyboardInv, KeyboardIsQueue
<1>2. CASE UNCHANGED inputVars
  BY <1>1, <1>2 DEF inputVars, keyboardVars
<1>3. CASE Interrupt
  <2>1. ASSUME NEW pressed \in BOOLEAN, keyboard_shift(pressed) PROVE KeyboardInv'
    BY <1>1, <2>1 DEF keyboard_shift
  <2>2. CASE keyboard_caps_lock
    BY <1>1, <2>2 DEF keyboard_caps_lock
  <2>3. CASE keyboard_char
    <3>1. PICK c \in {Letter, "backspace"} : keyboard_buffer_push(c)
      BY <2>3 DEF keyboard_char
    <3>2. c \in Char /\ UNCHANGED <<kb_tail, reader>>
      BY <2>3, <3>1 DEF keyboard_char, Letter, Char
    <3> QED
      BY <3>1, <3>2, PushKeeps
  <2>4. CASE mouse_first \/ mouse_second \/ mouse_third
    BY <1>1, <2>4 DEF mouse_first, mouse_second, mouse_third, keyboardVars
  <2> QED
    BY <1>3, <2>1, <2>2, <2>3, <2>4 DEF Interrupt
<1>4. CASE MainLoop
  BY <1>1, <1>4 DEF MainLoop, loop_copies, loop_advances, loop_loads, loop_stores, loop_handles,
     keyboardVars
<1>5. CASE Reader
  BY <1>5, PopReadsKeeps, PopRemovesKeeps DEF Reader
<1>6. ASSUME NEW o \in Overlay, taskbar_handle_click(o) PROVE KeyboardInv'
  BY <1>1, <1>6 DEF taskbar_handle_click, keyboardVars
<1> QED
  BY <1>2, <1>3, <1>4, <1>5, <1>6 DEF InputNext

(***************************************************************************)
(* The characters between tail and head of the keyboard buffer are those   *)
(* typed and not yet popped, in their order, at every point of             *)
(* keyboard_buffer_pop at which keyboard_handler may run.                  *)
(***************************************************************************)
THEOREM InputKeyboardIsQueue == InputSpec => []KeyboardIsQueue
<1>1. KeyboardInv => KeyboardIsQueue
  BY DEF KeyboardInv
<1> QED
  BY <1>1, KeyboardInvInit, KeyboardInvNext, PTL DEF InputSpec

-----------------------------------------------------------------------------
(***************************************************************************)
(* First is a slot of the queue.                                           *)
(***************************************************************************)
LEMMA FirstIsSlot == EventInv => First \in 0 .. QUEUE_SIZE - 1
  BY InputAssumption, ModBefore DEF EventInv, First

(***************************************************************************)
(* A handler posts an event.                                               *)
(***************************************************************************)
LEMMA PostKeeps ==
    ASSUME EventInv, NEW e \in Event, ~Full, Post(e), UNCHANGED <<queue_tail, loop>>
    PROVE  EventInv'
<1> DEFINE N == QUEUE_SIZE
           S == Event \cup {None}
           n == queue_count
           f == First
<1>0. /\ N \in Nat \ {0} /\ event_queue \in [0 .. N - 1 -> S]
      /\ queue_head \in 0 .. N - 1 /\ n \in 0 .. N - 1 /\ f \in 0 .. N - 1 /\ e \in S
  BY InputAssumption, FirstIsSlot DEF EventInv, Full
<1>1. /\ event_queue' = [event_queue EXCEPT ![queue_head] = e]
      /\ queue_head' = (queue_head + 1) % N
      /\ queue_count' = n + 1
      /\ torn' = (torn \/ loop.pc = "loaded")
      /\ posted' = IF torn' THEN <<>> ELSE Append(posted, e)
  BY DEF Post
<1>2. event_queue' \in [0 .. N - 1 -> S] /\ queue_head' \in 0 .. N - 1 /\ queue_count' \in 0 .. N
  BY <1>0, <1>1, ModNext
<1>3. posted' \in Seq(Event) /\ torn' \in BOOLEAN
  BY <1>1, AppendProperties DEF EventInv
<1>4. First' = f
  BY DEF First
<1>5. ASSUME ~torn'
      PROVE  /\ posted' = RingSeq(event_queue', N, f, queue_count')
             /\ queue_head' = (f + queue_count') % N
             /\ loop.pc # "loaded"
  <2>1. /\ ~torn /\ loop.pc # "loaded"
        /\ posted = RingSeq(event_queue, N, f, n) /\ queue_head = (f + n) % N
    BY <1>1, <1>5 DEF EventInv
  <2> HIDE DEF N, S, n, f
  <2>2. RingPushes(S, N, event_queue, e, f, n)
    BY <1>0, RingPush, Zenon
  <2>3. posted' = RingSeq(event_queue', N, f, queue_count')
    BY <1>1, <1>5, <2>1, <2>2, Zenon DEF RingPushes
  <2>4. (((f + n) % N) + ((n + 1) - n)) % N = (f + (n + 1)) % N
    <3> DEFINE m == n + 1
    <3>1. m \in 0 .. N /\ n \in 0 .. m
      BY <1>0
    <3> HIDE DEF m
    <3>2. (((f + n) % N) + (m - n)) % N = (f + m) % N
      BY <1>0, <3>1, ModShift
    <3> QED
      BY <3>2 DEF m
  <2>5. (n + 1) - n = 1
    BY <1>0
  <2>6. queue_head' = (f + queue_count') % N
    BY <1>1, <2>1, <2>4, <2>5
  <2> QED
    BY <2>1, <2>3, <2>6
<1> QED
  BY <1>0, <1>1, <1>2, <1>3, <1>4, <1>5 DEF EventInv

(***************************************************************************)
(* The five steps of the main loop.                                        *)
(***************************************************************************)
LEMMA CopiesKeeps == ASSUME EventInv, loop_copies PROVE EventInv'
<1>1. /\ loop' = [loop EXCEPT !.pc = "copied", !.event = event_queue[queue_tail]]
      /\ UNCHANGED <<event_queue, queue_head, queue_tail, queue_count, posted, torn>>
      /\ loop.pc = "poll" /\ queue_count > 0
  BY DEF loop_copies, queueVars
<1>2. event_queue[queue_tail] \in Event \cup {None}
  BY DEF EventInv
<1>3. /\ loop' \in [pc : {"poll", "copied", "advanced", "loaded", "taken"},
                    event : Event \cup {None}, register : 0 .. QUEUE_SIZE]
      /\ loop'.pc = "copied"
  BY <1>1, <1>2 DEF EventInv
<1>4. First' = First
  BY <1>1, <1>3 DEF First
<1> QED
  BY <1>1, <1>3, <1>4 DEF EventInv

(***************************************************************************)
(* maya_input_get_event advances the tail past the event it copied.        *)
(***************************************************************************)
LEMMA AdvancesKeeps == ASSUME EventInv, loop_advances PROVE EventInv'
<1>1. /\ loop' = [loop EXCEPT !.pc = "advanced"]
      /\ queue_tail' = (queue_tail + 1) % QUEUE_SIZE
      /\ UNCHANGED <<event_queue, queue_head, queue_count, posted, torn>>
      /\ loop.pc = "copied"
  BY DEF loop_advances, queueVars
<1>2. /\ loop' \in [pc : {"poll", "copied", "advanced", "loaded", "taken"},
                    event : Event \cup {None}, register : 0 .. QUEUE_SIZE]
      /\ loop'.pc = "advanced"
  BY <1>1 DEF EventInv
<1>3. queue_tail' \in 0 .. QUEUE_SIZE - 1
  BY <1>1, InputAssumption, ModNext DEF EventInv
<1>4. First' = First
  <2>1. (((queue_tail + 1) % QUEUE_SIZE) + QUEUE_SIZE - 1) % QUEUE_SIZE = queue_tail
    BY InputAssumption, ModBefore DEF EventInv
  <2> QED
    BY <1>1, <1>2, <2>1 DEF First
<1> QED
  BY <1>1, <1>2, <1>3, <1>4 DEF EventInv

(***************************************************************************)
(* maya_input_get_event loads the count it is about to decrement.          *)
(***************************************************************************)
LEMMA LoadsKeeps == ASSUME EventInv, loop_loads PROVE EventInv'
<1>1. /\ loop' = [loop EXCEPT !.pc = "loaded", !.register = queue_count]
      /\ UNCHANGED <<event_queue, queue_head, queue_tail, queue_count, posted, torn>>
      /\ loop.pc = "advanced"
  BY DEF loop_loads, queueVars
<1>2. /\ loop' \in [pc : {"poll", "copied", "advanced", "loaded", "taken"},
                    event : Event \cup {None}, register : 0 .. QUEUE_SIZE]
      /\ loop'.pc = "loaded" /\ loop'.register = queue_count
  BY <1>1 DEF EventInv
<1>3. First' = First
  BY <1>1, <1>2 DEF First
<1> QED
  BY <1>1, <1>2, <1>3 DEF EventInv

(***************************************************************************)
(* maya_input_get_event stores the count it loaded, less one: the right    *)
(* count unless a handler ran in between.                                  *)
(***************************************************************************)
LEMMA StoresKeeps == ASSUME EventInv, loop_stores PROVE EventInv'
<1> DEFINE N == QUEUE_SIZE
           S == Event \cup {None}
           n == queue_count
           f == First
<1>0. /\ N \in Nat \ {0} /\ event_queue \in [0 .. N - 1 -> S]
      /\ queue_tail \in 0 .. N - 1 /\ f \in 0 .. N - 1
  BY InputAssumption, FirstIsSlot DEF EventInv
<1>1. /\ queue_count' = loop.register - 1
      /\ loop' = [loop EXCEPT !.pc = "taken", !.register = 0]
      /\ posted' = IF torn THEN <<>> ELSE Tail(posted)
      /\ UNCHANGED <<event_queue, queue_head, queue_tail, torn>>
      /\ loop.pc = "loaded"
  BY DEF loop_stores
<1>2. /\ loop' \in [pc : {"poll", "copied", "advanced", "loaded", "taken"},
                    event : S, register : 0 .. N]
      /\ loop'.pc = "taken"
  <2>1. /\ loop \in [pc : {"poll", "copied", "advanced", "loaded", "taken"},
                      event : S, register : 0 .. N]
        /\ 0 \in 0 .. N
    BY <1>0 DEF EventInv
  <2> HIDE DEF N, S
  <2> QED
    BY <1>1, <2>1
<1>3. queue_count' \in 0 .. N /\ loop.register \in 1 .. N
  BY <1>0, <1>1 DEF EventInv
<1>4. First' = queue_tail
  BY <1>1, <1>2 DEF First
<1>5. ASSUME ~torn
      PROVE  /\ posted' = RingSeq(event_queue, N, queue_tail, queue_count')
             /\ queue_head = (queue_tail + queue_count') % N
             /\ posted' \in Seq(Event)
  <2>1. /\ posted = RingSeq(event_queue, N, f, n) /\ queue_head = (f + n) % N
        /\ n = loop.register /\ posted \in Seq(Event) /\ posted' = Tail(posted)
    BY <1>1, <1>5 DEF EventInv
  <2>2. (f + 1) % N = queue_tail
    BY <1>0, <1>1, ModBefore DEF First
  <2>3. n \in 1 .. N /\ queue_count' = n - 1
    BY <1>1, <1>3, <2>1
  <2> HIDE DEF N, S, n, f
  <2>4. RingPops(S, N, event_queue, f, n)
    BY <1>0, <2>3, RingPop, Zenon
  <2>5. posted # <<>> /\ posted' = RingSeq(event_queue, N, queue_tail, queue_count')
    BY <2>1, <2>2, <2>3, <2>4, Zenon DEF RingPops
  <2>6. posted' \in Seq(Event)
    BY <2>1, <2>5, HeadTailProperties
  <2>7. queue_head = (queue_tail + queue_count') % N
    <3>1. n \in 0 .. N /\ 1 \in 0 .. n
      BY <1>0, <2>3
    <3>2. (((f + 1) % N) + (n - 1)) % N = (f + n) % N
      BY <1>0, <3>1, ModShift
    <3> QED
      BY <2>1, <2>2, <2>3, <3>2
  <2> QED
    BY <2>5, <2>6, <2>7
<1>6. posted' \in Seq(Event)
  BY <1>1, <1>5 DEF EventInv
<1> QED
  BY <1>0, <1>1, <1>2, <1>3, <1>4, <1>5, <1>6 DEF EventInv

(***************************************************************************)
(* Handling an event leaves the queue alone.                               *)
(***************************************************************************)
LEMMA HandlesKeeps == ASSUME EventInv, loop_handles PROVE EventInv'
<1>1. /\ loop' = [loop EXCEPT !.pc = "poll", !.event = None]
      /\ UNCHANGED <<event_queue, queue_head, queue_tail, queue_count, posted, torn>>
      /\ loop.pc = "taken"
  BY DEF loop_handles, queueVars
<1>2. /\ loop' \in [pc : {"poll", "copied", "advanced", "loaded", "taken"},
                    event : Event \cup {None}, register : 0 .. QUEUE_SIZE]
      /\ loop'.pc = "poll"
  BY <1>1 DEF EventInv
<1>3. First' = First
  BY <1>1, <1>2 DEF First
<1> QED
  BY <1>1, <1>2, <1>3 DEF EventInv

(***************************************************************************)
(* The queue is empty at first.                                            *)
(***************************************************************************)
LEMMA EventInvInit == InputInit => EventInv
<1> SUFFICES ASSUME InputInit PROVE EventInv
  OBVIOUS
<1>1. First = 0 /\ (0 + 0) % QUEUE_SIZE = 0
  BY InputAssumption DEF InputInit, First
<1>2. posted = RingSeq(event_queue, QUEUE_SIZE, First, queue_count)
  BY DEF InputInit, RingSeq
<1>3. /\ event_queue \in [0 .. QUEUE_SIZE - 1 -> Event \cup {None}]
      /\ 0 \in 0 .. QUEUE_SIZE - 1 /\ 0 \in 0 .. QUEUE_SIZE
      /\ queue_head = 0 /\ queue_tail = 0 /\ queue_count = 0
      /\ loop = [pc |-> "poll", event |-> None, register |-> 0]
      /\ posted = <<>> /\ torn = FALSE
  BY InputAssumption DEF InputInit
<1>4. queue_head = (First + queue_count) % QUEUE_SIZE
  BY <1>1, <1>3
<1>5. loop \in [pc : {"poll", "copied", "advanced", "loaded", "taken"},
                event : Event \cup {None}, register : 0 .. QUEUE_SIZE]
  BY <1>3
<1>6. loop.pc = "poll" /\ torn \in BOOLEAN /\ torn = FALSE
  BY <1>3
<1>7. posted \in Seq(Event)
  BY <1>3, EmptySeq
<1> QED
  BY <1>2, <1>3, <1>4, <1>5, <1>6, <1>7 DEF EventInv

(***************************************************************************)
(* Every step keeps the events a queue, until a handler runs between the   *)
(* load and the store of the count.                                        *)
(***************************************************************************)
LEMMA EventInvNext == EventInv /\ [InputNext]_inputVars => EventInv'
<1> SUFFICES ASSUME EventInv, [InputNext]_inputVars PROVE EventInv'
  OBVIOUS
<1>1. ASSUME UNCHANGED <<queueVars, queue_tail, loop>> PROVE EventInv'
  BY <1>1 DEF EventInv, First, queueVars
<1>2. CASE UNCHANGED inputVars
  BY <1>1, <1>2 DEF inputVars
<1>3. CASE Interrupt
  <2>1. ASSUME NEW pressed \in BOOLEAN, keyboard_shift(pressed) PROVE EventInv'
    BY <1>1, <2>1 DEF keyboard_shift
  <2>2. CASE keyboard_caps_lock
    BY <1>1, <2>2 DEF keyboard_caps_lock
  <2>3. CASE keyboard_char
    <3>1. PICK c \in {Letter, "backspace"} :
             UNCHANGED queueVars \/ (~Full /\ Post(c))
      BY <2>3 DEF keyboard_char, maya_input_add_key_event
    <3>2. c \in Event /\ UNCHANGED <<queue_tail, loop>>
      BY <2>3, <3>1 DEF keyboard_char, Letter, Char, Event
    <3> QED
      BY <1>1, <3>1, <3>2, PostKeeps
  <2>4. CASE mouse_first \/ mouse_second
    BY <1>1, <2>4 DEF mouse_first, mouse_second
  <2>5. CASE mouse_third
    <3>1. UNCHANGED <<queue_tail, loop>>
      BY <2>5 DEF mouse_third
    <3>2. UNCHANGED queueVars \/ \E e \in Event : ~Full /\ Post(e)
      BY <2>5 DEF mouse_third, maya_input_add_mouse_event, Event
    <3> QED
      BY <1>1, <3>1, <3>2, PostKeeps
  <2> QED
    BY <1>3, <2>1, <2>2, <2>3, <2>4, <2>5 DEF Interrupt
<1>4. CASE MainLoop
  BY <1>4, CopiesKeeps, AdvancesKeeps, LoadsKeeps, StoresKeeps, HandlesKeeps DEF MainLoop
<1>5. CASE Reader
  BY <1>1, <1>5 DEF Reader, pop_reads, pop_removes
<1>6. ASSUME NEW o \in Overlay, taskbar_handle_click(o) PROVE EventInv'
  BY <1>1, <1>6 DEF taskbar_handle_click
<1> QED
  BY <1>2, <1>3, <1>4, <1>5, <1>6 DEF InputNext

(***************************************************************************)
(* As long as no handler has run between the load and the store of         *)
(* queue_count in maya_input_get_event, the event queue gives out what was *)
(* posted, in that order, wherever else the handlers interrupt the main    *)
(* loop.                                                                   *)
(***************************************************************************)
THEOREM InputEventsAreQueue == InputSpec => []EventsAreQueue
<1>1. EventInv => EventsAreQueue
  <2> SUFFICES ASSUME EventInv, ~torn PROVE EventsAreQueue
    BY DEF EventsAreQueue
  <2> DEFINE from == IF loop.pc \in {"advanced", "loaded"} THEN queue_tail + QUEUE_SIZE - 1
                     ELSE queue_tail
  <2>1. QUEUE_SIZE \in Nat \ {0} /\ queue_tail \in 0 .. QUEUE_SIZE - 1
        /\ queue_count \in 0 .. QUEUE_SIZE
    BY InputAssumption DEF EventInv
  <2>2. from \in 0 .. 2 * QUEUE_SIZE - 1
    BY <2>1
  <2>3. First = from % QUEUE_SIZE
    BY <2>1, ModSmall DEF First
  <2> HIDE DEF from
  <2>4. RingSeq(event_queue, QUEUE_SIZE, from, queue_count)
           = RingSeq(event_queue, QUEUE_SIZE, from % QUEUE_SIZE, queue_count)
    BY <2>1, <2>2, RingSeqFrom
  <2>5. posted = RingSeq(event_queue, QUEUE_SIZE, from, queue_count)
    BY <2>3, <2>4 DEF EventInv
  <2> QED
    BY <2>5 DEF EventsAreQueue, Slots, RingSeq, from
<1> QED
  BY <1>1, EventInvInit, EventInvNext, PTL DEF InputSpec

=============================================================================
