-------------------------------- MODULE Vga --------------------------------
(***************************************************************************)
(* drivers/vga.c: the text console.  sheet is the paper behind the screen: *)
(* it never scrolls, the screen shows the rows of it from top on.          *)
(***************************************************************************)
EXTENDS Naturals

CONSTANTS VGA_WIDTH, VGA_HEIGHT,
          TAB,          \* the tab stops, 8 columns in the code
          MAX_TOP       \* bound on the rows scrolled since the screen was cleared

ASSUME VgaAssumption ==
    /\ VGA_WIDTH \in Nat \ {0} /\ VGA_HEIGHT \in Nat \ {0}
    /\ TAB \in Nat \ {0} /\ MAX_TOP \in Nat

VARIABLES buffer, x, y, cursor_enabled,
          cursor,       \* the position in the cursor registers
          sheet, top

vgaVars == <<buffer, x, y, cursor_enabled, cursor, sheet, top>>

Column == 0 .. VGA_WIDTH - 1
Row == 0 .. VGA_HEIGHT - 1
SheetRow == 0 .. MAX_TOP + VGA_HEIGHT - 1
Blank == " "

\* vga_init; the registers hold what vga_clear wrote.
VgaInit ==
    /\ buffer = [r \in Row |-> [c \in Column |-> Blank]]
    /\ x = 0 /\ y = 0
    /\ cursor_enabled = TRUE
    /\ cursor = 0
    /\ sheet = [r \in SheetRow |-> [c \in Column |-> Blank]]
    /\ top = 0

vga_update_cursor == cursor' = IF cursor_enabled THEN y' * VGA_WIDTH + x' ELSE cursor

vga_clear ==
    /\ buffer' = [r \in Row |-> [c \in Column |-> Blank]]
    /\ x' = 0 /\ y' = 0
    /\ vga_update_cursor
    /\ sheet' = [r \in SheetRow |-> [c \in Column |-> Blank]]
    /\ top' = 0
    /\ UNCHANGED cursor_enabled

-----------------------------------------------------------------------------
(***************************************************************************)
(* vga_putchar.  A key of the switch gives the cell that is written, if    *)
(* any, and where the cursor goes; past the last column it goes to the     *)
(* next row, past the last row the screen scrolls.                         *)
(***************************************************************************)
Back == IF x > 0 THEN <<x - 1, y>> ELSE IF y > 0 THEN <<VGA_WIDTH - 1, y - 1>> ELSE <<x, y>>

Moves(c) ==
    CASE c = "newline" -> <<0, y + 1>>
      [] c = "return" -> <<0, y>>
      [] c = "tab" -> <<(x \div TAB + 1) * TAB, y>>
      [] c = "backspace" -> Back
      [] OTHER -> <<x + 1, y>>

\* Mutant: the wrap is tested one column too late.
WrappedLate(p) == IF p[1] > VGA_WIDTH THEN <<0, p[2] + 1>> ELSE p

Wrapped(p) == IF p[1] >= VGA_WIDTH THEN <<0, p[2] + 1>> ELSE p

Written(b, r, c) ==
    CASE c = "backspace" -> [b EXCEPT ![r + Back[2]][Back[1]] = Blank]
      [] c \in {"newline", "return", "tab"} -> b
      [] OTHER -> [b EXCEPT ![r + y][x] = c]

vga_scroll(b) ==
    [r \in Row |-> IF r < VGA_HEIGHT - 1 THEN b[r + 1] ELSE [c \in Column |-> Blank]]

vga_putchar(c) ==
    LET to == Wrapped(Moves(c))
        scrolls == to[2] >= VGA_HEIGHT
        b == Written(buffer, 0, c)
    IN  /\ scrolls => top < MAX_TOP
        /\ buffer' = IF scrolls THEN vga_scroll(b) ELSE b
        /\ x' = to[1]
        /\ y' = IF scrolls THEN VGA_HEIGHT - 1 ELSE to[2]
        /\ vga_update_cursor
        /\ sheet' = Written(sheet, top, c)
        /\ top' = IF scrolls THEN top + 1 ELSE top
        /\ UNCHANGED cursor_enabled

vga_set_cursor(c, r) ==
    /\ x' = c /\ y' = r
    /\ vga_update_cursor
    /\ UNCHANGED <<buffer, cursor_enabled, sheet, top>>

vga_enable_cursor ==
    /\ cursor_enabled' = TRUE
    /\ cursor' = y * VGA_WIDTH + x
    /\ UNCHANGED <<buffer, x, y, sheet, top>>

vga_disable_cursor ==
    /\ cursor_enabled' = FALSE
    /\ UNCHANGED <<buffer, x, y, cursor, sheet, top>>

VgaNext ==
    \/ vga_clear \/ vga_enable_cursor \/ vga_disable_cursor
    \/ \E c \in {"a", "newline", "return", "tab", "backspace"} : vga_putchar(c)
    \/ \E c \in Column, r \in Row : vga_set_cursor(c, r)

VgaSpec == VgaInit /\ [][VgaNext]_vgaVars

-----------------------------------------------------------------------------
(***************************************************************************)
(* The cursor is on the screen, in the registers too when it is shown, and *)
(* the screen shows what was written on the paper, row for row: no write,  *)
(* wrap, tab, backspace or scroll loses or moves a character.              *)
(***************************************************************************)
ScreenIsSheet ==
    /\ x \in Column /\ y \in Row
    /\ cursor_enabled => cursor = y * VGA_WIDTH + x
    /\ \A r \in Row : buffer[r] = sheet[top + r]

=============================================================================
