-------------------------------- MODULE Vga --------------------------------
(***************************************************************************)
(* The cursor of the terminal (vga/vga.c).  A kernel task prints with the  *)
(* interrupts enabled, so its term_putc is cut at each access to the       *)
(* cursor; the echo of a key, and what a program writes by a system call,  *)
(* is one step.  What the cells hold, and the copy to the screen, are left *)
(* out.                                                                    *)
(***************************************************************************)
EXTENDS Integers

CONSTANTS
  Writers,    \* the kernel tasks that print
  VGA_COLS,   \* 80
  VGA_ROWS,   \* 25
  UINT16,     \* the values of a uint16_t: 65536
  MAX_DRIFT   \* how far off the screen tasks that overlap count in the model;
              \* nothing stops them in the code

ASSUME ScreenAssumption ==
  /\ UINT16 \in Nat \ {0} /\ MAX_DRIFT \in Nat \ {0}
  /\ VGA_COLS \in 1 .. UINT16 /\ VGA_ROWS \in 1 .. UINT16

Col == 0 .. (VGA_COLS - 1)
Row == 0 .. (VGA_ROWS - 1)
NEWLINE   == "newline"
BACKSPACE == "backspace"
CHAR      == "char"         \* any other
Key  == {CHAR, NEWLINE, BACKSPACE}

VARIABLES
  term_col, term_row,
  wpc,     \* where each writer stands in term_putc
  c,       \* the character it has to put
  reg,     \* the register in which it counts, and the x of term_setc
  y,       \* the other argument of term_setc
  alone    \* history: the writer no other task was in term_putc with

vgaVars == <<term_col, term_row, wpc, c, reg, y, alone>>

\* term_init.
VgaInit ==
  /\ term_col = 0 /\ term_row = 0
  /\ wpc = [w \in Writers |-> "idle"]
  /\ c = [w \in Writers |-> CHAR]
  /\ reg = [w \in Writers |-> 0]
  /\ y = [w \in Writers |-> 0]
  /\ alone = {}

----------------------------------------------------------------------------
(* A task in term_putc.  A label names what comes next.                    *)

(* Definitions with a suffix _M are slips the code could have had.         *)

Idle(w) == wpc[w] = "idle"

Moves(w, from, to) == wpc[w] = from /\ wpc' = [wpc EXCEPT ![w] = to]
Loads(w, v) == reg' = [reg EXCEPT ![w] = v] /\ UNCHANGED <<term_col, term_row, c, y>>
CountsCol(w, v) == Loads(w, v) /\ v \in (-MAX_DRIFT) .. (VGA_COLS - 1 + MAX_DRIFT)
CountsRow(w, v) == Loads(w, v) /\ v \in (-MAX_DRIFT) .. (VGA_ROWS - 1 + MAX_DRIFT)
Sets(w, col, row) ==
  /\ term_col' = col /\ term_row' = row
  /\ reg' = [reg EXCEPT ![w] = 0]          \* it is not used any more
  /\ UNCHANGED <<c, y>>
Tests == UNCHANGED <<term_col, term_row, c, reg, y>>

Begin(w) ==
  /\ Idle(w)
  /\ \E ch \in Key :
       /\ c' = [c EXCEPT ![w] = ch]
       /\ wpc' = [wpc EXCEPT ![w] = CASE ch = NEWLINE -> "newline"
                                      [] ch = BACKSPACE -> "back"
                                      [] ch = CHAR -> "row"]
  /\ alone' = IF \A v \in Writers : Idle(v) THEN {w} ELSE {}
  /\ UNCHANGED <<term_col, term_row, reg, y>>

Newline(w) ==
  \/ Moves(w, "newline", "down") /\ Sets(w, 0, term_row)
  \/ Moves(w, "down", "downed") /\ CountsRow(w, term_row + 1)
  \/ Moves(w, "downed", "wide") /\ Sets(w, term_col, reg[w])

Back(w) ==
  \/ Moves(w, "back", "backed") /\ CountsCol(w, term_col - 1)
  \/ Moves(w, "backed", "row") /\ Sets(w, reg[w], term_row)

\* The parameters of term_setc.
Uint16(v) == v % UINT16

\* The arguments are loaded from the right; the store is the last use of them.
term_setc(w) ==
  \/ /\ Moves(w, "row", "col")
     /\ y' = [y EXCEPT ![w] = Uint16(term_row)]
     /\ UNCHANGED <<term_col, term_row, c, reg>>
  \/ Moves(w, "col", "store") /\ Loads(w, Uint16(term_col))
  \/ /\ Moves(w, "store", IF c[w] = BACKSPACE THEN "wide" ELSE "right")
     /\ c' = [c EXCEPT ![w] = CHAR]
     /\ reg' = [reg EXCEPT ![w] = 0]
     /\ y' = [y EXCEPT ![w] = 0]
     /\ UNCHANGED <<term_col, term_row>>

Forward(w) ==
  \/ Moves(w, "right", "righted") /\ CountsCol(w, term_col + 1)
  \/ Moves(w, "righted", "wide") /\ Sets(w, reg[w], term_row)

\* Past the last column.
WrapDown(w) ==
  \/ Moves(w, "wide", IF term_col >= VGA_COLS THEN "wrap" ELSE "narrow") /\ Tests
  \/ Moves(w, "wrap", "wrap down") /\ Sets(w, 0, term_row)
  \/ Moves(w, "wrap down", "wrapped down") /\ CountsRow(w, term_row + 1)
  \/ Moves(w, "wrapped down", "narrow") /\ Sets(w, term_col, reg[w])

\* Before the first one.
WrapUp(w) ==
  \/ Moves(w, "narrow", IF term_col < 0 THEN "unwrap" ELSE "above") /\ Tests
  \/ Moves(w, "unwrap", "wrap up") /\ Sets(w, VGA_COLS - 1, term_row)
  \/ Moves(w, "wrap up", "wrapped up") /\ CountsRow(w, term_row - 1)
  \/ Moves(w, "wrapped up", "above") /\ Sets(w, term_col, reg[w])

\* The last row is not looked at again.
Scroll_M(w) ==
  \/ Moves(w, "above", IF term_row < 0 THEN "top" ELSE "below") /\ Tests
  \/ Moves(w, "top", "below") /\ Sets(w, term_col, 0)
  \/ Moves(w, "below", IF term_row > VGA_ROWS THEN "bottom" ELSE "idle") /\ Tests
  \/ Moves(w, "bottom", "idle") /\ Sets(w, term_col, VGA_ROWS - 1)

\* Above the first row; below the last one, where the screen scrolls.
Scroll(w) ==
  \/ Moves(w, "above", IF term_row < 0 THEN "top" ELSE "below") /\ Tests
  \/ Moves(w, "top", "below") /\ Sets(w, term_col, 0)
  \/ Moves(w, "below", IF term_row >= VGA_ROWS THEN "bottom" ELSE "idle") /\ Tests
  \/ Moves(w, "bottom", "idle") /\ Sets(w, term_col, VGA_ROWS - 1)

term_putc(w) ==
  /\ \/ Newline(w) \/ Back(w) \/ term_setc(w) \/ Forward(w)
     \/ WrapDown(w) \/ WrapUp(w) \/ Scroll(w)
  /\ UNCHANGED alone

----------------------------------------------------------------------------
(* The same with the interrupts disabled.                                  *)

Moved(ch, at) ==
  CASE ch = NEWLINE   -> [col |-> 0, row |-> at.row + 1]
    [] ch = BACKSPACE -> [at EXCEPT !.col = @ - 1]
    [] ch = CHAR      -> [at EXCEPT !.col = @ + 1]

\* A full line is left for the next character to end.
Wrapped_M(at) ==
  IF at.col > VGA_COLS THEN [col |-> 0, row |-> at.row + 1]
  ELSE IF at.col < 0 THEN [col |-> VGA_COLS - 1, row |-> at.row - 1]
  ELSE at

Wrapped(at) ==
  IF at.col >= VGA_COLS THEN [col |-> 0, row |-> at.row + 1]
  ELSE IF at.col < 0 THEN [col |-> VGA_COLS - 1, row |-> at.row - 1]
  ELSE at

Scrolled(row) ==
  IF row < 0 THEN 0 ELSE IF row >= VGA_ROWS THEN VGA_ROWS - 1 ELSE row

\* The echo of tty_keyboard_ih_low, or one of the characters of tty_write.
PutAtOnce(ch) ==
  LET at == Wrapped(Moved(ch, [col |-> term_col, row |-> term_row]))
  IN  /\ term_col' = at.col
      /\ term_row' = Scrolled(at.row)
      /\ UNCHANGED <<wpc, c, reg, y, alone>>

\* TTY_IOCTL_CLEAR.
term_clear ==
  /\ term_col' = 0 /\ term_row' = 0
  /\ UNCHANGED <<wpc, c, reg, y, alone>>

VgaNext ==
  \/ \E w \in Writers : Begin(w) \/ term_putc(w)
  \/ \E ch \in Key : PutAtOnce(ch)
  \/ term_clear

VgaSpec == VgaInit /\ [][VgaNext]_vgaVars

----------------------------------------------------------------------------
(* Properties.                                                             *)

\* Where a task still has to look at each edge after it moved the cursor.
BeforeWide   == {"newline", "down", "downed", "back", "backed", "row", "col", "store",
                 "right", "righted", "wide", "wrap"}
BeforeNarrow == BeforeWide \cup {"wrap down", "wrapped down", "narrow", "unwrap"}
BeforeAbove  == BeforeNarrow \cup {"wrap up", "wrapped up", "above", "top"}
BeforeBelow  == BeforeAbove \cup {"below", "bottom"}

VgaTypeOK ==
  /\ term_col \in Int /\ term_row \in Int
  /\ wpc \in [Writers -> BeforeBelow \cup {"idle"}]
  /\ c \in [Writers -> Key]
  /\ reg \in [Writers -> Int]
  /\ y \in [Writers -> 0 .. (UINT16 - 1)]
  /\ alone \subseteq Writers

\* When nobody is in term_putc the cursor is on the screen, though tasks preempt
\* each other, and the echo comes, between the counting of rows and columns and
\* the tests that bring the cursor back (vga.c:69-110).
CursorOnScreen ==
  (\A w \in Writers : Idle(w)) => term_col \in Col /\ term_row \in Row

\* The echo alone never pushes what a task prints off the screen: a store outside
\* it ("x - cols, max 80; y - rows, max 25", vga.c:49) takes a second task in
\* term_putc or a backspace, which at column 0 stores before it looks (vga.c:74).
StoresOnScreen ==
  \A w \in alone :
     wpc[w] = "store" /\ c[w] # BACKSPACE => reg[w] \in Col /\ y[w] \in Row
=============================================================================
