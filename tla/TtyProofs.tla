----------------------------- MODULE TtyProofs -----------------------------
(***************************************************************************)
(* Proofs about the terminal: the cursor of Vga, then the input of Tty.    *)
(***************************************************************************)
EXTENDS Tty, TLAPS

----------------------------------------------------------------------------
(* The cursor comes back to the screen: whoever carries it past an edge    *)
(* has still to look at that edge, and the last of the tasks that overlap  *)
(* looks last.                                                             *)


\* Past an edge, some task is not through with the test of that edge.
EdgesWatched ==
  /\ term_col >= VGA_COLS => \E w \in Writers : wpc[w] \in BeforeWide
  /\ term_col < 0         => \E w \in Writers : wpc[w] \in BeforeNarrow
  /\ term_row < 0         => \E w \in Writers : wpc[w] \in BeforeAbove
  /\ term_row >= VGA_ROWS => \E w \in Writers : wpc[w] \in BeforeBelow

\* A task that is alone with its character found the cursor on the screen.
AloneSound ==
  \A w \in alone :
     /\ \A v \in Writers \ {w} : Idle(v)
     /\ c[w] # BACKSPACE /\ wpc[w] \in {"row", "col", "store"} =>
          term_col \in Col /\ term_row \in Row
     /\ c[w] # BACKSPACE /\ wpc[w] \in {"col", "store"} => y[w] \in Row
     /\ c[w] # BACKSPACE /\ wpc[w] = "store" => reg[w] \in Col
     /\ wpc[w] \in {"back", "backed"} => c[w] = BACKSPACE

VgaInv == VgaTypeOK /\ EdgesWatched /\ AloneSound

LEMMA Positions == Col \subseteq Int /\ Row \subseteq Int /\ 0 \in Col /\ 0 \in Row
                   /\ VGA_COLS - 1 \in Col /\ VGA_ROWS - 1 \in Row
BY ScreenAssumption DEF Col, Row

\* The parameter of 16 bits holds every position on the screen.
LEMMA Uint16Exact ==
  /\ \A v \in Int : Uint16(v) \in 0 .. (UINT16 - 1)
  /\ \A v \in Col \cup Row : Uint16(v) = v
BY ScreenAssumption DEF Col, Row, Uint16

\* Nobody in term_putc: every edge is in order.
LEMMA RestOnScreen ==
  ASSUME VgaTypeOK, EdgesWatched, \A w \in Writers : Idle(w)
  PROVE  term_col \in Col /\ term_row \in Row
<1>1. \A w \in Writers : wpc[w] \notin BeforeBelow
  BY DEF Idle, BeforeBelow, BeforeAbove, BeforeNarrow, BeforeWide
<1>2. BeforeWide \subseteq BeforeBelow /\ BeforeNarrow \subseteq BeforeBelow
      /\ BeforeAbove \subseteq BeforeBelow
  BY DEF BeforeBelow, BeforeAbove, BeforeNarrow
<1>3. /\ ~(term_col >= VGA_COLS) /\ ~(term_col < 0)
      /\ ~(term_row >= VGA_ROWS) /\ ~(term_row < 0)
  BY <1>1, <1>2 DEF EdgesWatched
<1>4. term_col \in Int /\ term_row \in Int
  BY DEF VgaTypeOK
<1> QED BY <1>3, <1>4, ScreenAssumption DEF Col, Row

LEMMA VgaInitial == VgaInit => VgaInv
<1> SUFFICES ASSUME VgaInit PROVE VgaInv
  OBVIOUS
<1>1. VgaTypeOK
  <2>1. 0 \in Int /\ 0 \in 0 .. (UINT16 - 1)
    BY ScreenAssumption
  <2>2. "idle" \in BeforeBelow \cup {"idle"} /\ CHAR \in Key
    BY DEF Key
  <2> QED BY <2>1, <2>2 DEF VgaInit, VgaTypeOK
<1>2. EdgesWatched
  BY ScreenAssumption DEF VgaInit, EdgesWatched
<1>3. alone = {}
  BY DEF VgaInit
<1>4. AloneSound
  BY <1>3, Zenon DEF AloneSound
<1> QED BY <1>1, <1>2, <1>4 DEF VgaInv

----------------------------------------------------------------------------
(* A task's step, from label to label.                                     *)

PutcLabels == BeforeBelow \cup {"idle"}

\* Of what a step does to the cursor, enough to keep every edge watched: where it
\* carries the cursor past an edge, the task has that edge still to test.
LEMMA StepKeepsWatch ==
  ASSUME VgaTypeOK, EdgesWatched, NEW w \in Writers, NEW to \in PutcLabels,
         wpc' = [wpc EXCEPT ![w] = to],
         term_col' >= VGA_COLS => to \in BeforeWide \/
            (term_col >= VGA_COLS /\ wpc[w] \notin BeforeWide),
         term_col' < 0 => to \in BeforeNarrow \/
            (term_col < 0 /\ wpc[w] \notin BeforeNarrow),
         term_row' < 0 => to \in BeforeAbove \/
            (term_row < 0 /\ wpc[w] \notin BeforeAbove),
         term_row' >= VGA_ROWS => to \in BeforeBelow
  PROVE  EdgesWatched'
<1>1. wpc'[w] = to /\ \A v \in Writers : v # w => wpc'[v] = wpc[v]
  BY DEF VgaTypeOK
<1>2. term_col' >= VGA_COLS => \E v \in Writers : wpc'[v] \in BeforeWide
  <2>1. CASE to \in BeforeWide
    BY <1>1, <2>1
  <2>2. CASE term_col >= VGA_COLS /\ wpc[w] \notin BeforeWide
    BY <1>1, <2>2 DEF EdgesWatched
  <2> QED BY <2>1, <2>2
<1>3. term_col' < 0 => \E v \in Writers : wpc'[v] \in BeforeNarrow
  <2>1. CASE to \in BeforeNarrow
    BY <1>1, <2>1
  <2>2. CASE term_col < 0 /\ wpc[w] \notin BeforeNarrow
    BY <1>1, <2>2 DEF EdgesWatched
  <2> QED BY <2>1, <2>2
<1>4. term_row' < 0 => \E v \in Writers : wpc'[v] \in BeforeAbove
  <2>1. CASE to \in BeforeAbove
    BY <1>1, <2>1
  <2>2. CASE term_row < 0 /\ wpc[w] \notin BeforeAbove
    BY <1>1, <2>2 DEF EdgesWatched
  <2> QED BY <2>1, <2>2
<1>5. term_row' >= VGA_ROWS => \E v \in Writers : wpc'[v] \in BeforeBelow
  BY <1>1
<1> QED BY <1>2, <1>3, <1>4, <1>5 DEF EdgesWatched

\* The edges a label is before.
LEMMA LabelOrder ==
  /\ BeforeWide \subseteq BeforeNarrow /\ BeforeNarrow \subseteq BeforeAbove
  /\ BeforeAbove \subseteq BeforeBelow /\ BeforeBelow \subseteq PutcLabels
  /\ "idle" \in PutcLabels /\ "idle" \notin BeforeBelow
BY DEF PutcLabels, BeforeBelow, BeforeAbove, BeforeNarrow, BeforeWide

LEMMA TaskWatches ==
  ASSUME VgaInv, NEW w \in Writers, term_putc(w) PROVE EdgesWatched'
<1> USE DEF VgaInv
<1>0. term_col \in Int /\ term_row \in Int /\ VGA_COLS \in Nat /\ VGA_ROWS \in Nat
      /\ VGA_COLS > 0 /\ VGA_ROWS > 0
  BY ScreenAssumption DEF VgaTypeOK
<1>1. CASE Newline(w)
  <2>1. PICK to \in {"down", "downed", "wide"} : wpc' = [wpc EXCEPT ![w] = to]
    BY <1>1 DEF Newline, Moves
  <2>2. to \in BeforeWide
    BY <2>1 DEF BeforeWide
  <2> QED BY <2>1, <2>2, LabelOrder, StepKeepsWatch
<1>2. CASE Back(w)
  <2>1. PICK to \in {"backed", "row"} : wpc' = [wpc EXCEPT ![w] = to]
    BY <1>2 DEF Back, Moves
  <2>2. to \in BeforeWide
    BY <2>1 DEF BeforeWide
  <2> QED BY <2>1, <2>2, LabelOrder, StepKeepsWatch
<1>3. CASE term_setc(w)
  <2>1. PICK to \in {"col", "store", "wide", "right"} : wpc' = [wpc EXCEPT ![w] = to]
    BY <1>3 DEF term_setc, Moves
  <2>2. to \in BeforeWide
    BY <2>1 DEF BeforeWide
  <2> QED BY <2>1, <2>2, LabelOrder, StepKeepsWatch
<1>4. CASE Forward(w)
  <2>1. PICK to \in {"righted", "wide"} : wpc' = [wpc EXCEPT ![w] = to]
    BY <1>4 DEF Forward, Moves
  <2>2. to \in BeforeWide
    BY <2>1 DEF BeforeWide
  <2> QED BY <2>1, <2>2, LabelOrder, StepKeepsWatch
<1>5. CASE WrapDown(w)
  <2>1. CASE Moves(w, "wide", IF term_col >= VGA_COLS THEN "wrap" ELSE "narrow") /\ Tests
    <3>1. term_col' = term_col /\ term_row' = term_row
      BY <2>1 DEF Tests
    <3>2. PICK to \in {"wrap", "narrow"} :
            /\ wpc' = [wpc EXCEPT ![w] = to]
            /\ term_col >= VGA_COLS => to = "wrap"
      BY <2>1 DEF Moves
    <3>3. to \in BeforeNarrow /\ (to = "wrap" => to \in BeforeWide)
      BY <3>2 DEF BeforeNarrow, BeforeWide
    <3> QED BY <3>1, <3>2, <3>3, LabelOrder, StepKeepsWatch
  <2>2. CASE Moves(w, "wrap", "wrap down") /\ Sets(w, 0, term_row)
    <3>0. term_col' = 0
      BY <2>2 DEF Moves, Sets
    <3>1. ~(term_col' >= VGA_COLS) /\ ~(term_col' < 0)
      BY <1>0, <3>0
    <3>2. "wrap down" \in BeforeAbove /\ "wrap down" \in BeforeBelow /\ "wrap down" \in PutcLabels
      BY DEF BeforeNarrow, BeforeAbove, BeforeBelow, PutcLabels
    <3>3. wpc' = [wpc EXCEPT ![w] = "wrap down"]
      BY <2>2 DEF Moves
    <3> QED BY <3>1, <3>2, <3>3, StepKeepsWatch
  <2>3. CASE \/ Moves(w, "wrap down", "wrapped down") /\ CountsRow(w, term_row + 1)
             \/ Moves(w, "wrapped down", "narrow") /\ Sets(w, term_col, reg[w])
    <3>1. PICK to \in {"wrapped down", "narrow"} : wpc' = [wpc EXCEPT ![w] = to]
      BY <2>3 DEF Moves
    <3>2. term_col' = term_col /\ wpc[w] \notin BeforeWide /\ to \in BeforeNarrow
      BY <2>3, <3>1 DEF Moves, CountsRow, Loads, Sets, BeforeNarrow, BeforeWide
    <3> QED BY <3>1, <3>2, LabelOrder, StepKeepsWatch
  <2> QED BY <1>5, <2>1, <2>2, <2>3 DEF WrapDown
<1>6. CASE WrapUp(w)
  <2>1. CASE Moves(w, "narrow", IF term_col < 0 THEN "unwrap" ELSE "above") /\ Tests
    <3>1. term_col' = term_col /\ term_row' = term_row /\ wpc[w] \notin BeforeWide
      BY <2>1 DEF Tests, Moves, BeforeWide
    <3>2. PICK to \in {"unwrap", "above"} :
            /\ wpc' = [wpc EXCEPT ![w] = to]
            /\ term_col < 0 => to = "unwrap"
      BY <2>1 DEF Moves
    <3>3. to \in BeforeAbove /\ (to = "unwrap" => to \in BeforeNarrow)
      BY <3>2 DEF BeforeAbove, BeforeNarrow
    <3> QED BY <3>1, <3>2, <3>3, LabelOrder, StepKeepsWatch
  <2>2. CASE Moves(w, "unwrap", "wrap up") /\ Sets(w, VGA_COLS - 1, term_row)
    <3>0. term_col' = VGA_COLS - 1
      BY <2>2 DEF Moves, Sets
    <3>1. ~(term_col' >= VGA_COLS) /\ ~(term_col' < 0)
      BY <1>0, <3>0
    <3>2. "wrap up" \in BeforeAbove /\ "wrap up" \in BeforeBelow /\ "wrap up" \in PutcLabels
      BY DEF BeforeAbove, BeforeBelow, PutcLabels
    <3>3. wpc' = [wpc EXCEPT ![w] = "wrap up"]
      BY <2>2 DEF Moves
    <3> QED BY <3>1, <3>2, <3>3, StepKeepsWatch
  <2>3. CASE \/ Moves(w, "wrap up", "wrapped up") /\ CountsRow(w, term_row - 1)
             \/ Moves(w, "wrapped up", "above") /\ Sets(w, term_col, reg[w])
    <3>1. PICK to \in {"wrapped up", "above"} : wpc' = [wpc EXCEPT ![w] = to]
      BY <2>3 DEF Moves
    <3>2. /\ term_col' = term_col /\ to \in BeforeAbove
          /\ wpc[w] \notin BeforeWide /\ wpc[w] \notin BeforeNarrow
      BY <2>3, <3>1 DEF Moves, CountsRow, Loads, Sets, BeforeAbove, BeforeNarrow, BeforeWide
    <3> QED BY <3>1, <3>2, LabelOrder, StepKeepsWatch
  <2> QED BY <1>6, <2>1, <2>2, <2>3 DEF WrapUp
<1>7. CASE Scroll(w)
  <2>0. term_col' = term_col /\ wpc[w] \notin BeforeNarrow /\ wpc[w] \notin BeforeWide
    BY <1>7 DEF Scroll, Moves, Tests, Sets, BeforeNarrow, BeforeWide
  <2>1. CASE Moves(w, "above", IF term_row < 0 THEN "top" ELSE "below") /\ Tests
    <3>1. term_row' = term_row
      BY <2>1 DEF Tests
    <3>2. PICK to \in {"top", "below"} :
            /\ wpc' = [wpc EXCEPT ![w] = to]
            /\ term_row < 0 => to = "top"
      BY <2>1 DEF Moves
    <3>3. to \in BeforeBelow /\ (to = "top" => to \in BeforeAbove)
      BY <3>2 DEF BeforeBelow, BeforeAbove
    <3> QED BY <2>0, <3>1, <3>2, <3>3, LabelOrder, StepKeepsWatch
  <2>2. CASE Moves(w, "top", "below") /\ Sets(w, term_col, 0)
    <3>1. ~(term_row' < 0)
      BY <2>2 DEF Sets
    <3>2. "below" \in BeforeBelow
      BY DEF BeforeBelow
    <3> QED BY <2>0, <2>2, <3>1, <3>2, LabelOrder, StepKeepsWatch DEF Moves
  <2>3. CASE Moves(w, "below", IF term_row >= VGA_ROWS THEN "bottom" ELSE "idle") /\ Tests
    <3>1. term_row' = term_row /\ wpc[w] \notin BeforeAbove
      BY <2>3 DEF Tests, Moves, BeforeAbove, BeforeNarrow, BeforeWide
    <3>2. PICK to \in {"bottom", "idle"} :
            /\ wpc' = [wpc EXCEPT ![w] = to]
            /\ term_row >= VGA_ROWS => to = "bottom"
      BY <2>3 DEF Moves
    <3>3. to \in PutcLabels /\ (to = "bottom" => to \in BeforeBelow)
      BY <3>2 DEF PutcLabels, BeforeBelow
    <3> QED BY <2>0, <3>1, <3>2, <3>3, LabelOrder, StepKeepsWatch
  <2>4. CASE Moves(w, "bottom", "idle") /\ Sets(w, term_col, VGA_ROWS - 1)
    <3>1. ~(term_row' < 0) /\ ~(term_row' >= VGA_ROWS)
      BY <1>0, <2>4 DEF Sets
    <3> QED BY <2>0, <2>4, <3>1, LabelOrder, StepKeepsWatch DEF Moves
  <2> QED BY <1>7, <2>1, <2>2, <2>3, <2>4 DEF Scroll
<1> QED BY <1>1, <1>2, <1>3, <1>4, <1>5, <1>6, <1>7 DEF term_putc

\* The type invariant, one component of the state after the other.
LEMMA TaskTyped ==
  ASSUME VgaTypeOK, NEW w \in Writers, term_putc(w) PROVE VgaTypeOK'
<1>0. /\ VGA_COLS - 1 \in Int /\ VGA_ROWS - 1 \in Int /\ 0 \in Int /\ 0 \in 0 .. (UINT16 - 1)
      /\ term_col \in Int /\ term_row \in Int /\ reg[w] \in Int
      /\ term_col + 1 \in Int /\ term_row + 1 \in Int /\ term_col - 1 \in Int
      /\ term_row - 1 \in Int /\ CHAR \in Key
  BY ScreenAssumption DEF VgaTypeOK, Key
<1>1. Uint16(term_col) \in Int /\ Uint16(term_row) \in 0 .. (UINT16 - 1)
  BY <1>0, Uint16Exact
<1>2. wpc' \in [Writers -> PutcLabels]
  <2>1. PICK to \in PutcLabels : wpc' = [wpc EXCEPT ![w] = to]
    BY DEF term_putc, Newline, Back, term_setc, Forward, WrapDown, WrapUp, Scroll, Moves,
           PutcLabels, BeforeBelow, BeforeAbove, BeforeNarrow, BeforeWide
  <2> QED BY <2>1 DEF VgaTypeOK, PutcLabels
<1>3. term_col' \in Int /\ term_row' \in Int
  BY <1>0 DEF term_putc, Newline, Back, term_setc, Forward, WrapDown, WrapUp, Scroll,
              Sets, CountsRow, CountsCol, Loads, Tests
<1>4. PICK v \in Int : reg' = [reg EXCEPT ![w] = v] \/ reg' = reg
  BY <1>0, <1>1 DEF term_putc, Newline, Back, term_setc, Forward, WrapDown, WrapUp, Scroll,
              Sets, CountsRow, CountsCol, Loads, Tests
<1>5. PICK a \in 0 .. (UINT16 - 1) : y' = [y EXCEPT ![w] = a] \/ y' = y
  BY <1>0, <1>1 DEF term_putc, Newline, Back, term_setc, Forward, WrapDown, WrapUp, Scroll,
              Sets, CountsRow, CountsCol, Loads, Tests
<1>6. c' = c \/ c' = [c EXCEPT ![w] = CHAR]
  BY DEF term_putc, Newline, Back, term_setc, Forward, WrapDown, WrapUp, Scroll,
              Sets, CountsRow, CountsCol, Loads, Tests
<1>7. reg' \in [Writers -> Int] /\ y' \in [Writers -> 0 .. (UINT16 - 1)]
      /\ c' \in [Writers -> Key]
  BY <1>0, <1>4, <1>5, <1>6 DEF VgaTypeOK
<1>8. alone' = alone
  BY DEF term_putc
<1> QED BY <1>2, <1>3, <1>7, <1>8 DEF VgaTypeOK, PutcLabels

\* A task that is alone finds the cursor where it left it, on the screen.
LEMMA TaskAlone ==
  ASSUME VgaInv, NEW w \in Writers, term_putc(w) PROVE AloneSound'
<1> USE DEF VgaInv
<1>0. alone' = alone /\ alone \subseteq Writers
  BY DEF term_putc, VgaTypeOK
<1> SUFFICES ASSUME NEW u \in alone
             PROVE  /\ \A v \in Writers \ {u} : Idle(v)'
                    /\ c'[u] # BACKSPACE /\ wpc'[u] \in {"row", "col", "store"} =>
                         term_col' \in Col /\ term_row' \in Row
                    /\ c'[u] # BACKSPACE /\ wpc'[u] \in {"col", "store"} => y'[u] \in Row
                    /\ c'[u] # BACKSPACE /\ wpc'[u] = "store" => reg'[u] \in Col
                    /\ wpc'[u] \in {"back", "backed"} => c'[u] = BACKSPACE
  BY <1>0 DEF AloneSound
<1>1. w = u
  <2>1. ~Idle(w)
    BY DEF term_putc, Newline, Back, term_setc, Forward, WrapDown, WrapUp, Scroll, Moves, Idle
  <2> QED BY <2>1 DEF AloneSound
<1>2. \A v \in Writers \ {u} : Idle(v)'
  <2>1. PICK to : wpc' = [wpc EXCEPT ![w] = to]
    BY DEF term_putc, Newline, Back, term_setc, Forward, WrapDown, WrapUp, Scroll, Moves
  <2> QED BY <1>1, <2>1 DEF AloneSound, Idle, VgaTypeOK
<1>3. CASE Back(w)
  <2>1. c'[w] = BACKSPACE
    BY <1>1, <1>3 DEF Back, Moves, CountsCol, Loads, Sets, AloneSound
  <2> QED BY <1>1, <1>2, <2>1
<1>4. CASE term_setc(w)
  <2>1. CASE /\ Moves(w, "row", "col")
             /\ y' = [y EXCEPT ![w] = Uint16(term_row)]
             /\ UNCHANGED <<term_col, term_row, c, reg>>
    <3>1. wpc[w] = "row" /\ wpc'[w] = "col" /\ y'[w] = Uint16(term_row)
      BY <2>1 DEF Moves, VgaTypeOK
    <3> QED BY <1>1, <1>2, <2>1, <3>1, Uint16Exact DEF AloneSound
  <2>2. CASE Moves(w, "col", "store") /\ Loads(w, Uint16(term_col))
    <3>1. /\ wpc[w] = "col" /\ wpc'[w] = "store" /\ reg'[w] = Uint16(term_col)
          /\ c' = c /\ y' = y /\ term_col' = term_col /\ term_row' = term_row
      BY <2>2 DEF Moves, Loads, VgaTypeOK
    <3> QED BY <1>1, <1>2, <3>1, Uint16Exact DEF AloneSound
  <2>3. CASE Moves(w, "store", IF c[w] = BACKSPACE THEN "wide" ELSE "right")
    <3>1. wpc'[w] \in {"wide", "right"}
      BY <2>3 DEF Moves, VgaTypeOK
    <3> QED BY <1>1, <1>2, <3>1
  <2> QED BY <1>4, <2>1, <2>2, <2>3 DEF term_setc
<1>5. CASE Newline(w) \/ Forward(w) \/ WrapDown(w) \/ WrapUp(w) \/ Scroll(w)
  <2>1. wpc'[w] \notin {"row", "col", "store", "back", "backed"}
    BY <1>5 DEF Newline, Forward, WrapDown, WrapUp, Scroll, Moves, VgaTypeOK
  <2> QED BY <1>1, <1>2, <2>1
<1> QED BY <1>3, <1>4, <1>5 DEF term_putc

----------------------------------------------------------------------------
(* The other steps.                                                        *)

LEMMA BeginKeeps == ASSUME VgaInv, NEW w \in Writers, Begin(w) PROVE VgaInv'
<1> USE DEF VgaInv
<1>1. PICK char \in Key :
        /\ c' = [c EXCEPT ![w] = char]
        /\ wpc' = [wpc EXCEPT ![w] = CASE char = NEWLINE -> "newline"
                                       [] char = BACKSPACE -> "back"
                                       [] char = CHAR -> "row"]
  BY DEF Begin
<1>2. PICK to \in {"newline", "back", "row"} :
        wpc' = [wpc EXCEPT ![w] = to] /\ (to = "back" => char = BACKSPACE)
  BY <1>1 DEF Key, NEWLINE, BACKSPACE, CHAR
<1>3. to \in BeforeWide /\ to \in PutcLabels
  BY <1>2 DEF BeforeWide, PutcLabels, BeforeBelow, BeforeAbove, BeforeNarrow
<1>4. /\ term_col' = term_col /\ term_row' = term_row /\ reg' = reg /\ y' = y
      /\ alone' = IF \A v \in Writers : Idle(v) THEN {w} ELSE {}
  BY DEF Begin
<1>5. VgaTypeOK'
  BY <1>1, <1>2, <1>3, <1>4 DEF VgaTypeOK, PutcLabels
<1>6. EdgesWatched'
  BY <1>2, <1>3, <1>4, LabelOrder, StepKeepsWatch
<1>7. AloneSound'
  <2>1. CASE \A v \in Writers : Idle(v)
    <3>1. term_col \in Col /\ term_row \in Row
      BY <2>1, RestOnScreen
    <3>2. alone' = {w} /\ wpc'[w] = to /\ c'[w] = char
      BY <1>1, <1>2, <1>4, <2>1 DEF VgaTypeOK
    <3>3. \A v \in Writers \ {w} : Idle(v)'
      BY <1>2, <2>1 DEF Idle, VgaTypeOK
    <3> QED BY <1>2, <1>4, <3>1, <3>2, <3>3 DEF AloneSound
  <2>2. CASE ~\A v \in Writers : Idle(v)
    <3>1. alone' = {}
      BY <1>4, <2>2
    <3> QED BY <3>1, Zenon DEF AloneSound
  <2> QED BY <2>1, <2>2
<1> QED BY <1>5, <1>6, <1>7

\* Whoever prints or clears in one step leaves the cursor on the screen.
LEMMA AtOnceOnScreen ==
  ASSUME VgaTypeOK, (\E char \in Key : PutAtOnce(char)) \/ term_clear
  PROVE  term_col' \in Col /\ term_row' \in Row
<1>0. /\ term_col \in Int /\ term_row \in Int /\ VGA_COLS \in Nat /\ VGA_ROWS \in Nat
      /\ VGA_COLS > 0 /\ VGA_ROWS > 0
  BY ScreenAssumption DEF VgaTypeOK
<1>1. ASSUME NEW char \in Key, PutAtOnce(char) PROVE term_col' \in Col /\ term_row' \in Row
  <2> DEFINE moved == Moved(char, [col |-> term_col, row |-> term_row])
             at == Wrapped(moved)
  <2>1. moved.col \in Int /\ moved.row \in Int
    BY <1>0 DEF Moved, Key, NEWLINE, BACKSPACE, CHAR
  <2>2. at.col \in 0 .. (VGA_COLS - 1) /\ at.row \in Int
    <3> HIDE DEF moved
    <3> QED BY <1>0, <2>1 DEF Wrapped
  <2>3. Scrolled(at.row) \in 0 .. (VGA_ROWS - 1)
    <3> HIDE DEF at
    <3> QED BY <1>0, <2>2 DEF Scrolled
  <2>4. term_col' = at.col /\ term_row' = Scrolled(at.row)
    BY <1>1 DEF PutAtOnce
  <2> QED BY <2>2, <2>3, <2>4 DEF Col, Row
<1>2. CASE term_clear
  BY <1>2, Positions DEF term_clear
<1> QED BY <1>1, <1>2

LEMMA AtOnceKeeps ==
  ASSUME VgaInv, (\E char \in Key : PutAtOnce(char)) \/ term_clear PROVE VgaInv'
<1>1. term_col' \in Col /\ term_row' \in Row
  BY AtOnceOnScreen DEF VgaInv
<1>2. wpc' = wpc /\ c' = c /\ reg' = reg /\ y' = y /\ alone' = alone
  BY DEF PutAtOnce, term_clear
<1>3. VgaTypeOK'
  BY <1>1, <1>2, Positions DEF VgaInv, VgaTypeOK
<1>4. EdgesWatched'
  <2>1. ~(term_col' >= VGA_COLS) /\ ~(term_col' < 0) /\ ~(term_row' < 0)
        /\ ~(term_row' >= VGA_ROWS)
    BY <1>1, ScreenAssumption DEF Col, Row
  <2> QED BY <2>1 DEF EdgesWatched
<1>5. AloneSound'
  BY <1>1, <1>2 DEF VgaInv, AloneSound, Idle
<1> QED BY <1>3, <1>4, <1>5 DEF VgaInv

LEMMA VgaStep == VgaInv /\ [VgaNext]_vgaVars => VgaInv'
<1> SUFFICES ASSUME VgaInv, [VgaNext]_vgaVars PROVE VgaInv'
  OBVIOUS
<1>1. ASSUME NEW w \in Writers, Begin(w) PROVE VgaInv'
  BY <1>1, BeginKeeps
<1>2. ASSUME NEW w \in Writers, term_putc(w) PROVE VgaInv'
  BY <1>2, TaskTyped, TaskWatches, TaskAlone DEF VgaInv
<1>3. CASE (\E char \in Key : PutAtOnce(char)) \/ term_clear
  BY <1>3, AtOnceKeeps
<1>4. CASE UNCHANGED vgaVars
  BY <1>4 DEF vgaVars, VgaInv, VgaTypeOK, EdgesWatched, AloneSound, Idle
<1> QED BY <1>1, <1>2, <1>3, <1>4 DEF VgaNext

\* Once nobody is in term_putc the cursor is back on the screen, however many tasks
\* printed over each other and whatever was echoed between (vga.c:69-110).
THEOREM CursorComesBack == VgaSpec => []CursorOnScreen
<1>1. VgaInv => CursorOnScreen
  BY RestOnScreen DEF VgaInv, CursorOnScreen
<1> QED BY <1>1, VgaInitial, VgaStep, PTL DEF VgaSpec

\* What a task prints on its own lands on the screen, whatever is echoed while it
\* does, except for a backspace (vga.c:49-81).
THEOREM PrintsOnScreen == VgaSpec => [](VgaTypeOK /\ StoresOnScreen)
<1>1. VgaInv => VgaTypeOK /\ StoresOnScreen
  BY DEF VgaInv, AloneSound, StoresOnScreen
<1> QED BY <1>1, VgaInitial, VgaStep, PTL DEF VgaSpec

----------------------------------------------------------------------------
(* No number of readers, whatever they ask for, leaves the input buffer:   *)
(* an offset that passed the test stays below the size of the buffer even  *)
(* when an interrupt or another reader moves the end of the data before    *)
(* the load, because the buffer itself does not move.                      *)


USE ScreenAssumption, RequestAssumption

\* A reader in the middle of a read still has something to read.
Reading == \A r \in Readers : pc[r] # "idle" => size[r] > 0

TtyInv == TypeOK /\ Reading /\ ReadInBounds

LEMMA TtyInit == Init => TtyInv
BY DEF Init, TtyInv, TypeOK, Reading, ReadInBounds, At, Cell, Labels, Key

LEMMA TtyStep == TtyInv /\ [Next]_vars => TtyInv'
<1> SUFFICES ASSUME TtyInv, [Next]_vars PROVE TtyInv'
  OBVIOUS
<1> USE DEF TtyInv, TypeOK, Reading, ReadInBounds, At, Goto, Cell, Labels, Key
<1>1. ASSUME NEW k \in Key, tty_keyboard_ih_low(k) PROVE TtyInv'
  <2>1. CASE Stores(k) /\ buff' = [buff EXCEPT ![ptr] = k] /\ ptr' = ptr + 1
              /\ unread' = unread \cup {ptr}
    <3>1. ptr \in 0 .. (VGA_COLS - 1) /\ ptr' \in 0 .. VGA_COLS
      BY <2>1 DEF Stores
    <3>2. buff' \in [Cell -> Key \cup {NUL}] /\ unread' \subseteq Cell
      BY <2>1, <3>1
    <3> QED BY <1>1, <3>1, <3>2 DEF tty_keyboard_ih_low, readVars
  <2>2. CASE Erases(k) /\ buff' = [buff EXCEPT ![ptr - 1] = NUL] /\ ptr' = ptr - 1
              /\ unread' = unread \ {ptr - 1}
    <3>1. ptr - 1 \in 0 .. (VGA_COLS - 1) /\ ptr' \in 0 .. VGA_COLS
      BY <2>2 DEF Erases
    <3>2. buff' \in [Cell -> Key \cup {NUL}] /\ unread' \subseteq Cell
      BY <2>2, <3>1
    <3> QED BY <1>1, <3>1, <3>2 DEF tty_keyboard_ih_low, readVars
  <2> QED BY <1>1, <2>1, <2>2 DEF tty_keyboard_ih_low
<1>2. CASE tty_ioctl
  BY <1>2 DEF tty_ioctl, readVars
<1>3. ASSUME NEW r \in Readers, ReadBegin(r) PROVE TtyInv'
  BY <1>3 DEF ReadBegin
<1>4. ASSUME NEW r \in Readers, TestEof(r) PROVE TtyInv'
  BY <1>4 DEF TestEof
<1>5. ASSUME NEW r \in Readers, Rewind(r) PROVE TtyInv'
  BY <1>5 DEF Rewind
<1>6. ASSUME NEW r \in Readers, Load(r) PROVE TtyInv'
  BY <1>6 DEF Load
<1>7. ASSUME NEW r \in Readers, Advance(r) PROVE TtyInv'
  <2>1. offset[r] \in 0 .. (VGA_COLS - 1)
    BY <1>7 DEF Advance
  <2>2. CASE read_line_mode /\ ch[r] = NEWLINE
    BY <1>7, <2>2 DEF Advance
  <2>3. CASE ~(read_line_mode /\ ch[r] = NEWLINE)
    <3>1. offset' = [offset EXCEPT ![r] = @ + 1] /\ pc' = [pc EXCEPT ![r] = "end"]
      BY <1>7, <2>3 DEF Advance
    <3>2. offset' \in [Readers -> 0 .. VGA_COLS]
      BY <2>1, <3>1
    <3>3. pc' \in [Readers -> Labels]
      BY <3>1
    <3> QED BY <1>7, <3>1, <3>2, <3>3 DEF Advance
  <2> QED BY <2>2, <2>3
<1>8. ASSUME NEW r \in Readers, Reset(r) PROVE TtyInv'
  BY <1>8 DEF Reset
<1>9. ASSUME NEW r \in Readers, ReadEnd(r) PROVE TtyInv'
  BY <1>9 DEF ReadEnd
<1>10. CASE UNCHANGED vars
  BY <1>10 DEF vars, readVars
<1> QED BY <1>1, <1>2, <1>3, <1>4, <1>5, <1>6, <1>7, <1>8, <1>9, <1>10 DEF Next, ReadStep

\* The keyboard interrupt and every reader stay inside tty_input_buff
\* (tty.c:102-122, 253-281).
THEOREM TtySafe == Spec => [](TypeOK /\ ReadInBounds)
<1>1. TtyInv => TypeOK /\ ReadInBounds
  BY DEF TtyInv
<1> QED BY <1>1, TtyInit, TtyStep, PTL DEF Spec

----------------------------------------------------------------------------
(* With one reader nothing is read twice: what lies between its offset and *)
(* the end of the data is unread, and a cell that was erased under it      *)
(* between the test and the load is empty.                                 *)

OneReader == \A r, s \in Readers : r = s

Fresh ==
  \A r \in Readers, i \in Cell :
     /\ pc[r] \in {"idle", "test", "load", "end"} /\ offset[r] <= i /\ i < ptr => i \in unread
     /\ pc[r] = "mode" /\ offset[r] < i /\ i < ptr => i \in unread
     /\ pc[r] = "load" /\ offset[r] = i /\ ptr <= i => buff[i] = NUL

LEMMA FreshStep ==
  ASSUME OneReader, TtyInv, Fresh, [Next]_vars
  PROVE  Fresh'
<1> USE DEF Fresh, Goto, At
<1>t. /\ ptr \in Int /\ VGA_COLS \in Int
      /\ \A i \in Cell : i \in Int
      /\ \A r \in Readers : offset[r] \in Int /\ pc[r] \in Labels
  BY DEF TtyInv, TypeOK, Cell
<1>1. ASSUME NEW k \in Key, tty_keyboard_ih_low(k) PROVE Fresh'
  <2> SUFFICES ASSUME NEW r \in Readers, NEW i \in Cell
               PROVE  /\ pc[r] \in {"idle", "test", "load", "end"} /\ offset[r] <= i /\ i < ptr'
                           => i \in unread'
                      /\ pc[r] = "mode" /\ offset[r] < i /\ i < ptr' => i \in unread'
                      /\ pc[r] = "load" /\ offset[r] = i /\ ptr' <= i => buff'[i] = NUL
    BY <1>1 DEF tty_keyboard_ih_low, readVars
  <2>1. CASE Stores(k) /\ buff' = [buff EXCEPT ![ptr] = k] /\ ptr' = ptr + 1
              /\ unread' = unread \cup {ptr}
    <3>1. i < ptr' => i < ptr \/ i = ptr  BY <1>t, <2>1
    <3>2. ptr' <= i => ptr <= i /\ i # ptr  BY <1>t, <2>1
    <3>3. i # ptr => buff'[i] = buff[i]  BY <2>1 DEF TtyInv, TypeOK
    <3> QED  BY <2>1, <3>1, <3>2, <3>3
  <2>2. CASE Erases(k) /\ buff' = [buff EXCEPT ![ptr - 1] = NUL] /\ ptr' = ptr - 1
              /\ unread' = unread \ {ptr - 1}
    <3>1. i < ptr' => i < ptr /\ i # ptr - 1  BY <1>t, <2>2
    <3>2. ptr' <= i => ptr <= i \/ i = ptr - 1  BY <1>t, <2>2
    <3>3. buff'[i] = IF i = ptr - 1 THEN NUL ELSE buff[i]  BY <2>2 DEF TtyInv, TypeOK
    <3> QED  BY <2>2, <3>1, <3>2, <3>3
  <2> QED  BY <1>1, <2>1, <2>2 DEF tty_keyboard_ih_low
<1>2. CASE tty_ioctl
  BY <1>2 DEF tty_ioctl, readVars
<1>3. ASSUME NEW r \in Readers, ReadBegin(r) \/ ReadEnd(r) PROVE Fresh'
  <2>1. /\ UNCHANGED <<buff, ptr, offset, unread>>
        /\ pc[r] \in {"idle", "end"} /\ pc'[r] \in {"idle", "test"}
        /\ \A s \in Readers : s = r
    BY <1>3 DEF ReadBegin, ReadEnd, OneReader, TtyInv, TypeOK
  <2> QED  BY <2>1
<1>4. ASSUME NEW r \in Readers, TestEof(r) PROVE Fresh'
  <2>1. /\ UNCHANGED <<buff, ptr, offset, unread>>
        /\ pc[r] = "test" /\ (pc'[r] = "rewind" \/ (pc'[r] = "load" /\ ~(offset[r] >= ptr)))
        /\ \A s \in Readers : s = r
    BY <1>4 DEF TestEof, OneReader, TtyInv, TypeOK
  <2> QED  BY <1>t, <2>1
<1>5. ASSUME NEW r \in Readers, Rewind(r) PROVE Fresh'
  <2>1. /\ ptr' = ptr /\ offset'[r] = ptr /\ pc'[r] = "end"
        /\ \A s \in Readers : s = r
    BY <1>5 DEF Rewind, OneReader, TtyInv, TypeOK
  <2> QED  BY <1>t, <2>1
<1>6. ASSUME NEW r \in Readers, Load(r) PROVE Fresh'
  <2>1. /\ ptr' = ptr /\ offset' = offset /\ pc[r] = "load" /\ pc'[r] = "mode"
        /\ unread' = unread \ {offset[r]}
        /\ \A s \in Readers : s = r
    BY <1>6 DEF Load, OneReader, TtyInv, TypeOK
  <2> QED  BY <1>t, <2>1
<1>7. ASSUME NEW r \in Readers, Advance(r) PROVE Fresh'
  <2>1. /\ UNCHANGED <<buff, ptr, unread>> /\ pc[r] = "mode"
        /\ \/ pc'[r] = "reset"
           \/ pc'[r] = "end" /\ offset'[r] = offset[r] + 1
        /\ \A s \in Readers : s = r
    BY <1>7 DEF Advance, OneReader, TtyInv, TypeOK
  <2> QED  BY <1>t, <2>1
<1>8. ASSUME NEW r \in Readers, Reset(r) PROVE Fresh'
  <2>1. /\ ptr' = 0 /\ offset'[r] = 0 /\ pc'[r] = "end"
        /\ \A s \in Readers : s = r
    BY <1>8 DEF Reset, OneReader, TtyInv, TypeOK
  <2>2. \A i \in Cell : ~(i < 0)  BY DEF Cell
  <2> QED  BY <2>1, <2>2
<1>9. CASE UNCHANGED vars
  BY <1>9 DEF vars, readVars
<1> QED BY <1>1, <1>2, <1>3, <1>4, <1>5, <1>6, <1>7, <1>8, <1>9 DEF Next, ReadStep

LEMMA LoadsUnread ==
  ASSUME TtyInv, Fresh, [Next]_vars, NEW r \in Readers,
         At(r, "load"), pc'[r] = "mode", ch'[r] # NUL
  PROVE  offset[r] \in unread
<1>1. ASSUME NEW s \in Readers, ReadBegin(s) \/ ReadStep(s)  PROVE s = r
  BY <1>1 DEF TtyInv, TypeOK, ReadBegin, ReadStep, TestEof, Rewind, Load, Advance, Reset,
              ReadEnd, Goto, At
<1>2. Load(r)
  BY <1>1 DEF Next, vars, readVars, tty_keyboard_ih_low, tty_ioctl, ReadBegin, ReadStep,
              TestEof, Rewind, Advance, Reset, ReadEnd, At
<1>3. offset[r] \in Cell /\ ch'[r] = buff[offset[r]]
  BY <1>2 DEF Load, TtyInv, TypeOK, ReadInBounds
<1>4. offset[r] \in Int /\ ptr \in Int  BY <1>3 DEF TtyInv, TypeOK, Cell
<1>5. ptr <= offset[r] \/ offset[r] < ptr  BY <1>4
<1>6. offset[r] <= offset[r]  BY <1>4
<1>7. ~(ptr <= offset[r])  BY <1>3 DEF Fresh, At
<1> QED  BY <1>3, <1>5, <1>6, <1>7 DEF Fresh, At

\* One reader gets what was typed once at most once, with keys and erasures between
\* any two of its accesses, and any number of reads of any size (tty.c:102-122,
\* 232-281).  With two the property fails: each has an offset of its own.
THEOREM TtyReadsOnce ==
  ASSUME OneReader
  PROVE  Spec => ReadOnce
<1>1. Init => Fresh
  BY DEF Init, Fresh, Cell
<1>2. TtyInv /\ Fresh /\ [Next]_vars => Fresh'
  BY FreshStep
<1>3. TtyInv /\ Fresh /\ [Next]_vars
      => [\A r \in Readers :
            At(r, "load") /\ pc'[r] = "mode" /\ ch'[r] # NUL => offset[r] \in unread]_vars
  BY LoadsUnread
<1> QED  BY <1>1, <1>2, <1>3, TtyInit, TtyStep, PTL DEF Spec, ReadOnce
=============================================================================
