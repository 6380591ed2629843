-------------------------------- MODULE Tty --------------------------------
(***************************************************************************)
(* The input side of dev/tty.c: the keyboard interrupt that fills          *)
(* tty_input_buff and the tasks that read it.  An interrupt is one step.   *)
(* tty_read runs with the interrupts enabled, in a kernel task (tests.c:   *)
(* 162) as in a system call after its first sched_yield, so it is cut at   *)
(* each access to what the interrupt changes.  The echo is a PutAtOnce     *)
(* of Vga; it and the deferred flush (Sched) do not touch the buffer.      *)
(***************************************************************************)
EXTENDS Vga, FiniteSets

CONSTANTS
  Readers,    \* the open files that read the terminal
  Requests    \* the sizes callers read: 15 (tests.c:162), 127 (stdio.c:102)

ASSUME RequestAssumption == Requests \subseteq Nat \ {0}

Cell == 0 .. (VGA_COLS - 1)     \* of tty_input_buff, as long as a row
NUL  == "nul"

VARIABLES
  buff,             \* tty_input_buff
  ptr,              \* tty_input_ptr - tty_input_buff
  read_line_mode,
  pc,               \* where each reader stands in tty_read
  offset,           \* *offset, which file_read keeps in file_t.pos
  size,             \* what is left to read
  ch,               \* the character tty_read_ch returns
  unread            \* history: the cells written and not yet read

readVars == <<pc, offset, size, ch>>
vars == <<buff, ptr, read_line_mode, readVars, unread>>

Init ==
  /\ buff = [i \in Cell |-> NUL]
  /\ ptr = 0
  /\ read_line_mode = TRUE
  /\ pc = [r \in Readers |-> "idle"]
  /\ offset = [r \in Readers |-> 0]
  /\ size = [r \in Readers |-> 0]
  /\ ch = [r \in Readers |-> NUL]
  /\ unread = {}

----------------------------------------------------------------------------
(* The keyboard interrupt.  A released key, or one without a character,    *)
(* changes nothing.                                                        *)

(* Definitions with a suffix _M are slips the code could have had.         *)

\* The buffer is taken to have one more cell.
Stores_M(k) == ptr <= VGA_COLS /\ (k # BACKSPACE \/ ~read_line_mode)

Stores(k) == ptr < VGA_COLS /\ (k # BACKSPACE \/ ~read_line_mode)
Erases(k) == k = BACKSPACE /\ read_line_mode /\ ptr > 0

tty_keyboard_ih_low(k) ==
  /\ \/ /\ Stores(k)
        /\ buff' = [buff EXCEPT ![ptr] = k]
        /\ ptr' = ptr + 1
        /\ unread' = unread \cup {ptr}
     \/ /\ Erases(k)
        /\ buff' = [buff EXCEPT ![ptr - 1] = NUL]
        /\ ptr' = ptr - 1
        /\ unread' = unread \ {ptr - 1}
  /\ UNCHANGED <<read_line_mode, readVars>>

\* TTY_IOCTL_READ_MODE_LINE_ON and _OFF.
tty_ioctl ==
  /\ \E on \in BOOLEAN : read_line_mode' = on
  /\ UNCHANGED <<buff, ptr, readVars, unread>>

----------------------------------------------------------------------------
(* A reader: tty_read and, from "test" to "end", tty_read_ch.              *)

At(r, l)   == pc[r] = l
Goto(r, l) == pc' = [pc EXCEPT ![r] = l]

ReadBegin(r) ==
  /\ At(r, "idle")
  /\ \E n \in Requests : size' = [size EXCEPT ![r] = n]
  /\ Goto(r, "test")
  /\ UNCHANGED <<buff, ptr, read_line_mode, offset, ch, unread>>

\* The reader may be one character ahead.
TestEof_M(r) ==
  /\ At(r, "test")
  /\ Goto(r, IF offset[r] > ptr THEN "rewind" ELSE "load")
  /\ UNCHANGED <<buff, ptr, read_line_mode, offset, size, ch, unread>>

TestEof(r) ==
  /\ At(r, "test")
  /\ Goto(r, IF offset[r] >= ptr THEN "rewind" ELSE "load")
  /\ UNCHANGED <<buff, ptr, read_line_mode, offset, size, ch, unread>>

\* At the end of the data the reader starts over.
Rewind_M(r) ==
  /\ At(r, "rewind")
  /\ offset' = [offset EXCEPT ![r] = 0]
  /\ ch' = [ch EXCEPT ![r] = NUL]
  /\ Goto(r, "end")
  /\ UNCHANGED <<buff, ptr, read_line_mode, size, unread>>

\* End of the data: the pointer is read once more.
Rewind(r) ==
  /\ At(r, "rewind")
  /\ offset' = [offset EXCEPT ![r] = ptr]
  /\ ch' = [ch EXCEPT ![r] = NUL]
  /\ Goto(r, "end")
  /\ UNCHANGED <<buff, ptr, read_line_mode, size, unread>>

Load(r) ==
  /\ At(r, "load")
  /\ ch' = [ch EXCEPT ![r] = buff[offset[r]]]
  /\ unread' = unread \ {offset[r]}
  /\ Goto(r, "mode")
  /\ UNCHANGED <<buff, ptr, read_line_mode, offset, size>>

\* The end of a line goes on to empty the buffer.
Advance(r) ==
  /\ At(r, "mode")
  /\ IF read_line_mode /\ ch[r] = NEWLINE
     THEN Goto(r, "reset") /\ UNCHANGED offset
     ELSE Goto(r, "end") /\ offset' = [offset EXCEPT ![r] = @ + 1]
  /\ UNCHANGED <<buff, ptr, read_line_mode, size, ch, unread>>

Reset(r) ==
  /\ At(r, "reset")
  /\ ptr' = 0
  /\ offset' = [offset EXCEPT ![r] = 0]
  /\ Goto(r, "end")
  /\ UNCHANGED <<buff, read_line_mode, size, ch, unread>>

\* The size alone decides whether to go on.
ReadEnd_M(r) ==
  /\ At(r, "end")
  /\ LET left == IF ch[r] = NUL THEN size[r] ELSE size[r] - 1
     IN  /\ size' = [size EXCEPT ![r] = left]
         /\ Goto(r, IF left > 0 THEN "test" ELSE "idle")
  /\ UNCHANGED <<buff, ptr, read_line_mode, offset, ch, unread>>

\* A character is given to the caller, or the processor to another task; then
\* the condition of the loop.
ReadEnd(r) ==
  /\ At(r, "end")
  /\ LET left == IF ch[r] = NUL THEN size[r] ELSE size[r] - 1
     IN  /\ size' = [size EXCEPT ![r] = left]
         /\ Goto(r, IF left > 0 /\ ~(read_line_mode /\ ch[r] = NEWLINE)
                    THEN "test" ELSE "idle")
  /\ UNCHANGED <<buff, ptr, read_line_mode, offset, ch, unread>>

ReadStep(r) ==
  \/ TestEof(r) \/ Rewind(r) \/ Load(r) \/ Advance(r) \/ Reset(r) \/ ReadEnd(r)

Next ==
  \/ \E k \in Key : tty_keyboard_ih_low(k)
  \/ tty_ioctl
  \/ \E r \in Readers : ReadBegin(r) \/ ReadStep(r)

Spec == Init /\ [][Next]_vars

\* A task that called tty_read gets the processor again and again (Sched).
FairSpec == Spec /\ \A r \in Readers : WF_vars(ReadStep(r))
----------------------------------------------------------------------------
(* Properties.                                                             *)

Labels == {"idle", "test", "rewind", "load", "mode", "reset", "end"}

TypeOK ==
  /\ buff \in [Cell -> Key \cup {NUL}]
  /\ ptr \in 0 .. VGA_COLS
  /\ read_line_mode \in BOOLEAN
  /\ pc \in [Readers -> Labels]
  /\ offset \in [Readers -> 0 .. VGA_COLS]
  /\ size \in [Readers -> Nat]
  /\ ch \in [Readers -> Key \cup {NUL}]
  /\ unread \subseteq Cell

\* A reader never leaves the buffer, though the test that it may read
\* (tty.c:254), the load (tty.c:269) and the interrupts and the readers that move
\* the end of the data in between are apart.
ReadInBounds ==
  \A r \in Readers : /\ At(r, "load") => offset[r] \in Cell
                     /\ At(r, "mode") => offset[r] \in Cell

\* What was typed once is read at most once, though the reader's offset and the
\* end of the data go back and forth (tty.c:118, 271, 278).
ReadOnce ==
  [][\A r \in Readers :
       At(r, "load") /\ pc'[r] = "mode" /\ ch'[r] # NUL => offset[r] \in unread]_vars

\* A line that is complete ahead of a reader when it looks at the buffer gets the
\* read to return, unless the end of the line is erased or overwritten first
\* (tty.c:236-251).
LineRead ==
  \A r \in Readers, i \in Cell :
     At(r, "test") /\ offset[r] <= i /\ i < ptr /\ buff[i] = NEWLINE /\ read_line_mode
       ~> pc[r] = "idle" \/ buff[i] # NEWLINE \/ ~read_line_mode
=============================================================================
