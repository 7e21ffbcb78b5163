------------------------------ MODULE Console ------------------------------
(***************************************************************************)
(* The text console of drivers/console.c: printk formats into its static   *)
(* buffer and console_vga_write puts the buffer on the screen, character   *)
(* by character.  The screen scrolls late: not when the cursor leaves the  *)
(* last row, but when the next character arrives.                          *)
(*                                                                         *)
(* video_memory[y][x] is the source's video_memory[max_xpos * y + x].      *)
(* lines and line record, as a history, everything ever written, in the    *)
(* way the abstract Terminal lays it out.  printk calls do not interleave: *)
(* the boot code prints with interrupts disabled, afterwards only the      *)
(* timer's handler prints, and its gate disables them again.               *)
(***************************************************************************)
EXTENDS Naturals, Sequences

CONSTANTS max_xpos, max_ypos, (* 80 and 25                                  *)
          LOG_LINE_MAX,       (* size of printk's buffer                    *)
          Printable,          (* characters that show                       *)
          NEWLINE, RETURN, ZERO,
          BLANK,              (* 0x720, a space                             *)
          JUNK,               (* what the firmware left on the screen       *)
          Messages,           (* formatted texts printk is called with      *)
          MaxLines            (* bound: lines before only <<>> is printed   *)

ASSUME SizeAssumption ==
  /\ max_xpos \in Nat \ {0} /\ max_ypos \in Nat \ {0}
  /\ LOG_LINE_MAX \in Nat \ {0} /\ MaxLines \in Nat

Chars == Printable \cup {NEWLINE, RETURN, ZERO}

ASSUME CharAssumption ==
  /\ NEWLINE \notin Printable /\ RETURN \notin Printable /\ ZERO \notin Printable
  /\ NEWLINE # RETURN /\ NEWLINE # ZERO /\ RETURN # ZERO
  /\ Messages \subseteq Seq(Chars)

VARIABLES
  video_memory, xpos, ypos,
  cursor,      \* the position last sent to the VGA controller
  console,     \* "write" inside console_vga_write
  text,        \* what is left of the buffer
  lines, line  \* history: everything written

screen == <<video_memory, xpos, ypos>>
consoleVars == <<screen, cursor, console, text, lines, line>>

Rows == 0 .. max_ypos - 1
Cols == 0 .. max_xpos - 1

Paper == INSTANCE Terminal WITH COLS <- max_xpos

-----------------------------------------------------------------------------
ConsoleStart ==
  /\ video_memory = [y \in Rows |-> [x \in Cols |-> JUNK]]
  /\ xpos = 0 /\ ypos = 0 /\ cursor = 0
  /\ console = "boot" /\ text = <<>>
  /\ lines = <<>> /\ line = <<>>

(* console_init, before anything is printed. *)
ConsoleInit ==
  /\ console = "boot"
  /\ video_memory' = [y \in Rows |-> [x \in Cols |-> BLANK]]
  /\ xpos' = 0 /\ ypos' = 0 /\ cursor' = 0
  /\ console' = "idle"
  /\ UNCHANGED <<text, lines, line>>

(* printk: the text is cut to the buffer. *)
Printk(m) ==
  /\ console = "idle" /\ (Len(lines) < MaxLines \/ m = <<>>)
  /\ text' = SubSeq(m, 1, IF Len(m) < LOG_LINE_MAX THEN Len(m) ELSE LOG_LINE_MAX - 1)
  /\ console' = "write"
  /\ UNCHANGED <<screen, cursor, lines, line>>

MustScroll == ypos >= max_ypos

(* Mutant of Scrolled: the last row is not cleared. *)
ScrolledDirty ==
  [y \in Rows |-> IF y < max_ypos - 1 THEN video_memory[y + 1] ELSE video_memory[y]]

Scrolled ==
  [y \in Rows |-> IF y < max_ypos - 1 THEN video_memory[y + 1] ELSE [x \in Cols |-> BLANK]]

(* The screen and the row once there is room for the next character. *)
Screen0 == IF MustScroll THEN Scrolled ELSE video_memory
Row0    == IF MustScroll THEN max_ypos - 1 ELSE ypos

More == text # <<>> /\ Head(text) # ZERO

PutNewline ==
  /\ console = "write" /\ More /\ Head(text) = NEWLINE
  /\ video_memory' = Screen0
  /\ xpos' = 0 /\ ypos' = Row0 + 1
  /\ text' = Tail(text)
  /\ Paper!Newline
  /\ UNCHANGED <<cursor, console>>

(* Mutant of PutReturn: the character is not consumed. *)
PutReturnStuck ==
  /\ console = "write" /\ More /\ Head(text) = RETURN
  /\ video_memory' = Screen0 /\ ypos' = Row0
  /\ UNCHANGED <<xpos, cursor, console, text, lines, line>>

(* A carriage return is dropped, but it scrolls. *)
PutReturn ==
  /\ console = "write" /\ More /\ Head(text) = RETURN
  /\ video_memory' = Screen0 /\ ypos' = Row0
  /\ text' = Tail(text)
  /\ UNCHANGED <<xpos, cursor, console, lines, line>>

RowFull == xpos + 1 >= max_xpos

PutChar ==
  /\ console = "write" /\ More /\ Head(text) \in Printable
  /\ video_memory' = [Screen0 EXCEPT ![Row0][xpos] = Head(text)]
  /\ IF RowFull THEN xpos' = 0 /\ ypos' = Row0 + 1
                ELSE xpos' = xpos + 1 /\ ypos' = Row0
  /\ text' = Tail(text)
  /\ Paper!Type(Head(text))
  /\ UNCHANGED <<cursor, console>>

(* Where move_cursor puts the cursor, and a mutant that swaps the two. *)
CursorLocationSwapped == xpos * max_xpos + ypos
CursorLocation == ypos * max_xpos + xpos

(* The end of console_vga_write: move_cursor. *)
MoveCursor ==
  /\ console = "write" /\ ~More
  /\ cursor' = CursorLocation
  /\ console' = "idle" /\ text' = <<>>
  /\ UNCHANGED <<screen, lines, line>>

Writing == PutNewline \/ PutReturn \/ PutChar \/ MoveCursor

ConsoleNext == ConsoleInit \/ (\E m \in Messages : Printk(m)) \/ Writing

ConsoleSpec == ConsoleStart /\ [][ConsoleNext]_consoleVars

(* A processor inside printk keeps executing it. *)
FairConsoleSpec == ConsoleSpec /\ WF_consoleVars(ConsoleInit \/ Writing)

-----------------------------------------------------------------------------
ConsoleTypeOK ==
  /\ video_memory \in [Rows -> [Cols -> Printable \cup {BLANK, JUNK}]]
  /\ xpos \in Cols /\ ypos \in 0 .. max_ypos
  /\ cursor \in Nat
  /\ console \in {"boot", "idle", "write"}
  /\ text \in Seq(Chars)
  /\ lines \in Seq(Seq(Printable)) /\ line \in Seq(Printable)

(* The first line on the screen. *)
Top == Len(lines) - ypos

(* Between any two characters the screen shows consecutive lines of what   *)
(* was printed, each character in its place and nothing else, up to and    *)
(* including the line being written; and a line leaves the screen only     *)
(* when the screen is full (drivers/console.c:78-100: the scroll loop, the *)
(* line end in column max_xpos and the late scroll must fit together).     *)
ScreenShowsTail ==
  console # "boot" =>
    /\ ypos <= Len(lines)
    /\ Top > 0 => ypos >= max_ypos - 1
    /\ ypos = max_ypos => line = <<>>
    /\ \A y \in Rows, x \in Cols : video_memory[y][x] = Paper!Cell(Top + y, x, BLANK)

(* Between two calls the hardware cursor is where the next character of    *)
(* the terminal will show, or just behind the last row when that character *)
(* will scroll first (drivers/console.c:43-57, 103).                       *)
CursorIsNext ==
  console = "idle" =>
    cursor = (IF Top = 0 THEN Len(lines)
              ELSE IF ypos = max_ypos THEN max_ypos ELSE max_ypos - 1) * max_xpos + Len(line)

(* printk returns. *)
PrintkReturns == (console = "write") ~> (console = "idle")

(***************************************************************************)
(* The inductive invariant behind the theorems of BootProofs.              *)
(***************************************************************************)
ConsoleInv ==
  /\ ConsoleTypeOK
  /\ xpos = Len(line)
  /\ console = "boot" => lines = <<>> /\ line = <<>> /\ ypos = 0 /\ text = <<>>
  /\ ScreenShowsTail
  /\ console = "idle" => cursor = ypos * max_xpos + xpos
=============================================================================
