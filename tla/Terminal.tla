------------------------------ MODULE Terminal ------------------------------
(***************************************************************************)
(* What the console promises its callers (include/console.h): a terminal   *)
(* of unlimited paper.  Printable characters fill lines of at most COLS    *)
(* characters, a newline ends a line, a carriage return does nothing.      *)
(* Console conjoins these actions to its own, as the history its screen is *)
(* compared with.                                                          *)
(***************************************************************************)
EXTENDS Naturals, Sequences

CONSTANT COLS \* characters in a line

VARIABLES
  lines, \* the lines that are finished
  line   \* the line being written

EndLine(l) == lines' = Append(lines, l) /\ line' = <<>>

Newline == EndLine(line)

Type(c) ==
  IF Len(line) + 1 = COLS
    THEN EndLine(Append(line, c))
    ELSE line' = Append(line, c) /\ UNCHANGED lines

(* The character in column x of row r, both counted from 0. *)
CellOf(l, x, blank) == IF x < Len(l) THEN l[x + 1] ELSE blank

Cell(r, x, blank) ==
  IF r < Len(lines) THEN CellOf(lines[r + 1], x, blank)
  ELSE IF r = Len(lines) THEN CellOf(line, x, blank)
  ELSE blank
=============================================================================
