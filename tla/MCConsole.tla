----------------------------- MODULE MCConsole -----------------------------
(* A small screen for TLC. *)
EXTENDS Console

CONSTANTS a, b

MCPrintable == {a, b}

(* Short texts with every kind of character in every place that matters,   *)
(* and one longer than the buffer.                                         *)
MCMessages ==
  {<<>>, <<NEWLINE>>, <<RETURN>>, <<a>>, <<b, NEWLINE>>, <<NEWLINE, RETURN, b>>,
   <<a, a, b>>, <<a, ZERO, b>>, <<b, a, b, a, b, a, NEWLINE>>}
=============================================================================
