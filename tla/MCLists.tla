------------------------------ MODULE MCLists ------------------------------
(***************************************************************************)
(* The models of include/list.h with two heads and three entries.          *)
(***************************************************************************)
EXTENDS Lists, TLC

CONSTANTS h1, h2, e1, e2, e3

MCHeads == {h1, h2}
MCEntries == {e1, e2, e3}

(* The names of heads and entries do not matter.  Only safety and step     *)
(* properties are checked here, so the symmetry is sound.                  *)
MCSymmetry == Permutations(MCHeads) \cup Permutations(MCEntries)
=============================================================================
