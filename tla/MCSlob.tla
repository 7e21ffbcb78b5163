------------------------------- MODULE MCSlob -------------------------------
(* Small instances of Slob for TLC: an arena of a few chunks.  There is no *)
(* symmetry set, because one run checks a liveness property.               *)
EXTENDS Slob
=============================================================================
