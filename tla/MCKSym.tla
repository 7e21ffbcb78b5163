------------------------------- MODULE MCKSym -------------------------------
(* Small instances of KSym for TLC. *)
EXTENDS KSym

MCValues == 1 .. 5
=============================================================================
