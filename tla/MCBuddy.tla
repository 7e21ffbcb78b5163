------------------------------ MODULE MCBuddy ------------------------------
(* Small instances of Buddy for TLC. *)
EXTENDS Buddy

MCPow2 == [o \in 0 .. MAX_ORDER |-> 2 ^ o]
=============================================================================
