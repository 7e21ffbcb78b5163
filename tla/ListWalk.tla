------------------------------ MODULE ListWalk ------------------------------
(***************************************************************************)
(* The nodes of list_head lists, heads and entries, and walks along their  *)
(* pointers.                                                               *)
(***************************************************************************)
EXTENDS ListHead, Naturals, FiniteSets, SequencesExt

CONSTANTS Heads, Entries

Nodes == Heads \cup Entries

ASSUME NodesAssumption ==
  /\ Heads \cap Entries = {} /\ NULL \notin Nodes /\ IsFiniteSet(Nodes)

(* The nodes met from h along field f.                                     *)
Steps(f, h) ==
  LET at[i \in 0..Cardinality(Nodes)] ==
        IF i = 0 THEN h
        ELSE IF at[i - 1] = NULL THEN NULL ELSE f[at[i - 1]]
  IN at

(* Those before h comes up again.  A walk that never comes back is cut off *)
(* after as many steps as there are nodes.                                 *)
Walk(f, h) ==
  LET back == {i \in 1..Cardinality(Nodes) : Steps(f, h)[i] = h}
      len  == IF back = {} THEN Cardinality(Nodes)
              ELSE (CHOOSE i \in back : \A j \in back : i <= j) - 1
  IN [i \in 1..len |-> Steps(f, h)[i]]
=============================================================================
