------------------------------- MODULE Lists -------------------------------
(***************************************************************************)
(* The three models of include/list.h side by side.  They share no state,  *)
(* so nothing is gained by interleaving them: part picks the one a         *)
(* behaviour exercises, and the two others rest in their initial states.   *)
(*   "ops"   ListOps: list_head lists, on the variables heap, live, call   *)
(*   "iter"  ListIter: the loops over list_head lists                      *)
(*   "hlist" HList: hlists and the loops over them                         *)
(***************************************************************************)
EXTENDS ListOps

VARIABLES
  part,
  ring, ipc, ihead, kind, ipos, temp, iseen, itodo,
  fwd, pprev, hlive, hcall, looping, hpos, hseen, htodo

Iter == INSTANCE ListIter
          WITH heap <- ring, pc <- ipc, head <- ihead, n <- temp,
               pos <- ipos, seen <- iseen, todo <- itodo

H == INSTANCE HList
       WITH live <- hlive, call <- hcall, pos <- hpos, seen <- hseen,
            todo <- htodo

ASSUME ListsAssumption == H!OwnersAssumption

iterVars == <<ring, ipc, ihead, kind, ipos, temp, iseen, itodo>>
hlistVars == <<fwd, pprev, hlive, hcall, looping, hpos, hseen, htodo>>

ListsInit ==
  /\ part \in {"ops", "iter", "hlist"}
  /\ Init /\ H!Init /\ Iter!Init

ListsNext ==
  \/ part = "ops" /\ Next /\ UNCHANGED <<part, iterVars, hlistVars>>
  \/ part = "iter" /\ Iter!Next /\ UNCHANGED <<part, vars, hlistVars>>
  \/ part = "hlist" /\ H!Next /\ UNCHANGED <<part, vars, iterVars>>

ListsSpec == ListsInit /\ [][ListsNext]_<<part, vars, iterVars, hlistVars>>

-----------------------------------------------------------------------------
(* Every loop of the header, forwards or backwards, safe or not, from the  *)
(* head or from an entry, visits the entries it should, once and in order, *)
(* while the body of a safe loop takes entries off the list.               *)
LoopsRight == Iter!LoopSeesAll /\ Iter!TemporaryIsNext /\ H!LoopSeesAll

(* On an hlist each node knows the link that points to it, and             *)
(* hlist_unhashed tells the nodes on no list.                              *)
NodesRight == H!PprevPointsBack /\ H!UnhashedRight

(* Read as sequences, hlists change as the comments of the header say,     *)
(* call by call, deletions by a running safe loop included.                *)
HlistsAreSequences == H!ImplementsSequences
=============================================================================
