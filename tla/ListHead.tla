------------------------------ MODULE ListHead ------------------------------
(***************************************************************************)
(* The circular doubly-linked list of include/list.h, at pointer level.    *)
(*                                                                         *)
(* A heap of list nodes is a record L of two functions on the same set of  *)
(* nodes: L.next[x] and L.prev[x] are the two fields of the struct         *)
(* list_head embedded at x.  A list head is a node like any other.  Each   *)
(* operator below is one inline function of the header: it takes the heap  *)
(* and returns the heap after the call.  Two assignments to one field are  *)
(* written in the order of the source, so that the operators also agree    *)
(* with it when their arguments alias.                                     *)
(***************************************************************************)
CONSTANT NULL   (* the null pointer list_del() leaves behind *)

(* A node that points to itself both ways: an empty list. *)
InitListHead(L, x) ==
  [next |-> [L.next EXCEPT ![x] = x],
   prev |-> [L.prev EXCEPT ![x] = x]]

(* __list_add: link new between two nodes already known to be neighbours. *)
LinkBetween(L, new, before, after) ==
  [next |-> [L.next EXCEPT ![new] = after, ![before] = new],
   prev |-> [L.prev EXCEPT ![after] = new, ![new] = before]]

(* list_add: new becomes the first node after head (a stack push). *)
ListAdd(L, new, head) == LinkBetween(L, new, head, L.next[head])

(* list_del: join the neighbours, then set the node's own pointers NULL.   *)
ListDel(L, entry) ==
  LET before == L.prev[entry]
      after  == L.next[entry]
  IN [next |-> [L.next EXCEPT ![before] = after, ![entry] = NULL],
      prev |-> [L.prev EXCEPT ![after] = before, ![entry] = NULL]]

ListEmpty(L, head) == L.next[head] = head

(* list_add_tail: new becomes the last node before head (a queue).         *)
ListAddTail(L, new, head) == LinkBetween(L, new, L.prev[head], head)

(* __list_del and __list_del_entry: join the two neighbours; the entry     *)
(* keeps its own pointers.                                                 *)
JoinNeighbours(L, entry) ==
  LET before == L.prev[entry]
      after  == L.next[entry]
  IN [next |-> [L.next EXCEPT ![before] = after],
      prev |-> [L.prev EXCEPT ![after] = before]]

(* list_del_init, list_move and list_move_tail. *)
ListDelInit(L, entry) == InitListHead(JoinNeighbours(L, entry), entry)

ListMove(L, entry, head) == ListAdd(JoinNeighbours(L, entry), entry, head)

ListMoveTail(L, entry, head) ==
  ListAddTail(JoinNeighbours(L, entry), entry, head)

(* list_replace.  The second half reads old->prev after the first half has *)
(* written through new->next, so an old that is alone on its ring hands    *)
(* its ring over as well.                                                  *)
ListReplace(L, old, new) ==
  LET after  == L.next[old]
      prev1  == [L.prev EXCEPT ![after] = new]
      before == prev1[old]
  IN [next |-> [L.next EXCEPT ![new] = after, ![before] = new],
      prev |-> [prev1 EXCEPT ![new] = before]]

ListReplaceInit(L, old, new) == InitListHead(ListReplace(L, old, new), old)

(* list_is_last, list_empty_careful and list_is_singular.                  *)
ListIsLast(L, entry, head) == L.next[entry] = head

ListEmptyCareful(L, head) == L.next[head] = head /\ L.prev[head] = head

ListIsSingular(L, head) == ~ListEmpty(L, head) /\ L.next[head] = L.prev[head]

ListRotateLeft(L, head) ==
  IF ListEmpty(L, head) THEN L ELSE ListMoveTail(L, L.next[head], head)

(* __list_cut_position: list takes head's nodes up to and including entry. *)
CutAfter(L, list, head, entry) ==
  LET newFirst == L.next[entry]
      first    == L.next[head]
  IN [next |-> [L.next EXCEPT ![list] = first, ![entry] = list,
                              ![head] = newFirst],
      prev |-> [L.prev EXCEPT ![first] = list, ![list] = entry,
                              ![newFirst] = head]]

(* list_cut_position.  An empty head, or a single node that is not entry,  *)
(* leaves everything as it is, list included.                              *)
ListCutPosition(L, list, head, entry) ==
  IF \/ ListEmpty(L, head)
     \/ ListIsSingular(L, head) /\ entry \notin {head, L.next[head]}
  THEN L
  ELSE IF entry = head THEN InitListHead(L, list)
                       ELSE CutAfter(L, list, head, entry)

(* __list_splice: put list's nodes between two neighbours of another ring; *)
(* list itself still points at its old first and last node afterwards.     *)
(* Mutant: the node behind is not told of its new neighbour.               *)
SpliceOneWay(L, list, before, after) ==
  [next |-> [L.next EXCEPT ![before] = L.next[list], ![L.prev[list]] = after],
   prev |-> [L.prev EXCEPT ![L.next[list]] = before]]

SpliceBetween(L, list, before, after) ==
  LET first == L.next[list]
      last  == L.prev[list]
  IN [next |-> [L.next EXCEPT ![before] = first, ![last] = after],
      prev |-> [L.prev EXCEPT ![first] = before, ![after] = last]]

ListSplice(L, list, head) ==
  IF ListEmpty(L, list) THEN L ELSE SpliceBetween(L, list, head, L.next[head])

ListSpliceTail(L, list, head) ==
  IF ListEmpty(L, list) THEN L ELSE SpliceBetween(L, list, L.prev[head], head)

ListSpliceInit(L, list, head) ==
  IF ListEmpty(L, list) THEN L
  ELSE InitListHead(SpliceBetween(L, list, head, L.next[head]), list)

ListSpliceTailInit(L, list, head) ==
  IF ListEmpty(L, list) THEN L
  ELSE InitListHead(SpliceBetween(L, list, L.prev[head], head), list)

(* Within R, next and prev stay in R and undo each other. *)
RingClosed(L, R) ==
  \A x \in R :
    /\ L.next[x] \in R /\ L.prev[L.next[x]] = x
    /\ L.prev[x] \in R /\ L.next[L.prev[x]] = x

(* Following next from any node of R leads to head: nothing but the whole  *)
(* ring is closed under next.                                              *)
RingConnected(L, R, head) ==
  \A S \in SUBSET R : S # {} /\ (\A x \in S : L.next[x] \in S) => head \in S
=============================================================================
