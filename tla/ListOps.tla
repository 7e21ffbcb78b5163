------------------------------- MODULE ListOps -------------------------------
(***************************************************************************)
(* Programs that use include/list.h: the pointer operations of ListHead,   *)
(* called in every order the header's comments allow.  A head and an entry *)
(* are the same struct list_head; what differs is how the caller uses it.  *)
(*                                                                         *)
(* live is what the caller knows: the nodes whose pointers mean something. *)
(* A head is live once initialised, an entry while it is on a list or      *)
(* points to itself.  A spliced-away head, a replaced node and a deleted   *)
(* entry are not live; their pointers stay as the code leaves them.        *)
(***************************************************************************)
EXTENDS ListWalk

VARIABLES
  heap,   \* the next and prev field of every node
  live,   \* history: the nodes that are in use
  call    \* history: the last call and its arguments

vars == <<heap, live, call>>

Contents(h) == Walk(heap.next, h)

Listed(h) == ToSet(Contents(h))

LiveHeads == live \cap Heads

OnList == UNION {Listed(h) : h \in LiveHeads}

(* Where an entry may be put: on a head in use, or next to a listed entry. *)
Places == LiveHeads \cup OnList

(* The ring a place belongs to. *)
RingOf(x) == {x} \cup Listed(x)

Init ==
  /\ heap = [next |-> [x \in Nodes |-> NULL], prev |-> [x \in Nodes |-> NULL]]
  /\ live = {}
  /\ call = <<"none", NULL, NULL, NULL>>

Did(op, a, b, c, L, alive) ==
  /\ heap' = L /\ live' = alive /\ call' = <<op, a, b, c>>

(* INIT_LIST_HEAD, on a node that is not in use. *)
InitHead(x) ==
  /\ x \notin live
  /\ Did("init", x, NULL, NULL, InitListHead(heap, x), live \cup {x})

Add(e, x) ==
  /\ e \notin OnList /\ x \in Places
  /\ \/ Did("add", e, x, NULL, ListAdd(heap, e, x), live \cup {e})
     \/ Did("add_tail", e, x, NULL, ListAddTail(heap, e, x), live \cup {e})

(* A node that points to itself may be deleted like any other. *)
Del(e) ==
  /\ e \in live
  /\ \/ Did("del", e, NULL, NULL, ListDel(heap, e), live \ {e})
     \/ Did("del_init", e, NULL, NULL, ListDelInit(heap, e), live)

Move(e, x) ==
  /\ e \in live /\ x \in Places \ {e}
  /\ \/ Did("move", e, x, NULL, ListMove(heap, e, x), live)
     \/ Did("move_tail", e, x, NULL, ListMoveTail(heap, e, x), live)

(* A head is replaced by a head and an entry by an entry. *)
Replace(old, new) ==
  /\ old \in live /\ new \notin live
  /\ {old, new} \subseteq Heads \/ {old, new} \subseteq Entries
  /\ \/ Did("replace", old, new, NULL, ListReplace(heap, old, new),
            (live \ {old}) \cup {new})
     \/ Did("replace_init", old, new, NULL, ListReplaceInit(heap, old, new),
            live \cup {new})

RotateLeft(h) ==
  /\ h \in live
  /\ Did("rotate_left", h, NULL, NULL, ListRotateLeft(heap, h), live)

(* list may be any other head: the entries of one in use are lost.  Only   *)
(* where the code checks for it may entry be on another list.              *)
CutPosition(list, h, entry) ==
  /\ h \in live /\ list # h
  /\ entry \in Places \ RingOf(list)
  /\ \/ entry \in RingOf(h)
     \/ ListEmpty(heap, h) \/ ListIsSingular(heap, h)
  /\ LET cuts == ~ListEmpty(heap, h) /\ entry \in RingOf(h)
         lost == IF list \in live THEN Listed(list) ELSE {}
     IN Did("cut_position", list, h, entry,
            ListCutPosition(heap, list, h, entry),
            IF cuts THEN (live \ lost) \cup {list} ELSE live)

(* x is the place in the other list the entries of list go to. *)
Splice(list, x) ==
  /\ list \in live /\ x \in Places \ RingOf(list)
  /\ LET after == IF ListEmpty(heap, list) THEN live ELSE live \ {list} IN
     \/ Did("splice", list, x, NULL, ListSplice(heap, list, x), after)
     \/ Did("splice_tail", list, x, NULL, ListSpliceTail(heap, list, x), after)
     \/ Did("splice_init", list, x, NULL, ListSpliceInit(heap, list, x), live)
     \/ Did("splice_tail_init", list, x, NULL,
            ListSpliceTailInit(heap, list, x), live)

Next ==
  \/ \E x \in Nodes : InitHead(x)
  \/ \E e \in Entries, x \in Nodes : Add(e, x) \/ Move(e, x)
  \/ \E e \in Entries : Del(e)
  \/ \E old, new \in Nodes : Replace(old, new)
  \/ \E h \in Heads : RotateLeft(h)
  \/ \E list, h \in Heads, entry \in Nodes : CutPosition(list, h, entry)
  \/ \E list \in Heads, x \in Nodes : Splice(list, x)

Spec == Init /\ [][Next]_vars

-----------------------------------------------------------------------------
(* Whatever was called before, the nodes in use form closed rings: from    *)
(* each one next and prev lead to nodes in use and undo each other, so no  *)
(* list leads into a deleted, replaced or spliced-away node.               *)
LiveRings == RingClosed(heap, live)

(* No ring joins two heads, and an entry in use is on one head's list or   *)
(* alone: splice, cut and replace never tie two lists together.            *)
OneHeadPerRing ==
  /\ \A g, h \in LiveHeads : g # h => RingOf(g) \cap RingOf(h) = {}
  /\ \A h \in LiveHeads : Listed(h) \cap Heads = {}
  /\ \A e \in live \cap Entries : e \in OnList \/ heap.next[e] = e

(* The questions the header answers with one or two pointer reads          *)
(* (list_empty_careful, list_is_singular, list_is_last) have the answers   *)
(* that walking the list either way gives.                                 *)
QuestionsRight ==
  \A h \in LiveHeads :
    /\ Walk(heap.prev, h) = Reverse(Contents(h))
    /\ ListEmptyCareful(heap, h) <=> Contents(h) = <<>>
    /\ ListIsSingular(heap, h) <=> Len(Contents(h)) = 1
    /\ \A e \in Listed(h) : ListIsLast(heap, e, h) <=> Last(Contents(h)) = e

(* The pointers of list_head lists always form closed rings of the nodes   *)
(* in use, one ring to a head, and the header's one-look questions get the *)
(* answers that walking the ring gives.                                    *)
RingsRight == LiveRings /\ OneHeadPerRing /\ QuestionsRight

(* What the pointers mean: the lists as sequences.                         *)
AsSequences == [h \in LiveHeads |-> Contents(h)]

Promise == INSTANCE ListSeq WITH lists <- AsSequences

(* Read as sequences, the lists change as the header's comments say, call  *)
(* by call.                                                                *)
ListsAreSequences == Promise!Spec
=============================================================================
