------------------------------ MODULE ListIter ------------------------------
(***************************************************************************)
(* The loops of include/list.h over list_head lists: forwards and          *)
(* backwards, from the head, behind a given entry (_continue) or at it     *)
(* (_from), and the safe forms whose body may take entries off the list.   *)
(* The _entry forms differ from the plain ones only in naming a structure  *)
(* by its embedded node, so one model serves both.  Between loops the      *)
(* program puts entries on its lists, in any order.                        *)
(***************************************************************************)
EXTENDS ListWalk

VARIABLES
  heap,
  pc,         \* "idle", or "loop" while a loop runs
  head,       \* the head of the list the loop runs over
  kind,       \* which loop: its direction, and whether it is a safe one
  pos, n,     \* the loop's cursor, and the temporary of a safe loop
  seen, todo  \* history: what the body saw, and what it is to see

loop == <<head, kind, pos, n, seen, todo>>
vars == <<heap, pc, loop>>

Listed(h) == ToSet(Walk(heap.next, h))

(* What a walk from h along field f has from node x on.                    *)
Ahead(f, h, x) ==
  LET walk == Walk(f, h)
  IN IF x = h THEN <<>>
     ELSE IF ~Contains(walk, x) THEN <<x>>
     ELSE SubSeq(walk, CHOOSE i \in 1..Len(walk) : walk[i] = x, Len(walk))

Along(L, dir) == IF dir = "next" THEN L.next ELSE L.prev

NoKind == [dir |-> "next", safe |-> FALSE]

(* Every head is initialised. *)
Init ==
  /\ LET self == [x \in Nodes |-> IF x \in Heads THEN x ELSE NULL]
     IN heap = [next |-> self, prev |-> self]
  /\ pc = "idle" /\ head = NULL /\ kind = NoKind
  /\ pos = NULL /\ n = NULL /\ seen = <<>> /\ todo = <<>>

Put(e, h) ==
  /\ pc = "idle" /\ \A g \in Heads : e \notin Listed(g)
  /\ heap' = ListAddTail(heap, e, h) /\ UNCHANGED <<pc, loop>>

Start(h, dir, safe, first) ==
  /\ pc = "idle" /\ pc' = "loop"
  /\ head' = h /\ kind' = [dir |-> dir, safe |-> safe]
  /\ pos' = first
  /\ n' = IF safe THEN Along(heap, dir)[first] ELSE n
  /\ seen' = <<>> /\ todo' = Ahead(Along(heap, dir), h, first)
  /\ UNCHANGED heap

(* list_for_each, _prev, _safe, _prev_safe and the _entry forms of them.   *)
ForEach(h, dir, safe) == Start(h, dir, safe, Along(heap, dir)[h])

(* list_for_each_entry_continue, _continue_reverse and _safe_continue.     *)
(* list_prepare_entry makes the head itself a start.                       *)
ForEachContinue(h, e, dir, safe) ==
  /\ safe => dir = "next"
  /\ Start(h, dir, safe, Along(heap, dir)[e])

(* list_for_each_entry_from and _safe_from. *)
ForEachFrom(h, e, safe) == Start(h, "next", safe, e)

Running == pc = "loop" /\ pos # head

(* Where the cursor goes, L being the heap the body left, and the mutant   *)
(* that asks the node the body may have deleted.                           *)
OnwardLate(L) == Along(L, kind.dir)[pos]
Onward(L) == IF kind.safe THEN n ELSE Along(L, kind.dir)[pos]

(* The end of a turn that leaves the heap L.                               *)
Advance(L) ==
  /\ pos' = Onward(L)
  /\ n' = IF kind.safe THEN Along(L, kind.dir)[n] ELSE n
  /\ seen' = Append(seen, pos)
  /\ UNCHANGED <<head, kind, todo>>

(* A body that leaves the list alone. *)
Look == Running /\ Advance(heap) /\ UNCHANGED <<heap, pc>>

(* The body of a safe loop takes the entry off the list, or moves it to    *)
(* another one.                                                            *)
TakeOff ==
  /\ Running /\ kind.safe
  /\ \/ heap' \in {ListDel(heap, pos), ListDelInit(heap, pos)}
     \/ \E other \in Heads \ {head} :
          heap' \in {ListMove(heap, pos, other), ListMoveTail(heap, pos, other)}
  /\ Advance(heap') /\ UNCHANGED pc

(* list_safe_reset_next. *)
ResetNext(L) == L.next[pos]

(* The body of a safe loop takes the entry behind the cursor off the list, *)
(* keeps the cursor's own, and resets the temporary.                       *)
TakeNextOff ==
  /\ Running /\ kind = [dir |-> "next", safe |-> TRUE] /\ n # head
  /\ \/ heap' = ListDel(heap, n)
     \/ \E other \in Heads \ {head} : heap' = ListMoveTail(heap, n, other)
  /\ n' = ResetNext(heap')
  /\ todo' = RemoveFirst(todo, n)
  /\ UNCHANGED <<pc, head, kind, pos, seen>>

Stop ==
  /\ pc = "loop" /\ pos = head
  /\ pc' = "idle" /\ head' = NULL /\ kind' = NoKind
  /\ pos' = NULL /\ n' = NULL /\ seen' = <<>> /\ todo' = <<>>
  /\ UNCHANGED heap

Next ==
  \/ \E e \in Entries, h \in Heads : Put(e, h)
  \/ \E h \in Heads, dir \in {"next", "prev"}, safe \in BOOLEAN :
       \/ ForEach(h, dir, safe)
       \/ \E e \in Listed(h) \cup {h} : ForEachContinue(h, e, dir, safe)
  \/ \E h \in Heads, safe \in BOOLEAN :
       \E e \in Listed(h) : ForEachFrom(h, e, safe)
  \/ Look \/ TakeOff \/ TakeNextOff
  \/ Stop

Spec == Init /\ [][Next]_vars

-----------------------------------------------------------------------------
(* At every turn of every loop, the entries the body has seen and those    *)
(* still ahead of the cursor are the ones the loop was to visit, in order: *)
(* none is skipped or met twice, although the body takes entries off.      *)
LoopSeesAll ==
  pc = "loop" => seen \o Ahead(Along(heap, kind.dir), head, pos) = todo

(* A safe loop's temporary is the node behind the cursor, so the loop does *)
(* not go on from an entry that has left the list.                         *)
TemporaryIsNext ==
  Running /\ kind.safe =>
    n = Along(heap, kind.dir)[pos] /\ n \in Listed(head) \cup {head}
=============================================================================
