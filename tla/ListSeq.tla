------------------------------- MODULE ListSeq -------------------------------
(***************************************************************************)
(* What include/list.h promises: every list head that is in use stands for *)
(* a sequence of entries, and a call changes the sequences as its comment  *)
(* in the header says.  call is the interface: the last call and its       *)
(* arguments, which the pointer-level specifications ListOps (list_head)   *)
(* and HList (hlist_head) share.                                           *)
(***************************************************************************)
EXTENDS Naturals, SequencesExt

CONSTANTS Heads, Entries

VARIABLES
  lists,   \* the heads in use, each with the sequence of its entries
  call     \* the last call: its name and its arguments

(* The operators take the lists as a function S from the heads in use. *)
HeadOf(S, x) ==
  IF x \in Heads THEN x ELSE CHOOSE h \in DOMAIN S : Contains(S[h], x)

IndexIn(S, h, x) ==
  IF x = h THEN 0 ELSE CHOOSE i \in 1..Len(S[h]) : S[h][i] = x

With(S, h, q) == [k \in DOMAIN S \cup {h} |-> IF k = h THEN q ELSE S[k]]
Drop(S, h) == [k \in DOMAIN S \ {h} |-> S[k]]

(* An entry is on a list at most once. *)
Without(S, e) ==
  [h \in DOMAIN S |->
     IF Contains(S[h], e) THEN RemoveAt(S[h], IndexIn(S, h, e)) ELSE S[h]]

(* S with the sequence q put in behind the first i entries of h, behind    *)
(* the node x, or in front of it.  In front of a head is the end of its    *)
(* list.                                                                   *)
PutAt(S, h, i, q) ==
  With(S, h, SubSeq(S[h], 1, i) \o q \o SubSeq(S[h], i + 1, Len(S[h])))

PutBehind(S, x, q) == PutAt(S, HeadOf(S, x), IndexIn(S, HeadOf(S, x), x), q)

PutBefore(S, x, q) ==
  LET h == HeadOf(S, x) IN
  PutAt(S, h, IF x = h THEN Len(S[h]) ELSE IndexIn(S, h, x) - 1, q)

Substitute(S, old, new) ==
  IF old \in Heads THEN With(Drop(S, old), new, S[old])
  ELSE [h \in DOMAIN S |->
         [i \in 1..Len(S[h]) |-> IF S[h][i] = old THEN new ELSE S[h][i]]]

(* The first n entries of h go to list. *)
CutTo(S, list, h, n) ==
  With(With(S, list, SubSeq(S[h], 1, n)),
       h, SubSeq(S[h], n + 1, Len(S[h])))

Emptied(S, h) == IF h \in Heads THEN With(S, h, <<>>) ELSE S

(* Splicing an empty list does nothing.  Otherwise list is not in use any  *)
(* more until it is initialised, which the _init forms do at once.  T is   *)
(* S with the entries of list put in where they go.                        *)
SpliceOut(S, T, list, init) ==
  IF S[list] = <<>> THEN S
  ELSE IF init THEN With(T, list, <<>>) ELSE Drop(T, list)

After(S, op, a, b, c) ==
  CASE op = "init"             -> Emptied(S, a)
    [] op = "add"              -> PutBehind(S, b, <<a>>)
    [] op = "add_tail"         -> PutBefore(S, b, <<a>>)
    [] op \in {"del", "del_init"} -> Without(S, a)
    [] op = "move"             -> PutBehind(Without(S, a), b, <<a>>)
    [] op = "move_tail"        -> PutBefore(Without(S, a), b, <<a>>)
    [] op = "replace"          -> Substitute(S, a, b)
    [] op = "replace_init"     -> Emptied(Substitute(S, a, b), a)
    [] op = "rotate_left"      -> IF S[a] = <<>> THEN S
                                  ELSE With(S, a, Tail(S[a])
                                                  \o <<Head(S[a])>>)
    [] op = "cut_position"     -> IF S[b] = <<>> \/ HeadOf(S, c) # b THEN S
                                  ELSE CutTo(S, a, b, IndexIn(S, b, c))
    [] op = "move_list"        -> With(With(S, a, <<>>), b, S[a])
    [] op \in {"none", "add_fake"} -> S
    [] op = "splice"           ->
         SpliceOut(S, PutBehind(S, b, S[a]), a, FALSE)
    [] op = "splice_tail"      ->
         SpliceOut(S, PutBefore(S, b, S[a]), a, FALSE)
    [] op = "splice_init"      ->
         SpliceOut(S, PutBehind(S, b, S[a]), a, TRUE)
    [] op = "splice_tail_init" ->
         SpliceOut(S, PutBefore(S, b, S[a]), a, TRUE)

Init == lists = [h \in {} |-> <<>>] /\ call[1] = "none"

Next == lists' = After(lists, call'[1], call'[2], call'[3], call'[4])

Spec == Init /\ [][Next]_<<lists, call>>
=============================================================================
