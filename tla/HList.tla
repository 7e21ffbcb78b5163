------------------------------- MODULE HList -------------------------------
(***************************************************************************)
(* The lists with a one-pointer head of include/list.h (hlist).            *)
(*                                                                         *)
(* A link is a pointer variable: the first field of a head or the next     *)
(* field of a node.  fwd[o] is the link in o, a head or a node, and        *)
(* pprev[n] names the o whose link points to n, where the code keeps that  *)
(* link's address.  A loop over a list is open while pos says where it is. *)
(***************************************************************************)
EXTENDS Naturals, FiniteSets, SequencesExt

CONSTANTS Heads, Entries, NULL

Owners == Heads \cup Entries

OwnersAssumption ==
  /\ Heads \cap Entries = {} /\ NULL \notin Owners /\ IsFiniteSet(Owners)

VARIABLES
  fwd, pprev,
  live,        \* history: heads initialised, nodes with meaningful fields
  call,        \* history: the last call and its arguments
  looping,     \* "no", or which kind of loop runs: "plain" or "safe"
  pos,         \* the loop's cursor
  seen, todo   \* history: what the loop's body saw, and what it should see

heap == <<fwd, pprev>>
loop == <<looping, pos, seen, todo>>
vars == <<heap, live, call, loop>>

(* The nodes met from o along the links f; those up to the end of the      *)
(* chain.  A walk that never ends is cut off.                              *)
Steps(f, o) ==
  LET at[i \in 0..Cardinality(Owners)] ==
        IF i = 0 THEN o
        ELSE IF at[i - 1] = NULL THEN NULL ELSE f[at[i - 1]]
  IN at

ChainOf(f, o) ==
  LET len == Cardinality({i \in 1..Cardinality(Owners) : Steps(f, o)[i] # NULL})
  IN [i \in 1..len |-> Steps(f, o)[i]]

Chain(o) == ChainOf(fwd, o)

LiveHeads == live \cap Heads
Contents(h) == Chain(h)
Hashed == UNION {ToSet(Contents(h)) : h \in LiveHeads}

Init ==
  /\ fwd = [o \in Owners |-> NULL] /\ pprev = [n \in Entries |-> NULL]
  /\ live = {} /\ call = <<"none", NULL, NULL, NULL>>
  /\ looping = "no" /\ pos = NULL /\ seen = <<>> /\ todo = <<>>

Did(op, a, b) == call' = <<op, a, b, NULL>> /\ UNCHANGED loop

(* INIT_HLIST_HEAD on a head not in use, INIT_HLIST_NODE on a stray node.  *)
InitHead(h) ==
  /\ h \notin live /\ looping = "no"
  /\ fwd' = [fwd EXCEPT ![h] = NULL] /\ UNCHANGED pprev
  /\ live' = live \cup {h} /\ Did("init", h, NULL)

InitNode(n) ==
  /\ n \notin live /\ looping = "no"
  /\ fwd' = [fwd EXCEPT ![n] = NULL] /\ pprev' = [pprev EXCEPT ![n] = NULL]
  /\ live' = live \cup {n} /\ Did("init", n, NULL)

(* __hlist_del, then both fields of n NULL, as hlist_del and hlist_del_init*)
(* end, whatever the assignment through pprev did.                         *)
Unlink(n) ==
  /\ fwd' = [fwd EXCEPT ![pprev[n]] = fwd[n], ![n] = NULL]
  /\ pprev' = IF fwd[n] = NULL THEN [pprev EXCEPT ![n] = NULL]
              ELSE [pprev EXCEPT ![fwd[n]] = pprev[n], ![n] = NULL]

(* hlist_unhashed. *)
Unhashed(n) == pprev[n] = NULL

Del(n) ==
  /\ n \in live /\ ~Unhashed(n) /\ looping = "no"
  /\ Unlink(n) /\ UNCHANGED live /\ Did("del", n, NULL)

DelInit(n) ==
  /\ n \in live /\ looping = "no"
  /\ IF Unhashed(n) THEN UNCHANGED heap ELSE Unlink(n)
  /\ UNCHANGED live /\ Did("del_init", n, NULL)

LinkHead(n, h) ==
  /\ fwd' = [fwd EXCEPT ![n] = fwd[h], ![h] = n]
  /\ pprev' = IF fwd[h] = NULL THEN [pprev EXCEPT ![n] = h]
              ELSE [pprev EXCEPT ![fwd[h]] = n, ![n] = h]

(* A node may be added when it is on no list; one that hlist_add_fake made *)
(* look hashed may be added over, too.                                     *)
AddHead(n, h) ==
  /\ n \notin Hashed /\ h \in LiveHeads /\ looping = "no"
  /\ LinkHead(n, h)
  /\ live' = live \cup {n} /\ Did("add", n, h)

AddBefore(n, next) ==
  /\ n \notin Hashed /\ next \in Hashed /\ looping = "no"
  /\ pprev' = [pprev EXCEPT ![n] = pprev[next], ![next] = n]
  /\ fwd' = [fwd EXCEPT ![n] = next, ![pprev[next]] = n]
  /\ live' = live \cup {n} /\ Did("add_tail", n, next)

(* The pprev fields after hlist_add_after, and the mutant that leaves the  *)
(* one of the node behind.                                                 *)
AfterPprevShort(n, next) == [pprev EXCEPT ![next] = n]
AfterPprev(n, next) ==
  IF fwd[n] = NULL THEN [pprev EXCEPT ![next] = n]
  ELSE [pprev EXCEPT ![next] = n, ![fwd[n]] = next]

(* hlist_add_after(n, next): next is the new node, it goes behind n.       *)
AddAfter(n, next) ==
  /\ next \notin Hashed /\ n \in Hashed /\ looping = "no"
  /\ fwd' = [fwd EXCEPT ![next] = fwd[n], ![n] = next]
  /\ pprev' = AfterPprev(n, next)
  /\ live' = live \cup {next} /\ Did("add", next, n)

AddFake(n) ==
  /\ n \in live /\ Unhashed(n) /\ looping = "no"
  /\ pprev' = [pprev EXCEPT ![n] = n]
  /\ UNCHANGED <<fwd, live>> /\ Did("add_fake", n, NULL)

(* Where hlist_move_list leaves the first entry's pprev, and the mutant    *)
(* without the fixup.                                                      *)
MovedPprevNot(old, new) == pprev
MovedPprev(old, new) ==
  IF fwd[old] = NULL THEN pprev ELSE [pprev EXCEPT ![fwd[old]] = new]

(* hlist_move_list: what was on new is lost to its head.                   *)
MoveList(old, new) ==
  /\ old \in LiveHeads /\ new # old /\ looping = "no"
  /\ fwd' = [fwd EXCEPT ![new] = fwd[old], ![old] = NULL]
  /\ pprev' = MovedPprev(old, new)
  /\ live' = (live \cup {new})
             \ (IF new \in live THEN ToSet(Contents(new)) ELSE {})
  /\ Did("move_list", old, new)

-----------------------------------------------------------------------------
(* The loops.  hlist_for_each(_entry) starts at a head's first node,       *)
(* _continue behind a given node, _from at it.                             *)
Start(kind, first, expected) ==
  /\ looping = "no" /\ looping' = kind
  /\ pos' = first /\ seen' = <<>> /\ todo' = expected
  /\ UNCHANGED <<heap, live, call>>

ForEach(h, kind) == Start(kind, fwd[h], Contents(h))

ForEachContinue(n) == Start("plain", fwd[n], Chain(n))

ForEachFrom(n) == Start("plain", n, <<n>> \o Chain(n))

(* The advance. *)
Onward(n) == IF looping = "safe" THEN n ELSE fwd'[pos]

(* One turn.  A safe loop reads next before its body; the body may delete  *)
(* the node.                                                               *)
Body ==
  \/ UNCHANGED <<heap, live, call>>
  \/ looping = "safe" /\ Unlink(pos) /\ UNCHANGED live
     /\ call' = <<"del", pos, NULL, NULL>>

Turn ==
  /\ looping # "no" /\ pos # NULL
  /\ Body
  /\ pos' = Onward(fwd[pos])
  /\ seen' = Append(seen, pos)
  /\ UNCHANGED <<looping, todo>>

Stop ==
  /\ looping # "no" /\ pos = NULL
  /\ looping' = "no" /\ seen' = <<>> /\ todo' = <<>>
  /\ UNCHANGED <<heap, live, call, pos>>

Next ==
  \/ \E h \in Heads : InitHead(h)
  \/ \E n \in Entries : InitNode(n) \/ Del(n) \/ DelInit(n) \/ AddFake(n)
  \/ \E n \in Entries, h \in Heads : AddHead(n, h)
  \/ \E n, m \in Entries : AddBefore(n, m) \/ AddAfter(n, m)
  \/ \E old, new \in Heads : MoveList(old, new)
  \/ \E h \in LiveHeads, kind \in {"plain", "safe"} : ForEach(h, kind)
  \/ \E n \in Hashed : ForEachContinue(n) \/ ForEachFrom(n)
  \/ Turn
  \/ Stop

Spec == Init /\ [][Next]_vars

-----------------------------------------------------------------------------
(* On every list each node's pprev is the link that points to it, so a     *)
(* delete, which knows only the node, mends the right list; and no node is *)
(* on two lists.                                                           *)
PprevPointsBack ==
  /\ \A o \in LiveHeads \cup Hashed : fwd[o] # NULL => pprev[fwd[o]] = o
  /\ \A g, h \in LiveHeads :
       g # h => ToSet(Contents(g)) \cap ToSet(Contents(h)) = {}

(* hlist_unhashed tells exactly the nodes on no list, except that one      *)
(* hlist_add_fake was called on looks hashed.                              *)
UnhashedRight ==
  \A n \in live \cap Entries : Unhashed(n) <=> n \notin Hashed /\ pprev[n] # n

(* A loop's body sees the nodes from where the loop began to the end of    *)
(* the list, each once and in order, although it deletes some of them: at  *)
(* every turn, what it has seen and what lies ahead make up the whole.     *)
LoopSeesAll ==
  looping # "no" =>
    seen \o (IF pos = NULL THEN <<>> ELSE <<pos>> \o Chain(pos)) = todo

(* Read as sequences, the lists change as the header's comments say, and   *)
(* hlist_del after hlist_add_fake works and changes no list.               *)
AsSequences == [h \in LiveHeads |-> Contents(h)]

Promise == INSTANCE ListSeq WITH lists <- AsSequences

ImplementsSequences == Promise!Spec
=============================================================================
