--------------------------- MODULE ListHeadProofs ---------------------------
(***************************************************************************)
(* What the list_head operations do to rings, for any set of nodes.  A     *)
(* ring R is a set of nodes closed under next and prev (RingClosed); S     *)
(* stands for any other ring of the same heap.  First list_add and         *)
(* list_del, which the allocators use; then following next around a        *)
(* connected ring; then every other operation of the header: it turns      *)
(* closed, connected rings into closed, connected rings of the nodes its   *)
(* comment promises, and touches no node of another ring.                  *)
(***************************************************************************)
EXTENDS ListHead, Integers, FiniteSetTheorems, WellFoundedInduction, TLAPS

(* A heap over Nodes. *)
Heap(L, Nodes) ==
  /\ L = [next |-> L.next, prev |-> L.prev]
  /\ L.next \in [Nodes -> Nodes \cup {NULL}]
  /\ L.prev \in [Nodes -> Nodes \cup {NULL}]

(* list_add (include/list.h:38) keeps a heap a heap. *)
LEMMA ListAddHeap ==
  ASSUME NEW Nodes, NEW L, Heap(L, Nodes),
         NEW new \in Nodes, NEW head \in Nodes, L.next[head] \in Nodes
  PROVE  Heap(ListAdd(L, new, head), Nodes)
BY DEF Heap, ListAdd, LinkBetween

(* list_del (include/list.h:80) keeps a heap a heap. *)
LEMMA ListDelHeap ==
  ASSUME NEW Nodes, NEW L, Heap(L, Nodes),
         NEW e \in Nodes, L.next[e] \in Nodes, L.prev[e] \in Nodes
  PROVE  Heap(ListDel(L, e), Nodes)
BY DEF Heap, ListDel

(* list_add of a node from outside makes the ring one node longer. *)
LEMMA ListAddRing ==
  ASSUME NEW Nodes, NEW L, Heap(L, Nodes), NEW R, R \subseteq Nodes,
         RingClosed(L, R), NEW head \in R, NEW new \in Nodes \ R
  PROVE  RingClosed(ListAdd(L, new, head), R \cup {new})
<1> DEFINE M == ListAdd(L, new, head)
           after == L.next[head]
<1>1. after \in R /\ L.prev[after] = head
  BY DEF RingClosed
<1>2. /\ M.next = [L.next EXCEPT ![new] = after, ![head] = new]
      /\ M.prev = [L.prev EXCEPT ![after] = new, ![new] = head]
  BY DEF ListAdd, LinkBetween
<1>3. /\ M.next[new] = after /\ M.next[head] = new
      /\ \A x \in R : x # head => M.next[x] = L.next[x]
  BY <1>2 DEF Heap
<1>4. /\ M.prev[new] = head /\ M.prev[after] = new
      /\ \A x \in R : x # after => M.prev[x] = L.prev[x]
  BY <1>1, <1>2 DEF Heap
<1> HIDE DEF M, after
<1>5. \A x \in R : x # head => L.next[x] # after
  BY <1>1 DEF RingClosed
<1>6. \A x \in R : x # after => L.prev[x] # head
  BY <1>1, <1>3 DEF RingClosed, after
<1>7. RingClosed(M, R \cup {new})
  BY <1>1, <1>3, <1>4, <1>5, <1>6 DEF RingClosed
<1>8. QED
  BY <1>7 DEF M

(* list_del leaves a ring one node shorter. *)
LEMMA ListDelRing ==
  ASSUME NEW Nodes, NEW L, Heap(L, Nodes), NEW R, R \subseteq Nodes,
         RingClosed(L, R), NEW e \in R
  PROVE  RingClosed(ListDel(L, e), R \ {e})
<1> DEFINE M == ListDel(L, e)
           before == L.prev[e]
           after == L.next[e]
<1>1. /\ before \in R /\ after \in R
      /\ L.prev[after] = e /\ L.next[before] = e
  BY DEF RingClosed
<1>2. /\ M.next = [L.next EXCEPT ![before] = after, ![e] = NULL]
      /\ M.prev = [L.prev EXCEPT ![after] = before, ![e] = NULL]
  BY DEF ListDel
<1>3. /\ before # e => M.next[before] = after
      /\ \A x \in R : x # before /\ x # e => M.next[x] = L.next[x]
  BY <1>1, <1>2 DEF Heap
<1>4. /\ after # e => M.prev[after] = before
      /\ \A x \in R : x # after /\ x # e => M.prev[x] = L.prev[x]
  BY <1>1, <1>2 DEF Heap
<1>5. \A x \in R : /\ x # before => L.next[x] # e
                   /\ x # after => L.prev[x] # e
                   /\ x # e => L.next[x] # after /\ L.prev[x] # before
  BY <1>1 DEF RingClosed
<1> HIDE DEF M, before, after
<1>6. RingClosed(M, R \ {e})
  BY <1>1, <1>3, <1>4, <1>5 DEF RingClosed
<1>7. QED
  BY <1>6 DEF M

(* Neither touches a ring it is not called on. *)
LEMMA ListAddOther ==
  ASSUME NEW Nodes, NEW L, Heap(L, Nodes), NEW R, R \subseteq Nodes,
         RingClosed(L, R), NEW head \in R, NEW new \in Nodes,
         NEW S, S \subseteq Nodes, RingClosed(L, S), S \cap R = {}, new \notin S
  PROVE  RingClosed(ListAdd(L, new, head), S)
<1>1. L.next[head] \in R
  BY DEF RingClosed
<1>2. \A x \in S : /\ ListAdd(L, new, head).next[x] = L.next[x]
                   /\ ListAdd(L, new, head).prev[x] = L.prev[x]
  BY <1>1 DEF ListAdd, LinkBetween, Heap
<1>3. QED
  BY <1>2 DEF RingClosed

LEMMA ListDelOther ==
  ASSUME NEW Nodes, NEW L, Heap(L, Nodes), NEW R, R \subseteq Nodes,
         RingClosed(L, R), NEW e \in R,
         NEW S, S \subseteq Nodes, RingClosed(L, S), S \cap R = {}
  PROVE  RingClosed(ListDel(L, e), S)
<1>1. L.next[e] \in R /\ L.prev[e] \in R
  BY DEF RingClosed
<1>2. \A x \in S : /\ ListDel(L, e).next[x] = L.next[x]
                   /\ ListDel(L, e).prev[x] = L.prev[x]
  BY <1>1 DEF ListDel, Heap
<1>3. QED
  BY <1>2 DEF RingClosed

-----------------------------------------------------------------------------
(* A non-empty set of natural numbers has a least element: what stands for *)
(* induction in the proofs that need it.                                   *)
LEMMA LeastNatural ==
  ASSUME NEW T, T \subseteq Nat, T # {}
  PROVE  \E x \in T : \A y \in T : x <= y
<1>1. PICK x \in T : \A y \in T : <<y, x>> \notin OpToRel(<, Nat)
  BY WFMin, NatLessThanWellFounded, Zenon
<1>2. \A y \in T : ~(y < x)
  BY <1>1, Zenon DEF OpToRel
<1>3. QED
  BY <1>2

(* list_add keeps a ring connected. *)
LEMMA ListAddConnected ==
  ASSUME NEW Nodes, NEW L, Heap(L, Nodes), NEW R, R \subseteq Nodes,
         RingClosed(L, R), NEW head \in R, NEW new \in Nodes \ R,
         RingConnected(L, R, head)
  PROVE  RingConnected(ListAdd(L, new, head), R \cup {new}, head)
<1> DEFINE M == ListAdd(L, new, head)
           after == L.next[head]
<1>1. after \in R
  BY DEF RingClosed
<1>2. /\ M.next[new] = after
      /\ \A x \in R : x # head => M.next[x] = L.next[x]
  BY DEF Heap, ListAdd, LinkBetween
<1> HIDE DEF M
<1>3. SUFFICES ASSUME NEW S \in SUBSET (R \cup {new}), S # {},
                      \A x \in S : M.next[x] \in S, head \notin S
               PROVE  FALSE
  BY DEF RingConnected, M
<1> DEFINE T == S \ {new}
<1>4. T \in SUBSET R /\ T # {}
  BY <1>1, <1>2, <1>3
<1>5. \A x \in T : L.next[x] \in T
  BY <1>2, <1>3, <1>4 DEF RingClosed
<1>6. QED
  BY <1>3, <1>4, <1>5 DEF RingConnected

(* list_del does, for every node but the head. *)
LEMMA ListDelConnected ==
  ASSUME NEW Nodes, NEW L, Heap(L, Nodes), NEW R, R \subseteq Nodes,
         RingClosed(L, R), NEW head \in R, NEW e \in R, e # head,
         RingConnected(L, R, head)
  PROVE  RingConnected(ListDel(L, e), R \ {e}, head)
<1> DEFINE M == ListDel(L, e)
           before == L.prev[e]
           after == L.next[e]
<1>1. before \in R /\ after \in R /\ L.next[before] = e
  BY DEF RingClosed
<1>2. /\ before # e => M.next[before] = after
      /\ \A x \in R : x # before /\ x # e => M.next[x] = L.next[x]
  BY <1>1 DEF Heap, ListDel
<1> HIDE DEF M
<1>3. SUFFICES ASSUME NEW S \in SUBSET (R \ {e}), S # {},
                      \A x \in S : M.next[x] \in S, head \notin S
               PROVE  FALSE
  BY DEF RingConnected, M
<1>4. CASE before \notin S
  <2>1. \A x \in S : L.next[x] \in S
    BY <1>2, <1>3, <1>4
  <2>2. QED
    BY <1>3, <2>1 DEF RingConnected
<1>5. CASE before \in S
  <2> DEFINE T == S \cup {e}
  <2>1. \A x \in T : L.next[x] \in T
    BY <1>1, <1>2, <1>3, <1>5
  <2>2. T \in SUBSET R /\ T # {} /\ head \notin T
    BY <1>3
  <2>3. QED
    BY <2>1, <2>2 DEF RingConnected
<1>6. QED
  BY <1>4, <1>5

(* Both leave the connection of another ring alone. *)
LEMMA ListAddConnectedOther ==
  ASSUME NEW Nodes, NEW L, Heap(L, Nodes), NEW R, R \subseteq Nodes,
         RingClosed(L, R), NEW head \in R, NEW new \in Nodes,
         NEW S, S \subseteq Nodes, S \cap R = {}, new \notin S,
         NEW h, RingConnected(L, S, h)
  PROVE  RingConnected(ListAdd(L, new, head), S, h)
<1>1. \A x \in S : ListAdd(L, new, head).next[x] = L.next[x]
  BY DEF ListAdd, LinkBetween, Heap
<1>2. QED
  BY <1>1 DEF RingConnected

LEMMA ListDelConnectedOther ==
  ASSUME NEW Nodes, NEW L, Heap(L, Nodes), NEW R, R \subseteq Nodes,
         RingClosed(L, R), NEW e \in R,
         NEW S, S \subseteq Nodes, S \cap R = {},
         NEW h, RingConnected(L, S, h)
  PROVE  RingConnected(ListDel(L, e), S, h)
<1>1. L.prev[e] \in R
  BY DEF RingClosed
<1>2. \A x \in S : ListDel(L, e).next[x] = L.next[x]
  BY <1>1 DEF ListDel, Heap
<1>3. QED
  BY <1>2 DEF RingConnected

(* The first n + 1 nodes met from head, head itself once it is met.        *)
IsWalk(L, head, n, at) ==
  at = [k \in 0 .. n |-> IF k = 0 THEN L.next[head]
                         ELSE IF at[k - 1] = head THEN head
                         ELSE L.next[at[k - 1]]]

LEMMA WalkExists ==
  ASSUME NEW L, NEW head, NEW n \in Nat
  PROVE  \E at : IsWalk(L, head, n, at)
<1> DEFINE T == {m \in Nat : ~ \E at : IsWalk(L, head, m, at)}
<1>1. SUFFICES ASSUME T # {} PROVE FALSE
  OBVIOUS
<1>2. PICK m \in T : \A y \in T : m <= y
  BY <1>1, LeastNatural
<1>3. CASE m = 0
  <2> DEFINE f == [k \in 0 .. 0 |-> L.next[head]]
  <2>1. IsWalk(L, head, 0, f)
    BY DEF IsWalk
  <2>2. QED
    BY <1>2, <1>3, <2>1
<1>4. CASE m # 0
  <2>1. m - 1 \in Nat /\ m - 1 \notin T
    BY <1>2, <1>4
  <2>2. PICK at : IsWalk(L, head, m - 1, at)
    BY <2>1
  <2> DEFINE f == [k \in 0 .. m |->
                     IF k = m THEN IF at[m - 1] = head THEN head
                                                       ELSE L.next[at[m - 1]]
                     ELSE at[k]]
  <2>3. ASSUME NEW k \in 0 .. m
        PROVE  f[k] = IF k = 0 THEN L.next[head]
                      ELSE IF f[k - 1] = head THEN head ELSE L.next[f[k - 1]]
    <3>1. \A i \in 0 .. m - 1 : f[i] = at[i]
      BY <2>1
    <3>2. CASE k = 0
      BY <1>4, <2>1, <2>2, <3>1, <3>2 DEF IsWalk
    <3>3. CASE k # 0 /\ k # m
      <4>1. k \in 0 .. m - 1 /\ k - 1 \in 0 .. m - 1
        BY <2>1, <3>3
      <4>2. at[k] = IF at[k - 1] = head THEN head ELSE L.next[at[k - 1]]
        BY <2>2, <3>3, <4>1 DEF IsWalk
      <4> HIDE DEF f
      <4>3. QED
        BY <3>1, <3>3, <4>1, <4>2
    <3>4. CASE k = m
      <4>1. f[m] = IF at[m - 1] = head THEN head ELSE L.next[at[m - 1]]
        BY <2>1
      <4>2. m - 1 \in 0 .. m - 1
        BY <2>1
      <4> HIDE DEF f
      <4>3. QED
        BY <1>4, <3>1, <3>4, <4>1, <4>2
    <3>5. QED
      BY <3>2, <3>3, <3>4
  <2>4. IsWalk(L, head, m, f)
    <3>1. f = [k \in 0 .. m |-> f[k]]
      OBVIOUS
    <3> HIDE DEF f
    <3>2. QED
      BY <2>3, <3>1 DEF IsWalk
  <2>5. QED
    BY <1>2, <2>4
<1>5. QED
  BY <1>3, <1>4

(* A walk that is long enough meets the nodes of its ring and no others.   *)
LEMMA WalkMeetsRing ==
  ASSUME NEW L, NEW R, NEW head \in R, RingClosed(L, R),
         RingConnected(L, R, head),
         NEW n \in Nat, IsFiniteSet(R), Cardinality(R) <= n,
         NEW at, IsWalk(L, head, n, at)
  PROVE  {at[k] : k \in 0 .. n} = R
<1> DEFINE V == {at[k] : k \in 0 .. n}
<1>1. /\ at[0] = L.next[head]
      /\ \A k \in 0 .. n : k # 0 =>
           /\ k - 1 \in 0 .. n
           /\ at[k - 1] = head => at[k] = head
           /\ at[k - 1] # head => at[k] = L.next[at[k - 1]]
  BY DEF IsWalk
<1>2. \A k \in 0 .. n : at[k] \in R
  <2> DEFINE T == {k \in 0 .. n : at[k] \notin R}
  <2>1. SUFFICES ASSUME T # {} PROVE FALSE
    OBVIOUS
  <2>2. PICK k \in T : \A y \in T : k <= y
    <3>1. T \subseteq Nat
      OBVIOUS
    <3> HIDE DEF T
    <3>2. QED
      BY <2>1, <3>1, LeastNatural
  <2>3. CASE k = 0
    BY <1>1, <2>2, <2>3 DEF RingClosed
  <2>4. CASE k # 0
    <3>1. k - 1 \in 0 .. n /\ at[k - 1] \in R
      BY <1>1, <2>2, <2>4
    <3>2. QED
      BY <1>1, <2>2, <2>4, <3>1 DEF RingClosed
  <2>5. QED
    BY <2>3, <2>4
(* There are more steps than nodes, so a walk that avoids head comes back  *)
(* to a node, and the loop it is in would be closed.                       *)
<1>3. \E k \in 0 .. n : at[k] = head
  <2>1. SUFFICES ASSUME \A k \in 0 .. n : at[k] # head PROVE FALSE
    OBVIOUS
  <2>2. PICK i \in 0 .. n, j \in 0 .. n : i < j /\ at[i] = at[j]
    <3>1. /\ IsFiniteSet(0 .. n) /\ Cardinality(0 .. n) = n + 1
      BY FS_Interval
    <3>2. at \in [0 .. n -> R]
      BY <1>2 DEF IsWalk
    <3>3. Cardinality(R) \in Nat /\ Cardinality(R) < Cardinality(0 .. n)
      BY <3>1, FS_CardinalityType
    <3>4. \E x, y \in 0 .. n : x # y /\ at[x] = at[y]
      BY <3>1, <3>2, <3>3, FS_PigeonHole
    <3>5. PICK x \in 0 .. n, y \in 0 .. n : x # y /\ at[x] = at[y]
      BY <3>4
    <3>6. CASE x < y
      BY <3>5, <3>6
    <3>7. CASE y < x
      BY <3>5, <3>7
    <3>8. QED
      BY <3>5, <3>6, <3>7
  <2> DEFINE S == {at[k] : k \in i + 1 .. j}
  <2>3. \A k \in i + 1 .. j : L.next[at[k]] \in S
    <3> TAKE k \in i + 1 .. j
    <3>1. CASE k = j
      <4>1. i + 1 \in 0 .. n /\ i + 1 # 0 /\ (i + 1) - 1 = i /\ i + 1 \in i + 1 .. j
        BY <2>2
      <4>2. at[i + 1] = L.next[at[i]]
        BY <1>1, <2>1, <4>1
      <4>3. QED
        BY <2>2, <3>1, <4>1, <4>2
    <3>2. CASE k # j
      <4>1. k + 1 \in 0 .. n /\ k + 1 # 0 /\ (k + 1) - 1 = k /\ k + 1 \in i + 1 .. j
            /\ k \in 0 .. n
        BY <2>2, <3>2
      <4>2. at[k + 1] = L.next[at[k]]
        BY <1>1, <2>1, <4>1
      <4>3. QED
        BY <4>1, <4>2
    <3>3. QED
      BY <3>1, <3>2
  <2>4. S \in SUBSET R /\ head \notin S /\ at[j] \in S
    BY <1>2, <2>1, <2>2
  <2>5. QED
    BY <2>3, <2>4 DEF RingConnected
(* What it does not meet would be closed, too. *)
<1>4. R \subseteq V
  <2> DEFINE S == R \ V
  <2>1. SUFFICES ASSUME S # {} PROVE FALSE
    OBVIOUS
  <2>2. ASSUME NEW x \in S PROVE L.next[x] \in S
    <3>1. SUFFICES ASSUME L.next[x] \in V PROVE FALSE
      BY DEF RingClosed
    <3> DEFINE T == {k \in 0 .. n : at[k] = L.next[x]}
    <3>2. PICK k \in T : \A y \in T : k <= y
      <4>1. T \subseteq Nat /\ T # {}
        BY <3>1
      <4> HIDE DEF T
      <4>2. QED
        BY <4>1, LeastNatural
    <3>3. PICK h \in 0 .. n : at[h] = head
      BY <1>3
    <3>4. x # head
      BY <3>3
    <3>5. CASE k = 0
      BY <1>1, <3>2, <3>4, <3>5 DEF RingClosed
    <3>6. CASE k # 0
      <4>1. /\ k - 1 \in 0 .. n /\ k - 1 \notin T
        BY <1>1, <3>2, <3>6
      <4>2. at[k - 1] # head /\ at[k] = L.next[at[k - 1]]
        BY <1>1, <3>2, <3>6, <4>1
      <4>3. at[k - 1] = x
        BY <1>2, <3>2, <4>1, <4>2 DEF RingClosed
      <4>4. QED
        BY <4>1, <4>3
    <3>7. QED
      BY <3>5, <3>6
  <2>3. head \in V
    BY <1>3
  <2>4. QED
    BY <2>1, <2>2, <2>3 DEF RingConnected
<1>5. QED
  BY <1>2, <1>4

-----------------------------------------------------------------------------
(* The other operations of the header.  R is the ring of head h: h itself  *)
(* and the entries of its list, no more and no fewer.                      *)
RingOfHead(L, R, h) == h \in R /\ RingClosed(L, R) /\ RingConnected(L, R, h)

(* Two heaps with the same pointers in the nodes of S. *)
SameIn(L, M, S) == \A x \in S : M.next[x] = L.next[x] /\ M.prev[x] = L.prev[x]

LEMMA Untouched ==
  ASSUME NEW L, NEW M, NEW S, NEW h, RingOfHead(L, S, h), SameIn(L, M, S)
  PROVE  RingOfHead(M, S, h)
BY DEF RingOfHead, SameIn, RingClosed, RingConnected

(* INIT_LIST_HEAD makes a ring of one. *)
LEMMA InitRing ==
  ASSUME NEW Nodes, NEW L, Heap(L, Nodes), NEW x \in Nodes
  PROVE  /\ Heap(InitListHead(L, x), Nodes)
         /\ RingOfHead(InitListHead(L, x), {x}, x)
         /\ SameIn(L, InitListHead(L, x), Nodes \ {x})
<1> DEFINE M == InitListHead(L, x)
<1>1. Heap(M, Nodes) /\ SameIn(L, M, Nodes \ {x}) /\ M.next[x] = x /\ M.prev[x] = x
  BY DEF Heap, InitListHead, SameIn
<1> HIDE DEF M
<1>2. RingClosed(M, {x})
  BY <1>1 DEF RingClosed
<1>3. RingConnected(M, {x}, x)
  BY DEF RingConnected
<1>4. QED
  BY <1>1, <1>2, <1>3 DEF RingOfHead, M

(* __list_add between two neighbours of a ring, which list_add and         *)
(* list_add_tail call.                                                     *)
LEMMA LinkRing ==
  ASSUME NEW Nodes, NEW L, Heap(L, Nodes), NEW R, R \subseteq Nodes,
         NEW h, RingOfHead(L, R, h), NEW before \in R, NEW new \in Nodes \ R
  PROVE  LET M == LinkBetween(L, new, before, L.next[before])
         IN /\ Heap(M, Nodes) /\ RingOfHead(M, R \cup {new}, h)
            /\ SameIn(L, M, Nodes \ (R \cup {new}))
<1> DEFINE M == LinkBetween(L, new, before, L.next[before])
           after == L.next[before]
<1>1. RingClosed(L, R) /\ RingConnected(L, R, h) /\ h \in R /\ after \in R
  BY DEF RingOfHead, RingClosed
<1>2. M = ListAdd(L, new, before)
  BY DEF ListAdd
<1>3. RingClosed(M, R \cup {new}) /\ Heap(M, Nodes)
  BY <1>1, <1>2, ListAddRing, ListAddHeap
<1>4. SameIn(L, M, Nodes \ (R \cup {new}))
  BY <1>1 DEF Heap, LinkBetween, SameIn
<1>5. RingConnected(M, R \cup {new}, h)
  <2>1. /\ M.next[new] = after /\ M.next[before] = new
        /\ \A x \in R : x # before => M.next[x] = L.next[x]
    BY DEF Heap, LinkBetween
  <2> HIDE DEF M
  <2>2. SUFFICES ASSUME NEW S \in SUBSET (R \cup {new}), S # {},
                        \A x \in S : M.next[x] \in S
                 PROVE  h \in S
    BY DEF RingConnected
  <2> DEFINE T == S \ {new}
  <2>3. T \in SUBSET R /\ T # {}
    BY <1>1, <2>1, <2>2
  <2>4. \A x \in T : L.next[x] \in T
    <3> TAKE x \in T
    <3>1. CASE x = before
      BY <1>1, <2>1, <2>2, <3>1
    <3>2. CASE x # before
      BY <1>1, <2>1, <2>2, <2>3, <3>2 DEF RingClosed
    <3>3. QED
      BY <3>1, <3>2
  <2>5. QED
    BY <1>1, <2>3, <2>4 DEF RingConnected
<1>6. QED
  BY <1>1, <1>3, <1>4, <1>5 DEF RingOfHead

(* list_add_tail makes the ring one node longer, too. *)
LEMMA ListAddTailRing ==
  ASSUME NEW Nodes, NEW L, Heap(L, Nodes), NEW R, R \subseteq Nodes,
         NEW h, RingOfHead(L, R, h), NEW x \in R, NEW new \in Nodes \ R
  PROVE  LET M == ListAddTail(L, new, x)
         IN /\ Heap(M, Nodes) /\ RingOfHead(M, R \cup {new}, h)
            /\ SameIn(L, M, Nodes \ (R \cup {new}))
<1>1. PICK b \in R : b = L.prev[x] /\ L.next[b] = x
  BY DEF RingOfHead, RingClosed
<1>2. ListAddTail(L, new, x) = LinkBetween(L, new, b, L.next[b])
  BY <1>1 DEF ListAddTail
<1> DEFINE M == LinkBetween(L, new, b, L.next[b])
<1>3. /\ Heap(M, Nodes) /\ RingOfHead(M, R \cup {new}, h)
      /\ SameIn(L, M, Nodes \ (R \cup {new}))
  BY LinkRing
<1>4. QED
  BY <1>2, <1>3

(* __list_del_entry takes a node out of its ring; what list_del_init,      *)
(* list_move and list_move_tail begin with.                                *)
LEMMA JoinRing ==
  ASSUME NEW Nodes, NEW L, Heap(L, Nodes), NEW R, R \subseteq Nodes,
         RingClosed(L, R), NEW e \in R
  PROVE  LET M == JoinNeighbours(L, e)
         IN /\ Heap(M, Nodes) /\ SameIn(L, M, Nodes \ R)
            /\ \A h : h # e /\ RingOfHead(L, R, h) => RingOfHead(M, R \ {e}, h)
<1> DEFINE M == JoinNeighbours(L, e)
           before == L.prev[e]
           after == L.next[e]
<1>1. /\ before \in R /\ after \in R
      /\ L.prev[after] = e /\ L.next[before] = e
  BY DEF RingClosed
<1>2. /\ M.next = [L.next EXCEPT ![before] = after]
      /\ M.prev = [L.prev EXCEPT ![after] = before]
      /\ M = [next |-> M.next, prev |-> M.prev]
  BY DEF JoinNeighbours
<1>3. Heap(M, Nodes) /\ SameIn(L, M, Nodes \ R)
  BY <1>1, <1>2 DEF Heap, SameIn
<1>4. /\ M.next[before] = after
      /\ \A x \in R : x # before => M.next[x] = L.next[x]
      /\ M.prev[after] = before
      /\ \A x \in R : x # after => M.prev[x] = L.prev[x]
  BY <1>1, <1>2 DEF Heap
<1>5. \A x \in R : /\ x # before => L.next[x] # e
                   /\ x # after => L.prev[x] # e
                   /\ x # e => L.next[x] # after /\ L.prev[x] # before
  BY <1>1 DEF RingClosed
<1> HIDE DEF M, before, after
<1>6. RingClosed(M, R \ {e})
  BY <1>1, <1>4, <1>5 DEF RingClosed
<1>7. ASSUME NEW h, h # e, RingOfHead(L, R, h)
      PROVE  RingConnected(M, R \ {e}, h)
  <2>1. SUFFICES ASSUME NEW S \in SUBSET (R \ {e}), S # {},
                        \A x \in S : M.next[x] \in S
                 PROVE  h \in S
    BY DEF RingConnected
  <2>2. RingConnected(L, R, h)
    BY <1>7 DEF RingOfHead
  <2>3. CASE before \notin S
    <3>1. S \in SUBSET R /\ \A x \in S : L.next[x] \in S
      BY <1>4, <2>1, <2>3
    <3>2. QED
      BY <2>1, <2>2, <3>1 DEF RingConnected
  <2>4. CASE before \in S
    <3> DEFINE T == S \cup {e}
    <3>1. \A x \in T : L.next[x] \in T
      BY <1>1, <1>4, <2>1, <2>4 DEF after
    <3>2. T \in SUBSET R /\ T # {}
      BY <2>1
    <3>3. h \in T
      BY <2>2, <3>1, <3>2 DEF RingConnected
    <3>4. QED
      BY <1>7, <3>3
  <2>5. QED
    BY <2>3, <2>4
<1>8. QED
  BY <1>3, <1>6, <1>7 DEF RingOfHead, M

(* list_del_init leaves a ring one node shorter and a ring of one.         *)
LEMMA ListDelInitRing ==
  ASSUME NEW Nodes, NEW L, Heap(L, Nodes), NEW R, R \subseteq Nodes,
         RingClosed(L, R), NEW e \in R
  PROVE  LET M == ListDelInit(L, e)
         IN /\ Heap(M, Nodes) /\ RingOfHead(M, {e}, e)
            /\ SameIn(L, M, Nodes \ R)
            /\ \A h : h # e /\ RingOfHead(L, R, h) => RingOfHead(M, R \ {e}, h)
<1> DEFINE J == JoinNeighbours(L, e)
           M == ListDelInit(L, e)
<1>1. /\ Heap(J, Nodes) /\ SameIn(L, J, Nodes \ R)
      /\ \A h : h # e /\ RingOfHead(L, R, h) => RingOfHead(J, R \ {e}, h)
  BY JoinRing
<1>2. M = InitListHead(J, e)
  BY DEF ListDelInit
<1> HIDE DEF J, M
<1>3. Heap(M, Nodes) /\ RingOfHead(M, {e}, e) /\ SameIn(J, M, Nodes \ {e})
  BY <1>1, <1>2, InitRing
<1>4. SameIn(L, M, Nodes \ R)
  BY <1>1, <1>3 DEF SameIn
<1>5. ASSUME NEW h, h # e, RingOfHead(L, R, h)
      PROVE  RingOfHead(M, R \ {e}, h)
  <2>1. RingOfHead(J, R \ {e}, h) /\ SameIn(J, M, R \ {e})
    BY <1>1, <1>3, <1>5 DEF SameIn
  <2>2. QED
    BY <2>1, Untouched
<1>6. QED
  BY <1>3, <1>4, <1>5 DEF M

(* list_move and list_move_tail to the node x: within a ring the ring      *)
(* keeps its nodes, between two rings the entry changes sides.  An entry   *)
(* alone in its ring may be moved as well.                                 *)
THEOREM MovedRing ==
  ASSUME NEW Nodes, NEW L, Heap(L, Nodes), NEW R, R \subseteq Nodes,
         RingClosed(L, R), NEW e \in R,
         NEW M, NEW x, M = ListMove(L, e, x) \/ M = ListMoveTail(L, e, x)
  PROVE  /\ \A h : h # e /\ x \in R \ {e} /\ RingOfHead(L, R, h) =>
              /\ Heap(M, Nodes) /\ RingOfHead(M, R, h)
              /\ SameIn(L, M, Nodes \ R)
         /\ \A S \in SUBSET Nodes : \A g :
              S \cap R = {} /\ x \in S /\ RingOfHead(L, S, g) =>
                /\ Heap(M, Nodes) /\ RingOfHead(M, S \cup {e}, g)
                /\ \A h : h # e /\ RingOfHead(L, R, h) => RingOfHead(M, R \ {e}, h)
                /\ SameIn(L, M, Nodes \ (R \cup S))
<1> DEFINE J == JoinNeighbours(L, e)
<1>1. /\ Heap(J, Nodes) /\ SameIn(L, J, Nodes \ R)
      /\ \A h : h # e /\ RingOfHead(L, R, h) => RingOfHead(J, R \ {e}, h)
  BY JoinRing
<1>2. M = ListAdd(J, e, x) \/ M = ListAddTail(J, e, x)
  BY DEF ListMove, ListMoveTail
<1> HIDE DEF J
<1>3. ASSUME NEW T, T \subseteq Nodes, NEW g, RingOfHead(J, T, g), x \in T, e \notin T
      PROVE  /\ Heap(M, Nodes) /\ RingOfHead(M, T \cup {e}, g)
             /\ SameIn(J, M, Nodes \ (T \cup {e}))
  <2>1. e \in Nodes \ T
    BY <1>3
  <2>2. CASE M = ListAdd(J, e, x)
    BY <1>1, <1>3, <2>1, <2>2, LinkRing DEF ListAdd
  <2>3. CASE M = ListAddTail(J, e, x)
    BY <1>1, <1>3, <2>1, <2>3, ListAddTailRing
  <2>4. QED
    BY <1>2, <2>2, <2>3
<1>4. ASSUME NEW h, h # e, x \in R \ {e}, RingOfHead(L, R, h)
      PROVE  Heap(M, Nodes) /\ RingOfHead(M, R, h) /\ SameIn(L, M, Nodes \ R)
  <2>1. RingOfHead(J, R \ {e}, h) /\ R \ {e} \subseteq Nodes
    BY <1>1, <1>4
  <2>2. /\ Heap(M, Nodes) /\ RingOfHead(M, (R \ {e}) \cup {e}, h)
        /\ SameIn(J, M, Nodes \ ((R \ {e}) \cup {e}))
    BY <1>3, <1>4, <2>1
  <2>3. (R \ {e}) \cup {e} = R
    OBVIOUS
  <2>4. QED
    BY <1>1, <2>2, <2>3 DEF SameIn
<1>5. ASSUME NEW S \in SUBSET Nodes, NEW g,
             S \cap R = {}, x \in S, RingOfHead(L, S, g)
      PROVE  /\ Heap(M, Nodes) /\ RingOfHead(M, S \cup {e}, g)
             /\ \A h : h # e /\ RingOfHead(L, R, h) => RingOfHead(M, R \ {e}, h)
             /\ SameIn(L, M, Nodes \ (R \cup S))
  <2>1. SameIn(L, J, S) /\ e \notin S
    BY <1>1, <1>5 DEF SameIn
  <2>2. RingOfHead(J, S, g)
    BY <1>5, <2>1, Untouched
  <2>3. /\ Heap(M, Nodes) /\ RingOfHead(M, S \cup {e}, g)
        /\ SameIn(J, M, Nodes \ (S \cup {e}))
    BY <1>3, <1>5, <2>1, <2>2
  <2>4. ASSUME NEW h, h # e, RingOfHead(L, R, h)
        PROVE  RingOfHead(M, R \ {e}, h)
    <3>1. RingOfHead(J, R \ {e}, h) /\ SameIn(J, M, R \ {e})
      BY <1>1, <1>5, <2>3, <2>4 DEF SameIn
    <3>2. QED
      BY <3>1, Untouched
  <2>5. SameIn(L, M, Nodes \ (R \cup S))
    BY <1>1, <2>3 DEF SameIn
  <2>6. QED
    BY <2>3, <2>4, <2>5
<1>6. QED
  BY <1>4, <1>5

(* list_rotate_left keeps the nodes of the ring. *)
LEMMA RotatedRing ==
  ASSUME NEW Nodes, NEW L, Heap(L, Nodes), NEW R, R \subseteq Nodes,
         NEW h, RingOfHead(L, R, h)
  PROVE  LET M == ListRotateLeft(L, h)
         IN /\ Heap(M, Nodes) /\ RingOfHead(M, R, h)
            /\ SameIn(L, M, Nodes \ R)
<1>1. CASE ListEmpty(L, h)
  BY <1>1 DEF ListRotateLeft, SameIn
<1>2. CASE ~ListEmpty(L, h)
  <2> DEFINE e == L.next[h]
             M == ListMoveTail(L, e, h)
  <2>1. RingClosed(L, R) /\ e \in R /\ e # h /\ h \in R \ {e}
    BY <1>2 DEF RingOfHead, RingClosed, ListEmpty
  <2>2. M = ListMove(L, e, h) \/ M = ListMoveTail(L, e, h)
    OBVIOUS
  <2>3. ListRotateLeft(L, h) = M
    BY <1>2 DEF ListRotateLeft
  <2> HIDE DEF e, M
  <2>4. \A k : k # e /\ h \in R \ {e} /\ RingOfHead(L, R, k) =>
           Heap(M, Nodes) /\ RingOfHead(M, R, k) /\ SameIn(L, M, Nodes \ R)
    BY <2>1, <2>2, MovedRing, Zenon
  <2>5. Heap(M, Nodes) /\ RingOfHead(M, R, h) /\ SameIn(L, M, Nodes \ R)
    BY <2>1, <2>4
  <2>6. QED
    BY <2>3, <2>5
<1>3. QED
  BY <1>1, <1>2

(* A head that points to itself has no entries: list_empty is right.       *)
LEMMA EmptyRing ==
  ASSUME NEW L, NEW R, NEW h, RingOfHead(L, R, h)
  PROVE  L.next[h] = h <=> R = {h}
<1>1. h \in R /\ RingClosed(L, R) /\ RingConnected(L, R, h)
  BY DEF RingOfHead
<1>2. R = {h} => L.next[h] = h
  BY <1>1 DEF RingClosed
<1>3. ASSUME L.next[h] = h, NEW x \in R, x # h PROVE FALSE
  <2> DEFINE S == R \ {h}
  <2>1. L.prev[h] = h
    BY <1>1, <1>3 DEF RingClosed
  <2>2. \A y \in S : L.next[y] \in S
    BY <1>1, <2>1 DEF RingClosed
  <2>3. S \in SUBSET R /\ S # {} /\ h \notin S
    BY <1>3
  <2>4. QED
    BY <1>1, <2>2, <2>3 DEF RingConnected
<1>4. QED
  BY <1>1, <1>2, <1>3

(* list_replace puts new where old was, also where old is alone.           *)
THEOREM ReplacedRing ==
  ASSUME NEW Nodes, NEW L, Heap(L, Nodes), NEW R, R \subseteq Nodes,
         NEW h, RingOfHead(L, R, h), NEW old \in R, NEW new \in Nodes \ R
  PROVE  LET M == ListReplace(L, old, new)
         IN /\ Heap(M, Nodes)
            /\ RingOfHead(M, (R \ {old}) \cup {new}, IF h = old THEN new ELSE h)
            /\ SameIn(L, M, Nodes \ (R \cup {new}))
<1> DEFINE M == ListReplace(L, old, new)
           after == L.next[old]
           prev1 == [L.prev EXCEPT ![after] = new]
           before == prev1[old]
           Q == (R \ {old}) \cup {new}
           g == IF h = old THEN new ELSE h
<1>1. /\ RingClosed(L, R) /\ RingConnected(L, R, h) /\ h \in R
      /\ after \in R /\ L.prev[old] \in R
      /\ L.prev[after] = old /\ L.next[L.prev[old]] = old
  BY DEF RingOfHead, RingClosed
<1>2. /\ before = IF after = old THEN new ELSE L.prev[old]
      /\ M.next = [L.next EXCEPT ![new] = after, ![before] = new]
      /\ M.prev = [prev1 EXCEPT ![new] = before]
      /\ M = [next |-> M.next, prev |-> M.prev]
  BY <1>1 DEF ListReplace, Heap
<1>3. CASE after = old
  <2>1. R = {old}
    <3>1. {old} \in SUBSET R /\ {old} # {} /\ \A x \in {old} : L.next[x] \in {old}
      BY <1>3
    <3>2. h = old
      BY <1>1, <3>1 DEF RingConnected
    <3>3. QED
      BY <1>3, <3>2, EmptyRing
  <2>2. h = old /\ g = new /\ Q = {new}
    BY <1>1, <2>1
  <2>3. /\ M.next[new] = new /\ M.prev[new] = new
        /\ \A x \in Nodes \ {new, old} : M.next[x] = L.next[x] /\ M.prev[x] = L.prev[x]
    BY <1>2, <1>3 DEF Heap
  <2>4. Heap(M, Nodes)
    BY <1>1, <1>2, <1>3 DEF Heap
  <2> HIDE DEF M
  <2>5. RingClosed(M, {new}) /\ RingConnected(M, {new}, new)
    BY <2>3 DEF RingClosed, RingConnected
  <2>6. QED
    BY <2>1, <2>2, <2>3, <2>4, <2>5 DEF RingOfHead, SameIn, M
<1>4. CASE after # old
  <2> DEFINE p == L.prev[old]
  <2>1. p \in R /\ p # old /\ L.next[p] = old /\ before = p
    BY <1>1, <1>2, <1>4
  <2>2. /\ M.next[new] = after /\ M.next[p] = new
        /\ \A x \in Nodes : x # new /\ x # p => M.next[x] = L.next[x]
        /\ M.prev[new] = p /\ M.prev[after] = new
        /\ \A x \in Nodes : x # new /\ x # after => M.prev[x] = L.prev[x]
    BY <1>1, <1>2, <2>1 DEF Heap
  <2>3. Heap(M, Nodes)
    BY <1>1, <1>2, <2>1 DEF Heap
  <2> HIDE DEF M, before
  <2>4. SameIn(L, M, Nodes \ (R \cup {new}))
    BY <1>1, <2>1, <2>2 DEF SameIn
  <2>5. \A x \in R : /\ x # p => L.next[x] # old
                     /\ x # after => L.prev[x] # old
                     /\ x # old => L.next[x] # after /\ L.prev[x] # p
    BY <1>1 DEF RingClosed
  <2> HIDE DEF p, after
  <2>6. RingClosed(M, Q)
    BY <1>1, <1>4, <2>1, <2>2, <2>5 DEF RingClosed
  <2>7. RingConnected(M, Q, g)
    <3>1. SUFFICES ASSUME NEW S \in SUBSET Q, S # {}, \A x \in S : M.next[x] \in S
                   PROVE  g \in S
      BY DEF RingConnected
    <3> DEFINE T == (S \ {new}) \cup (IF new \in S THEN {old} ELSE {})
    <3>2. T \in SUBSET R /\ T # {}
      BY <3>1
    <3>3. L.next[old] = after
      BY DEF after
    <3>4. \A x \in T : L.next[x] \in T
      <4> TAKE x \in T
      <4>1. CASE x = old
        BY <1>1, <1>4, <2>2, <3>1, <3>3, <4>1
      <4>2. CASE x = p
        BY <2>1, <2>2, <3>1, <4>2
      <4>3. CASE x # old /\ x # p
        <5>1. x \in S /\ x # new /\ x \in R
          BY <3>1, <4>3
        <5>2. M.next[x] = L.next[x] /\ L.next[x] \in R
          BY <1>1, <2>2, <4>3, <5>1 DEF RingClosed
        <5>3. QED
          BY <3>1, <5>1, <5>2
      <4>4. QED
        BY <4>1, <4>2, <4>3
    <3>5. h \in T
      BY <1>1, <3>2, <3>4 DEF RingConnected
    <3>6. QED
      BY <1>1, <3>1, <3>5
  <2>8. g \in Q
    BY <1>1
  <2>9. QED
    BY <2>3, <2>4, <2>6, <2>7, <2>8 DEF RingOfHead, M
<1>5. QED
  BY <1>3, <1>4

(* list_replace_init leaves old alone, pointing to itself.                 *)
LEMMA ReplacedInitRing ==
  ASSUME NEW Nodes, NEW L, Heap(L, Nodes), NEW R, R \subseteq Nodes,
         NEW h, RingOfHead(L, R, h), NEW old \in R, NEW new \in Nodes \ R
  PROVE  LET M == ListReplaceInit(L, old, new)
         IN /\ Heap(M, Nodes) /\ RingOfHead(M, {old}, old)
            /\ RingOfHead(M, (R \ {old}) \cup {new}, IF h = old THEN new ELSE h)
            /\ SameIn(L, M, Nodes \ (R \cup {new}))
<1> DEFINE P == ListReplace(L, old, new)
           M == ListReplaceInit(L, old, new)
           Q == (R \ {old}) \cup {new}
           g == IF h = old THEN new ELSE h
<1>1. Heap(P, Nodes) /\ RingOfHead(P, Q, g) /\ SameIn(L, P, Nodes \ (R \cup {new}))
  BY ReplacedRing
<1>2. M = InitListHead(P, old)
  BY DEF ListReplaceInit
<1> HIDE DEF P, M, g
<1>3. Heap(M, Nodes) /\ RingOfHead(M, {old}, old) /\ SameIn(P, M, Nodes \ {old})
  BY <1>1, <1>2, InitRing
<1>4. SameIn(P, M, Q)
  BY <1>3 DEF SameIn
<1>5. RingOfHead(M, Q, g)
  BY <1>1, <1>4, Untouched
<1>6. SameIn(L, M, Nodes \ (R \cup {new}))
  BY <1>1, <1>3 DEF SameIn
<1>7. QED
  BY <1>3, <1>5, <1>6 DEF M, g

(* __list_splice puts the entries of list behind a node of another ring.   *)
LEMMA SpliceRing ==
  ASSUME NEW Nodes, NEW L, Heap(L, Nodes),
         NEW R, R \subseteq Nodes, NEW list, RingOfHead(L, R, list), R # {list},
         NEW S, S \subseteq Nodes, NEW g, RingOfHead(L, S, g), R \cap S = {},
         NEW before \in S
  PROVE  LET M == SpliceBetween(L, list, before, L.next[before])
         IN /\ Heap(M, Nodes) /\ RingOfHead(M, S \cup (R \ {list}), g)
            /\ SameIn(L, M, Nodes \ (R \cup S))
<1> DEFINE after == L.next[before]
           first == L.next[list]
           last == L.prev[list]
           M == SpliceBetween(L, list, before, after)
           T == S \cup (R \ {list})
<1>1. /\ list \in R /\ RingClosed(L, R) /\ RingConnected(L, R, list)
      /\ g \in S /\ RingClosed(L, S) /\ RingConnected(L, S, g)
  BY DEF RingOfHead
<1>2. /\ first \in R /\ last \in R /\ after \in S
      /\ L.prev[first] = list /\ L.next[last] = list /\ L.prev[after] = before
  BY <1>1 DEF RingClosed
<1>3. first # list /\ last # list
  BY <1>1, <1>2, EmptyRing
<1>4. /\ M.next = [L.next EXCEPT ![before] = first, ![last] = after]
      /\ M.prev = [L.prev EXCEPT ![first] = before, ![after] = last]
      /\ M = [next |-> M.next, prev |-> M.prev]
  BY DEF SpliceBetween
<1>5. Heap(M, Nodes) /\ SameIn(L, M, Nodes \ (R \cup S))
  BY <1>2, <1>4 DEF Heap, SameIn
<1>6. /\ M.next[before] = first /\ M.next[last] = after
      /\ \A x \in R \cup S : x # before /\ x # last => M.next[x] = L.next[x]
      /\ M.prev[first] = before /\ M.prev[after] = last
      /\ \A x \in R \cup S : x # first /\ x # after => M.prev[x] = L.prev[x]
  BY <1>2, <1>4 DEF Heap
<1>7. /\ \A x \in R \ {list} : /\ x # last => L.next[x] \in R \ {list}
                               /\ x # first => L.prev[x] \in R \ {list}
                               /\ L.next[x] # first /\ L.prev[x] # last
      /\ \A x \in S : /\ x # before => L.next[x] # after
                      /\ x # after => L.prev[x] # before
  BY <1>1, <1>2 DEF RingClosed
<1> HIDE DEF M, first, last, after
<1>8. RingClosed(M, T)
  <2>1. ASSUME NEW x \in T
        PROVE  M.next[x] \in T /\ M.prev[M.next[x]] = x
    <3>1. CASE x = before
      BY <1>2, <1>3, <1>6, <3>1
    <3>2. CASE x = last
      BY <1>2, <1>3, <1>6, <3>2
    <3>3. CASE x \in R /\ x # last
      BY <1>1, <1>2, <1>6, <1>7, <3>3 DEF RingClosed
    <3>4. CASE x \in S /\ x # before
      BY <1>1, <1>2, <1>6, <1>7, <3>4 DEF RingClosed
    <3>5. QED
      BY <3>1, <3>2, <3>3, <3>4
  <2>2. ASSUME NEW x \in T
        PROVE  M.prev[x] \in T /\ M.next[M.prev[x]] = x
    <3>1. CASE x = first
      BY <1>2, <1>3, <1>6, <3>1
    <3>2. CASE x = after
      BY <1>2, <1>3, <1>6, <3>2
    <3>3. CASE x \in R /\ x # first
      BY <1>1, <1>2, <1>6, <1>7, <3>3 DEF RingClosed
    <3>4. CASE x \in S /\ x # after
      BY <1>1, <1>2, <1>6, <1>7, <3>4 DEF RingClosed
    <3>5. QED
      BY <3>1, <3>2, <3>3, <3>4
  <2>3. QED
    BY <2>1, <2>2 DEF RingClosed
<1>9. RingConnected(M, T, g)
  <2>1. SUFFICES ASSUME NEW U \in SUBSET T, U # {}, \A x \in U : M.next[x] \in U,
                        g \notin U
                 PROVE  FALSE
    BY DEF RingConnected
  <2>2. before \in U => first \in U
    BY <1>6, <2>1
  <2>3. last \in U => after \in U
    BY <1>6, <2>1
  (* Along the spliced entries one comes to the last of them. *)
  <2>4. U \cap R # {} => last \in U
    <3>1. SUFFICES ASSUME U \cap R # {}, last \notin U PROVE FALSE
      OBVIOUS
    <3> DEFINE V == U \cap R
    <3>2. V \in SUBSET R /\ V # {} /\ list \notin V
      BY <1>1, <2>1, <3>1
    <3>3. \A x \in V : L.next[x] \in V
      <4> TAKE x \in V
      <4>1. x \in R \ {list} /\ x # last /\ x # before /\ x \in U
        BY <2>1, <3>1, <3>2
      <4>2. M.next[x] = L.next[x] /\ L.next[x] \in R
        BY <1>6, <1>7, <4>1
      <4>3. QED
        BY <2>1, <4>1, <4>2
    <3>4. QED
      BY <1>1, <3>2, <3>3 DEF RingConnected
  <2> DEFINE W == U \cap S
  <2>5. W # {}
    <3>1. CASE U \cap R # {}
      BY <1>2, <2>3, <2>4, <3>1
    <3>2. CASE U \cap R = {}
      BY <2>1, <3>2
    <3>3. QED
      BY <3>1, <3>2
  <2>6. \A x \in W : L.next[x] \in W
    <3> TAKE x \in W
    <3>1. CASE x = before
      <4>1. last \in U
        BY <1>2, <2>2, <2>4, <3>1
      <4>2. QED
        BY <1>2, <2>3, <3>1, <4>1 DEF after
    <3>2. CASE x # before
      <4>1. M.next[x] = L.next[x] /\ L.next[x] \in S
        BY <1>1, <1>2, <1>6, <3>2 DEF RingClosed
      <4>2. QED
        BY <2>1, <4>1
    <3>3. QED
      BY <3>1, <3>2
  <2>7. QED
    BY <1>1, <2>1, <2>5, <2>6 DEF RingConnected
<1>10. QED
  BY <1>1, <1>5, <1>8, <1>9 DEF RingOfHead, M, after

(* list_splice, behind a node, and list_splice_tail, in front of it: the   *)
(* entries of list change rings; an empty list changes nothing.            *)
LEMMA SplicedRing ==
  ASSUME NEW Nodes, NEW L, Heap(L, Nodes),
         NEW R, R \subseteq Nodes, NEW list, RingOfHead(L, R, list),
         NEW S, S \subseteq Nodes, NEW g, RingOfHead(L, S, g), R \cap S = {},
         NEW x \in S,
         NEW M, M = ListSplice(L, list, x) \/ M = ListSpliceTail(L, list, x)
  PROVE  /\ Heap(M, Nodes) /\ RingOfHead(M, S \cup (R \ {list}), g)
         /\ SameIn(L, M, Nodes \ (R \cup S))
         /\ R = {list} => M = L
<1>1. CASE ListEmpty(L, list)
  <2>1. R = {list}
    BY <1>1, EmptyRing DEF ListEmpty
  <2>2. M = L
    BY <1>1 DEF ListSplice, ListSpliceTail
  <2>3. S \cup (R \ {list}) = S
    BY <2>1
  <2>4. QED
    BY <2>2, <2>3 DEF SameIn
<1>2. CASE ~ListEmpty(L, list)
  <2>1. R # {list}
    BY <1>2, EmptyRing DEF ListEmpty
  <2>2. L.prev[x] \in S /\ L.next[L.prev[x]] = x
    BY DEF RingOfHead, RingClosed
  <2>3. \/ M = SpliceBetween(L, list, x, L.next[x])
        \/ M = SpliceBetween(L, list, L.prev[x], L.next[L.prev[x]])
    BY <1>2, <2>2 DEF ListSplice, ListSpliceTail
  <2>4. CASE M = SpliceBetween(L, list, x, L.next[x])
    BY <2>1, <2>4, SpliceRing
  <2>5. CASE M = SpliceBetween(L, list, L.prev[x], L.next[L.prev[x]])
    BY <2>1, <2>2, <2>5, SpliceRing
  <2>6. QED
    BY <2>3, <2>4, <2>5
<1>3. QED
  BY <1>1, <1>2

(* list_splice_init and list_splice_tail_init leave list empty.            *)
THEOREM SplicedInitRing ==
  ASSUME NEW Nodes, NEW L, Heap(L, Nodes),
         NEW R, R \subseteq Nodes, NEW list, RingOfHead(L, R, list),
         NEW S, S \subseteq Nodes, NEW g, RingOfHead(L, S, g), R \cap S = {},
         NEW x \in S,
         NEW M, M = ListSpliceInit(L, list, x) \/ M = ListSpliceTailInit(L, list, x)
  PROVE  /\ Heap(M, Nodes) /\ RingOfHead(M, S \cup (R \ {list}), g)
         /\ RingOfHead(M, {list}, list)
         /\ SameIn(L, M, Nodes \ (R \cup S))
<1>1. list \in R /\ list \in Nodes /\ list \notin S
  BY DEF RingOfHead
<1>2. CASE ListEmpty(L, list)
  <2>1. R = {list}
    BY <1>2, EmptyRing DEF ListEmpty
  <2>2. M = L
    BY <1>2 DEF ListSpliceInit, ListSpliceTailInit
  <2>3. S \cup (R \ {list}) = S
    BY <2>1
  <2>4. QED
    BY <2>1, <2>2, <2>3 DEF SameIn
<1>3. CASE ~ListEmpty(L, list)
  <2>1. PICK P : /\ P = ListSplice(L, list, x) \/ P = ListSpliceTail(L, list, x)
                 /\ M = InitListHead(P, list)
    BY <1>3 DEF ListSpliceInit, ListSpliceTailInit, ListSplice, ListSpliceTail
  <2>2. /\ Heap(P, Nodes) /\ RingOfHead(P, S \cup (R \ {list}), g)
        /\ SameIn(L, P, Nodes \ (R \cup S))
    BY <2>1, SplicedRing
  <2>3. /\ Heap(M, Nodes) /\ RingOfHead(M, {list}, list)
        /\ SameIn(P, M, Nodes \ {list})
    BY <1>1, <2>1, <2>2, InitRing
  <2>4. SameIn(P, M, S \cup (R \ {list}))
    BY <1>1, <2>3 DEF SameIn
  <2>5. RingOfHead(M, S \cup (R \ {list}), g)
    BY <2>2, <2>4, Untouched
  <2>6. SameIn(L, M, Nodes \ (R \cup S))
    BY <1>1, <2>2, <2>3 DEF SameIn
  <2>7. QED
    BY <2>3, <2>5, <2>6
<1>4. QED
  BY <1>2, <1>3

(* A is what lies between head and the node behind entry.                  *)
UpTo(L, R, head, entry, A) ==
  /\ A \subseteq R \ {head} /\ L.next[head] \in A /\ entry \in A
  /\ \A x \in A \ {entry} : L.next[x] \in A
  /\ \A x \in A \ {L.next[head]} : L.prev[x] \in A
  /\ L.next[entry] \notin A

(* __list_cut_position gives list the entries up to and including entry;   *)
(* head keeps the others.  list is not on head's ring.                     *)
LEMMA CutRing ==
  ASSUME NEW Nodes, NEW L, Heap(L, Nodes),
         NEW R, R \subseteq Nodes, NEW head, RingOfHead(L, R, head),
         NEW list \in Nodes \ R, NEW entry, NEW A, UpTo(L, R, head, entry, A)
  PROVE  LET M == CutAfter(L, list, head, entry)
         IN /\ Heap(M, Nodes) /\ RingOfHead(M, A \cup {list}, list)
            /\ RingOfHead(M, R \ A, head)
            /\ SameIn(L, M, Nodes \ (R \cup {list}))
<1> DEFINE M == CutAfter(L, list, head, entry)
           first == L.next[head]
           rest == L.next[entry]
<1>1. /\ head \in R /\ RingClosed(L, R) /\ RingConnected(L, R, head)
      /\ A \subseteq R \ {head} /\ first \in A /\ entry \in A /\ rest \notin A
      /\ \A x \in A \ {entry} : L.next[x] \in A
      /\ \A x \in A \ {first} : L.prev[x] \in A
  BY DEF RingOfHead, UpTo
<1>2. rest \in R /\ L.prev[first] = head /\ L.prev[rest] = entry
  BY <1>1 DEF RingClosed
<1>3. /\ M.next = [L.next EXCEPT ![list] = first, ![entry] = list, ![head] = rest]
      /\ M.prev = [L.prev EXCEPT ![first] = list, ![list] = entry, ![rest] = head]
      /\ M = [next |-> M.next, prev |-> M.prev]
  BY DEF CutAfter
<1>4. Heap(M, Nodes) /\ SameIn(L, M, Nodes \ (R \cup {list}))
  BY <1>1, <1>2, <1>3 DEF Heap, SameIn
<1>5. /\ M.next[list] = first /\ M.next[entry] = list /\ M.next[head] = rest
      /\ \A x \in R : x # entry /\ x # head => M.next[x] = L.next[x]
      /\ M.prev[first] = list /\ M.prev[list] = entry /\ M.prev[rest] = head
      /\ \A x \in R : x # first /\ x # rest => M.prev[x] = L.prev[x]
  BY <1>1, <1>2, <1>3 DEF Heap
<1>6. \A x \in R : /\ x # head => L.next[x] # first
                   /\ x # entry => L.next[x] # rest
                   /\ x # first => L.prev[x] # head
                   /\ x # rest => L.prev[x] # entry
  BY <1>1, <1>2 DEF RingClosed
<1> HIDE DEF M, first, rest
<1>7. RingClosed(M, A \cup {list})
  <2>1. ASSUME NEW x \in A
        PROVE  /\ M.next[x] \in A \cup {list} /\ M.prev[M.next[x]] = x
               /\ M.prev[x] \in A \cup {list} /\ M.next[M.prev[x]] = x
    <3>1. M.next[x] \in A \cup {list} /\ M.prev[M.next[x]] = x
      <4>1. CASE x = entry
        BY <1>5, <4>1
      <4>2. CASE x # entry
        BY <1>1, <1>5, <1>6, <2>1, <4>2 DEF RingClosed
      <4>3. QED
        BY <4>1, <4>2
    <3>2. M.prev[x] \in A \cup {list} /\ M.next[M.prev[x]] = x
      <4>1. CASE x = first
        BY <1>5, <4>1
      <4>2. CASE x # first
        BY <1>1, <1>5, <1>6, <2>1, <4>2 DEF RingClosed
      <4>3. QED
        BY <4>1, <4>2
    <3>3. QED
      BY <3>1, <3>2
  <2>2. QED
    BY <1>1, <1>5, <2>1 DEF RingClosed
<1>8. RingClosed(M, R \ A)
  <2>1. ASSUME NEW x \in R \ A
        PROVE  M.next[x] \in R \ A /\ M.prev[M.next[x]] = x
    <3>1. CASE x = head
      BY <1>1, <1>2, <1>5, <3>1
    <3>2. CASE x # head
      <4>1. M.next[x] = L.next[x] /\ L.next[x] \in R /\ L.prev[L.next[x]] = x
        BY <1>1, <1>5, <2>1, <3>2 DEF RingClosed
      <4>2. L.next[x] \notin A
        BY <1>1, <1>6, <2>1, <3>2, <4>1
      <4>3. L.next[x] # first /\ L.next[x] # rest
        BY <1>1, <1>6, <2>1, <3>2, <4>2
      <4>4. QED
        BY <1>5, <4>1, <4>2, <4>3
    <3>3. QED
      BY <3>1, <3>2
  <2>2. ASSUME NEW x \in R \ A
        PROVE  M.prev[x] \in R \ A /\ M.next[M.prev[x]] = x
    <3>1. CASE x = rest
      BY <1>1, <1>2, <1>5, <3>1
    <3>2. CASE x # rest
      <4>1. M.prev[x] = L.prev[x] /\ L.prev[x] \in R /\ L.next[L.prev[x]] = x
        BY <1>1, <1>5, <2>2, <3>2 DEF RingClosed
      <4>2. L.prev[x] # entry /\ L.prev[x] # head
        BY <1>1, <1>6, <2>2, <3>2
      <4>3. L.prev[x] \notin A
        BY <1>1, <2>2, <4>1, <4>2
      <4>4. QED
        BY <1>5, <4>1, <4>2, <4>3
    <3>3. QED
      BY <3>1, <3>2
  <2>3. QED
    BY <2>1, <2>2 DEF RingClosed
<1>9. RingConnected(M, A \cup {list}, list)
  <2>1. SUFFICES ASSUME NEW U \in SUBSET (A \cup {list}), U # {},
                        \A x \in U : M.next[x] \in U, list \notin U
                 PROVE  FALSE
    BY DEF RingConnected
  <2>2. U \in SUBSET R /\ head \notin U /\ entry \notin U
    BY <1>1, <1>5, <2>1
  <2>3. \A x \in U : L.next[x] \in U
    BY <1>5, <2>1, <2>2
  <2>4. QED
    BY <1>1, <2>1, <2>2, <2>3 DEF RingConnected
<1>10. RingConnected(M, R \ A, head)
  <2>1. SUFFICES ASSUME NEW U \in SUBSET (R \ A), U # {},
                        \A x \in U : M.next[x] \in U, head \notin U
                 PROVE  FALSE
    BY DEF RingConnected
  <2>2. \A x \in U : L.next[x] \in U
    BY <1>1, <1>5, <2>1
  <2>3. QED
    BY <1>1, <2>1, <2>2 DEF RingConnected
<1>11. QED
  BY <1>1, <1>4, <1>7, <1>8, <1>9, <1>10 DEF RingOfHead, M

(* list_cut_position: its two tests for short lists never get in the way   *)
(* of an entry that is on the list, and cutting at the head takes nothing. *)
THEOREM CutPositionRing ==
  ASSUME NEW Nodes, NEW L, Heap(L, Nodes),
         NEW R, R \subseteq Nodes, NEW head, RingOfHead(L, R, head),
         NEW list \in Nodes \ R, NEW entry
  PROVE  LET M == ListCutPosition(L, list, head, entry)
         IN /\ R = {head} => M = L
            /\ R # {head} /\ entry = head =>
                 /\ Heap(M, Nodes) /\ RingOfHead(M, {list}, list)
                 /\ RingOfHead(M, R, head)
                 /\ SameIn(L, M, Nodes \ {list})
            /\ \A A : UpTo(L, R, head, entry, A) =>
                 /\ Heap(M, Nodes) /\ RingOfHead(M, A \cup {list}, list)
                 /\ RingOfHead(M, R \ A, head)
                 /\ SameIn(L, M, Nodes \ (R \cup {list}))
<1> DEFINE M == ListCutPosition(L, list, head, entry)
<1>1. R = {head} <=> ListEmpty(L, head)
  BY EmptyRing DEF ListEmpty
<1>2. R = {head} => M = L
  BY <1>1 DEF ListCutPosition
<1>3. ASSUME R # {head}, entry = head
      PROVE  /\ Heap(M, Nodes) /\ RingOfHead(M, {list}, list)
             /\ RingOfHead(M, R, head) /\ SameIn(L, M, Nodes \ {list})
  <2>1. M = InitListHead(L, list)
    BY <1>1, <1>3 DEF ListCutPosition
  <2> HIDE DEF M
  <2>2. /\ Heap(M, Nodes) /\ RingOfHead(M, {list}, list)
        /\ SameIn(L, M, Nodes \ {list})
    BY <2>1, InitRing
  <2>3. SameIn(L, M, R)
    BY <2>2 DEF SameIn
  <2>4. QED
    BY <2>2, <2>3, Untouched
<1>4. ASSUME NEW A, UpTo(L, R, head, entry, A)
      PROVE  /\ Heap(M, Nodes) /\ RingOfHead(M, A \cup {list}, list)
             /\ RingOfHead(M, R \ A, head)
             /\ SameIn(L, M, Nodes \ (R \cup {list}))
  <2> DEFINE f == L.next[head]
  <2>1. /\ entry \in R \ {head} /\ f \in R \ {head} /\ head \in R
        /\ RingClosed(L, R) /\ RingConnected(L, R, head) /\ L.prev[f] = head
    BY <1>4 DEF UpTo, RingOfHead, RingClosed
  <2>2. ~ListEmpty(L, head)
    BY <2>1 DEF ListEmpty
  <2>3. ListIsSingular(L, head) => entry = f
    <3>1. SUFFICES ASSUME L.prev[head] = f, entry # f PROVE FALSE
      BY DEF ListIsSingular
    <3> DEFINE U == R \ {head, f}
    <3>2. \A x \in U : L.next[x] \in U
      BY <2>1, <3>1 DEF RingClosed
    <3>3. U \in SUBSET R /\ U # {} /\ head \notin U
      BY <2>1, <3>1
    <3>4. QED
      BY <2>1, <3>2, <3>3 DEF RingConnected
  <2>4. M = CutAfter(L, list, head, entry)
    BY <2>1, <2>2, <2>3 DEF ListCutPosition
  <2> HIDE DEF M, f
  <2>5. QED
    BY <1>4, <2>4, CutRing
<1>5. QED
  BY <1>2, <1>3, <1>4
=============================================================================
