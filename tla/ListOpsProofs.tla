--------------------------- MODULE ListOpsProofs ---------------------------
(***************************************************************************)
(* Proofs about every program that calls the list_head operations of       *)
(* include/list.h, for any finite sets of heads and entries: its pointers  *)
(* form closed rings, and read as sequences they change as ListSeq, the    *)
(* header's comments, has it.                                              *)
(*                                                                         *)
(* First walks along a ring and the sequence they read off, then what      *)
(* linking and unlinking do to both, then Good, the inductive invariant:   *)
(* L's rings on the nodes A in use read S.  One lemma for each operation   *)
(* says that it leads from Good to Good with the sequences ListSeq gives.  *)
(***************************************************************************)
EXTENDS ListOps, ListHeadProofs, SequenceTheorems

(* The first m + 1 nodes met from h along f, NULL from the first NULL on.  *)
IsSteps(f, h, m, at) ==
  at = [i \in 0..m |-> IF i = 0 THEN h
                       ELSE IF at[i - 1] = NULL THEN NULL ELSE f[at[i - 1]]]

LEMMA StepsExist ==
  ASSUME NEW f, NEW h, NEW m \in Nat
  PROVE  \E at : IsSteps(f, h, m, at)
<1> DEFINE T == {k \in Nat : ~ \E at : IsSteps(f, h, k, at)}
<1>1. SUFFICES ASSUME T # {} PROVE FALSE
  OBVIOUS
<1>2. PICK k \in T : \A y \in T : k <= y
  BY <1>1, LeastNatural
<1>3. CASE k = 0
  <2> DEFINE g == [i \in 0..0 |-> h]
  <2>1. IsSteps(f, h, 0, g)
    BY DEF IsSteps
  <2>2. QED
    BY <1>2, <1>3, <2>1
<1>4. CASE k # 0
  <2>1. k - 1 \in Nat /\ k - 1 \notin T
    BY <1>2, <1>4
  <2>2. PICK at : IsSteps(f, h, k - 1, at)
    BY <2>1
  <2> DEFINE g == [i \in 0..k |->
                     IF i = k THEN IF at[k - 1] = NULL THEN NULL
                                                       ELSE f[at[k - 1]]
                     ELSE at[i]]
  <2>3. ASSUME NEW i \in 0..k
        PROVE  g[i] = IF i = 0 THEN h
                      ELSE IF g[i - 1] = NULL THEN NULL ELSE f[g[i - 1]]
    <3>1. \A j \in 0..(k - 1) : g[j] = at[j]
      BY <2>1
    <3>2. CASE i = 0
      <4>1. at[0] = h /\ 0 \in 0..(k - 1)
        BY <2>1, <2>2 DEF IsSteps
      <4> HIDE DEF g
      <4>2. QED
        BY <3>1, <3>2, <4>1
    <3>3. CASE i # 0 /\ i # k
      <4>1. i \in 0..(k - 1) /\ i - 1 \in 0..(k - 1)
        BY <2>1, <3>3
      <4>2. at[i] = IF at[i - 1] = NULL THEN NULL ELSE f[at[i - 1]]
        BY <2>2, <3>3, <4>1 DEF IsSteps
      <4> HIDE DEF g
      <4>3. QED
        BY <3>1, <3>3, <4>1, <4>2
    <3>4. CASE i = k
      <4>1. g[k] = IF at[k - 1] = NULL THEN NULL ELSE f[at[k - 1]]
        BY <2>1
      <4>2. k - 1 \in 0..(k - 1)
        BY <2>1
      <4> HIDE DEF g
      <4>3. QED
        BY <1>4, <3>1, <3>4, <4>1, <4>2
    <3>5. QED
      BY <3>2, <3>3, <3>4
  <2>4. IsSteps(f, h, k, g)
    <3>1. g = [i \in 0..k |-> g[i]]
      OBVIOUS
    <3> HIDE DEF g
    <3>2. QED
      BY <2>3, <3>1 DEF IsSteps
  <2>5. QED
    BY <1>2, <2>4
<1>5. QED
  BY <1>3, <1>4

LEMMA NodesCounted == Cardinality(Nodes) \in Nat
BY NodesAssumption, FS_CardinalityType

LEMMA StepsAre ==
  ASSUME NEW f, NEW h
  PROVE  /\ Steps(f, h)[0] = h
         /\ \A i \in 1..Cardinality(Nodes) :
              Steps(f, h)[i] = IF Steps(f, h)[i - 1] = NULL THEN NULL
                               ELSE f[Steps(f, h)[i - 1]]
<1> DEFINE at == Steps(f, h)
           m == Cardinality(Nodes)
<1>1. m \in Nat
  BY NodesCounted
<1>2. IsSteps(f, h, m, at)
  <2>1. at = CHOOSE a : IsSteps(f, h, m, a)
    BY DEF Steps, IsSteps
  <2>2. \E a : IsSteps(f, h, m, a)
    BY <1>1, StepsExist
  <2> HIDE DEF at
  <2>3. QED
    BY <2>1, <2>2
<1> HIDE DEF at, m
<1>3. \A i \in 0..m :
        at[i] = IF i = 0 THEN h
                ELSE IF at[i - 1] = NULL THEN NULL ELSE f[at[i - 1]]
  BY <1>2 DEF IsSteps
<1>4. QED
  BY <1>1, <1>3 DEF at, m

(* Along a path of nodes steps lead from one to the next.                  *)
LEMMA StepsFollow ==
  ASSUME NEW f, NEW h, NEW m \in 0..Cardinality(Nodes), NEW p,
         p[0] = h, \A i \in 0..(m - 1) : p[i] # NULL /\ f[p[i]] = p[i + 1]
  PROVE  \A i \in 0..m : Steps(f, h)[i] = p[i]
<1> DEFINE at == Steps(f, h)
           T == {i \in 0..m : at[i] # p[i]}
<1>1. SUFFICES ASSUME T # {} PROVE FALSE
  OBVIOUS
<1>2. Cardinality(Nodes) \in Nat
  BY NodesCounted
<1>3. PICK k \in T : \A y \in T : k <= y
  <2>1. T \subseteq Nat
    BY <1>2
  <2> HIDE DEF T
  <2>2. QED
    BY <1>1, <2>1, LeastNatural
<1>4. CASE k = 0
  BY <1>3, <1>4, StepsAre
<1>5. CASE k # 0
  <2>1. k - 1 \in 0..(m - 1) /\ k \in 1..Cardinality(Nodes) /\ k - 1 \in 0..m
    BY <1>2, <1>3, <1>5
  <2>2. k - 1 \notin T
    BY <1>2, <1>3, <2>1
  <2>3. at[k - 1] = p[k - 1] /\ (k - 1) + 1 = k
    BY <2>1, <2>2
  <2>4. at[k] = f[at[k - 1]]
    BY <2>1, <2>3, StepsAre
  <2>5. QED
    BY <1>3, <2>1, <2>3, <2>4
<1>6. QED
  BY <1>4, <1>5
-----------------------------------------------------------------------------
(* The list of head h is the sequence s of entries: no entry twice, and    *)
(* next and prev lead from h through s and back to h.                      *)
Injective(s, m) == \A j, k \in 1..m : s[j] = s[k] => j = k

Elements(s, m) == {s[k] : k \in 1..m}

Distinct(h, s) == h \in Heads /\ s \in Seq(Entries) /\ Injective(s, Len(s))

Linked(L, a, b) == L.next[a] = b /\ L.prev[b] = a

Links(L, p, I) == \A j \in I : Linked(L, p[j], p[j + 1])

Ring(h, s) == [k \in 0..(Len(s) + 1) |-> IF k \in 1..Len(s) THEN s[k] ELSE h]

Path(L, h, s) == Distinct(h, s) /\ Links(L, Ring(h, s), 0..Len(s))

(* p are m nodes between twice h. *)
IsRing(p, h, m) ==
  /\ m \in Nat /\ p[0] = h /\ p[m + 1] = h
  /\ \A i \in 0..(m + 1) : p[i] \in Nodes
  /\ \A i, j \in 0..m : p[i] = p[j] => i = j

LEMMA RingNodes ==
  ASSUME NEW h, NEW s, Distinct(h, s)
  PROVE  /\ IsRing(Ring(h, s), h, Len(s)) /\ h \in Nodes
         /\ \A i \in 1..Len(s) : Ring(h, s)[i] = s[i]
         /\ \A i \in 1..Len(s) : s[i] \in Entries /\ s[i] \notin Heads
         /\ ToSet(s) = Elements(s, Len(s))
         /\ {h} \cup ToSet(s) = {Ring(h, s)[i] : i \in 0..Len(s)}
<1> DEFINE p == Ring(h, s)
           m == Len(s)
<1>1. /\ m \in Nat /\ h \in Heads /\ h \in Nodes
      /\ \A i \in 1..m : s[i] \in Entries
  BY DEF Distinct, Nodes
<1>2. \A i \in 1..m : s[i] \notin Heads /\ s[i] \in Nodes /\ s[i] # h
  BY <1>1, NodesAssumption DEF Nodes
<1>3. DOMAIN s = 1..m
  BY DEF Distinct
<1>4. \A i, j \in 1..m : s[i] = s[j] => i = j
  BY DEF Distinct, Injective
<1>5. \A i \in 0..(m + 1) : p[i] = IF i \in 1..m THEN s[i] ELSE h
  BY DEF Ring
<1> HIDE DEF p, m
<1>6. p[0] = h /\ p[m + 1] = h /\ \A i \in 1..m : p[i] = s[i]
  BY <1>1, <1>5
<1>7. \A i \in 0..(m + 1) : p[i] \in Nodes
  BY <1>1, <1>2, <1>5
<1>8. ASSUME NEW i \in 0..m, NEW j \in 0..m, p[i] = p[j] PROVE i = j
  <2>1. (i = 0 \/ i \in 1..m) /\ (j = 0 \/ j \in 1..m)
    BY <1>1
  <2>2. QED
    BY <1>2, <1>4, <1>6, <1>8, <2>1
<1>9. IsRing(p, h, m)
  BY <1>1, <1>6, <1>7, <1>8 DEF IsRing
<1>10. ToSet(s) = Elements(s, m)
  BY <1>3 DEF ToSet, Elements
<1>11. {h} \cup ToSet(s) = {p[i] : i \in 0..m}
  <2>1. \A i \in 0..m : i = 0 \/ i \in 1..m
    BY <1>1
  <2>2. 0 \in 0..m /\ \A i \in 1..m : i \in 0..m
    BY <1>1
  <2>3. QED
    BY <1>6, <1>10, <2>1, <2>2 DEF Elements
<1>12. QED
  BY <1>1, <1>2, <1>6, <1>9, <1>10, <1>11 DEF p, m

(* A list and its head are no more nodes than there are. *)
LEMMA RingFits ==
  ASSUME NEW p, NEW h, NEW m, IsRing(p, h, m)
  PROVE  m + 1 <= Cardinality(Nodes)
<1> DEFINE at == [i \in 0..m |-> p[i]]
<1>0. /\ m \in Nat
      /\ \A i \in 0..m : p[i] \in Nodes
      /\ \A i, j \in 0..m : p[i] = p[j] => i = j
  BY DEF IsRing
<1>1. SUFFICES ASSUME Cardinality(Nodes) < m + 1 PROVE FALSE
  BY <1>0, NodesCounted
<1>2. at \in [0..m -> Nodes]
  BY <1>0
<1>3. IsFiniteSet(0..m) /\ Cardinality(0..m) = m + 1
  BY <1>0, FS_Interval
<1>4. \E i, j \in 0..m : i # j /\ at[i] = at[j]
  <2>1. Cardinality(Nodes) < Cardinality(0..m) /\ IsFiniteSet(Nodes)
    BY <1>1, <1>3, NodesAssumption
  <2> DEFINE I == 0..m
  <2>2. at \in [I -> Nodes] /\ IsFiniteSet(I) /\ Cardinality(Nodes) < Cardinality(I)
    BY <1>2, <1>3, <2>1
  <2> HIDE DEF at, I
  <2>3. \E x, y \in I : x # y /\ at[x] = at[y]
    BY <2>1, <2>2, FS_PigeonHole
  <2>4. QED
    BY <2>3 DEF I
<1>5. QED
  BY <1>0, <1>4

(* Walking a ring along f meets what is on it, in order. *)
LEMMA WalkOfRing ==
  ASSUME NEW h, NEW s, Distinct(h, s), NEW f,
         \A i \in 0..Len(s) : f[Ring(h, s)[i]] = Ring(h, s)[i + 1]
  PROVE  Walk(f, h) = s
<1> DEFINE back == {i \in 1..Cardinality(Nodes) : Steps(f, h)[i] = h}
           p == Ring(h, s)
           l == Len(s)
           m == l + 1
<1>1. /\ IsRing(p, h, l) /\ \A i \in 1..l : p[i] = s[i]
      /\ \A i \in 1..l : s[i] \notin Heads
  BY RingNodes
<1>2. h \in Heads /\ s = [i \in 1..l |-> s[i]]
  BY DEF Distinct
<1>3. \A i \in 0..l : f[p[i]] = p[i + 1]
  OBVIOUS
<1> HIDE DEF p, l
<1>4. l \in Nat /\ m \in 1..Cardinality(Nodes) /\ m \in 0..Cardinality(Nodes)
  <2>1. l \in Nat
    BY <1>1 DEF IsRing
  <2>2. l + 1 <= Cardinality(Nodes)
    BY <1>1, RingFits
  <2>3. QED
    BY <2>1, <2>2, NodesCounted
<1>5. \A i \in 0..m : Steps(f, h)[i] = p[i]
  <2>1. p[0] = h /\ \A i \in 0..(m - 1) : p[i] # NULL /\ f[p[i]] = p[i + 1]
    BY <1>1, <1>3, <1>4, NodesAssumption DEF IsRing
  <2> HIDE DEF m
  <2>2. QED
    BY <1>4, <2>1, StepsFollow
<1>6. \A i \in 1..l : Steps(f, h)[i] = s[i] /\ s[i] # h
  BY <1>1, <1>2, <1>4, <1>5
<1>7. m \in back /\ \A i \in back : m <= i
  BY <1>1, <1>4, <1>5, <1>6, NodesCounted DEF IsRing
<1>8. (CHOOSE i \in back : \A j \in back : i <= j) = m
  <2>1. back \subseteq Int /\ m \in Int
    BY <1>4
  <2> HIDE DEF back, m
  <2>2. \A i \in back : (\A j \in back : i <= j) => i = m
    BY <1>7, <2>1
  <2>3. QED
    BY <1>7, <2>2
<1>9. Walk(f, h) = [i \in 1..l |-> Steps(f, h)[i]]
  <2>1. back # {}
    BY <1>7
  <2>2. m - 1 = l
    BY <1>4
  <2>3. Walk(f, h) = [i \in 1..(m - 1) |-> Steps(f, h)[i]]
    BY <1>8, <2>1 DEF Walk
  <2>4. QED
    BY <2>2, <2>3
<1>10. QED
  BY <1>2, <1>6, <1>9

LEMMA WalkForwards ==
  ASSUME NEW L, NEW h, NEW s, Path(L, h, s)
  PROVE  Walk(L.next, h) = s
BY WalkOfRing DEF Path, Links, Linked

(* The nodes a walk along f from h meets are w.                            *)
IsWay(f, h, w) ==
  Distinct(h, w) /\ \A i \in 0..Len(w) : f[Ring(h, w)[i]] = Ring(h, w)[i + 1]

(* Backwards it meets the same, the other way round. *)
LEMMA BackwardsIsWay ==
  ASSUME NEW L, NEW h, NEW s, Path(L, h, s)
  PROVE  IsWay(L.prev, h, Reverse(s))
<1> DEFINE t == Reverse(s)
           p == Ring(h, s)
           u == Ring(h, t)
           m == Len(s)
<1>1. s \in Seq(Entries) /\ m \in Nat /\ Distinct(h, s)
  BY DEF Path, Distinct
<1>2. t \in Seq(Entries) /\ Len(t) = m
      /\ \A i \in 1..m : t[i] = s[(m - i) + 1]
  BY <1>1 DEF Reverse
<1>3. \A i \in 0..(m + 1) : p[i] = IF i \in 1..m THEN s[i] ELSE h
  BY DEF Ring
<1>4. \A i \in 0..(m + 1) : u[i] = IF i \in 1..m THEN t[i] ELSE h
  BY <1>2 DEF Ring
<1>5. Links(L, p, 0..m)
  BY DEF Path
<1>6. h \in Heads /\ Injective(s, m)
  BY <1>1 DEF Distinct
<1> HIDE DEF t, p, u, m
<1>7. Distinct(h, t)
  <2>1. ASSUME NEW i \in 1..m, NEW j \in 1..m, t[i] = t[j] PROVE i = j
    <3>1. (m - i) + 1 \in 1..m /\ (m - j) + 1 \in 1..m
      BY <1>1
    <3>2. PICK k, l : k = (m - i) + 1 /\ l = (m - j) + 1
      OBVIOUS
    <3>3. k \in 1..m /\ l \in 1..m /\ s[k] = s[l]
      BY <1>2, <2>1, <3>1, <3>2
    <3>4. k = l
      BY <1>6, <3>3 DEF Injective
    <3>5. QED
      BY <1>1, <3>2, <3>4
  <2>2. QED
    BY <1>2, <1>6, <2>1 DEF Distinct, Injective
<1>8. ASSUME NEW i \in 0..(m + 1) PROVE u[i] = p[(m - i) + 1]
  <2>1. (m - i) + 1 \in 0..(m + 1) /\ ((m - i) + 1 \in 1..m <=> i \in 1..m)
    BY <1>1
  <2>2. QED
    BY <1>2, <1>3, <1>4, <2>1
<1>9. ASSUME NEW i \in 0..m
      PROVE  L.prev[u[i]] = u[i + 1]
  <2>1. /\ m - i \in 0..m /\ i \in 0..(m + 1) /\ i + 1 \in 0..(m + 1)
        /\ (m - (i + 1)) + 1 = m - i
    BY <1>1
  <2>2. Linked(L, p[m - i], p[(m - i) + 1])
    BY <1>5, <2>1 DEF Links
  <2>3. u[i] = p[(m - i) + 1] /\ u[i + 1] = p[m - i]
    BY <1>8, <2>1
  <2>4. QED
    BY <2>2, <2>3 DEF Linked
<1>10. \A i \in 0..Len(t) : L.prev[u[i]] = u[i + 1]
  BY <1>2, <1>9
<1>11. QED
  BY <1>7, <1>10 DEF t, u, IsWay

LEMMA WalkBackwards ==
  ASSUME NEW L, NEW h, NEW s, Path(L, h, s)
  PROVE  Walk(L.prev, h) = Reverse(s)
BY BackwardsIsWay, WalkOfRing DEF IsWay

-----------------------------------------------------------------------------
(* What sequences come to when entries are put in or taken out.            *)
Insert(s, i, q) == SubSeq(s, 1, i) \o q \o SubSeq(s, i + 1, Len(s))

LEMMA InsertParts ==
  ASSUME NEW s \in Seq(Entries), NEW q \in Seq(Entries), NEW i \in 0..Len(s)
  PROVE  /\ Insert(s, i, q) \in Seq(Entries)
         /\ Len(Insert(s, i, q)) = Len(s) + Len(q)
         /\ \A k \in 1..(Len(s) + Len(q)) :
              Insert(s, i, q)[k] = IF k <= i THEN s[k]
                                   ELSE IF k <= i + Len(q) THEN q[k - i]
                                   ELSE s[k - Len(q)]
<1> DEFINE a == SubSeq(s, 1, i)
           c == SubSeq(s, i + 1, Len(s))
<1>1. Len(s) \in Nat /\ Len(q) \in Nat
  OBVIOUS
<1>2. a \in Seq(Entries) /\ Len(a) = i /\ \A k \in 1..i : a[k] = s[k]
  BY <1>1, SubSeqProperties
<1>3. c \in Seq(Entries) /\ Len(c) = Len(s) - i
      /\ \A k \in 1..(Len(s) - i) : c[k] = s[i + k]
  BY <1>1, SubSeqProperties
<1> DEFINE b == a \o q
           t == b \o c
<1> HIDE DEF a, c
<1>4. b \in Seq(Entries) /\ Len(b) = i + Len(q)
  <2>1. b \in Seq(Entries) /\ Len(b) = Len(a) + Len(q)
    BY <1>2, ConcatProperties
  <2>2. QED
    BY <1>2, <2>1
<1>5. ASSUME NEW k \in 1..(i + Len(q))
      PROVE  b[k] = IF k <= i THEN s[k] ELSE q[k - i]
  <2>1. b[k] = IF k <= i THEN a[k] ELSE q[k - i]
    BY <1>2
  <2>2. QED
    BY <1>2, <2>1
<1> HIDE DEF b
<1>6. t \in Seq(Entries) /\ Len(t) = Len(s) + Len(q)
  <2>1. t \in Seq(Entries) /\ Len(t) = Len(b) + Len(c)
    BY <1>3, <1>4, ConcatProperties
  <2>2. QED
    BY <1>1, <1>3, <1>4, <2>1
<1>7. ASSUME NEW k \in 1..(Len(s) + Len(q))
      PROVE  t[k] = IF k <= i + Len(q) THEN b[k] ELSE c[k - (i + Len(q))]
  BY <1>1, <1>3, <1>4
<1>8. Insert(s, i, q) = t
  BY DEF Insert, a, b, c
<1> HIDE DEF t
<1>9. ASSUME NEW k \in 1..(Len(s) + Len(q))
      PROVE  t[k] = IF k <= i THEN s[k]
                    ELSE IF k <= i + Len(q) THEN q[k - i] ELSE s[k - Len(q)]
  <2>1. CASE k <= i + Len(q)
    BY <1>1, <1>5, <1>7, <2>1
  <2>2. CASE ~(k <= i + Len(q))
    <3>1. /\ k - (i + Len(q)) \in 1..(Len(s) - i)
          /\ i + (k - (i + Len(q))) = k - Len(q) /\ ~(k <= i)
      BY <1>1, <2>2
    <3>2. t[k] = c[k - (i + Len(q))]
      BY <1>7, <2>2
    <3>3. QED
      BY <1>3, <2>2, <3>1, <3>2
  <2>3. QED
    BY <2>1, <2>2
<1>10. QED
  BY <1>6, <1>8, <1>9

LEMMA RemoveParts ==
  ASSUME NEW s \in Seq(Entries), NEW i \in 1..Len(s)
  PROVE  /\ RemoveAt(s, i) \in Seq(Entries)
         /\ Len(RemoveAt(s, i)) = Len(s) - 1
         /\ \A k \in 1..(Len(s) - 1) :
              RemoveAt(s, i)[k] = IF k < i THEN s[k] ELSE s[k + 1]
<1> DEFINE a == SubSeq(s, 1, i - 1)
           c == SubSeq(s, i + 1, Len(s))
<1>1. Len(s) \in Nat
  OBVIOUS
<1>2. a \in Seq(Entries) /\ Len(a) = i - 1 /\ \A k \in 1..(i - 1) : a[k] = s[k]
  BY <1>1, SubSeqProperties
<1>3. c \in Seq(Entries) /\ Len(c) = Len(s) - i
      /\ \A k \in 1..(Len(s) - i) : c[k] = s[i + k]
  BY <1>1, SubSeqProperties
<1> DEFINE t == a \o c
<1> HIDE DEF a, c
<1>4. t \in Seq(Entries) /\ Len(t) = Len(s) - 1
  <2>1. t \in Seq(Entries) /\ Len(t) = Len(a) + Len(c)
    BY <1>2, <1>3, ConcatProperties
  <2> HIDE DEF t
  <2>2. QED
    BY <1>1, <1>2, <1>3, <2>1
<1>5. ASSUME NEW k \in 1..(Len(s) - 1)
      PROVE  t[k] = IF k <= i - 1 THEN a[k] ELSE c[k - (i - 1)]
  BY <1>1, <1>2, <1>3
<1>6. RemoveAt(s, i) = t
  BY DEF RemoveAt, a, c
<1> HIDE DEF t
<1>7. ASSUME NEW k \in 1..(Len(s) - 1)
      PROVE  t[k] = IF k < i THEN s[k] ELSE s[k + 1]
  <2>1. CASE k < i
    BY <1>1, <1>2, <1>5, <2>1
  <2>2. CASE ~(k < i)
    <3>1. /\ k - (i - 1) \in 1..(Len(s) - i) /\ i + (k - (i - 1)) = k + 1
          /\ ~(k <= i - 1)
      BY <1>1, <2>2
    <3>2. t[k] = c[k - (i - 1)]
      BY <1>5, <3>1
    <3>3. QED
      BY <1>3, <2>2, <3>1, <3>2
  <2>3. QED
    BY <2>1, <2>2
<1>8. QED
  BY <1>4, <1>6, <1>7

(* The same without the sequences: m and l are their lengths, t has q put  *)
(* in behind the first i elements of s.                                    *)
IsInsert(t, s, m, i, q, l) ==
  \A k \in 1..(m + l) : t[k] = IF k <= i THEN s[k]
                            ELSE IF k <= i + l THEN q[k - i] ELSE s[k - l]

LEMMA InsertInjective ==
  ASSUME NEW m \in Nat, NEW l \in Nat, NEW i \in 0..m, NEW s, NEW q, NEW t,
         IsInsert(t, s, m, i, q, l), Injective(s, m), Injective(q, l),
         Elements(s, m) \cap Elements(q, l) = {}
  PROVE  Injective(t, m + l)
<1>0. /\ \A j, k \in 1..m : s[j] = s[k] => j = k
      /\ \A j, k \in 1..l : q[j] = q[k] => j = k
      /\ \A j \in 1..m, k \in 1..l : s[j] # q[k]
  BY DEF Injective, Elements
<1>1. ASSUME NEW k \in 1..(m + l)
      PROVE  \/ k <= i /\ k \in 1..m /\ t[k] = s[k]
             \/ ~(k <= i) /\ k <= i + l /\ k - i \in 1..l /\ t[k] = q[k - i]
             \/ ~(k <= i + l) /\ k - l \in 1..m /\ t[k] = s[k - l] /\ ~(k - l <= i)
  BY DEF IsInsert
<1>2. ASSUME NEW j \in 1..(m + l), NEW k \in 1..(m + l), t[j] = t[k], j < k
      PROVE  FALSE
  <2>1. CASE k <= i
    BY <1>0, <1>1, <1>2, <2>1
  <2>2. CASE ~(k <= i) /\ k <= i + l
    <3>1. k - i \in 1..l /\ t[k] = q[k - i]
      BY <1>1, <2>2
    <3>2. CASE j <= i
      BY <1>0, <1>1, <1>2, <3>1, <3>2
    <3>3. CASE ~(j <= i)
      <4>1. j - i \in 1..l /\ t[j] = q[j - i] /\ j - i # k - i
        BY <1>0, <1>1, <1>2, <2>2, <3>3
      <4>2. QED
        BY <1>0, <1>2, <3>1, <4>1
    <3>4. QED
      BY <3>2, <3>3
  <2>3. CASE ~(k <= i + l)
    <3>1. k - l \in 1..m /\ t[k] = s[k - l] /\ ~(k - l <= i)
      BY <1>1, <2>3
    <3>2. CASE j <= i
      <4>1. j \in 1..m /\ t[j] = s[j] /\ j # k - l
        BY <1>1, <3>1, <3>2
      <4>2. QED
        BY <1>0, <1>2, <3>1, <4>1
    <3>3. CASE ~(j <= i) /\ j <= i + l
      <4>1. j - i \in 1..l /\ t[j] = q[j - i]
        BY <1>1, <3>3
      <4>2. QED
        BY <1>0, <1>2, <3>1, <4>1
    <3>4. CASE ~(j <= i + l)
      <4>1. j - l \in 1..m /\ t[j] = s[j - l] /\ j - l # k - l
        BY <1>0, <1>1, <1>2, <3>4
      <4>2. QED
        BY <1>0, <1>2, <3>1, <4>1
    <3>5. QED
      BY <3>2, <3>3, <3>4
  <2>4. QED
    BY <2>1, <2>2, <2>3
<1>3. SUFFICES ASSUME NEW j \in 1..(m + l), NEW k \in 1..(m + l), t[j] = t[k]
               PROVE  j = k
  BY DEF Injective
<1>4. ~(j < k) /\ ~(k < j)
  BY <1>2, <1>3
<1>5. QED
  BY <1>4

LEMMA InsertRange ==
  ASSUME NEW m \in Nat, NEW l \in Nat, NEW i \in 0..m, NEW s, NEW q, NEW t,
         IsInsert(t, s, m, i, q, l)
  PROVE  Elements(t, m + l) = Elements(s, m) \cup Elements(q, l)
<1>1. ASSUME NEW k \in 1..(m + l)
      PROVE  \/ k <= i /\ k \in 1..m /\ t[k] = s[k]
             \/ ~(k <= i) /\ k <= i + l /\ k - i \in 1..l /\ t[k] = q[k - i]
             \/ ~(k <= i + l) /\ k - l \in 1..m /\ t[k] = s[k - l] /\ ~(k - l <= i)
  BY DEF IsInsert
<1>2. ASSUME NEW j \in 1..m PROVE \E k \in 1..(m + l) : t[k] = s[j]
  <2>1. CASE j <= i
    BY <2>1 DEF IsInsert
  <2>2. CASE ~(j <= i)
    <3>1. j + l \in 1..(m + l) /\ ~(j + l <= i + l) /\ ~(j + l <= i) /\ (j + l) - l = j
      BY <2>2
    <3>2. QED
      BY <3>1 DEF IsInsert
  <2>3. QED
    BY <2>1, <2>2
<1>3. ASSUME NEW j \in 1..l PROVE \E k \in 1..(m + l) : t[k] = q[j]
  <2>1. j + i \in 1..(m + l) /\ j + i <= i + l /\ ~(j + i <= i) /\ (j + i) - i = j
    OBVIOUS
  <2>2. QED
    BY <2>1 DEF IsInsert
<1>4. QED
  BY <1>1, <1>2, <1>3 DEF Elements

(* Seen as rings around h, p and u, the same holds.                        *)
IsRound(p, s, m, h) ==
  \A k \in 0..(m + 1) : p[k] = IF k \in 1..m THEN s[k] ELSE h

IsRingInsert(u, p, m, i, q, l) ==
  \A k \in 0..(m + l + 1) : u[k] = IF k <= i THEN p[k]
                                 ELSE IF k <= i + l THEN q[k - i] ELSE p[k - l]

LEMMA InsertRing ==
  ASSUME NEW m \in Nat, NEW l \in Nat, NEW i \in 0..m, NEW s, NEW q, NEW t,
         IsInsert(t, s, m, i, q, l), NEW h, NEW p, NEW u,
         IsRound(p, s, m, h), IsRound(u, t, m + l, h)
  PROVE  IsRingInsert(u, p, m, i, q, l)
<1>a. /\ \A k \in 0..(m + 1) : p[k] = IF k \in 1..m THEN s[k] ELSE h
      /\ \A k \in 0..(m + l + 1) : u[k] = IF k \in 1..(m + l) THEN t[k] ELSE h
  BY DEF IsRound
<1> SUFFICES ASSUME NEW k \in 0..(m + l + 1)
             PROVE  u[k] = IF k <= i THEN p[k]
                           ELSE IF k <= i + l THEN q[k - i] ELSE p[k - l]
  BY DEF IsRingInsert
<1>1. CASE k <= i
  <2>1. k \in 0..(m + 1) /\ (k = 0 \/ (k \in 1..(m + l) /\ k \in 1..m))
    BY <1>1
  <2>2. QED
    BY <1>1, <2>1, <1>a DEF IsInsert
<1>2. CASE ~(k <= i) /\ k <= i + l
  <2>1. k \in 1..(m + l)
    BY <1>2
  <2>2. QED
    BY <1>2, <2>1, <1>a DEF IsInsert
<1>3. CASE ~(k <= i) /\ ~(k <= i + l)
  <2>1. k - l \in 0..(m + 1) /\ (k \in 1..(m + l) <=> k - l \in 1..m)
    BY <1>3
  <2>2. p[k - l] = IF k - l \in 1..m THEN s[k - l] ELSE h
    BY <2>1, <1>a
  <2>3. k \in 1..(m + l) => t[k] = s[k - l]
    BY <1>3 DEF IsInsert
  <2>4. QED
    BY <1>3, <2>1, <2>2, <2>3, <1>a
<1>4. QED
  BY <1>1, <1>2, <1>3

(* The links, likewise; p are the nodes of the one list, u of the other.   *)
LEMMA InsertLinks ==
  ASSUME NEW m \in Nat, NEW l \in Nat, l # 0, NEW i \in 0..m, NEW M,
         NEW p, NEW q, NEW u,
         IsRingInsert(u, p, m, i, q, l),
         Links(M, p, (0..m) \ {i}), Links(M, q, 1..(l - 1)),
         Linked(M, p[i], q[1]), Linked(M, q[l], p[i + 1])
  PROVE  Links(M, u, 0..(m + l))
<1>c. \A k \in 0..(m + l + 1) : u[k] = IF k <= i THEN p[k]
                                    ELSE IF k <= i + l THEN q[k - i] ELSE p[k - l]
  BY DEF IsRingInsert
<1>a. /\ \A j \in 0..m : j # i => Linked(M, p[j], p[j + 1])
      /\ \A j \in 1..(l - 1) : Linked(M, q[j], q[j + 1])
  BY DEF Links
<1>b. SUFFICES ASSUME NEW k \in 0..(m + l) PROVE Linked(M, u[k], u[k + 1])
  BY DEF Links
<1>0. k \in 0..(m + l + 1) /\ k + 1 \in 0..(m + l + 1)
  OBVIOUS
<1>1. CASE k < i
  BY <1>c, <1>0, <1>1, <1>a
<1>2. CASE k = i
  <2>1. ~(k + 1 <= i) /\ k + 1 <= i + l /\ (k + 1) - i = 1
    BY <1>2
  <2>2. QED
    BY <1>c, <1>0, <1>2, <2>1
<1>3. CASE i < k /\ k < i + l
  <2>1. /\ ~(k <= i) /\ k <= i + l /\ ~(k + 1 <= i) /\ k + 1 <= i + l
        /\ k - i \in 1..(l - 1) /\ (k + 1) - i = (k - i) + 1
    BY <1>3
  <2>2. u[k] = q[k - i] /\ u[k + 1] = q[(k - i) + 1]
    BY <1>c, <1>0, <2>1
  <2>3. QED
    BY <2>1, <2>2, <1>a
<1>4. CASE k = i + l
  <2>1. /\ ~(k <= i) /\ k <= i + l /\ k - i = l
        /\ ~(k + 1 <= i) /\ ~(k + 1 <= i + l) /\ (k + 1) - l = i + 1
    BY <1>4
  <2>2. u[k] = q[l] /\ u[k + 1] = p[i + 1]
    BY <1>c, <1>0, <2>1
  <2>3. QED
    BY <2>2
<1>5. CASE i + l < k
  <2>1. /\ ~(k <= i) /\ ~(k <= i + l) /\ k - l \in 0..m /\ k - l # i
        /\ ~(k + 1 <= i) /\ ~(k + 1 <= i + l) /\ (k + 1) - l = (k - l) + 1
    BY <1>5
  <2>2. u[k] = p[k - l] /\ u[k + 1] = p[(k - l) + 1]
    BY <1>c, <1>0, <2>1
  <2>3. QED
    BY <2>1, <2>2, <1>a
<1>6. QED
  BY <1>1, <1>2, <1>3, <1>4, <1>5

-----------------------------------------------------------------------------
(* A list stays what it is while its own links do. *)
LEMMA PathKept ==
  ASSUME NEW L, NEW M, NEW h, NEW s, Path(L, h, s),
         SameIn(L, M, {h} \cup ToSet(s))
  PROVE  Path(M, h, s)
<1> DEFINE p == Ring(h, s)
           m == Len(s)
<1>1. Distinct(h, s) /\ Links(L, p, 0..m)
  BY DEF Path
<1>2. /\ m \in Nat /\ p[0] = h /\ p[m + 1] = h
      /\ {h} \cup ToSet(s) = {p[i] : i \in 0..m}
  BY <1>1, RingNodes DEF IsRing
<1> HIDE DEF p, m
<1>3. ASSUME NEW i \in 0..m PROVE Linked(M, p[i], p[i + 1])
  <2>1. i + 1 \in 0..m \/ (i = m /\ 0 \in 0..m)
    BY <1>2
  <2>2. p[i] \in {h} \cup ToSet(s) /\ p[i + 1] \in {h} \cup ToSet(s)
    BY <1>2, <2>1
  <2>3. QED
    BY <1>1, <2>2 DEF Links, Linked, SameIn
<1>4. QED
  BY <1>1, <1>3 DEF Path, Links, p, m

(* Closing the gap behind the i-th node with the sequence q: what adding   *)
(* a node and splicing a list come to.                                     *)
InsertFits(M, h, s, i, q) ==
  /\ Distinct(h, s) /\ i \in 0..Len(s)
  /\ Distinct(h, q) /\ q # <<>> /\ ToSet(s) \cap ToSet(q) = {}
  /\ Links(M, Ring(h, s), (0..Len(s)) \ {i}) /\ Links(M, q, 1..(Len(q) - 1))
  /\ Linked(M, Ring(h, s)[i], q[1]) /\ Linked(M, q[Len(q)], Ring(h, s)[i + 1])

LEMMA PathInsert ==
  ASSUME NEW M, NEW h, NEW s, NEW i, NEW q, InsertFits(M, h, s, i, q)
  PROVE  /\ Path(M, h, Insert(s, i, q))
         /\ ToSet(Insert(s, i, q)) = ToSet(s) \cup ToSet(q)
<1> DEFINE t == Insert(s, i, q)
           m == Len(s)
           l == Len(q)
           p == Ring(h, s)
           u == Ring(h, t)
<1>a. /\ Distinct(h, s) /\ Distinct(h, q) /\ q # <<>>
      /\ ToSet(s) \cap ToSet(q) = {} /\ i \in 0..Len(s)
  BY DEF InsertFits
<1>1. s \in Seq(Entries) /\ q \in Seq(Entries) /\ h \in Heads
  BY <1>a DEF Distinct
<1>2. m \in Nat /\ l \in Nat /\ i \in 0..m /\ l # 0
  BY <1>1, <1>a
<1>3. t \in Seq(Entries) /\ Len(t) = m + l /\ IsInsert(t, s, m, i, q, l)
  BY <1>1, <1>a, InsertParts DEF IsInsert
<1>4. /\ ToSet(s) = Elements(s, m) /\ ToSet(q) = Elements(q, l)
      /\ Injective(s, m) /\ Injective(q, l)
  BY <1>a, RingNodes DEF Distinct
<1>5. ToSet(t) = Elements(t, m + l)
  BY <1>3 DEF ToSet, Elements
<1>6. /\ Links(M, p, (0..m) \ {i}) /\ Links(M, q, 1..(l - 1))
      /\ Linked(M, p[i], q[1]) /\ Linked(M, q[l], p[i + 1])
  BY DEF InsertFits
<1>7. /\ \A k \in 0..(m + 1) : p[k] = IF k \in 1..m THEN s[k] ELSE h
      /\ \A k \in 0..(m + l + 1) : u[k] = IF k \in 1..(m + l) THEN t[k] ELSE h
  BY <1>3 DEF Ring
<1> HIDE DEF t, m, l, p, u
<1>8. Injective(t, m + l) /\ Elements(t, m + l) = Elements(s, m) \cup Elements(q, l)
  BY <1>2, <1>3, <1>4, <1>a, InsertInjective, InsertRange
<1>9. Distinct(h, t)
  BY <1>1, <1>3, <1>8 DEF Distinct
<1>10. IsRingInsert(u, p, m, i, q, l)
  <2>1. IsRound(p, s, m, h) /\ IsRound(u, t, m + l, h)
    BY <1>7 DEF IsRound
  <2>2. QED
    BY <1>2, <1>3, <2>1, InsertRing
<1>11. Links(M, u, 0..(m + l))
  BY <1>2, <1>6, <1>10, InsertLinks
<1>12. QED
  BY <1>3, <1>4, <1>5, <1>8, <1>9, <1>11 DEF Path, t, u

(* Two neighbours linked over the node between them: the list without it.  *)
LEMMA RemoveLinks ==
  ASSUME NEW m \in Nat, NEW i \in 1..m, NEW M, NEW p, NEW u,
         \A k \in 0..m : u[k] = IF k < i THEN p[k] ELSE p[k + 1],
         Links(M, p, (0..m) \ {i - 1, i}), Linked(M, p[i - 1], p[i + 1])
  PROVE  Links(M, u, 0..(m - 1))
<1>1. \A j \in 0..m : j # i - 1 /\ j # i => Linked(M, p[j], p[j + 1])
  BY DEF Links
<1>2. SUFFICES ASSUME NEW k \in 0..(m - 1) PROVE Linked(M, u[k], u[k + 1])
  BY DEF Links
<1>3. k \in 0..m /\ k + 1 \in 0..m
  OBVIOUS
<1>4. CASE k < i - 1
  <2>1. k < i /\ k + 1 < i /\ k # i - 1 /\ k # i
    BY <1>4
  <2>2. QED
    BY <1>1, <1>3, <2>1
<1>5. CASE k = i - 1
  <2>1. k < i /\ ~(k + 1 < i) /\ (k + 1) + 1 = i + 1
    BY <1>5
  <2>2. u[k] = p[i - 1] /\ u[k + 1] = p[i + 1]
    BY <1>3, <1>5, <2>1
  <2>3. QED
    BY <2>2
<1>6. CASE i - 1 < k
  <2>1. /\ ~(k < i) /\ ~(k + 1 < i) /\ k + 1 # i - 1 /\ k + 1 # i
        /\ k + 1 \in 0..m
    BY <1>6
  <2>2. u[k] = p[k + 1] /\ u[k + 1] = p[(k + 1) + 1]
    BY <1>3, <2>1
  <2>3. QED
    BY <1>1, <2>1, <2>2
<1>7. QED
  BY <1>4, <1>5, <1>6

LEMMA RemoveElements ==
  ASSUME NEW m \in Nat, NEW i \in 1..m, NEW s, NEW t, Injective(s, m),
         \A k \in 1..(m - 1) : t[k] = IF k < i THEN s[k] ELSE s[k + 1]
  PROVE  /\ Injective(t, m - 1)
         /\ Elements(t, m - 1) = Elements(s, m) \ {s[i]}
<1>1. \A j, k \in 1..m : s[j] = s[k] => j = k
  BY DEF Injective
<1>2. ASSUME NEW j \in 1..(m - 1)
      PROVE  \E a \in 1..m : a # i /\ t[j] = s[a] /\ a = IF j < i THEN j ELSE j + 1
  OBVIOUS
<1>3. ASSUME NEW j \in 1..(m - 1), NEW k \in 1..(m - 1), t[j] = t[k]
      PROVE  j = k
  <2>1. PICK a \in 1..m : t[j] = s[a] /\ a = IF j < i THEN j ELSE j + 1
    BY <1>2
  <2>2. PICK b \in 1..m : t[k] = s[b] /\ b = IF k < i THEN k ELSE k + 1
    BY <1>2
  <2>3. a = b
    BY <1>1, <1>3, <2>1, <2>2
  <2>4. QED
    BY <2>1, <2>2, <2>3
<1>4. ASSUME NEW a \in 1..m, a # i PROVE \E j \in 1..(m - 1) : t[j] = s[a]
  <2>1. CASE a < i
    BY <2>1
  <2>2. CASE ~(a < i)
    <3>1. a - 1 \in 1..(m - 1) /\ ~(a - 1 < i) /\ (a - 1) + 1 = a
      BY <1>4, <2>2
    <3>2. QED
      BY <3>1
  <2>3. QED
    BY <2>1, <2>2
<1>5. \A j \in 1..(m - 1) : t[j] \in Elements(s, m) \ {s[i]}
  BY <1>1, <1>2 DEF Elements
<1>6. QED
  BY <1>3, <1>4, <1>5 DEF Injective, Elements

LEMMA RemoveSet ==
  ASSUME NEW h, NEW s, Distinct(h, s), NEW i \in 1..Len(s)
  PROVE  ToSet(RemoveAt(s, i)) = ToSet(s) \ {s[i]}
<1> DEFINE t == RemoveAt(s, i)
           m == Len(s)
<1>1. s \in Seq(Entries) /\ Injective(s, m) /\ m \in Nat /\ i \in 1..m
  BY DEF Distinct
<1>2. t \in Seq(Entries) /\ Len(t) = m - 1
      /\ \A k \in 1..(m - 1) : t[k] = IF k < i THEN s[k] ELSE s[k + 1]
  BY <1>1, RemoveParts
<1>3. ToSet(s) = Elements(s, m)
  BY RingNodes
<1>4. ToSet(t) = Elements(t, m - 1)
  BY <1>2 DEF ToSet, Elements
<1>5. \A k \in 1..(m - 1) : t[k] = IF k < i THEN s[k] ELSE s[k + 1]
  BY <1>2
<1> HIDE DEF t, m
<1>6. Injective(t, m - 1) /\ Elements(t, m - 1) = Elements(s, m) \ {s[i]}
  BY <1>1, <1>5, RemoveElements
<1>7. QED
  BY <1>3, <1>4, <1>6 DEF t

RemoveFits(M, h, s, i) ==
  /\ Distinct(h, s) /\ i \in 1..Len(s)
  /\ Links(M, Ring(h, s), (0..Len(s)) \ {i - 1, i})
  /\ Linked(M, Ring(h, s)[i - 1], Ring(h, s)[i + 1])

LEMMA PathRemove ==
  ASSUME NEW M, NEW h, NEW s, NEW i, RemoveFits(M, h, s, i)
  PROVE  /\ Path(M, h, RemoveAt(s, i))
         /\ ToSet(RemoveAt(s, i)) = ToSet(s) \ {s[i]}
<1> DEFINE t == RemoveAt(s, i)
           m == Len(s)
           p == Ring(h, s)
           u == Ring(h, t)
<1>a. Distinct(h, s) /\ i \in 1..Len(s)
  BY DEF RemoveFits
<1>1. s \in Seq(Entries) /\ h \in Heads /\ Injective(s, m)
  BY <1>a DEF Distinct
<1>2. m \in Nat /\ i \in 1..m
  BY <1>1, <1>a
<1>3. t \in Seq(Entries) /\ Len(t) = m - 1
      /\ \A k \in 1..(m - 1) : t[k] = IF k < i THEN s[k] ELSE s[k + 1]
  BY <1>1, <1>a, RemoveParts
<1>4. ToSet(s) = Elements(s, m)
  BY <1>a, RingNodes
<1>5. ToSet(t) = Elements(t, m - 1)
  BY <1>3 DEF ToSet, Elements
<1>6. Links(M, p, (0..m) \ {i - 1, i}) /\ Linked(M, p[i - 1], p[i + 1])
  BY DEF RemoveFits
<1>7. /\ \A k \in 0..(m + 1) : p[k] = IF k \in 1..m THEN s[k] ELSE h
      /\ \A k \in 0..((m - 1) + 1) : u[k] = IF k \in 1..(m - 1) THEN t[k] ELSE h
  BY <1>3 DEF Ring
<1>8. \A k \in 1..(m - 1) : t[k] = IF k < i THEN s[k] ELSE s[k + 1]
  BY <1>3
<1> HIDE DEF t, m, p, u
<1>9. Injective(t, m - 1) /\ Elements(t, m - 1) = Elements(s, m) \ {s[i]}
  BY <1>1, <1>2, <1>8, RemoveElements
<1>10. ASSUME NEW k \in 0..m PROVE u[k] = IF k < i THEN p[k] ELSE p[k + 1]
  <2>1. k \in 0..((m - 1) + 1) /\ k \in 0..(m + 1) /\ k + 1 \in 0..(m + 1)
    BY <1>2
  <2>2. CASE k < i
    <3>1. k \in 1..(m - 1) \/ (k = 0 \/ k \notin 1..m)
      BY <1>2, <2>2
    <3>2. k \in 1..(m - 1) => k \in 1..m
      BY <1>2
    <3>3. QED
      BY <1>7, <1>8, <2>1, <2>2, <3>1, <3>2
  <2>3. CASE ~(k < i)
    <3>1. k \in 1..(m - 1) <=> k + 1 \in 1..m
      BY <1>2, <2>3
    <3>2. QED
      BY <1>7, <1>8, <2>1, <2>3, <3>1
  <2>4. QED
    BY <2>2, <2>3
<1>11. Links(M, u, 0..(m - 1))
  BY <1>2, <1>6, <1>10, RemoveLinks
<1>12. Distinct(h, t)
  BY <1>1, <1>3, <1>9 DEF Distinct
<1>13. QED
  BY <1>3, <1>4, <1>5, <1>9, <1>11, <1>12 DEF Path, t, u

LEMMA SubSeqParts ==
  ASSUME NEW s \in Seq(Entries), NEW i \in 0..Len(s)
  PROVE  /\ SubSeq(s, 1, i) \in Seq(Entries) /\ Len(SubSeq(s, 1, i)) = i
         /\ \A k \in 1..i : SubSeq(s, 1, i)[k] = s[k]
         /\ SubSeq(s, i + 1, Len(s)) \in Seq(Entries)
         /\ Len(SubSeq(s, i + 1, Len(s))) = Len(s) - i
         /\ \A k \in 1..(Len(s) - i) : SubSeq(s, i + 1, Len(s))[k] = s[i + k]
<1> DEFINE a == SubSeq(s, 1, i)
           c == SubSeq(s, i + 1, Len(s))
<1>1. Len(s) \in Nat
  OBVIOUS
<1>2. a \in Seq(Entries) /\ Len(a) = i /\ \A k \in 1..i : a[k] = s[k]
  BY <1>1, SubSeqProperties
<1>3. c \in Seq(Entries) /\ Len(c) = Len(s) - i
      /\ \A k \in 1..(Len(s) - i) : c[k] = s[i + k]
  BY <1>1, SubSeqProperties
<1> HIDE DEF a, c
<1>4. QED
  BY <1>2, <1>3 DEF a, c

LEMMA ElementsAre ==
  ASSUME NEW s \in Seq(Entries), NEW m, Len(s) = m
  PROVE  ToSet(s) = Elements(s, m)
<1>1. DOMAIN s = 1..m
  OBVIOUS
<1>2. QED
  BY <1>1 DEF ToSet, Elements

(* A head that points to itself. *)
LEMMA PathEmpty ==
  ASSUME NEW M, NEW h \in Heads, Linked(M, h, h)
  PROVE  Path(M, h, <<>>) /\ ToSet(<<>>) = {} /\ Distinct(h, <<>>)
<1> DEFINE p == Ring(h, <<>>)
<1>1. p[0] = h /\ p[0 + 1] = h
  BY DEF Ring
<1> HIDE DEF p
<1>2. Links(M, p, 0..0)
  BY <1>1 DEF Links
<1>3. Distinct(h, <<>>)
  BY DEF Distinct, Injective
<1>4. QED
  BY <1>2, <1>3 DEF Path, ToSet, p

(* The first i entries of a list, closed into a ring around g. *)
PrefixFits(M, h, s, i, g) ==
  /\ Distinct(h, s) /\ i \in 1..Len(s) /\ g \in Heads
  /\ Links(M, s, 1..(i - 1)) /\ Linked(M, g, s[1]) /\ Linked(M, s[i], g)

LEMMA PathPrefix ==
  ASSUME NEW M, NEW h, NEW s, NEW i, NEW g, PrefixFits(M, h, s, i, g)
  PROVE  /\ Path(M, g, SubSeq(s, 1, i))
         /\ ToSet(SubSeq(s, 1, i)) = Elements(s, i)
<1> DEFINE t == SubSeq(s, 1, i)
           u == Ring(g, t)
<1>a. Distinct(h, s) /\ i \in 1..Len(s) /\ g \in Heads
  BY DEF PrefixFits
<1>b. Links(M, s, 1..(i - 1)) /\ Linked(M, g, s[1]) /\ Linked(M, s[i], g)
  BY DEF PrefixFits
<1>1. s \in Seq(Entries) /\ Injective(s, Len(s)) /\ Len(s) \in Nat
  BY <1>a DEF Distinct
<1>2. i \in Nat /\ i # 0 /\ i \in 1..Len(s)
  BY <1>1, <1>a
<1>3. t \in Seq(Entries) /\ Len(t) = i /\ \A k \in 1..i : t[k] = s[k]
  <2>1. i \in 0..Len(s)
    BY <1>2
  <2>2. QED
    BY <1>1, <2>1, SubSeqParts
<1>4. ToSet(t) = Elements(s, i)
  <2>1. ToSet(t) = Elements(t, i)
    BY <1>3, ElementsAre
  <2>2. \A k \in 1..i : t[k] = s[k]
    BY <1>3
  <2> HIDE DEF t
  <2>3. QED
    BY <2>1, <2>2 DEF Elements
<1>5. \A k \in 1..i : k \in 1..Len(s)
  BY <1>1, <1>a
<1>6. Injective(t, i)
  BY <1>1, <1>3, <1>5 DEF Injective
<1>7. Distinct(g, t)
  BY <1>3, <1>6, <1>a DEF Distinct
<1>8. \A k \in 0..(i + 1) : u[k] = IF k \in 1..i THEN t[k] ELSE g
  BY <1>3 DEF Ring
<1>9. \A k \in 1..i : t[k] = s[k]
  BY <1>3
<1> HIDE DEF t, u
<1>10. ASSUME NEW k \in 0..i PROVE Linked(M, u[k], u[k + 1])
  <2>1. k \in 0..(i + 1) /\ k + 1 \in 0..(i + 1)
    BY <1>2
  <2>2. CASE k = 0
    <3>1. 1 \in 1..i /\ 0 \notin 1..i /\ 0 + 1 = 1
      BY <1>2
    <3>2. u[0] = g /\ u[0 + 1] = s[1]
      BY <1>8, <1>9, <2>1, <2>2, <3>1
    <3>3. QED
      BY <2>2, <3>2, <1>b
  <2>3. CASE k = i
    <3>1. i \in 1..i /\ i + 1 \notin 1..i
      BY <1>2
    <3>2. u[i] = s[i] /\ u[i + 1] = g
      BY <1>8, <1>9, <2>1, <2>3, <3>1
    <3>3. QED
      BY <2>3, <3>2, <1>b
  <2>4. CASE k \in 1..(i - 1)
    <3>1. k \in 1..i /\ k + 1 \in 1..i
      BY <1>2, <2>4
    <3>2. u[k] = s[k] /\ u[k + 1] = s[k + 1]
      BY <1>8, <1>9, <2>1, <3>1
    <3>3. QED
      BY <2>4, <3>2, <1>b DEF Links
  <2>5. QED
    BY <1>2, <2>2, <2>3, <2>4
<1>11. QED
  BY <1>3, <1>4, <1>7, <1>10 DEF Path, Links, t, u

(* The entries behind the i-th, for the head that gives the others away.   *)
SuffixFits(M, h, s, i) ==
  /\ Distinct(h, s) /\ i \in 0..Len(s)
  /\ Links(M, Ring(h, s), (i + 1)..Len(s)) /\ Linked(M, h, Ring(h, s)[i + 1])

LEMMA PathSuffix ==
  ASSUME NEW M, NEW h, NEW s, NEW i, SuffixFits(M, h, s, i)
  PROVE  /\ Path(M, h, SubSeq(s, i + 1, Len(s)))
         /\ ToSet(SubSeq(s, i + 1, Len(s))) = ToSet(s) \ Elements(s, i)
<1> DEFINE t == SubSeq(s, i + 1, Len(s))
           m == Len(s)
           l == m - i
           p == Ring(h, s)
           u == Ring(h, t)
<1>a. Distinct(h, s) /\ i \in 0..Len(s)
  BY DEF SuffixFits
<1>1. s \in Seq(Entries) /\ h \in Heads /\ Injective(s, m) /\ m \in Nat
  BY <1>a DEF Distinct
<1>2. l \in Nat /\ i \in 0..m /\ m = l + i
  BY <1>1, <1>a
<1>3. t \in Seq(Entries) /\ Len(t) = l /\ \A k \in 1..l : t[k] = s[i + k]
  BY <1>1, <1>a, SubSeqParts
<1>4. ToSet(t) = Elements(t, l) /\ ToSet(s) = Elements(s, m)
  BY <1>1, <1>3, ElementsAre
<1>5. /\ \A k \in 0..(m + 1) : p[k] = IF k \in 1..m THEN s[k] ELSE h
      /\ \A k \in 0..(l + 1) : u[k] = IF k \in 1..l THEN t[k] ELSE h
  BY <1>3 DEF Ring
<1>6. \A k \in 1..l : t[k] = s[i + k]
  BY <1>3
<1>7. Links(M, p, (i + 1)..m) /\ Linked(M, h, p[i + 1]) /\ m \in Nat
  BY <1>1 DEF SuffixFits
<1>8. \A j, k \in 1..m : s[j] = s[k] => j = k
  BY <1>1 DEF Injective
<1> HIDE DEF t, m, l, p, u
<1>9. Injective(t, l)
  <2>1. SUFFICES ASSUME NEW j \in 1..l, NEW k \in 1..l, t[j] = t[k] PROVE j = k
    BY DEF Injective
  <2>2. i + j \in 1..m /\ i + k \in 1..m
    BY <1>2
  <2>3. i + j = i + k
    BY <1>6, <1>8, <2>1, <2>2
  <2>4. QED
    BY <1>2, <2>3
<1>10. Elements(t, l) = Elements(s, m) \ Elements(s, i)
  <2>1. ASSUME NEW k \in 1..l PROVE t[k] \in Elements(s, m) \ Elements(s, i)
    <3>1. i + k \in 1..m /\ i + k \notin 1..i /\ \A j \in 1..i : j \in 1..m
      BY <1>2
    <3>2. QED
      BY <1>6, <1>8, <3>1 DEF Elements
  <2>2. ASSUME NEW j \in 1..m, s[j] \notin Elements(s, i)
        PROVE  \E k \in 1..l : t[k] = s[j]
    <3>1. j \notin 1..i
      BY <2>2 DEF Elements
    <3>2. j - i \in 1..l /\ i + (j - i) = j
      BY <1>2, <3>1
    <3>3. QED
      BY <1>6, <3>2
  <2>3. QED
    BY <2>1, <2>2 DEF Elements
<1>11. Distinct(h, t)
  BY <1>1, <1>3, <1>9 DEF Distinct
<1>12. ASSUME NEW k \in 1..(l + 1) PROVE u[k] = p[i + k]
  <2>1. k \in 0..(l + 1) /\ i + k \in 0..(m + 1) /\ (k \in 1..l <=> i + k \in 1..m)
    BY <1>2
  <2>2. QED
    BY <1>5, <1>6, <2>1
<1>13. ASSUME NEW k \in 0..l PROVE Linked(M, u[k], u[k + 1])
  <2>1. CASE k = 0
    <3>1. 0 \in 0..(l + 1) /\ 0 \notin 1..l /\ k + 1 \in 1..(l + 1) /\ i + (k + 1) = i + 1
      BY <1>2, <2>1
    <3>2. u[0] = h /\ u[k + 1] = p[i + 1]
      BY <1>5, <1>12, <3>1
    <3>3. QED
      BY <1>7, <2>1, <3>2
  <2>2. CASE k # 0
    <3>1. /\ k \in 1..(l + 1) /\ k + 1 \in 1..(l + 1)
          /\ i + k \in (i + 1)..m /\ i + (k + 1) = (i + k) + 1
      BY <1>2, <2>2
    <3>2. u[k] = p[i + k] /\ u[k + 1] = p[(i + k) + 1]
      BY <1>12, <3>1
    <3>3. QED
      BY <1>7, <3>1, <3>2 DEF Links
  <2>3. QED
    BY <2>1, <2>2
<1>14. QED
  BY <1>3, <1>4, <1>10, <1>11, <1>13 DEF Path, Links, t, u, m

(* A node in old's place.  p is the ring old is on, u the one after the    *)
(* call; old may be alone on its ring.                                     *)
ReplaceFits(L, p, g, m, i, old, new, u) ==
  /\ Heap(L, Nodes) /\ IsRing(p, g, m) /\ Links(L, p, 0..m) /\ i \in 0..m
  /\ old = p[i] /\ new \in Nodes /\ \A k \in 0..m : p[k] # new
  /\ \A k \in 0..(m + 1) : u[k] = IF p[k] = old THEN new ELSE p[k]

ReplacedIn(L, M, p, m, u, new) ==
  /\ Heap(M, Nodes) /\ Links(M, u, 0..m)
  /\ SameIn(L, M, Nodes \ ({p[k] : k \in 0..m} \cup {new}))

LEMMA ReplaceLinks ==
  ASSUME NEW L, NEW p, NEW g, NEW m, NEW i, NEW old, NEW new, NEW u,
         ReplaceFits(L, p, g, m, i, old, new, u)
  PROVE  ReplacedIn(L, ListReplace(L, old, new), p, m, u, new)
<1> DEFINE M == ListReplace(L, old, new)
           after == L.next[old]
           before == IF after = old THEN new ELSE L.prev[old]
           I == 0..m
<1>a. /\ Heap(L, Nodes) /\ IsRing(p, g, m) /\ Links(L, p, 0..m)
      /\ old = p[i] /\ new \in Nodes /\ (\A k \in 0..m : p[k] # new) /\ i \in 0..m
      /\ \A k \in 0..(m + 1) : u[k] = IF p[k] = old THEN new ELSE p[k]
  BY DEF ReplaceFits
<1>1. m \in Nat /\ p[0] = g /\ p[m + 1] = g /\ \A k \in 0..m : p[k] \in Nodes
  BY <1>a DEF IsRing
<1>2. \A k \in 0..m : \E j \in 0..m : p[k + 1] = p[j]
  <2>1. \A k \in 0..m : k + 1 \in 0..m \/ (k + 1 = m + 1 /\ 0 \in 0..m)
    BY <1>a, <1>1
  <2>2. QED
    BY <1>a, <1>1, <2>1
<1>3. ASSUME NEW k \in 0..m PROVE \E j \in 0..m : p[k] = p[j + 1]
  <2>1. (k = 0 /\ m \in 0..m) \/ (k - 1 \in 0..m /\ (k - 1) + 1 = k)
    BY <1>a, <1>1
  <2>2. QED
    BY <1>a, <1>1, <2>1
<1>4. \A k \in 0..m : L.next[p[k]] = p[k + 1] /\ L.prev[p[k + 1]] = p[k]
  BY <1>a DEF Links, Linked
<1>5. old \in Nodes /\ after \in {p[k] : k \in 0..m} /\ L.prev[old] \in {p[k] : k \in 0..m}
  <2>1. after = p[i + 1] /\ \E j \in 0..m : after = p[j]
    BY <1>a, <1>2, <1>4
  <2>2. PICK j \in 0..m : old = p[j + 1]
    BY <1>a, <1>3
  <2>3. L.prev[old] = p[j]
    BY <1>a, <1>4, <2>2
  <2>4. QED
    BY <1>a, <1>1, <2>1, <2>3
<1>6. /\ M.next = [L.next EXCEPT ![new] = after, ![before] = new]
      /\ M.prev = [L.prev EXCEPT ![after] = new, ![new] = before]
  BY <1>a, <1>1, <1>5 DEF ListReplace, Heap
<1> HIDE DEF M
<1>7. Heap(M, Nodes)
  <2>1. M = [next |-> M.next, prev |-> M.prev]
    BY <1>a DEF M, ListReplace
  <2>2. QED
    BY <1>a, <1>1, <1>5, <1>6, <2>1 DEF Heap
<1>8. SameIn(L, M, Nodes \ ({p[k] : k \in 0..m} \cup {new}))
  BY <1>a, <1>1, <1>5, <1>6 DEF SameIn, Heap
<1>9. ASSUME NEW k \in 0..m PROVE Linked(M, u[k], u[k + 1])
  <2>1. k \in 0..(m + 1) /\ k + 1 \in 0..(m + 1)
    BY <1>a, <1>1
  <2>2. /\ u[k] = IF p[k] = old THEN new ELSE p[k]
        /\ u[k + 1] = IF p[k + 1] = old THEN new ELSE p[k + 1]
    BY <1>a, <2>1
  <2> DEFINE a == p[k]
             b == p[k + 1]
  <2>3. /\ a \in Nodes /\ b \in Nodes /\ a # new /\ b # new /\ old # new
        /\ L.next[a] = b /\ L.prev[b] = a /\ L.next[L.prev[old]] = old
        /\ L.prev[after] = old
    <3>1. PICK j \in 0..m : old = p[j + 1]
      BY <1>a, <1>3
    <3>2. L.next[L.prev[old]] = old
      BY <1>a, <1>4, <3>1
    <3>3. L.prev[after] = old
      BY <1>a, <1>4
    <3>4. QED
      BY <1>a, <1>1, <1>2, <1>4, <3>2, <3>3
  <2>4. /\ u[k] = (IF a = old THEN new ELSE a)
        /\ u[k + 1] = (IF b = old THEN new ELSE b)
    BY <1>a, <2>2
  <2>5. after \in Nodes /\ before \in Nodes /\ new \in Nodes
    BY <1>a, <1>1, <1>5
  <2>6. /\ M.next = [L.next EXCEPT ![new] = after, ![before] = new]
        /\ M.prev = [L.prev EXCEPT ![after] = new, ![new] = before]
        /\ DOMAIN L.next = Nodes /\ DOMAIN L.prev = Nodes
    BY <1>a, <1>6 DEF Heap
  <2> HIDE DEF a, b
  <2>7. CASE a = old
    <3>1. b = after
      BY <1>a, <2>3, <2>7
    <3>2. CASE after = old
      BY <1>a, <2>3, <2>4, <2>5, <2>6, <2>7, <3>1, <3>2 DEF Linked
    <3>3. CASE after # old
      BY <1>a, <2>3, <2>4, <2>5, <2>6, <2>7, <3>1, <3>3 DEF Linked
    <3>4. QED
      BY <1>a, <3>2, <3>3
  <2>8. CASE a # old /\ b = old
    <3>1. a = L.prev[old] /\ after # old
      BY <1>a, <2>3, <2>8
    <3>2. QED
      BY <1>a, <2>3, <2>4, <2>5, <2>6, <2>8, <3>1 DEF Linked
  <2>9. CASE a # old /\ b # old
    <3>1. a # before /\ b # after
      BY <1>a, <2>3, <2>9
    <3>2. QED
      BY <1>a, <2>3, <2>4, <2>5, <2>6, <2>9, <3>1 DEF Linked
  <2>10. QED
    BY <1>a, <2>7, <2>8, <2>9
<1>10. QED
  BY <1>7, <1>8, <1>9 DEF Links, M, ReplacedIn

-----------------------------------------------------------------------------
(* The heap L with the nodes of A in use stands for the lists S: each head *)
(* in use for the sequence on its ring, no entry on two of them, and an    *)
(* entry in use that is on none points to itself.                          *)
Alone(L, e) == Linked(L, e, e)

RingNodesOf(S, h) == {h} \cup ToSet(S[h])

OnAList(S, e) == \E h \in DOMAIN S : e \in ToSet(S[h])

Good(L, A, S) ==
  /\ Heap(L, Nodes) /\ A \subseteq Nodes
  /\ S = [h \in A \cap Heads |-> S[h]]
  /\ \A h \in A \cap Heads : Path(L, h, S[h]) /\ ToSet(S[h]) \subseteq A
  /\ \A g, h \in A \cap Heads : g # h => ToSet(S[g]) \cap ToSet(S[h]) = {}
  /\ \A e \in A \cap Entries : OnAList(S, e) \/ Alone(L, e)

LEMMA GoodFacts ==
  ASSUME NEW L, NEW A, NEW S, Good(L, A, S)
  PROVE  /\ DOMAIN S = A \cap Heads
         /\ \A h \in DOMAIN S :
              /\ Path(L, h, S[h]) /\ Distinct(h, S[h])
              /\ RingNodesOf(S, h) \subseteq A /\ h \in Nodes
              /\ ToSet(S[h]) \subseteq A \cap Entries
              /\ ToSet(S[h]) \cap Heads = {}
         /\ \A g, h \in DOMAIN S :
              g # h => RingNodesOf(S, g) \cap RingNodesOf(S, h) = {}
<1>1. DOMAIN S = A \cap Heads
  BY DEF Good
<1>2. ASSUME NEW h \in DOMAIN S
      PROVE  /\ Path(L, h, S[h]) /\ Distinct(h, S[h])
             /\ RingNodesOf(S, h) \subseteq A /\ h \in Nodes
             /\ ToSet(S[h]) \subseteq A \cap Entries
             /\ ToSet(S[h]) \cap Heads = {}
  <2>1. Path(L, h, S[h]) /\ ToSet(S[h]) \subseteq A
    BY <1>1 DEF Good
  <2>2. Distinct(h, S[h])
    BY <2>1 DEF Path
  <2>3. ToSet(S[h]) \subseteq Entries
    BY <2>2, RingNodes DEF Elements
  <2>4. QED
    BY <1>1, <2>1, <2>2, <2>3, NodesAssumption DEF RingNodesOf, Nodes
<1>3. ASSUME NEW g \in DOMAIN S, NEW h \in DOMAIN S, g # h
      PROVE  RingNodesOf(S, g) \cap RingNodesOf(S, h) = {}
  <2>1. ToSet(S[g]) \cap ToSet(S[h]) = {} /\ g \in Heads /\ h \in Heads
    BY <1>1, <1>3 DEF Good
  <2>2. QED
    BY <1>2, <1>3, <2>1 DEF RingNodesOf
<1>4. QED
  BY <1>1, <1>2, <1>3

(* What the nodes not in use hold makes no difference. *)
LEMMA GoodKept ==
  ASSUME NEW L, NEW A, NEW S, Good(L, A, S),
         NEW M, Heap(M, Nodes), SameIn(L, M, A)
  PROVE  Good(M, A, S)
<1>1. ASSUME NEW h \in A \cap Heads PROVE Path(M, h, S[h])
  <2>1. Path(L, h, S[h]) /\ RingNodesOf(S, h) \subseteq A
    BY GoodFacts
  <2>2. SameIn(L, M, {h} \cup ToSet(S[h]))
    BY <2>1 DEF SameIn, RingNodesOf
  <2>3. QED
    BY <2>1, <2>2, PathKept
<1>2. \A e \in A \cap Entries : OnAList(S, e) \/ Alone(M, e)
  BY DEF Good, SameIn, Alone, Linked
<1>3. QED
  BY <1>1, <1>2 DEF Good

LEMMA GoodDrop ==
  ASSUME NEW L, NEW A, NEW S, Good(L, A, S), NEW h \in DOMAIN S
  PROVE  Good(L, A \ RingNodesOf(S, h), Promise!Drop(S, h))
<1> DEFINE B == A \ RingNodesOf(S, h)
           T == Promise!Drop(S, h)
<1>1. DOMAIN S = A \cap Heads /\ h \in A \cap Heads
  BY DEF Good
<1>2. B \cap Heads = (A \cap Heads) \ {h}
  BY GoodFacts, <1>1 DEF RingNodesOf
<1>3. T = [k \in B \cap Heads |-> S[k]]
  BY <1>1, <1>2 DEF Promise!Drop
<1>4. \A k \in B \cap Heads : T[k] = S[k] /\ k \in DOMAIN S /\ k # h
  BY <1>1, <1>2, <1>3
<1>5. DOMAIN T = B \cap Heads /\ T = [k \in B \cap Heads |-> T[k]]
  BY <1>3
<1> HIDE DEF T, B
<1>6. ASSUME NEW k \in B \cap Heads PROVE Path(L, k, T[k]) /\ ToSet(T[k]) \subseteq B
  <2>1. /\ Path(L, k, S[k]) /\ RingNodesOf(S, k) \subseteq A
        /\ RingNodesOf(S, k) \cap RingNodesOf(S, h) = {}
    BY <1>4, GoodFacts
  <2>2. QED
    BY <1>4, <2>1 DEF RingNodesOf, B
<1>7. \A g, k \in B \cap Heads : g # k => ToSet(T[g]) \cap ToSet(T[k]) = {}
  BY <1>1, <1>4 DEF Good
<1>8. ASSUME NEW e \in B \cap Entries PROVE OnAList(T, e) \/ Alone(L, e)
  <2>1. e \in A \cap Entries /\ e \notin ToSet(S[h])
    BY DEF B, RingNodesOf
  <2>2. CASE OnAList(S, e)
    <3>1. PICK k \in DOMAIN S : e \in ToSet(S[k])
      BY <2>2 DEF OnAList
    <3>2. k # h /\ k \in B \cap Heads
      BY <1>1, <1>2, <2>1, <3>1
    <3>3. QED
      BY <1>4, <1>5, <3>1, <3>2 DEF OnAList
  <2>3. QED
    BY <2>1, <2>2 DEF Good
<1>9. Heap(L, Nodes) /\ B \subseteq Nodes
  BY DEF Good, B
<1>10. Good(L, B, T)
  BY <1>5, <1>6, <1>7, <1>8, <1>9 DEF Good
<1>11. QED
  BY <1>10 DEF B, T

LEMMA GoodNew ==
  ASSUME NEW L, NEW A, NEW S, Good(L, A, S), NEW h \in Heads \ A,
         NEW t, Path(L, h, t), ToSet(t) \cap A = {}
  PROVE  Good(L, A \cup {h} \cup ToSet(t), Promise!With(S, h, t))
<1> DEFINE B == A \cup {h} \cup ToSet(t)
           T == Promise!With(S, h, t)
<1>1. DOMAIN S = A \cap Heads
  BY GoodFacts
<1>2. ToSet(t) \subseteq Entries
  BY RingNodes DEF Path, Elements
<1>3. B \cap Heads = (A \cap Heads) \cup {h} /\ B \subseteq Nodes
  BY <1>2, NodesAssumption DEF Nodes, Good
<1>4. T = [k \in B \cap Heads |-> IF k = h THEN t ELSE S[k]]
  BY <1>1, <1>3 DEF Promise!With
<1>5. T[h] = t /\ h \in B \cap Heads
      /\ \A k \in A \cap Heads : T[k] = S[k] /\ k # h /\ k \in B \cap Heads
  BY <1>3, <1>4
<1>6. DOMAIN T = B \cap Heads /\ T = [k \in B \cap Heads |-> T[k]]
  BY <1>4
<1> HIDE DEF T, B
<1>7. ASSUME NEW k \in A \cap Heads
      PROVE  /\ Path(L, k, T[k]) /\ ToSet(T[k]) \subseteq A
  BY <1>5 DEF Good
<1>8. ASSUME NEW k \in B \cap Heads PROVE Path(L, k, T[k]) /\ ToSet(T[k]) \subseteq B
  BY <1>3, <1>5, <1>7 DEF B
<1>9. ASSUME NEW g \in B \cap Heads, NEW k \in B \cap Heads, g # k
      PROVE  ToSet(T[g]) \cap ToSet(T[k]) = {}
  <2>1. CASE g \in A \cap Heads /\ k \in A \cap Heads
    BY <1>5, <1>9, <2>1 DEF Good
  <2>2. CASE g = h /\ k \in A \cap Heads
    BY <1>5, <1>7, <2>2
  <2>3. CASE k = h /\ g \in A \cap Heads
    BY <1>5, <1>7, <2>3
  <2>4. QED
    BY <1>3, <1>9, <2>1, <2>2, <2>3
<1>10. ASSUME NEW e \in B \cap Entries PROVE OnAList(T, e) \/ Alone(L, e)
  <2>1. e \in A \/ e \in ToSet(t)
    BY NodesAssumption DEF B
  <2>2. CASE e \in ToSet(t)
    BY <1>5, <1>6, <2>2 DEF OnAList
  <2>3. CASE e \in A /\ OnAList(S, e)
    BY <1>1, <1>5, <1>6, <2>3 DEF OnAList
  <2>4. QED
    BY <2>1, <2>2, <2>3 DEF Good
<1>11. Heap(L, Nodes)
  BY DEF Good
<1>12. Good(L, B, T)
  BY <1>3, <1>6, <1>8, <1>9, <1>10, <1>11 DEF Good
<1>13. QED
  BY <1>12 DEF B, T

(* An entry that points to itself comes into use or falls out of use.      *)
LEMMA GoodAlone ==
  ASSUME NEW L, NEW A, NEW S, Good(L, A, S), NEW e \in Entries, Alone(L, e)
  PROVE  Good(L, A \cup {e}, S)
<1>1. (A \cup {e}) \cap Heads = A \cap Heads /\ A \cup {e} \subseteq Nodes
  BY NodesAssumption DEF Good, Nodes
<1>2. QED
  BY <1>1 DEF Good

LEMMA GoodForget ==
  ASSUME NEW L, NEW A, NEW S, Good(L, A, S), NEW e \in Entries, ~OnAList(S, e)
  PROVE  Good(L, A \ {e}, S)
<1>1. (A \ {e}) \cap Heads = A \cap Heads /\ A \ {e} \subseteq Nodes
  BY NodesAssumption DEF Good
<1>2. DOMAIN S = A \cap Heads
  BY DEF Good
<1>3. \A h \in A \cap Heads : e \notin ToSet(S[h])
  BY <1>2 DEF OnAList
<1>4. QED
  BY <1>1, <1>3 DEF Good

LEMMA WithDrop ==
  ASSUME NEW S, NEW h, NEW t
  PROVE  Promise!With(Promise!Drop(S, h), h, t) = Promise!With(S, h, t)
<1>1. DOMAIN Promise!Drop(S, h) = DOMAIN S \ {h}
      /\ \A k \in DOMAIN S \ {h} : Promise!Drop(S, h)[k] = S[k]
  BY DEF Promise!Drop
<1>2. DOMAIN Promise!Drop(S, h) \cup {h} = DOMAIN S \cup {h}
  BY <1>1
<1>3. \A k \in DOMAIN S \cup {h} :
        (IF k = h THEN t ELSE Promise!Drop(S, h)[k]) = (IF k = h THEN t ELSE S[k])
  BY <1>1
<1>4. QED
  BY <1>2, <1>3 DEF Promise!With

(* The list of h becomes t and nothing else is touched. *)
LEMMA GoodTouch ==
  ASSUME NEW L, NEW A, NEW S, Good(L, A, S), NEW h \in DOMAIN S,
         NEW M, Heap(M, Nodes), SameIn(L, M, A \ RingNodesOf(S, h)),
         NEW t, Path(M, h, t), ToSet(t) \cap (A \ RingNodesOf(S, h)) = {}
  PROVE  Good(M, (A \ RingNodesOf(S, h)) \cup {h} \cup ToSet(t), Promise!With(S, h, t))
<1> DEFINE B == A \ RingNodesOf(S, h)
<1>1. Good(L, B, Promise!Drop(S, h))
  BY GoodDrop
<1>2. h \in Heads \ B
  <2>1. DOMAIN S = A \cap Heads
    BY DEF Good
  <2>2. QED
    BY <2>1 DEF RingNodesOf
<1> HIDE DEF B
<1>3. Good(M, B, Promise!Drop(S, h))
  BY <1>1, GoodKept DEF B
<1>4. Good(M, B \cup {h} \cup ToSet(t), Promise!With(Promise!Drop(S, h), h, t))
  BY <1>2, <1>3, GoodNew DEF B
<1>5. QED
  BY <1>4, WithDrop DEF B

-----------------------------------------------------------------------------
(* The places in the lists: a node's head, its index on the list, and the  *)
(* gap behind it or in front of it.                                        *)
LEMMA ContainsIs ==
  ASSUME NEW s \in Seq(Entries), NEW e
  PROVE  Promise!Contains(s, e) <=> e \in ToSet(s)
<1>1. ToSet(s) = Elements(s, Len(s))
  BY ElementsAre
<1>2. QED
  BY <1>1 DEF Promise!Contains, Elements

LEMMA HeadIs ==
  ASSUME NEW L, NEW A, NEW S, Good(L, A, S), NEW h \in DOMAIN S,
         NEW x \in RingNodesOf(S, h)
  PROVE  Promise!HeadOf(S, x) = h
<1>1. DOMAIN S = A \cap Heads
  BY DEF Good
<1>2. ASSUME x \in Heads PROVE x = h
  <2>1. ToSet(S[h]) \cap Heads = {}
    BY GoodFacts
  <2>2. QED
    BY <1>2, <2>1 DEF RingNodesOf
<1>3. CASE x \in Heads
  BY <1>2, <1>3 DEF Promise!HeadOf
<1>4. CASE x \notin Heads
  <2>1. x \in ToSet(S[h])
    BY <1>1, <1>4 DEF RingNodesOf
  <2>2. \A k \in DOMAIN S : Promise!Contains(S[k], x) <=> x \in ToSet(S[k])
    <3>1. SUFFICES ASSUME NEW k \in DOMAIN S
                   PROVE  Promise!Contains(S[k], x) <=> x \in ToSet(S[k])
      OBVIOUS
    <3>2. Distinct(k, S[k])
      BY GoodFacts
    <3>3. QED
      BY <3>2, ContainsIs DEF Distinct
  <2>3. \A k \in DOMAIN S : x \in ToSet(S[k]) => k = h
    BY <1>1, <2>1 DEF Good
  <2>4. Promise!HeadOf(S, x) = CHOOSE k \in DOMAIN S : Promise!Contains(S[k], x)
    BY <1>4 DEF Promise!HeadOf
  <2>5. QED
    BY <2>1, <2>2, <2>3, <2>4
<1>5. QED
  BY <1>3, <1>4

LEMMA IndexIs ==
  ASSUME NEW S, NEW h, Distinct(h, S[h]), NEW i \in 0..Len(S[h]),
         NEW x, x = Ring(h, S[h])[i]
  PROVE  Promise!IndexIn(S, h, x) = i /\ (x = h <=> i = 0)
<1> DEFINE s == S[h]
           m == Len(s)
<1>1. /\ IsRing(Ring(h, s), h, m) /\ \A k \in 1..m : Ring(h, s)[k] = s[k]
  BY RingNodes
<1>2. Injective(s, m)
  BY DEF Distinct
<1>3. Promise!IndexIn(S, h, x) = IF x = h THEN 0 ELSE CHOOSE k \in 1..m : s[k] = x
  BY DEF Promise!IndexIn
<1>4. x = Ring(h, s)[i] /\ i \in 0..m
  OBVIOUS
<1> HIDE DEF s, m
<1>5. m \in Nat /\ Ring(h, s)[0] = h
      /\ \A a, b \in 0..m : Ring(h, s)[a] = Ring(h, s)[b] => a = b
  BY <1>1 DEF IsRing
<1>6. x = h <=> i = 0
  BY <1>4, <1>5
<1>7. CASE i = 0
  BY <1>3, <1>6, <1>7
<1>8. CASE i # 0
  <2>1. i \in 1..m
    BY <1>4, <1>5, <1>8
  <2>2. s[i] = x
    BY <1>1, <1>4, <2>1
  <2>3. \A k \in 1..m : s[k] = x => k = i
    BY <1>2, <2>1, <2>2 DEF Injective
  <2>4. (CHOOSE k \in 1..m : s[k] = x) = i
    BY <2>1, <2>2, <2>3
  <2>5. QED
    BY <1>3, <1>6, <1>8, <2>4
<1>9. QED
  BY <1>7, <1>8

LEMMA PlaceIs ==
  ASSUME NEW L, NEW A, NEW S, Good(L, A, S), NEW h \in DOMAIN S,
         NEW x \in RingNodesOf(S, h)
  PROVE  /\ \E i \in 0..Len(S[h]) : x = Ring(h, S[h])[i]
         /\ \E i \in 0..Len(S[h]) : x = Ring(h, S[h])[i + 1]
<1> DEFINE s == S[h]
           m == Len(s)
           p == Ring(h, s)
<1>1. Distinct(h, s)
  BY GoodFacts
<1>2. IsRing(p, h, m) /\ {h} \cup ToSet(s) = {p[i] : i \in 0..m}
  BY <1>1, RingNodes
<1> HIDE DEF s, m, p
<1>3. PICK i \in 0..m : x = p[i]
  BY <1>2 DEF RingNodesOf, s
<1>4. m \in Nat /\ p[0] = p[m + 1]
  BY <1>2 DEF IsRing
<1>5. (i = 0 /\ m \in 0..m) \/ (i - 1 \in 0..m /\ (i - 1) + 1 = i)
  BY <1>4
<1>6. \E k \in 0..m : x = p[k + 1]
  BY <1>3, <1>4, <1>5
<1>7. QED
  BY <1>3, <1>6 DEF s, m, p

LEMMA RingNodeOf ==
  ASSUME NEW L, NEW A, NEW S, Good(L, A, S), NEW h \in DOMAIN S,
         NEW i \in 0..Len(S[h])
  PROVE  /\ Ring(h, S[h])[i] \in RingNodesOf(S, h)
         /\ Ring(h, S[h])[i + 1] \in RingNodesOf(S, h)
<1> DEFINE s == S[h]
           m == Len(s)
           p == Ring(h, s)
<1>1. Distinct(h, s)
  BY GoodFacts
<1>2. IsRing(p, h, m) /\ {h} \cup ToSet(s) = {p[k] : k \in 0..m}
  <2> HIDE DEF s
  <2>1. /\ IsRing(Ring(h, s), h, Len(s))
        /\ {h} \cup ToSet(s) = {Ring(h, s)[k] : k \in 0..Len(s)}
    BY <1>1, RingNodes
  <2>2. QED
    BY <2>1
<1>i. i \in 0..m
  OBVIOUS
<1> HIDE DEF s, m, p
<1>3. m \in Nat /\ p[0] = p[m + 1] /\ (i + 1 \in 0..m \/ (i = m /\ 0 \in 0..m))
  BY <1>2, <1>i DEF IsRing
<1>4. QED
  BY <1>2, <1>3, <1>i DEF RingNodesOf, s, m, p

LEMMA PutBehindIs ==
  ASSUME NEW L, NEW A, NEW S, Good(L, A, S), NEW h \in DOMAIN S,
         NEW i \in 0..Len(S[h]), NEW x, x = Ring(h, S[h])[i], NEW w
  PROVE  Promise!PutBehind(S, x, w) = Promise!PutAt(S, h, i, w)
<1>1. Distinct(h, S[h])
  BY GoodFacts
<1>2. Promise!IndexIn(S, h, x) = i
  BY <1>1, IndexIs
<1>3. Promise!HeadOf(S, x) = h
  BY HeadIs, RingNodeOf
<1>4. QED
  BY <1>2, <1>3 DEF Promise!PutBehind

LEMMA PutBeforeIs ==
  ASSUME NEW L, NEW A, NEW S, Good(L, A, S), NEW h \in DOMAIN S,
         NEW i \in 0..Len(S[h]), NEW x, x = Ring(h, S[h])[i + 1], NEW w
  PROVE  Promise!PutBefore(S, x, w) = Promise!PutAt(S, h, i, w)
<1> DEFINE m == Len(S[h])
<1>1. Distinct(h, S[h])
  BY GoodFacts
<1>2. Promise!HeadOf(S, x) = h
  BY HeadIs, RingNodeOf
<1>3. m \in Nat /\ Ring(h, S[h])[m + 1] = h /\ i \in 0..m
  BY <1>1, RingNodes DEF IsRing
<1>4. Promise!PutBefore(S, x, w)
      = Promise!PutAt(S, h, IF x = h THEN m ELSE Promise!IndexIn(S, h, x) - 1, w)
  BY <1>2 DEF Promise!PutBefore
<1>5. ASSUME i + 1 \in 0..m PROVE Promise!IndexIn(S, h, x) = i + 1 /\ (x = h <=> i + 1 = 0)
  BY <1>1, <1>5, IndexIs
<1> HIDE DEF m
<1>6. (IF x = h THEN m ELSE Promise!IndexIn(S, h, x) - 1) = i
  <2>1. CASE i = m
    BY <1>3, <2>1
  <2>2. CASE i # m
    <3>1. i + 1 \in 0..m /\ (i + 1) - 1 = i /\ i + 1 # 0
      BY <1>3, <2>2
    <3>2. QED
      BY <1>5, <3>1
  <2>3. QED
    BY <2>1, <2>2
<1>7. QED
  BY <1>4, <1>6

-----------------------------------------------------------------------------
(* What the calls do to the lists.  First, w goes into the gap behind the  *)
(* i-th node of h: list_add, list_add_tail and both splices.               *)
OthersKept(L, M, A, a, b) ==
  \A x \in A : /\ x # a => M.next[x] = L.next[x]
               /\ x # b => M.prev[x] = L.prev[x]

LEMMA LinksKept ==
  ASSUME NEW L, NEW M, NEW p, NEW h, NEW m, IsRing(p, h, m), Links(L, p, 0..m),
         NEW i \in 0..m, NEW A, \A k \in 0..m : p[k] \in A,
         OthersKept(L, M, A, p[i], p[i + 1])
  PROVE  Links(M, p, (0..m) \ {i})
<1>1. SUFFICES ASSUME NEW k \in (0..m) \ {i} PROVE Linked(M, p[k], p[k + 1])
  BY DEF Links
<1>2. m \in Nat /\ p[0] = p[m + 1] /\ \A a, b \in 0..m : p[a] = p[b] => a = b
  BY DEF IsRing
<1>3. Linked(L, p[k], p[k + 1]) /\ Linked(L, p[i], p[i + 1])
  BY DEF Links
<1>4. p[k] # p[i] /\ p[k] \in A
  BY <1>2
<1>5. p[k + 1] # p[i + 1]
  BY <1>3, <1>4 DEF Linked
<1>6. p[k + 1] \in A
  <2>1. k + 1 \in 0..m \/ (k = m /\ 0 \in 0..m)
    BY <1>2
  <2>2. QED
    BY <1>2, <2>1
<1>7. QED
  BY <1>3, <1>4, <1>5, <1>6 DEF Linked, OthersKept

LEMMA GoodPut ==
  ASSUME NEW L, NEW A, NEW S, Good(L, A, S), NEW h \in DOMAIN S,
         NEW i \in 0..Len(S[h]), NEW w, Distinct(h, w), w # <<>>,
         ToSet(w) \cap A = {}, NEW M, Heap(M, Nodes),
         Links(M, w, 1..(Len(w) - 1)), Linked(M, Ring(h, S[h])[i], w[1]),
         Linked(M, w[Len(w)], Ring(h, S[h])[i + 1]),
         OthersKept(L, M, A, Ring(h, S[h])[i], Ring(h, S[h])[i + 1])
  PROVE  Good(M, A \cup ToSet(w), Promise!PutAt(S, h, i, w))
<1> DEFINE s == S[h]
           m == Len(s)
           p == Ring(h, s)
           N == RingNodesOf(S, h)
           t == Insert(s, i, w)
<1>1. Distinct(h, s) /\ Path(L, h, s) /\ N \subseteq A
  BY GoodFacts
<1>2. IsRing(p, h, m) /\ N = {p[k] : k \in 0..m}
  <2>1. IsRing(p, h, m) /\ {h} \cup ToSet(s) = {p[k] : k \in 0..m}
    BY <1>1, RingNodes
  <2>2. QED
    BY <2>1 DEF RingNodesOf
<1>3. Links(L, p, 0..m)
  BY <1>1 DEF Path
<1>4. p[i] \in N /\ p[i + 1] \in N
  BY RingNodeOf
<1>5. Links(M, p, (0..m) \ {i})
  <2>1. i \in 0..m /\ OthersKept(L, M, A, p[i], p[i + 1])
    OBVIOUS
  <2> HIDE DEF s, m, p, N
  <2>2. \A k \in 0..m : p[k] \in A
    BY <1>1, <1>2
  <2>3. QED
    BY <1>2, <1>3, <2>1, <2>2, LinksKept
<1>6. ToSet(s) \subseteq N
  BY DEF RingNodesOf
<1>7. Path(M, h, t) /\ ToSet(t) = ToSet(s) \cup ToSet(w)
  <2>1. ToSet(s) \cap ToSet(w) = {}
    BY <1>1, <1>6
  <2>2. InsertFits(M, h, s, i, w)
    BY <1>1, <1>5, <2>1 DEF InsertFits
  <2> HIDE DEF N, s
  <2>3. QED
    BY <2>2, PathInsert
<1>8. SameIn(L, M, A \ N)
  BY <1>4 DEF SameIn, OthersKept
<1>9. ToSet(t) \cap (A \ N) = {}
  BY <1>6, <1>7
<1>10. Good(M, (A \ N) \cup {h} \cup ToSet(t), Promise!With(S, h, t))
  BY <1>7, <1>8, <1>9, GoodTouch
<1>11. (A \ N) \cup {h} \cup ToSet(t) = A \cup ToSet(w)
  BY <1>1, <1>6, <1>7 DEF RingNodesOf
<1>12. Promise!PutAt(S, h, i, w) = Promise!With(S, h, t)
  BY DEF Promise!PutAt, Insert
<1>13. QED
  BY <1>10, <1>11, <1>12

LEMMA GoodLink ==
  ASSUME NEW L, NEW A, NEW S, Good(L, A, S), NEW h \in DOMAIN S,
         NEW i \in 0..Len(S[h]), NEW e \in Entries \ A,
         NEW a, a = Ring(h, S[h])[i], NEW b, b = Ring(h, S[h])[i + 1]
  PROVE  Good(LinkBetween(L, e, a, b), A \cup {e}, Promise!PutAt(S, h, i, <<e>>))
<1> DEFINE M == LinkBetween(L, e, a, b)
           w == <<e>>
<1>1. a \in A /\ b \in A /\ A \subseteq Nodes /\ e \in Nodes /\ Heap(L, Nodes)
  <2>1. a \in RingNodesOf(S, h) /\ b \in RingNodesOf(S, h)
    BY RingNodeOf
  <2>2. RingNodesOf(S, h) \subseteq A
    BY GoodFacts
  <2>3. QED
    BY <2>1, <2>2 DEF Good, Nodes
<1>2. /\ Heap(M, Nodes) /\ Linked(M, a, e) /\ Linked(M, e, b)
      /\ OthersKept(L, M, A, a, b)
  BY <1>1 DEF LinkBetween, Heap, Linked, OthersKept
<1>3. w \in Seq(Entries) /\ Len(w) = 1 /\ w[1] = e /\ ToSet(w) = {e} /\ w # <<>>
  <2>1. w \in Seq(Entries) /\ Len(w) = 1 /\ w[1] = e /\ w # <<>>
    OBVIOUS
  <2>2. ToSet(w) = Elements(w, 1)
    BY <2>1, ElementsAre
  <2>3. QED
    BY <2>1, <2>2 DEF Elements
<1> HIDE DEF M, w
<1>4. Distinct(h, w)
  <2>1. h \in Heads
    BY DEF Good
  <2>2. QED
    BY <1>3, <2>1 DEF Distinct, Injective
<1>5. Links(M, w, 1..(Len(w) - 1))
  BY <1>3 DEF Links
<1>6. Linked(M, Ring(h, S[h])[i], w[1]) /\ Linked(M, w[Len(w)], Ring(h, S[h])[i + 1])
      /\ OthersKept(L, M, A, Ring(h, S[h])[i], Ring(h, S[h])[i + 1])
  BY <1>2, <1>3
<1>7. Good(M, A \cup ToSet(w), Promise!PutAt(S, h, i, w))
  BY <1>2, <1>3, <1>4, <1>5, <1>6, GoodPut
<1>8. QED
  BY <1>3, <1>7 DEF M, w

(* Both ways list_add and list_add_tail put e in. *)
LEMMA GoodAdd ==
  ASSUME NEW L, NEW A, NEW S, Good(L, A, S), NEW h \in DOMAIN S,
         NEW x \in RingNodesOf(S, h), NEW e \in Entries \ A
  PROVE  /\ Good(ListAdd(L, e, x), A \cup {e}, Promise!PutBehind(S, x, <<e>>))
         /\ Good(ListAddTail(L, e, x), A \cup {e}, Promise!PutBefore(S, x, <<e>>))
<1>1. \A i \in 0..Len(S[h]) : Linked(L, Ring(h, S[h])[i], Ring(h, S[h])[i + 1])
  BY GoodFacts DEF Path, Links
<1>2. PICK i \in 0..Len(S[h]) : x = Ring(h, S[h])[i]
  BY PlaceIs
<1>3. L.next[x] = Ring(h, S[h])[i + 1]
  BY <1>1, <1>2 DEF Linked
<1>4. Promise!PutBehind(S, x, <<e>>) = Promise!PutAt(S, h, i, <<e>>)
  BY <1>2, PutBehindIs
<1>5. Good(LinkBetween(L, e, x, L.next[x]), A \cup {e}, Promise!PutAt(S, h, i, <<e>>))
  BY <1>2, <1>3, GoodLink
<1>6. PICK j \in 0..Len(S[h]) : x = Ring(h, S[h])[j + 1]
  BY PlaceIs
<1>7. L.prev[x] = Ring(h, S[h])[j]
  BY <1>1, <1>6 DEF Linked
<1>8. Promise!PutBefore(S, x, <<e>>) = Promise!PutAt(S, h, j, <<e>>)
  BY <1>6, PutBeforeIs
<1>9. Good(LinkBetween(L, e, L.prev[x], x), A \cup {e}, Promise!PutAt(S, h, j, <<e>>))
  BY <1>6, <1>7, GoodLink
<1>10. QED
  BY <1>4, <1>5, <1>8, <1>9 DEF ListAdd, ListAddTail

(* A node leaves its list when its neighbours are joined: the first half   *)
(* of list_del, list_del_init and both moves.                              *)
IsAt(L, p, h, m, i, e) ==
  /\ Heap(L, Nodes) /\ IsRing(p, h, m) /\ Links(L, p, 0..m)
  /\ i \in 1..m /\ e = p[i]

LEMMA JoinLinks ==
  ASSUME NEW L, NEW p, NEW h, NEW m, NEW i, NEW e, IsAt(L, p, h, m, i, e),
         NEW M, M = JoinNeighbours(L, e)
  PROVE  /\ Heap(M, Nodes) /\ Linked(M, p[i - 1], p[i + 1])
         /\ Links(M, p, (0..m) \ {i - 1, i})
         /\ SameIn(L, M, Nodes \ {p[k] : k \in 0..m})
<1>a. /\ IsRing(p, h, m) /\ Links(L, p, 0..m) /\ i \in 1..m /\ e = p[i]
      /\ Heap(L, Nodes)
  BY DEF IsAt
<1>1. /\ m \in Nat /\ p[0] = p[m + 1] /\ \A k \in 0..(m + 1) : p[k] \in Nodes
      /\ \A a, b \in 0..m : p[a] = p[b] => a = b
  BY <1>a DEF IsRing
<1>2. i - 1 \in 0..m /\ (i - 1) + 1 = i /\ i \in 0..m /\ i + 1 \in 0..(m + 1)
  BY <1>1, <1>a
<1>3. \A k \in 0..m : L.next[p[k]] = p[k + 1] /\ L.prev[p[k + 1]] = p[k]
  BY <1>a DEF Links, Linked
<1>4. L.prev[e] = p[i - 1] /\ L.next[e] = p[i + 1]
  BY <1>2, <1>3, <1>a
<1> DEFINE before == p[i - 1]
           after == p[i + 1]
<1>5. before \in Nodes /\ after \in Nodes
  BY <1>1, <1>2
<1>6. /\ M.next = [L.next EXCEPT ![before] = after]
      /\ M.prev = [L.prev EXCEPT ![after] = before]
      /\ M = [next |-> M.next, prev |-> M.prev]
  BY <1>4 DEF JoinNeighbours
<1>7. DOMAIN L.next = Nodes /\ DOMAIN L.prev = Nodes
  BY <1>a DEF Heap
<1>8. /\ Heap(M, Nodes)
      /\ M.next[before] = after /\ M.prev[after] = before
      /\ \A x \in Nodes : x # before => M.next[x] = L.next[x]
      /\ \A x \in Nodes : x # after => M.prev[x] = L.prev[x]
  BY <1>5, <1>6, <1>7, <1>a DEF Heap
<1>9. ASSUME NEW k \in (0..m) \ {i - 1, i} PROVE Linked(M, p[k], p[k + 1])
  <2>1. k \in 0..(m + 1) /\ k + 1 \in 0..(m + 1)
    BY <1>1
  <2>2. p[k] # p[i - 1] /\ p[k] # p[i] /\ p[k] \in Nodes /\ p[k + 1] \in Nodes
    BY <1>1, <1>2, <2>1
  <2>3. p[k + 1] # p[i + 1]
    BY <1>2, <1>3, <2>2
  <2>4. QED
    BY <1>3, <1>8, <2>2, <2>3 DEF Linked
<1>10. SameIn(L, M, Nodes \ {p[k] : k \in 0..m})
  <2>1. before \in {p[k] : k \in 0..m}
    BY <1>2
  <2>2. after \in {p[k] : k \in 0..m}
    <3>1. i + 1 \in 0..m \/ (i + 1 = m + 1 /\ 0 \in 0..m)
      BY <1>1, <1>a
    <3>2. QED
      BY <1>1, <3>1
  <2>3. QED
    BY <1>8, <2>1, <2>2 DEF SameIn
<1>11. QED
  BY <1>8, <1>9, <1>10 DEF Links, Linked

IsOn(S, h, i, e) == h \in DOMAIN S /\ i \in 1..Len(S[h]) /\ e = S[h][i]

LEMMA GoodRemove ==
  ASSUME NEW L, NEW A, NEW S, NEW h, NEW i, NEW e,
         Good(L, A, S), IsOn(S, h, i, e)
  PROVE  Good(JoinNeighbours(L, e), A \ {e},
              Promise!With(S, h, RemoveAt(S[h], i)))
<1> DEFINE s == S[h]
           m == Len(s)
           p == Ring(h, s)
           N == RingNodesOf(S, h)
           t == RemoveAt(s, i)
           M == JoinNeighbours(L, e)
<1>a. h \in DOMAIN S /\ i \in 1..m /\ e = s[i]
  BY DEF IsOn
<1>1. Distinct(h, s) /\ Path(L, h, s) /\ N \subseteq A /\ Heap(L, Nodes) /\ A \subseteq Nodes
  BY <1>a, GoodFacts DEF Good
<1>2. IsRing(p, h, m) /\ {h} \cup ToSet(s) = {p[k] : k \in 0..m} /\ e = p[i]
      /\ s[i] \in Entries /\ s[i] \notin Heads /\ ToSet(s) = Elements(s, m)
  <2>1. /\ IsRing(p, h, m) /\ {h} \cup ToSet(s) = {p[k] : k \in 0..m}
        /\ \A k \in 1..m : p[k] = s[k] /\ s[k] \in Entries /\ s[k] \notin Heads
        /\ ToSet(s) = Elements(s, m)
    BY <1>1, RingNodes
  <2> HIDE DEF s, m, p
  <2>2. QED
    BY <1>a, <2>1
<1>3. Links(L, p, 0..m) /\ i \in 1..m
  BY <1>1, <1>a DEF Path
<1>4. N = {p[k] : k \in 0..m} /\ N = {h} \cup ToSet(s)
  BY <1>2 DEF RingNodesOf
<1> HIDE DEF p, N
<1>5. /\ Heap(M, Nodes) /\ Linked(M, p[i - 1], p[i + 1])
      /\ Links(M, p, (0..m) \ {i - 1, i}) /\ SameIn(L, M, Nodes \ N)
  <2> HIDE DEF m, M
  <2>1. /\ Heap(M, Nodes) /\ Linked(M, p[i - 1], p[i + 1])
        /\ Links(M, p, (0..m) \ {i - 1, i})
        /\ SameIn(L, M, Nodes \ {p[k] : k \in 0..m})
    <3>1. IsAt(L, p, h, m, i, e)
      BY <1>1, <1>2, <1>3 DEF IsAt
    <3>2. M = JoinNeighbours(L, e)
      BY DEF M
    <3>3. QED
      BY <3>1, <3>2, JoinLinks
  <2>2. QED
    BY <1>4, <2>1
<1> HIDE DEF M
<1>6. RemoveFits(M, h, s, i)
  <2>1. Distinct(h, s) /\ i \in 1..m
    BY <1>1, <1>3
  <2>2. /\ Links(M, Ring(h, s), (0..m) \ {i - 1, i})
        /\ Linked(M, Ring(h, s)[i - 1], Ring(h, s)[i + 1])
    BY <1>5 DEF p
  <2> HIDE DEF s
  <2>3. QED
    BY <2>1, <2>2 DEF RemoveFits
<1>7. Path(M, h, t) /\ ToSet(t) = ToSet(s) \ {e}
  BY <1>6, <1>a, PathRemove
<1>8. SameIn(L, M, A \ N)
  BY <1>1, <1>5 DEF SameIn
<1>9. ToSet(t) \cap (A \ N) = {}
  BY <1>4, <1>7
<1> HIDE DEF s, t
<1>10. Good(M, (A \ N) \cup {h} \cup ToSet(t), Promise!With(S, h, t))
  BY <1>5, <1>7, <1>8, <1>9, <1>a, GoodTouch DEF N
<1>11. (A \ N) \cup {h} \cup ToSet(t) = A \ {e}
  <2>1. e \in ToSet(s) /\ e # h
    <3>1. h \in Heads
      BY <1>a DEF Good
    <3>2. e = s[i] /\ i \in 1..m
      BY <1>a
    <3>3. QED
      BY <1>2, <3>1, <3>2 DEF Elements
  <2>2. QED
    BY <1>1, <1>4, <1>7, <2>1
<1>12. QED
  BY <1>7, <1>10, <1>11 DEF M, s, t

LEMMA GoodWithout ==
  ASSUME NEW L, NEW A, NEW S, Good(L, A, S), NEW e \in A \cap Entries
  PROVE  LET T == Promise!Without(S, e)
         IN /\ Good(JoinNeighbours(L, e), A \ {e}, T)
            /\ DOMAIN T = DOMAIN S
            /\ \A h \in DOMAIN S : RingNodesOf(T, h) = RingNodesOf(S, h) \ {e}
<1> DEFINE T == Promise!Without(S, e)
<1>1. \A k \in DOMAIN S : Promise!Contains(S[k], e) <=> e \in ToSet(S[k])
  <2>1. SUFFICES ASSUME NEW k \in DOMAIN S
                 PROVE  Promise!Contains(S[k], e) <=> e \in ToSet(S[k])
    OBVIOUS
  <2>2. Distinct(k, S[k])
    BY GoodFacts
  <2>3. QED
    BY <2>2, ContainsIs DEF Distinct
<1>2. T = [k \in DOMAIN S |->
             IF Promise!Contains(S[k], e)
             THEN Promise!RemoveAt(S[k], Promise!IndexIn(S, k, e)) ELSE S[k]]
  BY DEF Promise!Without
<1>3. \A k \in DOMAIN S :
        T[k] = IF e \in ToSet(S[k])
               THEN Promise!RemoveAt(S[k], Promise!IndexIn(S, k, e)) ELSE S[k]
  BY <1>1, <1>2
<1>4. DOMAIN T = DOMAIN S /\ DOMAIN S = A \cap Heads
  BY <1>2 DEF Good
<1>e. e \notin Heads
  BY NodesAssumption
<1> HIDE DEF T
<1>5. CASE OnAList(S, e)
  <2>1. PICK h \in DOMAIN S : e \in ToSet(S[h])
    BY <1>5 DEF OnAList
  <2>2. Distinct(h, S[h])
    BY GoodFacts
  <2>3. PICK i \in 1..Len(S[h]) : e = S[h][i]
    BY <2>1, <2>2, RingNodes DEF Elements
  <2>4. e = Ring(h, S[h])[i] /\ i \in 0..Len(S[h])
    BY <2>2, <2>3, RingNodes
  <2>5. Promise!IndexIn(S, h, e) = i
    BY <2>2, <2>4, IndexIs
  <2> DEFINE t == RemoveAt(S[h], i)
  <2>6. Good(JoinNeighbours(L, e), A \ {e}, Promise!With(S, h, t))
        /\ ToSet(t) = ToSet(S[h]) \ {e}
    <3> HIDE DEF t
    <3>1. IsOn(S, h, i, e) /\ t = RemoveAt(S[h], i)
      BY <2>3 DEF IsOn, t
    <3>2. Good(JoinNeighbours(L, e), A \ {e}, Promise!With(S, h, RemoveAt(S[h], i)))
      BY <3>1, GoodRemove
    <3>3. ToSet(RemoveAt(S[h], i)) = ToSet(S[h]) \ {S[h][i]}
      BY <2>2, <2>3, RemoveSet
    <3>4. QED
      BY <2>3, <3>1, <3>2, <3>3
  <2>7. T[h] = t
    BY <1>3, <2>1, <2>5 DEF Promise!RemoveAt, RemoveAt
  <2> HIDE DEF t
  <2>8. \A k \in DOMAIN S : k # h => e \notin ToSet(S[k])
    BY <1>4, <2>1 DEF Good
  <2>9. T = Promise!With(S, h, t)
    <3>1. \A k \in DOMAIN S : T[k] = IF k = h THEN t ELSE S[k]
      BY <1>3, <2>7, <2>8
    <3>2. DOMAIN S = DOMAIN S \cup {h}
      OBVIOUS
    <3>3. T = [k \in DOMAIN S |-> T[k]]
      BY <1>2 DEF T
    <3>4. QED
      BY <3>1, <3>2, <3>3 DEF Promise!With
  <2>10. ASSUME NEW k \in DOMAIN S PROVE RingNodesOf(T, k) = RingNodesOf(S, k) \ {e}
    <3>1. k # e
      BY <1>4, <1>e
    <3>2. CASE k = h
      BY <2>6, <2>7, <3>1, <3>2 DEF RingNodesOf
    <3>3. CASE k # h
      BY <1>3, <2>8, <3>1, <3>3 DEF RingNodesOf
    <3>4. QED
      BY <3>2, <3>3
  <2>11. QED
    BY <1>4, <2>6, <2>9, <2>10 DEF T
<1>6. CASE ~OnAList(S, e)
  <2>1. \A k \in DOMAIN S : e \notin ToSet(S[k])
    BY <1>6 DEF OnAList
  <2>2. T = S
    <3>1. T = [k \in DOMAIN S |-> S[k]]
      BY <1>2, <1>3, <1>4, <2>1 DEF T
    <3>2. S = [k \in DOMAIN S |-> S[k]]
      BY <1>4 DEF Good
    <3>3. QED
      BY <3>1, <3>2
  <2>3. Good(L, A \ {e}, S) /\ Heap(L, Nodes) /\ L.next[e] = e /\ L.prev[e] = e
    <3>1. Good(L, A \ {e}, S)
      BY <1>6, GoodForget
    <3>2. QED
      BY <1>6, <3>1 DEF Good, Alone, Linked
  <2>4. JoinNeighbours(L, e) = L
    BY <2>3 DEF JoinNeighbours, Heap
  <2>5. \A k \in DOMAIN S : RingNodesOf(S, k) = RingNodesOf(S, k) \ {e}
    BY <1>4, <1>e, <2>1 DEF RingNodesOf
  <2>6. QED
    BY <2>2, <2>3, <2>4, <2>5 DEF T
<1>7. QED
  BY <1>5, <1>6

-----------------------------------------------------------------------------
(* list_del and list_del_init finish with e's own pointers. *)
LEMMA GoodDel ==
  ASSUME NEW L, NEW A, NEW S, Good(L, A, S), NEW e \in A \cap Entries
  PROVE  /\ Good(ListDel(L, e), A \ {e}, Promise!Without(S, e))
         /\ Good(ListDelInit(L, e), A, Promise!Without(S, e))
<1> DEFINE J == JoinNeighbours(L, e)
           B == A \ {e}
           T == Promise!Without(S, e)
           M == ListDel(L, e)
           I == InitListHead(J, e)
<1>1. Good(J, B, T)
  BY GoodWithout
<1>2. e \in Nodes /\ B \subseteq Nodes /\ e \notin B
  BY DEF Good, Nodes
<1>3. Heap(J, Nodes)
  BY <1>1 DEF Good
<1>4. M = [next |-> [J.next EXCEPT ![e] = NULL], prev |-> [J.prev EXCEPT ![e] = NULL]]
  BY DEF ListDel, JoinNeighbours
<1> HIDE DEF J, T, M
<1>5. Heap(M, Nodes) /\ SameIn(J, M, B)
  BY <1>2, <1>3, <1>4 DEF Heap, SameIn
<1>6. Good(M, B, T)
  BY <1>1, <1>5, GoodKept
<1>7. Heap(I, Nodes) /\ SameIn(J, I, B) /\ Alone(I, e)
  BY <1>2, <1>3 DEF Heap, SameIn, Alone, Linked, InitListHead
<1> HIDE DEF I
<1>8. Good(I, B, T)
  BY <1>1, <1>7, GoodKept
<1> HIDE DEF B
<1>9. Good(I, B \cup {e}, T)
  BY <1>7, <1>8, GoodAlone
<1>10. B \cup {e} = A
  BY DEF B
<1>11. QED
  BY <1>6, <1>9, <1>10 DEF I, J, T, M, B, ListDelInit

(* INIT_LIST_HEAD on a node that is not in use. *)
LEMMA GoodInit ==
  ASSUME NEW L, NEW A, NEW S, Good(L, A, S), NEW x \in Nodes \ A
  PROVE  Good(InitListHead(L, x), A \cup {x}, Promise!Emptied(S, x))
<1> DEFINE I == InitListHead(L, x)
<1>1. Heap(L, Nodes) /\ A \subseteq Nodes
  BY DEF Good
<1>2. Heap(I, Nodes) /\ SameIn(L, I, A) /\ Linked(I, x, x)
  BY <1>1 DEF Heap, SameIn, Linked, InitListHead
<1> HIDE DEF I
<1>3. Good(I, A, S)
  BY <1>2, GoodKept
<1>4. CASE x \in Heads
  <2>1. Path(I, x, <<>>) /\ ToSet(<<>>) = {}
    BY <1>2, <1>4, PathEmpty
  <2>2. Good(I, A \cup {x} \cup {}, Promise!With(S, x, <<>>))
    BY <1>3, <1>4, <2>1, GoodNew
  <2>3. A \cup {x} \cup {} = A \cup {x}
    OBVIOUS
  <2>4. QED
    BY <1>4, <2>2, <2>3 DEF I, Promise!Emptied
<1>5. CASE x \notin Heads
  <2>1. x \in Entries /\ Alone(I, x)
    BY <1>2, <1>5 DEF Nodes, Alone
  <2>2. Good(I, A \cup {x}, S)
    BY <1>3, <2>1, GoodAlone
  <2>3. QED
    BY <1>5, <2>2 DEF I, Promise!Emptied
<1>6. QED
  BY <1>4, <1>5

(* list_move and list_move_tail. *)
LEMMA GoodMove ==
  ASSUME NEW L, NEW A, NEW S, Good(L, A, S), NEW e \in A \cap Entries,
         NEW h \in DOMAIN S, NEW x \in RingNodesOf(S, h) \ {e}
  PROVE  LET T == Promise!Without(S, e)
         IN /\ Good(ListMove(L, e, x), A, Promise!PutBehind(T, x, <<e>>))
            /\ Good(ListMoveTail(L, e, x), A, Promise!PutBefore(T, x, <<e>>))
<1> DEFINE T == Promise!Without(S, e)
           J == JoinNeighbours(L, e)
           B == A \ {e}
<1>1. Good(J, B, T) /\ h \in DOMAIN T /\ x \in RingNodesOf(T, h)
  BY GoodWithout
<1> HIDE DEF T, J
<1>2. e \in Entries \ B
  OBVIOUS
<1> HIDE DEF B
<1>3. /\ Good(ListAdd(J, e, x), B \cup {e}, Promise!PutBehind(T, x, <<e>>))
      /\ Good(ListAddTail(J, e, x), B \cup {e}, Promise!PutBefore(T, x, <<e>>))
  BY <1>1, <1>2, GoodAdd
<1>4. B \cup {e} = A
  BY DEF B
<1>5. QED
  BY <1>3, <1>4 DEF T, J, ListMove, ListMoveTail

(* list_rotate_left. *)
LEMMA GoodRotate ==
  ASSUME NEW L, NEW A, NEW S, Good(L, A, S), NEW h \in DOMAIN S
  PROVE  Good(ListRotateLeft(L, h), A,
              IF S[h] = <<>> THEN S
              ELSE Promise!With(S, h, Tail(S[h]) \o <<Head(S[h])>>))
<1> DEFINE s == S[h]
           m == Len(s)
           e == s[1]
           T == Promise!Without(S, e)
<1>1. Distinct(h, s) /\ Path(L, h, s) /\ h \in Heads
  BY GoodFacts DEF Distinct
<1>2. s \in Seq(Entries) /\ m \in Nat
  BY <1>1 DEF Distinct
<1>3. /\ Links(L, Ring(h, s), 0..m) /\ IsRing(Ring(h, s), h, m)
      /\ \A k \in 1..m : Ring(h, s)[k] = s[k] /\ s[k] \in Entries
      /\ ToSet(s) = Elements(s, m)
  BY <1>1, RingNodes DEF Path
<1>4. L.next[h] = Ring(h, s)[1] /\ Ring(h, s)[0] = h /\ Ring(h, s)[m + 1] = h
  <2>1. Linked(L, Ring(h, s)[0], Ring(h, s)[0 + 1]) /\ Ring(h, s)[0] = h
        /\ Ring(h, s)[m + 1] = h
    BY <1>2, <1>3 DEF Links, IsRing
  <2>2. QED
    BY <2>1 DEF Linked
<1>5. CASE s = <<>>
  <2>1. m = 0
    BY <1>5
  <2>2. L.next[h] = h
    BY <1>4, <2>1
  <2>3. QED
    BY <1>5, <2>2 DEF ListRotateLeft, ListEmpty
<1>6. CASE s # <<>>
  <2>1. m # 0 /\ 1 \in 1..m
    BY <1>2, <1>6
  <2>2. L.next[h] = e /\ e \in Entries /\ e \in ToSet(s) /\ e # h
    BY <1>1, <1>3, <1>4, <2>1, NodesAssumption DEF Elements
  <2>3. e \in A \cap Entries /\ h \in RingNodesOf(S, h)
    <3>1. ToSet(S[h]) \subseteq A \cap Entries
      BY GoodFacts
    <3>2. QED
      BY <2>2, <3>1 DEF RingNodesOf
  <2> DEFINE M == ListMoveTail(L, e, h)
             U == Promise!PutBefore(T, h, <<e>>)
  <2>4. Good(M, A, U)
    BY <2>2, <2>3, GoodMove
  <2>5. ListRotateLeft(L, h) = M
    BY <2>2 DEF ListRotateLeft, ListEmpty
  <2>6. /\ IsOn(S, h, 1, e) /\ Promise!IndexIn(S, h, e) = 1 /\ h \in DOMAIN S
        /\ Promise!Contains(S[h], e)
    <3>1. e = Ring(h, S[h])[1] /\ 1 \in 0..Len(S[h])
      BY <1>2, <1>3, <2>1
    <3>2. Promise!IndexIn(S, h, e) = 1
      BY <1>1, <3>1, IndexIs
    <3>3. QED
      BY <1>2, <2>1, <2>2, <3>2, ContainsIs DEF IsOn
  <2>7. T = Promise!With(S, h, RemoveAt(s, 1))
    <3>1. \A k \in DOMAIN S : k # h => ~Promise!Contains(S[k], e)
      <4>1. SUFFICES ASSUME NEW k \in DOMAIN S, k # h
                     PROVE  ~Promise!Contains(S[k], e)
        OBVIOUS
      <4>2. Distinct(k, S[k]) /\ e \notin ToSet(S[k])
        <5>1. DOMAIN S = A \cap Heads
          BY DEF Good
        <5>2. ToSet(S[k]) \cap ToSet(S[h]) = {}
          BY <4>1, <5>1 DEF Good
        <5>3. Distinct(k, S[k])
          BY GoodFacts
        <5>4. QED
          BY <2>2, <5>2, <5>3
      <4>3. QED
        BY <4>2, ContainsIs DEF Distinct
    <3>2. DOMAIN S = DOMAIN S \cup {h}
      OBVIOUS
    <3>3. \A k \in DOMAIN S :
            (IF Promise!Contains(S[k], e)
             THEN Promise!RemoveAt(S[k], Promise!IndexIn(S, k, e)) ELSE S[k])
            = (IF k = h THEN RemoveAt(s, 1) ELSE S[k])
      <4>1. Promise!RemoveAt(S[h], 1) = RemoveAt(s, 1)
        BY DEF Promise!RemoveAt, RemoveAt
      <4> HIDE DEF s, e
      <4>2. QED
        BY <2>6, <3>1, <4>1
    <3>4. QED
      BY <3>2, <3>3 DEF Promise!Without, Promise!With
  <2>8. U = Promise!With(S, h, Tail(s) \o <<Head(s)>>)
    <3> DEFINE r == RemoveAt(s, 1)
               t == SubSeq(r, 1, Len(r)) \o <<e>> \o SubSeq(r, Len(r) + 1, Len(r))
    <3>1. T[h] = r
      BY <2>7 DEF Promise!With
    <3>2. U = Promise!With(T, h, t)
      BY <1>1, <3>1 DEF Promise!PutBefore, Promise!HeadOf, Promise!PutAt
    <3>3. r = Tail(s)
      <4>1. /\ r \in Seq(Entries) /\ Len(r) = m - 1
            /\ \A k \in 1..(m - 1) : r[k] = s[k + 1]
        BY <1>2, <2>1, RemoveParts
      <4>2. /\ Tail(s) \in Seq(Entries) /\ Len(Tail(s)) = m - 1
            /\ \A k \in 1..(m - 1) : Tail(s)[k] = s[k + 1]
        BY <1>2, <1>6
      <4> HIDE DEF r, m
      <4>3. QED
        BY <4>1, <4>2, SeqEqual
    <3>4. t = Tail(s) \o <<Head(s)>>
      <4>1. Tail(s) \in Seq(Entries) /\ Head(s) = e
        BY <1>2, <1>6
      <4>2. \A q \in Seq(Entries) :
              SubSeq(q, 1, Len(q)) = q /\ SubSeq(q, Len(q) + 1, Len(q)) = <<>>
        OBVIOUS
      <4> DEFINE z == Tail(s)
      <4>3. t = SubSeq(z, 1, Len(z)) \o <<e>> \o SubSeq(z, Len(z) + 1, Len(z))
        BY <3>3
      <4> HIDE DEF e, z, t
      <4>4. t = z \o <<e>> \o <<>>
        BY <4>1, <4>2, <4>3 DEF z
      <4>5. QED
        BY <2>2, <4>1, <4>4 DEF z
    <3> HIDE DEF t, r
    <3>5. Promise!With(T, h, t) = Promise!With(S, h, t)
      <4>1. /\ DOMAIN T \cup {h} = DOMAIN S \cup {h}
            /\ \A k \in DOMAIN S : k # h => T[k] = S[k]
        BY <2>7 DEF Promise!With
      <4>2. \A k \in DOMAIN S \cup {h} :
              (IF k = h THEN t ELSE T[k]) = (IF k = h THEN t ELSE S[k])
        BY <4>1
      <4>3. QED
        BY <4>1, <4>2 DEF Promise!With
    <3>6. QED
      BY <3>2, <3>4, <3>5
  <2>9. QED
    BY <1>6, <2>4, <2>5, <2>8
<1>7. QED
  BY <1>5, <1>6

(* The head's own pointers, and what list_empty reads.                     *)
LEMMA HeadLinks ==
  ASSUME NEW L, NEW A, NEW S, NEW h, Good(L, A, S), h \in DOMAIN S
  PROVE  /\ L.next[h] = Ring(h, S[h])[1] /\ L.prev[h] = Ring(h, S[h])[Len(S[h])]
         /\ Ring(h, S[h])[0] = h /\ Ring(h, S[h])[Len(S[h]) + 1] = h
         /\ L.next[h] = h <=> S[h] = <<>>
         /\ L.prev[h] = h <=> S[h] = <<>>
<1> DEFINE s == S[h]
           m == Len(s)
           p == Ring(h, s)
<1>1. Distinct(h, s) /\ Path(L, h, s)
  BY GoodFacts
<1>2. s \in Seq(Entries) /\ h \in Heads /\ (s = <<>> <=> m = 0) /\ m \in Nat
  BY <1>1 DEF Distinct
<1>3. IsRing(p, h, m) /\ Links(L, p, 0..m)
  BY <1>1, RingNodes DEF Path
<1> HIDE DEF s, m, p
<1>4. /\ p[0] = h /\ p[m + 1] = h
      /\ \A i, j \in 0..m : p[i] = p[j] => i = j
  BY <1>3 DEF IsRing
<1>5. Linked(L, p[0], p[0 + 1]) /\ Linked(L, p[m], p[m + 1])
  BY <1>2, <1>3 DEF Links
<1>6. L.next[h] = p[1] /\ L.prev[h] = p[m]
  BY <1>4, <1>5 DEF Linked
<1>7. p[1] = h <=> m = 0
  <2>1. m # 0 => 1 \in 0..m /\ 0 \in 0..m
    BY <1>2
  <2>2. QED
    BY <1>4, <2>1
<1>8. p[m] = h <=> m = 0
  BY <1>2, <1>4
<1>9. QED
  BY <1>2, <1>4, <1>6, <1>7, <1>8 DEF s, m, p

(* __list_splice, and what all four splices come to. *)
SpliceFits(S, list, g, i) ==
  /\ list \in DOMAIN S /\ g \in DOMAIN S /\ g # list /\ S[list] # <<>>
  /\ i \in 0..Len(S[g])

SplicedIn(L, M, B, w, a, b) ==
  /\ Heap(M, Nodes) /\ OthersKept(L, M, B, a, b)
  /\ Linked(M, a, w[1]) /\ Linked(M, w[Len(w)], b)
  /\ Links(M, w, 1..(Len(w) - 1))

LEMMA SpliceLinks ==
  ASSUME NEW L, NEW A, NEW S, NEW list, NEW g, NEW i, NEW a, NEW b,
         Good(L, A, S), SpliceFits(S, list, g, i),
         a = Ring(g, S[g])[i], b = Ring(g, S[g])[i + 1]
  PROVE  SplicedIn(L, SpliceBetween(L, list, a, b), A \ RingNodesOf(S, list),
                   S[list], a, b)
<1> DEFINE M == SpliceBetween(L, list, a, b)
           w == S[list]
           l == Len(w)
           r == Ring(list, w)
           N == RingNodesOf(S, list)
           B == A \ N
<1>1. Distinct(list, w) /\ Path(L, list, w) /\ N \subseteq A /\ A \subseteq Nodes
      /\ Heap(L, Nodes)
  BY GoodFacts DEF Good, SpliceFits
<1>2. w \in Seq(Entries) /\ l \in Nat /\ l # 0 /\ Injective(w, l)
  BY <1>1 DEF Distinct, SpliceFits
<1>3. Links(L, r, 0..l) /\ (\A k \in 1..l : r[k] = w[k]) /\ ToSet(w) = Elements(w, l)
  BY <1>1, RingNodes DEF Path
<1>4. L.next[list] = r[1] /\ L.prev[list] = r[l]
  BY HeadLinks DEF SpliceFits
<1>5. a \in B /\ b \in B
  <2>1. a \in RingNodesOf(S, g) /\ b \in RingNodesOf(S, g)
    BY RingNodeOf DEF SpliceFits
  <2>2. RingNodesOf(S, g) \cap N = {} /\ RingNodesOf(S, g) \subseteq A
    BY GoodFacts DEF SpliceFits
  <2>3. QED
    BY <2>1, <2>2
<1>6. ToSet(w) \subseteq N
  BY DEF RingNodesOf
<1> HIDE DEF w, l, r, N
<1> DEFINE first == w[1]
           last == w[l]
<1>7. L.next[list] = first /\ L.prev[list] = last
  <2>1. 1 \in 1..l /\ l \in 1..l
    BY <1>2
  <2>2. QED
    BY <1>3, <1>4, <2>1
<1>8. first \in N /\ last \in N /\ first \in Nodes /\ last \in Nodes
      /\ a \in Nodes /\ b \in Nodes /\ a \notin N /\ b \notin N
  <2>1. first \in ToSet(w) /\ last \in ToSet(w)
    BY <1>2, <1>3 DEF Elements
  <2>2. QED
    BY <1>1, <1>5, <1>6, <2>1
<1>9. /\ M.next = [L.next EXCEPT ![a] = first, ![last] = b]
      /\ M.prev = [L.prev EXCEPT ![first] = a, ![b] = last]
      /\ M = [next |-> M.next, prev |-> M.prev]
  BY <1>7 DEF SpliceBetween
<1>10. DOMAIN L.next = Nodes /\ DOMAIN L.prev = Nodes
  BY <1>1 DEF Heap
<1> HIDE DEF first, last, M
<1>11. /\ Heap(M, Nodes) /\ Linked(M, a, first) /\ Linked(M, last, b)
  BY <1>1, <1>8, <1>9, <1>10 DEF Heap, Linked
<1>12. /\ \A x \in Nodes : x # a /\ x # last => M.next[x] = L.next[x]
       /\ \A x \in Nodes : x # first /\ x # b => M.prev[x] = L.prev[x]
  BY <1>8, <1>9, <1>10
<1>13. OthersKept(L, M, B, a, b)
  BY <1>1, <1>8, <1>12 DEF OthersKept
<1>14. Links(M, w, 1..(l - 1))
  <2>1. SUFFICES ASSUME NEW k \in 1..(l - 1) PROVE Linked(M, w[k], w[k + 1])
    BY DEF Links
  <2>2. k \in 1..l /\ k + 1 \in 1..l /\ k \in 0..l /\ k # l /\ k + 1 # 1
        /\ 1 \in 1..l /\ l \in 1..l
    BY <1>2
  <2>3. Linked(L, w[k], w[k + 1])
    BY <1>3, <2>2 DEF Links
  <2>4. w[k] # last /\ w[k + 1] # first
    BY <1>2, <2>2 DEF Injective, first, last
  <2>5. w[k] \in N /\ w[k + 1] \in N
    BY <1>3, <1>6, <2>2 DEF Elements
  <2>6. w[k] # a /\ w[k + 1] # b /\ w[k] \in Nodes /\ w[k + 1] \in Nodes
    BY <1>1, <1>8, <2>5
  <2>7. QED
    BY <1>12, <2>3, <2>4, <2>6 DEF Linked
<1>15. QED
  BY <1>11, <1>13, <1>14 DEF SplicedIn, M, first, last, w, l, N

LEMMA GoodSplice ==
  ASSUME NEW L, NEW A, NEW S, NEW list, NEW g, NEW i, NEW a, NEW b,
         Good(L, A, S), SpliceFits(S, list, g, i),
         a = Ring(g, S[g])[i], b = Ring(g, S[g])[i + 1]
  PROVE  Good(SpliceBetween(L, list, a, b), A \ {list},
              Promise!Drop(Promise!PutAt(S, g, i, S[list]), list))
<1> DEFINE w == S[list]
           N == RingNodesOf(S, list)
           B == A \ N
           T == Promise!Drop(S, list)
           M == SpliceBetween(L, list, a, b)
<1>1. /\ Heap(M, Nodes) /\ OthersKept(L, M, B, a, b)
      /\ Linked(M, a, w[1]) /\ Linked(M, w[Len(w)], b)
      /\ Links(M, w, 1..(Len(w) - 1))
  <2>1. SplicedIn(L, M, B, w, a, b)
    BY SpliceLinks
  <2> HIDE DEF M, B, w
  <2>2. QED
    BY <2>1 DEF SplicedIn
<1>2. list \in DOMAIN S /\ g \in DOMAIN S /\ g # list /\ w # <<>> /\ i \in 0..Len(S[g])
  BY DEF SpliceFits
<1>3. Good(L, B, T)
  BY <1>2, GoodDrop
<1>4. g \in DOMAIN T /\ T[g] = S[g]
  BY <1>2 DEF Promise!Drop
<1>5. Distinct(list, w) /\ N = {list} \cup ToSet(w) /\ N \subseteq A /\ ToSet(w) \subseteq Entries
      /\ list \in Heads /\ g \in Heads
  BY <1>2, GoodFacts DEF RingNodesOf, Good
<1>6. Distinct(g, w)
  BY <1>5 DEF Distinct
<1> HIDE DEF M, w, N, T
<1>7. Good(M, B \cup ToSet(w), Promise!PutAt(T, g, i, w))
  <2>1. ToSet(w) \cap B = {}
    BY <1>5
  <2> HIDE DEF B
  <2>2. /\ Linked(M, Ring(g, T[g])[i], w[1])
        /\ Linked(M, w[Len(w)], Ring(g, T[g])[i + 1])
        /\ OthersKept(L, M, B, Ring(g, T[g])[i], Ring(g, T[g])[i + 1])
        /\ i \in 0..Len(T[g])
    BY <1>1, <1>2, <1>4
  <2>3. QED
    BY <1>1, <1>2, <1>3, <1>4, <1>6, <2>1, <2>2, GoodPut
<1>8. B \cup ToSet(w) = A \ {list}
  <2>1. list \notin ToSet(w)
    BY <1>5, NodesAssumption
  <2>2. QED
    BY <1>5, <2>1
<1>9. Promise!PutAt(T, g, i, w) = Promise!Drop(Promise!PutAt(S, g, i, w), list)
  <2> DEFINE t == Insert(S[g], i, w)
  <2>1. Promise!PutAt(S, g, i, w) = [k \in DOMAIN S |-> IF k = g THEN t ELSE S[k]]
    <3>1. DOMAIN S \cup {g} = DOMAIN S
      BY <1>2
    <3>2. QED
      BY <3>1 DEF Promise!PutAt, Promise!With, Insert
  <2>2. Promise!PutAt(T, g, i, w)
        = [k \in DOMAIN S \ {list} |-> IF k = g THEN t ELSE S[k]]
    <3>1. DOMAIN T \cup {g} = DOMAIN S \ {list} /\ DOMAIN T = DOMAIN S \ {list}
      BY <1>2 DEF T, Promise!Drop
    <3>2. \A k \in DOMAIN S \ {list} : T[k] = S[k]
      BY DEF T, Promise!Drop
    <3> HIDE DEF t
    <3>3. Promise!PutAt(T, g, i, w)
          = [k \in DOMAIN T \cup {g} |-> IF k = g THEN t ELSE T[k]]
      BY <1>4 DEF Promise!PutAt, Promise!With, Insert, t
    <3>4. QED
      BY <3>1, <3>2, <3>3
  <2> HIDE DEF t
  <2>3. QED
    BY <2>1, <2>2 DEF Promise!Drop
<1>10. QED
  BY <1>7, <1>8, <1>9 DEF M, w

(* __list_cut_position behind the n-th entry. *)
CutFits(A, S, list, h, n, entry) ==
  /\ list \in Heads \ A /\ h \in DOMAIN S
  /\ n \in 1..Len(S[h]) /\ entry = Ring(h, S[h])[n]

CutInTwo(L, M, A, list, h, s, n) ==
  /\ Heap(M, Nodes) /\ SameIn(L, M, A \ ({h} \cup ToSet(s)))
  /\ Links(M, s, 1..(n - 1)) /\ Linked(M, list, s[1]) /\ Linked(M, s[n], list)
  /\ Links(M, Ring(h, s), (n + 1)..Len(s)) /\ Linked(M, h, Ring(h, s)[n + 1])

LEMMA CutLinks ==
  ASSUME NEW L, NEW A, NEW S, NEW list, NEW h, NEW n, NEW entry,
         Good(L, A, S), CutFits(A, S, list, h, n, entry)
  PROVE  CutInTwo(L, CutAfter(L, list, h, entry), A, list, h, S[h], n)
<1> DEFINE M == CutAfter(L, list, h, entry)
           s == S[h]
           m == Len(s)
           p == Ring(h, s)
           N == RingNodesOf(S, h)
<1>1. /\ Distinct(h, s) /\ Path(L, h, s) /\ N \subseteq A /\ A \subseteq Nodes
      /\ Heap(L, Nodes) /\ h \in Heads
  BY GoodFacts DEF Good, CutFits, Distinct
<1>2. list \in Nodes /\ list \notin A /\ h \in DOMAIN S /\ n \in 1..m /\ entry = p[n]
  BY DEF CutFits, Nodes
<1>3. /\ Links(L, p, 0..m) /\ IsRing(p, h, m) /\ \A k \in 1..m : p[k] = s[k]
      /\ {h} \cup ToSet(s) = {p[k] : k \in 0..m}
  BY <1>1, RingNodes DEF Path
<1>4. N = {p[k] : k \in 0..m} /\ N = {h} \cup ToSet(s)
  BY <1>3 DEF RingNodesOf
<1>5. L.next[h] = p[1]
  BY <1>2, HeadLinks
<1> HIDE DEF s, m, p, N
<1>6. /\ m \in Nat /\ p[0] = h /\ p[m + 1] = h /\ n \in 0..m /\ 1 \in 1..m
      /\ \A i, j \in 0..m : p[i] = p[j] => i = j
  BY <1>2, <1>3 DEF IsRing
<1>7. \A k \in 0..m : L.next[p[k]] = p[k + 1] /\ L.prev[p[k + 1]] = p[k]
  BY <1>3 DEF Links, Linked
<1>8. ASSUME NEW i \in 1..(m + 1), NEW j \in 1..(m + 1), p[i] = p[j] PROVE i = j
  <2>1. i - 1 \in 0..m /\ j - 1 \in 0..m /\ (i - 1) + 1 = i /\ (j - 1) + 1 = j
    BY <1>6
  <2>2. p[i - 1] = p[j - 1]
    BY <1>7, <1>8, <2>1
  <2>3. QED
    BY <1>6, <2>1, <2>2
<1>9. \A k \in 0..(m + 1) : p[k] \in N /\ p[k] \in Nodes /\ p[k] # list
  <2>1. \A k \in 0..(m + 1) : k \in 0..m \/ (k = m + 1 /\ 0 \in 0..m)
    BY <1>6
  <2>2. \A k \in 0..(m + 1) : p[k] \in N
    BY <1>4, <1>6, <2>1
  <2>3. QED
    BY <1>1, <1>2, <2>2
<1> DEFINE first == p[1]
           newFirst == p[n + 1]
<1>10. /\ entry \in N /\ first \in N /\ newFirst \in N /\ h \in N
       /\ entry \in Nodes /\ first \in Nodes /\ newFirst \in Nodes /\ h \in Nodes
       /\ entry # h /\ entry # list /\ first # list /\ newFirst # list /\ h # list
       /\ first # newFirst
  <2>1. 1 \in 1..(m + 1) /\ n + 1 \in 1..(m + 1) /\ n \in 0..(m + 1) /\ 1 # n + 1
        /\ n # 0 /\ 0 \in 0..m
    BY <1>2, <1>6
  <2>2. first # newFirst
    BY <1>8, <2>1
  <2>3. entry # h
    BY <1>2, <1>6, <2>1
  <2>4. QED
    BY <1>2, <1>6, <1>9, <2>1, <2>2, <2>3
<1>11. /\ M.next = [L.next EXCEPT ![list] = first, ![entry] = list, ![h] = newFirst]
       /\ M.prev = [L.prev EXCEPT ![first] = list, ![list] = entry, ![newFirst] = h]
       /\ M = [next |-> M.next, prev |-> M.prev]
  BY <1>2, <1>5, <1>6, <1>7 DEF CutAfter
<1>12. DOMAIN L.next = Nodes /\ DOMAIN L.prev = Nodes
  BY <1>1 DEF Heap
<1> HIDE DEF first, newFirst, M
<1>13. /\ M.next[list] = first /\ M.prev[first] = list
       /\ M.next[entry] = list /\ M.prev[list] = entry
       /\ M.next[h] = newFirst /\ M.prev[newFirst] = h
       /\ \A x \in Nodes : x # list /\ x # entry /\ x # h => M.next[x] = L.next[x]
       /\ \A x \in Nodes : x # list /\ x # first /\ x # newFirst => M.prev[x] = L.prev[x]
  BY <1>2, <1>10, <1>11, <1>12
<1>14. Heap(M, Nodes)
  BY <1>1, <1>2, <1>10, <1>11, <1>12 DEF Heap
<1>15. SameIn(L, M, A \ N)
  BY <1>1, <1>2, <1>10, <1>13 DEF SameIn
<1>16. Linked(M, list, p[1]) /\ Linked(M, p[n], list) /\ Linked(M, h, p[n + 1])
  BY <1>2, <1>13 DEF Linked, first, newFirst
<1>17. ASSUME NEW k \in 1..m, k # n PROVE Linked(M, p[k], p[k + 1])
  <2>1. /\ k \in 0..m /\ k + 1 \in 0..(m + 1) /\ k \in 0..(m + 1) /\ k # 0 /\ 0 \in 0..m
        /\ k + 1 \in 1..(m + 1) /\ 1 \in 1..(m + 1) /\ n + 1 \in 1..(m + 1)
        /\ k + 1 # 1 /\ k + 1 # n + 1
    BY <1>2, <1>6, <1>17
  <2>2. p[k] # h /\ p[k] # entry
    BY <1>2, <1>6, <1>17, <2>1
  <2>3. p[k + 1] # first /\ p[k + 1] # newFirst
    BY <1>8, <2>1 DEF first, newFirst
  <2>4. p[k] \in Nodes /\ p[k + 1] \in Nodes /\ p[k] # list /\ p[k + 1] # list
    BY <1>9, <2>1
  <2>5. QED
    BY <1>7, <1>13, <2>1, <2>2, <2>3, <2>4 DEF Linked
<1>18. Links(M, s, 1..(n - 1))
  <2>1. SUFFICES ASSUME NEW k \in 1..(n - 1) PROVE Linked(M, s[k], s[k + 1])
    BY DEF Links
  <2>2. k \in 1..m /\ k # n /\ k + 1 \in 1..m
    BY <1>2, <1>6
  <2>3. QED
    BY <1>3, <1>17, <2>2
<1>19. Links(M, p, (n + 1)..m)
  <2>1. \A k \in (n + 1)..m : k \in 1..m /\ k # n
    BY <1>2, <1>6
  <2>2. QED
    BY <1>17, <2>1 DEF Links
<1>20. Linked(M, list, s[1]) /\ Linked(M, s[n], list)
  BY <1>2, <1>3, <1>6, <1>16
<1> USE DEF m
<1>21. Links(M, p, (n + 1)..Len(s))
  BY <1>19
<1>22. SameIn(L, M, A \ ({h} \cup ToSet(s)))
  BY <1>4, <1>15
<1>23. QED
  BY <1>14, <1>16, <1>18, <1>20, <1>21, <1>22 DEF CutInTwo, p, s, M

LEMMA GoodCut ==
  ASSUME NEW L, NEW A, NEW S, NEW list, NEW h, NEW n, NEW entry,
         Good(L, A, S), CutFits(A, S, list, h, n, entry)
  PROVE  Good(CutAfter(L, list, h, entry), A \cup {list},
              Promise!CutTo(S, list, h, n))
<1> DEFINE M == CutAfter(L, list, h, entry)
           s == S[h]
           N == RingNodesOf(S, h)
           B == A \ N
           T == Promise!Drop(S, h)
           t == SubSeq(s, 1, n)
           u == SubSeq(s, n + 1, Len(s))
<1>1. /\ list \in Heads /\ list \notin A /\ h \in DOMAIN S /\ h \in Heads
      /\ n \in 1..Len(s)
  BY DEF CutFits, Good
<1>2. Distinct(h, s) /\ N = {h} \cup ToSet(s) /\ N \subseteq A /\ ToSet(s) \subseteq Entries
      /\ ToSet(s) \cap Heads = {}
  BY <1>1, GoodFacts DEF RingNodesOf
<1>3. CutInTwo(L, M, A, list, h, s, n)
  BY CutLinks
<1> HIDE DEF M
<1>4. Heap(M, Nodes) /\ SameIn(L, M, B)
  BY <1>2, <1>3 DEF CutInTwo
<1>5. Good(L, B, T)
  BY <1>1, GoodDrop
<1> HIDE DEF T
<1>6. Good(M, B, T)
  BY <1>4, <1>5, GoodKept
<1> HIDE DEF s
<1>7. Path(M, list, t) /\ ToSet(t) = Elements(s, n)
  <2>1. PrefixFits(M, h, s, n, list)
    BY <1>1, <1>2, <1>3 DEF CutInTwo, PrefixFits
  <2>2. QED
    BY <2>1, PathPrefix
<1>8. Path(M, h, u) /\ ToSet(u) = ToSet(s) \ Elements(s, n)
  <2>1. n \in 0..Len(s)
    BY <1>1, <1>2 DEF Distinct
  <2>2. SuffixFits(M, h, s, n)
    BY <1>2, <1>3, <2>1 DEF CutInTwo, SuffixFits
  <2>3. QED
    BY <2>2, PathSuffix
<1>9. Elements(s, n) \subseteq ToSet(s)
  <2>1. \A k \in 1..n : k \in 1..Len(s)
    BY <1>1, <1>2 DEF Distinct
  <2>2. ToSet(s) = Elements(s, Len(s))
    BY <1>2, RingNodes
  <2>3. QED
    BY <2>1, <2>2 DEF Elements
<1> HIDE DEF t, u, N
<1>10. list \in Heads \ B /\ ToSet(t) \cap B = {}
  BY <1>1, <1>2, <1>7, <1>9
<1> DEFINE C == B \cup {list} \cup ToSet(t)
           U == Promise!With(T, list, t)
<1> HIDE DEF B
<1>11. Good(M, C, U)
  BY <1>6, <1>7, <1>10, GoodNew
<1> USE DEF B
<1>12. h \in Heads \ C /\ ToSet(u) \cap C = {}
  <2>1. h \notin ToSet(t) /\ h # list
    BY <1>1, <1>2, <1>7, <1>9
  <2>2. list \notin ToSet(s)
    BY <1>1, <1>2
  <2>3. QED
    BY <1>1, <1>2, <1>7, <1>8, <1>9, <2>1, <2>2
<1>13. C \cup {h} \cup ToSet(u) = A \cup {list}
  BY <1>2, <1>7, <1>8, <1>9
<1> HIDE DEF B, C, U
<1>14. Good(M, C \cup {h} \cup ToSet(u), Promise!With(U, h, u))
  BY <1>8, <1>11, <1>12, GoodNew
<1>15. Promise!With(U, h, u) = Promise!CutTo(S, list, h, n)
  <2>1. Promise!CutTo(S, list, h, n) = Promise!With(Promise!With(S, list, t), h, u)
    BY DEF Promise!CutTo, t, u, s
  <2>2. /\ DOMAIN T = DOMAIN S \ {h} /\ \A k \in DOMAIN S : k # h => T[k] = S[k]
    BY DEF T, Promise!Drop
  <2> DEFINE V == Promise!With(S, list, t)
  <2>3. /\ DOMAIN U \cup {h} = DOMAIN V \cup {h}
        /\ \A k \in DOMAIN V : k # h => U[k] = V[k]
    BY <2>2 DEF U, Promise!With
  <2> HIDE DEF V
  <2>4. \A k \in DOMAIN V \cup {h} :
          (IF k = h THEN u ELSE U[k]) = (IF k = h THEN u ELSE V[k])
    BY <2>3
  <2>5. Promise!With(U, h, u) = Promise!With(V, h, u)
    BY <2>3, <2>4 DEF Promise!With
  <2>6. QED
    BY <2>1, <2>5 DEF V
<1>16. QED
  BY <1>13, <1>14, <1>15 DEF M

(* list_replace: of a head, of an entry on a list, of an entry alone.      *)
Replaced(A, old, new) == (A \ {old}) \cup {new}

LEMMA GoodReplaceHead ==
  ASSUME NEW L, NEW A, NEW S, NEW old, NEW new, Good(L, A, S),
         old \in A \cap Heads, new \in Heads \ A
  PROVE  Good(ListReplace(L, old, new), Replaced(A, old, new),
              Promise!Substitute(S, old, new))
<1> DEFINE M == ListReplace(L, old, new)
           s == S[old]
           m == Len(s)
           p == Ring(old, s)
           u == Ring(new, s)
           N == RingNodesOf(S, old)
           B == A \ N
           T == Promise!Drop(S, old)
<1>1. old \in DOMAIN S /\ new \in Nodes
  BY DEF Good, Nodes
<1>2. /\ Distinct(old, s) /\ Path(L, old, s) /\ N \subseteq A /\ A \subseteq Nodes
      /\ Heap(L, Nodes) /\ ToSet(s) \cap Heads = {} /\ ToSet(s) \subseteq A
  BY <1>1, GoodFacts DEF Good
<1>3. /\ Links(L, p, 0..m) /\ IsRing(p, old, m) /\ \A k \in 1..m : p[k] = s[k]
      /\ {old} \cup ToSet(s) = {p[k] : k \in 0..m}
  BY <1>2, RingNodes DEF Path
<1>4. N = {p[k] : k \in 0..m} /\ N = {old} \cup ToSet(s)
  BY <1>3 DEF RingNodesOf
<1>5. Distinct(new, s)
  BY <1>2 DEF Distinct
<1>6. /\ IsRing(u, new, m) /\ \A k \in 1..m : u[k] = s[k]
  BY <1>5, RingNodes
<1> HIDE DEF M, s, m, p, u, N, T
<1>7. ReplaceFits(L, p, old, m, 0, old, new, u)
  <2>1. m \in Nat /\ p[0] = old /\ p[m + 1] = old /\ u[0] = new /\ u[m + 1] = new
        /\ \A i, j \in 0..m : p[i] = p[j] => i = j
    BY <1>3, <1>6 DEF IsRing
  <2>2. 0 \in 0..m /\ old = p[0] /\ \A k \in 0..m : p[k] # new
    BY <1>2, <1>4, <2>1
  <2>3. \A k \in 0..(m + 1) : u[k] = IF p[k] = old THEN new ELSE p[k]
    <3>1. SUFFICES ASSUME NEW k \in 0..(m + 1)
                   PROVE  u[k] = IF p[k] = old THEN new ELSE p[k]
      OBVIOUS
    <3>2. CASE k = 0 \/ k = m + 1
      BY <2>1, <3>2
    <3>3. CASE k \in 1..m
      <4>1. p[k] # old
        BY <2>1, <3>3
      <4>2. QED
        BY <1>3, <1>6, <3>3, <4>1
    <3>4. QED
      BY <2>1, <3>2, <3>3
  <2>4. QED
    BY <1>1, <1>2, <1>3, <2>2, <2>3 DEF ReplaceFits
<1>8. ReplacedIn(L, M, p, m, u, new)
  BY <1>7, ReplaceLinks DEF M
<1>9. Heap(M, Nodes) /\ SameIn(L, M, B) /\ Links(M, u, 0..m)
  BY <1>2, <1>4, <1>8 DEF ReplacedIn, SameIn
<1>10. Path(M, new, s)
  BY <1>5, <1>9 DEF Path, u, m
<1>11. Good(L, B, T)
  BY <1>1, GoodDrop DEF N, T
<1>12. Good(M, B, T)
  BY <1>9, <1>11, GoodKept
<1>13. ToSet(s) \cap B = {} /\ new \in Heads \ B
  BY <1>4
<1> HIDE DEF B
<1>14. Good(M, B \cup {new} \cup ToSet(s), Promise!With(T, new, s))
  BY <1>10, <1>12, <1>13, GoodNew
<1>15. B \cup {new} \cup ToSet(s) = Replaced(A, old, new)
  BY <1>2, <1>4 DEF B, Replaced
<1>16. Promise!Substitute(S, old, new) = Promise!With(T, new, s)
  BY DEF Promise!Substitute, T, s
<1>17. QED
  BY <1>14, <1>15, <1>16 DEF M

SubstIn(s, old, new) == [k \in 1..Len(s) |-> IF s[k] = old THEN new ELSE s[k]]

LEMMA SubstParts ==
  ASSUME NEW s \in Seq(Entries), NEW old, NEW new \in Entries
  PROVE  /\ SubstIn(s, old, new) \in Seq(Entries)
         /\ Len(SubstIn(s, old, new)) = Len(s)
         /\ \A k \in 1..Len(s) :
              SubstIn(s, old, new)[k] = IF s[k] = old THEN new ELSE s[k]
         /\ old \notin ToSet(s) => SubstIn(s, old, new) = s
<1> DEFINE t == SubstIn(s, old, new)
           m == Len(s)
<1>1. m \in Nat /\ s = [k \in 1..m |-> s[k]] /\ \A k \in 1..m : s[k] \in Entries
  OBVIOUS
<1>2. ToSet(s) = Elements(s, m)
  BY ElementsAre
<1>3. t = [k \in 1..m |-> IF s[k] = old THEN new ELSE s[k]]
  BY DEF SubstIn
<1> HIDE DEF t, m
<1>4. t \in [1..m -> Entries]
  BY <1>1, <1>3
<1>5. t \in Seq(Entries) /\ Len(t) = m
  BY <1>1, <1>4
<1>6. ASSUME old \notin ToSet(s) PROVE t = s
  <2>1. \A k \in 1..m : s[k] # old
    BY <1>2, <1>6 DEF Elements
  <2>2. t = [k \in 1..m |-> s[k]]
    BY <1>3, <2>1
  <2>3. QED
    BY <1>1, <2>2
<1>7. \A k \in 1..m : t[k] = IF s[k] = old THEN new ELSE s[k]
  BY <1>3
<1>8. QED
  BY <1>5, <1>6, <1>7 DEF t, m

LEMMA GoodReplaceEntry ==
  ASSUME NEW L, NEW A, NEW S, NEW h, NEW i, NEW old, NEW new, Good(L, A, S),
         IsOn(S, h, i, old), new \in Entries \ A
  PROVE  Good(ListReplace(L, old, new), Replaced(A, old, new),
              Promise!With(S, h, SubstIn(S[h], old, new)))
<1> DEFINE M == ListReplace(L, old, new)
           s == S[h]
           m == Len(s)
           t == SubstIn(s, old, new)
           p == Ring(h, s)
           u == Ring(h, t)
           N == RingNodesOf(S, h)
<1>1. h \in DOMAIN S /\ i \in 1..m /\ old = s[i] /\ new \in Nodes /\ h \in Heads
  BY DEF IsOn, Good, Nodes
<1>2. /\ Distinct(h, s) /\ Path(L, h, s) /\ N \subseteq A /\ A \subseteq Nodes
      /\ Heap(L, Nodes) /\ ToSet(s) \cap Heads = {} /\ ToSet(s) \subseteq A
  BY <1>1, GoodFacts DEF Good
<1>3. /\ Links(L, p, 0..m) /\ IsRing(p, h, m) /\ (\A k \in 1..m : p[k] = s[k])
      /\ {h} \cup ToSet(s) = {p[k] : k \in 0..m} /\ ToSet(s) = Elements(s, m)
  BY <1>2, RingNodes DEF Path
<1>4. N = {p[k] : k \in 0..m} /\ N = {h} \cup ToSet(s)
  BY <1>3 DEF RingNodesOf
<1>5. s \in Seq(Entries) /\ Injective(s, m) /\ m \in Nat
  BY <1>2 DEF Distinct
<1>6. /\ t \in Seq(Entries) /\ Len(t) = m
      /\ \A k \in 1..m : t[k] = IF s[k] = old THEN new ELSE s[k]
  BY <1>5, SubstParts
<1>7. \A k \in 0..(m + 1) : u[k] = IF k \in 1..m THEN t[k] ELSE h
  BY <1>6 DEF Ring
<1>8. \A k \in 0..(m + 1) : p[k] = IF k \in 1..m THEN s[k] ELSE h
  BY DEF Ring
<1>9. ToSet(t) = Elements(t, m)
  BY <1>6, ElementsAre
<1>10. \A k \in 1..m : t[k] = IF s[k] = old THEN new ELSE s[k]
  BY <1>6
<1>11. \A k \in 1..m : s[k] # new /\ s[k] # h
  <2>1. \A k \in 1..m : s[k] \in ToSet(s)
    BY <1>3 DEF Elements
  <2>2. QED
    BY <1>1, <1>2, <2>1
<1> HIDE DEF M, s, m, t, p, u, N
<1>12. ToSet(t) = (ToSet(s) \ {old}) \cup {new}
  BY <1>1, <1>3, <1>9, <1>10, <1>11 DEF Elements
<1>13. Injective(t, m)
  BY <1>5, <1>10, <1>11 DEF Injective
<1>14. Distinct(h, t)
  BY <1>1, <1>6, <1>13 DEF Distinct
<1>15. ReplaceFits(L, p, h, m, i, old, new, u)
  <2>1. i \in 0..m /\ p[i] = old /\ old # h
    BY <1>1, <1>3, <1>5, <1>11
  <2>2. \A k \in 0..m : p[k] # new
    BY <1>2, <1>4
  <2>3. \A k \in 0..(m + 1) : u[k] = IF p[k] = old THEN new ELSE p[k]
    BY <1>7, <1>8, <1>10, <2>1
  <2>4. QED
    BY <1>1, <1>2, <1>3, <2>1, <2>2, <2>3 DEF ReplaceFits
<1>16. ReplacedIn(L, M, p, m, u, new)
  BY <1>15, ReplaceLinks DEF M
<1>17. Heap(M, Nodes) /\ SameIn(L, M, A \ N) /\ Links(M, u, 0..m)
  BY <1>2, <1>4, <1>16 DEF ReplacedIn, SameIn
<1>18. Path(M, h, t)
  BY <1>6, <1>14, <1>17 DEF Path, u
<1>19. ToSet(t) \cap (A \ N) = {}
  BY <1>4, <1>12
<1>20. Good(M, (A \ N) \cup {h} \cup ToSet(t), Promise!With(S, h, t))
  BY <1>1, <1>17, <1>18, <1>19, GoodTouch DEF N
<1>21. (A \ N) \cup {h} \cup ToSet(t) = Replaced(A, old, new)
  <2>1. old \in ToSet(s) /\ old # h
    BY <1>1, <1>3, <1>11 DEF Elements
  <2>2. QED
    BY <1>2, <1>4, <1>12, <2>1 DEF Replaced
<1>22. QED
  BY <1>20, <1>21 DEF M, t, s

LEMMA GoodReplaceAlone ==
  ASSUME NEW L, NEW A, NEW S, NEW old, NEW new, Good(L, A, S),
         old \in A \cap Entries, ~OnAList(S, old), new \in Entries \ A
  PROVE  Good(ListReplace(L, old, new), Replaced(A, old, new), S)
<1> DEFINE M == ListReplace(L, old, new)
           p == [k \in 0..1 |-> old]
           u == [k \in 0..1 |-> new]
           B == A \ {old}
<1>1. Alone(L, old) /\ Heap(L, Nodes) /\ A \subseteq Nodes /\ old \in Nodes /\ new \in Nodes
  BY DEF Good, Nodes
<1>2. p[0] = old /\ p[1] = old /\ u[0] = new /\ u[1] = new
  OBVIOUS
<1>3. Good(L, B, S)
  BY GoodForget
<1> HIDE DEF M, p, u
<1>4. \A k \in 0..0 : p[k] = old /\ p[k + 1] = old /\ u[k] = new /\ u[k + 1] = new
  BY <1>2
<1>5. ReplaceFits(L, p, old, 0, 0, old, new, u)
  <2>1. IsRing(p, old, 0)
    BY <1>1, <1>2 DEF IsRing
  <2>2. Links(L, p, 0..0)
    BY <1>1, <1>4 DEF Links, Alone
  <2>3. \A k \in 0..(0 + 1) : u[k] = IF p[k] = old THEN new ELSE p[k]
    BY <1>2
  <2>4. \A k \in 0..0 : p[k] # new
    BY <1>4
  <2>5. QED
    BY <1>1, <1>2, <2>1, <2>2, <2>3, <2>4 DEF ReplaceFits
<1>6. ReplacedIn(L, M, p, 0, u, new)
  BY <1>5, ReplaceLinks DEF M
<1>7. Heap(M, Nodes) /\ Alone(M, new) /\ SameIn(L, M, B)
  <2>1. {p[k] : k \in 0..0} = {old}
    BY <1>4
  <2>2. SameIn(L, M, B)
    BY <1>1, <1>6, <2>1 DEF ReplacedIn, SameIn
  <2>3. Linked(M, u[0], u[0 + 1])
    BY <1>6 DEF ReplacedIn, Links
  <2>4. QED
    BY <1>2, <1>6, <2>2, <2>3 DEF ReplacedIn, Alone
<1> HIDE DEF B
<1>8. Good(M, B, S)
  BY <1>3, <1>7, GoodKept
<1>9. Good(M, B \cup {new}, S)
  BY <1>7, <1>8, GoodAlone
<1>10. QED
  BY <1>9 DEF M, B, Replaced

LEMMA GoodReplace ==
  ASSUME NEW L, NEW A, NEW S, NEW old, NEW new, Good(L, A, S),
         old \in A, new \in Nodes \ A,
         {old, new} \subseteq Heads \/ {old, new} \subseteq Entries
  PROVE  LET T == Promise!Substitute(S, old, new)
         IN /\ Good(ListReplace(L, old, new), Replaced(A, old, new), T)
            /\ Good(ListReplaceInit(L, old, new), A \cup {new}, Promise!Emptied(T, old))
<1> DEFINE T == Promise!Substitute(S, old, new)
           M == ListReplace(L, old, new)
<1>1. A \subseteq Nodes /\ S = [k \in A \cap Heads |-> S[k]] /\ DOMAIN S = A \cap Heads
  BY DEF Good
<1>2. Good(M, Replaced(A, old, new), T)
  <2>1. CASE {old, new} \subseteq Heads
    BY <2>1, GoodReplaceHead
  <2>2. CASE {old, new} \subseteq Entries
    <3>1. old \notin Heads /\ new \in Entries
      BY <2>2, NodesAssumption
    <3>2. T = [k \in DOMAIN S |-> SubstIn(S[k], old, new)]
      BY <3>1 DEF Promise!Substitute, SubstIn
    <3>3. ASSUME NEW k \in DOMAIN S, old \notin ToSet(S[k])
          PROVE  SubstIn(S[k], old, new) = S[k]
      <4>1. S[k] \in Seq(Entries)
        BY GoodFacts DEF Distinct
      <4>2. QED
        BY <3>1, <3>3, <4>1, SubstParts
    <3> HIDE DEF T, M
    <3>4. CASE OnAList(S, old)
      <4>1. PICK h \in DOMAIN S : old \in ToSet(S[h])
        BY <3>4 DEF OnAList
      <4>2. Distinct(h, S[h])
        BY GoodFacts
      <4>3. PICK i \in 1..Len(S[h]) : old = S[h][i]
        BY <4>1, <4>2, RingNodes DEF Elements
      <4>4. IsOn(S, h, i, old)
        BY <4>3 DEF IsOn
      <4> DEFINE U == Promise!With(S, h, SubstIn(S[h], old, new))
      <4>5. Good(M, Replaced(A, old, new), U)
        BY <3>1, <4>4, GoodReplaceEntry DEF M
      <4>6. \A k \in DOMAIN S : k # h => old \notin ToSet(S[k])
        BY <1>1, <4>1 DEF Good
      <4>7. T = U
        <5>1. \A k \in DOMAIN S : SubstIn(S[k], old, new)
                = IF k = h THEN SubstIn(S[h], old, new) ELSE S[k]
          BY <3>3, <4>6
        <5>2. DOMAIN S \cup {h} = DOMAIN S
          OBVIOUS
        <5>3. QED
          BY <3>2, <5>1, <5>2 DEF Promise!With
      <4>8. QED
        BY <4>5, <4>7
    <3>5. CASE ~OnAList(S, old)
      <4>1. \A k \in DOMAIN S : old \notin ToSet(S[k])
        BY <3>5 DEF OnAList
      <4>2. T = S
        BY <1>1, <3>2, <3>3, <4>1
      <4>3. QED
        BY <2>2, <3>5, <4>2, GoodReplaceAlone DEF M
    <3>6. QED
      BY <3>4, <3>5
  <2>3. QED
    BY <2>1, <2>2
<1> HIDE DEF T, M
<1> DEFINE B == Replaced(A, old, new)
<1>3. old \in Nodes \ B /\ B \cup {old} = A \cup {new}
  BY <1>1 DEF Replaced
<1> HIDE DEF B
<1>4. Good(InitListHead(M, old), B \cup {old}, Promise!Emptied(T, old))
  BY <1>2, <1>3, GoodInit DEF B
<1>5. QED
  BY <1>2, <1>3, <1>4 DEF M, T, ListReplaceInit

-----------------------------------------------------------------------------
(* The invariant: heap with the nodes of live in use stands for some lists *)
(* - for those a walk reads off.                                           *)
ReadOff(L, A) == [h \in A \cap Heads |-> Walk(L.next, h)]

LEMMA ReadOffIs ==
  ASSUME NEW L, NEW A, NEW S, Good(L, A, S)
  PROVE  ReadOff(L, A) = S
<1>1. \A h \in A \cap Heads : Walk(L.next, h) = S[h]
  BY WalkForwards DEF Good
<1>2. S = [h \in A \cap Heads |-> S[h]]
  BY DEF Good
<1>3. QED
  BY <1>1, <1>2 DEF ReadOff

(* What the caller knows of the nodes, said of the lists they stand for.   *)
LEMMA CallerSees ==
  ASSUME NEW S, Good(heap, live, S)
  PROVE  /\ LiveHeads = DOMAIN S
         /\ \A h \in LiveHeads :
              /\ Contents(h) = S[h] /\ Listed(h) = ToSet(S[h])
              /\ RingOf(h) = RingNodesOf(S, h)
         /\ \A e : e \in OnList <=> OnAList(S, e)
         /\ \A x \in Places : \E h \in DOMAIN S : x \in RingNodesOf(S, h)
<1>1. LiveHeads = DOMAIN S /\ LiveHeads = live \cap Heads
  BY DEF Good, LiveHeads
<1>2. ASSUME NEW h \in LiveHeads PROVE Contents(h) = S[h]
  BY <1>1, WalkForwards DEF Good, Contents
<1>3. \A h \in LiveHeads : Listed(h) = ToSet(S[h])
  BY <1>2 DEF Listed
<1>4. \A h \in LiveHeads : RingOf(h) = RingNodesOf(S, h)
  BY <1>3 DEF RingOf, RingNodesOf
<1>5. \A e : e \in OnList <=> OnAList(S, e)
  BY <1>1, <1>3 DEF OnList, OnAList
<1>6. \A x \in Places : \E h \in DOMAIN S : x \in RingNodesOf(S, h)
  BY <1>1, <1>5 DEF Places, OnAList, RingNodesOf
<1>7. QED
  BY <1>1, <1>2, <1>3, <1>4, <1>5, <1>6

(* The call c takes the lists S to ones that the pointers of L, with the   *)
(* nodes of A in use, stand for.                                           *)
Reach(L, A, c, S) == Good(L, A, Promise!After(S, c[1], c[2], c[3], c[4]))

(* One call takes the lists S to the lists the header promises.            *)
Keeps(S) == Reach(heap', live', call', S)

LEMMA EmptyIs ==
  ASSUME NEW L, NEW A, NEW S, Good(L, A, S), NEW h \in DOMAIN S
  PROVE  ListEmpty(L, h) <=> S[h] = <<>>
<1> DEFINE s == S[h]
           m == Len(s)
           p == Ring(h, s)
<1>1. Distinct(h, s) /\ Path(L, h, s)
  BY GoodFacts
<1>2. (s = <<>> <=> m = 0) /\ m \in Nat
  BY <1>1 DEF Distinct
<1>3. IsRing(p, h, m) /\ Links(L, p, 0..m)
  BY <1>1, RingNodes DEF Path
<1> HIDE DEF s, m, p
<1>4. p[0] = h /\ p[m + 1] = h /\ \A i, j \in 0..m : p[i] = p[j] => i = j
  BY <1>3 DEF IsRing
<1>5. L.next[h] = p[1]
  <2>1. Linked(L, p[0], p[0 + 1])
    BY <1>2, <1>3 DEF Links
  <2>2. QED
    BY <1>4, <2>1 DEF Linked
<1>6. m # 0 => 1 \in 0..m /\ 0 \in 0..m
  BY <1>2
<1>7. p[1] = h <=> m = 0
  BY <1>4, <1>6
<1>8. QED
  BY <1>2, <1>5, <1>7 DEF s, ListEmpty

LEMMA InitHeadKeeps ==
  ASSUME NEW S, Good(heap, live, S), NEW x \in Nodes, InitHead(x)
  PROVE  Keeps(S)
<1>1. x \in Nodes \ live
      /\ Did("init", x, NULL, NULL, InitListHead(heap, x), live \cup {x})
  BY DEF InitHead
<1>2. Good(InitListHead(heap, x), live \cup {x}, Promise!Emptied(S, x))
  BY <1>1, GoodInit
<1>3. Reach(InitListHead(heap, x), live \cup {x}, <<"init", x, NULL, NULL>>, S)
  BY <1>2 DEF Reach, Promise!After
<1>4. QED
  BY <1>1, <1>3 DEF Did, Keeps

LEMMA AddKeeps ==
  ASSUME NEW S, Good(heap, live, S), NEW e \in Entries, NEW x, Add(e, x)
  PROVE  Keeps(S)
<1>1. ~OnAList(S, e)
  BY CallerSees DEF Add
<1>2. PICK h \in DOMAIN S : x \in RingNodesOf(S, h)
  BY CallerSees DEF Add
<1> DEFINE B == live \ {e}
<1>3. Good(heap, B, S) /\ e \in Entries \ B
  BY <1>1, GoodForget
<1>4. B \cup {e} = live \cup {e}
  OBVIOUS
<1> HIDE DEF B
<1>5. /\ Good(ListAdd(heap, e, x), live \cup {e}, Promise!PutBehind(S, x, <<e>>))
      /\ Good(ListAddTail(heap, e, x), live \cup {e}, Promise!PutBefore(S, x, <<e>>))
  BY <1>2, <1>3, <1>4, GoodAdd
<1>6. CASE Did("add", e, x, NULL, ListAdd(heap, e, x), live \cup {e})
  <2>1. Reach(ListAdd(heap, e, x), live \cup {e},
            <<"add", e, x, NULL>>, S)
    BY <1>5 DEF Reach, Promise!After
  <2>2. QED
    BY <1>6, <2>1 DEF Did, Keeps
<1>7. CASE Did("add_tail", e, x, NULL, ListAddTail(heap, e, x), live \cup {e})
  <2>1. Reach(ListAddTail(heap, e, x), live \cup {e},
            <<"add_tail", e, x, NULL>>, S)
    BY <1>5 DEF Reach, Promise!After
  <2>2. QED
    BY <1>7, <2>1 DEF Did, Keeps
<1>8. QED
  BY <1>6, <1>7 DEF Add

LEMMA DelKeeps ==
  ASSUME NEW S, Good(heap, live, S), NEW e \in Entries, Del(e)
  PROVE  Keeps(S)
<1>1. e \in live \cap Entries
  BY DEF Del
<1>2. /\ Good(ListDel(heap, e), live \ {e}, Promise!Without(S, e))
      /\ Good(ListDelInit(heap, e), live, Promise!Without(S, e))
  BY <1>1, GoodDel
<1>3. CASE Did("del", e, NULL, NULL, ListDel(heap, e), live \ {e})
  <2>1. Reach(ListDel(heap, e), live \ {e},
            <<"del", e, NULL, NULL>>, S)
    BY <1>2 DEF Reach, Promise!After
  <2>2. QED
    BY <1>3, <2>1 DEF Did, Keeps
<1>4. CASE Did("del_init", e, NULL, NULL, ListDelInit(heap, e), live)
  <2>1. Reach(ListDelInit(heap, e), live,
            <<"del_init", e, NULL, NULL>>, S)
    BY <1>2 DEF Reach, Promise!After
  <2>2. QED
    BY <1>4, <2>1 DEF Did, Keeps
<1>5. QED
  BY <1>3, <1>4 DEF Del

LEMMA MoveKeeps ==
  ASSUME NEW S, Good(heap, live, S), NEW e \in Entries, NEW x, Move(e, x)
  PROVE  Keeps(S)
<1>1. e \in live \cap Entries /\ x \in Places /\ x # e
  BY DEF Move
<1>2. PICK h \in DOMAIN S : x \in RingNodesOf(S, h) \ {e}
  BY <1>1, CallerSees
<1> DEFINE T == Promise!Without(S, e)
<1>3. /\ Good(ListMove(heap, e, x), live, Promise!PutBehind(T, x, <<e>>))
      /\ Good(ListMoveTail(heap, e, x), live, Promise!PutBefore(T, x, <<e>>))
  BY <1>1, <1>2, GoodMove
<1>4. CASE Did("move", e, x, NULL, ListMove(heap, e, x), live)
  <2>1. Reach(ListMove(heap, e, x), live,
            <<"move", e, x, NULL>>, S)
    BY <1>3 DEF Reach, Promise!After
  <2>2. QED
    BY <1>4, <2>1 DEF Did, Keeps
<1>5. CASE Did("move_tail", e, x, NULL, ListMoveTail(heap, e, x), live)
  <2>1. Reach(ListMoveTail(heap, e, x), live,
            <<"move_tail", e, x, NULL>>, S)
    BY <1>3 DEF Reach, Promise!After
  <2>2. QED
    BY <1>5, <2>1 DEF Did, Keeps
<1>6. QED
  BY <1>4, <1>5 DEF Move

LEMMA ReplaceKeeps ==
  ASSUME NEW S, Good(heap, live, S), NEW old \in Nodes, NEW new \in Nodes,
         Replace(old, new)
  PROVE  Keeps(S)
<1>1. /\ old \in live /\ new \in Nodes \ live
      /\ {old, new} \subseteq Heads \/ {old, new} \subseteq Entries
  BY DEF Replace
<1> DEFINE T == Promise!Substitute(S, old, new)
<1>2. /\ Good(ListReplace(heap, old, new), Replaced(live, old, new), T)
      /\ Good(ListReplaceInit(heap, old, new), live \cup {new}, Promise!Emptied(T, old))
  BY <1>1, GoodReplace
<1>3. Good(ListReplace(heap, old, new), (live \ {old}) \cup {new}, T)
  BY <1>2 DEF Replaced
<1>4. CASE Did("replace", old, new, NULL, ListReplace(heap, old, new),
               (live \ {old}) \cup {new})
  <2>1. Reach(ListReplace(heap, old, new), (live \ {old}) \cup {new},
            <<"replace", old, new, NULL>>, S)
    BY <1>3 DEF Reach, Promise!After
  <2>2. QED
    BY <1>4, <2>1 DEF Did, Keeps
<1>5. CASE Did("replace_init", old, new, NULL, ListReplaceInit(heap, old, new),
               live \cup {new})
  <2>1. Reach(ListReplaceInit(heap, old, new), live \cup {new},
            <<"replace_init", old, new, NULL>>, S)
    BY <1>2 DEF Reach, Promise!After
  <2>2. QED
    BY <1>5, <2>1 DEF Did, Keeps
<1>6. QED
  BY <1>4, <1>5 DEF Replace

LEMMA RotateLeftKeeps ==
  ASSUME NEW S, Good(heap, live, S), NEW h \in Heads, RotateLeft(h)
  PROVE  Keeps(S)
<1>1. h \in DOMAIN S
      /\ Did("rotate_left", h, NULL, NULL, ListRotateLeft(heap, h), live)
  BY DEF RotateLeft, Good
<1>2. Good(ListRotateLeft(heap, h), live,
           IF S[h] = <<>> THEN S
           ELSE Promise!With(S, h, Tail(S[h]) \o <<Head(S[h])>>))
  BY <1>1, GoodRotate
<1>3. Reach(ListRotateLeft(heap, h), live, <<"rotate_left", h, NULL, NULL>>, S)
  BY <1>2 DEF Reach, Promise!After
<1>4. QED
  BY <1>1, <1>3 DEF Did, Keeps

LEMMA SpliceKeeps ==
  ASSUME NEW S, Good(heap, live, S), NEW list \in Heads, NEW x, Splice(list, x)
  PROVE  Keeps(S)
<1>1. list \in DOMAIN S /\ list \in live /\ live \subseteq Nodes
  BY DEF Splice, Good
<1>2. ListEmpty(heap, list) <=> S[list] = <<>>
  BY <1>1, EmptyIs
<1>3. CASE S[list] = <<>>
  <2>1. \A T, f : Promise!SpliceOut(S, T, list, f) = S
    BY <1>3 DEF Promise!SpliceOut
  <2>2. Good(heap, live, S)
    OBVIOUS
  <2>3. \/ Did("splice", list, x, NULL, heap, live)
        \/ Did("splice_tail", list, x, NULL, heap, live)
        \/ Did("splice_init", list, x, NULL, heap, live)
        \/ Did("splice_tail_init", list, x, NULL, heap, live)
    BY <1>2, <1>3 DEF Splice, ListSplice, ListSpliceTail, ListSpliceInit,
                      ListSpliceTailInit
  <2>4. /\ Reach(heap, live, <<"splice", list, x, NULL>>, S)
        /\ Reach(heap, live, <<"splice_tail", list, x, NULL>>, S)
        /\ Reach(heap, live, <<"splice_init", list, x, NULL>>, S)
        /\ Reach(heap, live, <<"splice_tail_init", list, x, NULL>>, S)
    <3>1. ASSUME NEW T, NEW f PROVE Promise!SpliceOut(S, T, list, f) = S
      BY <2>1
    <3>2. QED
      BY <2>2, <3>1 DEF Reach, Promise!After
  <2>5. QED
    BY <2>3, <2>4 DEF Did, Keeps
<1>4. CASE S[list] # <<>>
  <2>1. PICK g \in DOMAIN S : x \in RingNodesOf(S, g)
    BY CallerSees DEF Splice
  <2>2. x \notin RingNodesOf(S, list)
    BY <1>1, CallerSees DEF Splice
  <2>3. g # list /\ x # list
    BY <2>1, <2>2 DEF RingNodesOf
  <2> DEFINE A == live \ {list}
             behind == SpliceBetween(heap, list, x, heap.next[x])
             before == SpliceBetween(heap, list, heap.prev[x], x)
             T == Promise!PutBehind(S, x, S[list])
             U == Promise!PutBefore(S, x, S[list])
  <2>4. \A i \in 0..Len(S[g]) : Linked(heap, Ring(g, S[g])[i], Ring(g, S[g])[i + 1])
    BY GoodFacts DEF Path, Links
  <2>5. Good(behind, A, Promise!Drop(T, list))
    <3>1. PICK i \in 0..Len(S[g]) : x = Ring(g, S[g])[i]
      BY <2>1, PlaceIs
    <3>2. T = Promise!PutAt(S, g, i, S[list])
      BY <3>1, PutBehindIs
    <3>3. heap.next[x] = Ring(g, S[g])[i + 1]
      BY <2>4, <3>1 DEF Linked
    <3>4. SpliceFits(S, list, g, i)
      BY <1>1, <1>4, <2>3 DEF SpliceFits
    <3> HIDE DEF T, A
    <3>5. QED
      BY <3>1, <3>2, <3>3, <3>4, GoodSplice DEF A
  <2>6. Good(before, A, Promise!Drop(U, list))
    <3>1. PICK i \in 0..Len(S[g]) : x = Ring(g, S[g])[i + 1]
      BY <2>1, PlaceIs
    <3>2. U = Promise!PutAt(S, g, i, S[list])
      BY <3>1, PutBeforeIs
    <3>3. heap.prev[x] = Ring(g, S[g])[i]
      BY <2>4, <3>1 DEF Linked
    <3>4. SpliceFits(S, list, g, i)
      BY <1>1, <1>4, <2>3 DEF SpliceFits
    <3> HIDE DEF U, A
    <3>5. QED
      BY <3>1, <3>2, <3>3, <3>4, GoodSplice DEF A
  <2>7. list \in Nodes \ A /\ A \cup {list} = live
    BY <1>1
  <2> HIDE DEF A, behind, before, T, U
  <2>8. ASSUME NEW V
        PROVE  /\ Promise!SpliceOut(S, V, list, FALSE) = Promise!Drop(V, list)
               /\ Promise!SpliceOut(S, V, list, TRUE)
                  = Promise!Emptied(Promise!Drop(V, list), list)
    BY <1>4, WithDrop DEF Promise!SpliceOut, Promise!Emptied
  <2>9. /\ Good(InitListHead(behind, list), live, Promise!Emptied(Promise!Drop(T, list), list))
        /\ Good(InitListHead(before, list), live, Promise!Emptied(Promise!Drop(U, list), list))
    BY <2>5, <2>6, <2>7, GoodInit
  <2>10. \/ Did("splice", list, x, NULL, behind, A)
         \/ Did("splice_tail", list, x, NULL, before, A)
         \/ Did("splice_init", list, x, NULL, InitListHead(behind, list), live)
         \/ Did("splice_tail_init", list, x, NULL, InitListHead(before, list), live)
    BY <1>2, <1>4 DEF Splice, ListSplice, ListSpliceTail, ListSpliceInit,
                      ListSpliceTailInit, behind, before, A
  <2>11. CASE Did("splice", list, x, NULL, behind, A)
    <3>1. Reach(behind, A,
              <<"splice", list, x, NULL>>, S)
      <4>1. Promise!SpliceOut(S, Promise!PutBehind(S, x, S[list]), list, FALSE)
            = Promise!Drop(T, list)
        BY <2>8 DEF T
      <4>2. QED
        BY <2>5, <4>1 DEF Reach, Promise!After
    <3>2. QED
      BY <2>11, <3>1 DEF Did, Keeps
  <2>12. CASE Did("splice_tail", list, x, NULL, before, A)
    <3>1. Reach(before, A,
              <<"splice_tail", list, x, NULL>>, S)
      <4>1. Promise!SpliceOut(S, Promise!PutBefore(S, x, S[list]), list, FALSE)
            = Promise!Drop(U, list)
        BY <2>8 DEF U
      <4>2. QED
        BY <2>6, <4>1 DEF Reach, Promise!After
    <3>2. QED
      BY <2>12, <3>1 DEF Did, Keeps
  <2>13. CASE Did("splice_init", list, x, NULL, InitListHead(behind, list), live)
    <3>1. Reach(InitListHead(behind, list), live,
              <<"splice_init", list, x, NULL>>, S)
      <4>1. Promise!SpliceOut(S, Promise!PutBehind(S, x, S[list]), list, TRUE)
            = Promise!Emptied(Promise!Drop(T, list), list)
        BY <2>8 DEF T
      <4>2. QED
        BY <2>9, <4>1 DEF Reach, Promise!After
    <3>2. QED
      BY <2>13, <3>1 DEF Did, Keeps
  <2>14. CASE Did("splice_tail_init", list, x, NULL, InitListHead(before, list), live)
    <3>1. Reach(InitListHead(before, list), live,
              <<"splice_tail_init", list, x, NULL>>, S)
      <4>1. Promise!SpliceOut(S, Promise!PutBefore(S, x, S[list]), list, TRUE)
            = Promise!Emptied(Promise!Drop(U, list), list)
        BY <2>8 DEF U
      <4>2. QED
        BY <2>9, <4>1 DEF Reach, Promise!After
    <3>2. QED
      BY <2>14, <3>1 DEF Did, Keeps
  <2>15. QED
    BY <2>10, <2>11, <2>12, <2>13, <2>14
<1>5. QED
  BY <1>3, <1>4

(* What list_cut_position finds out by looking at head and entry. *)
LEMMA CutsIf ==
  ASSUME NEW L, NEW A, NEW S, NEW list, NEW h, NEW entry, Good(L, A, S),
         h \in DOMAIN S,
         entry \in RingNodesOf(S, h) \/ ListEmpty(L, h) \/ ListIsSingular(L, h)
  PROVE  ListCutPosition(L, list, h, entry)
         = IF S[h] = <<>> \/ entry \notin RingNodesOf(S, h) THEN L
           ELSE IF entry = h THEN InitListHead(L, list)
           ELSE CutAfter(L, list, h, entry)
<1> DEFINE m == Len(S[h])
           p == Ring(h, S[h])
<1>1. ListEmpty(L, h) <=> S[h] = <<>>
  BY EmptyIs
<1>2. Distinct(h, S[h])
  BY GoodFacts
<1>3. L.next[h] = p[1] /\ L.prev[h] = p[m]
  BY HeadLinks
<1>4. /\ IsRing(p, h, m) /\ RingNodesOf(S, h) = {p[i] : i \in 0..m}
      /\ m \in Nat /\ (S[h] = <<>> <=> m = 0)
  BY <1>2, RingNodes DEF RingNodesOf, Distinct
<1> HIDE DEF m, p
<1>5. p[0] = h /\ \A i, j \in 0..m : p[i] = p[j] => i = j
  BY <1>4 DEF IsRing
<1>6. CASE S[h] = <<>>
  BY <1>1, <1>6 DEF ListCutPosition
<1>7. CASE S[h] # <<>> /\ entry \notin RingNodesOf(S, h)
  <2>1. 0 \in 0..m /\ 1 \in 0..m
    BY <1>4, <1>7
  <2>2. h \in RingNodesOf(S, h) /\ L.next[h] \in RingNodesOf(S, h)
    BY <1>3, <1>4, <1>5, <2>1
  <2>3. QED
    BY <1>1, <1>7, <2>2 DEF ListCutPosition
<1>8. CASE S[h] # <<>> /\ entry \in RingNodesOf(S, h)
  <2>1. ASSUME ListIsSingular(L, h) PROVE entry \in {h, L.next[h]}
    <3>1. p[1] = p[m]
      BY <1>3, <2>1 DEF ListIsSingular
    <3>2. 1 \in 0..m /\ m \in 0..m
      BY <1>4, <1>8
    <3>3. m = 1
      BY <1>5, <3>1, <3>2
    <3>4. PICK i \in 0..m : entry = p[i]
      BY <1>4, <1>8
    <3>5. i = 0 \/ i = 1
      BY <3>3
    <3>6. QED
      BY <1>3, <1>5, <3>4, <3>5
  <2>2. QED
    BY <1>1, <1>8, <2>1 DEF ListCutPosition
<1>9. QED
  BY <1>6, <1>7, <1>8

(* The entries of a list that another one is cut into are lost. *)
LEMMA GoodLost ==
  ASSUME NEW L, NEW A, NEW S, NEW list, Good(L, A, S), list \in Heads
  PROVE  Good(L, A \ (IF list \in A THEN RingNodesOf(S, list) ELSE {}),
              Promise!Drop(S, list))
<1>1. DOMAIN S = A \cap Heads /\ S = [k \in A \cap Heads |-> S[k]]
  BY DEF Good
<1>2. CASE list \in A
  BY <1>1, <1>2, GoodDrop
<1>3. CASE list \notin A
  <2>1. DOMAIN S \ {list} = DOMAIN S
    BY <1>1, <1>3
  <2>2. Promise!Drop(S, list) = S
    BY <1>1, <2>1 DEF Promise!Drop
  <2>3. A \ {} = A
    OBVIOUS
  <2>4. QED
    BY <1>3, <2>2, <2>3
<1>4. QED
  BY <1>2, <1>3

LEMMA CutNothing ==
  ASSUME NEW S, NEW list, NEW h \in DOMAIN S \ {list}, S[h] \in Seq(Entries)
  PROVE  Promise!CutTo(S, list, h, 0) = Promise!With(S, list, <<>>)
<1> DEFINE s == S[h]
<1>1. SubSeq(s, 1, 0) = <<>>
  BY SubSeqParts
<1>2. SubSeq(s, 0 + 1, Len(s)) = s
  BY SubSeqParts
<1> HIDE DEF s
<1>3. Promise!CutTo(S, list, h, 0) = Promise!With(Promise!With(S, list, <<>>), h, s)
  BY <1>1, <1>2 DEF Promise!CutTo, s
<1>4. Promise!With(S, list, <<>>)
      = [k \in DOMAIN S \cup {list} |-> IF k = list THEN <<>> ELSE S[k]]
  BY DEF Promise!With
<1>5. (DOMAIN S \cup {list}) \cup {h} = DOMAIN S \cup {list}
  OBVIOUS
<1>6. QED
  BY <1>3, <1>4, <1>5 DEF Promise!With, s

LEMMA CutPositionKeeps ==
  ASSUME NEW S, Good(heap, live, S), NEW list \in Heads, NEW h \in Heads,
         NEW entry, CutPosition(list, h, entry)
  PROVE  Keeps(S)
<1> DEFINE cuts == ~ListEmpty(heap, h) /\ entry \in RingOf(h)
           lost == IF list \in live THEN Listed(list) ELSE {}
           C == ListCutPosition(heap, list, h, entry)
           c == <<"cut_position", list, h, entry>>
           N == IF list \in live THEN RingNodesOf(S, list) ELSE {}
           A == live \ N
           T == Promise!Drop(S, list)
<1>1. /\ h \in live /\ list # h /\ entry \in Places \ RingOf(list)
      /\ \/ entry \in RingOf(h) \/ ListEmpty(heap, h) \/ ListIsSingular(heap, h)
      /\ Did("cut_position", list, h, entry, C,
             IF cuts THEN (live \ lost) \cup {list} ELSE live)
  BY DEF CutPosition
<1>2. h \in DOMAIN S /\ h \in LiveHeads /\ RingOf(h) = RingNodesOf(S, h)
  BY <1>1, CallerSees DEF Good, LiveHeads
<1>3. cuts <=> S[h] # <<>> /\ entry \in RingNodesOf(S, h)
  BY <1>2, EmptyIs
<1>4. C = IF ~cuts THEN heap
          ELSE IF entry = h THEN InitListHead(heap, list)
          ELSE CutAfter(heap, list, h, entry)
  <2>1. entry \in RingNodesOf(S, h) \/ ListEmpty(heap, h) \/ ListIsSingular(heap, h)
    BY <1>1, <1>2
  <2>2. C = IF S[h] = <<>> \/ entry \notin RingNodesOf(S, h) THEN heap
            ELSE IF entry = h THEN InitListHead(heap, list)
            ELSE CutAfter(heap, list, h, entry)
    BY <1>2, <2>1, CutsIf
  <2> HIDE DEF cuts, C
  <2>3. QED
    BY <1>3, <2>2
<1>5. PICK g \in DOMAIN S : entry \in RingNodesOf(S, g)
  BY <1>1, CallerSees
<1>6. Promise!HeadOf(S, entry) = g
  BY <1>5, HeadIs
<1>7. CASE ~cuts
  <2>1. S[h] = <<>> \/ Promise!HeadOf(S, entry) # h
    BY <1>3, <1>5, <1>6, <1>7
  <2>2. Promise!After(S, "cut_position", list, h, entry) = S
    BY <2>1 DEF Promise!After
  <2>3. Reach(heap, live, c, S)
    BY <2>2 DEF Reach
  <2>4. heap' = heap /\ live' = live /\ call' = c
    BY <1>1, <1>4, <1>7 DEF Did
  <2> HIDE DEF c
  <2>5. QED
    BY <2>3, <2>4 DEF Keeps
<1>8. CASE cuts
  <2>1. Promise!HeadOf(S, entry) = h
    BY <1>2, <1>3, <1>8, HeadIs
  <2>2. PICK num \in 0..Len(S[h]) : entry = Ring(h, S[h])[num]
    BY <1>2, <1>3, <1>8, PlaceIs
  <2>3. Distinct(h, S[h]) /\ S[h] \in Seq(Entries)
    BY <1>2, GoodFacts DEF Distinct
  <2>4. Promise!IndexIn(S, h, entry) = num /\ (entry = h <=> num = 0)
    BY <2>2, <2>3, IndexIs
  <2> DEFINE U == Promise!CutTo(S, list, h, num)
  <2>5. Promise!After(S, "cut_position", list, h, entry) = U
    BY <1>3, <1>8, <2>1, <2>4 DEF Promise!After
  <2>6. Good(heap, A, T)
    BY GoodLost
  <2>7. list \in Heads \ A /\ list \in Nodes \ A
    BY DEF RingNodesOf, Nodes
  <2>8. A \cup {list} = (live \ lost) \cup {list}
    <3>1. list \in live => Listed(list) = ToSet(S[list])
      BY CallerSees DEF LiveHeads
    <3>2. QED
      BY <3>1 DEF RingNodesOf
  <2>9. T[h] = S[h] /\ h \in DOMAIN T
    BY <1>1, <1>2 DEF Promise!Drop
  <2>10. heap' = C /\ live' = A \cup {list} /\ call' = c
    BY <1>1, <1>8, <2>8 DEF Did
  <2>11. Good(C, A \cup {list}, U)
    <3>1. CASE num = 0
      <4>1. C = InitListHead(heap, list)
        BY <1>4, <1>8, <2>4, <3>1
      <4>2. U = Promise!With(S, list, <<>>)
        BY <1>1, <1>2, <2>3, <3>1, CutNothing
      <4>3. U = Promise!Emptied(T, list)
        BY <4>2, WithDrop DEF Promise!Emptied
      <4> HIDE DEF A, T, U, C
      <4>4. QED
        BY <2>6, <2>7, <4>1, <4>3, GoodInit
    <3>2. CASE num # 0
      <4>1. C = CutAfter(heap, list, h, entry)
        BY <1>4, <1>8, <2>4, <3>2
      <4>2. num \in 1..Len(S[h])
        BY <2>2, <3>2
      <4>3. U = Promise!CutTo(T, list, h, num)
        <5>1. \A w : Promise!With(T, list, w) = Promise!With(S, list, w)
          BY WithDrop
        <5> HIDE DEF T
        <5>2. QED
          BY <2>9, <5>1 DEF Promise!CutTo
      <4>4. CutFits(A, T, list, h, num, entry)
        BY <2>2, <2>7, <2>9, <4>2 DEF CutFits
      <4> HIDE DEF A, T, U, C
      <4>5. QED
        BY <2>6, <4>1, <4>3, <4>4, GoodCut
    <3>3. QED
      BY <3>1, <3>2
  <2> HIDE DEF A, U, C
  <2>12. Reach(C, A \cup {list}, c, S)
    BY <2>5, <2>11 DEF Reach
  <2> HIDE DEF c
  <2>13. QED
    BY <2>10, <2>12 DEF Keeps
<1>9. QED
  BY <1>7, <1>8

-----------------------------------------------------------------------------
(* What a set of nodes in use that stands for lists looks like from the    *)
(* outside.                                                                *)
LEMMA GoodClosed ==
  ASSUME NEW L, NEW A, NEW S, Good(L, A, S)
  PROVE  RingClosed(L, A)
<1>1. ASSUME NEW h \in DOMAIN S, NEW x \in RingNodesOf(S, h)
      PROVE  /\ L.next[x] \in A /\ L.prev[L.next[x]] = x
             /\ L.prev[x] \in A /\ L.next[L.prev[x]] = x
  <2> DEFINE p == Ring(h, S[h])
  <2>1. Links(L, p, 0..Len(S[h])) /\ RingNodesOf(S, h) \subseteq A
    BY GoodFacts DEF Path
  <2>2. PICK i \in 0..Len(S[h]) : x = p[i]
    BY PlaceIs
  <2>3. PICK j \in 0..Len(S[h]) : x = p[j + 1]
    BY PlaceIs
  <2>4. p[i + 1] \in A /\ p[j] \in A
    <3>1. p[i + 1] \in RingNodesOf(S, h)
      BY RingNodeOf
    <3>2. p[j] \in RingNodesOf(S, h)
      BY RingNodeOf
    <3>3. QED
      BY <2>1, <3>1, <3>2
  <2>5. Linked(L, p[i], p[i + 1]) /\ Linked(L, p[j], p[j + 1])
    BY <2>1 DEF Links
  <2> HIDE DEF p
  <2>6. QED
    BY <2>2, <2>3, <2>4, <2>5 DEF Linked
<1>2. ASSUME NEW x \in A, Alone(L, x)
      PROVE  /\ L.next[x] \in A /\ L.prev[L.next[x]] = x
             /\ L.prev[x] \in A /\ L.next[L.prev[x]] = x
  BY <1>2 DEF Alone, Linked
<1>3. ASSUME NEW x \in A
      PROVE  Alone(L, x) \/ \E h \in DOMAIN S : x \in RingNodesOf(S, h)
  <2>1. DOMAIN S = A \cap Heads /\ (x \in Entries => OnAList(S, x) \/ Alone(L, x))
        /\ x \in Heads \cup Entries
    BY DEF Good, Nodes
  <2>2. QED
    BY <2>1 DEF OnAList, RingNodesOf
<1>4. QED
  BY <1>1, <1>2, <1>3 DEF RingClosed

LEMMA QuestionsAre ==
  ASSUME NEW L, NEW A, NEW S, Good(L, A, S), NEW h \in DOMAIN S
  PROVE  /\ ListEmptyCareful(L, h) <=> S[h] = <<>>
         /\ ListIsSingular(L, h) <=> Len(S[h]) = 1
         /\ \A e \in ToSet(S[h]) : ListIsLast(L, e, h) <=> Last(S[h]) = e
<1> DEFINE s == S[h]
           m == Len(s)
           p == Ring(h, s)
<1>1. Distinct(h, s) /\ Path(L, h, s)
  BY GoodFacts
<1>2. (s = <<>> <=> m = 0) /\ m \in Nat /\ Injective(s, m) /\ Last(s) = s[m]
  BY <1>1 DEF Distinct, Last
<1>3. /\ IsRing(p, h, m) /\ Links(L, p, 0..m) /\ \A i \in 1..m : p[i] = s[i]
      /\ ToSet(s) = Elements(s, m)
  BY <1>1, RingNodes DEF Path
<1>4. L.next[h] = h <=> s = <<>>
  BY EmptyIs DEF ListEmpty
<1> HIDE DEF s, m, p
<1>5. /\ p[0] = h /\ p[m + 1] = h
      /\ \A i, j \in 0..m : p[i] = p[j] => i = j
  BY <1>3 DEF IsRing
<1>6. L.next[h] = p[1] /\ L.prev[h] = p[m]
  <2>1. Linked(L, p[0], p[0 + 1]) /\ Linked(L, p[m], p[m + 1])
    BY <1>2, <1>3 DEF Links
  <2>2. QED
    BY <1>5, <2>1 DEF Linked
<1>7. m # 0 => 1 \in 0..m /\ 0 \in 0..m /\ m \in 0..m
  BY <1>2
<1>8. p[m] = h <=> m = 0
  BY <1>5, <1>7
<1>9. ListEmptyCareful(L, h) <=> s = <<>>
  BY <1>2, <1>4, <1>6, <1>8 DEF ListEmptyCareful
<1>10. ListIsSingular(L, h) <=> m = 1
  <2>1. m # 0 /\ p[1] = p[m] <=> m = 1
    BY <1>5, <1>7
  <2>2. QED
    BY <1>2, <1>4, <1>6, <2>1 DEF ListIsSingular, ListEmpty
<1>11. ASSUME NEW e \in ToSet(s) PROVE ListIsLast(L, e, h) <=> Last(s) = e
  <2>1. PICK i \in 1..m : e = s[i]
    BY <1>3 DEF Elements
  <2>2. i \in 0..m /\ m \in 1..m /\ 0 \in 0..m /\ (i # m => i + 1 \in 0..m /\ i + 1 # 0)
    BY <1>2
  <2>3. L.next[e] = p[i + 1]
    BY <1>3, <2>1, <2>2 DEF Links, Linked
  <2>4. p[i + 1] = h <=> i = m
    BY <1>5, <2>2
  <2>5. s[m] = e <=> i = m
    BY <1>2, <2>1, <2>2 DEF Injective
  <2>6. QED
    BY <1>2, <2>3, <2>4, <2>5 DEF ListIsLast
<1>12. QED
  BY <1>9, <1>10, <1>11 DEF s, m

(* The inductive invariant of programs that use list_head. *)
OpsInv == Good(heap, live, AsSequences)

LEMMA OpsRings ==
  ASSUME OpsInv
  PROVE  RingsRight
<1>1. PICK S : S = AsSequences
  OBVIOUS
<1>2. Good(heap, live, S)
  BY <1>1 DEF OpsInv
<1>3. LiveRings
  BY <1>2, GoodClosed DEF LiveRings
<1>4. /\ LiveHeads = DOMAIN S
      /\ \A h \in LiveHeads :
           /\ Contents(h) = S[h] /\ Listed(h) = ToSet(S[h])
           /\ RingOf(h) = RingNodesOf(S, h)
      /\ \A e : e \in OnList <=> OnAList(S, e)
  BY <1>2, CallerSees
<1>5. OneHeadPerRing
  <2>1. /\ \A g, h \in DOMAIN S :
             g # h => RingNodesOf(S, g) \cap RingNodesOf(S, h) = {}
        /\ \A h \in DOMAIN S : ToSet(S[h]) \cap Heads = {}
    BY <1>2, GoodFacts
  <2>2. ASSUME NEW e \in live \cap Entries
        PROVE  e \in OnList \/ heap.next[e] = e
    <3>1. OnAList(S, e) \/ Alone(heap, e)
      BY <1>2 DEF Good
    <3>2. QED
      BY <1>4, <3>1 DEF Alone, Linked
  <2>3. QED
    BY <1>4, <2>1, <2>2 DEF OneHeadPerRing
<1>6. QuestionsRight
  <2>1. SUFFICES ASSUME NEW h \in DOMAIN S
                 PROVE  /\ Walk(heap.prev, h) = Reverse(S[h])
                        /\ ListEmptyCareful(heap, h) <=> S[h] = <<>>
                        /\ ListIsSingular(heap, h) <=> Len(S[h]) = 1
                        /\ \A e \in ToSet(S[h]) :
                             ListIsLast(heap, e, h) <=> Last(S[h]) = e
    BY <1>4 DEF QuestionsRight
  <2>2. Path(heap, h, S[h])
    BY <1>2, GoodFacts
  <2>3. QED
    BY <1>2, <2>2, WalkBackwards, QuestionsAre
<1>7. QED
  BY <1>3, <1>5, <1>6 DEF RingsRight

LEMMA NextKeeps ==
  ASSUME NEW S, Good(heap, live, S), Next
  PROVE  Keeps(S)
<1>1. CASE \E x \in Nodes : InitHead(x)
  BY <1>1, InitHeadKeeps
<1>2. CASE \E e \in Entries, x \in Nodes : Add(e, x) \/ Move(e, x)
  BY <1>2, AddKeeps, MoveKeeps
<1>3. CASE \E e \in Entries : Del(e)
  BY <1>3, DelKeeps
<1>4. CASE \E old, new \in Nodes : Replace(old, new)
  BY <1>4, ReplaceKeeps
<1>5. CASE \E h \in Heads : RotateLeft(h)
  BY <1>5, RotateLeftKeeps
<1>6. CASE \E list, h \in Heads, entry \in Nodes : CutPosition(list, h, entry)
  BY <1>6, CutPositionKeeps
<1>7. CASE \E list \in Heads, x \in Nodes : Splice(list, x)
  BY <1>7, SpliceKeeps
<1>8. QED
  BY <1>1, <1>2, <1>3, <1>4, <1>5, <1>6, <1>7 DEF Next

LEMMA OpsInit ==
  ASSUME Init
  PROVE  OpsInv /\ Promise!Init
<1>1. /\ heap = [next |-> [x \in Nodes |-> NULL], prev |-> [x \in Nodes |-> NULL]]
      /\ live = {} /\ call[1] = "none"
  BY DEF Init
<1>2. AsSequences = [h \in {} |-> <<>>] /\ AsSequences = [h \in {} |-> AsSequences[h]]
  BY <1>1 DEF AsSequences, LiveHeads
<1>3. Heap(heap, Nodes)
  BY <1>1 DEF Heap
<1>4. live \cap Heads = {} /\ live \cap Entries = {} /\ live \subseteq Nodes
  BY <1>1
<1>5. OpsInv
  BY <1>2, <1>3, <1>4 DEF OpsInv, Good
<1>6. Promise!Init
  BY <1>1, <1>2 DEF Promise!Init
<1>7. QED
  BY <1>5, <1>6

LEMMA OpsNext ==
  ASSUME OpsInv, Next
  PROVE  OpsInv' /\ Promise!Next
<1>1. PICK S : S = AsSequences
  OBVIOUS
<1>2. PICK T : T = Promise!After(S, call'[1], call'[2], call'[3], call'[4])
  OBVIOUS
<1>3. Good(heap, live, S)
  BY <1>1 DEF OpsInv
<1>4. Good(heap', live', T)
  BY <1>2, <1>3, NextKeeps DEF Keeps, Reach
<1>5. AsSequences' = ReadOff(heap', live')
  BY DEF AsSequences, ReadOff, LiveHeads, Contents
<1>6. AsSequences' = T
  BY <1>4, <1>5, ReadOffIs
<1>7. OpsInv'
  BY <1>4, <1>6 DEF OpsInv
<1>8. Promise!Next
  BY <1>1, <1>2, <1>6 DEF Promise!Next
<1>9. QED
  BY <1>7, <1>8

LEMMA OpsStays ==
  ASSUME OpsInv, [Next]_vars
  PROVE  OpsInv' /\ [Promise!Next]_<<AsSequences, call>>
<1>1. CASE Next
  BY <1>1, OpsNext
<1>2. CASE UNCHANGED vars
  BY <1>2 DEF vars, OpsInv, AsSequences, LiveHeads, Contents
<1>3. QED
  BY <1>1, <1>2

(* Whatever calls a program makes, within what the header's comments       *)
(* allow, the pointers of its lists are closed rings of the nodes in use,  *)
(* one head to a ring, and the one-look questions are answered rightly.    *)
THEOREM RingsAreRight == Spec => []RingsRight
<1>1. Init => OpsInv
  BY OpsInit
<1>2. OpsInv /\ [Next]_vars => OpsInv'
  BY OpsStays
<1>3. OpsInv => RingsRight
  BY OpsRings
<1>4. QED
  BY <1>1, <1>2, <1>3, PTL DEF Spec

(* Read as sequences, the pointers implement what the header promises:     *)
(* every call changes the sequences as its comment says.                   *)
THEOREM ListsImplementSequences == Spec => ListsAreSequences
<1>1. Init => OpsInv /\ Promise!Init
  BY OpsInit
<1>2. OpsInv /\ [Next]_vars => OpsInv' /\ [Promise!Next]_<<AsSequences, call>>
  BY OpsStays
<1>3. QED
  BY <1>1, <1>2, PTL DEF Spec, ListsAreSequences, Promise!Spec
=============================================================================
