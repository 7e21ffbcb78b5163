--------------------------- MODULE ListLoopProofs ---------------------------
(***************************************************************************)
(* Proofs about the other half of include/list.h, for any finite sets of   *)
(* heads and entries: programs that use hlists, and every loop over lists  *)
(* of either kind.                                                         *)
(***************************************************************************)
EXTENDS Lists, ListOpsProofs

-----------------------------------------------------------------------------
(* Hlists.  A list with a one-pointer head is a ring of which the head's   *)
(* back pointer is left out: its links f and p agree with some ring L on   *)
(* the nodes A in use.  A node on no list has no links, or its pprev is    *)
(* its own, which is hlist_add_fake's.                                     *)
Forward(L, x) == IF L.next[x] \in Heads \cup {x} THEN NULL ELSE L.next[x]

LinkFields(f, p) ==
  f \in [Nodes -> Nodes \cup {NULL}] /\ p \in [Entries -> Nodes \cup {NULL}]

Agree(f, p, A, L) ==
  /\ LinkFields(f, p)
  /\ \A x \in A : f[x] = Forward(L, x)
  /\ \A e \in A \cap Entries : p[e] = L.prev[e] \/ (L.prev[e] = e /\ p[e] = NULL)

Held(f, p, A, S) == \E L : Good(L, A, S) /\ Agree(f, p, A, L)

(* What the nodes in use know of their neighbours. *)
LEMMA Neighbours ==
  ASSUME NEW L, NEW A, NEW S, Good(L, A, S), NEW x \in A
  PROVE  /\ L.next[x] \in A /\ L.prev[x] \in A /\ x \in Nodes /\ x # NULL
         /\ L.next[x] \in Nodes /\ L.prev[x] \in Nodes
         /\ L.prev[L.next[x]] = x /\ L.next[L.prev[x]] = x
         /\ L.next[x] # NULL /\ L.prev[x] # NULL
<1>1. A \subseteq Nodes
  BY DEF Good
<1>2. /\ L.next[x] \in A /\ L.prev[L.next[x]] = x
      /\ L.prev[x] \in A /\ L.next[L.prev[x]] = x
  BY GoodClosed DEF RingClosed
<1>3. QED
  BY <1>1, <1>2, NodesAssumption

LEMMA ListedHas ==
  ASSUME NEW L, NEW A, NEW S, Good(L, A, S), NEW h \in DOMAIN S,
         NEW e \in ToSet(S[h])
  PROVE  /\ L.next[e] # e /\ L.prev[e] # e /\ e \in A \cap Entries
         /\ L.next[e] \in Heads \/ L.next[e] # L.prev[e]
<1> DEFINE m == Len(S[h])
           c == Ring(h, S[h])
<1>1. Distinct(h, S[h]) /\ Path(L, h, S[h]) /\ ToSet(S[h]) \subseteq A \cap Entries
  BY GoodFacts
<1>2. /\ IsRing(c, h, m) /\ \A i \in 1..m : c[i] = S[h][i]
      /\ ToSet(S[h]) = Elements(S[h], m)
      /\ Links(L, c, 0..m) /\ h \in Heads
  BY <1>1, RingNodes DEF Path, Distinct
<1> HIDE DEF m, c
<1>3. PICK i \in 1..m : e = c[i]
  BY <1>2 DEF Elements
<1>4. /\ m \in Nat /\ c[0] = h /\ c[m + 1] = h
      /\ \A j, k \in 0..m : c[j] = c[k] => j = k
  BY <1>2 DEF IsRing
<1>5. i - 1 \in 0..m /\ (i - 1) + 1 = i /\ i \in 0..m /\ 0 \in 0..m /\ i # 0 /\ i # i - 1
  BY <1>4
<1>6. Linked(L, c[i - 1], c[(i - 1) + 1]) /\ Linked(L, c[i], c[i + 1])
  BY <1>2, <1>5 DEF Links
<1>7. L.prev[e] = c[i - 1] /\ L.next[e] = c[i + 1]
  BY <1>3, <1>5, <1>6 DEF Linked
<1>8. c[i - 1] # c[i]
  BY <1>4, <1>5
<1>9. CASE i = m
  BY <1>1, <1>2, <1>3, <1>4, <1>5, <1>7, <1>8, <1>9
<1>10. CASE i # m
  <2>1. i + 1 \in 0..m /\ i + 1 # i /\ i + 1 # i - 1
    BY <1>4, <1>10
  <2>2. c[i + 1] # c[i] /\ c[i + 1] # c[i - 1]
    BY <1>4, <1>5, <2>1
  <2>3. QED
    BY <1>1, <1>3, <1>7, <1>8, <2>2
<1>11. QED
  BY <1>9, <1>10

LEMMA LooseHas ==
  ASSUME NEW L, NEW A, NEW S, Good(L, A, S), NEW e \in A \cap Entries,
         ~OnAList(S, e)
  PROVE  L.next[e] = e /\ L.prev[e] = e
BY DEF Good, Alone, Linked

(* The chain of a head is its list, and of a listed node what follows it.  *)
LEMMA SameCount ==
  ASSUME NEW X
  PROVE  H!Cardinality(X) = Cardinality(X)
BY DEF H!Cardinality, Cardinality

LEMMA SameSteps ==
  ASSUME NEW f, NEW o
  PROVE  H!Steps(f, o) = Steps(f, o) /\ H!Owners = Nodes
<1>1. H!Owners = Nodes
  BY DEF H!Owners, Nodes
<1>2. Steps(f, o) = CHOOSE a : IsSteps(f, o, Cardinality(Nodes), a)
  BY DEF Steps, IsSteps
<1>3. H!Steps(f, o) = CHOOSE a : IsSteps(f, o, H!Cardinality(H!Owners), a)
  BY DEF H!Steps, IsSteps
<1>4. QED
  BY <1>1, <1>2, <1>3, SameCount

LEMMA StepsEnd ==
  ASSUME NEW f, NEW o, NEW m \in 0..Cardinality(Nodes), Steps(f, o)[m] = NULL
  PROVE  \A i \in m..Cardinality(Nodes) : Steps(f, o)[i] = NULL
<1> DEFINE T == {i \in m..Cardinality(Nodes) : Steps(f, o)[i] # NULL}
<1>1. SUFFICES ASSUME T # {} PROVE FALSE
  OBVIOUS
<1>2. Cardinality(Nodes) \in Nat
  BY NodesCounted
<1>3. PICK k \in T : \A y \in T : k <= y
  <2>1. T \subseteq Nat
    BY <1>2
  <2> HIDE DEF T
  <2>2. QED
    BY <1>1, <2>1, LeastNatural
<1>4. k # m
  BY <1>3
<1>5. k - 1 \in m..Cardinality(Nodes) /\ k \in 1..Cardinality(Nodes) /\ ~(k <= k - 1)
  BY <1>2, <1>3, <1>4
<1>6. Steps(f, o)[k - 1] = NULL
  BY <1>3, <1>5
<1>7. Steps(f, o)[k] = NULL
  BY <1>5, <1>6, StepsAre
<1>8. QED
  BY <1>3, <1>7

(* w are the nodes from o on, up to the end. *)
IsChain(f, o, w) ==
  /\ w \in Seq(Entries) /\ Len(w) < Cardinality(Nodes) /\ o \in Nodes
  /\ f[o] = IF w = <<>> THEN NULL ELSE w[1]
  /\ \A i \in 1..Len(w) : f[w[i]] = IF i = Len(w) THEN NULL ELSE w[i + 1]

LEMMA ChainIs ==
  ASSUME NEW f, NEW o, NEW w, IsChain(f, o, w)
  PROVE  H!ChainOf(f, o) = w
<1> DEFINE m == Len(w)
           C == Cardinality(Nodes)
           at == Steps(f, o)
           c == [i \in 0..(m + 1) |-> IF i = 0 THEN o ELSE IF i = m + 1 THEN NULL ELSE w[i]]
<1>1. /\ C \in Nat /\ m \in Nat /\ m + 1 \in 0..C /\ (w = <<>> <=> m = 0)
      /\ w = [i \in 1..m |-> w[i]]
  BY NodesCounted DEF IsChain
<1>2. \A i \in 1..m : w[i] \in Entries
  BY DEF IsChain
<1>3. o # NULL /\ \A i \in 1..m : w[i] # NULL
  BY <1>2, NodesAssumption DEF IsChain, Nodes
<1>4. /\ f[o] = IF m = 0 THEN NULL ELSE w[1]
      /\ \A i \in 1..m : f[w[i]] = IF i = m THEN NULL ELSE w[i + 1]
  BY <1>1 DEF IsChain
<1>a. \A i \in 0..(m + 1) :
        c[i] = IF i = 0 THEN o ELSE IF i = m + 1 THEN NULL ELSE w[i]
  OBVIOUS
<1>n. m \in Nat
  BY <1>1
<1> HIDE DEF m, C, c
<1>5. /\ c[0] = o /\ c[m + 1] = NULL /\ \A i \in 1..m : c[i] = w[i]
  BY <1>n, <1>a
<1>6. ASSUME NEW i \in 0..m PROVE c[i] # NULL /\ f[c[i]] = c[i + 1]
  <2>1. CASE i = 0
    <3>1. c[1] = IF m = 0 THEN NULL ELSE w[1]
      <4>1. CASE m = 0
        BY <1>5, <4>1
      <4>2. CASE m # 0
        <5>1. 1 \in 1..m
          BY <1>1, <4>2
        <5>2. QED
          BY <1>5, <4>2, <5>1
      <4>3. QED
        BY <4>1, <4>2
    <3>2. QED
      BY <1>3, <1>4, <1>5, <2>1, <3>1
  <2>2. CASE i # 0
    <3>1. i \in 1..m /\ (i # m => i + 1 \in 1..m)
      BY <1>1, <2>2
    <3>2. c[i + 1] = IF i = m THEN NULL ELSE w[i + 1]
      BY <1>5, <3>1
    <3>3. QED
      BY <1>3, <1>4, <1>5, <3>1, <3>2
  <2>3. QED
    BY <2>1, <2>2
<1>7. \A i \in 0..(m + 1) : at[i] = c[i]
  <2>1. \A i \in 0..((m + 1) - 1) : c[i] # NULL /\ f[c[i]] = c[i + 1]
    BY <1>1, <1>6
  <2>2. m + 1 \in 0..Cardinality(Nodes) /\ c[0] = o
    BY <1>1, <1>5 DEF C
  <2> HIDE DEF at
  <2>3. QED
    BY <2>1, <2>2, StepsFollow DEF at
<1>8. \A i \in (m + 1)..C : at[i] = NULL
  <2>1. at[m + 1] = NULL /\ m + 1 \in 0..Cardinality(Nodes)
    BY <1>1, <1>5, <1>7 DEF C
  <2>2. QED
    BY <2>1, StepsEnd DEF C
<1>9. \A i \in 1..m : at[i] = w[i] /\ at[i] # NULL
  BY <1>1, <1>3, <1>5, <1>7
<1> HIDE DEF at
<1>10. {i \in 1..C : at[i] # NULL} = 1..m
  <2>1. \A i \in 1..C : i \in 1..m \/ i \in (m + 1)..C
    BY <1>1
  <2>2. \A i \in 1..m : i \in 1..C
    BY <1>1
  <2>3. QED
    BY <1>8, <1>9, <2>1, <2>2
<1>11. Cardinality(1..m) = m
  BY <1>n, FS_Interval
<1>12. H!ChainOf(f, o) = [i \in 1..Cardinality({i \in 1..C : at[i] # NULL}) |-> at[i]]
  <2>1. H!Steps(f, o) = at /\ H!Owners = Nodes
    BY SameSteps DEF at
  <2>2. H!ChainOf(f, o)
        = [i \in 1..H!Cardinality({i \in 1..H!Cardinality(Nodes) : at[i] # NULL})
             |-> at[i]]
    BY <2>1 DEF H!ChainOf
  <2>3. QED
    BY <2>2, SameCount DEF C
<1>13. QED
  BY <1>1, <1>9, <1>10, <1>11, <1>12

LEMMA ChainRest ==
  ASSUME NEW f, NEW p, NEW A, NEW L, NEW S, Good(L, A, S), Agree(f, p, A, L),
         NEW h \in DOMAIN S, NEW i \in 0..Len(S[h])
  PROVE  IsChain(f, Ring(h, S[h])[i], SubSeq(S[h], i + 1, Len(S[h])))
<1> DEFINE s == S[h]
           m == Len(s)
           c == Ring(h, s)
           w == SubSeq(s, i + 1, m)
<1>1. Distinct(h, s) /\ Path(L, h, s) /\ RingNodesOf(S, h) \subseteq A
  BY GoodFacts
<1>2. /\ IsRing(c, h, m) /\ \A k \in 1..m : c[k] = s[k] /\ s[k] \notin Heads
      /\ {h} \cup ToSet(s) = {c[k] : k \in 0..m} /\ Links(L, c, 0..m)
  BY <1>1, RingNodes DEF Path
<1>3. s \in Seq(Entries) /\ h \in Heads /\ m \in Nat
  BY <1>1 DEF Distinct
<1>4. w \in Seq(Entries) /\ Len(w) = m - i /\ \A k \in 1..(m - i) : w[k] = s[i + k]
  BY <1>3, SubSeqParts
<1>i. i \in 0..m
  OBVIOUS
<1>5. \A k \in 0..m : f[c[k]] = Forward(L, c[k])
  BY <1>1, <1>2 DEF Agree, RingNodesOf
<1> HIDE DEF m, c, w, s
<1>6. /\ \A k \in 0..(m + 1) : c[k] \in Nodes
      /\ \A j, k \in 0..m : c[j] = c[k] => j = k
      /\ c[0] = h /\ c[m + 1] = h
  BY <1>2 DEF IsRing
<1>7. m + 1 <= Cardinality(Nodes) /\ Cardinality(Nodes) \in Nat
  BY <1>2, RingFits, NodesCounted
<1>8. ASSUME NEW k \in 0..m
      PROVE  f[c[k]] = IF k = m THEN NULL ELSE s[k + 1]
  <2>1. L.next[c[k]] = c[k + 1]
    BY <1>2 DEF Links, Linked
  <2>2. CASE k = m
    BY <1>3, <1>5, <1>6, <2>1, <2>2 DEF Forward
  <2>3. CASE k # m
    <3>1. k + 1 \in 1..m /\ k + 1 \in 0..m /\ k + 1 # k
      BY <1>3, <2>3
    <3>2. c[k + 1] # c[k] /\ c[k + 1] \notin Heads /\ c[k + 1] = s[k + 1]
      BY <1>2, <1>6, <3>1
    <3>3. QED
      BY <1>5, <2>1, <2>3, <3>2 DEF Forward
  <2>4. QED
    BY <2>2, <2>3
<1>9. Len(w) < Cardinality(Nodes) /\ c[i] \in Nodes
  <2>1. Len(w) < Cardinality(Nodes)
    BY <1>3, <1>4, <1>7, <1>i
  <2>2. i \in 0..(m + 1)
    BY <1>3, <1>i
  <2>3. QED
    BY <1>6, <2>1, <2>2
<1>10. f[c[i]] = IF w = <<>> THEN NULL ELSE w[1]
  <2>1. w = <<>> <=> Len(w) = 0
    BY <1>4
  <2>2. w = <<>> <=> i = m
    BY <1>3, <1>4, <1>i, <2>1
  <2>3. i # m => 1 \in 1..(m - i)
    BY <1>3, <1>i
  <2>4. i # m => w[1] = s[i + 1]
    BY <1>4, <2>3
  <2>5. QED
    BY <1>8, <1>i, <2>2, <2>4
<1>11. ASSUME NEW k \in 1..Len(w)
       PROVE  f[w[k]] = IF k = Len(w) THEN NULL ELSE w[k + 1]
  <2>1. k \in 1..(m - i)
    BY <1>4
  <2>2. /\ i + k \in 1..m /\ i + k \in 0..m /\ (k = m - i <=> i + k = m)
        /\ (k # m - i => k + 1 \in 1..(m - i) /\ i + (k + 1) = (i + k) + 1)
    BY <1>3, <1>i, <2>1
  <2>3. w[k] = c[i + k]
    BY <1>2, <1>4, <2>1, <2>2
  <2>4. f[w[k]] = IF k = m - i THEN NULL ELSE s[(i + k) + 1]
    BY <1>8, <2>2, <2>3
  <2>5. k # m - i => w[k + 1] = s[(i + k) + 1]
    BY <1>4, <2>2
  <2>6. Len(w) = m - i
    BY <1>4
  <2>7. QED
    BY <2>4, <2>5, <2>6
<1>12. IsChain(f, c[i], w)
  BY <1>4, <1>9, <1>10, <1>11 DEF IsChain
<1>13. QED
  BY <1>12 DEF m, c, w, s

LEMMA ChainFrom ==
  ASSUME NEW f, NEW p, NEW A, NEW L, NEW S, Good(L, A, S), Agree(f, p, A, L),
         NEW h \in DOMAIN S, NEW i \in 0..Len(S[h])
  PROVE  H!ChainOf(f, Ring(h, S[h])[i]) = SubSeq(S[h], i + 1, Len(S[h]))
BY ChainRest, ChainIs

LEMMA ChainOfHead ==
  ASSUME NEW f, NEW p, NEW A, NEW L, NEW S, Good(L, A, S), Agree(f, p, A, L),
         NEW h \in DOMAIN S
  PROVE  H!ChainOf(f, h) = S[h]
<1> DEFINE s == S[h]
<1>1. Distinct(h, s)
  BY GoodFacts
<1>2. s \in Seq(Entries) /\ Len(s) \in Nat
  BY <1>1 DEF Distinct
<1>3. Ring(h, s)[0] = h
  BY <1>1, RingNodes DEF IsRing
<1>4. SubSeq(s, 0 + 1, Len(s)) = s
  BY <1>2, SubSeqParts
<1>5. 0 \in 0..Len(s)
  BY <1>2
<1>6. H!ChainOf(f, Ring(h, s)[0]) = SubSeq(s, 0 + 1, Len(s))
  BY <1>5, ChainFrom
<1>7. QED
  BY <1>3, <1>4, <1>6

-----------------------------------------------------------------------------
(* The calls, each on the ring and on the links that agree with it. *)
LEMMA AgreeLess ==
  ASSUME NEW f, NEW p, NEW A, NEW L, Agree(f, p, A, L), NEW B \in SUBSET A
  PROVE  Agree(f, p, B, L)
BY DEF Agree

(* e goes behind a: hlist_add_head, hlist_add_before, hlist_add_after.     *)
LinkedIn(f, p, f2, p2, A, e, a) ==
  /\ LinkFields(f2, p2)
  /\ f2[e] = f[a] /\ f2[a] = e /\ \A x \in A \ {a} : f2[x] = f[x]
  /\ p2[e] = a /\ (f[a] # NULL => p2[f[a]] = e)
  /\ \A x \in A \cap Entries : x # f[a] => p2[x] = p[x]

LEMMA LinkAgrees ==
  ASSUME NEW f, NEW p, NEW f2, NEW p2, NEW A, NEW L, NEW S, NEW e, NEW a,
         Good(L, A, S), Agree(f, p, A, L), LinkedIn(f, p, f2, p2, A, e, a),
         e \in Entries \ A, a \in A, a \in Heads \/ L.next[a] # a
  PROVE  Agree(f2, p2, A \cup {e}, LinkBetween(L, e, a, L.next[a]))
<1> DEFINE b == L.next[a]
           M == LinkBetween(L, e, a, b)
<1>1. Heap(L, Nodes) /\ A \subseteq Nodes /\ e \in Nodes
  BY DEF Good, Nodes
<1>2. b \in A /\ b # e /\ a # e /\ e # NULL /\ e \notin Heads
  BY Neighbours, NodesAssumption DEF Nodes
<1>3. b = a => a \in Heads
  OBVIOUS
<1>4. DOMAIN L.next = Nodes /\ DOMAIN L.prev = Nodes
  BY <1>1 DEF Heap
<1>5. /\ M.next = [L.next EXCEPT ![e] = b, ![a] = e]
      /\ M.prev = [L.prev EXCEPT ![b] = e, ![e] = a]
  BY DEF LinkBetween
<1> HIDE DEF M
<1>6. /\ M.next[e] = b /\ M.next[a] = e /\ M.prev[e] = a /\ M.prev[b] = e
      /\ \A x \in A : x # a => M.next[x] = L.next[x]
      /\ \A x \in A : x # b => M.prev[x] = L.prev[x]
  BY <1>1, <1>2, <1>4, <1>5
<1>7. f[a] = IF b \in Heads \cup {a} THEN NULL ELSE b
  BY DEF Agree, Forward
<1>8. ASSUME NEW x \in A \cup {e} PROVE f2[x] = Forward(M, x)
  <2>1. CASE x = e
    BY <1>2, <1>3, <1>6, <1>7, <2>1 DEF LinkedIn, Forward
  <2>2. CASE x = a
    BY <1>2, <1>6, <2>2 DEF LinkedIn, Forward
  <2>3. CASE x # e /\ x # a
    <3>1. f2[x] = f[x] /\ f[x] = Forward(L, x) /\ M.next[x] = L.next[x]
      BY <1>6, <2>3 DEF LinkedIn, Agree
    <3>2. QED
      BY <3>1 DEF Forward
  <2>4. QED
    BY <2>1, <2>2, <2>3
<1>9. ASSUME NEW x \in (A \cup {e}) \cap Entries PROVE p2[x] = M.prev[x] \/ (M.prev[x] = x /\ p2[x] = NULL)
  <2>0. x # NULL /\ x \notin Heads
    BY NodesAssumption DEF Nodes
  <2>1. CASE x = e
    BY <1>6, <2>1 DEF LinkedIn
  <2>2. CASE x # e /\ x = f[a]
    <3>1. x = b
      BY <1>7, <2>0, <2>2
    <3>2. QED
      BY <1>6, <2>0, <2>2, <3>1 DEF LinkedIn
  <2>3. CASE x # e /\ x # f[a]
    <3>1. x # b
      BY <1>3, <1>7, <2>0, <2>3
    <3>2. p2[x] = p[x] /\ M.prev[x] = L.prev[x]
      BY <1>6, <2>3, <3>1 DEF LinkedIn
    <3>3. QED
      BY <2>3, <3>2 DEF Agree
  <2>4. QED
    BY <2>1, <2>2, <2>3
<1>10. QED
  BY <1>8, <1>9 DEF Agree, LinkedIn, M

(* hlist_del and hlist_del_init. *)
LEMMA UnlinkAgrees ==
  ASSUME NEW f, NEW p, NEW A, NEW L, NEW S, NEW e, Good(L, A, S),
         Agree(f, p, A, L), e \in A \cap Entries, p[e] # NULL,
         L.next[e] \in Heads \cup {e} \/ L.next[e] # L.prev[e]
  PROVE  Agree([f EXCEPT ![p[e]] = f[e], ![e] = NULL],
               IF f[e] = NULL THEN [p EXCEPT ![e] = NULL]
               ELSE [p EXCEPT ![f[e]] = p[e], ![e] = NULL],
               A, ListDelInit(L, e))
<1> DEFINE a == L.prev[e]
           b == L.next[e]
           M == ListDelInit(L, e)
           f2 == [f EXCEPT ![p[e]] = f[e], ![e] = NULL]
           p2 == IF f[e] = NULL THEN [p EXCEPT ![e] = NULL]
                 ELSE [p EXCEPT ![f[e]] = p[e], ![e] = NULL]
<1>1. /\ Heap(L, Nodes) /\ A \subseteq Nodes /\ e \in Nodes /\ e # NULL /\ e \notin Heads
      /\ a \in A /\ b \in A /\ (a = e <=> b = e) /\ a \in Nodes /\ b \in Nodes /\ b # NULL
  BY Neighbours, NodesAssumption DEF Good, Nodes
<1>2. DOMAIN L.next = Nodes /\ DOMAIN L.prev = Nodes
  BY <1>1 DEF Heap
<1>3. /\ M.next = [[L.next EXCEPT ![a] = b] EXCEPT ![e] = e]
      /\ M.prev = [[L.prev EXCEPT ![b] = a] EXCEPT ![e] = e]
  BY DEF ListDelInit, JoinNeighbours, InitListHead
<1> HIDE DEF M
<1>4. /\ M.next[e] = e /\ M.prev[e] = e
      /\ \A x \in A : x # e => M.next[x] = IF x = a THEN b ELSE L.next[x]
      /\ \A x \in A : x # e => M.prev[x] = IF x = b THEN a ELSE L.prev[x]
  BY <1>1, <1>2, <1>3
<1>5. p[e] = a /\ f[e] = IF b \in Heads \cup {e} THEN NULL ELSE b
  BY DEF Agree, Forward
<1>6. LinkFields(f, p) /\ b \in Heads \cup Entries
  BY <1>1 DEF Agree, Nodes
<1>7. /\ LinkFields(f2, p2) /\ f2[e] = NULL
      /\ \A x \in A : x # e => f2[x] = IF x = a THEN f[e] ELSE f[x]
  BY <1>1, <1>5, <1>6 DEF LinkFields
<1>8. /\ p2[e] = NULL
      /\ \A x \in A \cap Entries : x # e => p2[x] = IF x = f[e] THEN a ELSE p[x]
  BY <1>1, <1>5, <1>6, NodesAssumption DEF LinkFields, Nodes
<1> HIDE DEF f2, p2
<1>9. ASSUME NEW x \in A PROVE f2[x] = Forward(M, x)
  <2>1. CASE x = e
    BY <1>4, <1>7, <2>1 DEF Forward
  <2>2. CASE x # e /\ x = a
    <3>1. b \in Heads \/ b # a
      BY <1>1, <2>2
    <3>2. QED
      BY <1>1, <1>4, <1>5, <1>7, <2>2, <3>1 DEF Forward
  <2>3. CASE x # e /\ x # a
    <3>1. f2[x] = f[x] /\ f[x] = Forward(L, x) /\ M.next[x] = L.next[x]
      BY <1>4, <1>7, <2>3 DEF Agree
    <3>2. QED
      BY <3>1 DEF Forward
  <2>4. QED
    BY <2>1, <2>2, <2>3
<1>10. ASSUME NEW x \in A \cap Entries
       PROVE  p2[x] = M.prev[x] \/ (M.prev[x] = x /\ p2[x] = NULL)
  <2>0. x # NULL /\ x \notin Heads
    BY NodesAssumption DEF Nodes
  <2>1. CASE x = e
    BY <1>4, <1>8, <2>1
  <2>2. CASE x # e /\ x = b
    BY <1>4, <1>5, <1>8, <2>0, <2>2
  <2>3. CASE x # e /\ x # b
    <3>1. x # f[e]
      BY <1>5, <2>0, <2>3
    <3>2. p2[x] = p[x] /\ M.prev[x] = L.prev[x]
      BY <1>4, <1>8, <2>3, <3>1
    <3>3. QED
      BY <3>2 DEF Agree
  <2>4. QED
    BY <2>1, <2>2, <2>3
<1>11. QED
  BY <1>7, <1>9, <1>10 DEF Agree, M, f2, p2

(* INIT_HLIST_HEAD and INIT_HLIST_NODE. *)
LEMMA InitAgrees ==
  ASSUME NEW f, NEW p, NEW f2, NEW p2, NEW A, NEW L, NEW S, NEW x, Good(L, A, S),
         Agree(f, p, A, L), x \in Nodes \ A, f2 = [f EXCEPT ![x] = NULL],
         p2 = IF x \in Entries THEN [p EXCEPT ![x] = NULL] ELSE p
  PROVE  Agree(f2, p2, A \cup {x}, InitListHead(L, x))
<1> DEFINE M == InitListHead(L, x)
<1>1. Heap(L, Nodes) /\ A \subseteq Nodes /\ LinkFields(f, p)
  BY DEF Good, Agree
<1>2. DOMAIN L.next = Nodes /\ DOMAIN L.prev = Nodes
  BY <1>1 DEF Heap
<1>3. M.next = [L.next EXCEPT ![x] = x] /\ M.prev = [L.prev EXCEPT ![x] = x]
  BY DEF InitListHead
<1> HIDE DEF M
<1>4. /\ M.next[x] = x /\ M.prev[x] = x
      /\ \A y \in A : M.next[y] = L.next[y] /\ M.prev[y] = L.prev[y]
  BY <1>1, <1>2, <1>3
<1>5. /\ LinkFields(f2, p2) /\ f2[x] = NULL /\ (x \in Entries => p2[x] = NULL)
      /\ \A y \in A : f2[y] = f[y]
      /\ \A y \in A \cap Entries : p2[y] = p[y]
  BY <1>1 DEF LinkFields
<1>6. \A y \in A \cup {x} : f2[y] = Forward(M, y)
  BY <1>4, <1>5 DEF Agree, Forward
<1>7. \A y \in (A \cup {x}) \cap Entries :
        p2[y] = M.prev[y] \/ (M.prev[y] = y /\ p2[y] = NULL)
  BY <1>4, <1>5 DEF Agree
<1>8. QED
  BY <1>5, <1>6, <1>7 DEF Agree, M

(* hlist_move_list, on the rings a replaced and re-initialised head. *)
LEMMA MoveAgrees ==
  ASSUME NEW f, NEW p, NEW f2, NEW p2, NEW A, NEW L, NEW S, NEW old, NEW new,
         Good(L, A, S), Agree(f, p, A, L), old \in A \cap Heads, new \in Heads \ A,
         f2 = [f EXCEPT ![new] = f[old], ![old] = NULL],
         p2 = IF f[old] = NULL THEN p ELSE [p EXCEPT ![f[old]] = new]
  PROVE  Agree(f2, p2, A \cup {new}, ListReplaceInit(L, old, new))
<1> DEFINE a == L.next[old]
           z == L.prev[old]
           M == ListReplaceInit(L, old, new)
<1>1. /\ Heap(L, Nodes) /\ A \subseteq Nodes /\ LinkFields(f, p)
      /\ old \in Nodes /\ new \in Nodes /\ old # new /\ old # NULL
  BY NodesAssumption DEF Good, Agree, Nodes
<1>2. /\ a \in A /\ z \in A /\ a \in Nodes /\ z \in Nodes /\ a # NULL
      /\ L.prev[a] = old /\ L.next[z] = old
  BY Neighbours
<1>3. DOMAIN L.next = Nodes /\ DOMAIN L.prev = Nodes
  BY <1>1 DEF Heap
<1>4. /\ M.next[old] = old /\ M.prev[old] = old
      /\ M.next[new] = (IF a = old THEN new ELSE a)
      /\ \A x \in A \ {old} : M.next[x] = IF x = z THEN new ELSE L.next[x]
      /\ \A x \in A \ {old} : M.prev[x] = IF x = a THEN new ELSE L.prev[x]
  <2> DEFINE prev1 == [L.prev EXCEPT ![a] = new]
             before == prev1[old]
  <2>1. /\ M.next = [[L.next EXCEPT ![new] = a, ![before] = new] EXCEPT ![old] = old]
        /\ M.prev = [[prev1 EXCEPT ![new] = before] EXCEPT ![old] = old]
    BY DEF ListReplaceInit, ListReplace, InitListHead
  <2>2. before = IF a = old THEN new ELSE z
    BY <1>1, <1>2, <1>3
  <2>3. a = old <=> z = old
    BY <1>2
  <2>4. DOMAIN prev1 = Nodes /\ \A x \in Nodes : prev1[x] = IF x = a THEN new ELSE L.prev[x]
    BY <1>2, <1>3
  <2> HIDE DEF M, prev1, before
  <2>5. QED
    BY <1>1, <1>2, <1>3, <2>1, <2>2, <2>3, <2>4
<1> HIDE DEF M
<1>5. f[old] = IF a \in Heads \cup {old} THEN NULL ELSE a
  BY DEF Agree, Forward
<1>6. /\ LinkFields(f2, p2) /\ f2[old] = NULL /\ f2[new] = f[old]
      /\ \A x \in A \ {old} : f2[x] = f[x]
      /\ \A x \in A \cap Entries : p2[x] = IF x = f[old] THEN new ELSE p[x]
  <2>1. f[old] # NULL => f[old] \in Entries
    BY <1>2, <1>5 DEF Nodes
  <2>2. \A x \in Entries : x # NULL
    BY NodesAssumption DEF Nodes
  <2>3. QED
    BY <1>1, <2>1, <2>2 DEF LinkFields
<1>7. ASSUME NEW x \in A \cup {new} PROVE f2[x] = Forward(M, x)
  <2>1. CASE x = old
    BY <1>4, <1>6, <2>1 DEF Forward
  <2>2. CASE x = new
    BY <1>1, <1>2, <1>4, <1>5, <1>6, <2>2 DEF Forward
  <2>3. CASE x \in A \ {old}
    <3>1. f2[x] = Forward(L, x)
      BY <1>6, <2>3 DEF Agree
    <3>2. QED
      BY <1>2, <1>4, <2>3, <3>1 DEF Forward
  <2>4. QED
    BY <2>1, <2>2, <2>3
<1>8. ASSUME NEW x \in (A \cup {new}) \cap Entries
      PROVE  p2[x] = M.prev[x] \/ (M.prev[x] = x /\ p2[x] = NULL)
  <2>1. x \in A \ {old} /\ x \in A \cap Entries /\ x \notin Heads /\ x # NULL /\ x # new
    BY NodesAssumption DEF Nodes
  <2>2. x = f[old] <=> x = a
    BY <1>2, <1>5, <2>1
  <2>3. p[x] = L.prev[x] \/ (L.prev[x] = x /\ p[x] = NULL)
    BY <2>1 DEF Agree
  <2>4. M.prev[x] = IF x = a THEN new ELSE L.prev[x]
    BY <1>4, <2>1
  <2>5. p2[x] = IF x = a THEN new ELSE p[x]
    BY <1>6, <2>1, <2>2
  <2>6. QED
    BY <2>3, <2>4, <2>5
<1>9. QED
  BY <1>6, <1>7, <1>8 DEF Agree, M

LEMMA LinkIs ==
  ASSUME NEW f, NEW p, NEW f2, NEW p2, NEW A, NEW L, NEW S, NEW e, NEW a,
         Good(L, A, S), Agree(f, p, A, L), e \in Entries \ A, a \in A,
         f2 = [f EXCEPT ![e] = f[a], ![a] = e],
         \/ p2 = IF f[a] = NULL THEN [p EXCEPT ![e] = a]
                 ELSE [p EXCEPT ![f[a]] = e, ![e] = a]
         \/ p2 = IF f[a] = NULL THEN [p EXCEPT ![e] = a]
                 ELSE [p EXCEPT ![e] = a, ![f[a]] = e]
  PROVE  LinkedIn(f, p, f2, p2, A, e, a)
<1>1. /\ LinkFields(f, p) /\ a \in Nodes /\ e \in Nodes /\ a # e /\ A \subseteq Nodes
  BY Neighbours DEF Agree, Good, Nodes
<1>2. f[a] # NULL => f[a] \in Entries /\ f[a] # e
  <2>1. f[a] = IF L.next[a] \in Heads \cup {a} THEN NULL ELSE L.next[a]
    BY DEF Agree, Forward
  <2>2. L.next[a] \in A /\ L.next[a] \in Nodes
    BY Neighbours
  <2>3. QED
    BY <2>1, <2>2 DEF Nodes
<1>3. /\ f2 \in [Nodes -> Nodes \cup {NULL}]
      /\ f2[e] = f[a] /\ f2[a] = e /\ \A x \in A \ {a} : f2[x] = f[x]
  BY <1>1 DEF LinkFields
<1>4. /\ p2 \in [Entries -> Nodes \cup {NULL}] /\ p2[e] = a
      /\ f[a] # NULL => p2[f[a]] = e
      /\ \A x \in A \cap Entries : x # f[a] => p2[x] = p[x]
  <2>1. CASE f[a] = NULL
    BY <1>1, <2>1 DEF LinkFields
  <2>2. CASE f[a] # NULL
    BY <1>1, <1>2, <2>2 DEF LinkFields
  <2>3. QED
    BY <2>1, <2>2
<1>5. QED
  BY <1>3, <1>4 DEF LinkedIn, LinkFields

LEMMA LinkBeforeIs ==
  ASSUME NEW f, NEW p, NEW A, NEW L, NEW S, NEW e, NEW b,
         Good(L, A, S), Agree(f, p, A, L), e \in Entries \ A,
         b \in A \cap Entries, L.prev[b] # b
  PROVE  LinkedIn(f, p, [f EXCEPT ![e] = b, ![p[b]] = e],
                  [p EXCEPT ![e] = p[b], ![b] = e], A, e, L.prev[b])
<1> DEFINE a == L.prev[b]
<1>1. /\ LinkFields(f, p) /\ a \in A /\ a \in Nodes /\ e \in Nodes /\ A \subseteq Nodes
      /\ L.next[a] = b /\ b # NULL /\ b \notin Heads
  BY Neighbours, NodesAssumption DEF Agree, Good, Nodes
<1>2. p[b] = a
  BY DEF Agree
<1>3. f[a] = b
  BY <1>1 DEF Agree, Forward
<1> HIDE DEF a
<1>4. LinkedIn(f, p, [f EXCEPT ![e] = b, ![a] = e], [p EXCEPT ![e] = a, ![b] = e], A, e, a)
  BY <1>1, <1>3 DEF LinkedIn, LinkFields
<1>5. QED
  BY <1>2, <1>4 DEF a

-----------------------------------------------------------------------------
(* Both models read their lists through the same ListSeq. *)
LEMMA SameEmptied ==
  ASSUME NEW S, NEW a
  PROVE  H!Promise!Emptied(S, a) = Promise!Emptied(S, a)
BY DEF H!Promise!Emptied, Promise!Emptied, H!Promise!With, Promise!With

LEMMA SameHeadOf ==
  ASSUME NEW S, NEW x
  PROVE  H!Promise!HeadOf(S, x) = Promise!HeadOf(S, x)
BY DEF H!Promise!HeadOf, Promise!HeadOf, H!Promise!Contains, Promise!Contains

LEMMA SameIndexIn ==
  ASSUME NEW S, NEW h, NEW x
  PROVE  H!Promise!IndexIn(S, h, x) = Promise!IndexIn(S, h, x)
BY DEF H!Promise!IndexIn, Promise!IndexIn

LEMMA SamePutAt ==
  ASSUME NEW S, NEW h, NEW i, NEW w
  PROVE  H!Promise!PutAt(S, h, i, w) = Promise!PutAt(S, h, i, w)
BY DEF H!Promise!PutAt, Promise!PutAt, H!Promise!With, Promise!With

LEMMA SamePutBehind ==
  ASSUME NEW S, NEW x, NEW w
  PROVE  H!Promise!PutBehind(S, x, w) = Promise!PutBehind(S, x, w)
BY SameHeadOf, SameIndexIn, SamePutAt DEF H!Promise!PutBehind, Promise!PutBehind

LEMMA SamePutBefore ==
  ASSUME NEW S, NEW x, NEW w
  PROVE  H!Promise!PutBefore(S, x, w) = Promise!PutBefore(S, x, w)
BY SameHeadOf, SameIndexIn, SamePutAt DEF H!Promise!PutBefore, Promise!PutBefore

LEMMA SameRemoveAt ==
  ASSUME NEW s, NEW i
  PROVE  H!Promise!RemoveAt(s, i) = Promise!RemoveAt(s, i)
BY DEF H!Promise!RemoveAt, Promise!RemoveAt

LEMMA SameContains ==
  ASSUME NEW s, NEW x
  PROVE  H!Promise!Contains(s, x) = Promise!Contains(s, x)
BY DEF H!Promise!Contains, Promise!Contains

LEMMA SameWithout ==
  ASSUME NEW S, NEW e
  PROVE  H!Promise!Without(S, e) = Promise!Without(S, e)
BY SameContains, SameRemoveAt, SameIndexIn DEF H!Promise!Without, Promise!Without

LEMMA SameToSet ==
  ASSUME NEW s
  PROVE  H!ToSet(s) = ToSet(s)
BY DEF H!ToSet, ToSet

(* What the caller sees of hlists. *)
LEMMA HCallerSees ==
  ASSUME NEW L, NEW S, Good(L, hlive, S), Agree(fwd, pprev, hlive, L)
  PROVE  /\ H!LiveHeads = DOMAIN S
         /\ \A h \in DOMAIN S : H!Contents(h) = S[h]
         /\ \A e : e \in H!Hashed <=> OnAList(S, e)
<1>1. H!LiveHeads = DOMAIN S
  BY DEF Good, H!LiveHeads
<1>2. ASSUME NEW h \in DOMAIN S PROVE H!Contents(h) = S[h]
  BY <1>2, ChainOfHead DEF H!Contents, H!Chain
<1>3. \A e : e \in H!Hashed <=> OnAList(S, e)
  BY <1>1, <1>2, SameToSet DEF H!Hashed, OnAList
<1>4. QED
  BY <1>1, <1>2, <1>3

HReach(f, p, A, c, S) ==
  Held(f, p, A, H!Promise!After(S, c[1], c[2], c[3], c[4]))

HKeeps(S) == HReach(fwd', pprev', hlive', hcall', S)

(* One state of the hlists, with the ring it is seen as. *)
Seen(L, S) == Good(L, hlive, S) /\ Agree(fwd, pprev, hlive, L)

LEMMA HInitKeeps ==
  ASSUME NEW L, NEW S, Seen(L, S), NEW x \in Nodes,
         \/ x \in Heads /\ H!InitHead(x)
         \/ x \in Entries /\ H!InitNode(x)
  PROVE  HKeeps(S)
<1> DEFINE c == <<"init", x, NULL, NULL>>
           B == hlive \cup {x}
           f2 == [fwd EXCEPT ![x] = NULL]
           p2 == IF x \in Entries THEN [pprev EXCEPT ![x] = NULL] ELSE pprev
<1>1. /\ x \in Nodes \ hlive
      /\ fwd' = f2 /\ pprev' = p2 /\ hlive' = B /\ hcall' = c
  BY NodesAssumption DEF H!InitHead, H!InitNode, H!Did
<1>2. Good(L, hlive, S) /\ Agree(fwd, pprev, hlive, L)
  BY DEF Seen
<1>3. Good(InitListHead(L, x), B, Promise!Emptied(S, x))
  BY <1>1, <1>2, GoodInit
<1>4. Agree(f2, p2, B, InitListHead(L, x))
  BY <1>1, <1>2, InitAgrees
<1>5. Held(f2, p2, B, Promise!Emptied(S, x))
  BY <1>3, <1>4 DEF Held
<1>6. HReach(f2, p2, B, c, S)
  <2> HIDE DEF f2, p2, B
  <2>1. QED
    BY <1>5, SameEmptied DEF HReach, H!Promise!After
<1> HIDE DEF f2, p2, B, c
<1>7. QED
  BY <1>1, <1>6 DEF HKeeps

LEMMA HUnlinkKeeps ==
  ASSUME NEW L, NEW S, Seen(L, S), NEW e \in hlive \cap Entries, pprev[e] # NULL,
         H!Unlink(e), UNCHANGED hlive
  PROVE  Held(fwd', pprev', hlive', H!Promise!Without(S, e))
<1>1. Good(L, hlive, S) /\ Agree(fwd, pprev, hlive, L)
  BY DEF Seen
<1> DEFINE f2 == [fwd EXCEPT ![pprev[e]] = fwd[e], ![e] = NULL]
           p2 == IF fwd[e] = NULL THEN [pprev EXCEPT ![e] = NULL]
                 ELSE [pprev EXCEPT ![fwd[e]] = pprev[e], ![e] = NULL]
<1>2. fwd' = f2 /\ pprev' = p2 /\ hlive' = hlive
  BY DEF H!Unlink
<1>3. L.next[e] \in Heads \cup {e} \/ L.next[e] # L.prev[e]
  <2>1. CASE OnAList(S, e)
    BY <1>1, <2>1, ListedHas DEF OnAList
  <2>2. CASE ~OnAList(S, e)
    BY <1>1, <2>2, LooseHas
  <2>3. QED
    BY <2>1, <2>2
<1>4. Good(ListDelInit(L, e), hlive, Promise!Without(S, e))
  BY <1>1, GoodDel
<1>5. Agree(f2, p2, hlive, ListDelInit(L, e))
  BY <1>1, <1>3, UnlinkAgrees
<1> HIDE DEF f2, p2
<1>6. Held(f2, p2, hlive, Promise!Without(S, e))
  BY <1>4, <1>5 DEF Held
<1>7. QED
  BY <1>2, <1>6, SameWithout

(* An entry on no list may be deleted all the same. *)
LEMMA HLooseKeeps ==
  ASSUME NEW L, NEW S, Seen(L, S), NEW e \in hlive \cap Entries, pprev[e] = NULL
  PROVE  Held(fwd, pprev, hlive, H!Promise!Without(S, e))
<1>1. Good(L, hlive, S) /\ Agree(fwd, pprev, hlive, L)
  BY DEF Seen
<1>2. L.prev[e] = e
  BY <1>1, Neighbours DEF Agree
<1>3. L.next[e] = e
  BY <1>1, <1>2, Neighbours
<1> DEFINE M == ListDelInit(L, e)
<1>4. Good(M, hlive, Promise!Without(S, e))
  BY <1>1, GoodDel
<1>5. \A x \in hlive : M.next[x] = L.next[x] /\ M.prev[x] = L.prev[x]
  <2>1. hlive \subseteq Nodes /\ DOMAIN L.next = Nodes /\ DOMAIN L.prev = Nodes
    BY <1>1 DEF Good, Heap
  <2>2. QED
    BY <1>2, <1>3, <2>1 DEF ListDelInit, JoinNeighbours, InitListHead
<1> HIDE DEF M
<1>6. Agree(fwd, pprev, hlive, M)
  BY <1>1, <1>5 DEF Agree, Forward
<1>7. QED
  BY <1>4, <1>6, SameWithout DEF Held

LEMMA HDelKeeps ==
  ASSUME NEW L, NEW S, Seen(L, S), NEW e \in Entries, H!Del(e) \/ H!DelInit(e)
  PROVE  HKeeps(S)
<1>1. e \in hlive \cap Entries /\ hlive' = hlive
      /\ \/ pprev[e] # NULL /\ H!Unlink(e)
         \/ pprev[e] = NULL /\ fwd' = fwd /\ pprev' = pprev
      /\ \/ hcall' = <<"del", e, NULL, NULL>>
         \/ hcall' = <<"del_init", e, NULL, NULL>>
  BY DEF H!Del, H!DelInit, H!Did, H!Unhashed, H!heap
<1>2. Held(fwd', pprev', hlive', H!Promise!Without(S, e))
  BY <1>1, HUnlinkKeeps, HLooseKeeps
<1>3. HReach(fwd', pprev', hlive', <<"del", e, NULL, NULL>>, S)
  BY <1>2 DEF HReach, H!Promise!After
<1>4. HReach(fwd', pprev', hlive', <<"del_init", e, NULL, NULL>>, S)
  BY <1>2 DEF HReach, H!Promise!After
<1>5. QED
  BY <1>1, <1>3, <1>4 DEF HKeeps

LEMMA HFakeKeeps ==
  ASSUME NEW L, NEW S, Seen(L, S), NEW e \in Entries, H!AddFake(e)
  PROVE  HKeeps(S)
<1>1. /\ e \in hlive /\ pprev[e] = NULL /\ pprev' = [pprev EXCEPT ![e] = e]
      /\ fwd' = fwd /\ hlive' = hlive /\ hcall' = <<"add_fake", e, NULL, NULL>>
  BY DEF H!AddFake, H!Unhashed, H!Did
<1>2. Good(L, hlive, S) /\ Agree(fwd, pprev, hlive, L)
  BY DEF Seen
<1>3. L.prev[e] = e
  BY <1>1, <1>2, Neighbours DEF Agree
<1>4. Agree(fwd', pprev', hlive', L)
  <2>1. LinkFields(fwd', pprev')
    BY <1>1, <1>2 DEF Agree, LinkFields, Nodes
  <2>2. \A x \in hlive \cap Entries : pprev'[x] = IF x = e THEN e ELSE pprev[x]
    BY <1>1, <1>2 DEF Agree, LinkFields
  <2>3. QED
    BY <1>1, <1>2, <1>3, <2>1, <2>2 DEF Agree
<1>5. Held(fwd', pprev', hlive', S)
  BY <1>1, <1>2, <1>4 DEF Held
<1>6. HReach(fwd', pprev', hlive', <<"add_fake", e, NULL, NULL>>, S)
  BY <1>5 DEF HReach, H!Promise!After
<1>7. QED
  BY <1>1, <1>6 DEF HKeeps

(* e, on no list, is put behind a, or in front of b. *)
LEMMA HLinkKeeps ==
  ASSUME NEW L, NEW S, Seen(L, S), NEW e \in Entries, ~OnAList(S, e),
         NEW h \in DOMAIN S, NEW a \in RingNodesOf(S, h), NEW p2,
         \/ p2 = IF fwd[a] = NULL THEN [pprev EXCEPT ![e] = a]
                 ELSE [pprev EXCEPT ![fwd[a]] = e, ![e] = a]
         \/ p2 = IF fwd[a] = NULL THEN [pprev EXCEPT ![e] = a]
                 ELSE [pprev EXCEPT ![e] = a, ![fwd[a]] = e]
  PROVE  Held([fwd EXCEPT ![e] = fwd[a], ![a] = e], p2, hlive \cup {e},
              H!Promise!PutBehind(S, a, <<e>>))
<1> DEFINE B == hlive \ {e}
           f2 == [fwd EXCEPT ![e] = fwd[a], ![a] = e]
<1>1. Good(L, hlive, S) /\ Agree(fwd, pprev, hlive, L)
  BY DEF Seen
<1>2. Good(L, B, S) /\ e \in Entries \ B /\ B \cup {e} = hlive \cup {e}
  BY <1>1, GoodForget
<1>3. Agree(fwd, pprev, B, L)
  BY <1>1, AgreeLess
<1> HIDE DEF B
<1>4. Good(ListAdd(L, e, a), B \cup {e}, Promise!PutBehind(S, a, <<e>>))
  BY <1>2, GoodAdd
<1>5. a \in B /\ (a \in Heads \/ L.next[a] # a)
  <2>1. RingNodesOf(S, h) \subseteq B /\ h \in Heads
    BY <1>2, GoodFacts DEF Distinct
  <2>2. a # h => a \in ToSet(S[h])
    BY DEF RingNodesOf
  <2>3. a # h => L.next[a] # a
    BY <1>2, <2>2, ListedHas
  <2>4. QED
    BY <2>1, <2>3
<1>6. LinkedIn(fwd, pprev, f2, p2, B, e, a)
  BY <1>2, <1>3, <1>5, LinkIs
<1> HIDE DEF f2
<1>7. Agree(f2, p2, B \cup {e}, ListAdd(L, e, a))
  BY <1>2, <1>3, <1>5, <1>6, LinkAgrees DEF ListAdd
<1>8. Held(f2, p2, B \cup {e}, Promise!PutBehind(S, a, <<e>>))
  BY <1>4, <1>7 DEF Held
<1>9. QED
  BY <1>2, <1>8, SamePutBehind DEF f2

LEMMA HLinkBeforeKeeps ==
  ASSUME NEW L, NEW S, Seen(L, S), NEW e \in Entries, ~OnAList(S, e),
         NEW h \in DOMAIN S, NEW b \in ToSet(S[h])
  PROVE  Held([fwd EXCEPT ![e] = b, ![pprev[b]] = e],
              [pprev EXCEPT ![e] = pprev[b], ![b] = e], hlive \cup {e},
              H!Promise!PutBefore(S, b, <<e>>))
<1> DEFINE B == hlive \ {e}
           a == L.prev[b]
           f2 == [fwd EXCEPT ![e] = b, ![pprev[b]] = e]
           p2 == [pprev EXCEPT ![e] = pprev[b], ![b] = e]
<1>1. Good(L, hlive, S) /\ Agree(fwd, pprev, hlive, L)
  BY DEF Seen
<1>2. Good(L, B, S) /\ e \in Entries \ B /\ B \cup {e} = hlive \cup {e}
  BY <1>1, GoodForget
<1>3. Agree(fwd, pprev, B, L)
  BY <1>1, AgreeLess
<1> HIDE DEF B
<1>4. b \in RingNodesOf(S, h)
  BY DEF RingNodesOf
<1>5. Good(ListAddTail(L, e, b), B \cup {e}, Promise!PutBefore(S, b, <<e>>))
  BY <1>2, <1>4, GoodAdd
<1>6. b \in B \cap Entries /\ a # b
  BY <1>2, ListedHas
<1>7. a \in B /\ L.next[a] = b
  BY <1>2, <1>6, Neighbours
<1>8. LinkedIn(fwd, pprev, f2, p2, B, e, a)
  BY <1>2, <1>3, <1>6, LinkBeforeIs
<1> HIDE DEF f2, p2
<1>9. Agree(f2, p2, B \cup {e}, ListAddTail(L, e, b))
  <2>1. ListAddTail(L, e, b) = LinkBetween(L, e, a, L.next[a])
    BY <1>7 DEF ListAddTail
  <2> HIDE DEF a
  <2>2. Agree(f2, p2, B \cup {e}, LinkBetween(L, e, a, L.next[a]))
    BY <1>2, <1>3, <1>6, <1>7, <1>8, LinkAgrees
  <2>3. QED
    BY <2>1, <2>2
<1>10. Held(f2, p2, B \cup {e}, Promise!PutBefore(S, b, <<e>>))
  BY <1>5, <1>9 DEF Held
<1>11. QED
  BY <1>2, <1>10, SamePutBefore DEF f2, p2

LEMMA HAddKeeps ==
  ASSUME NEW L, NEW S, Seen(L, S), NEW e \in Entries,
         \/ \E h \in Heads : H!AddHead(e, h)
         \/ \E m \in Entries : H!AddBefore(e, m) \/ H!AddAfter(m, e)
  PROVE  HKeeps(S)
<1>1. /\ H!LiveHeads = DOMAIN S
      /\ \A x : x \in H!Hashed <=> OnAList(S, x)
  BY HCallerSees DEF Seen
<1>2. CASE \E h \in Heads : H!AddHead(e, h)
  <2>1. PICK h \in Heads : H!AddHead(e, h)
    BY <1>2
  <2>2. ~OnAList(S, e) /\ h \in DOMAIN S /\ h \in RingNodesOf(S, h)
    BY <1>1, <2>1 DEF H!AddHead, RingNodesOf
  <2> DEFINE f2 == [fwd EXCEPT ![e] = fwd[h], ![h] = e]
             p2 == IF fwd[h] = NULL THEN [pprev EXCEPT ![e] = h]
                   ELSE [pprev EXCEPT ![fwd[h]] = e, ![e] = h]
  <2>3. /\ fwd' = f2 /\ pprev' = p2 /\ hlive' = hlive \cup {e}
        /\ hcall' = <<"add", e, h, NULL>>
    BY <2>1 DEF H!AddHead, H!LinkHead, H!Did
  <2>4. Held(f2, p2, hlive \cup {e}, H!Promise!PutBehind(S, h, <<e>>))
    BY <2>2, HLinkKeeps
  <2> HIDE DEF f2, p2
  <2>5. HReach(f2, p2, hlive \cup {e}, <<"add", e, h, NULL>>, S)
    BY <2>4 DEF HReach, H!Promise!After
  <2>6. QED
    BY <2>3, <2>5 DEF HKeeps
<1>3. CASE \E m \in Entries : H!AddBefore(e, m)
  <2>1. PICK m \in Entries : H!AddBefore(e, m)
    BY <1>3
  <2>2. ~OnAList(S, e) /\ OnAList(S, m)
    BY <1>1, <2>1 DEF H!AddBefore
  <2>3. PICK h \in DOMAIN S : m \in ToSet(S[h])
    BY <2>2 DEF OnAList
  <2> DEFINE f2 == [fwd EXCEPT ![e] = m, ![pprev[m]] = e]
             p2 == [pprev EXCEPT ![e] = pprev[m], ![m] = e]
  <2>4. /\ fwd' = f2 /\ pprev' = p2 /\ hlive' = hlive \cup {e}
        /\ hcall' = <<"add_tail", e, m, NULL>>
    BY <2>1 DEF H!AddBefore, H!Did
  <2>5. Held(f2, p2, hlive \cup {e}, H!Promise!PutBefore(S, m, <<e>>))
    BY <2>2, <2>3, HLinkBeforeKeeps
  <2> HIDE DEF f2, p2
  <2>6. HReach(f2, p2, hlive \cup {e}, <<"add_tail", e, m, NULL>>, S)
    BY <2>5 DEF HReach, H!Promise!After
  <2>7. QED
    BY <2>4, <2>6 DEF HKeeps
<1>4. CASE \E m \in Entries : H!AddAfter(m, e)
  <2>1. PICK m \in Entries : H!AddAfter(m, e)
    BY <1>4
  <2>2. ~OnAList(S, e) /\ OnAList(S, m)
    BY <1>1, <2>1 DEF H!AddAfter
  <2>3. PICK h \in DOMAIN S : m \in RingNodesOf(S, h)
    BY <2>2 DEF OnAList, RingNodesOf
  <2> DEFINE f2 == [fwd EXCEPT ![e] = fwd[m], ![m] = e]
             p2 == IF fwd[m] = NULL THEN [pprev EXCEPT ![e] = m]
                   ELSE [pprev EXCEPT ![e] = m, ![fwd[m]] = e]
  <2>4. /\ fwd' = f2 /\ pprev' = p2 /\ hlive' = hlive \cup {e}
        /\ hcall' = <<"add", e, m, NULL>>
    BY <2>1 DEF H!AddAfter, H!AfterPprev, H!Did
  <2>5. Held(f2, p2, hlive \cup {e}, H!Promise!PutBehind(S, m, <<e>>))
    BY <2>2, <2>3, HLinkKeeps
  <2> HIDE DEF f2, p2
  <2>6. HReach(f2, p2, hlive \cup {e}, <<"add", e, m, NULL>>, S)
    BY <2>5 DEF HReach, H!Promise!After
  <2>7. QED
    BY <2>4, <2>6 DEF HKeeps
<1>5. QED
  BY <1>2, <1>3, <1>4

LEMMA HMoveKeeps ==
  ASSUME NEW L, NEW S, Seen(L, S), NEW old \in Heads, NEW new \in Heads,
         H!MoveList(old, new)
  PROVE  HKeeps(S)
<1>1. Good(L, hlive, S) /\ Agree(fwd, pprev, hlive, L)
  BY DEF Seen
<1>2. /\ H!LiveHeads = DOMAIN S
      /\ \A h \in DOMAIN S : H!Contents(h) = S[h]
  BY <1>1, HCallerSees
<1> DEFINE N == IF new \in hlive THEN RingNodesOf(S, new) ELSE {}
           A == hlive \ N
           T == Promise!Drop(S, new)
           f2 == [fwd EXCEPT ![new] = fwd[old], ![old] = NULL]
           p2 == IF fwd[old] = NULL THEN pprev
                 ELSE [pprev EXCEPT ![fwd[old]] = new]
           c == <<"move_list", old, new, NULL>>
<1>3. DOMAIN S = hlive \cap Heads /\ old \in DOMAIN S /\ old # new
  BY <1>1, <1>2 DEF H!MoveList, Good
<1>4. /\ fwd' = f2 /\ pprev' = p2 /\ hcall' = c
      /\ hlive' = (hlive \cup {new})
                  \ (IF new \in hlive THEN H!ToSet(H!Contents(new)) ELSE {})
  BY DEF H!MoveList, H!MovedPprev, H!Did
<1>5. hlive' = A \cup {new}
  <2>1. new \in hlive => H!ToSet(H!Contents(new)) = ToSet(S[new])
    BY <1>2, <1>3, SameToSet
  <2>2. new \in hlive => new \notin ToSet(S[new])
    BY <1>1, <1>3, GoodFacts
  <2>3. QED
    BY <1>4, <2>1, <2>2 DEF RingNodesOf
<1>6. Good(L, A, T)
  BY <1>1, GoodLost
<1>7. Agree(fwd, pprev, A, L)
  BY <1>1, AgreeLess
<1>8. old \in A \cap Heads
  <2>1. DOMAIN T = A \cap Heads /\ DOMAIN T = DOMAIN S \ {new}
    <3>1. DOMAIN T = DOMAIN S \ {new}
      BY DEF Promise!Drop
    <3> HIDE DEF T, A
    <3>2. QED
      BY <1>6, <3>1 DEF Good
  <2>2. QED
    BY <1>3, <2>1
<1>9. new \in Heads \ A /\ new \in Nodes \ A
  BY DEF RingNodesOf, Nodes
<1> HIDE DEF A, T
<1> DEFINE U == Promise!Emptied(Promise!Substitute(T, old, new), old)
<1>10. Good(ListReplaceInit(L, old, new), A \cup {new}, U)
  <2>1. old \in A /\ {old, new} \subseteq Heads
    BY <1>8, <1>9
  <2>2. QED
    BY <1>6, <1>9, <2>1, GoodReplace
<1>11. Agree(f2, p2, A \cup {new}, ListReplaceInit(L, old, new))
  BY <1>6, <1>7, <1>8, <1>9, MoveAgrees
<1>12. H!Promise!After(S, "move_list", old, new, NULL) = U
  <2> DEFINE V == H!Promise!With(H!Promise!With(S, old, <<>>), new, S[old])
             W == [k \in DOMAIN S \cup {new} |->
                     IF k = new THEN S[old] ELSE IF k = old THEN <<>> ELSE S[k]]
  <2>1. H!Promise!After(S, "move_list", old, new, NULL) = V
    BY DEF H!Promise!After
  <2>2. V = W
    <3>1. H!Promise!With(S, old, <<>>)
          = [k \in DOMAIN S |-> IF k = old THEN <<>> ELSE S[k]]
      <4>1. DOMAIN S \cup {old} = DOMAIN S
        BY <1>3
      <4>2. QED
        BY <4>1 DEF H!Promise!With
    <3>2. QED
      BY <3>1 DEF H!Promise!With
  <2>3. U = W
    <3>1. T = [k \in DOMAIN S \ {new} |-> S[k]]
      BY DEF T, Promise!Drop
    <3>2. Promise!Drop(T, old) = [k \in (DOMAIN S \ {new}) \ {old} |-> S[k]]
      BY <3>1 DEF Promise!Drop
    <3>3. T[old] = S[old]
      BY <1>3, <3>1
    <3>4. Promise!With(Promise!Drop(T, old), new, S[old])
          = [k \in ((DOMAIN S \ {new}) \ {old}) \cup {new} |->
               IF k = new THEN S[old] ELSE S[k]]
      BY <3>2 DEF Promise!With
    <3>5. Promise!Substitute(T, old, new)
          = [k \in ((DOMAIN S \ {new}) \ {old}) \cup {new} |->
               IF k = new THEN S[old] ELSE S[k]]
      BY <3>3, <3>4 DEF Promise!Substitute
    <3>6. (((DOMAIN S \ {new}) \ {old}) \cup {new}) \cup {old} = DOMAIN S \cup {new}
      BY <1>3
    <3>7. U = [k \in DOMAIN S \cup {new} |->
                 IF k = old THEN <<>> ELSE IF k = new THEN S[old] ELSE S[k]]
      BY <3>5, <3>6 DEF Promise!Emptied, Promise!With
    <3>8. QED
      BY <1>3, <3>7
  <2>4. QED
    BY <2>1, <2>2, <2>3
<1> HIDE DEF f2, p2, U
<1>13. Held(f2, p2, A \cup {new}, U)
  BY <1>10, <1>11 DEF Held
<1>14. HReach(f2, p2, A \cup {new}, c, S)
  BY <1>12, <1>13 DEF HReach
<1> HIDE DEF c
<1>15. QED
  BY <1>4, <1>5, <1>14 DEF HKeeps

-----------------------------------------------------------------------------
(* The loops.  From a node on, the chain is its successor and the chain    *)
(* from there.                                                             *)
LEMMA SubSeqUnrolls ==
  ASSUME NEW s \in Seq(Entries), NEW i \in 0..Len(s)
  PROVE  SubSeq(s, i + 1, Len(s))
         = IF i = Len(s) THEN <<>>
           ELSE <<s[i + 1]>> \o SubSeq(s, (i + 1) + 1, Len(s))
<1> DEFINE m == Len(s)
           w == SubSeq(s, i + 1, m)
           v == SubSeq(s, (i + 1) + 1, m)
<1>1. m \in Nat /\ i \in 0..m
  OBVIOUS
<1>2. w \in Seq(Entries) /\ Len(w) = m - i /\ \A k \in 1..(m - i) : w[k] = s[i + k]
  BY SubSeqParts
<1>3. CASE i = m
  <2>1. Len(w) = 0
    BY <1>1, <1>2, <1>3
  <2>2. w = <<>>
    BY <1>2, <2>1
  <2>3. QED
    BY <1>3, <2>2
<1>4. CASE i # m
  <2>1. i + 1 \in 0..m /\ i + 1 \in 1..m
    BY <1>1, <1>4
  <2>2. /\ v \in Seq(Entries) /\ Len(v) = m - (i + 1)
        /\ \A k \in 1..(m - (i + 1)) : v[k] = s[(i + 1) + k]
    BY <2>1, SubSeqParts
  <2>3. s[i + 1] \in Entries
    BY <2>1
  <2> DEFINE u == <<s[i + 1]>> \o v
  <2>4. u \in Seq(Entries) /\ Len(u) = 1 + Len(v)
        /\ \A k \in 1..(1 + Len(v)) : u[k] = IF k = 1 THEN s[i + 1] ELSE v[k - 1]
    <3> HIDE DEF v
    <3>1. QED
      BY <2>2, <2>3
  <2> HIDE DEF u, v, w, m
  <2>5. Len(u) = m - i /\ Len(w) = m - i /\ m - i \in Nat
    BY <1>1, <1>2, <2>2, <2>4
  <2>6. ASSUME NEW k \in 1..(m - i) PROVE u[k] = w[k]
    <3>1. k \in 1..(1 + Len(v))
      BY <1>1, <2>2
    <3>2. CASE k = 1
      BY <1>2, <2>4, <3>1, <3>2
    <3>3. CASE k # 1
      <4>1. k - 1 \in 1..(m - (i + 1)) /\ (i + 1) + (k - 1) = i + k
        BY <1>1, <3>3
      <4>2. v[k - 1] = s[i + k]
        BY <2>2, <4>1
      <4>3. u[k] = v[k - 1]
        BY <2>4, <3>1, <3>3
      <4>4. QED
        BY <1>2, <4>2, <4>3
    <3>4. QED
      BY <3>2, <3>3
  <2>7. u = w
    BY <1>2, <2>4, <2>5, <2>6
  <2>8. QED
    BY <1>4, <2>7 DEF u, v, w, m
<1>5. QED
  BY <1>3, <1>4

LEMMA ChainUnrolls ==
  ASSUME NEW f, NEW p, NEW A, NEW L, NEW S, Good(L, A, S), Agree(f, p, A, L),
         NEW h \in DOMAIN S, NEW x \in RingNodesOf(S, h)
  PROVE  /\ H!ChainOf(f, x) = IF f[x] = NULL THEN <<>>
                              ELSE <<f[x]>> \o H!ChainOf(f, f[x])
         /\ H!ChainOf(f, x) \in Seq(Entries)
         /\ f[x] # NULL => f[x] \in ToSet(S[h])
<1> DEFINE s == S[h]
           m == Len(s)
           c == Ring(h, s)
<1>1. Distinct(h, s)
  BY GoodFacts
<1>2. s \in Seq(Entries) /\ m \in Nat
  BY <1>1 DEF Distinct
<1>3. PICK i \in 0..m : x = c[i]
  BY PlaceIs
<1>4. H!ChainOf(f, x) = SubSeq(s, i + 1, m) /\ IsChain(f, x, SubSeq(s, i + 1, m))
  BY <1>3, ChainFrom, ChainRest
<1>5. SubSeq(s, i + 1, m) = IF i = m THEN <<>>
                            ELSE <<s[i + 1]>> \o SubSeq(s, (i + 1) + 1, m)
  BY <1>2, SubSeqUnrolls
<1>6. /\ SubSeq(s, i + 1, m) \in Seq(Entries) /\ Len(SubSeq(s, i + 1, m)) = m - i
      /\ \A k \in 1..(m - i) : SubSeq(s, i + 1, m)[k] = s[i + k]
  BY <1>2, SubSeqParts
<1>7. ToSet(s) = Elements(s, m) /\ \A k \in 1..m : c[k] = s[k] /\ s[k] \in Entries
  BY <1>1, RingNodes
<1>8. f[x] = IF SubSeq(s, i + 1, m) = <<>> THEN NULL ELSE SubSeq(s, i + 1, m)[1]
  BY <1>4 DEF IsChain
<1>9. CASE i = m
  BY <1>4, <1>5, <1>6, <1>8, <1>9
<1>10. CASE i # m
  <2>1. i + 1 \in 0..m /\ i + 1 \in 1..m /\ 1 \in 1..(m - i)
    BY <1>2, <1>10
  <2>2. s[i + 1] # NULL /\ s[i + 1] \in ToSet(s)
    BY <1>7, <2>1, NodesAssumption DEF Nodes, Elements
  <2>3. SubSeq(s, i + 1, m) # <<>>
    <3>1. PICK w : w = SubSeq(s, i + 1, m)
      OBVIOUS
    <3>2. Len(w) = m - i
      BY <1>6, <3>1
    <3>3. m - i # 0
      BY <1>2, <1>10
    <3>4. w # <<>>
      BY <3>2, <3>3
    <3>5. QED
      BY <3>1, <3>4
  <2>4. f[x] = s[i + 1]
    BY <1>6, <1>8, <2>1, <2>3
  <2>5. H!ChainOf(f, c[i + 1]) = SubSeq(s, (i + 1) + 1, m)
    BY <2>1, ChainFrom
  <2>6. c[i + 1] = s[i + 1]
    BY <1>7, <2>1
  <2>7. QED
    BY <1>4, <1>5, <1>6, <1>10, <2>2, <2>4, <2>5, <2>6
<1>11. QED
  BY <1>9, <1>10

(* Taking e off does not change what follows the node behind it.           *)
TakenOff(f, p, g, e) == \A x \in Nodes : x # e /\ x # p[e] => g[x] = f[x]

LEMMA ChainKept ==
  ASSUME NEW f, NEW p, NEW A, NEW L, NEW S, Good(L, A, S), Agree(f, p, A, L),
         NEW h \in DOMAIN S, NEW e \in ToSet(S[h]), f[e] # NULL,
         NEW g, TakenOff(f, p, g, e)
  PROVE  H!ChainOf(g, f[e]) = H!ChainOf(f, f[e])
<1> DEFINE s == S[h]
           m == Len(s)
           c == Ring(h, s)
<1>1. Distinct(h, s) /\ Path(L, h, s) /\ ToSet(s) \subseteq A \cap Entries
  BY GoodFacts
<1>2. /\ IsRing(c, h, m) /\ \A k \in 1..m : c[k] = s[k] /\ s[k] \notin Heads
      /\ ToSet(s) = Elements(s, m) /\ Links(L, c, 0..m)
  BY <1>1, RingNodes DEF Path
<1>3. s \in Seq(Entries) /\ h \in Heads /\ m \in Nat
  BY <1>1 DEF Distinct
<1>4. LinkFields(f, p) /\ f[e] = Forward(L, e) /\ p[e] = L.prev[e]
  <2>1. L.prev[e] # e
    BY ListedHas
  <2>2. QED
    BY <1>1, <2>1 DEF Agree
<1> HIDE DEF m, c
<1>5. PICK i \in 1..m : e = c[i]
  BY <1>2 DEF Elements
<1>6. /\ c[0] = h /\ c[m + 1] = h /\ \A j, k \in 0..m : c[j] = c[k] => j = k
      /\ \A k \in 0..(m + 1) : c[k] \in Nodes
  BY <1>2 DEF IsRing
<1>7. /\ i - 1 \in 0..m /\ (i - 1) + 1 = i /\ i \in 0..m /\ i \in Nat
  BY <1>3
<1>8. Linked(L, c[i - 1], c[(i - 1) + 1]) /\ Linked(L, c[i], c[i + 1])
  BY <1>2, <1>7 DEF Links
<1>9. p[e] = c[i - 1] /\ L.next[e] = c[i + 1]
  BY <1>4, <1>5, <1>7, <1>8 DEF Linked
<1>10. i # m
  BY <1>3, <1>4, <1>6, <1>9 DEF Forward
<1>11. /\ i + 1 \in 0..m /\ f[e] = c[i + 1]
  <2>1. i + 1 \in 0..m
    BY <1>3, <1>10
  <2>2. QED
    BY <1>4, <1>9, <2>1 DEF Forward
<1> DEFINE w == SubSeq(s, (i + 1) + 1, m)
<1>12. IsChain(f, c[i + 1], w)
  BY <1>11, ChainRest DEF c, m
<1>13. Len(w) = m - (i + 1) /\ \A k \in 1..(m - (i + 1)) : w[k] = s[(i + 1) + k]
  BY <1>3, <1>11, SubSeqParts DEF m
<1>14. \A x \in Nodes : x # e /\ x # p[e] => g[x] = f[x]
  BY DEF TakenOff
<1> HIDE DEF w, s
<1>15. ASSUME NEW k \in (i + 1)..m PROVE g[c[k]] = f[c[k]]
  <2>1. k \in 0..m /\ k # i /\ k # i - 1 /\ k \in 0..(m + 1)
    BY <1>3, <1>7
  <2>2. c[k] # c[i] /\ c[k] # c[i - 1] /\ c[k] \in Nodes
    BY <1>6, <1>7, <2>1
  <2>3. QED
    BY <1>5, <1>9, <1>14, <2>2
<1>16. g[c[i + 1]] = f[c[i + 1]]
  <2>1. i + 1 \in (i + 1)..m
    BY <1>3, <1>11
  <2>2. QED
    BY <1>15, <2>1
<1>17. ASSUME NEW k \in 1..Len(w) PROVE g[w[k]] = f[w[k]]
  <2>1. k \in 1..(m - (i + 1))
    BY <1>13
  <2>2. (i + 1) + k \in (i + 1)..m /\ (i + 1) + k \in 1..m
    BY <1>3, <1>7, <2>1
  <2>3. w[k] = c[(i + 1) + k]
    BY <1>2, <1>13, <2>1, <2>2
  <2>4. QED
    BY <1>15, <2>2, <2>3
<1>18. IsChain(g, c[i + 1], w)
  BY <1>12, <1>16, <1>17 DEF IsChain
<1>19. H!ChainOf(g, c[i + 1]) = w /\ H!ChainOf(f, c[i + 1]) = w
  BY <1>12, <1>18, ChainIs
<1>20. QED
  BY <1>11, <1>19

-----------------------------------------------------------------------------
(* The invariant of the hlists: they are seen as some ring, and what a     *)
(* loop's body saw and what lies ahead of its cursor make up the whole.    *)
HAhead(f, x) == IF x = NULL THEN <<>> ELSE <<x>> \o H!ChainOf(f, x)

HLoop(f, S, how, x, sees, all) ==
  /\ sees \in Seq(Entries)
  /\ how = "no" => x = NULL
  /\ x # NULL => OnAList(S, x)
  /\ how # "no" => sees \o HAhead(f, x) = all

HInv ==
  /\ Held(fwd, pprev, hlive, H!AsSequences)
  /\ HLoop(fwd, H!AsSequences, looping, hpos, hseen, htodo)

HReadOff(f, A) == [h \in A \cap Heads |-> H!ChainOf(f, h)]

LEMMA HReadOffIs ==
  ASSUME NEW f, NEW p, NEW A, NEW S, Held(f, p, A, S)
  PROVE  HReadOff(f, A) = S
<1>1. PICK L : Good(L, A, S) /\ Agree(f, p, A, L)
  BY DEF Held
<1>2. S = [h \in A \cap Heads |-> S[h]]
  BY <1>1 DEF Good
<1>3. \A h \in A \cap Heads : H!ChainOf(f, h) = S[h]
  BY <1>1, <1>2, ChainOfHead
<1>4. QED
  BY <1>2, <1>3 DEF HReadOff

LEMMA HReadOffNow ==
  /\ H!AsSequences = HReadOff(fwd, hlive)
  /\ H!AsSequences' = HReadOff(fwd', hlive')
BY DEF H!AsSequences, HReadOff, H!LiveHeads, H!Contents, H!Chain

(* What lies ahead of a place, one step on.                                *)
LEMMA AheadUnrolls ==
  ASSUME NEW L, NEW S, Seen(L, S), NEW h \in DOMAIN S,
         NEW x \in RingNodesOf(S, h)
  PROVE  /\ H!ChainOf(fwd, x) = HAhead(fwd, fwd[x])
         /\ HAhead(fwd, fwd[x]) \in Seq(Entries)
         /\ fwd[x] # NULL => fwd[x] \in ToSet(S[h])
<1>1. Good(L, hlive, S) /\ Agree(fwd, pprev, hlive, L)
  BY DEF Seen
<1>2. /\ H!ChainOf(fwd, x) = IF fwd[x] = NULL THEN <<>>
                             ELSE <<fwd[x]>> \o H!ChainOf(fwd, fwd[x])
      /\ H!ChainOf(fwd, x) \in Seq(Entries)
      /\ fwd[x] # NULL => fwd[x] \in ToSet(S[h])
  BY <1>1, ChainUnrolls
<1>3. QED
  BY <1>2 DEF HAhead

LEMMA HStarts ==
  ASSUME NEW L, NEW S, Seen(L, S),
         \/ \E h \in H!LiveHeads, how \in {"plain", "safe"} : H!ForEach(h, how)
         \/ \E e \in H!Hashed : H!ForEachContinue(e) \/ H!ForEachFrom(e)
  PROVE  /\ fwd' = fwd /\ pprev' = pprev /\ hlive' = hlive /\ hcall' = hcall
         /\ HLoop(fwd', S, looping', hpos', hseen', htodo')
<1>1. /\ H!LiveHeads = DOMAIN S
      /\ \A e : e \in H!Hashed <=> OnAList(S, e)
  BY HCallerSees DEF Seen
<1>2. PICK how, first, expected :
        /\ H!Start(how, first, expected) /\ how # "no"
        /\ \/ \E h \in DOMAIN S : \E x \in RingNodesOf(S, h) :
                first = fwd[x] /\ expected = H!ChainOf(fwd, x)
           \/ \E h \in DOMAIN S : \E x \in ToSet(S[h]) :
                first = x /\ expected = <<x>> \o H!ChainOf(fwd, x)
  <2>1. CASE \E h \in H!LiveHeads, how \in {"plain", "safe"} : H!ForEach(h, how)
    <3>1. PICK h \in DOMAIN S, how \in {"plain", "safe"} :
            H!Start(how, fwd[h], H!ChainOf(fwd, h))
      BY <1>1, <2>1 DEF H!ForEach, H!Contents, H!Chain
    <3>2. h \in RingNodesOf(S, h) /\ how # "no"
      BY DEF RingNodesOf
    <3>3. QED
      BY <3>1, <3>2
  <2>2. CASE \E e \in H!Hashed : H!ForEachContinue(e) \/ H!ForEachFrom(e)
    <3>1. PICK e \in H!Hashed :
            \/ H!Start("plain", fwd[e], H!ChainOf(fwd, e))
            \/ H!Start("plain", e, <<e>> \o H!ChainOf(fwd, e))
      BY <2>2 DEF H!ForEachContinue, H!ForEachFrom, H!Chain
    <3>2. PICK h \in DOMAIN S : e \in ToSet(S[h])
      BY <1>1 DEF OnAList
    <3>3. e \in RingNodesOf(S, h) /\ "plain" # "no"
      BY <3>2 DEF RingNodesOf
    <3>4. QED
      BY <3>1, <3>2, <3>3
  <2>3. QED
    BY <2>1, <2>2
<1>3. /\ looping' = how /\ hpos' = first /\ hseen' = <<>> /\ htodo' = expected
      /\ fwd' = fwd /\ pprev' = pprev /\ hlive' = hlive /\ hcall' = hcall
  BY <1>2 DEF H!Start, H!heap
<1>4. /\ expected = HAhead(fwd, first) /\ expected \in Seq(Entries)
      /\ first # NULL => OnAList(S, first)
  <2>1. CASE \E h \in DOMAIN S : \E x \in RingNodesOf(S, h) :
               first = fwd[x] /\ expected = H!ChainOf(fwd, x)
    BY <2>1, AheadUnrolls DEF OnAList
  <2>2. CASE \E h \in DOMAIN S : \E x \in ToSet(S[h]) :
               first = x /\ expected = <<x>> \o H!ChainOf(fwd, x)
    <3>0. PICK h \in DOMAIN S : \E x \in ToSet(S[h]) :
            first = x /\ expected = <<x>> \o H!ChainOf(fwd, x)
      BY <2>2
    <3>1. PICK x \in ToSet(S[h]) :
            first = x /\ expected = <<x>> \o H!ChainOf(fwd, x)
      BY <3>0
    <3>2. H!ChainOf(fwd, x) \in Seq(Entries)
      <4>1. x \in RingNodesOf(S, h)
        BY DEF RingNodesOf
      <4>2. QED
        BY <4>1, AheadUnrolls
    <3>3. x \in Entries /\ x # NULL
      BY ListedHas, NodesAssumption DEF Seen, Nodes
    <3>4. QED
      BY <3>1, <3>2, <3>3 DEF HAhead, OnAList
  <2>3. QED
    BY <1>2, <2>1, <2>2
<1>5. <<>> \o expected = expected
  BY <1>4
<1>6. QED
  BY <1>2, <1>3, <1>4, <1>5 DEF HLoop

LEMMA OthersStay ==
  ASSUME NEW L, NEW A, NEW S, Good(L, A, S), NEW e \in A \cap Entries,
         NEW h \in DOMAIN S, NEW x \in ToSet(S[h]) \ {e}
  PROVE  OnAList(Promise!Without(S, e), x)
<1> DEFINE T == Promise!Without(S, e)
<1>1. /\ Good(JoinNeighbours(L, e), A \ {e}, T)
      /\ DOMAIN T = DOMAIN S
      /\ \A k \in DOMAIN S : RingNodesOf(T, k) = RingNodesOf(S, k) \ {e}
  BY GoodWithout
<1> HIDE DEF T
<1>2. x # h
  <2>1. DOMAIN S = A \cap Heads /\ ToSet(S[h]) \cap Heads = {}
    BY GoodFacts
  <2>2. QED
    BY <2>1
<1>3. x \in ToSet(T[h])
  BY <1>1, <1>2 DEF RingNodesOf
<1>4. QED
  BY <1>1, <1>3 DEF OnAList, T

LEMMA SeenGoesOn ==
  ASSUME NEW s \in Seq(Entries), NEW t \in Seq(Entries), NEW e \in Entries
  PROVE  Append(s, e) \o t = s \o (<<e>> \o t) /\ Append(s, e) \in Seq(Entries)
OBVIOUS

(* A turn: the body does nothing, or a safe loop's body deletes the entry  *)
(* the cursor is on.                                                       *)
LEMMA HTurns ==
  ASSUME NEW L, NEW S, Seen(L, S), HLoop(fwd, S, looping, hpos, hseen, htodo),
         H!Turn
  PROVE  \/ /\ fwd' = fwd /\ pprev' = pprev /\ hlive' = hlive /\ hcall' = hcall
            /\ HLoop(fwd', S, looping', hpos', hseen', htodo')
         \/ /\ HKeeps(S)
            /\ HLoop(fwd', H!Promise!Without(S, hpos), looping', hpos', hseen', htodo')
            /\ hcall' = <<"del", hpos, NULL, NULL>>
<1>1. /\ looping # "no" /\ hpos # NULL /\ H!Body
      /\ hpos' = H!Onward(fwd[hpos]) /\ hseen' = Append(hseen, hpos)
      /\ looping' = looping /\ htodo' = htodo
  BY DEF H!Turn
<1>2. PICK h \in DOMAIN S : hpos \in ToSet(S[h])
  BY <1>1 DEF HLoop, OnAList
<1>3. /\ H!ChainOf(fwd, hpos) = HAhead(fwd, fwd[hpos])
      /\ HAhead(fwd, fwd[hpos]) \in Seq(Entries)
      /\ fwd[hpos] # NULL => fwd[hpos] \in ToSet(S[h])
  <2>1. hpos \in RingNodesOf(S, h)
    BY <1>2 DEF RingNodesOf
  <2>2. QED
    BY <2>1, AheadUnrolls
<1>4. /\ hpos \in hlive \cap Entries /\ L.prev[hpos] # hpos /\ L.next[hpos] # hpos
      /\ Good(L, hlive, S) /\ Agree(fwd, pprev, hlive, L)
  BY <1>2, ListedHas DEF Seen
<1>5. hseen \in Seq(Entries) /\ hseen \o (<<hpos>> \o H!ChainOf(fwd, hpos)) = htodo
  BY <1>1 DEF HLoop, HAhead
<1>6. /\ hseen' \o HAhead(fwd, fwd[hpos]) = htodo' /\ hseen' \in Seq(Entries)
  <2>1. PICK t : t = HAhead(fwd, fwd[hpos])
    OBVIOUS
  <2>2. t \in Seq(Entries) /\ hpos \in Entries
    BY <1>3, <1>4, <2>1
  <2>3. /\ Append(hseen, hpos) \o t = hseen \o (<<hpos>> \o t)
        /\ Append(hseen, hpos) \in Seq(Entries)
    BY <1>5, <2>2, SeenGoesOn
  <2>4. QED
    BY <1>1, <1>3, <1>5, <2>1, <2>3
<1>7. CASE UNCHANGED <<H!heap, hlive, hcall>>
  <2>1. fwd' = fwd /\ pprev' = pprev /\ hlive' = hlive /\ hcall' = hcall
    BY <1>7 DEF H!heap
  <2>2. hpos' = fwd[hpos]
    BY <1>1, <2>1 DEF H!Onward
  <2>3. HLoop(fwd', S, looping', hpos', hseen', htodo')
    BY <1>1, <1>3, <1>6, <2>1, <2>2 DEF HLoop, OnAList
  <2>4. QED
    BY <2>1, <2>3
<1>8. CASE /\ looping = "safe" /\ H!Unlink(hpos) /\ hlive' = hlive
           /\ hcall' = <<"del", hpos, NULL, NULL>>
  <2>1. pprev[hpos] # NULL /\ fwd[hpos] # hpos
    BY <1>4, Neighbours DEF Agree, Forward
  <2>2. Held(fwd', pprev', hlive', H!Promise!Without(S, hpos))
    BY <1>4, <1>8, <2>1, HUnlinkKeeps
  <2>3. HKeeps(S)
    <3>1. HReach(fwd', pprev', hlive', <<"del", hpos, NULL, NULL>>, S)
      BY <2>2 DEF HReach, H!Promise!After
    <3>2. QED
      BY <1>8, <3>1 DEF HKeeps
  <2>4. hpos' = fwd[hpos]
    BY <1>1, <1>8 DEF H!Onward
  <2>5. HAhead(fwd', fwd[hpos]) = HAhead(fwd, fwd[hpos])
    <3>1. fwd' = [fwd EXCEPT ![pprev[hpos]] = fwd[hpos], ![hpos] = NULL]
      BY <1>8 DEF H!Unlink
    <3>2. CASE fwd[hpos] = NULL
      BY <3>2 DEF HAhead
    <3>3. CASE fwd[hpos] # NULL
      <4>1. Good(L, hlive, S) /\ Agree(fwd, pprev, hlive, L) /\ h \in DOMAIN S
            /\ hpos \in ToSet(S[h])
        BY <1>2, <1>4
      <4>2. H!ChainOf(fwd', fwd[hpos]) = H!ChainOf(fwd, fwd[hpos])
        <5>1. TakenOff(fwd, pprev, fwd', hpos)
          BY <1>4, <3>1 DEF TakenOff, Agree, LinkFields
        <5>2. QED
          BY <3>3, <4>1, <5>1, ChainKept
      <4>3. QED
        BY <3>3, <4>2 DEF HAhead
    <3>4. QED
      BY <3>2, <3>3
  <2>6. fwd[hpos] # NULL => OnAList(H!Promise!Without(S, hpos), fwd[hpos])
    <3>1. ASSUME fwd[hpos] # NULL
          PROVE  OnAList(Promise!Without(S, hpos), fwd[hpos])
      <4>1. fwd[hpos] \in ToSet(S[h]) \ {hpos}
        BY <1>3, <2>1, <3>1
      <4>2. hpos \in hlive \cap Entries /\ Good(L, hlive, S)
        BY <1>4
      <4>3. QED
        BY <1>2, <4>1, <4>2, OthersStay
    <3>2. QED
      BY <3>1, SameWithout
  <2>7. HLoop(fwd', H!Promise!Without(S, hpos), looping', hpos', hseen', htodo')
    BY <1>1, <1>6, <2>4, <2>5, <2>6 DEF HLoop
  <2>8. QED
    BY <1>8, <2>3, <2>7
<1>9. QED
  BY <1>1, <1>7, <1>8 DEF H!Body

(* A call outside a loop leaves no loop running. *)
HCall ==
  \/ \E h \in Heads : H!InitHead(h)
  \/ \E n \in Entries : H!InitNode(n) \/ H!Del(n) \/ H!DelInit(n) \/ H!AddFake(n)
  \/ \E n \in Entries, h \in Heads : H!AddHead(n, h)
  \/ \E n, m \in Entries : H!AddBefore(n, m) \/ H!AddAfter(n, m)
  \/ \E old, new \in Heads : H!MoveList(old, new)

LEMMA HCallKeeps ==
  ASSUME NEW L, NEW S, Seen(L, S), HCall
  PROVE  /\ HKeeps(S)
         /\ looping = "no" /\ looping' = looping /\ hpos' = hpos
         /\ hseen' = hseen /\ htodo' = htodo
<1>1. CASE \E h \in Heads : H!InitHead(h)
  <2>1. PICK h \in Heads : H!InitHead(h)
    BY <1>1
  <2>2. HKeeps(S)
    BY <2>1, HInitKeeps DEF Nodes
  <2>3. QED
    BY <2>1, <2>2 DEF H!InitHead, H!Did, H!loop
<1>2. CASE \E n \in Entries : H!InitNode(n)
  <2>1. PICK n \in Entries : H!InitNode(n)
    BY <1>2
  <2>2. HKeeps(S)
    BY <2>1, HInitKeeps DEF Nodes
  <2>3. QED
    BY <2>1, <2>2 DEF H!InitNode, H!Did, H!loop
<1>3. CASE \E n \in Entries : H!Del(n) \/ H!DelInit(n)
  BY <1>3, HDelKeeps DEF H!Del, H!DelInit, H!Did, H!loop
<1>4. CASE \E n \in Entries : H!AddFake(n)
  BY <1>4, HFakeKeeps DEF H!AddFake, H!Did, H!loop
<1>5. CASE \E n \in Entries, h \in Heads : H!AddHead(n, h)
  BY <1>5, HAddKeeps DEF H!AddHead, H!Did, H!loop
<1>6. CASE \E n, m \in Entries : H!AddBefore(n, m) \/ H!AddAfter(n, m)
  BY <1>6, HAddKeeps DEF H!AddBefore, H!AddAfter, H!Did, H!loop
<1>7. CASE \E old, new \in Heads : H!MoveList(old, new)
  BY <1>7, HMoveKeeps DEF H!MoveList, H!Did, H!loop
<1>8. QED
  BY <1>1, <1>2, <1>3, <1>4, <1>5, <1>6, <1>7 DEF HCall

LEMMA HInit ==
  ASSUME H!Init
  PROVE  HInv /\ H!Promise!Init
<1>1. /\ fwd = [x \in Nodes |-> NULL] /\ pprev = [e \in Entries |-> NULL]
      /\ hlive = {} /\ hcall[1] = "none"
      /\ looping = "no" /\ hpos = NULL /\ hseen = <<>>
  BY DEF H!Init, H!Owners, Nodes
<1>2. PICK L : L = [next |-> [x \in Nodes |-> NULL], prev |-> [x \in Nodes |-> NULL]]
  OBVIOUS
<1>3. H!AsSequences = [h \in {} |-> <<>>]
  BY <1>1 DEF H!AsSequences, H!LiveHeads
<1>4. PICK S : S = [h \in {} |-> <<>>]
  OBVIOUS
<1>5. Good(L, {}, S)
  <2>1. Heap(L, Nodes)
    BY <1>2 DEF Heap
  <2>2. S = [h \in {} \cap Heads |-> S[h]]
    BY <1>4
  <2>3. QED
    BY <2>1, <2>2 DEF Good
<1>6. Agree(fwd, pprev, {}, L)
  BY <1>1 DEF Agree, LinkFields
<1>7. Held(fwd, pprev, hlive, H!AsSequences)
  BY <1>1, <1>3, <1>4, <1>5, <1>6 DEF Held
<1>8. HLoop(fwd, H!AsSequences, looping, hpos, hseen, htodo)
  BY <1>1 DEF HLoop
<1>9. QED
  BY <1>1, <1>3, <1>7, <1>8 DEF HInv, H!Promise!Init

LEMMA HNext ==
  ASSUME HInv, H!Next
  PROVE  HInv' /\ [H!Promise!Next]_<<H!AsSequences, hcall>>
<1>1. PICK S : S = H!AsSequences
  OBVIOUS
<1>2. PICK L : Seen(L, S)
  BY <1>1 DEF HInv, Held, Seen
<1>3. HLoop(fwd, S, looping, hpos, hseen, htodo)
  BY <1>1 DEF HInv
<1>4. PICK T : T = H!Promise!After(S, hcall'[1], hcall'[2], hcall'[3], hcall'[4])
  OBVIOUS
<1>5. ASSUME HKeeps(S)
      PROVE  /\ Held(fwd', pprev', hlive', T) /\ H!AsSequences' = T
             /\ H!Promise!Next
  <2>1. Held(fwd', pprev', hlive', T)
    BY <1>4, <1>5 DEF HKeeps, HReach
  <2>2. H!AsSequences' = T
    BY <2>1, HReadOffIs, HReadOffNow
  <2>3. QED
    BY <1>1, <1>4, <2>1, <2>2 DEF H!Promise!Next
<1>6. ASSUME fwd' = fwd, pprev' = pprev, hlive' = hlive, hcall' = hcall,
             HLoop(fwd', S, looping', hpos', hseen', htodo')
      PROVE  HInv' /\ UNCHANGED <<H!AsSequences, hcall>>
  <2>1. H!AsSequences' = S
    BY <1>1, <1>6, HReadOffNow
  <2>2. Held(fwd', pprev', hlive', S)
    BY <1>2, <1>6 DEF Held, Seen
  <2>3. QED
    BY <1>1, <1>6, <2>1, <2>2 DEF HInv
<1>7. CASE HCall
  <2>1. /\ HKeeps(S)
        /\ looping = "no" /\ looping' = looping /\ hpos' = hpos
        /\ hseen' = hseen /\ htodo' = htodo
    BY <1>2, <1>7, HCallKeeps
  <2>2. HLoop(fwd', T, looping', hpos', hseen', htodo')
    BY <1>3, <2>1 DEF HLoop
  <2>3. QED
    BY <1>5, <2>1, <2>2 DEF HInv
<1>8. CASE \/ \E h \in H!LiveHeads, how \in {"plain", "safe"} : H!ForEach(h, how)
           \/ \E e \in H!Hashed : H!ForEachContinue(e) \/ H!ForEachFrom(e)
  BY <1>2, <1>6, <1>8, HStarts
<1>9. CASE H!Turn
  <2>1. CASE /\ fwd' = fwd /\ pprev' = pprev /\ hlive' = hlive /\ hcall' = hcall
             /\ HLoop(fwd', S, looping', hpos', hseen', htodo')
    BY <1>6, <2>1
  <2>2. CASE /\ HKeeps(S)
             /\ HLoop(fwd', H!Promise!Without(S, hpos), looping', hpos', hseen', htodo')
             /\ hcall' = <<"del", hpos, NULL, NULL>>
    <3>1. T = H!Promise!Without(S, hpos)
      BY <1>4, <2>2 DEF H!Promise!After
    <3>2. QED
      BY <1>5, <2>2, <3>1 DEF HInv
  <2>3. QED
    BY <1>2, <1>3, <1>9, <2>1, <2>2, HTurns
<1>10. CASE H!Stop
  <2>1. /\ fwd' = fwd /\ pprev' = pprev /\ hlive' = hlive /\ hcall' = hcall
        /\ looping' = "no" /\ hpos' = NULL /\ hseen' = <<>>
    BY <1>10 DEF H!Stop, H!heap
  <2>2. HLoop(fwd', S, looping', hpos', hseen', htodo')
    BY <2>1 DEF HLoop
  <2>3. QED
    BY <1>6, <2>1, <2>2
<1>11. QED
  BY <1>7, <1>8, <1>9, <1>10 DEF H!Next, HCall

LEMMA HNodes ==
  ASSUME HInv
  PROVE  NodesRight /\ H!LoopSeesAll
<1>1. PICK S : S = H!AsSequences
  OBVIOUS
<1>2. PICK L : Good(L, hlive, S) /\ Agree(fwd, pprev, hlive, L)
  BY <1>1 DEF HInv, Held
<1>3. /\ H!LiveHeads = DOMAIN S
      /\ \A h \in DOMAIN S : H!Contents(h) = S[h]
      /\ \A e : e \in H!Hashed <=> OnAList(S, e)
  BY <1>2, HCallerSees
<1>4. /\ DOMAIN S = hlive \cap Heads
      /\ \A h \in DOMAIN S : ToSet(S[h]) \subseteq hlive \cap Entries
  <2>1. Good(L, hlive, S)
    BY <1>2
  <2>2. DOMAIN S = hlive \cap Heads
    BY <2>1 DEF Good
  <2>3. \A h \in DOMAIN S : ToSet(S[h]) \subseteq hlive \cap Entries
    BY <2>1, GoodFacts
  <2>4. QED
    BY <2>2, <2>3
<1>5. ASSUME NEW x \in H!LiveHeads \cup H!Hashed, fwd[x] # NULL
      PROVE  pprev[fwd[x]] = x
  <2>1. x \in hlive
    BY <1>3, <1>4 DEF OnAList
  <2>2. /\ fwd[x] = L.next[x] /\ L.next[x] \notin Heads /\ L.next[x] # x
    BY <1>2, <1>5, <2>1 DEF Agree, Forward
  <2>3. /\ L.next[x] \in hlive /\ L.next[x] \in Nodes /\ L.prev[L.next[x]] = x
    BY <1>2, <2>1, Neighbours
  <2>4. L.next[x] \in hlive \cap Entries
    BY <2>2, <2>3 DEF Nodes
  <2>5. QED
    BY <1>2, <2>2, <2>3, <2>4 DEF Agree
<1>6. ASSUME NEW g \in H!LiveHeads, NEW h \in H!LiveHeads, g # h
      PROVE  H!ToSet(H!Contents(g)) \cap H!ToSet(H!Contents(h)) = {}
  <2>1. ToSet(S[g]) \cap ToSet(S[h]) = {}
    BY <1>2, <1>3, <1>4, <1>6 DEF Good
  <2>2. QED
    BY <1>3, <2>1, SameToSet
<1>7. ASSUME NEW e \in hlive \cap Entries
      PROVE  H!Unhashed(e) <=> e \notin H!Hashed /\ pprev[e] # e
  <2>1. pprev[e] = L.prev[e] \/ (L.prev[e] = e /\ pprev[e] = NULL)
    BY <1>2 DEF Agree
  <2>2. L.prev[e] # NULL /\ e # NULL
    BY <1>2, Neighbours
  <2>3. CASE OnAList(S, e)
    <3>1. L.prev[e] # e
      BY <1>2, <2>3, ListedHas DEF OnAList
    <3>2. QED
      BY <1>3, <2>1, <2>2, <2>3, <3>1 DEF H!Unhashed
  <2>4. CASE ~OnAList(S, e)
    <3>1. L.prev[e] = e
      BY <1>2, <2>4, LooseHas
    <3>2. QED
      BY <1>3, <2>1, <2>2, <2>4, <3>1 DEF H!Unhashed
  <2>5. QED
    BY <2>3, <2>4
<1>8. NodesRight
  <2>1. H!PprevPointsBack
    BY <1>5, <1>6 DEF H!PprevPointsBack
  <2>2. H!UnhashedRight
    BY <1>7 DEF H!UnhashedRight
  <2>3. QED
    BY <2>1, <2>2 DEF NodesRight
<1>9. H!LoopSeesAll
  BY DEF HInv, HLoop, HAhead, H!LoopSeesAll, H!Chain
<1>10. QED
  BY <1>8, <1>9

LEMMA HStep ==
  ASSUME HInv, [ListsNext]_<<part, vars, iterVars, hlistVars>>
  PROVE  HInv' /\ [H!Promise!Next]_<<H!AsSequences, hcall>>
<1>1. CASE H!Next
  BY <1>1, HNext
<1>2. CASE UNCHANGED hlistVars
  <2>1. /\ fwd' = fwd /\ pprev' = pprev /\ hlive' = hlive /\ hcall' = hcall
        /\ looping' = looping /\ hpos' = hpos /\ hseen' = hseen /\ htodo' = htodo
    BY <1>2 DEF hlistVars
  <2>2. H!AsSequences' = H!AsSequences
    BY <2>1, HReadOffNow
  <2>3. QED
    BY <2>1, <2>2 DEF HInv
<1>3. QED
  BY <1>1, <1>2 DEF ListsNext

(* Whatever calls a program makes, each node of an hlist knows the link    *)
(* that points to it, no node is on two lists, and hlist_unhashed tells    *)
(* the nodes on none.                                                      *)
THEOREM NodesAreRight == ListsSpec => []NodesRight
<1>1. ListsInit => HInv
  BY HInit DEF ListsInit
<1>2. HInv /\ [ListsNext]_<<part, vars, iterVars, hlistVars>> => HInv'
  BY HStep
<1>3. HInv => NodesRight
  BY HNodes
<1>4. QED
  BY <1>1, <1>2, <1>3, PTL DEF ListsSpec

(* Read as sequences, the one-pointer lists implement the same promise,    *)
(* deletions by the body of a running safe loop included.                  *)
THEOREM HlistsImplementSequences == ListsSpec => HlistsAreSequences
<1>1. ListsInit => HInv /\ H!Promise!Init
  BY HInit DEF ListsInit
<1>2. HInv /\ [ListsNext]_<<part, vars, iterVars, hlistVars>>
      => HInv' /\ [H!Promise!Next]_<<H!AsSequences, hcall>>
  BY HStep
<1>3. QED
  BY <1>1, <1>2, PTL DEF ListsSpec, HlistsAreSequences, H!ImplementsSequences,
     H!Promise!Spec

-----------------------------------------------------------------------------
(* The loops.  The nodes a walk along f from h meets are w; a list read    *)
(* forwards or backwards.                                                  *)
Directions == {"next", "prev"}

Way(s, dir) == IF dir = "next" THEN s ELSE Reverse(s)

Place(m, dir, i) == IF dir = "next" THEN i ELSE (m - i) + 1

LEMMA WayParts ==
  ASSUME NEW s \in Seq(Entries), NEW dir \in Directions
  PROVE  /\ Way(s, dir) \in Seq(Entries) /\ Len(Way(s, dir)) = Len(s)
         /\ \A i \in 1..Len(s) : Way(s, dir)[i] = s[Place(Len(s), dir, i)]
BY DEF Way, Place, Reverse, Directions


LEMMA WayIs ==
  ASSUME NEW L, NEW A, NEW S, Good(L, A, S), NEW h \in DOMAIN S,
         NEW dir \in Directions
  PROVE  IsWay(Iter!Along(L, dir), h, Way(S[h], dir))
<1>1. Path(L, h, S[h]) /\ Distinct(h, S[h])
  BY GoodFacts
<1>2. CASE dir = "next"
  BY <1>1, <1>2 DEF Way, Iter!Along, IsWay, Path, Links, Linked
<1>3. CASE dir = "prev"
  BY <1>1, <1>3, BackwardsIsWay DEF Way, Iter!Along
<1>4. QED
  BY <1>2, <1>3 DEF Directions

LEMMA SameWalk ==
  ASSUME NEW f, NEW h
  PROVE  Iter!Walk(f, h) = Walk(f, h)
<1>1. Iter!Nodes = Nodes /\ \A X : Iter!Cardinality(X) = Cardinality(X)
  BY DEF Iter!Nodes, Nodes, Iter!Cardinality, Cardinality
<1>2. \A x : Steps(f, x) = CHOOSE a : IsSteps(f, x, Cardinality(Nodes), a)
  BY DEF Steps, IsSteps
<1>3. \A x : Iter!Steps(f, x) = CHOOSE a : IsSteps(f, x, Cardinality(Nodes), a)
  BY <1>1 DEF Iter!Steps, IsSteps
<1>4. \A x : Iter!Steps(f, x) = Steps(f, x)
  BY <1>2, <1>3
<1>5. Iter!Cardinality(Iter!Nodes) = Cardinality(Nodes)
  BY <1>1
<1>6. Iter!Steps(f, h) = Steps(f, h)
  BY <1>4
<1>7. QED
  BY <1>5, <1>6 DEF Iter!Walk, Walk

(* What lies ahead of a place on the way, and what lies behind it there.   *)
LEMMA AheadIs ==
  ASSUME NEW f, NEW h, NEW w, IsWay(f, h, w), NEW i \in 1..(Len(w) + 1)
  PROVE  /\ Iter!Ahead(f, h, Ring(h, w)[i]) = SubSeq(w, i, Len(w))
         /\ (Ring(h, w)[i] = h) <=> (i = Len(w) + 1)
         /\ i <= Len(w) => Ring(h, w)[i] = w[i]
<1> DEFINE m == Len(w)
           x == Ring(h, w)[i]
<1>1. w \in Seq(Entries) /\ m \in Nat /\ Distinct(h, w)
  BY DEF IsWay, Distinct
<1>2. /\ \A k \in 1..m : w[k] \in Entries /\ w[k] \notin Heads
      /\ \A k, j \in 1..m : w[k] = w[j] => k = j
      /\ h \in Heads
  BY <1>1, RingNodes DEF Distinct, Injective
<1>3. x = IF i \in 1..m THEN w[i] ELSE h
  BY DEF Ring
<1>4. Iter!Walk(f, h) = w
  BY <1>1, WalkOfRing, SameWalk DEF IsWay
<1>5. Iter!Contains(w, x) <=> x \in ToSet(w)
  BY <1>1, ContainsIs DEF Iter!Contains, Promise!Contains
<1>6. ToSet(w) = {w[k] : k \in 1..m}
  BY <1>1 DEF ToSet
<1>7. Iter!Ahead(f, h, x)
      = IF x = h THEN <<>>
        ELSE IF ~Iter!Contains(w, x) THEN <<x>>
        ELSE SubSeq(w, CHOOSE k \in 1..m : w[k] = x, m)
  BY <1>4 DEF Iter!Ahead
<1> HIDE DEF x, m
<1>8. CASE i \in 1..m
  <2>1. x = w[i] /\ x # h /\ i # m + 1
    BY <1>1, <1>2, <1>3, <1>8
  <2>2. Iter!Contains(w, x)
    BY <1>5, <1>6, <1>8, <2>1
  <2>3. (CHOOSE k \in 1..m : w[k] = x) = i
    BY <1>2, <1>8, <2>1
  <2>4. QED
    BY <1>7, <2>1, <2>2, <2>3 DEF x, m
<1>9. CASE i \notin 1..m
  <2>1. i = m + 1
    BY <1>1, <1>9 DEF m
  <2>2. x = h
    BY <1>3, <1>9
  <2>3. SubSeq(w, m + 1, m) = <<>>
    BY <1>1 DEF m
  <2>4. ~(i <= m)
    BY <1>1, <2>1
  <2>5. QED
    BY <1>7, <2>1, <2>2, <2>3, <2>4 DEF x, m
<1>10. QED
  BY <1>8, <1>9

(* all is what was seen, and then w from its place i on.                   *)
Made(all, sees, w, i) ==
  /\ all \in Seq(Entries) /\ sees \in Seq(Entries)
  /\ Len(all) = Len(sees) + ((Len(w) + 1) - i)
  /\ \A k \in 1..Len(sees) : all[k] = sees[k]
  /\ \A k \in 1..((Len(w) + 1) - i) : all[Len(sees) + k] = w[(i - 1) + k]

LEMMA RestParts ==
  ASSUME NEW w \in Seq(Entries), NEW i \in 1..(Len(w) + 1)
  PROVE  /\ SubSeq(w, i, Len(w)) \in Seq(Entries)
         /\ Len(SubSeq(w, i, Len(w))) = (Len(w) + 1) - i
         /\ \A k \in 1..((Len(w) + 1) - i) :
              SubSeq(w, i, Len(w))[k] = w[(i - 1) + k]
<1>1. i - 1 \in 0..Len(w) /\ (i - 1) + 1 = i /\ Len(w) - (i - 1) = (Len(w) + 1) - i
  OBVIOUS
<1>2. QED
  BY <1>1, SubSeqParts

LEMMA JoinedParts ==
  ASSUME NEW s \in Seq(Entries), NEW t \in Seq(Entries)
  PROVE  /\ s \o t \in Seq(Entries) /\ Len(s \o t) = Len(s) + Len(t)
         /\ \A k \in 1..Len(s) : (s \o t)[k] = s[k]
         /\ \A k \in 1..Len(t) : (s \o t)[Len(s) + k] = t[k]
OBVIOUS

LEMMA MadeIs ==
  ASSUME NEW all, NEW sees, NEW w \in Seq(Entries), NEW i \in 1..(Len(w) + 1),
         Made(all, sees, w, i)
  PROVE  sees \o SubSeq(w, i, Len(w)) = all
<1> DEFINE t == SubSeq(w, i, Len(w))
           l == Len(sees)
           m == (Len(w) + 1) - i
<1>1. t \in Seq(Entries) /\ Len(t) = m /\ \A k \in 1..m : t[k] = w[(i - 1) + k]
  BY RestParts
<1>2. /\ all \in Seq(Entries) /\ sees \in Seq(Entries) /\ Len(all) = l + m
      /\ \A k \in 1..l : all[k] = sees[k]
      /\ \A k \in 1..m : all[l + k] = w[(i - 1) + k]
  BY DEF Made
<1>3. l \in Nat /\ m \in Nat
  BY <1>2
<1> HIDE DEF t, l, m
<1>4. /\ sees \o t \in Seq(Entries) /\ Len(sees \o t) = l + m
      /\ \A k \in 1..l : (sees \o t)[k] = sees[k]
      /\ \A k \in 1..m : (sees \o t)[l + k] = t[k]
  BY <1>1, <1>2, JoinedParts DEF l
<1> DEFINE u == sees \o t
<1> HIDE DEF u
<1>5. ASSUME NEW k \in 1..(l + m) PROVE u[k] = all[k]
  <2>1. CASE k \in 1..l
    BY <1>2, <1>4, <2>1 DEF u
  <2>2. CASE k \notin 1..l
    <3>1. k - l \in 1..m /\ l + (k - l) = k
      BY <1>3, <2>2
    <3>2. u[l + (k - l)] = t[k - l] /\ all[l + (k - l)] = w[(i - 1) + (k - l)]
      BY <1>2, <1>4, <3>1 DEF u
    <3>3. t[k - l] = w[(i - 1) + (k - l)]
      BY <1>1, <3>1
    <3>4. QED
      BY <3>1, <3>2, <3>3
  <2>3. QED
    BY <2>1, <2>2
<1>6. u = all
  BY <1>2, <1>4, <1>5 DEF u
<1>7. QED
  BY <1>6 DEF u, t

(* A loop begins with all ahead of it, and at each turn sees one entry.    *)
LEMMA MadeFirst ==
  ASSUME NEW w \in Seq(Entries), NEW i \in 1..(Len(w) + 1)
  PROVE  Made(SubSeq(w, i, Len(w)), <<>>, w, i)
<1> DEFINE t == SubSeq(w, i, Len(w))
           m == (Len(w) + 1) - i
<1>1. t \in Seq(Entries) /\ Len(t) = m /\ \A k \in 1..m : t[k] = w[(i - 1) + k]
  BY RestParts
<1>2. m \in Nat /\ <<>> \in Seq(Entries) /\ Len(<<>>) = 0
  OBVIOUS
<1> HIDE DEF t, m
<1>3. 0 + m = m /\ \A k \in 1..m : 0 + k = k
  BY <1>2
<1>4. Made(t, <<>>, w, i)
  BY <1>1, <1>2, <1>3 DEF Made, m
<1>5. QED
  BY <1>4 DEF t

LEMMA AppendParts ==
  ASSUME NEW s \in Seq(Entries), NEW e \in Entries
  PROVE  /\ Append(s, e) \in Seq(Entries) /\ Len(Append(s, e)) = Len(s) + 1
         /\ \A k \in 1..Len(s) : Append(s, e)[k] = s[k]
         /\ Append(s, e)[Len(s) + 1] = e
OBVIOUS

LEMMA MadeOn ==
  ASSUME NEW all, NEW sees, NEW w \in Seq(Entries), NEW i \in 1..Len(w),
         Made(all, sees, w, i)
  PROVE  Made(all, Append(sees, w[i]), w, i + 1)
<1> DEFINE a == Append(sees, w[i])
           l == Len(sees)
           m == (Len(w) + 1) - i
           m2 == (Len(w) + 1) - (i + 1)
<1>1. /\ all \in Seq(Entries) /\ sees \in Seq(Entries) /\ Len(all) = l + m
      /\ \A k \in 1..l : all[k] = sees[k]
      /\ \A k \in 1..m : all[l + k] = w[(i - 1) + k]
  BY DEF Made
<1>2. l \in Nat /\ m \in Nat /\ m2 \in Nat /\ m = m2 + 1 /\ l + m = (l + 1) + m2
  BY <1>1
<1>3. w[i] \in Entries /\ i \in Int
  OBVIOUS
<1>4. /\ a \in Seq(Entries) /\ Len(a) = l + 1
      /\ \A k \in 1..l : a[k] = sees[k]
      /\ a[l + 1] = w[i]
  BY <1>1, <1>3, AppendParts
<1> HIDE DEF a, l, m, m2
<1>5. all[l + 1] = w[i]
  <2>1. 1 \in 1..m /\ (i - 1) + 1 = i
    BY <1>2, <1>3
  <2>2. QED
    BY <1>1, <2>1
<1>6. ASSUME NEW k \in 1..(l + 1) PROVE all[k] = a[k]
  <2>1. k \in 1..l \/ k = l + 1
    BY <1>2
  <2>2. QED
    BY <1>1, <1>4, <1>5, <2>1
<1>7. ASSUME NEW k \in 1..m2 PROVE all[(l + 1) + k] = w[((i + 1) - 1) + k]
  <2>1. k + 1 \in 1..m /\ l + (k + 1) = (l + 1) + k
        /\ (i - 1) + (k + 1) = ((i + 1) - 1) + k
    BY <1>2, <1>3
  <2>2. all[l + (k + 1)] = w[(i - 1) + (k + 1)]
    BY <1>1, <2>1
  <2>3. QED
    BY <2>1, <2>2
<1>8. QED
  BY <1>1, <1>2, <1>4, <1>6, <1>7 DEF Made, a, m2

(* The entry at the cursor's old place is taken off.                       *)
LEMMA MadeShift ==
  ASSUME NEW all, NEW sees, NEW w \in Seq(Entries), NEW i \in 1..Len(w),
         Made(all, sees, w, i + 1)
  PROVE  Made(all, sees, RemoveAt(w, i), i)
<1> DEFINE v == RemoveAt(w, i)
           m == Len(w)
<1>1. Len(v) = m - 1 /\ \A k \in 1..(m - 1) : v[k] = IF k < i THEN w[k] ELSE w[k + 1]
  BY RemoveParts
<1>2. m \in Nat /\ i \in 1..m
  OBVIOUS
<1>3. (m + 1) - (i + 1) = ((m - 1) + 1) - i
  BY <1>2
<1> HIDE DEF v
<1>4. ASSUME NEW k \in 1..(((m - 1) + 1) - i)
      PROVE  w[((i + 1) - 1) + k] = v[(i - 1) + k]
  <2>1. (i - 1) + k \in 1..(m - 1) /\ ~((i - 1) + k < i)
        /\ ((i - 1) + k) + 1 = ((i + 1) - 1) + k
    BY <1>2
  <2>2. QED
    BY <1>1, <2>1
<1>5. QED
  BY <1>1, <1>3, <1>4 DEF Made, v

(* The entry behind the cursor is taken off, and is not to be seen.        *)
LEMMA RemoveFirstIs ==
  ASSUME NEW s \in Seq(Entries), NEW i \in 1..Len(s), Injective(s, Len(s))
  PROVE  Iter!RemoveFirst(s, s[i]) = RemoveAt(s, i)
<1> DEFINE I == {k \in 1..Len(s) : s[k] = s[i]}
<1>1. I = {i}
  BY DEF Injective
<1>2. Iter!SelectInSeq(s, LAMBDA v : v = s[i]) = i
  BY <1>1 DEF Iter!SelectInSeq, Iter!Min
<1>3. Iter!RemoveFirst(s, s[i]) = Iter!RemoveAt(s, i)
  BY <1>2 DEF Iter!RemoveFirst
<1>4. QED
  BY <1>3 DEF Iter!RemoveAt, RemoveAt

LEMMA MadeNext ==
  ASSUME NEW all, NEW sees, NEW w \in Seq(Entries), NEW i \in 1..Len(w),
         i + 1 \in 1..Len(w), Made(all, sees, w, i), Injective(all, Len(all))
  PROVE  LET less == Iter!RemoveFirst(all, w[i + 1])
         IN Made(less, sees, RemoveAt(w, i + 1), i) /\ Injective(less, Len(less))
<1> DEFINE l == Len(sees)
           m == Len(w)
           j == l + 2
           v == RemoveAt(w, i + 1)
           less == RemoveAt(all, j)
<1>1. /\ all \in Seq(Entries) /\ sees \in Seq(Entries) /\ Len(all) = l + ((m + 1) - i)
      /\ \A k \in 1..l : all[k] = sees[k]
      /\ \A k \in 1..((m + 1) - i) : all[l + k] = w[(i - 1) + k]
  BY DEF Made
<1>2. l \in Nat /\ m \in Nat /\ i \in 1..m /\ i + 1 \in 1..m
  BY <1>1
<1>3. Len(v) = m - 1 /\ \A k \in 1..(m - 1) : v[k] = IF k < i + 1 THEN w[k] ELSE w[k + 1]
  BY RemoveParts
<1>4. all[j] = w[i + 1] /\ j \in 1..Len(all)
  <2>1. 2 \in 1..((m + 1) - i) /\ (i - 1) + 2 = i + 1 /\ j \in 1..(l + ((m + 1) - i))
    BY <1>2
  <2>2. QED
    BY <1>1, <2>1
<1>5. Iter!RemoveFirst(all, w[i + 1]) = less
  BY <1>1, <1>4, RemoveFirstIs
<1>6. /\ less \in Seq(Entries) /\ Len(less) = Len(all) - 1
      /\ \A k \in 1..(Len(all) - 1) : less[k] = IF k < j THEN all[k] ELSE all[k + 1]
  BY <1>1, <1>4, RemoveParts
<1>7. Injective(less, Len(less))
  <2>1. Len(all) \in Nat
    BY <1>1
  <2> HIDE DEF less
  <2>2. QED
    <3>1. PICK u : u = less
      OBVIOUS
    <3>2. /\ Len(u) = Len(all) - 1
          /\ \A k \in 1..(Len(all) - 1) : u[k] = IF k < j THEN all[k] ELSE all[k + 1]
      BY <1>6, <3>1
    <3> HIDE DEF j
    <3>3. Injective(u, Len(all) - 1)
      BY <1>4, <2>1, <3>2, RemoveElements
    <3>4. QED
      BY <3>1, <3>2, <3>3
<1> HIDE DEF less, v
<1>8. Len(all) - 1 = l + (((m - 1) + 1) - i)
  BY <1>1, <1>2
<1>9. ASSUME NEW k \in 1..l PROVE less[k] = sees[k]
  <2>1. k \in 1..(l + (((m - 1) + 1) - i)) /\ k < j
    BY <1>2
  <2>2. QED
    BY <1>1, <1>6, <1>8, <2>1
<1>10. ASSUME NEW k \in 1..(((m - 1) + 1) - i)
       PROVE  less[l + k] = v[(i - 1) + k]
  <2>1. l + k \in 1..(l + (((m - 1) + 1) - i)) /\ (i - 1) + k \in 1..(m - 1)
        /\ (l + k < j <=> k = 1) /\ ((i - 1) + k < i + 1 <=> k = 1)
        /\ k \in 1..((m + 1) - i) /\ k + 1 \in 1..((m + 1) - i)
        /\ (l + k) + 1 = l + (k + 1) /\ ((i - 1) + k) + 1 = (i - 1) + (k + 1)
    BY <1>2
  <2>2. less[l + k] = IF k = 1 THEN all[l + k] ELSE all[l + (k + 1)]
    BY <1>6, <1>8, <2>1
  <2>3. v[(i - 1) + k] = IF k = 1 THEN w[(i - 1) + k] ELSE w[(i - 1) + (k + 1)]
    BY <1>3, <2>1
  <2>4. all[l + k] = w[(i - 1) + k] /\ all[l + (k + 1)] = w[(i - 1) + (k + 1)]
    BY <1>1, <2>1
  <2>5. QED
    BY <2>2, <2>3, <2>4
<1>11. Made(less, sees, v, i)
  BY <1>1, <1>3, <1>6, <1>8, <1>9, <1>10 DEF Made
<1>12. QED
  BY <1>5, <1>7, <1>11 DEF v

(* Taking an entry off a list takes it off the way.                        *)
LEMMA WayRemove ==
  ASSUME NEW s \in Seq(Entries), NEW dir \in Directions, NEW i \in 1..Len(s)
  PROVE  /\ Place(Len(s), dir, i) \in 1..Len(s)
         /\ Way(RemoveAt(s, Place(Len(s), dir, i)), dir) = RemoveAt(Way(s, dir), i)
<1> DEFINE m == Len(s)
           j == Place(m, dir, i)
           u == RemoveAt(s, j)
           w == Way(s, dir)
           a == Way(u, dir)
           b == RemoveAt(w, i)
<1>1. m \in Nat /\ i \in 1..m
  OBVIOUS
<1>2. j \in 1..m
  BY <1>1 DEF Place
<1>3. /\ u \in Seq(Entries) /\ Len(u) = m - 1
      /\ \A k \in 1..(m - 1) : u[k] = IF k < j THEN s[k] ELSE s[k + 1]
  BY <1>2, RemoveParts
<1>4. /\ w \in Seq(Entries) /\ Len(w) = m
      /\ \A k \in 1..m : w[k] = s[Place(m, dir, k)]
  BY WayParts
<1> HIDE DEF u, w
<1>5. /\ a \in Seq(Entries) /\ Len(a) = m - 1
      /\ \A k \in 1..(m - 1) : a[k] = u[Place(m - 1, dir, k)]
  <2>1. /\ a \in Seq(Entries) /\ Len(a) = Len(u)
        /\ \A k \in 1..Len(u) : a[k] = u[Place(Len(u), dir, k)]
    BY <1>3, WayParts
  <2>2. QED
    BY <1>3, <2>1
<1>6. /\ b \in Seq(Entries) /\ Len(b) = m - 1
      /\ \A k \in 1..(m - 1) : b[k] = IF k < i THEN w[k] ELSE w[k + 1]
  BY <1>4, RemoveParts
<1> HIDE DEF a, b, m
<1>7. ASSUME NEW k \in 1..(m - 1) PROVE a[k] = b[k]
  <2>1. k \in 1..m /\ k + 1 \in 1..m
    BY <1>1
  <2>2. b[k] = IF k < i THEN s[Place(m, dir, k)] ELSE s[Place(m, dir, k + 1)]
    BY <1>4, <1>6, <2>1
  <2>3. CASE dir = "next"
    <3>1. Place(m - 1, dir, k) = k /\ j = i /\ Place(m, dir, k) = k
          /\ Place(m, dir, k + 1) = k + 1
      BY <2>3 DEF Place
    <3>2. a[k] = u[k]
      BY <1>5, <3>1
    <3>3. QED
      BY <1>3, <2>2, <3>1, <3>2
  <2>4. CASE dir = "prev"
    <3>1. /\ Place(m - 1, dir, k) = m - k /\ j = (m - i) + 1
          /\ Place(m, dir, k) = (m - k) + 1
          /\ Place(m, dir, k + 1) = m - k
      BY <1>1, <2>1, <2>4 DEF Place
    <3>2. m - k \in 1..(m - 1) /\ (m - k < (m - i) + 1 <=> ~(k < i))
      BY <1>1
    <3>3. a[k] = IF k < i THEN s[(m - k) + 1] ELSE s[m - k]
      BY <1>3, <1>5, <3>1, <3>2
    <3>4. QED
      BY <2>2, <3>1, <3>3
  <2>5. QED
    BY <2>3, <2>4 DEF Directions
<1>8. a = b
  BY <1>5, <1>6, <1>7
<1>9. QED
  BY <1>2, <1>8 DEF a, b, u, w, m

-----------------------------------------------------------------------------
(* A body takes e off the list h, or moves it to another list.             *)
Takes(L, h, e, M) ==
  \/ M \in {ListDel(L, e), ListDelInit(L, e)}
  \/ \E other \in Heads \ {h} : M \in {ListMove(L, e, other), ListMoveTail(L, e, other)}

AllListed(L, A, S) == Good(L, A, S) /\ Heads \subseteq A

LEMMA AllListedHas ==
  ASSUME NEW L, NEW A, NEW S, AllListed(L, A, S)
  PROVE  DOMAIN S = Heads
<1>1. DOMAIN S = A \cap Heads
  BY DEF AllListed, Good
<1>2. QED
  BY <1>1 DEF AllListed

LEMMA WithoutIs ==
  ASSUME NEW L, NEW A, NEW S, Good(L, A, S), NEW h \in DOMAIN S,
         NEW j \in 1..Len(S[h])
  PROVE  /\ Promise!Without(S, S[h][j])[h] = RemoveAt(S[h], j)
         /\ S[h][j] \in A \cap Entries
<1> DEFINE e == S[h][j]
<1>1. Distinct(h, S[h]) /\ ToSet(S[h]) \subseteq A \cap Entries
  BY GoodFacts
<1>2. e \in ToSet(S[h]) /\ e = Ring(h, S[h])[j] /\ j \in 0..Len(S[h])
  BY <1>1, RingNodes DEF Elements
<1>3. Promise!Contains(S[h], e) /\ Promise!IndexIn(S, h, e) = j
  BY <1>1, <1>2, ContainsIs, IndexIs DEF Distinct
<1>4. Promise!Without(S, e)[h] = Promise!RemoveAt(S[h], j)
  BY <1>3 DEF Promise!Without
<1>5. QED
  BY <1>1, <1>2, <1>4 DEF Promise!RemoveAt, RemoveAt

(* The lists of heap M, the one of h being s.                              *)
LeftAs(M, h, s) == \E B, T : AllListed(M, B, T) /\ T[h] = s

LEMMA TakesOff ==
  ASSUME NEW L, NEW A, NEW S, AllListed(L, A, S), NEW h \in Heads,
         NEW s, s = S[h], NEW j \in 1..Len(s), NEW e, e = s[j],
         NEW M, Takes(L, h, e, M)
  PROVE  LeftAs(M, h, RemoveAt(s, j))
<1> DEFINE T == Promise!Without(S, e)
<1>1. DOMAIN S = Heads /\ Good(L, A, S) /\ Heads \subseteq A
  BY AllListedHas DEF AllListed
<1>2. T[h] = RemoveAt(S[h], j) /\ e \in A \cap Entries /\ e \notin Heads
  BY <1>1, WithoutIs, NodesAssumption
<1>3. CASE M \in {ListDel(L, e), ListDelInit(L, e)}
  <2>1. Good(ListDel(L, e), A \ {e}, T) /\ Good(ListDelInit(L, e), A, T)
    BY <1>1, <1>2, GoodDel
  <2>2. Heads \subseteq A \ {e}
    BY <1>1, <1>2
  <2>3. QED
    BY <1>1, <1>2, <1>3, <2>1, <2>2 DEF AllListed, LeftAs
<1>4. ASSUME NEW other \in Heads \ {h},
             M \in {ListMove(L, e, other), ListMoveTail(L, e, other)}
      PROVE  LeftAs(M, h, RemoveAt(s, j))
  <2>1. other \in DOMAIN S /\ other \in RingNodesOf(S, other) \ {e}
    BY <1>1, <1>2 DEF RingNodesOf
  <2>2. /\ Good(ListMove(L, e, other), A, Promise!PutBehind(T, other, <<e>>))
        /\ Good(ListMoveTail(L, e, other), A, Promise!PutBefore(T, other, <<e>>))
    BY <1>1, <1>2, <2>1, GoodMove
  <2>3. Promise!HeadOf(T, other) = other
    BY DEF Promise!HeadOf
  <2>4. h \in DOMAIN T
    BY <1>1 DEF Promise!Without
  <2> HIDE DEF T
  <2>5. \A i, w : Promise!PutAt(T, other, i, w)[h] = T[h]
    BY <2>4 DEF Promise!PutAt, Promise!With
  <2>6. /\ Promise!PutBehind(T, other, <<e>>)[h] = T[h]
        /\ Promise!PutBefore(T, other, <<e>>)[h] = T[h]
    BY <2>3, <2>5 DEF Promise!PutBehind, Promise!PutBefore
  <2>7. QED
    BY <1>1, <1>2, <1>4, <2>2, <2>6 DEF AllListed, LeftAs
<1>5. QED
  BY <1>3, <1>4 DEF Takes

LEMMA SameOps ==
  ASSUME NEW L, NEW e, NEW x
  PROVE  /\ Iter!ListAddTail(L, e, x) = ListAddTail(L, e, x)
         /\ Iter!ListDel(L, e) = ListDel(L, e)
         /\ Iter!ListDelInit(L, e) = ListDelInit(L, e)
         /\ Iter!ListMove(L, e, x) = ListMove(L, e, x)
         /\ Iter!ListMoveTail(L, e, x) = ListMoveTail(L, e, x)
<1>1. Iter!ListAddTail(L, e, x) = ListAddTail(L, e, x)
  BY DEF Iter!ListAddTail, ListAddTail, Iter!LinkBetween, LinkBetween
<1>2. Iter!ListDel(L, e) = ListDel(L, e)
  BY DEF Iter!ListDel, ListDel
<1>3. Iter!JoinNeighbours(L, e) = JoinNeighbours(L, e)
  BY DEF Iter!JoinNeighbours, JoinNeighbours
<1>4. Iter!ListDelInit(L, e) = ListDelInit(L, e)
  BY <1>3 DEF Iter!ListDelInit, ListDelInit, Iter!InitListHead, InitListHead
<1>5. Iter!ListMove(L, e, x) = ListMove(L, e, x)
  BY <1>3 DEF Iter!ListMove, ListMove, Iter!ListAdd, ListAdd,
              Iter!LinkBetween, LinkBetween
<1>6. Iter!ListMoveTail(L, e, x) = ListMoveTail(L, e, x)
  BY <1>3 DEF Iter!ListMoveTail, ListMoveTail, Iter!ListAddTail, ListAddTail,
              Iter!LinkBetween, LinkBetween
<1>7. QED
  BY <1>1, <1>2, <1>4, <1>5, <1>6

(* The invariant of the loops: the cursor x is at some place on the way of *)
(* the list's entries, tmp is the next, and what was seen and what is to   *)
(* come from that place on is what the loop is for.                        *)
Placed(w, h, safe, i, x, tmp, sees, all) ==
  /\ i \in 1..(Len(w) + 1) /\ x = Ring(h, w)[i]
  /\ Made(all, sees, w, i) /\ Injective(all, Len(all))
  /\ safe /\ i <= Len(w) => tmp = Ring(h, w)[i + 1]

OnWay(S, h, k, x, tmp, sees, all) ==
  /\ h \in Heads /\ k.dir \in Directions
  /\ \E i : Placed(Way(S[h], k.dir), h, k.safe, i, x, tmp, sees, all)

IterInv ==
  \E A, S :
    /\ AllListed(ring, A, S)
    /\ ipc = "loop" => OnWay(S, ihead, kind, ipos, temp, iseen, itodo)

LEMMA IterInit ==
  ASSUME Iter!Init
  PROVE  IterInv
<1>1. PICK self : self = [x \in Nodes |-> IF x \in Heads THEN x ELSE NULL]
  OBVIOUS
<1>2. ring = [next |-> self, prev |-> self] /\ ipc # "loop"
  BY <1>1 DEF Iter!Init, Iter!Nodes, Nodes
<1>3. PICK S : S = [h \in Heads |-> <<>>]
  OBVIOUS
<1>4. Heap(ring, Nodes)
  BY <1>1, <1>2 DEF Heap
<1>5. ASSUME NEW h \in Heads PROVE Path(ring, h, S[h]) /\ ToSet(S[h]) = {}
  <2>1. Linked(ring, h, h)
    BY <1>1, <1>2 DEF Linked, Nodes
  <2>2. QED
    BY <1>3, <2>1, PathEmpty
<1>6. Heads \cap Entries = {} /\ Heads \subseteq Nodes /\ Heads \cap Heads = Heads
  BY NodesAssumption DEF Nodes
<1>7. S = [h \in Heads \cap Heads |-> S[h]]
  BY <1>3, <1>6
<1>8. Good(ring, Heads, S)
  BY <1>4, <1>5, <1>6, <1>7 DEF Good
<1>9. QED
  BY <1>2, <1>8 DEF IterInv, AllListed

LEMMA IterPut ==
  ASSUME NEW L, NEW A, NEW S, AllListed(L, A, S), NEW e \in Entries,
         NEW h \in Heads, ~OnAList(S, e)
  PROVE  \E B, T : AllListed(ListAddTail(L, e, h), B, T)
<1>1. h \in DOMAIN S /\ h \in RingNodesOf(S, h)
  BY AllListedHas DEF RingNodesOf
<1> DEFINE B == A \ {e}
<1>2. Good(L, B, S) /\ e \in Entries \ B
  BY GoodForget DEF AllListed
<1>3. Heads \subseteq B \cup {e}
  BY DEF AllListed
<1> HIDE DEF B
<1>4. Good(ListAddTail(L, e, h), B \cup {e}, Promise!PutBefore(S, h, <<e>>))
  BY <1>1, <1>2, GoodAdd
<1>5. QED
  BY <1>3, <1>4 DEF AllListed

(* The way of a list, and how the cursor starts and moves on it.           *)
LEMMA WayHas ==
  ASSUME NEW L, NEW A, NEW S, AllListed(L, A, S), NEW h \in Heads,
         NEW dir \in Directions, NEW w, w = Way(S[h], dir)
  PROVE  /\ IsWay(Iter!Along(L, dir), h, w) /\ w \in Seq(Entries)
         /\ Len(w) \in Nat /\ Len(w) = Len(S[h]) /\ Distinct(h, w)
         /\ Iter!Walk(Iter!Along(L, dir), h) = w
         /\ S[h] \in Seq(Entries) /\ ToSet(w) = ToSet(S[h])
<1>1. IsWay(Iter!Along(L, dir), h, w)
  BY AllListedHas, WayIs DEF AllListed
<1>2. Distinct(h, w) /\ w \in Seq(Entries) /\ Len(w) \in Nat
  BY <1>1 DEF IsWay, Distinct
<1>3. Iter!Walk(Iter!Along(L, dir), h) = w
  BY <1>1, <1>2, WalkOfRing, SameWalk DEF IsWay
<1>4. S[h] \in Seq(Entries)
  <2>1. h \in DOMAIN S /\ Good(L, A, S)
    BY AllListedHas DEF AllListed
  <2>2. Distinct(h, S[h])
    BY <2>1, GoodFacts
  <2>3. QED
    BY <2>2 DEF Distinct
<1>5. /\ Len(w) = Len(S[h])
      /\ \A i \in 1..Len(S[h]) : w[i] = S[h][Place(Len(S[h]), dir, i)]
  BY <1>4, WayParts
<1>6. ToSet(w) = ToSet(S[h])
  <2>1. PICK s, m : s = S[h] /\ m = Len(s)
    OBVIOUS
  <2>2. /\ m \in Nat /\ ToSet(s) = Elements(s, m) /\ ToSet(w) = Elements(w, m)
        /\ \A i \in 1..m : w[i] = s[Place(m, dir, i)]
    BY <1>2, <1>4, <1>5, <2>1, ElementsAre
  <2>3. \A i \in 1..m : Place(m, dir, i) \in 1..m
                        /\ Place(m, dir, Place(m, dir, i)) = i
    BY <2>2 DEF Place
  <2>4. Elements(s, m) = Elements(w, m)
    BY <2>2, <2>3 DEF Elements
  <2>5. QED
    BY <2>1, <2>2, <2>4
<1>7. QED
  BY <1>1, <1>2, <1>3, <1>4, <1>5, <1>6

LEMMA WayGoesOn ==
  ASSUME NEW f, NEW h, NEW w, IsWay(f, h, w), NEW i \in 1..Len(w)
  PROVE  /\ i \in 0..Len(w) /\ i + 1 \in 1..(Len(w) + 1)
         /\ f[Ring(h, w)[i]] = Ring(h, w)[i + 1] /\ Ring(h, w)[i] = w[i]
         /\ w[i] \in Entries /\ w[i] # h
<1>1. Distinct(h, w) /\ Len(w) \in Nat /\ h \in Heads
  BY DEF IsWay, Distinct
<1>2. /\ Ring(h, w)[i] = w[i] /\ w[i] \in Entries /\ w[i] \notin Heads
  BY <1>1, RingNodes
<1>3. i \in 0..Len(w) /\ i + 1 \in 1..(Len(w) + 1)
  BY <1>1
<1>4. QED
  BY <1>1, <1>2, <1>3 DEF IsWay

(* A loop starts with the first, with what follows a listed entry, or at   *)
(* one.                                                                    *)
LEMMA IterStarts ==
  ASSUME NEW L, NEW A, NEW S, AllListed(L, A, S), NEW h \in Heads,
         NEW dir \in Directions, NEW safe, NEW first, NEW tmp,
         first \in ToSet(S[h]) \/
           \E e \in ToSet(S[h]) \cup {h} : first = Iter!Along(L, dir)[e],
         safe => tmp = Iter!Along(L, dir)[first]
  PROVE  OnWay(S, h, [dir |-> dir, safe |-> safe], first, tmp, <<>>,
               Iter!Ahead(Iter!Along(L, dir), h, first))
<1> DEFINE f == Iter!Along(L, dir)
<1>1. PICK w : w = Way(S[h], dir)
  OBVIOUS
<1>2. /\ IsWay(f, h, w) /\ w \in Seq(Entries) /\ Distinct(h, w)
      /\ Len(w) \in Nat /\ ToSet(w) = ToSet(S[h])
  BY <1>1, WayHas
<1>3. /\ \A i \in 1..Len(w) : Ring(h, w)[i] = w[i]
      /\ ToSet(w) = Elements(w, Len(w)) /\ Ring(h, w)[0] = h
      /\ \A i \in 0..Len(w) : f[Ring(h, w)[i]] = Ring(h, w)[i + 1]
  BY <1>2, RingNodes DEF IsWay, IsRing
<1>4. PICK i \in 1..(Len(w) + 1) : first = Ring(h, w)[i]
  <2>1. CASE first \in ToSet(S[h])
    <3>1. PICK i \in 1..Len(w) : first = w[i]
      BY <1>2, <1>3, <2>1 DEF Elements
    <3>2. i \in 1..(Len(w) + 1)
      BY <1>2
    <3>3. QED
      BY <1>3, <3>1, <3>2
  <2>2. ASSUME NEW e \in ToSet(S[h]) \cup {h}, first = f[e]
        PROVE  \E j \in 1..(Len(w) + 1) : first = Ring(h, w)[j]
    <3>1. PICK i \in 0..Len(w) : e = Ring(h, w)[i]
      <4>1. CASE e = h
        <5>1. 0 \in 0..Len(w)
          BY <1>2
        <5>2. QED
          BY <1>3, <4>1, <5>1
      <4>2. CASE e \in ToSet(w)
        <5>1. PICK i \in 1..Len(w) : e = w[i]
          BY <1>3, <4>2 DEF Elements
        <5>2. i \in 0..Len(w)
          BY <1>2
        <5>3. QED
          BY <1>3, <5>1, <5>2
      <4>3. QED
        BY <1>2, <4>1, <4>2
    <3>2. i + 1 \in 1..(Len(w) + 1)
      BY <1>2
    <3>3. QED
      BY <1>3, <2>2, <3>1, <3>2
  <2>3. QED
    BY <2>1, <2>2
<1>5. Iter!Ahead(f, h, first) = SubSeq(w, i, Len(w))
  BY <1>2, <1>4, AheadIs
<1> DEFINE all == SubSeq(w, i, Len(w))
<1>6. Made(all, <<>>, w, i)
  BY <1>2, MadeFirst
<1>7. Injective(all, Len(all))
  <2>1. /\ Len(all) = (Len(w) + 1) - i
        /\ \A k \in 1..((Len(w) + 1) - i) : all[k] = w[(i - 1) + k]
    BY <1>2, RestParts
  <2>2. \A k \in 1..((Len(w) + 1) - i) : (i - 1) + k \in 1..Len(w)
    BY <1>2
  <2>3. \A j, k \in 1..Len(w) : w[j] = w[k] => j = k
    BY <1>2 DEF Distinct, Injective
  <2> HIDE DEF all
  <2>4. ASSUME NEW j \in 1..((Len(w) + 1) - i), NEW k \in 1..((Len(w) + 1) - i),
               all[j] = all[k]
        PROVE  j = k
    <3>1. (i - 1) + j = (i - 1) + k
      BY <2>1, <2>2, <2>3, <2>4
    <3>2. QED
      BY <1>2, <3>1
  <2>5. QED
    BY <2>1, <2>4 DEF Injective
<1>8. safe /\ i <= Len(w) => tmp = Ring(h, w)[i + 1]
  <2>1. ASSUME i <= Len(w) PROVE i \in 0..Len(w)
    BY <1>2, <2>1
  <2>2. QED
    BY <1>3, <1>4, <2>1
<1> HIDE DEF all
<1>9. Placed(w, h, safe, i, first, tmp, <<>>, all)
  BY <1>4, <1>6, <1>7, <1>8 DEF Placed
<1>10. QED
  BY <1>1, <1>5, <1>9 DEF OnWay, all

(* Where the cursor is before a turn.                                      *)
LEMMA IterAt ==
  ASSUME NEW L, NEW A, NEW S, AllListed(L, A, S),
         NEW h, NEW k, NEW x, NEW tmp, NEW sees, NEW all,
         OnWay(S, h, k, x, tmp, sees, all), x # h
  PROVE  \E i \in 1..Len(S[h]) :
           /\ Placed(Way(S[h], k.dir), h, k.safe, i, x, tmp, sees, all)
           /\ x = Way(S[h], k.dir)[i]
           /\ Iter!Along(L, k.dir)[x] = Ring(h, Way(S[h], k.dir))[i + 1]
<1>1. PICK w : w = Way(S[h], k.dir)
  OBVIOUS
<1>2. PICK i : Placed(w, h, k.safe, i, x, tmp, sees, all)
  BY <1>1 DEF OnWay
<1>3. h \in Heads /\ k.dir \in Directions
  BY DEF OnWay
<1>4. IsWay(Iter!Along(L, k.dir), h, w) /\ Len(w) \in Nat /\ Len(w) = Len(S[h])
  BY <1>1, <1>3, WayHas
<1>5. i \in 1..(Len(w) + 1) /\ x = Ring(h, w)[i]
  BY <1>2 DEF Placed
<1>6. i # Len(w) + 1
  BY <1>4, <1>5, AheadIs
<1>7. i \in 1..Len(w)
  BY <1>4, <1>5, <1>6
<1>8. QED
  BY <1>1, <1>2, <1>4, <1>5, <1>7, WayGoesOn

(* A body that takes nothing off; then the cursor goes on.                 *)
LEMMA IterLooks ==
  ASSUME NEW L, NEW A, NEW S, AllListed(L, A, S),
         NEW h, NEW k, NEW x, NEW tmp, NEW sees, NEW all,
         OnWay(S, h, k, x, tmp, sees, all), x # h, NEW y, NEW tmp2,
         y = IF k.safe THEN tmp ELSE Iter!Along(L, k.dir)[x],
         k.safe => tmp2 = Iter!Along(L, k.dir)[tmp]
  PROVE  OnWay(S, h, k, y, tmp2, Append(sees, x), all)
<1>1. PICK w : w = Way(S[h], k.dir)
  OBVIOUS
<1>2. PICK i \in 1..Len(S[h]) :
        /\ Placed(w, h, k.safe, i, x, tmp, sees, all)
        /\ x = w[i] /\ Iter!Along(L, k.dir)[x] = Ring(h, w)[i + 1]
  BY <1>1, IterAt
<1>3. h \in Heads /\ k.dir \in Directions
  BY DEF OnWay
<1>4. /\ IsWay(Iter!Along(L, k.dir), h, w) /\ Len(w) \in Nat /\ Len(w) = Len(S[h])
      /\ w \in Seq(Entries)
  BY <1>1, <1>3, WayHas
<1>5. i \in 1..Len(w) /\ i + 1 \in 1..(Len(w) + 1) /\ i <= Len(w)
  BY <1>4
<1>6. y = Ring(h, w)[i + 1]
  BY <1>2, <1>5 DEF Placed
<1>7. Made(all, Append(sees, w[i]), w, i + 1)
  BY <1>2, <1>4, <1>5, MadeOn DEF Placed
<1>8. k.safe /\ i + 1 <= Len(w) => tmp2 = Ring(h, w)[(i + 1) + 1]
  <2>1. ASSUME k.safe, i + 1 <= Len(w) PROVE tmp2 = Ring(h, w)[(i + 1) + 1]
    <3>1. i + 1 \in 1..Len(w)
      BY <1>4, <2>1
    <3>2. tmp = y
      BY <2>1
    <3>3. QED
      BY <1>4, <1>6, <2>1, <3>1, <3>2, WayGoesOn
  <2>2. QED
    BY <2>1
<1>9. Placed(w, h, k.safe, i + 1, y, tmp2, Append(sees, x), all)
  BY <1>2, <1>5, <1>6, <1>7, <1>8 DEF Placed
<1>10. QED
  BY <1>1, <1>3, <1>9 DEF OnWay

LEMMA RingLess ==
  ASSUME NEW h, NEW w \in Seq(Entries), NEW i \in 1..Len(w)
  PROVE  /\ RemoveAt(w, i) \in Seq(Entries) /\ Len(RemoveAt(w, i)) = Len(w) - 1
         /\ \A k \in 0..Len(w) :
              Ring(h, RemoveAt(w, i))[k]
              = IF k < i THEN (IF k = 0 THEN h ELSE w[k]) ELSE Ring(h, w)[k + 1]
<1> DEFINE v == RemoveAt(w, i)
           m == Len(w)
<1>1. /\ v \in Seq(Entries) /\ Len(v) = m - 1
      /\ \A k \in 1..(m - 1) : v[k] = IF k < i THEN w[k] ELSE w[k + 1]
  BY RemoveParts
<1>2. m \in Nat /\ i \in 1..m
  OBVIOUS
<1>3. \A k \in 0..(m + 1) : Ring(h, w)[k] = IF k \in 1..m THEN w[k] ELSE h
  BY DEF Ring
<1> HIDE DEF v
<1>4. \A k \in 0..m : Ring(h, v)[k] = IF k \in 1..(m - 1) THEN v[k] ELSE h
  <2>1. (m - 1) + 1 = m
    BY <1>2
  <2>2. Ring(h, v) = [k \in 0..m |-> IF k \in 1..(m - 1) THEN v[k] ELSE h]
    BY <1>1, <2>1 DEF Ring
  <2> HIDE DEF m
  <2>3. QED
    BY <2>2
<1> HIDE DEF m
<1>5. ASSUME NEW k \in 0..m
      PROVE  Ring(h, v)[k]
             = IF k < i THEN (IF k = 0 THEN h ELSE w[k]) ELSE Ring(h, w)[k + 1]
  <2>1. CASE k < i
    <3>1. k = 0 \/ k \in 1..(m - 1)
      BY <1>2, <2>1
    <3>2. QED
      BY <1>1, <1>2, <1>4, <2>1, <3>1
  <2>2. CASE ~(k < i)
    <3>1. k + 1 \in 0..(m + 1) /\ (k + 1 \in 1..m <=> k \in 1..(m - 1))
      BY <1>2, <2>2
    <3>2. QED
      BY <1>1, <1>3, <1>4, <2>2, <3>1
  <2>3. QED
    BY <2>1, <2>2
<1>6. QED
  BY <1>1, <1>5 DEF v, m

Safe(k) == k.safe

Forwards(k) == k.dir = "next" /\ k.safe

LEMMA IterTakesOff ==
  ASSUME NEW L, NEW A, NEW S, AllListed(L, A, S),
         NEW h, NEW k, NEW x, NEW tmp, NEW sees, NEW all,
         OnWay(S, h, k, x, tmp, sees, all), x # h, Safe(k),
         NEW M, Takes(L, h, x, M), NEW tmp2, tmp2 = Iter!Along(M, k.dir)[tmp]
  PROVE  \E B, T : AllListed(M, B, T)
                   /\ OnWay(T, h, k, tmp, tmp2, Append(sees, x), all)
<1>1. PICK w : w = Way(S[h], k.dir)
  OBVIOUS
<1>2. PICK i \in 1..Len(S[h]) :
        /\ Placed(w, h, k.safe, i, x, tmp, sees, all)
        /\ x = w[i] /\ Iter!Along(L, k.dir)[x] = Ring(h, w)[i + 1]
  <2>1. \E i \in 1..Len(S[h]) :
           /\ Placed(Way(S[h], k.dir), h, k.safe, i, x, tmp, sees, all)
           /\ x = Way(S[h], k.dir)[i]
           /\ Iter!Along(L, k.dir)[x] = Ring(h, Way(S[h], k.dir))[i + 1]
    BY IterAt
  <2>2. QED
    BY <1>1, <2>1
<1>3. h \in Heads /\ k.dir \in Directions
  BY DEF OnWay
<1>4. /\ Len(w) \in Nat /\ Len(w) = Len(S[h])
      /\ w \in Seq(Entries) /\ S[h] \in Seq(Entries)
  BY <1>1, <1>3, WayHas
<1>5. PICK j : j = Place(Len(S[h]), k.dir, i)
  OBVIOUS
<1>6. j \in 1..Len(S[h]) /\ x = S[h][j] /\ Way(RemoveAt(S[h], j), k.dir) = RemoveAt(w, i)
  <2>1. j \in 1..Len(S[h]) /\ Way(RemoveAt(S[h], j), k.dir) = RemoveAt(w, i)
    BY <1>1, <1>3, <1>4, <1>5, WayRemove
  <2>2. w[i] = S[h][j]
    BY <1>1, <1>3, <1>4, <1>5, WayParts
  <2>3. QED
    BY <1>2, <2>1, <2>2
<1>7. PICK B, T : AllListed(M, B, T) /\ T[h] = RemoveAt(S[h], j)
  <2>1. PICK s : s = S[h]
    OBVIOUS
  <2>2. j \in 1..Len(s) /\ x = s[j]
    BY <1>6, <2>1
  <2>3. LeftAs(M, h, RemoveAt(s, j))
    BY <1>3, <2>1, <2>2, TakesOff
  <2>4. QED
    BY <2>1, <2>3 DEF LeftAs
<1>8. PICK v : v = RemoveAt(w, i)
  OBVIOUS
<1>9. v = Way(T[h], k.dir) /\ IsWay(Iter!Along(M, k.dir), h, v)
  BY <1>3, <1>6, <1>7, <1>8, WayHas
<1>10. /\ Len(v) = Len(w) - 1 /\ i \in 1..Len(w)
       /\ \A n \in 0..Len(w) :
            Ring(h, v)[n]
            = IF n < i THEN (IF n = 0 THEN h ELSE w[n]) ELSE Ring(h, w)[n + 1]
  BY <1>4, <1>8, RingLess
<1>11. tmp = Ring(h, v)[i]
  <2>1. i \in 0..Len(w) /\ ~(i < i) /\ i <= Len(w)
    BY <1>4, <1>10
  <2>2. QED
    BY <1>2, <1>10, <2>1 DEF Placed, Safe
<1>12. Made(all, Append(sees, x), v, i)
  <2>1. Made(all, Append(sees, x), w, i + 1)
    BY <1>2, <1>4, <1>10, MadeOn DEF Placed
  <2>2. QED
    BY <1>4, <1>8, <1>10, <2>1, MadeShift
<1>13. i \in 1..(Len(v) + 1)
  BY <1>4, <1>10
<1>14. i <= Len(v) => tmp2 = Ring(h, v)[i + 1]
  <2>1. ASSUME i <= Len(v) PROVE i \in 1..Len(v)
    BY <1>4, <1>10, <2>1
  <2>2. QED
    BY <1>9, <1>11, <2>1, WayGoesOn
<1>15. Placed(v, h, k.safe, i, tmp, tmp2, Append(sees, x), all)
  BY <1>2, <1>11, <1>12, <1>13, <1>14 DEF Placed
<1>16. QED
  BY <1>3, <1>7, <1>9, <1>15 DEF OnWay

LEMMA IterTakesNextOff ==
  ASSUME NEW L, NEW A, NEW S, AllListed(L, A, S),
         NEW h, NEW k, NEW x, NEW tmp, NEW sees, NEW all,
         OnWay(S, h, k, x, tmp, sees, all), x # h,
         Forwards(k), tmp # h,
         NEW M, Takes(L, h, tmp, M), NEW tmp2, tmp2 = M.next[x]
  PROVE  \E B, T :
           AllListed(M, B, T)
           /\ OnWay(T, h, k, x, tmp2, sees, Iter!RemoveFirst(all, tmp))
<1>1. PICK w : w = S[h]
  OBVIOUS
<1>2. k.dir = "next" /\ k.safe /\ w = Way(S[h], k.dir)
  BY <1>1 DEF Way, Forwards
<1>3. PICK i \in 1..Len(S[h]) :
        /\ Placed(w, h, k.safe, i, x, tmp, sees, all)
        /\ x = w[i] /\ Iter!Along(L, k.dir)[x] = Ring(h, w)[i + 1]
  <2>1. \E i \in 1..Len(S[h]) :
           /\ Placed(Way(S[h], k.dir), h, k.safe, i, x, tmp, sees, all)
           /\ x = Way(S[h], k.dir)[i]
           /\ Iter!Along(L, k.dir)[x] = Ring(h, Way(S[h], k.dir))[i + 1]
    BY IterAt
  <2>2. QED
    BY <1>2, <2>1
<1>4. h \in Heads /\ k.dir \in Directions
  BY DEF OnWay
<1>5. /\ Len(w) \in Nat /\ w \in Seq(Entries) /\ i \in 1..Len(w)
      /\ IsWay(Iter!Along(L, k.dir), h, w)
  BY <1>1, <1>2, <1>3, <1>4, WayHas
<1>6. tmp = Ring(h, w)[i + 1]
  BY <1>2, <1>3, <1>5 DEF Placed
<1>7. i + 1 \in 1..Len(w) /\ tmp = w[i + 1]
  <2>1. i + 1 \in 1..(Len(w) + 1)
    BY <1>5
  <2>2. i + 1 # Len(w) + 1
    BY <1>5, <1>6, <2>1, AheadIs
  <2>3. i + 1 \in 1..Len(w) /\ i + 1 <= Len(w)
    BY <1>5, <2>2
  <2>4. QED
    BY <1>5, <1>6, <2>1, <2>3, AheadIs
<1>8. PICK B, T : AllListed(M, B, T) /\ T[h] = RemoveAt(w, i + 1)
  <2>1. PICK j : j = i + 1
    OBVIOUS
  <2>2. j \in 1..Len(w) /\ tmp = w[j]
    BY <1>7, <2>1
  <2>3. LeftAs(M, h, RemoveAt(w, j))
    BY <1>1, <1>4, <2>2, TakesOff
  <2>4. QED
    BY <2>1, <2>3 DEF LeftAs
<1>9. PICK v : v = RemoveAt(w, i + 1)
  OBVIOUS
<1>10. v = Way(T[h], k.dir) /\ IsWay(Iter!Along(M, k.dir), h, v)
  BY <1>2, <1>4, <1>8, <1>9, WayHas DEF Way
<1>11. /\ Len(v) = Len(w) - 1
       /\ \A n \in 0..Len(w) :
            Ring(h, v)[n]
            = IF n < i + 1 THEN (IF n = 0 THEN h ELSE w[n]) ELSE Ring(h, w)[n + 1]
  BY <1>5, <1>7, <1>9, RingLess
<1>12. i \in 0..Len(w) /\ i < i + 1 /\ i # 0 /\ i \in 1..Len(v) /\ i \in 1..(Len(v) + 1)
  BY <1>5, <1>7, <1>11
<1>13. x = Ring(h, v)[i]
  BY <1>3, <1>11, <1>12
<1>14. tmp2 = Ring(h, v)[i + 1]
  <2>1. Iter!Along(M, k.dir) = M.next
    BY <1>2 DEF Iter!Along
  <2>2. QED
    BY <1>10, <1>12, <1>13, <2>1, WayGoesOn
<1>15. PICK less : less = Iter!RemoveFirst(all, tmp)
  OBVIOUS
<1>16. Made(less, sees, v, i) /\ Injective(less, Len(less))
  BY <1>3, <1>5, <1>7, <1>9, <1>15, MadeNext DEF Placed
<1>17. Placed(v, h, k.safe, i, x, tmp2, sees, less)
  BY <1>12, <1>13, <1>14, <1>16 DEF Placed
<1>18. QED
  BY <1>4, <1>8, <1>10, <1>15, <1>17 DEF OnWay

(* What a caller reads off the walks from the heads.                       *)
LEMMA IterListed ==
  ASSUME NEW A, NEW S, AllListed(ring, A, S), NEW h \in Heads
  PROVE  Iter!Listed(h) = ToSet(S[h])
<1>1. "next" \in Directions
  BY DEF Directions
<1>2. Way(S[h], "next") = S[h] /\ Iter!Along(ring, "next") = ring.next
  BY DEF Way, Iter!Along
<1>3. Iter!Walk(ring.next, h) = S[h]
  BY <1>1, <1>2, WayHas
<1>4. Iter!Listed(h) = Iter!ToSet(S[h])
  BY <1>3 DEF Iter!Listed
<1>5. QED
  BY <1>4 DEF Iter!ToSet, ToSet

LEMMA IterBegins ==
  ASSUME NEW A, NEW S, AllListed(ring, A, S), NEW h \in Heads,
         NEW dir \in Directions, NEW safe, NEW first,
         Iter!Start(h, dir, safe, first),
         first \in ToSet(S[h]) \/
           \E e \in ToSet(S[h]) \cup {h} : first = Iter!Along(ring, dir)[e]
  PROVE  IterInv'
<1> DEFINE all == Iter!Ahead(Iter!Along(ring, dir), h, first)
           k == [dir |-> dir, safe |-> safe]
<1>1. /\ ihead' = h /\ kind' = k /\ ipos' = first /\ iseen' = <<>>
      /\ itodo' = all /\ ring' = ring
      /\ safe => temp' = Iter!Along(ring, dir)[first]
  BY DEF Iter!Start
<1> HIDE DEF all
<1>2. OnWay(S, h, k, first, temp', <<>>, all)
  BY <1>1, IterStarts DEF all
<1> HIDE DEF k
<1>3. OnWay(S, ihead', kind', ipos', temp', iseen', itodo')
  BY <1>1, <1>2
<1>4. AllListed(ring', A, S)
  BY <1>1
<1>5. QED
  BY <1>3, <1>4 DEF IterInv

LEMMA IterTurns ==
  ASSUME IterInv, Iter!Look \/ Iter!TakeOff \/ Iter!TakeNextOff
  PROVE  IterInv'
<1>1. ipc = "loop" /\ ipos # ihead /\ ipc' = ipc /\ ihead' = ihead /\ kind' = kind
  BY DEF Iter!Look, Iter!TakeOff, Iter!TakeNextOff, Iter!Running, Iter!Advance
<1>2. PICK A, S : AllListed(ring, A, S)
                  /\ OnWay(S, ihead, kind, ipos, temp, iseen, itodo)
  BY <1>1 DEF IterInv
<1>3. SUFFICES \E B, T : AllListed(ring', B, T)
                         /\ OnWay(T, ihead, kind, ipos', temp', iseen', itodo')
  BY <1>1 DEF IterInv
<1>4. CASE Iter!Look
  <2>1. /\ ring' = ring /\ ipos' = Iter!Onward(ring) /\ iseen' = Append(iseen, ipos)
        /\ itodo' = itodo
        /\ kind.safe => temp' = Iter!Along(ring, kind.dir)[temp]
    BY <1>4 DEF Iter!Look, Iter!Advance
  <2>2. ipos' = IF kind.safe THEN temp ELSE Iter!Along(ring, kind.dir)[ipos]
    BY <2>1 DEF Iter!Onward
  <2>3. OnWay(S, ihead, kind, ipos', temp', Append(iseen, ipos), itodo)
    BY <1>1, <1>2, <2>1, <2>2, IterLooks
  <2>4. QED
    BY <1>2, <2>1, <2>3
<1>5. CASE Iter!TakeOff
  <2>1. /\ Safe(kind) /\ ipos' = temp /\ iseen' = Append(iseen, ipos)
        /\ itodo' = itodo /\ temp' = Iter!Along(ring', kind.dir)[temp]
    BY <1>5 DEF Iter!TakeOff, Iter!Advance, Iter!Onward, Safe
  <2>2. Takes(ring, ihead, ipos, ring')
    BY <1>5, SameOps DEF Iter!TakeOff, Takes
  <2>3. PICK B, T : AllListed(ring', B, T)
                    /\ OnWay(T, ihead, kind, temp, temp', Append(iseen, ipos), itodo)
    BY <1>1, <1>2, <2>1, <2>2, IterTakesOff
  <2>4. QED
    BY <2>1, <2>3
<1>6. CASE Iter!TakeNextOff
  <2>1. /\ Forwards(kind) /\ temp # ihead /\ ipos' = ipos /\ iseen' = iseen
        /\ temp' = ring'.next[ipos] /\ itodo' = Iter!RemoveFirst(itodo, temp)
    BY <1>6 DEF Iter!TakeNextOff, Iter!ResetNext, Forwards
  <2>2. Takes(ring, ihead, temp, ring')
    BY <1>6, SameOps DEF Iter!TakeNextOff, Takes
  <2>3. PICK B, T : AllListed(ring', B, T)
                    /\ OnWay(T, ihead, kind, ipos, temp', iseen,
                             Iter!RemoveFirst(itodo, temp))
    BY <1>1, <1>2, <2>1, <2>2, IterTakesNextOff
  <2>4. QED
    BY <2>1, <2>3
<1>7. QED
  BY <1>4, <1>5, <1>6

LEMMA IterNext ==
  ASSUME IterInv, Iter!Next
  PROVE  IterInv'
<1>1. PICK A, S : AllListed(ring, A, S)
  BY DEF IterInv
<1>2. DOMAIN S = Heads
  BY <1>1, AllListedHas
<1>3. CASE \E e \in Entries, h \in Heads : Iter!Put(e, h)
  <2>1. PICK e \in Entries, h \in Heads : Iter!Put(e, h)
    BY <1>3
  <2>2. /\ ipc' # "loop" /\ ring' = ListAddTail(ring, e, h)
        /\ \A g \in Heads : e \notin Iter!Listed(g)
    BY <2>1, SameOps DEF Iter!Put
  <2>3. ~OnAList(S, e)
    BY <1>1, <1>2, <2>2, IterListed DEF OnAList
  <2>4. \E B, T : AllListed(ListAddTail(ring, e, h), B, T)
    BY <1>1, <2>3, IterPut
  <2>5. QED
    BY <2>2, <2>4 DEF IterInv
<1>4. ASSUME NEW h \in Heads, NEW dir \in {"next", "prev"}, NEW safe \in BOOLEAN,
             Iter!ForEach(h, dir, safe)
      PROVE  IterInv'
  <2>1. Iter!Start(h, dir, safe, Iter!Along(ring, dir)[h])
    BY <1>4 DEF Iter!ForEach
  <2>2. h \in ToSet(S[h]) \cup {h} /\ dir \in Directions
    BY DEF Directions
  <2>3. QED
    BY <1>1, <2>1, <2>2, IterBegins
<1>5. ASSUME NEW h \in Heads, NEW dir \in {"next", "prev"}, NEW safe \in BOOLEAN,
             NEW e \in Iter!Listed(h) \cup {h}, Iter!ForEachContinue(h, e, dir, safe)
      PROVE  IterInv'
  <2>1. Iter!Start(h, dir, safe, Iter!Along(ring, dir)[e])
    BY <1>5 DEF Iter!ForEachContinue
  <2>2. e \in ToSet(S[h]) \cup {h} /\ dir \in Directions
    BY <1>1, IterListed DEF Directions
  <2>3. QED
    BY <1>1, <2>1, <2>2, IterBegins
<1>6. ASSUME NEW h \in Heads, NEW safe \in BOOLEAN, NEW e \in Iter!Listed(h),
             Iter!ForEachFrom(h, e, safe)
      PROVE  IterInv'
  <2>1. Iter!Start(h, "next", safe, e)
    BY <1>6 DEF Iter!ForEachFrom
  <2>2. e \in ToSet(S[h]) /\ "next" \in Directions
    BY <1>1, IterListed DEF Directions
  <2>3. QED
    BY <1>1, <2>1, <2>2, IterBegins
<1>7. CASE Iter!Stop
  <2>1. ring' = ring /\ ipc' # "loop"
    BY <1>7 DEF Iter!Stop
  <2>2. QED
    BY <1>1, <2>1 DEF IterInv
<1>8. QED
  BY <1>3, <1>4, <1>5, <1>6, <1>7, IterTurns DEF Iter!Next

(* The invariant tells what the loops are for.                             *)
LEMMA IterRight ==
  ASSUME IterInv
  PROVE  Iter!LoopSeesAll /\ Iter!TemporaryIsNext
<1>1. SUFFICES ASSUME ipc = "loop"
               PROVE  Iter!LoopSeesAll /\ Iter!TemporaryIsNext
  BY DEF Iter!LoopSeesAll, Iter!TemporaryIsNext, Iter!Running
<1>2. PICK A, S : AllListed(ring, A, S)
                  /\ OnWay(S, ihead, kind, ipos, temp, iseen, itodo)
  BY <1>1 DEF IterInv
<1>3. ihead \in Heads /\ kind.dir \in Directions
  BY <1>2 DEF OnWay
<1>4. PICK w, f : w = Way(S[ihead], kind.dir) /\ f = Iter!Along(ring, kind.dir)
  OBVIOUS
<1>5. IsWay(f, ihead, w) /\ w \in Seq(Entries) /\ ToSet(w) = ToSet(S[ihead])
  BY <1>2, <1>3, <1>4, WayHas
<1>6. PICK i : Placed(w, ihead, kind.safe, i, ipos, temp, iseen, itodo)
  BY <1>2, <1>4 DEF OnWay
<1>7. i \in 1..(Len(w) + 1) /\ ipos = Ring(ihead, w)[i] /\ Made(itodo, iseen, w, i)
  BY <1>6 DEF Placed
<1>8. Iter!LoopSeesAll
  <2>1. Iter!Ahead(f, ihead, ipos) = SubSeq(w, i, Len(w))
    BY <1>5, <1>7, AheadIs
  <2>2. iseen \o SubSeq(w, i, Len(w)) = itodo
    BY <1>5, <1>7, MadeIs
  <2>3. QED
    BY <1>4, <2>1, <2>2 DEF Iter!LoopSeesAll
<1>9. ASSUME ipos # ihead, Safe(kind)
      PROVE  temp = f[ipos] /\ temp \in Iter!Listed(ihead) \cup {ihead}
  <2>1. PICK j \in 1..Len(S[ihead]) :
          /\ Placed(w, ihead, kind.safe, j, ipos, temp, iseen, itodo)
          /\ f[ipos] = Ring(ihead, w)[j + 1]
    BY <1>2, <1>4, <1>9, IterAt
  <2>2. Len(w) = Len(S[ihead]) /\ Len(w) \in Nat
    BY <1>2, <1>3, <1>4, WayHas
  <2>3. j \in 1..Len(w) /\ j <= Len(w) /\ j + 1 \in 0..(Len(w) + 1)
    BY <2>1, <2>2
  <2>4. temp = Ring(ihead, w)[j + 1]
    BY <1>9, <2>1, <2>3 DEF Placed, Safe
  <2>5. temp = IF j + 1 \in 1..Len(w) THEN w[j + 1] ELSE ihead
    BY <2>3, <2>4 DEF Ring
  <2>6. temp \in ToSet(w) \cup {ihead}
    BY <1>5, <2>5 DEF ToSet
  <2>7. QED
    BY <1>2, <1>3, <1>5, <2>1, <2>4, <2>6, IterListed
<1>10. Iter!TemporaryIsNext
  BY <1>4, <1>9 DEF Iter!TemporaryIsNext, Iter!Running, Safe
<1>11. QED
  BY <1>8, <1>10

(* Every loop of the header visits the entries it should, once and in      *)
(* order, while the body of a safe loop takes entries off the list.        *)
THEOREM LoopsAreRight == ListsSpec => []LoopsRight
<1>1. ListsInit => IterInv /\ HInv
  BY IterInit, HInit DEF ListsInit
<1>2. IterInv /\ [ListsNext]_<<part, vars, iterVars, hlistVars>> => IterInv'
  <2>1. ASSUME IterInv, UNCHANGED iterVars PROVE IterInv'
    <3>1. /\ ring' = ring /\ ipc' = ipc /\ ihead' = ihead /\ kind' = kind
          /\ ipos' = ipos /\ temp' = temp /\ iseen' = iseen /\ itodo' = itodo
      BY <2>1 DEF iterVars
    <3>2. QED
      BY <2>1, <3>1 DEF IterInv
  <2>2. QED
    BY <2>1, IterNext DEF ListsNext
<1>3. HInv /\ [ListsNext]_<<part, vars, iterVars, hlistVars>> => HInv'
  BY HStep
<1>4. IterInv /\ HInv => LoopsRight
  BY IterRight, HNodes DEF LoopsRight
<1>5. QED
  BY <1>1, <1>2, <1>3, <1>4, PTL DEF ListsSpec
=============================================================================
