----------------------------- MODULE SlobProofs -----------------------------
(***************************************************************************)
(* Machine-checked safety of the kernel heap, for every arena, header and  *)
(* minimum size, as long as no request is so large that its length wraps.  *)
(*                                                                         *)
(* The argument: the chunks on the list always tile the arena in address   *)
(* order.  Only two things happen to the tiling: a chunk is cut in two     *)
(* (split_chunk), or a chunk absorbs the one behind it, which glue_chunk   *)
(* does at most twice.  The first lemmas are about those two.              *)
(***************************************************************************)
EXTENDS Slob, ListHeadProofs

LEMMA Consts ==
  /\ HDR \in Nat \ {0} /\ MINPART \in Nat \ {0} /\ ARENA \in Nat
  /\ HDR + MINPART <= ARENA
  /\ WORD \in Nat /\ WORD \div 2 \in Nat /\ ARENA <= WORD \div 2
BY ArenaAssumption

LEMMA NodeSets ==
  /\ Addrs \subseteq Nodes /\ SLOB_HEAD \in Nodes /\ SLOB_HEAD \notin Addrs
  /\ NULL \notin Nodes /\ \A x \in Nodes : x \in Nat /\ x <= ARENA
  /\ \A x \in Nodes : x # SLOB_HEAD => x \in Addrs
BY Consts, NullAssumption DEF Addrs, Nodes, SLOB_HEAD

(* What a tiling says of one chunk, and of the chunk behind it. *)
LEMMA TileFacts ==
  ASSUME NEW L, Heap(L, Nodes), NEW ln \in [Addrs -> Nat], Tiled(L, ln),
         NEW a \in ChunksOf(L)
  PROVE  /\ a \in Addrs /\ a \in Nat /\ ln[a] \in Nat
         /\ L.next[a] = a + HDR + ln[a] /\ a + HDR + ln[a] <= ARENA /\ ln[a] >= MINPART
         /\ L.next[a] \in ChunksOf(L) \cup {SLOB_HEAD}
         /\ L.prev[a] \in ChunksOf(L) \cup {SLOB_HEAD}
         /\ L.next[L.prev[a]] = a
         /\ \A b \in ChunksOf(L) : b \in Nat /\ (a < b => a + HDR + ln[a] <= b)
<1>1. ChunksOf(L) \subseteq Addrs
  BY DEF ChunksOf
<1>2. \A b \in ChunksOf(L) : b \in Nat
  BY <1>1, NodeSets
<1>3. QED
  BY <1>1, <1>2 DEF Tiled, RingClosed

(* The list and the lengths when chunk b is cut after k units. *)
CutList(L, b, k) == ListAdd(L, b + k, b)
CutLength(ln, b, k) == [ln EXCEPT ![b + k] = ln[b] - k, ![b] = k - HDR]

(* Cutting a chunk: its first k units, and a new chunk behind them. *)
LEMMA SplitTiled ==
  ASSUME NEW L, Heap(L, Nodes), NEW ln \in [Addrs -> Nat], Tiled(L, ln),
         NEW b \in ChunksOf(L), NEW k \in Nat, k >= HDR + MINPART,
         ln[b] - k >= HDR + MINPART
  PROVE  LET M == CutList(L, b, k)
             lm == CutLength(ln, b, k)
             new == b + k
         IN
         /\ new \in Addrs /\ new \notin ChunksOf(L) /\ new # b
         /\ Heap(M, Nodes) /\ lm \in [Addrs -> Nat]
         /\ ChunksOf(M) = ChunksOf(L) \cup {new}
         /\ Tiled(M, lm)
         /\ M.next[b] = new /\ M.next[new] = L.next[b]
         /\ \A x \in ChunksOf(L) : x # b => M.next[x] = L.next[x]
         /\ lm[new] = ln[b] - k /\ lm[b] = k - HDR
         /\ \A x \in ChunksOf(L) : x # b => lm[x] = ln[x]
<1> DEFINE M == CutList(L, b, k)
           lm == CutLength(ln, b, k)
           new == b + k
<1> USE DEF CutList, CutLength
<1>1. /\ b \in Addrs /\ b \in Nat /\ ln[b] \in Nat
      /\ L.next[b] = b + HDR + ln[b] /\ b + HDR + ln[b] <= ARENA
      /\ L.next[b] \in ChunksOf(L) \cup {SLOB_HEAD}
      /\ \A c \in ChunksOf(L) : c \in Nat /\ (b < c => b + HDR + ln[b] <= c)
  BY TileFacts
<1>2. new \in Addrs /\ new \in Nat /\ new > b
  BY <1>1, Consts DEF Addrs
<1>3. new \notin ChunksOf(L)
  BY <1>1, <1>2, Consts
<1>4. lm \in [Addrs -> Nat] /\ lm[new] = ln[b] - k /\ lm[b] = k - HDR
  <2>1. ln[b] - k \in Nat /\ k - HDR \in Nat
    BY <1>1, Consts
  <2>2. QED
    BY <1>1, <1>2, <2>1
<1>5. \A x \in ChunksOf(L) : x # b => lm[x] = ln[x]
  BY <1>1, <1>2, <1>3 DEF ChunksOf
<1>6. L.next[b] \in Nodes /\ b \in Nodes /\ new \in Nodes
  BY <1>1, <1>2, NodeSets DEF ChunksOf
<1>7. Heap(M, Nodes)
  BY <1>6, ListAddHeap
<1>8. /\ M.next = [L.next EXCEPT ![new] = L.next[b], ![b] = new]
      /\ L.next \in [Nodes -> Nodes \cup {NULL}]
  BY DEF ListAdd, LinkBetween, Heap
<1>9. /\ M.next[b] = new /\ M.next[new] = L.next[b]
      /\ \A x \in Nodes : x # b /\ x # new => M.next[x] = L.next[x]
  BY <1>2, <1>6, <1>8
<1>10. ChunksOf(M) = ChunksOf(L) \cup {new}
  BY <1>1, <1>2, <1>6, <1>9, NodeSets DEF ChunksOf
<1>11. RingClosed(M, ChunksOf(M) \cup {SLOB_HEAD})
  <2>1. ChunksOf(L) \cup {SLOB_HEAD} \subseteq Nodes
    BY NodeSets DEF ChunksOf
  <2>2. new \in Nodes \ (ChunksOf(L) \cup {SLOB_HEAD})
    BY <1>2, <1>3, <1>6, NodeSets
  <2>3. RingClosed(M, (ChunksOf(L) \cup {SLOB_HEAD}) \cup {new})
    BY <2>1, <2>2, ListAddRing DEF Tiled
  <2>4. (ChunksOf(L) \cup {SLOB_HEAD}) \cup {new} = ChunksOf(M) \cup {SLOB_HEAD}
    BY <1>10
  <2>5. QED
    BY <2>3, <2>4
<1>12. M.next[SLOB_HEAD] = 0
  BY <1>1, <1>2, <1>9, NodeSets DEF Tiled
<1>13. ASSUME NEW x \in ChunksOf(M)
       PROVE  M.next[x] = x + HDR + lm[x] /\ x + HDR + lm[x] <= ARENA /\ lm[x] >= MINPART
  <2>1. CASE x = new
    BY <1>1, <1>2, <1>4, <1>9, <2>1, Consts
  <2>2. CASE x = b
    BY <1>1, <1>2, <1>4, <1>9, <2>2, Consts
  <2>3. CASE x # new /\ x # b
    <3>1. x \in ChunksOf(L) /\ x \in Nodes
      BY <1>10, <2>3, NodeSets DEF ChunksOf
    <3>2. QED
      BY <1>5, <1>9, <2>3, <3>1, TileFacts
  <2>4. QED
    BY <2>1, <2>2, <2>3
<1>14. ASSUME NEW x \in ChunksOf(M), NEW y \in ChunksOf(M), x < y
       PROVE  x + HDR + lm[x] <= y
  <2>1. x = new \/ x \in ChunksOf(L)
    BY <1>10
  <2>2. y = new \/ y \in ChunksOf(L)
    BY <1>10
  <2>3. CASE x = new
    BY <1>1, <1>2, <1>4, <1>14, <2>2, <2>3, Consts
  <2>4. CASE x = b
    BY <1>1, <1>2, <1>4, <1>14, <2>2, <2>4, Consts
  <2>5. CASE x # new /\ x # b
    <3>1. /\ x \in Nat /\ ln[x] \in Nat /\ lm[x] = ln[x]
          /\ \A c \in ChunksOf(L) : c \in Nat /\ (x < c => x + HDR + ln[x] <= c)
      BY <1>5, <2>1, <2>5, TileFacts
    <3>2. CASE y = new
      <4>1. x < b
        BY <1>1, <1>2, <1>14, <2>1, <2>5, <3>1, <3>2, Consts
      <4>2. QED
        BY <1>1, <1>2, <3>1, <3>2, <4>1, Consts
    <3>3. CASE y \in ChunksOf(L)
      BY <1>14, <3>1, <3>3
    <3>4. QED
      BY <2>2, <3>2, <3>3
  <2>6. QED
    BY <2>3, <2>4, <2>5
<1>15. Tiled(M, lm)
  BY <1>11, <1>12, <1>13, <1>14 DEF Tiled
<1>16. \A x \in ChunksOf(L) : x # b => M.next[x] = L.next[x]
  BY <1>3, <1>9, NodeSets DEF ChunksOf
<1>17. QED
  BY <1>2, <1>3, <1>4, <1>5, <1>7, <1>9, <1>10, <1>15, <1>16

(* A chunk absorbs the one behind it. *)
LEMMA AbsorbTiled ==
  ASSUME NEW L, Heap(L, Nodes), NEW ln \in [Addrs -> Nat], Tiled(L, ln),
         NEW x \in ChunksOf(L), NEW y, y = L.next[x], y # SLOB_HEAD
  PROVE  LET M == ListDel(L, y)
             lm == Absorb(ln, x, y)
         IN
         /\ y \in ChunksOf(L) /\ x < y
         /\ Heap(M, Nodes) /\ lm \in [Addrs -> Nat]
         /\ ChunksOf(M) = ChunksOf(L) \ {y}
         /\ Tiled(M, lm)
         /\ M.next[x] = L.next[y]
         /\ \A c \in ChunksOf(M) : c # x => M.next[c] = L.next[c]
         /\ \A c \in ChunksOf(M) : lm[c] >= ln[c] /\ lm[c] + HDR <= ARENA
<1> DEFINE M == ListDel(L, y)
           lm == Absorb(ln, x, y)
<1> USE DEF Absorb
<1>1. /\ x \in Addrs /\ x \in Nat /\ ln[x] \in Nat
      /\ y = x + HDR + ln[x] /\ y \in ChunksOf(L) /\ x < y
      /\ \A c \in ChunksOf(L) : c \in Nat /\ (x < c => y <= c)
  BY TileFacts, Consts
<1>2. /\ y \in Addrs /\ y \in Nat /\ ln[y] \in Nat
      /\ L.next[y] = y + HDR + ln[y] /\ y + HDR + ln[y] <= ARENA
      /\ L.next[y] \in ChunksOf(L) \cup {SLOB_HEAD}
      /\ \A c \in ChunksOf(L) : y < c => y + HDR + ln[y] <= c
  BY <1>1, TileFacts
<1>3. L.prev[y] = x
  BY <1>1 DEF Tiled, RingClosed
<1>4. lm \in [Addrs -> Nat] /\ lm[x] = ln[x] + (ln[y] + HDR)
  BY <1>1, <1>2, Consts
<1>5. \A c \in Addrs : c # x => lm[c] = ln[c]
  BY <1>1
<1>6. x \in Nodes /\ y \in Nodes /\ L.next[y] \in Nodes
  BY <1>1, <1>2, NodeSets DEF ChunksOf
<1>7. Heap(M, Nodes)
  BY <1>3, <1>6, ListDelHeap
<1>8. /\ M.next = [L.next EXCEPT ![x] = L.next[y], ![y] = NULL]
      /\ L.next \in [Nodes -> Nodes \cup {NULL}]
  BY <1>3 DEF ListDel, Heap
<1>9. /\ M.next[x] = L.next[y] /\ M.next[y] = NULL
      /\ \A c \in Nodes : c # x /\ c # y => M.next[c] = L.next[c]
  BY <1>1, <1>6, <1>8
<1>10. ChunksOf(M) = ChunksOf(L) \ {y}
  BY <1>1, <1>6, <1>9, NodeSets DEF ChunksOf
<1>11. RingClosed(M, ChunksOf(M) \cup {SLOB_HEAD})
  <2>1. /\ ChunksOf(L) \cup {SLOB_HEAD} \subseteq Nodes
        /\ y \in ChunksOf(L) \cup {SLOB_HEAD}
    BY <1>1, NodeSets DEF ChunksOf
  <2>2. RingClosed(M, (ChunksOf(L) \cup {SLOB_HEAD}) \ {y})
    BY <2>1, ListDelRing DEF Tiled
  <2>3. (ChunksOf(L) \cup {SLOB_HEAD}) \ {y} = ChunksOf(M) \cup {SLOB_HEAD}
    BY <1>10
  <2>4. QED
    BY <2>2, <2>3
<1>12. M.next[SLOB_HEAD] = 0
  BY <1>1, <1>9, NodeSets DEF Tiled
<1>13. ASSUME NEW c \in ChunksOf(M)
       PROVE  /\ M.next[c] = c + HDR + lm[c] /\ c + HDR + lm[c] <= ARENA
              /\ lm[c] >= MINPART /\ lm[c] >= ln[c] /\ lm[c] + HDR <= ARENA
  <2>1. CASE c = x
    <3>1. ln[x] >= MINPART
      BY TileFacts
    <3>2. QED
      BY <1>1, <1>2, <1>4, <1>9, <2>1, <3>1, Consts
  <2>2. CASE c # x
    <3>1. c \in ChunksOf(L) /\ c \in Nodes /\ c \in Addrs /\ c # y
      BY <1>10, NodeSets DEF ChunksOf
    <3>2. QED
      BY <1>5, <1>9, <2>2, <3>1, TileFacts, Consts
  <2>3. QED
    BY <2>1, <2>2
<1>14. ASSUME NEW c \in ChunksOf(M), NEW d \in ChunksOf(M), c < d
       PROVE  c + HDR + lm[c] <= d
  <2>1. /\ c \in ChunksOf(L) /\ d \in ChunksOf(L) /\ c # y /\ d # y
        /\ c \in Addrs /\ c \in Nat /\ d \in Nat
    BY <1>1, <1>10 DEF ChunksOf
  <2>2. CASE c = x
    <3>1. y < d
      BY <1>1, <1>2, <1>14, <2>1, <2>2
    <3>2. QED
      BY <1>1, <1>2, <1>4, <2>1, <2>2, <3>1, Consts
  <2>3. CASE c # x
    BY <1>5, <1>14, <2>1, <2>3, TileFacts
  <2>4. QED
    BY <2>2, <2>3
<1>15. Tiled(M, lm)
  BY <1>11, <1>12, <1>13, <1>14 DEF Tiled
<1>16. \A c \in ChunksOf(M) : c # x => M.next[c] = L.next[c]
  BY <1>9, <1>10, NodeSets DEF ChunksOf
<1>17. QED
  BY <1>1, <1>4, <1>7, <1>9, <1>10, <1>13, <1>15, <1>16

-----------------------------------------------------------------------------
(* The heap of headers in a state. *)
LEMMA StateHeap ==
  ASSUME IInv
  PROVE  /\ Heap(lru, Nodes) /\ length \in [Addrs -> Nat] /\ Tiled(lru, length)
         /\ Chunks = ChunksOf(lru) /\ Chunks \subseteq Addrs
BY Consts DEF IInv, TypeOK, Tiling, Heap, Chunks, ChunksOf

LEMMA InitIInv == Init => IInv
<1> SUFFICES ASSUME Init PROVE IInv
  OBVIOUS
<1> USE DEF Init
<1>1. 0 \in Addrs /\ 0 \in Nodes /\ 0 # SLOB_HEAD
  BY Consts DEF Addrs, Nodes, SLOB_HEAD
<1>2. TypeOK
  <2>1. 0 \in 0 .. WORD - 1 /\ ARENA - HDR \in 0 .. WORD \div 2 - 1 /\ 0 \in 0 .. WORD \div 2 - 1
    BY Consts
  <2>2. QED
    BY <1>1, <2>1, NodeSets DEF TypeOK
<1>3. Chunks = {0} /\ ChunksOf(lru) = {0}
  BY <1>1, NodeSets DEF Chunks, ChunksOf
<1>4. RingClosed(lru, {0, SLOB_HEAD})
  BY <1>1, NodeSets DEF RingClosed
<1>5. Tiling
  <2>1. /\ lru.next[0] = ARENA /\ lru.next[SLOB_HEAD] = 0 /\ length[0] = ARENA - HDR
    BY <1>1, NodeSets DEF SLOB_HEAD
  <2>2. ChunksOf(lru) \cup {SLOB_HEAD} = {0, SLOB_HEAD}
    BY <1>3
  <2>3. \A a \in ChunksOf(lru) :
          /\ a = 0 /\ lru.next[a] = a + HDR + length[a]
          /\ a + HDR + length[a] <= ARENA /\ length[a] >= MINPART
    <3> HIDE DEF Init
    <3>1. QED
      BY <1>3, <2>1, Consts
  <2>4. \A a, b \in ChunksOf(lru) : ~(a < b)
    <3> HIDE DEF Init
    <3>1. \A a \in ChunksOf(lru) : a = 0
      BY <1>3
    <3>2. QED
      BY <3>1
  <2>5. QED
    BY <1>4, <2>1, <2>2, <2>3, <2>4 DEF Tiling, Tiled
<1>6. NoAdjacentFree
  BY <1>1, <1>3, NodeSets DEF NoAdjacentFree
<1>7. UsedHasHolder /\ WalkInv /\ GrantInv
  BY DEF UsedHasHolder, WalkInv, GrantInv, SLOB_USED, SLOB_FREE
<1>8. QED
  BY <1>2, <1>5, <1>6, <1>7 DEF IInv

LEMMA KmallocCallStep ==
  ASSUME NoWrap, NEW s \in Slots, NEW n \in Sizes
  PROVE  IInv /\ KmallocCall(s, n) => IInv'
<1> SUFFICES ASSUME IInv, KmallocCall(s, n) PROVE IInv'
  OBVIOUS
<1> USE DEF KmallocCall, heap
<1>1. /\ n \in 0 .. WORD - 1 /\ n + HDR < WORD
      /\ MINPART + HDR < WORD
  BY SizesAssumption, ArenaAssumption DEF NoWrap
<1>2. len' \in 0 .. WORD - 1 /\ len' >= HDR + MINPART /\ len' >= HDR + n
  <2>1. CASE n > MINPART
    <3>1. n + HDR \in 0 .. WORD - 1 /\ (n + HDR) % WORD = n + HDR
      BY <1>1, Consts
    <3>2. QED
      BY <1>1, <2>1, <3>1, Consts
  <2>2. CASE ~(n > MINPART)
    <3>1. MINPART + HDR \in 0 .. WORD - 1 /\ (MINPART + HDR) % WORD = MINPART + HDR
      BY <1>1, Consts
    <3>2. QED
      BY <1>1, <2>2, <3>1, Consts
  <2>3. QED
    BY <2>1, <2>2
<1>3. Chunks' = Chunks /\ Chunks \subseteq Addrs
  BY DEF Chunks, ChunksOf
<1>4. le' = 0 /\ le' \in Chunks \cup {SLOB_HEAD}
  BY StateHeap DEF FirstChunk, Tiled, RingClosed
<1>5. TypeOK'
  <2>1. size' \in [Slots -> 0 .. WORD - 1]
    BY <1>1 DEF IInv, TypeOK
  <2>2. le' \in Nodes
    BY <1>4, NodeSets DEF Chunks, ChunksOf
  <2>3. QED
    BY <1>2, <2>1, <2>2 DEF IInv, TypeOK
<1>6. Tiling' /\ NoAdjacentFree' /\ UsedHasHolder'
  BY <1>3 DEF IInv, Tiling, Tiled, ChunksOf, RingClosed, NoAdjacentFree, UsedHasHolder
<1>7. WalkInv'
  <2>1. size'[s] = n
    BY DEF IInv, TypeOK
  <2>2. \A a \in Chunks : ~(a < le')
    BY <1>3, <1>4, NodeSets
  <2>3. QED
    BY <1>2, <1>3, <1>4, <2>1, <2>2 DEF WalkInv
<1>8. GrantInv'
  BY <1>3 DEF IInv, TypeOK, GrantInv
<1>9. QED
  BY <1>5, <1>6, <1>7, <1>8 DEF IInv

LEMMA WalkOnStep == IInv /\ WalkOn => IInv'
<1> SUFFICES ASSUME IInv, WalkOn PROVE IInv'
  OBVIOUS
<1> USE DEF WalkOn, heap
<1>1. Chunks' = Chunks /\ le \in Chunks /\ Chunks = ChunksOf(lru)
  BY DEF IInv, WalkInv, Chunks, ChunksOf
<1>2. le' \in Chunks \cup {SLOB_HEAD} /\ le' = le + HDR + length[le]
  BY <1>1, StateHeap, TileFacts
(* Every chunk before the new cursor is the old one or before it. *)
<1>3. ASSUME NEW a \in Chunks, a < le' PROVE ~Fits(a)
  <2>1. /\ a \in Nat /\ le \in Nat /\ length[le] \in Nat
        /\ le < a => le + HDR + length[le] <= a
    BY <1>1, StateHeap, TileFacts
  <2>2. a <= le
    BY <1>2, <1>3, <2>1, Consts
  <2>3. CASE a = le
    BY <2>3
  <2>4. CASE a < le
    BY <2>4 DEF IInv, WalkInv
  <2>5. QED
    BY <2>1, <2>2, <2>3, <2>4
<1>4. \A a : Fits(a)' = Fits(a)
  BY DEF Fits
<1>5. WalkInv'
  BY <1>1, <1>2, <1>3, <1>4 DEF IInv, WalkInv
<1>6. le' \in Nodes
  BY <1>1, <1>2, StateHeap, NodeSets
<1>7. TypeOK'
  BY <1>6 DEF IInv, TypeOK
<1>8. Tiling' /\ NoAdjacentFree' /\ UsedHasHolder' /\ GrantInv'
  BY <1>1 DEF IInv, Tiling, Tiled, ChunksOf, RingClosed, NoAdjacentFree, UsedHasHolder, GrantInv
<1>9. QED
  BY <1>5, <1>7, <1>8 DEF IInv

LEMMA GrantNothingStep == IInv /\ GrantNothing => IInv'
<1> SUFFICES ASSUME IInv, GrantNothing PROVE IInv'
  OBVIOUS
<1> USE DEF GrantNothing, heap
<1>1. Chunks' = Chunks
  BY DEF Chunks, ChunksOf
<1>2. caller \in Slots /\ ptr[caller] = NULL
  BY DEF IInv, WalkInv
<1>3. /\ size' \in [Slots -> 0 .. WORD - 1]
      /\ \A s \in Slots : ptr[s] # NULL => size'[s] = size[s]
  BY <1>2, Consts, ArenaAssumption DEF IInv, TypeOK
<1>4. TypeOK'
  BY <1>3, Consts, ArenaAssumption DEF IInv, TypeOK
<1>5. Tiling' /\ NoAdjacentFree' /\ UsedHasHolder'
  BY <1>1 DEF IInv, Tiling, Tiled, ChunksOf, RingClosed, NoAdjacentFree, UsedHasHolder
<1>6. GrantInv'
  BY <1>1, <1>3 DEF IInv, GrantInv
<1>7. WalkInv'
  BY DEF WalkInv
<1>8. QED
  BY <1>4, <1>5, <1>6, <1>7 DEF IInv

(* A chunk handed out by splitting it. *)
LEMMA GrantSplitStep == IInv /\ Grant /\ ~TooSmallToSplit(le) => IInv'
<1> SUFFICES ASSUME IInv, Grant, ~TooSmallToSplit(le) PROVE IInv'
  OBVIOUS
<1> DEFINE b == le
           new == b + len
<1> USE DEF Grant, SplitChunk
<1>1. /\ b \in ChunksOf(lru) /\ caller \in Slots /\ ptr[caller] = NULL
      /\ len \in Nat /\ len >= HDR + MINPART /\ len >= HDR + size[caller]
      /\ allocated[b] = SLOB_FREE
      /\ length[b] - len >= HDR + MINPART
  <2>1. b \in ChunksOf(lru) /\ len \in 0 .. WORD - 1 /\ length[b] \in Nat
    BY StateHeap, TileFacts DEF IInv, WalkInv, TypeOK
  <2>2. QED
    BY <2>1, Consts DEF IInv, WalkInv, Fits, TooSmallToSplit
<1>2. /\ lru' = ListAdd(lru, new, b)
      /\ allocated' = [allocated EXCEPT ![new] = SLOB_FREE, ![b] = SLOB_USED]
      /\ ptr' = [ptr EXCEPT ![caller] = b + HDR]
      /\ size' = size /\ tainted' = tainted
      /\ pc' = "idle" /\ le' = SLOB_HEAD /\ len' = 0 /\ caller' = NULL
  OBVIOUS
<1>3. length' = [length EXCEPT ![new] = length[b] - len, ![b] = len - HDR]
  <2>1. len - HDR \in 0 .. WORD \div 2 - 1
    <3>1. b \in Nat /\ length[b] \in Nat /\ b + HDR + length[b] <= ARENA
      BY <1>1, StateHeap, TileFacts
    <3>2. QED
      BY <1>1, <3>1, Consts
  <2>2. (len - HDR) % (WORD \div 2) = len - HDR
    BY <2>1, Consts
  <2>3. QED
    BY <2>2 DEF SplitLength
<1>4. /\ new \in Addrs /\ new \notin ChunksOf(lru) /\ new # b
      /\ Heap(lru', Nodes) /\ length' \in [Addrs -> Nat]
      /\ ChunksOf(lru') = ChunksOf(lru) \cup {new}
      /\ Tiled(lru', length')
      /\ lru'.next[b] = new /\ lru'.next[new] = lru.next[b]
      /\ \A x \in ChunksOf(lru) : x # b => lru'.next[x] = lru.next[x]
      /\ length'[new] = length[b] - len /\ length'[b] = len - HDR
      /\ \A x \in ChunksOf(lru) : x # b => length'[x] = length[x]
  <2>1. Heap(lru, Nodes) /\ length \in [Addrs -> Nat] /\ Tiled(lru, length)
    BY StateHeap
  <2>2. lru' = CutList(lru, b, len) /\ length' = CutLength(length, b, len)
    BY <1>2, <1>3 DEF CutList, CutLength
  <2> HIDE DEF Grant, SplitChunk
  <2>3. QED
    BY <1>1, <2>1, <2>2, SplitTiled
<1>5. Chunks = ChunksOf(lru) /\ Chunks' = ChunksOf(lru') /\ Chunks \subseteq Addrs
  BY StateHeap DEF Chunks
<1>6. b \in Addrs /\ b \in Nat /\ length[b] \in Nat /\ b + HDR + length[b] <= ARENA
  BY <1>1, StateHeap, TileFacts
<1>7. /\ allocated' \in [Addrs -> {SLOB_FREE, SLOB_USED}]
      /\ allocated'[b] = SLOB_USED /\ allocated'[new] = SLOB_FREE
      /\ \A x \in Addrs : x # b /\ x # new => allocated'[x] = allocated[x]
  BY <1>2, <1>4, <1>6 DEF IInv, TypeOK
<1>8. TypeOK'
  <2>1. length' \in [Addrs -> 0 .. WORD \div 2 - 1]
    <3>1. len - HDR \in 0 .. WORD \div 2 - 1 /\ length[b] - len \in 0 .. WORD \div 2 - 1
      BY <1>1, <1>6, Consts
    <3>2. QED
      BY <1>3, <1>4, <1>6, <3>1 DEF IInv, TypeOK
  <2>2. ptr' \in [Slots -> HDR .. ARENA - 1 \cup {NULL}]
    <3>1. b + HDR \in HDR .. ARENA - 1
      BY <1>1, <1>6, Consts
    <3>2. QED
      BY <1>2, <3>1 DEF IInv, TypeOK
  <2>3. 0 \in 0 .. WORD - 1
    BY ArenaAssumption
  <2>4. QED
    BY <1>2, <1>4, <1>7, <2>1, <2>2, <2>3, NodeSets DEF IInv, TypeOK, Heap
<1>9. Tiling' /\ WalkInv'
  BY <1>2, <1>4 DEF Tiling, WalkInv
(* The new chunk's neighbours are the used one and the one behind it,      *)
(* which is used because the chunk that was cut was free.                  *)
<1>10. NoAdjacentFree'
  <2> SUFFICES ASSUME NEW a \in Chunks', allocated'[a] = SLOB_FREE, lru'.next[a] # SLOB_HEAD
               PROVE  allocated'[lru'.next[a]] = SLOB_USED
    BY DEF NoAdjacentFree
  <2>1. a # b
    BY <1>7 DEF SLOB_FREE, SLOB_USED
  <2>2. CASE a = new
    <3>1. /\ lru.next[b] # SLOB_HEAD /\ allocated[lru.next[b]] = SLOB_USED
          /\ lru.next[b] \in ChunksOf(lru)
      BY <1>1, <1>4, <1>5, <2>2, StateHeap, TileFacts DEF IInv, NoAdjacentFree
    <3>2. lru.next[b] # b
      BY <1>1, <3>1 DEF SLOB_FREE, SLOB_USED
    <3>3. QED
      BY <1>4, <1>5, <1>7, <2>2, <3>1, <3>2
  <2>3. CASE a # new
    <3>1. a \in Chunks /\ a \in Addrs /\ lru'.next[a] = lru.next[a] /\ allocated[a] = SLOB_FREE
      BY <1>4, <1>5, <1>7, <2>1, <2>3
    <3>2. allocated[lru.next[a]] = SLOB_USED /\ lru.next[a] \in Chunks
      BY <1>5, <3>1, StateHeap, TileFacts DEF IInv, NoAdjacentFree
    <3>3. lru.next[a] # b /\ lru.next[a] # new
      BY <1>1, <1>4, <1>5, <3>2 DEF SLOB_FREE, SLOB_USED
    <3>4. QED
      BY <1>5, <1>7, <3>1, <3>2, <3>3
  <2>4. QED
    BY <2>2, <2>3
<1>11. UsedHasHolder'
  <2> SUFFICES ASSUME NEW a \in Addrs, allocated'[a] = SLOB_USED
               PROVE  a \in Chunks' /\ \E s \in Slots : ptr'[s] = a + HDR
    BY DEF UsedHasHolder
  <2>1. CASE a = b
    <3>1. ptr'[caller] = a + HDR
      BY <1>1, <1>2, <2>1 DEF IInv, TypeOK
    <3>2. QED
      BY <1>1, <1>4, <1>5, <2>1, <3>1
  <2>2. CASE a # b
    <3>1. a # new /\ allocated[a] = SLOB_USED
      BY <1>7, <2>2 DEF SLOB_FREE, SLOB_USED
    <3>2. a \in Chunks /\ \E s \in Slots : ptr[s] = a + HDR
      BY <3>1 DEF IInv, UsedHasHolder
    <3>3. PICK s \in Slots : ptr[s] = a + HDR
      BY <3>2
    <3>4. a + HDR # NULL
      BY Consts, NullAssumption DEF Addrs
    <3>5. ptr'[s] = a + HDR
      BY <1>1, <1>2, <3>3, <3>4 DEF IInv, TypeOK
    <3>6. QED
      BY <1>4, <1>5, <3>2, <3>5
  <2>3. QED
    BY <2>1, <2>2
<1>12. GrantInv'
  <2> SUFFICES ASSUME ~tainted
               PROVE  /\ \A s \in Slots : ptr'[s] # NULL =>
                           /\ ptr'[s] - HDR \in Chunks' /\ allocated'[ptr'[s] - HDR] = SLOB_USED
                           /\ size'[s] <= length'[ptr'[s] - HDR]
                      /\ \A s, t \in Slots : s # t /\ ptr'[s] # NULL => ptr'[s] # ptr'[t]
    BY <1>2 DEF GrantInv
  <2>1. /\ ptr'[caller] = b + HDR /\ ptr'[caller] - HDR = b
        /\ \A s \in Slots : s # caller => ptr'[s] = ptr[s]
    BY <1>1, <1>2, <1>6, Consts DEF IInv, TypeOK
  <2>2. ASSUME NEW s \in Slots, s # caller, ptr[s] # NULL
        PROVE  /\ ptr[s] - HDR \in Chunks /\ ptr[s] - HDR # b /\ ptr[s] - HDR # new
               /\ allocated[ptr[s] - HDR] = SLOB_USED
               /\ size[s] <= length[ptr[s] - HDR]
    <3>1. /\ ptr[s] - HDR \in Chunks /\ allocated[ptr[s] - HDR] = SLOB_USED
          /\ size[s] <= length[ptr[s] - HDR]
      BY <2>2 DEF IInv, GrantInv
    <3>2. QED
      BY <1>1, <1>4, <1>5, <3>1 DEF SLOB_FREE, SLOB_USED
  <2>3. size[caller] <= len - HDR
    <3>1. size[caller] \in Nat
      BY <1>1 DEF IInv, TypeOK
    <3>2. QED
      BY <1>1, <3>1, Consts
  <2>4. ASSUME NEW s \in Slots, ptr'[s] # NULL
        PROVE  /\ ptr'[s] - HDR \in Chunks' /\ allocated'[ptr'[s] - HDR] = SLOB_USED
               /\ size'[s] <= length'[ptr'[s] - HDR]
    <3>1. CASE s = caller
      BY <1>1, <1>2, <1>4, <1>5, <1>7, <2>1, <2>3, <3>1
    <3>2. CASE s # caller
      BY <1>2, <1>4, <1>5, <1>7, <2>1, <2>2, <2>4, <3>2
    <3>3. QED
      BY <3>1, <3>2
  <2>5. ASSUME NEW s \in Slots, NEW t \in Slots, s # t, ptr'[s] # NULL
        PROVE  ptr'[s] # ptr'[t]
    <3>1. CASE s = caller
      <4>1. ptr[t] # NULL => ptr[t] - HDR # b
        BY <2>2, <2>5, <3>1
      <4>2. b + HDR # NULL
        BY <1>6, Consts, NullAssumption
      <4>3. QED
        BY <2>1, <2>5, <3>1, <4>1, <4>2
    <3>2. CASE t = caller
      BY <2>1, <2>2, <2>5, <3>2
    <3>3. CASE s # caller /\ t # caller
      BY <2>1, <2>5, <3>3 DEF IInv, GrantInv
    <3>4. QED
      BY <3>1, <3>2, <3>3
  <2>6. QED
    BY <2>4, <2>5
<1>13. QED
  BY <1>8, <1>9, <1>10, <1>11, <1>12 DEF IInv

(* A chunk handed out whole: the list and the marks stay as they are. *)
LEMMA GrantWholeStep == IInv /\ Grant /\ TooSmallToSplit(le) => IInv'
<1> SUFFICES ASSUME IInv, Grant, TooSmallToSplit(le) PROVE IInv'
  OBVIOUS
<1> USE DEF Grant, SplitChunk, heap
<1>1. /\ le \in Chunks /\ caller \in Slots /\ ptr[caller] = NULL
      /\ tainted' = TRUE /\ Chunks' = Chunks
  BY DEF IInv, WalkInv, Chunks, ChunksOf
<1>2. le + HDR \in HDR .. ARENA - 1
  BY <1>1, StateHeap, TileFacts, Consts
<1>3. TypeOK'
  BY <1>1, <1>2, NodeSets, ArenaAssumption DEF IInv, TypeOK
<1>4. UsedHasHolder'
  <2> SUFFICES ASSUME NEW a \in Addrs, allocated[a] = SLOB_USED
               PROVE  a \in Chunks /\ \E s \in Slots : ptr'[s] = a + HDR
    BY <1>1 DEF UsedHasHolder
  <2>1. a \in Chunks /\ \E s \in Slots : ptr[s] = a + HDR
    BY DEF IInv, UsedHasHolder
  <2>2. PICK s \in Slots : ptr[s] = a + HDR
    BY <2>1
  <2>3. a + HDR # NULL
    BY Consts, NullAssumption DEF Addrs
  <2>4. ptr'[s] = a + HDR
    BY <1>1, <2>2, <2>3 DEF IInv, TypeOK
  <2>5. QED
    BY <2>1, <2>4
<1>5. Tiling' /\ NoAdjacentFree' /\ WalkInv' /\ GrantInv'
  BY <1>1 DEF IInv, Tiling, Tiled, ChunksOf, RingClosed, NoAdjacentFree, WalkInv, GrantInv
<1>6. QED
  BY <1>3, <1>4, <1>5 DEF IInv

(* glue_chunk, called on a used chunk that has just been marked free. *)
LEMMA Glue ==
  ASSUME IInv, NEW b \in Chunks, allocated[b] = SLOB_USED, ClearMark(b), GlueChunk(b)
  PROVE  /\ Heap(lru', Nodes) /\ Tiled(lru', length')
         /\ length' \in [Addrs -> 0 .. WORD \div 2 - 1]
         /\ Chunks' \subseteq Chunks
         /\ \A a \in Chunks : a \notin Chunks' => allocated'[a] = SLOB_FREE
         /\ \A c \in Chunks' : length'[c] >= length[c]
         /\ NoAdjacentFree'
<1> DEFINE prev  == lru.prev[b]
           next  == lru.next[b]
           joinP == JoinsPrev(prev)
           joinN == JoinsNext(next)
           at    == IF joinP THEN prev ELSE b
           L     == IF joinP THEN ListDel(lru, b) ELSE lru
           ln    == IF joinP THEN Absorb(length, prev, b) ELSE length
<1>1. /\ Heap(lru, Nodes) /\ length \in [Addrs -> Nat] /\ Tiled(lru, length)
      /\ Chunks = ChunksOf(lru) /\ Chunks \subseteq Addrs /\ Chunks' = ChunksOf(lru')
      /\ allocated \in [Addrs -> {SLOB_FREE, SLOB_USED}]
      /\ length \in [Addrs -> 0 .. WORD \div 2 - 1]
  BY StateHeap DEF Chunks, IInv, TypeOK
<1>2. /\ b \in Addrs /\ b \in Nat /\ b # SLOB_HEAD
      /\ next \in Chunks \cup {SLOB_HEAD} /\ prev \in Chunks \cup {SLOB_HEAD}
      /\ lru.next[prev] = b /\ next # b
      /\ next # SLOB_HEAD => b < next
  BY <1>1, TileFacts, Consts, NodeSets
<1>3. /\ allocated'[b] = SLOB_FREE
      /\ \A a \in Addrs : a # b => allocated'[a] = allocated[a]
  BY <1>1, <1>2 DEF ClearMark
(* The merge with the chunk before b. *)
<1>4. /\ Heap(L, Nodes) /\ ln \in [Addrs -> Nat] /\ Tiled(L, ln)
      /\ at \in ChunksOf(L) /\ at \in Addrs /\ allocated'[at] = SLOB_FREE
      /\ L.next[at] = next
      /\ ChunksOf(L) = IF joinP THEN Chunks \ {b} ELSE Chunks
      /\ \A c \in ChunksOf(L) : c # at => L.next[c] = lru.next[c]
      /\ \A c \in ChunksOf(L) : ln[c] >= length[c] /\ ln[c] + HDR <= ARENA
      /\ \A c \in Addrs : c # at => ln[c] = length[c]
  <2>1. CASE joinP
    <3>1. prev \in ChunksOf(lru) /\ prev # b /\ allocated[prev] = SLOB_FREE
      BY <1>1, <1>2, <2>1 DEF JoinsPrev, SLOB_FREE, SLOB_USED
    <3>2. /\ Heap(L, Nodes) /\ ln \in [Addrs -> Nat] /\ Tiled(L, ln)
          /\ ChunksOf(L) = Chunks \ {b} /\ L.next[prev] = next
          /\ \A c \in ChunksOf(L) : c # prev => L.next[c] = lru.next[c]
          /\ \A c \in ChunksOf(L) : ln[c] >= length[c] /\ ln[c] + HDR <= ARENA
      <4>1. L = ListDel(lru, b) /\ ln = Absorb(length, prev, b)
        BY <2>1
      <4>2. b = lru.next[prev]
        BY <1>2
      <4> HIDE DEF L, ln, prev, joinP
      <4>3. QED
        BY <1>1, <1>2, <3>1, <4>1, <4>2, AbsorbTiled
    <3>3. \A c \in Addrs : c # prev => ln[c] = length[c]
      BY <1>1, <2>1 DEF Absorb
    <3>4. QED
      BY <1>1, <1>3, <2>1, <3>1, <3>2, <3>3
  <2>2. CASE ~joinP
    <3>1. \A c \in ChunksOf(L) : ln[c] >= length[c] /\ ln[c] + HDR <= ARENA
      BY <1>1, <2>2, TileFacts, Consts
    <3>2. QED
      BY <1>1, <1>2, <1>3, <2>2, <3>1
  <2>3. QED
    BY <2>1, <2>2
(* The merge with the chunk behind it. *)
<1>5. lru' = IF joinN THEN ListDel(L, next) ELSE L
  BY DEF GlueChunk
<1>6. length' = IF joinN THEN Absorb(ln, at, next) ELSE ln
  BY DEF GlueChunk
<1>7. /\ Heap(lru', Nodes) /\ length' \in [Addrs -> Nat] /\ Tiled(lru', length')
      /\ Chunks' = IF joinN THEN ChunksOf(L) \ {next} ELSE ChunksOf(L)
      /\ lru'.next[at] = IF joinN THEN lru.next[next] ELSE next
      /\ at \in Chunks'
      /\ \A c \in Chunks' : c # at => lru'.next[c] = lru.next[c]
      /\ \A c \in Chunks' : length'[c] >= length[c] /\ length'[c] + HDR <= ARENA
      /\ \A c \in Addrs : c # at => length'[c] = length[c]
  <2>1. CASE joinN
    <3>1. L.next[at] = next /\ next # SLOB_HEAD
      BY <1>4, <2>1 DEF JoinsNext
    <3>2. /\ next \in ChunksOf(L) /\ at < next
          /\ Heap(lru', Nodes) /\ length' \in [Addrs -> Nat] /\ Tiled(lru', length')
          /\ Chunks' = ChunksOf(L) \ {next} /\ lru'.next[at] = L.next[next]
          /\ \A c \in Chunks' : c # at => lru'.next[c] = L.next[c]
          /\ \A c \in Chunks' : length'[c] >= ln[c] /\ length'[c] + HDR <= ARENA
      BY <1>1, <1>4, <1>5, <1>6, <2>1, <3>1, AbsorbTiled
    <3>3. at # next
      BY <1>4, <3>2, NodeSets
    <3>4. \A c \in Addrs : c # at => length'[c] = length[c]
      BY <1>4, <1>6, <2>1 DEF Absorb
    <3>5. \A c \in Chunks' : length'[c] >= length[c]
      <4>1. ASSUME NEW c \in Chunks' PROVE length'[c] >= length[c]
        <5>1. c \in Addrs /\ c \in ChunksOf(L)
          BY <3>2 DEF ChunksOf
        <5>2. length'[c] \in Nat /\ ln[c] \in Nat /\ length[c] \in Nat
          BY <1>1, <1>4, <3>2, <5>1
        <5>3. QED
          BY <1>4, <3>2, <5>1, <5>2
      <4>2. QED
        BY <4>1
    <3>6. QED
      BY <1>4, <2>1, <3>2, <3>3, <3>4, <3>5
  <2>2. CASE ~joinN
    BY <1>1, <1>4, <1>5, <1>6, <2>2
  <2>3. QED
    BY <2>1, <2>2
<1>8. length' \in [Addrs -> 0 .. WORD \div 2 - 1]
  <2>1. ASSUME NEW c \in Addrs PROVE length'[c] \in 0 .. WORD \div 2 - 1
    <3>1. CASE c = at
      <4>1. length'[at] \in Nat /\ length'[at] + HDR <= ARENA
        BY <1>4, <1>7
      <4>2. QED
        BY <3>1, <4>1, Consts
    <3>2. CASE c # at
      BY <1>1, <1>7, <3>2
    <3>3. QED
      BY <3>1, <3>2
  <2>2. QED
    BY <1>7, <2>1
<1>9. \A a \in Chunks : a \notin Chunks' => allocated'[a] = SLOB_FREE
  BY <1>1, <1>3, <1>4, <1>7 DEF JoinsNext
<1>10. Chunks' \subseteq Chunks
  BY <1>4, <1>7
<1>11. NoAdjacentFree'
  <2> SUFFICES ASSUME NEW c \in Chunks', allocated'[c] = SLOB_FREE, lru'.next[c] # SLOB_HEAD
               PROVE  allocated'[lru'.next[c]] = SLOB_USED
    BY DEF NoAdjacentFree
  <2>1. CASE c = at /\ joinN
    <3>1. /\ next \in Chunks /\ allocated[next] = SLOB_FREE /\ lru'.next[c] = lru.next[next]
          /\ next \in Nat /\ b < next
      BY <1>1, <1>2, <1>7, <2>1, NodeSets DEF JoinsNext
    <3>2. /\ allocated[lru.next[next]] = SLOB_USED
      BY <3>1 DEF IInv, NoAdjacentFree
    <3>3. lru.next[next] \in Chunks /\ lru.next[next] > next /\ lru.next[next] \in Nat
      BY <1>1, <3>1, TileFacts, Consts
    <3>4. lru.next[next] # b
      BY <1>2, <3>1, <3>3
    <3>5. QED
      BY <1>1, <1>3, <3>1, <3>2, <3>3, <3>4
  <2>2. CASE c = at /\ ~joinN
    <3>1. lru'.next[c] = next /\ next \in Chunks /\ next # b /\ allocated[next] # SLOB_FREE
      BY <1>2, <1>7, <2>2 DEF JoinsNext
    <3>2. QED
      BY <1>1, <1>3, <3>1
  <2>3. CASE c # at
    <3>1. c # b /\ c \in Chunks /\ c \in Addrs
      BY <1>1, <1>4, <1>10, <1>7, <2>3
    <3>2. allocated[c] = SLOB_FREE /\ lru'.next[c] = lru.next[c]
      BY <1>3, <1>7, <2>3, <3>1
    <3>3. allocated[lru.next[c]] = SLOB_USED /\ lru.next[c] \in Chunks
      BY <1>1, <3>1, <3>2, TileFacts DEF IInv, NoAdjacentFree
    (* Otherwise c would be the free chunk before b, and have absorbed it. *)
    <3>4. lru.next[c] # b
      <4> SUFFICES ASSUME lru.next[c] = b PROVE FALSE
        OBVIOUS
      <4>1. lru.prev[lru.next[c]] = c
        BY <1>1, <3>1 DEF Tiled, RingClosed
      <4>2. prev = c /\ c # SLOB_HEAD
        BY <3>1, <4>1, NodeSets
      <4>3. QED
        BY <2>3, <3>2, <4>2 DEF JoinsPrev
    <3>5. QED
      BY <1>1, <1>3, <3>2, <3>3, <3>4
  <2>4. QED
    BY <2>1, <2>2, <2>3
<1>12. QED
  BY <1>7, <1>8, <1>9, <1>10, <1>11

LEMMA KfreeStep == ASSUME NEW s \in Slots PROVE IInv /\ Kfree(s) => IInv'
<1> SUFFICES ASSUME IInv, Kfree(s) PROVE IInv'
  OBVIOUS
<1> DEFINE b == ptr[s] - HDR
<1> USE DEF Kfree, heap, call
<1>1. /\ pc = "idle" /\ pc' = "idle" /\ ptr[s] # NULL /\ ptr[s] \in Nat /\ b \in Addrs
      /\ b + HDR = ptr[s]
      /\ ptr' = [ptr EXCEPT ![s] = NULL] /\ size' = [size EXCEPT ![s] = 0]
      /\ tainted' = tainted /\ UNCHANGED call
  <2>1. ptr[s] \in HDR .. ARENA - 1
    BY DEF IInv, TypeOK
  <2>2. QED
    BY <2>1, Consts DEF Addrs
<1>2. /\ ptr'[s] = NULL
      /\ \A t \in Slots : t # s => ptr'[t] = ptr[t] /\ size'[t] = size[t]
      /\ ptr' \in [Slots -> HDR .. ARENA - 1 \cup {NULL}]
      /\ size' \in [Slots -> 0 .. WORD - 1]
  BY <1>1, ArenaAssumption DEF IInv, TypeOK
<1>3. WalkInv'
  BY <1>1 DEF WalkInv
<1>4. CASE allocated[b] # SLOB_USED
  <2>1. UNCHANGED heap /\ Chunks' = Chunks
    BY <1>4 DEF Chunks, ChunksOf
  <2>2. TypeOK' /\ Tiling' /\ NoAdjacentFree'
    BY <1>1, <1>2, <2>1 DEF IInv, TypeOK, Tiling, Tiled, ChunksOf, RingClosed, NoAdjacentFree
  <2>3. UsedHasHolder'
    <3> SUFFICES ASSUME NEW a \in Addrs, allocated[a] = SLOB_USED
                 PROVE  a \in Chunks /\ \E t \in Slots : ptr'[t] = a + HDR
      BY <2>1 DEF UsedHasHolder
    <3>1. PICK t \in Slots : ptr[t] = a + HDR
      BY DEF IInv, UsedHasHolder
    <3>2. t # s
      <4>1. a \in Nat /\ a + HDR # b + HDR
        BY <1>1, <1>4, Consts DEF Addrs
      <4>2. QED
        BY <1>1, <3>1, <4>1
    <3>3. QED
      BY <1>2, <3>1, <3>2 DEF IInv, UsedHasHolder
  <2>4. GrantInv'
    BY <1>1, <1>2, <2>1 DEF IInv, GrantInv
  <2>5. QED
    BY <1>3, <2>2, <2>3, <2>4 DEF IInv
<1>5. CASE allocated[b] = SLOB_USED
  <2>1. b \in Chunks /\ ClearMark(b) /\ GlueChunk(b)
    BY <1>1, <1>5 DEF IInv, UsedHasHolder
  <2>2. /\ Heap(lru', Nodes) /\ Tiled(lru', length')
        /\ length' \in [Addrs -> 0 .. WORD \div 2 - 1]
        /\ Chunks' \subseteq Chunks
        /\ \A a \in Chunks : a \notin Chunks' => allocated'[a] = SLOB_FREE
        /\ \A c \in Chunks' : length'[c] >= length[c]
        /\ NoAdjacentFree'
    BY <1>5, <2>1, Glue
  <2>3. /\ allocated' \in [Addrs -> {SLOB_FREE, SLOB_USED}]
        /\ allocated'[b] = SLOB_FREE
        /\ \A a \in Addrs : a # b => allocated'[a] = allocated[a]
    BY <1>1, <2>1 DEF ClearMark, IInv, TypeOK
  <2>4. TypeOK'
    BY <1>1, <1>2, <2>2, <2>3 DEF IInv, TypeOK, Heap
  <2>5. UsedHasHolder'
    <3> SUFFICES ASSUME NEW a \in Addrs, allocated'[a] = SLOB_USED
                 PROVE  a \in Chunks' /\ \E t \in Slots : ptr'[t] = a + HDR
      BY DEF UsedHasHolder
    <3>1. a # b /\ allocated[a] = SLOB_USED
      BY <2>3 DEF SLOB_FREE, SLOB_USED
    <3>2. a \in Chunks
      BY <3>1 DEF IInv, UsedHasHolder
    <3>3. PICK t \in Slots : ptr[t] = a + HDR
      BY <3>1 DEF IInv, UsedHasHolder
    <3>4. t # s
      <4>1. a \in Nat /\ a + HDR # b + HDR
        BY <1>1, <3>1, Consts DEF Addrs
      <4>2. QED
        BY <1>1, <3>3, <4>1
    <3>5. a \in Chunks'
      BY <2>2, <3>2 DEF SLOB_FREE, SLOB_USED
    <3>6. QED
      BY <1>2, <3>3, <3>4, <3>5
  <2>6. GrantInv'
    <3> SUFFICES ASSUME ~tainted
                 PROVE  /\ \A t \in Slots : ptr'[t] # NULL =>
                             /\ ptr'[t] - HDR \in Chunks'
                             /\ allocated'[ptr'[t] - HDR] = SLOB_USED
                             /\ size'[t] <= length'[ptr'[t] - HDR]
                        /\ \A t, u \in Slots : t # u /\ ptr'[t] # NULL => ptr'[t] # ptr'[u]
      BY <1>1 DEF GrantInv
    <3>1. ASSUME NEW t \in Slots, ptr'[t] # NULL
          PROVE  /\ ptr'[t] - HDR \in Chunks' /\ allocated'[ptr'[t] - HDR] = SLOB_USED
                 /\ size'[t] <= length'[ptr'[t] - HDR]
      <4> DEFINE c == ptr[t] - HDR
      <4>1. /\ t # s /\ ptr'[t] = ptr[t] /\ size'[t] = size[t] /\ ptr[t] # ptr[s]
        BY <1>1, <1>2, <3>1 DEF IInv, GrantInv
      <4>2. c \in Chunks /\ c \in Addrs /\ allocated[c] = SLOB_USED /\ size[t] <= length[c]
        BY <3>1, <4>1, StateHeap DEF IInv, GrantInv
      <4>3. c # b
        <5>1. ptr[t] \in HDR .. ARENA - 1
          BY <3>1, <4>1 DEF IInv, TypeOK
        <5>2. QED
          BY <1>1, <4>1, <5>1, Consts
      <4>4. allocated'[c] = SLOB_USED /\ c \in Chunks'
        BY <2>2, <2>3, <4>2, <4>3 DEF SLOB_FREE, SLOB_USED
      <4>5. size[t] \in Nat /\ length[c] \in Nat /\ length'[c] \in Nat /\ length'[c] >= length[c]
        BY <2>2, <4>2, <4>4 DEF IInv, TypeOK
      <4>6. QED
        BY <4>1, <4>2, <4>4, <4>5
    <3>2. \A t, u \in Slots : t # u /\ ptr'[t] # NULL => ptr'[t] # ptr'[u]
      BY <1>2 DEF IInv, GrantInv
    <3>3. QED
      BY <3>1, <3>2
  <2>7. QED
    BY <1>3, <2>2, <2>4, <2>5, <2>6 DEF IInv, Tiling
<1>6. QED
  BY <1>4, <1>5

-----------------------------------------------------------------------------
(* The inductive invariant holds in every reachable state, whatever the    *)
(* sizes of arena, header and smallest payload.                            *)
THEOREM Safety == ASSUME NoWrap PROVE Spec => []IInv
<1>1. IInv /\ [Next]_vars => IInv'
  <2> SUFFICES ASSUME IInv, [Next]_vars PROVE IInv'
    OBVIOUS
  <2>1. CASE UNCHANGED vars
    <3>1. /\ UNCHANGED <<lru, allocated, length, pc, le, len, caller, ptr, size, tainted>>
          /\ Chunks' = Chunks
      BY <2>1 DEF vars, heap, call, Chunks, ChunksOf
    <3>2. QED
      BY <3>1 DEF IInv, TypeOK, Tiling, Tiled, ChunksOf, RingClosed, NoAdjacentFree,
                  UsedHasHolder, WalkInv, Fits, GrantInv
  <2>2. CASE Grant
    BY <2>2, GrantSplitStep, GrantWholeStep
  <2>3. CASE Next /\ ~Grant
    BY <2>3, NoWrap, KmallocCallStep, WalkOnStep, GrantNothingStep, KfreeStep DEF Next
  <2>4. QED
    BY <2>1, <2>2, <2>3
<1>2. QED
  BY InitIInv, <1>1, PTL DEF Spec

-----------------------------------------------------------------------------
LEMMA RestoresFromIInv == IInv => AllFreedRestores
<1> SUFFICES ASSUME IInv, \A s \in Slots : ptr[s] = NULL
             PROVE  Chunks = {0} /\ allocated[0] = SLOB_FREE /\ length[0] = ARENA - HDR
  BY DEF AllFreedRestores
<1>1. \A a \in Addrs : allocated[a] = SLOB_FREE
  <2>1. ASSUME NEW a \in Addrs, allocated[a] = SLOB_USED PROVE FALSE
    <3>1. PICK s \in Slots : ptr[s] = a + HDR
      BY <2>1 DEF IInv, UsedHasHolder
    <3>2. a + HDR \in Int
      BY <2>1, Consts DEF Addrs
    <3>3. QED
      BY <3>1, <3>2, NullAssumption
  <2>2. QED
    BY <2>1 DEF IInv, TypeOK
<1>2. 0 \in Chunks
  BY Consts DEF IInv, Tiling, Tiled, RingClosed, Chunks, SLOB_HEAD
<1>3. Chunks \subseteq Addrs /\ \A a \in Chunks : a \in Nat /\ a < ARENA
  BY Consts DEF Chunks, ChunksOf, Addrs
<1>4. lru.next[0] = SLOB_HEAD
  <2>1. lru.next[0] \in Chunks \cup {SLOB_HEAD}
    BY <1>2 DEF IInv, Tiling, Tiled, RingClosed, Chunks
  <2>2. CASE lru.next[0] # SLOB_HEAD
    BY <1>1, <1>2, <1>3, <2>1, <2>2 DEF IInv, NoAdjacentFree, SLOB_FREE, SLOB_USED
  <2>3. QED
    BY <2>2
<1>5. length[0] \in Int
  BY <1>2, <1>3 DEF IInv, TypeOK
<1>6. lru.next[0] = 0 + HDR + length[0]
  BY <1>2 DEF IInv, Tiling, Tiled, Chunks
<1>7. length[0] = ARENA - HDR
  BY <1>4, <1>5, <1>6, Consts DEF SLOB_HEAD
<1>8. ASSUME NEW a \in Chunks, a # 0 PROVE FALSE
  <2>1. 0 < a
    BY <1>3, <1>8
  <2>2. 0 + HDR + length[0] <= a
    BY <1>2, <2>1 DEF IInv, Tiling, Tiled, Chunks
  <2>3. QED
    BY <1>3, <1>7, <2>2, Consts
<1>9. QED
  BY <1>1, <1>2, <1>3, <1>7, <1>8

LEMMA ExclusiveFromIInv == IInv => GrantsExclusive
<1> SUFFICES ASSUME IInv, ~tainted,
                    NEW s \in Slots, NEW t \in Slots, s # t, ptr[s] # NULL, ptr[t] # NULL
             PROVE  Payload(s) \cap Payload(t) = {}
  BY DEF IInv, GrantInv, GrantsExclusive
<1>1. ASSUME NEW u \in Slots, NEW v \in Slots, ptr[u] # NULL, ptr[v] # NULL, ptr[u] < ptr[v]
      PROVE  ptr[u] + size[u] < ptr[v]
  <2> DEFINE b == ptr[u] - HDR
             c == ptr[v] - HDR
  <2>1. ptr[u] \in HDR .. ARENA - 1 /\ ptr[v] \in HDR .. ARENA - 1 /\ size[u] \in Nat
    BY <1>1 DEF IInv, TypeOK
  <2>2. b \in Chunks /\ c \in Chunks /\ size[u] <= length[b]
    BY <1>1 DEF IInv, GrantInv
  <2>3. length[b] \in Int
    BY <2>2 DEF IInv, TypeOK, Chunks, ChunksOf
  <2>4. b < c
    BY <1>1, <2>1, Consts
  <2>5. b + HDR + length[b] <= c
    BY <2>2, <2>4 DEF IInv, Tiling, Tiled, Chunks
  <2>6. QED
    BY <2>1, <2>2, <2>3, <2>5, Consts
<1>2. /\ ptr[s] \in Int /\ ptr[t] \in Int /\ ptr[s] # ptr[t]
      /\ size[s] \in Int /\ size[t] \in Int
  BY Consts DEF IInv, TypeOK, GrantInv
<1>3. CASE ptr[s] < ptr[t]
  BY <1>1, <1>2, <1>3 DEF Payload
<1>4. CASE ptr[t] < ptr[s]
  BY <1>1, <1>2, <1>4 DEF Payload
<1>5. QED
  BY <1>2, <1>3, <1>4

LEMMA NoneFitsFromIInv == IInv => NullOnlyWhenNoneFits
<1> SUFFICES ASSUME IInv, pc = "walk", le = SLOB_HEAD, NEW a \in Chunks
             PROVE  ~Fits(a)
  BY DEF NullOnlyWhenNoneFits
<1>1. a < le
  BY Consts DEF Chunks, ChunksOf, Addrs, SLOB_HEAD
<1>2. QED
  BY <1>1 DEF IInv, WalkInv

-----------------------------------------------------------------------------
(* Every variable keeps its type: in particular a length never outgrows    *)
(* its 31-bit field, and no pointer is handed out outside the arena.       *)
THEOREM Types == ASSUME NoWrap PROVE Spec => []TypeOK
<1>1. IInv => TypeOK
  BY DEF IInv
<1>2. QED
  BY Safety, <1>1, PTL

(* The chunks on the list always tile the arena in address order.          *)
THEOREM HeapTiled == ASSUME NoWrap PROVE Spec => []Tiling
<1>1. IInv => Tiling
  BY DEF IInv
<1>2. QED
  BY Safety, <1>1, PTL

(* No two neighbours on the list are both free: kfree merges both ways,    *)
(* and a split never leaves its free rest beside a free chunk.             *)
THEOREM Coalesced == ASSUME NoWrap PROVE Spec => []NoAdjacentFree
<1>1. IInv => NoAdjacentFree
  BY DEF IInv
<1>2. QED
  BY Safety, <1>1, PTL

(* A chunk marked used always has a caller that can give it back.          *)
THEOREM NoLostChunk == ASSUME NoWrap PROVE Spec => []UsedHasHolder
<1>1. IInv => UsedHasHolder
  BY DEF IInv
<1>2. QED
  BY Safety, <1>1, PTL

(* Whatever was allocated and freed in whatever order, once every caller   *)
(* has freed its pointer the heap is as slob_init left it.                 *)
THEOREM Restores == ASSUME NoWrap PROVE Spec => []AllFreedRestores
BY Safety, RestoresFromIInv, PTL

(* As long as kmalloc has split every chunk it handed out, no two callers  *)
(* share memory, and each has at least what it asked for.                  *)
THEOREM Exclusive == ASSUME NoWrap PROVE Spec => []GrantsExclusive
BY Safety, ExclusiveFromIInv, PTL

(* kmalloc does not answer NULL while a free chunk is large enough.        *)
THEOREM NoFalseFailure == ASSUME NoWrap PROVE Spec => []NullOnlyWhenNoneFits
BY Safety, NoneFitsFromIInv, PTL
=============================================================================
