---------------------------- MODULE BuddyProofs ----------------------------
(***************************************************************************)
(* Machine-checked safety of the buddy allocator, for every number of      *)
(* frames and every MAX_ORDER.                                             *)
(*                                                                         *)
(* The argument: the blocks of the system (free, in the hands of the       *)
(* running call, held by a client) always partition the frames released so *)
(* far.  Only three things ever happen to that partition: two buddies      *)
(* become one block, a block becomes its two halves, boot appends a block. *)
(* The first group of lemmas is about those three; the second about the    *)
(* rings and counters of the free lists; then comes one lemma per step.    *)
(*                                                                         *)
(* A second layer, ShapeInv, rests on the first: blocks are aligned, two   *)
(* free blocks are never mergeable buddies, the lists a scan has passed    *)
(* are empty, and each list is one ring.  From it follow that merging is   *)
(* complete, that following next meets exactly the free blocks, that a     *)
(* request is refused only when no run is free, and, step by step, that    *)
(* the allocator implements PagePool.                                      *)
(***************************************************************************)
EXTENDS Buddy, ListHeadProofs, FiniteSetTheorems

-----------------------------------------------------------------------------
(* Block sizes are positive. *)
LEMMA SizesPositive ==
  /\ N \in Nat /\ MAX_ORDER \in Nat \ {0}
  /\ \A o \in Orders : o \in Nat /\ Pow2[o] \in Nat \ {0}
BY SizeAssumption, Pow2Assumption DEF Orders

LEMMA BlockTypes ==
  ASSUME NEW B, NEW limit \in 0 .. N, Partition(B, limit)
  PROVE  /\ limit \in Nat
         /\ \A b \in B : /\ b = <<b[1], b[2]>>
                         /\ b[1] \in Frames /\ b[1] \in Nat
                         /\ b[2] \in Orders /\ Pow2[b[2]] \in Nat \ {0}
                         /\ b[1] + Pow2[b[2]] <= limit
<1>1. limit \in Nat
  BY SizesPositive
<1>2. \A b \in B : b = <<b[1], b[2]>> /\ b[1] \in Frames /\ b[2] \in Orders
  BY DEF Partition
<1>3. QED
  BY <1>1, <1>2, SizesPositive DEF Frames, Partition

(* Two adjacent blocks of one order become one block of the next order.    *)
LEMMA PartitionMerge ==
  ASSUME NEW B, NEW limit \in 0 .. N, Partition(B, limit),
         NEW o \in Orders, o + 1 \in Orders,
         NEW p \in Int, NEW q \in Int, q = p + Pow2[o],
         <<p, o>> \in B, <<q, o>> \in B
  PROVE  Partition((B \ {<<p, o>>, <<q, o>>}) \cup {<<p, o + 1>>}, limit)
<1> DEFINE m == <<p, o + 1>>
           C == (B \ {<<p, o>>, <<q, o>>}) \cup {m}
<1>0. Pow2[o] \in Nat \ {0} /\ Pow2[o + 1] = 2 * Pow2[o]
  BY SizesPositive, Pow2Assumption DEF Orders
<1>1. /\ m[1] = p /\ m[2] = o + 1 /\ p \in Frames
      /\ \A b \in B : /\ b[1] \in Nat /\ b[2] \in Orders /\ Pow2[b[2]] \in Nat \ {0}
                      /\ b = <<b[1], b[2]>>
  BY BlockTypes
<1>2. C \subseteq Frames \X Orders
  BY <1>0, <1>1 DEF Partition
<1>3. \A b \in C : b[1] + Pow2[b[2]] <= limit
  BY <1>0, <1>1 DEF Partition
<1>4. \A b \in C : b # m => Apart(b, m) /\ Apart(m, b)
  BY <1>0, <1>1 DEF Partition, Apart
<1>5. \A b, c \in C : b # c => Apart(b, c)
  BY <1>4 DEF Partition
<1>6. \A f \in 0 .. limit - 1 : \E b \in C : b[1] <= f /\ f < b[1] + Pow2[b[2]]
  <2> SUFFICES ASSUME NEW f \in 0 .. limit - 1
               PROVE  \E b \in C : b[1] <= f /\ f < b[1] + Pow2[b[2]]
    OBVIOUS
  <2>1. PICK b \in B : b[1] <= f /\ f < b[1] + Pow2[b[2]]
    BY DEF Partition
  <2>2. CASE b = <<p, o>> \/ b = <<q, o>>
    <3>1. p \in Int /\ f \in Int /\ p <= f /\ f < p + Pow2[o + 1]
      BY <1>0, <1>1, <2>1, <2>2
    <3>2. QED
      BY <1>1, <3>1
  <2>3. CASE ~(b = <<p, o>> \/ b = <<q, o>>)
    BY <2>1, <2>3
  <2>4. QED
    BY <2>2, <2>3
<1>7. QED
  BY <1>2, <1>3, <1>5, <1>6 DEF Partition

(* A block becomes its two halves. *)
LEMMA PartitionSplit ==
  ASSUME NEW B, NEW limit \in 0 .. N, Partition(B, limit),
         NEW o \in Orders, o + 1 \in Orders, NEW p \in Int, <<p, o + 1>> \in B
  PROVE  Partition((B \ {<<p, o + 1>>}) \cup {<<p, o>>, <<p + Pow2[o], o>>}, limit)
<1> DEFINE m == <<p, o + 1>>
           x == <<p, o>>
           y == <<p + Pow2[o], o>>
           C == (B \ {m}) \cup {x, y}
<1>0. Pow2[o] \in Nat \ {0} /\ Pow2[o + 1] = 2 * Pow2[o]
  BY SizesPositive, Pow2Assumption DEF Orders
<1>1. /\ p \in Frames /\ p \in Nat /\ p + Pow2[o + 1] <= limit
      /\ \A b \in B : /\ b[1] \in Nat /\ b[2] \in Orders /\ Pow2[b[2]] \in Nat \ {0}
                      /\ b = <<b[1], b[2]>>
  BY BlockTypes
<1>2. C \subseteq Frames \X Orders
  <2>1. p + Pow2[o] \in Frames
    BY <1>0, <1>1, SizesPositive DEF Frames
  <2>2. QED
    BY <1>0, <1>1, <2>1 DEF Partition
<1>3. \A b \in C : b[1] + Pow2[b[2]] <= limit
  BY <1>0, <1>1 DEF Partition
<1>4. \A b \in B \ {m} : Apart(b, x) /\ Apart(x, b) /\ Apart(b, y) /\ Apart(y, b)
  BY <1>0, <1>1 DEF Partition, Apart
<1>5. Apart(x, y) /\ Apart(y, x)
  BY <1>0, <1>1 DEF Apart
<1>6. \A b, c \in C : b # c => Apart(b, c)
  BY <1>4, <1>5 DEF Partition
<1>7. \A f \in 0 .. limit - 1 : \E b \in C : b[1] <= f /\ f < b[1] + Pow2[b[2]]
  <2> SUFFICES ASSUME NEW f \in 0 .. limit - 1
               PROVE  \E b \in C : b[1] <= f /\ f < b[1] + Pow2[b[2]]
    OBVIOUS
  <2>1. PICK b \in B : b[1] <= f /\ f < b[1] + Pow2[b[2]]
    BY DEF Partition
  <2>2. CASE b = m
    <3>1. \/ p <= f /\ f < p + Pow2[o]
          \/ p + Pow2[o] <= f /\ f < (p + Pow2[o]) + Pow2[o]
      BY <1>0, <1>1, <2>1, <2>2
    <3>2. CASE p <= f /\ f < p + Pow2[o]
      <4>1. x \in C /\ x[1] <= f /\ f < x[1] + Pow2[x[2]]
        BY <3>2
      <4>2. QED
        BY <4>1
    <3>3. CASE p + Pow2[o] <= f /\ f < (p + Pow2[o]) + Pow2[o]
      <4>1. y \in C /\ y[1] <= f /\ f < y[1] + Pow2[y[2]]
        BY <3>3
      <4>2. QED
        BY <4>1
    <3>4. QED
      BY <3>1, <3>2, <3>3
  <2>3. CASE b # m
    BY <2>1, <2>3
  <2>4. QED
    BY <2>2, <2>3
<1>8. QED
  BY <1>2, <1>3, <1>6, <1>7 DEF Partition

(* Boot appends the next block. *)
LEMMA PartitionExtend ==
  ASSUME NEW B, NEW limit \in 0 .. N, Partition(B, limit),
         NEW o \in Orders, limit + Pow2[o] <= N
  PROVE  Partition(B \cup {<<limit, o>>}, limit + Pow2[o])
<1> DEFINE m == <<limit, o>>
           C == B \cup {m}
<1>0. N \in Nat /\ limit \in Nat /\ Pow2[o] \in Nat \ {0}
  BY SizeAssumption, Pow2Assumption DEF Orders
<1>1. /\ limit \in Frames
      /\ \A b \in B : /\ b[1] \in Nat /\ b[2] \in Orders /\ Pow2[b[2]] \in Nat \ {0}
                      /\ b[1] + Pow2[b[2]] <= limit
  <2>1. limit \in Frames
    BY <1>0 DEF Frames
  <2>2. \A b \in B : b[1] \in Nat /\ b[2] \in Orders /\ b[1] + Pow2[b[2]] <= limit
    BY DEF Partition, Frames
  <2>3. QED
    BY <2>1, <2>2, SizesPositive
<1>2. C \subseteq Frames \X Orders
  BY <1>1 DEF Partition
<1>3. \A b \in C : b[1] + Pow2[b[2]] <= limit + Pow2[o]
  BY <1>0, <1>1
<1>4. \A b \in B : Apart(b, m) /\ Apart(m, b)
  BY <1>0, <1>1 DEF Apart
<1>5. \A b, c \in C : b # c => Apart(b, c)
  BY <1>4 DEF Partition
<1>6. \A f \in 0 .. (limit + Pow2[o]) - 1 : \E b \in C : b[1] <= f /\ f < b[1] + Pow2[b[2]]
  <2> SUFFICES ASSUME NEW f \in 0 .. (limit + Pow2[o]) - 1
               PROVE  \E b \in C : b[1] <= f /\ f < b[1] + Pow2[b[2]]
    OBVIOUS
  <2>1. CASE f < limit
    BY <1>0, <2>1 DEF Partition
  <2>2. CASE ~(f < limit)
    <3>1. m[1] <= f /\ f < m[1] + Pow2[m[2]]
      BY <1>0, <2>2
    <3>2. QED
      BY <3>1
  <2>3. QED
    BY <2>1, <2>2
<1>7. QED
  BY <1>2, <1>3, <1>5, <1>6 DEF Partition

(* Blocks of a partition that share a frame are the same block. *)
LEMMA SameBlock ==
  ASSUME NEW B, NEW limit \in 0 .. N, Partition(B, limit),
         NEW b \in B, NEW c \in B, NEW f \in Int,
         b[1] <= f, f < b[1] + Pow2[b[2]], c[1] <= f, f < c[1] + Pow2[c[2]]
  PROVE  b = c
<1>1. /\ b[1] \in Int /\ Pow2[b[2]] \in Int
      /\ c[1] \in Int /\ Pow2[c[2]] \in Int
  BY SizesPositive DEF Partition, Frames
<1>2. b # c => Apart(b, c)
  BY DEF Partition
<1>3. QED
  BY <1>1, <1>2 DEF Apart

(* The arithmetic of __find_buddy_index and of the combined index: the     *)
(* buddy is the neighbour on one side, the parent starts at the lower one. *)
LEMMA BuddyArith ==
  ASSUME NEW p \in Nat, NEW o \in Orders
  PROVE  \/ BuddyOf(p, o) = p + Pow2[o] /\ ParentOf(p, o) = p
         \/ /\ BuddyOf(p, o) = p - Pow2[o] /\ ParentOf(p, o) = p - Pow2[o]
            /\ Pow2[o] <= p
<1> DEFINE i == PageIdx(p)
<1>1. Pow2[o] \in Nat \ {0} /\ Pow2[MAX_ORDER] \in Nat \ {0}
  BY SizeAssumption, Pow2Assumption DEF Orders
<1>2. i \in Nat /\ i <= p
  BY <1>1 DEF PageIdx
<1>3. BitSet(i, o) => Pow2[o] <= i
  <2>1. ASSUME i < Pow2[o] PROVE i \div Pow2[o] = 0
    BY <1>1, <1>2, <2>1
  <2>2. QED
    BY <1>1, <1>2, <2>1 DEF BitSet
<1>4. QED
  BY <1>1, <1>2, <1>3 DEF BuddyOf, ParentOf, FindBuddyIndex, CombinedIndex

-----------------------------------------------------------------------------
(* Alignment. *)
(* Division with remainder, and that it is unique. *)
LEMMA DivMod ==
  ASSUME NEW p \in Nat, NEW d \in Nat \ {0}
  PROVE  p = ((p \div d) * d) + (p % d) /\ p \div d \in Nat /\ p % d \in 0 .. d - 1
OBVIOUS

LEMMA DivModUnique ==
  ASSUME NEW d \in Nat \ {0}, NEW k \in Nat, NEW r \in 0 .. d - 1
  PROVE  ((k * d) + r) \div d = k /\ ((k * d) + r) % d = r
OBVIOUS

(* A number is aligned to d when it is a multiple of it. *)
LEMMA Multiple ==
  ASSUME NEW p \in Nat, NEW d \in Nat \ {0}
  PROVE  p % d = 0 <=> \E k \in Nat : p = k * d
<1>2. ASSUME p % d = 0 PROVE \E k \in Nat : p = k * d
  <2>1. p \div d \in Nat /\ p = (p \div d) * d
    BY DivMod, <1>2
  <2>2. QED BY <2>1
<1>3. ASSUME NEW k \in Nat, p = k * d PROVE p % d = 0
  BY <1>3, DivModUnique
<1>4. QED
  BY <1>2, <1>3

LEMMA Times ==
  ASSUME NEW k \in Nat, NEW d \in Nat \ {0}
  PROVE  k * d \in Nat /\ (k * d) % d = 0
<1>1. k * d \in Nat
  OBVIOUS
<1>2. QED
  BY <1>1, Multiple

(* A larger block is a whole number of smaller ones. *)
LEMMA SizeDivides ==
  ASSUME NEW q \in Nat, NEW r \in Nat, q <= r, r <= MAX_ORDER
  PROVE  \E c \in Nat \ {0} : Pow2[r] = c * Pow2[q]
<1> DEFINE Divides(x) == \E c \in Nat \ {0} : Pow2[x] = c * Pow2[q]
           T == {x \in Nat : q <= x /\ x <= MAX_ORDER /\ ~Divides(x)}
<1>1. \A x \in 0 .. MAX_ORDER : Pow2[x] \in Nat \ {0}
  BY Pow2Assumption
<1>2. SUFFICES ASSUME T # {} PROVE FALSE
  OBVIOUS
<1>3. PICK x \in T : \A y \in T : x <= y
  BY <1>2, LeastNatural
<1>4. x # q
  <2>1. Pow2[q] = 1 * Pow2[q]
    BY <1>1, SizeAssumption
  <2>2. Divides(q)
    BY <2>1
  <2>3. QED
    BY <2>2
<1>5. x - 1 \in Nat /\ q <= x - 1 /\ x - 1 <= MAX_ORDER /\ x - 1 \in 0 .. MAX_ORDER - 1
  BY <1>4, SizeAssumption
<1>6. PICK c \in Nat \ {0} : Pow2[x - 1] = c * Pow2[q]
  BY <1>3, <1>5
<1>7. Pow2[x] = (2 * c) * Pow2[q] /\ 2 * c \in Nat \ {0}
  <2>1. Pow2[x] = 2 * Pow2[x - 1]
    <3>1. Pow2[(x - 1) + 1] = 2 * Pow2[x - 1] /\ (x - 1) + 1 = x
      BY <1>5, Pow2Assumption
    <3>2. QED BY <3>1
  <2>2. Pow2[q] \in Nat
    BY <1>1, SizeAssumption
  <2>3. QED
    BY <1>6, <2>1, <2>2
<1>8. QED
  BY <1>7

(* The buddy of an aligned block. *)
LEMMA BuddyAligned ==
  ASSUME NEW o \in Orders, NEW k \in Nat
  PROVE  LET p == k * Pow2[o] IN
         /\ BuddyOf(p, o) = IF k % 2 = 1 THEN p - Pow2[o] ELSE p + Pow2[o]
         /\ ParentOf(p, o) = IF k % 2 = 1 THEN p - Pow2[o] ELSE p
<1> DEFINE P == Pow2[o]
           M == Pow2[MAX_ORDER]
           p == k * P
           i == PageIdx(p)
<1>1. P \in Nat \ {0} /\ M \in Nat \ {0} /\ o \in Nat /\ o + 1 <= MAX_ORDER /\ Pow2[o + 1] = 2 * P
  BY SizeAssumption, Pow2Assumption DEF Orders
<1>2. PICK c \in Nat \ {0} : M = c * (2 * P)
  BY <1>1, SizeDivides, SizeAssumption
<1> DEFINE t == p \div M
           j == k - (2 * (c * t))
<1> HIDE DEF P, M
<1>3. p \in Nat /\ t \in Nat /\ p = (t * M) + i /\ i \in Nat
  <2>1. p \in Nat
    BY <1>1
  <2>2. M = Pow2[MAX_ORDER]
    BY DEF M
  <2> HIDE DEF p
  <2>3. i = p % M
    BY <2>2 DEF PageIdx
  <2>4. /\ p = ((p \div M) * M) + (p % M)
        /\ p \div M \in Nat /\ p % M \in 0 .. M - 1
    BY <1>1, <2>1, DivMod
  <2> HIDE DEF i
  <2>5. QED
    BY <1>1, <2>1, <2>3, <2>4
<1> HIDE DEF t
<1>4. i = j * P /\ j \in Int
  <2>1. i = (k * P) - (t * (c * (2 * P)))
    BY <1>2, <1>3
  <2>2. (k * P) - (t * (c * (2 * P))) = j * P
    BY <1>1, <1>3
  <2>3. QED BY <2>1, <2>2, <1>3
<1>5. j \in Nat
  BY <1>1, <1>3, <1>4
<1>6. i \div P = j
  BY <1>1, <1>4, <1>5, DivModUnique
<1>7. j % 2 = k % 2
  <2> DEFINE u == c * t
  <2>1. u \in Nat
    BY <1>3
  <2>2. j = k - (2 * u)
    OBVIOUS
  <2> HIDE DEF u, j
  <2>3. QED
    BY <2>1, <2>2
<1>8. BitSet(i, o) <=> k % 2 = 1
  BY <1>6, <1>7 DEF BitSet, P
<1>9. QED
  BY <1>1, <1>3, <1>8 DEF BuddyOf, ParentOf, FindBuddyIndex, CombinedIndex, P

(* Multiples of one size are at least that size apart. *)
LEMMA MultiplesApart ==
  ASSUME NEW d \in Nat \ {0}, NEW x \in Nat, NEW y \in Nat,
         x % d = 0, y % d = 0, x < y
  PROVE  x + d <= y
<1>1. PICK j \in Nat : x = j * d
  BY Multiple
<1>2. PICK k \in Nat : y = k * d
  BY Multiple
<1>3. j < k
  <2>1. SUFFICES ASSUME k <= j PROVE FALSE
    BY <1>1, <1>2
  <2>2. k * d <= j * d
    BY <2>1
  <2>3. QED
    BY <1>1, <1>2, <2>2
<1>4. (j + 1) * d <= k * d
  BY <1>3
<1>5. QED
  BY <1>1, <1>2, <1>4

(* What is aligned to a larger size is aligned to a smaller one. *)
LEMMA AlignedSmaller ==
  ASSUME NEW q \in Nat, NEW r \in Nat, q <= r, r <= MAX_ORDER,
         NEW p \in Nat, p % Pow2[r] = 0
  PROVE  p % Pow2[q] = 0
<1>1. Pow2[q] \in Nat \ {0} /\ Pow2[r] \in Nat \ {0}
  BY SizeAssumption, Pow2Assumption
<1>2. PICK c \in Nat \ {0} : Pow2[r] = c * Pow2[q]
  BY SizeDivides
<1>3. PICK k \in Nat : p = k * Pow2[r]
  BY <1>1, Multiple
<1>4. k * c \in Nat /\ p = (k * c) * Pow2[q]
  BY <1>1, <1>2, <1>3
<1>5. QED
  BY <1>1, <1>4, Multiple

LEMMA AlignedSum ==
  ASSUME NEW d \in Nat \ {0}, NEW p \in Nat, p % d = 0
  PROVE  (p + d) % d = 0
<1>1. PICK k \in Nat : p = k * d
  BY Multiple
<1>2. k + 1 \in Nat /\ p + d = (k + 1) * d
  BY <1>1
<1>3. QED
  BY <1>2, Times

(* The buddy of an aligned block is aligned, and its buddy is the block;   *)
(* their parent is aligned to the next order.                              *)
LEMMA BuddyBack ==
  ASSUME NEW o \in Orders, NEW p \in Nat, p % Pow2[o] = 0
  PROVE  /\ BuddyOf(p, o) \in Nat /\ BuddyOf(p, o) % Pow2[o] = 0
         /\ BuddyOf(BuddyOf(p, o), o) = p
         /\ ParentOf(p, o) \in Nat /\ ParentOf(p, o) % Pow2[o + 1] = 0
<1> DEFINE P == Pow2[o]
<1>1. P \in Nat \ {0} /\ Pow2[o + 1] = 2 * P /\ Pow2[o + 1] \in Nat \ {0}
  BY SizeAssumption, Pow2Assumption DEF Orders
<1>2. PICK k \in Nat : p = k * P
  BY <1>1, Multiple
<1>3. CASE k % 2 = 1
  <2>1. k - 1 \in Nat /\ (k - 1) % 2 # 1 /\ p - P = (k - 1) * P
    <3>1. k - 1 \in Nat /\ (k - 1) % 2 # 1
      BY <1>3
    <3>2. p - P = (k - 1) * P
      BY <1>1, <1>2
    <3>3. QED
      BY <3>1, <3>2
  <2>2. BuddyOf(p, o) = (k - 1) * P /\ ParentOf(p, o) = (k - 1) * P
    BY <1>2, <1>3, <2>1, BuddyAligned
  <2>3. BuddyOf((k - 1) * P, o) = ((k - 1) * P) + P
    BY <2>1, BuddyAligned
  <2>4. (k - 1) * P \in Nat /\ ((k - 1) * P) % P = 0
    BY <1>1, <2>1, Times
  <2>5. ((k - 1) * P) % (2 * P) = 0
    <3>1. (k - 1) \div 2 \in Nat /\ k - 1 = 2 * ((k - 1) \div 2)
      BY <1>3
    <3>2. (k - 1) * P = ((k - 1) \div 2) * (2 * P)
      BY <1>1, <3>1
    <3>3. QED
      BY <1>1, <2>4, <3>1, <3>2, Multiple
  <2> HIDE DEF P
  <2>6. QED
    BY <1>1, <1>2, <2>1, <2>2, <2>3, <2>4, <2>5 DEF P
<1>4. CASE k % 2 # 1
  <2>1. k + 1 \in Nat /\ (k + 1) % 2 = 1 /\ p + P = (k + 1) * P
    <3>1. k + 1 \in Nat /\ (k + 1) % 2 = 1
      BY <1>4
    <3>2. p + P = (k + 1) * P
      <4> HIDE DEF P
      <4>1. (k + 1) * P = (k * P) + P
        BY <1>1
      <4>2. QED
        BY <1>1, <1>2, <4>1
    <3>3. QED
      BY <3>1, <3>2
  <2>2. BuddyOf(p, o) = (k + 1) * P /\ ParentOf(p, o) = p
    BY <1>2, <1>4, <2>1, BuddyAligned
  <2>3. BuddyOf((k + 1) * P, o) = ((k + 1) * P) - P
    BY <2>1, BuddyAligned
  <2>4. (k + 1) * P \in Nat /\ ((k + 1) * P) % P = 0
    BY <1>1, <2>1, Times
  <2>5. p % (2 * P) = 0
    <3>1. k \div 2 \in Nat /\ k = 2 * (k \div 2)
      BY <1>4
    <3>2. p = (k \div 2) * (2 * P)
      BY <1>1, <1>2, <3>1
    <3>3. QED
      BY <1>1, <3>1, <3>2, Multiple
  <2>6. QED
    BY <1>1, <1>2, <2>1, <2>2, <2>3, <2>4, <2>5
<1>5. QED
  BY <1>3, <1>4

(* A larger aligned run holds both of two buddies or neither. *)
LEMMA BuddiesTogether ==
  ASSUME NEW q \in Nat, NEW r \in Nat, q < r, r <= MAX_ORDER,
         NEW s \in Nat, s % Pow2[q] = 0, NEW e \in Nat, e % Pow2[r] = 0,
         e <= s, s < e + Pow2[r]
  PROVE  /\ e <= BuddyOf(s, q) /\ BuddyOf(s, q) < e + Pow2[r]
<1> DEFINE Q == Pow2[q]
           R == Pow2[r]
<1>1. Q \in Nat \ {0} /\ R \in Nat \ {0} /\ q \in Orders /\ q + 1 \in Nat /\ Pow2[q + 1] = 2 * Q
  BY SizeAssumption, Pow2Assumption DEF Orders
<1>2. PICK c \in Nat \ {0} : R = c * (2 * Q)
  BY <1>1, SizeDivides
<1>3. PICK k \in Nat : s = k * Q
  BY <1>1, Multiple
<1>4. PICK m \in Nat : e = m * R
  BY <1>1, Multiple
<1> DEFINE a == m * c
           b == a + c
<1>5. a \in Nat /\ b \in Nat /\ e = (2 * a) * Q /\ e + R = (2 * b) * Q
  BY <1>1, <1>2, <1>4
<1> HIDE DEF a, b, Q, R
<1>6. 2 * a <= k /\ k < 2 * b
  <2>1. ASSUME k < 2 * a PROVE FALSE
    <3>1. (k + 1) * Q <= (2 * a) * Q
      BY <1>1, <1>5, <2>1
    <3>2. QED
      BY <1>1, <1>3, <1>5, <3>1
  <2>2. ASSUME 2 * b <= k PROVE FALSE
    <3>1. (2 * b) * Q <= k * Q
      BY <1>1, <1>5, <2>2
    <3>2. QED
      BY <1>1, <1>3, <1>5, <3>1 DEF R
  <2>3. QED
    BY <1>5, <2>1, <2>2
<1>7. CASE k % 2 = 1
  <2>1. BuddyOf(s, q) = s - Q
    BY <1>1, <1>3, <1>7, BuddyAligned DEF Q
  <2>2. 2 * a <= k - 1 /\ k - 1 < 2 * b
    BY <1>5, <1>6, <1>7
  <2>3. (2 * a) * Q <= (k - 1) * Q /\ k * Q <= (2 * b) * Q
    BY <1>1, <1>5, <2>2
  <2>4. QED
    BY <1>1, <1>3, <1>5, <2>1, <2>3 DEF R
<1>8. CASE k % 2 # 1
  <2>1. BuddyOf(s, q) = s + Q
    BY <1>1, <1>3, <1>8, BuddyAligned DEF Q
  <2>2. k + 2 <= 2 * b
    BY <1>5, <1>6, <1>8
  <2>3. (k + 2) * Q <= (2 * b) * Q
    BY <1>1, <1>5, <2>2
  <2>4. QED
    BY <1>1, <1>3, <1>5, <2>1, <2>3 DEF R
<1>9. QED
  BY <1>7, <1>8

-----------------------------------------------------------------------------
(* Free lists.  A frame carries one order, so no frame is on two lists. *)
LEMMA Lists ==
  /\ \A o \in Orders : /\ Ring(o) \subseteq Nodes
                       /\ FreeList(o) \in Nodes /\ FreeList(o) \notin Frames
                       /\ FreeFrames(o) \subseteq Frames
  /\ \A o, q \in Orders : o # q => /\ Ring(o) \cap Ring(q) = {}
                                   /\ FreeList(o) # FreeList(q)
<1>1. \A o \in Orders : FreeList(o) < 0 /\ FreeList(o) \in Int
  BY SizesPositive DEF FreeList
<1>2. \A p \in Frames : p >= 0 /\ p \in Int
  BY DEF Frames
<1>3. \A o, q \in Orders : o # q => FreeList(o) # FreeList(q)
  BY SizesPositive DEF FreeList
<1>4. \A o, q \in Orders : o # q => FreeFrames(o) \cap FreeFrames(q) = {}
  BY DEF FreeFrames, PageIsBuddy
<1>5. \A o \in Orders : FreeFrames(o) \subseteq Frames
  BY DEF FreeFrames
<1>6. \A o \in Orders : FreeList(o) \notin Frames
  BY <1>1, <1>2
<1>7. \A o, q \in Orders : o # q => Ring(o) \cap Ring(q) = {}
  BY <1>3, <1>4, <1>5, <1>6 DEF Ring
<1>8. QED
  BY <1>3, <1>5, <1>6, <1>7 DEF Ring, Nodes

(* The frames marked free with one order are finitely many. *)
LEMMA FreeFramesFinite ==
  ASSUME NEW o \in Orders
  PROVE  IsFiniteSet(FreeFrames(o)) /\ Cardinality(FreeFrames(o)) \in Nat
<1>1. IsFiniteSet(Frames)
  BY FS_Interval, SizesPositive DEF Frames
<1>2. IsFiniteSet(FreeFrames(o))
  BY <1>1, FS_Subset DEF FreeFrames
<1>3. QED
  BY <1>2, FS_CardinalityType

(* The heap of list nodes. *)
LruHeap == Heap(lru, Nodes)

LEMMA TypeHeap == TypeOK => LruHeap
BY DEF TypeOK, LruHeap, Heap

(* PutOnList keeps every list exact. *)
LEMMA PutOnListStep ==
  ASSUME TypeOK, ListInv, pc # "init",
         NEW p \in Frames, ~PageBuddy(p), NEW o \in Orders, PutOnList(p, o)
  PROVE  /\ FreeBlocks' = FreeBlocks \cup {<<p, o>>}
         /\ LruHeap' /\ ListInv' /\ (ConnectedInv => ConnectedInv')
         /\ nr_free' \in [Orders -> Nat]
         /\ private' \in [Structs -> Orders]
         /\ mapcount' \in [Structs -> {0, NO_MAP, BUDDY}]
         /\ mapcount'[N] = mapcount[N]
<1> USE DEF PutOnList
<1>1. p \in Structs /\ p # N /\ Frames \subseteq Structs
  BY SizesPositive DEF Frames, Structs
<1>2. /\ private' \in [Structs -> Orders]
      /\ mapcount' \in [Structs -> {0, NO_MAP, BUDDY}]
      /\ mapcount'[N] = mapcount[N]
  BY <1>1 DEF TypeOK
<1>3. \A f \in Frames, q \in Orders :
        PageIsBuddy(f, q)' <=> PageIsBuddy(f, q) \/ (f = p /\ q = o)
  BY <1>1 DEF TypeOK, PageIsBuddy, PageBuddy
<1>4. FreeBlocks' = FreeBlocks \cup {<<p, o>>}
  BY <1>3 DEF FreeBlocks
<1>5. /\ FreeFrames(o)' = FreeFrames(o) \cup {p} /\ p \notin FreeFrames(o)
      /\ \A q \in Orders : q # o => FreeFrames(q)' = FreeFrames(q) /\ p \notin FreeFrames(q)
  BY <1>3 DEF FreeFrames, PageIsBuddy
<1>6. /\ Ring(o)' = Ring(o) \cup {p}
      /\ \A q \in Orders : q # o => Ring(q)' = Ring(q)
      /\ \A q \in Orders : p \notin Ring(q)
  BY <1>5, Lists DEF Ring
<1>7. Heap(lru, Nodes) /\ p \in Nodes /\ FreeList(o) \in Ring(o)
  BY TypeHeap, Lists DEF LruHeap, Nodes, Ring
<1>8. /\ \A q \in Orders : RingClosed(lru, Ring(q)) /\ Ring(q) \subseteq Nodes
      /\ lru.next[FreeList(o)] \in Nodes
  BY <1>7, Lists DEF ListInv, RingClosed
<1>9. LruHeap'
  BY <1>7, <1>8, Lists, ListAddHeap DEF LruHeap, Nodes
<1>10. \A q \in Orders : RingClosed(lru', Ring(q)')
  <2>1. RingClosed(lru', Ring(o)')
    BY <1>6, <1>7, <1>8, ListAddRing
  <2>2. ASSUME NEW q \in Orders, q # o PROVE RingClosed(lru', Ring(q)')
    <3>1. Ring(q) \cap Ring(o) = {}
      BY <2>2, Lists
    <3>2. QED
      BY <2>2, <3>1, <1>6, <1>7, <1>8, ListAddOther
  <2>3. QED
    BY <2>1, <2>2
<1>11. \A q \in Orders : nr_free'[q] = Cardinality(FreeFrames(q)')
  <2>1. nr_free'[o] = Cardinality(FreeFrames(o)')
    <3>1. Cardinality(FreeFrames(o) \cup {p}) = Cardinality(FreeFrames(o)) + 1
      BY <1>5, FreeFramesFinite, FS_AddElement
    <3>2. nr_free[o] = Cardinality(FreeFrames(o)) /\ nr_free'[o] = nr_free[o] + 1
      BY DEF TypeOK, ListInv
    <3>3. QED
      BY <1>5, <3>1, <3>2
  <2>2. ASSUME NEW q \in Orders, q # o PROVE nr_free'[q] = Cardinality(FreeFrames(q)')
    BY <1>5, <2>2 DEF TypeOK, ListInv
  <2>3. QED
    BY <2>1, <2>2
<1>12. nr_free' \in [Orders -> Nat]
  BY DEF TypeOK
<1>13. ASSUME ConnectedInv PROVE ConnectedInv'
  <2>1. \A q \in Orders : RingConnected(lru, Ring(q), FreeList(q))
    BY <1>13 DEF ConnectedInv
  <2>2. RingConnected(lru', Ring(o)', FreeList(o))
    BY <1>6, <1>7, <1>8, <2>1, ListAddConnected
  <2>3. ASSUME NEW q \in Orders, q # o PROVE RingConnected(lru', Ring(q)', FreeList(q))
    <3>1. Ring(q) \cap Ring(o) = {}
      BY <2>3, Lists
    <3>2. QED
      BY <2>1, <2>3, <3>1, <1>6, <1>7, <1>8, ListAddConnectedOther
  <2>4. QED
    BY <2>2, <2>3 DEF ConnectedInv, FreeList
<1>14. QED
  BY <1>2, <1>4, <1>9, <1>10, <1>11, <1>12, <1>13 DEF ListInv

(* TakeOffList keeps every list exact. *)
LEMMA TakeOffListStep ==
  ASSUME TypeOK, ListInv, pc # "init",
         NEW p \in Frames, NEW o \in Orders, PageIsBuddy(p, o), TakeOffList(p, o)
  PROVE  /\ FreeBlocks' = FreeBlocks \ {<<p, o>>} /\ <<p, o>> \in FreeBlocks
         /\ ~PageBuddy(p)'
         /\ LruHeap' /\ ListInv' /\ (ConnectedInv => ConnectedInv')
         /\ nr_free' \in [Orders -> Nat]
         /\ private' \in [Structs -> Orders]
         /\ mapcount' \in [Structs -> {0, NO_MAP, BUDDY}]
         /\ mapcount'[N] = mapcount[N]
<1> USE DEF TakeOffList
<1>1. p \in Structs /\ p # N /\ Frames \subseteq Structs /\ 0 \in Orders
  BY SizesPositive DEF Frames, Structs, Orders
<1>2. /\ private' \in [Structs -> Orders]
      /\ mapcount' \in [Structs -> {0, NO_MAP, BUDDY}]
      /\ mapcount'[N] = mapcount[N]
  BY <1>1 DEF TypeOK
<1>3. /\ ~PageBuddy(p)'
      /\ \A f \in Frames, q \in Orders :
           PageIsBuddy(f, q)' <=> PageIsBuddy(f, q) /\ f # p
  BY <1>1 DEF TypeOK, PageIsBuddy, PageBuddy, NO_MAP, BUDDY
<1>4. FreeBlocks' = FreeBlocks \ {<<p, o>>} /\ <<p, o>> \in FreeBlocks
  BY <1>3 DEF FreeBlocks, PageIsBuddy
<1>5. /\ FreeFrames(o)' = FreeFrames(o) \ {p} /\ p \in FreeFrames(o)
      /\ \A q \in Orders : q # o => FreeFrames(q)' = FreeFrames(q) /\ p \notin FreeFrames(q)
  BY <1>3 DEF FreeFrames, PageIsBuddy
<1>6. /\ Ring(o)' = Ring(o) \ {p} /\ p \in Ring(o)
      /\ \A q \in Orders : q # o => Ring(q)' = Ring(q)
  BY <1>5, Lists DEF Ring
<1>7. Heap(lru, Nodes) /\ p \in Nodes
  BY TypeHeap DEF LruHeap, Nodes
<1>8. /\ \A q \in Orders : RingClosed(lru, Ring(q)) /\ Ring(q) \subseteq Nodes
      /\ lru.next[p] \in Nodes /\ lru.prev[p] \in Nodes
  BY <1>6, Lists DEF ListInv, RingClosed
<1>9. LruHeap'
  BY <1>7, <1>8, ListDelHeap DEF LruHeap, Nodes
<1>10. \A q \in Orders : RingClosed(lru', Ring(q)')
  <2>1. RingClosed(lru', Ring(o)')
    BY <1>6, <1>7, <1>8, ListDelRing
  <2>2. ASSUME NEW q \in Orders, q # o PROVE RingClosed(lru', Ring(q)')
    <3>1. Ring(q) \cap Ring(o) = {}
      BY <2>2, Lists
    <3>2. QED
      BY <2>2, <3>1, <1>6, <1>7, <1>8, ListDelOther
  <2>3. QED
    BY <2>1, <2>2
<1>11. \A q \in Orders : nr_free'[q] = Cardinality(FreeFrames(q)') /\ nr_free'[q] \in Nat
  <2>1. nr_free'[o] = Cardinality(FreeFrames(o)')
    <3>1. Cardinality(FreeFrames(o) \ {p}) = Cardinality(FreeFrames(o)) - 1
      BY <1>5, FreeFramesFinite, FS_RemoveElement
    <3>2. nr_free[o] = Cardinality(FreeFrames(o)) /\ nr_free'[o] = nr_free[o] - 1
      BY DEF TypeOK, ListInv
    <3>3. QED
      BY <1>5, <3>1, <3>2
  <2>2. ASSUME NEW q \in Orders, q # o PROVE nr_free'[q] = Cardinality(FreeFrames(q)')
    BY <1>5, <2>2 DEF TypeOK, ListInv
  <2>3. nr_free'[o] \in Nat
    <3>1. IsFiniteSet(FreeFrames(o)')
      BY <1>5, FreeFramesFinite, FS_RemoveElement
    <3>2. QED
      BY <2>1, <3>1, FS_CardinalityType
  <2>4. ASSUME NEW q \in Orders, q # o PROVE nr_free'[q] \in Nat
    BY <2>4 DEF TypeOK
  <2>5. QED
    BY <2>1, <2>2, <2>3, <2>4
<1>12. nr_free' \in [Orders -> Nat]
  BY <1>11 DEF TypeOK
<1>13. ASSUME ConnectedInv PROVE ConnectedInv'
  <2>1. \A q \in Orders : RingConnected(lru, Ring(q), FreeList(q))
    BY <1>13 DEF ConnectedInv
  <2>2. RingConnected(lru', Ring(o)', FreeList(o))
    <3>1. p # FreeList(o) /\ FreeList(o) \in Ring(o)
      BY Lists DEF Ring
    <3>2. QED
      BY <1>6, <1>7, <1>8, <2>1, <3>1, ListDelConnected
  <2>3. ASSUME NEW q \in Orders, q # o PROVE RingConnected(lru', Ring(q)', FreeList(q))
    <3>1. Ring(q) \cap Ring(o) = {}
      BY <2>3, Lists
    <3>2. QED
      BY <2>1, <2>3, <3>1, <1>6, <1>7, <1>8, ListDelConnectedOther
  <2>4. QED
    BY <2>2, <2>3 DEF ConnectedInv, FreeList
<1>14. QED
  BY <1>2, <1>3, <1>4, <1>9, <1>10, <1>11, <1>12, <1>13 DEF ListInv

(* What a step that moves no mark and no link leaves alone. *)
LEMMA SameLists ==
  ASSUME IInv, pc # "init", UNCHANGED <<lru, mapcount, private, nr_free>>
  PROVE  FreeBlocks' = FreeBlocks /\ ListInv' /\ (ConnectedInv => ConnectedInv')
<1>1. \A p, o : PageIsBuddy(p, o)' = PageIsBuddy(p, o)
  BY DEF PageIsBuddy, PageBuddy
<1>2. FreeBlocks' = FreeBlocks
  BY <1>1 DEF FreeBlocks
<1>3. \A o : FreeFrames(o)' = FreeFrames(o) /\ Ring(o)' = Ring(o)
  BY <1>1 DEF FreeFrames, Ring
<1>4. ListInv'
  BY <1>3 DEF IInv, ListInv
<1>5. ASSUME ConnectedInv PROVE ConnectedInv'
  BY <1>3, <1>5 DEF ConnectedInv, FreeList
<1>6. QED
  BY <1>2, <1>4, <1>5

-----------------------------------------------------------------------------
(* One lemma per step. *)
LEMMA InitIInv == Init => IInv
<1> SUFFICES ASSUME Init PROVE IInv
  OBVIOUS
<1> USE DEF Init
<1>1. 0 \in Orders /\ 0 \in 0 .. N /\ N \in Structs /\ MAX_ORDER - 1 \in Orders
  BY SizesPositive DEF Orders, Structs
<1>2. FreeBlocks = {} /\ InFlight = {} /\ Blocks = {}
  <2>1. \A p \in Frames, o \in Orders : ~PageIsBuddy(p, o)
    BY SizesPositive DEF PageIsBuddy, PageBuddy, BUDDY, Frames, Structs
  <2>2. QED
    BY <2>1 DEF FreeBlocks, InFlight, Blocks
<1>3. TypeOK
  BY <1>1, SizesPositive DEF TypeOK, NoRet, NO_MAP, BUDDY
<1>4. Partition(Blocks, p_idx)
  BY <1>2 DEF Partition
<1>5. QED
  BY <1>1, <1>2, <1>3, <1>4
     DEF IInv, ControlInv, FreshInv, ExclusiveInv, CountIsRefs, ListInv

LEMMA InitPagesStep == IInv /\ InitPages => IInv'
<1> SUFFICES ASSUME IInv, InitPages PROVE IInv'
  OBVIOUS
<1> USE DEF InitPages, boot, use
<1>0. /\ TypeOK /\ ControlInv /\ held = {} /\ p_idx = 0 /\ caller = "boot"
      /\ N \in Structs \ Frames
  <2>1. N \in Structs \ Frames
    BY SizesPositive DEF Structs, Frames
  <2>2. QED
    BY <2>1 DEF IInv, TypeOK, ControlInv
<1>1. TypeOK'
  <2>1. count' \in [Structs -> Int] /\ mapcount' \in [Structs -> {0, NO_MAP, BUDDY}]
    BY <1>0 DEF TypeOK
  <2>2. lru'.next \in [Nodes -> Nodes \cup {NULL}] /\ lru'.prev \in [Nodes -> Nodes \cup {NULL}]
    OBVIOUS
  <2>3. QED
    BY <1>0, <2>1, <2>2 DEF TypeOK
<1>2. \A p, o : p \in Frames => ~PageIsBuddy(p, o)'
  BY SizesPositive DEF PageIsBuddy, PageBuddy, NO_MAP, BUDDY, Frames, Structs
<1>3. FreeBlocks' = {} /\ InFlight' = {} /\ Blocks' = {}
  BY <1>0, <1>2 DEF FreeBlocks, InFlight, Blocks
<1>4. \A o \in Orders : FreeFrames(o)' = {} /\ Ring(o)' = {FreeList(o)}
  BY <1>2 DEF FreeFrames, Ring
<1>5. ListInv'
  BY <1>4, FS_EmptySet, Lists DEF ListInv, RingClosed
<1>6. ControlInv' /\ FreshInv'
  BY <1>0, SizesPositive DEF ControlInv, FreshInv, Frames, Structs
<1>7. Partition(Blocks', p_idx')
  BY <1>0, <1>3 DEF Partition
<1>8. QED
  BY <1>0, <1>1, <1>3, <1>5, <1>6, <1>7 DEF IInv, ExclusiveInv, CountIsRefs

LEMMA BootReleaseStep == IInv /\ BootRelease => IInv'
<1> SUFFICES ASSUME IInv, BootRelease PROVE IInv'
  OBVIOUS
<1> DEFINE b == <<p_idx, p_order>>
<1> USE DEF BootRelease, FreePages, LastRef, use
<1>0. /\ TypeOK /\ ControlInv /\ pc = "boot" /\ caller = "boot" /\ held = {}
      /\ p_idx \in 0 .. N /\ p_idx \in Nat /\ p_order \in Orders
      /\ Pow2[p_order] \in Nat \ {0} /\ N \in Nat
  BY SizesPositive DEF IInv, TypeOK, ControlInv
<1>1. p_idx \in Frames /\ p_idx \in Structs /\ count[p_idx] = 1
  BY <1>0 DEF IInv, FreshInv, Frames, Structs
<1>2. /\ pc' = "merge" /\ page' = p_idx /\ order' = p_order
      /\ p_idx' \in 0 .. N /\ p_idx' = p_idx + Pow2[p_order]
  BY <1>0, <1>1
<1>3. FreeBlocks' = FreeBlocks /\ ListInv'
  BY <1>0, SameLists
<1>4. Blocks = FreeBlocks /\ Blocks' = Blocks \cup {b} /\ InFlight' = {b} /\ held' = {}
  BY <1>0, <1>2, <1>3 DEF Blocks, InFlight
<1>5. Partition(Blocks, p_idx)
  BY DEF IInv
<1>6. Partition(Blocks', p_idx')
  <2>1. p_idx + Pow2[p_order] <= N
    BY <1>0
  <2>2. QED
    BY <1>0, <1>2, <1>4, <1>5, <2>1, PartitionExtend
<1>7. b \notin Blocks
  <2>1. \A c \in Blocks : c[1] + Pow2[c[2]] <= p_idx
    BY <1>5 DEF Partition
  <2>2. ~(b[1] + Pow2[b[2]] <= p_idx)
    BY <1>0
  <2>3. QED
    BY <2>1, <2>2
<1>8. TypeOK'
  <2>1. p_order \in 0 .. MAX_ORDER
    BY <1>0, SizesPositive DEF Orders
  <2>2. count' \in [Structs -> Int]
    <3>1. count \in [Structs -> Int] /\ count[p_idx] - 1 \in Int
      BY <1>0, <1>1 DEF TypeOK
    <3>2. QED
      BY <3>1
  <2>3. QED
    BY <1>0, <1>1, <1>2, <2>1, <2>2 DEF TypeOK
<1>9. ControlInv'
  BY <1>0, <1>1, <1>2 DEF ControlInv
<1>10. FreshInv'
  <2>1. ASSUME NEW f \in Frames, f >= p_idx' PROVE count'[f] = 1
    <3>1. f # p_idx /\ f >= p_idx /\ f \in Structs
      BY <1>0, <1>2, <2>1 DEF Frames, Structs
    <3>2. QED
      BY <1>0, <3>1 DEF IInv, TypeOK, FreshInv
  <2>2. QED
    BY <2>1 DEF FreshInv
<1>11. QED
  BY <1>3, <1>4, <1>6, <1>7, <1>8, <1>9, <1>10 DEF IInv, ExclusiveInv, CountIsRefs

LEMMA BootShrinkStep == IInv /\ BootShrink => IInv'
<1> SUFFICES ASSUME IInv, BootShrink PROVE IInv'
  OBVIOUS
<1> USE DEF BootShrink, mem, use
<1>1. p_order' \in Orders
  <2>1. p_order \in Orders /\ p_idx \in 0 .. N /\ p_idx < N /\ N - p_idx < Pow2[p_order]
    BY DEF IInv, TypeOK
  <2>2. p_order # 0
    BY <2>1, SizesPositive, Pow2Assumption
  <2>3. QED
    BY <2>1, <2>2, SizesPositive DEF Orders
<1>2. FreeBlocks' = FreeBlocks /\ ListInv'
  BY SameLists
<1>3. InFlight' = InFlight /\ Blocks' = Blocks
  BY <1>2 DEF InFlight, Blocks
<1>4. TypeOK' /\ ControlInv' /\ FreshInv' /\ CountIsRefs'
  BY <1>1 DEF IInv, TypeOK, ControlInv, FreshInv, CountIsRefs
<1>5. QED
  BY <1>2, <1>3, <1>4 DEF IInv, ExclusiveInv

LEMMA BootDoneStep == IInv /\ BootDone => IInv'
<1> SUFFICES ASSUME IInv, BootDone PROVE IInv'
  OBVIOUS
<1> USE DEF BootDone, mem, use
<1>1. p_idx = N
  BY SizesPositive DEF IInv, TypeOK
<1>2. FreeBlocks' = FreeBlocks /\ ListInv'
  BY SameLists
<1>3. InFlight' = InFlight /\ Blocks' = Blocks
  BY <1>2 DEF InFlight, Blocks
<1>4. TypeOK' /\ ControlInv' /\ FreshInv' /\ CountIsRefs'
  BY <1>1 DEF IInv, TypeOK, ControlInv, FreshInv, CountIsRefs
<1>5. QED
  BY <1>2, <1>3, <1>4 DEF IInv, ExclusiveInv

(* A block in the hands of a call is not marked free, wherever it starts. *)
LEMMA InFlightUnmarked ==
  ASSUME IInv, NEW b \in InFlight, NEW p \in Frames,
         b[1] <= p, p < b[1] + Pow2[b[2]]
  PROVE  ~PageBuddy(p)
<1> SUFFICES ASSUME PageBuddy(p) PROVE FALSE
  OBVIOUS
<1> DEFINE c == <<p, private[p]>>
<1>1. private[p] \in Orders /\ p \in Int /\ Pow2[private[p]] \in Nat \ {0}
  BY SizesPositive DEF IInv, TypeOK, Frames, Structs
<1>2. c \in FreeBlocks
  BY <1>1 DEF FreeBlocks, PageIsBuddy
<1>3. c[1] <= p /\ p < c[1] + Pow2[c[2]]
  BY <1>1
<1>4. b \in Blocks /\ c \in Blocks /\ Partition(Blocks, p_idx) /\ p_idx \in 0 .. N
  BY <1>2 DEF Blocks, IInv, TypeOK
<1>5. b = c
  BY <1>1, <1>3, <1>4, SameBlock
<1>6. QED
  BY <1>2, <1>5 DEF IInv, ExclusiveInv

LEMMA FreeInsertStep == IInv /\ FreeInsert => IInv'
<1> SUFFICES ASSUME IInv, FreeInsert PROVE IInv'
  OBVIOUS
<1> DEFINE b == <<page, order>>
<1> USE DEF FreeInsert, boot, use
<1>0. /\ TypeOK /\ ListInv /\ pc = "merge" /\ page \in Frames /\ order \in Orders
      /\ pc' \in {"boot", "idle"} /\ Pow2[order] \in Nat \ {0}
  BY SizesPositive DEF IInv, TypeOK, ControlInv
<1>1. InFlight = {b}
  BY <1>0 DEF InFlight
<1>2. ~PageBuddy(page)
  BY <1>0, <1>1, InFlightUnmarked DEF Frames
<1>3. /\ FreeBlocks' = FreeBlocks \cup {b}
      /\ LruHeap' /\ ListInv' /\ nr_free' \in [Orders -> Nat]
      /\ private' \in [Structs -> Orders]
      /\ mapcount' \in [Structs -> {0, NO_MAP, BUDDY}]
      /\ mapcount'[N] = mapcount[N]
  BY <1>0, <1>2, PutOnListStep
<1>4. InFlight' = {} /\ Blocks' = Blocks
  BY <1>0, <1>1, <1>3 DEF InFlight, Blocks
<1>5. TypeOK'
  BY <1>0, <1>3, SizesPositive DEF TypeOK, LruHeap, Heap
<1>6. ControlInv' /\ FreshInv' /\ CountIsRefs'
  BY <1>0, <1>3 DEF IInv, TypeOK, ControlInv, FreshInv, CountIsRefs
<1>7. ExclusiveInv'
  BY <1>1, <1>3, <1>4 DEF IInv, ExclusiveInv
<1>8. QED
  BY <1>3, <1>4, <1>5, <1>6, <1>7 DEF IInv

(* The probe of page[buddy] stays inside the frame array: the block ends   *)
(* at or below N, and the entry at N is never marked free.                 *)
LEMMA ProbeFrame ==
  ASSUME IInv, pc = "merge", CanMerge
  PROVE  BuddyOf(page, order) \in Frames /\ PageIsBuddy(BuddyOf(page, order), order)
<1> DEFINE q == BuddyOf(page, order)
<1>1. /\ page \in Nat /\ order \in Orders /\ Pow2[order] \in Nat \ {0}
      /\ p_idx \in 0 .. N /\ Partition(Blocks, p_idx)
  BY SizesPositive DEF IInv, TypeOK, ControlInv, Frames
<1>2. page + Pow2[order] <= p_idx
  <2>1. <<page, order>> \in Blocks
    BY DEF Blocks, InFlight
  <2>2. QED
    BY <1>1, <2>1 DEF Partition
<1>3. q \in 0 .. N
  BY <1>1, <1>2, BuddyArith, SizesPositive
<1>4. PageIsBuddy(q, order)
  BY DEF CanMerge
<1>5. q # N
  BY <1>4 DEF IInv, ControlInv, PageIsBuddy, PageBuddy, BUDDY
<1>6. QED
  BY <1>3, <1>4, <1>5, SizesPositive DEF Frames

LEMMA MergeStepStep == IInv /\ MergeStep => IInv'
<1> SUFFICES ASSUME IInv, MergeStep PROVE IInv'
  OBVIOUS
<1> DEFINE q == BuddyOf(page, order)
           m == ParentOf(page, order)
           b == <<page, order>>
           c == <<q, order>>
           d == <<m, order + 1>>
<1> USE DEF MergeStep, boot, use
<1>0. /\ TypeOK /\ ListInv /\ pc = "merge" /\ pc' = "merge"
      /\ page \in Frames /\ page \in Nat
      /\ order \in Orders /\ order + 1 \in Orders /\ Pow2[order] \in Nat \ {0}
      /\ p_idx \in 0 .. N /\ p_idx \in Nat /\ Partition(Blocks, p_idx)
  <2>1. page \in Frames /\ order \in Orders /\ p_idx \in 0 .. N
    BY DEF IInv, TypeOK, ControlInv
  <2>2. order + 1 \in Orders
    BY <2>1, SizesPositive DEF Orders, CanMerge
  <2>3. QED
    BY <2>1, <2>2, SizesPositive DEF IInv, Frames
<1>1. InFlight = {b} /\ b \in Blocks
  BY <1>0 DEF InFlight, Blocks
<1>2. q \in Frames /\ PageIsBuddy(q, order)
  BY <1>0, ProbeFrame
<1>3. /\ FreeBlocks' = FreeBlocks \ {c} /\ c \in FreeBlocks
      /\ LruHeap' /\ ListInv' /\ nr_free' \in [Orders -> Nat]
      /\ private' \in [Structs -> Orders]
      /\ mapcount' \in [Structs -> {0, NO_MAP, BUDDY}]
      /\ mapcount'[N] = mapcount[N]
  BY <1>0, <1>2, TakeOffListStep
<1>4. /\ b \notin FreeBlocks /\ b \notin held /\ c \notin held
      /\ c \in Blocks /\ b # c
  BY <1>1, <1>3 DEF IInv, ExclusiveInv, Blocks
<1>5. InFlight' = {d} /\ Blocks' = (Blocks \ {b, c}) \cup {d}
  BY <1>0, <1>1, <1>3, <1>4 DEF InFlight, Blocks
(* The lower one of the two starts the merged block. *)
<1>6. \/ q = page + Pow2[order] /\ m = page
      \/ page = q + Pow2[order] /\ m = q
  BY <1>0, BuddyArith
<1>7. Partition(Blocks', p_idx')
  <2>1. CASE q = page + Pow2[order] /\ m = page
    <3>1. Partition((Blocks \ {b, c}) \cup {d}, p_idx)
      BY <1>0, <1>1, <1>2, <1>4, <2>1, PartitionMerge DEF Frames
    <3>2. QED
      BY <1>5, <3>1
  <2>2. CASE page = q + Pow2[order] /\ m = q
    <3>1. Partition((Blocks \ {c, b}) \cup {d}, p_idx)
      BY <1>0, <1>1, <1>2, <1>4, <2>2, PartitionMerge DEF Frames
    <3>2. QED
      BY <1>5, <3>1
  <2>3. QED
    BY <1>6, <2>1, <2>2
(* It was no block before: it would have shared frames with the first one. *)
<1>8. d \notin Blocks
  <2> SUFFICES ASSUME d \in Blocks PROVE FALSE
    OBVIOUS
  <2>1. Pow2[order + 1] = 2 * Pow2[order]
    BY <1>0, Pow2Assumption DEF Orders
  <2>2. q \in Nat
    BY <1>2 DEF Frames
  <2>3. m <= page /\ page < m + Pow2[order + 1]
    BY <1>0, <1>6, <2>1, <2>2
  <2>4. b[1] <= page /\ page < b[1] + Pow2[b[2]] /\ d[1] <= page /\ page < d[1] + Pow2[d[2]]
    BY <1>0, <2>3
  <2>5. b = d
    BY <1>0, <1>1, <2>4, SameBlock
  <2>6. QED
    BY <1>0, <2>5 DEF Orders
<1>9. ExclusiveInv'
  BY <1>3, <1>5, <1>8 DEF IInv, ExclusiveInv, Blocks
<1>10. m \in Frames
  BY <1>0, <1>2, <1>6
<1>11. TypeOK'
  <2>1. order + 1 \in 0 .. MAX_ORDER
    BY <1>0, SizesPositive DEF Orders
  <2>2. QED
    BY <1>0, <1>3, <1>10, <2>1 DEF TypeOK, LruHeap, Heap
<1>12. ControlInv' /\ FreshInv' /\ CountIsRefs'
  BY <1>0, <1>3, <1>10 DEF IInv, TypeOK, ControlInv, FreshInv, CountIsRefs
<1>13. QED
  BY <1>3, <1>7, <1>9, <1>11, <1>12 DEF IInv

LEMMA AllocCallStep == ASSUME NEW o \in 0 .. MAX_ORDER PROVE IInv /\ AllocCall(o) => IInv'
<1> SUFFICES ASSUME IInv, AllocCall(o) PROVE IInv'
  OBVIOUS
<1> USE DEF AllocCall, mem, boot
<1>1. FreeBlocks' = FreeBlocks /\ ListInv'
  BY SameLists
<1>2. InFlight' = InFlight /\ Blocks' = Blocks
  BY <1>1 DEF InFlight, Blocks
<1>3. TypeOK' /\ ControlInv' /\ FreshInv' /\ CountIsRefs'
  BY SizesPositive DEF IInv, TypeOK, ControlInv, FreshInv, CountIsRefs, NoRet
<1>4. QED
  BY <1>1, <1>2, <1>3 DEF IInv, ExclusiveInv

LEMMA AllocSkipStep == IInv /\ AllocSkip => IInv'
<1> SUFFICES ASSUME IInv, AllocSkip PROVE IInv'
  OBVIOUS
<1> USE DEF AllocSkip, mem, boot, use
<1>1. FreeBlocks' = FreeBlocks /\ ListInv'
  BY SameLists
<1>2. InFlight' = InFlight /\ Blocks' = Blocks
  BY <1>1 DEF InFlight, Blocks
<1>3. cur + 1 \in 0 .. MAX_ORDER /\ order \in 0 .. MAX_ORDER /\ order <= cur + 1
  BY SizesPositive DEF IInv, TypeOK, ControlInv
<1>4. TypeOK' /\ ControlInv' /\ FreshInv' /\ CountIsRefs'
  BY <1>3 DEF IInv, TypeOK, ControlInv, FreshInv, CountIsRefs
<1>5. QED
  BY <1>1, <1>2, <1>4 DEF IInv, ExclusiveInv

LEMMA AllocFailStep == IInv /\ AllocFail => IInv'
<1> SUFFICES ASSUME IInv, AllocFail PROVE IInv'
  OBVIOUS
<1> USE DEF AllocFail, mem, boot
<1>1. FreeBlocks' = FreeBlocks /\ ListInv'
  BY SameLists
<1>2. InFlight' = InFlight /\ Blocks' = Blocks
  BY <1>1 DEF InFlight, Blocks
<1>3. TypeOK' /\ ControlInv' /\ FreshInv' /\ CountIsRefs'
  BY SizesPositive DEF IInv, TypeOK, ControlInv, FreshInv, CountIsRefs
<1>4. QED
  BY <1>1, <1>2, <1>3 DEF IInv, ExclusiveInv

(* The first node of a free list that is not empty is a free block. *)
LEMMA FirstFree ==
  ASSUME ListInv, pc # "init", NEW o \in Orders, ~ListEmpty(lru, FreeList(o))
  PROVE  lru.next[FreeList(o)] \in Frames /\ PageIsBuddy(lru.next[FreeList(o)], o)
<1>1. RingClosed(lru, Ring(o)) /\ FreeList(o) \in Ring(o)
  BY DEF ListInv, Ring
<1>2. lru.next[FreeList(o)] \in Ring(o) /\ lru.next[FreeList(o)] # FreeList(o)
  BY <1>1 DEF RingClosed, ListEmpty
<1>3. QED
  BY <1>2 DEF Ring, FreeFrames

LEMMA AllocTakeStep == IInv /\ AllocTake => IInv'
<1> SUFFICES ASSUME IInv, AllocTake PROVE IInv'
  OBVIOUS
<1> DEFINE first == lru.next[FreeList(cur)]
           b == <<first, cur>>
<1> USE DEF AllocTake, boot, use
<1>0. /\ TypeOK /\ ListInv /\ pc = "scan" /\ pc' = "expand" /\ cur \in Orders
      /\ cur \in 0 .. MAX_ORDER
  <2>1. cur \in 0 .. MAX_ORDER /\ cur < MAX_ORDER
    BY DEF IInv, TypeOK
  <2>2. cur \in Orders
    BY <2>1, SizesPositive DEF Orders
  <2>3. QED
    BY <2>1, <2>2 DEF IInv
<1>1. first \in Frames /\ PageIsBuddy(first, cur)
  BY <1>0, FirstFree
<1>2. /\ FreeBlocks' = FreeBlocks \ {b} /\ b \in FreeBlocks
      /\ LruHeap' /\ ListInv' /\ nr_free' \in [Orders -> Nat]
      /\ private' \in [Structs -> Orders]
      /\ mapcount' \in [Structs -> {0, NO_MAP, BUDDY}]
      /\ mapcount'[N] = mapcount[N]
  BY <1>0, <1>1, TakeOffListStep
<1>3. InFlight = {} /\ InFlight' = {b} /\ Blocks' = Blocks
  BY <1>0, <1>2 DEF InFlight, Blocks
<1>4. ExclusiveInv'
  BY <1>2, <1>3 DEF IInv, ExclusiveInv
<1>5. TypeOK'
  BY <1>0, <1>1, <1>2 DEF TypeOK, LruHeap, Heap
<1>6. ControlInv' /\ FreshInv' /\ CountIsRefs'
  BY <1>0, <1>1, <1>2 DEF IInv, TypeOK, ControlInv, FreshInv, CountIsRefs
<1>7. QED
  BY <1>2, <1>3, <1>4, <1>5, <1>6 DEF IInv

LEMMA ExpandStepStep == IInv /\ ExpandStep => IInv'
<1> SUFFICES ASSUME IInv, ExpandStep PROVE IInv'
  OBVIOUS
<1> DEFINE o == cur - 1
           half == page + Pow2[o]
           b == <<page, o + 1>>
           x == <<page, o>>
           y == <<half, o>>
<1> USE DEF ExpandStep, boot, use
<1>0. /\ TypeOK /\ ListInv /\ pc = "expand" /\ pc' = "expand"
      /\ page \in Frames /\ page \in Nat
      /\ cur \in Orders /\ o \in Orders /\ o + 1 = cur /\ order <= o
      /\ o \in 0 .. MAX_ORDER
      /\ Pow2[o] \in Nat \ {0} /\ Pow2[o + 1] = 2 * Pow2[o]
      /\ p_idx \in 0 .. N /\ p_idx \in Nat /\ Partition(Blocks, p_idx)
  <2>1. /\ page \in Frames /\ cur \in Orders /\ p_idx \in 0 .. N
        /\ order \in 0 .. MAX_ORDER /\ order < cur
    BY DEF IInv, TypeOK, ControlInv
  <2>2. o \in Orders /\ o + 1 = cur /\ order <= o /\ o \in 0 .. MAX_ORDER
    BY <2>1, SizesPositive DEF Orders
  <2>3. Pow2[o] \in Nat \ {0} /\ Pow2[o + 1] = 2 * Pow2[o]
    BY <2>1, <2>2, SizesPositive, Pow2Assumption DEF Orders
  <2>4. QED
    BY <2>1, <2>2, <2>3, SizesPositive DEF IInv, Frames
<1>1. InFlight = {b} /\ b \in Blocks
  BY <1>0 DEF InFlight, Blocks
<1>2. half \in Frames /\ ~PageBuddy(half)
  <2>1. page + Pow2[o + 1] <= p_idx
    BY <1>0, <1>1 DEF Partition
  <2>2. half \in Frames
    BY <1>0, <2>1, SizesPositive DEF Frames
  <2>3. b[1] <= half /\ half < b[1] + Pow2[b[2]]
    BY <1>0
  <2>4. QED
    BY <1>1, <2>2, <2>3, InFlightUnmarked
<1>3. /\ FreeBlocks' = FreeBlocks \cup {y}
      /\ LruHeap' /\ ListInv' /\ nr_free' \in [Orders -> Nat]
      /\ private' \in [Structs -> Orders]
      /\ mapcount' \in [Structs -> {0, NO_MAP, BUDDY}]
      /\ mapcount'[N] = mapcount[N]
  BY <1>0, <1>2, PutOnListStep
<1>4. b \notin FreeBlocks /\ b \notin held
  BY <1>1 DEF IInv, ExclusiveInv
<1>5. InFlight' = {x} /\ Blocks' = (Blocks \ {b}) \cup {x, y}
  BY <1>0, <1>1, <1>3, <1>4 DEF InFlight, Blocks
<1>6. Partition(Blocks', p_idx')
  <2>1. Partition((Blocks \ {b}) \cup {x, y}, p_idx)
    BY <1>0, <1>1, PartitionSplit
  <2>2. QED
    BY <1>5, <2>1
(* Neither half was a block before: both share frames with b. *)
<1>7. x \notin Blocks /\ y \notin Blocks
  <2>1. half \in Int /\ half < page + Pow2[o + 1] /\ page < page + Pow2[o + 1]
    BY <1>0
  <2>2. ASSUME x \in Blocks PROVE FALSE
    <3>1. x = b
      BY <1>0, <1>1, <2>1, <2>2, SameBlock
    <3>2. QED
      BY <1>0, <3>1
  <2>3. ASSUME y \in Blocks PROVE FALSE
    <3>1. half <= half /\ half < half + Pow2[o] /\ page <= half
      BY <1>0
    <3>2. y = b
      BY <1>0, <1>1, <2>1, <2>3, <3>1, SameBlock
    <3>3. QED
      BY <1>0, <3>2
  <2>4. QED
    BY <2>2, <2>3
<1>8. ExclusiveInv'
  <2>1. x # y
    BY <1>0
  <2>2. QED
    BY <1>3, <1>5, <1>7, <2>1 DEF IInv, ExclusiveInv, Blocks
<1>9. TypeOK'
  BY <1>0, <1>3 DEF TypeOK, LruHeap, Heap
<1>10. ControlInv' /\ FreshInv' /\ CountIsRefs'
  BY <1>0, <1>3 DEF IInv, TypeOK, ControlInv, FreshInv, CountIsRefs
<1>11. QED
  BY <1>3, <1>6, <1>8, <1>9, <1>10 DEF IInv

LEMMA AllocReturnStep == IInv /\ AllocReturn => IInv'
<1> SUFFICES ASSUME IInv, AllocReturn PROVE IInv'
  OBVIOUS
<1> DEFINE b == <<page, order>>
<1> USE DEF AllocReturn, SetPageCount, boot
<1>0. /\ TypeOK /\ pc = "expand" /\ pc' = "idle" /\ page \in Frames /\ page \in Structs
      /\ cur = order /\ order \in Orders /\ 0 \in Orders /\ 0 \in 0 .. MAX_ORDER
      /\ page \in Nat /\ Pow2[order] \in Nat \ {0}
      /\ caller = "idle" /\ p_idx = N
  <2>1. /\ page \in Frames /\ cur \in Orders /\ cur = order
    BY SizesPositive DEF IInv, TypeOK, ControlInv
  <2>2. page \in Structs /\ page \in Nat /\ 0 \in Orders /\ 0 \in 0 .. MAX_ORDER
    BY <2>1, SizesPositive DEF Frames, Structs, Orders
  <2>3. QED
    BY <2>1, <2>2, SizesPositive DEF IInv, TypeOK, ControlInv
<1>1. InFlight = {b} /\ InFlight' = {} /\ b \notin held /\ b \notin FreeBlocks
  BY <1>0 DEF IInv, InFlight, ExclusiveInv
<1>2. ~PageBuddy(page)
  BY <1>0, <1>1, InFlightUnmarked
<1>3. \A f \in Frames, q \in Orders : PageIsBuddy(f, q)' = PageIsBuddy(f, q)
  BY <1>0, <1>2 DEF PageIsBuddy, PageBuddy, TypeOK
<1>4. /\ FreeBlocks' = FreeBlocks
      /\ \A q \in Orders : FreeFrames(q)' = FreeFrames(q) /\ Ring(q)' = Ring(q)
  BY <1>3 DEF FreeBlocks, FreeFrames, Ring
<1>5. ListInv'
  BY <1>0, <1>4 DEF IInv, ListInv
<1>6. Blocks' = Blocks
  BY <1>1, <1>4 DEF Blocks
<1>7. ExclusiveInv'
  BY <1>1, <1>4 DEF IInv, ExclusiveInv
<1>8. CountIsRefs'
  <2>1. count'[page] = 1 /\ refs'[page] = 1
    BY <1>0 DEF TypeOK
  <2>2. ASSUME NEW c \in held PROVE c[1] # page
    <3>1. /\ c \in Blocks /\ b \in Blocks /\ Partition(Blocks, p_idx) /\ p_idx \in 0 .. N
      BY <1>0, <1>1 DEF Blocks, IInv, TypeOK
    <3>2. c[1] = page => c = b
      <4>1. Pow2[c[2]] \in Nat \ {0}
        BY <3>1, BlockTypes
      <4>2. QED
        BY <1>0, <3>1, <4>1, SameBlock
    <3>3. QED
      BY <1>1, <3>2
  <2>3. ASSUME NEW c \in held PROVE count'[c[1]] = refs'[c[1]] /\ refs'[c[1]] > 0
    <3>1. c[1] \in Frames
      BY <1>0 DEF TypeOK
    <3>2. c[1] \in Structs /\ c[1] # page
      BY <2>2, <3>1, SizesPositive DEF Frames, Structs
    <3>3. QED
      BY <1>0, <3>1, <3>2 DEF TypeOK, IInv, CountIsRefs
  <2>4. QED
    BY <1>0, <2>1, <2>3 DEF CountIsRefs
<1>9. TypeOK'
  <2>1. order \in 0 .. MAX_ORDER
    BY <1>0 DEF TypeOK
  <2>2. QED
    BY <1>0, <2>1 DEF TypeOK
<1>10. ControlInv'
  BY <1>0 DEF IInv, ControlInv
<1>11. FreshInv'
  BY <1>0, SizesPositive DEF FreshInv, Frames
<1>12. QED
  BY <1>0, <1>5, <1>6, <1>7, <1>8, <1>9, <1>10, <1>11 DEF IInv

(* Two blocks in use do not start at the same frame. *)
LEMMA HeldStarts ==
  ASSUME IInv, NEW b \in held, NEW c \in held, b[1] = c[1]
  PROVE  b = c
<1>1. b \in Blocks /\ c \in Blocks /\ Partition(Blocks, p_idx) /\ p_idx \in 0 .. N
  BY DEF Blocks, IInv, TypeOK
<1>2. /\ b[1] \in Nat /\ Pow2[b[2]] \in Nat \ {0}
      /\ c[1] \in Nat /\ Pow2[c[2]] \in Nat \ {0}
  BY <1>1, BlockTypes
<1>3. QED
  BY <1>1, <1>2, SameBlock

LEMMA HeldTypes ==
  ASSUME IInv, NEW b \in held
  PROVE  /\ b = <<b[1], b[2]>> /\ b[1] \in Frames /\ b[1] \in Structs /\ b[2] \in Orders
         /\ b[2] \in 0 .. MAX_ORDER
         /\ count[b[1]] = refs[b[1]] /\ refs[b[1]] \in Nat /\ refs[b[1]] > 0
<1>1. b = <<b[1], b[2]>> /\ b[1] \in Frames /\ b[2] \in Orders
  BY DEF IInv, TypeOK
<1>2. b[1] \in Structs /\ b[2] \in 0 .. MAX_ORDER
  BY <1>1, SizesPositive DEF Frames, Structs, Orders
<1>3. QED
  BY <1>1, <1>2 DEF IInv, TypeOK, CountIsRefs

LEMMA GetPageStep == ASSUME NEW b \in held PROVE IInv /\ GetPage(b) => IInv'
<1> SUFFICES ASSUME IInv, GetPage(b) PROVE IInv'
  OBVIOUS
<1> USE DEF GetPage, boot
<1>0. p_idx = N /\ TypeOK
  BY DEF IInv, ControlInv, TypeOK
<1>1. FreeBlocks' = FreeBlocks /\ ListInv'
  BY SameLists
<1>2. InFlight' = InFlight /\ Blocks' = Blocks
  BY <1>1 DEF InFlight, Blocks
<1>3. CountIsRefs'
  <2> SUFFICES ASSUME NEW c \in held PROVE count'[c[1]] = refs'[c[1]] /\ refs'[c[1]] > 0
    BY DEF CountIsRefs
  <2>1. /\ c[1] \in Frames /\ c[1] \in Structs /\ b[1] \in Frames /\ b[1] \in Structs
        /\ count[c[1]] = refs[c[1]] /\ refs[c[1]] \in Nat /\ refs[c[1]] > 0
    BY HeldTypes
  <2>2. QED
    BY <1>0, <2>1 DEF TypeOK
<1>4. TypeOK'
  <2>1. count' \in [Structs -> Int] /\ refs' \in [Frames -> Nat]
    BY <1>0, HeldTypes DEF TypeOK
  <2>2. QED
    BY <1>0, <2>1, SizesPositive DEF TypeOK, NoRet
<1>5. ControlInv' /\ FreshInv'
  BY <1>0, SizesPositive DEF IInv, ControlInv, FreshInv, Frames
<1>6. QED
  BY <1>0, <1>1, <1>2, <1>3, <1>4, <1>5 DEF IInv, ExclusiveInv

LEMMA FreeCallStep == ASSUME NEW b \in held PROVE IInv /\ FreeCall(b) => IInv'
<1> SUFFICES ASSUME IInv, FreeCall(b) PROVE IInv'
  OBVIOUS
<1> USE DEF FreeCall, FreePages, LastRef, boot
<1>0. p_idx = N /\ TypeOK /\ pc = "idle" /\ caller = "idle"
  BY DEF IInv, ControlInv, TypeOK
<1>1. /\ b = <<b[1], b[2]>> /\ b[1] \in Frames /\ b[1] \in Structs /\ b[2] \in Orders
      /\ b[2] \in 0 .. MAX_ORDER
      /\ count[b[1]] = refs[b[1]] /\ refs[b[1]] \in Nat /\ refs[b[1]] > 0
  BY HeldTypes
<1>2. FreeBlocks' = FreeBlocks /\ ListInv'
  BY <1>0, SameLists
<1>3. InFlight = {} /\ b \notin FreeBlocks
  BY <1>0 DEF InFlight, IInv, ExclusiveInv
(* Only the last reference takes the block out of the client's hands. *)
<1>4. CASE refs[b[1]] = 1
  <2>1. /\ pc' = "merge" /\ page' = b[1] /\ order' = b[2] /\ held' = held \ {b}
    BY <1>1, <1>4
  <2>2. InFlight' = {b} /\ Blocks' = Blocks
    BY <1>1, <1>2, <1>3, <2>1 DEF InFlight, Blocks
  <2>3. ExclusiveInv'
    BY <1>2, <1>3, <2>1, <2>2 DEF IInv, ExclusiveInv
  <2>4. ControlInv'
    BY <1>0, <1>1, <2>1 DEF IInv, ControlInv
  <2>5. CountIsRefs'
    <3> SUFFICES ASSUME NEW c \in held, c # b
                 PROVE  count'[c[1]] = refs'[c[1]] /\ refs'[c[1]] > 0
      BY <2>1 DEF CountIsRefs
    <3>1. c[1] # b[1] /\ c[1] \in Frames /\ c[1] \in Structs
      BY HeldStarts, HeldTypes
    <3>2. count'[c[1]] = count[c[1]] /\ refs'[c[1]] = refs[c[1]]
      BY <1>0, <3>1 DEF TypeOK
    <3>3. QED
      BY <3>2, HeldTypes
  <2>6. TypeOK'
    <3>1. count' \in [Structs -> Int] /\ refs' \in [Frames -> Nat]
      BY <1>0, <1>1 DEF TypeOK
    <3>2. QED
      BY <1>0, <1>1, <2>1, <3>1, SizesPositive DEF TypeOK, NoRet
  <2>7. FreshInv'
    BY <1>0, SizesPositive DEF FreshInv, Frames
  <2>8. QED
    BY <1>0, <1>2, <2>2, <2>3, <2>4, <2>5, <2>6, <2>7 DEF IInv
<1>5. CASE refs[b[1]] # 1
  <2>1. pc' = pc /\ page' = page /\ order' = order /\ held' = held
    BY <1>1, <1>5
  <2>2. InFlight' = InFlight /\ Blocks' = Blocks
    BY <1>2, <2>1 DEF InFlight, Blocks
  <2>3. CountIsRefs'
    <3> SUFFICES ASSUME NEW c \in held PROVE count'[c[1]] = refs'[c[1]] /\ refs'[c[1]] > 0
      BY <2>1 DEF CountIsRefs
    <3>1. /\ c[1] \in Frames /\ c[1] \in Structs
          /\ count[c[1]] = refs[c[1]] /\ refs[c[1]] \in Nat /\ refs[c[1]] > 0
      BY HeldTypes
    <3>2. CASE c[1] = b[1]
      BY <1>0, <1>1, <1>5, <3>1, <3>2 DEF TypeOK
    <3>3. CASE c[1] # b[1]
      BY <1>0, <1>1, <3>1, <3>3 DEF TypeOK
    <3>4. QED
      BY <3>2, <3>3
  <2>4. TypeOK'
    <3>1. count' \in [Structs -> Int] /\ refs' \in [Frames -> Nat]
      BY <1>0, <1>1 DEF TypeOK
    <3>2. QED
      BY <1>0, <2>1, <3>1, SizesPositive DEF TypeOK, NoRet
  <2>5. ControlInv' /\ FreshInv'
    BY <1>0, <2>1, SizesPositive DEF IInv, ControlInv, FreshInv, Frames
  <2>6. QED
    BY <1>0, <1>2, <2>1, <2>2, <2>3, <2>4, <2>5 DEF IInv, ExclusiveInv
<1>6. QED
  BY <1>4, <1>5

-----------------------------------------------------------------------------
(* The inductive invariant holds in every reachable state, for every       *)
(* number of frames and every MAX_ORDER.                                   *)
THEOREM Safety == Spec => []IInv
<1>1. IInv /\ [Next]_vars => IInv'
  <2> SUFFICES ASSUME IInv, [Next]_vars PROVE IInv'
    OBVIOUS
  <2>1. CASE UNCHANGED vars
    <3>1. UNCHANGED <<lru, mapcount, private, count, nr_free, pc, page, order, cur,
                      p_idx, p_order, caller, held, refs, ret>>
      BY <2>1 DEF vars, mem, boot, use
    <3>2. FreeBlocks' = FreeBlocks /\ InFlight' = InFlight /\ Blocks' = Blocks
      BY <3>1 DEF FreeBlocks, InFlight, Blocks, PageIsBuddy, PageBuddy
    <3>3. \A o : FreeFrames(o)' = FreeFrames(o) /\ Ring(o)' = Ring(o)
      BY <3>1 DEF FreeFrames, Ring, PageIsBuddy, PageBuddy
    <3>4. TypeOK' /\ ControlInv' /\ FreshInv' /\ CountIsRefs'
      BY <3>1 DEF IInv, TypeOK, ControlInv, FreshInv, CountIsRefs
    <3>5. ListInv' /\ ExclusiveInv' /\ Partition(Blocks, p_idx)'
      BY <3>1, <3>2, <3>3 DEF IInv, ListInv, ExclusiveInv
    <3>6. QED
      BY <3>4, <3>5 DEF IInv
  <2>2. CASE Next
    BY <2>2, InitPagesStep, BootReleaseStep, BootShrinkStep, BootDoneStep,
       MergeStepStep, FreeInsertStep, AllocCallStep, AllocSkipStep, AllocTakeStep,
       AllocFailStep, ExpandStepStep, AllocReturnStep, GetPageStep, FreeCallStep
       DEF Next
  <2>3. QED
    BY <2>1, <2>2
<1>2. QED
  BY InitIInv, <1>1, PTL DEF Spec

(* Every variable keeps the type of the C object it stands for. *)
THEOREM Types == Spec => []TypeOK
<1>1. IInv => TypeOK
  BY DEF IInv
<1>2. QED
  BY <1>1, Safety, PTL

(* No frame is ever in two hands. *)
THEOREM NoDoubleUse == Spec => []BlocksDisjoint
<1>1. IInv => BlocksDisjoint
  <2> SUFFICES ASSUME IInv PROVE BlocksDisjoint
    OBVIOUS
  <2>1. Partition(Blocks, p_idx) /\ p_idx \in 0 .. N
    BY DEF IInv, TypeOK
  <2>2. ASSUME NEW b \in Blocks, NEW c \in Blocks, NEW f \in Extent(b) \cap Extent(c)
        PROVE  b = c
    <3>1. /\ b[1] \in Nat /\ Pow2[b[2]] \in Nat /\ c[1] \in Nat /\ Pow2[c[2]] \in Nat
      BY <2>1, BlockTypes
    <3>2. /\ f \in Int /\ b[1] <= f /\ f < b[1] + Pow2[b[2]]
          /\ c[1] <= f /\ f < c[1] + Pow2[c[2]]
      BY <3>1 DEF Extent
    <3>3. QED
      BY <2>1, <3>2, SameBlock
  <2>3. \A b, c \in Blocks : b # c => Extent(b) \cap Extent(c) = {}
    BY <2>2
  <2>4. QED
    BY <2>3 DEF BlocksDisjoint, IInv, ExclusiveInv
<1>2. QED
  BY <1>1, Safety, PTL

(* No frame is ever lost. *)
THEOREM NoLeak == Spec => []NoFrameLost
<1>1. IInv => NoFrameLost
  <2> SUFFICES ASSUME IInv, NEW f \in Frames, ~(f >= p_idx)
               PROVE  \E b \in Blocks : f \in Extent(b)
    BY DEF NoFrameLost
  <2>1. Partition(Blocks, p_idx) /\ p_idx \in 0 .. N
    BY DEF IInv, TypeOK
  <2>2. f \in 0 .. p_idx - 1
    BY <2>1, SizesPositive DEF Frames
  <2>3. PICK b \in Blocks : b[1] <= f /\ f < b[1] + Pow2[b[2]]
    BY <2>1, <2>2 DEF Partition
  <2>4. b[1] \in Nat /\ Pow2[b[2]] \in Nat
    BY <2>1, BlockTypes
  <2>5. f \in Extent(b)
    BY <2>2, <2>3, <2>4 DEF Extent
  <2>6. QED
    BY <2>5
<1>2. QED
  BY <1>1, Safety, PTL

(* _count is the number of references clients hold. *)
THEOREM CountsExact == Spec => []CountIsRefs
<1>1. IInv => CountIsRefs
  BY DEF IInv
<1>2. QED
  BY <1>1, Safety, PTL

(* The merge loop never reads past the entry at N. *)
THEOREM ProbesInBounds == Spec => []ProbeInBounds
<1>1. IInv => ProbeInBounds
  <2> SUFFICES ASSUME IInv, pc = "merge", order < MAX_ORDER - 1
               PROVE  BuddyOf(page, order) \in Structs /\ ~PageBuddy(N)
    BY DEF ProbeInBounds
  <2>1. /\ page \in Nat /\ order \in Orders /\ Pow2[order] \in Nat \ {0}
        /\ p_idx \in 0 .. N /\ Partition(Blocks, p_idx)
    BY SizesPositive DEF IInv, TypeOK, ControlInv, Frames
  <2>2. page + Pow2[order] <= p_idx
    <3>1. <<page, order>> \in Blocks
      BY DEF Blocks, InFlight
    <3>2. QED
      BY <2>1, <3>1 DEF Partition
  <2>3. BuddyOf(page, order) \in Structs
    BY <2>1, <2>2, BuddyArith, SizesPositive DEF Structs
  <2>4. QED
    BY <2>3 DEF IInv, ControlInv, PageBuddy, BUDDY
<1>2. QED
  BY <1>1, Safety, PTL

-----------------------------------------------------------------------------
(* The second layer: alignment, merged buddies, skipped lists, connected   *)
(* rings.  A step either takes blocks out of the free ones or adds one     *)
(* whose buddy is not free.                                                *)
LEMMA CoalescedFewer ==
  ASSUME NEW B, Coalesced(B), NEW C, C \subseteq B
  PROVE  Coalesced(C)
BY DEF Coalesced

LEMMA CoalescedMore ==
  ASSUME NEW B, B \subseteq Frames \X Orders, Aligned(B), Coalesced(B),
         NEW p \in Nat, NEW o \in Orders, p % Pow2[o] = 0,
         o < MAX_ORDER - 1 => <<BuddyOf(p, o), o>> \notin B
  PROVE  Coalesced(B \cup {<<p, o>>})
<1> DEFINE n == <<p, o>>
<1>1. SUFFICES ASSUME NEW b \in B \cup {n}, NEW c \in B \cup {n},
                      b[2] < MAX_ORDER - 1, c = <<BuddyOf(b[1], b[2]), b[2]>>
               PROVE  FALSE
  BY DEF Coalesced
<1>2. CASE b \in B /\ c \in B
  BY <1>1, <1>2 DEF Coalesced
<1>3. CASE b = n /\ c \in B
  BY <1>1, <1>3
<1>4. CASE b \in B /\ c = n
  <2>1. b = <<b[1], b[2]>> /\ b[1] \in Nat /\ b[2] = o /\ b[1] % Pow2[o] = 0
    BY <1>1, <1>4 DEF Aligned, Frames
  <2>2. BuddyOf(p, o) = b[1]
    BY <1>1, <1>4, <2>1, BuddyBack
  <2>3. QED
    BY <1>1, <1>4, <2>1, <2>2
<1>5. CASE b = n /\ c = n
  <2>1. BuddyOf(p, o) # p
    BY BuddyArith, SizesPositive
  <2>2. QED
    BY <1>1, <1>5, <2>1
<1>6. QED
  BY <1>1, <1>2, <1>3, <1>4, <1>5

(* The halves of an aligned block are aligned, and are each other's buddy. *)
LEMMA Halves ==
  ASSUME NEW o \in Orders, NEW p \in Nat, p % Pow2[o + 1] = 0
  PROVE  /\ p % Pow2[o] = 0 /\ (p + Pow2[o]) % Pow2[o] = 0
         /\ BuddyOf(p + Pow2[o], o) = p
<1> DEFINE P == Pow2[o]
<1>1. P \in Nat \ {0} /\ Pow2[o + 1] = 2 * P /\ o \in Nat /\ o + 1 \in Nat /\ o + 1 <= MAX_ORDER
  BY SizeAssumption, Pow2Assumption DEF Orders
<1>2. p % P = 0
  BY <1>1, AlignedSmaller
<1>3. (p + P) % P = 0
  BY <1>1, <1>2, AlignedSum
<1>4. PICK k \in Nat : p = k * (2 * P)
  <2>1. 2 * P \in Nat \ {0}
    BY <1>1
  <2>2. QED
    BY <1>1, <2>1, Multiple
<1>5. (2 * k) + 1 \in Nat /\ ((2 * k) + 1) % 2 = 1
  OBVIOUS
<1>6. p + P = ((2 * k) + 1) * P
  <2> HIDE DEF P
  <2>1. ((2 * k) + 1) * P = ((2 * k) * P) + P
    BY <1>1
  <2>2. (2 * k) * P = k * (2 * P)
    BY <1>1
  <2>3. QED
    BY <1>4, <2>1, <2>2
<1>7. BuddyOf(((2 * k) + 1) * P, o) = (((2 * k) + 1) * P) - P
  BY <1>5, BuddyAligned
<1> HIDE DEF P
<1>8. (p + P) - P = p
  BY <1>1
<1>9. BuddyOf(p + P, o) = p
  BY <1>6, <1>7, <1>8
<1>10. QED
  BY <1>2, <1>3, <1>9 DEF P

(* Steps that move no mark and no link. *)
LEMMA ShapeSame ==
  ASSUME IInv, ShapeInv, pc # "init", UNCHANGED <<lru, mapcount, private, nr_free>>
  PROVE  Coalesced(FreeBlocks)' /\ ConnectedInv'
<1>1. FreeBlocks' = FreeBlocks /\ ConnectedInv'
  BY SameLists DEF ShapeInv
<1>2. QED
  BY <1>1 DEF ShapeInv, Coalesced

LEMMA InitShape == Init => ShapeInv
<1> SUFFICES ASSUME Init PROVE ShapeInv
  OBVIOUS
<1> USE DEF Init
<1>1. FreeBlocks = {} /\ Blocks = {}
  <2>1. \A p \in Frames, o \in Orders : ~PageIsBuddy(p, o)
    BY SizesPositive DEF PageIsBuddy, PageBuddy, BUDDY, Frames, Structs
  <2>2. QED
    BY <2>1 DEF FreeBlocks, InFlight, Blocks
<1>2. p_idx % Pow2[p_order] = 0
  <2>1. Pow2[p_order] \in Nat \ {0}
    BY SizesPositive DEF Orders
  <2>2. QED
    BY <2>1
<1>3. QED
  BY <1>1, <1>2 DEF ShapeInv, AlignedInv, Aligned, Coalesced, ScanInv, ConnectedInv

LEMMA InitPagesShape == IInv /\ ShapeInv /\ InitPages => ShapeInv'
<1> SUFFICES ASSUME IInv, ShapeInv, InitPages PROVE ShapeInv'
  OBVIOUS
<1> USE DEF InitPages, boot, use
<1>0. TypeOK /\ held = {} /\ caller = "boot" /\ p_idx = 0 /\ p_order \in Orders
  BY DEF IInv, ControlInv, TypeOK
<1>1. \A p, o : p \in Frames => ~PageIsBuddy(p, o)'
  BY <1>0, SizesPositive DEF PageIsBuddy, PageBuddy, NO_MAP, BUDDY, Frames, Structs, TypeOK
<1>2. FreeBlocks' = {} /\ Blocks' = {}
  BY <1>0, <1>1 DEF FreeBlocks, InFlight, Blocks
<1>3. \A o \in Orders : Ring(o)' = {FreeList(o)}
  BY <1>1 DEF FreeFrames, Ring
<1>4. ConnectedInv'
  BY <1>3 DEF ConnectedInv, RingConnected, FreeList
<1>5. QED
  BY <1>2, <1>4 DEF ShapeInv, AlignedInv, Aligned, Coalesced, ScanInv

LEMMA BootReleaseShape == IInv /\ ShapeInv /\ BootRelease => ShapeInv'
<1> SUFFICES ASSUME IInv, ShapeInv, BootRelease PROVE ShapeInv'
  OBVIOUS
<1> USE DEF BootRelease, FreePages, LastRef, use
<1>0. /\ TypeOK /\ pc = "boot" /\ caller = "boot"
      /\ p_idx \in Nat /\ p_order \in Orders /\ Pow2[p_order] \in Nat \ {0}
  BY SizesPositive DEF IInv, TypeOK, ControlInv
<1>1. p_idx % Pow2[p_order] = 0
  BY <1>0 DEF ShapeInv, AlignedInv
<1>2. (p_idx + Pow2[p_order]) % Pow2[p_order] = 0
  BY <1>0, <1>1, AlignedSum
<1>3. Coalesced(FreeBlocks)' /\ ConnectedInv' /\ FreeBlocks' = FreeBlocks
  BY <1>0, ShapeSame, SameLists
<1>4. count[p_idx] = 1
  BY <1>0, SizesPositive DEF IInv, FreshInv, Frames
<1>5. /\ Blocks = FreeBlocks \cup held /\ pc' = "merge"
      /\ Blocks' = FreeBlocks \cup held \cup {<<p_idx, p_order>>}
  BY <1>0, <1>3, <1>4 DEF Blocks, InFlight
<1>6. Aligned(Blocks')
  BY <1>1, <1>5 DEF ShapeInv, AlignedInv, Aligned
<1>7. AlignedInv'
  BY <1>2, <1>6 DEF AlignedInv, Aligned
<1>8. QED
  BY <1>3, <1>5, <1>7 DEF ShapeInv, ScanInv

LEMMA BootShrinkShape == IInv /\ ShapeInv /\ BootShrink => ShapeInv'
<1> SUFFICES ASSUME IInv, ShapeInv, BootShrink PROVE ShapeInv'
  OBVIOUS
<1> USE DEF BootShrink, mem, use
<1>0. /\ p_order \in Orders /\ p_order - 1 \in Orders /\ p_idx \in Nat /\ p_order \in Nat
      /\ p_order - 1 \in Nat /\ p_order <= MAX_ORDER /\ pc = "boot"
  <2>1. p_order \in Orders /\ p_order' \in Orders /\ p_idx \in Nat
    BY BootShrinkStep, SizesPositive DEF IInv, TypeOK
  <2>2. QED
    BY <2>1, SizesPositive DEF Orders
<1>1. caller = "boot" => p_idx % Pow2[p_order - 1] = 0
  BY <1>0, AlignedSmaller DEF ShapeInv, AlignedInv
<1>2. Coalesced(FreeBlocks)' /\ ConnectedInv' /\ FreeBlocks' = FreeBlocks
  BY <1>0, ShapeSame, SameLists
<1>3. Blocks' = Blocks
  BY <1>2 DEF Blocks, InFlight
<1>4. AlignedInv'
  BY <1>1, <1>3 DEF ShapeInv, AlignedInv, Aligned
<1>5. QED
  BY <1>0, <1>2, <1>4 DEF ShapeInv, ScanInv

LEMMA BootDoneShape == IInv /\ ShapeInv /\ BootDone => ShapeInv'
<1> SUFFICES ASSUME IInv, ShapeInv, BootDone PROVE ShapeInv'
  OBVIOUS
<1> USE DEF BootDone, mem, use
<1>1. Coalesced(FreeBlocks)' /\ ConnectedInv' /\ FreeBlocks' = FreeBlocks
  BY ShapeSame, SameLists
<1>2. Blocks' = Blocks
  BY <1>1 DEF Blocks, InFlight
<1>3. AlignedInv'
  BY <1>2 DEF ShapeInv, AlignedInv, Aligned
<1>4. QED
  BY <1>1, <1>3 DEF ShapeInv, ScanInv

LEMMA MergeShape == IInv /\ ShapeInv /\ MergeStep => ShapeInv'
<1> SUFFICES ASSUME IInv, ShapeInv, MergeStep PROVE ShapeInv'
  OBVIOUS
<1> DEFINE q == BuddyOf(page, order)
           d == <<ParentOf(page, order), order + 1>>
<1> USE DEF MergeStep, boot, use
<1>0. /\ TypeOK /\ ListInv /\ pc = "merge" /\ pc' = "merge"
      /\ order \in Orders /\ page \in Nat /\ <<page, order>> \in Blocks
  BY DEF IInv, TypeOK, ControlInv, Frames, Blocks, InFlight
<1>1. /\ FreeBlocks' = FreeBlocks \ {<<q, order>>}
      /\ ConnectedInv'
  BY <1>0, ProbeFrame, TakeOffListStep DEF ShapeInv
<1>2. Blocks' \subseteq Blocks \cup {d}
  BY <1>0, <1>1 DEF Blocks, InFlight
<1>3. d[1] % Pow2[d[2]] = 0
  <2>1. page % Pow2[order] = 0
    BY <1>0 DEF ShapeInv, AlignedInv, Aligned
  <2>2. QED
    BY <1>0, <2>1, BuddyBack
<1>4. AlignedInv'
  BY <1>2, <1>3 DEF ShapeInv, AlignedInv, Aligned
<1>5. Coalesced(FreeBlocks')
  BY <1>1, CoalescedFewer DEF ShapeInv
<1>6. Coalesced(FreeBlocks)'
  BY <1>5 DEF Coalesced
<1>7. QED
  BY <1>0, <1>1, <1>4, <1>6 DEF ShapeInv, ScanInv

LEMMA FreeInsertShape == IInv /\ ShapeInv /\ FreeInsert => ShapeInv'
<1> SUFFICES ASSUME IInv, ShapeInv, FreeInsert PROVE ShapeInv'
  OBVIOUS
<1> DEFINE b == <<page, order>>
<1> USE DEF FreeInsert, boot, use
<1>0. /\ TypeOK /\ ListInv /\ pc = "merge" /\ page \in Frames /\ order \in Orders
      /\ page \in Nat /\ pc' \in {"boot", "idle"}
  <2>1. TypeOK /\ ListInv /\ pc = "merge" /\ page \in Frames /\ order \in Orders
    BY DEF IInv, ControlInv
  <2>2. QED
    BY <2>1 DEF TypeOK, Frames
<1>1. InFlight = {b} /\ InFlight' = {}
  BY <1>0 DEF InFlight
<1>2. ~PageBuddy(page)
  <2>1. Pow2[order] \in Nat \ {0}
    BY <1>0, SizesPositive
  <2>2. QED
    BY <1>0, <1>1, <2>1, InFlightUnmarked
<1>3. FreeBlocks' = FreeBlocks \cup {b} /\ ConnectedInv'
  BY <1>0, <1>2, PutOnListStep DEF ShapeInv
<1>4. Blocks' = Blocks
  BY <1>1, <1>3 DEF Blocks
<1>5. AlignedInv'
  BY <1>4 DEF ShapeInv, AlignedInv, Aligned
<1>6. Coalesced(FreeBlocks)'
  <2>1. /\ page % Pow2[order] = 0 /\ Aligned(FreeBlocks)
        /\ FreeBlocks \subseteq Frames \X Orders
    <3>1. b \in Blocks /\ FreeBlocks \subseteq Blocks
      BY <1>1 DEF Blocks
    <3>2. page % Pow2[order] = 0 /\ Aligned(FreeBlocks)
      BY <3>1 DEF ShapeInv, AlignedInv, Aligned
    <3>3. QED
      BY <3>2 DEF FreeBlocks
  <2>2. order < MAX_ORDER - 1 => <<BuddyOf(page, order), order>> \notin FreeBlocks
    BY DEF CanMerge, FreeBlocks
  <2>3. Coalesced(FreeBlocks')
    BY <1>0, <1>3, <2>1, <2>2, CoalescedMore DEF ShapeInv
  <2>4. QED
    BY <2>3 DEF Coalesced
<1>7. QED
  BY <1>0, <1>3, <1>5, <1>6 DEF ShapeInv, ScanInv

LEMMA AllocCallShape ==
  ASSUME NEW o \in 0 .. MAX_ORDER
  PROVE  IInv /\ ShapeInv /\ AllocCall(o) => ShapeInv'
<1> SUFFICES ASSUME IInv, ShapeInv, AllocCall(o) PROVE ShapeInv'
  OBVIOUS
<1> USE DEF AllocCall, mem, boot
<1>1. Coalesced(FreeBlocks)' /\ ConnectedInv' /\ FreeBlocks' = FreeBlocks
  BY ShapeSame, SameLists
<1>2. Blocks' = Blocks
  BY <1>1 DEF Blocks, InFlight
<1>3. AlignedInv'
  BY <1>2 DEF ShapeInv, AlignedInv, Aligned
<1>4. ScanInv'
  BY SizesPositive DEF ScanInv, Orders
<1>5. QED
  BY <1>1, <1>3, <1>4 DEF ShapeInv

(* A connected ring whose head points to itself holds nothing else. *)
LEMMA EmptyList ==
  ASSUME ListInv, ConnectedInv, pc # "init",
         NEW o \in Orders, ListEmpty(lru, FreeList(o))
  PROVE  FreeFrames(o) = {}
<1> DEFINE S == FreeFrames(o)
           head == FreeList(o)
<1>1. RingClosed(lru, Ring(o)) /\ RingConnected(lru, Ring(o), head)
  BY DEF ListInv, ConnectedInv
<1>2. head \notin S /\ head \in Ring(o) /\ S \subseteq Ring(o) /\ Ring(o) \subseteq S \cup {head}
  BY Lists DEF Ring
<1>3. lru.next[head] = head
  BY DEF ListEmpty
<1> HIDE DEF S, head
<1>4. \A x \in S : lru.next[x] \in S
  BY <1>1, <1>2, <1>3 DEF RingClosed
<1>5. S = {}
  BY <1>1, <1>2, <1>4 DEF RingConnected
<1>6. QED
  BY <1>5 DEF S

LEMMA AllocSkipShape == IInv /\ ShapeInv /\ AllocSkip => ShapeInv'
<1> SUFFICES ASSUME IInv, ShapeInv, AllocSkip PROVE ShapeInv'
  OBVIOUS
<1> USE DEF AllocSkip, mem, boot, use
<1>1. Coalesced(FreeBlocks)' /\ ConnectedInv' /\ FreeBlocks' = FreeBlocks
  BY ShapeSame, SameLists
<1>2. Blocks' = Blocks
  BY <1>1 DEF Blocks, InFlight
<1>3. AlignedInv'
  BY <1>2 DEF ShapeInv, AlignedInv, Aligned
<1>4. cur \in Orders /\ cur \in Nat
  BY SizesPositive DEF IInv, TypeOK, Orders
<1>5. FreeFrames(cur) = {}
  BY <1>4, EmptyList DEF IInv, ShapeInv
<1>6. \A q \in Orders : FreeFrames(q)' = FreeFrames(q)
  BY DEF FreeFrames, PageIsBuddy, PageBuddy
<1>7. ScanInv'
  <2> SUFFICES ASSUME NEW q \in Orders, order <= q, q < cur + 1
               PROVE  FreeFrames(q)' = {}
    BY DEF ScanInv
  <2>1. q < cur \/ q = cur
    BY <1>4, SizesPositive
  <2>2. QED
    BY <1>5, <1>6, <2>1 DEF ShapeInv, ScanInv
<1>8. QED
  BY <1>1, <1>3, <1>7 DEF ShapeInv

LEMMA AllocFailShape == IInv /\ ShapeInv /\ AllocFail => ShapeInv'
<1> SUFFICES ASSUME IInv, ShapeInv, AllocFail PROVE ShapeInv'
  OBVIOUS
<1> USE DEF AllocFail, mem, boot
<1>1. Coalesced(FreeBlocks)' /\ ConnectedInv' /\ FreeBlocks' = FreeBlocks
  BY ShapeSame, SameLists
<1>2. Blocks' = Blocks
  BY <1>1 DEF Blocks, InFlight
<1>3. AlignedInv'
  BY <1>2 DEF ShapeInv, AlignedInv, Aligned
<1>4. QED
  BY <1>1, <1>3 DEF ShapeInv, ScanInv

LEMMA AllocTakeShape == IInv /\ ShapeInv /\ AllocTake => ShapeInv'
<1> SUFFICES ASSUME IInv, ShapeInv, AllocTake PROVE ShapeInv'
  OBVIOUS
<1> DEFINE first == lru.next[FreeList(cur)]
<1> USE DEF AllocTake, boot, use
<1>0. TypeOK /\ ListInv /\ pc = "scan" /\ pc' = "expand" /\ cur \in Orders
  <2>1. cur \in Orders
    BY SizesPositive DEF IInv, TypeOK, Orders
  <2>2. QED
    BY <2>1 DEF IInv
<1>1. first \in Frames /\ PageIsBuddy(first, cur)
  BY <1>0, FirstFree
<1>2. /\ FreeBlocks' = FreeBlocks \ {<<first, cur>>} /\ <<first, cur>> \in FreeBlocks
      /\ ConnectedInv'
  BY <1>0, <1>1, TakeOffListStep DEF ShapeInv
<1>3. Blocks' = Blocks
  BY <1>0, <1>2 DEF Blocks, InFlight
<1>4. AlignedInv'
  BY <1>3 DEF ShapeInv, AlignedInv, Aligned
<1>5. Coalesced(FreeBlocks)'
  <2>1. Coalesced(FreeBlocks')
    BY <1>2, CoalescedFewer DEF ShapeInv
  <2>2. QED
    BY <2>1 DEF Coalesced
<1>6. QED
  BY <1>0, <1>2, <1>4, <1>5 DEF ShapeInv, ScanInv

LEMMA ExpandShape == IInv /\ ShapeInv /\ ExpandStep => ShapeInv'
<1> SUFFICES ASSUME IInv, ShapeInv, ExpandStep PROVE ShapeInv'
  OBVIOUS
<1> DEFINE o == cur - 1
           half == page + Pow2[o]
<1> USE DEF ExpandStep, boot, use
<1>0. /\ TypeOK /\ ListInv /\ pc = "expand" /\ pc' = "expand"
      /\ page \in Nat /\ page \in Frames /\ cur \in Orders /\ o \in Orders /\ o + 1 = cur
      /\ Pow2[o] \in Nat \ {0} /\ Pow2[o + 1] = 2 * Pow2[o]
      /\ <<page, cur>> \in InFlight /\ <<page, cur>> \in Blocks
  <2>1. /\ TypeOK /\ ListInv /\ page \in Frames /\ cur \in Orders
        /\ order \in 0 .. MAX_ORDER /\ order < cur
    BY DEF IInv, TypeOK, ControlInv
  <2>2. o \in Orders /\ o + 1 = cur /\ page \in Nat
    BY <2>1, SizesPositive DEF Orders, Frames
  <2>3. Pow2[o] \in Nat \ {0} /\ Pow2[o + 1] = 2 * Pow2[o]
    BY <2>2, SizesPositive, Pow2Assumption DEF Orders
  <2>4. <<page, cur>> \in InFlight /\ <<page, cur>> \in Blocks
    BY DEF InFlight, Blocks
  <2>5. QED
    BY <2>1, <2>2, <2>3, <2>4
<1>1. /\ page % Pow2[o] = 0 /\ half % Pow2[o] = 0 /\ BuddyOf(half, o) = page
  <2>1. page % Pow2[o + 1] = 0
    BY <1>0 DEF ShapeInv, AlignedInv, Aligned
  <2>2. QED
    BY <1>0, <2>1, Halves
<1>2. half \in Frames /\ half \in Nat /\ ~PageBuddy(half) /\ ~PageBuddy(page)
  <2>1. page + Pow2[o + 1] <= p_idx /\ p_idx \in 0 .. N
    BY <1>0 DEF IInv, TypeOK, Partition
  <2>2. half \in Frames /\ half \in Nat
    BY <1>0, <2>1, SizesPositive DEF Frames
  <2>3. /\ page <= half /\ half < page + Pow2[cur]
        /\ page <= page /\ page < page + Pow2[cur]
    BY <1>0
  <2>4. QED
    BY <1>0, <2>2, <2>3, InFlightUnmarked
<1>3. FreeBlocks' = FreeBlocks \cup {<<half, o>>} /\ ConnectedInv'
  BY <1>0, <1>2, PutOnListStep DEF ShapeInv
<1>4. Blocks' \subseteq Blocks \cup {<<page, o>>, <<half, o>>}
  BY <1>0, <1>3 DEF Blocks, InFlight
<1>5. AlignedInv'
  BY <1>1, <1>4 DEF ShapeInv, AlignedInv, Aligned
<1>6. Coalesced(FreeBlocks)'
  <2>1. Aligned(FreeBlocks) /\ FreeBlocks \subseteq Frames \X Orders
    <3>1. FreeBlocks \subseteq Blocks
      BY DEF Blocks
    <3>2. Aligned(FreeBlocks)
      BY <3>1 DEF ShapeInv, AlignedInv, Aligned
    <3>3. QED
      BY <3>2 DEF FreeBlocks
  <2>2. <<page, o>> \notin FreeBlocks
    BY <1>2 DEF FreeBlocks, PageIsBuddy
  <2>3. Coalesced(FreeBlocks')
    BY <1>0, <1>1, <1>2, <1>3, <2>1, <2>2, CoalescedMore DEF ShapeInv
  <2>4. QED
    BY <2>3 DEF Coalesced
<1>7. QED
  BY <1>0, <1>3, <1>5, <1>6 DEF ShapeInv, ScanInv

LEMMA AllocReturnShape == IInv /\ ShapeInv /\ AllocReturn => ShapeInv'
<1> SUFFICES ASSUME IInv, ShapeInv, AllocReturn PROVE ShapeInv'
  OBVIOUS
<1> USE DEF AllocReturn, boot
<1>0. /\ pc = "expand" /\ pc' = "idle" /\ page \in Frames /\ cur = order
      /\ page \in Nat /\ Pow2[cur] \in Nat \ {0} /\ <<page, cur>> \in InFlight
  <2>1. page \in Frames /\ cur \in Orders /\ cur = order
    BY SizesPositive DEF IInv, TypeOK, ControlInv
  <2>2. QED
    BY <2>1, SizesPositive DEF Frames, InFlight
<1>1. ~PageBuddy(page)
  BY <1>0, InFlightUnmarked
<1>2. \A f \in Frames, q \in Orders : PageIsBuddy(f, q)' = PageIsBuddy(f, q)
  BY <1>0, <1>1 DEF PageIsBuddy, PageBuddy, IInv, TypeOK
<1>3. /\ FreeBlocks' = FreeBlocks
      /\ \A q \in Orders : Ring(q)' = Ring(q)
  BY <1>2 DEF FreeBlocks, FreeFrames, Ring
<1>4. Blocks' \subseteq Blocks
  BY <1>0, <1>3 DEF Blocks, InFlight
<1>5. AlignedInv'
  BY <1>4 DEF ShapeInv, AlignedInv, Aligned
<1>6. ConnectedInv'
  BY <1>0, <1>3 DEF ShapeInv, ConnectedInv, FreeList
<1>7. Coalesced(FreeBlocks)'
  BY <1>3 DEF ShapeInv, Coalesced
<1>8. QED
  BY <1>0, <1>5, <1>6, <1>7 DEF ShapeInv, ScanInv

LEMMA GetPageShape ==
  ASSUME NEW b \in held
  PROVE  IInv /\ ShapeInv /\ GetPage(b) => ShapeInv'
<1> SUFFICES ASSUME IInv, ShapeInv, GetPage(b) PROVE ShapeInv'
  OBVIOUS
<1> USE DEF GetPage, boot
<1>1. Coalesced(FreeBlocks)' /\ ConnectedInv' /\ FreeBlocks' = FreeBlocks
  BY ShapeSame, SameLists
<1>2. Blocks' = Blocks
  BY <1>1 DEF Blocks, InFlight
<1>3. AlignedInv'
  BY <1>2 DEF ShapeInv, AlignedInv, Aligned
<1>4. QED
  BY <1>1, <1>3 DEF ShapeInv, ScanInv

LEMMA FreeCallShape ==
  ASSUME NEW b \in held
  PROVE  IInv /\ ShapeInv /\ FreeCall(b) => ShapeInv'
<1> SUFFICES ASSUME IInv, ShapeInv, FreeCall(b) PROVE ShapeInv'
  OBVIOUS
<1> USE DEF FreeCall, FreePages, boot
<1>1. Coalesced(FreeBlocks)' /\ ConnectedInv' /\ FreeBlocks' = FreeBlocks
  BY ShapeSame, SameLists
<1>2. b = <<b[1], b[2]>> /\ pc' \in {"merge", "idle"} /\ InFlight = {}
  BY HeldTypes DEF InFlight
<1>3. Blocks' \subseteq Blocks
  BY <1>1, <1>2 DEF Blocks, InFlight
<1>4. AlignedInv'
  BY <1>3 DEF ShapeInv, AlignedInv, Aligned
<1>5. QED
  BY <1>1, <1>2, <1>4 DEF ShapeInv, ScanInv

(* The second layer holds in every reachable state, too. *)
THEOREM Shape == Spec => []ShapeInv
<1>1. IInv /\ ShapeInv /\ [Next]_vars => ShapeInv'
  <2> SUFFICES ASSUME IInv, ShapeInv, [Next]_vars PROVE ShapeInv'
    OBVIOUS
  <2>1. CASE UNCHANGED vars
    <3>1. UNCHANGED <<lru, mapcount, private, count, nr_free, pc, page, order, cur,
                      p_idx, p_order, caller, held, refs, ret>>
      BY <2>1 DEF vars, mem, boot, use
    <3>2. FreeBlocks' = FreeBlocks /\ Blocks' = Blocks
      BY <3>1 DEF FreeBlocks, InFlight, Blocks, PageIsBuddy, PageBuddy
    <3>3. \A o : FreeFrames(o)' = FreeFrames(o) /\ Ring(o)' = Ring(o)
      BY <3>1 DEF FreeFrames, Ring, PageIsBuddy, PageBuddy
    <3>4. AlignedInv'
      BY <3>1, <3>2 DEF ShapeInv, AlignedInv, Aligned
    <3>5. Coalesced(FreeBlocks)'
      BY <3>2 DEF ShapeInv, Coalesced
    <3>6. ScanInv' /\ ConnectedInv'
      BY <3>1, <3>3 DEF ShapeInv, ScanInv, ConnectedInv, FreeList
    <3>7. QED
      BY <3>4, <3>5, <3>6 DEF ShapeInv
  <2>2. CASE Next
    BY <2>2, InitPagesShape, BootReleaseShape, BootShrinkShape, BootDoneShape,
       MergeShape, FreeInsertShape, AllocCallShape, AllocSkipShape, AllocTakeShape,
       AllocFailShape, ExpandShape, AllocReturnShape, GetPageShape, FreeCallShape
       DEF Next
  <2>3. QED
    BY <2>1, <2>2
<1>2. QED
  BY InitShape, <1>1, Safety, PTL DEF Spec

-----------------------------------------------------------------------------
(* The buddy of a free block is the index of a struct page. *)
LEMMA BuddyInside ==
  ASSUME IInv, ShapeInv, NEW b \in FreeBlocks
  PROVE  BuddyOf(b[1], b[2]) \in 0 .. N
<1>1. b[1] \in Frames /\ b[2] \in Orders
  BY DEF FreeBlocks
<1>2. b \in Blocks
  BY DEF Blocks
<1>3. b[1] + Pow2[b[2]] <= p_idx /\ p_idx \in 0 .. N
  BY <1>2 DEF IInv, TypeOK, Partition
<1>4. Pow2[b[2]] \in Nat \ {0}
  BY <1>1, SizesPositive
<1>5. b[1] \in Nat
  BY <1>1, SizesPositive DEF Frames
<1>6. QED
  BY <1>1, <1>3, <1>4, <1>5, BuddyArith, SizesPositive

(* Two free buddies never stay apart (the merge loop of mm/buddy.c:83-96   *)
(* against every split and release).                                       *)
THEOREM BuddiesMerged == Spec => []FullyCoalesced
<1>1. IInv /\ ShapeInv => FullyCoalesced
  <2> SUFFICES ASSUME IInv, ShapeInv, NEW p \in Frames, PageBuddy(p),
                      private[p] < MAX_ORDER - 1,
                      PageIsBuddy(BuddyOf(p, private[p]), private[p])
               PROVE  FALSE
    BY DEF FullyCoalesced
  <2> DEFINE o == private[p]
             b == <<p, o>>
             q == BuddyOf(p, o)
  <2>1. o \in Orders /\ b \in FreeBlocks
    BY SizesPositive DEF IInv, TypeOK, Frames, Structs, FreeBlocks, PageIsBuddy
  <2>2. q \in 0 .. N
    BY <2>1, BuddyInside
  <2>3. q # N
    BY DEF IInv, ControlInv, PageIsBuddy, PageBuddy, BUDDY
  <2>4. <<q, o>> \in FreeBlocks
    BY <2>1, <2>2, <2>3, SizesPositive DEF FreeBlocks, Frames
  <2>5. QED
    BY <2>1, <2>4 DEF ShapeInv, Coalesced
<1>2. QED
  BY <1>1, Safety, Shape, PTL

(* The ring of every order is one list from its head, of exactly the       *)
(* frames marked free with that order, and nr_free of them.                *)
THEOREM FreeListsRight == Spec => []FreeListsExact
<1>1. IInv /\ ShapeInv => FreeListsExact
  <2> SUFFICES ASSUME IInv, ShapeInv, pc # "init", NEW o \in Orders
               PROVE  /\ {Walk(o)[k] : k \in 0 .. N + 1} = FreeFrames(o) \cup {FreeList(o)}
                      /\ \A x \in FreeFrames(o) \cup {FreeList(o)} :
                           lru.prev[lru.next[x]] = x
                      /\ nr_free[o] = Cardinality(FreeFrames(o))
    BY DEF FreeListsExact, FreeFrames
  <2>1. /\ RingClosed(lru, Ring(o)) /\ nr_free[o] = Cardinality(FreeFrames(o))
        /\ RingConnected(lru, Ring(o), FreeList(o)) /\ FreeList(o) \in Ring(o)
    BY DEF IInv, ListInv, ShapeInv, ConnectedInv, Ring
  <2>2. IsWalk(lru, FreeList(o), N + 1, Walk(o))
    <3>1. N + 1 \in Nat
      BY SizesPositive
    <3>2. \E at : IsWalk(lru, FreeList(o), N + 1, at)
      BY <3>1, WalkExists
    <3>3. QED
      BY <3>2 DEF IsWalk, Walk
  <2>3. IsFiniteSet(Ring(o)) /\ Cardinality(Ring(o)) <= N + 1
    <3>1. /\ IsFiniteSet(Frames) /\ Cardinality(Frames) = N
      <4>1. /\ IsFiniteSet(0 .. N - 1)
            /\ Cardinality(0 .. N - 1) = IF 0 > N - 1 THEN 0 ELSE (N - 1) - 0 + 1
        <5>1. 0 \in Int /\ N - 1 \in Int
          BY SizesPositive
        <5>2. QED
          BY <5>1, FS_Interval
      <4>2. N \in Nat
        BY SizesPositive
      <4>3. (IF 0 > N - 1 THEN 0 ELSE (N - 1) - 0 + 1) = N
        BY <4>2
      <4>4. QED
        BY <4>1, <4>3 DEF Frames
    <3>2. IsFiniteSet(FreeFrames(o)) /\ Cardinality(FreeFrames(o)) <= N
      BY <3>1, FS_Subset DEF FreeFrames
    <3>3. FreeList(o) \notin FreeFrames(o)
      BY Lists
    <3>4. Cardinality(FreeFrames(o)) \in Nat
      BY <3>2, FS_CardinalityType
    <3>5. /\ IsFiniteSet(FreeFrames(o) \cup {FreeList(o)})
          /\ Cardinality(FreeFrames(o) \cup {FreeList(o)}) = Cardinality(FreeFrames(o)) + 1
      BY <3>2, <3>3, FS_AddElement
    <3>6. QED
      BY <3>2, <3>4, <3>5, SizesPositive DEF Ring
  <2>4. {Walk(o)[k] : k \in 0 .. N + 1} = Ring(o)
    <3>1. N + 1 \in Nat
      BY SizesPositive
    <3>2. QED
      BY <2>1, <2>2, <2>3, <3>1, WalkMeetsRing
  <2>5. QED
    BY <2>1, <2>4 DEF Ring, RingClosed
<1>2. QED
  BY <1>1, Safety, Shape, PTL

-----------------------------------------------------------------------------
(* Requests that fail.  Aligned blocks smaller than an aligned run cannot  *)
(* cover it unless two buddies among them could be merged: the smallest    *)
(* block that starts in the run has its buddy in the run, too, and the     *)
(* block that covers the buddy is either the buddy or would contain both.  *)
LEMMA RunNeedsBuddies ==
  ASSUME NEW F, F \subseteq Frames \X Orders, Aligned(F), Coalesced(F),
         \A b, c \in F : b # c => Apart(b, c),
         NEW o \in Orders, \A b \in F : b[2] < o,
         NEW p \in Nat, p % Pow2[o] = 0,
         \A f \in Nat : p <= f /\ f < p + Pow2[o]
                       => \E b \in F : b[1] <= f /\ f < b[1] + Pow2[b[2]]
  PROVE  FALSE
<1> DEFINE Inside(b) == p <= b[1] /\ b[1] < p + Pow2[o]
           T == {q \in Nat : \E b \in F : b[2] = q /\ Inside(b)}
<1>1. /\ o \in Nat /\ o <= MAX_ORDER - 1 /\ MAX_ORDER \in Nat /\ Pow2[o] \in Nat \ {0}
  BY SizesPositive DEF Orders
<1>2. ASSUME NEW b \in F
      PROVE  /\ b = <<b[1], b[2]>> /\ b[1] \in Nat /\ b[2] \in Nat /\ b[2] \in Orders
             /\ Pow2[b[2]] \in Nat \ {0} /\ b[2] < o /\ b[1] % Pow2[b[2]] = 0
  <2>1. b[1] \in Frames /\ b[2] \in Orders /\ b = <<b[1], b[2]>>
    OBVIOUS
  <2>2. QED
    BY <2>1, SizesPositive DEF Frames, Aligned
(* A block that covers a frame of the run starts in the run. *)
<1>3. ASSUME NEW b \in F, NEW f \in Nat, p <= f, f < p + Pow2[o],
             b[1] <= f, f < b[1] + Pow2[b[2]]
      PROVE  Inside(b)
  <2>1. p % Pow2[b[2]] = 0
    BY <1>1, <1>2, AlignedSmaller
  <2>2. b[1] < p => b[1] + Pow2[b[2]] <= p
    BY <1>2, <2>1, MultiplesApart
  <2>3. QED
    BY <1>1, <1>2, <1>3, <2>2
<1>4. T \subseteq Nat /\ T # {}
  <2>1. PICK b \in F : b[1] <= p /\ p < b[1] + Pow2[b[2]]
    BY <1>1
  <2>2. Inside(b)
    BY <1>1, <1>3, <2>1
  <2>3. b[2] \in T
    BY <1>2, <2>2
  <2>4. QED
    BY <2>3
<1>5. PICK q \in T : \A r \in T : q <= r
  <2> HIDE DEF T
  <2>1. QED
    BY <1>4, LeastNatural
<1>6. PICK b \in F : b[2] = q /\ Inside(b)
  BY <1>5
<1> DEFINE s == b[1]
           t == BuddyOf(s, q)
<1>7. /\ q \in Nat /\ q \in Orders /\ q < o /\ s \in Nat /\ s % Pow2[q] = 0
      /\ Pow2[q] \in Nat \ {0} /\ b = <<s, q>>
  BY <1>2, <1>6
<1>8. p <= t /\ t < p + Pow2[o]
  BY <1>1, <1>6, <1>7, BuddiesTogether
<1>9. t \in Nat /\ t % Pow2[q] = 0 /\ BuddyOf(t, q) = s
  BY <1>7, BuddyBack
<1> HIDE DEF s, t
<1>10. PICK e \in F : e[1] <= t /\ t < e[1] + Pow2[e[2]]
  BY <1>8, <1>9
<1>11. Inside(e)
  BY <1>3, <1>8, <1>9, <1>10
<1>12. q <= e[2]
  BY <1>2, <1>5, <1>11
<1>13. CASE e[2] = q
  <2>1. e[1] = t
    <3>1. e[1] < t => e[1] + Pow2[q] <= t
      BY <1>2, <1>7, <1>9, <1>13, MultiplesApart
    <3>2. QED
      BY <1>2, <1>9, <1>10, <1>13, <3>1
  <2>2. e = <<BuddyOf(b[1], b[2]), b[2]>>
    BY <1>2, <1>6, <1>13, <2>1 DEF s, t
  <2>3. b[2] < MAX_ORDER - 1
    BY <1>1, <1>6, <1>7
  <2>4. QED
    BY <2>2, <2>3 DEF Coalesced
<1>14. CASE e[2] # q
  <2>1. q < e[2] /\ e[2] <= MAX_ORDER
    BY <1>1, <1>2, <1>7, <1>12, <1>14
  <2>2. e[1] <= s /\ s < e[1] + Pow2[e[2]]
    BY <1>2, <1>7, <1>9, <1>10, <2>1, BuddiesTogether
  <2>3. b # e /\ b[1] = s
    BY <1>6, <1>14 DEF s
  <2>4. ~Apart(b, e)
    BY <1>2, <1>6, <1>7, <2>2, <2>3 DEF Apart
  <2>5. QED
    BY <2>3, <2>4
<1>15. QED
  BY <1>13, <1>14

(* At the end of a scan every free block is smaller than what was asked    *)
(* for, so no aligned run of that size is free.                            *)
LEMMA ScannedAll ==
  ASSUME IInv, ShapeInv, pc = "scan", cur = MAX_ORDER, order < MAX_ORDER,
         NEW p \in Nat, p % Pow2[order] = 0,
         \A f \in Nat : p <= f /\ f < p + Pow2[order]
                       => \E b \in FreeBlocks : b[1] <= f /\ f < b[1] + Pow2[b[2]]
  PROVE  FALSE
<1>1. order \in Orders /\ order \in Nat /\ MAX_ORDER \in Nat
  BY SizesPositive DEF IInv, TypeOK, Orders
<1>2. FreeBlocks \subseteq Frames \X Orders /\ Coalesced(FreeBlocks)
  BY DEF FreeBlocks, ShapeInv
<1>3. Aligned(FreeBlocks) /\ \A b, c \in FreeBlocks : b # c => Apart(b, c)
  BY DEF IInv, ShapeInv, AlignedInv, Aligned, Partition, Blocks
<1>4. ASSUME NEW b \in FreeBlocks PROVE b[2] < order
  <2>1. b[2] \in Orders /\ b[1] \in FreeFrames(b[2])
    BY DEF FreeBlocks, FreeFrames
  <2>2. ~(order <= b[2] /\ b[2] < cur)
    BY <2>1 DEF ShapeInv, ScanInv
  <2>3. QED
    BY <1>1, <2>1, <2>2 DEF Orders
<1>5. QED
  BY <1>1, <1>2, <1>3, <1>4, RunNeedsBuddies

(* alloc_pages gives up only when no aligned run of the size asked for is  *)
(* free (the scan of mm/buddy.c:127-145 against the merging of lines       *)
(* 83-96).                                                                 *)
THEOREM RefusesOnlyWhenFull == Spec => []FailsOnlyWhenNoRun
<1>1. IInv /\ ShapeInv => FailsOnlyWhenNoRun
  <2> SUFFICES ASSUME IInv, ShapeInv, pc = "scan", cur = MAX_ORDER, order < MAX_ORDER,
                      NEW p \in Frames, FreeRun(p, order)
               PROVE  FALSE
    BY DEF FailsOnlyWhenNoRun
  <2>1. order \in Orders /\ Pow2[order] \in Nat \ {0} /\ p \in Nat
    BY SizesPositive DEF IInv, TypeOK, Orders, Frames
  <2>2. ASSUME NEW f \in Nat, p <= f, f < p + Pow2[order]
        PROVE  \E b \in FreeBlocks : b[1] <= f /\ f < b[1] + Pow2[b[2]]
    <3>1. f \in Extent(<<p, order>>)
      BY <2>1, <2>2 DEF Extent
    <3>2. PICK b \in FreeBlocks : f \in Extent(b)
      BY <3>1 DEF FreeRun
    <3>3. b[1] \in Nat /\ Pow2[b[2]] \in Nat
      BY SizesPositive DEF FreeBlocks, Frames
    <3>4. QED
      BY <3>2, <3>3 DEF Extent
  <2>3. QED
    BY <2>1, <2>2, ScannedAll DEF FreeRun
<1>2. QED
  BY <1>1, Safety, Shape, PTL

-----------------------------------------------------------------------------
(* The allocator implements the pool.  Calls begin, answer, count          *)
(* references and drop them in the pool, too; every other step is internal *)
(* to a call and changes nothing a client sees.                            *)
LEMMA AllocReturnInPool == IInv /\ ShapeInv /\ AllocReturn => Pool!Next
<1> SUFFICES ASSUME IInv, ShapeInv, AllocReturn PROVE Pool!Next
  OBVIOUS
<1>1. pc = "expand" /\ cur = order /\ order \in Orders /\ page \in Frames
  BY SizesPositive DEF AllocReturn, IInv, TypeOK, ControlInv, Orders
<1> DEFINE m == <<page, order>>
<1>2. m \in InFlight /\ m \in Blocks
  BY <1>1 DEF InFlight, Blocks
<1>3. page % Pow2[order] = 0
  BY <1>2 DEF ShapeInv, AlignedInv, Aligned
<1>4. page + Pow2[order] <= N
  <2>1. page + Pow2[order] <= p_idx /\ p_idx \in 0 .. N
    BY <1>2 DEF IInv, TypeOK, Partition
  <2>2. page \in Nat /\ Pow2[order] \in Nat
    BY <1>1, SizesPositive DEF Frames
  <2>3. QED
    BY <2>1, <2>2, SizesPositive
<1>5. ASSUME NEW b \in held PROVE Apart(m, b)
  BY <1>2 DEF IInv, ExclusiveInv, Partition, Blocks
<1>6. Pool!Available(page, order)
  BY <1>3, <1>4, <1>5 DEF Pool!Available, Pool!Apart, Apart
<1>7. Pool!Alloc(page, order)
  BY <1>6 DEF Pool!Alloc, AllocReturn
<1>8. QED
  BY <1>1, <1>7 DEF Pool!Next, Pool!Frames, Pool!Orders, Frames, Orders

LEMMA AllocFailInPool == IInv /\ ShapeInv /\ AllocFail => Pool!Next
<1> SUFFICES ASSUME IInv, ShapeInv, AllocFail PROVE Pool!Next
  OBVIOUS
<1>1. /\ pc = "scan" /\ cur = MAX_ORDER /\ order \in 0 .. MAX_ORDER
      /\ p_idx = N /\ Blocks = FreeBlocks \cup held
  BY SizesPositive DEF AllocFail, IInv, TypeOK, ControlInv, Blocks, InFlight
<1>2. ASSUME order \in Pool!Orders, NEW p \in Pool!Frames, Pool!Available(p, order)
      PROVE  FALSE
  <2>1. /\ p \in Nat /\ order < MAX_ORDER /\ order \in Orders
        /\ Pow2[order] \in Nat \ {0} /\ N \in Nat
        /\ p % Pow2[order] = 0 /\ p + Pow2[order] <= N
    BY <1>2, SizesPositive DEF Pool!Orders, Orders, Pool!Frames, Pool!Available
  <2>2. ASSUME NEW f \in Nat, p <= f, f < p + Pow2[order]
        PROVE  \E b \in FreeBlocks : b[1] <= f /\ f < b[1] + Pow2[b[2]]
    <3>1. f \in 0 .. p_idx - 1
      BY <1>1, <2>1, <2>2
    <3>2. PICK b \in Blocks : b[1] <= f /\ f < b[1] + Pow2[b[2]]
      BY <3>1 DEF IInv, Partition
    <3>3. b \notin held
      <4>1. SUFFICES ASSUME b \in held PROVE FALSE
        OBVIOUS
      <4>2. p + Pow2[order] <= b[1] \/ b[1] + Pow2[b[2]] <= p
        BY <1>2, <4>1 DEF Pool!Available, Pool!Apart
      <4>3. b[1] \in Nat /\ Pow2[b[2]] \in Nat
        BY <4>1, SizesPositive DEF IInv, TypeOK, Frames
      <4>4. QED
        BY <2>1, <2>2, <3>2, <4>2, <4>3
    <3>4. QED
      BY <1>1, <3>2, <3>3
  <2>3. QED
    BY <1>1, <2>1, <2>2, ScannedAll
<1>3. Pool!AllocFail(order)
  BY <1>2 DEF Pool!AllocFail, AllocFail
<1>4. QED
  BY <1>1, <1>3 DEF Pool!Next

(* A client sees only blocks handed out, their references and answers, and *)
(* those behave as include/mm.h:41-92 promises: the allocator implements   *)
(* the abstract pool.                                                      *)
THEOREM Implements == Spec => ImplementsPool
<1>1. Init => Pool!Init
  BY DEF Init, Pool!Init, Pool!Frames, Frames, NoRet, Pool!NoRet
<1>2. IInv /\ ShapeInv /\ [Next]_vars => [Pool!Next]_(Pool!vars)
  <2> SUFFICES ASSUME IInv, ShapeInv, [Next]_vars
               PROVE  Pool!Next \/ UNCHANGED Pool!vars
    OBVIOUS
  <2>1. CASE UNCHANGED use
    BY <2>1 DEF use, Pool!vars
  <2>2. CASE UNCHANGED vars
    BY <2>1, <2>2 DEF vars
  <2>3. CASE \/ InitPages \/ BootRelease \/ BootShrink \/ BootDone \/ MergeStep
             \/ FreeInsert \/ AllocSkip \/ AllocTake \/ ExpandStep
    BY <2>1, <2>3 DEF InitPages, BootRelease, BootShrink, BootDone, MergeStep,
                      FreeInsert, AllocSkip, AllocTake, ExpandStep, boot
  <2>4. ASSUME NEW o \in 0 .. MAX_ORDER, AllocCall(o) PROVE Pool!Next
    BY <2>4 DEF AllocCall, Pool!Next, Pool!Begin, NoRet, Pool!NoRet
  <2>5. ASSUME NEW b \in held, GetPage(b) PROVE Pool!Next
    <3>1. Pool!Get(b)
      BY <2>5 DEF GetPage, Pool!Get, NoRet, Pool!NoRet
    <3>2. QED
      BY <3>1 DEF Pool!Next
  <2>6. ASSUME NEW b \in held, FreeCall(b) PROVE Pool!Next
    <3>1. Pool!Put(b)
      BY <2>6 DEF FreeCall, Pool!Put, NoRet, Pool!NoRet
    <3>2. QED
      BY <3>1 DEF Pool!Next
  <2>7. QED
    BY <2>2, <2>3, <2>4, <2>5, <2>6, AllocReturnInPool, AllocFailInPool DEF Next
<1>3. QED
  BY <1>1, <1>2, Safety, Shape, PTL DEF Spec, ImplementsPool, Pool!Spec
=============================================================================
