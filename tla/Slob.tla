-------------------------------- MODULE Slob --------------------------------
(***************************************************************************)
(* The kernel heap of mm/slob.c: kmalloc, kfree and the list of chunks     *)
(* slob_init sets up in one block of pages.                                *)
(*                                                                         *)
(* The arena is the addresses 0..ARENA-1.  A chunk is a header of HDR      *)
(* units (struct slob_block) followed by length units of payload; it is    *)
(* named by the address of its header, as the C pointers are.  Header      *)
(* fields are functions on addresses, because a header can appear at any   *)
(* address, and what a header held stays in memory after its chunk was     *)
(* merged away.  The list's links are the list_head operations of          *)
(* ListHead, pointer by pointer.  Each iteration of kmalloc's list walk is *)
(* one step; kfree has no loop and is one step.                            *)
(*                                                                         *)
(* Callers keep the pointers they were given in Slots and never write      *)
(* outside, or into the header of, the chunk they were given.              *)
(***************************************************************************)
EXTENDS Integers, ListHead

CONSTANTS ARENA,   (* (1 << SLOB_PAGE_ORDER) * PAGE_SIZE                     *)
          HDR,     (* sizeof(slob_block_t)                                   *)
          MINPART, (* SLOB_MIN_PART                                          *)
          WORD,    (* 2^32: kmalloc's sizes are computed modulo WORD         *)
          Sizes,   (* the sizes callers ask for                              *)
          Slots    (* callers' pointer variables; bounds the live pointers   *)

ASSUME ArenaAssumption ==
  /\ HDR \in Nat \ {0} /\ MINPART \in Nat \ {0}
  /\ ARENA \in Nat /\ HDR + MINPART <= ARENA
  /\ WORD \in Nat \ {0} /\ 2 * ARENA <= WORD

ASSUME SizesAssumption == Sizes \subseteq 0 .. WORD - 1

ASSUME NullAssumption == NULL \notin Int

Addrs == 0 .. ARENA - 1

(* The list head slob_head, named like the address after the arena. *)
SLOB_HEAD == ARENA
Nodes == 0 .. ARENA

SLOB_FREE == 0
SLOB_USED == 1

VARIABLES
  lru,       \* the list_head of every header, and slob_head
  allocated, \* block->allocated, by address of the header
  length,    \* block->length, by address of the header; 31 bits wide
  pc,        \* "walk" while kmalloc walks the list
  le,        \* kmalloc's list cursor
  len,       \* kmalloc's len
  caller,    \* the slot the running kmalloc answers to
  ptr,       \* the pointer each caller holds, or NULL
  size,      \* history: the size that pointer was asked for with
  tainted    \* history: kmalloc has handed out a chunk it did not split

heap == <<lru, allocated, length>>
call == <<pc, le, len, caller>>
vars == <<heap, call, ptr, size, tainted>>

-----------------------------------------------------------------------------
(* slob_init: one free chunk on the list. *)
Init ==
  /\ lru = [next |-> [x \in Nodes |->
                        IF x = SLOB_HEAD THEN 0 ELSE IF x = 0 THEN SLOB_HEAD ELSE NULL],
            prev |-> [x \in Nodes |->
                        IF x = SLOB_HEAD THEN 0 ELSE IF x = 0 THEN SLOB_HEAD ELSE NULL]]
  /\ allocated = [a \in Addrs |-> SLOB_FREE]
  /\ length = [a \in Addrs |-> IF a = 0 THEN ARENA - HDR ELSE 0]
  /\ pc = "idle" /\ le = SLOB_HEAD /\ len = 0 /\ caller = NULL
  /\ ptr = [s \in Slots |-> NULL]
  /\ size = [s \in Slots |-> 0]
  /\ tainted = FALSE

-----------------------------------------------------------------------------
(* What is left of a chunk after len units must hold a header and the      *)
(* smallest payload, or the chunk is not split.                            *)
TooSmallToSplit(b) == length[b] - len < HDR + MINPART

(* The lengths after the split, and the mutant in which the old chunk's    *)
(* length counts its header.                                               *)
SplitLengthLong(b) == [length EXCEPT ![b + len] = length[b] - len, ![b] = len]
SplitLength(b) ==
  [length EXCEPT ![b + len] = length[b] - len, ![b] = (len - HDR) % (WORD \div 2)]

(* split_chunk: the chunk's first len units, and a new chunk behind them.  *)
(* When the rest is too small the function returns before its last line.   *)
SplitChunk(b) ==
  IF TooSmallToSplit(b)
    THEN tainted' = TRUE /\ UNCHANGED heap
    ELSE LET new == b + len
         IN /\ lru' = ListAdd(lru, new, b)
            /\ allocated' = [allocated EXCEPT ![new] = SLOB_FREE, ![b] = SLOB_USED]
            /\ length' = SplitLength(b)
            /\ UNCHANGED tainted

(* Where the walk starts, and its mutant that leaves out the first chunk. *)
FirstChunkSkipped == lru.next[lru.next[SLOB_HEAD]]
FirstChunk == lru.next[SLOB_HEAD]

(* kmalloc(n): at least MINPART units, and a header; the sum may wrap. *)
KmallocCall(s, n) ==
  /\ pc = "idle" /\ ptr[s] = NULL
  /\ pc' = "walk" /\ le' = FirstChunk
  /\ len' = ((IF n > MINPART THEN n ELSE MINPART) + HDR) % WORD
  /\ caller' = s /\ size' = [size EXCEPT ![s] = n]
  /\ UNCHANGED <<heap, ptr, tainted>>

(* Mutant of Fits: a used chunk will do. *)
FitsAnyone(b) == length[b] > len

Fits(b) == allocated[b] = SLOB_FREE /\ length[b] > len

(* Mutant of WalkOn: the cursor does not move. *)
WalkOnStuck == pc = "walk" /\ le # SLOB_HEAD /\ ~Fits(le) /\ UNCHANGED vars

WalkOn ==
  /\ pc = "walk" /\ le # SLOB_HEAD /\ ~Fits(le)
  /\ le' = lru.next[le]
  /\ UNCHANGED <<heap, pc, len, caller, ptr, size, tainted>>

(* The first chunk that fits is handed out. *)
Grant ==
  /\ pc = "walk" /\ le # SLOB_HEAD /\ Fits(le)
  /\ SplitChunk(le)
  /\ ptr' = [ptr EXCEPT ![caller] = le + HDR]
  /\ pc' = "idle" /\ le' = SLOB_HEAD /\ len' = 0 /\ caller' = NULL
  /\ UNCHANGED size

(* None does: kmalloc returns NULL. *)
GrantNothing ==
  /\ pc = "walk" /\ le = SLOB_HEAD
  /\ pc' = "idle" /\ len' = 0 /\ caller' = NULL
  /\ size' = [size EXCEPT ![caller] = 0]
  /\ UNCHANGED <<heap, le, ptr, tainted>>

-----------------------------------------------------------------------------
(* Whether glue_chunk merges with a neighbour, and the mutant never to.    *)
(* The chunk just freed is not its own neighbour.                          *)
JoinsNever(x) == FALSE
JoinsPrev(x) == x # SLOB_HEAD /\ allocated[x] = SLOB_FREE
JoinsNext(x) == x # SLOB_HEAD /\ allocated[x] = SLOB_FREE

(* x->length += y->length + sizeof(slob_block_t) *)
Absorb(ln, x, y) == [ln EXCEPT ![x] = @ + (ln[y] + HDR)]

(* glue_chunk: merge the chunk b just freed into the free chunk before it, *)
(* then the free chunk behind it into the result.                          *)
GlueChunk(b) ==
  LET prev  == lru.prev[b]
      next  == lru.next[b]
      joinP == JoinsPrev(prev)
      joinN == JoinsNext(next)
      at    == IF joinP THEN prev ELSE b
      L     == IF joinP THEN ListDel(lru, b) ELSE lru
      ln    == IF joinP THEN Absorb(length, prev, b) ELSE length
  IN /\ lru' = IF joinN THEN ListDel(L, next) ELSE L
     /\ length' = IF joinN THEN Absorb(ln, at, next) ELSE ln

(* The mark is cleared, and the mutant where it is not. *)
ClearMarkNot(b) == UNCHANGED allocated
ClearMark(b) == allocated' = [allocated EXCEPT ![b] = SLOB_FREE]

(* kfree: a header that is not marked used makes it return at once. *)
Kfree(s) ==
  /\ pc = "idle" /\ ptr[s] # NULL
  /\ LET b == ptr[s] - HDR
     IN IF allocated[b] # SLOB_USED
          THEN UNCHANGED heap
          ELSE /\ ClearMark(b)
               /\ GlueChunk(b)
  /\ ptr' = [ptr EXCEPT ![s] = NULL]
  /\ size' = [size EXCEPT ![s] = 0]
  /\ UNCHANGED <<call, tainted>>

Next ==
  \/ \E s \in Slots, n \in Sizes : KmallocCall(s, n)
  \/ WalkOn \/ Grant \/ GrantNothing
  \/ \E s \in Slots : Kfree(s)

Spec == Init /\ [][Next]_vars

(* A processor that has entered kmalloc keeps executing it. *)
FairSpec == Spec /\ WF_vars(WalkOn \/ Grant \/ GrantNothing)

-----------------------------------------------------------------------------
(* The chunks on the list of heap L: list_del leaves NULL in a header it   *)
(* takes off.                                                              *)
ChunksOf(L) == {a \in Addrs : L.next[a] # NULL}
Chunks == ChunksOf(lru)

Payload(s) == ptr[s] .. ptr[s] + size[s] - 1

TypeOK ==
  /\ lru.next \in [Nodes -> Nodes \cup {NULL}]
  /\ lru.prev \in [Nodes -> Nodes \cup {NULL}]
  /\ lru = [next |-> lru.next, prev |-> lru.prev]
  /\ allocated \in [Addrs -> {SLOB_FREE, SLOB_USED}]
  /\ length \in [Addrs -> 0 .. WORD \div 2 - 1]
  /\ pc \in {"idle", "walk"}
  /\ le \in Nodes /\ len \in 0 .. WORD - 1 /\ caller \in Slots \cup {NULL}
  /\ ptr \in [Slots -> HDR .. ARENA - 1 \cup {NULL}]
  /\ size \in [Slots -> 0 .. WORD - 1]
  /\ tainted \in BOOLEAN

(* The list is the arena, in address order: each chunk ends where the next *)
(* one on the list starts, the last one at the end of the arena, and none  *)
(* is smaller than the smallest payload.  Splitting and merging rely on it *)
(* to find a chunk's neighbours (mm/slob.c:112-154).                       *)
Tiled(L, ln) ==
  /\ L.next[SLOB_HEAD] = 0
  /\ RingClosed(L, ChunksOf(L) \cup {SLOB_HEAD})
  /\ \A a \in ChunksOf(L) :
       /\ L.next[a] = a + HDR + ln[a]
       /\ a + HDR + ln[a] <= ARENA
       /\ ln[a] >= MINPART
  /\ \A a, b \in ChunksOf(L) : a < b => a + HDR + ln[a] <= b

Tiling == Tiled(lru, length)

(* Free neighbours are always merged (glue_chunk, mm/slob.c:132-154). *)
NoAdjacentFree ==
  \A a \in Chunks :
    allocated[a] = SLOB_FREE /\ lru.next[a] # SLOB_HEAD
      => allocated[lru.next[a]] = SLOB_USED

(* A used chunk always has a caller that can free it: nothing leaks, also  *)
(* when a chunk was handed out twice (mm/slob.c:177-186).                  *)
UsedHasHolder ==
  \A a \in Addrs : allocated[a] = SLOB_USED => a \in Chunks /\ \E s \in Slots : ptr[s] = a + HDR

(* When every caller has freed its pointer, the arena is one free chunk    *)
(* again.                                                                  *)
AllFreedRestores ==
  (\A s \in Slots : ptr[s] = NULL)
    => Chunks = {0} /\ allocated[0] = SLOB_FREE /\ length[0] = ARENA - HDR

(* Until kmalloc hands out a chunk it did not split, every caller has a    *)
(* chunk of its own, marked used and as large as it asked for.             *)
GrantsExclusive ==
  ~tainted =>
    /\ \A s \in Slots : ptr[s] # NULL =>
         LET b == ptr[s] - HDR
         IN b \in Chunks /\ allocated[b] = SLOB_USED /\ size[s] <= length[b]
    /\ \A s, t \in Slots : s # t /\ ptr[s] # NULL /\ ptr[t] # NULL
         => Payload(s) \cap Payload(t) = {}

(* kmalloc answers NULL only when no chunk on the list is free and larger  *)
(* than the request and its header (mm/slob.c:164-173).                    *)
NullOnlyWhenNoneFits ==
  pc = "walk" /\ le = SLOB_HEAD => \A a \in Chunks : ~Fits(a)

(* kmalloc returns: the walk comes back to slob_head. *)
KmallocReturns == pc = "walk" ~> pc = "idle"

(***************************************************************************)
(* The inductive invariant behind the theorems of SlobProofs.              *)
(***************************************************************************)
WalkInv ==
  pc = "walk" =>
    /\ le \in Chunks \cup {SLOB_HEAD}
    /\ caller \in Slots /\ ptr[caller] = NULL
    /\ len >= HDR + MINPART /\ len >= HDR + size[caller]
    /\ \A a \in Chunks : a < le => ~Fits(a)

GrantInv ==
  ~tainted =>
    /\ \A s \in Slots : ptr[s] # NULL =>
         LET b == ptr[s] - HDR
         IN b \in Chunks /\ allocated[b] = SLOB_USED /\ size[s] <= length[b]
    /\ \A s, t \in Slots : s # t /\ ptr[s] # NULL => ptr[s] # ptr[t]

IInv ==
  /\ TypeOK
  /\ Tiling
  /\ NoAdjacentFree
  /\ UsedHasHolder
  /\ WalkInv
  /\ GrantInv

(* The sizes whose len fits kmalloc's uint32_t. *)
NoWrap == \A n \in Sizes : n + HDR < WORD

(* What the comment on the field says (mm/slob.c:26): allocated tells      *)
(* whether the chunk has been handed out.                                  *)
HeldIsMarked ==
  \A s \in Slots : ptr[s] # NULL => allocated[ptr[s] - HDR] = SLOB_USED

(* What the comment on kmalloc says (mm/slob.c:156): any size may be asked *)
(* for; whoever gets a pointer gets that much memory behind it.            *)
GrantInArena ==
  \A s \in Slots : ptr[s] # NULL => ptr[s] + size[s] <= ARENA
=============================================================================
