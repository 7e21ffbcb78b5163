------------------------------- MODULE Buddy -------------------------------
(***************************************************************************)
(* The buddy page allocator of mm/buddy.c with the struct page fields of   *)
(* include/mm.h it lives on: alloc_pages, free_pages, get_page, and the    *)
(* boot-time pmm_free_pages that hands all frames to it.                   *)
(*                                                                         *)
(* Every iteration of a loop of the source is one step, so the loops are   *)
(* not summarised: __free_one_page's merge loop, expand's split loop,      *)
(* __rmqueue_smallest's scan and pmm_free_pages's release loop.  pc names  *)
(* the loop that is running; only one call runs at a time, because the     *)
(* kernel has one processor and no interrupt handler that allocates.       *)
(***************************************************************************)
EXTENDS Integers, FiniteSets, ListHead

CONSTANTS N,          (* page_number: the frames 0..N-1 given to the pool   *)
          MAX_ORDER,  (* 11 in the source: orders are 0..MAX_ORDER-1        *)
          Pow2,       (* Pow2[o] is the source's 1 << o                     *)
          MaxRefs     (* bound: references one block may collect            *)

ASSUME SizeAssumption == N \in Nat /\ MAX_ORDER \in Nat \ {0} /\ MaxRefs \in Nat \ {0}

ASSUME Pow2Assumption ==
  /\ Pow2 \in [0 .. MAX_ORDER -> Nat \ {0}]
  /\ Pow2[0] = 1
  /\ \A o \in 0 .. MAX_ORDER - 1 : Pow2[o + 1] = 2 * Pow2[o]

Frames == 0 .. N - 1
Orders == 0 .. MAX_ORDER - 1

(* The list head embedded in free_area[o]; frames are >= 0, heads are < 0. *)
FreeList(o) == -1 - o
Nodes == Frames \cup {FreeList(o) : o \in Orders}

ASSUME NullAssumption == NULL \notin Int

(* struct page exists for one more index than there are frames: the frame  *)
(* array is rounded up and zeroed by init_pmm, and the merge loop may look *)
(* one entry past the last frame.                                          *)
Structs == 0 .. N

VARIABLES
  lru,       \* the list_head of every frame and of every free_area
  mapcount,  \* page->_mapcount, by struct page
  private,   \* page->private, by struct page: the order of a free block
  count,     \* page->_count, by struct page
  nr_free,   \* free_area[o].nr_free
  pc,        \* the loop that is running, "idle" between two calls
  caller,    \* where __free_one_page returns to: the boot loop or a client
  page,      \* local page of the running call
  order,     \* local order of the running call
  cur,       \* current_order of the scan, then high of expand
  p_idx,     \* boot loop: first frame not yet released
  p_order,   \* boot loop: order tried next
  held,      \* history: the blocks <<page, order>> clients hold
  refs,      \* history: references clients hold on each frame
  ret        \* what alloc_pages was asked for and returned, until the next call

mem  == <<lru, mapcount, private, count, nr_free>>
boot == <<p_idx, p_order, caller>>
use  == <<held, refs, ret>>
vars == <<mem, pc, page, order, cur, boot, use>>

(* page->_mapcount: no mapping, and the mark of a free block's first frame *)
NO_MAP == -1
BUDDY  == -128

NoRet == [order |-> MAX_ORDER, page |-> NULL]

PageBuddy(p) == mapcount[p] = BUDDY

(***************************************************************************)
(* Index arithmetic.  XOR with 1 << o flips bit o; the AND of an index and *)
(* its buddy's clears it.                                                  *)
(***************************************************************************)
BitSet(idx, o) == (idx \div Pow2[o]) % 2 = 1

(* Mutant of FindBuddyIndex: - for XOR. *)
FindBuddyIndexMinus(idx, o) == idx - Pow2[o]

FindBuddyIndex(idx, o) == IF BitSet(idx, o) THEN idx - Pow2[o] ELSE idx + Pow2[o]

(* Mutant of CombinedIndex: the AND is forgotten, the block never moves down. *)
CombinedIndexStays(idx, o) == idx

CombinedIndex(idx, o) == IF BitSet(idx, o) THEN idx - Pow2[o] ELSE idx

(* page_to_pfn(page) & ((1 << MAX_ORDER) - 1) *)
PageIdx(p) == p % Pow2[MAX_ORDER]

BuddyOf(p, o)  == p + (FindBuddyIndex(PageIdx(p), o) - PageIdx(p))
ParentOf(p, o) == p + (CombinedIndex(PageIdx(p), o) - PageIdx(p))

PageIsBuddy(b, o) == PageBuddy(b) /\ private[b] = o

-----------------------------------------------------------------------------
(* Mutant of TakeOffList: nr_free-- is forgotten. *)
TakeOffListUncounted(p, o) ==
  /\ lru' = ListDel(lru, p)
  /\ mapcount' = [mapcount EXCEPT ![p] = NO_MAP]
  /\ private' = [private EXCEPT ![p] = 0]
  /\ UNCHANGED nr_free

(* A frame joins the free list of an order: set_page_order, list_add and   *)
(* the counter,                                                            *)
PutOnList(p, o) ==
  /\ private' = [private EXCEPT ![p] = o]
  /\ mapcount' = [mapcount EXCEPT ![p] = BUDDY]
  /\ lru' = ListAdd(lru, p, FreeList(o))
  /\ nr_free' = [nr_free EXCEPT ![o] = @ + 1]

(* and leaves it: list_del, rmv_page_order and the counter. *)
TakeOffList(p, o) ==
  /\ lru' = ListDel(lru, p)
  /\ mapcount' = [mapcount EXCEPT ![p] = NO_MAP]
  /\ private' = [private EXCEPT ![p] = 0]
  /\ nr_free' = [nr_free EXCEPT ![o] = @ - 1]

-----------------------------------------------------------------------------
(* At entry of pmm_free_pages: the frame array was zeroed, free_area is in *)
(* the zeroed .bss.                                                        *)
Init ==
  /\ lru = [next |-> [x \in Nodes |-> NULL], prev |-> [x \in Nodes |-> NULL]]
  /\ mapcount = [p \in Structs |-> 0]
  /\ private = [p \in Structs |-> 0]
  /\ count = [p \in Structs |-> 0]
  /\ nr_free = [o \in Orders |-> 0]
  /\ pc = "init" /\ caller = "boot"
  /\ page = 0 /\ order = 0 /\ cur = 0
  /\ p_idx = 0 /\ p_order = MAX_ORDER - 1
  /\ held = {} /\ refs = [f \in Frames |-> 0]
  /\ ret = NoRet

(* init_buddy_mm and the first loop of pmm_free_pages. *)
InitPages ==
  /\ pc = "init"
  /\ nr_free' = [o \in Orders |-> 0]
  /\ lru' = [next |-> [x \in Nodes |-> x], prev |-> [x \in Nodes |-> x]]
  /\ count' = [p \in Structs |-> IF p \in Frames THEN 1 ELSE count[p]]
  /\ mapcount' = [p \in Structs |-> IF p \in Frames THEN NO_MAP ELSE mapcount[p]]
  /\ pc' = "boot"
  /\ UNCHANGED <<private, page, order, cur, boot, use>>

-----------------------------------------------------------------------------
(* put_page_testzero's answer, and its mutant that does not look. *)
LastRefBlind(p) == TRUE
LastRef(p) == count[p] - 1 = 0

(* free_pages(p, o): put_page_testzero, and only the last reference goes   *)
(* on to __free_one_page.                                                  *)
FreePages(p, o) ==
  /\ count' = [count EXCEPT ![p] = @ - 1]
  /\ IF LastRef(p)
       THEN pc' = "merge" /\ page' = p /\ order' = o
       ELSE UNCHANGED <<pc, page, order>>
  /\ UNCHANGED <<lru, mapcount, private, nr_free, cur>>

(* The release loop of pmm_free_pages: the largest order that still fits. *)
BootRelease ==
  /\ pc = "boot" /\ p_idx < N
  /\ N - p_idx >= Pow2[p_order]
  /\ FreePages(p_idx, p_order)
  /\ p_idx' = p_idx + Pow2[p_order]
  /\ UNCHANGED <<p_order, caller, use>>

BootShrink ==
  /\ pc = "boot" /\ p_idx < N
  /\ N - p_idx < Pow2[p_order]
  /\ p_order' = p_order - 1
  /\ UNCHANGED <<mem, pc, page, order, cur, p_idx, caller, use>>

BootDone ==
  /\ pc = "boot" /\ p_idx >= N
  /\ pc' = "idle" /\ caller' = "idle"
  /\ UNCHANGED <<mem, page, order, cur, p_idx, p_order, use>>

-----------------------------------------------------------------------------
(* Mutant of CanMerge: the last order is left out. *)
CanMergeShort == order < MAX_ORDER - 2 /\ PageIsBuddy(BuddyOf(page, order), order)

(* One iteration of the while loop of __free_one_page. *)
CanMerge == order < MAX_ORDER - 1 /\ PageIsBuddy(BuddyOf(page, order), order)

MergeStep ==
  /\ pc = "merge" /\ CanMerge
  /\ TakeOffList(BuddyOf(page, order), order)
  /\ page' = ParentOf(page, order)
  /\ order' = order + 1
  /\ UNCHANGED <<count, pc, cur, boot, use>>

(* The end of __free_one_page: the merged block goes on its free list. *)
FreeInsert ==
  /\ pc = "merge" /\ ~CanMerge
  /\ PutOnList(page, order)
  /\ pc' = caller
  /\ page' = 0 /\ order' = 0
  /\ UNCHANGED <<count, cur, boot, use>>

-----------------------------------------------------------------------------
(* alloc_pages(o); any uint16_t may be asked for, orders >= MAX_ORDER all  *)
(* behave like MAX_ORDER.                                                  *)
AllocCall(o) ==
  /\ pc = "idle"
  /\ pc' = "scan" /\ order' = o /\ cur' = o
  /\ ret' = NoRet
  /\ UNCHANGED <<mem, page, boot, held, refs>>

(* Mutant of AllocSkip: ++current_order is forgotten. *)
AllocSkipStuck ==
  /\ pc = "scan" /\ cur < MAX_ORDER
  /\ ListEmpty(lru, FreeList(cur))
  /\ UNCHANGED <<mem, pc, page, order, cur, boot, use>>

(* __rmqueue_smallest: skip an empty free list, *)
AllocSkip ==
  /\ pc = "scan" /\ cur < MAX_ORDER
  /\ ListEmpty(lru, FreeList(cur))
  /\ cur' = cur + 1
  /\ UNCHANGED <<mem, pc, page, order, boot, use>>

(* take the first block of a non-empty one, *)
AllocTake ==
  /\ pc = "scan" /\ cur < MAX_ORDER
  /\ ~ListEmpty(lru, FreeList(cur))
  /\ LET first == lru.next[FreeList(cur)]
     IN TakeOffList(first, cur) /\ page' = first
  /\ pc' = "expand"
  /\ UNCHANGED <<count, order, cur, boot, use>>

(* or give up and return NULL. *)
AllocFail ==
  /\ pc = "scan" /\ cur >= MAX_ORDER
  /\ ret' = [order |-> order, page |-> NULL]
  /\ pc' = "idle" /\ order' = 0 /\ cur' = 0
  /\ UNCHANGED <<mem, page, boot, held, refs>>

(* One iteration of expand: the upper half becomes a free block. *)
ExpandStep ==
  /\ pc = "expand" /\ cur > order
  /\ PutOnList(page + Pow2[cur - 1], cur - 1)
  /\ cur' = cur - 1
  /\ UNCHANGED <<count, pc, page, order, boot, use>>

(* set_page_count, and its mutant that forgets. *)
SetPageCountNot(p, v) == UNCHANGED count
SetPageCount(p, v) == count' = [count EXCEPT ![p] = v]

(* alloc_pages returns the page with one reference. *)
AllocReturn ==
  /\ pc = "expand" /\ cur <= order
  /\ private' = [private EXCEPT ![page] = 0]
  /\ SetPageCount(page, 1)
  /\ ret' = [order |-> order, page |-> page]
  /\ held' = held \cup {<<page, order>>}
  /\ refs' = [refs EXCEPT ![page] = 1]
  /\ pc' = "idle" /\ page' = 0 /\ order' = 0 /\ cur' = 0
  /\ UNCHANGED <<lru, mapcount, nr_free, boot>>

-----------------------------------------------------------------------------
(* get_page by a client that already has a reference. *)
GetPage(b) ==
  /\ pc = "idle" /\ refs[b[1]] < MaxRefs
  /\ count' = [count EXCEPT ![b[1]] = @ + 1]
  /\ refs' = [refs EXCEPT ![b[1]] = @ + 1]
  /\ UNCHANGED <<lru, mapcount, private, nr_free, pc, page, order, cur, boot, held>>
  /\ ret' = NoRet

(* free_pages by a client, with the order the block was allocated with. *)
FreeCall(b) ==
  /\ pc = "idle"
  /\ FreePages(b[1], b[2])
  /\ refs' = [refs EXCEPT ![b[1]] = @ - 1]
  /\ held' = IF refs[b[1]] = 1 THEN held \ {b} ELSE held
  /\ ret' = NoRet
  /\ UNCHANGED boot

Next ==
  \/ InitPages
  \/ BootRelease \/ BootShrink \/ BootDone
  \/ MergeStep \/ FreeInsert
  \/ \E o \in 0 .. MAX_ORDER : AllocCall(o)
  \/ AllocSkip \/ AllocTake \/ AllocFail
  \/ ExpandStep \/ AllocReturn
  \/ \E b \in held : GetPage(b) \/ FreeCall(b)

Spec == Init /\ [][Next]_vars

(* The steps of a call that is already running. *)
Running ==
  \/ InitPages \/ BootRelease \/ BootShrink \/ BootDone
  \/ MergeStep \/ FreeInsert
  \/ AllocSkip \/ AllocTake \/ AllocFail \/ ExpandStep \/ AllocReturn

(* A processor that has entered a call keeps executing it. *)
FairSpec == Spec /\ WF_vars(Running)

-----------------------------------------------------------------------------
(* Blocks: free, in the hands of the running call, or held by a client. *)
FreeBlocks == {b \in Frames \X Orders : PageIsBuddy(b[1], b[2])}

InFlight ==
  IF pc = "merge" THEN {<<page, order>>}
  ELSE IF pc = "expand" THEN {<<page, cur>>} ELSE {}

Blocks == FreeBlocks \cup InFlight \cup held

Extent(b) == b[1] .. b[1] + Pow2[b[2]] - 1

(* The nodes met by following next from the head of order o's free list,   *)
(* as many steps as a ring of all frames would take.                       *)
Walk(o) ==
  LET at[k \in 0 .. N + 1] ==
        IF k = 0 THEN lru.next[FreeList(o)]
        ELSE IF at[k - 1] = FreeList(o) THEN FreeList(o)
        ELSE lru.next[at[k - 1]]
  IN at

(* A free, aligned run of 1 << o frames starting at p. *)
FreeRun(p, o) ==
  /\ p % Pow2[o] = 0 /\ p + Pow2[o] <= N
  /\ \A f \in Extent(<<p, o>>) : \E b \in FreeBlocks : f \in Extent(b)

TypeOK ==
  /\ lru.next \in [Nodes -> Nodes \cup {NULL}]
  /\ lru.prev \in [Nodes -> Nodes \cup {NULL}]
  /\ lru = [next |-> lru.next, prev |-> lru.prev]
  /\ mapcount \in [Structs -> {0, NO_MAP, BUDDY}]
  /\ private \in [Structs -> Orders]
  /\ count \in [Structs -> Int]
  /\ nr_free \in [Orders -> Nat]
  /\ pc \in {"init", "boot", "merge", "idle", "scan", "expand"}
  /\ caller \in {"boot", "idle"}
  /\ page \in Frames \cup {0}
  /\ order \in 0 .. MAX_ORDER /\ cur \in 0 .. MAX_ORDER
  /\ p_idx \in 0 .. N /\ p_order \in Orders
  /\ held \subseteq Frames \X Orders
  /\ refs \in [Frames -> Nat]
  /\ ret \in [order : 0 .. MAX_ORDER, page : Frames \cup {NULL}]

(* No frame belongs to two blocks: what a client holds is neither free,    *)
(* nor being merged or split by a call, nor held by a second client        *)
(* (mm/buddy.c:74-117 keep the halves and the merged block apart).         *)
BlocksDisjoint ==
  /\ \A b, c \in Blocks : b # c => Extent(b) \cap Extent(c) = {}
  /\ FreeBlocks \cap held = {}
  /\ InFlight \cap (FreeBlocks \cup held) = {}

(* No frame is ever lost: each one is in a block, or boot has not released *)
(* it yet (every path of mm/buddy.c:74-145 and 226-236).                   *)
NoFrameLost ==
  pc # "init" =>
    \A f \in Frames : f >= p_idx \/ \E b \in Blocks : f \in Extent(b)

(* The pointer structure, the flags and the counter of each order agree:   *)
(* the ring of free_area[o] closes and holds exactly the frames marked     *)
(* free with order o, nr_free of them (set_page_order / rmv_page_order are *)
(* always paired with list_add / list_del and the counter).                *)
FreeListsExact ==
  pc # "init" =>
    \A o \in Orders :
      LET free == {p \in Frames : PageIsBuddy(p, o)}
          at   == Walk(o)
      IN /\ {at[k] : k \in 0 .. N + 1} = free \cup {FreeList(o)}
         /\ \A x \in free \cup {FreeList(o)} : lru.prev[lru.next[x]] = x
         /\ nr_free[o] = Cardinality(free)

(* Two free buddies never stay apart: a free block below the largest order *)
(* whose buddy is also a free block of its order would have been merged.   *)
FullyCoalesced ==
  \A p \in Frames :
    PageBuddy(p) /\ private[p] < MAX_ORDER - 1
      => ~PageIsBuddy(BuddyOf(p, private[p]), private[p])

(* The merge loop reads struct page at most one entry past the last frame, *)
(* which init_pmm has zeroed and which is never marked as a free block     *)
(* (mm/buddy.c:83-87 has no bound check of its own).                       *)
ProbeInBounds ==
  pc = "merge" /\ order < MAX_ORDER - 1
    => BuddyOf(page, order) \in Structs /\ ~PageBuddy(N)

(* alloc_pages gives up only when no aligned run of the size asked for is  *)
(* free: merging leaves no request unserved that the free frames could     *)
(* serve.                                                                  *)
FailsOnlyWhenNoRun ==
  pc = "scan" /\ cur = MAX_ORDER /\ order < MAX_ORDER
    => \A p \in Frames : ~FreeRun(p, order)

(* page->_count is exactly the number of references clients hold, whatever *)
(* value an earlier life of the frame left in it; so the block returns to  *)
(* the pool with the last free_pages and not before.                       *)
CountIsRefs ==
  \A b \in held : count[b[1]] = refs[b[1]] /\ refs[b[1]] > 0

(* Every call returns: the loops of alloc_pages, free_pages and            *)
(* pmm_free_pages end.                                                     *)
CallsReturn == (pc # "idle") ~> (pc = "idle")

(***************************************************************************)
(* The inductive invariant behind the theorems of BuddyProofs.             *)
(***************************************************************************)
Apart(b, c) == b[1] + Pow2[b[2]] <= c[1] \/ c[1] + Pow2[c[2]] <= b[1]

(* B is a partition of the frames below limit into blocks. *)
Partition(B, limit) ==
  /\ B \subseteq Frames \X Orders
  /\ \A b \in B : b[1] + Pow2[b[2]] <= limit
  /\ \A b, c \in B : b # c => Apart(b, c)
  /\ \A f \in 0 .. limit - 1 : \E b \in B : b[1] <= f /\ f < b[1] + Pow2[b[2]]

(* The frames marked free with order o, and the ring they form with the    *)
(* head of free_area[o].                                                   *)
FreeFrames(o) == {p \in Frames : PageIsBuddy(p, o)}
Ring(o) == FreeFrames(o) \cup {FreeList(o)}

ControlInv ==
  /\ caller = "boot" => pc \in {"init", "boot", "merge"} /\ held = {}
  /\ caller = "idle" => pc \in {"idle", "merge", "scan", "expand"} /\ p_idx = N
  /\ pc = "init" => p_idx = 0 /\ \A p \in Structs : mapcount[p] = 0
  /\ pc = "merge" => page \in Frames /\ order \in Orders
  /\ pc = "scan" => order <= cur
  /\ pc = "expand" => page \in Frames /\ order <= cur /\ cur \in Orders
  /\ mapcount[N] = 0

FreshInv ==
  pc # "init" => \A f \in Frames : f >= p_idx => count[f] = 1

ExclusiveInv ==
  /\ FreeBlocks \cap held = {}
  /\ InFlight \cap (FreeBlocks \cup held) = {}

ListInv ==
  pc # "init" =>
    \A o \in Orders :
      /\ RingClosed(lru, Ring(o))
      /\ nr_free[o] = Cardinality(FreeFrames(o))

IInv ==
  /\ TypeOK
  /\ ControlInv
  /\ FreshInv
  /\ Partition(Blocks, p_idx)
  /\ ExclusiveInv
  /\ CountIsRefs
  /\ ListInv

(* A second layer, inductive on top of IInv, for the properties about      *)
(* merging and about requests that fail.  Every block starts at a multiple *)
(* of its size, and boot keeps p_idx aligned to the order it tries;        *)
Aligned(B) == \A b \in B : b[1] % Pow2[b[2]] = 0

AlignedInv == Aligned(Blocks) /\ (caller = "boot" => p_idx % Pow2[p_order] = 0)

(* no two blocks of B are buddies that could be merged;                    *)
Coalesced(B) ==
  \A b, c \in B : b[2] < MAX_ORDER - 1 => c # <<BuddyOf(b[1], b[2]), b[2]>>

(* a scan has found every list it skipped empty;                           *)
ScanInv ==
  pc = "scan" =>
    \A q \in Orders : order <= q /\ q < cur => FreeFrames(q) = {}

(* and no part of a free list is cut off from its head.                    *)
ConnectedInv ==
  pc # "init" =>
    \A o \in Orders : RingConnected(lru, Ring(o), FreeList(o))

ShapeInv == AlignedInv /\ Coalesced(FreeBlocks) /\ ScanInv /\ ConnectedInv

(* The allocator implements the abstract pool: a client sees only blocks   *)
(* handed out, their references, and answers (include/mm.h:86-92).         *)
Pool == INSTANCE PagePool
ImplementsPool == Pool!Spec
=============================================================================
