------------------------------- MODULE PhysMem -------------------------------
(***************************************************************************)
(* The layout of physical memory at boot: init_pmm and init_kernel_vmm of  *)
(* mm/pmm.c, on top of the page tables boot/init.c leaves, up to the block *)
(* slob_init takes.                                                        *)
(*                                                                         *)
(* Addresses and sizes are in KB, so that the machine's own numbers fit    *)
(* the checker's integers; a page is 4, a word 2^22, and every address     *)
(* computation wraps at the word as in C.  Firmware regions are taken to   *)
(* begin and end at a multiple of 1 KB.                                    *)
(***************************************************************************)
EXTENDS Integers, Sequences

CONSTANTS
  Maps,      \* the memory maps the boot loader may pass: sequences of regions
  KernEnds,  \* where the kernel's image may end
  STALE      \* what memory holds that nobody has written

WORD == 4194304           \* 4 GB
PAGE_OFFSET == 3145728    \* 0xC0000000
PAGE == 4
PTE_SIZE == 1024          \* entries of a page table
SIZEOF_PAGE == 20         \* sizeof(struct page), in bytes
LOW == 1024               \* 1 MB
TMP == 16384              \* 16 MB, mapped before init_pmm
BLOCK == 1024             \* pages of slob's block, 1 << SLOB_PAGE_ORDER

Region == [base : Nat, len : Nat, type : Nat]

ASSUME MapsAssumption ==
  /\ Maps \subseteq Seq(Region) /\ KernEnds \subseteq LOW..(TMP \div 4)
  /\ STALE \notin Nat

VARIABLES
  boot,
  mmap, entry,      \* the boot loader's map, and the loop's place in it
  kern_end,
  max_phy_addr, min_phy_addr, phy_page_count,
  kern_pgd, kern_pte, pte_pages, phy_pages, pfn_pages,
  pgd_set, pte_set, \* how many entries of the new tables are written
  heap              \* the physical address of slob's block

layout ==
  <<kern_pgd, kern_pte, pte_pages, phy_pages, pfn_pages, phy_page_count>>
tables == <<pgd_set, pte_set>>
vars == <<boot, mmap, entry, kern_end, max_phy_addr, min_phy_addr, layout,
          tables, heap>>

(* The lower 32 bits of an address. *)
W32(x) == x % WORD

PageMask(x) == x - (x % PAGE)
PfnUp(x) == W32(x + PAGE - 1) \div PAGE
PfnAlign(x) == PageMask(x + PAGE - 1)
Pa(x) == IF x = 0 THEN 0 ELSE W32(x - PAGE_OFFSET)
Va(x) == IF x = 0 THEN 0 ELSE W32(x + PAGE_OFFSET)
PgdIndex(x) == (x \div (PTE_SIZE * PAGE)) % PTE_SIZE
PteIndex(x) == (x \div PAGE) % PTE_SIZE

(* The boot loader has put the image, from 1 MB on, into usable memory.    *)
ImageFits ==
  \E k \in DOMAIN mmap : /\ mmap[k].type = 1 /\ mmap[k].base <= LOW
                        /\ kern_end <= mmap[k].base + mmap[k].len

Init ==
  /\ boot = "scan" /\ mmap \in Maps /\ entry = 1 /\ kern_end \in KernEnds
  /\ ImageFits
  /\ max_phy_addr = 0 /\ min_phy_addr = 0 /\ phy_page_count = 0
  /\ kern_pgd = 0 /\ kern_pte = 0 /\ pte_pages = 0
  /\ phy_pages = 0 /\ pfn_pages = 0 /\ heap = 0
  /\ pgd_set = 0 /\ pte_set = 0

(* A region counts if it is usable and begins above 1 MB; only the lower   *)
(* half of its 64-bit address is looked at.  The last one wins.            *)
Counts(r) == r.type = 1 /\ W32(r.base) >= LOW

ScanRegion ==
  /\ boot = "scan" /\ entry <= Len(mmap)
  /\ entry' = entry + 1
  /\ max_phy_addr' = IF Counts(mmap[entry])
                     THEN PageMask(W32(W32(mmap[entry].base) + W32(mmap[entry].len)))
                     ELSE max_phy_addr
  /\ UNCHANGED <<boot, mmap, kern_end, min_phy_addr, layout, tables, heap>>

(* Pages from the end of the kernel's tables to the end of memory, and how *)
(* many of them the frame array takes.                                     *)
(* Mutant: takes the virtual address.                                      *)
PagesAboveVirtual(addr) == W32(max_phy_addr - addr) \div PAGE
PagesAbove(addr) == W32(max_phy_addr - Pa(addr)) \div PAGE

(* Mutant: rounded down. *)
ArrayPagesDown(count) == (count * SIZEOF_PAGE) \div 4096
ArrayPages(count) == (count * SIZEOF_PAGE + 4095) \div 4096

(* Tables needed for PfnUp(max_phy_addr) entries.                          *)
PtePages(max) == (PfnUp(max) + PTE_SIZE - 1) \div PTE_SIZE

(* phy_page_count once the array's own pages are taken out of it.          *)
CountLeft(count) == count - ArrayPages(count)

Layout ==
  /\ boot = "scan" /\ entry > Len(mmap)
  /\ boot' = "bzero"
  /\ kern_pgd' = Va(PfnAlign(kern_end))
  /\ kern_pte' = W32(kern_pgd' + PAGE)
  /\ pte_pages' = PtePages(max_phy_addr)
  /\ phy_pages' = W32(kern_pte' + PAGE * pte_pages')
  /\ pfn_pages' = ArrayPages(PagesAbove(phy_pages'))
  /\ phy_page_count' = CountLeft(PagesAbove(phy_pages'))
  /\ UNCHANGED <<mmap, entry, kern_end, max_phy_addr, min_phy_addr, tables,
                 heap>>

(* Whether the temporary tables map the addresses from a to b; an access   *)
(* elsewhere is a page fault, which the kernel never gets out of.          *)
TmpMapped(a, b) == a >= PAGE_OFFSET /\ b <= PAGE_OFFSET + TMP

Fault ==
  /\ boot' = "fault"
  /\ UNCHANGED <<mmap, entry, kern_end, max_phy_addr, min_phy_addr, layout,
                 tables, heap>>

ArrayEnd == phy_pages + PAGE * pfn_pages

ClearArray ==
  /\ boot = "bzero"
  /\ IF ~TmpMapped(phy_pages, ArrayEnd) THEN Fault
     ELSE /\ boot' = "free"
          /\ min_phy_addr' = W32(Pa(phy_pages) + PAGE * pfn_pages)
          /\ UNCHANGED <<mmap, entry, kern_end, max_phy_addr, layout, tables,
                         heap>>

(* The new tables, as page numbers.  init_kernel_vmm writes pgd_set        *)
(* entries of the directory, from the one of PAGE_OFFSET on, and the first *)
(* pte_set ones of the tables; nothing clears the others.  A directory     *)
(* entry past the end of its page is one of the first table, behind it.    *)
PgdStart == PgdIndex(PAGE_OFFSET)

PteFrame(idx) == Pa(W32(kern_pte + PAGE * idx)) \div PAGE

KPgd(j) == IF j \in PgdStart..PgdStart + pgd_set - 1
           THEN PteFrame(j - PgdStart) ELSE STALE

KPte(j) == IF j < pte_set THEN j ELSE KPgd(PTE_SIZE + j)

(* pmm_free_pages, which Buddy models, then init_kernel_vmm's two loops.   *)
MapTables ==
  /\ boot = "free" /\ boot' = "pte"
  /\ pgd_set' = pte_pages
  /\ UNCHANGED <<mmap, entry, kern_end, max_phy_addr, min_phy_addr, layout,
                 pte_set, heap>>

(* How many entries the second loop writes. *)
PteLoop == PfnUp(max_phy_addr)

MapPages ==
  /\ boot = "pte" /\ boot' = "cr3"
  /\ pte_set' = PteLoop
  /\ UNCHANGED <<mmap, entry, kern_end, max_phy_addr, min_phy_addr, layout,
                 pgd_set, heap>>

(* The page a virtual address means under the new tables. *)
Translate(va) ==
  LET table == KPgd(PgdIndex(va))
      first == Pa(kern_pte) \div PAGE
  IN IF table = STALE THEN STALE
     ELSE KPte(PTE_SIZE * (table - first) + PteIndex(va))

DirectMapped(pa) == Translate(Va(pa)) = pa \div PAGE

(* The instruction after the one that loads cr3 is fetched through the new *)
(* tables.                                                                 *)
LoadCr3 ==
  /\ boot = "cr3"
  /\ IF ~DirectMapped(LOW) \/ ~DirectMapped(kern_end - 1) THEN Fault
     ELSE /\ boot' = "slob"
          /\ UNCHANGED <<mmap, entry, kern_end, max_phy_addr, min_phy_addr,
                         layout,
                         tables, heap>>

(* page_address.  Mutant: counts from the end of memory. *)
PageAddressFar(pfn) == W32(max_phy_addr + PAGE * pfn)
PageAddress(pfn) == W32(min_phy_addr + PAGE * pfn)

(* page_to_pfn(NULL).  The difference of two pointers to a 20-byte struct  *)
(* is compiled as an exact division, a shift by two and a product with the *)
(* inverse of five, which is 205 modulo 1024; the array begins at a page,  *)
(* and of the frame number only the bits PFN_PHYS keeps matter.            *)
INVERSE5 == 205
NullPfn == 1024 * ((-INVERSE5 * (phy_pages \div PAGE)) % 1024)

(* The block alloc_pages finds: of the whole ones, released in order, the  *)
(* last is the first on its list.  Without any it returns NULL, which      *)
(* nothing tests: page_address makes an address of that too.               *)
NoBlock == phy_page_count < BLOCK
LastBlock == PageAddress(BLOCK * (phy_page_count \div BLOCK - 1))
Block == IF NoBlock THEN PageAddress(NullPfn) ELSE LastBlock

(* slob_init: it writes the first header into the block.  (slob_test's     *)
(* calls come after that and are not part of this action.)                 *)
SlobInit ==
  /\ boot = "slob"
  /\ IF ~DirectMapped(Block) THEN Fault
     ELSE /\ boot' = "up" /\ heap' = Block
          /\ UNCHANGED <<mmap, entry, kern_end, max_phy_addr, min_phy_addr,
                         layout, tables>>

Next == \/ ScanRegion \/ Layout \/ ClearArray \/ MapTables \/ MapPages
        \/ LoadCr3 \/ SlobInit

Spec == Init /\ [][Next]_vars

-----------------------------------------------------------------------------
(* The machines the code is written for: one usable bank of memory above   *)
(* 1 MB, beginning before the kernel's image ends, that ends in the lowest *)
(* GB and leaves 6 MB behind the kernel.                                   *)
OneBank ==
  \E k \in DOMAIN mmap :
    /\ \A j \in DOMAIN mmap : Counts(mmap[j]) <=> j = k
    /\ mmap[k].base \in LOW..kern_end
    /\ mmap[k].base + mmap[k].len \in
         kern_end + 6 * LOW..WORD - PAGE_OFFSET

(* On such a machine boot never touches an address that is not mapped, and *)
(* finds a block for the heap.                                             *)
GoodMachinesBoot == OneBank => boot # "fault"

(* On such a machine the kernel, the page directory, the page tables, the  *)
(* frame array and the frames follow each other without overlap and end    *)
(* where memory ends.                                                      *)
NoOverlap ==
  OneBank /\ boot \notin {"scan", "bzero"} =>
    /\ kern_end <= Pa(kern_pgd)
    /\ Pa(kern_pgd) + PAGE <= Pa(kern_pte)
    /\ Pa(kern_pte) + PAGE * pte_pages <= Pa(phy_pages)
    /\ Pa(phy_pages) + PAGE * pfn_pages <= min_phy_addr
    /\ min_phy_addr + PAGE * phy_page_count <= max_phy_addr

(* The frame array has an entry for each frame and one more, which bzero   *)
(* cleared: the page allocator's merge loop reads that one (Buddy relies   *)
(* on it).                                                                 *)
SpareStruct ==
  OneBank /\ boot \notin {"scan", "bzero"} =>
    (phy_page_count + 1) * SIZEOF_PAGE <= 4096 * pfn_pages

(* Once the new tables are loaded, every page of memory is mapped at its   *)
(* physical address plus PAGE_OFFSET, so page_address gives an address     *)
(* that means the page.  (Page 0 is too, but __va makes its address NULL.) *)
AllMapped ==
  OneBank /\ boot \in {"slob", "up"} =>
    \A p \in 1..(max_phy_addr \div PAGE) - 1 : DirectMapped(PAGE * p)

(* The heap lies in the frames the page allocator hands out, and nowhere   *)
(* else.                                                                   *)
HeapInFrames ==
  OneBank /\ boot = "up" =>
    /\ heap >= min_phy_addr
    /\ heap + PAGE * BLOCK <= min_phy_addr + PAGE * phy_page_count

(* What goes to the page allocator is memory that can be used (the         *)
(* comments at mm/pmm.c:12 and 124).  With a hole in the memory above 1 MB *)
(* it would not be.                                                        *)
FramesUsable ==
  OneBank /\ boot = "up" =>
    \A p \in 0..phy_page_count - 1 :
      \E k \in DOMAIN mmap :
        /\ mmap[k].type = 1
        /\ mmap[k].base <= min_phy_addr + PAGE * p
        /\ min_phy_addr + PAGE * (p + 1) <= mmap[k].base + mmap[k].len

LayoutRight ==
  NoOverlap /\ SpareStruct /\ AllMapped /\ HeapInFrames /\ FramesUsable

(* On the other machines boot fails for one of three reasons and for no    *)
(* other.  The frame array does not end below the 16 MB that are mapped    *)
(* while it is cleared, which the comment at mm/pmm.c:117 asks for and     *)
(* nothing checks; the heap's block lies above the lowest GB; or there is  *)
(* no block and NULL does not become an address that is mapped.  It is     *)
(* mapped on the machines where the frame array begins at 4 MB exactly and *)
(* some frame is left: NULL then becomes the first frame's address, and    *)
(* boot comes up with a heap of a length memory does not have, made of     *)
(* frames the page allocator will hand out again.                          *)
ArrayTooLong == Pa(phy_pages) + PAGE * pfn_pages > TMP
HeapTooFar == ~NoBlock /\ LastBlock >= WORD - PAGE_OFFSET
NullMapped == Pa(phy_pages) = 4 * LOW /\ phy_page_count > 0

FaultsExplained ==
  boot \notin {"scan", "bzero"} =>
    /\ boot = "fault" => ArrayTooLong \/ HeapTooFar \/ (NoBlock /\ ~NullMapped)
    /\ boot = "up" =>
         /\ ~ArrayTooLong /\ ~HeapTooFar
         /\ IF NoBlock
            THEN /\ NullMapped /\ heap = min_phy_addr
                 /\ heap + PAGE * BLOCK > max_phy_addr
            ELSE /\ heap >= min_phy_addr
                 /\ heap + PAGE * BLOCK <= min_phy_addr + PAGE * phy_page_count

(***************************************************************************)
(* The inductive invariant behind the theorems of BootProofs.              *)
(***************************************************************************)
TypeOK ==
  /\ boot \in {"scan", "bzero", "free", "pte", "cr3", "slob", "up", "fault"}
  /\ mmap \in Seq(Region) /\ entry \in Nat \ {0}
  /\ kern_end \in LOW..(TMP \div 4)
  /\ max_phy_addr \in Nat /\ max_phy_addr < WORD /\ max_phy_addr % PAGE = 0

(* Where the one region that counts ends, if there is but one. *)
Only(k) == k \in DOMAIN mmap /\ \A j \in DOMAIN mmap : Counts(mmap[j]) <=> j = k
Scanned ==
  \A k \in DOMAIN mmap :
    Only(k) /\ entry > k =>
      max_phy_addr = PageMask(W32(W32(mmap[k].base) + W32(mmap[k].len)))

(* Nothing of the layout wraps. *)
Aligned == PfnAlign(kern_end)
LaidOut ==
  /\ entry > Len(mmap)
  /\ kern_pgd = PAGE_OFFSET + Aligned
  /\ kern_pte = PAGE_OFFSET + Aligned + PAGE
  /\ pte_pages = PtePages(max_phy_addr)
  /\ phy_pages = PAGE_OFFSET + Aligned + PAGE + PAGE * pte_pages
  /\ pfn_pages = ArrayPages(PagesAbove(phy_pages))
  /\ phy_page_count = PagesAbove(phy_pages) - pfn_pages

IInv ==
  /\ TypeOK /\ Scanned
  /\ boot # "scan" => LaidOut
  /\ boot \in {"free", "pte", "cr3", "slob", "up"} =>
       ~ArrayTooLong /\ min_phy_addr = Pa(phy_pages) + PAGE * pfn_pages
  /\ boot \in {"pte", "cr3", "slob", "up"} => pgd_set = pte_pages
  /\ boot \in {"cr3", "slob", "up"} => pte_set = max_phy_addr \div PAGE
  /\ boot = "fault" =>
       \/ ArrayTooLong
       \/ /\ min_phy_addr = Pa(phy_pages) + PAGE * pfn_pages
          /\ HeapTooFar \/ (NoBlock /\ ~NullMapped)
  /\ boot = "up" => /\ ~HeapTooFar /\ (NoBlock => NullMapped)
                    /\ heap = Block
=============================================================================
