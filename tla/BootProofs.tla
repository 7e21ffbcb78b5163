----------------------------- MODULE BootProofs -----------------------------
(***************************************************************************)
(* Proofs about what kern_init sets up before interrupts are on, for every *)
(* value of the constants: the layout of memory, for every memory map and  *)
(* image (PhysMem), the symbol table and what is found in it (KSym), and   *)
(* the screen (Console).  The three specifications share no variable; a    *)
(* theorem names the one it is about, PhysMem's being called Spec.         *)
(***************************************************************************)
EXTENDS PhysMem, KSym, Console, SequenceTheorems, FiniteSetTheorems, TLAPS

-----------------------------------------------------------------------------
(* The layout.  The tables behind the image are too small to wrap, so it   *)
(* has a closed form.  When memory ends below the tables, the count of     *)
(* frames wraps, and the frame array is longer than the 16 MB that are     *)
(* mapped: the boot stops there.  Otherwise every page below the end of    *)
(* memory and of the lowest GB is mapped where it should be.               *)
(*                                                                         *)
(* Arithmetic of pages and words.  (Leaves that expand WORD go to the SMT  *)
(* solver alone: Zenon writes numerals in unary.)                          *)
LEMMA Word ==
  ASSUME NEW x \in Int
  PROVE  /\ 0 <= x /\ x < WORD => W32(x) = x
         /\ WORD <= x /\ x < 2 * WORD => W32(x) = x - WORD
         /\ -WORD <= x /\ x < 0 => W32(x) = x + WORD
         /\ W32(x) \in Int /\ 0 <= W32(x) /\ W32(x) < WORD
<1>1. 0 <= x /\ x < WORD => W32(x) = x
  BY SMT DEF W32, WORD
<1>2. WORD <= x /\ x < 2 * WORD => W32(x) = x - WORD
  BY SMT DEF W32, WORD
<1>3. -WORD <= x /\ x < 0 => W32(x) = x + WORD
  BY SMT DEF W32, WORD
<1>4. W32(x) \in Int /\ 0 <= W32(x) /\ W32(x) < WORD
  BY SMT DEF W32, WORD
<1>5. QED
  BY <1>1, <1>2, <1>3, <1>4

LEMMA Indices ==
  ASSUME NEW x \in Nat
  PROVE  /\ x \div 4 \in Nat /\ (x \div 4) % 1024 \in Nat /\ x \div 4096 \in Nat
         /\ 1024 * (x \div 4096) + ((x \div 4) % 1024) = x \div 4
<1>1. x \div 4 \in Nat
  BY SMT
<1>2. x \div 4096 \in Nat
  BY SMT
<1>3. (x \div 4) % 1024 \in Nat
  BY SMT, <1>1
<1>4. 1024 * (x \div 4096) + ((x \div 4) % 1024) = x \div 4
  <2> DEFINE y == x \div 4
  <2>1. x \div 4096 = y \div 1024
    BY SMT
  <2>2. y \in Nat
    BY <1>1
  <2> HIDE DEF y
  <2>3. y = 1024 * (y \div 1024) + (y % 1024)
    BY SMT, <2>2
  <2>4. QED
    BY <2>1, <2>3 DEF y
<1>5. QED
  BY <1>1, <1>2, <1>3, <1>4

LEMMA Masked ==
  ASSUME NEW x \in Nat
  PROVE  /\ PageMask(x) \in Nat /\ PageMask(x) % PAGE = 0
         /\ x - (PAGE - 1) <= PageMask(x) /\ PageMask(x) <= x
BY DEF PageMask, PAGE

LEMMA PageUp ==
  ASSUME NEW x \in LOW..(TMP \div 4)
  PROVE  /\ PfnAlign(x) \in LOW..(TMP \div 4) /\ PfnAlign(x) % PAGE = 0
         /\ x <= PfnAlign(x) /\ PfnAlign(x) <= x + (PAGE - 1)
BY SMT DEF PfnAlign, PageMask, PAGE, LOW, TMP

(* A page-aligned size is a number of pages, and needs so many tables. *)
LEMMA Tables ==
  ASSUME NEW max \in Nat, max < WORD, max % PAGE = 0
  PROVE  /\ PfnUp(max) = max \div PAGE /\ max \div PAGE \in Nat
         /\ max = PAGE * (max \div PAGE)
         /\ PtePages(max) \in 0..PTE_SIZE
         /\ PTE_SIZE * PtePages(max) >= max \div PAGE
         /\ PTE_SIZE * PtePages(max) <= (max \div PAGE) + (PTE_SIZE - 1)
<1> DEFINE n == max \div 4
<1>1. n \in Nat /\ max = 4 * n /\ n < 1024 * 1024
  BY SMT DEF WORD, PAGE
<1>2. PfnUp(max) = n
  <2>1. max + 4 - 1 < WORD /\ (max + 4 - 1) \in Int /\ 0 <= max + 4 - 1
    BY SMT DEF WORD, PAGE
  <2>2. W32(max + 4 - 1) = max + 4 - 1
    BY <2>1, Word
  <2>3. PfnUp(max) = (max + 4 - 1) \div 4
    BY <2>2 DEF PfnUp, PAGE
  <2>4. QED
    BY SMT, <2>3, <1>1
<1> HIDE DEF n
<1>3. PtePages(max) = (n + 1024 - 1) \div 1024
  BY <1>2 DEF PtePages, PTE_SIZE
<1>4. /\ (n + 1024 - 1) \div 1024 \in 0..1024
      /\ 1024 * ((n + 1024 - 1) \div 1024) >= n
      /\ 1024 * ((n + 1024 - 1) \div 1024) <= n + 1023
  BY SMT, <1>1
<1>5. QED
  BY <1>1, <1>2, <1>3, <1>4 DEF PTE_SIZE, PAGE, n

(* The frame array takes a two-hundredth of what it describes. *)
LEMMA ArraySize ==
  ASSUME NEW count \in Nat
  PROVE  /\ ArrayPages(count) \in Nat
         /\ 4096 * ArrayPages(count) >= SIZEOF_PAGE * count
         /\ 4096 * ArrayPages(count) <= SIZEOF_PAGE * count + 4095
BY SMT DEF ArrayPages, SIZEOF_PAGE

-----------------------------------------------------------------------------
(* Where the closed form of the layout puts things. *)
AboveTables == Aligned + PAGE + PAGE * pte_pages

LEMMA AlignedImage ==
  ASSUME TypeOK
  PROVE  /\ Aligned \in Nat /\ LOW <= Aligned /\ Aligned <= TMP \div 4
         /\ Aligned % PAGE = 0
         /\ kern_end <= Aligned /\ Aligned <= kern_end + (PAGE - 1)
         /\ kern_end \in Nat /\ LOW <= kern_end
<1>1. /\ PfnAlign(kern_end) \in LOW..(TMP \div 4) /\ PfnAlign(kern_end) % PAGE = 0
      /\ kern_end <= PfnAlign(kern_end) /\ PfnAlign(kern_end) <= kern_end + (PAGE - 1)
  BY PageUp DEF TypeOK
<1>2. LOW \in Nat /\ TMP \div 4 \in Nat
  BY SMT DEF LOW, TMP
<1>3. QED
  BY <1>1, <1>2 DEF Aligned, TypeOK

LEMMA TableSizes ==
  ASSUME TypeOK, pte_pages = PtePages(max_phy_addr)
  PROVE  /\ PfnUp(max_phy_addr) = max_phy_addr \div PAGE
         /\ max_phy_addr \div PAGE \in Nat
         /\ max_phy_addr = PAGE * (max_phy_addr \div PAGE)
         /\ pte_pages \in Nat /\ pte_pages <= 1024
         /\ 1024 * pte_pages >= max_phy_addr \div PAGE
         /\ 1024 * pte_pages <= (max_phy_addr \div PAGE) + 1023
<1>1. max_phy_addr \in Nat /\ max_phy_addr < WORD /\ max_phy_addr % PAGE = 0
  BY DEF TypeOK
<1>2. /\ PfnUp(max_phy_addr) = max_phy_addr \div PAGE
      /\ max_phy_addr \div PAGE \in Nat
      /\ max_phy_addr = PAGE * (max_phy_addr \div PAGE)
      /\ PtePages(max_phy_addr) \in 0..PTE_SIZE
      /\ PTE_SIZE * PtePages(max_phy_addr) >= max_phy_addr \div PAGE
      /\ PTE_SIZE * PtePages(max_phy_addr) <= (max_phy_addr \div PAGE) + (PTE_SIZE - 1)
  BY <1>1, Tables
<1> DEFINE n == max_phy_addr \div PAGE
<1>3. n \in Nat
  BY <1>2
<1> HIDE DEF n
<1>4. /\ pte_pages \in 0..PTE_SIZE /\ PTE_SIZE * pte_pages >= n
      /\ PTE_SIZE * pte_pages <= n + (PTE_SIZE - 1)
  BY <1>2 DEF n
<1>5. /\ pte_pages \in Nat /\ pte_pages <= 1024 /\ 1024 * pte_pages >= n
      /\ 1024 * pte_pages <= n + 1023
  BY <1>3, <1>4 DEF PTE_SIZE
<1>6. QED
  BY <1>2, <1>5 DEF n

LEMMA Small ==
  ASSUME NEW x \in Int, 0 <= x, x < WORD - PAGE_OFFSET
  PROVE  /\ W32(x + PAGE_OFFSET) = x + PAGE_OFFSET
         /\ W32((PAGE_OFFSET + x) - PAGE_OFFSET) = x
         /\ Pa(PAGE_OFFSET + x) = x
         /\ x # 0 => Va(x) = PAGE_OFFSET + x
<1>1. /\ x + PAGE_OFFSET \in Int /\ 0 <= x + PAGE_OFFSET /\ x + PAGE_OFFSET < WORD
      /\ x < WORD /\ (PAGE_OFFSET + x) - PAGE_OFFSET = x /\ PAGE_OFFSET + x # 0
      /\ x + PAGE_OFFSET = PAGE_OFFSET + x
  BY SMT DEF PAGE_OFFSET, WORD
<1>2. W32(x + PAGE_OFFSET) = x + PAGE_OFFSET
  BY <1>1, Word
<1>3. W32(x) = x
  BY <1>1, Word
<1>4. Pa(PAGE_OFFSET + x) = x
  BY <1>1, <1>3 DEF Pa
<1>5. x # 0 => Va(x) = PAGE_OFFSET + x
  BY <1>1, <1>2 DEF Va
<1>6. QED
  BY <1>1, <1>2, <1>3, <1>4, <1>5

LEMMA Bounds ==
  ASSUME TypeOK, pte_pages = PtePages(max_phy_addr)
  PROVE  /\ AboveTables \in Nat /\ AboveTables % PAGE = 0
         /\ AboveTables <= 8196 /\ Aligned < AboveTables
         /\ AboveTables < WORD - PAGE_OFFSET
         /\ \A d \in Nat : d <= pte_pages =>
              /\ Aligned + PAGE + PAGE * d \in Int /\ 0 <= Aligned + PAGE + PAGE * d
              /\ Aligned + PAGE + PAGE * d < WORD - PAGE_OFFSET
<1>1. /\ Aligned \in Nat /\ LOW <= Aligned /\ Aligned <= TMP \div 4 /\ Aligned % PAGE = 0
  BY AlignedImage
<1>2. pte_pages \in Nat /\ pte_pages <= 1024
  BY TableSizes
<1>3. /\ AboveTables \in Nat /\ AboveTables <= 8196 /\ Aligned < AboveTables
  BY SMT, <1>1, <1>2 DEF AboveTables, PAGE, LOW, TMP
<1>4. AboveTables % PAGE = 0
  BY SMT, <1>1, <1>2 DEF AboveTables, PAGE
<1>5. WORD - PAGE_OFFSET \in Int /\ 8196 < WORD - PAGE_OFFSET
  BY SMT DEF WORD, PAGE_OFFSET
<1>6. ASSUME NEW d \in Nat, d <= pte_pages
      PROVE  /\ Aligned + PAGE + PAGE * d \in Int /\ 0 <= Aligned + PAGE + PAGE * d
             /\ Aligned + PAGE + PAGE * d <= AboveTables
  BY SMT, <1>1, <1>2, <1>6 DEF AboveTables, PAGE
<1>7. QED
  BY <1>3, <1>4, <1>5, <1>6

LEMMA LayoutSteps ==
  ASSUME TypeOK, Layout
  PROVE  LaidOut'
<1>1. /\ entry > Len(mmap) /\ pte_pages' = PtePages(max_phy_addr)
      /\ kern_pgd' = Va(Aligned) /\ kern_pte' = W32(kern_pgd' + PAGE)
      /\ phy_pages' = W32(kern_pte' + PAGE * pte_pages')
      /\ pfn_pages' = ArrayPages(PagesAbove(phy_pages'))
      /\ phy_page_count' = CountLeft(PagesAbove(phy_pages'))
      /\ UNCHANGED <<mmap, entry, kern_end, max_phy_addr, min_phy_addr, tables, heap>>
  BY DEF Layout, Aligned
<1>2. /\ Aligned \in Nat /\ LOW <= Aligned /\ Aligned <= TMP \div 4
  BY AlignedImage
<1>3. pte_pages' \in Nat /\ pte_pages' <= 1024
  <2>1. max_phy_addr \in Nat /\ max_phy_addr < WORD /\ max_phy_addr % PAGE = 0
    BY DEF TypeOK
  <2>2. PtePages(max_phy_addr) \in 0..PTE_SIZE
    BY <2>1, Tables
  <2>3. pte_pages' \in 0..PTE_SIZE
    BY <1>1, <2>2, Zenon
  <2>4. QED
    BY SMT, <2>3 DEF PTE_SIZE
<1> DEFINE a == Aligned
           t == pte_pages'
<1>4. /\ a \in Int /\ a # 0 /\ t \in Nat
      /\ 0 <= a /\ a < WORD - PAGE_OFFSET
      /\ a + PAGE \in Int /\ 0 <= a + PAGE /\ a + PAGE < WORD - PAGE_OFFSET
      /\ a + PAGE + PAGE * t \in Int /\ 0 <= a + PAGE + PAGE * t
      /\ a + PAGE + PAGE * t < WORD - PAGE_OFFSET
  <2>1. a \in Nat /\ LOW <= a /\ a <= TMP \div 4 /\ t \in Nat /\ t <= 1024
    BY <1>2, <1>3
  <2> HIDE DEF a, t
  <2>2. QED
    BY SMT, <2>1 DEF LOW, TMP, WORD, PAGE_OFFSET, PAGE
<1> HIDE DEF a, t
<1>5. kern_pgd' = PAGE_OFFSET + a
  BY <1>1, <1>4, Small DEF a
<1>6. kern_pte' = PAGE_OFFSET + a + PAGE
  <2>1. kern_pgd' + PAGE = (a + PAGE) + PAGE_OFFSET
    BY SMT, <1>4, <1>5 DEF PAGE_OFFSET, PAGE
  <2>2. W32((a + PAGE) + PAGE_OFFSET) = (a + PAGE) + PAGE_OFFSET
    BY <1>4, Small
  <2>3. (a + PAGE) + PAGE_OFFSET = PAGE_OFFSET + a + PAGE
    BY SMT, <1>4 DEF PAGE_OFFSET, PAGE
  <2>4. QED
    BY <1>1, <2>1, <2>2, <2>3
<1>7. phy_pages' = PAGE_OFFSET + a + PAGE + PAGE * t
  <2>1. kern_pte' + PAGE * t = (a + PAGE + PAGE * t) + PAGE_OFFSET
    BY SMT, <1>4, <1>6 DEF PAGE_OFFSET, PAGE
  <2>2. W32((a + PAGE + PAGE * t) + PAGE_OFFSET) = (a + PAGE + PAGE * t) + PAGE_OFFSET
    BY <1>4, Small
  <2>3. (a + PAGE + PAGE * t) + PAGE_OFFSET = PAGE_OFFSET + a + PAGE + PAGE * t
    BY SMT, <1>4 DEF PAGE_OFFSET, PAGE
  <2>4. QED
    BY <1>1, <2>1, <2>2, <2>3 DEF t
<1>8. \A x : PagesAbove(x)' = PagesAbove(x)
  BY <1>1 DEF PagesAbove
<1>9. Aligned' = Aligned
  BY <1>1 DEF Aligned
<1>10. phy_page_count' = PagesAbove(phy_pages') - pfn_pages'
  BY <1>1 DEF CountLeft
<1>11. /\ entry' > Len(mmap') /\ kern_pgd' = PAGE_OFFSET + Aligned'
       /\ kern_pte' = PAGE_OFFSET + Aligned' + PAGE
       /\ phy_pages' = PAGE_OFFSET + Aligned' + PAGE + PAGE * pte_pages'
  BY <1>1, <1>5, <1>6, <1>7, <1>9 DEF a, t
<1>12. pte_pages' = PtePages(max_phy_addr') /\ PagesAbove(phy_pages)' = PagesAbove(phy_pages')
  BY <1>1 DEF PagesAbove
<1>13. QED
  BY <1>1, <1>10, <1>11, <1>12 DEF LaidOut

(* How many frames there are, and that a memory which ends below the       *)
(* tables wraps to more of them than the array has room for.               *)
LEMMA Frames ==
  ASSUME TypeOK, LaidOut
  PROVE  /\ Pa(phy_pages) = AboveTables
         /\ pfn_pages \in Nat
         /\ ArrayTooLong <=> AboveTables + PAGE * pfn_pages > TMP
         /\ max_phy_addr < AboveTables => ArrayTooLong
         /\ AboveTables <= max_phy_addr =>
              /\ PAGE * PagesAbove(phy_pages) = max_phy_addr - AboveTables
              /\ PagesAbove(phy_pages) \in Nat
         /\ 4096 * pfn_pages >= SIZEOF_PAGE * PagesAbove(phy_pages)
         /\ 4096 * pfn_pages <= SIZEOF_PAGE * PagesAbove(phy_pages) + 4095
<1>1. /\ AboveTables \in Nat /\ AboveTables % PAGE = 0 /\ AboveTables <= 8196
      /\ AboveTables < WORD - PAGE_OFFSET /\ pte_pages \in Nat
  BY Bounds, TableSizes DEF LaidOut
<1>2. phy_pages = PAGE_OFFSET + AboveTables
  <2>1. phy_pages = PAGE_OFFSET + Aligned + PAGE + PAGE * pte_pages
    BY DEF LaidOut
  <2>2. Aligned \in Nat
    BY AlignedImage
  <2>3. QED
    BY SMT, <1>1, <2>1, <2>2 DEF AboveTables, PAGE_OFFSET, PAGE
<1>3. Pa(phy_pages) = AboveTables
  BY <1>1, <1>2, Small
<1> DEFINE P == AboveTables
           M == max_phy_addr
           c == PagesAbove(phy_pages)
<1>4. /\ P \in Nat /\ P % PAGE = 0 /\ P <= 8196
      /\ M \in Nat /\ M < WORD /\ M % PAGE = 0
      /\ c = W32(M - P) \div PAGE
  BY <1>1, <1>3 DEF PagesAbove, TypeOK
<1> HIDE DEF P, M, c
<1>5. P <= M => c \in Nat /\ PAGE * c = M - P
  <2> SUFFICES ASSUME P <= M PROVE c \in Nat /\ PAGE * c = M - P
    OBVIOUS
  <2>1. M - P \in Int /\ 0 <= M - P /\ M - P < WORD
    BY SMT, <1>4 DEF WORD
  <2>2. W32(M - P) = M - P
    BY <2>1, Word
  <2>3. c = (M - P) \div PAGE
    BY <1>4, <2>2
  <2>4. QED
    BY SMT, <1>4, <2>3 DEF PAGE
<1>6. M < P => c \in Nat /\ c >= 1046520
  <2> SUFFICES ASSUME M < P PROVE c \in Nat /\ c >= 1046520
    OBVIOUS
  <2>1. M - P \in Int /\ -WORD <= M - P /\ M - P < 0
    BY SMT, <1>4 DEF WORD
  <2>2. W32(M - P) = (M - P) + WORD
    BY <2>1, Word
  <2>3. c = ((M - P) + WORD) \div PAGE
    BY <1>4, <2>2
  <2>4. QED
    BY SMT, <1>4, <2>3 DEF PAGE, WORD
<1>7. c \in Nat
  BY SMT, <1>4, <1>5, <1>6
<1>8. /\ pfn_pages \in Nat /\ 4096 * pfn_pages >= SIZEOF_PAGE * c
      /\ 4096 * pfn_pages <= SIZEOF_PAGE * c + 4095
  <2>1. pfn_pages = ArrayPages(c)
    BY DEF LaidOut, c
  <2>2. QED
    BY <1>7, <2>1, ArraySize
<1>9. M < P => P + PAGE * pfn_pages > TMP
  BY SMT, <1>4, <1>6, <1>8 DEF SIZEOF_PAGE, PAGE, TMP
<1>10. ArrayTooLong <=> P + PAGE * pfn_pages > TMP
  BY <1>3 DEF ArrayTooLong, P
<1>11. QED
  BY <1>3, <1>5, <1>7, <1>8, <1>9, <1>10 DEF P, M, c

(* The new tables map every page of memory in the lowest GB, and nothing   *)
(* above it.                                                               *)
LEMMA Mapped ==
  ASSUME TypeOK, LaidOut, pgd_set = pte_pages, pte_set = max_phy_addr \div PAGE,
         NEW x \in Int, 0 < x, x < max_phy_addr, x < WORD - PAGE_OFFSET
  PROVE  DirectMapped(x)
<1>1. /\ Aligned \in Nat /\ Aligned % PAGE = 0 /\ pte_pages \in Nat
      /\ pte_pages = PtePages(max_phy_addr)
      /\ pte_set \in Nat /\ max_phy_addr = PAGE * pte_set
      /\ 1024 * pte_pages >= pte_set
  BY AlignedImage, TableSizes DEF LaidOut
<1> DEFINE va == x + PAGE_OFFSET
           d == x \div 4096
<1>2. Va(x) = va
  <2>1. x # 0 /\ W32(x + PAGE_OFFSET) = x + PAGE_OFFSET
    BY Small
  <2>2. QED
    BY <2>1 DEF Va
<1>3. /\ PgdIndex(va) = 768 + d /\ PteIndex(va) = (x \div 4) % 1024
      /\ d \in Nat /\ x \div 4 \in Nat /\ 1024 * d + ((x \div 4) % 1024) = x \div 4
      /\ (x \div 4) % 1024 \in Nat
  <2>1. PgdIndex(va) = 768 + d
    BY SMT DEF PgdIndex, PTE_SIZE, PAGE, PAGE_OFFSET, WORD
  <2>2. PteIndex(va) = (x \div 4) % 1024
    BY SMT DEF PteIndex, PTE_SIZE, PAGE, PAGE_OFFSET, WORD
  <2>3. x \in Nat
    OBVIOUS
  <2>4. /\ x \div 4 \in Nat /\ (x \div 4) % 1024 \in Nat /\ d \in Nat
        /\ 1024 * (x \div 4096) + ((x \div 4) % 1024) = x \div 4
    BY <2>3, Indices
  <2>5. QED
    BY <2>1, <2>2, <2>3, <2>4
<1>4. x \div 4 < pte_set /\ d < pte_pages
  <2>1. x < 4 * pte_set
    BY <1>1 DEF PAGE
  <2>2. x \div 4 < pte_set
    BY SMT, <1>1, <2>1
  <2>3. 1024 * d < 1024 * pte_pages
    BY SMT, <1>1, <1>3, <2>2
  <2>4. QED
    BY SMT, <1>1, <1>3, <2>2, <2>3
<1> HIDE DEF va, d
<1>5. PgdStart = 768
  BY SMT DEF PgdStart, PgdIndex, PTE_SIZE, PAGE, PAGE_OFFSET
<1>6. PteFrame(d) = (Aligned + PAGE) \div PAGE + d /\ Pa(kern_pte) = Aligned + PAGE
  <2> DEFINE y == Aligned + PAGE + PAGE * d
             z == Aligned + PAGE + PAGE * 0
  <2>1. /\ y \in Int /\ 0 <= y /\ y < WORD - PAGE_OFFSET
        /\ z \in Int /\ 0 <= z /\ z < WORD - PAGE_OFFSET
    BY <1>1, <1>3, <1>4, Bounds
  <2>2. kern_pte = PAGE_OFFSET + Aligned + PAGE
    BY DEF LaidOut
  <2>3. kern_pte + PAGE * d = y + PAGE_OFFSET /\ kern_pte = PAGE_OFFSET + z
    BY SMT, <1>1, <1>3, <2>2 DEF PAGE_OFFSET, PAGE
  <2>4. y \div PAGE = (Aligned + PAGE) \div PAGE + d /\ z = Aligned + PAGE
    BY SMT, <1>1, <1>3 DEF PAGE
  <2> HIDE DEF y, z
  <2>5. W32(kern_pte + PAGE * d) = PAGE_OFFSET + y
    <3>1. W32(y + PAGE_OFFSET) = y + PAGE_OFFSET /\ y + PAGE_OFFSET = PAGE_OFFSET + y
      BY SMT, <2>1, Small DEF PAGE_OFFSET
    <3>2. QED
      BY <2>3, <3>1
  <2>6. Pa(PAGE_OFFSET + y) = y /\ Pa(kern_pte) = z
    BY <2>1, <2>3, Small
  <2>7. QED
    BY <2>4, <2>5, <2>6 DEF PteFrame
<1>7. KPgd(768 + d) = (Aligned + PAGE) \div PAGE + d
  <2>1. 768 + d \in PgdStart..PgdStart + pgd_set - 1 /\ (768 + d) - PgdStart = d
    BY SMT, <1>1, <1>3, <1>4, <1>5
  <2>2. QED
    BY <1>6, <2>1 DEF KPgd
<1>8. (Aligned + PAGE) \div PAGE \in Nat
  BY SMT, <1>1 DEF PAGE
<1>9. KPgd(PgdIndex(va)) # STALE
  <2>1. (Aligned + PAGE) \div PAGE + d \in Nat
    BY <1>3, <1>8
  <2>2. QED
    BY <1>3, <1>7, <2>1, MapsAssumption
<1>10. /\ PTE_SIZE * (KPgd(PgdIndex(va)) - Pa(kern_pte) \div PAGE) + PteIndex(va) = x \div 4
  <2>1. ((Aligned + PAGE) \div PAGE + d) - (Aligned + PAGE) \div PAGE = d
    BY <1>3, <1>8
  <2>2. KPgd(PgdIndex(va)) - Pa(kern_pte) \div PAGE = d
    BY <1>3, <1>6, <1>7, <2>1
  <2>3. QED
    BY <1>3, <2>2 DEF PTE_SIZE, d
<1>11. Translate(va) = x \div 4
  BY <1>4, <1>9, <1>10 DEF Translate, KPte
<1>12. QED
  BY <1>2, <1>11 DEF DirectMapped, PAGE

LEMMA NotMapped ==
  ASSUME TypeOK, LaidOut, pgd_set = pte_pages,
         NEW x \in Int, WORD - PAGE_OFFSET <= x, x < WORD
  PROVE  ~DirectMapped(x)
<1> DEFINE va == x - (WORD - PAGE_OFFSET)
<1>1. x # 0 /\ Va(x) = va
  <2>1. /\ x + PAGE_OFFSET \in Int /\ WORD <= x + PAGE_OFFSET
        /\ x + PAGE_OFFSET < 2 * WORD /\ (x + PAGE_OFFSET) - WORD = va /\ x # 0
    BY SMT DEF WORD, PAGE_OFFSET
  <2>2. W32(x + PAGE_OFFSET) = va
    BY <2>1, Word
  <2>3. QED
    BY <2>1, <2>2 DEF Va
<1>2. PgdIndex(va) \in Int /\ PgdIndex(va) < PgdStart
  BY SMT DEF PgdStart, PgdIndex, PTE_SIZE, PAGE, PAGE_OFFSET, WORD
<1>3. PgdStart \in Int
  BY SMT DEF PgdStart, PgdIndex, PTE_SIZE, PAGE, PAGE_OFFSET
<1> HIDE DEF va
<1>4. KPgd(PgdIndex(va)) = STALE
  <2>1. pgd_set \in Nat
    BY TableSizes DEF LaidOut
  <2>2. PgdIndex(va) \notin PgdStart..PgdStart + pgd_set - 1
    BY SMT, <1>2, <1>3, <2>1
  <2>3. QED
    BY <2>2 DEF KPgd
<1>5. Translate(va) = STALE
  BY <1>4 DEF Translate
<1>6. x \div PAGE \in Nat
  BY SMT DEF PAGE, WORD, PAGE_OFFSET
<1>7. QED
  BY <1>1, <1>5, <1>6, MapsAssumption DEF DirectMapped

-----------------------------------------------------------------------------
(* The inductive invariant, action by action.                              *)
LEMMA Start == Init => IInv
<1> SUFFICES ASSUME Init PROVE IInv
  OBVIOUS
<1>1. /\ boot = "scan" /\ mmap \in Seq(Region) /\ entry = 1 /\ max_phy_addr = 0
      /\ kern_end \in LOW..(TMP \div 4)
  BY MapsAssumption DEF Init
<1>2. max_phy_addr \in Nat /\ max_phy_addr < WORD /\ max_phy_addr % PAGE = 0
  BY SMT, <1>1 DEF WORD, PAGE
<1>3. TypeOK
  BY <1>1, <1>2 DEF TypeOK
<1>4. Scanned
  <2> SUFFICES ASSUME NEW m \in DOMAIN mmap, entry > m PROVE FALSE
    BY DEF Scanned
  <2>1. m \in 1..Len(mmap)
    BY <1>1
  <2>2. QED
    BY <1>1, <2>1
<1>5. QED
  BY <1>1, <1>3, <1>4 DEF IInv

(* What depends on the map and on the layout alone. *)
LEMMA Kept ==
  ASSUME UNCHANGED <<mmap, entry, kern_end, max_phy_addr, layout>>
  PROVE  /\ LaidOut' <=> LaidOut
         /\ ArrayTooLong' <=> ArrayTooLong
         /\ Scanned' <=> Scanned
         /\ (Pa(phy_pages) + PAGE * pfn_pages)' = Pa(phy_pages) + PAGE * pfn_pages
         /\ TypeOK /\ boot' \in {"free", "pte", "cr3", "slob", "up", "fault"} => TypeOK'
<1>1. /\ mmap' = mmap /\ entry' = entry /\ kern_end' = kern_end
      /\ max_phy_addr' = max_phy_addr /\ kern_pgd' = kern_pgd
      /\ kern_pte' = kern_pte /\ pte_pages' = pte_pages /\ phy_pages' = phy_pages
      /\ pfn_pages' = pfn_pages /\ phy_page_count' = phy_page_count
  BY DEF layout
<1>2. LaidOut' <=> LaidOut
  BY <1>1 DEF LaidOut, Aligned, PagesAbove
<1>3. ArrayTooLong' <=> ArrayTooLong
  BY <1>1 DEF ArrayTooLong
<1>4. Scanned' <=> Scanned
  BY <1>1 DEF Scanned, Only
<1>5. (Pa(phy_pages) + PAGE * pfn_pages)' = Pa(phy_pages) + PAGE * pfn_pages
  BY <1>1
<1>6. TypeOK /\ boot' \in {"free", "pte", "cr3", "slob", "up", "fault"} => TypeOK'
  BY <1>1 DEF TypeOK
<1>7. QED
  BY <1>2, <1>3, <1>4, <1>5, <1>6

LEMMA ScanKeeps ==
  ASSUME IInv, ScanRegion
  PROVE  IInv'
<1>1. /\ boot = "scan" /\ boot' = "scan" /\ entry <= Len(mmap) /\ entry' = entry + 1
      /\ mmap' = mmap /\ kern_end' = kern_end
      /\ max_phy_addr' = IF Counts(mmap[entry])
                         THEN PageMask(W32(W32(mmap[entry].base) + W32(mmap[entry].len)))
                         ELSE max_phy_addr
  BY DEF ScanRegion
<1>2. /\ mmap \in Seq(Region) /\ entry \in Nat \ {0} /\ kern_end \in LOW..(TMP \div 4)
      /\ max_phy_addr \in Nat /\ max_phy_addr < WORD /\ max_phy_addr % PAGE = 0
  BY DEF IInv, TypeOK
<1>3. entry \in DOMAIN mmap /\ mmap[entry].base \in Nat /\ mmap[entry].len \in Nat
  <2>1. entry \in DOMAIN mmap /\ mmap[entry] \in Region
    BY <1>1, <1>2
  <2>2. QED
    BY <2>1 DEF Region
<1> DEFINE end == W32(W32(mmap[entry].base) + W32(mmap[entry].len))
<1>4. /\ PageMask(end) \in Nat /\ PageMask(end) < WORD /\ PageMask(end) % PAGE = 0
  <2>1. W32(mmap[entry].base) \in Int /\ W32(mmap[entry].len) \in Int
    BY <1>3, Word
  <2>2. W32(mmap[entry].base) + W32(mmap[entry].len) \in Int
    BY <2>1
  <2>3. end \in Int /\ 0 <= end /\ end < WORD
    BY <2>2, Word
  <2> HIDE DEF end
  <2>4. end \in Nat /\ WORD \in Int
    BY SMT, <2>3 DEF WORD
  <2>5. PageMask(end) \in Nat /\ PageMask(end) % PAGE = 0 /\ PageMask(end) <= end
    BY <2>4, Masked
  <2>6. QED
    BY <2>3, <2>4, <2>5
<1>5. TypeOK'
  <2>1. max_phy_addr' \in Nat /\ max_phy_addr' < WORD /\ max_phy_addr' % PAGE = 0
    BY <1>1, <1>2, <1>4
  <2>2. entry' \in Nat \ {0}
    BY <1>1, <1>2
  <2>3. QED
    BY <1>1, <1>2, <2>1, <2>2 DEF TypeOK
<1>6. Scanned'
  <2> SUFFICES ASSUME NEW m \in DOMAIN mmap, Only(m), entry + 1 > m
               PROVE  max_phy_addr' =
                        PageMask(W32(W32(mmap[m].base) + W32(mmap[m].len)))
    BY <1>1 DEF Scanned, Only
  <2>1. Counts(mmap[entry]) <=> entry = m
    BY <1>3 DEF Only
  <2>2. CASE entry = m
    BY <1>1, <2>1, <2>2
  <2>3. CASE entry # m
    <3>1. entry > m
      BY <1>2, <2>3
    <3>2. max_phy_addr' = max_phy_addr
      BY <1>1, <2>1, <2>3
    <3>3. QED
      BY <3>1, <3>2 DEF IInv, Scanned
  <2>4. QED
    BY <2>2, <2>3
<1>7. QED
  BY <1>1, <1>5, <1>6 DEF IInv

LEMMA LayoutKeeps ==
  ASSUME IInv, Layout
  PROVE  IInv'
<1>1. /\ boot' = "bzero" /\ mmap' = mmap /\ entry' = entry /\ kern_end' = kern_end
      /\ max_phy_addr' = max_phy_addr
  BY DEF Layout
<1>2. TypeOK'
  BY <1>1 DEF IInv, TypeOK
<1>3. Scanned'
  BY <1>1 DEF IInv, Scanned, Only
<1>4. LaidOut'
  BY LayoutSteps DEF IInv
<1>5. QED
  BY <1>1, <1>2, <1>3, <1>4 DEF IInv

LEMMA ClearKeeps ==
  ASSUME IInv, ClearArray
  PROVE  IInv'
<1>1. /\ boot = "bzero" /\ TypeOK /\ Scanned /\ LaidOut
      /\ UNCHANGED <<mmap, entry, kern_end, max_phy_addr, layout>>
  BY DEF IInv, ClearArray, Fault
<1>2. /\ LaidOut' /\ Scanned' /\ (ArrayTooLong' <=> ArrayTooLong)
      /\ (Pa(phy_pages) + PAGE * pfn_pages)' = Pa(phy_pages) + PAGE * pfn_pages
  BY <1>1, Kept
<1> DEFINE mapped == TmpMapped(phy_pages, ArrayEnd)
<1>3. /\ mapped <=> ~ArrayTooLong
      /\ ~ArrayTooLong => W32(Pa(phy_pages) + PAGE * pfn_pages)
                            = Pa(phy_pages) + PAGE * pfn_pages
  <2>1. /\ Pa(phy_pages) = AboveTables /\ pfn_pages \in Nat
        /\ ArrayTooLong <=> AboveTables + PAGE * pfn_pages > TMP
    BY <1>1, Frames
  <2>2. AboveTables \in Nat /\ Aligned \in Nat /\ pte_pages \in Nat
    BY <1>1, Bounds, AlignedImage, TableSizes DEF LaidOut
  <2>3. phy_pages = PAGE_OFFSET + Aligned + PAGE + PAGE * pte_pages
    BY <1>1 DEF LaidOut
  <2>4. phy_pages = PAGE_OFFSET + AboveTables
    BY SMT, <2>2, <2>3 DEF AboveTables, PAGE_OFFSET, PAGE
  <2> DEFINE e == AboveTables + PAGE * pfn_pages
  <2>5. mapped <=> e <= TMP
    BY SMT, <2>1, <2>2, <2>4 DEF TmpMapped, ArrayEnd, PAGE_OFFSET, TMP, PAGE
  <2>6. e <= TMP => e \in Int /\ 0 <= e /\ e < WORD
    BY SMT, <2>1, <2>2 DEF TMP, WORD, PAGE
  <2>7. e \in Int /\ TMP \in Int
    BY SMT, <2>1, <2>2 DEF TMP, PAGE
  <2> HIDE DEF e, mapped
  <2>8. ArrayTooLong <=> ~(e <= TMP)
    BY <2>1, <2>7 DEF e
  <2>9. e <= TMP => W32(e) = e
    BY <2>6, Word
  <2>10. QED
    BY <2>1, <2>5, <2>8, <2>9 DEF e
<1>4. CASE ~mapped
  <2>1. boot' = "fault"
    BY <1>1, <1>4 DEF ClearArray, Fault
  <2>2. TypeOK'
    BY <1>1, <2>1, Kept
  <2>3. ArrayTooLong'
    BY <1>2, <1>3, <1>4
  <2>4. QED
    BY <1>2, <2>1, <2>2, <2>3 DEF IInv
<1>5. CASE mapped
  <2>1. boot' = "free" /\ min_phy_addr' = W32(Pa(phy_pages) + PAGE * pfn_pages)
    BY <1>1, <1>5 DEF ClearArray
  <2>2. TypeOK'
    BY <1>1, <2>1, Kept
  <2>3. ~ArrayTooLong' /\ min_phy_addr' = (Pa(phy_pages) + PAGE * pfn_pages)'
    BY <1>2, <1>3, <1>5, <2>1
  <2>4. QED
    BY <1>2, <2>1, <2>2, <2>3 DEF IInv
<1>6. QED
  BY <1>4, <1>5

LEMMA MapTablesKeeps ==
  ASSUME IInv, MapTables
  PROVE  IInv'
<1>1. /\ boot = "free" /\ boot' = "pte" /\ pgd_set' = pte_pages
      /\ UNCHANGED <<mmap, entry, kern_end, max_phy_addr, layout>>
      /\ pte_pages' = pte_pages /\ min_phy_addr' = min_phy_addr
  BY DEF MapTables, layout
<1>2. /\ TypeOK /\ Scanned /\ LaidOut /\ ~ArrayTooLong
      /\ min_phy_addr = Pa(phy_pages) + PAGE * pfn_pages
  BY <1>1 DEF IInv
<1>3. /\ TypeOK' /\ LaidOut' /\ Scanned' /\ ~ArrayTooLong'
      /\ min_phy_addr' = (Pa(phy_pages) + PAGE * pfn_pages)'
  BY <1>1, <1>2, Kept
<1>4. QED
  BY <1>1, <1>3 DEF IInv

LEMMA MapPagesKeeps ==
  ASSUME IInv, MapPages
  PROVE  IInv'
<1>1. /\ boot = "pte" /\ boot' = "cr3" /\ pte_set' = PfnUp(max_phy_addr)
      /\ UNCHANGED <<mmap, entry, kern_end, max_phy_addr, layout>>
      /\ pte_pages' = pte_pages /\ min_phy_addr' = min_phy_addr
      /\ pgd_set' = pgd_set /\ max_phy_addr' = max_phy_addr
  BY DEF MapPages, PteLoop, layout
<1>2. /\ TypeOK /\ Scanned /\ LaidOut /\ ~ArrayTooLong /\ pgd_set = pte_pages
      /\ min_phy_addr = Pa(phy_pages) + PAGE * pfn_pages
  BY <1>1 DEF IInv
<1>3. /\ TypeOK' /\ LaidOut' /\ Scanned' /\ ~ArrayTooLong'
      /\ min_phy_addr' = (Pa(phy_pages) + PAGE * pfn_pages)'
  BY <1>1, <1>2, Kept
<1>4. pte_set' = max_phy_addr' \div PAGE
  BY <1>1, <1>2, TableSizes DEF LaidOut
<1>5. QED
  BY <1>1, <1>2, <1>3, <1>4 DEF IInv

(* If the array could be cleared, memory ends above the tables, so the     *)
(* kernel's own pages are among those the new tables map.                  *)
LEMMA KernelMapped ==
  ASSUME TypeOK, LaidOut, ~ArrayTooLong, pgd_set = pte_pages,
         pte_set = max_phy_addr \div PAGE
  PROVE  DirectMapped(LOW) /\ DirectMapped(kern_end - 1)
<1>1. /\ kern_end \in Nat /\ LOW <= kern_end /\ kern_end <= Aligned
      /\ Aligned \in Nat
  BY AlignedImage
<1>2. AboveTables \in Nat /\ Aligned < AboveTables /\ AboveTables < WORD - PAGE_OFFSET
  BY Bounds DEF LaidOut
<1>3. max_phy_addr \in Nat /\ AboveTables <= max_phy_addr
  <2>1. max_phy_addr \in Nat /\ ~(max_phy_addr < AboveTables)
    BY Frames DEF TypeOK
  <2>2. QED
    BY <1>2, <2>1
<1>4. \A x \in {LOW, kern_end - 1} :
        x \in Int /\ 0 < x /\ x < max_phy_addr /\ x < WORD - PAGE_OFFSET
  <2>1. LOW \in Int /\ 1 < LOW /\ WORD - PAGE_OFFSET \in Int
    BY SMT DEF LOW, WORD, PAGE_OFFSET
  <2>2. QED
    BY <1>1, <1>2, <1>3, <2>1
<1>5. QED
  BY <1>4, Mapped

LEMMA LoadKeeps ==
  ASSUME IInv, LoadCr3
  PROVE  IInv'
<1>1. /\ boot = "cr3" /\ UNCHANGED <<mmap, entry, kern_end, max_phy_addr, layout>>
      /\ pte_pages' = pte_pages /\ min_phy_addr' = min_phy_addr
      /\ pgd_set' = pgd_set /\ pte_set' = pte_set /\ max_phy_addr' = max_phy_addr
  BY DEF LoadCr3, Fault, layout, tables
<1>2. /\ TypeOK /\ Scanned /\ LaidOut /\ ~ArrayTooLong /\ pgd_set = pte_pages
      /\ pte_set = max_phy_addr \div PAGE
      /\ min_phy_addr = Pa(phy_pages) + PAGE * pfn_pages
  BY <1>1 DEF IInv
<1>3. boot' = "slob"
  BY <1>2, KernelMapped DEF LoadCr3
<1>4. /\ TypeOK' /\ LaidOut' /\ Scanned' /\ ~ArrayTooLong'
      /\ min_phy_addr' = (Pa(phy_pages) + PAGE * pfn_pages)'
  BY <1>1, <1>2, <1>3, Kept
<1>5. QED
  BY <1>1, <1>2, <1>3, <1>4 DEF IInv

(* The frames end where memory ends, and slob's block is among them.       *)
LEMMA BlockPlace ==
  ASSUME TypeOK, LaidOut, ~ArrayTooLong,
         min_phy_addr = Pa(phy_pages) + PAGE * pfn_pages
  PROVE  /\ min_phy_addr \in Nat /\ phy_page_count \in Int /\ AboveTables <= min_phy_addr
         /\ min_phy_addr + PAGE * phy_page_count = max_phy_addr
         /\ phy_page_count >= BLOCK =>
              /\ Block \in Nat /\ min_phy_addr <= Block
              /\ Block + PAGE * BLOCK <= max_phy_addr
<1>1. /\ AboveTables \in Nat /\ Aligned < AboveTables /\ Aligned \in Nat
      /\ max_phy_addr \in Nat /\ max_phy_addr < WORD
  BY Bounds, AlignedImage DEF LaidOut, TypeOK
<1>2. AboveTables <= max_phy_addr
  <2>1. ~(max_phy_addr < AboveTables)
    BY Frames
  <2>2. QED
    BY <1>1, <2>1
<1> DEFINE c == PagesAbove(phy_pages)
<1>3. /\ Pa(phy_pages) = AboveTables /\ pfn_pages \in Nat /\ c \in Nat
      /\ PAGE * c = max_phy_addr - AboveTables
      /\ phy_page_count = c - pfn_pages
  BY <1>2, Frames DEF LaidOut
<1> HIDE DEF c
<1>4. /\ min_phy_addr \in Nat /\ phy_page_count \in Int /\ AboveTables <= min_phy_addr
      /\ min_phy_addr + PAGE * phy_page_count = max_phy_addr
      /\ 0 < min_phy_addr
  BY SMT, <1>1, <1>3 DEF PAGE
<1>5. ASSUME phy_page_count >= BLOCK
      PROVE  /\ Block \in Nat /\ min_phy_addr <= Block
             /\ Block + PAGE * BLOCK <= max_phy_addr
  <2> DEFINE q == phy_page_count \div BLOCK
             x == min_phy_addr + PAGE * (BLOCK * (q - 1))
  <2>1. q \in Nat /\ 1 <= q /\ BLOCK * q <= phy_page_count
    BY SMT, <1>4, <1>5 DEF BLOCK
  <2>2. Block = W32(x)
    <3>1. ~NoBlock
      BY SMT, <1>4, <1>5 DEF NoBlock, BLOCK
    <3>2. QED
      BY <3>1 DEF Block, LastBlock, PageAddress
  <2> HIDE DEF q
  <2>3. x \in Nat /\ min_phy_addr <= x /\ x + PAGE * BLOCK <= max_phy_addr
    BY SMT, <1>4, <2>1 DEF PAGE, BLOCK
  <2>4. x \in Int /\ 0 <= x /\ x < WORD
    BY SMT, <1>1, <2>3 DEF PAGE, BLOCK, WORD
  <2> HIDE DEF x
  <2>5. W32(x) = x
    BY <2>4, Word
  <2>6. QED
    BY <2>2, <2>3, <2>5
<1>6. QED
  BY <1>4, <1>5

(* No page from the end of memory on is mapped to itself.                  *)
LEMMA Beyond ==
  ASSUME TypeOK, LaidOut, pgd_set = pte_pages, pte_set = max_phy_addr \div PAGE,
         NEW x \in Int, max_phy_addr <= x, 0 < x, x < WORD - PAGE_OFFSET
  PROVE  ~DirectMapped(x)
<1>1. /\ Aligned \in Nat /\ Aligned % PAGE = 0 /\ pte_pages \in Nat
      /\ pte_pages = PtePages(max_phy_addr)
      /\ pte_set \in Nat /\ max_phy_addr = PAGE * pte_set
      /\ 1024 * pte_pages <= pte_set + 1023
  BY AlignedImage, TableSizes DEF LaidOut
<1> DEFINE va == x + PAGE_OFFSET
           d == x \div 4096
<1>2. Va(x) = va
  <2>1. x # 0 /\ W32(x + PAGE_OFFSET) = x + PAGE_OFFSET
    BY Small
  <2>2. QED
    BY <2>1 DEF Va
<1>3. /\ PgdIndex(va) = 768 + d /\ PteIndex(va) = (x \div 4) % 1024
      /\ d \in Nat /\ x \div 4 \in Nat /\ 1024 * d + ((x \div 4) % 1024) = x \div 4
      /\ pte_set <= x \div 4
  BY SMT, <1>1 DEF PgdIndex, PteIndex, PTE_SIZE, PAGE, PAGE_OFFSET, WORD
<1> DEFINE j == x \div 4
<1> HIDE DEF va, d, j
<1>4. PgdStart = 768
  BY SMT DEF PgdStart, PgdIndex, PTE_SIZE, PAGE, PAGE_OFFSET
<1>5. CASE ~(d < pte_pages)
  <2>1. 768 + d \notin PgdStart..PgdStart + pgd_set - 1
    BY SMT, <1>1, <1>3, <1>4, <1>5
  <2>2. Translate(va) = STALE
    BY <1>3, <2>1 DEF Translate, KPgd
  <2>3. QED
    BY <1>2, <1>3, <2>2, MapsAssumption DEF DirectMapped, PAGE
<1>6. CASE d < pte_pages
  <2> DEFINE first == Pa(kern_pte) \div PAGE
  <2>1. 768 + d \in PgdStart..PgdStart + pgd_set - 1 /\ (768 + d) - PgdStart = d
    BY SMT, <1>1, <1>3, <1>4, <1>6
  <2>2. KPgd(768 + d) = PteFrame(d)
    BY <2>1 DEF KPgd
  <2>3. PteFrame(d) = first + d /\ first \in Nat
    <3>1. kern_pte = PAGE_OFFSET + (Aligned + PAGE) /\ Aligned + PAGE \in Nat
      BY SMT, <1>1 DEF LaidOut, PAGE, PAGE_OFFSET
    <3>2. /\ Aligned + PAGE + PAGE * d \in Int /\ 0 <= Aligned + PAGE + PAGE * d
          /\ Aligned + PAGE + PAGE * d < WORD - PAGE_OFFSET
          /\ Aligned + PAGE + PAGE * 0 < WORD - PAGE_OFFSET
      BY SMT, <1>1, <1>3, <1>6, Bounds
    <3>3. Pa(kern_pte) = Aligned + PAGE
      <4>1. Aligned + PAGE \in Int /\ 0 <= Aligned + PAGE /\ Aligned + PAGE < WORD - PAGE_OFFSET
        BY SMT, <1>1, <3>2 DEF PAGE
      <4>2. QED
        BY <3>1, <4>1, Small
    <3>4. Pa(W32(kern_pte + PAGE * d)) = Aligned + PAGE + PAGE * d
      <4> DEFINE y == Aligned + PAGE + PAGE * d
      <4>1. kern_pte + PAGE * d = y + PAGE_OFFSET /\ kern_pte + PAGE * d = PAGE_OFFSET + y
        BY SMT, <1>1, <1>3, <3>1 DEF PAGE, PAGE_OFFSET
      <4> HIDE DEF y
      <4>2. y \in Int /\ 0 <= y /\ y < WORD - PAGE_OFFSET
        BY <3>2 DEF y
      <4>3. W32(y + PAGE_OFFSET) = y + PAGE_OFFSET /\ Pa(PAGE_OFFSET + y) = y
        BY <4>2, Small
      <4>4. Pa(W32(kern_pte + PAGE * d)) = y
        BY <4>1, <4>3
      <4>5. QED
        BY <4>4 DEF y
    <3>5. QED
      BY SMT, <1>1, <1>3, <3>3, <3>4 DEF PteFrame, PAGE
  <2> HIDE DEF first
  <2>4. PteFrame(d) # STALE
    BY <1>3, <2>3, MapsAssumption
  <2>5. PTE_SIZE * (PteFrame(d) - first) + PteIndex(va) = j
    BY SMT, <1>3, <2>3 DEF PTE_SIZE, j
  <2>6. Translate(va) = KPte(j)
    BY <1>3, <2>2, <2>4, <2>5 DEF Translate, first
  <2>7. ~(j < pte_set) /\ PTE_SIZE + j \notin PgdStart..PgdStart + pgd_set - 1
    BY SMT, <1>1, <1>3, <1>4, <1>6 DEF PTE_SIZE, j
  <2>8. KPte(j) = STALE
    BY <2>7 DEF KPte, KPgd
  <2>9. QED
    BY <1>2, <1>3, <2>6, <2>8, MapsAssumption DEF DirectMapped, PAGE
<1>7. QED
  BY <1>5, <1>6

(* The address made of NULL is past the end of memory, or, where the frame *)
(* array begins at 4 MB, the first frame's.  Without a block there are     *)
(* fewer than 9 MB, so three page tables at most, and the array begins no  *)
(* later than 16 KB past 4 MB: only past that would the address wrap and   *)
(* be mapped again.                                                        *)
LEMMA NullPlace ==
  ASSUME TypeOK, LaidOut, ~ArrayTooLong, pgd_set = pte_pages,
         pte_set = max_phy_addr \div PAGE,
         min_phy_addr = Pa(phy_pages) + PAGE * pfn_pages, NoBlock
  PROVE  /\ DirectMapped(Block) <=> NullMapped
         /\ NullMapped => /\ Block = min_phy_addr
                          /\ min_phy_addr + PAGE * BLOCK > max_phy_addr
<1> DEFINE A == AboveTables
           a == A \div 4
           c == PagesAbove(phy_pages)
           gap == (-INVERSE5 * (phy_pages \div PAGE)) % 1024
           x == min_phy_addr + PAGE * (1024 * gap)
<1>1. /\ A \in Nat /\ A % PAGE = 0 /\ Pa(phy_pages) = A
      /\ A = Aligned + PAGE + PAGE * pte_pages
      /\ Aligned \in Nat /\ LOW <= Aligned /\ Aligned <= TMP \div 4
      /\ max_phy_addr \in Nat /\ max_phy_addr < WORD
  BY Bounds, AlignedImage, Frames DEF LaidOut, TypeOK, AboveTables
<1>2. /\ min_phy_addr \in Nat /\ phy_page_count \in Int /\ A <= min_phy_addr
      /\ min_phy_addr + PAGE * phy_page_count = max_phy_addr
      /\ phy_page_count < BLOCK
  BY BlockPlace DEF NoBlock
<1>3. /\ pfn_pages \in Nat /\ min_phy_addr = A + PAGE * pfn_pages
      /\ c \in Nat /\ phy_page_count = c - pfn_pages
      /\ 4096 * pfn_pages <= SIZEOF_PAGE * c + 4095
  <2>1. ~(max_phy_addr < A)
    BY Frames
  <2>2. A <= max_phy_addr
    BY <1>1, <2>1
  <2>3. QED
    BY <1>1, <2>2, Frames DEF LaidOut
<1>4. /\ pte_pages \in Nat /\ 1024 * pte_pages <= (max_phy_addr \div PAGE) + 1023
      /\ pte_pages = PtePages(max_phy_addr)
  BY TableSizes DEF LaidOut
<1>5. phy_pages = PAGE_OFFSET + A
  <2>1. phy_pages = PAGE_OFFSET + Aligned + PAGE + PAGE * pte_pages
    BY DEF LaidOut
  <2> HIDE DEF A
  <2>2. QED
    BY SMT, <1>1, <1>4, <2>1 DEF PAGE_OFFSET, PAGE
<1> HIDE DEF A, c
<1>6. pfn_pages <= 6
  BY SMT, <1>2, <1>3 DEF SIZEOF_PAGE, BLOCK
<1>7. pte_pages <= 3
  BY SMT, <1>1, <1>2, <1>3, <1>4, <1>6 DEF PAGE, BLOCK, TMP
<1>8. a \in Nat /\ 257 <= a /\ a <= 1028 /\ A = 4 * a /\ phy_pages \div PAGE = 786432 + a
  BY SMT, <1>1, <1>4, <1>5, <1>7 DEF PAGE, LOW, TMP, PAGE_OFFSET
<1> HIDE DEF a
<1>9. gap = (-205 * a) % 1024 /\ gap \in 0..1023
  BY SMT, <1>8 DEF INVERSE5
<1>10. gap = 0 <=> a = 1024
  BY SMT, <1>8, <1>9
<1>11. gap # 1023
  BY SMT, <1>8, <1>9
<1>12. Block = W32(x)
  BY DEF Block, NoBlock, NullPfn, PageAddress
<1> HIDE DEF gap
<1>13. x \in Int /\ 0 < x /\ x < WORD
  BY SMT, <1>1, <1>2, <1>3, <1>6, <1>8, <1>9, <1>11 DEF PAGE, WORD
<1>14. Block = x
  BY <1>12, <1>13, Word
<1>15. NullMapped <=> gap = 0 /\ phy_page_count > 0
  BY SMT, <1>1, <1>8, <1>10 DEF NullMapped, LOW
<1>16. ASSUME NullMapped
       PROVE  Block = min_phy_addr /\ min_phy_addr + PAGE * BLOCK > max_phy_addr
  BY SMT, <1>2, <1>14, <1>15, <1>16 DEF PAGE, BLOCK
<1>17. NullMapped => x < max_phy_addr /\ x < WORD - PAGE_OFFSET
  BY SMT, <1>2, <1>3, <1>6, <1>8, <1>15 DEF PAGE, WORD, PAGE_OFFSET
<1>18. ~NullMapped => max_phy_addr <= x
  BY SMT, <1>2, <1>9, <1>15 DEF PAGE, BLOCK
<1> HIDE DEF x
<1>19. CASE NullMapped
  <2>1. DirectMapped(x)
    BY <1>13, <1>17, <1>19, Mapped
  <2>2. QED
    BY <1>14, <1>16, <1>19, <2>1
<1>20. CASE ~NullMapped
  <2>1. WORD - PAGE_OFFSET \in Int
    BY SMT DEF WORD, PAGE_OFFSET
  <2>2. ~DirectMapped(x)
    <3>1. CASE x < WORD - PAGE_OFFSET
      BY <1>13, <1>18, <1>20, <3>1, Beyond
    <3>2. CASE ~(x < WORD - PAGE_OFFSET)
      BY <1>13, <2>1, <3>2, NotMapped
    <3>3. QED
      BY <3>1, <3>2
  <2>3. QED
    BY <1>14, <1>20, <2>2
<1>21. QED
  BY <1>19, <1>20

LEMMA SlobKeeps ==
  ASSUME IInv, SlobInit
  PROVE  IInv'
<1>1. /\ boot = "slob" /\ UNCHANGED <<mmap, entry, kern_end, max_phy_addr, layout>>
      /\ pte_pages' = pte_pages /\ min_phy_addr' = min_phy_addr
      /\ pgd_set' = pgd_set /\ pte_set' = pte_set /\ max_phy_addr' = max_phy_addr
      /\ phy_page_count' = phy_page_count
      /\ boot' = "fault" \/ boot' = "up"
  BY DEF SlobInit, Fault, layout, tables
<1>2. /\ TypeOK /\ Scanned /\ LaidOut /\ ~ArrayTooLong /\ pgd_set = pte_pages
      /\ pte_set = max_phy_addr \div PAGE
      /\ min_phy_addr = Pa(phy_pages) + PAGE * pfn_pages
  BY <1>1 DEF IInv
<1>3. /\ TypeOK' /\ LaidOut' /\ Scanned' /\ ~ArrayTooLong'
      /\ min_phy_addr' = (Pa(phy_pages) + PAGE * pfn_pages)'
  BY <1>1, <1>2, Kept
<1>4. /\ Block' = Block /\ (HeapTooFar' <=> HeapTooFar) /\ (NoBlock' <=> NoBlock)
      /\ (NullMapped' <=> NullMapped)
  BY <1>1 DEF Block, LastBlock, NullPfn, NoBlock, HeapTooFar, NullMapped,
              PageAddress, layout
<1>5. ~NoBlock => (HeapTooFar <=> Block >= WORD - PAGE_OFFSET)
  BY DEF HeapTooFar, Block
<1>6. ~NoBlock => (DirectMapped(Block) <=> ~HeapTooFar)
  <2> SUFFICES ASSUME ~NoBlock
               PROVE  DirectMapped(Block) <=> ~HeapTooFar
    OBVIOUS
  <2>0. phy_page_count >= BLOCK
    <3>1. phy_page_count \in Int
      BY <1>2, BlockPlace
    <3>2. QED
      BY SMT, <3>1 DEF NoBlock, BLOCK
  <2>1. /\ Block \in Nat /\ 0 < Block /\ Block < max_phy_addr
        /\ max_phy_addr \in Nat /\ max_phy_addr < WORD /\ WORD - PAGE_OFFSET \in Int /\ WORD \in Int
    <3>1. /\ Block \in Nat /\ min_phy_addr <= Block /\ min_phy_addr \in Nat
          /\ Block + PAGE * BLOCK <= max_phy_addr /\ AboveTables <= min_phy_addr
      BY <1>2, <2>0, BlockPlace
    <3>2. AboveTables \in Nat /\ Aligned < AboveTables /\ Aligned \in Nat
      BY <1>2, Bounds, AlignedImage DEF LaidOut
    <3>3. max_phy_addr \in Nat /\ max_phy_addr < WORD
      BY <1>2 DEF TypeOK
    <3>4. WORD \in Int /\ PAGE_OFFSET \in Int
      BY SMT DEF WORD, PAGE_OFFSET
    <3>5. Block < max_phy_addr
      BY SMT, <3>1, <3>3 DEF PAGE, BLOCK
    <3>6. QED
      BY <3>1, <3>2, <3>3, <3>4, <3>5
  <2>2. CASE Block >= WORD - PAGE_OFFSET
    <3>1. Block \in Int /\ WORD - PAGE_OFFSET <= Block /\ Block < WORD
      BY <2>1, <2>2
    <3>2. ~DirectMapped(Block)
      BY <1>2, <3>1, NotMapped
    <3>3. QED
      BY <1>5, <2>2, <3>2
  <2>3. CASE ~(Block >= WORD - PAGE_OFFSET)
    <3>1. /\ Block \in Int /\ 0 < Block /\ Block < max_phy_addr
          /\ Block < WORD - PAGE_OFFSET
      BY <2>1, <2>3
    <3>2. DirectMapped(Block)
      BY <1>2, <3>1, Mapped
    <3>3. QED
      BY <1>5, <2>3, <3>2
  <2>4. QED
    BY <2>2, <2>3
<1>7. NoBlock => (DirectMapped(Block) <=> NullMapped)
  BY <1>2, NullPlace
<1>8. CASE boot' = "fault"
  <2>1. ~DirectMapped(Block)
    BY <1>8 DEF SlobInit
  <2>2. HeapTooFar \/ (NoBlock /\ ~NullMapped)
    BY <1>6, <1>7, <2>1
  <2>3. QED
    BY <1>1, <1>3, <1>4, <1>8, <2>2 DEF IInv
<1>9. CASE boot' = "up"
  <2>1. DirectMapped(Block) /\ heap' = Block
    BY <1>9 DEF SlobInit, Fault
  <2>2. ~HeapTooFar /\ (NoBlock => NullMapped)
    BY <1>6, <1>7, <2>1 DEF HeapTooFar
  <2>3. QED
    BY <1>1, <1>2, <1>3, <1>4, <1>9, <2>1, <2>2 DEF IInv
<1>10. QED
  BY <1>1, <1>8, <1>9

(* The invariant holds along every boot.                                   *)
THEOREM Safety == Spec => []IInv
<1>1. Init => IInv
  BY Start
<1>2. IInv /\ [Next]_vars => IInv'
  <2> SUFFICES ASSUME IInv, [Next]_vars PROVE IInv'
    OBVIOUS
  <2>1. CASE ScanRegion
    BY <2>1, ScanKeeps
  <2>2. CASE Layout
    BY <2>2, LayoutKeeps
  <2>3. CASE ClearArray
    BY <2>3, ClearKeeps
  <2>4. CASE MapTables
    BY <2>4, MapTablesKeeps
  <2>5. CASE MapPages
    BY <2>5, MapPagesKeeps
  <2>6. CASE LoadCr3
    BY <2>6, LoadKeeps
  <2>7. CASE SlobInit
    BY <2>7, SlobKeeps
  <2>8. CASE UNCHANGED vars
    <3>1. /\ UNCHANGED <<mmap, entry, kern_end, max_phy_addr, layout>>
          /\ boot' = boot /\ min_phy_addr' = min_phy_addr /\ heap' = heap
          /\ pgd_set' = pgd_set /\ pte_set' = pte_set
          /\ pte_pages' = pte_pages /\ max_phy_addr' = max_phy_addr
          /\ phy_page_count' = phy_page_count
      BY <2>8 DEF vars, layout, tables
    <3>2. /\ (LaidOut' <=> LaidOut) /\ (ArrayTooLong' <=> ArrayTooLong)
          /\ (Scanned' <=> Scanned)
          /\ (Pa(phy_pages) + PAGE * pfn_pages)' = Pa(phy_pages) + PAGE * pfn_pages
      BY <3>1, Kept
    <3>3. TypeOK'
      BY <2>8 DEF IInv, TypeOK, vars
    <3>4. /\ Block' = Block /\ (HeapTooFar' <=> HeapTooFar)
          /\ (NoBlock' <=> NoBlock) /\ (NullMapped' <=> NullMapped)
      BY <3>1 DEF Block, LastBlock, NullPfn, NoBlock, HeapTooFar, NullMapped,
                  PageAddress, layout
    <3>5. QED
      BY <3>1, <3>2, <3>3, <3>4 DEF IInv
  <2>9. QED
    BY <2>1, <2>2, <2>3, <2>4, <2>5, <2>6, <2>7, <2>8 DEF Next
<1>3. QED
  BY <1>1, <1>2, PTL DEF Spec

(* A boot that fails does so because the frame array does not fit into the *)
(* 16 MB mapped while it is cleared, because the heap's block lies above   *)
(* the lowest GB, or because there is no block and the address page_address *)
(* makes of NULL is not mapped.  That address is mapped where the frame    *)
(* array begins at 4 MB and has a frame to describe: boot comes up there   *)
(* without a block, with the first frames, all of them and more, as heap.  *)
THEOREM Faults == Spec => []FaultsExplained
<1>1. IInv => FaultsExplained
  <2> SUFFICES ASSUME IInv, boot \notin {"scan", "bzero"} PROVE FaultsExplained
    BY DEF FaultsExplained
  <2>1. boot = "fault" => ArrayTooLong \/ HeapTooFar \/ (NoBlock /\ ~NullMapped)
    BY DEF IInv
  <2>2. CASE boot = "up"
    <3>1. /\ TypeOK /\ LaidOut /\ ~ArrayTooLong /\ pgd_set = pte_pages
          /\ pte_set = max_phy_addr \div PAGE
          /\ min_phy_addr = Pa(phy_pages) + PAGE * pfn_pages
          /\ ~HeapTooFar /\ (NoBlock => NullMapped) /\ heap = Block
      BY <2>2 DEF IInv
    <3>2. CASE NoBlock
      <4>1. Block = min_phy_addr /\ min_phy_addr + PAGE * BLOCK > max_phy_addr
        BY <3>1, <3>2, NullPlace
      <4>2. QED
        BY <2>2, <3>1, <3>2, <4>1 DEF FaultsExplained
    <3>3. CASE ~NoBlock
      <4>1. phy_page_count >= BLOCK
        <5>1. phy_page_count \in Int
          BY <3>1, BlockPlace
        <5>2. QED
          BY SMT, <3>3, <5>1 DEF NoBlock, BLOCK
      <4>2. /\ Block \in Nat /\ min_phy_addr <= Block /\ min_phy_addr \in Nat
            /\ Block + PAGE * BLOCK <= min_phy_addr + PAGE * phy_page_count
        BY <3>1, <4>1, BlockPlace
      <4>3. Block >= min_phy_addr
        BY <4>2
      <4>4. QED
        BY <2>2, <3>1, <3>3, <4>2, <4>3 DEF FaultsExplained
    <3>4. QED
      BY <3>2, <3>3
  <2>3. CASE boot # "up"
    BY <2>1, <2>3 DEF FaultsExplained
  <2>4. QED
    BY <2>2, <2>3
<1>2. QED
  BY <1>1, Safety, PTL

-----------------------------------------------------------------------------
(* On a machine with one bank of memory the end of memory is the end of    *)
(* the bank, cut to a page.                                                *)
LEMMA BankEnd ==
  ASSUME TypeOK, Scanned, entry > Len(mmap), OneBank
  PROVE  \E m \in DOMAIN mmap :
           /\ mmap[m].type = 1 /\ mmap[m].base \in Nat /\ mmap[m].len \in Nat
           /\ mmap[m].base <= kern_end
           /\ max_phy_addr <= mmap[m].base + mmap[m].len
           /\ kern_end + 6 * LOW <= max_phy_addr + (PAGE - 1)
           /\ max_phy_addr <= WORD - PAGE_OFFSET
<1>1. PICK m \in DOMAIN mmap :
        /\ \A j \in DOMAIN mmap : Counts(mmap[j]) <=> j = m
        /\ mmap[m].base \in LOW..kern_end
        /\ mmap[m].base + mmap[m].len \in kern_end + 6 * LOW..WORD - PAGE_OFFSET
  BY DEF OneBank
<1>2. /\ mmap[m].base \in Nat /\ mmap[m].len \in Nat /\ entry > m /\ Only(m)
      /\ mmap[m].type = 1
  <2>1. mmap \in Seq(Region) /\ entry \in Nat
    BY DEF TypeOK
  <2>2. mmap[m] \in Region /\ m \in 1..Len(mmap) /\ Len(mmap) \in Nat
    BY <2>1
  <2>3. entry > m
    BY <2>1, <2>2
  <2>4. Only(m)
    BY <1>1 DEF Only
  <2>5. QED
    BY <1>1, <2>2, <2>3, <2>4 DEF Region, Counts
<1> DEFINE b == mmap[m].base
           l == mmap[m].len
<1>3. b \in Nat /\ l \in Nat /\ b <= kern_end /\ kern_end \in Nat
  BY <1>1, <1>2, AlignedImage
<1>4. /\ b + l \in Nat /\ kern_end + 6 * LOW <= b + l
      /\ b + l <= WORD - PAGE_OFFSET
  BY <1>1, <1>3
<1>5. max_phy_addr = PageMask(W32(W32(b) + W32(l)))
  BY <1>2 DEF Scanned
<1> HIDE DEF b, l
<1>6. W32(W32(b) + W32(l)) = b + l
  <2>1. b \in Int /\ 0 <= b /\ b < WORD /\ l \in Int /\ 0 <= l /\ l < WORD
    BY SMT, <1>3, <1>4 DEF WORD, PAGE_OFFSET
  <2>2. b + l \in Int /\ 0 <= b + l /\ b + l < WORD
    BY SMT, <1>3, <1>4 DEF WORD, PAGE_OFFSET
  <2>3. W32(b) = b /\ W32(l) = l /\ W32(b + l) = b + l
    BY <2>1, <2>2, Word
  <2>4. QED
    BY <2>3
<1>7. (b + l) - (PAGE - 1) <= max_phy_addr /\ max_phy_addr <= b + l
  <2> DEFINE e == b + l
  <2>1. e \in Nat /\ max_phy_addr = PageMask(e)
    BY <1>4, <1>5, <1>6
  <2> HIDE DEF e
  <2>2. e - (PAGE - 1) <= max_phy_addr /\ max_phy_addr <= e
    BY <2>1, Masked
  <2>3. QED
    BY <2>2 DEF e
<1>8. /\ kern_end + 6 * LOW <= max_phy_addr + (PAGE - 1)
      /\ max_phy_addr <= WORD - PAGE_OFFSET
  <2>1. max_phy_addr \in Nat
    BY DEF TypeOK
  <2>2. QED
    BY SMT, <1>3, <1>4, <1>7, <2>1 DEF WORD, PAGE_OFFSET, PAGE, LOW
<1>9. QED
  BY <1>2, <1>3, <1>7, <1>8 DEF b, l

(* The 6 MB behind the kernel are enough for the tables, the frame array   *)
(* and a block, and the lowest GB is little enough for the array to end    *)
(* below 16 MB.                                                            *)
LEMMA BankFits ==
  ASSUME TypeOK, Scanned, LaidOut, OneBank
  PROVE  /\ ~ArrayTooLong /\ phy_page_count >= BLOCK /\ pfn_pages >= 1
         /\ max_phy_addr <= WORD - PAGE_OFFSET
<1> DEFINE M == max_phy_addr
           P == AboveTables
           c == PagesAbove(phy_pages)
           n == M \div PAGE
<1>1. /\ kern_end + 6144 <= M + 3 /\ M <= WORD - PAGE_OFFSET
      /\ M <= 1048576 /\ M \in Nat
  <2>1. kern_end + 6 * LOW <= M + (PAGE - 1) /\ M <= WORD - PAGE_OFFSET
    BY BankEnd DEF LaidOut
  <2>2. M \in Nat /\ kern_end \in Nat
    BY AlignedImage DEF TypeOK
  <2> HIDE DEF M
  <2>3. QED
    BY SMT, <2>1, <2>2 DEF LOW, PAGE, WORD, PAGE_OFFSET
<1>2. /\ Aligned \in Nat /\ kern_end \in Nat /\ Aligned <= kern_end + 3
      /\ Aligned <= 4096
  <2>1. /\ Aligned \in Nat /\ kern_end \in Nat /\ Aligned <= kern_end + (PAGE - 1)
        /\ Aligned <= TMP \div 4
    BY AlignedImage
  <2>2. QED
    BY SMT, <2>1 DEF PAGE, TMP
<1>3. /\ pte_pages \in Nat /\ n \in Nat /\ M = 4 * n
      /\ 1024 * pte_pages <= n + 1023
  BY TableSizes DEF LaidOut, PAGE
<1>4. P \in Nat /\ P = Aligned + 4 + 4 * pte_pages
  BY Bounds DEF LaidOut, AboveTables, PAGE
<1> HIDE DEF M, P, n
<1>5. pte_pages <= 256 /\ P <= 5124 /\ P <= M
  <2>1. pte_pages <= 256
    BY SMT, <1>1, <1>3
  <2>2. P <= 5124
    BY SMT, <1>2, <1>3, <1>4, <2>1
  <2>3. P <= kern_end + 1031
    BY SMT, <1>2, <1>3, <1>4, <2>1
  <2>4. QED
    BY SMT, <1>1, <1>2, <1>4, <2>1, <2>2, <2>3
<1>6. /\ c \in Nat /\ 4 * c = M - P /\ pfn_pages \in Nat
      /\ 4096 * pfn_pages >= 20 * c /\ 4096 * pfn_pages <= 20 * c + 4095
      /\ ArrayTooLong <=> P + PAGE * pfn_pages > TMP
      /\ phy_page_count = c - pfn_pages
  BY <1>5, Frames DEF LaidOut, PAGE, SIZEOF_PAGE, M, P
<1> HIDE DEF c
<1>7. c <= 262144 /\ c >= 1500
  <2>1. c <= 262144
    BY SMT, <1>1, <1>4, <1>6
  <2>2. 4 * c >= 4 * n - kern_end - 7 - 4 * pte_pages
    BY SMT, <1>2, <1>3, <1>4, <1>6
  <2>3. 4 * n - kern_end >= 6141 /\ kern_end <= 4096
    <3>1. kern_end <= 4096
      BY SMT DEF TypeOK, LOW, TMP
    <3>2. QED
      BY SMT, <1>1, <1>2, <1>3, <3>1
  <2>4. QED
    BY SMT, <1>2, <1>3, <1>6, <2>1, <2>2, <2>3
<1>8. pfn_pages <= 1281 /\ pfn_pages >= 1 /\ c - pfn_pages >= 1024
  BY SMT, <1>6, <1>7
<1>9. ~(P + PAGE * pfn_pages > TMP)
  BY SMT, <1>4, <1>5, <1>6, <1>8 DEF PAGE, TMP
<1>10. QED
  BY <1>1, <1>6, <1>8, <1>9 DEF BLOCK, M

(* What the invariant says of a machine with one bank once the array is    *)
(* cleared.                                                                *)
LEMMA GoodBoot ==
  ASSUME IInv, OneBank, boot \notin {"scan", "bzero"}
  PROVE  /\ TypeOK /\ Scanned /\ LaidOut /\ boot # "fault"
         /\ ~ArrayTooLong /\ phy_page_count >= BLOCK /\ pfn_pages >= 1
         /\ max_phy_addr <= WORD - PAGE_OFFSET
         /\ min_phy_addr = Pa(phy_pages) + PAGE * pfn_pages
         /\ min_phy_addr \in Nat /\ phy_page_count \in Nat
         /\ AboveTables <= min_phy_addr
         /\ min_phy_addr + PAGE * phy_page_count = max_phy_addr
<1>1. TypeOK /\ Scanned /\ LaidOut
  BY DEF IInv
<1>2. /\ ~ArrayTooLong /\ phy_page_count >= BLOCK /\ pfn_pages >= 1
      /\ max_phy_addr <= WORD - PAGE_OFFSET
  BY <1>1, BankFits
<1>3. min_phy_addr = Pa(phy_pages) + PAGE * pfn_pages
  BY <1>2 DEF IInv, TypeOK
<1>4. /\ min_phy_addr \in Nat /\ phy_page_count \in Int /\ AboveTables <= min_phy_addr
      /\ min_phy_addr + PAGE * phy_page_count = max_phy_addr
      /\ Block \in Nat /\ Block + PAGE * BLOCK <= max_phy_addr
  BY <1>1, <1>2, <1>3, BlockPlace
<1>5. phy_page_count \in Nat
  BY <1>2, <1>4 DEF BLOCK
<1>6. boot # "fault"
  <2>1. max_phy_addr \in Nat /\ WORD - PAGE_OFFSET \in Int
    BY <1>1 DEF TypeOK, WORD, PAGE_OFFSET
  <2>2. ~HeapTooFar
    <3>1. Block < max_phy_addr
      BY SMT, <1>4, <2>1 DEF PAGE, BLOCK
    <3>2. ~(Block >= WORD - PAGE_OFFSET)
      BY <1>2, <1>4, <2>1, <3>1
    <3>3. QED
      BY <3>2 DEF HeapTooFar, Block
  <2>3. ~NoBlock
    BY SMT, <1>2, <1>4 DEF NoBlock, BLOCK
  <2>4. QED
    BY <1>2, <2>2, <2>3 DEF IInv
<1>7. QED
  BY <1>1, <1>2, <1>3, <1>4, <1>5, <1>6

(* On a machine with one bank of memory that leaves 6 MB behind the        *)
(* kernel's image and ends in the lowest GB, boot never faults.            *)
THEOREM Boots == Spec => []GoodMachinesBoot
<1>1. IInv => GoodMachinesBoot
  BY GoodBoot DEF GoodMachinesBoot
<1>2. QED
  BY <1>1, Safety, PTL

LEMMA InOrder == IInv => NoOverlap
<1> SUFFICES ASSUME IInv, OneBank, boot \notin {"scan", "bzero"}
             PROVE  /\ kern_end <= Pa(kern_pgd)
                    /\ Pa(kern_pgd) + PAGE <= Pa(kern_pte)
                    /\ Pa(kern_pte) + PAGE * pte_pages <= Pa(phy_pages)
                    /\ Pa(phy_pages) + PAGE * pfn_pages <= min_phy_addr
                    /\ min_phy_addr + PAGE * phy_page_count <= max_phy_addr
  BY DEF NoOverlap
<1>1. /\ TypeOK /\ LaidOut /\ min_phy_addr = Pa(phy_pages) + PAGE * pfn_pages
      /\ min_phy_addr \in Nat /\ max_phy_addr \in Nat
      /\ min_phy_addr + PAGE * phy_page_count = max_phy_addr
  BY GoodBoot DEF TypeOK
<1>2. /\ Aligned \in Nat /\ kern_end \in Nat /\ kern_end <= Aligned
      /\ pte_pages \in Nat
  BY <1>1, AlignedImage, TableSizes DEF LaidOut
<1>3. Pa(phy_pages) = AboveTables /\ AboveTables \in Nat
  BY <1>1, Frames, Bounds DEF LaidOut
<1> DEFINE z == Aligned + PAGE
<1>4. /\ Aligned \in Int /\ 0 <= Aligned /\ Aligned < WORD - PAGE_OFFSET
      /\ z \in Int /\ 0 <= z /\ z < WORD - PAGE_OFFSET
      /\ kern_pgd = PAGE_OFFSET + Aligned /\ kern_pte = PAGE_OFFSET + z
  <2>1. Aligned <= TMP \div 4
    BY <1>1, AlignedImage
  <2>2. /\ kern_pgd = PAGE_OFFSET + Aligned
        /\ kern_pte = PAGE_OFFSET + Aligned + PAGE
    BY <1>1 DEF LaidOut
  <2>3. QED
    BY SMT, <1>2, <2>1, <2>2 DEF TMP, WORD, PAGE_OFFSET, PAGE
<1> HIDE DEF z
<1>5. Pa(kern_pgd) = Aligned /\ Pa(kern_pte) = z
  BY <1>4, Small
<1>6. QED
  BY <1>1, <1>2, <1>3, <1>5 DEF z, AboveTables, PAGE

LEMMA Spare == IInv => SpareStruct
<1> SUFFICES ASSUME IInv, OneBank, boot \notin {"scan", "bzero"}
             PROVE  (phy_page_count + 1) * SIZEOF_PAGE <= 4096 * pfn_pages
  BY DEF SpareStruct
<1> DEFINE c == PagesAbove(phy_pages)
<1>1. TypeOK /\ LaidOut /\ pfn_pages >= 1 /\ phy_page_count \in Nat
  BY GoodBoot
<1>2. /\ pfn_pages \in Nat /\ 4096 * pfn_pages >= SIZEOF_PAGE * c
      /\ phy_page_count = c - pfn_pages
  BY <1>1, Frames DEF LaidOut
<1>3. c \in Nat
  <2>1. AboveTables <= max_phy_addr
    <3>1. ~(max_phy_addr < AboveTables) /\ max_phy_addr \in Nat
      BY <1>1, Frames, GoodBoot DEF TypeOK
    <3>2. AboveTables \in Nat
      BY <1>1, Bounds DEF LaidOut
    <3>3. QED
      BY <3>1, <3>2
  <2>2. QED
    BY <1>1, <2>1, Frames
<1> HIDE DEF c
<1>4. QED
  BY SMT, <1>1, <1>2, <1>3 DEF SIZEOF_PAGE

LEMMA Everywhere == IInv => AllMapped
<1> SUFFICES ASSUME IInv, OneBank, boot \in {"slob", "up"},
                    NEW p \in 1..(max_phy_addr \div PAGE) - 1
             PROVE  DirectMapped(PAGE * p)
  BY DEF AllMapped
<1>1. /\ TypeOK /\ LaidOut /\ max_phy_addr <= WORD - PAGE_OFFSET
      /\ pgd_set = pte_pages /\ pte_set = max_phy_addr \div PAGE
  BY GoodBoot DEF IInv
<1>2. /\ max_phy_addr \div PAGE \in Nat
      /\ max_phy_addr = PAGE * (max_phy_addr \div PAGE)
  BY <1>1, TableSizes DEF LaidOut
<1> DEFINE n == max_phy_addr \div PAGE
           x == PAGE * p
<1>3. n \in Nat /\ max_phy_addr = PAGE * n /\ p \in 1..n - 1 /\ WORD - PAGE_OFFSET \in Int
  BY <1>2 DEF WORD, PAGE_OFFSET
<1> HIDE DEF n
<1>4. x \in Int /\ 0 < x /\ x < max_phy_addr /\ max_phy_addr \in Int
  BY <1>3 DEF PAGE
<1> HIDE DEF x
<1>5. x < WORD - PAGE_OFFSET
  BY <1>1, <1>3, <1>4
<1>6. DirectMapped(x)
  BY <1>1, <1>4, <1>5, Mapped
<1>7. QED
  BY <1>6 DEF x

LEMMA HeapPlace == IInv => HeapInFrames
<1> SUFFICES ASSUME IInv, OneBank, boot = "up"
             PROVE  /\ heap >= min_phy_addr
                    /\ heap + PAGE * BLOCK <= min_phy_addr + PAGE * phy_page_count
  BY DEF HeapInFrames
<1>1. /\ TypeOK /\ LaidOut /\ ~ArrayTooLong /\ phy_page_count >= BLOCK
      /\ min_phy_addr = Pa(phy_pages) + PAGE * pfn_pages
      /\ min_phy_addr + PAGE * phy_page_count = max_phy_addr
      /\ min_phy_addr \in Nat /\ heap = Block
  BY GoodBoot DEF IInv
<1>2. /\ Block \in Nat /\ min_phy_addr <= Block
      /\ Block + PAGE * BLOCK <= max_phy_addr
  BY <1>1, BlockPlace
<1>3. QED
  BY <1>1, <1>2

LEMMA InBank == IInv => FramesUsable
<1> SUFFICES ASSUME IInv, OneBank, boot = "up", NEW p \in 0..phy_page_count - 1
             PROVE  \E m \in DOMAIN mmap :
                      /\ mmap[m].type = 1
                      /\ mmap[m].base <= min_phy_addr + PAGE * p
                      /\ min_phy_addr + PAGE * (p + 1) <= mmap[m].base + mmap[m].len
  BY DEF FramesUsable
<1>1. /\ TypeOK /\ Scanned /\ LaidOut /\ entry > Len(mmap)
      /\ min_phy_addr \in Nat /\ AboveTables <= min_phy_addr
      /\ phy_page_count \in Nat
      /\ min_phy_addr + PAGE * phy_page_count = max_phy_addr
  BY GoodBoot DEF LaidOut
<1>2. PICK m \in DOMAIN mmap :
        /\ mmap[m].type = 1 /\ mmap[m].base \in Nat /\ mmap[m].len \in Nat
        /\ mmap[m].base <= kern_end
        /\ max_phy_addr <= mmap[m].base + mmap[m].len
  BY <1>1, BankEnd
<1>3. kern_end \in Nat /\ kern_end <= Aligned /\ Aligned \in Nat
      /\ Aligned < AboveTables /\ AboveTables \in Nat
  BY <1>1, AlignedImage, Bounds DEF LaidOut
<1>4. mmap[m].base <= min_phy_addr + PAGE * p
  BY <1>1, <1>2, <1>3 DEF PAGE
<1>5. min_phy_addr + PAGE * (p + 1) <= max_phy_addr /\ max_phy_addr \in Nat
  BY <1>1 DEF PAGE, TypeOK
<1>6. min_phy_addr + PAGE * (p + 1) <= mmap[m].base + mmap[m].len
  <2> DEFINE y == min_phy_addr + PAGE * (p + 1)
             e == mmap[m].base + mmap[m].len
  <2>1. y \in Int /\ e \in Int /\ y <= max_phy_addr /\ max_phy_addr <= e
        /\ max_phy_addr \in Int
    BY <1>1, <1>2, <1>5 DEF PAGE
  <2> HIDE DEF y, e
  <2>2. y <= e
    BY <2>1
  <2>3. QED
    BY <2>2 DEF y, e
<1>7. QED
  BY <1>2, <1>4, <1>6

(* On such a machine the kernel, its tables, the frame array and the       *)
(* frames do not overlap; the array has the spare entry the merge loop     *)
(* reads; every page of memory is mapped where page_address says; the heap *)
(* lies in the frames; and every frame is usable memory.                   *)
THEOREM LaysOut == Spec => []LayoutRight
<1>1. IInv => LayoutRight
  BY InOrder, Spare, Everywhere, HeapPlace, InBank DEF LayoutRight
<1>2. QED
  BY <1>1, Safety, PTL

-----------------------------------------------------------------------------
(* The symbol table, for every table size, every ELF symbol table and      *)
(* every address looked up.  Loading keeps one table entry per text symbol *)
(* seen; the sort only exchanges entries, and behind its index nothing is  *)
(* smaller than before it; the search keeps the address between its two    *)
(* bounds.                                                                 *)
LEMMA KSymConsts ==
  /\ KALLSYMS_NUM_MAX \in Nat /\ KALLSYMS_NUM_MAX > 0 /\ MaxSyms \in Nat
  /\ Values \subseteq Nat /\ NULL \notin Int
  /\ Slots = 0 .. KALLSYMS_NUM_MAX - 1 /\ 0 \in Slots
BY TableAssumption, ValuesAssumption, NullAssumption DEF Slots

(* What KSymInv says of the ELF symbol table. *)
LEMMA SymbolFacts ==
  ASSUME KSymInv
  PROVE  /\ IsFiniteSet(Symbols) /\ Symbols \subseteq Nat
         /\ IsFiniteSet(TextSymbols) /\ TextSymbols \subseteq Symbols
         /\ \A s \in Symbols : symtab[s] \in Nat
         /\ \E syms \in 0 .. MaxSyms : Symbols = 0 .. syms - 1 /\ Cardinality(Symbols) = syms
<1>1. PICK syms \in 0 .. MaxSyms : Symbols = 0 .. syms - 1
  BY DEF KSymInv, LoadInv
<1>2. syms \in Int /\ 0 \in Int /\ syms - 1 \in Int
  BY KSymConsts
<1>3. IsFiniteSet(0 .. syms - 1) /\ Cardinality(0 .. syms - 1) = syms
  BY <1>1, <1>2, FS_Interval, KSymConsts
<1>4. TextSymbols \subseteq Symbols
  BY DEF TextSymbols
<1>5. IsFiniteSet(TextSymbols)
  BY <1>1, <1>3, <1>4, FS_Subset
<1>6. \A s \in Symbols : symtab[s] \in Nat
  BY KSymConsts DEF KSymInv, KSymTypeOK
<1>7. QED
  BY <1>1, <1>3, <1>4, <1>5, <1>6

LEMMA KSymInitInv == KSymInit => KSymInv
<1> SUFFICES ASSUME KSymInit PROVE KSymInv
  OBVIOUS
<1>1. PICK syms \in 0 .. MaxSyms : symtab \in [0 .. syms - 1 -> Values]
  BY DEF KSymInit
<1>2. Symbols = 0 .. syms - 1 /\ syms \in Nat /\ syms <= MaxSyms
  BY <1>1, KSymConsts DEF Symbols
<1>3. KSymTypeOK
  BY <1>1, <1>2, KSymConsts DEF KSymInit, KSymTypeOK, Symbols
<1>4. Loaded = {} /\ Used = {}
  BY DEF KSymInit, Loaded, Used
<1>5. LoadInv
  BY <1>2, <1>4, FS_EmptySet, KSymConsts DEF KSymInit, LoadInv
<1>6. SymbolsKept
  BY <1>4 DEF SymbolsKept
<1>7. SortInv /\ SearchInv
  BY DEF KSymInit, SortInv, SearchInv
<1>8. QED
  BY <1>3, <1>5, <1>6, <1>7 DEF KSymInv

(* What does not change with the table, the inputs and the loading. *)
LEMMA Frame ==
  ASSUME UNCHANGED <<symtab, symtab_size>>
  PROVE  /\ Symbols' = Symbols /\ TextSymbols' = TextSymbols
         /\ UNCHANGED kallsyms_num => Used' = Used
BY DEF Symbols, TextSymbols, is_kernel_text, Used

LEMMA FindSectionsStep == KSymInv /\ FindSections => KSymInv'
<1> SUFFICES ASSUME KSymInv, FindSections PROVE KSymInv'
  OBVIOUS
<1>1. PICK syms \in 0 .. MaxSyms : Symbols = 0 .. syms - 1 /\ Cardinality(Symbols) = syms
  BY SymbolFacts
<1>2. /\ Symbols' = Symbols /\ TextSymbols' = TextSymbols
      /\ Used' = Used /\ Used = {}
  BY DEF FindSections, table, Symbols, TextSymbols, is_kernel_text, Used, KSymInv, LoadInv
<1>3. symtab_size' \in 0 .. MaxSyms
  BY <1>1, KSymConsts DEF FindSections
<1>4. Loaded' = {} /\ Loaded = {}
  <2>1. \A s \in TextSymbols : ~(s < 0)
    BY SymbolFacts
  <2>2. QED
    BY <1>2, <2>1 DEF FindSections, Loaded
<1>5. KSymTypeOK'
  BY <1>2, <1>3, KSymConsts DEF KSymInv, KSymTypeOK, FindSections, table, find
<1>6. LoadInv'
  BY <1>2, <1>3, <1>4, KSymConsts DEF KSymInv, LoadInv, FindSections, table
<1>7. SymbolsKept'
  BY <1>2, <1>4 DEF SymbolsKept
<1>8. SortInv' /\ SearchInv'
  BY DEF FindSections, SortInv, SearchInv
<1>9. QED
  BY <1>5, <1>6, <1>7, <1>8 DEF KSymInv

LEMMA LoadSymbolStep == KSymInv /\ LoadSymbol => KSymInv'
<1> SUFFICES ASSUME KSymInv, LoadSymbol PROVE KSymInv'
  OBVIOUS
<1>1. PICK syms \in 0 .. MaxSyms : Symbols = 0 .. syms - 1 /\ Cardinality(Symbols) = syms
  BY SymbolFacts
<1>2. /\ Symbols' = Symbols /\ TextSymbols' = TextSymbols
      /\ pc = "load" /\ pc' = "load" /\ i' = i + 1 /\ i \in Nat
      /\ syms \in Nat /\ syms <= MaxSyms
  BY Frame, KSymConsts DEF LoadSymbol, KSymInv, KSymTypeOK
<1>3. i \in Symbols /\ i + 1 <= symtab_size
  BY <1>1, <1>2 DEF LoadSymbol, KSymInv, LoadInv
<1>4. Loaded = {s \in TextSymbols : s < i} /\ Loaded' = {s \in TextSymbols : s < i + 1}
  BY <1>2 DEF Loaded
<1>5. IsFiniteSet(Loaded) /\ i \notin Loaded
  BY <1>4, SymbolFacts, FS_Subset, <1>2
<1>6. i + 1 \in 0 .. MaxSyms + KALLSYMS_NUM_MAX
  BY <1>1, <1>2, <1>3, KSymConsts DEF Symbols
<1>7. SortInv' /\ SearchInv'
  BY <1>2 DEF SortInv, SearchInv
<1>8. kallsyms_num \in Nat /\ kallsyms_num <= KALLSYMS_NUM_MAX
  BY KSymConsts DEF KSymInv, KSymTypeOK
<1>9. CASE ~Wanted(i)
  <2>1. UNCHANGED table /\ Used' = Used
    BY <1>9 DEF LoadSymbol, table, Used
  <2>2. Loaded' = Loaded
    <3>1. i \notin TextSymbols
      BY <1>9 DEF Wanted, TextSymbols
    <3>2. \A s \in TextSymbols : s \in Nat
      BY SymbolFacts
    <3>3. \A s \in TextSymbols : s < i + 1 <=> s < i
      BY <1>2, <3>1, <3>2
    <3>4. QED
      BY <1>4, <3>3
  <2>3. KSymTypeOK'
    BY <1>2, <1>6, <2>1, KSymConsts DEF KSymInv, KSymTypeOK, LoadSymbol, table, find
  <2>4. LoadInv'
    BY <1>2, <1>3, <2>1, <2>2 DEF KSymInv, LoadInv, LoadSymbol, table
  <2>5. SymbolsKept'
    BY <1>2, <2>1, <2>2 DEF KSymInv, SymbolsKept, LoadSymbol, table
  <2>6. QED
    BY <1>7, <2>3, <2>4, <2>5 DEF KSymInv
<1>10. CASE Wanted(i)
  <2> DEFINE m == kallsyms_num
  <2>1. /\ kallsyms_addr' = [kallsyms_addr EXCEPT ![m] = symtab[i]]
        /\ kallsyms_name' = [kallsyms_name EXCEPT ![m] = i]
        /\ kallsyms_num' = m + 1
    BY <1>10 DEF LoadSymbol
  <2>2. i \in TextSymbols
    BY <1>3, <1>10 DEF Wanted, TextSymbols
  <2>3. Loaded' = Loaded \cup {i}
    <3>1. \A s \in TextSymbols : s \in Nat
      BY SymbolFacts
    <3>2. \A s \in TextSymbols : s < i + 1 <=> s < i \/ s = i
      BY <1>2, <3>1
    <3>3. QED
      BY <1>4, <2>2, <3>2
  <2>4. m = Cardinality(Loaded) /\ Cardinality(Loaded \cup {i}) = m + 1
    BY <1>5, FS_AddElement DEF KSymInv, LoadInv
  <2>5. m + 1 <= KALLSYMS_NUM_MAX
    <3>1. Loaded' \subseteq TextSymbols
      BY <1>4
    <3>2. Cardinality(Loaded \cup {i}) <= Cardinality(TextSymbols)
      BY <2>3, <3>1, SymbolFacts, FS_Subset
    <3>3. Cardinality(TextSymbols) <= KALLSYMS_NUM_MAX /\ Cardinality(TextSymbols) \in Nat
      BY SymbolFacts, FS_CardinalityType DEF KSymInv, LoadInv
    <3>4. QED
      BY <1>8, <2>4, <3>2, <3>3, KSymConsts
  <2>6. m \in Slots /\ symtab[i] \in Nat
    BY <1>3, <1>8, <2>5, KSymConsts, SymbolFacts
  <2>7. KSymTypeOK'
    BY <1>2, <1>3, <1>6, <1>8, <2>1, <2>5, <2>6, KSymConsts DEF KSymInv, KSymTypeOK, LoadSymbol, find
  <2>8. LoadInv'
    <3>1. \A j \in Slots : j >= m + 1 => kallsyms_name'[j] = NULL
      BY <1>8, <2>1, <2>6, KSymConsts DEF KSymInv, KSymTypeOK, LoadInv
    <3>2. QED
      BY <1>2, <1>3, <2>1, <2>3, <2>4, <3>1 DEF KSymInv, LoadInv, LoadSymbol
  <2>9. SymbolsKept'
    <3>1. /\ Used' = Used \cup {m} /\ m \notin Used /\ Used \subseteq Slots
      BY <1>8, <2>1, <2>6, KSymConsts DEF Used
    <3>2. /\ kallsyms_name'[m] = i /\ kallsyms_addr'[m] = symtab[i]
          /\ \A j \in Used : /\ kallsyms_name'[j] = kallsyms_name[j]
                             /\ kallsyms_addr'[j] = kallsyms_addr[j]
      BY <2>1, <2>6, <3>1 DEF KSymInv, KSymTypeOK
    <3>3. {kallsyms_name'[j] : j \in Used'} = {kallsyms_name[j] : j \in Used} \cup {i}
      BY <3>1, <3>2
    <3>4. \A j \in Used : kallsyms_name[j] # i
      BY <1>5 DEF KSymInv, SymbolsKept
    <3>5. symtab' = symtab
      BY DEF LoadSymbol
    <3>6. QED
      BY <2>3, <3>1, <3>2, <3>3, <3>4, <3>5 DEF KSymInv, SymbolsKept
  <2>10. QED
    BY <1>7, <2>7, <2>8, <2>9 DEF KSymInv
<1>11. QED
  BY <1>9, <1>10

-----------------------------------------------------------------------------
(* The steps after loading leave the set of loaded symbols alone. *)
LEMMA LoadedStays ==
  ASSUME UNCHANGED <<symtab, symtab_size>>,
         pc \notin {"sections", "load"}, pc' \notin {"sections", "load"}
  PROVE  Loaded' = Loaded
BY DEF Loaded, TextSymbols, Symbols, is_kernel_text

(* The parts of KSymInv about the table, when the table does not change. *)
LEMMA TableStays ==
  ASSUME KSymInv, UNCHANGED <<symtab, symtab_size, table>>,
         pc \notin {"sections", "load"}, pc' \notin {"sections", "load"}
  PROVE  LoadInv' /\ SymbolsKept' /\ Used' = Used
<1>1. Loaded' = Loaded /\ Symbols' = Symbols /\ TextSymbols' = TextSymbols /\ Used' = Used
  BY LoadedStays, Frame DEF table
<1>2. LoadInv'
  BY <1>1 DEF KSymInv, LoadInv, table
<1>3. SymbolsKept'
  BY <1>1 DEF KSymInv, SymbolsKept, table
<1>4. QED
  BY <1>1, <1>2, <1>3

LEMMA LoadDoneStep == KSymInv /\ LoadDone => KSymInv'
<1> SUFFICES ASSUME KSymInv, LoadDone PROVE KSymInv'
  OBVIOUS
<1>1. /\ pc = "load" /\ pc' = "sort" /\ i' = 0
      /\ UNCHANGED <<symtab, symtab_size, kallsyms_num, kallsyms_addr, kallsyms_name,
                     k, idx, addr_t, low, high, addr, answer>>
  BY DEF LoadDone, table, find
<1>2. Symbols' = Symbols /\ TextSymbols' = TextSymbols /\ Used' = Used
  BY <1>1, Frame
<1>3. i = symtab_size
  BY KSymConsts DEF LoadDone, KSymInv, KSymTypeOK, LoadInv
<1>4. Loaded' = Loaded
  BY <1>1, <1>2, <1>3 DEF Loaded
<1>5. KSymTypeOK'
  BY <1>1, <1>2, KSymConsts DEF KSymInv, KSymTypeOK
<1>6. LoadInv' /\ SymbolsKept'
  BY <1>1, <1>2, <1>4 DEF KSymInv, LoadInv, SymbolsKept
<1>7. SortInv' /\ SearchInv'
  <2>1. \A j \in Used : ~(j < 0)
    BY DEF Used
  <2>2. kallsyms_num >= 0
    BY KSymConsts DEF KSymInv, KSymTypeOK
  <2>3. SortedUpTo(0)'
    BY <1>2, <2>1 DEF SortedUpTo
  <2>4. QED
    BY <1>1, <2>2, <2>3 DEF SortInv, SearchInv
<1>8. QED
  BY <1>5, <1>6, <1>7 DEF KSymInv

LEMMA SortRoundStep == KSymInv /\ SortRound => KSymInv'
<1> SUFFICES ASSUME KSymInv, SortRound PROVE KSymInv'
  OBVIOUS
<1>1. /\ pc = "sort" /\ pc' = "scan" /\ i < kallsyms_num
      /\ idx' = i /\ addr_t' = kallsyms_addr[i] /\ k' = i + 1 /\ i' = i
      /\ UNCHANGED <<symtab, symtab_size, table, kallsyms_num, kallsyms_addr, kallsyms_name,
                     low, high, addr, answer>>
  BY DEF SortRound, table, find
<1>2. Symbols' = Symbols /\ Used' = Used /\ LoadInv' /\ SymbolsKept'
  BY <1>1, TableStays, Frame
<1>3. i \in Nat /\ kallsyms_num \in Nat /\ kallsyms_num <= KALLSYMS_NUM_MAX
  BY KSymConsts DEF KSymInv, KSymTypeOK
<1>4. i \in Slots /\ i + 1 \in 0 .. KALLSYMS_NUM_MAX
  BY <1>1, <1>3, KSymConsts
<1>5. KSymTypeOK'
  BY <1>1, <1>2, <1>4, KSymConsts DEF KSymInv, KSymTypeOK
<1>6. SortInv'
  <2>1. SortedUpTo(i)'
    BY <1>1, <1>2 DEF KSymInv, SortInv, SortedUpTo
  <2>2. \A j \in i .. i + 1 - 1 : kallsyms_addr[i] <= kallsyms_addr[j]
    BY <1>3, <1>4 DEF KSymInv, KSymTypeOK
  <2>3. QED
    BY <1>1, <1>3, <2>1, <2>2 DEF SortInv
<1>7. SearchInv'
  BY <1>1 DEF SearchInv
<1>8. QED
  BY <1>2, <1>5, <1>6, <1>7 DEF KSymInv

LEMMA SortScanStep == KSymInv /\ SortScan => KSymInv'
<1> SUFFICES ASSUME KSymInv, SortScan PROVE KSymInv'
  OBVIOUS
<1>1. /\ pc = "scan" /\ pc' = "scan" /\ k < kallsyms_num
      /\ k' = k + 1 /\ i' = i
      /\ UNCHANGED <<symtab, symtab_size, table, kallsyms_num, kallsyms_addr, kallsyms_name,
                     low, high, addr, answer>>
  BY DEF SortScan, table, find
<1>2. Symbols' = Symbols /\ Used' = Used /\ LoadInv' /\ SymbolsKept'
  BY <1>1, TableStays, Frame
<1>3. /\ i \in Nat /\ k \in Nat /\ idx \in Nat /\ kallsyms_num \in Nat
      /\ kallsyms_num <= KALLSYMS_NUM_MAX
      /\ i < kallsyms_num /\ i <= idx /\ idx < kallsyms_num /\ i + 1 <= k
      /\ addr_t = kallsyms_addr[idx] /\ SortedUpTo(i)
      /\ \A j \in i .. k - 1 : addr_t <= kallsyms_addr[j]
  BY <1>1, KSymConsts DEF KSymInv, KSymTypeOK, SortInv
<1>4. /\ k \in Slots /\ kallsyms_addr[k] \in Nat /\ addr_t \in Nat
      /\ \A j \in i .. k - 1 : kallsyms_addr[j] \in Nat
  BY <1>1, <1>3, KSymConsts DEF KSymInv, KSymTypeOK
<1>5. /\ idx' \in i .. kallsyms_num - 1 /\ idx' \in Slots
      /\ addr_t' = kallsyms_addr[idx'] /\ addr_t' \in Nat
      /\ addr_t' <= addr_t /\ addr_t' <= kallsyms_addr[k]
  <2>1. CASE addr_t > kallsyms_addr[k]
    BY <2>1, <1>1, <1>3, <1>4, KSymConsts DEF SortScan, Select
  <2>2. CASE ~(addr_t > kallsyms_addr[k])
    BY <2>2, <1>1, <1>3, <1>4, KSymConsts DEF SortScan
  <2>3. QED
    BY <2>1, <2>2
<1>6. KSymTypeOK'
  <2>1. k + 1 \in 0 .. KALLSYMS_NUM_MAX
    BY <1>1, <1>3, KSymConsts
  <2>2. QED
    BY <1>1, <1>2, <1>5, <2>1 DEF KSymInv, KSymTypeOK
<1>7. SortInv'
  <2>1. SortedUpTo(i)'
    BY <1>1, <1>2, <1>3 DEF SortedUpTo
  <2>2. \A j \in i .. k + 1 - 1 : addr_t' <= kallsyms_addr[j]
    <3> SUFFICES ASSUME NEW j \in i .. k + 1 - 1 PROVE addr_t' <= kallsyms_addr[j]
      OBVIOUS
    <3>1. j = k \/ j \in i .. k - 1
      BY <1>3
    <3>2. QED
      BY <3>1, <1>3, <1>4, <1>5
  <2>3. QED
    BY <1>1, <1>3, <1>5, <2>1, <2>2 DEF SortInv
<1>8. SearchInv'
  BY <1>1 DEF SearchInv
<1>9. QED
  BY <1>2, <1>6, <1>7, <1>8 DEF KSymInv

(* The exchange that ends a round of the sort, as a permutation of the     *)
(* entries; exchanging an entry with itself is the identity.               *)
Swapped(j) == IF j = i THEN idx ELSE IF j = idx THEN i ELSE j

LEMMA SortSwapStep == KSymInv /\ SortSwap => KSymInv'
<1> SUFFICES ASSUME KSymInv, SortSwap PROVE KSymInv'
  OBVIOUS
<1>1. /\ pc = "scan" /\ pc' = "sort" /\ k >= kallsyms_num /\ i' = i + 1
      /\ UNCHANGED <<symtab, symtab_size, kallsyms_num, k, idx, addr_t, low, high, addr, answer>>
  BY DEF SortSwap, find
<1>2. Symbols' = Symbols /\ TextSymbols' = TextSymbols /\ Used' = Used /\ Loaded' = Loaded
  BY <1>1, LoadedStays, Frame
<1>3. /\ i \in Nat /\ k \in Nat /\ idx \in Nat /\ kallsyms_num \in Nat
      /\ kallsyms_num <= KALLSYMS_NUM_MAX
      /\ i < kallsyms_num /\ i <= idx /\ idx < kallsyms_num /\ k <= kallsyms_num
      /\ addr_t = kallsyms_addr[idx] /\ SortedUpTo(i)
      /\ \A j \in i .. k - 1 : addr_t <= kallsyms_addr[j]
  BY <1>1, KSymConsts DEF KSymInv, KSymTypeOK, SortInv
<1>4. i \in Slots /\ idx \in Slots /\ i \in Used /\ idx \in Used /\ Used \subseteq Slots
  BY <1>3, KSymConsts DEF Used
<1>5. /\ kallsyms_addr \in [Slots -> Nat] /\ kallsyms_name \in [Slots -> Symbols \cup {NULL}]
      /\ addr_t \in Nat
  BY DEF KSymInv, KSymTypeOK
<1>6. /\ kallsyms_addr' \in [Slots -> Nat] /\ kallsyms_name' \in [Slots -> Symbols \cup {NULL}]
      /\ \A j \in Slots : /\ kallsyms_addr'[j] = kallsyms_addr[Swapped(j)]
                           /\ kallsyms_name'[j] = kallsyms_name[Swapped(j)]
  <2>1. CASE i = idx
    BY <2>1, <1>5 DEF SortSwap, Swapped
  <2>2. CASE i # idx
    <3>1. /\ kallsyms_addr' = [kallsyms_addr EXCEPT ![idx] = kallsyms_addr[i], ![i] = addr_t]
          /\ kallsyms_name' = [kallsyms_name EXCEPT ![idx] = kallsyms_name[i],
                                                    ![i] = kallsyms_name[idx]]
      BY <2>2 DEF SortSwap, ExchangeNames
    <3>2. kallsyms_addr' \in [Slots -> Nat] /\ kallsyms_name' \in [Slots -> Symbols \cup {NULL}]
      BY <3>1, <1>4, <1>5
    <3>3. \A j \in Slots : kallsyms_addr'[j] = kallsyms_addr[Swapped(j)]
      BY <3>1, <1>3, <1>4, <1>5, <2>2 DEF Swapped
    <3>4. \A j \in Slots : kallsyms_name'[j] = kallsyms_name[Swapped(j)]
      BY <3>1, <1>4, <1>5, <2>2 DEF Swapped
    <3>5. QED
      BY <3>2, <3>3, <3>4
  <2>3. QED
    BY <2>1, <2>2
<1>7. /\ \A j \in Used : Swapped(j) \in Used /\ Swapped(Swapped(j)) = j
      /\ \A j \in Slots : j >= kallsyms_num => Swapped(j) = j
  BY <1>3, <1>4, KSymConsts DEF Swapped
<1>8. KSymTypeOK'
  <2>1. i + 1 \in 0 .. MaxSyms + KALLSYMS_NUM_MAX
    BY <1>3, KSymConsts
  <2>2. QED
    BY <1>1, <1>2, <1>6, <2>1 DEF KSymInv, KSymTypeOK
<1>9. LoadInv'
  BY <1>1, <1>2, <1>6, <1>7 DEF KSymInv, LoadInv
<1>10. SymbolsKept'
  <2>1. {kallsyms_name'[j] : j \in Used'} = {kallsyms_name[j] : j \in Used}
    BY <1>2, <1>4, <1>6, <1>7
  <2>2. \A j \in Used : kallsyms_addr'[j] = symtab[kallsyms_name'[j]]
    BY <1>4, <1>6, <1>7 DEF KSymInv, SymbolsKept
  <2>3. ASSUME NEW j \in Used, NEW l \in Used, kallsyms_name'[j] = kallsyms_name'[l]
        PROVE  j = l
    <3>1. Swapped(j) = Swapped(l)
      BY <1>4, <1>6, <1>7, <2>3 DEF KSymInv, SymbolsKept
    <3>2. QED
      BY <1>7, <3>1
  <2>4. QED
    BY <1>1, <1>2, <2>1, <2>2, <2>3 DEF KSymInv, SymbolsKept
<1>11. ASSUME NEW j \in Used, NEW l \in Used, j < l, j < i + 1
       PROVE  kallsyms_addr'[j] <= kallsyms_addr'[l]
  <2>1. j \in Nat /\ l \in Nat /\ l < kallsyms_num
    BY <1>3 DEF Used
  <2>2. kallsyms_addr'[j] = kallsyms_addr[Swapped(j)] /\ kallsyms_addr'[l] = kallsyms_addr[Swapped(l)]
    BY <1>4, <1>6
  <2>3. Swapped(l) \in Used
    BY <1>7
  <2>4. CASE j < i
    <3>1. Swapped(j) = j /\ j < Swapped(l)
      BY <1>3, <1>11, <2>1, <2>4 DEF Swapped
    <3>2. QED
      BY <1>3, <2>2, <2>3, <2>4, <3>1 DEF SortedUpTo
  <2>5. CASE j = i
    <3>1. Swapped(j) = idx
      BY <2>5 DEF Swapped
    <3>2. Swapped(l) \in i .. k - 1
      BY <1>1, <1>3, <1>11, <2>1, <2>5 DEF Swapped
    <3>3. QED
      BY <1>3, <2>2, <3>1, <3>2
  <2>6. QED
    BY <1>3, <1>11, <2>1, <2>4, <2>5
<1>12. SortInv' /\ SearchInv'
  <2>1. SortedUpTo(i)'
    BY <1>1, <1>2, <1>11 DEF SortedUpTo
  <2>2. QED
    BY <1>1, <1>3, <2>1 DEF SortInv, SearchInv
<1>13. QED
  BY <1>8, <1>9, <1>10, <1>12 DEF KSymInv

LEMMA SortDoneStep == KSymInv /\ SortDone => KSymInv'
<1> SUFFICES ASSUME KSymInv, SortDone PROVE KSymInv'
  OBVIOUS
<1>1. /\ pc = "sort" /\ pc' = "ready" /\ i >= kallsyms_num
      /\ UNCHANGED <<symtab, symtab_size, table, kallsyms_num, kallsyms_addr, kallsyms_name,
                     i, k, idx, addr_t, low, high, addr, answer>>
  BY DEF SortDone, table, sort, find
<1>2. Symbols' = Symbols /\ Used' = Used /\ LoadInv' /\ SymbolsKept'
  BY <1>1, TableStays, Frame
<1>3. KSymTypeOK'
  BY <1>1, <1>2 DEF KSymInv, KSymTypeOK
<1>4. i = kallsyms_num
  BY <1>1, KSymConsts DEF KSymInv, KSymTypeOK, SortInv
<1>5. SortInv' /\ SearchInv'
  BY <1>1, <1>2, <1>4 DEF KSymInv, SortInv, SearchInv, SortedUpTo
<1>6. QED
  BY <1>2, <1>3, <1>5 DEF KSymInv

-----------------------------------------------------------------------------
(* The look-up's steps leave the table and the sort's locals alone. *)
LEMMA LookupFrame ==
  ASSUME KSymInv, UNCHANGED <<symtab, symtab_size, table, sort>>,
         pc \in {"ready", "search", "alias"}, pc' \in {"ready", "search", "alias"},
         low' \in Slots, high' \in 0 .. KALLSYMS_NUM_MAX, addr' \in Nat,
         answer' \in Symbols \cup {NULL}, SearchInv'
  PROVE  KSymInv'
<1>1. LoadInv' /\ SymbolsKept' /\ Used' = Used /\ Symbols' = Symbols
  BY TableStays, Frame
<1>2. UNCHANGED <<kallsyms_num, kallsyms_addr, kallsyms_name, i, k, idx, addr_t>>
  BY DEF table, sort
<1>3. KSymTypeOK'
  BY <1>1, <1>2 DEF KSymInv, KSymTypeOK
<1>4. SortInv'
  BY <1>1, <1>2 DEF KSymInv, SortInv, SortedUpTo
<1>5. QED
  BY <1>1, <1>3, <1>4 DEF KSymInv

LEMMA LookupStep == ASSUME NEW a \in Values PROVE KSymInv /\ Lookup(a) => KSymInv'
<1> SUFFICES ASSUME KSymInv, Lookup(a) PROVE KSymInv'
  OBVIOUS
<1>1. SearchInv'
  BY KSymConsts DEF Lookup, table, SearchInv, KSymInv, KSymTypeOK
<1>2. QED
  BY <1>1, LookupFrame, KSymConsts DEF Lookup, KSymInv, KSymTypeOK

LEMMA SearchStepStep == KSymInv /\ SearchStep => KSymInv'
<1> SUFFICES ASSUME KSymInv, SearchStep PROVE KSymInv'
  OBVIOUS
<1> DEFINE mid == low + (high - low) \div 2
<1>1. /\ low \in Nat /\ high \in Nat /\ high - low > 1
      /\ kallsyms_num \in Nat /\ kallsyms_num <= KALLSYMS_NUM_MAX
  BY KSymConsts DEF SearchStep, Halve, KSymInv, KSymTypeOK
<1>2. kallsyms_num > 0 /\ high <= kallsyms_num
  BY <1>1 DEF SearchStep, KSymInv, SearchInv
<1>3. mid \in Nat /\ low < mid /\ mid < high
  BY <1>1
<1>4. mid \in Slots /\ mid \in 0 .. KALLSYMS_NUM_MAX
  BY <1>1, <1>2, <1>3, KSymConsts
<1>5. kallsyms_addr[mid] \in Nat /\ addr \in Nat
  BY <1>4 DEF KSymInv, KSymTypeOK
<1>6. /\ pc = "search" /\ pc' = "search"
      /\ UNCHANGED <<kallsyms_num, kallsyms_addr, kallsyms_name, addr, answer>>
  BY DEF SearchStep, table
<1>7. CASE kallsyms_addr[mid] <= addr
  <2>1. low' = mid /\ high' = high
    BY <1>7 DEF SearchStep, MiddleAtOrBelow
  <2> HIDE DEF mid
  <2>2. SearchInv'
    BY <1>1, <1>2, <1>3, <1>6, <1>7, <2>1 DEF KSymInv, SearchInv
  <2>3. QED
    BY <1>4, <1>6, <2>1, <2>2, LookupFrame DEF SearchStep, KSymInv, KSymTypeOK
<1>8. CASE ~(kallsyms_addr[mid] <= addr)
  <2>1. high' = mid /\ low' = low
    BY <1>8 DEF SearchStep, MiddleAtOrBelow
  <2> HIDE DEF mid
  <2>2. SearchInv'
    BY <1>1, <1>2, <1>3, <1>5, <1>6, <1>8, <2>1 DEF KSymInv, SearchInv
  <2>3. QED
    BY <1>4, <1>6, <2>1, <2>2, LookupFrame DEF SearchStep, KSymInv, KSymTypeOK
<1>9. QED
  BY <1>7, <1>8

LEMMA SearchDoneStep == KSymInv /\ SearchDone => KSymInv'
<1> SUFFICES ASSUME KSymInv, SearchDone PROVE KSymInv'
  OBVIOUS
<1>1. /\ pc = "search" /\ pc' = "alias" /\ ~(high - low > 1)
      /\ UNCHANGED <<kallsyms_num, kallsyms_addr, kallsyms_name, low, high, addr, answer>>
  BY DEF SearchDone, Halve, table, find
<1>2. /\ low \in Nat /\ high \in Nat /\ addr \in Nat
      /\ kallsyms_num \in Nat /\ kallsyms_num <= KALLSYMS_NUM_MAX
  BY KSymConsts DEF KSymInv, KSymTypeOK
<1>3. Used' = Used
  BY <1>1 DEF Used
<1>4. ASSUME NEW j \in Used, kallsyms_addr[j] > kallsyms_addr[low] PROVE kallsyms_addr[j] > addr
  <2>1. j \in Nat /\ j < kallsyms_num /\ kallsyms_num > 0 /\ j \in Slots /\ low \in Slots
    BY <1>2, KSymConsts DEF Used, KSymInv, KSymTypeOK
  <2>2. low < high /\ high <= kallsyms_num /\ high = low + 1
    BY <1>1, <1>2, <2>1 DEF KSymInv, SearchInv
  <2>3. low \in Used
    BY <1>2, <2>2 DEF Used
  <2>4. SortedUpTo(kallsyms_num)
    BY <1>1 DEF KSymInv, SortInv
  <2>5. kallsyms_addr[j] \in Nat /\ kallsyms_addr[low] \in Nat
    BY <2>1 DEF KSymInv, KSymTypeOK
  <2>6. ~(j < low) /\ j # low
    <3>1. j # low
      BY <1>4, <2>5
    <3>2. CASE j < low
      BY <1>4, <2>1, <2>3, <2>4, <2>5, <3>2 DEF SortedUpTo
    <3>3. QED
      BY <3>1, <3>2
  <2>7. high < kallsyms_num /\ high <= j
    BY <1>2, <2>1, <2>2, <2>6
  <2>8. kallsyms_addr[high] > addr
    BY <1>1, <2>7 DEF KSymInv, SearchInv
  <2>9. high \in Used /\ kallsyms_addr[high] \in Nat
    BY <1>2, <2>7, KSymConsts DEF Used, KSymInv, KSymTypeOK
  <2>10. kallsyms_addr[high] <= kallsyms_addr[j]
    <3>1. CASE high = j
      BY <3>1, <2>5
    <3>2. CASE high < j
      BY <3>2, <2>1, <2>4, <2>7, <2>9 DEF SortedUpTo
    <3>3. QED
      BY <1>2, <2>1, <2>7, <3>1, <3>2
  <2>11. QED
    BY <1>2, <2>5, <2>8, <2>9, <2>10
<1>5. SearchInv'
  BY <1>1, <1>3, <1>4 DEF KSymInv, SearchInv
<1>6. QED
  BY <1>1, <1>5, LookupFrame DEF SearchDone, KSymInv, KSymTypeOK

LEMMA AliasStepStep == KSymInv /\ AliasStep => KSymInv'
<1> SUFFICES ASSUME KSymInv, AliasStep PROVE KSymInv'
  OBVIOUS
<1>1. /\ pc = "alias" /\ pc' = "alias" /\ low' = low - 1 /\ low # 0
      /\ kallsyms_addr[low - 1] = kallsyms_addr[low]
      /\ UNCHANGED <<kallsyms_num, kallsyms_addr, kallsyms_name, high, addr, answer>>
  BY DEF AliasStep, SameAsBefore, table
<1>2. /\ low \in Nat /\ high \in Nat /\ kallsyms_num \in Nat /\ low \in Slots
  BY KSymConsts DEF KSymInv, KSymTypeOK
<1>3. low - 1 \in Slots /\ Used' = Used
  BY <1>1, <1>2, KSymConsts DEF Used
<1>4. SearchInv'
  BY <1>1, <1>2, <1>3 DEF KSymInv, SearchInv
<1>5. QED
  BY <1>1, <1>3, <1>4, LookupFrame DEF AliasStep, KSymInv, KSymTypeOK

LEMMA LookupReturnStep == KSymInv /\ LookupReturn => KSymInv'
<1> SUFFICES ASSUME KSymInv, LookupReturn PROVE KSymInv'
  OBVIOUS
<1>1. SearchInv'
  BY DEF LookupReturn, SearchInv
<1>2. answer' \in Symbols \cup {NULL}
  BY DEF LookupReturn, KSymInv, KSymTypeOK
<1>3. QED
  BY <1>1, <1>2, LookupFrame DEF LookupReturn, KSymInv, KSymTypeOK

-----------------------------------------------------------------------------
LEMMA KSymStep == KSymInv /\ [KSymNext]_ksymVars => KSymInv'
<1> SUFFICES ASSUME KSymInv, [KSymNext]_ksymVars PROVE KSymInv'
  OBVIOUS
<1>1. CASE UNCHANGED ksymVars
  <2>1. UNCHANGED <<symtab, symtab_size, kallsyms_num, kallsyms_addr, kallsyms_name, pc,
                    i, k, idx, addr_t, low, high, addr, answer>>
    BY <1>1 DEF ksymVars, table, sort, find
  <2>2. Symbols' = Symbols /\ TextSymbols' = TextSymbols /\ Used' = Used /\ Loaded' = Loaded
    BY <2>1 DEF Symbols, TextSymbols, is_kernel_text, Used, Loaded
  <2>3. KSymTypeOK' /\ LoadInv' /\ SymbolsKept'
    BY <2>1, <2>2 DEF KSymInv, KSymTypeOK, LoadInv, SymbolsKept
  <2>4. SortInv' /\ SearchInv'
    BY <2>1, <2>2 DEF KSymInv, SortInv, SortedUpTo, SearchInv
  <2>5. QED
    BY <2>3, <2>4 DEF KSymInv
<1>2. CASE KSymNext
  BY <1>2, FindSectionsStep, LoadSymbolStep, LoadDoneStep, SortRoundStep, SortScanStep,
     SortSwapStep, SortDoneStep, LookupStep, SearchStepStep, SearchDoneStep,
     AliasStepStep, LookupReturnStep DEF KSymNext, Running
<1>3. QED
  BY <1>1, <1>2

(* The inductive invariant holds in every reachable state. *)
THEOREM KSymSafety == KSymSpec => []KSymInv
BY KSymInitInv, KSymStep, PTL DEF KSymSpec

(* Every variable keeps its type; in particular no index leaves the table. *)
THEOREM KSymTypes == KSymSpec => []KSymTypeOK
<1>1. KSymInv => KSymTypeOK
  BY DEF KSymInv
<1>2. QED
  BY KSymSafety, <1>1, PTL

(* At every moment, in the middle of the sort too, the table holds each    *)
(* text symbol loaded so far exactly once, its name beside its address.    *)
THEOREM NothingLost == KSymSpec => []SymbolsKept
<1>1. KSymInv => SymbolsKept
  BY DEF KSymInv
<1>2. QED
  BY KSymSafety, <1>1, PTL

LEMMA LookupFromIInv == KSymInv => LookupRight
<1> SUFFICES ASSUME KSymInv, pc = "alias", ~SameAsBefore
             PROVE  LET name  == kallsyms_name[low]
                        below == {s \in Loaded : symtab[s] <= addr}
                    IN /\ Loaded = {} => name = NULL
                       /\ Loaded # {} =>
                            /\ name \in Loaded
                            /\ \A s \in below : name \in below /\ symtab[s] <= symtab[name]
                            /\ below = {} => \A s \in Loaded : symtab[name] <= symtab[s]
                       /\ \A j \in 0 .. low - 1 : kallsyms_addr[j] < kallsyms_addr[low]
  BY DEF LookupRight
<1> DEFINE name  == kallsyms_name[low]
           below == {s \in Loaded : symtab[s] <= addr}
<1>1. /\ low \in Nat /\ high \in Nat /\ addr \in Nat /\ kallsyms_num \in Nat
      /\ kallsyms_num <= KALLSYMS_NUM_MAX /\ low \in Slots
  BY KSymConsts DEF KSymInv, KSymTypeOK
<1>2. Used \subseteq Slots /\ \A j \in Slots : kallsyms_addr[j] \in Nat
  BY <1>1, KSymConsts DEF Used, KSymInv, KSymTypeOK
<1>3. SortedUpTo(kallsyms_num)
  BY DEF KSymInv, SortInv
<1>4. Loaded = {kallsyms_name[j] : j \in Used}
  BY DEF KSymInv, SymbolsKept
<1>5. CASE kallsyms_num = 0
  <2>1. low = 0 /\ Used = {}
    BY <1>5 DEF KSymInv, SearchInv, Used
  <2>2. name = NULL
    BY <1>1, <1>5, <2>1 DEF KSymInv, LoadInv
  <2>3. QED
    BY <1>4, <2>1, <2>2
<1>6. CASE kallsyms_num > 0
  <2>1. low \in Used /\ Used # {}
    BY <1>1, <1>6 DEF KSymInv, SearchInv, Used
  <2>2. name \in Loaded /\ symtab[name] = kallsyms_addr[low]
    BY <1>4, <2>1 DEF KSymInv, SymbolsKept
  <2>3. \A s \in Loaded : \E j \in Used : symtab[s] = kallsyms_addr[j]
    BY <1>4 DEF KSymInv, SymbolsKept
  <2>4. ASSUME NEW s \in below PROVE name \in below /\ symtab[s] <= symtab[name]
    <3>1. PICK j \in Used : symtab[s] = kallsyms_addr[j]
      BY <2>3
    <3>2. kallsyms_addr[j] <= addr /\ kallsyms_addr[j] \in Nat /\ kallsyms_addr[low] \in Nat
      BY <1>1, <1>2, <3>1
    <3>3. kallsyms_addr[j] <= kallsyms_addr[low]
      BY <1>1, <3>2 DEF KSymInv, SearchInv
    <3>4. kallsyms_addr[low] <= addr
      <4>1. CASE low > 0
        BY <4>1 DEF KSymInv, SearchInv
      <4>2. CASE low = 0
        <5>1. j \in Nat
          BY <1>1 DEF Used
        <5>2. CASE j = 0
          BY <3>2, <4>2, <5>2
        <5>3. CASE j > 0
          <6>1. kallsyms_addr[low] <= kallsyms_addr[j]
            BY <1>3, <1>6, <2>1, <4>2, <5>3 DEF SortedUpTo
          <6>2. QED
            BY <1>1, <3>2, <6>1
        <5>4. QED
          BY <5>1, <5>2, <5>3
      <4>3. QED
        BY <1>1, <4>1, <4>2
    <3>5. QED
      BY <2>2, <3>1, <3>3, <3>4
  <2>5. ASSUME below = {}, NEW s \in Loaded PROVE symtab[name] <= symtab[s]
    <3>1. ~(kallsyms_addr[low] <= addr)
      BY <2>2, <2>5
    <3>2. low = 0
      BY <1>1, <3>1 DEF KSymInv, SearchInv
    <3>3. PICK j \in Used : symtab[s] = kallsyms_addr[j]
      BY <2>3
    <3>4. j \in Nat /\ kallsyms_addr[j] \in Nat
      BY <1>1, <1>2 DEF Used
    <3>5. CASE j = 0
      BY <2>2, <3>2, <3>3, <3>4, <3>5
    <3>6. CASE j > 0
      BY <1>3, <1>6, <2>1, <2>2, <3>2, <3>3, <3>6 DEF SortedUpTo
    <3>7. QED
      BY <3>4, <3>5, <3>6
  <2>6. ASSUME NEW j \in 0 .. low - 1 PROVE kallsyms_addr[j] < kallsyms_addr[low]
    <3>1. low # 0 /\ kallsyms_addr[low - 1] # kallsyms_addr[low] /\ low < kallsyms_num
      BY <1>1, <2>1, <2>6 DEF SameAsBefore, Used
    <3>2. j \in Used /\ low - 1 \in Used /\ j < kallsyms_num /\ low - 1 < kallsyms_num
      BY <1>1, <2>6, <3>1 DEF Used
    <3>3. kallsyms_addr[low - 1] <= kallsyms_addr[low]
      BY <1>1, <1>3, <2>1, <3>2 DEF SortedUpTo
    <3>4. kallsyms_addr[j] <= kallsyms_addr[low - 1]
      <4>1. CASE j = low - 1
        BY <1>2, <3>2, <4>1
      <4>2. CASE j < low - 1
        BY <1>3, <3>2, <4>2 DEF SortedUpTo
      <4>3. QED
        BY <1>1, <2>6, <4>1, <4>2
    <3>5. /\ kallsyms_addr[j] \in Nat /\ kallsyms_addr[low - 1] \in Nat
          /\ kallsyms_addr[low] \in Nat
      BY <1>1, <1>2, <3>2
    <3>6. QED
      BY <3>1, <3>3, <3>4, <3>5
  <2>7. Loaded # {}
    BY <2>2
  <2>8. QED
    BY <2>2, <2>4, <2>5, <2>6, <2>7
<1>7. QED
  BY <1>1, <1>5, <1>6

(* A look-up answers with the last text symbol at or below the address,    *)
(* the first of several with the same address.                             *)
THEOREM LookupCorrect == KSymSpec => []LookupRight
BY KSymSafety, LookupFromIInv, PTL

-----------------------------------------------------------------------------
(* The screen shows the tail of what was printed, for every screen size    *)
(* and every text.                                                         *)
LEMMA ConsoleConsts ==
  /\ max_xpos \in Nat /\ max_xpos > 0 /\ max_ypos \in Nat /\ max_ypos > 0
  /\ 0 \in Cols /\ Rows = 0 .. max_ypos - 1 /\ Cols = 0 .. max_xpos - 1
  /\ Printable \subseteq Chars
BY SizeAssumption DEF Cols, Rows, Chars

LEMMA ConsoleInitInv == ConsoleStart => ConsoleInv
<1> SUFFICES ASSUME ConsoleStart PROVE ConsoleInv
  OBVIOUS
<1>1. ConsoleTypeOK
  BY ConsoleConsts DEF ConsoleStart, ConsoleTypeOK
<1>2. xpos = Len(line)
  BY DEF ConsoleStart
<1>3. QED
  BY <1>1, <1>2 DEF ConsoleStart, ConsoleInv, ScreenShowsTail

LEMMA ConsoleInitStep == ConsoleInv /\ ConsoleInit => ConsoleInv'
<1> SUFFICES ASSUME ConsoleInv, ConsoleInit PROVE ConsoleInv'
  OBVIOUS
<1>1. ConsoleTypeOK'
  BY ConsoleConsts DEF ConsoleInv, ConsoleTypeOK, ConsoleInit
<1>2. lines' = <<>> /\ line' = <<>> /\ ypos' = 0 /\ xpos' = 0 /\ Len(<<>>) = 0
  BY DEF ConsoleInv, ConsoleInit
<1>3. ScreenShowsTail'
  <2>1. Top' = 0
    BY <1>2 DEF Top
  <2>2. ASSUME NEW y \in Rows, NEW x \in Cols
        PROVE  video_memory'[y][x] = Paper!Cell(0 + y, x, BLANK)'
    <3>1. video_memory'[y][x] = BLANK
      BY DEF ConsoleInit
    <3>2. y \in Nat /\ x \in Nat
      BY ConsoleConsts
    <3>3. QED
      BY <1>2, <3>1, <3>2 DEF Paper!Cell, Paper!CellOf
  <2>3. QED
    BY <1>2, <2>1, <2>2, ConsoleConsts DEF ScreenShowsTail
<1>4. QED
  BY <1>1, <1>2, <1>3, ConsoleConsts DEF ConsoleInv, ConsoleInit

LEMMA PrintkStep == ASSUME NEW m \in Messages PROVE ConsoleInv /\ Printk(m) => ConsoleInv'
<1> SUFFICES ASSUME ConsoleInv, Printk(m) PROVE ConsoleInv'
  OBVIOUS
<1>1. UNCHANGED <<video_memory, xpos, ypos, cursor, lines, line>> /\ console = "idle" /\ console' = "write"
  BY DEF Printk, screen
<1>2. text' \in Seq(Chars)
  <2>1. m \in Seq(Chars)
    BY CharAssumption
  <2>2. Len(m) \in Nat
    BY <2>1
  <2>3. ASSUME NEW m2 \in Nat, m2 <= Len(m) PROVE SubSeq(m, 1, m2) \in Seq(Chars)
    BY <2>1, <2>2, <2>3
  <2>4. CASE Len(m) < LOG_LINE_MAX
    BY <2>2, <2>3, <2>4 DEF Printk
  <2>5. CASE ~(Len(m) < LOG_LINE_MAX)
    <3>1. LOG_LINE_MAX - 1 \in Nat /\ LOG_LINE_MAX - 1 <= Len(m)
      BY <2>2, <2>5, SizeAssumption
    <3>2. QED
      BY <2>3, <2>5, <3>1 DEF Printk
  <2>6. QED
    BY <2>4, <2>5
<1>3. ConsoleTypeOK'
  BY <1>1, <1>2 DEF ConsoleInv, ConsoleTypeOK
<1>4. ScreenShowsTail'
  BY <1>1 DEF ConsoleInv, ScreenShowsTail, Top, Paper!Cell, Paper!CellOf
<1>5. QED
  BY <1>1, <1>3, <1>4 DEF ConsoleInv

-----------------------------------------------------------------------------
(* The cell that the terminal's lines ls and l give a row and a column x,  *)
(* with every argument explicit.                                           *)
CellIn(ls, l, row, x) ==
  IF row < Len(ls) THEN Paper!CellOf(ls[row + 1], x, BLANK)
  ELSE IF row = Len(ls) THEN Paper!CellOf(l, x, BLANK)
  ELSE BLANK

LEMMA CellNow ==
  ASSUME NEW row, NEW x PROVE Paper!Cell(row, x, BLANK) = CellIn(lines, line, row, x)
BY DEF Paper!Cell, CellIn

LEMMA CellNext ==
  ASSUME NEW y \in Rows, NEW x \in Cols
  PROVE  Paper!Cell(Top + y, x, BLANK)' = CellIn(lines', line', Top' + y, x)
BY DEF Paper!Cell, Paper!CellOf, CellIn

(* Ending the line changes no cell. *)
LEMMA EndLineCell ==
  ASSUME NEW S, NEW ls \in Seq(Seq(S)), NEW l \in Seq(S), NEW row \in Nat, NEW x \in Nat
  PROVE  CellIn(Append(ls, l), <<>>, row, x) = CellIn(ls, l, row, x)
<1>1. /\ Len(ls) \in Nat /\ Len(Append(ls, l)) = Len(ls) + 1
      /\ \A j \in 1 .. Len(ls) : Append(ls, l)[j] = ls[j]
      /\ Append(ls, l)[Len(ls) + 1] = l
  OBVIOUS
<1>2. ~(x < Len(<<>>))
  OBVIOUS
<1>3. CASE row < Len(ls)
  <2>1. row + 1 \in 1 .. Len(ls)
    BY <1>1, <1>3
  <2>2. Append(ls, l)[row + 1] = ls[row + 1]
    BY <1>1, <2>1
  <2>3. QED
    BY <1>1, <1>3, <2>2 DEF CellIn
<1>4. CASE row = Len(ls)
  BY <1>1, <1>4 DEF CellIn
<1>5. CASE row > Len(ls)
  BY <1>1, <1>2, <1>5 DEF CellIn, Paper!CellOf
<1>6. QED
  BY <1>1, <1>3, <1>4, <1>5

(* A character more changes the one cell behind the line. *)
LEMMA TypeCell ==
  ASSUME NEW S, NEW ls \in Seq(Seq(S)), NEW l \in Seq(S), NEW c \in S, NEW row \in Nat, NEW x \in Nat
  PROVE  CellIn(ls, Append(l, c), row, x) =
           IF row = Len(ls) /\ x = Len(l) THEN c ELSE CellIn(ls, l, row, x)
<1>1. /\ Len(ls) \in Nat /\ Len(l) \in Nat /\ Len(Append(l, c)) = Len(l) + 1
      /\ \A j \in 1 .. Len(l) : Append(l, c)[j] = l[j]
      /\ Append(l, c)[Len(l) + 1] = c
  OBVIOUS
<1>2. Paper!CellOf(Append(l, c), x, BLANK) = IF x = Len(l) THEN c ELSE Paper!CellOf(l, x, BLANK)
  <2>1. CASE x < Len(l)
    <3>1. x + 1 \in 1 .. Len(l)
      BY <1>1, <2>1
    <3>2. Append(l, c)[x + 1] = l[x + 1]
      BY <1>1, <3>1
    <3>3. QED
      BY <1>1, <2>1, <3>2 DEF Paper!CellOf
  <2>2. CASE x = Len(l)
    BY <1>1, <2>2 DEF Paper!CellOf
  <2>3. CASE x > Len(l)
    BY <1>1, <2>3 DEF Paper!CellOf
  <2>4. QED
    BY <1>1, <2>1, <2>2, <2>3
<1>3. QED
  BY <1>1, <1>2 DEF CellIn

-----------------------------------------------------------------------------
(* Once the late scroll is made up for, there is a row for the character,  *)
(* and the screen still shows consecutive lines.                           *)
Top0 == Len(lines) - Row0

ScreenType == [Rows -> [Cols -> Printable \cup {BLANK, JUNK}]]

LEMMA Settled ==
  ASSUME ConsoleInv, console = "write"
  PROVE  /\ Row0 \in Rows /\ Row0 \in Nat /\ Top0 \in Nat /\ Len(lines) \in Nat
         /\ Row0 <= max_ypos - 1 /\ Top0 + Row0 = Len(lines)
         /\ Top0 > 0 => Row0 = max_ypos - 1
         /\ Screen0 \in ScreenType
         /\ \A y \in Rows, x \in Cols : Screen0[y][x] = CellIn(lines, line, Top0 + y, x)
<1>1. ypos \in Nat /\ ypos <= max_ypos /\ Len(lines) \in Nat /\ video_memory \in ScreenType
  BY ConsoleConsts DEF ConsoleInv, ConsoleTypeOK, ScreenType
<1>2. /\ ypos <= Len(lines)
      /\ Top > 0 => ypos >= max_ypos - 1
      /\ ypos = max_ypos => line = <<>>
      /\ \A y \in Rows, x \in Cols : video_memory[y][x] = CellIn(lines, line, Top + y, x)
  BY CellNow DEF ConsoleInv, ScreenShowsTail
<1>3. Top \in Nat /\ Top + ypos = Len(lines)
  BY <1>1, <1>2 DEF Top
<1>4. CASE ~MustScroll
  <2>1. Row0 = ypos /\ Screen0 = video_memory /\ Top0 = Top /\ ypos < max_ypos
    BY <1>1, <1>4, ConsoleConsts DEF MustScroll, Screen0, Row0, Top0, Top
  <2>2. Row0 \in Rows
    BY <1>1, <2>1, ConsoleConsts
  <2>3. QED
    BY <1>1, <1>2, <1>3, <2>1, <2>2, ConsoleConsts
<1>5. CASE MustScroll
  <2>1. ypos = max_ypos /\ Row0 = max_ypos - 1 /\ Screen0 = Scrolled
    BY <1>1, <1>5, ConsoleConsts DEF MustScroll, Row0, Screen0
  <2>2. /\ Top0 = Top + 1 /\ line = <<>> /\ Top + max_ypos = Len(lines)
        /\ Row0 \in Rows /\ Row0 \in Nat /\ Top0 \in Nat /\ Top0 + Row0 = Len(lines)
    <3>1. line = <<>>
      BY <1>2, <2>1
    <3>2. max_ypos \in Nat \ {0} /\ Row0 \in Rows /\ Row0 \in Nat
      BY <2>1, ConsoleConsts
    <3>3. Top + max_ypos = Len(lines)
      BY <1>3, <2>1
    <3>4. Top0 = Top + 1
      BY <1>1, <1>3, <2>1, <3>2, <3>3 DEF Top0
    <3>5. Top0 + Row0 = Len(lines)
      BY <1>3, <2>1, <3>2, <3>3, <3>4
    <3>6. QED
      BY <1>3, <3>1, <3>2, <3>3, <3>4, <3>5
  <2>3. Scrolled \in ScreenType
    <3>1. \A y \in Rows : y < max_ypos - 1 => y + 1 \in Rows
      BY ConsoleConsts
    <3>2. QED
      BY <1>1, <3>1 DEF Scrolled, ScreenType
  <2>4. ASSUME NEW y \in Rows, NEW x \in Cols
        PROVE  Scrolled[y][x] = CellIn(lines, line, Top0 + y, x)
    <3>1. y \in Nat /\ x \in Nat /\ y <= max_ypos - 1
      BY ConsoleConsts
    <3>2. CASE y < max_ypos - 1
      <4>1. y + 1 \in Rows /\ Top + (y + 1) = Top0 + y
        BY <1>3, <2>2, <3>1, <3>2, ConsoleConsts
      <4>2. Scrolled[y][x] = video_memory[y + 1][x]
        BY <3>2 DEF Scrolled
      <4>3. video_memory[y + 1][x] = CellIn(lines, line, Top + (y + 1), x)
        BY <1>2, <4>1
      <4>4. QED
        BY <4>1, <4>2, <4>3
    <3>3. CASE y = max_ypos - 1
      <4>1. Scrolled[y][x] = BLANK
        BY <3>3, ConsoleConsts DEF Scrolled
      <4>2. Top0 + y = Len(lines)
        BY <2>1, <2>2, <3>3
      <4>3. ~(x < Len(line))
        BY <2>2, <3>1
      <4>4. QED
        BY <1>1, <4>1, <4>2, <4>3 DEF CellIn, Paper!CellOf
    <3>4. QED
      BY <3>1, <3>2, <3>3, ConsoleConsts
  <2>5. QED
    BY <1>1, <2>1, <2>2, <2>3, <2>4, ConsoleConsts
<1>6. QED
  BY <1>4, <1>5

LEMMA TextFacts ==
  ASSUME ConsoleInv, More
  PROVE  Tail(text) \in Seq(Chars) /\ Head(text) \in Chars
BY DEF ConsoleInv, ConsoleTypeOK, More

LEMMA PutReturnStep == ConsoleInv /\ PutReturn => ConsoleInv'
<1> SUFFICES ASSUME ConsoleInv, PutReturn PROVE ConsoleInv'
  OBVIOUS
<1>1. /\ video_memory' = Screen0 /\ ypos' = Row0 /\ text' = Tail(text)
      /\ UNCHANGED <<xpos, cursor, console, lines, line>> /\ console = "write"
  BY DEF PutReturn
<1>2. text' \in Seq(Chars)
  BY <1>1, TextFacts DEF PutReturn
<1>3. ConsoleTypeOK'
  BY <1>1, <1>2, Settled, ConsoleConsts DEF ConsoleInv, ConsoleTypeOK, ScreenType
<1>4. Top' = Top0
  BY <1>1 DEF Top, Top0
<1>5. ScreenShowsTail'
  <2>1. ASSUME NEW y \in Rows, NEW x \in Cols
        PROVE  video_memory'[y][x] = Paper!Cell(Top + y, x, BLANK)'
    <3>1. video_memory'[y][x] = CellIn(lines, line, Top0 + y, x)
      BY <1>1, Settled
    <3>2. QED
      BY <1>1, <1>4, <3>1, CellNext
  <2>2. ypos' <= Len(lines') /\ (Top' > 0 => ypos' >= max_ypos - 1) /\ ypos' # max_ypos
    BY <1>1, <1>4, Settled, ConsoleConsts
  <2>3. QED
    BY <2>1, <2>2 DEF ScreenShowsTail
<1>6. QED
  BY <1>1, <1>3, <1>5 DEF ConsoleInv

LEMMA PutNewlineStep == ConsoleInv /\ PutNewline => ConsoleInv'
<1> SUFFICES ASSUME ConsoleInv, PutNewline PROVE ConsoleInv'
  OBVIOUS
<1>1. /\ video_memory' = Screen0 /\ ypos' = Row0 + 1 /\ xpos' = 0 /\ text' = Tail(text)
      /\ lines' = Append(lines, line) /\ line' = <<>>
      /\ UNCHANGED <<cursor, console>> /\ console = "write"
  BY DEF PutNewline, Paper!Newline, Paper!EndLine
<1>2. text' \in Seq(Chars)
  BY <1>1, TextFacts DEF PutNewline
<1>3. lines \in Seq(Seq(Printable)) /\ line \in Seq(Printable)
  BY DEF ConsoleInv, ConsoleTypeOK
<1>4. lines' \in Seq(Seq(Printable)) /\ Len(lines') = Len(lines) + 1
  BY <1>1, <1>3
<1>5. line' \in Seq(Printable) /\ Len(line') = 0
  BY <1>1
<1>6. ypos' \in 0 .. max_ypos
  BY <1>1, Settled, ConsoleConsts
<1>7. ConsoleTypeOK'
  BY <1>1, <1>2, <1>4, <1>5, <1>6, Settled, ConsoleConsts DEF ConsoleInv, ConsoleTypeOK, ScreenType
<1>8. Top' = Top0
  BY <1>1, <1>4, Settled DEF Top, Top0
<1>9. ScreenShowsTail'
  <2>1. ASSUME NEW y \in Rows, NEW x \in Cols
        PROVE  video_memory'[y][x] = Paper!Cell(Top + y, x, BLANK)'
    <3>1. x \in Nat /\ Top0 + y \in Nat
      BY <1>1, Settled, ConsoleConsts
    <3>2. video_memory'[y][x] = CellIn(lines, line, Top0 + y, x)
      BY <1>1, Settled
    <3>3. CellIn(lines', line', Top0 + y, x) = CellIn(lines, line, Top0 + y, x)
      BY <1>1, <1>3, <3>1, EndLineCell
    <3>4. QED
      BY <1>8, <3>2, <3>3, CellNext
  <2>2. ypos' <= Len(lines') /\ (Top' > 0 => ypos' >= max_ypos - 1)
    BY <1>1, <1>4, <1>8, Settled, ConsoleConsts
  <2>3. QED
    BY <1>1, <2>1, <2>2 DEF ScreenShowsTail
<1>10. QED
  BY <1>1, <1>5, <1>7, <1>9 DEF ConsoleInv

LEMMA PutCharStep == ConsoleInv /\ PutChar => ConsoleInv'
<1> SUFFICES ASSUME ConsoleInv, PutChar PROVE ConsoleInv'
  OBVIOUS
<1> DEFINE c == Head(text)
           typed == Append(line, c)
<1>1. /\ video_memory' = [Screen0 EXCEPT ![Row0][xpos] = c] /\ text' = Tail(text)
      /\ UNCHANGED <<cursor, console>> /\ console = "write" /\ c \in Printable
  BY DEF PutChar
<1>2. text' \in Seq(Chars)
  BY <1>1, TextFacts DEF PutChar
<1>3. /\ lines \in Seq(Seq(Printable)) /\ line \in Seq(Printable)
      /\ xpos = Len(line) /\ xpos \in Cols /\ xpos \in Nat /\ xpos < max_xpos
  BY ConsoleConsts DEF ConsoleInv, ConsoleTypeOK
<1>4. typed \in Seq(Printable) /\ Len(typed) = xpos + 1
  BY <1>1, <1>3
<1>5. video_memory' \in ScreenType
  BY <1>1, <1>3, Settled DEF ScreenType
<1>6. ASSUME NEW y \in Rows, NEW x \in Cols
      PROVE  video_memory'[y][x] = CellIn(lines, typed, Top0 + y, x)
  <2>1. x \in Nat /\ y \in Nat /\ Top0 + y \in Nat
    BY <1>1, Settled, ConsoleConsts
  <2>2. CellIn(lines, typed, Top0 + y, x) =
          IF Top0 + y = Len(lines) /\ x = Len(line) THEN c ELSE CellIn(lines, line, Top0 + y, x)
    BY <1>1, <1>3, <2>1, TypeCell
  <2>3. (Top0 + y = Len(lines)) <=> (y = Row0)
    BY <1>1, <2>1, Settled
  <2>4. video_memory'[y][x] = IF y = Row0 /\ x = xpos THEN c ELSE Screen0[y][x]
    BY <1>1, <1>3, Settled DEF ScreenType
  <2>5. Screen0[y][x] = CellIn(lines, line, Top0 + y, x)
    BY <1>1, Settled
  <2>6. QED
    BY <1>3, <2>2, <2>3, <2>4, <2>5
<1>7. CASE RowFull
  <2>1. xpos' = 0 /\ ypos' = Row0 + 1 /\ lines' = Append(lines, typed) /\ line' = <<>>
    BY <1>3, <1>7, ConsoleConsts DEF PutChar, RowFull, Paper!Type, Paper!EndLine
  <2>2. lines' \in Seq(Seq(Printable)) /\ Len(lines') = Len(lines) + 1
    BY <1>3, <1>4, <2>1
  <2>3. line' \in Seq(Printable) /\ Len(line') = 0
    BY <2>1
  <2>4. ypos' \in 0 .. max_ypos
    BY <1>1, <2>1, Settled, ConsoleConsts
  <2>5. ConsoleTypeOK'
    BY <1>1, <1>2, <1>5, <2>1, <2>2, <2>3, <2>4, ConsoleConsts DEF ConsoleInv, ConsoleTypeOK, ScreenType
  <2>6. Top' = Top0
    BY <1>1, <2>1, <2>2, Settled DEF Top, Top0
  <2>7. ScreenShowsTail'
    <3>1. ASSUME NEW y \in Rows, NEW x \in Cols
          PROVE  video_memory'[y][x] = Paper!Cell(Top + y, x, BLANK)'
      <4>1. x \in Nat /\ Top0 + y \in Nat
        BY <1>1, Settled, ConsoleConsts
      <4>2. CellIn(lines', line', Top0 + y, x) = CellIn(lines, typed, Top0 + y, x)
        BY <1>3, <1>4, <2>1, <4>1, EndLineCell
      <4>3. QED
        BY <1>6, <2>6, <4>2, CellNext
    <3>2. ypos' <= Len(lines') /\ (Top' > 0 => ypos' >= max_ypos - 1)
      BY <1>1, <2>1, <2>2, <2>6, Settled, ConsoleConsts
    <3>3. QED
      BY <2>1, <3>1, <3>2 DEF ScreenShowsTail
  <2>8. QED
    BY <1>1, <2>1, <2>3, <2>5, <2>7 DEF ConsoleInv
<1>8. CASE ~RowFull
  <2>1. xpos' = xpos + 1 /\ ypos' = Row0 /\ lines' = lines /\ line' = typed /\ xpos + 1 < max_xpos
    BY <1>3, <1>8, ConsoleConsts DEF PutChar, RowFull, Paper!Type
  <2>2. xpos' \in Cols
    BY <1>3, <2>1, ConsoleConsts
  <2>3. ypos' \in 0 .. max_ypos
    BY <1>1, <2>1, Settled, ConsoleConsts
  <2>4. ConsoleTypeOK'
    BY <1>1, <1>2, <1>3, <1>4, <1>5, <2>1, <2>2, <2>3, ConsoleConsts DEF ConsoleInv, ConsoleTypeOK, ScreenType
  <2>5. Top' = Top0
    BY <2>1 DEF Top, Top0
  <2>6. ScreenShowsTail'
    <3>1. ASSUME NEW y \in Rows, NEW x \in Cols
          PROVE  video_memory'[y][x] = Paper!Cell(Top + y, x, BLANK)'
      BY <1>6, <2>1, <2>5, CellNext
    <3>2. ypos' <= Len(lines') /\ (Top' > 0 => ypos' >= max_ypos - 1) /\ ypos' # max_ypos
      BY <1>1, <2>1, <2>5, Settled, ConsoleConsts
    <3>3. QED
      BY <3>1, <3>2 DEF ScreenShowsTail
  <2>7. QED
    BY <1>1, <1>4, <2>1, <2>4, <2>6 DEF ConsoleInv
<1>9. QED
  BY <1>7, <1>8

LEMMA MoveCursorStep == ConsoleInv /\ MoveCursor => ConsoleInv'
<1> SUFFICES ASSUME ConsoleInv, MoveCursor PROVE ConsoleInv'
  OBVIOUS
<1>1. /\ UNCHANGED <<video_memory, xpos, ypos, lines, line>> /\ console = "write" /\ console' = "idle"
      /\ text' = <<>> /\ cursor' = ypos * max_xpos + xpos
  BY DEF MoveCursor, screen, CursorLocation
<1>2. ypos \in Nat /\ xpos \in Nat
  BY ConsoleConsts DEF ConsoleInv, ConsoleTypeOK
<1>3. ypos * max_xpos \in Nat
  BY <1>2, ConsoleConsts
<1>4. cursor' \in Nat /\ text' \in Seq(Chars)
  BY <1>1, <1>2, <1>3
<1>5. ConsoleTypeOK'
  BY <1>1, <1>4 DEF ConsoleInv, ConsoleTypeOK
<1>6. ScreenShowsTail'
  BY <1>1 DEF ConsoleInv, ScreenShowsTail, Top, Paper!Cell, Paper!CellOf
<1>7. QED
  BY <1>1, <1>5, <1>6 DEF ConsoleInv

LEMMA ConsoleStep == ConsoleInv /\ [ConsoleNext]_consoleVars => ConsoleInv'
<1> SUFFICES ASSUME ConsoleInv, [ConsoleNext]_consoleVars PROVE ConsoleInv'
  OBVIOUS
<1>1. CASE ConsoleInit
  BY <1>1, ConsoleInitStep
<1>2. ASSUME NEW m \in Messages, Printk(m) PROVE ConsoleInv'
  BY <1>2, PrintkStep
<1>3. CASE PutNewline
  BY <1>3, PutNewlineStep
<1>4. CASE PutReturn
  BY <1>4, PutReturnStep
<1>5. CASE PutChar
  BY <1>5, PutCharStep
<1>6. CASE MoveCursor
  BY <1>6, MoveCursorStep
<1>7. CASE UNCHANGED consoleVars
  BY <1>7 DEF ConsoleInv, ConsoleTypeOK, ScreenShowsTail, Top, Paper!Cell, Paper!CellOf, consoleVars, screen
<1>8. QED
  BY <1>1, <1>2, <1>3, <1>4, <1>5, <1>6, <1>7 DEF ConsoleNext, Writing

-----------------------------------------------------------------------------
(* The inductive invariant holds of console_vga_write after every          *)
(* character, for every screen size, buffer and text.                      *)
THEOREM ConsoleSafety == ConsoleSpec => []ConsoleInv
<1>1. QED
  BY ConsoleInitInv, ConsoleStep, PTL DEF ConsoleSpec

(* Type correctness of the console's state. *)
THEOREM ConsoleTypes == ConsoleSpec => []ConsoleTypeOK
<1>1. ConsoleInv => ConsoleTypeOK
  BY DEF ConsoleInv
<1>2. QED
  BY <1>1, ConsoleSafety, PTL

(* console_vga_write keeps the tail of what was printed on the screen.     *)
THEOREM ShowsTail == ConsoleSpec => []ScreenShowsTail
<1>1. ConsoleInv => ScreenShowsTail
  BY DEF ConsoleInv
<1>2. QED
  BY <1>1, ConsoleSafety, PTL

(* move_cursor leaves the cursor where the next character shows.           *)
THEOREM CursorRight == ConsoleSpec => []CursorIsNext
<1>1. ConsoleInv => CursorIsNext
  <2> SUFFICES ASSUME ConsoleInv, console = "idle" PROVE CursorIsNext
    BY DEF CursorIsNext
  <2>1. cursor = ypos * max_xpos + Len(line)
    BY DEF ConsoleInv
  <2>2. ypos \in Nat /\ ypos <= max_ypos /\ Len(lines) \in Nat
    BY ConsoleConsts DEF ConsoleInv, ConsoleTypeOK
  <2>3. ypos <= Len(lines) /\ (Top > 0 => ypos >= max_ypos - 1)
    BY DEF ConsoleInv, ScreenShowsTail
  <2>4. ypos = (IF Top = 0 THEN Len(lines)
                ELSE IF ypos = max_ypos THEN max_ypos ELSE max_ypos - 1)
    BY <2>2, <2>3, ConsoleConsts DEF Top
  <2>5. QED
    BY <2>1, <2>4 DEF CursorIsNext
<1>2. QED
  BY <1>1, ConsoleSafety, PTL
=============================================================================
