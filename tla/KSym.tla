-------------------------------- MODULE KSym --------------------------------
(***************************************************************************)
(* The kernel's symbol table, kernel/ksym.c: loading the text symbols from *)
(* the ELF sections the boot loader passes, sorting them by address, and   *)
(* the look-up a stack trace makes for every return address.               *)
(*                                                                         *)
(* A name (a pointer into the string table) is the index of its symbol in  *)
(* the ELF symbol table; NULL is the zero of a table entry never written.  *)
(* Each iteration of a loop of the source is one step.                     *)
(***************************************************************************)
EXTENDS Integers, FiniteSets

CONSTANTS KALLSYMS_NUM_MAX,   (* entries of the kernel's table             *)
          TextStart, TextEnd, (* the linker's bounds of .text, virtual     *)
          Values,             (* symbol values, and addresses looked up    *)
          MaxSyms,            (* bound: entries of the ELF symbol table    *)
          NULL

ASSUME TableAssumption == KALLSYMS_NUM_MAX \in Nat \ {0} /\ MaxSyms \in Nat
ASSUME ValuesAssumption == Values \subseteq Nat /\ TextStart \in Nat /\ TextEnd \in Nat
ASSUME NullAssumption == NULL \notin Int

Slots == 0 .. KALLSYMS_NUM_MAX - 1

VARIABLES
  symtab,        \* input: the value of each ELF symbol
  symtab_size,   \* symbols found, 0 in a stripped kernel
  kallsyms_num, kallsyms_addr, kallsyms_name,
  pc,            \* the loop that is running, "ready" between two look-ups
  i, k, idx, addr_t,     \* locals of load_ksym_from_multiboot
  low, high, addr,       \* locals of get_symbol_pos
  answer         \* the name the last look-up returned

table == <<kallsyms_num, kallsyms_addr, kallsyms_name>>
sort  == <<i, k, idx, addr_t>>
find  == <<low, high, addr, answer>>
ksymVars  == <<symtab, symtab_size, table, pc, sort, find>>

Symbols == DOMAIN symtab
is_kernel_text(a) == a > TextStart /\ a < TextEnd
TextSymbols == {s \in Symbols : is_kernel_text(symtab[s])}

-----------------------------------------------------------------------------
(* A kernel with at most as many text symbols as the table has entries:    *)
(* the loading loop has no check of its own.                               *)
KSymInit ==
  /\ \E n \in 0 .. MaxSyms : symtab \in [0 .. n - 1 -> Values]
  /\ Cardinality(TextSymbols) <= KALLSYMS_NUM_MAX
  /\ symtab_size = 0 /\ kallsyms_num = 0
  /\ kallsyms_addr = [j \in Slots |-> 0]
  /\ kallsyms_name = [j \in Slots |-> NULL]
  /\ pc = "sections"
  /\ i = 0 /\ k = 0 /\ idx = 0 /\ addr_t = 0
  /\ low = 0 /\ high = 0 /\ addr = 0 /\ answer = NULL

(* The walk over the section headers: a stripped kernel has neither        *)
(* .symtab nor .strtab.                                                    *)
FindSections ==
  /\ pc = "sections"
  /\ symtab_size' \in {0, Cardinality(Symbols)}
  /\ pc' = "load" /\ i' = 0
  /\ UNCHANGED <<symtab, table, k, idx, addr_t, find>>

(* Which symbols are loaded. *)
Wanted(s) == is_kernel_text(symtab[s])

LoadSymbol ==
  /\ pc = "load" /\ i < symtab_size
  /\ IF Wanted(i)
       THEN /\ kallsyms_addr' = [kallsyms_addr EXCEPT ![kallsyms_num] = symtab[i]]
            /\ kallsyms_name' = [kallsyms_name EXCEPT ![kallsyms_num] = i]
            /\ kallsyms_num' = kallsyms_num + 1
       ELSE UNCHANGED table
  /\ i' = i + 1
  /\ UNCHANGED <<symtab, symtab_size, pc, k, idx, addr_t, find>>

LoadDone ==
  /\ pc = "load" /\ i >= symtab_size
  /\ pc' = "sort" /\ i' = 0
  /\ UNCHANGED <<symtab, symtab_size, table, k, idx, addr_t, find>>

-----------------------------------------------------------------------------
(* The selection sort: one round of its outer loop, *)
SortRound ==
  /\ pc = "sort" /\ i < kallsyms_num
  /\ idx' = i /\ addr_t' = kallsyms_addr[i] /\ k' = i + 1
  /\ pc' = "scan"
  /\ UNCHANGED <<symtab, symtab_size, table, i, find>>

Select == idx' = k /\ addr_t' = kallsyms_addr[k]

(* the search for the smallest address that is left, *)
SortScan ==
  /\ pc = "scan" /\ k < kallsyms_num
  /\ IF addr_t > kallsyms_addr[k] THEN Select ELSE UNCHANGED <<idx, addr_t>>
  /\ k' = k + 1
  /\ UNCHANGED <<symtab, symtab_size, table, pc, i, find>>

(* Mutant of ExchangeNames: the name of entry i is lost. *)
ExchangeNamesHalf == [kallsyms_name EXCEPT ![i] = kallsyms_name[idx]]

ExchangeNames ==
  [kallsyms_name EXCEPT ![idx] = kallsyms_name[i], ![i] = kallsyms_name[idx]]

(* and the exchange with entry i. *)
SortSwap ==
  /\ pc = "scan" /\ k >= kallsyms_num
  /\ IF i # idx
       THEN /\ kallsyms_addr' = [kallsyms_addr EXCEPT ![idx] = kallsyms_addr[i], ![i] = addr_t]
            /\ kallsyms_name' = ExchangeNames
       ELSE UNCHANGED <<kallsyms_addr, kallsyms_name>>
  /\ i' = i + 1 /\ pc' = "sort"
  /\ UNCHANGED <<symtab, symtab_size, kallsyms_num, k, idx, addr_t, find>>

SortDone ==
  /\ pc = "sort" /\ i >= kallsyms_num
  /\ pc' = "ready"
  /\ UNCHANGED <<symtab, symtab_size, table, sort, find>>

-----------------------------------------------------------------------------
(* ksym_lookup_name(a), for any address found on the stack. *)
Lookup(a) ==
  /\ pc = "ready"
  /\ addr' = a /\ low' = 0 /\ high' = kallsyms_num
  /\ pc' = "search"
  /\ UNCHANGED <<symtab, symtab_size, table, sort, answer>>

(* Mutant of Halve: the lower bound does not skip the middle itself when   *)
(* the interval has one entry left.                                        *)
HalveAtLeastOne == high - low >= 1

Halve == high - low > 1

(* Whether the middle is at or below the address, and a mutant. *)
MiddleBelow(m) == kallsyms_addr[m] < addr
MiddleAtOrBelow(m) == kallsyms_addr[m] <= addr

SearchStep ==
  /\ pc = "search" /\ Halve
  /\ LET mid == low + (high - low) \div 2
     IN IF MiddleAtOrBelow(mid)
          THEN low' = mid /\ UNCHANGED high
          ELSE high' = mid /\ UNCHANGED low
  /\ UNCHANGED <<symtab, symtab_size, table, pc, sort, addr, answer>>

SearchDone ==
  /\ pc = "search" /\ ~Halve
  /\ pc' = "alias"
  /\ UNCHANGED <<symtab, symtab_size, table, sort, find>>

SameAsBefore == low # 0 /\ kallsyms_addr[low - 1] = kallsyms_addr[low]

(* Back to the first of several symbols with one address. *)
AliasStep ==
  /\ pc = "alias" /\ SameAsBefore
  /\ low' = low - 1
  /\ UNCHANGED <<symtab, symtab_size, table, pc, sort, high, addr, answer>>

LookupReturn ==
  /\ pc = "alias" /\ ~SameAsBefore
  /\ answer' = kallsyms_name[low]
  /\ pc' = "ready"
  /\ UNCHANGED <<symtab, symtab_size, table, sort, low, high, addr>>

Running ==
  \/ FindSections \/ LoadSymbol \/ LoadDone
  \/ SortRound \/ SortScan \/ SortSwap \/ SortDone
  \/ SearchStep \/ SearchDone \/ AliasStep \/ LookupReturn

KSymNext == Running \/ \E a \in Values : Lookup(a)

KSymSpec == KSymInit /\ [][KSymNext]_ksymVars

(* The processor keeps executing the loops it has entered. *)
FairKSymSpec == KSymSpec /\ WF_ksymVars(Running)

-----------------------------------------------------------------------------
Used == 0 .. kallsyms_num - 1

KSymTypeOK ==
  /\ symtab \in [Symbols -> Values] /\ Symbols \subseteq 0 .. MaxSyms - 1
  /\ symtab_size \in 0 .. MaxSyms
  /\ kallsyms_num \in 0 .. KALLSYMS_NUM_MAX
  /\ kallsyms_addr \in [Slots -> Nat]
  /\ kallsyms_name \in [Slots -> Symbols \cup {NULL}]
  /\ pc \in {"sections", "load", "sort", "scan", "ready", "search", "alias"}
  /\ i \in 0 .. MaxSyms + KALLSYMS_NUM_MAX /\ k \in 0 .. KALLSYMS_NUM_MAX
  /\ idx \in Slots /\ addr_t \in Nat
  /\ low \in Slots /\ high \in 0 .. KALLSYMS_NUM_MAX /\ addr \in Nat
  /\ answer \in Symbols \cup {NULL}

(* The text symbols that are to be in the table now. *)
Loaded == IF pc = "load" THEN {s \in TextSymbols : s < i}
          ELSE IF pc = "sections" THEN {} ELSE {s \in TextSymbols : s < symtab_size}

(* At every moment, also in the middle of the sort, the table holds every  *)
(* text symbol loaded so far exactly once, each name beside its own        *)
(* address (kernel/ksym.c:80-110 keeps two arrays in step).                *)
SymbolsKept ==
  /\ {kallsyms_name[j] : j \in Used} = Loaded
  /\ \A j \in Used : kallsyms_addr[j] = symtab[kallsyms_name[j]]
  /\ \A j, l \in Used : kallsyms_name[j] = kallsyms_name[l] => j = l

(* A look-up answers with the last text symbol at or below the address; by *)
(* the comment at kernel/ksym.c:130-133 it stops at the first of several   *)
(* symbols with that address.  Below every symbol it answers with the      *)
(* lowest one, and in a stripped kernel with NULL.                         *)
LookupRight ==
  pc = "alias" /\ ~SameAsBefore =>
    LET name  == kallsyms_name[low]
        below == {s \in Loaded : symtab[s] <= addr}
    IN /\ Loaded = {} => name = NULL
       /\ Loaded # {} =>
            /\ name \in Loaded
            /\ \A s \in below : name \in below /\ symtab[s] <= symtab[name]
            /\ below = {} => \A s \in Loaded : symtab[name] <= symtab[s]
       /\ \A j \in 0 .. low - 1 : kallsyms_addr[j] < kallsyms_addr[low]

(* Loading, sorting and every look-up come to an end. *)
LoopsEnd == (pc # "ready") ~> (pc = "ready")

(***************************************************************************)
(* The inductive invariant behind the theorems of BootProofs.              *)
(***************************************************************************)
(* The sort's progress: the first n entries are in order, and none of them *)
(* is above an entry behind them.                                          *)
SortedUpTo(n) ==
  \A j \in Used, l \in Used : j < l /\ j < n => kallsyms_addr[j] <= kallsyms_addr[l]

SortInv ==
  /\ pc \in {"sort", "scan"} => i <= kallsyms_num /\ SortedUpTo(i)
  /\ pc = "scan" =>
       /\ i < kallsyms_num /\ idx \in i .. kallsyms_num - 1
       /\ k \in i + 1 .. kallsyms_num
       /\ addr_t = kallsyms_addr[idx]
       /\ \A j \in i .. k - 1 : addr_t <= kallsyms_addr[j]
  /\ pc \in {"ready", "search", "alias"} => SortedUpTo(kallsyms_num)

SearchInv ==
  /\ pc \in {"search", "alias"} =>
       /\ kallsyms_num = 0 => low = 0 /\ high = 0
       /\ kallsyms_num > 0 => low < high /\ high <= kallsyms_num
       /\ low > 0 => kallsyms_addr[low] <= addr
  /\ pc = "search" /\ high < kallsyms_num => kallsyms_addr[high] > addr
  /\ pc = "alias" =>
       \A j \in Used : kallsyms_addr[j] > kallsyms_addr[low] => kallsyms_addr[j] > addr

LoadInv ==
  /\ \E n \in 0 .. MaxSyms : Symbols = 0 .. n - 1
  /\ Cardinality(TextSymbols) <= KALLSYMS_NUM_MAX
  /\ symtab_size \in {0, Cardinality(Symbols)}
  /\ kallsyms_num = Cardinality(Loaded)
  /\ pc = "sections" => kallsyms_num = 0
  /\ pc = "load" => i <= symtab_size
  /\ \A j \in Slots : j >= kallsyms_num => kallsyms_name[j] = NULL

KSymInv ==
  /\ KSymTypeOK
  /\ LoadInv
  /\ SymbolsKept
  /\ SortInv
  /\ SearchInv
=============================================================================
