# hlos, specified

hlos is a small 32-bit x86 kernel: it boots from GRUB, sets up paging, a page
allocator and a heap, installs its interrupt gates and then answers timer
interrupts for ever. This directory holds TLA+ modules translated from its
source, the TLC configurations that model-check them, and proofs about them
for TLAPS.

## The system

One processor, no user mode, no scheduler in the built kernel. `kern_init`
(`init/entry.c`) calls the parts in this order: segment table, interrupt gates,
console, symbol table, physical memory (which starts the page allocator, maps
the kernel and starts the heap), timer; then it enables interrupts and loops.

| Part | State it keeps | Operations | Hard to get right |
|---|---|---|---|
| linked lists, `include/list.h` | `next` / `prev` in every embedded node, `first` / `pprev` in hlists | add, delete, move, splice, cut, replace, the loops | aliasing of arguments; what a deleted node points to; loops whose body deletes |
| page allocator, `mm/buddy.c`, `include/mm.h` | `free_area[11]` (ring and counter per order), `struct page` of each frame | `pmm_free_pages` (boot), `alloc_pages`, `free_pages`, `get_page` | merging and splitting over long histories; index past the last frame; stale counts |
| heap, `mm/slob.c` | chunk headers inside one 4 MB block, `slob_head` | `slob_init`, `kmalloc`, `kfree` | splitting and gluing; a chunk not split is not marked; 32-bit sizes |
| physical layout, `mm/pmm.c` | kernel page table, frame array, page count | `init_pmm`, `page_address`, `page_to_pfn` | 32-bit address arithmetic on odd memory maps |
| interrupts, `idt/` | gate table, handler table | `isr_handler`, `irq_handler`, `register_interrupt_handler` | end of interrupt before the handler; no nesting because gates clear IF |
| timer, `drivers/timer.c` | `tick` | `init_timer`, `timer_callback` | ticks lost before the handler is registered; the counter against printk's decimal output |
| console and printk, `drivers/console.c` | text screen, cursor, one static text buffer | `console_vga_write`, `printk` | lazy scroll; one buffer for every caller |
| formatting, `libs/vsprintf.c` | none | `vsnprintf`, its helpers and callers | format state machine, truncation, digits without division |
| strings, `libs/string.c` | none | C string functions | boundary sizes |
| symbols, `kernel/ksym.c` | sorted table of 1024 symbols | load, look up, stack trace | table bound, empty table, equal addresses |
| tasks, `kernel/task.c_bak` | task list, current task | `create_task`, `schedule` | not compiled; its calls are commented out |
| segments, panic, boot code | constants | – | straight-line code |

How they interact: `init_pmm` computes the frame array and calls
`pmm_free_pages`; `slob_init` takes one block of order 10 from `alloc_pages` and
never gives it back; both allocators thread their free memory on `list.h`
rings; everything prints through `printk`, whose text `vsprintf` makes; interrupts
are the only thing that runs beside the main flow, and their handlers touch
nothing but the tick and the console. So allocator calls never interleave with
each other in this kernel, and what is hard about them is not concurrency but
*history*: a wrong merge or link is invisible until much later. The models
therefore give clients full freedom over the sequence of calls, and keep the
loops of the source as separate steps so that the state inside a loop is
checked too. Where things do run beside each other, in interrupt dispatch, the
devices, the processor and the handlers interleave freely.

What makes each part correct:

- page allocator: a frame is in exactly one block at all times; free lists,
  page flags and counters agree; free buddies are merged; an allocation fails
  only when no run of the size is free; a block returns to the pool with its
  last reference and not before;
- heap: chunks tile the arena; free neighbours are merged; the memory of two
  callers is disjoint and as large as asked for; nothing leaks;
- lists: the links close both ways, a call changes the sequence of entries as
  its comment says, a loop visits what it should whatever its body removes;
- layout: kernel, tables, frame array and frames do not overlap, every page is
  mapped, what is handed out is usable memory;
- interrupts: a handler finds what was interrupted and returns to it, every
  request is served and acknowledged once, no tick is lost;
- console: the screen shows the last 25 lines of what was written;
- formatting and strings: the result is the one C prescribes, within the buffer;
- symbols: the table is sorted and the look-up finds the last symbol at or below
  the address.

## Modules

| Module | Models | Notes |
|---|---|---|
| `ListHead` | the `list_head` operations of `include/list.h` | a heap of nodes is a record of two functions, `next` and `prev`; each operator is one inline function, assignments in source order |
| `ListHeadProofs` | – | every `list_head` operation turns closed, connected rings into closed, connected rings and leaves other rings alone, for any set of nodes |
| `ListWalk` | heads, entries and walks along their pointers | used by the three modules below |
| `ListSeq` | what lists promise | each head in use stands for a sequence; one effect per call |
| `ListOps` | programs calling `list_head` operations | refines `ListSeq` |
| `ListIter` | the `list_for_each` loops | one step per turn, bodies that delete or move |
| `HList` | the hlist operations and loops | refines `ListSeq` |
| `Lists` | the three of them side by side | one part per behaviour |
| `MCLists` | a small instance | |
| `ListOpsProofs` | – | rings and sequences of every program on list_heads, for any finite sets of heads and entries |
| `ListLoopProofs` | – | the same for hlists, and every loop |
| `Buddy` | `mm/buddy.c` with `struct page` of `include/mm.h` | one step per loop iteration |
| `PagePool` | what the page allocator promises | a set of held runs and their references; no lists, no merging |
| `MCBuddy` | a small instance | |
| `BuddyProofs` | – | safety of `Buddy` for every size, and that it implements `PagePool` |
| `Slob` | `mm/slob.c` | chunk headers by address, so stale headers stay visible |
| `MCSlob` | small instances | |
| `SlobProofs` | – | safety of `Slob` for every size |
| `PhysMem` | `mm/pmm.c`, the temporary tables of `boot/init.c`, the block `slob_init` takes | 32-bit arithmetic in KB, on the machine's own numbers |
| `MCPhysMem` | memory maps | |
| `Pic8259` | two cascaded 8259A (external) | requests, masks, in-service state, acknowledge cycles |
| `Interrupts` | `idt/`, `drivers/timer.c`, `kern_init` | the stack holds named words; two halves of `printk` |
| `InterruptsProofs` | – | safety of `Interrupts` for every number of requests and NMIs |
| `Console` | `drivers/console.c` | one step per character written |
| `Terminal` | what the console promises | paper without end: lines of characters |
| `MCConsole` | a small screen | |
| `KSym` | `kernel/ksym.c` without the frame walk | one step per loop iteration |
| `MCKSym` | a small table | |
| `BootProofs` | – | what is set up while booting: the layout for every memory map and image (`PhysMem`), the screen for every size and text (`Console`), the symbols for every table (`KSym`) |
| `PutDec` | `put_dec` and `put_dec_trunc8` of `libs/vsprintf.c` | products and shifts as in the source |
| `Format` | the rest of `libs/vsprintf.c` | one step per stage of `format_decode` and per conversion |
| `FormatRef` | what ISO C prints | from the parts of a directive instead of its characters |
| `MCFormat` | calls of `Format` | |
| `StringSearch` | the reading functions of `libs/string.c` | one step per loop iteration |
| `StringCopy` | the writing ones | on one small memory, a byte per step |
| `MCStringSearch`, `MCStringCopy` | calls of them | |
| `Libs` | `PutDec`, `Format` and the two string modules side by side | one part per behaviour |
| `MCLibs` | calls of them | |
| `LibProofs` | – | the digits of every number below 10^8 (`PutDec`), that `vsnprintf` stays in its buffer (`Format`), and the answers and reads of every search (`StringSearch`) |

### Buddy

`lru`, `mapcount`, `private` and `count` are the fields of `struct page`, by frame
number; `nr_free` and the nodes `FreeList(o)` are `free_area[o]`. `mapcount`,
`private` and `count` have one entry more than there are frames, because the
merge loop may look one entry past the last frame and `init_pmm` zeroes that
entry. `pc` names the loop that is running (`boot`, `merge`, `scan`, `expand`),
`page`, `order` and `cur` its locals. `InitPages` is `init_buddy_mm` and the first
loop of `pmm_free_pages`; `BootRelease`, `BootShrink`, `BootDone` its second loop;
`MergeStep` and `FreeInsert` are `__free_one_page`; `AllocCall`, `AllocSkip`,
`AllocTake`, `AllocFail` are `__rmqueue_smallest`; `ExpandStep` is `expand`;
`AllocReturn` the end of `alloc_pages`; `GetPage` and `FreeCall` the clients' calls.
`1 << o` is the constant function `Pow2`, and XOR and AND with it are arithmetic on
one bit, because the provers know neither shifts nor bit operations; `MCBuddy`
gives `Pow2` its value.

Clients keep the contract of the interface: they free only blocks they hold,
with the order they asked for, and take a reference only on a block they hold
(the comment at `include/mm.h:43-46`). `held`, `refs` and `ret` record what clients were
given; no guard of a code step reads them.

### Slob

The arena is the addresses `0 .. ARENA - 1`; a chunk is named by the address of its
header. `allocated` and `length` are functions on *addresses*, not on chunks: when
a chunk is merged away its header stays in memory, and `kfree` of a stale
pointer reads it, as in C. `KmallocCall`, `WalkOn`, `Grant` and `GrantNothing` are
`kmalloc`, one step per iteration of its walk; `Kfree` has no loop and is one step.
`len` is computed modulo `WORD` (2^32), a chunk's length is stored modulo half of
it (a 31-bit field). `ptr` is what callers hold, `size` what they asked for, and
`tainted` records that `kmalloc` has handed out a chunk without splitting it, the
case in which the code does not mark it used.

Callers free each pointer they were given once, and their writes are not
modelled: they are assumed to stay off headers. Once the heap is tainted that
is generous, because a later split may put a header into memory an earlier
caller still holds; the properties that mention callers' memory say so
(`GrantsExclusive`), the structural ones are shown with this generosity.

`slob_test`, which `slob_init` runs at its end, is one sequence of `kmalloc` and
`kfree` calls; the model makes them in every order. The block `slob_init` takes
from `alloc_pages` is taken as given here; `PhysMem` shows on which machines it
is there and where it lies.

### Lists

In `ListHead` a heap of nodes is a record of two functions and an operation maps
a heap to a heap. `ListOps` is every program of such calls that keeps to the
header's comments: `live` is what the program knows, the heads it initialised and
the entries whose pointers mean something, and guards on `live` are the only
preconditions (an entry is added when it is on no list, spliced heads are not
used again until initialised). `Contents` walks the pointers, and with `lists` as
the sequences the walks give, `ListOps` implements `ListSeq`, in which a call is one
edit of sequences. `HList` does the same for hlists: a link is named by the head
or node that owns it, so `pprev` is an owner.

`ListIter` runs every loop of the header over any of the program's lists, to which it adds
entries between loops (`Put`): `head` is the list's head, `kind` the loop's direction and
whether it is a safe one, `pos` and `n` the cursor and the temporary. `Look` is a body that
changes nothing, `TakeOff` one that deletes its entry or moves it to another list (safe loops only),
`TakeNextOff` one that deletes the next entry and calls `list_safe_reset_next`. `todo` is
fixed when the loop starts; at every turn what was seen and what lies ahead make
up `todo`. The `_entry` forms name the structure around a node and are the same loops.

### PhysMem

One run of the boot sequence: `ScanRegion` is a turn of the loop over the memory
map, `Layout` the chain of assignments from `kern_pgd` to `phy_page_count`, `ClearArray`
the `bzero` of the frame array through the temporary tables, `MapTables`, `MapPages`,
`LoadCr3` the function `init_kernel_vmm`, `SlobInit` the block for the heap (not `slob_test`, which
comes after it). Addresses are
in KB and wrap at 2^22 KB as the source's wrap at 2^32; so the real constants
(0xC0000000, 16 MB, 4 MB blocks, 20-byte `struct page`) are checked, not scaled
ones. `KPgd` and `KPte` are the tables as functions of the entry number; what nobody
wrote is `STALE`, and `Translate` is the processor's walk through them. `OneBank` is
the kind of machine the code is written for: one bank above 1 MB, which begins
before the kernel's image ends (else the frames would begin in the gap between
them), reaches 6 MB beyond it and ends within the lowest GB. The properties say that such
machines boot, with a right layout, and on the others `FaultsExplained` says for
exactly which reasons they do not.

`alloc_pages` returns NULL where no block of 4 MB is free, and nothing tests it: `page_to_pfn`
takes NULL for a `struct page`. The compiler divides the difference of two pointers to
20 bytes by shifting it and multiplying with an inverse, so the frame number is what `NullPfn`
says, and the address lies a multiple of 4 MB above the first frame, modulo the word. Most of
the time nothing is mapped there and boot ends in a fault. But if the frame array begins at
4 MB exactly (an image that ends in the page before 4084 KB, with 4 to 8 MB of memory) the
multiple is zero: boot goes on, and the heap, of 4 MB that memory does not have, begins at
the first frame, which the page allocator still counts as free.

### Interrupts and Pic8259

`kern_init` is a sequence of steps (`KernInit`), among them the words `init_idt` and
`init_timer` write to ports; `eip` is a place in it or in a handler. Between any two steps a
device may raise or withdraw its line, the processor may take an interrupt
(`Accept`, then one or two acknowledge cycles) or an NMI. `Enter` pushes what the
processor and the stub push, `Field` reads `pt_regs` at the offsets of `include/idt.h`,
`Iret` pops what the stub pops: `FrameRight` compares the three. `IrqSlave`, `IrqMaster` and
`IrqCall` are the three statements of `irq_handler`, `IsrHandler` is `isr_handler`, and `printk` is
`textbuf` being filled and, a step later, shown. `bad` is a machine on which `init_pmm`
faults; what happens then is a fault again, for ever (`FaultRepeats`).

Spurious interrupts happen: a line that is withdrawn between `Accept` and the
acknowledge cycle is answered with line 7. `calls` and `acks` are history. The 8253's
rate is written but means nothing here, the timer's line rises at any time.

### Console and Terminal

`video_memory[y][x]` is the source's `video_memory[max_xpos * y + x]`; `cursor` is the
position last sent to the VGA controller. `ConsoleInit` is `console_init`, `Printk` the
part of `printk` before the write (the text is cut to the buffer), and
`PutNewline`, `PutReturn`, `PutChar` are one turn of the loop of `console_vga_write`, each with
the late scroll the loop begins with (`Screen0`, `Row0`); `MoveCursor` is what follows
the loop. A text is a sequence of model values: printable characters, the two
control characters the code tests for, and the zero that ends a string; the
colour attribute is left out. `lines` and `line` are history: what `Terminal` would
have on its paper. They are written by `Terminal`'s own actions and read by no guard
but the bound `MaxLines`. The claim is not that one refines the other but that the
screen is at every moment the tail of the paper (`ScreenShowsTail`).

Calls of `printk` do not interleave here: `kern_init` prints nothing once it has
enabled interrupts, and the gates clear the interrupt flag for the handlers. The
one exception is an NMI; `Interrupts` shows what it does to the static buffer.

### KSym

`symtab` is the ELF symbol table the boot loader passes, reduced to the values of
the symbols; a symbol's name is its index. `FindSections` is the walk over the
section headers (a stripped kernel has neither of the two sections it looks
for), `LoadSymbol` and `LoadDone` the loading loop, `SortRound`, `SortScan`, `SortSwap` and
`SortDone` the selection sort, `Lookup` to `LookupReturn` the look-up. Addresses looked up are
arbitrary, because a stack trace reads them from the stack. `Init` takes kernels
with at most `KALLSYMS_NUM_MAX` text symbols: the loading loop does not check, and
the number is fixed when the kernel is linked. `print_stack_trace`'s walk over the
frames only reads memory and prints; the offset `get_symbol_pos` can report is
asked for by nobody.

### PutDec and Format

`PutDec` is `put_dec_trunc8` step by step, each product with its constant and shift
(the 56-bit one put together from halves, so that no intermediate value exceeds
what the checker can hold). `DigitsSoFar` says that every product is used only below
the bound up to which it is a division by ten.

`Format` is `vsnprintf`: `Decode`, `DecodeWidth`, `DecodePrecision`, `DecodeQualifier`, `DecodeConversion`
are `format_decode` from label to label, returning early for a `*` and coming back
through `spec.type`; the actions from `Copy` to `Number` are the cases of the switch,
with `StringText` for `string()` and `NumberText` for `number()`; `Enter`, `Finish` and `Return` are the
prologue, the terminator and what `sprintf`, `snprintf` and `vscnprintf` add. Arguments are
32-bit words; a 64-bit number is a pair of them. The buffer is a function from
addresses to characters holding only what was written, so that a write outside
it shows (`InBounds`). `put_dec` appears with the result `PutDec` has, and as a null
pointer from 10^8 on. Widths and precisions are small: the 16-bit fields of
`printf_spec` do not overflow.

`FormatRef` states what ISO C prints. Where the code deviates without a comment
that promises otherwise, the reference calls leave the case out
(`IntegerAsIso`): `0` with a precision, `%#x` of 0, the precision 0 of 0, `%#o` with a
precision; a negative `*` precision of a string, which the code takes for 0.
Calls with no reference (`Unknown`) are still checked to stay inside the buffer:
`%p`, which prints its letter and takes no argument, `%t`, which prints an
uninitialised variable, unfinished and unknown directives.

### StringSearch and StringCopy

Each function of `libs/string.c` is an action that is one turn of its loop; `Start` is
what comes before the loop. `far` records the last byte read of each argument,
`mem` is the memory before and behind the destination, so that reading or writing
a byte too many shows at the step that does it, not at the end. `Expected`, `Wanted`,
`WantedReturn` say what a function is for in terms of whole texts. Calls keep the
preconditions the comments state: terminated strings, room in the destination,
for `strlcat` a destination shorter than the size (a larger one is called a bug in
the source, and the check for it is commented out). `strncasecmp`'s limit of 0 means no limit, and `strnstr`
searches behind the terminator of its first argument up to the limit; the
expectations say so, because no comment in the source says otherwise in so many
words. All of that is `CallsAssumption` of the two modules, which the proofs
assume and TLC evaluates for the calls of the run. The inline helpers of `string.h` only call these functions.

## Runs

| Run | Instance | Shows |
|---|---|---|
| `buddy` | 6 frames, orders 0–2, two references | blocks stay disjoint, no frame is lost, lists, flags and counters agree, merging is complete, a request fails only when no run is free, `page->_count` is the number of references, the allocator implements `PagePool`, every call returns |
| `slob` | 13 units, header 1, smallest payload 2, sizes 1, 3, 6, three callers | tiling, merging, no leak, exclusive memory, no false failure, every `kmalloc` returns |
| `lists` | 2 heads, 3 entries | links, loops and hlist nodes right; both kinds of list implement `ListSeq` |
| `phys` | 18 memory maps from 3 MB to 3.5 GB, four kernel sizes | good machines boot, the layout is right; the others fail for one of three reasons, or come up on an address made of NULL |
| `interrupts` | timer, keyboard and a line of the slave, each raised twice, one NMI, six lines of screen | frames, in-service state and ticks right, every request served, a fault repeats |
| `console` | 2 columns, 3 rows, a buffer of 7, nine texts, 5 lines | after each character the screen is the tail of what was printed, the cursor is where the next character shows, `printk` returns |
| `ksym` | a table of 3, up to 4 ELF symbols, values 1–5, text from 1 to 5 | no symbol is lost or misnamed at any step, look-ups are right, the loops end |
| `libs` | 90 numbers, 9900 formatted calls, 18300 searches, 8000 copies | digits, text, terminator, return value and arguments of formatted output; results and reads of searches; results and writes of copies; every loop returns |
| `slob_marked` | 9 units | **violated**: a chunk handed out whole stays marked free |
| `slob_wrap` | 9 units, `WORD` 32, a size of 31 | **violated**: a size close to the word wraps |
| `format_qualifiers` | `%hd`, `%ld` and their like | **violated**: a single `h` or `l` swallows the conversion |
| `format_decimals` | 99999999 and 100000000 | **violated**: nine digits are not printed |

Why these bounds are enough.

`buddy`: six frames with orders 0 to 2 are one full block of the largest order
plus a tail of two, so boot cuts blocks of two orders, blocks of the largest order
cannot merge further, the tail block's buddy is past the end (the probe one
entry past the last frame happens), and splits and merges of two levels happen. All
frames can be held at once as single frames, so the pool runs dry. Two
references tell the last `free_pages` from an earlier one.

`slob`: thirteen units hold up to four smallest chunks, so a freed chunk is met
with free neighbours on neither, either and both sides, exact fits (unsplit
chunks) and fragmentation failures occur, and three callers can share a chunk.

`lists`: two heads are source and target of splice, cut, move and replace; three
entries give a list with a first, a middle and a last one, and empty and one-entry
lists, where arguments alias. A loop over three entries has one behind the
cursor after the next one was deleted, and another list to move entries to. The
three models share no state, so `part` picks one per behaviour instead of
interleaving them. Names of heads and of entries can be exchanged (`MCSymmetry`), and
the run checks no liveness property. The proofs hold for all finite sets.

`phys`: the maps lie on both sides of every threshold: no region that begins above 1 MB, too
small for the tables, no frame left, one frame, too small for a block of 4 MB, one block, memory ending off a 4 MB boundary, more than
one page table's 4 MB, the edge of the direct map at 1 GB, a frame array that
still fits below 16 MB and one that does not; a hole at 15 MB and a bank whose
64-bit address has zero as its lower half. One of the images makes the frame array begin
at 4 MB where memory ends below 16 MB.

`interrupts`: two raises of each line put one request behind another in service;
lines 0, 1 and 8 are two priorities of the master and one behind the slave; the
line 7 and the slave's 15 occur as spurious interrupts. The NMI may fall into any
step, the two halves of `printk` included. With six lines kept, both ticks, both
unhandled interrupts' lines and the first line fit.

`console`: two columns tell the first and last column apart; three rows give a
first, a middle and a last one, and five finished lines scroll the screen at
least twice. The texts end lines by newline and by a full row, right before and
after a scroll; one is longer than the buffer and one holds a zero.

`ksym`: every ELF table of up to four values is an initial state: unsorted, with
duplicates, with values below, at and above the bounds of the text, empty, full.
Looked-up addresses lie below, between, on and above the symbols.

`libs`: numbers on both sides of every multiple of a power of ten; every pair of
flags with every conversion, no, digit and `*` widths and precisions, positive and
negative, with room for the text; fewer of them where the buffer has 0, 1, 4 or 9
bytes or a size above `INT_MAX`; all strings of up to three characters of three kinds
(two letters that differ by case and the newline), ended or as long as the limit;
all buffers of up to four bytes directly before and behind the source, and every
overlap of `memmove` in six bytes. As in `lists`, `callee` picks the part a behaviour
exercises.

Deadlock is checked in every run but those of one call or one boot (`phys`,
`libs` and the two of `Format`), whose behaviours end.

### Fairness

`CallsReturn` of the page allocator, `KmallocReturns`, `PrintkReturns` and `LoopsEnd` assume weak
fairness of the steps of a call that is already running, and nothing about clients: a processor inside a function
keeps executing it, and the one interrupt handler returns. No fairness is
assumed on calls being made. In `MCLibs` it is the steps of a library function that
are fair. In `Interrupts` it is the processor: as long as it can execute or
take an interrupt it does one of the two. Devices and NMIs owe nothing, and a
request may stay for ever only if the processor never takes it, which `Served`
excludes. That `vsnprintf` returns follows from `FormatRight`: the place in the format
moves on with every token.

### What disagrees with the source's comments

- `slob_marked`: `split_chunk` returns at `mm/slob.c:118-119` before the line that
  marks the chunk used, and `kmalloc` returns the chunk all the same. The
  comment at `mm/slob.c:26` says the field tells whether the block was handed out.
  Such a chunk can be handed out twice, and `kfree` of it does nothing. The
  other heap properties show what still holds: the list keeps tiling the
  arena, no chunk marked used is lost, and the heap is whole again when
  everybody has freed.
- `slob_wrap`: `kmalloc` is documented for any size (`mm/slob.c:156`), but size plus
  header is computed in 32 bits.
- `format_qualifiers`: the test at `libs/vsprintf.c:169` is inverted: an `l` or `h` that is
  not doubled becomes the doubled one and skips a further character, the
  conversion. The comment at line 66 lists them as qualifiers of integer fields.
- `format_decimals`: `put_dec` answers NULL from 10^8 on and `number()` computes the number of
  digits from it; the comments at lines 291 and 333 say callers use another
  function from nine digits on and that only 64 bits are unsupported. The tick
  counter gets there after about six days at 200 ticks a second.

Also met, but not against any comment: the frame array of a machine with about
3 GB or more does not end below the 16 MB that are mapped while it is cleared
(`ArrayTooLong` in `phys`); a machine without a block for the heap may come up
all the same (`NullMapped`); with a hole in the memory above 1 MB only the last region
counts and the hole is handed out (`FramesUsable` is stated for `OneBank` only); the
deviations from ISO C listed under Format.

## Proofs

Every theorem about a module is of the form `Spec => []P`, but for the three refinements
`ImplementsPool`, `ListsAreSequences` and `HlistsAreSequences`. They hold for every number of frames, orders and
references, every arena, header and minimum size, every finite set of list heads
and entries, every screen, buffer and set
of texts, every table and ELF symbol table, every memory map and image that ends within 4 MB,
every format, and every set of devices, number of requests and NMIs, under the named
assumptions of the modules (sizes positive, `Pow2` doubles, `NULL` is no number,
the arena fits half a word, the special characters differ, numbers are below
10^8, heads are no entries, memory maps are sequences of regions, the timer is a device and the
cascade is not). The heap's theorems also assume `NoWrap`: no size the
callers ask for wraps; `slob_wrap` shows why. The invariants are checked by TLC
only while they are developed; once proved for every size a run of them adds
nothing.

`BuddyProofs` has two layers. The first invariant, `IInv`, says: the control state is one the
code can be in; frames not yet released have a count of one; the blocks (free,
in flight, held) partition the released frames; a block is in only one of the
three sets; counts are references; and each order's free list is a closed ring
of exactly the frames marked free with that order, counted by `nr_free`. The
properties alone are not inductive: that a list holds the marked frames needs
that the rings of two orders never share a node, and that a merge does not
steal a client's frames needs the partition together with the marks. A merge
replaces two blocks by their union, `expand` replaces a block by its halves; the
lemmas show that both keep a partition. From `IInv` follow `Types`, `NoDoubleUse`,
`NoLeak`, `CountsExact` and `ProbesInBounds`.

The second, `ShapeInv`, says how the blocks lie: each begins at a multiple of its
size, no two free ones are buddies that could be merged, the lists a request
has scanned are empty, and each ring is connected, so that every set of nodes
with the head in it that is closed under `next` holds the whole ring. Alignment is
needed because two aligned blocks meet only if one holds the other, and a free
buddy can appear only where a block leaves the merge loop or a half is put on a
list. From it follow `BuddiesMerged`; `FreeListsRight`, because the walk from the
head visits a set closed under `next` (the first step at which it would not is
excluded by taking the least one, `LeastNatural`, in place of an induction);
`RefusesOnlyWhenFull`, because a free aligned run of which no part is in a block of at
least its size would be cut into smaller free blocks two of which are
mergeable buddies; and `Implements`: `InitPages` to `AllocReturn`, step by step, are a
step of `PagePool` or change nothing it sees.

`SlobProofs`. `IInv` is: the chunks on the list tile the arena in address order, no
two neighbours are free, a chunk marked used has a holder, `kmalloc`'s cursor is
on the list with nothing that fits behind it, and, until the heap is tainted,
each caller's chunk is its own. The heap changes in two ways only, a chunk is
cut or absorbs its successor; `SplitTiled` and `AbsorbTiled` show that each keeps
the tiling, `Glue` composes the absorptions of `glue_chunk`. From `IInv` follow all
the safety properties of the `slob` run, and `Restores`: when every caller has freed
its pointer the heap is one free chunk again.

`ListHeadProofs` first holds the facts about `list_add`, `list_del` and about walking a ring
that the allocators use, then the same for every other operation of the header.
`RingOfHead(L, R, h)` says that the nodes `R` are closed under `next` and `prev`, which undo
each other, and connected through `h`; `SameIn` that a set of nodes was not touched.
The operations are built from three pieces, linking a node between two
neighbours, joining the neighbours of a node, and splicing one ring into another
(`LinkRing`, `JoinRing`, `SpliceRing`), and cutting a ring in two (`CutRing`). The theorems
`MovedRing`, `ReplacedRing`, `SplicedInitRing` and `CutPositionRing` cover the cases where arguments
alias: an entry alone on its ring, a head replaced, an empty list spliced, a list cut at
its head or at its last entry.

`ListOpsProofs`. `Good(L, A, S)` says that on the nodes `A` in use the heap `L` reads `S`: each head's
sequence, followed through `next` and back through `prev`, is a path that returns to
its head (`Path`), no entry is on two, and an entry in use on none points to itself. One
lemma per operation leads from `Good` to `Good` with the sequences that `ListSeq` gives, so the
inductive invariant (`OpsInv`, `Good` of what walks read off) and the refinement come out of
the same proof. `RingsRight` alone is not inductive: closed rings with one head each do
not say that the walk from the head meets every node of the ring and stops
after as many steps, which is what the guards ask and what `ListSeq` sees. All
operations are five changes of paths: a segment is inserted or removed, a prefix
or suffix becomes a list of its own, a node takes another's place; each is
proved once for a path given by its places, because the provers cannot induct
over sequences. Where the length of a walk matters, the least step at which it
would go wrong replaces the induction.

`ListLoopProofs`. An hlist is a ring of which the head's back pointer is left out: `Agree`
says so of the links `fwd` and `pprev` and some ring, `Held` that the ring reads the
sequences, and `HInv` adds where the loop is. So each hlist operation is an operation on
the ring that is already proved, once it is shown that the links it writes agree
with that ring's; what has no such ring is `hlist_add_fake`, a node that is its own
owner. `IterInv` says of a loop over list_heads that its cursor is at place `i` of
the way through the list, forwards or backwards (`OnWay`), the temporary of a safe one at
the next (`Placed`), and that what was seen and the way from `i` on make up what is to be
seen (`Made`). The last is `LoopSeesAll` with the places named, without which the case in
which the body moves the entry away cannot be followed: the way gets shorter and
`i` stays.

`BootProofs`, the layout. `IInv` gives the layout in closed form: an image that ends within 4 MB and at
most 4 MB of tables behind it cannot wrap, so each area begins where the one
before ends. What can wrap is the count of frames, when memory ends below
the tables; then the frame array is longer than the 16 MB that are mapped while it is
cleared, and the boot stops there. In every other case `Mapped`, `Beyond` and `NotMapped` say
which addresses the new tables translate, and how. `NullPlace` follows the address made of NULL:
without a block there are at most three page tables, so the frame array begins at the
latest 16 KB past 4 MB, and the address is past memory's end, does not wrap, and is mapped only if
it is the first frame's. With that `Faults` (the three reasons, no others, and what the heap is made
of otherwise) follows; `Boots` needs that on one bank 6 MB are enough for the tables,
the frame array and an aligned block of 4 MB, and `LaysOut` is the five parts of `LayoutRight` one
by one. The proof found what the run had not: a bank that begins above the
kernel's end makes frames of the gap below it, so `OneBank` excludes it.

`InterruptsProofs`. The heart of `IInv` is `CallsInv`: interrupts are on in `kern_init`'s idle loop and
nowhere else, so the handlers active at a moment are at most one that
interrupted `kern_init` and one NMI on top of it. `StackInv` gives each of them 15 words,
whoever pushed the error code; `BootInv` says what of the controllers, the gates
and the handlers is set up at each place of `kern_init`, which matters because requests
and NMIs come at any time; where the bottom handler stands decides what is in
service (`ServiceInv`), whether the last timer interrupt is counted (`CountInv`) and whether
the last tick is on the screen, in the buffer or lost to an NMI (`TextInv`,
`ScreenInv`). None of the three properties is inductive without `CallsInv`: an interrupt
taken inside `irq_handler` would break each of them.

`BootProofs`, the console. `ConsoleInv` is `ScreenShowsTail` with `xpos = Len(line)`, the position the cursor
had after the last write, and the empty state before `console_init`.
`Settled` shows that the late scroll, taken or not, leaves a row for the character and
a screen that is still a tail of the paper; `EndLineCell` and `TypeCell` show what a
finished line and one more character change on the paper, and each turn of the
loop is one of the two after `Settled`.

`BootProofs`, the symbols. `KSymInv` is the loop invariants: what is loaded is the text symbols met so
far; the sort's first `i` entries are in order and below the rest, and `addr_t` is the
smallest of what was scanned; the search keeps the answer between `low` and `high`.
`SymbolsKept` needs none of the order, `LookupRight` needs all of it.

`LibProofs`, the digits. For each of the three constants a lemma gives the bound below
which the product and shift are the tenth; the hard one is the 33-bit constant,
whose product is split into halves first. `DigitsInv` says which bound holds at which step,
and that the digits written and the rest make up the number. From it follow
`DigitsRight` and `DigitsCounted`: no leading zero, at least one digit.

`LibProofs`, the buffer. `AddressInv` says that from the prologue on `end` lies within the
buffer, `str` not before its beginning, and that all bytes stored are before `end`; as
a byte is only ever stored at `str` or behind it and before `end`, this is inductive
once `str` does not go back. It would if a text had no length, so most lemmas say
that what `string()`, `number()` and the cases of the switch append is a finite text for every
specification; for that, `DecodeInv` keeps widths and precisions numbers, through
`skip_atoi` and `*`. `WritesInBounds` covers every format, the unfinished and unknown ones too,
every size and all arguments of the kinds the format asks for: its hypothesis
`[]ArgumentsFit` is `printf`'s contract (a `*` meets a number, `%s` a pointer to a string), a
conjunct of `FormatRight` in the run. What it takes for granted is the model's: widths
stay within 16 bits and the text within the address space.

`LibProofs`, the searches. `SearchInv` has one loop invariant per function (`SearchLoop`), of two
kinds. A comparison has met equal characters at all places before, none of them the
terminator; a search has passed no place that is one of those it looks for (`View`, `Places`), and for
`strstr` no place at which the second string occurs. What was read is bounded by
how far the loop has come. At the end the answer is the least, greatest or first of a set of
places, which the reference definitions ask for, so the invariant only has to say that no
other place qualifies. `sysfs_streq` takes most care: two texts are the same to it if
one of them is the other with a newline behind it (`Readings`), and where the loop stops decides
which of the two may have it.

Only model-checked:

- the liveness properties (`CallsReturn` of the page allocator and of the libraries,
  `KmallocReturns`, `PrintkReturns`, `LoopsEnd`, `Served`, `FaultRepeats`), which are out of the
  prover's reach;
- `FormatRight`: `FormatRef` says what a format prints by folding over its parts, and
  what a fold computes for every format needs an induction over data;
- `CopyRight`: one loop invariant for each of the ten functions that write (what is at the
  destination so far, and that the rest is as it was) would prove it as it proved `SearchRight`;
  nothing is in the way of it but its length.

## Not modelled

- `kernel/task.c_bak`: it is not compiled (the name keeps it out of the build), every
  call of it is commented out, and its task switch is assembly outside of it.
- `print_stack_trace`'s walk over the frames and `panic`: they read and print; what the
  walk looks up is the input of `KSym`.
- segment descriptors, the assembly entry in `boot/boot.s`, port I/O and `atomic.h`:
  constants, straight-line code or single instructions. Where they matter (port
  writes to the controllers, the counters in `struct page`) they are steps of the
  models that use them.
- the 8253's rate and what keys were pressed: no handler reads them.

## Plan

Done: every part above, with a theorem for each safety property of the page
allocator, the heap, the lists, the layout, the interrupts, the console and the
symbol table, for the bounds of formatted output and for the answers of the string searches.

Left: a proof of `CopyRight`, as sketched above; widths and precisions that overflow the 16-bit
fields of `printf_spec`; a caller of `kmalloc` who writes into what it holds, which would let the
model say what `kfree` of a pointer twice freed reads; the exceptions with an error
code other than the page fault.
