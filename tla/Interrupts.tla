----------------------------- MODULE Interrupts -----------------------------
(***************************************************************************)
(* Interrupts from the device's line to the tick on the screen: init_idt,  *)
(* the stubs, isr_handler and irq_handler of idt/, the timer's handler,    *)
(* and the part of kern_init up to its idle loop.                          *)
(*                                                                         *)
(* The processor executes one step at eip; between two steps it may accept *)
(* an interrupt or an NMI.  The stack holds named words, so that what the  *)
(* processor and the stubs push must fit pt_regs and what they pop.  printk *)
(* is its two halves: the text goes into the static buffer, and from there *)
(* to the screen.  Devices are nondeterministic.                           *)
(***************************************************************************)
EXTENDS Integers, Sequences, FiniteSets, Pic8259

CONSTANTS
  Lines,      \* interrupt lines that have a device
  MaxRaises,  \* bound: how often each of them is raised
  MaxNmis,    \* bound: non-maskable interrupts
  Rows        \* bound: how many of the last lines printed are kept

ASSUME LinesAssumption ==
  /\ Lines \subseteq 0..15 \ {2} /\ 0 \in Lines
  /\ MaxRaises \in Nat /\ MaxNmis \in Nat /\ Rows \in Nat \ {0}

VARIABLES
  bad,       \* a machine on which init_pmm touches an unmapped page
  pic, idt, interrupt_handlers,
  cpu,       \* "run", or in an acknowledge cycle "inta1", "inta2"
  eip, iflag, stack,
  nmi_off,   \* NMIs wait for the next iret
  tick, textbuf, screen,
  raised, nmis,           \* bounds
  calls, acks             \* history: what was interrupted; timer interrupts

hw == <<bad, raised, nmis>>
text == <<textbuf, screen>>
vars == <<pic, idt, interrupt_handlers, cpu, eip, iflag, stack, nmi_off, tick,
          text, hw, calls, acks>>

(* Places in the code; the boot program's are 1, 2, ... *)
IRQ_HANDLER == 101
IRQ_MASTER == 102
IRQ_CALL == 103
ISR_HANDLER == 104
TIMER_CALLBACK == 105
PRINT_WRITE == 106
STUB_RETURN == 107
LOST == 108

TIMER == 32          \* IRQ0's vector
NMI == 2
GP == 13
PAGE_FAULT == 14

-----------------------------------------------------------------------------
(* kern_init as a program.  The two controllers first. *)
Out(port, v) == [op |-> "outb", port |-> port, v |-> v]
Do(op) == [op |-> op, port |-> 0, v |-> 0]

InitPics ==
  << Out(32, 17), Out(160, 17),    \* both expect three more words
     Out(33, 32), Out(161, 40),    \* vectors 32 and 40
     Out(33, 4), Out(161, 2),      \* the slave is on line 2
     Out(33, 1), Out(161, 1),
     Out(33, 0), Out(161, 0) >>    \* nothing is masked

(* The vectors init_idt gives a gate. *)
Gates == 0..47 \cup {255}

DIVISOR == 1193180 \div 200
InitTimer ==
  << Do("register_timer"), Out(67, 54), Out(64, DIVISOR % 256),
     Out(64, (DIVISOR \div 256) % 256) >>

(* Mutant: interrupts are on before the timer has its handler. *)
KernInitEarly ==
  InitPics \o <<Do("init_idt"), Do("hello"), Do("write"), Do("init_pmm"),
                Do("sti")>> \o InitTimer \o <<Do("idle")>>
KernInit ==
  InitPics \o <<Do("init_idt"), Do("hello"), Do("write"), Do("init_pmm")>>
  \o InitTimer \o <<Do("sti"), Do("idle")>>

PmmAt == CHOOSE k \in DOMAIN KernInit : KernInit[k].op = "init_pmm"

-----------------------------------------------------------------------------
(* The stack, its top at the end.                                          *)
Word(name, v) == <<name, v>>

(* The exceptions for which the processor pushes an error code. *)
CpuPushesError == {8, 10, 11, 12, 13, 14, 17}

(* Those whose stub leaves the error code to the processor.  Mutant: the   *)
(* page fault's does not.                                                  *)
ErrorStubsMissing == {8, 10, 11, 12, 13, 17}
ErrorStubs == {8, 10, 11, 12, 13, 14, 17}

PushA == [k \in 1..8 |-> Word("reg", k)]

(* What a stub pushes for a vector, the argument of the C handler last. *)
StubPushes(v, below) ==
  LET saved == (IF v \in ErrorStubs THEN <<>> ELSE <<Word("err", 0)>>)
                 \o <<Word("int_no", v)>> \o PushA \o <<Word("ds", 16)>>
  IN saved \o <<Word("regs", below + Len(saved))>>

(* In a handler: pt_regs is where the argument points. *)
Regs == stack[Len(stack)][2]
Field(k) == stack[Regs - k]
INT_NO == 9
ERR_CODE == 10
EIP == 11
EFLAGS == 13

(* The interrupt flag in the handlers: the gates are interrupt gates, and  *)
(* the stubs begin with cli.                                               *)
FlagInHandler == 0

(* The processor takes a vector and runs its stub; err is the error code,  *)
(* if the vector has one.  A vector without a gate is a general protection *)
(* fault.  IRQ stubs call irq_handler, the others isr_handler.             *)
Enter(vector, err) ==
  LET v == IF vector \in idt THEN vector ELSE GP
      hardware == <<Word("eflags", iflag), Word("cs", 8), Word("eip", eip)>>
                  \o (IF v \in CpuPushesError THEN <<Word("err", err)>>
                                              ELSE <<>>)
      below == stack \o hardware
  IN /\ stack' = below \o StubPushes(v, Len(below))
     /\ eip' = IF v \in 32..47 THEN IRQ_HANDLER ELSE ISR_HANDLER
     /\ iflag' = FlagInHandler
     /\ cpu' = "run"
     /\ calls' = Append(calls, [vector |-> v, eip |-> eip, iflag |-> iflag,
                     err |-> IF v \in CpuPushesError THEN err ELSE 0])

(* How many words the stub removes before iret.  Mutant: only one. *)
StubCleansOne == 1
StubCleans == 2

(* The end of both stubs: the argument, ds, popa, the number and the error *)
(* code, and iret.                                                         *)
Iret ==
  LET rest == SubSeq(stack, 1, Len(stack) - (1 + 1 + 8 + StubCleans))
      n == Len(rest)
  IN /\ eip' = IF rest[n][1] = "eip" THEN rest[n][2] ELSE LOST
     /\ iflag' = IF rest[n - 2][1] = "eflags" THEN rest[n - 2][2] ELSE 0
     /\ stack' = SubSeq(rest, 1, n - 3)

-----------------------------------------------------------------------------
Init ==
  /\ bad \in BOOLEAN
  /\ pic = [m |-> Chip(8), s |-> Chip(112)]     \* as the BIOS left them
  /\ idt = {} /\ interrupt_handlers = [v \in 0..255 |-> FALSE]
  /\ cpu = "run" /\ eip = 1 /\ iflag = 0 /\ stack = <<>> /\ nmi_off = FALSE
  /\ tick = 0 /\ textbuf = <<"empty", 0>> /\ screen = <<>>
  /\ raised = [n \in Lines |-> 0] /\ nmis = 0
  /\ calls = <<>> /\ acks = 0

(* A device. *)
Raise(n) ==
  /\ raised[n] < MaxRaises
  /\ raised' = [raised EXCEPT ![n] = @ + 1]
  /\ pic' = RaiseLine(pic, n)
  /\ UNCHANGED <<bad, nmis, idt, interrupt_handlers, cpu, eip, iflag, stack,
                 nmi_off, tick, text, calls, acks>>

Drop(n) ==
  /\ Requested(pic, n) /\ pic' = DropLine(pic, n)
  /\ UNCHANGED <<hw, idt, interrupt_handlers, cpu, eip, iflag, stack, nmi_off,
                 tick, text, calls, acks>>

(* The processor sees its interrupt pin, then acknowledges. *)
Accept ==
  /\ cpu = "run" /\ iflag = 1 /\ Intr(pic)
  /\ cpu' = "inta1"
  /\ UNCHANGED <<hw, pic, idt, interrupt_handlers, eip, iflag, stack, nmi_off,
                 tick, text, calls, acks>>

AckMaster ==
  /\ cpu = "inta1"
  /\ LET eligible == MasterEligible(pic)
         n == AckLine(eligible)
     IN /\ pic' = [pic EXCEPT !.m = AckChip(@, eligible)]
        /\ IF n = 2 /\ pic.m.casc = 4
           THEN cpu' = "inta2" /\ UNCHANGED <<eip, iflag, stack, calls, acks>>
           ELSE /\ Enter(pic.m.base + n, 0)
                /\ acks' = IF n = 0 THEN acks + 1 ELSE acks
  /\ UNCHANGED <<hw, idt, interrupt_handlers, nmi_off, tick, text>>

AckSlave ==
  /\ cpu = "inta2"
  /\ LET eligible == Eligible(pic.s, pic.s.irr)
     IN /\ pic' = [pic EXCEPT !.s = AckChip(@, eligible)]
        /\ Enter(pic.s.base + AckLine(eligible), 0)
  /\ UNCHANGED <<hw, idt, interrupt_handlers, nmi_off, tick, text, acks>>

NonMaskable ==
  /\ cpu = "run" /\ idt # {} /\ ~nmi_off /\ nmis < MaxNmis
  /\ nmis' = nmis + 1 /\ nmi_off' = TRUE
  /\ Enter(NMI, 0)
  /\ UNCHANGED <<bad, raised, pic, idt, interrupt_handlers, tick, text, acks>>

-----------------------------------------------------------------------------
Printed(line) ==
  LET all == Append(screen, line)
  IN IF Len(all) > Rows THEN Tail(all) ELSE all

(* One step of kern_init.  init_pmm ends on a good machine; on a bad one   *)
(* its instruction faults, and eip stays at it.                            *)
Boot ==
  /\ cpu = "run" /\ eip \in DOMAIN KernInit
  /\ LET step == KernInit[eip] IN
     /\ step.op # "idle" /\ (step.op = "init_pmm" => ~bad)
     /\ eip' = eip + 1
     /\ pic' = IF step.op = "outb" THEN OutB(pic, step.port, step.v) ELSE pic
     /\ idt' = IF step.op = "init_idt" THEN Gates ELSE idt
     /\ interrupt_handlers' =
          IF step.op = "register_timer"
          THEN [interrupt_handlers EXCEPT ![TIMER] = TRUE]
          ELSE interrupt_handlers
     /\ textbuf' = IF step.op = "hello" THEN <<"hello", 0>> ELSE textbuf
     /\ screen' = IF step.op = "write" THEN Printed(textbuf) ELSE screen
     /\ iflag' = IF step.op = "sti" THEN 1 ELSE iflag
  /\ UNCHANGED <<hw, cpu, stack, nmi_off, tick, calls, acks>>

Fault ==
  /\ cpu = "run" /\ eip = PmmAt /\ bad
  /\ Enter(PAGE_FAULT, 2)
  /\ UNCHANGED <<hw, pic, idt, interrupt_handlers, nmi_off, tick, text, acks>>

(* while(true); *)
Idle ==
  /\ cpu = "run" /\ eip \in DOMAIN KernInit /\ KernInit[eip].op = "idle"
  /\ UNCHANGED vars

(* Whether an interrupt number is the slave's.  Mutant: off by one. *)
FromSlaveAbove(int_no) == int_no > 40
FromSlave(int_no) == int_no >= 40

IrqSlave ==
  /\ cpu = "run" /\ eip = IRQ_HANDLER
  /\ pic' = IF FromSlave(Field(INT_NO)[2]) THEN OutB(pic, 160, 32) ELSE pic
  /\ eip' = IRQ_MASTER
  /\ UNCHANGED <<hw, idt, interrupt_handlers, cpu, iflag, stack, nmi_off,
                 tick, text, calls, acks>>

(* Mutant: the master is told only of its own interrupts. *)
EoiMasterOwn == IF FromSlave(Field(INT_NO)[2]) THEN pic ELSE OutB(pic, 32, 32)
EoiMaster == OutB(pic, 32, 32)

IrqMaster ==
  /\ cpu = "run" /\ eip = IRQ_MASTER
  /\ pic' = EoiMaster
  /\ eip' = IRQ_CALL
  /\ UNCHANGED <<hw, idt, interrupt_handlers, cpu, iflag, stack, nmi_off,
                 tick, text, calls, acks>>

IrqCall ==
  /\ cpu = "run" /\ eip = IRQ_CALL
  /\ eip' = IF interrupt_handlers[Field(INT_NO)[2]] THEN TIMER_CALLBACK
                                                   ELSE STUB_RETURN
  /\ UNCHANGED <<hw, pic, idt, interrupt_handlers, cpu, iflag, stack, nmi_off,
                 tick, text, calls, acks>>

IsrHandler ==
  /\ cpu = "run" /\ eip = ISR_HANDLER
  /\ IF interrupt_handlers[Field(INT_NO)[2]]
     THEN eip' = TIMER_CALLBACK /\ UNCHANGED textbuf
     ELSE /\ textbuf' = <<"Unhandled", Field(INT_NO)[2]>>
          /\ eip' = PRINT_WRITE
  /\ UNCHANGED <<hw, pic, idt, interrupt_handlers, cpu, iflag, stack, nmi_off,
                 tick, screen, calls, acks>>

(* printk("\nTick: %d\n", tick++). *)
TickShown == tick

TimerCallback ==
  /\ cpu = "run" /\ eip = TIMER_CALLBACK
  /\ textbuf' = <<"Tick", TickShown>> /\ tick' = tick + 1
  /\ eip' = PRINT_WRITE
  /\ UNCHANGED <<hw, pic, idt, interrupt_handlers, cpu, iflag, stack, nmi_off,
                 screen, calls, acks>>

PrintWrite ==
  /\ cpu = "run" /\ eip = PRINT_WRITE
  /\ screen' = Printed(textbuf)
  /\ eip' = STUB_RETURN
  /\ UNCHANGED <<hw, pic, idt, interrupt_handlers, cpu, iflag, stack, nmi_off,
                 tick, textbuf, calls, acks>>

StubReturn ==
  /\ cpu = "run" /\ eip = STUB_RETURN
  /\ Iret
  /\ nmi_off' = FALSE
  /\ calls' = SubSeq(calls, 1, Len(calls) - 1)
  /\ UNCHANGED <<hw, pic, idt, interrupt_handlers, cpu, tick, text, acks>>

Handlers == \/ IrqSlave \/ IrqMaster \/ IrqCall \/ IsrHandler \/ TimerCallback
            \/ PrintWrite \/ StubReturn

Processor == Accept \/ AckMaster \/ AckSlave \/ Boot \/ Fault \/ Handlers

Next == \/ Processor \/ NonMaskable \/ Idle
        \/ \E n \in Lines : Raise(n) \/ Drop(n)

(* The processor never stops executing; devices owe nothing. *)
Spec == Init /\ [][Next]_vars /\ WF_vars(Processor)

-----------------------------------------------------------------------------
InHandler == eip >= IRQ_HANDLER

(* What a handler finds in pt_regs is what was interrupted: the vector     *)
(* taken, its error code or 0, and the registers iret will load.  Outside  *)
(* of the handlers the stack is as it was.                                 *)
FrameRight ==
  IF ~InHandler THEN stack = <<>> /\ calls = <<>>
  ELSE LET c == calls[Len(calls)] IN
       /\ calls # <<>>
       /\ Field(INT_NO) = Word("int_no", c.vector)
       /\ Field(ERR_CODE) = Word("err", c.err)
       /\ Field(EIP) = Word("eip", c.eip)
       /\ Field(EFLAGS) = Word("eflags", c.iflag)

(* The controllers and the kernel agree on what is in service: nothing is, *)
(* except between an acknowledge and the end-of-interrupt commands.  A     *)
(* spurious interrupt, for which nothing is in service, must not take away *)
(* another one's place.                                                    *)
Acknowledged ==
  \/ cpu = "inta2" \/ eip \in {IRQ_HANDLER, IRQ_MASTER}
  \/ \E k \in DOMAIN calls : calls[k].eip \in {IRQ_HANDLER, IRQ_MASTER}
ServiceEnds == ~Acknowledged => pic.m.isr = {} /\ pic.s.isr = {}

(* irq_handler ends the interrupt before it calls the device's handler, so *)
(* only the interrupt flag keeps a second one out: handlers do not nest,   *)
(* and the stack never holds more than one interrupt and one NMI.          *)
NoNesting ==
  /\ Len(calls) <= 2
  /\ Len(calls) = 2 => \E k \in 1..2 : calls[k].vector = NMI

(* The ticks on the screen are numbered in order, and all are there, as    *)
(* long as it has not scrolled, but at most one for each NMI: an NMI that  *)
(* comes between the two halves of printk replaces the text in its buffer. *)
TickLines == {k \in DOMAIN screen : screen[k][1] = "Tick"}
TicksBefore(k) == Cardinality({j \in TickLines : j < k})
LinesExact ==
  /\ \A k \in TickLines : screen[k][2] - TicksBefore(k) \in 0..nmis
  /\ \A j, k \in TickLines : j < k => screen[j][2] < screen[k][2]
TicksShown ==
  ~InHandler /\ Len(screen) < Rows =>
    tick - Cardinality(TickLines) \in 0..nmis /\ LinesExact

(* No timer interrupt that the processor took is lost: whenever no handler *)
(* is running, tick is their number.  (An edge that comes before the last  *)
(* one was acknowledged is lost in the controller.)                        *)
TicksCounted == ~InHandler /\ cpu = "run" => tick = acks

(* Every timer interrupt taken is counted once and shown once, in order,   *)
(* and no interrupt gets into the handler of another.                      *)
TicksRight == NoNesting /\ TicksShown /\ TicksCounted

(* Once interrupts are on, a request is served or withdrawn, whatever      *)
(* spurious interrupts and NMIs come with it.                              *)
Served ==
  \A n \in Lines :
    (eip = Len(KernInit) /\ Requested(pic, n)) ~> ~Requested(pic, n)

(* An exception has no handler, and returning to the instruction that      *)
(* faulted raises it again: the kernel reports it, over and over, and gets *)
(* no further.                                                             *)
FaultRepeats ==
  bad => /\ []<>(eip = PmmAt)
         /\ []<>(textbuf = <<"Unhandled", PAGE_FAULT>>)

(***************************************************************************)
(* The inductive invariant behind the theorems of InterruptsProofs.        *)
(***************************************************************************)
Irqs == 32..47
Handler == IRQ_HANDLER..STUB_RETURN
Words == {"eflags", "cs", "eip", "err", "int_no", "reg", "ds", "regs"} \X Int
Texts == {"empty", "hello", "Unhandled", "Tick"} \X Int
Call == [vector : 0..255, eip : Int, iflag : {0, 1}, err : Int]
ChipState == [icw : {0, 2, 3, 4}, base : Nat, casc : Nat, imr : SUBSET (0..7),
              irr : SUBSET (0..7), isr : SUBSET (0..7)]

TypeOK ==
  /\ pic \in [m : ChipState, s : ChipState] /\ 2 \notin pic.m.irr
  /\ cpu \in {"run", "inta1", "inta2"} /\ eip \in Int /\ iflag \in {0, 1}
  /\ stack \in Seq(Words) /\ calls \in Seq(Call)
  /\ textbuf \in Texts /\ screen \in Seq(Texts)
  /\ tick \in Nat /\ acks \in Nat /\ nmis \in Nat /\ nmi_off \in BOOLEAN
  /\ bad \in BOOLEAN /\ raised \in [Lines -> Nat]

(* How far kern_init has got; where the handler of the k-th call is. *)
BootAt == IF calls = <<>> THEN eip ELSE calls[1].eip
At(k) == IF k = Len(calls) THEN eip ELSE calls[k + 1].eip

(* Every vector is at a place its stub and its handler lead to. *)
PlaceOf(v, place) ==
  /\ place \in Handler
  /\ v \in Irqs \cup {NMI, PAGE_FAULT}
  /\ place \in {IRQ_HANDLER, IRQ_MASTER, IRQ_CALL} => v \in Irqs
  /\ place = ISR_HANDLER => v \in {NMI, PAGE_FAULT}
  /\ place = TIMER_CALLBACK => v = TIMER
  /\ place = PRINT_WRITE => v \in {TIMER, NMI, PAGE_FAULT}

(* Interrupts are on in kern_init's idle loop and nowhere else, so calls   *)
(* holds at most one call of kern_init's and, on top of it, an NMI's.      *)
FlagAt(place) == IF place = Len(KernInit) THEN 1 ELSE 0
NmiOnTop == calls # <<>> /\ calls[Len(calls)].vector = NMI
CallsInv ==
  /\ Len(calls) <= 2 /\ BootAt \in DOMAIN KernInit /\ iflag = FlagAt(eip)
  /\ \A k \in DOMAIN calls : /\ PlaceOf(calls[k].vector, At(k))
                             /\ calls[k].iflag = FlagAt(calls[k].eip)
                             /\ calls[k].vector \in Irqs => calls[k].eip = Len(KernInit)
  /\ Len(calls) = 2 => calls[1].vector # NMI /\ calls[2].vector = NMI
  /\ nmi_off <=> NmiOnTop
  /\ cpu # "run" => calls = <<>> /\ eip = Len(KernInit)

(* Each call has 15 words on the stack. *)
FRAME == 15
StackInv ==
  /\ Len(stack) = FRAME * Len(calls)
  /\ \A k \in DOMAIN calls :
       LET top == FRAME * k IN
       /\ stack[top] = Word("regs", top - 1)
       /\ stack[top - 10] = Word("int_no", calls[k].vector)
       /\ stack[top - 11] = Word("err", calls[k].err)
       /\ stack[top - 12] = Word("eip", calls[k].eip)
       /\ stack[top - 14] = Word("eflags", calls[k].iflag)

(* What kern_init has set up so far. *)
BootInv ==
  /\ idt = IF BootAt > 11 THEN Gates ELSE {}
  /\ interrupt_handlers = [v \in 0..255 |-> v = TIMER /\ BootAt > 15]
  /\ pic.m.icw = IF BootAt \in 2..3 THEN 2 ELSE IF BootAt \in 4..5 THEN 3
                 ELSE IF BootAt \in 6..7 THEN 4 ELSE 0
  /\ pic.s.icw = IF BootAt \in 3..4 THEN 2 ELSE IF BootAt \in 5..6 THEN 3
                 ELSE IF BootAt \in 7..8 THEN 4 ELSE 0
  /\ BootAt > 3 => pic.m.base = 32
  /\ BootAt > 4 => pic.s.base = 40
  /\ BootAt > 5 => pic.m.casc = 4

(* What is in service: at most the one line whose interrupt has not got    *)
(* past its end-of-interrupt commands.                                     *)
IrqAt(places) ==
  calls # <<>> /\ calls[1].vector \in Irqs /\ At(1) \in places
ServiceInv ==
  IF cpu = "inta2" THEN pic.m.isr = {2} /\ pic.s.isr = {}
  ELSE /\ pic.m.isr # {} => /\ IrqAt({IRQ_HANDLER, IRQ_MASTER})
                            /\ \E n \in 0..7 : pic.m.isr = {n}
       /\ pic.s.isr # {} => /\ IrqAt({IRQ_HANDLER}) /\ calls[1].vector >= 40
                            /\ \E n \in 0..7 : pic.s.isr = {n}

(* A timer interrupt taken is counted, or on its way to be. *)
TimerAt(places) == calls # <<>> /\ calls[1].vector = TIMER /\ At(1) \in places
CountInv ==
  acks = IF TimerAt({IRQ_HANDLER, IRQ_MASTER, IRQ_CALL, TIMER_CALLBACK})
         THEN tick + 1 ELSE tick

(* A tick counted is shown, on its way to be, or lost to an NMI.           *)
Pending == IF TimerAt({PRINT_WRITE}) /\ textbuf[1] = "Tick" THEN 1 ELSE 0
NmiFresh == IF NmiOnTop /\ eip = ISR_HANDLER THEN 1 ELSE 0
LostTicks == tick - Cardinality(TickLines) - Pending
TextInv ==
  /\ textbuf[1] = "Tick" => textbuf[2] = tick - 1 /\ BootAt = Len(KernInit)
  /\ \A k \in DOMAIN calls :
       calls[k].vector # TIMER /\ At(k) = PRINT_WRITE => textbuf[1] # "Tick"
ScreenInv ==
  /\ Len(screen) <= Rows
  /\ Len(screen) < Rows =>
       /\ LostTicks >= 0 /\ LostTicks + NmiFresh <= nmis
       /\ LinesExact
       /\ \A k \in TickLines : screen[k][2] < tick - Pending

IInv == /\ TypeOK /\ CallsInv /\ StackInv /\ BootInv
        /\ ServiceInv /\ CountInv /\ TextInv /\ ScreenInv
=============================================================================
