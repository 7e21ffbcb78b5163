-------------------------- MODULE InterruptsProofs --------------------------
(***************************************************************************)
(* Machine-checked safety of the interrupt path, for every number of       *)
(* requests, NMIs and devices.                                             *)
(*                                                                         *)
(* The argument: interrupts are on in kern_init's idle loop and nowhere    *)
(* else, so at most one call of the idle loop and one NMI on top of it     *)
(* exist at a time; each has 15 words on the stack, whoever pushed its     *)
(* error code; and where the bottom call stands decides what the           *)
(* controllers have in service, how many ticks are counted and how many    *)
(* are shown.  The first lemmas say what is pushed and popped, then comes  *)
(* one lemma per step.                                                     *)
(***************************************************************************)
EXTENDS Interrupts, SequenceTheorems, FiniteSetTheorems, TLAPS

-----------------------------------------------------------------------------
(* kern_init, place by place. *)
LEMMA Program ==
  /\ Len(KernInit) = 20 /\ DOMAIN KernInit = 1..20
  /\ \A k \in 1..20 :
       KernInit[k].op = IF k \in 1..10 \/ k \in 16..18 THEN "outb"
                        ELSE IF k = 11 THEN "init_idt"
                        ELSE IF k = 12 THEN "hello"
                        ELSE IF k = 13 THEN "write"
                        ELSE IF k = 14 THEN "init_pmm"
                        ELSE IF k = 15 THEN "register_timer"
                        ELSE IF k = 19 THEN "sti" ELSE "idle"
<1>1. Len(KernInit) = 20 /\ DOMAIN KernInit = 1..20
  BY DEF KernInit, InitPics, InitTimer
<1>2. QED
  BY <1>1 DEF KernInit, InitPics, InitTimer, Do, Out

LEMMA PmmPlace == PmmAt = 14
BY Program DEF PmmAt

LEMMA Ports ==
  /\ KernInit[1] = Out(32, 17) /\ KernInit[2] = Out(160, 17)
  /\ KernInit[3] = Out(33, 32) /\ KernInit[4] = Out(161, 40)
  /\ KernInit[5] = Out(33, 4) /\ KernInit[6] = Out(161, 2)
  /\ KernInit[7] = Out(33, 1) /\ KernInit[8] = Out(161, 1)
  /\ KernInit[9] = Out(33, 0) /\ KernInit[10] = Out(161, 0)
  /\ \A k \in 16..18 : KernInit[k].port \in {64, 67}
BY DEF KernInit, InitPics, InitTimer, Out

-----------------------------------------------------------------------------
LEMMA WordTypes ==
  /\ \A v \in Int : /\ Word("eflags", v) \in Words /\ Word("cs", v) \in Words
                    /\ Word("eip", v) \in Words /\ Word("err", v) \in Words
                    /\ Word("int_no", v) \in Words /\ Word("reg", v) \in Words
                    /\ Word("ds", v) \in Words /\ Word("regs", v) \in Words
BY DEF Word, Words

(* z is s followed by t. *)
Joins(z, s, t) ==
  /\ z \in Seq(Words) /\ Len(s) \in Nat /\ Len(t) \in Nat
  /\ Len(z) = Len(s) + Len(t)
  /\ \A i \in 1..Len(s) : z[i] = s[i]
  /\ \A i \in 1..Len(t) : z[Len(s) + i] = t[i]

LEMMA Concat ==
  ASSUME NEW s \in Seq(Words), NEW t \in Seq(Words)
  PROVE  Joins(s \o t, s, t)
<1>1. Len(s) \in Nat /\ Len(t) \in Nat
  BY LenProperties
<1>2. /\ s \o t \in Seq(Words) /\ Len(s \o t) = Len(s) + Len(t)
      /\ \A i \in 1 .. Len(s) + Len(t) :
            (s \o t)[i] = IF i <= Len(s) THEN s[i] ELSE t[i - Len(s)]
  BY ConcatProperties
<1>3. \A i \in 1..Len(t) : (s \o t)[Len(s) + i] = t[i]
  <2> SUFFICES ASSUME NEW i \in 1..Len(t) PROVE (s \o t)[Len(s) + i] = t[i]
    OBVIOUS
  <2>1. /\ Len(s) + i \in 1 .. Len(s) + Len(t) /\ ~(Len(s) + i <= Len(s))
        /\ (Len(s) + i) - Len(s) = i
    BY <1>1
  <2>2. QED
    BY <1>2, <2>1
<1>4. QED
  BY <1>1, <1>2, <1>3 DEF Joins

(* What the processor and the stub push for one interrupt is 15 words,     *)
(* whoever pushes the error code.                                          *)
LEMMA Pushed ==
  ASSUME NEW vector \in Gates, NEW err \in Int, Enter(vector, err),
         idt = Gates, stack \in Seq(Words), eip \in Int, iflag \in Int
  PROVE  /\ stack' \in Seq(Words) /\ Len(stack) \in Nat /\ Len(stack') = Len(stack) + 15
         /\ \A k \in 1..Len(stack) : stack'[k] = stack[k]
         /\ stack'[Len(stack) + 1] = Word("eflags", iflag)
         /\ stack'[Len(stack) + 3] = Word("eip", eip)
         /\ stack'[Len(stack) + 4] = Word("err", IF vector \in CpuPushesError THEN err ELSE 0)
         /\ stack'[Len(stack) + 5] = Word("int_no", vector)
         /\ stack'[Len(stack) + 15] = Word("regs", Len(stack) + 14)
<1> DEFINE pushes == vector \in CpuPushesError
           base == <<Word("eflags", iflag), Word("cs", 8), Word("eip", eip)>>
           h == base \o (IF pushes THEN <<Word("err", err)>> ELSE <<>>)
           e == IF pushes THEN <<>> ELSE <<Word("err", 0)>>
           s1 == e \o <<Word("int_no", vector)>>
           s2 == s1 \o PushA
           saved == s2 \o <<Word("ds", 16)>>
           z1 == stack \o h
           regs == Word("regs", Len(z1) + Len(saved))
           z2 == saved \o <<regs>>
<1>1. vector \in idt /\ vector \in Int
  BY DEF Gates
<1>2. ErrorStubs = CpuPushesError
  BY DEF ErrorStubs, CpuPushesError
<1>3. stack' = z1 \o z2
  BY <1>1, <1>2 DEF Enter, StubPushes
<1>4. PushA \in Seq(Words) /\ Len(PushA) = 8
  <2>1. PushA \in [1..8 -> Words]
    BY WordTypes DEF PushA
  <2>2. PushA \in Seq(Words)
    <3>1. Seq(Words) = UNION {[1..n -> Words] : n \in Nat}
      BY SeqDef, Zenon
    <3>2. PushA \in UNION {[1..n -> Words] : n \in Nat}
      BY <2>1
    <3>3. QED
      BY <3>1, <3>2
  <2>3. Len(PushA) = 8
    BY DEF PushA
  <2>4. QED
    BY <2>2, <2>3
<1>5. base \in Seq(Words) /\ Len(base) = 3
  BY WordTypes
<1>6. CASE pushes
  <2>1. /\ h \in Seq(Words) /\ Len(h) = 4 /\ h[1] = Word("eflags", iflag)
        /\ h[3] = Word("eip", eip) /\ h[4] = Word("err", err)
    BY <1>5, <1>6, WordTypes
  <2>2. /\ s1 \in Seq(Words) /\ Len(s1) = 1
        /\ s1[1] = Word("int_no", vector)
    <3>1. e = <<>>
      BY <1>6
    <3> HIDE DEF e
    <3>2. QED
      BY <1>1, <3>1, WordTypes DEF s1
  <2> HIDE DEF h, s1
  <2>3. Joins(s2, s1, PushA)
    BY <1>4, <2>2, Concat, Zenon DEF s2
  <2>4. Joins(saved, s2, <<Word("ds", 16)>>)
    <3>1. <<Word("ds", 16)>> \in Seq(Words)
      BY WordTypes
    <3>2. QED
      BY <2>3, <3>1, Concat, Zenon DEF Joins, saved
  <2>5. Joins(z1, stack, h)
    BY <2>1, Concat, Zenon DEF z1
  <2> HIDE DEF s2, saved, z1
  <2>6. /\ saved \in Seq(Words) /\ Len(saved) = 10
        /\ saved[1] = Word("int_no", vector)
    BY <1>4, <2>2, <2>3, <2>4 DEF Joins
  <2>7. regs = Word("regs", Len(stack) + 14) /\ regs \in Words
    <3>1. Len(z1) + Len(saved) = Len(stack) + 14 /\ Len(stack) + 14 \in Int
      BY <2>1, <2>5, <2>6 DEF Joins
    <3>2. QED
      BY <3>1, WordTypes DEF regs
  <2> HIDE DEF regs
  <2>8. <<regs>> \in Seq(Words) /\ Len(<<regs>>) = 1 /\ <<regs>>[1] = regs
    BY <2>7
  <2>9. Joins(z2, saved, <<regs>>)
    BY <2>6, <2>8, Concat, Zenon DEF z2
  <2>10. Joins(stack', z1, z2)
    BY <1>3, <2>5, <2>9, Concat, Zenon DEF Joins
  <2> HIDE DEF z2
  <2>11. /\ Len(stack) \in Nat /\ Len(z1) = Len(stack) + 4 /\ Len(z2) = 11
    BY <2>1, <2>5, <2>6, <2>8, <2>9 DEF Joins
  <2>12. /\ stack' \in Seq(Words) /\ Len(stack') = Len(stack) + 15
    BY <2>10, <2>11 DEF Joins
  <2>13. \A k \in 1..Len(stack) : stack'[k] = stack[k]
    <3> SUFFICES ASSUME NEW k \in 1..Len(stack) PROVE stack'[k] = stack[k]
      OBVIOUS
    <3>1. k \in 1..Len(z1)
      BY <2>11
    <3>2. QED
      BY <2>5, <2>10, <3>1 DEF Joins
  <2>14. \A k \in 1..4 : stack'[Len(stack) + k] = h[k]
    <3> SUFFICES ASSUME NEW k \in 1..4 PROVE stack'[Len(stack) + k] = h[k]
      OBVIOUS
    <3>1. Len(stack) + k \in 1..Len(z1) /\ k \in 1..Len(h)
      BY <2>1, <2>11
    <3>2. QED
      BY <2>5, <2>10, <3>1 DEF Joins
  <2>15. \A k \in 1..11 : stack'[(Len(stack) + 4) + k] = z2[k]
    BY <2>10, <2>11 DEF Joins
  <2>16. z2[11] = regs /\ \A k \in 1..10 : z2[k] = saved[k]
    BY <2>6, <2>8, <2>9 DEF Joins
  <2>17. /\ stack'[Len(stack) + 1] = h[1] /\ stack'[Len(stack) + 3] = h[3]
         /\ stack'[Len(stack) + 4] = h[4]
    BY <2>14
  <2>18. /\ stack'[Len(stack) + 5] = z2[1]
         /\ stack'[Len(stack) + 15] = z2[11]
    <3>1. \A k \in 1..11 : (Len(stack) + 4) + k = Len(stack) + (k + 4)
      BY <2>11
    <3>2. QED
      BY <2>15, <3>1
  <2>19. QED
    BY <1>6, <2>1, <2>6, <2>7, <2>11, <2>12, <2>13, <2>16, <2>17, <2>18
<1>7. CASE ~pushes
  <2>1. /\ h \in Seq(Words) /\ Len(h) = 3 /\ h[1] = Word("eflags", iflag)
        /\ h[3] = Word("eip", eip)
    BY <1>5, <1>7, WordTypes
  <2>2. /\ s1 \in Seq(Words) /\ Len(s1) = 2
        /\ s1[1] = Word("err", 0) /\ s1[2] = Word("int_no", vector)
    <3>1. e = <<Word("err", 0)>>
      BY <1>7
    <3> HIDE DEF e
    <3>2. QED
      BY <1>1, <3>1, WordTypes DEF s1
  <2> HIDE DEF h, s1
  <2>3. Joins(s2, s1, PushA)
    BY <1>4, <2>2, Concat, Zenon DEF s2
  <2>4. Joins(saved, s2, <<Word("ds", 16)>>)
    <3>1. <<Word("ds", 16)>> \in Seq(Words)
      BY WordTypes
    <3>2. QED
      BY <2>3, <3>1, Concat, Zenon DEF Joins, saved
  <2>5. Joins(z1, stack, h)
    BY <2>1, Concat, Zenon DEF z1
  <2> HIDE DEF s2, saved, z1
  <2>6. /\ saved \in Seq(Words) /\ Len(saved) = 11
        /\ saved[1] = Word("err", 0) /\ saved[2] = Word("int_no", vector)
    BY <1>4, <2>2, <2>3, <2>4 DEF Joins
  <2>7. regs = Word("regs", Len(stack) + 14) /\ regs \in Words
    <3>1. Len(z1) + Len(saved) = Len(stack) + 14 /\ Len(stack) + 14 \in Int
      BY <2>1, <2>5, <2>6 DEF Joins
    <3>2. QED
      BY <3>1, WordTypes DEF regs
  <2> HIDE DEF regs
  <2>8. <<regs>> \in Seq(Words) /\ Len(<<regs>>) = 1 /\ <<regs>>[1] = regs
    BY <2>7
  <2>9. Joins(z2, saved, <<regs>>)
    BY <2>6, <2>8, Concat, Zenon DEF z2
  <2>10. Joins(stack', z1, z2)
    BY <1>3, <2>5, <2>9, Concat, Zenon DEF Joins
  <2> HIDE DEF z2
  <2>11. /\ Len(stack) \in Nat /\ Len(z1) = Len(stack) + 3 /\ Len(z2) = 12
    BY <2>1, <2>5, <2>6, <2>8, <2>9 DEF Joins
  <2>12. /\ stack' \in Seq(Words) /\ Len(stack') = Len(stack) + 15
    BY <2>10, <2>11 DEF Joins
  <2>13. \A k \in 1..Len(stack) : stack'[k] = stack[k]
    <3> SUFFICES ASSUME NEW k \in 1..Len(stack) PROVE stack'[k] = stack[k]
      OBVIOUS
    <3>1. k \in 1..Len(z1)
      BY <2>11
    <3>2. QED
      BY <2>5, <2>10, <3>1 DEF Joins
  <2>14. \A k \in 1..3 : stack'[Len(stack) + k] = h[k]
    <3> SUFFICES ASSUME NEW k \in 1..3 PROVE stack'[Len(stack) + k] = h[k]
      OBVIOUS
    <3>1. Len(stack) + k \in 1..Len(z1) /\ k \in 1..Len(h)
      BY <2>1, <2>11
    <3>2. QED
      BY <2>5, <2>10, <3>1 DEF Joins
  <2>15. \A k \in 1..12 : stack'[(Len(stack) + 3) + k] = z2[k]
    BY <2>10, <2>11 DEF Joins
  <2>16. z2[12] = regs /\ \A k \in 1..11 : z2[k] = saved[k]
    BY <2>6, <2>8, <2>9 DEF Joins
  <2>17. /\ stack'[Len(stack) + 1] = h[1] /\ stack'[Len(stack) + 3] = h[3]
    BY <2>14
  <2>18. /\ stack'[Len(stack) + 4] = z2[1] /\ stack'[Len(stack) + 5] = z2[2]
         /\ stack'[Len(stack) + 15] = z2[12]
    <3>1. \A k \in 1..12 : (Len(stack) + 3) + k = Len(stack) + (k + 3)
      BY <2>11
    <3>2. QED
      BY <2>15, <3>1
  <2>19. QED
    BY <1>7, <2>1, <2>6, <2>7, <2>11, <2>12, <2>13, <2>16, <2>17, <2>18
<1>8. QED
  BY <1>6, <1>7

-----------------------------------------------------------------------------
LEMMA CallsType ==
  ASSUME TypeOK
  PROVE  /\ Len(calls) \in Nat /\ DOMAIN calls = 1..Len(calls)
         /\ calls # <<>> <=> Len(calls) # 0
         /\ \A k \in 1..Len(calls) : calls[k] \in Call
<1>1. calls \in Seq(Call)
  BY DEF TypeOK
<1>2. Len(calls) \in Nat /\ DOMAIN calls = 1..Len(calls)
  BY <1>1, LenProperties
<1>3. calls # <<>> => Len(calls) # 0
  BY <1>1, EmptySeq
<1>4. calls = <<>> => Len(calls) = 0
  BY EmptySeq
<1>5. QED
  BY <1>1, <1>2, <1>3, <1>4, ElementOfSeq

(* In kern_init nothing is interrupted, *)
LEMMA Bottom ==
  ASSUME TypeOK, CallsInv, eip \in DOMAIN KernInit
  PROVE  calls = <<>> /\ Len(calls) = 0 /\ BootAt = eip
<1>1. SUFFICES ASSUME calls # <<>> PROVE FALSE
  BY CallsType DEF BootAt
<1>2. Len(calls) \in DOMAIN calls
  BY <1>1, CallsType
<1>3. At(Len(calls)) \in Handler
  BY <1>2 DEF CallsInv, PlaceOf
<1>4. QED
  BY <1>3, Program DEF At, Handler, IRQ_HANDLER, STUB_RETURN

(* and in a handler it runs the call on top, finding it in pt_regs. *)
LEMMA Top ==
  ASSUME TypeOK, CallsInv, StackInv, eip \in Handler
  PROVE  /\ Len(calls) \in 1..2 /\ calls # <<>> /\ calls[Len(calls)] \in Call
         /\ At(Len(calls)) = eip /\ iflag = 0
         /\ PlaceOf(calls[Len(calls)].vector, eip)
         /\ Field(INT_NO) = Word("int_no", calls[Len(calls)].vector)
         /\ Field(ERR_CODE) = Word("err", calls[Len(calls)].err)
         /\ Field(EIP) = Word("eip", calls[Len(calls)].eip)
         /\ Field(EFLAGS) = Word("eflags", calls[Len(calls)].iflag)
<1>1. calls # <<>>
  BY Program DEF CallsInv, BootAt, Handler, IRQ_HANDLER, STUB_RETURN
<1>2. Len(calls) \in 1..2 /\ Len(calls) \in DOMAIN calls /\ calls[Len(calls)] \in Call
  BY <1>1, CallsType DEF CallsInv
<1>3. At(Len(calls)) = eip
  BY DEF At
<1>4. PlaceOf(calls[Len(calls)].vector, eip)
  BY <1>2, <1>3 DEF CallsInv
<1>5. iflag = 0
  BY Program DEF CallsInv, FlagAt, Handler, IRQ_HANDLER, STUB_RETURN
<1> DEFINE top == FRAME * Len(calls)
<1>6. Len(stack) = top /\ top \in Int
  BY <1>2 DEF StackInv, FRAME
<1>7. /\ stack[top] = Word("regs", top - 1)
      /\ stack[top - 10] = Word("int_no", calls[Len(calls)].vector)
      /\ stack[top - 11] = Word("err", calls[Len(calls)].err)
      /\ stack[top - 12] = Word("eip", calls[Len(calls)].eip)
      /\ stack[top - 14] = Word("eflags", calls[Len(calls)].iflag)
  BY <1>2 DEF StackInv
<1> HIDE DEF top
<1>8. Regs = top - 1
  BY <1>6, <1>7 DEF Regs, Word
<1>9. /\ Regs - INT_NO = top - 10 /\ Regs - ERR_CODE = top - 11
      /\ Regs - EIP = top - 12 /\ Regs - EFLAGS = top - 14
  BY <1>6, <1>8 DEF INT_NO, ERR_CODE, EIP, EFLAGS
<1>10. QED
  BY <1>1, <1>2, <1>3, <1>4, <1>5, <1>7, <1>9 DEF Field

LEMMA Places ==
  ASSUME TypeOK, CallsInv
  PROVE  eip \in DOMAIN KernInit \/ eip \in Handler
<1>1. CASE calls = <<>>
  BY <1>1 DEF CallsInv, BootAt
<1>2. CASE calls # <<>>
  <2>1. Len(calls) \in DOMAIN calls
    BY <1>2, CallsType
  <2>2. At(Len(calls)) \in Handler
    BY <2>1 DEF CallsInv, PlaceOf
  <2>3. QED
    BY <2>2 DEF At
<1>3. QED
  BY <1>1, <1>2

(* An interrupt taken adds a call on top; the calls below stay where they  *)
(* are.                                                                    *)
LEMMA Entered ==
  ASSUME TypeOK, CallsInv, StackInv, idt = Gates,
         NEW vector \in Gates, NEW err \in Int, Enter(vector, err)
  PROVE  /\ calls' \in Seq(Call) /\ Len(calls') = Len(calls) + 1
         /\ \A k \in 1..Len(calls) : calls'[k] = calls[k] /\ At(k)' = At(k)
         /\ calls'[Len(calls) + 1].vector = vector
         /\ calls'[Len(calls) + 1].eip = eip
         /\ calls'[Len(calls) + 1].iflag = iflag
         /\ \A k \in Int : k = Len(calls) + 1 => At(k)' = eip'
         /\ BootAt' = BootAt
         /\ eip' = IF vector \in Irqs THEN IRQ_HANDLER ELSE ISR_HANDLER
         /\ iflag' = 0 /\ cpu' = "run"
         /\ stack' \in Seq(Words) /\ StackInv'
<1> DEFINE n == Len(calls)
           c == [vector |-> vector, eip |-> eip, iflag |-> iflag,
                 err |-> IF vector \in CpuPushesError THEN err ELSE 0]
<1>1. /\ calls' = Append(calls, c) /\ iflag' = 0 /\ cpu' = "run"
      /\ eip' = IF vector \in Irqs THEN IRQ_HANDLER ELSE ISR_HANDLER
  BY DEF Enter, FlagInHandler, Irqs
<1>2. c \in Call
  BY DEF TypeOK, Call, Gates
<1>3. n \in Nat /\ calls \in Seq(Call)
  BY CallsType DEF TypeOK
<1> HIDE DEF n, c
<1>4. /\ calls' \in Seq(Call) /\ Len(calls') = n + 1 /\ calls' # <<>>
      /\ \A k \in 1..n : calls'[k] = calls[k]
      /\ calls'[n + 1] = c
  BY <1>1, <1>2, <1>3, AppendProperties DEF n
<1>5. ASSUME NEW k \in 1..n PROVE At(k)' = At(k)
  <2>1. CASE k = n
    BY <1>3, <1>4, <2>1 DEF At, n, c
  <2>2. CASE k # n
    <3>1. k + 1 \in 1..n /\ k # n + 1
      BY <1>3, <2>2
    <3>2. QED
      BY <1>4, <2>2, <3>1 DEF At, n
  <2>3. QED
    BY <2>1, <2>2
<1>6. \A k \in Int : k = n + 1 => At(k)' = eip'
  BY <1>4 DEF At
<1>7. BootAt' = BootAt
  <2>1. CASE calls = <<>>
    BY <1>4, <2>1, CallsType DEF BootAt, n, c
  <2>2. CASE calls # <<>>
    <3>1. 1 \in 1..n
      BY <1>3, <2>2, CallsType DEF n
    <3>2. QED
      BY <1>4, <2>2, <3>1 DEF BootAt
  <2>3. QED
    BY <2>1, <2>2
<1>8. /\ stack' \in Seq(Words) /\ Len(stack) \in Nat /\ Len(stack') = Len(stack) + 15
      /\ \A k \in 1..Len(stack) : stack'[k] = stack[k]
      /\ stack'[Len(stack) + 1] = Word("eflags", iflag)
      /\ stack'[Len(stack) + 3] = Word("eip", eip)
      /\ stack'[Len(stack) + 4] = Word("err", IF vector \in CpuPushesError THEN err ELSE 0)
      /\ stack'[Len(stack) + 5] = Word("int_no", vector)
      /\ stack'[Len(stack) + 15] = Word("regs", Len(stack) + 14)
  <2>1. eip \in Int /\ iflag \in Int /\ stack \in Seq(Words)
    BY DEF TypeOK
  <2>2. QED
    BY <2>1, Pushed
<1>9. StackInv'
  <2> DEFINE top(k) == FRAME * k
  <2>1. /\ Len(stack) = 15 * n /\ Len(stack') = FRAME * (n + 1)
        /\ \A k \in 1..n : 15 * k \in 15..15 * n
    BY <1>3, <1>8 DEF StackInv, FRAME, n
  <2>2. ASSUME NEW k \in 1..n
        PROVE  /\ stack'[15 * k] = Word("regs", 15 * k - 1)
               /\ stack'[15 * k - 10] = Word("int_no", calls'[k].vector)
               /\ stack'[15 * k - 11] = Word("err", calls'[k].err)
               /\ stack'[15 * k - 12] = Word("eip", calls'[k].eip)
               /\ stack'[15 * k - 14] = Word("eflags", calls'[k].iflag)
    <3>1. k \in DOMAIN calls
      BY CallsType DEF n
    <3>2. /\ 15 * k \in 1..Len(stack) /\ 15 * k - 10 \in 1..Len(stack)
          /\ 15 * k - 11 \in 1..Len(stack) /\ 15 * k - 12 \in 1..Len(stack)
          /\ 15 * k - 14 \in 1..Len(stack)
      BY <1>3, <2>1
    <3>3. calls'[k] = calls[k]
      BY <1>4
    <3>4. QED
      BY <1>8, <3>1, <3>2, <3>3 DEF StackInv, FRAME
  <2>3. LET k == n + 1 IN
        /\ stack'[15 * k] = Word("regs", 15 * k - 1)
        /\ stack'[15 * k - 10] = Word("int_no", calls'[k].vector)
        /\ stack'[15 * k - 11] = Word("err", calls'[k].err)
        /\ stack'[15 * k - 12] = Word("eip", calls'[k].eip)
        /\ stack'[15 * k - 14] = Word("eflags", calls'[k].iflag)
    <3>1. /\ 15 * (n + 1) = Len(stack) + 15 /\ 15 * (n + 1) - 1 = Len(stack) + 14
          /\ 15 * (n + 1) - 10 = Len(stack) + 5 /\ 15 * (n + 1) - 11 = Len(stack) + 4
          /\ 15 * (n + 1) - 12 = Len(stack) + 3 /\ 15 * (n + 1) - 14 = Len(stack) + 1
      BY <1>3, <2>1
    <3>2. /\ calls'[n + 1].vector = vector /\ calls'[n + 1].eip = eip
          /\ calls'[n + 1].iflag = iflag
          /\ calls'[n + 1].err = IF vector \in CpuPushesError THEN err ELSE 0
      BY <1>4 DEF c
    <3>3. QED
      BY <1>8, <3>1, <3>2
  <2>4. DOMAIN calls' = 1..(n + 1) /\ \A k \in 1..(n + 1) : k \in 1..n \/ k = n + 1
    BY <1>3, <1>4, LenProperties
  <2>5. QED
    BY <1>4, <2>1, <2>2, <2>3, <2>4 DEF StackInv, FRAME
<1>10. QED
  BY <1>1, <1>4, <1>5, <1>6, <1>7, <1>8, <1>9 DEF n, c

(* A vector kern_init's idle loop, its faulting instruction or an NMI can  *)
(* bring leaves the calls as they should be.                               *)
LEMMA EnteredCalls ==
  ASSUME TypeOK, CallsInv, StackInv, idt = Gates,
         NEW vector \in Gates, NEW err \in Int, Enter(vector, err),
         \/ vector = NMI /\ ~nmi_off /\ nmi_off'
         \/ /\ calls = <<>> /\ nmi_off' = nmi_off
            /\ \/ vector \in Irqs /\ eip = Len(KernInit)
               \/ vector = PAGE_FAULT /\ eip \in DOMAIN KernInit
  PROVE  CallsInv'
<1> DEFINE n == Len(calls)
<1>1. /\ calls' \in Seq(Call) /\ Len(calls') = n + 1
      /\ \A k \in 1..n : calls'[k] = calls[k] /\ At(k)' = At(k)
      /\ calls'[n + 1].vector = vector
      /\ calls'[n + 1].eip = eip /\ calls'[n + 1].iflag = iflag
      /\ \A k \in Int : k = n + 1 => At(k)' = eip'
      /\ BootAt' = BootAt
      /\ eip' = IF vector \in Irqs THEN IRQ_HANDLER ELSE ISR_HANDLER
      /\ iflag' = 0 /\ cpu' = "run"
  BY Entered
<1>2. n \in Nat /\ n <= 2 /\ DOMAIN calls = 1..n /\ (calls = <<>> <=> n = 0)
  BY CallsType DEF CallsInv
<1>3. DOMAIN calls' = 1..(n + 1) /\ calls' # <<>>
  <2>1. DOMAIN calls' = 1..Len(calls')
    BY <1>1, LenProperties
  <2>2. Len(calls') # 0
    BY <1>1, <1>2
  <2>3. QED
    BY <1>1, <2>1, <2>2, EmptySeq
<1> HIDE DEF n
<1>4. n = 0 \/ (n = 1 /\ vector = NMI /\ calls[1].vector # NMI)
  <2>1. CASE vector = NMI /\ ~nmi_off
    <3>1. ~NmiOnTop
      BY <2>1 DEF CallsInv
    <3>2. n = 1 \/ n = 2 => calls[n].vector # NMI
      BY <1>2, <3>1 DEF NmiOnTop, n
    <3>3. QED
      BY <1>2, <2>1, <3>2 DEF CallsInv, n
  <2>2. CASE calls = <<>>
    BY <1>2, <2>2
  <2>3. QED
    BY <2>1, <2>2
<1>5. NMI \notin Irqs /\ PAGE_FAULT \notin Irqs /\ NMI # PAGE_FAULT
  BY DEF NMI, Irqs, PAGE_FAULT
<1>6. PlaceOf(vector, eip') /\ eip' \in Handler /\ FlagAt(eip') = 0
  BY <1>1, <1>5, Program DEF PlaceOf, Handler, Irqs, NMI, PAGE_FAULT, TIMER, IRQ_HANDLER,
     IRQ_MASTER, IRQ_CALL, ISR_HANDLER, TIMER_CALLBACK, PRINT_WRITE, STUB_RETURN, FlagAt
<1>7. iflag = FlagAt(eip) /\ FlagAt(eip)' = FlagAt(eip')
  BY DEF CallsInv, FlagAt
<1>8. ASSUME NEW k \in 1..(n + 1)
      PROVE  /\ PlaceOf(calls'[k].vector, At(k)')
             /\ calls'[k].iflag = FlagAt(calls'[k].eip)
             /\ calls'[k].vector \in Irqs => calls'[k].eip = Len(KernInit)
  <2>1. CASE k = n + 1
    <3>1. At(k)' = eip' /\ calls'[k].vector = vector /\ calls'[k].eip = eip /\ calls'[k].iflag = iflag
      BY <1>1, <2>1
    <3>2. vector \in Irqs => eip = Len(KernInit)
      BY <1>5
    <3>3. QED
      BY <1>6, <1>7, <3>1, <3>2
  <2>2. CASE k \in 1..n
    <3>1. At(k)' = At(k) /\ calls'[k] = calls[k]
      BY <1>1, <2>2
    <3>2. QED
      BY <1>2, <2>2, <3>1 DEF CallsInv
  <2>3. QED
    BY <1>2, <2>1, <2>2
<1>9. Len(calls') <= 2 /\ BootAt' \in DOMAIN KernInit /\ iflag' = FlagAt(eip)'
  <2>1. Len(calls') <= 2
    BY <1>1, <1>4
  <2>2. BootAt' \in DOMAIN KernInit
    BY <1>1 DEF CallsInv
  <2>3. iflag' = FlagAt(eip)'
    BY <1>1, <1>6, <1>7
  <2>4. QED
    BY <2>1, <2>2, <2>3
<1>10. Len(calls') = 2 => calls'[1].vector # NMI /\ calls'[2].vector = NMI
  <2>1. ASSUME Len(calls') = 2 PROVE n = 1 /\ vector = NMI /\ calls[1].vector # NMI
    <3>1. n + 1 = 2
      BY <1>1, <2>1
    <3>2. QED
      BY <1>2, <1>4, <3>1
  <2>2. n = 1 => calls'[1] = calls[1] /\ calls'[2].vector = vector
    BY <1>1
  <2>3. QED
    BY <2>1, <2>2
<1>11. nmi_off' <=> NmiOnTop'
  <2>1. NmiOnTop' <=> vector = NMI
    BY <1>1, <1>3 DEF NmiOnTop
  <2>2. calls = <<>> => ~nmi_off
    BY DEF CallsInv, NmiOnTop
  <2>3. QED
    BY <1>5, <2>1, <2>2
<1>12. QED
  BY <1>1, <1>3, <1>8, <1>9, <1>10, <1>11 DEF CallsInv, FlagAt, PlaceOf

(* A handler that goes on moves the call on top and no other. *)
LEMMA Moved ==
  ASSUME TypeOK, CallsInv, StackInv, eip \in Handler, eip' \in Handler,
         UNCHANGED <<calls, stack>>
  PROVE  /\ BootAt' = BootAt /\ StackInv'
         /\ \A k \in 1..Len(calls) : At(k)' = IF k = Len(calls) THEN eip' ELSE At(k)
<1>1. calls # <<>>
  BY Top
<1>2. QED
  BY <1>1 DEF BootAt, At, StackInv

LEMMA MovedCalls ==
  ASSUME TypeOK, CallsInv, StackInv, eip \in Handler,
         UNCHANGED <<calls, stack, iflag, nmi_off, cpu>>,
         PlaceOf(calls[Len(calls)].vector, eip')
  PROVE  CallsInv'
<1>1. /\ Len(calls) \in 1..2 /\ calls # <<>> /\ iflag = 0 /\ DOMAIN calls = 1..Len(calls)
      /\ eip' \in Handler
  BY Top, CallsType DEF PlaceOf
<1>2. /\ BootAt' = BootAt
      /\ \A k \in 1..Len(calls) : At(k)' = IF k = Len(calls) THEN eip' ELSE At(k)
  BY <1>1, Moved
<1>3. FlagAt(eip)' = 0
  BY <1>1, Program DEF FlagAt, Handler, IRQ_HANDLER, STUB_RETURN
<1>4. \A k \in DOMAIN calls : PlaceOf(calls[k].vector, At(k)')
  BY <1>1, <1>2 DEF CallsInv
<1>5. NmiOnTop' = NmiOnTop /\ cpu = "run"
  BY <1>1 DEF NmiOnTop, CallsInv
<1>6. QED
  BY <1>1, <1>2, <1>3, <1>4, <1>5 DEF CallsInv, FlagAt, PlaceOf

(* iret takes the call on top away and goes on where it was taken. *)
LEMMA Returned ==
  ASSUME TypeOK, CallsInv, StackInv, eip \in Handler, StubReturn
  PROVE  /\ eip' = calls[Len(calls)].eip /\ iflag' = calls[Len(calls)].iflag
         /\ Len(calls') = Len(calls) - 1 /\ calls' \in Seq(Call)
         /\ \A k \in 1..Len(calls) - 1 : calls'[k] = calls[k] /\ At(k)' = At(k)
         /\ (calls' = <<>>) <=> (Len(calls) = 1)
         /\ BootAt' = BootAt /\ stack' \in Seq(Words) /\ StackInv'
<1> DEFINE n == Len(calls)
           top == 15 * n
           rest == SubSeq(stack, 1, top - 12)
<1>1. n \in 1..2 /\ calls # <<>> /\ calls \in Seq(Call) /\ DOMAIN calls = 1..n
  BY Top, CallsType DEF TypeOK
<1>2. /\ Len(stack) = top /\ top \in {15, 30} /\ stack \in Seq(Words)
      /\ stack[top - 12] = Word("eip", calls[n].eip)
      /\ stack[top - 14] = Word("eflags", calls[n].iflag)
  <2>1. n = 1 \/ n = 2
    BY <1>1
  <2>2. top \in {15, 30}
    <3> HIDE DEF n
    <3>1. QED
      BY <2>1
  <2>3. /\ Len(stack) = top /\ stack[top - 12] = Word("eip", calls[n].eip)
        /\ stack[top - 14] = Word("eflags", calls[n].iflag)
    <3>1. n \in DOMAIN calls
      BY <1>1
    <3>2. QED
      BY <3>1 DEF StackInv, FRAME
  <2>4. QED
    BY <2>2, <2>3 DEF TypeOK
<1>3. /\ rest \in Seq(Words) /\ Len(rest) = top - 12
      /\ \A i \in 1..top - 12 : rest[i] = stack[i]
  <2>1. \A i \in 1..top - 12 : stack[i] \in Words
    <3>1. \A i \in 1..Len(stack) : stack[i] \in Words
      BY <1>2, ElementOfSeq
    <3>2. QED
      BY <1>2, <3>1
  <2>2. QED
    BY <1>2, <2>1, SubSeqProperties
<1>4. SubSeq(stack, 1, Len(stack) - (1 + 1 + 8 + StubCleans)) = rest
  BY <1>2 DEF StubCleans
<1> HIDE DEF rest, top
<1>5. /\ eip' = calls[n].eip /\ iflag' = calls[n].iflag
      /\ stack' = SubSeq(rest, 1, top - 15)
  <2>1. rest[top - 12] = Word("eip", calls[n].eip) /\ rest[top - 14] = Word("eflags", calls[n].iflag)
    BY <1>2, <1>3
  <2>2. (top - 12) - 2 = top - 14 /\ (top - 12) - 3 = top - 15
    BY <1>2
  <2>3. /\ eip' = IF rest[top - 12][1] = "eip" THEN rest[top - 12][2] ELSE LOST
        /\ iflag' = IF rest[top - 14][1] = "eflags" THEN rest[top - 14][2] ELSE 0
        /\ stack' = SubSeq(rest, 1, top - 15)
    <3>1. Iret
      BY DEF StubReturn
    <3>2. QED
      BY <1>3, <1>4, <2>2, <3>1 DEF Iret
  <2>4. QED
    BY <2>1, <2>3 DEF Word
<1>6. /\ stack' \in Seq(Words) /\ Len(stack') = top - 15
      /\ \A i \in 1..top - 15 : stack'[i] = stack[i]
  <2>1. \A i \in 1..top - 15 : rest[i] \in Words
    BY <1>2, <1>3, ElementOfSeq
  <2>2. /\ SubSeq(rest, 1, top - 15) \in Seq(Words)
        /\ Len(SubSeq(rest, 1, top - 15)) = IF 1 <= top - 15 THEN (top - 15) - 1 + 1 ELSE 0
        /\ \A i \in 1..(top - 15) - 1 + 1 : SubSeq(rest, 1, top - 15)[i] = rest[1 + i - 1]
    BY <1>2, <2>1, SubSeqProperties
  <2>3. QED
    BY <1>2, <1>3, <1>5, <2>2
<1>7. /\ calls' \in Seq(Call) /\ Len(calls') = n - 1
      /\ \A k \in 1..n - 1 : calls'[k] = calls[k]
  <2>1. calls' = SubSeq(calls, 1, n - 1)
    BY DEF StubReturn
  <2>2. \A i \in 1..n - 1 : calls[i] \in Call
    BY <1>1, ElementOfSeq
  <2>3. /\ SubSeq(calls, 1, n - 1) \in Seq(Call)
        /\ Len(SubSeq(calls, 1, n - 1)) = IF 1 <= n - 1 THEN (n - 1) - 1 + 1 ELSE 0
        /\ \A i \in 1..(n - 1) - 1 + 1 : SubSeq(calls, 1, n - 1)[i] = calls[1 + i - 1]
    BY <1>1, <2>2, SubSeqProperties
  <2>4. QED
    BY <1>1, <2>1, <2>3
<1>8. (calls' = <<>>) <=> (n = 1)
  <2>1. n = 1 => Len(calls') = 0
    BY <1>7
  <2>2. n # 1 => Len(calls') # 0
    BY <1>1, <1>7
  <2>3. (calls' = <<>>) <=> Len(calls') = 0
    BY <1>7, EmptySeq
  <2>4. QED
    BY <2>1, <2>2, <2>3
<1>9. \A k \in 1..n - 1 : At(k)' = At(k)
  <2> SUFFICES ASSUME NEW k \in 1..n - 1 PROVE At(k)' = At(k)
    OBVIOUS
  <2>1. k = 1 /\ n = 2
    BY <1>1
  <2>2. At(k)' = eip'
    BY <1>7, <2>1 DEF At
  <2>3. At(k) = calls[n].eip
    BY <2>1 DEF At
  <2>4. QED
    BY <1>5, <2>2, <2>3
<1>10. BootAt' = BootAt
  BY <1>1, <1>5, <1>7, <1>8 DEF BootAt
<1>11. StackInv'
  <2>1. DOMAIN calls' = 1..n - 1 /\ Len(stack') = FRAME * Len(calls')
    BY <1>1, <1>6, <1>7, LenProperties DEF FRAME, top
  <2>2. SUFFICES ASSUME NEW k \in 1..n - 1
                 PROVE  /\ stack'[15 * k] = Word("regs", 15 * k - 1)
                        /\ stack'[15 * k - 10] = Word("int_no", calls'[k].vector)
                        /\ stack'[15 * k - 11] = Word("err", calls'[k].err)
                        /\ stack'[15 * k - 12] = Word("eip", calls'[k].eip)
                        /\ stack'[15 * k - 14] = Word("eflags", calls'[k].iflag)
    BY <2>1 DEF StackInv, FRAME
  <2>3. n = 2 /\ k = 1 /\ top = 30
    <3>1. n = 2 /\ k = 1
      BY <1>1
    <3>2. QED
      BY <3>1 DEF top
  <2>4. calls'[1] = calls[1] /\ \A i \in 1..15 : stack'[i] = stack[i]
    BY <1>6, <1>7, <2>3
  <2>5. /\ stack[15] = Word("regs", 14)
        /\ stack[5] = Word("int_no", calls[1].vector)
        /\ stack[4] = Word("err", calls[1].err)
        /\ stack[3] = Word("eip", calls[1].eip)
        /\ stack[1] = Word("eflags", calls[1].iflag)
    <3>1. 1 \in DOMAIN calls
      BY <1>1
    <3>2. 15 * 1 = 15 /\ 15 - 1 = 14 /\ 15 - 10 = 5 /\ 15 - 11 = 4 /\ 15 - 12 = 3 /\ 15 - 14 = 1
      OBVIOUS
    <3>3. QED
      BY <3>1, <3>2 DEF StackInv, FRAME
  <2>6. QED
    BY <2>3, <2>4, <2>5
<1>12. QED
  BY <1>5, <1>6, <1>7, <1>8, <1>9, <1>10, <1>11

-----------------------------------------------------------------------------
(* The controllers. *)
PicState == [m : ChipState, s : ChipState]

LEMMA LeastIn ==
  ASSUME NEW S, S \subseteq 0..7, S # {}
  PROVE  Least(S) \in S
<1>1. \E n \in S : \A m \in S : n <= m
  <2> SUFFICES ASSUME \A n \in S : \E m \in S : ~(n <= m) PROVE FALSE
    OBVIOUS
  <2>1. 0 \notin S
    OBVIOUS
  <2>2. 1 \notin S
    BY <2>1
  <2>3. 2 \notin S
    BY <2>1, <2>2
  <2>4. 3 \notin S
    BY <2>1, <2>2, <2>3
  <2>5. 4 \notin S
    BY <2>1, <2>2, <2>3, <2>4
  <2>6. 5 \notin S
    BY <2>1, <2>2, <2>3, <2>4, <2>5
  <2>7. 6 \notin S
    BY <2>1, <2>2, <2>3, <2>4, <2>5, <2>6
  <2>8. 7 \notin S
    BY <2>1, <2>2, <2>3, <2>4, <2>5, <2>6, <2>7
  <2>9. \A x \in 0..7 : x \in {0, 1, 2, 3, 4, 5, 6, 7}
    OBVIOUS
  <2>10. PICK x \in S : TRUE
    OBVIOUS
  <2>11. x \in {0, 1, 2, 3, 4, 5, 6, 7}
    BY <2>9
  <2>12. QED
    BY <2>1, <2>2, <2>3, <2>4, <2>5, <2>6, <2>7, <2>8, <2>11
<1>2. QED
  BY <1>1 DEF Least

LEMMA LeastOne ==
  ASSUME NEW n \in 0..7
  PROVE  {n} \ {Least({n})} = {}
BY LeastIn

(* The non-specific end of interrupt touches the in-service register only. *)
LEMMA EndOfInterrupt ==
  ASSUME NEW c \in ChipState
  PROVE  /\ Command(c, 32) \in ChipState
         /\ Command(c, 32).icw = c.icw /\ Command(c, 32).base = c.base
         /\ Command(c, 32).casc = c.casc /\ Command(c, 32).irr = c.irr
         /\ c.isr = {} => Command(c, 32).isr = {}
         /\ (\E n \in 0..7 : c.isr = {n}) => Command(c, 32).isr = {}
<1>1. CASE c.isr = {}
  BY <1>1 DEF Command
<1>2. CASE c.isr # {}
  <2>1. Command(c, 32) = [c EXCEPT !.isr = @ \ {Least(@)}]
    BY <1>2 DEF Command
  <2>2. Command(c, 32) = [c EXCEPT !.isr = c.isr \ {Least(c.isr)}]
    BY <2>1 DEF ChipState
  <2>3. c.isr \ {Least(c.isr)} \subseteq 0..7
    BY DEF ChipState
  <2> HIDE DEF ChipState
  <2>4. (\E n \in 0..7 : c.isr = {n}) => c.isr \ {Least(c.isr)} = {}
    BY LeastOne
  <2>5. QED
    BY <1>2, <2>2, <2>3, <2>4 DEF ChipState
<1>3. QED
  BY <1>1, <1>2

(* An acknowledge cycle puts one line in service, or none. *)
LEMMA Acknowledge ==
  ASSUME NEW c \in ChipState, c.isr = {}, NEW S, S \subseteq 0..7
  PROVE  /\ AckChip(c, S) \in ChipState /\ AckLine(S) \in 0..7
         /\ AckChip(c, S).icw = c.icw /\ AckChip(c, S).base = c.base
         /\ AckChip(c, S).casc = c.casc /\ AckChip(c, S).irr \subseteq c.irr
         /\ S = {} => AckChip(c, S).isr = {}
         /\ S # {} => AckChip(c, S).isr = {AckLine(S)}
<1>1. CASE S = {}
  BY <1>1 DEF AckChip, AckLine
<1>2. CASE S # {}
  <2>1. Least(S) \in S /\ Least(S) \in 0..7
    BY <1>2, LeastIn
  <2>2. AckLine(S) = Least(S)
    BY <1>2 DEF AckLine
  <2>3. AckChip(c, S) = [c EXCEPT !.irr = c.irr \ {Least(S)}, !.isr = {Least(S)}]
    BY <1>2 DEF AckChip, ChipState
  <2>4. QED
    BY <1>2, <2>1, <2>2, <2>3 DEF ChipState
<1>3. QED
  BY <1>1, <1>2

(* A device's line changes a request register, and never the line the      *)
(* slave is on.                                                            *)
LEMMA DeviceLine ==
  ASSUME pic \in PicState, 2 \notin pic.m.irr, NEW n \in Lines,
         pic' = RaiseLine(pic, n) \/ pic' = DropLine(pic, n)
  PROVE  /\ pic' \in PicState /\ 2 \notin pic'.m.irr
         /\ pic'.m.icw = pic.m.icw /\ pic'.s.icw = pic.s.icw
         /\ pic'.m.base = pic.m.base /\ pic'.s.base = pic.s.base
         /\ pic'.m.casc = pic.m.casc
         /\ pic'.m.isr = pic.m.isr /\ pic'.s.isr = pic.s.isr
<1>1. n \in 0..15 /\ n # 2
  BY LinesAssumption
<1>2. /\ n < 8 => n \in 0..7
      /\ ~(n < 8) => n - 8 \in 0..7
  BY <1>1
<1>3. QED
  BY <1>1, <1>2 DEF PicState, ChipState, RaiseLine, DropLine

-----------------------------------------------------------------------------
(* The screen. *)
LEMMA TickLinesFinite ==
  ASSUME TypeOK
  PROVE  /\ Len(screen) \in Nat /\ DOMAIN screen = 1..Len(screen)
         /\ TickLines \subseteq 1..Len(screen)
         /\ IsFiniteSet(TickLines) /\ Cardinality(TickLines) \in Nat
         /\ \A k \in TickLines : screen[k] \in Texts /\ screen[k][2] \in Int
         /\ \A k \in Int : TicksBefore(k) \in Nat
<1>1. screen \in Seq(Texts)
  BY DEF TypeOK
<1>2. Len(screen) \in Nat /\ DOMAIN screen = 1..Len(screen)
  BY <1>1, LenProperties
<1>3. IsFiniteSet(1..Len(screen))
  BY <1>2, FS_Interval
<1>4. TickLines \subseteq 1..Len(screen)
  BY <1>2 DEF TickLines
<1>5. IsFiniteSet(TickLines) /\ Cardinality(TickLines) \in Nat
  BY <1>3, <1>4, FS_Subset, FS_CardinalityType
<1>6. \A k \in TickLines : screen[k] \in Texts
  BY <1>1, <1>4, ElementOfSeq
<1>7. \A k \in TickLines : screen[k][2] \in Int
  BY <1>6 DEF Texts
<1>8. ASSUME NEW k \in Int PROVE TicksBefore(k) \in Nat
  <2>1. {j \in TickLines : j < k} \subseteq TickLines
    OBVIOUS
  <2>2. QED
    BY <1>5, <2>1, FS_Subset, FS_CardinalityType DEF TicksBefore
<1>9. QED
  BY <1>2, <1>4, <1>5, <1>6, <1>7, <1>8

LEMMA FlagTypes ==
  /\ Pending \in {0, 1} /\ NmiFresh \in {0, 1}
  /\ Pending' \in {0, 1} /\ NmiFresh' \in {0, 1}
BY DEF Pending, NmiFresh

(* While nothing is printed, every tick that is no longer pending has been *)
(* lost to an NMI of its own.                                              *)
LEMMA ScreenKept ==
  ASSUME TypeOK, ScreenInv, screen' = screen, tick' \in Nat, nmis' \in Nat,
         nmis <= nmis', tick - Pending <= tick' - Pending',
         (tick' - Pending') - (tick - Pending) + NmiFresh' <= NmiFresh + (nmis' - nmis)
  PROVE  ScreenInv'
<1>1. TickLines' = TickLines /\ \A k : TicksBefore(k)' = TicksBefore(k)
  BY DEF TickLines, TicksBefore
<1>2. tick \in Int /\ nmis \in Int /\ Pending \in Int /\ Pending' \in Int
      /\ NmiFresh \in Int /\ NmiFresh' \in Int
  BY FlagTypes DEF TypeOK
<1>3. LostTicks = tick - Cardinality(TickLines) - Pending
      /\ LostTicks' = tick' - Cardinality(TickLines) - Pending'
  BY <1>1 DEF LostTicks
<1>4. /\ Cardinality(TickLines) \in Nat
      /\ \A k \in TickLines : screen[k][2] \in Int /\ TicksBefore(k) \in Nat
  <2>1. /\ TickLines \subseteq 1..Len(screen) /\ Cardinality(TickLines) \in Nat
        /\ \A k \in TickLines : screen[k][2] \in Int
        /\ \A k \in Int : TicksBefore(k) \in Nat
    BY TickLinesFinite
  <2>2. \A k \in TickLines : k \in Int
    BY <2>1
  <2>3. QED
    BY <2>1, <2>2
<1> HIDE DEF LostTicks
<1>5. SUFFICES ASSUME Len(screen) < Rows
               PROVE  /\ LostTicks' >= 0 /\ LostTicks' + NmiFresh' <= nmis'
                      /\ LinesExact'
                      /\ \A k \in TickLines : screen[k][2] < tick' - Pending'
  <2>1. Len(screen') <= Rows
    BY DEF ScreenInv
  <2>2. QED
    BY <1>1, <2>1 DEF ScreenInv
<1>6. LostTicks' >= 0 /\ LostTicks' + NmiFresh' <= nmis'
  <2>1. LostTicks >= 0 /\ LostTicks + NmiFresh <= nmis
    BY <1>5 DEF ScreenInv
  <2> DEFINE u == tick - Pending
             v == tick' - Pending'
             c == Cardinality(TickLines)
  <2>2. u \in Int /\ v \in Int /\ c \in Int /\ LostTicks = u - c /\ LostTicks' = v - c
    BY <1>2, <1>3, <1>4
  <2>3. u <= v /\ (v - u) + NmiFresh' <= NmiFresh + (nmis' - nmis)
    OBVIOUS
  <2> HIDE DEF u, v, c
  <2>4. \A f, g, a, b \in Int :
          u - c >= 0 /\ (u - c) + f <= a /\ (v - u) + g <= f + (b - a)
            => (v - c) + g <= b
    BY <2>2
  <2>5. u - c >= 0 /\ (u - c) + NmiFresh <= nmis /\ v - c >= 0
    BY <2>1, <2>2, <2>3
  <2>6. (v - c) + NmiFresh' <= nmis'
    BY <1>2, <2>3, <2>4, <2>5
  <2>7. QED
    BY <2>2, <2>5, <2>6
<1>7. \A k \in TickLines : screen[k][2] < tick' - Pending'
  <2> SUFFICES ASSUME NEW k \in TickLines PROVE screen[k][2] < tick' - Pending'
    OBVIOUS
  <2> DEFINE u == tick - Pending
             v == tick' - Pending'
             x == screen[k][2]
  <2>1. x < u
    BY <1>5 DEF ScreenInv
  <2>2. u \in Int /\ v \in Int /\ x \in Int /\ u <= v
    <3>1. x \in Int
      BY <1>4
    <3>2. u <= v
      OBVIOUS
    <3>3. tick' \in Int /\ u \in Int /\ v \in Int
      BY <1>2
    <3>4. QED
      BY <3>1, <3>2, <3>3
  <2> HIDE DEF u, v, x
  <2>3. x < v
    BY <2>1, <2>2
  <2>4. QED
    BY <2>3 DEF v, x
<1>8. LinesExact'
  <2>1. \A k \in TickLines : screen[k][2] - TicksBefore(k) \in 0..nmis'
    BY <1>2, <1>4, <1>5 DEF ScreenInv, LinesExact
  <2>2. QED
    BY <1>1, <1>5, <2>1 DEF ScreenInv, LinesExact
<1>9. QED
  BY <1>6, <1>7, <1>8

(* What is printed is a tick that is pending, or no tick. *)
LEMMA ScreenPrinted ==
  ASSUME TypeOK, ScreenInv, screen' = Printed(textbuf),
         UNCHANGED <<tick, nmis, NmiFresh>>,
         textbuf[1] = "Tick" => textbuf[2] = tick - 1 /\ Pending = 1,
         Pending' = 0, textbuf[1] # "Tick" => Pending = 0
  PROVE  ScreenInv' /\ screen' \in Seq(Texts)
<1> DEFINE n == Len(screen)
           all == Append(screen, textbuf)
<1>1. n \in Nat /\ DOMAIN screen = 1..n /\ screen \in Seq(Texts) /\ textbuf \in Texts
      /\ Rows \in Nat \ {0}
  BY TickLinesFinite, LinesAssumption DEF TypeOK
<1>2. /\ all \in Seq(Texts) /\ all # <<>> /\ Len(all) = n + 1
      /\ \A k \in 1..n : all[k] = screen[k]
      /\ all[n + 1] = textbuf
  BY <1>1, AppendProperties
<1>3. Tail(all) \in Seq(Texts) /\ Len(Tail(all)) = (n + 1) - 1
  BY <1>2, HeadTailProperties
<1>4. screen' = IF n + 1 > Rows THEN Tail(all) ELSE all
  BY <1>2 DEF Printed
<1> HIDE DEF n, all
<1>5. screen' \in Seq(Texts)
  BY <1>2, <1>3, <1>4
<1>6. n <= Rows
  BY DEF ScreenInv, n
<1>7. CASE n + 1 > Rows
  <2>1. Len(screen') = Rows
    BY <1>1, <1>3, <1>4, <1>6, <1>7
  <2>2. QED
    BY <1>1, <1>5, <2>1 DEF ScreenInv
<1>8. CASE n + 1 = Rows
  <2>1. Len(screen') = Rows
    BY <1>1, <1>2, <1>4, <1>8
  <2>2. QED
    BY <1>1, <1>5, <2>1 DEF ScreenInv
<1>9. CASE n + 1 < Rows
  <2>1. screen' = all /\ Len(screen') = n + 1 /\ DOMAIN screen' = 1..(n + 1)
    BY <1>1, <1>2, <1>4, <1>9, LenProperties
  <2>2. n < Rows
    BY <1>1, <1>9
  <2>3. /\ LostTicks >= 0 /\ LostTicks + NmiFresh <= nmis /\ LinesExact
        /\ \A k \in TickLines : screen[k][2] < tick - Pending
    BY <2>2 DEF ScreenInv, n
  <2>4. tick \in Nat /\ nmis \in Nat /\ NmiFresh \in {0, 1}
    BY FlagTypes DEF TypeOK
  <2>5. /\ TickLines \subseteq 1..n /\ IsFiniteSet(TickLines)
        /\ Cardinality(TickLines) \in Nat /\ n + 1 \notin TickLines
        /\ \A k \in TickLines : screen[k][2] \in Int /\ k \in Int /\ TicksBefore(k) \in Nat
    <3>1. /\ TickLines \subseteq 1..n /\ IsFiniteSet(TickLines)
          /\ Cardinality(TickLines) \in Nat
          /\ \A k \in TickLines : screen[k][2] \in Int
      BY TickLinesFinite DEF n
    <3>2. n + 1 \notin TickLines /\ \A k \in TickLines : k \in Int
      BY <1>1, <3>1
    <3>3. QED
      BY <3>1, <3>2, TickLinesFinite
  <2>6. \A k \in 1..n : screen'[k] = screen[k]
    BY <1>2, <2>1
  <2>7. screen'[n + 1] = textbuf
    BY <1>2, <2>1
  <2>8. \A k \in 1..(n + 1) : k \in 1..n \/ k = n + 1
    BY <1>1
  <2>9. CASE textbuf[1] # "Tick"
    <3>1. TickLines' = TickLines
      BY <1>1, <2>1, <2>6, <2>7, <2>8, <2>9 DEF TickLines
    <3>2. \A k : TicksBefore(k)' = TicksBefore(k)
      BY <3>1 DEF TicksBefore
    <3>3. LostTicks' = LostTicks /\ Pending = 0
      BY <2>9, <3>1 DEF LostTicks
    <3>4. LinesExact'
      <4>1. \A k \in TickLines : screen'[k] = screen[k]
        BY <2>5, <2>6
      <4>2. QED
        BY <2>3, <3>1, <3>2, <4>1 DEF LinesExact
    <3>5. \A k \in TickLines' : screen'[k][2] < tick' - Pending'
      BY <2>3, <2>5, <2>6, <3>1, <3>3
    <3>6. Len(screen') <= Rows /\ LostTicks' + NmiFresh' <= nmis' /\ LostTicks' >= 0
      BY <1>1, <1>9, <2>1, <2>3, <3>3
    <3>7. QED
      BY <1>5, <3>4, <3>5, <3>6 DEF ScreenInv
  <2>10. CASE textbuf[1] = "Tick"
    <3>1. textbuf[2] = tick - 1 /\ Pending = 1
      BY <2>10
    <3>2. TickLines' = TickLines \cup {n + 1}
      BY <1>1, <2>1, <2>6, <2>7, <2>8, <2>10 DEF TickLines
    <3>3. Cardinality(TickLines') = Cardinality(TickLines) + 1
      BY <2>5, <3>2, FS_AddElement
    <3>4. LostTicks = (tick - Cardinality(TickLines)) - 1 /\ LostTicks' = LostTicks
      BY <2>4, <2>5, <3>1, <3>3 DEF LostTicks
    <3>5. \A k \in TickLines : TicksBefore(k)' = TicksBefore(k)
      <4>1. \A k \in TickLines : {j \in TickLines' : j < k} = {j \in TickLines : j < k}
        BY <1>1, <2>5, <3>2
      <4>2. QED
        BY <4>1 DEF TicksBefore
    <3>6. \A k : k = n + 1 => TicksBefore(k)' = Cardinality(TickLines)
      <4>1. {j \in TickLines' : j < n + 1} = TickLines
        <5>1. \A k \in TickLines : k < n + 1
          BY <1>1, <2>5
        <5>2. ~(n + 1 < n + 1)
          BY <1>1
        <5>3. QED
          BY <3>2, <5>1, <5>2
      <4>2. QED
        BY <4>1 DEF TicksBefore
    <3>7. \A k \in TickLines : screen'[k] = screen[k] /\ screen[k][2] < tick - 1
      BY <2>3, <2>5, <2>6, <3>1
    <3>8. screen'[n + 1][2] = tick - 1
      BY <2>7, <3>1
    <3>9. \A k \in TickLines' : screen'[k][2] < tick' - Pending'
      BY <2>4, <2>5, <3>2, <3>7, <3>8
    <3>10. LinesExact'
      <4>1. ASSUME NEW k \in TickLines' PROVE screen'[k][2] - TicksBefore(k)' \in 0..nmis
        <5>1. CASE k \in TickLines
          BY <2>3, <3>5, <3>7, <5>1 DEF LinesExact
        <5>2. CASE k = n + 1
          BY <2>3, <2>4, <2>5, <3>4, <3>6, <3>8, <5>2
        <5>3. QED
          BY <3>2, <5>1, <5>2
      <4>2. ASSUME NEW j \in TickLines', NEW k \in TickLines', j < k
            PROVE  screen'[j][2] < screen'[k][2]
        <5>1. j \in TickLines
          BY <1>1, <2>5, <3>2, <4>2
        <5>2. CASE k \in TickLines
          BY <2>3, <3>7, <4>2, <5>1, <5>2 DEF LinesExact
        <5>3. CASE k = n + 1
          BY <3>7, <3>8, <5>1, <5>3
        <5>4. QED
          BY <3>2, <5>2, <5>3
      <4>3. QED
        BY <4>1, <4>2 DEF LinesExact
    <3>11. LostTicks' >= 0 /\ LostTicks' + NmiFresh' <= nmis'
      BY <2>3, <3>4
    <3>12. Len(screen') <= Rows
      BY <1>1, <1>9, <2>1
    <3>13. QED
      BY <1>5, <3>9, <3>10, <3>11, <3>12 DEF ScreenInv
  <2>11. QED
    BY <2>9, <2>10
<1>10. QED
  BY <1>1, <1>5, <1>7, <1>8, <1>9

-----------------------------------------------------------------------------
(* What a step that leaves part of the state alone keeps. *)
LEMMA Still ==
  ASSUME UNCHANGED <<calls, eip>>
  PROVE  /\ BootAt' = BootAt /\ NmiOnTop' = NmiOnTop /\ NmiFresh' = NmiFresh
         /\ \A k : At(k)' = At(k)
         /\ \A places : /\ IrqAt(places)' = IrqAt(places)
                        /\ TimerAt(places)' = TimerAt(places)
BY DEF BootAt, NmiOnTop, NmiFresh, At, IrqAt, TimerAt

LEMMA BootKept ==
  ASSUME BootInv, BootAt' = BootAt, UNCHANGED <<idt, interrupt_handlers>>,
         pic'.m.icw = pic.m.icw, pic'.s.icw = pic.s.icw,
         pic'.m.base = pic.m.base, pic'.s.base = pic.s.base,
         pic'.m.casc = pic.m.casc
  PROVE  BootInv'
BY DEF BootInv

(* A step that neither moves a call nor prints. *)
LEMMA Quiet ==
  ASSUME IInv, UNCHANGED <<calls, eip, stack, tick, text, nmis, acks>>
  PROVE  /\ BootAt' = BootAt /\ NmiOnTop' = NmiOnTop
         /\ \A k : At(k)' = At(k)
         /\ \A places : IrqAt(places)' = IrqAt(places)
         /\ StackInv' /\ CountInv' /\ TextInv' /\ ScreenInv'
<1>1. /\ BootAt' = BootAt /\ NmiOnTop' = NmiOnTop /\ NmiFresh' = NmiFresh
      /\ \A k : At(k)' = At(k)
      /\ \A places : /\ IrqAt(places)' = IrqAt(places)
                     /\ TimerAt(places)' = TimerAt(places)
  BY Still
<1>2. Pending' = Pending
  BY <1>1 DEF Pending, text
<1>3. StackInv' /\ CountInv'
  BY <1>1 DEF IInv, StackInv, CountInv
<1>4. TextInv'
  BY <1>1 DEF IInv, TextInv, text
<1>5. TickLines' = TickLines /\ LinesExact' = LinesExact
  BY DEF TickLines, LinesExact, TicksBefore, text
<1>6. ScreenInv'
  BY <1>1, <1>2, <1>5 DEF IInv, ScreenInv, LostTicks, text
<1>7. QED
  BY <1>1, <1>3, <1>4, <1>6

LEMMA InitIInv == Init => IInv
<1> SUFFICES ASSUME Init PROVE IInv
  OBVIOUS
<1>1. /\ bad \in BOOLEAN /\ pic = [m |-> Chip(8), s |-> Chip(112)]
      /\ idt = {} /\ interrupt_handlers = [v \in 0..255 |-> FALSE]
      /\ cpu = "run" /\ eip = 1 /\ iflag = 0 /\ stack = <<>> /\ nmi_off = FALSE
      /\ tick = 0 /\ textbuf = <<"empty", 0>> /\ screen = <<>>
      /\ raised = [n \in Lines |-> 0] /\ nmis = 0 /\ calls = <<>> /\ acks = 0
  BY DEF Init
<1>2. Len(calls) = 0 /\ DOMAIN calls = {} /\ BootAt = 1
  BY <1>1 DEF BootAt
<1>3. \A v \in {8, 112} : /\ Chip(v) \in ChipState /\ Chip(v).icw = 0
                          /\ Chip(v).irr = {} /\ Chip(v).isr = {}
  BY DEF ChipState, Chip
<1>4. TypeOK
  <2>1. pic \in [m : ChipState, s : ChipState] /\ 2 \notin pic.m.irr
    BY <1>1, <1>3
  <2>2. stack \in Seq(Words) /\ calls \in Seq(Call) /\ screen \in Seq(Texts)
    BY <1>1
  <2>3. textbuf \in Texts
    <3>1. <<"empty", 0>> \in Texts
      BY DEF Texts
    <3>2. QED
      BY <1>1, <3>1, Zenon
  <2>4. raised \in [Lines -> Nat]
    BY <1>1
  <2>5. /\ cpu \in {"run", "inta1", "inta2"} /\ eip \in Int /\ iflag \in {0, 1}
        /\ tick \in Nat /\ acks \in Nat /\ nmis \in Nat
    BY <1>1
  <2>6. nmi_off \in BOOLEAN /\ bad \in BOOLEAN
    BY <1>1, Zenon
  <2>7. QED
    BY <2>1, <2>2, <2>3, <2>4, <2>5, <2>6 DEF TypeOK
<1>5. CallsInv
  <2>1. NmiOnTop = FALSE /\ FlagAt(eip) = 0
    BY <1>1, Program DEF NmiOnTop, FlagAt
  <2>2. QED
    BY <1>1, <1>2, <2>1, Program DEF CallsInv
<1>6. StackInv
  BY <1>1, <1>2 DEF StackInv, FRAME
<1>7. BootInv
  <2>1. interrupt_handlers = [v \in 0..255 |-> v = TIMER /\ BootAt > 15]
    <3>1. ~(BootAt > 15)
      BY <1>2
    <3>2. \A v \in 0..255 : (v = TIMER /\ BootAt > 15) = FALSE
      BY <3>1
    <3>3. QED
      BY <1>1, <3>2, Zenon
  <2>2. /\ idt = {} /\ ~(BootAt > 11) /\ ~(BootAt > 3) /\ ~(BootAt > 4) /\ ~(BootAt > 5)
        /\ BootAt \notin 2..3 \cup 4..5 \cup 6..7 \cup 7..8
        /\ pic.m.icw = 0 /\ pic.s.icw = 0
    BY <1>1, <1>2, <1>3
  <2>3. QED
    BY <2>1, <2>2 DEF BootInv
<1>8. ServiceInv
  BY <1>1, <1>3 DEF ServiceInv
<1>9. CountInv /\ TextInv
  BY <1>1, <1>2 DEF CountInv, TextInv, TimerAt
<1>10. ScreenInv
  <2>1. TickLines = {} /\ Len(screen) = 0 /\ Rows \in Nat \ {0}
    BY <1>1, LinesAssumption DEF TickLines
  <2>2. Cardinality(TickLines) = 0
    BY <2>1, FS_EmptySet
  <2>3. Pending = 0 /\ NmiFresh = 0
    BY <1>1 DEF Pending, NmiFresh, TimerAt, NmiOnTop
  <2>4. LostTicks = 0
    BY <1>1, <2>2, <2>3 DEF LostTicks
  <2>5. QED
    BY <1>1, <2>1, <2>3, <2>4 DEF ScreenInv, LinesExact
<1>11. QED
  BY <1>4, <1>5, <1>6, <1>7, <1>8, <1>9, <1>10 DEF IInv

LEMMA DeviceIInv ==
  ASSUME IInv, NEW n \in Lines, Raise(n) \/ Drop(n)
  PROVE  IInv'
<1>1. /\ pic' = RaiseLine(pic, n) \/ pic' = DropLine(pic, n)
      /\ raised' \in [Lines -> Nat]
      /\ UNCHANGED <<bad, nmis, idt, interrupt_handlers, cpu, eip, iflag, stack,
                     nmi_off, tick, text, calls, acks>>
  BY DEF Raise, Drop, hw, IInv, TypeOK
<1>2. /\ pic' \in PicState /\ 2 \notin pic'.m.irr
      /\ pic'.m.icw = pic.m.icw /\ pic'.s.icw = pic.s.icw
      /\ pic'.m.base = pic.m.base /\ pic'.s.base = pic.s.base
      /\ pic'.m.casc = pic.m.casc
      /\ pic'.m.isr = pic.m.isr /\ pic'.s.isr = pic.s.isr
  BY <1>1, DeviceLine DEF IInv, TypeOK, PicState
<1>3. /\ BootAt' = BootAt /\ NmiOnTop' = NmiOnTop
      /\ \A k : At(k)' = At(k)
      /\ \A places : IrqAt(places)' = IrqAt(places)
      /\ StackInv' /\ CountInv' /\ TextInv' /\ ScreenInv'
  BY <1>1, Quiet
<1>4. TypeOK'
  BY <1>1, <1>2 DEF IInv, TypeOK, PicState, text
<1>5. CallsInv'
  BY <1>1, <1>3 DEF IInv, CallsInv, FlagAt, PlaceOf
<1>6. BootInv'
  BY <1>1, <1>2, <1>3, BootKept DEF IInv
<1>7. ServiceInv'
  BY <1>1, <1>2, <1>3 DEF IInv, ServiceInv
<1>8. QED
  BY <1>3, <1>4, <1>5, <1>6, <1>7 DEF IInv

(* The processor acknowledges in the idle loop only, where kern_init has   *)
(* everything set up.                                                      *)
LEMMA IdleState ==
  ASSUME IInv, calls = <<>>, eip = Len(KernInit)
  PROVE  /\ BootAt = 20 /\ eip = 20 /\ Len(calls) = 0 /\ idt = Gates
         /\ pic.m.base = 32 /\ pic.s.base = 40 /\ pic.m.casc = 4
         /\ acks = tick /\ Pending = 0 /\ NmiFresh = 0 /\ iflag = 1
         /\ pic.m \in ChipState /\ pic.s \in ChipState
         /\ cpu # "inta2" => pic.m.isr = {}
         /\ pic.s.isr = {}
<1>1. BootAt = 20 /\ eip = 20 /\ Len(calls) = 0
  BY Program DEF BootAt
<1>2. /\ idt = Gates /\ pic.m.base = 32 /\ pic.s.base = 40 /\ pic.m.casc = 4
  BY <1>1 DEF IInv, BootInv
<1>3. acks = tick /\ Pending = 0 /\ NmiFresh = 0
  BY DEF IInv, CountInv, TimerAt, Pending, NmiFresh, NmiOnTop
<1>4. iflag = 1
  BY DEF IInv, CallsInv, FlagAt
<1>5. (cpu # "inta2" => pic.m.isr = {}) /\ pic.s.isr = {}
  BY DEF IInv, ServiceInv, IrqAt
<1>6. QED
  BY <1>1, <1>2, <1>3, <1>4, <1>5 DEF IInv, TypeOK

LEMMA AcceptIInv ==
  ASSUME IInv, Accept
  PROVE  IInv'
<1>1. /\ cpu = "run" /\ iflag = 1 /\ cpu' = "inta1"
      /\ UNCHANGED <<bad, raised, nmis, pic, idt, interrupt_handlers, eip, iflag, stack,
                     nmi_off, tick, text, calls, acks>>
  BY DEF Accept, hw
<1>2. eip = Len(KernInit) /\ calls = <<>>
  <2>1. eip = Len(KernInit)
    BY <1>1 DEF IInv, CallsInv, FlagAt
  <2>2. QED
    BY <2>1, Bottom, Program DEF IInv
<1>3. /\ BootAt' = BootAt /\ NmiOnTop' = NmiOnTop
      /\ \A k : At(k)' = At(k)
      /\ \A places : IrqAt(places)' = IrqAt(places)
      /\ StackInv' /\ CountInv' /\ TextInv' /\ ScreenInv'
  BY <1>1, Quiet
<1>4. TypeOK'
  BY <1>1 DEF IInv, TypeOK, text
<1>5. CallsInv'
  BY <1>1, <1>2, <1>3 DEF IInv, CallsInv, FlagAt, PlaceOf
<1>6. BootInv'
  BY <1>1, <1>3, BootKept DEF IInv
<1>7. ServiceInv'
  BY <1>1, <1>3 DEF IInv, ServiceInv
<1>8. QED
  BY <1>3, <1>4, <1>5, <1>6, <1>7 DEF IInv

(* A device's interrupt taken in the idle loop is the only call there is. *)
LEMMA IrqEntered ==
  ASSUME IInv, calls = <<>>, eip = Len(KernInit), NEW vector \in Irqs,
         Enter(vector, 0), UNCHANGED <<nmi_off, tick, text, nmis>>,
         acks' = IF vector = TIMER THEN acks + 1 ELSE acks
  PROVE  /\ calls' \in Seq(Call) /\ calls' # <<>> /\ calls'[1].vector = vector
         /\ \A places : IRQ_HANDLER \in places => IrqAt(places)'
         /\ eip' \in Int /\ iflag' \in {0, 1} /\ cpu' = "run" /\ stack' \in Seq(Words)
         /\ BootAt' = BootAt
         /\ CallsInv' /\ StackInv' /\ CountInv' /\ TextInv' /\ ScreenInv'
<1>1. /\ BootAt = 20 /\ eip = 20 /\ Len(calls) = 0 /\ idt = Gates
      /\ acks = tick /\ Pending = 0 /\ NmiFresh = 0
  BY IdleState
<1>2. vector \in Gates /\ vector # NMI /\ TypeOK /\ CallsInv /\ StackInv
  BY DEF Irqs, Gates, IInv, NMI
<1>3. CallsInv'
  BY <1>1, <1>2, EnteredCalls
<1>4. /\ calls' \in Seq(Call) /\ Len(calls') = 1 /\ calls'[1].vector = vector
      /\ At(1)' = eip' /\ BootAt' = BootAt /\ eip' = IRQ_HANDLER
      /\ iflag' = 0 /\ cpu' = "run" /\ stack' \in Seq(Words) /\ StackInv'
  <2>1. /\ calls' \in Seq(Call) /\ Len(calls') = 0 + 1
        /\ calls'[0 + 1].vector = vector
        /\ \A k \in Int : k = 0 + 1 => At(k)' = eip'
        /\ BootAt' = BootAt
        /\ eip' = IF vector \in Irqs THEN IRQ_HANDLER ELSE ISR_HANDLER
        /\ iflag' = 0 /\ cpu' = "run"
        /\ stack' \in Seq(Words) /\ StackInv'
    BY <1>1, <1>2, Entered
  <2>2. QED
    BY <2>1
<1>5. calls' # <<>> /\ DOMAIN calls' = 1..1
  <2>1. DOMAIN calls' = 1..Len(calls') /\ Len(calls') # 0
    BY <1>4, LenProperties
  <2>2. QED
    BY <1>4, <2>1, EmptySeq
<1>6. \A places : /\ IrqAt(places)' <=> IRQ_HANDLER \in places
                  /\ TimerAt(places)' <=> vector = TIMER /\ IRQ_HANDLER \in places
  BY <1>4, <1>5 DEF IrqAt, TimerAt
<1>7. CountInv'
  <2>1. TimerAt({IRQ_HANDLER, IRQ_MASTER, IRQ_CALL, TIMER_CALLBACK})' <=> vector = TIMER
    BY <1>6
  <2>2. QED
    BY <1>1, <2>1 DEF CountInv
<1>8. IRQ_HANDLER # PRINT_WRITE /\ IRQ_HANDLER # ISR_HANDLER
  BY DEF IRQ_HANDLER, PRINT_WRITE, ISR_HANDLER
<1>9. TextInv'
  <2>1. \A k \in DOMAIN calls' : k = 1 /\ At(k)' # PRINT_WRITE
    <3>1. \A k \in DOMAIN calls' : k = 1
      BY <1>5
    <3>2. At(1)' # PRINT_WRITE
      BY <1>4, <1>8
    <3>3. QED
      BY <3>1, <3>2
  <2>2. QED
    BY <1>1, <1>4, <2>1 DEF TextInv, text, IInv
<1>10. Pending' = 0 /\ NmiFresh' = 0
  BY <1>4, <1>6, <1>8 DEF Pending, NmiFresh
<1>11. ScreenInv'
  <2>1. tick \in Nat /\ nmis \in Nat
    BY DEF IInv, TypeOK
  <2>2. /\ screen' = screen /\ tick' \in Nat /\ nmis' \in Nat /\ nmis <= nmis'
        /\ tick - Pending <= tick' - Pending'
        /\ (tick' - Pending') - (tick - Pending) + NmiFresh' <= NmiFresh + (nmis' - nmis)
    BY <1>1, <1>10, <2>1 DEF text
  <2>3. QED
    BY <2>2, ScreenKept DEF IInv
<1>12. eip' \in Int
  BY <1>4 DEF IRQ_HANDLER
<1>13. QED
  BY <1>3, <1>4, <1>5, <1>6, <1>7, <1>9, <1>11, <1>12

LEMMA AckMasterIInv ==
  ASSUME IInv, AckMaster
  PROVE  IInv'
<1> DEFINE eligible == MasterEligible(pic)
           n == AckLine(eligible)
<1>1. /\ cpu = "inta1" /\ pic' = [pic EXCEPT !.m = AckChip(pic.m, eligible)]
      /\ IF n = 2 /\ pic.m.casc = 4
         THEN cpu' = "inta2" /\ UNCHANGED <<eip, iflag, stack, calls, acks>>
         ELSE /\ Enter(pic.m.base + n, 0)
              /\ acks' = IF n = 0 THEN acks + 1 ELSE acks
      /\ UNCHANGED <<bad, raised, nmis, idt, interrupt_handlers, nmi_off, tick, text>>
  BY DEF AckMaster, hw
<1>2. calls = <<>> /\ eip = Len(KernInit)
  BY <1>1 DEF IInv, CallsInv
<1>3. /\ BootAt = 20 /\ idt = Gates /\ pic.m.base = 32 /\ pic.m.casc = 4
      /\ pic.m.isr = {} /\ pic.s.isr = {}
      /\ pic.m \in ChipState /\ pic.s \in ChipState
  BY <1>1, <1>2, IdleState
<1>4. eligible \subseteq 0..7
  BY <1>3 DEF MasterEligible, Eligible, ChipState
<1> HIDE DEF eligible
<1>5. /\ AckChip(pic.m, eligible) \in ChipState /\ n \in 0..7
      /\ AckChip(pic.m, eligible).icw = pic.m.icw
      /\ AckChip(pic.m, eligible).base = pic.m.base
      /\ AckChip(pic.m, eligible).casc = pic.m.casc
      /\ AckChip(pic.m, eligible).irr \subseteq pic.m.irr
      /\ eligible = {} => AckChip(pic.m, eligible).isr = {}
      /\ eligible # {} => AckChip(pic.m, eligible).isr = {n}
  <2>1. pic.m \in ChipState /\ pic.m.isr = {}
    BY <1>3
  <2>2. /\ AckChip(pic.m, eligible) \in ChipState /\ n \in 0..7
        /\ AckChip(pic.m, eligible).icw = pic.m.icw
        /\ AckChip(pic.m, eligible).base = pic.m.base
        /\ AckChip(pic.m, eligible).casc = pic.m.casc
    BY <1>4, <2>1, Acknowledge
  <2>3. AckChip(pic.m, eligible).irr \subseteq pic.m.irr
    BY <1>4, <2>1, Acknowledge
  <2>4. eligible = {} => AckChip(pic.m, eligible).isr = {}
    BY <1>4, <2>1, Acknowledge
  <2>5. eligible # {} => AckChip(pic.m, eligible).isr = {n}
    BY <1>4, <2>1, Acknowledge
  <2>6. QED
    BY <2>2, <2>3, <2>4, <2>5
<1> HIDE DEF n
<1>6. /\ pic' \in PicState /\ pic'.s = pic.s
      /\ pic'.m = AckChip(pic.m, eligible) /\ 2 \notin pic'.m.irr
  <2>1. pic \in PicState /\ 2 \notin pic.m.irr
    BY DEF IInv, TypeOK, PicState
  <2>2. pic' \in PicState /\ pic'.s = pic.s /\ pic'.m = AckChip(pic.m, eligible)
    <3> HIDE DEF PicState
    <3>1. QED
      BY <1>1, <1>5, <2>1 DEF PicState
  <2>3. QED
    BY <1>5, <2>1, <2>2
<1>7. CASE n = 2
  <2>1. /\ cpu' = "inta2"
        /\ UNCHANGED <<bad, raised, nmis, idt, interrupt_handlers, eip, iflag, stack,
                       nmi_off, tick, text, calls, acks>>
    BY <1>1, <1>3, <1>7
  <2>2. pic'.m.isr = {2} /\ pic'.s.isr = {}
    <3>1. eligible # {}
      BY <1>7 DEF AckLine, n
    <3>2. QED
      BY <1>3, <1>5, <1>6, <1>7, <3>1
  <2>3. /\ BootAt' = BootAt /\ NmiOnTop' = NmiOnTop
        /\ \A k : At(k)' = At(k)
        /\ StackInv' /\ CountInv' /\ TextInv' /\ ScreenInv'
    BY <2>1, Quiet
  <2>4. TypeOK'
    BY <1>6, <2>1 DEF IInv, TypeOK, PicState, text
  <2>5. CallsInv'
    BY <1>2, <2>1, <2>3 DEF IInv, CallsInv, FlagAt, PlaceOf
  <2>6. BootInv'
    BY <1>5, <1>6, <2>1, <2>3, BootKept DEF IInv
  <2>7. ServiceInv'
    BY <2>1, <2>2 DEF ServiceInv
  <2>8. QED
    BY <2>3, <2>4, <2>5, <2>6, <2>7 DEF IInv
<1>8. CASE n # 2
  <2> DEFINE vector == 32 + n
  <2>1. /\ Enter(vector, 0) /\ vector \in Irqs
        /\ acks' = IF vector = TIMER THEN acks + 1 ELSE acks
    BY <1>1, <1>3, <1>5, <1>8 DEF Irqs, TIMER
  <2> HIDE DEF vector
  <2>2. /\ calls' \in Seq(Call)
        /\ \A places : IRQ_HANDLER \in places => IrqAt(places)'
        /\ eip' \in Int /\ iflag' \in {0, 1} /\ cpu' = "run" /\ stack' \in Seq(Words)
        /\ BootAt' = BootAt
        /\ CallsInv' /\ StackInv' /\ CountInv' /\ TextInv' /\ ScreenInv'
    BY <1>1, <1>2, <2>1, IrqEntered
  <2>3. TypeOK'
    <3>1. acks' \in Nat
      BY <2>1 DEF IInv, TypeOK
    <3>2. QED
      BY <1>1, <1>6, <2>2, <3>1 DEF IInv, TypeOK, PicState, text
  <2>4. BootInv'
    BY <1>1, <1>5, <1>6, <2>2, BootKept DEF IInv
  <2>5. ServiceInv'
    <3>1. pic'.s.isr = {} /\ (pic'.m.isr # {} => \E k \in 0..7 : pic'.m.isr = {k})
      BY <1>3, <1>5, <1>6
    <3>2. IrqAt({IRQ_HANDLER, IRQ_MASTER})'
      BY <2>2
    <3>3. QED
      BY <2>2, <3>1, <3>2 DEF ServiceInv
  <2>6. QED
    BY <2>2, <2>3, <2>4, <2>5 DEF IInv
<1>9. QED
  BY <1>7, <1>8

LEMMA AckSlaveIInv ==
  ASSUME IInv, AckSlave
  PROVE  IInv'
<1> DEFINE eligible == Eligible(pic.s, pic.s.irr)
           n == AckLine(eligible)
<1>1. /\ cpu = "inta2" /\ pic' = [pic EXCEPT !.s = AckChip(pic.s, eligible)]
      /\ Enter(pic.s.base + n, 0)
      /\ UNCHANGED <<bad, raised, nmis, idt, interrupt_handlers, nmi_off, tick, text, acks>>
  BY DEF AckSlave, hw
<1>2. calls = <<>> /\ eip = Len(KernInit)
  BY <1>1 DEF IInv, CallsInv
<1>3. /\ BootAt = 20 /\ idt = Gates /\ pic.s.base = 40 /\ pic.s.isr = {}
      /\ pic.m \in ChipState /\ pic.s \in ChipState
  BY <1>1, <1>2, IdleState
<1>4. eligible \subseteq 0..7 /\ pic.m.isr = {2}
  BY <1>1, <1>3 DEF Eligible, ChipState, IInv, ServiceInv
<1> HIDE DEF eligible
<1>5. /\ AckChip(pic.s, eligible) \in ChipState /\ n \in 0..7
      /\ AckChip(pic.s, eligible).icw = pic.s.icw
      /\ AckChip(pic.s, eligible).base = pic.s.base
      /\ AckChip(pic.s, eligible).casc = pic.s.casc
      /\ \/ AckChip(pic.s, eligible).isr = {}
         \/ AckChip(pic.s, eligible).isr = {n}
  BY <1>3, <1>4, Acknowledge
<1> HIDE DEF n
<1>6. /\ pic' \in PicState /\ pic'.m = pic.m /\ 2 \notin pic'.m.irr
      /\ pic'.s = AckChip(pic.s, eligible)
  <2>1. pic \in PicState /\ 2 \notin pic.m.irr
    BY DEF IInv, TypeOK, PicState
  <2>2. pic' \in PicState /\ pic'.m = pic.m /\ pic'.s = AckChip(pic.s, eligible)
    BY <1>1, <1>5, <2>1 DEF PicState
  <2>3. QED
    BY <2>1, <2>2
<1> DEFINE vector == 40 + n
<1>7. Enter(vector, 0) /\ vector \in Irqs /\ vector # TIMER /\ vector >= 40
  BY <1>1, <1>3, <1>5 DEF Irqs, TIMER
<1> HIDE DEF vector
<1>8. /\ calls' \in Seq(Call) /\ calls' # <<>> /\ calls'[1].vector = vector
      /\ \A places : IRQ_HANDLER \in places => IrqAt(places)'
      /\ eip' \in Int /\ iflag' \in {0, 1} /\ cpu' = "run" /\ stack' \in Seq(Words)
      /\ BootAt' = BootAt
      /\ CallsInv' /\ StackInv' /\ CountInv' /\ TextInv' /\ ScreenInv'
  BY <1>1, <1>2, <1>7, IrqEntered
<1>9. TypeOK'
  BY <1>1, <1>6, <1>8 DEF IInv, TypeOK, PicState, text
<1>10. BootInv'
  BY <1>1, <1>5, <1>6, <1>8, BootKept DEF IInv
<1>11. ServiceInv'
  <2>1. pic'.m.isr = {2} /\ (pic'.s.isr # {} => \E k \in 0..7 : pic'.s.isr = {k})
    BY <1>4, <1>5, <1>6
  <2>2. IrqAt({IRQ_HANDLER, IRQ_MASTER})' /\ IrqAt({IRQ_HANDLER})'
    BY <1>8
  <2>3. \E k \in 0..7 : pic'.m.isr = {k}
    BY <2>1
  <2>4. cpu' # "inta2" /\ calls'[1].vector >= 40
    BY <1>7, <1>8
  <2>5. QED
    BY <2>1, <2>2, <2>3, <2>4 DEF ServiceInv
<1>12. QED
  BY <1>8, <1>9, <1>10, <1>11 DEF IInv

(* An NMI or a fault takes nothing from the call it interrupts. *)
LEMMA IsrEntered ==
  ASSUME IInv, idt = Gates, cpu = "run",
         NEW vector \in {NMI, PAGE_FAULT}, NEW err \in Int, Enter(vector, err),
         vector = NMI => ~nmi_off /\ nmi_off' /\ nmis' = nmis + 1,
         vector = PAGE_FAULT => /\ calls = <<>> /\ eip \in DOMAIN KernInit
                                /\ nmi_off' = nmi_off /\ nmis' = nmis,
         nmi_off' \in BOOLEAN,
         UNCHANGED <<bad, raised, pic, idt, interrupt_handlers, tick, text, acks>>
  PROVE  IInv'
<1> DEFINE n == Len(calls)
<1>1. /\ TypeOK /\ CallsInv /\ StackInv /\ vector \in Gates /\ vector \notin Irqs
      /\ vector # TIMER /\ NMI # PAGE_FAULT
  BY DEF IInv, Gates, Irqs, NMI, PAGE_FAULT, TIMER
<1>2. CallsInv'
  <2>1. CASE vector = NMI
    BY <1>1, <2>1, EnteredCalls
  <2>2. CASE vector = PAGE_FAULT
    BY <1>1, <2>2, EnteredCalls
  <2>3. QED
    BY <2>1, <2>2
<1>3. /\ calls' \in Seq(Call) /\ Len(calls') = n + 1
      /\ \A k \in 1..n : calls'[k] = calls[k] /\ At(k)' = At(k)
      /\ calls'[n + 1].vector = vector
      /\ \A k \in Int : k = n + 1 => At(k)' = eip'
      /\ BootAt' = BootAt /\ eip' = ISR_HANDLER /\ iflag' = 0 /\ cpu' = "run"
      /\ stack' \in Seq(Words) /\ StackInv'
  BY <1>1, Entered
<1>4. n \in Nat /\ (calls # <<>> <=> n # 0) /\ DOMAIN calls = 1..n
  BY <1>1, CallsType
<1>5. calls' # <<>> /\ DOMAIN calls' = 1..(n + 1)
  <2>1. DOMAIN calls' = 1..Len(calls') /\ Len(calls') # 0
    BY <1>3, <1>4, LenProperties
  <2>2. QED
    BY <1>3, <2>1, EmptySeq
<1> HIDE DEF n
<1>6. \A places : /\ IrqAt(places)' <=> IrqAt(places)
                  /\ TimerAt(places)' <=> TimerAt(places)
  <2>1. CASE n = 0
    <3>1. calls'[1].vector = vector /\ calls = <<>>
      BY <1>3, <1>4, <2>1
    <3>2. QED
      BY <1>1, <3>1 DEF IrqAt, TimerAt
  <2>2. CASE n # 0
    <3>1. calls'[1] = calls[1] /\ At(1)' = At(1) /\ calls # <<>>
      BY <1>3, <1>4, <2>2
    <3>2. QED
      BY <1>5, <3>1 DEF IrqAt, TimerAt
  <2>3. QED
    BY <2>1, <2>2
<1>7. TypeOK'
  <2>1. nmis' \in Nat /\ nmi_off' \in BOOLEAN
    <3>1. nmis' = nmis + 1 \/ nmis' = nmis
      OBVIOUS
    <3>2. QED
      BY <1>1, <3>1 DEF TypeOK
  <2>2. eip' \in Int
    BY <1>3 DEF ISR_HANDLER
  <2>3. QED
    BY <1>1, <1>3, <2>1, <2>2 DEF TypeOK, text
<1>8. BootInv'
  BY <1>3, BootKept DEF IInv
<1>9. ServiceInv'
  <2>1. CASE n = 0
    <3>1. pic.m.isr = {} /\ pic.s.isr = {}
      BY <1>4, <2>1 DEF IInv, ServiceInv, IrqAt
    <3>2. QED
      BY <1>3, <3>1 DEF ServiceInv
  <2>2. CASE n # 0
    <3>1. calls'[1] = calls[1]
      BY <1>3, <1>4, <2>2
    <3>2. QED
      BY <1>3, <1>6, <3>1 DEF IInv, ServiceInv
  <2>3. QED
    BY <2>1, <2>2
<1>10. CountInv'
  BY <1>6 DEF IInv, CountInv
<1>11. ISR_HANDLER # PRINT_WRITE
  BY DEF ISR_HANDLER, PRINT_WRITE
<1>12. TextInv'
  <2>1. ASSUME NEW k \in 1..(n + 1), calls'[k].vector # TIMER, At(k)' = PRINT_WRITE
        PROVE  k \in 1..n /\ calls[k].vector # TIMER /\ At(k) = PRINT_WRITE
    <3>1. k # n + 1
      BY <1>3, <1>11, <2>1
    <3>2. k \in 1..n
      BY <1>4, <3>1
    <3>3. QED
      BY <1>3, <2>1, <3>2
  <2>2. QED
    BY <1>3, <1>4, <1>5, <2>1 DEF IInv, TextInv, text
<1>13. Pending' = Pending
  BY <1>6 DEF Pending, text
<1>14. NmiFresh' + nmis <= NmiFresh + nmis'
  <2>1. NmiOnTop' <=> vector = NMI
    BY <1>1, <1>3, <1>5 DEF NmiOnTop
  <2>2. nmis \in Nat
    BY <1>1 DEF TypeOK
  <2>3. CASE vector = NMI
    <3>1. NmiFresh = 0 /\ nmis' = nmis + 1
      BY <1>1, <2>3 DEF NmiFresh, CallsInv
    <3>2. NmiFresh' \in {0, 1}
      BY FlagTypes
    <3>3. \A g \in {0, 1}, a \in Nat : g + a <= 0 + (a + 1)
      OBVIOUS
    <3>4. QED
      BY <2>2, <3>1, <3>2, <3>3
  <2>4. CASE vector = PAGE_FAULT
    <3>1. NmiFresh' = 0 /\ nmis' = nmis
      BY <1>1, <2>1, <2>4 DEF NmiFresh
    <3>2. QED
      BY <2>2, <3>1, FlagTypes
  <2>5. QED
    BY <2>3, <2>4
<1>15. ScreenInv'
  <2>1. /\ tick \in Int /\ nmis \in Int /\ nmis' \in Nat /\ tick' = tick /\ tick \in Nat
        /\ Pending \in Int /\ NmiFresh \in Int /\ NmiFresh' \in Int /\ nmis <= nmis'
    BY <1>1, FlagTypes DEF TypeOK
  <2>2. /\ tick - Pending <= tick' - Pending'
        /\ (tick' - Pending') - (tick - Pending) + NmiFresh' <= NmiFresh + (nmis' - nmis)
    <3> DEFINE p == Pending
               f == NmiFresh
               g == NmiFresh'
    <3>1. p \in Int /\ f \in Int /\ g \in Int /\ g + nmis <= f + nmis' /\ Pending' = p
      BY <1>13, <1>14, <2>1
    <3> HIDE DEF p, f, g
    <3>2. \A t, q, r, h, a, b \in Int :
            h + a <= r + b => /\ t - q <= t - q
                              /\ (t - q) - (t - q) + h <= r + (b - a)
      OBVIOUS
    <3>3. tick - p <= tick - p /\ (tick - p) - (tick - p) + g <= f + (nmis' - nmis)
      <4>1. nmis' \in Int
        BY <2>1
      <4>2. QED
        BY <2>1, <3>1, <3>2, <4>1
    <3>4. QED
      BY <2>1, <3>1, <3>3 DEF p, f, g
  <2>3. QED
    BY <1>1, <2>1, <2>2, ScreenKept DEF IInv, text
<1>16. QED
  BY <1>2, <1>3, <1>7, <1>8, <1>9, <1>10, <1>12, <1>15 DEF IInv

LEMMA NonMaskableIInv ==
  ASSUME IInv, NonMaskable
  PROVE  IInv'
<1>1. /\ cpu = "run" /\ idt # {} /\ ~nmi_off /\ nmi_off' = TRUE /\ nmis' = nmis + 1
      /\ Enter(NMI, 0)
      /\ UNCHANGED <<bad, raised, pic, idt, interrupt_handlers, tick, text, acks>>
      /\ NMI # PAGE_FAULT
  BY DEF NonMaskable, NMI, PAGE_FAULT
<1>2. idt = Gates /\ nmi_off' \in BOOLEAN
  BY <1>1 DEF IInv, BootInv
<1>3. NMI \in {NMI, PAGE_FAULT} /\ 0 \in Int
  OBVIOUS
<1>4. QED
  BY <1>1, <1>2, <1>3, IsrEntered

LEMMA FaultIInv ==
  ASSUME IInv, Fault
  PROVE  IInv'
<1>1. /\ cpu = "run" /\ eip = 14 /\ Enter(PAGE_FAULT, 2)
      /\ UNCHANGED <<bad, raised, nmis, pic, idt, interrupt_handlers, nmi_off, tick, text, acks>>
      /\ NMI # PAGE_FAULT /\ nmi_off \in BOOLEAN
  BY PmmPlace DEF Fault, hw, NMI, PAGE_FAULT, IInv, TypeOK
<1>2. eip \in DOMAIN KernInit /\ calls = <<>> /\ BootAt = 14
  BY <1>1, Program, Bottom DEF IInv
<1>3. idt = Gates
  BY <1>2 DEF IInv, BootInv
<1>4. QED
  BY <1>1, <1>2, <1>3, IsrEntered

-----------------------------------------------------------------------------
(* kern_init programs the controllers word by word. *)
LEMMA CommandWord ==
  ASSUME NEW c \in ChipState
  PROVE  /\ Command(c, 17) \in ChipState /\ Command(c, 17).icw = 2
         /\ Command(c, 17).irr = {} /\ Command(c, 17).isr = {}
<1>1. Command(c, 17) = [c EXCEPT !.icw = 2, !.imr = {}, !.irr = {}, !.isr = {}]
  BY DEF Command
<1>2. QED
  BY <1>1 DEF ChipState

LEMMA DataWord ==
  ASSUME NEW c \in ChipState, NEW v \in Nat
  PROVE  /\ Data(c, v) \in ChipState
         /\ Data(c, v).irr = c.irr /\ Data(c, v).isr = c.isr
         /\ c.icw = 2 => /\ Data(c, v).icw = 3 /\ Data(c, v).base = v
                         /\ Data(c, v).casc = c.casc
         /\ c.icw = 3 => /\ Data(c, v).icw = 4 /\ Data(c, v).casc = v
                         /\ Data(c, v).base = c.base
         /\ c.icw = 4 => /\ Data(c, v).icw = 0 /\ Data(c, v).casc = c.casc
                         /\ Data(c, v).base = c.base
         /\ c.icw = 0 => /\ Data(c, v).icw = 0 /\ Data(c, v).casc = c.casc
                         /\ Data(c, v).base = c.base
<1>1. c.icw \in {0, 2, 3, 4}
  BY DEF ChipState
<1>2. CASE c.icw = 2
  <2>1. Data(c, v) = [c EXCEPT !.icw = 3, !.base = v]
    BY <1>2 DEF Data
  <2>2. Data(c, v) = [icw |-> 3, base |-> v, casc |-> c.casc,
                      imr |-> c.imr, irr |-> c.irr, isr |-> c.isr]
    BY <2>1 DEF ChipState
  <2>3. QED
    BY <1>2, <2>2 DEF ChipState
<1>3. CASE c.icw = 3
  <2>1. Data(c, v) = [c EXCEPT !.icw = 4, !.casc = v]
    BY <1>3 DEF Data
  <2>2. Data(c, v) = [icw |-> 4, base |-> c.base, casc |-> v,
                      imr |-> c.imr, irr |-> c.irr, isr |-> c.isr]
    BY <2>1 DEF ChipState
  <2>3. QED
    BY <1>3, <2>2 DEF ChipState
<1>4. CASE c.icw = 4
  <2>1. Data(c, v) = [c EXCEPT !.icw = 0]
    BY <1>4 DEF Data
  <2>2. QED
    BY <1>4, <2>1 DEF ChipState
<1>5. CASE c.icw = 0
  <2>1. Data(c, v) = [c EXCEPT !.imr = BitsOf(v)]
    BY <1>5 DEF Data
  <2>2. BitsOf(v) \subseteq 0..7
    BY DEF BitsOf
  <2> HIDE DEF ChipState
  <2>3. QED
    BY <1>5, <2>1, <2>2 DEF ChipState
<1>6. QED
  BY <1>1, <1>2, <1>3, <1>4, <1>5

(* What the controllers have been told when kern_init is at a place. *)
Programmed(chips, at) ==
  /\ chips.m.icw = IF at \in 2..3 THEN 2 ELSE IF at \in 4..5 THEN 3
                   ELSE IF at \in 6..7 THEN 4 ELSE 0
  /\ chips.s.icw = IF at \in 3..4 THEN 2 ELSE IF at \in 5..6 THEN 3
                   ELSE IF at \in 7..8 THEN 4 ELSE 0
  /\ at > 3 => chips.m.base = 32
  /\ at > 4 => chips.s.base = 40
  /\ at > 5 => chips.m.casc = 4

LEMMA Programming ==
  ASSUME NEW at \in 1..19, pic \in PicState, 2 \notin pic.m.irr,
         pic.m.isr = {}, pic.s.isr = {}, Programmed(pic, at),
         pic' = IF KernInit[at].op = "outb"
                THEN OutB(pic, KernInit[at].port, KernInit[at].v) ELSE pic
  PROVE  /\ pic' \in PicState /\ 2 \notin pic'.m.irr
         /\ pic'.m.isr = {} /\ pic'.s.isr = {}
         /\ Programmed(pic', at + 1)
<1>1. pic.m \in ChipState /\ pic.s \in ChipState /\ pic = [m |-> pic.m, s |-> pic.s]
  BY DEF PicState
<1>2. \A c \in ChipState :
        /\ [pic EXCEPT !.m = c] \in PicState /\ [pic EXCEPT !.s = c] \in PicState
        /\ [pic EXCEPT !.m = c].m = c /\ [pic EXCEPT !.m = c].s = pic.s
        /\ [pic EXCEPT !.s = c].s = c /\ [pic EXCEPT !.s = c].m = pic.m
  <2> HIDE DEF ChipState
  <2>1. QED
    BY <1>1 DEF PicState
<1>3. \A port, v : /\ port = 32 => OutB(pic, port, v) = [pic EXCEPT !.m = Command(pic.m, v)]
                   /\ port = 33 => OutB(pic, port, v) = [pic EXCEPT !.m = Data(pic.m, v)]
                   /\ port = 160 => OutB(pic, port, v) = [pic EXCEPT !.s = Command(pic.s, v)]
                   /\ port = 161 => OutB(pic, port, v) = [pic EXCEPT !.s = Data(pic.s, v)]
                   /\ port \in {64, 67} => OutB(pic, port, v) = pic
  BY DEF OutB
<1>4. CASE at \in 11..19
  <2>1. pic' = pic
    <3>1. CASE at \in 16..18
      BY <1>3, <3>1, Program, Ports
    <3>2. CASE at \notin 16..18
      <4>1. KernInit[at].op # "outb"
        BY <1>4, <3>2, Program
      <4>2. QED
        BY <4>1
    <3>3. QED
      BY <3>1, <3>2
  <2>2. QED
    BY <1>4, <2>1 DEF Programmed
<1>5. CASE at \in {1, 2}
  <2>1. KernInit[at].op = "outb"
    BY <1>5, Program
  <2>2. CASE at = 1
    <3>1. pic' = [pic EXCEPT !.m = Command(pic.m, 17)]
      BY <1>3, <2>1, <2>2, Ports DEF Out
    <3>2. /\ Command(pic.m, 17) \in ChipState /\ Command(pic.m, 17).icw = 2
          /\ Command(pic.m, 17).irr = {} /\ Command(pic.m, 17).isr = {}
      BY <1>1, CommandWord
    <3>3. /\ pic' \in PicState /\ pic'.s = pic.s /\ pic'.m = Command(pic.m, 17)
      BY <1>2, <3>1, <3>2
    <3>4. QED
      BY <2>2, <3>2, <3>3 DEF Programmed
  <2>3. CASE at = 2
    <3>1. pic' = [pic EXCEPT !.s = Command(pic.s, 17)]
      BY <1>3, <2>1, <2>3, Ports DEF Out
    <3>2. /\ Command(pic.s, 17) \in ChipState /\ Command(pic.s, 17).icw = 2
          /\ Command(pic.s, 17).irr = {} /\ Command(pic.s, 17).isr = {}
      BY <1>1, CommandWord
    <3>3. /\ pic' \in PicState /\ pic'.m = pic.m /\ pic'.s = Command(pic.s, 17)
      BY <1>2, <3>1, <3>2
    <3>4. QED
      BY <2>3, <3>2, <3>3 DEF Programmed
  <2>4. QED
    BY <1>5, <2>2, <2>3
<1>6. CASE at \in {3, 5, 7, 9}
  <2>1. KernInit[at].op = "outb" /\ KernInit[at].port = 33 /\ KernInit[at].v \in {32, 4, 1, 0}
        /\ (at = 3 => KernInit[at].v = 32) /\ (at = 5 => KernInit[at].v = 4)
    BY <1>6, Program, Ports DEF Out
  <2> DEFINE v == KernInit[at].v
             c == Data(pic.m, v)
  <2>2. pic' = [pic EXCEPT !.m = c]
    BY <1>3, <2>1
  <2>3. v \in Nat
    BY <2>1
  <2> HIDE DEF v
  <2>4. /\ c \in ChipState /\ c.irr = pic.m.irr /\ c.isr = pic.m.isr
        /\ pic.m.icw = 2 => c.icw = 3 /\ c.base = v /\ c.casc = pic.m.casc
        /\ pic.m.icw = 3 => c.icw = 4 /\ c.casc = v /\ c.base = pic.m.base
        /\ pic.m.icw = 4 => c.icw = 0 /\ c.casc = pic.m.casc /\ c.base = pic.m.base
        /\ pic.m.icw = 0 => c.icw = 0 /\ c.casc = pic.m.casc /\ c.base = pic.m.base
    BY <1>1, <2>3, DataWord
  <2> HIDE DEF c
  <2>5. pic' \in PicState /\ pic'.s = pic.s /\ pic'.m = c
    BY <1>2, <2>2, <2>4
  <2>6. Programmed(pic', at + 1)
    <3>1. (at = 3 => v = 32) /\ (at = 5 => v = 4)
      BY <2>1 DEF v
    <3>2. CASE at = 3
      BY <2>4, <2>5, <3>1, <3>2 DEF Programmed
    <3>3. CASE at = 5
      BY <2>4, <2>5, <3>1, <3>3 DEF Programmed
    <3>4. CASE at = 7
      BY <2>4, <2>5, <3>4 DEF Programmed
    <3>5. CASE at = 9
      BY <2>4, <2>5, <3>5 DEF Programmed
    <3>6. QED
      BY <1>6, <3>2, <3>3, <3>4, <3>5
  <2>7. QED
    BY <2>4, <2>5, <2>6
<1>7. CASE at \in {4, 6, 8, 10}
  <2>1. KernInit[at].op = "outb" /\ KernInit[at].port = 161 /\ KernInit[at].v \in {40, 2, 1, 0}
        /\ (at = 4 => KernInit[at].v = 40)
    BY <1>7, Program, Ports DEF Out
  <2> DEFINE v == KernInit[at].v
             c == Data(pic.s, v)
  <2>2. pic' = [pic EXCEPT !.s = c]
    BY <1>3, <2>1
  <2>3. v \in Nat
    BY <2>1
  <2> HIDE DEF v
  <2>4. /\ c \in ChipState /\ c.irr = pic.s.irr /\ c.isr = pic.s.isr
        /\ pic.s.icw = 2 => c.icw = 3 /\ c.base = v /\ c.casc = pic.s.casc
        /\ pic.s.icw = 3 => c.icw = 4 /\ c.casc = v /\ c.base = pic.s.base
        /\ pic.s.icw = 4 => c.icw = 0 /\ c.casc = pic.s.casc /\ c.base = pic.s.base
        /\ pic.s.icw = 0 => c.icw = 0 /\ c.casc = pic.s.casc /\ c.base = pic.s.base
    BY <1>1, <2>3, DataWord
  <2> HIDE DEF c
  <2>5. pic' \in PicState /\ pic'.m = pic.m /\ pic'.s = c
    BY <1>2, <2>2, <2>4
  <2>6. Programmed(pic', at + 1)
    <3>1. at = 4 => v = 40
      BY <2>1 DEF v
    <3>2. CASE at = 4
      BY <2>4, <2>5, <3>1, <3>2 DEF Programmed
    <3>3. CASE at = 6
      BY <2>4, <2>5, <3>3 DEF Programmed
    <3>4. CASE at = 8
      BY <2>4, <2>5, <3>4 DEF Programmed
    <3>5. CASE at = 10
      BY <2>4, <2>5, <3>5 DEF Programmed
    <3>6. QED
      BY <1>7, <3>2, <3>3, <3>4, <3>5
  <2>7. QED
    BY <2>4, <2>5, <2>6
<1>8. QED
  BY <1>4, <1>5, <1>6, <1>7

LEMMA BootIInv ==
  ASSUME IInv, Boot
  PROVE  IInv'
<1> DEFINE step == KernInit[eip]
<1>1. /\ cpu = "run" /\ eip \in DOMAIN KernInit /\ step.op # "idle" /\ eip' = eip + 1
      /\ pic' = IF step.op = "outb" THEN OutB(pic, step.port, step.v) ELSE pic
      /\ idt' = IF step.op = "init_idt" THEN Gates ELSE idt
      /\ interrupt_handlers' =
           IF step.op = "register_timer"
           THEN [interrupt_handlers EXCEPT ![TIMER] = TRUE] ELSE interrupt_handlers
      /\ textbuf' = IF step.op = "hello" THEN <<"hello", 0>> ELSE textbuf
      /\ screen' = IF step.op = "write" THEN Printed(textbuf) ELSE screen
      /\ iflag' = IF step.op = "sti" THEN 1 ELSE iflag
      /\ UNCHANGED <<bad, raised, nmis, cpu, stack, nmi_off, tick, calls, acks>>
  BY DEF Boot, hw
<1>2. /\ eip \in 1..19
      /\ step.op = "init_idt" <=> eip = 11
      /\ step.op = "register_timer" <=> eip = 15
      /\ step.op = "sti" <=> eip = 19
      /\ step.op = "write" => eip = 13
  <2>1. eip \in 1..20
    BY <1>1, Program
  <2>2. step.op = IF eip \in 1..10 \/ eip \in 16..18 THEN "outb"
                  ELSE IF eip = 11 THEN "init_idt"
                  ELSE IF eip = 12 THEN "hello"
                  ELSE IF eip = 13 THEN "write"
                  ELSE IF eip = 14 THEN "init_pmm"
                  ELSE IF eip = 15 THEN "register_timer"
                  ELSE IF eip = 19 THEN "sti" ELSE "idle"
    BY <2>1, Program
  <2> HIDE DEF step
  <2>3. QED
    BY <1>1, <2>1, <2>2
<1>3. calls = <<>> /\ Len(calls) = 0 /\ BootAt = eip /\ DOMAIN calls = {} /\ BootAt' = eip + 1
  <2>1. calls = <<>> /\ Len(calls) = 0 /\ BootAt = eip
    BY <1>1, Bottom DEF IInv
  <2>2. QED
    BY <1>1, <2>1 DEF BootAt
<1>4. pic \in PicState /\ 2 \notin pic.m.irr /\ pic.m.isr = {} /\ pic.s.isr = {}
      /\ Programmed(pic, eip)
  BY <1>1, <1>3 DEF IInv, TypeOK, PicState, ServiceInv, IrqAt, BootInv, Programmed
<1>5. /\ pic' \in PicState /\ 2 \notin pic'.m.irr
      /\ pic'.m.isr = {} /\ pic'.s.isr = {}
      /\ Programmed(pic', eip + 1)
  BY <1>1, <1>2, <1>4, Programming
<1>6. textbuf \in Texts /\ textbuf[1] # "Tick"
  <2>1. BootAt # Len(KernInit)
    BY <1>2, <1>3, Program
  <2>2. QED
    BY <2>1 DEF IInv, TextInv, TypeOK
<1>7. textbuf' \in Texts /\ textbuf'[1] # "Tick"
  <2>1. <<"hello", 0>> \in Texts /\ <<"hello", 0>>[1] # "Tick"
    BY DEF Texts
  <2>2. QED
    BY <1>1, <1>6, <2>1
<1>8. Pending = 0 /\ Pending' = 0 /\ NmiFresh = 0 /\ NmiFresh' = 0
  BY <1>1, <1>3 DEF Pending, NmiFresh, TimerAt, NmiOnTop
<1>9. ScreenInv' /\ screen' \in Seq(Texts)
  <2>1. TypeOK /\ ScreenInv /\ tick \in Nat /\ nmis \in Nat /\ screen \in Seq(Texts)
    BY DEF IInv, TypeOK
  <2>2. CASE screen' = Printed(textbuf)
    BY <1>1, <1>6, <1>8, <2>1, <2>2, ScreenPrinted
  <2>3. CASE screen' = screen
    <3>1. /\ tick - Pending <= tick' - Pending' /\ tick' \in Nat /\ nmis' \in Nat
          /\ (tick' - Pending') - (tick - Pending) + NmiFresh' <= NmiFresh + (nmis' - nmis)
          /\ nmis <= nmis'
      BY <1>1, <1>8, <2>1
    <3>2. QED
      BY <2>1, <2>3, <3>1, ScreenKept
  <2>4. QED
    BY <1>1, <2>2, <2>3
<1>10. TypeOK'
  <2>1. eip' \in Int /\ iflag' \in {0, 1}
    BY <1>1, <1>2 DEF IInv, TypeOK
  <2>2. QED
    BY <1>1, <1>5, <1>7, <1>9, <2>1 DEF IInv, TypeOK, PicState
<1>11. CallsInv'
  <2>1. iflag' = FlagAt(eip)'
    <3>1. iflag = 0
      <4>1. eip # Len(KernInit)
        BY <1>2, Program
      <4>2. QED
        BY <4>1 DEF IInv, CallsInv, FlagAt
    <3>2. FlagAt(eip)' = IF eip = 19 THEN 1 ELSE 0
      BY <1>1, <1>2, Program DEF FlagAt
    <3>3. QED
      BY <1>1, <1>2, <3>1, <3>2
  <2>2. BootAt' \in DOMAIN KernInit
    BY <1>2, <1>3, Program
  <2>3. NmiOnTop = FALSE /\ NmiOnTop' = FALSE
    BY <1>1, <1>3 DEF NmiOnTop
  <2>4. nmi_off' <=> NmiOnTop'
    <3>1. ~nmi_off
      BY <2>3 DEF IInv, CallsInv
    <3>2. QED
      BY <1>1, <2>3, <3>1
  <2>5. calls' = <<>> /\ Len(calls') = 0 /\ DOMAIN calls' = {} /\ cpu' = "run"
    BY <1>1, <1>3
  <2>6. QED
    BY <2>1, <2>2, <2>4, <2>5 DEF CallsInv, FlagAt
<1>12. StackInv'
  BY <1>1 DEF IInv, StackInv
<1>13. BootInv'
  <2>1. idt' = IF eip + 1 > 11 THEN Gates ELSE {}
    <3>1. idt = IF eip > 11 THEN Gates ELSE {}
      BY <1>3 DEF IInv, BootInv
    <3>2. QED
      BY <1>1, <1>2, <3>1
  <2>2. interrupt_handlers' = [v \in 0..255 |-> v = TIMER /\ eip + 1 > 15]
    <3>1. interrupt_handlers = [v \in 0..255 |-> v = TIMER /\ eip > 15]
      BY <1>3 DEF IInv, BootInv
    <3>2. CASE eip = 15
      <4>1. ~(eip > 15) /\ eip + 1 > 15
        BY <3>2
      <4>2. interrupt_handlers' = [interrupt_handlers EXCEPT ![TIMER] = TRUE]
        BY <1>1, <1>2, <3>2
      <4>3. \A v \in 0..255 : interrupt_handlers'[v] = (v = TIMER /\ eip + 1 > 15)
        BY <3>1, <4>1, <4>2, Zenon
      <4>4. QED
        BY <3>1, <4>2, <4>3, Zenon
    <3>3. CASE eip # 15
      <4>1. eip + 1 > 15 <=> eip > 15
        BY <1>2, <3>3
      <4>2. interrupt_handlers' = interrupt_handlers
        BY <1>1, <1>2, <3>3
      <4>3. QED
        BY <3>1, <4>1, <4>2, Zenon
    <3>4. QED
      BY <3>2, <3>3
  <2>3. QED
    BY <1>3, <1>5, <2>1, <2>2 DEF BootInv, Programmed
<1>14. ServiceInv'
  BY <1>1, <1>5 DEF ServiceInv
<1>15. CountInv'
  BY <1>1, <1>3 DEF IInv, CountInv, TimerAt
<1>16. TextInv'
  BY <1>1, <1>3, <1>7 DEF TextInv
<1>17. QED
  BY <1>9, <1>10, <1>11, <1>12, <1>13, <1>14, <1>15, <1>16 DEF IInv

-----------------------------------------------------------------------------
(* The handlers. *)
HandlerPlaces ==
  /\ IRQ_HANDLER = 101 /\ IRQ_MASTER = 102 /\ IRQ_CALL = 103 /\ ISR_HANDLER = 104
  /\ TIMER_CALLBACK = 105 /\ PRINT_WRITE = 106 /\ STUB_RETURN = 107

LEMMA Numbers ==
  /\ HandlerPlaces /\ Handler = 101..107
  /\ TIMER = 32 /\ NMI = 2 /\ PAGE_FAULT = 14 /\ Irqs = 32..47
BY DEF HandlerPlaces, Handler, IRQ_HANDLER, IRQ_MASTER, IRQ_CALL, ISR_HANDLER,
       TIMER_CALLBACK, PRINT_WRITE, STUB_RETURN, TIMER, NMI, PAGE_FAULT, Irqs

(* irq_handler is entered from the idle loop only. *)
LEMMA InIrq ==
  ASSUME IInv, eip \in {IRQ_HANDLER, IRQ_MASTER, IRQ_CALL, TIMER_CALLBACK}
  PROVE  /\ eip \in Handler /\ calls # <<>> /\ Len(calls) = 1 /\ DOMAIN calls = {1}
         /\ calls[1].vector \in Irqs /\ Field(INT_NO)[2] = calls[1].vector
         /\ PlaceOf(calls[1].vector, eip)
         /\ BootAt = 20 /\ At(1) = eip /\ ~NmiOnTop /\ NmiFresh = 0
<1>1. eip \in Handler
  BY Numbers DEF HandlerPlaces
<1>2. /\ TypeOK /\ CallsInv /\ StackInv
  BY DEF IInv
<1>3. /\ Len(calls) \in 1..2 /\ calls # <<>> /\ At(Len(calls)) = eip
      /\ PlaceOf(calls[Len(calls)].vector, eip)
      /\ Field(INT_NO) = Word("int_no", calls[Len(calls)].vector)
  BY <1>1, <1>2, Top
<1>4. calls[Len(calls)].vector \in Irqs
  BY <1>3, Numbers DEF PlaceOf, HandlerPlaces
<1>5. Len(calls) = 1
  <2>1. Len(calls) = 2 => calls[Len(calls)].vector = NMI
    BY <1>2 DEF CallsInv
  <2>2. QED
    BY <1>3, <1>4, <2>1, Numbers
<1>6. DOMAIN calls = {1}
  BY <1>2, <1>5, CallsType
<1>7. BootAt = 20
  BY <1>2, <1>3, <1>4, <1>5, <1>6, Program DEF CallsInv, BootAt
<1>8. ~NmiOnTop
  BY <1>4, <1>5, Numbers DEF NmiOnTop
<1>9. NmiFresh = 0
  BY <1>8 DEF NmiFresh
<1>10. QED
  BY <1>1, <1>3, <1>4, <1>5, <1>6, <1>7, <1>8, <1>9 DEF Word

(* A step of irq_handler changes the controllers at most; a timer's call   *)
(* stays on the way to its handler.                                        *)
LEMMA IrqMoved ==
  ASSUME IInv, eip \in {IRQ_HANDLER, IRQ_MASTER, IRQ_CALL},
         UNCHANGED <<bad, raised, nmis, idt, interrupt_handlers, cpu, iflag, stack,
                     nmi_off, tick, text, calls, acks>>,
         eip' \in {IRQ_MASTER, IRQ_CALL, TIMER_CALLBACK, STUB_RETURN},
         eip' = TIMER_CALLBACK <=> (eip = IRQ_CALL /\ calls[1].vector = TIMER),
         eip' = STUB_RETURN => eip = IRQ_CALL,
         pic' \in PicState, 2 \notin pic'.m.irr,
         pic'.m.icw = pic.m.icw, pic'.s.icw = pic.s.icw,
         pic'.m.base = pic.m.base, pic'.s.base = pic.s.base,
         pic'.m.casc = pic.m.casc
  PROVE  /\ TypeOK' /\ CallsInv' /\ StackInv' /\ BootInv'
         /\ CountInv' /\ TextInv' /\ ScreenInv'
         /\ \A places : IrqAt(places)' <=> eip' \in places
<1>1. /\ eip \in Handler /\ calls # <<>> /\ Len(calls) = 1 /\ DOMAIN calls = {1}
      /\ calls[1].vector \in Irqs
      /\ BootAt = 20 /\ At(1) = eip /\ ~NmiOnTop /\ NmiFresh = 0
  BY InIrq
<1>2. /\ TypeOK /\ CallsInv /\ StackInv /\ BootInv /\ ScreenInv
  BY DEF IInv
<1>3. eip' \in Handler /\ eip' \in Int
  BY Numbers DEF HandlerPlaces
<1>4. BootAt' = BootAt /\ StackInv' /\ At(1)' = eip'
  BY <1>1, <1>2, <1>3, Moved
<1>5. \A places : /\ IrqAt(places)' <=> eip' \in places
                  /\ TimerAt(places) <=> (calls[1].vector = TIMER /\ eip \in places)
                  /\ TimerAt(places)' <=> (calls[1].vector = TIMER /\ eip' \in places)
  BY <1>1, <1>4 DEF IrqAt, TimerAt
<1>6. CallsInv'
  <2>1. PlaceOf(calls[1].vector, eip')
    BY <1>1, <1>3, Numbers DEF PlaceOf, HandlerPlaces
  <2>2. QED
    BY <1>1, <1>2, <2>1, MovedCalls
<1>7. TypeOK'
  BY <1>2, <1>3 DEF TypeOK, PicState, text
<1>8. BootInv'
  BY <1>2, <1>4, BootKept
<1>9. CountInv'
  <2> DEFINE P == {IRQ_HANDLER, IRQ_MASTER, IRQ_CALL, TIMER_CALLBACK}
  <2>1. TimerAt(P)' <=> TimerAt(P)
    <3>1. eip \in P /\ (calls[1].vector = TIMER => eip' \in P)
      BY Numbers DEF HandlerPlaces
    <3>2. QED
      BY <1>5, <3>1
  <2>2. QED
    BY <2>1 DEF IInv, CountInv
<1>10. eip # PRINT_WRITE /\ eip' # PRINT_WRITE /\ eip' # ISR_HANDLER
  BY Numbers DEF HandlerPlaces
<1>11. TextInv'
  <2>1. \A k \in DOMAIN calls' : At(k)' # PRINT_WRITE
    BY <1>1, <1>4, <1>10
  <2>2. QED
    BY <1>4, <2>1 DEF IInv, TextInv, text
<1>12. Pending = 0 /\ Pending' = 0 /\ NmiFresh' = 0
  BY <1>5, <1>10 DEF Pending, NmiFresh
<1>13. ScreenInv'
  <2>1. /\ tick - Pending <= tick' - Pending' /\ tick' \in Nat /\ nmis' \in Nat
        /\ (tick' - Pending') - (tick - Pending) + NmiFresh' <= NmiFresh + (nmis' - nmis)
        /\ nmis <= nmis'
    BY <1>1, <1>2, <1>12 DEF TypeOK
  <2>2. QED
    BY <1>2, <2>1, ScreenKept DEF text
<1>14. QED
  BY <1>4, <1>5, <1>6, <1>7, <1>8, <1>9, <1>11, <1>13

LEMMA IrqSlaveIInv ==
  ASSUME IInv, IrqSlave
  PROVE  IInv'
<1>1. /\ cpu = "run" /\ eip = IRQ_HANDLER /\ eip' = IRQ_MASTER
      /\ pic' = IF Field(INT_NO)[2] >= 40 THEN [pic EXCEPT !.s = Command(pic.s, 32)] ELSE pic
      /\ UNCHANGED <<bad, raised, nmis, idt, interrupt_handlers, cpu, iflag, stack,
                     nmi_off, tick, text, calls, acks>>
  BY DEF IrqSlave, FromSlave, OutB, hw
<1>2. /\ calls[1].vector \in Irqs /\ Field(INT_NO)[2] = calls[1].vector
      /\ At(1) = eip
  BY <1>1, InIrq
<1>3. pic \in PicState /\ pic.m \in ChipState /\ pic.s \in ChipState /\ 2 \notin pic.m.irr
  BY DEF IInv, TypeOK, PicState
<1> DEFINE c == Command(pic.s, 32)
<1>4. /\ c \in ChipState /\ c.icw = pic.s.icw /\ c.base = pic.s.base
      /\ pic.s.isr = {} => c.isr = {}
      /\ (\E n \in 0..7 : pic.s.isr = {n}) => c.isr = {}
  BY <1>3, EndOfInterrupt
<1> HIDE DEF c
<1>5. /\ pic' \in PicState /\ pic'.m = pic.m
      /\ pic'.s = IF calls[1].vector >= 40 THEN c ELSE pic.s
  BY <1>1, <1>2, <1>3, <1>4 DEF PicState, c
<1>6. /\ TypeOK' /\ CallsInv' /\ StackInv' /\ BootInv'
      /\ CountInv' /\ TextInv' /\ ScreenInv'
      /\ \A places : IrqAt(places)' <=> eip' \in places
  <2>1. /\ eip \in {IRQ_HANDLER, IRQ_MASTER, IRQ_CALL}
        /\ eip' \in {IRQ_MASTER, IRQ_CALL, TIMER_CALLBACK, STUB_RETURN}
        /\ eip' # TIMER_CALLBACK /\ eip # IRQ_CALL /\ eip' # STUB_RETURN
    BY <1>1, Numbers DEF HandlerPlaces
  <2>2. /\ pic'.m.icw = pic.m.icw /\ pic'.s.icw = pic.s.icw
        /\ pic'.m.base = pic.m.base /\ pic'.s.base = pic.s.base
        /\ pic'.m.casc = pic.m.casc /\ 2 \notin pic'.m.irr
    BY <1>3, <1>4, <1>5
  <2>3. QED
    BY <1>1, <1>5, <2>1, <2>2, IrqMoved
<1>7. ServiceInv'
  <2>1. IrqAt({IRQ_HANDLER, IRQ_MASTER})'
    BY <1>1, <1>6
  <2>2. /\ pic.m.isr # {} => \E n \in 0..7 : pic.m.isr = {n}
        /\ pic.s.isr # {} => /\ calls[1].vector >= 40
                             /\ \E n \in 0..7 : pic.s.isr = {n}
    BY <1>1 DEF IInv, ServiceInv
  <2>3. pic'.s.isr = {}
    BY <1>4, <1>5, <2>2
  <2>4. QED
    BY <1>1, <1>5, <2>1, <2>2, <2>3 DEF ServiceInv
<1>8. QED
  BY <1>6, <1>7 DEF IInv

LEMMA IrqMasterIInv ==
  ASSUME IInv, IrqMaster
  PROVE  IInv'
<1>1. /\ cpu = "run" /\ eip = IRQ_MASTER /\ eip' = IRQ_CALL
      /\ pic' = [pic EXCEPT !.m = Command(pic.m, 32)]
      /\ UNCHANGED <<bad, raised, nmis, idt, interrupt_handlers, cpu, iflag, stack,
                     nmi_off, tick, text, calls, acks>>
  BY DEF IrqMaster, EoiMaster, OutB, hw
<1>2. At(1) = eip
  BY <1>1, InIrq
<1>3. pic \in PicState /\ pic.m \in ChipState /\ pic.s \in ChipState /\ 2 \notin pic.m.irr
  BY DEF IInv, TypeOK, PicState
<1> DEFINE c == Command(pic.m, 32)
<1>4. /\ c \in ChipState /\ c.icw = pic.m.icw /\ c.base = pic.m.base
      /\ c.casc = pic.m.casc /\ c.irr = pic.m.irr
      /\ pic.m.isr = {} => c.isr = {}
      /\ (\E n \in 0..7 : pic.m.isr = {n}) => c.isr = {}
  BY <1>3, EndOfInterrupt
<1> HIDE DEF c
<1>5. pic' \in PicState /\ pic'.m = c /\ pic'.s = pic.s
  BY <1>1, <1>3, <1>4 DEF PicState, c
<1>6. /\ TypeOK' /\ CallsInv' /\ StackInv' /\ BootInv'
      /\ CountInv' /\ TextInv' /\ ScreenInv'
  <2>1. /\ eip \in {IRQ_HANDLER, IRQ_MASTER, IRQ_CALL}
        /\ eip' \in {IRQ_MASTER, IRQ_CALL, TIMER_CALLBACK, STUB_RETURN}
        /\ eip' # TIMER_CALLBACK /\ eip # IRQ_CALL /\ eip' # STUB_RETURN
    BY <1>1, Numbers DEF HandlerPlaces
  <2>2. /\ pic'.m.icw = pic.m.icw /\ pic'.s.icw = pic.s.icw
        /\ pic'.m.base = pic.m.base /\ pic'.s.base = pic.s.base
        /\ pic'.m.casc = pic.m.casc /\ 2 \notin pic'.m.irr
    BY <1>3, <1>4, <1>5
  <2>3. QED
    BY <1>1, <1>5, <2>1, <2>2, IrqMoved
<1>7. ServiceInv'
  <2>1. /\ pic.m.isr # {} => \E n \in 0..7 : pic.m.isr = {n}
        /\ pic.s.isr = {}
    <3>1. eip # IRQ_HANDLER
      BY <1>1, Numbers DEF HandlerPlaces
    <3>2. QED
      BY <1>1, <1>2, <3>1 DEF IInv, ServiceInv, IrqAt
  <2>2. pic'.m.isr = {} /\ pic'.s.isr = {}
    BY <1>4, <1>5, <2>1
  <2>3. QED
    BY <1>1, <2>2 DEF ServiceInv
<1>8. QED
  BY <1>6, <1>7 DEF IInv

LEMMA IrqCallIInv ==
  ASSUME IInv, IrqCall
  PROVE  IInv'
<1>1. /\ cpu = "run" /\ eip = IRQ_CALL
      /\ eip' = IF interrupt_handlers[Field(INT_NO)[2]] THEN TIMER_CALLBACK ELSE STUB_RETURN
      /\ UNCHANGED <<bad, raised, nmis, pic, idt, interrupt_handlers, cpu, iflag, stack,
                     nmi_off, tick, text, calls, acks>>
  BY DEF IrqCall, hw
<1>2. /\ calls[1].vector \in Irqs /\ Field(INT_NO)[2] = calls[1].vector
      /\ At(1) = eip /\ BootAt = 20
  BY <1>1, InIrq
<1>3. interrupt_handlers[calls[1].vector] <=> calls[1].vector = TIMER
  <2>1. calls[1].vector \in 0..255
    BY <1>2 DEF Irqs
  <2>2. interrupt_handlers = [v \in 0..255 |-> v = TIMER /\ BootAt > 15] /\ BootAt > 15
    BY <1>2 DEF IInv, BootInv
  <2>3. QED
    BY <2>1, <2>2, Zenon
<1>4. /\ TypeOK' /\ CallsInv' /\ StackInv' /\ BootInv'
      /\ CountInv' /\ TextInv' /\ ScreenInv'
  <2>1. /\ eip \in {IRQ_HANDLER, IRQ_MASTER, IRQ_CALL}
        /\ eip' \in {IRQ_MASTER, IRQ_CALL, TIMER_CALLBACK, STUB_RETURN}
        /\ eip' = TIMER_CALLBACK <=> calls[1].vector = TIMER
    BY <1>1, <1>2, <1>3, Numbers DEF HandlerPlaces
  <2>2. pic' = pic /\ pic' \in PicState /\ 2 \notin pic'.m.irr
    BY <1>1 DEF IInv, TypeOK, PicState
  <2>3. QED
    BY <1>1, <2>1, <2>2, IrqMoved
<1>5. ServiceInv'
  <2>1. pic.m.isr = {} /\ pic.s.isr = {}
    <3>1. eip # IRQ_HANDLER /\ eip # IRQ_MASTER
      BY <1>1, Numbers DEF HandlerPlaces
    <3>2. QED
      BY <1>1, <1>2, <3>1 DEF IInv, ServiceInv, IrqAt
  <2>2. QED
    BY <1>1, <2>1 DEF ServiceInv
<1>6. QED
  BY <1>4, <1>5 DEF IInv

(* A handler at its print or at isr_handler: what it runs on top of stays  *)
(* where it is.                                                            *)
LEMMA OnTop ==
  ASSUME IInv, eip \in {ISR_HANDLER, TIMER_CALLBACK, PRINT_WRITE, STUB_RETURN},
         eip' \in {PRINT_WRITE, STUB_RETURN}, cpu = "run",
         PlaceOf(calls[Len(calls)].vector, eip'),
         UNCHANGED <<bad, raised, nmis, pic, idt, interrupt_handlers, cpu, iflag, stack,
                     nmi_off, calls, acks>>,
         tick' \in Nat, textbuf' \in Texts, screen' \in Seq(Texts)
  PROVE  /\ TypeOK' /\ CallsInv' /\ StackInv' /\ BootInv' /\ ServiceInv'
         /\ BootAt' = BootAt /\ NmiOnTop' = NmiOnTop
         /\ \A k \in DOMAIN calls : At(k)' = IF k = Len(calls) THEN eip' ELSE At(k)
<1>1. eip \in Handler /\ eip' \in Handler /\ eip' \in Int
  BY Numbers DEF HandlerPlaces
<1>2. /\ TypeOK /\ CallsInv /\ StackInv /\ BootInv
  BY DEF IInv
<1>3. /\ Len(calls) \in 1..2 /\ calls # <<>> /\ DOMAIN calls = 1..Len(calls)
      /\ At(Len(calls)) = eip
  BY <1>1, <1>2, Top, CallsType
<1>4. /\ BootAt' = BootAt /\ StackInv'
      /\ \A k \in DOMAIN calls : At(k)' = IF k = Len(calls) THEN eip' ELSE At(k)
  BY <1>1, <1>2, <1>3, Moved
<1>5. CallsInv'
  BY <1>1, <1>2, MovedCalls
<1>6. TypeOK'
  BY <1>1, <1>2 DEF TypeOK
<1>7. BootInv'
  BY <1>2, <1>4, BootKept
<1>8. IrqAt({IRQ_HANDLER, IRQ_MASTER}) => IrqAt({IRQ_HANDLER, IRQ_MASTER})'
  <2>1. eip \notin {IRQ_HANDLER, IRQ_MASTER}
    BY Numbers DEF HandlerPlaces
  <2>2. QED
    BY <1>3, <1>4, <2>1 DEF IrqAt
<1>9. IrqAt({IRQ_HANDLER}) => IrqAt({IRQ_HANDLER})'
  <2>1. eip # IRQ_HANDLER
    BY Numbers DEF HandlerPlaces
  <2>2. QED
    BY <1>3, <1>4, <2>1 DEF IrqAt
<1>10. ServiceInv'
  BY <1>8, <1>9 DEF IInv, ServiceInv
<1>11. NmiOnTop' = NmiOnTop
  BY DEF NmiOnTop
<1>12. QED
  BY <1>4, <1>5, <1>6, <1>7, <1>10, <1>11

LEMMA IsrHandlerIInv ==
  ASSUME IInv, IsrHandler
  PROVE  IInv'
<1> DEFINE n == Len(calls)
<1>1. /\ cpu = "run" /\ eip = ISR_HANDLER
      /\ IF interrupt_handlers[Field(INT_NO)[2]]
         THEN eip' = TIMER_CALLBACK /\ UNCHANGED textbuf
         ELSE textbuf' = <<"Unhandled", Field(INT_NO)[2]>> /\ eip' = PRINT_WRITE
      /\ UNCHANGED <<bad, raised, nmis, pic, idt, interrupt_handlers, cpu, iflag, stack,
                     nmi_off, tick, screen, calls, acks>>
  BY DEF IsrHandler, hw
<1>2. /\ TypeOK /\ CallsInv /\ StackInv /\ ScreenInv /\ eip \in Handler
  BY <1>1, Numbers DEF IInv, HandlerPlaces
<1>3. /\ n \in 1..2 /\ calls # <<>> /\ DOMAIN calls = 1..n /\ At(n) = eip
      /\ PlaceOf(calls[n].vector, eip) /\ Field(INT_NO)[2] = calls[n].vector
  BY <1>2, Top, CallsType DEF Word
<1>4. calls[n].vector \in {NMI, PAGE_FAULT} /\ calls[n].vector \notin Irqs
      /\ calls[n].vector # TIMER /\ calls[n].vector \in 0..255
  BY <1>1, <1>3, Numbers DEF PlaceOf, HandlerPlaces
<1>5. ~interrupt_handlers[calls[n].vector]
  <2>1. interrupt_handlers = [v \in 0..255 |-> v = TIMER /\ BootAt > 15]
    BY DEF IInv, BootInv
  <2>2. QED
    BY <1>4, <2>1, Zenon
<1>6. textbuf' = <<"Unhandled", calls[n].vector>> /\ eip' = PRINT_WRITE
  BY <1>1, <1>3, <1>5
<1>7. textbuf' \in Texts /\ textbuf'[1] # "Tick"
  BY <1>4, <1>6 DEF Texts
<1>8. /\ TypeOK' /\ CallsInv' /\ StackInv' /\ BootInv' /\ ServiceInv'
      /\ BootAt' = BootAt /\ NmiOnTop' = NmiOnTop
      /\ \A k \in DOMAIN calls : At(k)' = IF k = n THEN eip' ELSE At(k)
  <2>1. PlaceOf(calls[n].vector, eip')
    <3>1. \A v \in {NMI, PAGE_FAULT} : PlaceOf(v, PRINT_WRITE)
      BY Numbers DEF PlaceOf, HandlerPlaces
    <3>2. QED
      BY <1>4, <1>6, <3>1
  <2>2. tick' \in Nat /\ screen' \in Seq(Texts)
    BY <1>1, <1>2 DEF TypeOK
  <2>3. QED
    BY <1>1, <1>6, <1>7, <2>1, <2>2, OnTop
<1> HIDE DEF n
<1>9. \A places : TimerAt(places)' <=> TimerAt(places)
  BY <1>1, <1>3, <1>4, <1>8 DEF TimerAt
<1>10. CountInv'
  BY <1>1, <1>9 DEF IInv, CountInv
<1>11. TextInv'
  BY <1>7 DEF TextInv
<1>12. Pending' = 0 /\ NmiFresh' = 0
  <2>1. eip' # ISR_HANDLER
    BY <1>6, Numbers DEF HandlerPlaces
  <2>2. QED
    BY <1>7, <2>1 DEF Pending, NmiFresh
<1>13. Pending = 0 \/ NmiFresh = 1
  <2>1. CASE n = 2
    <3>1. NmiOnTop
      BY <1>2, <1>3, <2>1 DEF CallsInv, NmiOnTop, n
    <3>2. QED
      BY <1>1, <3>1 DEF NmiFresh
  <2>2. CASE n = 1
    <3>1. ~TimerAt({PRINT_WRITE})
      BY <1>4, <2>2 DEF TimerAt
    <3>2. QED
      BY <3>1 DEF Pending
  <2>3. QED
    BY <1>3, <2>1, <2>2
<1>14. ScreenInv'
  <2>1. tick \in Nat /\ nmis \in Nat /\ tick' = tick /\ nmis' = nmis
    BY <1>1, <1>2 DEF TypeOK
  <2>2. Pending \in {0, 1} /\ NmiFresh \in {0, 1}
    BY FlagTypes
  <2>3. \A t, a \in Nat, p, f \in {0, 1} :
          p = 0 \/ f = 1 => t - p <= t - 0 /\ (t - 0) - (t - p) + 0 <= f + (a - a)
    OBVIOUS
  <2>4. /\ tick - Pending <= tick' - Pending'
        /\ (tick' - Pending') - (tick - Pending) + NmiFresh' <= NmiFresh + (nmis' - nmis)
    BY <1>12, <1>13, <2>1, <2>2, <2>3
  <2>5. QED
    BY <1>1, <1>2, <2>1, <2>4, ScreenKept
<1>15. QED
  BY <1>8, <1>10, <1>11, <1>14 DEF IInv

LEMMA TimerCallbackIInv ==
  ASSUME IInv, TimerCallback
  PROVE  IInv'
<1>1. /\ cpu = "run" /\ eip = TIMER_CALLBACK /\ eip' = PRINT_WRITE
      /\ textbuf' = <<"Tick", tick>> /\ tick' = tick + 1
      /\ UNCHANGED <<bad, raised, nmis, pic, idt, interrupt_handlers, cpu, iflag, stack,
                     nmi_off, screen, calls, acks>>
  BY DEF TimerCallback, TickShown, hw
<1>2. /\ TypeOK /\ ScreenInv /\ tick \in Nat /\ tick' \in Nat /\ nmis \in Nat
  BY <1>1 DEF IInv, TypeOK
<1>3. /\ calls # <<>> /\ Len(calls) = 1 /\ DOMAIN calls = {1} /\ PlaceOf(calls[1].vector, eip)
      /\ BootAt = 20 /\ At(1) = eip /\ ~NmiOnTop /\ NmiFresh = 0
  BY <1>1, InIrq
<1>4. calls[1].vector = TIMER
  BY <1>1, <1>3 DEF PlaceOf
<1>5. textbuf' \in Texts
  BY <1>1, <1>2 DEF Texts
<1>6. /\ TypeOK' /\ CallsInv' /\ StackInv' /\ BootInv' /\ ServiceInv'
      /\ BootAt' = BootAt /\ NmiOnTop' = NmiOnTop /\ At(1)' = eip'
  <2>1. PlaceOf(calls[Len(calls)].vector, eip')
    BY <1>1, <1>3, <1>4, Numbers DEF PlaceOf, HandlerPlaces
  <2>2. screen' \in Seq(Texts)
    BY <1>1, <1>2 DEF TypeOK
  <2>3. QED
    BY <1>1, <1>2, <1>3, <1>5, <2>1, <2>2, OnTop
<1>7. \A places : /\ TimerAt(places) <=> TIMER_CALLBACK \in places
                  /\ TimerAt(places)' <=> PRINT_WRITE \in places
  BY <1>1, <1>3, <1>4, <1>6 DEF TimerAt
<1>8. CountInv'
  <2> DEFINE P == {IRQ_HANDLER, IRQ_MASTER, IRQ_CALL, TIMER_CALLBACK}
  <2>1. TimerAt(P) /\ ~TimerAt(P)'
    <3>1. PRINT_WRITE \notin P /\ TIMER_CALLBACK \in P
      BY Numbers DEF HandlerPlaces
    <3>2. QED
      BY <1>7, <3>1
  <2>2. QED
    BY <1>1, <2>1 DEF IInv, CountInv
<1>9. TextInv'
  <2>1. textbuf'[2] = tick' - 1 /\ BootAt' = Len(KernInit)
    BY <1>1, <1>2, <1>3, <1>6, Program
  <2>2. \A k \in DOMAIN calls' : calls'[k].vector = TIMER
    BY <1>1, <1>3, <1>4
  <2>3. QED
    BY <2>1, <2>2 DEF TextInv
<1>10. Pending = 0 /\ Pending' = 1 /\ NmiFresh' = 0
  <2>1. PRINT_WRITE # TIMER_CALLBACK /\ textbuf'[1] = "Tick"
    BY <1>1, Numbers DEF HandlerPlaces
  <2>2. QED
    BY <1>3, <1>6, <1>7, <2>1 DEF Pending, NmiFresh
<1>11. ScreenInv'
  <2>1. /\ tick - Pending <= tick' - Pending' /\ nmis' = nmis
        /\ (tick' - Pending') - (tick - Pending) + NmiFresh' <= NmiFresh + (nmis' - nmis)
    BY <1>1, <1>2, <1>3, <1>10
  <2>2. QED
    BY <1>1, <1>2, <2>1, ScreenKept
<1>12. QED
  BY <1>6, <1>8, <1>9, <1>11 DEF IInv

LEMMA PrintWriteIInv ==
  ASSUME IInv, PrintWrite
  PROVE  IInv'
<1> DEFINE n == Len(calls)
<1>1. /\ cpu = "run" /\ eip = PRINT_WRITE /\ eip' = STUB_RETURN
      /\ screen' = Printed(textbuf)
      /\ UNCHANGED <<bad, raised, nmis, pic, idt, interrupt_handlers, cpu, iflag, stack,
                     nmi_off, tick, textbuf, calls, acks>>
  BY DEF PrintWrite, hw
<1>2. /\ TypeOK /\ CallsInv /\ StackInv /\ TextInv /\ ScreenInv /\ eip \in Handler
      /\ tick' \in Nat /\ textbuf' \in Texts
  BY <1>1, Numbers DEF IInv, HandlerPlaces, TypeOK
<1>3. /\ n \in 1..2 /\ calls # <<>> /\ DOMAIN calls = 1..n /\ At(n) = eip
      /\ PlaceOf(calls[n].vector, eip)
      /\ n = 2 => calls[n].vector = NMI
  BY <1>2, Top, CallsType DEF CallsInv
<1>4. eip' # ISR_HANDLER /\ eip # ISR_HANDLER /\ eip' # PRINT_WRITE
  BY <1>1, Numbers DEF HandlerPlaces
<1>5. NmiFresh = 0 /\ NmiFresh' = 0
  BY <1>4 DEF NmiFresh
<1>6. n = 2 => textbuf[1] # "Tick"
  <2>1. n \in DOMAIN calls /\ NMI # TIMER
    BY <1>3, Numbers
  <2>2. QED
    BY <1>1, <1>2, <1>3, <2>1 DEF TextInv
<1>7. textbuf[1] = "Tick" => textbuf[2] = tick - 1 /\ Pending = 1 /\ n = 1
  <2> SUFFICES ASSUME textbuf[1] = "Tick"
               PROVE  textbuf[2] = tick - 1 /\ Pending = 1 /\ n = 1
    OBVIOUS
  <2>1. n = 1 /\ n \in DOMAIN calls
    BY <1>3, <1>6
  <2>2. calls[1].vector = TIMER /\ At(1) = PRINT_WRITE
    BY <1>1, <1>2, <1>3, <2>1 DEF TextInv
  <2>3. Pending = 1
    BY <1>3, <2>2 DEF Pending, TimerAt
  <2>4. QED
    BY <1>2, <2>1, <2>3 DEF TextInv
<1>8. ScreenInv' /\ screen' \in Seq(Texts) /\ Pending' = 0
  <2>1. Pending' = 0
    <3>1. CASE textbuf[1] # "Tick"
      BY <1>1, <3>1 DEF Pending
    <3>2. CASE textbuf[1] = "Tick"
      <4>1. At(1)' = eip'
        BY <1>1, <1>7, <3>2 DEF At
      <4>2. ~TimerAt({PRINT_WRITE})'
        BY <1>4, <4>1 DEF TimerAt
      <4>3. QED
        BY <4>2 DEF Pending
    <3>3. QED
      BY <3>1, <3>2
  <2>2. textbuf[1] # "Tick" => Pending = 0
    BY DEF Pending
  <2>3. QED
    BY <1>1, <1>2, <1>5, <1>7, <2>1, <2>2, ScreenPrinted
<1>9. /\ TypeOK' /\ CallsInv' /\ StackInv' /\ BootInv' /\ ServiceInv'
      /\ BootAt' = BootAt /\ NmiOnTop' = NmiOnTop
      /\ \A k \in DOMAIN calls : At(k)' = IF k = n THEN eip' ELSE At(k)
  <2>1. PlaceOf(calls[n].vector, eip')
    <3>1. \A v : PlaceOf(v, PRINT_WRITE) => PlaceOf(v, STUB_RETURN)
      BY Numbers DEF PlaceOf, HandlerPlaces
    <3>2. QED
      BY <1>1, <1>3, <3>1
  <2>2. QED
    BY <1>1, <1>2, <1>8, <2>1, OnTop
<1> HIDE DEF n
<1>10. CountInv'
  <2> DEFINE P == {IRQ_HANDLER, IRQ_MASTER, IRQ_CALL, TIMER_CALLBACK}
  <2>1. TimerAt(P)' <=> TimerAt(P)
    <3>1. eip \notin P /\ eip' \notin P
      BY <1>1, Numbers DEF HandlerPlaces
    <3> HIDE DEF P
    <3>2. QED
      BY <1>1, <1>3, <1>9, <3>1 DEF TimerAt
  <2>2. QED
    BY <1>1, <2>1 DEF IInv, CountInv
<1>11. TextInv'
  <2>1. \A k \in DOMAIN calls' : At(k)' = PRINT_WRITE => At(k) = PRINT_WRITE
    BY <1>1, <1>4, <1>9
  <2>2. QED
    BY <1>1, <1>2, <1>9, <2>1 DEF TextInv
<1>12. QED
  BY <1>8, <1>9, <1>10, <1>11 DEF IInv

LEMMA StubReturnIInv ==
  ASSUME IInv, StubReturn
  PROVE  IInv'
<1> DEFINE n == Len(calls)
<1>1. /\ cpu = "run" /\ eip = STUB_RETURN /\ nmi_off' = FALSE
      /\ UNCHANGED <<bad, raised, nmis, pic, idt, interrupt_handlers, cpu, tick,
                     textbuf, screen, acks>>
  BY DEF StubReturn, hw, text
<1>2. /\ TypeOK /\ CallsInv /\ StackInv /\ ScreenInv /\ TextInv /\ eip \in Handler
  BY <1>1, Numbers DEF IInv, HandlerPlaces
<1>3. /\ n \in 1..2 /\ calls # <<>> /\ DOMAIN calls = 1..n /\ At(n) = eip
      /\ calls[n] \in Call
      /\ n = 2 => calls[1].vector # NMI /\ calls[n].vector = NMI
      /\ calls[n].iflag = FlagAt(calls[n].eip)
  <2>1. n \in 1..2 /\ calls # <<>> /\ DOMAIN calls = 1..n /\ At(n) = eip /\ calls[n] \in Call
    BY <1>2, Top, CallsType
  <2>2. QED
    BY <1>2, <2>1 DEF CallsInv
<1>4. /\ eip' = calls[n].eip /\ iflag' = calls[n].iflag
      /\ Len(calls') = n - 1 /\ calls' \in Seq(Call)
      /\ \A k \in 1..n - 1 : calls'[k] = calls[k] /\ At(k)' = At(k)
      /\ (calls' = <<>>) <=> (n = 1)
      /\ BootAt' = BootAt /\ stack' \in Seq(Words) /\ StackInv'
  BY <1>2, Returned
<1>5. DOMAIN calls' = 1..n - 1
  BY <1>4, LenProperties
<1> HIDE DEF n
<1>6. ASSUME NEW k \in DOMAIN calls' PROVE k \in DOMAIN calls /\ calls'[k] = calls[k] /\ At(k)' = At(k)
  BY <1>3, <1>4, <1>5
<1>7. ~NmiOnTop'
  <2>1. CASE n = 1
    BY <1>4, <2>1 DEF NmiOnTop
  <2>2. CASE n = 2
    <3>1. calls'[Len(calls')].vector = calls[1].vector
      BY <1>4, <2>2
    <3>2. QED
      BY <1>3, <2>2, <3>1 DEF NmiOnTop
  <2>3. QED
    BY <1>3, <2>1, <2>2
<1>8. eip \notin {IRQ_HANDLER, IRQ_MASTER, IRQ_CALL, TIMER_CALLBACK, PRINT_WRITE, ISR_HANDLER}
  BY <1>1, Numbers DEF HandlerPlaces
<1>9. ASSUME NEW places, eip \notin places
      PROVE  /\ IrqAt(places)' <=> IrqAt(places)
             /\ TimerAt(places)' <=> TimerAt(places)
  <2>1. CASE n = 1
    BY <1>3, <1>4, <1>9, <2>1 DEF IrqAt, TimerAt
  <2>2. CASE n = 2
    <3>1. calls' # <<>> /\ calls'[1] = calls[1] /\ At(1)' = At(1)
      BY <1>4, <2>2
    <3>2. QED
      BY <1>3, <3>1 DEF IrqAt, TimerAt
  <2>3. QED
    BY <1>3, <2>1, <2>2
<1>10. TypeOK'
  <2>1. eip' \in Int /\ iflag' \in {0, 1}
    BY <1>3, <1>4 DEF Call
  <2>2. QED
    BY <1>1, <1>2, <1>4, <2>1 DEF TypeOK
<1>11. CallsInv'
  <2>1. Len(calls') <= 2 /\ ~(Len(calls') = 2) /\ BootAt' \in DOMAIN KernInit
    BY <1>2, <1>3, <1>4 DEF CallsInv
  <2>2. iflag' = FlagAt(eip)'
    BY <1>3, <1>4 DEF FlagAt
  <2>3. ASSUME NEW k \in DOMAIN calls'
        PROVE  /\ PlaceOf(calls'[k].vector, At(k)')
               /\ calls'[k].iflag = FlagAt(calls'[k].eip)
               /\ calls'[k].vector \in Irqs => calls'[k].eip = Len(KernInit)
    BY <1>2, <1>6 DEF CallsInv
  <2>4. cpu' = "run" /\ ~nmi_off'
    BY <1>1
  <2>5. QED
    BY <1>7, <2>1, <2>2, <2>3, <2>4 DEF CallsInv, FlagAt, PlaceOf
<1>12. BootInv'
  BY <1>1, <1>4, BootKept DEF IInv
<1>13. ServiceInv'
  <2>1. /\ IrqAt({IRQ_HANDLER, IRQ_MASTER})' <=> IrqAt({IRQ_HANDLER, IRQ_MASTER})
        /\ IrqAt({IRQ_HANDLER})' <=> IrqAt({IRQ_HANDLER})
    BY <1>8, <1>9
  <2>2. IrqAt({IRQ_HANDLER})' => calls'[1] = calls[1]
    <3>1. n = 1 => ~IrqAt({IRQ_HANDLER})'
      BY <1>4 DEF IrqAt
    <3>2. n = 2 => calls'[1] = calls[1]
      BY <1>4
    <3>3. QED
      BY <1>3, <3>1, <3>2
  <2>3. QED
    BY <1>1, <2>1, <2>2 DEF IInv, ServiceInv
<1>14. CountInv'
  <2>1. /\ TimerAt({IRQ_HANDLER, IRQ_MASTER, IRQ_CALL, TIMER_CALLBACK})'
           <=> TimerAt({IRQ_HANDLER, IRQ_MASTER, IRQ_CALL, TIMER_CALLBACK})
    BY <1>8, <1>9
  <2>2. QED
    BY <1>1, <2>1 DEF IInv, CountInv
<1>15. TextInv'
  BY <1>1, <1>2, <1>4, <1>6 DEF TextInv
<1>16. Pending' = Pending /\ NmiFresh = 0 /\ NmiFresh' = 0
  <2>1. TimerAt({PRINT_WRITE})' <=> TimerAt({PRINT_WRITE})
    BY <1>8, <1>9
  <2>2. Pending' = Pending
    BY <1>1, <2>1 DEF Pending
  <2>3. QED
    BY <1>7, <1>8, <2>2 DEF NmiFresh
<1>17. ScreenInv'
  <2>1. tick \in Nat /\ nmis \in Nat /\ tick' = tick /\ nmis' = nmis
    BY <1>1, <1>2 DEF TypeOK
  <2>2. Pending \in {0, 1}
    BY FlagTypes
  <2>3. /\ tick - Pending <= tick' - Pending'
        /\ (tick' - Pending') - (tick - Pending) + NmiFresh' <= NmiFresh + (nmis' - nmis)
    BY <1>16, <2>1, <2>2
  <2>4. QED
    BY <1>1, <1>2, <2>1, <2>3, ScreenKept
<1>18. QED
  BY <1>4, <1>10, <1>11, <1>12, <1>13, <1>14, <1>15, <1>17 DEF IInv

LEMMA StutterIInv ==
  ASSUME IInv, UNCHANGED vars
  PROVE  IInv'
<1>1. UNCHANGED <<bad, raised, nmis, pic, idt, interrupt_handlers, cpu, eip, iflag, stack,
                  nmi_off, tick, textbuf, screen, calls, acks>>
  BY DEF vars, hw, text
<1>2. /\ BootAt' = BootAt /\ NmiOnTop' = NmiOnTop
      /\ \A k : At(k)' = At(k)
      /\ \A places : IrqAt(places)' = IrqAt(places)
      /\ StackInv' /\ CountInv' /\ TextInv' /\ ScreenInv'
  BY <1>1, Quiet DEF text
<1>3. TypeOK'
  BY <1>1 DEF IInv, TypeOK
<1>4. CallsInv'
  BY <1>1, <1>2 DEF IInv, CallsInv, FlagAt, PlaceOf
<1>5. BootInv'
  BY <1>1, <1>2, BootKept DEF IInv
<1>6. ServiceInv'
  BY <1>1, <1>2 DEF IInv, ServiceInv
<1>7. QED
  BY <1>2, <1>3, <1>4, <1>5, <1>6 DEF IInv

-----------------------------------------------------------------------------
(* The invariant holds in every state: whatever devices request, and       *)
(* wherever an NMI or the fault of a bad machine comes.                    *)
THEOREM Safety == Spec => []IInv
<1>1. IInv /\ [Next]_vars => IInv'
  <2> SUFFICES ASSUME IInv, [Next]_vars PROVE IInv'
    OBVIOUS
  <2>1. CASE Accept
    BY <2>1, AcceptIInv
  <2>2. CASE AckMaster
    BY <2>2, AckMasterIInv
  <2>3. CASE AckSlave
    BY <2>3, AckSlaveIInv
  <2>4. CASE Boot
    BY <2>4, BootIInv
  <2>5. CASE Fault
    BY <2>5, FaultIInv
  <2>6. CASE IrqSlave
    BY <2>6, IrqSlaveIInv
  <2>7. CASE IrqMaster
    BY <2>7, IrqMasterIInv
  <2>8. CASE IrqCall
    BY <2>8, IrqCallIInv
  <2>9. CASE IsrHandler
    BY <2>9, IsrHandlerIInv
  <2>10. CASE TimerCallback
    BY <2>10, TimerCallbackIInv
  <2>11. CASE PrintWrite
    BY <2>11, PrintWriteIInv
  <2>12. CASE StubReturn
    BY <2>12, StubReturnIInv
  <2>13. CASE NonMaskable
    BY <2>13, NonMaskableIInv
  <2>14. CASE Idle \/ UNCHANGED vars
    BY <2>14, StutterIInv DEF Idle
  <2>15. CASE \E n \in Lines : Raise(n) \/ Drop(n)
    BY <2>15, DeviceIInv
  <2>16. QED
    BY <2>1, <2>2, <2>3, <2>4, <2>5, <2>6, <2>7, <2>8, <2>9, <2>10, <2>11, <2>12,
       <2>13, <2>14, <2>15 DEF Next, Processor, Handlers
<1>2. QED
  BY InitIInv, <1>1, PTL DEF Spec

(* Every handler finds in pt_regs what was interrupted, and every iret     *)
(* leaves the stack as it was: what the processor and isr.s push for any   *)
(* of the vectors is what pt_regs declares, with and without error code.   *)
THEOREM Frames == Spec => []FrameRight
<1>1. IInv => FrameRight
  <2> SUFFICES ASSUME IInv PROVE FrameRight
    OBVIOUS
  <2>1. TypeOK /\ CallsInv /\ StackInv
    BY DEF IInv
  <2>2. CASE eip \in DOMAIN KernInit
    <3>1. calls = <<>> /\ Len(calls) = 0
      BY <2>1, <2>2, Bottom
    <3>2. ~InHandler
      BY <2>2, Program, Numbers DEF InHandler, HandlerPlaces
    <3>3. stack = <<>>
      <4>1. Len(stack) = 0 /\ stack \in Seq(Words)
        BY <2>1, <3>1 DEF StackInv, FRAME, TypeOK
      <4>2. QED
        BY <4>1, EmptySeq
    <3>4. QED
      BY <3>1, <3>2, <3>3 DEF FrameRight
  <2>3. CASE eip \in Handler
    <3>1. InHandler
      BY <2>3, Numbers DEF InHandler, HandlerPlaces
    <3>2. /\ calls # <<>>
          /\ Field(INT_NO) = Word("int_no", calls[Len(calls)].vector)
          /\ Field(ERR_CODE) = Word("err", calls[Len(calls)].err)
          /\ Field(EIP) = Word("eip", calls[Len(calls)].eip)
          /\ Field(EFLAGS) = Word("eflags", calls[Len(calls)].iflag)
      BY <2>1, <2>3, Top
    <3>3. QED
      BY <3>1, <3>2 DEF FrameRight
  <2>4. QED
    BY <2>1, <2>2, <2>3, Places
<1>2. QED
  BY <1>1, Safety, PTL

(* The two end-of-interrupt commands of irq_handler leave nothing in       *)
(* service, and a spurious interrupt takes nothing out of service that is  *)
(* another's.                                                              *)
THEOREM EndsOfInterrupt == Spec => []ServiceEnds
<1>1. IInv => ServiceEnds
  <2> SUFFICES ASSUME IInv, ~Acknowledged PROVE pic.m.isr = {} /\ pic.s.isr = {}
    BY DEF ServiceEnds
  <2>1. cpu # "inta2" /\ eip \notin {IRQ_HANDLER, IRQ_MASTER}
        /\ \A k \in DOMAIN calls : calls[k].eip \notin {IRQ_HANDLER, IRQ_MASTER}
    BY DEF Acknowledged
  <2>2. ~IrqAt({IRQ_HANDLER, IRQ_MASTER})
    <3> SUFFICES ASSUME IrqAt({IRQ_HANDLER, IRQ_MASTER}) PROVE FALSE
      OBVIOUS
    <3>1. At(1) \in {IRQ_HANDLER, IRQ_MASTER} /\ calls # <<>>
      BY DEF IrqAt
    <3>2. Len(calls) \in 1..2 /\ DOMAIN calls = 1..Len(calls)
      BY <3>1, CallsType DEF IInv, CallsInv
    <3>3. CASE Len(calls) = 1
      BY <2>1, <3>1, <3>3 DEF At
    <3>4. CASE Len(calls) = 2
      BY <2>1, <3>1, <3>2, <3>4 DEF At
    <3>5. QED
      BY <3>2, <3>3, <3>4
  <2>3. ~IrqAt({IRQ_HANDLER})
    BY <2>2 DEF IrqAt
  <2>4. QED
    BY <2>1, <2>2, <2>3 DEF IInv, ServiceInv
<1>2. QED
  BY <1>1, Safety, PTL

(* Every timer interrupt taken is counted once; its tick is on the screen, *)
(* in order, unless an NMI took its text; and no interrupt gets into the   *)
(* handler of another.                                                     *)
THEOREM Ticks == Spec => []TicksRight
<1>1. IInv => NoNesting
  <2> SUFFICES ASSUME IInv PROVE NoNesting
    OBVIOUS
  <2>1. Len(calls) <= 2 /\ (Len(calls) = 2 => calls[2].vector = NMI)
    BY DEF IInv, CallsInv
  <2>2. QED
    BY <2>1 DEF NoNesting
<1>2. ASSUME IInv, ~InHandler
      PROVE  Pending = 0 /\ NmiFresh = 0 /\ (cpu = "run" => tick = acks)
  <2>1. eip \in DOMAIN KernInit
    BY <1>2, Places, Numbers DEF IInv, InHandler, HandlerPlaces
  <2>2. calls = <<>>
    BY <1>2, <2>1, Bottom DEF IInv
  <2>3. QED
    BY <1>2, <2>2 DEF IInv, Pending, NmiFresh, TimerAt, NmiOnTop, CountInv
<1>3. IInv => TicksCounted
  BY <1>2 DEF TicksCounted
<1>4. IInv => TicksShown
  <2> SUFFICES ASSUME IInv, ~InHandler, Len(screen) < Rows
               PROVE  tick - Cardinality(TickLines) \in 0..nmis /\ LinesExact
    BY DEF TicksShown
  <2>1. /\ tick \in Nat /\ nmis \in Nat /\ Cardinality(TickLines) \in Nat
    BY TickLinesFinite DEF IInv, TypeOK
  <2>2. LostTicks >= 0 /\ LostTicks + NmiFresh <= nmis /\ LinesExact
    BY DEF IInv, ScreenInv
  <2>3. LostTicks = tick - Cardinality(TickLines) /\ NmiFresh = 0
    BY <1>2, <2>1 DEF LostTicks
  <2>4. QED
    BY <2>1, <2>2, <2>3
<1>5. IInv => TicksRight
  BY <1>1, <1>3, <1>4 DEF TicksRight
<1>6. QED
  BY <1>5, Safety, PTL
=============================================================================
