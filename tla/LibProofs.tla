------------------------------ MODULE LibProofs ------------------------------
(***************************************************************************)
(* Proofs about the library, for every value of the constants: the digits  *)
(* of put_dec (PutDec), that vsnprintf stays in its buffer (Format), and   *)
(* that every comparison and search of string.c answers what it is for and *)
(* reads nothing it should not (StringSearch).                             *)
(***************************************************************************)
EXTENDS Libs, SequenceTheorems, FiniteSetTheorems, NaturalsInduction,
        WellFoundedInduction, TLAPS

-----------------------------------------------------------------------------
(* put_dec's digits, for every number below 10^8.                          *)
(*                                                                         *)
(* The three products are the tenth, each up to its bound. *)
LEMMA Tenth32Right ==
  ASSUME NEW x \in Nat, x < MAX
  PROVE  Tenth32(x) = x \div 10
<1> DEFINE h == x \div 65536
           l == x % 65536
           p == (l * 19661) \div 32768
           s == h * 39322 + l * 6553 + p
<1>0. h \in Int /\ l \in Int /\ 0 <= l /\ l < 65536 /\ x = 65536 * h + l
  BY SMT
<1>1. 0 <= h /\ h <= 1525
  <2> HIDE DEF h, l
  <2> QED
    BY SMT, <1>0 DEF MAX
<1>2. p \in Int /\ 32768 * p <= l * 19661 /\ l * 19661 < 32768 * p + 32768
  <2> DEFINE y == l * 19661
  <2>1. y \in Int
    BY SMT, <1>0
  <2> HIDE DEF y, l
  <2>2. y \div 32768 \in Int /\ 32768 * (y \div 32768) <= y
        /\ y < 32768 * (y \div 32768) + 32768
    BY SMT, <2>1
  <2> QED
    BY SMT, <2>2 DEF y
<1>3. s \in Int /\ 65536 * (s \div 65536) <= s
      /\ s < 65536 * (s \div 65536) + 65536 /\ s \div 65536 \in Int
  BY SMT, <1>0, <1>1, <1>2
<1>4. Tenth32(x) = h * 6553 + (s \div 65536)
  BY SMT DEF Tenth32
<1> HIDE DEF h, l, p, s
<1>5. Tenth32(x) \in Int /\ 10 * Tenth32(x) <= x /\ x < 10 * Tenth32(x) + 10
  BY SMT, <1>0, <1>1, <1>2, <1>3, <1>4 DEF s
<1> QED
  BY SMT, <1>5

LEMMA Tenth16Right ==
  ASSUME NEW x \in Nat, x < 10000
  PROVE  Tenth16(x) = x \div 10
  BY SMT DEF Tenth16

LEMMA Tenth11Right ==
  ASSUME NEW x \in Nat, x < 1000
  PROVE  Tenth11(x) = x \div 10
  BY SMT DEF Tenth11
-----------------------------------------------------------------------------
LEMMA Powers ==
  /\ Power[1] = 1 /\ Power[2] = 10 /\ Power[3] = 100 /\ Power[4] = 1000
  /\ Power[5] = 10000 /\ Power[6] = 100000 /\ Power[7] = 1000000
  /\ Power[8] = 10000000 /\ Power[9] = 100000000
  BY SMT DEF Power

(* One digit further. *)
LEMMA TenthOfRest ==
  ASSUME NEW m \in Nat, NEW j \in 1..8
  PROVE  (m \div Power[j]) \div 10 = m \div Power[j + 1]
<1>1. CASE j = 1
  BY SMT, <1>1, Powers
<1>2. CASE j = 2
  BY SMT, <1>2, Powers
<1>3. CASE j = 3
  BY SMT, <1>3, Powers
<1>4. CASE j = 4
  BY SMT, <1>4, Powers
<1>5. CASE j = 5
  BY SMT, <1>5, Powers
<1>6. CASE j = 6
  BY SMT, <1>6, Powers
<1>7. CASE j = 7
  BY SMT, <1>7, Powers
<1>8. CASE j = 8
  BY SMT, <1>8, Powers
<1> QED
  BY SMT, <1>1, <1>2, <1>3, <1>4, <1>5, <1>6, <1>7, <1>8

(* A number of which something is left has more digits than are written. *)
LEMMA MoreDigits ==
  ASSUME NEW m \in Nat, m < MAX, NEW j \in 1..9, m \div Power[j] >= 1
  PROVE  j <= 8
<1> SUFFICES ASSUME j = 9 PROVE FALSE
  BY SMT
<1> QED
  BY SMT, Powers DEF MAX

LEMMA Remainder ==
  ASSUME NEW x \in Nat
  PROVE  /\ x \div 10 \in Int /\ x % 10 \in 0..9
         /\ x = 10 * (x \div 10) + (x % 10)
  BY SMT

(* b holds the last digits of m. *)
LastDigits(b, m) == \A j \in 1..Len(b) : b[j] = (m \div Power[j]) % 10

IsRest(x, b, m) == x = m \div Power[Len(b) + 1]
WithLastDigit(b, x) == Append(b, x - 10 * (x \div 10))
Shortened(x, m, j) == x \div 10 = m \div Power[j]

LEMMA AtMostSeven ==
  ASSUME NEW l \in Nat, l <= 7
  PROVE  l + 1 \in 1..8
OBVIOUS

(* What every step does: the last digit of the rest is appended, and its   *)
(* tenth is left.                                                          *)
LEMMA OneDigit ==
  ASSUME NEW m \in Nat, NEW b \in Seq(0..9), Len(b) <= 7,
         NEW x \in Nat, IsRest(x, b, m),
         LastDigits(b, m),
         NEW c, c = WithLastDigit(b, x)
  PROVE  /\ c \in Seq(0..9) /\ Len(c) = Len(b) + 1
         /\ Shortened(x, m, Len(c) + 1)
         /\ LastDigits(c, m)
         /\ c[Len(c)] = x % 10
<1> USE DEF LastDigits, IsRest, WithLastDigit, Shortened
<1> DEFINE d == x - 10 * (x \div 10)
<1>0. Len(b) \in Nat
  BY LenProperties
<1>1. d = x % 10 /\ d \in 0..9
  <2> DEFINE y == x \div 10
  <2>1. y \in Int /\ x % 10 \in 0..9 /\ x = 10 * y + (x % 10)
    BY Remainder
  <2> HIDE DEF y
  <2>2. x - 10 * y = x % 10
    BY SMT, <2>1
  <2> QED
    BY <2>1, <2>2 DEF y
<1> HIDE DEF d
<1>2. c = Append(b, d)
  BY DEF d
<1>3. c \in Seq(0..9) /\ Len(c) = Len(b) + 1
  BY SMT, <1>1, <1>2
<1>4. c[Len(c)] = d /\ \A j \in 1..Len(b) : c[j] = b[j]
  BY SMT, <1>1, <1>2
<1>5. x \div 10 = m \div Power[Len(c) + 1]
  <2>1. Len(b) + 1 \in 1..8
    BY <1>0, AtMostSeven
  <2>2. (m \div Power[Len(b) + 1]) \div 10 = m \div Power[(Len(b) + 1) + 1]
    BY <2>1, TenthOfRest
  <2> QED
    BY <2>2, <1>3
<1>6. ASSUME NEW j \in 1..Len(c) PROVE c[j] = (m \div Power[j]) % 10
  <2>1. CASE j = Len(c)
    BY SMT, <2>1, <1>1, <1>3, <1>4
  <2>2. CASE j # Len(c)
    <3>1. j \in 1..Len(b)
      BY SMT, <2>2, <1>3
    <3> QED
      BY <3>1, <1>4
  <2> QED
    BY <2>1, <2>2
<1> QED
  BY <1>1, <1>3, <1>4, <1>5, <1>6
-----------------------------------------------------------------------------
(* How large what is left may be at each step, which is what the products  *)
(* need, and that it is not 0, which is what counting the digits needs.    *)
Bounds ==
  /\ n \in Nat /\ n < MAX /\ r \in Nat /\ q \in Nat
  /\ buf \in Seq(0..9)
  /\ stage \in {"loop", "third", "second", "first", "done"}
  /\ stage = "loop" => r < MAX /\ (Len(buf) = 0 \/ r >= 1000)
  /\ stage = "third" => 1 <= q /\ q <= 999
  /\ stage = "second" => 1 <= r /\ r <= 99
  /\ stage = "first" => 1 <= q /\ q <= 9
  /\ stage # "loop" => Len(buf) >= 1

DigitsInv == Bounds /\ DigitsSoFar /\ NoLeadingZero

LEMMA DigitsInitInv == PutDecInit => DigitsInv
<1> SUFFICES ASSUME PutDecInit PROVE DigitsInv
  OBVIOUS
<1>1. n \in Nat /\ n < MAX
  <2>1. n \in 0..MAX - 1
    BY NumbersAssumption DEF PutDecInit
  <2>2. MAX \in Nat
    BY SMT DEF MAX
  <2> QED
    BY SMT, <2>1, <2>2
<1>2. Bounds
  BY SMT, <1>1 DEF PutDecInit, Bounds
<1>3. DigitsSoFar
  BY SMT, <1>1, Powers DEF PutDecInit, DigitsSoFar, Rest
<1>4. NoLeadingZero
  BY Zenon DEF PutDecInit, NoLeadingZero
<1> QED
  BY <1>2, <1>3, <1>4 DEF DigitsInv

(* The part every step has in common. *)
LEMMA DigitStep ==
  ASSUME DigitsInv, stage # "done", n' = n, NEW x \in Nat, Rest = x,
         buf' = Append(buf, x - 10 * (x \div 10)), Rest' = x \div 10
  PROVE  /\ DigitsSoFar' /\ buf' \in Seq(0..9) /\ Len(buf') >= 1
         /\ Len(buf') = Len(buf) + 1 /\ buf'[Len(buf')] = x % 10
<1>0. Len(buf) \in Nat
  BY LenProperties DEF DigitsInv, Bounds
<1>1. Len(buf) <= 7
  <2>1. CASE Len(buf) = 0
    BY SMT, <2>1
  <2>2. CASE x >= 1
    <3>1. n \div Power[Len(buf) + 1] >= 1 /\ n \in Nat /\ n < MAX
      BY <2>2 DEF DigitsInv, DigitsSoFar, Bounds
    <3>2. Len(buf) + 1 \in 1..9
      BY SMT, <1>0 DEF DigitsInv, DigitsSoFar
    <3>3. Len(buf) + 1 <= 8
      BY <3>1, <3>2, MoreDigits
    <3> QED
      BY SMT, <1>0, <3>3
  <2>3. Len(buf) = 0 \/ x >= 1
    BY SMT DEF DigitsInv, Bounds, Rest
  <2> QED
    BY <2>1, <2>2, <2>3
<1>2. /\ buf' \in Seq(0..9) /\ Len(buf') = Len(buf) + 1
      /\ Shortened(x, n, Len(buf') + 1) /\ LastDigits(buf', n)
      /\ buf'[Len(buf')] = x % 10
  <2>1. n \in Nat /\ buf \in Seq(0..9) /\ IsRest(x, buf, n)
        /\ LastDigits(buf, n)
    BY DEF DigitsInv, Bounds, DigitsSoFar, LastDigits, IsRest
  <2>2. buf' = WithLastDigit(buf, x)
    BY DEF WithLastDigit
  <2> QED
    BY <1>1, <2>1, <2>2, OneDigit
<1>3. Len(buf') >= 1 /\ Len(buf') <= 8
  BY SMT, <1>0, <1>1, <1>2
<1>4. DigitsSoFar'
  BY <1>2, <1>3 DEF DigitsSoFar, LastDigits, Shortened
<1> QED
  BY <1>2, <1>3, <1>4

LEMMA LoopStep == ASSUME DigitsInv, Loop PROVE DigitsInv'
<1>1. r \in Nat /\ r < MAX /\ r >= 10000 /\ Rest = r
  BY SMT DEF DigitsInv, Bounds, Loop, Large, Rest
<1>2. r' = r \div 10 /\ n' = n /\ stage' = stage /\ q' = q /\ stage = "loop"
      /\ buf' = Append(buf, r - 10 * (r \div 10))
  BY <1>1, Tenth32Right DEF Loop
<1>3. Rest' = r \div 10
  BY <1>2 DEF Rest
<1>4. DigitsSoFar' /\ buf' \in Seq(0..9) /\ Len(buf') >= 1
  BY <1>1, <1>2, <1>3, DigitStep
<1>5. r' \in Nat /\ r' >= 1000 /\ r' < MAX
  BY SMT, <1>1, <1>2 DEF MAX
<1>6. Bounds'
  BY SMT, <1>2, <1>4, <1>5 DEF DigitsInv, Bounds
<1>7. NoLeadingZero'
  BY Zenon, <1>2 DEF NoLeadingZero
<1> QED
  BY <1>4, <1>6, <1>7 DEF DigitsInv

LEMMA FourthStep == ASSUME DigitsInv, Fourth PROVE DigitsInv'
<1>1. r \in Nat /\ r < 10000 /\ Rest = r /\ stage = "loop"
      /\ (Len(buf) = 0 \/ r >= 1000)
  BY SMT DEF DigitsInv, Bounds, Fourth, Large, Rest
<1>2. q' = r \div 10 /\ n' = n /\ r' = r
      /\ buf' = Append(buf, r - 10 * (r \div 10))
      /\ stage' = IF r \div 10 = 0 THEN "done" ELSE "third"
  <2>1. Tenth16(r) = r \div 10
    BY <1>1, Tenth16Right
  <2> QED
    BY SMT, <2>1 DEF Fourth
<1>3. Rest' = r \div 10
  BY <1>2 DEF Rest
<1>4. DigitsSoFar' /\ buf' \in Seq(0..9) /\ Len(buf') >= 1
      /\ Len(buf') = Len(buf) + 1 /\ buf'[Len(buf')] = r % 10
  BY <1>1, <1>2, <1>3, DigitStep
<1>5. q' \in Nat /\ q' <= 999
  BY SMT, <1>1, <1>2
<1>6. Bounds'
  BY SMT, <1>1, <1>2, <1>4, <1>5 DEF DigitsInv, Bounds
<1>7. NoLeadingZero'
  <2>1. CASE Len(buf) = 0
    BY SMT, <2>1, <1>4 DEF NoLeadingZero
  <2>2. CASE r >= 1000
    <3>1. r \div 10 # 0
      BY SMT, <2>2, <1>1
    <3> QED
      BY <3>1, <1>2 DEF NoLeadingZero
  <2> QED
    BY <2>1, <2>2, <1>1
<1> QED
  BY <1>4, <1>6, <1>7 DEF DigitsInv

LEMMA ThirdStep == ASSUME DigitsInv, Third PROVE DigitsInv'
<1>1. q \in Nat /\ 1 <= q /\ q < 1000 /\ Rest = q /\ stage = "third"
  BY SMT DEF DigitsInv, Bounds, Third, Rest
<1>2. r' = q \div 10 /\ n' = n /\ q' = q
      /\ buf' = Append(buf, q - 10 * (q \div 10))
      /\ stage' = IF q \div 10 = 0 THEN "done" ELSE "second"
  BY <1>1, Tenth11Right DEF Third
<1>3. Rest' = q \div 10
  BY <1>2 DEF Rest
<1>4. DigitsSoFar' /\ buf' \in Seq(0..9) /\ Len(buf') >= 1
      /\ buf'[Len(buf')] = q % 10
  BY <1>1, <1>2, <1>3, DigitStep
<1>5. r' \in Nat /\ r' <= 99 /\ (q \div 10 = 0 => q % 10 > 0)
  BY SMT, <1>1, <1>2
<1>6. Bounds'
  BY SMT, <1>1, <1>2, <1>4, <1>5 DEF DigitsInv, Bounds
<1>7. NoLeadingZero'
  BY SMT, <1>2, <1>4, <1>5 DEF NoLeadingZero
<1> QED
  BY <1>4, <1>6, <1>7 DEF DigitsInv

LEMMA SecondStep == ASSUME DigitsInv, Second PROVE DigitsInv'
<1>1. r \in Nat /\ 1 <= r /\ r < 100 /\ Rest = r /\ stage = "second"
  BY SMT DEF DigitsInv, Bounds, Second, Rest
<1>2. q' = r \div 10 /\ n' = n /\ r' = r
      /\ buf' = Append(buf, r - 10 * (r \div 10))
      /\ stage' = IF r \div 10 = 0 THEN "done" ELSE "first"
  <2>1. r < 1000
    BY SMT, <1>1
  <2> QED
    BY <1>1, <2>1, Tenth11Right DEF Second
<1>3. Rest' = r \div 10
  BY <1>2 DEF Rest
<1>4. DigitsSoFar' /\ buf' \in Seq(0..9) /\ Len(buf') >= 1
      /\ buf'[Len(buf')] = r % 10
  BY <1>1, <1>2, <1>3, DigitStep
<1>5. q' \in Nat /\ q' <= 9 /\ (r \div 10 = 0 => r % 10 > 0)
  BY SMT, <1>1, <1>2
<1>6. Bounds'
  BY SMT, <1>1, <1>2, <1>4, <1>5 DEF DigitsInv, Bounds
<1>7. NoLeadingZero'
  BY SMT, <1>2, <1>4, <1>5 DEF NoLeadingZero
<1> QED
  BY <1>4, <1>6, <1>7 DEF DigitsInv

LEMMA FirstStep == ASSUME DigitsInv, First PROVE DigitsInv'
<1>1. q \in Nat /\ 1 <= q /\ q <= 9 /\ Rest = q /\ stage = "first"
  BY SMT DEF DigitsInv, Bounds, First, Rest
<1>2. q \div 10 = 0 /\ q - 10 * (q \div 10) = q /\ q % 10 = q
  BY SMT, <1>1
<1>3. n' = n /\ q' = q /\ r' = r /\ stage' = "done"
      /\ buf' = Append(buf, q - 10 * (q \div 10))
  BY <1>2 DEF First
<1>4. Rest' = q \div 10
  BY <1>2, <1>3 DEF Rest
<1>5. DigitsSoFar' /\ buf' \in Seq(0..9) /\ Len(buf') >= 1
      /\ buf'[Len(buf')] = q % 10
  BY <1>1, <1>3, <1>4, DigitStep
<1>6. Bounds'
  BY SMT, <1>1, <1>3, <1>5 DEF DigitsInv, Bounds
<1>7. NoLeadingZero'
  BY SMT, <1>1, <1>2, <1>5 DEF NoLeadingZero
<1> QED
  BY <1>5, <1>6, <1>7 DEF DigitsInv

-----------------------------------------------------------------------------
(* The inductive invariant, for every number put_dec passes on. *)
THEOREM DigitsSafety == PutDecSpec => []DigitsInv
<1>1. DigitsInv /\ [PutDecNext]_putDecVars => DigitsInv'
  <2> SUFFICES ASSUME DigitsInv, [PutDecNext]_putDecVars PROVE DigitsInv'
    OBVIOUS
  <2>1. CASE Loop
    BY <2>1, LoopStep
  <2>2. CASE Fourth
    BY <2>2, FourthStep
  <2>3. CASE Third
    BY <2>3, ThirdStep
  <2>4. CASE Second
    BY <2>4, SecondStep
  <2>5. CASE First
    BY <2>5, FirstStep
  <2>6. CASE UNCHANGED putDecVars
    BY <2>6 DEF putDecVars, DigitsInv, Bounds, DigitsSoFar, NoLeadingZero, Rest
  <2> QED
    BY <2>1, <2>2, <2>3, <2>4, <2>5, <2>6 DEF PutDecNext
<1> QED
  BY DigitsInitInv, <1>1, PTL DEF PutDecSpec

(* No product is used beyond its bound: at every step the digits written   *)
(* are the last ones of the number, and what is left is the rest of it.    *)
THEOREM DigitsRight == PutDecSpec => []DigitsSoFar
<1>1. DigitsInv => DigitsSoFar
  BY DEF DigitsInv
<1> QED
  BY DigitsSafety, <1>1, PTL

(* The digits have no leading zero. *)
THEOREM DigitsCounted == PutDecSpec => []NoLeadingZero
<1>1. DigitsInv => NoLeadingZero
  BY DEF DigitsInv
<1> QED
  BY DigitsSafety, <1>1, PTL

-----------------------------------------------------------------------------
(* vsnprintf writes into its buffer only: str never lies before it, end    *)
(* not behind it, and a byte is stored at str when that is before end.     *)
(* For str not to go back, every text that is appended must have a length, *)
(* which is what most of the lemmas are about, and so a field width must   *)
(* be a number, whether skip_atoi read it or an argument was taken.        *)
Labels == {"call", "loop", "width", "precision", "qualifier", "conversion",
           "switch", "beyond", "wild", "return", "done"}
IsSpec(s) ==
  /\ s = [type |-> s.type, flags |-> s.flags, base |-> s.base,
          qualifier |-> s.qualifier, field_width |-> s.field_width,
          precision |-> s.precision]
  /\ s.field_width \in Int /\ s.precision \in Int

(* What was decoded so far, and where in the format. *)
DecodeInv ==
  /\ call \in Calls /\ label \in Labels
  /\ fmt \in Nat \ {0} /\ old_fmt \in Nat /\ IsSpec(spec)

(* The addresses, once there are some. *)
AddressInv ==
  /\ label = "call" => mem = <<>> /\ size = call.size
  /\ label \in {"return", "done"} /\ call.size > INT_MAX => mem = <<>>
  /\ label \notin {"call", "return", "done"} => call.size <= INT_MAX
  /\ label # "call" /\ call.size <= INT_MAX =>
       /\ str \in Nat /\ end \in Nat /\ BUF <= str
       /\ BUF <= end /\ end <= BUF + call.size /\ size = end - BUF
       /\ DOMAIN mem \subseteq BUF..end - 1

FormatInv == DecodeInv /\ AddressInv

(* The least member of a set of numbers, which stands for an induction.    *)
LEMMA Least ==
  ASSUME NEW A, A \subseteq Nat, A # {}
  PROVE  \E x \in A : \A y \in A : x <= y
<1>1. PICK x \in A : \A y \in A : <<y, x>> \notin OpToRel(<, Nat)
  BY WFMin, NatLessThanWellFounded, Zenon
<1>2. \A y \in A : ~(y < x)
  BY <1>1, Zenon DEF OpToRel
<1> QED
  BY <1>2

(* Places in the format. *)
LEMMA PastPlace ==
  ASSUME NEW f \in Seq(STRING), NEW p \in 1..Len(f) + 2, NEW A, BEYOND \notin A
  PROVE  /\ Past(f, p, A) \in p..Len(f) + 2
         /\ At(f, Past(f, p, A)) \notin A
         /\ \A j \in p..Past(f, p, A) - 1 : At(f, j) \in A
<1> DEFINE T == {k \in p..Len(f) + 2 : At(f, k) \notin A}
<1>1. Len(f) \in Nat
  BY LenProperties
<1>2. At(f, Len(f) + 2) = BEYOND
  BY <1>1 DEF At
<1>3. Len(f) + 2 \in T /\ T \subseteq Nat
  BY <1>1, <1>2
<1>4. PICK k \in T : \A m \in T : k <= m
  BY <1>3, Least
<1> HIDE DEF T
<1>5. k \in p..Len(f) + 2 /\ At(f, k) \notin A
  BY <1>4 DEF T
<1>6. ASSUME NEW j \in p..k - 1 PROVE At(f, j) \in A
  <2>1. j \in p..Len(f) + 2 /\ j < k /\ j \in Int
    BY <1>1, <1>5
  <2>2. j \notin T
    BY <1>1, <1>4, <1>5, <2>1
  <2> QED
    BY <2>1, <2>2 DEF T
<1> QED
  BY <1>5, <1>6 DEF Past

LEMMA LiteralPlace ==
  ASSUME NEW f \in Seq(STRING), NEW p \in 1..Len(f) + 1
  PROVE  LiteralEnd(f, p) \in p..Len(f) + 1
<1> DEFINE T == {k \in p..Len(f) + 1 : At(f, k) \in {"%", NUL}}
<1>1. Len(f) \in Nat
  BY LenProperties
<1>2. At(f, Len(f) + 1) = NUL
  BY <1>1 DEF At
<1>3. Len(f) + 1 \in T /\ T \subseteq Nat
  BY <1>1, <1>2
<1>4. PICK k \in T : \A m \in T : k <= m
  BY <1>3, Least
<1> HIDE DEF T
<1>5. k \in p..Len(f) + 1 /\ At(f, k) \in {"%", NUL}
  BY <1>4 DEF T
<1>6. ASSUME NEW j \in p..k - 1 PROVE At(f, j) # "%"
  <2>1. j \in p..Len(f) + 1 /\ j < k /\ j \in Int
    BY <1>1, <1>5
  <2>2. j \notin T
    BY <1>1, <1>4, <1>5, <2>1
  <2> QED
    BY <2>1, <2>2 DEF T
<1> QED
  BY <1>5, <1>6 DEF LiteralEnd

LEMMA NoDigits ==
  NUL \notin Digits /\ BEYOND \notin Digits /\ \A c : IsDigit(c) => c # "*"
BY DEF Digits, IsDigit, Digit, NUL, BEYOND

LEMMA ValueOfDigit == \A c \in Digits : Value(c) \in Nat
<1> SUFFICES ASSUME NEW c \in Digits PROVE Value(c) \in Nat
  OBVIOUS
<1>1. PICK k \in 1..10 : Digit[k] = c
  BY DEF Digits
<1>2. k - 1 \in 0..9 /\ Digit[(k - 1) + 1] = c
  BY <1>1
<1>3. Value(c) \in 0..9
  BY <1>2 DEF Value
<1> QED
  BY <1>3

(* skip_atoi returns a number. *)
LEMMA AtoiNat ==
  ASSUME NEW f \in Seq(STRING), NEW p \in 1..Len(f) + 1
  PROVE  SkipAtoi(f, p) \in Nat
<1> DEFINE last == Past(f, p, Digits) - 1
           Turn(v, k) == IF k < p THEN 0 ELSE v[k - 1] * 10 + Value(f[k])
           Upto(z, v) == v = [k \in p - 1..z |-> Turn(v, k)]
<1>1. Len(f) \in Nat /\ p \in Nat
  BY LenProperties
<1>2. /\ Past(f, p, Digits) \in p..Len(f) + 2
      /\ \A j \in p..Past(f, p, Digits) - 1 : At(f, j) \in Digits
  <2>1. p \in 1..Len(f) + 2
    BY <1>1
  <2> QED
    BY <2>1, NoDigits, PastPlace
<1>b. last \in Int /\ last + 1 \in p..Len(f) + 2 /\ \A j \in p..last : At(f, j) \in Digits
  BY <1>1, <1>2
<1> HIDE DEF last
<1>a. last \in Nat /\ last >= p - 1 /\ last <= Len(f) + 1
  BY <1>1, <1>b
<1>3. \A j \in p..last : Value(f[j]) \in Nat
  <2> SUFFICES ASSUME NEW j \in p..last PROVE Value(f[j]) \in Nat
    OBVIOUS
  <2>1. At(f, j) \in Digits
    BY <1>b
  <2>2. At(f, j) = f[j]
    BY <2>1, NoDigits DEF At
  <2> QED
    BY <2>1, <2>2, ValueOfDigit
<1>4. \A d \in Nat : \E v : Upto(p - 1 + d, v)
  <2> DEFINE Bad == {d \in Nat : ~\E v : Upto(p - 1 + d, v)}
  <2>1. SUFFICES ASSUME Bad # {} PROVE FALSE
    OBVIOUS
  <2>2. PICK d \in Bad : \A e \in Bad : d <= e
    BY <2>1, Least
  <2>a. d \in Nat /\ ~\E v : Upto(p - 1 + d, v)
    BY <2>2
  <2>b. \A e \in Nat : e < d => \E v : Upto(p - 1 + e, v)
    <3> SUFFICES ASSUME NEW e \in Nat, e < d, ~\E v : Upto(p - 1 + e, v)
                 PROVE  FALSE
      OBVIOUS
    <3>1. e \in Bad
      OBVIOUS
    <3> HIDE DEF Bad
    <3>2. d <= e
      BY <2>2, <3>1
    <3> QED
      BY <2>a, <3>2
  <2> HIDE DEF Bad
  <2>3. CASE d = 0
    <3> DEFINE v == [k \in p - 1..p - 1 |-> 0]
    <3>1. Upto(p - 1, v)
      BY <1>1
    <3>2. p - 1 + d = p - 1
      BY <1>1, <2>3
    <3> QED
      BY <2>a, <3>1, <3>2
  <2>4. CASE d # 0
    <3>1. d - 1 \in Nat /\ d - 1 < d
      BY <2>4, <2>a
    <3>2. PICK v : Upto(p - 1 + (d - 1), v)
      BY <3>1, <2>b
    <3> DEFINE z == p - 1 + d
               w == [k \in p - 1..z |-> IF k = z THEN Turn(v, z) ELSE v[k]]
    <3>3. z \in Nat /\ z >= p /\ p - 1 + (d - 1) = z - 1
      BY <1>1, <2>4, <2>a
    <3>4. v = [k \in p - 1..z - 1 |-> Turn(v, k)]
      BY <3>2, <3>3
    <3> HIDE DEF z
    <3>5. \A k \in p - 1..z : w[k] = Turn(w, k)
      <4> SUFFICES ASSUME NEW k \in p - 1..z PROVE w[k] = Turn(w, k)
        OBVIOUS
      <4>1. CASE k < p
        <5>1. k # z /\ k \in p - 1..z - 1
          BY <3>3, <4>1, <1>1
        <5> QED
          BY <5>1, <4>1, <3>4
      <4>2. CASE k >= p
        <5>1. k - 1 \in p - 1..z - 1 /\ k - 1 # z /\ ~(k < p)
          BY <1>1, <3>3, <4>2
        <5>2. w[k - 1] = v[k - 1]
          BY <5>1, <1>1, <3>3
        <5>3. CASE k = z
          BY <5>1, <5>2, <5>3
        <5>4. CASE k # z
          <6>1. k \in p - 1..z - 1
            BY <5>4, <1>1, <3>3
          <6> QED
            BY <6>1, <5>1, <5>2, <5>4, <3>4
        <5> QED
          BY <5>3, <5>4
      <4> QED
        BY <4>1, <4>2, <1>1, <3>3
    <3>6. Upto(z, w)
      BY <3>5
    <3>7. Upto(p - 1 + d, w)
      BY <3>6 DEF z
    <3> QED
      BY <2>a, <3>7
  <2> QED
    BY <2>3, <2>4
<1> DEFINE value == CHOOSE v : v = [k \in p - 1..last |-> Turn(v, k)]
<1>5. value = [k \in p - 1..last |-> Turn(value, k)]
  <2>1. last - (p - 1) \in Nat /\ p - 1 + (last - (p - 1)) = last
    BY <1>1, <1>a
  <2>2. \E v : Upto(last, v)
    BY <1>4, <2>1
  <2> QED
    BY <2>2
<1>6. SkipAtoi(f, p) = value[last]
  BY DEF SkipAtoi, last
<1> HIDE DEF value
<1>7. \A k \in p - 1..last : value[k] \in Nat
  <2> DEFINE Bad == {k \in p - 1..last : value[k] \notin Nat}
  <2>1. SUFFICES ASSUME Bad # {} PROVE FALSE
    OBVIOUS
  <2>2. PICK k \in Bad : \A e \in Bad : k <= e
    <3>1. Bad \subseteq Nat
      BY <1>1
    <3> QED
      BY <2>1, <3>1, Least
  <2>3. value[k] = Turn(value, k)
    BY <1>5, <2>2
  <2>4. k >= p
    BY <2>2, <2>3, <1>1
  <2>5. k - 1 \in p - 1..last /\ k - 1 \notin Bad
    BY <2>2, <2>4, <1>1, <1>a
  <2>6. value[k - 1] \in Nat /\ Value(f[k]) \in Nat
    BY <2>2, <2>4, <2>5, <1>3, <1>1, <1>a
  <2> QED
    BY <2>2, <2>3, <2>4, <2>6, <1>1
<1> QED
  BY <1>6, <1>7, <1>1, <1>a
-----------------------------------------------------------------------------
(* What is appended is a sequence, whatever its members are.               *)
IsText(t) == \E A : t \in Seq(A)

LEMMA TextLength == ASSUME NEW t, IsText(t) PROVE Len(t) \in Nat
BY LenProperties DEF IsText

LEMMA ShortTexts ==
  ASSUME NEW c, NEW d PROVE IsText(<<>>) /\ IsText(<<c>>) /\ IsText(<<c, d>>)
<1>1. <<>> \in Seq({c}) /\ <<c>> \in Seq({c}) /\ <<c, d>> \in Seq({c, d})
  OBVIOUS
<1> QED
  BY <1>1 DEF IsText

LEMMA JoinedText ==
  ASSUME NEW s, NEW t, IsText(s), IsText(t) PROVE IsText(s \o t)
<1>1. PICK A : s \in Seq(A)
  BY DEF IsText
<1>2. PICK T : t \in Seq(T)
  BY DEF IsText
<1>3. s \in Seq(A \cup T) /\ t \in Seq(A \cup T)
  <2>1. s \in [1..Len(s) -> A] /\ Len(s) \in Nat
    BY <1>1, LenProperties
  <2>2. t \in [1..Len(t) -> T] /\ Len(t) \in Nat
    BY <1>2, LenProperties
  <2>3. s \in [1..Len(s) -> A \cup T] /\ t \in [1..Len(t) -> A \cup T]
    BY <2>1, <2>2
  <2> QED
    BY <2>1, <2>2, <2>3, SeqDef
<1> QED
  BY <1>3, ConcatProperties DEF IsText

LEMMA FunctionText ==
  ASSUME NEW len \in Nat, NEW f, f = [k \in 1..len |-> f[k]] PROVE IsText(f)
<1>1. f \in [1..len -> {f[k] : k \in 1..len}]
  OBVIOUS
<1> QED
  BY <1>1, SeqDef DEF IsText

LEMMA RepeatedText ==
  ASSUME NEW c, NEW count \in Int PROVE IsText(Repeat(c, count))
<1> DEFINE len == IF count > 0 THEN count ELSE 0
<1>1. len \in Nat
  OBVIOUS
<1>2. Repeat(c, count) = [k \in 1..len |-> c]
  BY DEF Repeat
<1> HIDE DEF len
<1>3. Repeat(c, count) = [k \in 1..len |-> Repeat(c, count)[k]]
  BY <1>2
<1> QED
  BY <1>1, <1>3, FunctionText

LEMMA PartText ==
  ASSUME NEW t, NEW m \in Int, NEW x \in Int PROVE IsText(SubSeq(t, m, x))
<1> DEFINE A == {t[k] : k \in m..x}
<1>1. \A k \in m..x : t[k] \in A
  OBVIOUS
<1> HIDE DEF A
<1>2. SubSeq(t, m, x) \in Seq(A)
  BY <1>1, SubSeqProperties
<1> QED
  BY <1>2 DEF IsText

LEMMA CharTextIsText ==
  ASSUME NEW s, IsSpec(s), NEW c PROVE IsText(CharText(s, c))
<1>1. s.field_width - 1 \in Int
  BY DEF IsSpec
<1>2. IsText(Repeat(" ", s.field_width - 1)) /\ IsText(<<c>>)
  BY <1>1, RepeatedText, ShortTexts
<1> QED
  BY <1>2, JoinedText DEF CharText

LEMMA StringTextIsText ==
  ASSUME NEW s, IsSpec(s), NEW pointer \in 0..Len(Strings)
  PROVE  IsText(StringText(s, pointer))
<1> DEFINE text == IF pointer = 0 THEN NULL_TEXT ELSE Strings[pointer]
           len == IF s.precision >= 0 /\ s.precision < Len(text) THEN s.precision
                  ELSE Len(text)
           pad == Repeat(" ", s.field_width - len)
<1>1. IsText(text)
  <2>1. NULL_TEXT \in Seq({"(", "n", "u", "l", ")"})
    BY DEF NULL_TEXT
  <2>2. pointer # 0 => Strings[pointer] \in Seq(STRING)
    BY CallsAssumption, ElementOfSeq
  <2> QED
    BY <2>1, <2>2 DEF IsText
<1>2. s.field_width \in Int /\ s.precision \in Int
  BY DEF IsSpec
<1> HIDE DEF text
<1>3. Len(text) \in Nat
  BY <1>1, TextLength
<1>4. len \in 0..Len(text)
  BY <1>2, <1>3
<1>5. StringText(s, pointer) = IF "LEFT" \in s.flags THEN SubSeq(text, 1, len) \o pad
                               ELSE pad \o SubSeq(text, 1, len)
  BY DEF StringText, text
<1> HIDE DEF len
<1>6. IsText(SubSeq(text, 1, len))
  <2>1. 1 \in Int /\ len \in Int
    BY <1>4, <1>3
  <2> HIDE DEF len
  <2> QED
    BY <2>1, PartText, Zenon
<1>7. IsText(pad)
  <2>1. s.field_width - len \in Int
    BY <1>2, <1>3, <1>4
  <2> QED
    BY <2>1, RepeatedText
<1> QED
  BY <1>5, <1>6, <1>7, JoinedText

(* The counts number() shows digits by. *)
LEMMA LeastOf == ASSUME NEW A, A \subseteq Nat, A # {} PROVE Min(A) \in A
<1>1. \E x \in A : \A m \in A : x <= m
  BY Least
<1> QED
  BY <1>1 DEF Min

LEMMA GreatestOf ==
  ASSUME NEW b \in Nat, NEW A, A \subseteq 0..b, A # {} PROVE Max(A) \in A
<1> DEFINE T == {b - x : x \in A}
<1>1. T \subseteq Nat /\ T # {}
  <2>1. \A x \in A : b - x \in Nat
    OBVIOUS
  <2> QED
    BY <2>1
<1>2. PICK t \in T : \A m \in T : t <= m
  BY <1>1, Least
<1>3. PICK x \in A : t = b - x
  BY <1>2
<1>4. ASSUME NEW y \in A PROVE x >= y
  <2>1. b - y \in T
    OBVIOUS
  <2>2. t <= b - y
    BY <1>2, <2>1
  <2> QED
    BY <1>3, <2>2
<1> QED
  BY <1>4 DEF Max

LEMMA DigitsAreText ==
  ASSUME NEW v, NEW s PROVE IsText(NumberDigits(v, s))
<1>1. CASE Below(v, s.base)
  BY <1>1, ShortTexts DEF NumberDigits
<1>2. CASE ~Below(v, s.base) /\ s.base = 10
  <2> DEFINE len == Min({8} \cup {k \in 1..7 : v[2] < 10^k})
             f == [k \in 1..len |-> Digit[1 + ((v[2] \div 10^(len - k)) % 10)]]
  <2>1. len \in Nat
    <3> DEFINE A == {8} \cup {k \in 1..7 : v[2] < 10^k}
    <3>1. A \subseteq Nat /\ A # {}
      OBVIOUS
    <3> HIDE DEF A
    <3>2. Min(A) \in Nat
      BY <3>1, LeastOf
    <3> QED
      BY <3>2 DEF A
  <2>2. NumberDigits(v, s) = f
    BY <1>2 DEF NumberDigits
  <2> HIDE DEF len
  <2>3. f = [k \in 1..len |-> f[k]]
    OBVIOUS
  <2> HIDE DEF f
  <2> QED
    BY <2>1, <2>2, <2>3, FunctionText
<1>3. CASE ~Below(v, s.base) /\ s.base # 10
  <2> DEFINE width == IF s.base = 16 THEN 4 ELSE 3
             len == 1 + Max({0} \cup {k \in 1..21 : BitsAt(v, k, width) # 0})
             f == [k \in 1..len |-> Symbol(BitsAt(v, len - k, width), s)]
  <2>1. len \in Nat
    <3> DEFINE A == {0} \cup {k \in 1..21 : BitsAt(v, k, width) # 0}
    <3>1. A \subseteq 0..21 /\ A # {}
      OBVIOUS
    <3> HIDE DEF A
    <3>2. Max(A) \in 0..21
      BY <3>1, GreatestOf
    <3> HIDE DEF width
    <3> QED
      BY <3>2 DEF A
  <2>2. NumberDigits(v, s) = f
    BY <1>3 DEF NumberDigits
  <2> HIDE DEF len
  <2>3. f = [k \in 1..len |-> f[k]]
    OBVIOUS
  <2> HIDE DEF f
  <2> QED
    BY <2>1, <2>2, <2>3, FunctionText
<1> QED
  BY <1>1, <1>2, <1>3

LEMMA NumberTextIsText ==
  ASSUME NEW s0, IsSpec(s0), NEW v PROVE IsText(NumberText(v, s0))
<1> DEFINE s == IF "LEFT" \in s0.flags THEN [s0 EXCEPT !.flags = @ \ {"ZEROPAD"}]
                ELSE s0
           tmp == NumberDigits(Magnitude(v, s), s)
           sign == Sign(v, s)
           prefix == Prefix(v, s)
           shown == IF Len(tmp) > s.precision THEN Len(tmp) ELSE s.precision
           blank == FieldLeft(s, sign, prefix, shown)
           Spaces(when) == Repeat(" ", IF when THEN blank ELSE 0)
           zeros == IF "ZEROPAD" \in s.flags THEN blank ELSE 0
<1>1. s.field_width \in Int /\ s.precision \in Int
  BY DEF IsSpec
<1>2. NumberText(v, s0) =
        Spaces(s.flags \cap {"ZEROPAD", "LEFT"} = {}) \o sign \o prefix
          \o Repeat("0", zeros) \o Repeat("0", shown - Len(tmp)) \o tmp
          \o Spaces("LEFT" \in s.flags)
  BY DEF NumberText
<1>3. IsText(tmp) /\ IsText(sign) /\ IsText(prefix)
  <2> HIDE DEF s
  <2>1. IsText(tmp)
    BY DigitsAreText
  <2>2. IsText(sign)
    BY ShortTexts DEF Sign
  <2>3. IsText(prefix)
    BY ShortTexts DEF Prefix
  <2> QED
    BY <2>1, <2>2, <2>3
<1> HIDE DEF s, tmp, sign, prefix
<1>4. Len(tmp) \in Nat /\ Len(sign) \in Nat /\ Len(prefix) \in Nat
  BY <1>3, TextLength
<1>5. shown \in Int /\ shown - Len(tmp) \in Int
  BY <1>1, <1>4
<1> HIDE DEF shown
<1>6. blank \in Int
  BY <1>1, <1>4, <1>5 DEF FieldLeft
<1> HIDE DEF blank
<1>7. zeros \in Int
  BY <1>6
<1>8. \A when : IsText(Spaces(when))
  <2> SUFFICES ASSUME NEW when PROVE IsText(Spaces(when))
    OBVIOUS
  <2>1. (IF when THEN blank ELSE 0) \in Int
    BY <1>6
  <2> QED
    BY <2>1, RepeatedText
<1>9. IsText(Repeat("0", zeros)) /\ IsText(Repeat("0", shown - Len(tmp)))
  BY <1>5, <1>7, RepeatedText
<1> HIDE DEF Spaces, zeros
<1> DEFINE t1 == Spaces(s.flags \cap {"ZEROPAD", "LEFT"} = {}) \o sign
           t2 == t1 \o prefix
           t3 == t2 \o Repeat("0", zeros)
           t4 == t3 \o Repeat("0", shown - Len(tmp))
           t5 == t4 \o tmp
           t6 == t5 \o Spaces("LEFT" \in s.flags)
<1>10. IsText(t1)
  BY <1>3, <1>8, JoinedText
<1>11. IsText(t2)
  BY <1>3, <1>10, JoinedText
<1>12. IsText(t3)
  BY <1>9, <1>11, JoinedText
<1>13. IsText(t4)
  BY <1>9, <1>12, JoinedText
<1>14. IsText(t5)
  BY <1>3, <1>13, JoinedText
<1>15. IsText(t6)
  BY <1>8, <1>14, JoinedText
<1> QED
  BY <1>2, <1>15

-----------------------------------------------------------------------------
(* Appending to the buffer stays in it. *)
LEMMA EmitBounds ==
  ASSUME NEW text, IsText(text), Emit(text), str \in Nat, end \in Nat, BUF <= str,
         BUF \in Nat, DOMAIN mem \subseteq BUF..end - 1
  PROVE  str' \in Nat /\ BUF <= str' /\ DOMAIN mem' \subseteq BUF..end - 1
<1>1. Len(text) \in Nat
  BY TextLength
<1> DEFINE P == {b \in str..str + Len(text) - 1 : Fits(b)}
<1>2. mem' = [a \in P \cup DOMAIN mem |-> IF a \in P THEN text[a - str + 1] ELSE mem[a]] /\ str' = str + Len(text)
  BY DEF Emit
<1>3. DOMAIN mem' = P \cup DOMAIN mem
  BY <1>2
<1>4. P \subseteq BUF..end - 1
  BY <1>1 DEF Fits
<1> QED
  BY <1>1, <1>2, <1>3, <1>4

(* What format_decode does to a spec leaves a spec. *)
LEMMA SpecEdits ==
  ASSUME NEW s, IsSpec(s)
  PROVE  /\ \A v : /\ IsSpec([s EXCEPT !.type = v]) /\ IsSpec([s EXCEPT !.flags = v])
                   /\ IsSpec([s EXCEPT !.base = v])
                   /\ IsSpec([s EXCEPT !.qualifier = v])
         /\ \A w \in Int : /\ IsSpec([s EXCEPT !.field_width = w])
                           /\ IsSpec([s EXCEPT !.precision = w])
BY DEF IsSpec

LEMMA SpecPairs ==
  ASSUME NEW s, IsSpec(s), NEW type, NEW w \in Int, NEW flags
  PROVE  /\ IsSpec([s EXCEPT !.type = type, !.field_width = w, !.flags = flags])
         /\ IsSpec([s EXCEPT !.type = type, !.precision = w])
         /\ IsSpec([s EXCEPT !.precision = w, !.type = type])
<1> DEFINE s1 == [s EXCEPT !.type = type]
           s2 == [s1 EXCEPT !.field_width = w]
           s3 == [s EXCEPT !.precision = w]
<1>1. IsSpec(s1) /\ IsSpec(s3)
  BY SpecEdits
<1>2. /\ [s EXCEPT !.type = type, !.field_width = w, !.flags = flags]
           = [s2 EXCEPT !.flags = flags]
      /\ [s EXCEPT !.type = type, !.precision = w] = [s1 EXCEPT !.precision = w]
      /\ [s EXCEPT !.precision = w, !.type = type] = [s3 EXCEPT !.type = type]
  BY Zenon
<1> HIDE DEF s1, s3
<1>3. IsSpec(s2) /\ IsSpec([s1 EXCEPT !.precision = w])
      /\ IsSpec([s3 EXCEPT !.type = type])
  BY <1>1, SpecEdits
<1> HIDE DEF s2
<1>4. IsSpec([s2 EXCEPT !.flags = flags])
  BY <1>3, SpecEdits
<1> QED
  BY <1>2, <1>3, <1>4

LEMMA ConvertSpec == ASSUME NEW s, IsSpec(s), NEW c PROVE IsSpec(Convert(s, c))
<1>1. ASSUME NEW base, NEW fl PROVE IsSpec(Integer(s, base, fl))
  <2> DEFINE all == s.flags \cup fl
             type == NumberType(s.qualifier, all)
  <2>1. Integer(s, base, fl) = [s EXCEPT !.base = base, !.flags = all, !.type = type]
    BY DEF Integer
  <2> HIDE DEF all, type
  <2> QED
    BY <2>1 DEF IsSpec
<1>2. \A t : IsSpec([s EXCEPT !.type = t])
  BY SpecEdits
<1> QED
  BY <1>1, <1>2 DEF Convert

LEMMA InitFormatInv == Init => FormatInv
<1> SUFFICES ASSUME NEW c \in Calls, Begin(c) PROVE FormatInv
  BY DEF Init
<1>1. IsSpec(NoSpec)
  BY DEF NoSpec, IsSpec
<1> QED
  BY <1>1 DEF Begin, FormatInv, DecodeInv, AddressInv, Labels

LEMMA EnterStep == ASSUME FormatInv, Enter PROVE FormatInv'
<1>1. call.size \in Nat /\ call.fmt \in Seq(STRING)
  BY CallsAssumption DEF FormatInv, DecodeInv
<1>2. mem = <<>> /\ size = call.size /\ UNCHANGED <<call, fmt, old_fmt, spec, mem>>
  BY DEF FormatInv, AddressInv, Enter
<1>3. DecodeInv'
  BY <1>2 DEF Enter, FormatInv, DecodeInv, Labels
<1>4. DOMAIN mem = {}
  BY <1>2
<1>5. CASE size > INT_MAX
  BY <1>2, <1>3, <1>5, <1>1, AddressAssumption DEF Enter, FormatInv, AddressInv
<1>6. CASE ~(size > INT_MAX)
  BY <1>1, <1>2, <1>3, <1>4, <1>6, AddressAssumption
    DEF Enter, FormatInv, AddressInv, EndOf
<1> QED
  BY <1>5, <1>6

(* What format_decode leaves alone. *)
LEMMA DecodingStep ==
  ASSUME FormatInv, Decoding, label \notin {"call", "return", "done"},
         label' \in Labels \ {"call", "return", "done"},
         fmt' \in Nat \ {0}, old_fmt' \in Nat, IsSpec(spec')
  PROVE  FormatInv'
BY DEF Decoding, FormatInv, DecodeInv, AddressInv, InBounds

LEMMA DecodeStep == ASSUME FormatInv, Decode PROVE FormatInv'
<1>1. call \in Calls /\ call.fmt \in Seq(STRING) /\ Len(call.fmt) \in Nat
      /\ fmt \in Nat \ {0} /\ old_fmt \in Nat /\ IsSpec(spec)
  BY CallsAssumption, LenProperties DEF FormatInv, DecodeInv
<1>2. label = "loop" /\ old_fmt' = fmt /\ Decoding /\ Here # NUL
  BY DEF Decode
<1>3. SUFFICES /\ label' \in Labels \ {"call", "return", "done"}
               /\ fmt' \in Nat \ {0} /\ IsSpec(spec')
  BY <1>1, <1>2, DecodingStep
<1>4. CASE Here = BEYOND
  BY <1>1, <1>4 DEF Decode, Labels
<1>5. CASE Here # BEYOND /\ spec.type = "WIDTH"
  <2>1. label' = "precision" /\ spec' = WidthArgument(spec) /\ fmt' = fmt
    BY <1>5 DEF Decode
  <2>2. IsSpec(WidthArgument(spec))
    <3>1. -spec.field_width \in Int
      BY <1>1 DEF IsSpec
    <3> QED
      BY <1>1, <3>1, SpecPairs, SpecEdits DEF WidthArgument
  <2> QED
    BY <1>1, <2>1, <2>2 DEF Labels
<1>6. CASE Here # BEYOND /\ spec.type = "PRECISION"
  <2>1. /\ label' = "qualifier" /\ fmt' = fmt
        /\ spec' = [spec EXCEPT !.type = "NONE", !.precision = IF @ < 0 THEN 0 ELSE @]
    BY <1>6 DEF Decode
  <2>2. IsSpec(spec')
    <3>1. (IF spec.precision < 0 THEN 0 ELSE spec.precision) \in Int
      BY <1>1 DEF IsSpec
    <3>2. spec' = [spec EXCEPT !.type = "NONE",
                    !.precision = IF spec.precision < 0 THEN 0 ELSE spec.precision]
      BY <1>1, <2>1 DEF IsSpec
    <3> QED
      BY <1>1, <3>1, <3>2, SpecPairs
  <2> QED
    BY <1>1, <2>1, <2>2 DEF Labels
<1>7. CASE Here # BEYOND /\ spec.type \notin {"WIDTH", "PRECISION"}
  <2>1. fmt \in 1..Len(call.fmt)
    BY <1>1, <1>2, <1>7 DEF Here, At
  <2>2. CASE Here # "%"
    <3>1. /\ label' = "switch" /\ fmt' = LiteralEnd(call.fmt, fmt)
          /\ spec' = [spec EXCEPT !.type = "NONE"]
      BY <1>7, <2>2 DEF Decode
    <3>2. fmt' \in fmt..Len(call.fmt) + 1
      BY <1>1, <2>1, <3>1, LiteralPlace
    <3>3. IsSpec(spec')
      BY <1>1, <3>1 DEF IsSpec
    <3> QED
      BY <1>1, <3>1, <3>2, <3>3 DEF Labels
  <2>3. CASE Here = "%"
    <3> DEFINE flags == {FlagOf(call.fmt[k]) : k \in fmt + 1..fmt' - 1}
    <3>1. /\ label' = "width" /\ fmt' = Past(call.fmt, fmt + 1, FlagChars)
          /\ spec' = [spec EXCEPT !.type = "NONE", !.field_width = -1,
                                  !.flags = flags]
      BY <1>7, <2>3 DEF Decode
    <3>2. NUL \notin FlagChars /\ BEYOND \notin FlagChars
      BY DEF NUL, BEYOND, FlagChars
    <3>3. /\ fmt' \in fmt + 1..Len(call.fmt) + 2
          /\ \A j \in fmt + 1..fmt' - 1 : At(call.fmt, j) \in FlagChars
      <4>1. fmt + 1 \in 1..Len(call.fmt) + 2
        BY <1>1, <2>1
      <4> QED
        BY <1>1, <3>1, <3>2, <4>1, PastPlace
    <3> HIDE DEF flags
    <3>4. -1 \in Int
      OBVIOUS
    <3>5. IsSpec(spec')
      BY <1>1, <3>1, <3>4, SpecPairs, Zenon
    <3> QED
      BY <1>1, <3>1, <3>3, <3>5 DEF Labels
  <2> QED
    BY <2>2, <2>3
<1> QED
  BY <1>4, <1>5, <1>6, <1>7

LEMMA WidthStep == ASSUME FormatInv, DecodeWidth PROVE FormatInv'
<1>1. call \in Calls /\ call.fmt \in Seq(STRING) /\ Len(call.fmt) \in Nat
      /\ fmt \in Nat \ {0} /\ old_fmt \in Nat /\ IsSpec(spec)
  BY CallsAssumption, LenProperties DEF FormatInv, DecodeInv
<1>2. label = "width" /\ old_fmt' = old_fmt /\ Decoding
  BY DEF DecodeWidth
<1>3. SUFFICES /\ label' \in Labels \ {"call", "return", "done"}
               /\ fmt' \in Nat \ {0} /\ IsSpec(spec')
  BY <1>1, <1>2, DecodingStep
<1>4. CASE IsDigit(Here)
  <2>1. /\ label' = "precision" /\ fmt' = Past(call.fmt, fmt, Digits)
        /\ spec' = [spec EXCEPT !.field_width = SkipAtoi(call.fmt, fmt)]
    BY <1>4, NoDigits DEF DecodeWidth
  <2>2. fmt \in 1..Len(call.fmt)
    <3>1. Here \in Digits
      BY <1>4 DEF IsDigit, Digits
    <3> QED
      BY <1>1, <3>1, NoDigits DEF Here, At
  <2>3. fmt' \in fmt..Len(call.fmt) + 2 /\ SkipAtoi(call.fmt, fmt) \in Nat
    <3>1. fmt \in 1..Len(call.fmt) + 2 /\ fmt \in 1..Len(call.fmt) + 1
      BY <1>1, <2>2
    <3> QED
      BY <1>1, <2>1, <3>1, NoDigits, PastPlace, AtoiNat
  <2>4. IsSpec(spec')
    BY <1>1, <2>1, <2>3 DEF IsSpec
  <2> QED
    BY <1>1, <2>1, <2>3, <2>4 DEF Labels
<1>5. CASE ~IsDigit(Here) /\ Here = "*"
  <2>1. label' = "switch" /\ fmt' = fmt + 1 /\ spec' = [spec EXCEPT !.type = "WIDTH"]
    BY <1>5 DEF DecodeWidth
  <2>2. IsSpec(spec')
    BY <1>1, <2>1 DEF IsSpec
  <2> QED
    BY <1>1, <2>1, <2>2 DEF Labels
<1>6. CASE ~IsDigit(Here) /\ Here # "*"
  BY <1>1, <1>6 DEF DecodeWidth, Labels
<1> QED
  BY <1>4, <1>5, <1>6

LEMMA PrecisionStep == ASSUME FormatInv, DecodePrecision PROVE FormatInv'
<1>1. call \in Calls /\ call.fmt \in Seq(STRING) /\ Len(call.fmt) \in Nat
      /\ fmt \in Nat \ {0} /\ old_fmt \in Nat /\ IsSpec(spec)
  BY CallsAssumption, LenProperties DEF FormatInv, DecodeInv
<1>2. label = "precision" /\ old_fmt' = old_fmt /\ Decoding
  BY DEF DecodePrecision
<1>3. SUFFICES /\ label' \in Labels \ {"call", "return", "done"}
               /\ fmt' \in Nat \ {0} /\ IsSpec(spec')
  BY <1>1, <1>2, DecodingStep
<1>4. \A value \in Int : \A type :
        IsSpec([spec EXCEPT !.precision = value, !.type = type])
  BY <1>1, SpecPairs
<1>5. CASE Here = "." /\ IsDigit(Ahead)
  <2>1. /\ label' = "qualifier" /\ fmt' = Past(call.fmt, fmt + 1, Digits)
        /\ spec' = [spec EXCEPT !.precision = SkipAtoi(call.fmt, fmt + 1),
                                !.type = "NONE"]
    BY <1>5, NoDigits DEF DecodePrecision
  <2>2. fmt + 1 \in 1..Len(call.fmt)
    <3>1. Ahead \in Digits
      BY <1>5 DEF IsDigit, Digits
    <3> QED
      BY <1>1, <3>1, NoDigits DEF Ahead, At
  <2>3. fmt' \in fmt + 1..Len(call.fmt) + 2 /\ SkipAtoi(call.fmt, fmt + 1) \in Nat
    <3>1. fmt + 1 \in 1..Len(call.fmt) + 2 /\ fmt + 1 \in 1..Len(call.fmt) + 1
      BY <1>1, <2>2
    <3> QED
      BY <1>1, <2>1, <3>1, NoDigits, PastPlace, AtoiNat
  <2>4. SkipAtoi(call.fmt, fmt + 1) \in Int
    BY <2>3
  <2>5. IsSpec(spec')
    BY <1>4, <2>1, <2>4, Zenon
  <2> QED
    BY <1>1, <2>1, <2>3, <2>5 DEF Labels
<1>6. CASE ~(Here = "." /\ IsDigit(Ahead))
  <2>1. /\ label' \in {"qualifier", "switch"}
        /\ fmt' \in {fmt, fmt + 1, fmt + 2}
        /\ \E type \in {"NONE", "PRECISION"} :
             spec' = [spec EXCEPT !.precision = -1, !.type = type]
    BY <1>6 DEF DecodePrecision
  <2>2. -1 \in Int
    OBVIOUS
  <2>3. IsSpec(spec')
    BY <1>4, <2>1, <2>2, Zenon
  <2> QED
    BY <1>1, <2>1, <2>3 DEF Labels
<1> QED
  BY <1>5, <1>6

LEMMA QualifierStep == ASSUME FormatInv, DecodeQualifier PROVE FormatInv'
<1>1. call \in Calls /\ call.fmt \in Seq(STRING)
      /\ fmt \in Nat \ {0} /\ old_fmt \in Nat /\ IsSpec(spec)
  BY CallsAssumption DEF FormatInv, DecodeInv
<1>2. /\ label = "qualifier" /\ label' = "conversion" /\ old_fmt' = old_fmt
      /\ Decoding
  BY DEF DecodeQualifier
<1>4. /\ fmt' \in {fmt, fmt + 1, fmt + 2}
      /\ \E v : spec' = [spec EXCEPT !.qualifier = v]
  BY DEF DecodeQualifier
<1>5. IsSpec(spec')
  BY <1>1, <1>4 DEF IsSpec
<1> QED
  BY <1>1, <1>2, <1>4, <1>5, DecodingStep DEF Labels

LEMMA ConversionStep == ASSUME FormatInv, DecodeConversion PROVE FormatInv'
<1>1. fmt \in Nat \ {0} /\ old_fmt \in Nat /\ IsSpec(spec)
  BY DEF FormatInv, DecodeInv
<1>2. /\ label = "conversion" /\ label' = "switch" /\ old_fmt' = old_fmt /\ Decoding
      /\ spec' = Convert([spec EXCEPT !.base = 10], Here)
      /\ fmt' \in {fmt, fmt + 1}
  BY DEF DecodeConversion
<1>3. IsSpec([spec EXCEPT !.base = 10])
  BY <1>1 DEF IsSpec
<1>4. IsSpec(spec')
  BY <1>2, <1>3, ConvertSpec
<1> QED
  BY <1>1, <1>2, <1>4, DecodingStep DEF Labels

(* The cases of vsnprintf's switch either append a text or leave the       *)
(* buffer alone.                                                           *)
LEMMA SwitchStep ==
  ASSUME FormatInv, label = "switch", UNCHANGED Others,
         label' \in {"loop", "wild"}, IsSpec(spec'),
         NEW text, IsText(text), Emit(text) \/ UNCHANGED <<str, mem>>
  PROVE  FormatInv'
<1>1. call' = call /\ fmt' = fmt /\ old_fmt' = old_fmt /\ end' = end /\ size' = size
  BY DEF Others
<1>2. DecodeInv'
  BY <1>1 DEF FormatInv, DecodeInv, Labels
<1>3. /\ call.size <= INT_MAX /\ str \in Nat /\ end \in Nat /\ BUF <= str
      /\ BUF <= end /\ end <= BUF + call.size /\ size = end - BUF
      /\ DOMAIN mem \subseteq BUF..end - 1
  BY DEF FormatInv, AddressInv
<1>4. str' \in Nat /\ BUF <= str' /\ DOMAIN mem' \subseteq BUF..end - 1
  <2>1. CASE Emit(text)
    BY <1>3, <2>1, EmitBounds, AddressAssumption
  <2>2. CASE UNCHANGED <<str, mem>>
    BY <1>3, <2>2
  <2> QED
    BY <2>1, <2>2
<1> QED
  BY <1>1, <1>2, <1>3, <1>4 DEF FormatInv, AddressInv

LEMMA FinishStep == ASSUME FormatInv, Finish PROVE FormatInv'
<1>1. /\ label = "loop" /\ label' = "return"
      /\ UNCHANGED <<call, fmt, old_fmt, spec, str, end, size>>
      /\ mem' = IF size = 0 THEN mem 
                ELSE [a \in {Terminator} \cup DOMAIN mem |->
                        IF a = Terminator THEN NUL ELSE mem[a]]
  BY DEF Finish
<1>2. /\ call.size <= INT_MAX /\ str \in Nat /\ end \in Nat /\ BUF <= str
      /\ BUF <= end /\ end <= BUF + call.size /\ size = end - BUF
      /\ DOMAIN mem \subseteq BUF..end - 1
  BY <1>1 DEF FormatInv, AddressInv
<1>3. DecodeInv'
  BY <1>1 DEF FormatInv, DecodeInv, Labels
<1>4. DOMAIN mem' \subseteq BUF..end - 1
  <2>1. CASE size = 0
    BY <1>1, <1>2, <2>1
  <2>2. CASE size # 0
    <3>1. Terminator \in BUF..end - 1
      BY <1>2, <2>2, AddressAssumption DEF Terminator
    <3>2. DOMAIN mem' = {Terminator} \cup DOMAIN mem
      BY <1>1, <2>2
    <3> QED
      BY <1>2, <3>1, <3>2
  <2> QED
    BY <2>1, <2>2
<1>5. call.size \in Nat
  BY CallsAssumption DEF FormatInv, DecodeInv
<1> QED
  BY <1>1, <1>2, <1>3, <1>4, <1>5, AddressAssumption DEF FormatInv, AddressInv

LEMMA ReturnStep == ASSUME FormatInv, Return PROVE FormatInv'
BY DEF FormatInv, DecodeInv, AddressInv, Labels, Return

LEMMA FormatKeeps ==
  ASSUME FormatInv, ArgumentsFit, [Next]_vars PROVE FormatInv'
<1>1. fmt \in Nat \ {0} /\ old_fmt \in Nat /\ IsSpec(spec)
  BY DEF FormatInv, DecodeInv
<1>2. CASE Enter
  BY <1>2, EnterStep
<1>3. CASE Decode
  BY <1>3, DecodeStep
<1>4. CASE DecodeWidth
  BY <1>4, WidthStep
<1>5. CASE DecodePrecision
  BY <1>5, PrecisionStep
<1>6. CASE DecodeQualifier
  BY <1>6, QualifierStep
<1>7. CASE DecodeConversion
  BY <1>7, ConversionStep
<1>8. CASE Copy
  <2>1. IsText(SubSeq(call.fmt, old_fmt, fmt - 1))
    <3>1. fmt - 1 \in Int /\ old_fmt \in Int
      BY <1>1
    <3> QED
      BY <3>1, PartText
  <2>2. spec' = spec
    BY <1>8 DEF Copy
  <2> QED
    BY <1>1, <1>8, <2>1, <2>2, SwitchStep DEF Copy, Case
<1>9. CASE Width
  <2>1. NextArg \in Int /\ spec' = [spec EXCEPT !.field_width = NextArg]
    BY <1>9 DEF Width, Case, ArgumentsFit
  <2>2. IsSpec(spec')
    BY <1>1, <2>1 DEF IsSpec
  <2> QED
    BY <1>9, <2>2, ShortTexts, SwitchStep DEF Width, Case
<1>10. CASE Precision
  <2>1. NextArg \in Int /\ spec' = [spec EXCEPT !.precision = NextArg]
    BY <1>10 DEF Precision, Case, ArgumentsFit
  <2>2. IsSpec(spec')
    BY <1>1, <2>1 DEF IsSpec
  <2> QED
    BY <1>10, <2>2, ShortTexts, SwitchStep DEF Precision, Case
<1>11. CASE Char
  <2>1. IsText(CharText(spec, NextArg)) /\ spec' = spec
    BY <1>1, <1>11, CharTextIsText DEF Char
  <2> QED
    BY <1>1, <1>11, <2>1, SwitchStep DEF Char, Case
<1>12. CASE Str
  <2>1. NextArg \in 0..Len(Strings) /\ spec' = spec
    BY <1>12 DEF Str, Case, ArgumentsFit
  <2>2. IsText(StringText(spec, NextArg))
    BY <1>1, <2>1, StringTextIsText
  <2> QED
    BY <1>1, <1>12, <2>1, <2>2, SwitchStep DEF Str, Case
<1>13. CASE Ptr
  BY <1>1, <1>13, ShortTexts, SwitchStep DEF Ptr, Case
<1>14. CASE Percent
  BY <1>1, <1>14, ShortTexts, SwitchStep DEF Percent, Case
<1>15. CASE NrChars
  BY <1>1, <1>15, ShortTexts, SwitchStep DEF NrChars, Case
<1>16. CASE Number
  <2>1. PICK v \in NumbersOf(spec.type) :
          IF Unprintable(Magnitude(v, spec), spec)
          THEN label' = "wild" /\ UNCHANGED <<str, mem>>
          ELSE label' = "loop" /\ Emit(NumberText(v, spec))
    BY <1>16 DEF Number
  <2>2. IsText(NumberText(v, spec))
    BY <1>1, NumberTextIsText
  <2>3. label = "switch" /\ spec' = spec /\ UNCHANGED Others
    BY <1>16 DEF Number
  <2> QED
    BY <1>1, <2>1, <2>2, <2>3, SwitchStep
<1>17. CASE Finish
  BY <1>17, FinishStep
<1>18. CASE Return
  BY <1>18, ReturnStep
<1>19. CASE UNCHANGED vars
  BY <1>19 DEF vars, FormatInv, DecodeInv, AddressInv
<1> QED
  BY <1>2, <1>3, <1>4, <1>5, <1>6, <1>7, <1>8, <1>9, <1>10, <1>11, <1>12, <1>13,
     <1>14, <1>15, <1>16, <1>17, <1>18, <1>19 DEF Next

THEOREM WritesInBounds == Spec /\ []ArgumentsFit => []InBounds
<1>1. FormatInv => InBounds
  <2> SUFFICES ASSUME FormatInv PROVE InBounds
    OBVIOUS
  <2>1. call.size \in Nat
    BY CallsAssumption DEF FormatInv, DecodeInv
  <2>2. CASE mem = <<>>
    BY <2>2 DEF InBounds
  <2>3. CASE mem # <<>>
    <3>1. label # "call" /\ call.size <= INT_MAX
      BY <2>1, <2>3, AddressAssumption DEF FormatInv, AddressInv
    <3> QED
      BY <2>1, <3>1, AddressAssumption DEF FormatInv, AddressInv, InBounds
  <2> QED
    BY <2>2, <2>3
<1>2. FormatInv /\ ArgumentsFit /\ [Next]_vars => FormatInv'
  BY FormatKeeps
<1> QED
  BY <1>1, <1>2, InitFormatInv, PTL DEF Spec

-----------------------------------------------------------------------------
(* The comparisons and searches of string.c, for every call that keeps     *)
(* CallsAssumption: what callers owe (StringSearch).                       *)
Bytes == 0..255

LEMMA MinIs ==
  ASSUME NEW A, A \subseteq Nat, A # {}
  PROVE  S!Min(A) \in A /\ S!Min(A) \in Nat /\ \A a \in A : S!Min(A) <= a
<1>1. PICK x \in A : \A y \in A : x <= y
  BY Least
<1>2. S!Min(A) \in A /\ \A a \in A : S!Min(A) <= a
  BY <1>1 DEF S!Min
<1> QED
  BY <1>2

LEMMA MinIsThis ==
  ASSUME NEW A, A \subseteq Nat, NEW x \in A, \A a \in A : x <= a
  PROVE  S!Min(A) = x
<1>1. S!Min(A) \in A /\ S!Min(A) \in Nat /\ \A a \in A : S!Min(A) <= a
  BY MinIs
<1> QED
  BY <1>1

LEMMA MaxIsThis ==
  ASSUME NEW A, A \subseteq Nat, NEW x \in A, \A a \in A : a <= x
  PROVE  S!Max(A) = x
<1> DEFINE P(m) == m \in A /\ \A y \in A : m >= y
<1>1. P(x)
  OBVIOUS
<1>2. S!Max(A) = CHOOSE m : P(m)
  BY Zenon DEF S!Max
<1>3. P(S!Max(A))
  <2> HIDE DEF P
  <2> QED
    BY <1>1, <1>2
<1>4. S!Max(A) \in Nat /\ x \in Nat /\ S!Max(A) >= x /\ S!Max(A) <= x
  BY <1>3
<1> HIDE DEF P
<1> QED
  BY <1>4

LEMMA MinOfTwo ==
  ASSUME NEW a \in Nat, NEW b \in Nat
  PROVE  S!Min({a, b}) = IF a <= b THEN a ELSE b
<1>1. CASE a <= b
  BY <1>1, MinIsThis
<1>2. CASE ~(a <= b)
  BY <1>2, MinIsThis
<1> QED
  BY <1>1, <1>2

LEMMA MaxOfTwo ==
  ASSUME NEW a \in Nat, NEW b \in Nat
  PROVE  S!Max({a, b}) = IF a <= b THEN b ELSE a
<1>1. CASE a <= b
  BY <1>1, MaxIsThis
<1>2. CASE ~(a <= b)
  BY <1>2, MaxIsThis
<1> QED
  BY <1>1, <1>2

(* Bytes, lengths and parts of texts. *)
LEMMA ByteIs ==
  ASSUME NEW s \in Seq(Bytes), NEW k \in Int
  PROVE  /\ S!Byte(s, k) \in Bytes
         /\ k \in 1..Len(s) => S!Byte(s, k) = s[k]
         /\ k \notin 1..Len(s) => S!Byte(s, k) = 0
<1>1. DOMAIN s = 1..Len(s) /\ \A x \in 1..Len(s) : s[x] \in Bytes
  BY LenProperties, ElementOfSeq
<1> QED
  BY <1>1 DEF S!Byte, Bytes

LEMMA StrlenIs ==
  ASSUME NEW s \in Seq(Bytes)
  PROVE  /\ S!Strlen(s) \in 0..Len(s) /\ Len(s) \in Nat
         /\ S!Byte(s, S!Strlen(s) + 1) = 0
         /\ \A k \in 1..S!Strlen(s) : S!Byte(s, k) # 0
<1> DEFINE A == {k \in 0..Len(s) : S!Byte(s, k + 1) = 0}
<1>1. Len(s) \in Nat
  BY LenProperties
<1>2. A \subseteq Nat /\ Len(s) \in A
  BY <1>1, ByteIs
<1>3. S!Strlen(s) = S!Min(A)
  BY DEF S!Strlen
<1>4. S!Min(A) \in A /\ \A a \in A : S!Min(A) <= a
  <2> HIDE DEF A
  <2> QED
    BY <1>2, MinIs
<1>5. S!Strlen(s) \in 0..Len(s) /\ S!Byte(s, S!Strlen(s) + 1) = 0
  BY <1>3, <1>4
<1>6. ASSUME NEW k \in 1..S!Strlen(s), S!Byte(s, k) = 0 PROVE FALSE
  <2>1. k - 1 \in 0..Len(s) /\ (k - 1) + 1 = k /\ k - 1 < S!Strlen(s)
    BY <1>1, <1>5
  <2>2. k - 1 \in A
    BY <1>6, <2>1
  <2> QED
    BY <1>3, <1>4, <2>1, <2>2
<1> QED
  BY <1>1, <1>5, <1>6

(* The length is found by reading on until there is a 0. *)
LEMMA StrlenAhead ==
  ASSUME NEW s \in Seq(Bytes), NEW k \in Nat, \A x \in 1..k : S!Byte(s, x) # 0
  PROVE  /\ k <= S!Strlen(s)
         /\ S!Byte(s, k + 1) = 0 <=> k = S!Strlen(s)
         /\ S!Byte(s, k + 1) # 0 => k + 1 <= S!Strlen(s)
<1>1. /\ S!Strlen(s) \in Nat /\ S!Byte(s, S!Strlen(s) + 1) = 0
      /\ \A x \in 1..S!Strlen(s) : S!Byte(s, x) # 0
  BY StrlenIs
<1>2. k <= S!Strlen(s)
  BY <1>1
<1>3. S!Byte(s, k + 1) = 0 => ~(k + 1 <= S!Strlen(s))
  BY <1>1
<1> QED
  BY <1>1, <1>2, <1>3

LEMMA TerminatedLength ==
  ASSUME NEW s \in Seq(Bytes), S!Terminated(s)
  PROVE  S!Strlen(s) < Len(s)
<1>1. PICK k \in DOMAIN s : s[k] = 0
  BY DEF S!Terminated
<1>2. k \in 1..Len(s) /\ k \in Nat /\ S!Byte(s, k) = 0
  BY <1>1, LenProperties, ByteIs
<1>3. ~(k \in 1..S!Strlen(s))
  BY <1>2, StrlenIs
<1> QED
  BY <1>2, <1>3, StrlenIs

LEMMA CutIs ==
  ASSUME NEW s \in Seq(Bytes), NEW m \in Nat
  PROVE  /\ S!Cut(s, m) \in Seq(Bytes)
         /\ Len(S!Cut(s, m)) = IF m < Len(s) THEN m ELSE Len(s)
         /\ \A k \in 1..m : S!Byte(S!Cut(s, m), k) = S!Byte(s, k)
<1> DEFINE l == IF m < Len(s) THEN m ELSE Len(s)
<1>1. Len(s) \in Nat /\ l \in 0..Len(s) /\ S!Cut(s, m) = SubSeq(s, 1, l)
  BY LenProperties DEF S!Cut
<1>2. /\ SubSeq(s, 1, l) \in Seq(Bytes) /\ Len(SubSeq(s, 1, l)) = l
      /\ \A k \in 1..l : SubSeq(s, 1, l)[k] = s[k]
  BY <1>1, SubSeqProperties
<1>3. ASSUME NEW k \in 1..m PROVE S!Byte(S!Cut(s, m), k) = S!Byte(s, k)
  <2>1. CASE k <= l
    <3>1. k \in 1..l /\ k \in 1..Len(s)
      BY <1>1, <2>1
    <3>2. S!Byte(S!Cut(s, m), k) = S!Cut(s, m)[k] /\ S!Byte(s, k) = s[k]
      <4>1. S!Cut(s, m) \in Seq(Bytes) /\ k \in 1..Len(S!Cut(s, m)) /\ k \in Int
        BY <1>1, <1>2, <3>1
      <4> QED
        BY <3>1, <4>1, ByteIs
    <3> QED
      BY <1>1, <1>2, <3>1, <3>2
  <2>2. CASE ~(k <= l)
    <3>1. k \notin 1..Len(s)
      BY <1>1, <2>2
    <3>2. S!Byte(S!Cut(s, m), k) = 0 /\ S!Byte(s, k) = 0
      <4>1. S!Cut(s, m) \in Seq(Bytes) /\ k \notin 1..Len(S!Cut(s, m)) /\ k \in Int
        BY <1>1, <1>2, <2>2
      <4> QED
        BY <3>1, <4>1, ByteIs
    <3> QED
      BY <3>2
  <2> QED
    BY <2>1, <2>2
<1> QED
  BY <1>1, <1>2, <1>3

LEMMA TextIs ==
  ASSUME NEW s \in Seq(Bytes)
  PROVE  /\ S!Text(s) \in Seq(Bytes) /\ Len(S!Text(s)) = S!Strlen(s)
         /\ \A k \in 1..S!Strlen(s) + 1 : S!Byte(S!Text(s), k) = S!Byte(s, k)
         /\ \A k \in 1..S!Strlen(s) : S!Text(s)[k] = s[k] /\ s[k] # 0
<1>1. /\ S!Strlen(s) \in 0..Len(s) /\ Len(s) \in Nat
      /\ S!Byte(s, S!Strlen(s) + 1) = 0
      /\ \A k \in 1..S!Strlen(s) : S!Byte(s, k) # 0
  BY StrlenIs
<1>2. /\ S!Text(s) \in Seq(Bytes) /\ Len(S!Text(s)) = S!Strlen(s)
      /\ \A k \in 1..S!Strlen(s) : S!Byte(S!Text(s), k) = S!Byte(s, k)
  BY <1>1, CutIs DEF S!Text
<1>3. S!Byte(S!Text(s), S!Strlen(s) + 1) = 0
  BY <1>1, <1>2, ByteIs
<1>4. ASSUME NEW k \in 1..S!Strlen(s) PROVE S!Text(s)[k] = s[k] /\ s[k] # 0
  <2>1. S!Byte(S!Text(s), k) = S!Text(s)[k] /\ S!Byte(s, k) = s[k]
    BY <1>1, <1>2, ByteIs
  <2> QED
    BY <1>1, <1>2, <2>1
<1>5. ASSUME NEW k \in 1..S!Strlen(s) + 1
      PROVE  S!Byte(S!Text(s), k) = S!Byte(s, k)
  <2>1. k \in 1..S!Strlen(s) \/ k = S!Strlen(s) + 1
    BY <1>1
  <2> QED
    BY <1>1, <1>2, <1>3, <2>1
<1> QED
  BY <1>2, <1>4, <1>5

LEMMA LowerByte ==
  ASSUME NEW b \in Bytes
  PROVE  S!ToLower(b) \in Bytes /\ (S!ToLower(b) = 0 <=> b = 0)
  BY DEF S!ToLower, S!IsUpper, Bytes

LEMMA LowerIs ==
  ASSUME NEW s \in Seq(Bytes)
  PROVE  /\ S!Lower(s) \in Seq(Bytes) /\ Len(S!Lower(s)) = Len(s)
         /\ \A k \in Int : S!Byte(S!Lower(s), k) = S!ToLower(S!Byte(s, k))
<1>1. DOMAIN s = 1..Len(s) /\ Len(s) \in Nat /\ \A x \in 1..Len(s) : s[x] \in Bytes
  BY LenProperties, ElementOfSeq
<1>2. S!Lower(s) = [k \in 1..Len(s) |-> S!ToLower(s[k])]
  BY <1>1 DEF S!Lower
<1>3. S!Lower(s) \in [1..Len(s) -> Bytes]
  BY <1>1, <1>2, LowerByte
<1>4. S!Lower(s) \in Seq(Bytes) /\ Len(S!Lower(s)) = Len(s)
  BY <1>1, <1>3
<1>5. ASSUME NEW k \in Int
      PROVE  S!Byte(S!Lower(s), k) = S!ToLower(S!Byte(s, k))
  <2>1. CASE k \in 1..Len(s)
    BY <1>2, <1>4, <2>1, ByteIs
  <2>2. CASE k \notin 1..Len(s)
    <3>1. S!Byte(S!Lower(s), k) = 0 /\ S!Byte(s, k) = 0
      BY <1>4, <2>2, ByteIs
    <3>2. S!ToLower(0) = 0
      BY DEF S!ToLower, S!IsUpper
    <3> QED
      BY <3>1, <3>2
  <2> QED
    BY <2>1, <2>2
<1> QED
  BY <1>4, <1>5

(* Comparing: the first bytes that differ decide. *)
LEMMA SgnIs ==
  ASSUME NEW x \in Int
  PROVE  S!Sgn(x) = IF x < 0 THEN -1 ELSE IF x > 0 THEN 1 ELSE 0
  BY DEF S!Sgn

LEMMA ComparedAt ==
  ASSUME NEW s \in Seq(Bytes), NEW t \in Seq(Bytes), NEW k \in 1..Len(s) + 1,
         \A x \in 1..k - 1 : S!Byte(s, x) = S!Byte(t, x),
         S!Byte(s, k) # S!Byte(t, k)
  PROVE  S!Compared(s, t) = S!Sgn(S!Byte(s, k) - S!Byte(t, k))
<1> DEFINE A == {x \in 1..Len(s) + Len(t) + 1 : S!Byte(s, x) # S!Byte(t, x)}
<1>1. Len(s) \in Nat /\ Len(t) \in Nat
  BY LenProperties
<1>2. k \in A /\ A \subseteq Nat
  BY <1>1
<1>3. ASSUME NEW a \in A PROVE k <= a
  BY <1>1
<1>4. S!Min(A) = k /\ A # {}
  <2> HIDE DEF A
  <2> QED
    BY <1>2, <1>3, MinIsThis
<1> QED
  BY <1>4 DEF S!Compared

LEMMA ComparedEqual ==
  ASSUME NEW s \in Seq(Bytes), NEW t \in Seq(Bytes), NEW k \in Nat,
         Len(s) <= k, Len(t) <= k,
         \A x \in 1..k : S!Byte(s, x) = S!Byte(t, x)
  PROVE  S!Compared(s, t) = 0
<1>1. Len(s) \in Nat /\ Len(t) \in Nat
  BY LenProperties
<1>2. ASSUME NEW x \in 1..Len(s) + Len(t) + 1 PROVE S!Byte(s, x) = S!Byte(t, x)
  <2>1. CASE x <= k
    BY <1>1, <2>1
  <2>2. CASE ~(x <= k)
    <3>1. x \in Int /\ x \notin 1..Len(s) /\ x \notin 1..Len(t)
      BY <1>1, <2>2
    <3> QED
      BY <3>1, ByteIs
  <2> QED
    BY <2>1, <2>2
<1>3. {x \in 1..Len(s) + Len(t) + 1 : S!Byte(s, x) # S!Byte(t, x)} = {}
  BY <1>2
<1> QED
  BY <1>3 DEF S!Compared
-----------------------------------------------------------------------------
(* What a comparison compares: the text, up to the limit, in lower case.   *)
Comparing == {"strcmp", "strncmp", "strnicmp", "strcasecmp", "strncasecmp", "memcmp"}
Folding == {"strnicmp", "strcasecmp", "strncasecmp"}
Bounded(c) ==
  c.op \in {"strncmp", "strnicmp", "memcmp"} \/ (c.op = "strncasecmp" /\ c.count > 0)
Fold(c, b) == IF c.op \in Folding THEN S!ToLower(b) ELSE b
Part(c, s) == IF Bounded(c) THEN S!Cut(s, c.count) ELSE s
View(c, s) ==
  IF c.op = "memcmp" THEN Part(c, s)
  ELSE IF c.op \in Folding THEN S!Lower(S!Text(Part(c, s))) ELSE S!Text(Part(c, s))

LEMMA CallIs ==
  ASSUME NEW c \in SearchCalls
  PROVE  /\ c.cs \in Seq(Bytes) /\ c.ct \in Seq(Bytes) /\ c.c \in Int
         /\ c.count \in Nat /\ c.count < SIZES /\ SIZES \in Nat
         /\ Len(c.cs) \in Nat /\ Len(c.ct) \in Nat /\ Len(c.cs) <= SIZES
         /\ c.op \in S!ForBytes => Len(c.cs) >= c.count
         /\ c.op = "memcmp" => Len(c.ct) >= c.count
         /\ c.op \notin S!ForBytes \cup S!Limited => S!Terminated(c.cs) /\ S!Terminated(c.ct)
         /\ c.op = "strncasecmp" /\ c.count = 0 => S!Terminated(c.cs) /\ S!Terminated(c.ct)
         /\ c.op = "strnstr" => S!Terminated(c.ct)
<1>1. /\ c.cs \in Seq(Bytes) /\ c.ct \in Seq(Bytes) /\ c.c \in Int
      /\ c.count \in 0..SIZES - 1 /\ SIZES \in Nat /\ Len(c.cs) <= SIZES
      /\ S!Enough(c, c.cs)
      /\ c.op \notin {"memscan", "memchr", "strnstr"} => S!Enough(c, c.ct)
      /\ c.op = "strnstr" => S!Terminated(c.ct)
  BY SearchAssumption DEF S!CallsAssumption, Bytes
<1>2. Len(c.cs) \in Nat /\ Len(c.ct) \in Nat
  BY <1>1, LenProperties
<1> QED
  BY <1>1, <1>2 DEF S!Enough, S!ForBytes, S!Limited

LEMMA PartIs ==
  ASSUME NEW c \in SearchCalls, NEW s \in {c.cs, c.ct}, c.op \in Comparing
  PROVE  LET u == Part(c, s) IN
         /\ u \in Seq(Bytes) /\ Len(u) \in Nat /\ s \in Seq(Bytes)
         /\ Bounded(c) => Len(u) <= c.count
         /\ c.op = "memcmp" => Len(u) = c.count
         /\ \A k \in Nat \ {0} : (Bounded(c) => k <= c.count) => S!Byte(u, k) = S!Byte(s, k)
<1> DEFINE u == Part(c, s)
<1>1. s \in Seq(Bytes) /\ c.count \in Nat /\ Len(s) \in Nat
  BY CallIs
<1>2. CASE Bounded(c)
  <2>1. u = S!Cut(s, c.count)
    BY <1>2 DEF Part
  <2>2. /\ u \in Seq(Bytes) /\ Len(u) = IF c.count < Len(s) THEN c.count ELSE Len(s)
        /\ \A k \in 1..c.count : S!Byte(u, k) = S!Byte(s, k)
    BY <1>1, <2>1, CutIs
  <2>3. c.op = "memcmp" => Len(s) >= c.count
    BY CallIs DEF S!ForBytes
  <2> HIDE DEF u
  <2>4. \A k \in Nat \ {0} : k <= c.count => k \in 1..c.count
    BY <1>1
  <2> QED
    BY <1>1, <1>2, <2>2, <2>3, <2>4 DEF u
<1>3. CASE ~Bounded(c)
  <2>1. u = s /\ c.op # "memcmp"
    BY <1>3 DEF Part, Bounded
  <2> QED
    BY <1>1, <1>3, <2>1
<1> QED
  BY <1>2, <1>3

LEMMA ViewIs ==
  ASSUME NEW c \in SearchCalls, NEW s \in {c.cs, c.ct}, c.op \in Comparing
  PROVE  LET v == View(c, s) IN
         /\ v \in Seq(Bytes) /\ Len(v) \in Nat
         /\ Bounded(c) => Len(v) <= c.count
         /\ c.op = "memcmp" => Len(v) = c.count
         /\ c.op # "memcmp" => Len(v) <= S!Strlen(s)
         /\ \A k \in 1..Len(v) + 1 : (Bounded(c) => k <= c.count) =>
              /\ S!Byte(v, k) = Fold(c, S!Byte(s, k))
              /\ c.op # "memcmp" => (k <= Len(v) <=> S!Byte(s, k) # 0)
<1> DEFINE u == Part(c, s)
           v == View(c, s)
<1>1. /\ u \in Seq(Bytes) /\ Len(u) \in Nat /\ s \in Seq(Bytes) /\ c.count \in Nat
      /\ Bounded(c) => Len(u) <= c.count
      /\ c.op = "memcmp" => Len(u) = c.count
      /\ \A k \in Nat \ {0} : (Bounded(c) => k <= c.count) => S!Byte(u, k) = S!Byte(s, k)
  BY PartIs, CallIs
<1>2. CASE c.op = "memcmp"
  <2>1. v = u /\ \A b : Fold(c, b) = b
    BY <1>2 DEF View, Fold, Folding
  <2>2. \A k \in 1..Len(u) + 1 : k \in Nat \ {0}
    BY <1>1
  <2> HIDE DEF u, v
  <2> QED
    BY <1>1, <1>2, <2>1, <2>2 DEF v
<1>3. CASE c.op # "memcmp"
  <2> HIDE DEF u
  <2> DEFINE t == S!Text(u)
  <2>1. /\ t \in Seq(Bytes) /\ Len(t) = S!Strlen(u)
        /\ \A k \in 1..S!Strlen(u) + 1 : S!Byte(t, k) = S!Byte(u, k)
    BY <1>1, TextIs
  <2>2. /\ S!Strlen(u) \in 0..Len(u)
        /\ S!Byte(u, S!Strlen(u) + 1) = 0
        /\ \A k \in 1..S!Strlen(u) : S!Byte(u, k) # 0
    BY <1>1, StrlenIs
  <2> HIDE DEF t
  <2>3. v = IF c.op \in Folding THEN S!Lower(t) ELSE t
    BY <1>3 DEF View, u, t
  <2>4. /\ v \in Seq(Bytes) /\ Len(v) = S!Strlen(u)
        /\ \A k \in 1..S!Strlen(u) + 1 : S!Byte(v, k) = Fold(c, S!Byte(u, k))
    BY <2>1, <2>2, <2>3, LowerIs DEF Fold
  <2>5. ASSUME NEW k \in 1..S!Strlen(u)
        PROVE  S!Byte(s, k) # 0
    <3>1. k \in Nat \ {0} /\ (Bounded(c) => k <= c.count)
      BY <1>1, <2>2
    <3> QED
      BY <1>1, <2>2, <3>1
  <2>6. S!Strlen(u) <= S!Strlen(s)
    BY <1>1, <2>2, <2>5, StrlenAhead
  <2>7. ASSUME NEW k \in 1..S!Strlen(u) + 1, Bounded(c) => k <= c.count
        PROVE  /\ S!Byte(v, k) = Fold(c, S!Byte(s, k))
               /\ k <= S!Strlen(u) <=> S!Byte(s, k) # 0
    <3>1. k \in Nat \ {0}
      BY <2>2
    <3>2. S!Byte(u, k) = S!Byte(s, k)
      BY <1>1, <2>7, <3>1
    <3>3. k \in 1..S!Strlen(u) \/ k = S!Strlen(u) + 1
      BY <2>2
    <3> QED
      BY <2>2, <2>4, <3>2, <3>3
  <2> HIDE DEF v
  <2>8. Len(v) \in Nat /\ (Bounded(c) => Len(v) <= c.count)
    BY <1>1, <2>2, <2>4
  <2> QED
    BY <1>3, <2>4, <2>6, <2>7, <2>8 DEF v
<1> QED
  BY <1>2, <1>3

(* The comparisons' loops. *)
Same(c, k) == S!Byte(View(c, c.cs), k) = S!Byte(View(c, c.ct), k)

CompareLoop(c, k, m) ==
  /\ k \in Nat \ {0} /\ m \in Nat
  /\ k - 1 <= Len(View(c, c.cs)) /\ k - 1 <= Len(View(c, c.ct))
  /\ \A x \in 1..k - 1 : Same(c, x)
  /\ Bounded(c) => m = c.count - (k - 1)
  /\ c.op \in {"strnicmp", "strncasecmp"} /\ Bounded(c) => m > 0
  /\ c.op = "strncasecmp" /\ ~Bounded(c) =>
       (m = 0 /\ k = 1) \/ (m > 0 /\ m = SIZES - (k - 1))

LEMMA SameExpected == ASSUME scall' = scall PROVE S!Expected' = S!Expected
  BY DEF S!Expected, S!Char

LEMMA ExpectedCompared ==
  ASSUME scall \in SearchCalls, scall.op \in Comparing
  PROVE  S!Expected = S!Compared(View(scall, scall.cs), View(scall, scall.ct))
<1>1. CASE scall.op = "strcmp"
  BY <1>1 DEF S!Expected, View, Part, Bounded, Folding
<1>2. CASE scall.op = "strncmp"
  BY <1>2 DEF S!Expected, View, Part, Bounded, Folding
<1>3. CASE scall.op = "strnicmp"
  BY <1>3 DEF S!Expected, View, Part, Bounded, Folding
<1>4. CASE scall.op = "strcasecmp"
  BY <1>4 DEF S!Expected, View, Part, Bounded, Folding
<1>5. CASE scall.op = "strncasecmp" /\ scall.count = 0
  BY <1>5 DEF S!Expected, View, Part, Bounded, Folding
<1>6. CASE scall.op = "strncasecmp" /\ scall.count # 0
  <2>1. scall.count > 0
    BY <1>6, CallIs
  <2> QED
    BY <1>6, <2>1 DEF S!Expected, View, Part, Bounded, Folding
<1>7. CASE scall.op = "memcmp"
  BY <1>7 DEF S!Expected, View, Part, Bounded, Folding
<1> QED
  BY <1>1, <1>2, <1>3, <1>4, <1>5, <1>6, <1>7 DEF Comparing

LEMMA EqualSoFar ==
  ASSUME scall \in SearchCalls, scall.op \in Comparing, NEW k \in Nat,
         Len(View(scall, scall.cs)) <= k, Len(View(scall, scall.ct)) <= k,
         \A x \in 1..k : Same(scall, x)
  PROVE  S!Expected = 0
<1>1. View(scall, scall.cs) \in Seq(Bytes) /\ View(scall, scall.ct) \in Seq(Bytes)
  BY ViewIs
<1> QED
  BY <1>1, ExpectedCompared, ComparedEqual DEF Same

(* The bytes at the place k of a comparison. *)
LEMMA CompareHere ==
  ASSUME scall \in SearchCalls, scall.op \in Comparing, NEW k, NEW m,
         CompareLoop(scall, k, m), Bounded(scall) => k <= scall.count,
         NEW b1, b1 = S!Byte(scall.cs, k), NEW b2, b2 = S!Byte(scall.ct, k)
  PROVE  /\ b1 \in Bytes /\ b2 \in Bytes
         /\ k <= S!Limit(scall.cs) /\ k <= S!Limit(scall.ct)
         /\ Fold(scall, b1) # Fold(scall, b2) =>
              S!Expected = S!Sgn(Fold(scall, b1) - Fold(scall, b2))
         /\ Fold(scall, b1) = Fold(scall, b2) /\ scall.op # "memcmp" /\ b1 = 0 =>
              S!Expected = 0
         /\ Fold(scall, b1) = Fold(scall, b2) /\ (scall.op = "memcmp" \/ b1 # 0) =>
              /\ k <= Len(View(scall, scall.cs)) /\ k <= Len(View(scall, scall.ct))
              /\ \A x \in 1..k : Same(scall, x)
<1> DEFINE v1 == View(scall, scall.cs)
           v2 == View(scall, scall.ct)
<1>1. /\ v1 \in Seq(Bytes) /\ v2 \in Seq(Bytes) /\ Len(v1) \in Nat /\ Len(v2) \in Nat
      /\ k \in 1..Len(v1) + 1 /\ k \in 1..Len(v2) + 1 /\ k \in Nat \ {0}
      /\ \A x \in 1..k - 1 : Same(scall, x)
      /\ scall.count \in Nat /\ scall.cs \in Seq(Bytes) /\ scall.ct \in Seq(Bytes)
  BY ViewIs, CallIs DEF CompareLoop
<1>2. /\ S!Byte(v1, k) = Fold(scall, b1) /\ S!Byte(v2, k) = Fold(scall, b2)
      /\ scall.op # "memcmp" => (k <= Len(v1) <=> b1 # 0) /\ (k <= Len(v2) <=> b2 # 0)
      /\ scall.op = "memcmp" => Len(v1) = scall.count /\ Len(v2) = scall.count
      /\ scall.op # "memcmp" => Len(v1) <= S!Strlen(scall.cs) /\ Len(v2) <= S!Strlen(scall.ct)
  BY <1>1, ViewIs
<1>3. b1 \in Bytes /\ b2 \in Bytes
  BY <1>1, ByteIs
<1>4. Fold(scall, b1) \in Bytes /\ Fold(scall, b2) \in Bytes
      /\ (Fold(scall, b1) = 0 <=> b1 = 0) /\ (Fold(scall, b2) = 0 <=> b2 = 0)
  BY <1>3, LowerByte DEF Fold
<1> HIDE DEF v1, v2
<1>5. ASSUME Fold(scall, b1) # Fold(scall, b2)
      PROVE  S!Expected = S!Sgn(Fold(scall, b1) - Fold(scall, b2))
  <2>1. S!Compared(v1, v2) = S!Sgn(S!Byte(v1, k) - S!Byte(v2, k))
    BY <1>1, <1>2, <1>5, ComparedAt DEF Same, v1, v2
  <2> QED
    BY <1>2, <2>1, ExpectedCompared DEF v1, v2
<1>6. ASSUME Fold(scall, b1) = Fold(scall, b2) PROVE \A x \in 1..k : Same(scall, x)
  <2>1. Same(scall, k)
    BY <1>2, <1>6 DEF Same, v1, v2
  <2>2. \A x \in 1..k : x \in 1..k - 1 \/ x = k
    BY <1>1
  <2> QED
    BY <1>1, <2>1, <2>2
<1>7. ASSUME Fold(scall, b1) = Fold(scall, b2), scall.op # "memcmp", b1 = 0
      PROVE  S!Expected = 0
  <2>1. Len(v1) <= k /\ Len(v2) <= k
    BY <1>1, <1>2, <1>4, <1>7
  <2> QED
    BY <1>1, <1>6, <1>7, <2>1, EqualSoFar DEF v1, v2
<1>8. ASSUME Fold(scall, b1) = Fold(scall, b2), scall.op = "memcmp" \/ b1 # 0
      PROVE  k <= Len(v1) /\ k <= Len(v2)
  <2>1. scall.op = "memcmp" => k <= scall.count
    BY DEF Bounded
  <2> QED
    BY <1>2, <1>4, <1>8, <2>1
<1>9. k <= S!Limit(scall.cs) /\ k <= S!Limit(scall.ct)
  <2>1. CASE scall.op = "memcmp"
    BY <2>1 DEF S!Limit, S!ForBytes, Bounded
  <2>2. CASE scall.op # "memcmp"
    <3>1. /\ S!Strlen(scall.cs) \in Nat /\ S!Strlen(scall.ct) \in Nat
          /\ k <= S!Strlen(scall.cs) + 1 /\ k <= S!Strlen(scall.ct) + 1
      <4>1. S!Strlen(scall.cs) \in Nat /\ S!Strlen(scall.ct) \in Nat
        BY <1>1, StrlenIs
      <4>2. Len(v1) <= S!Strlen(scall.cs) /\ Len(v2) <= S!Strlen(scall.ct)
        BY <1>2, <2>2
      <4> QED
        BY <1>1, <4>1, <4>2
    <3>2. /\ S!End(scall.cs) \in Nat /\ S!End(scall.ct) \in Nat
          /\ k <= S!End(scall.cs) /\ k <= S!End(scall.ct)
      BY <1>1, <3>1 DEF S!End
    <3>3. /\ k <= scall.count => k <= S!Min({S!End(scall.cs), scall.count})
          /\ k <= scall.count => k <= S!Min({S!End(scall.ct), scall.count})
      BY <1>1, <3>2, MinOfTwo
    <3>4. CASE Bounded(scall)
      <4>1. /\ scall.op \in S!Limited /\ scall.op \notin S!ForBytes
            /\ scall.op = "strncasecmp" => scall.count > 0
        BY <2>2, <3>4 DEF Bounded, S!Limited, S!ForBytes
      <4> QED
        BY <3>3, <3>4, <4>1 DEF S!Limit
    <3>5. CASE ~Bounded(scall)
      <4>1. /\ scall.op \notin S!ForBytes
            /\ scall.op \in S!Limited => scall.op = "strncasecmp" /\ ~(scall.count > 0)
        BY <2>2, <3>5 DEF Bounded, S!Limited, S!ForBytes, Comparing
      <4> QED
        BY <3>2, <4>1 DEF S!Limit
    <3> QED
      BY <3>4, <3>5
  <2> QED
    BY <2>1, <2>2
<1> QED
  BY <1>3, <1>5, <1>6, <1>7, <1>8, <1>9 DEF v1, v2
-----------------------------------------------------------------------------
(* The other loops.  cs has been passed up to the place k.                 *)
Passed(c, k) == k \in Nat \ {0} /\ k - 1 <= S!Strlen(c.cs)
               /\ \A x \in 1..k - 1 : S!Byte(c.cs, x) # 0
LowByte(c) == c.c % 256
Without(c, k, b) == \A x \in 1..k - 1 : S!Byte(c.cs, x) # b
Counted(c, k, m) == m \in Nat /\ m = c.count - (k - 1)

StreqLoop(c, k, l) ==
  /\ Passed(c, k) /\ l = k
  /\ \A x \in 1..k - 1 : S!Byte(c.cs, x) = S!Byte(c.ct, x)

CharLoop(c, k, m) ==
  /\ k \in Nat \ {0} /\ m \in Nat
  /\ c.op \in {"strchr", "strnchr", "strlen", "strnlen"} => Passed(c, k)
  /\ c.op \in {"strnchr", "memscan", "memchr", "strnlen"} => Counted(c, k, m)
  /\ c.op \in {"strchr", "strnchr", "memchr"} => Without(c, k, LowByte(c))
  /\ c.op = "memscan" => Without(c, k, c.c)
  /\ c.op = "strrchr" =>
       /\ k <= S!Strlen(c.cs) + 1
       /\ \A x \in k + 1..S!Strlen(c.cs) + 1 : S!Byte(c.cs, x) # LowByte(c)
  /\ c.op = "skip_spaces" => \A x \in 1..k - 1 : S!IsSpace(S!Byte(c.cs, x))
  /\ c.op = "strtobool" => k = 1

SetLoop(c, k, l, m) ==
  /\ Passed(c, k) /\ m \in Nat
  /\ c.op \in {"strspn", "strcspn"} => m = k - 1
  /\ \A x \in 1..k - 1 :
       IF c.op = "strspn" THEN S!Byte(c.cs, x) \in S!Chars(S!Text(c.ct))
                          ELSE S!Byte(c.cs, x) \notin S!Chars(S!Text(c.ct))
  /\ l \in Nat \ {0} /\ l - 1 <= S!Strlen(c.ct)
  /\ \A y \in 1..l - 1 : S!Byte(c.ct, y) # S!Byte(c.cs, k)

(* The text in which a string is searched for. *)
Field(c) == IF c.op = "strnstr" THEN S!Cut(c.cs, c.count) ELSE S!Text(c.cs)

StringLoop(c, k, l, m) ==
  /\ k \in Nat \ {0} /\ m \in Nat /\ m = Len(Field(c)) - (k - 1)
  /\ S!Strlen(c.ct) > 0
  /\ \A x \in 1..k - 1 : x \notin S!Occurrences(Field(c), S!Text(c.ct))
  /\ l \in Nat \ {0} /\ l - 1 <= S!Strlen(c.ct)
  /\ \A y \in 1..l - 1 : S!Byte(Field(c), k + y - 1) = S!Byte(c.ct, y)

OfChars == {"strchr", "strrchr", "strnchr", "memscan", "memchr", "skip_spaces",
            "strlen", "strnlen", "strtobool"}
OfSets == {"strspn", "strcspn", "strpbrk"}
OfStrings == {"strstr", "strnstr"}

SearchLoop(c, k, l, m) ==
  /\ c.op \in Comparing => l = k /\ CompareLoop(c, k, m)
  /\ c.op = "sysfs_streq" => StreqLoop(c, k, l)
  /\ c.op \in OfChars => CharLoop(c, k, m)
  /\ c.op \in OfSets => SetLoop(c, k, l, m)
  /\ c.op \in OfStrings => StringLoop(c, k, l, m)

SearchInv ==
  /\ scall \in SearchCalls /\ spc \in {"call", "loop", "done"}
  /\ place1 \in Nat /\ place2 \in Nat /\ left \in Nat
  /\ far \in Nat \X Nat
  /\ S!ReadsInside /\ S!AnswerRight
  /\ spc = "call" => place1 = 1 /\ place2 = 1 /\ left = scall.count
  /\ spc = "loop" => SearchLoop(scall, place1, place2, left)

(* How far each text may be read.                                          *)
Limit2 == IF scall.op = "strnstr" THEN S!End(scall.ct) ELSE S!Limit(scall.ct)

LEMMA LimitsAreNat ==
  ASSUME scall \in SearchCalls
  PROVE  S!Limit(scall.cs) \in Nat /\ S!Limit(scall.ct) \in Nat /\ Limit2 \in Nat
         /\ S!End(scall.cs) \in Nat /\ S!End(scall.ct) \in Nat
<1>1. /\ S!End(scall.cs) \in Nat /\ S!End(scall.ct) \in Nat /\ scall.count \in Nat
  BY CallIs, StrlenIs DEF S!End
<1>2. /\ S!Min({S!End(scall.cs), scall.count}) \in Nat
      /\ S!Min({S!End(scall.ct), scall.count}) \in Nat
  BY <1>1, MinOfTwo
<1> QED
  BY <1>1, <1>2 DEF S!Limit, Limit2

LEMMA SameLimits ==
  ASSUME scall' = scall
  PROVE  /\ S!Limit(scall.cs)' = S!Limit(scall.cs) /\ Limit2' = Limit2
  BY DEF S!Limit, Limit2, S!End

(* What a step reads. *)
Looks ==
  \/ UNCHANGED far
  \/ \E a \in 0..S!Limit(scall.cs), b \in 0..Limit2 : S!Look(a, b)

LEMMA Looked ==
  ASSUME SearchInv, scall' = scall, Looks
  PROVE  far' \in Nat \X Nat /\ S!ReadsInside'
<1>1. /\ far \in Nat \X Nat /\ far[1] <= S!Limit(scall.cs) /\ far[2] <= Limit2
  BY DEF SearchInv, S!ReadsInside, Limit2
<1>2. CASE UNCHANGED far
  BY <1>1, <1>2, SameLimits DEF S!ReadsInside, Limit2
<1>3. CASE \E a \in 0..S!Limit(scall.cs), b \in 0..Limit2 : S!Look(a, b)
  <2>1. PICK a \in 0..S!Limit(scall.cs), b \in 0..Limit2 : S!Look(a, b)
    BY <1>3
  <2>2. S!Limit(scall.cs) \in Nat /\ Limit2 \in Nat
    BY LimitsAreNat DEF SearchInv
  <2>3. a \in Nat /\ b \in Nat /\ far[1] \in Nat /\ far[2] \in Nat
    BY <1>1, <2>2
  <2>4. far' = <<S!Max({far[1], a}), S!Max({far[2], b})>>
    BY <2>1 DEF S!Look
  <2>5. /\ S!Max({far[1], a}) = IF far[1] <= a THEN a ELSE far[1]
        /\ S!Max({far[2], b}) = IF far[2] <= b THEN b ELSE far[2]
    BY <2>3, MaxOfTwo
  <2>6. /\ far' \in Nat \X Nat /\ far'[1] <= S!Limit(scall.cs) /\ far'[2] <= Limit2
    BY <1>1, <2>1, <2>2, <2>3, <2>4, <2>5
  <2> QED
    BY <2>6, SameLimits DEF S!ReadsInside, Limit2
<1> QED
  BY <1>2, <1>3 DEF Looks

(* The functions whose answer is a sign. *)
Signs == {"strnicmp", "strcasecmp", "strncasecmp", "memcmp"}

LEMMA Answers ==
  ASSUME SearchInv, spc = "loop" \/ spc = "call", NEW v, sret' = v, spc' = "done",
         UNCHANGED <<scall, place2>>, place1' \in Nat, left' \in Nat, Looks,
         IF scall.op \in Signs THEN S!Sgn(v) = S!Expected ELSE v = S!Expected
  PROVE  SearchInv'
<1>1. far' \in Nat \X Nat /\ S!ReadsInside'
  BY Looked
<1>2. S!AnswerRight'
  BY SameExpected DEF S!AnswerRight, Signs
<1> QED
  BY <1>1, <1>2 DEF SearchInv

LEMMA AnswersInLoop ==
  ASSUME SearchInv, spc = "loop", NEW v, S!Answer(v), Looks,
         IF scall.op \in Signs THEN S!Sgn(v) = S!Expected ELSE v = S!Expected
  PROVE  SearchInv'
  BY Answers DEF S!Answer, SearchInv

LEMMA Goes ==
  ASSUME SearchInv, spc = "loop", NEW a \in Nat, NEW b \in Nat, NEW m \in Nat,
         S!Go(a, b, m), Looks, SearchLoop(scall, a, b, m)
  PROVE  SearchInv'
<1>1. far' \in Nat \X Nat /\ S!ReadsInside'
  BY Looked DEF S!Go
<1>2. S!AnswerRight'
  BY DEF S!AnswerRight, S!Go
<1> QED
  BY <1>1, <1>2 DEF SearchInv, S!Go

(* Comparisons: the step to the next place, and the answers. *)
LEMMA ComparesOn ==
  ASSUME SearchInv, spc = "loop", scall.op \in Comparing, Looks,
         Bounded(scall) => place1 <= scall.count,
         Fold(scall, S!B1) = Fold(scall, S!B2), scall.op = "memcmp" \/ S!B1 # 0,
         NEW m \in Nat, S!Go(place1 + 1, place2 + 1, m),
         Bounded(scall) => m = left - 1,
         scall.op \in {"strnicmp", "strncasecmp"} => m > 0,
         scall.op = "strncasecmp" /\ ~Bounded(scall) => m = SIZES - place1
  PROVE  SearchInv'
<1>1. CompareLoop(scall, place1, left) /\ place2 = place1 /\ scall \in SearchCalls
  BY DEF SearchInv, SearchLoop
<1>2. /\ place1 <= Len(View(scall, scall.cs)) /\ place1 <= Len(View(scall, scall.ct))
      /\ \A x \in 1..place1 : Same(scall, x)
  BY <1>1, CompareHere DEF S!B1, S!B2
<1>3. /\ place1 \in Nat \ {0} /\ left \in Nat /\ scall.count \in Nat
      /\ Bounded(scall) => left = scall.count - (place1 - 1)
  BY <1>1, CallIs DEF CompareLoop
<1>4. CompareLoop(scall, place1 + 1, m)
  <2>1. /\ place1 + 1 \in Nat \ {0} /\ (place1 + 1) - 1 = place1
        /\ Bounded(scall) => m = scall.count - place1
    BY <1>3
  <2>2. scall.op = "strncasecmp" /\ ~Bounded(scall) => m > 0 /\ m = SIZES - place1
    OBVIOUS
  <2> QED
    BY <1>2, <2>1, <2>2 DEF CompareLoop
<1>5. SearchLoop(scall, place1 + 1, place2 + 1, m)
  BY <1>1, <1>4 DEF SearchLoop, Comparing, OfChars, OfSets, OfStrings
<1> QED
  BY <1>1, <1>3, <1>5, Goes

LEMMA CompareFacts ==
  ASSUME SearchInv, spc = "loop", scall.op \in Comparing
  PROVE  /\ scall \in SearchCalls /\ place2 = place1 /\ place1 \in Nat \ {0}
         /\ left \in Nat /\ CompareLoop(scall, place1, left)
         /\ scall.count \in Nat
         /\ Bounded(scall) => left = scall.count - (place1 - 1)
         /\ Bounded(scall) /\ left # 0 => place1 <= scall.count
  BY CallIs DEF SearchInv, SearchLoop, CompareLoop

LEMMA CompareBytes ==
  ASSUME SearchInv, spc = "loop", scall.op \in Comparing,
         Bounded(scall) => left # 0
  PROVE  /\ S!B1 \in Bytes /\ S!B2 \in Bytes
         /\ S!Look(place1, place2) => Looks
         /\ Fold(scall, S!B1) # Fold(scall, S!B2) =>
              S!Expected = S!Sgn(Fold(scall, S!B1) - Fold(scall, S!B2))
         /\ Fold(scall, S!B1) = Fold(scall, S!B2) /\ scall.op # "memcmp" /\ S!B1 = 0 =>
              S!Expected = 0
         /\ Fold(scall, S!B1) = Fold(scall, S!B2) /\ scall.op # "memcmp" /\ S!B1 # 0
              /\ Bounded(scall) /\ left = 1 => S!Expected = 0
<1>1. /\ scall \in SearchCalls /\ place2 = place1 /\ place1 \in Nat \ {0}
      /\ CompareLoop(scall, place1, left) /\ scall.count \in Nat
      /\ Bounded(scall) => place1 <= scall.count /\ left = scall.count - (place1 - 1)
  BY CompareFacts
<1>2. /\ S!B1 \in Bytes /\ S!B2 \in Bytes
      /\ place1 <= S!Limit(scall.cs) /\ place1 <= S!Limit(scall.ct)
      /\ Fold(scall, S!B1) # Fold(scall, S!B2) =>
           S!Expected = S!Sgn(Fold(scall, S!B1) - Fold(scall, S!B2))
      /\ Fold(scall, S!B1) = Fold(scall, S!B2) /\ scall.op # "memcmp" /\ S!B1 = 0 =>
           S!Expected = 0
      /\ Fold(scall, S!B1) = Fold(scall, S!B2) /\ scall.op # "memcmp" /\ S!B1 # 0 =>
              /\ place1 <= Len(View(scall, scall.cs))
              /\ place1 <= Len(View(scall, scall.ct))
              /\ \A x \in 1..place1 : Same(scall, x)
  BY <1>1, CompareHere DEF S!B1, S!B2
<1>3. S!Look(place1, place2) => Looks
  <2>1. Limit2 = S!Limit(scall.ct)
    BY DEF Limit2, Comparing
  <2>2. place1 \in 0..S!Limit(scall.cs) /\ place2 \in 0..Limit2
    BY <1>1, <1>2, <2>1, LimitsAreNat
  <2> QED
    BY <2>2 DEF Looks
<1>4. ASSUME Fold(scall, S!B1) = Fold(scall, S!B2), scall.op # "memcmp", S!B1 # 0,
             Bounded(scall), left = 1
      PROVE  S!Expected = 0
  <2>1. place1 = scall.count
    BY <1>1, <1>4
  <2>2. Len(View(scall, scall.cs)) <= place1 /\ Len(View(scall, scall.ct)) <= place1
    BY <1>1, <1>4, <2>1, ViewIs
  <2> QED
    BY <1>1, <1>2, <1>4, <2>2, EqualSoFar
<1> QED
  BY <1>2, <1>3, <1>4

LEMMA OrderIsSign ==
  ASSUME NEW a \in Bytes, NEW b \in Bytes, a # b
  PROVE  S!Order(a, b) = S!Sgn(a - b)
  BY DEF S!Order, S!Sgn, Bytes

LEMMA NoDifference ==
  ASSUME NEW a \in Bytes, NEW b \in Bytes, a = b
  PROVE  a - b = 0
  BY DEF Bytes

LEMMA StrcmpStep == ASSUME SearchInv, S!Strcmp PROVE SearchInv'
<1>1. /\ spc = "loop" /\ scall.op = "strcmp" /\ S!Look(place1, place2)
      /\ ~Bounded(scall) /\ scall.op \in Comparing /\ scall.op \notin Signs
      /\ \A b : Fold(scall, b) = b
  BY DEF S!Strcmp, S!Op, Bounded, Comparing, Signs, Fold, Folding
<1>2. /\ S!B1 \in Bytes /\ S!B2 \in Bytes /\ Looks
      /\ S!B1 # S!B2 => S!Expected = S!Sgn(S!B1 - S!B2)
      /\ S!B1 = S!B2 /\ S!B1 = 0 => S!Expected = 0
  BY <1>1, CompareBytes
<1>3. CASE S!B1 # S!B2 /\ S!Answer(S!Order(S!B1, S!B2))
  <2>1. S!Order(S!B1, S!B2) = S!Sgn(S!B1 - S!B2)
    BY <1>2, <1>3, OrderIsSign
  <2> QED
    BY <1>1, <1>2, <1>3, <2>1, AnswersInLoop
<1>4. CASE S!B1 = S!B2 /\ S!B1 = 0 /\ S!Answer(0)
  BY <1>1, <1>2, <1>4, AnswersInLoop
<1>5. CASE S!B1 = S!B2 /\ S!B1 # 0 /\ S!Both
  <2>1. left \in Nat /\ S!Go(place1 + 1, place2 + 1, left)
    BY <1>5 DEF SearchInv, S!Both
  <2> QED
    BY <1>1, <1>2, <1>5, <2>1, ComparesOn
<1> QED
  BY <1>3, <1>4, <1>5 DEF S!Strcmp

LEMMA StrncmpStep == ASSUME SearchInv, S!Strncmp PROVE SearchInv'
<1>1. /\ spc = "loop" /\ scall.op = "strncmp"
      /\ Bounded(scall) /\ scall.op \in Comparing /\ scall.op \notin Signs
      /\ \A b : Fold(scall, b) = b
  BY DEF S!Strncmp, S!Op, Bounded, Comparing, Signs, Fold, Folding
<1>2. /\ left # 0 => S!B1 \in Bytes /\ S!B2 \in Bytes
      /\ left # 0 /\ S!Look(place1, place2) => Looks
      /\ left # 0 /\ S!B1 # S!B2 => S!Expected = S!Sgn(S!B1 - S!B2)
      /\ left # 0 /\ S!B1 = S!B2 /\ S!B1 = 0 => S!Expected = 0
  BY <1>1, CompareBytes
<1>3. /\ scall \in SearchCalls /\ place1 \in Nat \ {0} /\ left \in Nat
      /\ left = scall.count - (place1 - 1) /\ scall.count \in Nat
      /\ CompareLoop(scall, place1, left)
      /\ left # 0 => place1 <= scall.count
  BY <1>1, CompareFacts
<1>4. CASE left = 0 /\ S!Answer(0) /\ UNCHANGED far
  <2>1. place1 - 1 = scall.count /\ place1 - 1 \in Nat
    BY <1>3, <1>4
  <2>2. /\ Len(View(scall, scall.cs)) <= place1 - 1
        /\ Len(View(scall, scall.ct)) <= place1 - 1
    BY <1>1, <1>3, <2>1, ViewIs
  <2>3. S!Expected = 0
    BY <1>1, <1>3, <2>1, <2>2, EqualSoFar DEF CompareLoop
  <2> QED
    BY <1>1, <1>4, <2>3, AnswersInLoop DEF Looks
<1>5. CASE left # 0 /\ S!Look(place1, place2) /\ S!B1 # S!B2 /\ S!Answer(S!Order(S!B1, S!B2))
  <2>1. S!Order(S!B1, S!B2) = S!Sgn(S!B1 - S!B2)
    BY <1>2, <1>5, OrderIsSign
  <2> QED
    BY <1>1, <1>2, <1>5, <2>1, AnswersInLoop
<1>6. CASE left # 0 /\ S!Look(place1, place2) /\ S!B1 = S!B2 /\ S!B1 = 0 /\ S!Answer(0)
  BY <1>1, <1>2, <1>6, AnswersInLoop
<1>7. CASE left # 0 /\ S!Look(place1, place2) /\ S!B1 = S!B2 /\ S!B1 # 0
           /\ S!Go(place1 + 1, place2 + 1, left - 1)
  <2>1. left - 1 \in Nat
    BY <1>3, <1>7
  <2> QED
    BY <1>1, <1>2, <1>3, <1>7, <2>1, ComparesOn
<1> QED
  BY <1>4, <1>5, <1>6, <1>7 DEF S!Strncmp

(* The sign of a difference does not change when both bytes are letters of *)
(* one case; only that of 0 and another byte is asked for.                 *)
LEMMA SignWithZero ==
  ASSUME NEW a \in Bytes, NEW b \in Bytes, a = 0 \/ b = 0
  PROVE  S!Sgn(a - b) = S!Sgn(S!ToLower(a) - S!ToLower(b))
  BY DEF Bytes, S!Sgn, S!ToLower, S!IsUpper

LEMMA SgnTwice ==
  ASSUME NEW x \in Int PROVE S!Sgn(S!Sgn(x)) = S!Sgn(x) /\ S!Sgn(0) = 0
  BY DEF S!Sgn

LEMMA StrnicmpStep == ASSUME SearchInv, S!Strnicmp PROVE SearchInv'
<1>1. /\ spc = "loop" /\ scall.op = "strnicmp" /\ S!Look(place1, place2)
      /\ Bounded(scall) /\ scall.op \in Comparing /\ scall.op \in Signs
      /\ \A b : Fold(scall, b) = S!ToLower(b)
  BY DEF S!Strnicmp, S!Op, Bounded, Comparing, Signs, Fold, Folding
<1>2. /\ scall \in SearchCalls /\ place1 \in Nat \ {0} /\ left \in Nat /\ left # 0
      /\ place1 <= scall.count
  BY <1>1, CompareFacts DEF CompareLoop
<1>3. /\ S!B1 \in Bytes /\ S!B2 \in Bytes /\ Looks
      /\ S!ToLower(S!B1) # S!ToLower(S!B2) =>
           S!Expected = S!Sgn(S!ToLower(S!B1) - S!ToLower(S!B2))
      /\ S!ToLower(S!B1) = S!ToLower(S!B2) /\ S!B1 = 0 => S!Expected = 0
      /\ S!ToLower(S!B1) = S!ToLower(S!B2) /\ S!B1 # 0 /\ left = 1 => S!Expected = 0
  BY <1>1, <1>2, CompareBytes
<1>4. /\ S!ToLower(S!B1) \in Bytes /\ S!ToLower(S!B2) \in Bytes
      /\ (S!ToLower(S!B1) = 0 <=> S!B1 = 0) /\ (S!ToLower(S!B2) = 0 <=> S!B2 = 0)
  BY <1>3, LowerByte
<1>5. CASE (S!B1 = 0 \/ S!B2 = 0) /\ S!Answer(S!B1 - S!B2)
  <2>1. S!Sgn(S!B1 - S!B2) = S!Sgn(S!ToLower(S!B1) - S!ToLower(S!B2))
    BY <1>3, <1>5, SignWithZero
  <2>2. S!Sgn(S!B1 - S!B2) = S!Expected
    <3>1. CASE S!ToLower(S!B1) = S!ToLower(S!B2)
      <4>1. S!B1 = 0 /\ S!ToLower(S!B1) - S!ToLower(S!B2) = 0
        BY <1>4, <1>5, <3>1 DEF Bytes
      <4> QED
        BY <1>3, <2>1, <3>1, <4>1, SgnTwice
    <3> QED
      BY <1>3, <2>1, <3>1
  <2> QED
    BY <1>1, <1>3, <1>5, <2>2, AnswersInLoop
<1>6. CASE ~(S!B1 = 0 \/ S!B2 = 0) /\ S!ToLower(S!B1) # S!ToLower(S!B2)
           /\ S!Answer(S!ToLower(S!B1) - S!ToLower(S!B2))
  BY <1>1, <1>3, <1>6, AnswersInLoop
<1>7. CASE ~(S!B1 = 0 \/ S!B2 = 0) /\ S!ToLower(S!B1) = S!ToLower(S!B2)
           /\ left = 1 /\ S!Answer(0)
  BY <1>1, <1>3, <1>7, AnswersInLoop, SgnTwice
<1>8. CASE ~(S!B1 = 0 \/ S!B2 = 0) /\ S!ToLower(S!B1) = S!ToLower(S!B2)
           /\ left # 1 /\ S!Go(place1 + 1, place2 + 1, left - 1)
  <2>1. left - 1 \in Nat /\ left - 1 > 0
    BY <1>2, <1>8
  <2> QED
    BY <1>1, <1>2, <1>3, <1>8, <2>1, ComparesOn
<1> QED
  BY <1>5, <1>6, <1>7, <1>8 DEF S!Strnicmp

LEMMA StrcasecmpStep == ASSUME SearchInv, S!Strcasecmp PROVE SearchInv'
<1>1. /\ spc = "loop" /\ scall.op = "strcasecmp" /\ S!Look(place1, place2)
      /\ ~Bounded(scall) /\ scall.op \in Comparing /\ scall.op \in Signs
      /\ \A b : Fold(scall, b) = S!ToLower(b)
  BY DEF S!Strcasecmp, S!Op, Bounded, Comparing, Signs, Fold, Folding
<1>2. /\ S!B1 \in Bytes /\ S!B2 \in Bytes /\ Looks
      /\ S!ToLower(S!B1) # S!ToLower(S!B2) =>
           S!Expected = S!Sgn(S!ToLower(S!B1) - S!ToLower(S!B2))
      /\ S!ToLower(S!B1) = S!ToLower(S!B2) /\ S!B1 = 0 => S!Expected = 0
  BY <1>1, CompareBytes
<1>3. CASE S!ToLower(S!B1) = S!ToLower(S!B2) /\ S!B1 # 0
  <2>1. left \in Nat /\ S!Go(place1 + 1, place2 + 1, left)
    BY <1>3 DEF SearchInv, S!Both, S!Strcasecmp
  <2> QED
    BY <1>1, <1>2, <1>3, <2>1, ComparesOn
<1>4. CASE ~(S!ToLower(S!B1) = S!ToLower(S!B2) /\ S!B1 # 0)
  <2>1. S!Answer(S!ToLower(S!B1) - S!ToLower(S!B2))
    BY <1>4 DEF S!Strcasecmp
  <2>2. S!ToLower(S!B1) = S!ToLower(S!B2) => S!ToLower(S!B1) - S!ToLower(S!B2) = 0
    <3>1. S!ToLower(S!B1) \in Bytes /\ S!ToLower(S!B2) \in Bytes
      BY <1>2, LowerByte
    <3> QED
      BY <3>1, NoDifference
  <2> QED
    BY <1>1, <1>2, <1>4, <2>1, <2>2, AnswersInLoop, SgnTwice
<1> QED
  BY <1>3, <1>4

(* Counting down in a size_t. *)
LEMMA LeftIs ==
  ASSUME NEW m \in Nat, SIZES \in Nat \ {0}, m < SIZES
  PROVE  S!Left(m) = IF m = 0 THEN SIZES - 1 ELSE m - 1
<1>1. CASE m = 0
  <2>1. (0 - 1) % SIZES = SIZES - 1
    OBVIOUS
  <2> QED
    BY <1>1, <2>1 DEF S!Left
<1>2. CASE m # 0
  <2>1. m - 1 \in 0..SIZES - 1
    BY <1>2
  <2>2. (m - 1) % SIZES = m - 1
    BY <2>1
  <2> QED
    BY <1>2, <2>2 DEF S!Left
<1> QED
  BY <1>1, <1>2

LEMMA StrncasecmpStep == ASSUME SearchInv, S!Strncasecmp PROVE SearchInv'
<1>1. /\ spc = "loop" /\ scall.op = "strncasecmp" /\ S!Look(place1, place2)
      /\ scall.op \in Comparing /\ scall.op \in Signs /\ scall.op # "memcmp"
      /\ \A b : Fold(scall, b) = S!ToLower(b)
      /\ Bounded(scall) <=> scall.count > 0
  BY DEF S!Strncasecmp, S!Op, Bounded, Comparing, Signs, Fold, Folding
<1>2. /\ scall \in SearchCalls /\ place1 \in Nat \ {0} /\ left \in Nat
      /\ place2 = place1 /\ CompareLoop(scall, place1, left)
      /\ Bounded(scall) => left > 0 /\ left = scall.count - (place1 - 1)
                           /\ place1 <= scall.count
      /\ ~Bounded(scall) => (left = 0 /\ place1 = 1) \/ (left > 0 /\ left = SIZES - (place1 - 1))
      /\ scall.count \in Nat /\ scall.count < SIZES /\ SIZES \in Nat \ {0}
  BY <1>1, CompareFacts, CallIs DEF CompareLoop
<1>3. /\ S!B1 \in Bytes /\ S!B2 \in Bytes /\ Looks
      /\ S!ToLower(S!B1) # S!ToLower(S!B2) =>
           S!Expected = S!Sgn(S!ToLower(S!B1) - S!ToLower(S!B2))
      /\ S!ToLower(S!B1) = S!ToLower(S!B2) /\ S!B1 = 0 => S!Expected = 0
      /\ S!ToLower(S!B1) = S!ToLower(S!B2) /\ S!B1 # 0 /\ Bounded(scall) /\ left = 1 =>
           S!Expected = 0
  BY <1>1, <1>2, CompareBytes
<1>4. /\ Bounded(scall) => S!Left(left) = left - 1
      /\ ~Bounded(scall) => S!Left(left) = SIZES - place1
      /\ S!Left(left) \in Nat
  <2>1. CASE left < SIZES
    BY <1>2, <2>1, LeftIs
  <2>2. CASE ~(left < SIZES)
    <3>1. ~Bounded(scall) /\ left = SIZES /\ place1 = 1
      BY <1>2, <2>2
    <3>2. (SIZES - 1) % SIZES = SIZES - 1
      <4>1. SIZES - 1 \in 0..SIZES - 1
        BY <1>2
      <4> QED
        BY <1>2, <4>1
    <3> QED
      BY <1>2, <3>1, <3>2 DEF S!Left
  <2> QED
    BY <2>1, <2>2
<1>5. CASE S!Left(left) > 0 /\ S!ToLower(S!B1) = S!ToLower(S!B2) /\ S!B1 # 0
  <2>1. S!Go(place1 + 1, place2 + 1, S!Left(left))
    BY <1>5 DEF S!Strncasecmp
  <2> QED
    BY <1>1, <1>2, <1>3, <1>4, <1>5, <2>1, ComparesOn
<1>6. CASE ~(S!Left(left) > 0 /\ S!ToLower(S!B1) = S!ToLower(S!B2) /\ S!B1 # 0)
  <2>1. S!Answer(S!ToLower(S!B1) - S!ToLower(S!B2))
    BY <1>6 DEF S!Strncasecmp
  <2>2. S!ToLower(S!B1) = S!ToLower(S!B2) => S!ToLower(S!B1) - S!ToLower(S!B2) = 0
    <3>1. S!ToLower(S!B1) \in Bytes /\ S!ToLower(S!B2) \in Bytes
      BY <1>3, LowerByte
    <3> QED
      BY <3>1, NoDifference
  <2>3. ASSUME ~Bounded(scall), S!ToLower(S!B1) = S!ToLower(S!B2), S!B1 # 0,
               S!Left(left) = 0
        PROVE  FALSE
    <3>1. place1 = SIZES
      BY <1>2, <1>4, <2>3
    <3>2. place1 <= Len(View(scall, scall.cs))
      BY <1>1, <1>2, <2>3, CompareHere DEF S!B1, S!B2
    <3>3. /\ Len(View(scall, scall.cs)) <= S!Strlen(scall.cs)
          /\ Len(View(scall, scall.cs)) \in Nat
      BY <1>1, <1>2, ViewIs
    <3>4. scall.count = 0
      BY <1>1, <1>2, <2>3
    <3>5. /\ S!Terminated(scall.cs) /\ scall.cs \in Seq(Bytes)
          /\ Len(scall.cs) <= SIZES /\ Len(scall.cs) \in Nat
      BY <1>1, <1>2, <3>4, CallIs
    <3>6. S!Strlen(scall.cs) < Len(scall.cs) /\ S!Strlen(scall.cs) \in Nat
      BY <3>5, TerminatedLength, StrlenIs
    <3> QED
      BY <1>2, <3>1, <3>2, <3>3, <3>5, <3>6
  <2>4. S!ToLower(S!B1) = S!ToLower(S!B2) => S!Expected = 0
    BY <1>2, <1>3, <1>4, <1>6, <2>3
  <2> QED
    BY <1>1, <1>3, <2>1, <2>2, <2>4, AnswersInLoop, SgnTwice
<1> QED
  BY <1>5, <1>6

LEMMA MemcmpStep == ASSUME SearchInv, S!Memcmp PROVE SearchInv'
<1>1. /\ spc = "loop" /\ scall.op = "memcmp"
      /\ Bounded(scall) /\ scall.op \in Comparing /\ scall.op \in Signs
      /\ \A b : Fold(scall, b) = b
  BY DEF S!Memcmp, S!Op, Bounded, Comparing, Signs, Fold, Folding
<1>2. /\ left # 0 => S!B1 \in Bytes /\ S!B2 \in Bytes
      /\ left # 0 /\ S!Look(place1, place2) => Looks
      /\ left # 0 /\ S!B1 # S!B2 => S!Expected = S!Sgn(S!B1 - S!B2)
  BY <1>1, CompareBytes
<1>3. /\ scall \in SearchCalls /\ place1 \in Nat \ {0} /\ left \in Nat
      /\ left = scall.count - (place1 - 1) /\ scall.count \in Nat
      /\ CompareLoop(scall, place1, left)
      /\ left # 0 => place1 <= scall.count
  BY <1>1, CompareFacts
<1>4. CASE left = 0 /\ S!Answer(0) /\ UNCHANGED far
  <2>1. place1 - 1 = scall.count /\ place1 - 1 \in Nat
    BY <1>3, <1>4
  <2>2. /\ Len(View(scall, scall.cs)) <= place1 - 1
        /\ Len(View(scall, scall.ct)) <= place1 - 1
    BY <1>1, <1>3, <2>1, ViewIs
  <2>3. S!Expected = 0
    BY <1>1, <1>3, <2>1, <2>2, EqualSoFar DEF CompareLoop
  <2> QED
    BY <1>1, <1>4, <2>3, AnswersInLoop, SgnTwice DEF Looks
<1>5. CASE left # 0 /\ S!Look(place1, place2) /\ S!B1 # S!B2 /\ S!Answer(S!B1 - S!B2)
  BY <1>1, <1>2, <1>5, AnswersInLoop
<1>6. CASE left # 0 /\ S!Look(place1, place2) /\ S!B1 = S!B2
           /\ S!Go(place1 + 1, place2 + 1, left - 1)
  <2>1. left - 1 \in Nat
    BY <1>3, <1>6
  <2> QED
    BY <1>1, <1>2, <1>3, <1>6, <2>1, ComparesOn
<1> QED
  BY <1>4, <1>5, <1>6 DEF S!Memcmp

LEMMA LeastIs ==
  ASSUME NEW A, A \subseteq Nat, NEW x \in A, \A a \in A : x <= a, NEW d
  PROVE  S!Least(A, d) = x
<1>1. S!Min(A) = x /\ A # {}
  BY MinIsThis
<1> QED
  BY <1>1 DEF S!Least

LEMMA LeastOfNone ==
  ASSUME NEW A, \A a \in A : FALSE, NEW d
  PROVE  S!Least(A, d) = d
<1>1. A = {}
  OBVIOUS
<1> QED
  BY <1>1 DEF S!Least

LEMMA EndsAt ==
  ASSUME scall \in SearchCalls, scall.op \notin S!ForBytes \cup S!Limited
  PROVE  /\ S!Limit(scall.cs) = S!Strlen(scall.cs) + 1
         /\ S!Limit(scall.ct) = S!Strlen(scall.ct) + 1
         /\ Limit2 = S!Strlen(scall.ct) + 1
         /\ S!Strlen(scall.cs) \in Nat /\ S!Strlen(scall.ct) \in Nat
         /\ S!Strlen(scall.cs) + 1 <= Len(scall.cs)
         /\ S!Strlen(scall.ct) + 1 <= Len(scall.ct)
         /\ scall.cs \in Seq(Bytes) /\ scall.ct \in Seq(Bytes)
<1>1. /\ S!Limit(scall.cs) = S!Strlen(scall.cs) + 1
      /\ S!Limit(scall.ct) = S!Strlen(scall.ct) + 1
      /\ Limit2 = S!Strlen(scall.ct) + 1
  BY DEF S!Limit, Limit2, S!End
<1>2. /\ S!Terminated(scall.cs) /\ S!Terminated(scall.ct)
      /\ scall.cs \in Seq(Bytes) /\ scall.ct \in Seq(Bytes)
  BY CallIs
<1>3. /\ S!Strlen(scall.cs) \in 0..Len(scall.cs) /\ Len(scall.cs) \in Nat
      /\ S!Strlen(scall.ct) \in 0..Len(scall.ct) /\ Len(scall.ct) \in Nat
      /\ S!Strlen(scall.cs) < Len(scall.cs) /\ S!Strlen(scall.ct) < Len(scall.ct)
  BY <1>2, StrlenIs, TerminatedLength
<1> QED
  BY <1>1, <1>2, <1>3

LEMMA PassedHere ==
  ASSUME NEW c \in SearchCalls, NEW k, Passed(c, k)
  PROVE  /\ k \in Nat \ {0} /\ S!Strlen(c.cs) \in Nat /\ k <= S!Strlen(c.cs) + 1
         /\ S!Byte(c.cs, k) \in Bytes
         /\ S!Byte(c.cs, k) = 0 <=> k = S!Strlen(c.cs) + 1
         /\ S!Byte(c.cs, k) # 0 => Passed(c, k + 1) /\ k <= S!Strlen(c.cs)
<1>1. /\ k \in Nat \ {0} /\ k - 1 \in Nat /\ (k - 1) + 1 = k
      /\ c.cs \in Seq(Bytes) /\ S!Strlen(c.cs) \in Nat
  BY CallIs, StrlenIs DEF Passed
<1>2. /\ \A x \in 1..k - 1 : S!Byte(c.cs, x) # 0
  BY DEF Passed
<1>3. /\ k - 1 <= S!Strlen(c.cs)
      /\ S!Byte(c.cs, k) = 0 <=> k - 1 = S!Strlen(c.cs)
      /\ S!Byte(c.cs, k) # 0 => k <= S!Strlen(c.cs)
  BY <1>1, <1>2, StrlenAhead
<1>4. S!Byte(c.cs, k) \in Bytes
  BY <1>1, ByteIs
<1>5. ASSUME S!Byte(c.cs, k) # 0 PROVE Passed(c, k + 1)
  <2>1. \A x \in 1..(k + 1) - 1 : x \in 1..k - 1 \/ x = k
    BY <1>1
  <2> QED
    BY <1>1, <1>2, <1>3, <1>5, <2>1 DEF Passed
<1> QED
  BY <1>1, <1>3, <1>4, <1>5

LEMMA CharFacts ==
  ASSUME SearchInv, spc = "loop", scall.op \in OfChars
  PROVE  /\ scall \in SearchCalls /\ place1 \in Nat \ {0} /\ left \in Nat
         /\ place2 \in Nat /\ CharLoop(scall, place1, left)
         /\ scall.op \notin Signs
         /\ scall.cs \in Seq(Bytes) /\ S!B1 \in Bytes /\ scall.count \in Nat
         /\ S!B1 = S!Byte(scall.cs, place1) /\ S!Char = LowByte(scall)
<1>1. /\ scall \in SearchCalls /\ left \in Nat /\ place2 \in Nat
      /\ CharLoop(scall, place1, left) /\ scall.op \notin Signs
  BY DEF SearchInv, SearchLoop, OfChars, Signs
<1>2. place1 \in Nat \ {0} /\ scall.cs \in Seq(Bytes) /\ scall.count \in Nat
  BY <1>1, CallIs DEF CharLoop
<1>3. S!B1 = S!Byte(scall.cs, place1) /\ S!Char = LowByte(scall)
  BY DEF S!B1, S!Char, LowByte
<1> QED
  BY <1>1, <1>2, <1>3, ByteIs

LEMMA CharsOn ==
  ASSUME SearchInv, spc = "loop", scall.op \in OfChars, NEW a \in Nat, NEW m \in Nat,
         S!Go(a, place2, m), Looks, CharLoop(scall, a, m)
  PROVE  SearchInv'
<1>1. SearchLoop(scall, a, place2, m)
  BY DEF SearchLoop, Comparing, OfChars, OfSets, OfStrings
<1> QED
  BY <1>1, Goes DEF SearchInv

LEMMA LooksHere ==
  ASSUME SearchInv, NEW k \in Nat, k <= S!Limit(scall.cs), S!Look(k, 0)
  PROVE  Looks
<1>1. k \in 0..S!Limit(scall.cs) /\ 0 \in 0..Limit2
  BY LimitsAreNat DEF SearchInv
<1> QED
  BY <1>1 DEF Looks

LEMMA WithoutNext ==
  ASSUME NEW c, NEW k \in Nat \ {0}, NEW b, Without(c, k, b), S!Byte(c.cs, k) # b
  PROVE  Without(c, k + 1, b)
<1>1. \A x \in 1..(k + 1) - 1 : x \in 1..k - 1 \/ x = k
  OBVIOUS
<1> QED
  BY <1>1 DEF Without

(* The first place of a byte among the first l.                            *)
LEMMA Found ==
  ASSUME NEW c, NEW l \in Nat, NEW b, NEW A,
         \A x : x \in A <=> x \in 1..l /\ S!Byte(c.cs, x) = b,
         NEW k \in Nat \ {0}, Without(c, k, b), NEW d
  PROVE  /\ k <= l /\ S!Byte(c.cs, k) = b => S!Least(A, d) = k
         /\ k > l => S!Least(A, d) = d
<1>1. A \subseteq Nat
  OBVIOUS
<1>2. ASSUME NEW x \in A PROVE k <= x
  <2>1. x \in 1..l /\ S!Byte(c.cs, x) = b
    OBVIOUS
  <2>2. x \notin 1..k - 1
    BY <2>1 DEF Without
  <2> QED
    BY <2>1, <2>2
<1>3. ASSUME k <= l, S!Byte(c.cs, k) = b PROVE S!Least(A, d) = k
  <2>1. k \in A
    BY <1>3
  <2> QED
    BY <1>1, <1>2, <2>1, LeastIs
<1>4. ASSUME k > l PROVE S!Least(A, d) = d
  <2>1. ASSUME NEW x \in A PROVE FALSE
    BY <1>2, <1>4, <2>1
  <2> QED
    BY <2>1, LeastOfNone
<1> QED
  BY <1>3, <1>4

LEMMA StrchrStep == ASSUME SearchInv, S!Strchr PROVE SearchInv'
<1>1. /\ spc = "loop" /\ scall.op = "strchr" /\ S!Look(place1, 0)
      /\ scall.op \in OfChars /\ scall.op \notin S!ForBytes \cup S!Limited
  BY DEF S!Strchr, S!Op, OfChars, S!ForBytes, S!Limited
<1> DEFINE b == LowByte(scall)
           l == S!Strlen(scall.cs)
           A == {k \in 1..Len(S!Text(scall.cs)) + 1 : scall.cs[k] = S!Char}
<1>2. /\ scall \in SearchCalls /\ place1 \in Nat \ {0} /\ left \in Nat
      /\ place2 \in Nat /\ scall.op \notin Signs
      /\ scall.cs \in Seq(Bytes) /\ S!B1 = S!Byte(scall.cs, place1) /\ S!Char = b
      /\ Passed(scall, place1) /\ Without(scall, place1, b)
  BY <1>1, CharFacts DEF CharLoop
<1>3. /\ l \in Nat /\ l + 1 <= Len(scall.cs) /\ S!Limit(scall.cs) = l + 1
      /\ Len(scall.cs) \in Nat
  BY <1>1, <1>2, EndsAt, CallIs
<1>4. /\ place1 <= l + 1 /\ (S!B1 = 0 <=> place1 = l + 1)
      /\ S!B1 # 0 => Passed(scall, place1 + 1) /\ place1 <= l
  BY <1>2, PassedHere
<1>5. Looks
  BY <1>1, <1>2, <1>3, <1>4, LooksHere
<1>6. S!Expected = S!Least(A, 0)
  BY <1>1 DEF S!Expected, S!NULL
<1>7. \A k : k \in A <=> k \in 1..l + 1 /\ S!Byte(scall.cs, k) = b
  BY <1>2, <1>3, TextIs, ByteIs
<1> HIDE DEF A, b, l
<1>8. /\ S!B1 = b => S!Expected = place1
      /\ S!B1 # b /\ S!B1 = 0 => S!Expected = 0
  <2>1. l + 1 \in Nat
    BY <1>3
  <2>2. /\ place1 <= l + 1 /\ S!B1 = b => S!Expected = place1
    BY <1>2, <1>6, <1>7, <2>1, Found
  <2>3. ASSUME S!B1 # b, S!B1 = 0 PROVE S!Expected = 0
    <3>1. Without(scall, place1 + 1, b)
      BY <1>2, <2>3, WithoutNext
    <3>2. place1 + 1 \in Nat \ {0} /\ place1 + 1 > l + 1
      BY <1>2, <1>3, <1>4, <2>3
    <3> QED
      BY <1>6, <1>7, <2>1, <3>1, <3>2, Found
  <2> QED
    BY <1>4, <2>2, <2>3
<1>9. CASE S!B1 = S!Char /\ S!Answer(place1)
  BY <1>1, <1>2, <1>5, <1>8, <1>9, AnswersInLoop
<1>10. CASE S!B1 # S!Char /\ S!B1 = 0 /\ S!Answer(S!NULL)
  BY <1>1, <1>2, <1>5, <1>8, <1>10, AnswersInLoop DEF S!NULL
<1>11. CASE S!B1 # S!Char /\ S!B1 # 0 /\ S!Go(place1 + 1, place2, left)
  <2>1. CharLoop(scall, place1 + 1, left)
    BY <1>1, <1>2, <1>4, <1>11, WithoutNext DEF CharLoop, b
  <2> QED
    BY <1>1, <1>2, <1>5, <1>11, <2>1, CharsOn
<1> QED
  BY <1>9, <1>10, <1>11 DEF S!Strchr

LEMMA StrrchrStep == ASSUME SearchInv, S!Strrchr PROVE SearchInv'
<1>1. /\ spc = "loop" /\ scall.op = "strrchr" /\ S!Look(place1, 0)
      /\ scall.op \in OfChars /\ scall.op \notin S!ForBytes \cup S!Limited
  BY DEF S!Strrchr, S!Op, OfChars, S!ForBytes, S!Limited
<1> DEFINE b == LowByte(scall)
           l == S!Strlen(scall.cs)
           A == {k \in 1..Len(S!Text(scall.cs)) + 1 : scall.cs[k] = S!Char}
<1>2. /\ scall \in SearchCalls /\ place1 \in Nat \ {0} /\ left \in Nat
      /\ place2 \in Nat /\ scall.op \notin Signs
      /\ scall.cs \in Seq(Bytes) /\ S!B1 = S!Byte(scall.cs, place1) /\ S!Char = b
      /\ place1 <= l + 1
      /\ \A x \in place1 + 1..l + 1 : S!Byte(scall.cs, x) # b
  BY <1>1, CharFacts DEF CharLoop
<1>3. /\ l \in Nat /\ l + 1 <= Len(scall.cs) /\ S!Limit(scall.cs) = l + 1
      /\ Len(scall.cs) \in Nat
  BY <1>1, <1>2, EndsAt, CallIs
<1>4. Looks
  BY <1>1, <1>2, <1>3, LooksHere
<1>5. S!Expected = IF A = {} THEN 0 ELSE S!Max(A)
  BY <1>1 DEF S!Expected, S!NULL
<1>6. \A k : k \in A <=> k \in 1..l + 1 /\ S!Byte(scall.cs, k) = b
  BY <1>2, <1>3, TextIs, ByteIs
<1>7. A \subseteq Nat
  BY <1>3, <1>6
<1> HIDE DEF A, b, l
<1>8. ASSUME NEW x \in A PROVE x \in Nat /\ 1 <= x /\ x <= place1
  <2>1. x \in 1..l + 1 /\ S!Byte(scall.cs, x) = b
    BY <1>6
  <2>2. ~(x \in place1 + 1..l + 1)
    BY <1>2, <2>1
  <2> QED
    BY <1>2, <1>3, <2>1, <2>2
<1>9. CASE S!B1 = S!Char /\ S!Answer(place1)
  <2>1. place1 \in A
    <3>1. place1 \in 1..l + 1 /\ S!Byte(scall.cs, place1) = b
      BY <1>2, <1>3, <1>9
    <3> QED
      BY <1>6, <3>1
  <2>2. S!Max(A) = place1
    BY <1>7, <1>8, <2>1, MaxIsThis
  <2>3. S!Expected = place1
    BY <1>5, <2>1, <2>2
  <2> QED
    BY <1>1, <1>2, <1>4, <1>9, <2>3, AnswersInLoop
<1>10. CASE S!B1 # S!Char /\ place1 > 1 /\ S!Go(place1 - 1, place2, left)
  <2>1. place1 - 1 \in Nat \ {0} /\ place1 - 1 <= l + 1
    BY <1>2, <1>3, <1>10
  <2>2. ASSUME NEW x \in (place1 - 1) + 1..l + 1 PROVE S!Byte(scall.cs, x) # b
    <3>1. x = place1 \/ x \in place1 + 1..l + 1
      BY <1>2, <1>3
    <3> QED
      BY <1>2, <1>10, <3>1
  <2>3. CharLoop(scall, place1 - 1, left)
    BY <1>1, <1>2, <2>1, <2>2 DEF CharLoop, b, l
  <2> QED
    BY <1>1, <1>2, <1>4, <1>10, <2>1, <2>3, CharsOn
<1>11. CASE S!B1 # S!Char /\ place1 = 1 /\ S!Answer(S!NULL)
  <2>1. ASSUME NEW x \in A PROVE FALSE
    <3>1. x = 1 /\ S!Byte(scall.cs, x) = b
      BY <1>6, <1>8, <1>11
    <3> QED
      BY <1>2, <1>11, <3>1
  <2>2. S!Expected = 0
    BY <1>5, <2>1
  <2> QED
    BY <1>1, <1>2, <1>4, <1>11, <2>2, AnswersInLoop DEF S!NULL
<1> QED
  BY <1>9, <1>10, <1>11 DEF S!Strrchr

(* The text up to the limit, as far as it has been read.                   *)
LEMMA LimitedHere ==
  ASSUME NEW c \in SearchCalls, NEW k, Passed(c, k), k <= c.count + 1,
         c.op \in {"strnchr", "strnlen"}
  PROVE  LET t == S!Text(S!Cut(c.cs, c.count)) IN
         /\ t \in Seq(Bytes) /\ Len(t) \in Nat /\ k - 1 <= Len(t)
         /\ k <= c.count =>
              /\ S!Byte(c.cs, k) = 0 <=> Len(t) = k - 1
              /\ S!Byte(c.cs, k) # 0 => k <= Len(t)
         /\ k = c.count + 1 => Len(t) = k - 1
         /\ \A x \in 1..Len(t) : t[x] = S!Byte(c.cs, x)
<1> DEFINE u == S!Cut(c.cs, c.count)
           t == S!Text(u)
<1>1. c.count \in Nat /\ k \in Nat \ {0} /\ c.cs \in Seq(Bytes)
  BY CallIs DEF Passed
<1>2. /\ u \in Seq(Bytes) /\ Len(u) \in Nat /\ Len(u) <= c.count
      /\ \A x \in 1..c.count : S!Byte(u, x) = S!Byte(c.cs, x)
  BY <1>1, CutIs, LenProperties
<1> HIDE DEF u
<1>3. /\ t \in Seq(Bytes) /\ Len(t) = S!Strlen(u)
      /\ S!Strlen(u) \in 0..Len(u)
      /\ \A x \in 1..S!Strlen(u) : t[x] = u[x]
  BY <1>2, TextIs, StrlenIs
<1>4. \A x \in 1..k - 1 : x \in 1..c.count /\ S!Byte(u, x) # 0
  <2>1. \A x \in 1..k - 1 : x \in 1..c.count
    BY <1>1
  <2> QED
    BY <1>2, <2>1 DEF Passed
<1>5. k - 1 \in Nat /\ (k - 1) + 1 = k
  BY <1>1
<1>6. /\ k - 1 <= S!Strlen(u)
      /\ S!Byte(u, k) = 0 <=> k - 1 = S!Strlen(u)
      /\ S!Byte(u, k) # 0 => k <= S!Strlen(u)
  BY <1>2, <1>4, <1>5, StrlenAhead
<1>7. k <= c.count => S!Byte(u, k) = S!Byte(c.cs, k)
  BY <1>1, <1>2
<1>8. k = c.count + 1 => S!Strlen(u) = k - 1
  BY <1>1, <1>2, <1>3, <1>6
<1>9. \A x \in 1..S!Strlen(u) : t[x] = S!Byte(c.cs, x)
  <2> TAKE x \in 1..S!Strlen(u)
  <2>1. x \in 1..Len(u) /\ x \in 1..c.count
    BY <1>1, <1>2, <1>3
  <2>2. u[x] = S!Byte(u, x)
    BY <1>2, <2>1, ByteIs
  <2> QED
    BY <1>2, <1>3, <2>1, <2>2
<1> HIDE DEF t
<1> QED
  BY <1>3, <1>6, <1>7, <1>8, <1>9 DEF t, u

(* The loops that count have read less than the limit.                     *)
LEMMA CountedHere ==
  ASSUME NEW c \in SearchCalls, NEW k \in Nat \ {0}, NEW m, Counted(c, k, m)
  PROVE  /\ m \in Nat /\ c.count \in Nat /\ k <= c.count + 1
         /\ m = 0 => k = c.count + 1
         /\ m # 0 => k <= c.count /\ m - 1 \in Nat /\ Counted(c, k + 1, m - 1)
<1>1. c.count \in Nat /\ m \in Nat /\ m = c.count - (k - 1)
  BY CallIs DEF Counted
<1> QED
  BY <1>1 DEF Counted

LEMMA StrnchrStep == ASSUME SearchInv, S!Strnchr PROVE SearchInv'
<1>1. /\ spc = "loop" /\ scall.op = "strnchr"
      /\ scall.op \in OfChars /\ scall.op \notin S!ForBytes /\ scall.op \in S!Limited
  BY DEF S!Strnchr, S!Op, OfChars, S!ForBytes, S!Limited
<1> DEFINE b == LowByte(scall)
           t == S!Text(S!Cut(scall.cs, scall.count))
           A == {k \in DOMAIN t : t[k] = S!Char}
<1>2. /\ scall \in SearchCalls /\ place1 \in Nat \ {0} /\ left \in Nat
      /\ place2 \in Nat /\ scall.op \notin Signs
      /\ scall.cs \in Seq(Bytes) /\ S!B1 = S!Byte(scall.cs, place1) /\ S!Char = b
      /\ Passed(scall, place1) /\ Without(scall, place1, b)
      /\ Counted(scall, place1, left)
  BY <1>1, CharFacts DEF CharLoop
<1>3. /\ scall.count \in Nat /\ place1 <= scall.count + 1
      /\ left = 0 => place1 = scall.count + 1
      /\ left # 0 => place1 <= scall.count /\ left - 1 \in Nat
                     /\ Counted(scall, place1 + 1, left - 1)
  BY <1>2, CountedHere
<1>4. /\ t \in Seq(Bytes) /\ Len(t) \in Nat /\ place1 - 1 <= Len(t)
      /\ place1 <= scall.count =>
           /\ S!B1 = 0 <=> Len(t) = place1 - 1
           /\ S!B1 # 0 => place1 <= Len(t)
      /\ place1 = scall.count + 1 => Len(t) = place1 - 1
      /\ \A x \in 1..Len(t) : t[x] = S!Byte(scall.cs, x)
  BY <1>1, <1>2, <1>3, LimitedHere
<1>5. /\ place1 <= S!Strlen(scall.cs) + 1 /\ S!Strlen(scall.cs) \in Nat
      /\ S!B1 # 0 => Passed(scall, place1 + 1)
  BY <1>2, PassedHere
<1>6. S!Expected = S!Least(A, 0)
  BY <1>1 DEF S!Expected, S!NULL
<1> HIDE DEF t
<1>7. \A k : k \in A <=> k \in 1..Len(t) /\ S!Byte(scall.cs, k) = b
  BY <1>2, <1>4, LenProperties
<1> HIDE DEF A, b
<1>8. /\ place1 <= Len(t) /\ S!B1 = b => S!Expected = place1
      /\ place1 > Len(t) => S!Expected = 0
  BY <1>2, <1>4, <1>6, <1>7, Found
<1>9. left # 0 /\ S!Look(place1, 0) => Looks
  <2>1. S!Limit(scall.cs) = S!Min({S!Strlen(scall.cs) + 1, scall.count})
    BY <1>1 DEF S!Limit, S!End
  <2>2. left # 0 => place1 <= S!Limit(scall.cs)
    BY <1>2, <1>3, <1>5, <2>1, MinOfTwo
  <2> QED
    BY <1>2, <2>2, LooksHere
<1>10. CASE left = 0 /\ S!Answer(S!NULL) /\ UNCHANGED far
  <2>1. place1 > Len(t)
    BY <1>2, <1>3, <1>4, <1>10
  <2> QED
    BY <1>1, <1>2, <1>8, <1>10, <2>1, AnswersInLoop DEF S!NULL, Looks
<1>11. CASE left # 0 /\ S!Look(place1, 0) /\ S!B1 = 0 /\ S!Answer(S!NULL)
  <2>1. place1 > Len(t)
    BY <1>2, <1>3, <1>4, <1>11
  <2> QED
    BY <1>1, <1>2, <1>8, <1>9, <1>11, <2>1, AnswersInLoop DEF S!NULL
<1>12. CASE left # 0 /\ S!Look(place1, 0) /\ S!B1 # 0 /\ S!B1 = S!Char /\ S!Answer(place1)
  BY <1>1, <1>2, <1>3, <1>4, <1>8, <1>9, <1>12, AnswersInLoop
<1>13. CASE left # 0 /\ S!Look(place1, 0) /\ S!B1 # 0 /\ S!B1 # S!Char
            /\ S!Go(place1 + 1, place2, left - 1)
  <2>1. CharLoop(scall, place1 + 1, left - 1)
    BY <1>1, <1>2, <1>3, <1>5, <1>13, WithoutNext DEF CharLoop, b
  <2> QED
    BY <1>1, <1>2, <1>3, <1>9, <1>13, <2>1, CharsOn
<1> QED
  BY <1>10, <1>11, <1>12, <1>13 DEF S!Strnchr, S!More

(* The loops over bytes that are counted, which read no terminator.        *)
LEMMA ScanFacts ==
  ASSUME SearchInv, spc = "loop", scall.op \in {"memscan", "memchr"}
  PROVE  /\ scall \in SearchCalls /\ place1 \in Nat \ {0} /\ left \in Nat
         /\ scall.op \in OfChars /\ scall.op \notin Signs
         /\ place2 \in Nat /\ scall.cs \in Seq(Bytes) /\ Len(scall.cs) \in Nat
         /\ S!B1 = S!Byte(scall.cs, place1) /\ S!Char = LowByte(scall)
         /\ scall.count \in Nat /\ scall.count <= Len(scall.cs)
         /\ left = 0 => place1 = scall.count + 1
         /\ left # 0 => place1 <= scall.count /\ left - 1 \in Nat
                        /\ Counted(scall, place1 + 1, left - 1)
         /\ left # 0 /\ S!Look(place1, 0) => Looks
<1>1. scall.op \in OfChars /\ scall.op \in S!ForBytes
  BY DEF OfChars, S!ForBytes
<1>2. /\ scall \in SearchCalls /\ place1 \in Nat \ {0} /\ left \in Nat
      /\ scall.op \notin Signs
      /\ place2 \in Nat /\ scall.cs \in Seq(Bytes)
      /\ S!B1 = S!Byte(scall.cs, place1) /\ S!Char = LowByte(scall)
      /\ Counted(scall, place1, left)
  BY <1>1, CharFacts DEF CharLoop
<1>3. Len(scall.cs) \in Nat /\ scall.count <= Len(scall.cs) /\ scall.count \in Nat
  BY <1>1, <1>2, CallIs
<1>4. /\ left = 0 => place1 = scall.count + 1
      /\ left # 0 => place1 <= scall.count /\ left - 1 \in Nat
                     /\ Counted(scall, place1 + 1, left - 1)
  BY <1>2, CountedHere
<1>5. S!Limit(scall.cs) = scall.count
  BY <1>1 DEF S!Limit
<1>6. left # 0 /\ S!Look(place1, 0) => Looks
  BY <1>2, <1>4, <1>5, LooksHere
<1> QED
  BY <1>1, <1>2, <1>3, <1>4, <1>6

LEMMA MemscanStep == ASSUME SearchInv, S!Memscan PROVE SearchInv'
<1>1. spc = "loop" /\ scall.op = "memscan"
  BY DEF S!Memscan, S!Op
<1> DEFINE A == {k \in 1..scall.count : scall.cs[k] = scall.c}
<1>2. /\ scall \in SearchCalls /\ place1 \in Nat \ {0} /\ left \in Nat
      /\ scall.op \in OfChars /\ scall.op \notin Signs
      /\ place2 \in Nat /\ scall.cs \in Seq(Bytes) /\ Len(scall.cs) \in Nat
      /\ S!B1 = S!Byte(scall.cs, place1)
      /\ scall.count \in Nat /\ scall.count <= Len(scall.cs)
      /\ left = 0 => place1 = scall.count + 1
      /\ left # 0 => place1 <= scall.count /\ left - 1 \in Nat
                     /\ Counted(scall, place1 + 1, left - 1)
      /\ left # 0 /\ S!Look(place1, 0) => Looks
  BY <1>1, ScanFacts
<1>3. Without(scall, place1, scall.c)
  BY <1>1, <1>2, CharFacts DEF CharLoop
<1>4. S!Expected = S!Least(A, scall.count + 1)
  BY <1>1 DEF S!Expected
<1>5. \A k : k \in A <=> k \in 1..scall.count /\ S!Byte(scall.cs, k) = scall.c
  BY <1>2, ByteIs
<1> HIDE DEF A
<1>6. /\ place1 <= scall.count /\ S!B1 = scall.c => S!Expected = place1
      /\ place1 > scall.count => S!Expected = scall.count + 1
  BY <1>2, <1>3, <1>4, <1>5, Found
<1>7. CASE left = 0 /\ S!Answer(place1) /\ UNCHANGED far
  BY <1>1, <1>2, <1>6, <1>7, AnswersInLoop DEF Looks
<1>8. CASE left # 0 /\ S!Look(place1, 0) /\ S!B1 = scall.c /\ S!Answer(place1)
  BY <1>1, <1>2, <1>6, <1>8, AnswersInLoop
<1>9. CASE left # 0 /\ S!Look(place1, 0) /\ S!B1 # scall.c
           /\ S!Go(place1 + 1, place2, left - 1)
  <2>1. CharLoop(scall, place1 + 1, left - 1)
    BY <1>1, <1>2, <1>3, <1>9, WithoutNext DEF CharLoop
  <2> QED
    BY <1>1, <1>2, <1>9, <2>1, CharsOn
<1> QED
  BY <1>7, <1>8, <1>9 DEF S!Memscan, S!More

LEMMA MemchrStep == ASSUME SearchInv, S!Memchr PROVE SearchInv'
<1>1. spc = "loop" /\ scall.op = "memchr"
  BY DEF S!Memchr, S!Op
<1> DEFINE b == LowByte(scall)
           A == {k \in 1..scall.count : scall.cs[k] = S!Char}
<1>2. /\ scall \in SearchCalls /\ place1 \in Nat \ {0} /\ left \in Nat
      /\ scall.op \in OfChars /\ scall.op \notin Signs
      /\ place2 \in Nat /\ scall.cs \in Seq(Bytes) /\ Len(scall.cs) \in Nat
      /\ S!B1 = S!Byte(scall.cs, place1) /\ S!Char = b
      /\ scall.count \in Nat /\ scall.count <= Len(scall.cs)
      /\ left = 0 => place1 = scall.count + 1
      /\ left # 0 => place1 <= scall.count /\ left - 1 \in Nat
                     /\ Counted(scall, place1 + 1, left - 1)
      /\ left # 0 /\ S!Look(place1, 0) => Looks
  BY <1>1, ScanFacts
<1>3. Without(scall, place1, b)
  BY <1>1, <1>2, CharFacts DEF CharLoop
<1>4. S!Expected = S!Least(A, 0)
  BY <1>1 DEF S!Expected, S!NULL
<1>5. \A k : k \in A <=> k \in 1..scall.count /\ S!Byte(scall.cs, k) = b
  BY <1>2, ByteIs
<1> HIDE DEF A, b
<1>6. /\ place1 <= scall.count /\ S!B1 = b => S!Expected = place1
      /\ place1 > scall.count => S!Expected = 0
  BY <1>2, <1>3, <1>4, <1>5, Found
<1>7. CASE left = 0 /\ S!Answer(S!NULL) /\ UNCHANGED far
  BY <1>1, <1>2, <1>6, <1>7, AnswersInLoop DEF Looks, S!NULL
<1>8. CASE left # 0 /\ S!Look(place1, 0) /\ S!B1 = S!Char /\ S!Answer(place1)
  BY <1>1, <1>2, <1>6, <1>8, AnswersInLoop
<1>9. CASE left # 0 /\ S!Look(place1, 0) /\ S!B1 # S!Char
           /\ S!Go(place1 + 1, place2, left - 1)
  <2>1. CharLoop(scall, place1 + 1, left - 1)
    BY <1>1, <1>2, <1>3, <1>9, WithoutNext DEF CharLoop, b
  <2> QED
    BY <1>1, <1>2, <1>9, <2>1, CharsOn
<1> QED
  BY <1>7, <1>8, <1>9 DEF S!Memchr, S!More

LEMMA SkipSpacesStep == ASSUME SearchInv, S!SkipSpaces PROVE SearchInv'
<1>1. /\ spc = "loop" /\ scall.op = "skip_spaces" /\ S!Look(place1, 0)
      /\ scall.op \in OfChars /\ scall.op \notin S!ForBytes \cup S!Limited
  BY DEF S!SkipSpaces, S!Op, OfChars, S!ForBytes, S!Limited
<1> DEFINE l == S!Strlen(scall.cs)
           A == {k \in 1..Len(S!Text(scall.cs)) + 1 : ~S!IsSpace(scall.cs[k])}
<1>2. /\ scall \in SearchCalls /\ place1 \in Nat \ {0} /\ left \in Nat
      /\ place2 \in Nat /\ scall.op \notin Signs
      /\ scall.cs \in Seq(Bytes) /\ S!B1 = S!Byte(scall.cs, place1)
      /\ \A x \in 1..place1 - 1 : S!IsSpace(S!Byte(scall.cs, x))
  BY <1>1, CharFacts DEF CharLoop
<1>3. /\ l \in Nat /\ l + 1 <= Len(scall.cs) /\ S!Limit(scall.cs) = l + 1
      /\ Len(scall.cs) \in Nat
  BY <1>1, <1>2, EndsAt, CallIs
<1>4. place1 <= l + 1
  <2>1. place1 - 1 \in Nat /\ \A x \in 1..place1 - 1 : S!Byte(scall.cs, x) # 0
    BY <1>2 DEF S!IsSpace
  <2>2. place1 - 1 <= l
    BY <1>2, <2>1, StrlenAhead
  <2> QED
    BY <1>2, <1>3, <2>2
<1>5. Looks
  BY <1>1, <1>2, <1>3, <1>4, LooksHere
<1>6. S!Expected = S!Min(A)
  BY <1>1 DEF S!Expected
<1>7. \A k : k \in A <=> k \in 1..l + 1 /\ ~S!IsSpace(S!Byte(scall.cs, k))
  BY <1>2, <1>3, TextIs, ByteIs
<1>8. A \subseteq Nat
  BY <1>3, <1>7
<1> HIDE DEF A, l
<1>9. CASE ~S!IsSpace(S!B1) /\ S!Answer(place1)
  <2>1. place1 \in A
    <3>1. place1 \in 1..l + 1 /\ ~S!IsSpace(S!Byte(scall.cs, place1))
      BY <1>2, <1>3, <1>4, <1>9
    <3> QED
      BY <1>7, <3>1
  <2>2. ASSUME NEW x \in A PROVE place1 <= x
    <3>1. x \in 1..l + 1 /\ x \notin 1..place1 - 1
      BY <1>2, <1>7
    <3> QED
      BY <1>2, <1>3, <3>1
  <2>3. S!Expected = place1
    BY <1>6, <1>8, <2>1, <2>2, MinIsThis
  <2> QED
    BY <1>1, <1>2, <1>5, <1>9, <2>3, AnswersInLoop
<1>10. CASE S!IsSpace(S!B1) /\ S!Go(place1 + 1, place2, left)
  <2>1. ASSUME NEW x \in 1..(place1 + 1) - 1 PROVE S!IsSpace(S!Byte(scall.cs, x))
    <3>1. x \in 1..place1 - 1 \/ x = place1
      BY <1>2
    <3> QED
      BY <1>2, <1>10, <3>1
  <2>2. CharLoop(scall, place1 + 1, left)
    BY <1>1, <1>2, <2>1 DEF CharLoop
  <2> QED
    BY <1>1, <1>2, <1>5, <1>10, <2>2, CharsOn
<1> QED
  BY <1>9, <1>10 DEF S!SkipSpaces

LEMMA StrlenStep == ASSUME SearchInv, S!StrlenLoop PROVE SearchInv'
<1>1. /\ spc = "loop" /\ scall.op = "strlen" /\ S!Look(place1, 0)
      /\ scall.op \in OfChars /\ scall.op \notin S!ForBytes \cup S!Limited
  BY DEF S!StrlenLoop, S!Op, OfChars, S!ForBytes, S!Limited
<1>2. /\ scall \in SearchCalls /\ place1 \in Nat \ {0} /\ left \in Nat
      /\ place2 \in Nat /\ scall.op \notin Signs
      /\ scall.cs \in Seq(Bytes) /\ S!B1 = S!Byte(scall.cs, place1)
      /\ Passed(scall, place1)
  BY <1>1, CharFacts DEF CharLoop
<1>3. /\ place1 <= S!Strlen(scall.cs) + 1 /\ S!Strlen(scall.cs) \in Nat
      /\ S!B1 = 0 <=> place1 = S!Strlen(scall.cs) + 1
      /\ S!B1 # 0 => Passed(scall, place1 + 1)
      /\ S!Limit(scall.cs) = S!Strlen(scall.cs) + 1
  <2>1. S!Limit(scall.cs) = S!Strlen(scall.cs) + 1
    BY <1>1, <1>2, EndsAt
  <2>2. /\ place1 <= S!Strlen(scall.cs) + 1 /\ S!Strlen(scall.cs) \in Nat
        /\ S!Byte(scall.cs, place1) = 0 <=> place1 = S!Strlen(scall.cs) + 1
        /\ S!Byte(scall.cs, place1) # 0 => Passed(scall, place1 + 1)
    BY <1>2, PassedHere, Zenon
  <2> QED
    BY <1>2, <2>1, <2>2, Zenon
<1>4. Looks
  BY <1>1, <1>2, <1>3, LooksHere
<1>5. S!Expected = S!Strlen(scall.cs)
  <2>1. S!Expected = Len(S!Text(scall.cs))
    BY <1>1 DEF S!Expected
  <2> QED
    BY <1>2, <2>1, TextIs
<1>6. CASE S!B1 # 0 /\ S!Go(place1 + 1, place2, left)
  <2>1. CharLoop(scall, place1 + 1, left)
    BY <1>1, <1>2, <1>3, <1>6 DEF CharLoop
  <2> QED
    BY <1>1, <1>2, <1>4, <1>6, <2>1, CharsOn
<1>7. CASE S!B1 = 0 /\ S!Answer(place1 - 1)
  <2>1. S!Expected = place1 - 1
    BY <1>3, <1>5, <1>7
  <2> QED
    BY <1>1, <1>2, <1>4, <1>7, <2>1, AnswersInLoop
<1> QED
  BY <1>6, <1>7 DEF S!StrlenLoop

LEMMA StrnlenStep == ASSUME SearchInv, S!Strnlen PROVE SearchInv'
<1>1. /\ spc = "loop" /\ scall.op = "strnlen"
      /\ scall.op \in OfChars /\ scall.op \notin S!ForBytes /\ scall.op \in S!Limited
  BY DEF S!Strnlen, S!Op, OfChars, S!ForBytes, S!Limited
<1> DEFINE t == S!Text(S!Cut(scall.cs, scall.count))
<1>2. /\ scall \in SearchCalls /\ place1 \in Nat \ {0} /\ left \in Nat
      /\ place2 \in Nat /\ scall.op \notin Signs
      /\ S!B1 = S!Byte(scall.cs, place1)
      /\ Passed(scall, place1) /\ Counted(scall, place1, left)
  BY <1>1, CharFacts DEF CharLoop
<1>3. /\ scall.count \in Nat /\ place1 <= scall.count + 1
      /\ left = 0 => place1 = scall.count + 1
      /\ left # 0 => place1 <= scall.count /\ left - 1 \in Nat
                     /\ Counted(scall, place1 + 1, left - 1)
  BY <1>2, CountedHere
<1>4. /\ Len(t) \in Nat
      /\ place1 <= scall.count => (S!B1 = 0 <=> Len(t) = place1 - 1)
      /\ place1 = scall.count + 1 => Len(t) = place1 - 1
  BY <1>1, <1>2, <1>3, LimitedHere
<1>5. /\ place1 <= S!Strlen(scall.cs) + 1 /\ S!Strlen(scall.cs) \in Nat
      /\ S!B1 # 0 => Passed(scall, place1 + 1)
  BY <1>2, PassedHere
<1>6. S!Expected = Len(t)
  BY <1>1 DEF S!Expected
<1> HIDE DEF t
<1>7. left # 0 /\ S!Look(place1, 0) => Looks
  <2>1. S!Limit(scall.cs) = S!Min({S!Strlen(scall.cs) + 1, scall.count})
    BY <1>1 DEF S!Limit, S!End
  <2>2. left # 0 => place1 <= S!Limit(scall.cs)
    BY <1>2, <1>3, <1>5, <2>1, MinOfTwo
  <2> QED
    BY <1>2, <2>2, LooksHere
<1>8. CASE left = 0 /\ S!Answer(place1 - 1) /\ UNCHANGED far
  BY <1>1, <1>2, <1>3, <1>4, <1>6, <1>8, AnswersInLoop DEF Looks
<1>9. CASE left # 0 /\ S!Look(place1, 0) /\ S!B1 = 0 /\ S!Answer(place1 - 1)
  BY <1>1, <1>2, <1>3, <1>4, <1>6, <1>7, <1>9, AnswersInLoop
<1>10. CASE left # 0 /\ S!Look(place1, 0) /\ S!B1 # 0 /\ S!Go(place1 + 1, place2, left - 1)
  <2>1. CharLoop(scall, place1 + 1, left - 1)
    BY <1>1, <1>2, <1>3, <1>5, <1>10 DEF CharLoop
  <2> QED
    BY <1>1, <1>2, <1>3, <1>7, <1>10, <2>1, CharsOn
<1> QED
  BY <1>8, <1>9, <1>10 DEF S!Strnlen, S!More

LEMMA StrtoboolStep == ASSUME SearchInv, S!Strtobool PROVE SearchInv'
<1>1. /\ spc = "loop" /\ scall.op = "strtobool" /\ S!Look(place1, 0)
      /\ scall.op \in OfChars /\ scall.op \notin S!ForBytes \cup S!Limited
  BY DEF S!Strtobool, S!Op, OfChars, S!ForBytes, S!Limited
<1> DEFINE t == S!Text(scall.cs)
<1>2. /\ scall \in SearchCalls /\ scall.op \notin Signs
      /\ scall.cs \in Seq(Bytes) /\ S!B1 = S!Byte(scall.cs, 1) /\ place1 = 1
  BY <1>1, CharFacts DEF CharLoop
<1>3. /\ S!Strlen(scall.cs) \in Nat /\ S!Limit(scall.cs) = S!Strlen(scall.cs) + 1
      /\ Len(scall.cs) \in Nat /\ S!Strlen(scall.cs) + 1 <= Len(scall.cs)
  BY <1>1, <1>2, EndsAt, CallIs
<1>4. Looks
  BY <1>1, <1>2, <1>3, LooksHere
<1>5. /\ t \in Seq(Bytes) /\ Len(t) = S!Strlen(scall.cs)
      /\ \A k \in 1..S!Strlen(scall.cs) : t[k] = scall.cs[k]
  BY <1>2, TextIs
<1>6. S!B1 = 0 <=> S!Strlen(scall.cs) = 0
  <2>1. \A x \in 1..0 : S!Byte(scall.cs, x) # 0
    OBVIOUS
  <2>2. S!Byte(scall.cs, 0 + 1) = 0 <=> 0 = S!Strlen(scall.cs)
    BY <1>2, <2>1, StrlenAhead
  <2> QED
    BY <1>2, <2>2
<1>7. /\ t = <<>> <=> S!B1 = 0
      /\ t # <<>> => t[1] = S!B1
  <2>1. t = <<>> <=> Len(t) = 0
    BY <1>5, EmptySeq
  <2>2. S!Strlen(scall.cs) # 0 => t[1] = scall.cs[1] /\ scall.cs[1] = S!Byte(scall.cs, 1)
    BY <1>2, <1>3, <1>5, ByteIs
  <2> QED
    BY <1>2, <1>5, <1>6, <2>1, <2>2
<1>8. S!Expected = IF t = <<>> THEN <<-S!EINVAL>>
                   ELSE IF t[1] \in {121, 89, 49} THEN <<0, TRUE>>
                   ELSE IF t[1] \in {110, 78, 48} THEN <<0, FALSE>>
                   ELSE <<-S!EINVAL>>
  BY <1>1 DEF S!Expected
<1> HIDE DEF t
<1> DEFINE v == CASE S!B1 \in {121, 89, 49} -> <<0, TRUE>>
                  [] S!B1 \in {110, 78, 48} -> <<0, FALSE>>
                  [] OTHER -> <<-S!EINVAL>>
<1>9. S!Answer(v)
  BY DEF S!Strtobool
<1>10. S!Expected = v
  <2>1. CASE S!B1 \in {121, 89, 49}
    BY <1>7, <1>8, <2>1
  <2>2. CASE S!B1 \in {110, 78, 48}
    <3>1. S!B1 \notin {121, 89, 49} /\ t # <<>> /\ t[1] = S!B1
      BY <1>7, <2>2
    <3>2. S!Expected = <<0, FALSE>>
      BY <1>8, <2>2, <3>1
    <3>3. v = <<0, FALSE>>
      BY <2>2, <3>1
    <3> QED
      BY <3>2, <3>3
  <2>3. CASE S!B1 \notin {121, 89, 49} /\ S!B1 \notin {110, 78, 48}
    BY <1>7, <1>8, <2>3
  <2> QED
    BY <2>1, <2>2, <2>3
<1> HIDE DEF v
<1> QED
  BY <1>1, <1>2, <1>4, <1>9, <1>10, AnswersInLoop

(* The searches for the characters of a set: the places they look for.     *)
Places(c) ==
  LET s == S!Text(c.cs)
      cc == S!Chars(S!Text(c.ct))
  IN {k \in DOMAIN s : IF c.op = "strspn" THEN s[k] \notin cc ELSE s[k] \in cc}

LEMMA FirstPlace ==
  ASSUME NEW l \in Nat, NEW A, A \subseteq 1..l, NEW k \in Nat \ {0},
         \A x \in 1..k - 1 : x \notin A, NEW d
  PROVE  /\ k \in A => S!Least(A, d) = k
         /\ k > l => S!Least(A, d) = d
<1>1. A \subseteq Nat
  OBVIOUS
<1>2. ASSUME NEW x \in A PROVE k <= x
  <2>1. x \in 1..l /\ x \notin 1..k - 1
    OBVIOUS
  <2> QED
    BY <2>1
<1>3. k \in A => S!Least(A, d) = k
  BY <1>1, <1>2, LeastIs
<1>4. ASSUME k > l PROVE S!Least(A, d) = d
  <2>1. ASSUME NEW x \in A PROVE FALSE
    BY <1>2, <1>4, <2>1
  <2> QED
    BY <2>1, LeastOfNone
<1> QED
  BY <1>3, <1>4

LEMMA CharsAre ==
  ASSUME NEW s \in Seq(Bytes), NEW b
  PROVE  b \in S!Chars(S!Text(s)) <=> \E y \in 1..S!Strlen(s) : S!Byte(s, y) = b
<1>1. /\ S!Text(s) \in Seq(Bytes) /\ DOMAIN S!Text(s) = 1..S!Strlen(s)
      /\ \A y \in 1..S!Strlen(s) : S!Text(s)[y] = s[y]
  BY TextIs, LenProperties
<1>2. \A y \in 1..S!Strlen(s) : S!Byte(s, y) = s[y]
  BY StrlenIs, ByteIs
<1> QED
  BY <1>1, <1>2 DEF S!Chars

LEMMA PlacesAre ==
  ASSUME NEW c \in SearchCalls
  PROVE  /\ S!Strlen(c.cs) \in Nat /\ Places(c) \subseteq 1..S!Strlen(c.cs)
         /\ \A k \in 1..S!Strlen(c.cs) :
              k \in Places(c) <=>
                IF c.op = "strspn"
                THEN S!Byte(c.cs, k) \notin S!Chars(S!Text(c.ct))
                ELSE S!Byte(c.cs, k) \in S!Chars(S!Text(c.ct))
<1>0. c.cs \in Seq(Bytes)
  BY CallIs
<1>1. /\ DOMAIN S!Text(c.cs) = 1..S!Strlen(c.cs)
      /\ \A y \in 1..S!Strlen(c.cs) : S!Text(c.cs)[y] = c.cs[y]
  BY <1>0, TextIs, LenProperties
<1>2. S!Strlen(c.cs) \in Nat /\ \A y \in 1..S!Strlen(c.cs) : S!Byte(c.cs, y) = c.cs[y]
  BY <1>0, StrlenIs, ByteIs
<1> QED
  BY <1>1, <1>2 DEF Places

LEMMA SetFacts ==
  ASSUME SearchInv, spc = "loop", scall.op \in OfSets
  PROVE  /\ scall \in SearchCalls /\ scall.op \notin Signs
         /\ place1 \in Nat \ {0} /\ place2 \in Nat \ {0} /\ left \in Nat
         /\ SetLoop(scall, place1, place2, left)
         /\ scall.op \in {"strspn", "strcspn"} => left = place1 - 1
         /\ S!Look(place1, 0) => Looks
         /\ S!Look(place1, place2) => Looks
         /\ S!B1 = 0 => /\ \A d : S!Least(Places(scall), d) = d
                        /\ place1 = S!Strlen(scall.cs) + 1
         /\ S!B1 # 0 =>
              /\ place1 <= S!Strlen(scall.cs) /\ Passed(scall, place1 + 1)
              /\ S!B2 = 0 => S!B1 \notin S!Chars(S!Text(scall.ct))
              /\ S!B2 = S!B1 => S!B1 \in S!Chars(S!Text(scall.ct))
              /\ S!B2 \notin {0, S!B1} => SetLoop(scall, place1, place2 + 1, left)
         /\ place1 \in Places(scall) => \A d : S!Least(Places(scall), d) = place1
<1> DEFINE cc == S!Chars(S!Text(scall.ct))
           l1 == S!Strlen(scall.cs)
           l2 == S!Strlen(scall.ct)
<1>1. /\ scall \in SearchCalls /\ scall.op \notin Signs
      /\ SetLoop(scall, place1, place2, left)
      /\ scall.op \notin S!ForBytes \cup S!Limited
  BY DEF SearchInv, SearchLoop, OfSets, Signs, S!ForBytes, S!Limited
<1>2. /\ place2 \in Nat \ {0} /\ left \in Nat /\ Passed(scall, place1)
      /\ scall.op \in {"strspn", "strcspn"} => left = place1 - 1
      /\ \A x \in 1..place1 - 1 :
           IF scall.op = "strspn" THEN S!Byte(scall.cs, x) \in cc
                                  ELSE S!Byte(scall.cs, x) \notin cc
      /\ place2 - 1 <= l2
      /\ \A y \in 1..place2 - 1 : S!Byte(scall.ct, y) # S!Byte(scall.cs, place1)
  BY <1>1 DEF SetLoop
<1>3. /\ place1 \in Nat \ {0} /\ l1 \in Nat /\ place1 <= l1 + 1
      /\ S!Byte(scall.cs, place1) = 0 <=> place1 = l1 + 1
      /\ S!Byte(scall.cs, place1) # 0 => Passed(scall, place1 + 1) /\ place1 <= l1
  BY <1>1, <1>2, PassedHere
<1>4. /\ S!Limit(scall.cs) = l1 + 1 /\ Limit2 = l2 + 1 /\ l2 \in Nat
      /\ scall.ct \in Seq(Bytes)
  BY <1>1, EndsAt
<1>5. S!B1 = S!Byte(scall.cs, place1) /\ S!B2 = S!Byte(scall.ct, place2)
  BY DEF S!B1, S!B2
<1>6. /\ S!Look(place1, 0) => Looks
      /\ S!Look(place1, place2) => Looks
  <2>1. place1 \in 0..S!Limit(scall.cs) /\ 0 \in 0..Limit2 /\ place2 \in 0..Limit2
    BY <1>2, <1>3, <1>4
  <2> QED
    BY <2>1 DEF Looks
<1>7. Places(scall) \subseteq 1..l1
  BY <1>1, PlacesAre
<1>8. \A x \in 1..place1 - 1 : x \notin Places(scall)
  <2>1. \A x \in 1..place1 - 1 : x \in 1..l1
    BY <1>3
  <2> QED
    BY <1>1, <1>2, <2>1, PlacesAre
<1>9. /\ place1 \in Places(scall) => \A d : S!Least(Places(scall), d) = place1
      /\ place1 > l1 => \A d : S!Least(Places(scall), d) = d
  BY <1>3, <1>7, <1>8, FirstPlace
<1>10. S!B1 = 0 => (\A d : S!Least(Places(scall), d) = d) /\ place1 = l1 + 1
  BY <1>3, <1>5, <1>9
<1>11. /\ l2 \in Nat /\ S!Byte(scall.ct, l2 + 1) = 0
       /\ \A k \in 1..l2 : S!Byte(scall.ct, k) # 0
  BY <1>4, StrlenIs
<1>12. \A b : b \in cc <=> \E y \in 1..l2 : S!Byte(scall.ct, y) = b
  BY <1>4, CharsAre
<1> HIDE DEF cc, l1, l2
<1>13. ASSUME S!B1 # 0, S!B2 = 0 PROVE S!B1 \notin cc
  <2>1. place2 = l2 + 1
    <3>1. ~(place2 \in 1..l2)
      BY <1>5, <1>11, <1>13
    <3> QED
      BY <1>2, <1>4, <3>1
  <2>2. \A y \in 1..l2 : y \in 1..place2 - 1
    BY <1>2, <1>4, <2>1
  <2> QED
    BY <1>2, <1>5, <1>12, <2>2
<1>14. S!B2 # 0 => place2 \in 1..l2
  BY <1>2, <1>4, <1>5, <1>11
<1>15. S!B1 # 0 /\ S!B2 = S!B1 => S!B1 \in cc
  BY <1>5, <1>12, <1>14
<1>16. ASSUME S!B2 \notin {0, S!B1} PROVE SetLoop(scall, place1, place2 + 1, left)
  <2>1. place2 + 1 \in Nat \ {0} /\ (place2 + 1) - 1 <= l2
    BY <1>2, <1>4, <1>14, <1>16
  <2>2. ASSUME NEW y \in 1..(place2 + 1) - 1
        PROVE  S!Byte(scall.ct, y) # S!Byte(scall.cs, place1)
    <3>1. y \in 1..place2 - 1 \/ y = place2
      BY <1>2
    <3> QED
      BY <1>2, <1>5, <1>16, <3>1
  <2> QED
    BY <1>1, <2>1, <2>2 DEF SetLoop, l2
<1>17. S!B1 # 0 => place1 <= l1 /\ Passed(scall, place1 + 1)
  BY <1>3, <1>5
<1> QED
  BY <1>1, <1>2, <1>3, <1>6, <1>9, <1>10, <1>13, <1>15, <1>16, <1>17 DEF cc, l1

LEMMA SetsOn ==
  ASSUME SearchInv, spc = "loop", scall.op \in OfSets, Looks,
         NEW a \in Nat, NEW b \in Nat, NEW m \in Nat,
         S!Go(a, b, m), SetLoop(scall, a, b, m)
  PROVE  SearchInv'
<1>1. SearchLoop(scall, a, b, m)
  BY DEF SearchLoop, Comparing, OfChars, OfSets, OfStrings
<1> QED
  BY <1>1, Goes

(* The character has been judged: on to the next one. *)
LEMMA SetPasses ==
  ASSUME SearchInv, spc = "loop", scall.op \in OfSets, Looks, S!B1 # 0,
         IF scall.op = "strspn" THEN S!B2 = S!B1 ELSE S!B2 = 0,
         NEW m \in Nat, scall.op \in {"strspn", "strcspn"} => m = left + 1,
         S!Go(place1 + 1, 1, m)
  PROVE  SearchInv'
<1> DEFINE cc == S!Chars(S!Text(scall.ct))
<1>1. /\ scall \in SearchCalls /\ place1 \in Nat \ {0} /\ left \in Nat
      /\ SetLoop(scall, place1, place2, left)
      /\ Passed(scall, place1 + 1)
      /\ scall.op \in {"strspn", "strcspn"} => left = place1 - 1
      /\ S!B2 = 0 => S!B1 \notin cc
      /\ S!B2 = S!B1 => S!B1 \in cc
  BY SetFacts
<1>2. S!B1 = S!Byte(scall.cs, place1)
  BY DEF S!B1
<1>3. ASSUME NEW x \in 1..(place1 + 1) - 1
      PROVE  IF scall.op = "strspn" THEN S!Byte(scall.cs, x) \in cc
                                    ELSE S!Byte(scall.cs, x) \notin cc
  <2>1. x \in 1..place1 - 1 \/ x = place1
    BY <1>1
  <2>2. CASE x \in 1..place1 - 1
    BY <1>1, <2>2 DEF SetLoop
  <2>3. CASE x = place1
    BY <1>1, <1>2, <2>3
  <2> QED
    BY <2>1, <2>2, <2>3
<1>4. 1 - 1 <= S!Strlen(scall.ct) /\ \A y \in 1..1 - 1 : FALSE
  <2>1. S!Strlen(scall.ct) \in Nat
    BY <1>1, CallIs, StrlenIs
  <2> QED
    BY <2>1
<1>5. scall.op \in {"strspn", "strcspn"} => m = (place1 + 1) - 1
  BY <1>1
<1>6. SetLoop(scall, place1 + 1, 1, m)
  BY <1>1, <1>3, <1>4, <1>5 DEF SetLoop
<1> QED
  BY <1>1, <1>6, SetsOn

LEMMA StrspnStep == ASSUME SearchInv, S!Strspn PROVE SearchInv'
<1>1. spc = "loop" /\ scall.op = "strspn" /\ scall.op \in OfSets
  BY DEF S!Strspn, S!Op, OfSets
<1>2. /\ scall \in SearchCalls /\ scall.op \notin Signs
      /\ place1 \in Nat \ {0} /\ place2 \in Nat \ {0} /\ left \in Nat
      /\ left = place1 - 1
      /\ S!Look(place1, 0) => Looks
      /\ S!Look(place1, place2) => Looks
      /\ S!B1 = 0 => (\A d : S!Least(Places(scall), d) = d)
                     /\ place1 = S!Strlen(scall.cs) + 1
      /\ S!B1 # 0 =>
           /\ place1 <= S!Strlen(scall.cs)
           /\ S!B2 = 0 => S!B1 \notin S!Chars(S!Text(scall.ct))
           /\ S!B2 \notin {0, S!B1} => SetLoop(scall, place1, place2 + 1, left)
      /\ place1 \in Places(scall) => \A d : S!Least(Places(scall), d) = place1
  BY <1>1, SetFacts
<1>3. S!Expected = S!Least(Places(scall), S!Strlen(scall.cs) + 1) - 1
  <2>1. Len(S!Text(scall.cs)) = S!Strlen(scall.cs)
    BY <1>2, CallIs, TextIs
  <2> QED
    BY <1>1, <2>1 DEF S!Expected, Places
<1>4. CASE S!B1 = 0 /\ S!Answer(left) /\ S!Look(place1, 0)
  <2>1. S!Expected = left
    BY <1>2, <1>3, <1>4
  <2> QED
    BY <1>1, <1>2, <1>4, <2>1, AnswersInLoop
<1>5. CASE S!B1 # 0 /\ S!Look(place1, place2) /\ S!B2 = 0 /\ S!Answer(left)
  <2>1. place1 \in 1..S!Strlen(scall.cs) /\ S!B1 = S!Byte(scall.cs, place1)
    <3>1. S!Strlen(scall.cs) \in Nat
      BY <1>2, PlacesAre
    <3> QED
      BY <1>2, <1>5, <3>1 DEF S!B1
  <2>2. place1 \in Places(scall)
    BY <1>1, <1>2, <1>5, <2>1, PlacesAre
  <2>3. S!Expected = left
    BY <1>2, <1>3, <2>2
  <2> QED
    BY <1>1, <1>2, <1>5, <2>3, AnswersInLoop
<1>6. CASE S!B1 # 0 /\ S!Look(place1, place2) /\ S!B2 = S!B1 /\ S!NextChar
  <2>1. left + 1 \in Nat /\ S!Go(place1 + 1, 1, left + 1)
    BY <1>2, <1>6 DEF S!NextChar
  <2> QED
    BY <1>1, <1>2, <1>6, <2>1, SetPasses
<1>7. CASE S!B1 # 0 /\ S!Look(place1, place2) /\ S!B2 \notin {0, S!B1}
           /\ S!Go(place1, place2 + 1, left)
  BY <1>1, <1>2, <1>7, SetsOn
<1> QED
  BY <1>4, <1>5, <1>6, <1>7 DEF S!Strspn

LEMMA StrcspnStep == ASSUME SearchInv, S!Strcspn PROVE SearchInv'
<1>1. spc = "loop" /\ scall.op = "strcspn" /\ scall.op \in OfSets
  BY DEF S!Strcspn, S!Op, OfSets
<1>2. /\ scall \in SearchCalls /\ scall.op \notin Signs
      /\ place1 \in Nat \ {0} /\ place2 \in Nat \ {0} /\ left \in Nat
      /\ left = place1 - 1
      /\ S!Look(place1, 0) => Looks
      /\ S!Look(place1, place2) => Looks
      /\ S!B1 = 0 => (\A d : S!Least(Places(scall), d) = d)
                     /\ place1 = S!Strlen(scall.cs) + 1
      /\ S!B1 # 0 =>
           /\ place1 <= S!Strlen(scall.cs)
           /\ S!B2 = S!B1 => S!B1 \in S!Chars(S!Text(scall.ct))
           /\ S!B2 \notin {0, S!B1} => SetLoop(scall, place1, place2 + 1, left)
      /\ place1 \in Places(scall) => \A d : S!Least(Places(scall), d) = place1
  BY <1>1, SetFacts
<1>3. S!Expected = S!Least(Places(scall), S!Strlen(scall.cs) + 1) - 1
  <2>1. Len(S!Text(scall.cs)) = S!Strlen(scall.cs)
    BY <1>2, CallIs, TextIs
  <2> QED
    BY <1>1, <2>1 DEF S!Expected, Places
<1>4. CASE S!B1 = 0 /\ S!Answer(left) /\ S!Look(place1, 0)
  <2>1. S!Expected = left
    BY <1>2, <1>3, <1>4
  <2> QED
    BY <1>1, <1>2, <1>4, <2>1, AnswersInLoop
<1>5. CASE S!B1 # 0 /\ S!Look(place1, place2) /\ S!B2 = S!B1 /\ S!Answer(left)
  <2>1. place1 \in 1..S!Strlen(scall.cs) /\ S!B1 = S!Byte(scall.cs, place1)
    <3>1. S!Strlen(scall.cs) \in Nat
      BY <1>2, PlacesAre
    <3> QED
      BY <1>2, <1>5, <3>1 DEF S!B1
  <2>2. place1 \in Places(scall)
    BY <1>1, <1>2, <1>5, <2>1, PlacesAre
  <2>3. S!Expected = left
    BY <1>2, <1>3, <2>2
  <2> QED
    BY <1>1, <1>2, <1>5, <2>3, AnswersInLoop
<1>6. CASE S!B1 # 0 /\ S!Look(place1, place2) /\ S!B2 = 0 /\ S!NextChar
  <2>1. left + 1 \in Nat /\ S!Go(place1 + 1, 1, left + 1)
    BY <1>2, <1>6 DEF S!NextChar
  <2> QED
    BY <1>1, <1>2, <1>6, <2>1, SetPasses
<1>7. CASE S!B1 # 0 /\ S!Look(place1, place2) /\ S!B2 \notin {0, S!B1}
           /\ S!Go(place1, place2 + 1, left)
  BY <1>1, <1>2, <1>7, SetsOn
<1> QED
  BY <1>4, <1>5, <1>6, <1>7 DEF S!Strcspn

LEMMA StrpbrkStep == ASSUME SearchInv, S!Strpbrk PROVE SearchInv'
<1>1. spc = "loop" /\ scall.op = "strpbrk" /\ scall.op \in OfSets
  BY DEF S!Strpbrk, S!Op, OfSets
<1>2. /\ scall \in SearchCalls /\ scall.op \notin Signs
      /\ place1 \in Nat \ {0} /\ place2 \in Nat \ {0} /\ left \in Nat
      /\ S!Look(place1, 0) => Looks
      /\ S!Look(place1, place2) => Looks
      /\ S!B1 = 0 => (\A d : S!Least(Places(scall), d) = d)
      /\ S!B1 # 0 =>
           /\ place1 <= S!Strlen(scall.cs)
           /\ S!B2 = S!B1 => S!B1 \in S!Chars(S!Text(scall.ct))
           /\ S!B2 \notin {0, S!B1} => SetLoop(scall, place1, place2 + 1, left)
      /\ place1 \in Places(scall) => \A d : S!Least(Places(scall), d) = place1
  BY <1>1, SetFacts
<1>3. S!Expected = S!Least(Places(scall), 0)
  BY <1>1 DEF S!Expected, Places, S!NULL
<1>4. CASE S!B1 = 0 /\ S!Answer(S!NULL) /\ S!Look(place1, 0)
  <2>1. S!Expected = S!NULL
    BY <1>2, <1>3, <1>4 DEF S!NULL
  <2> QED
    BY <1>1, <1>2, <1>4, <2>1, AnswersInLoop
<1>5. CASE S!B1 # 0 /\ S!Look(place1, place2) /\ S!B2 = S!B1 /\ S!Answer(place1)
  <2>1. place1 \in 1..S!Strlen(scall.cs) /\ S!B1 = S!Byte(scall.cs, place1)
    <3>1. S!Strlen(scall.cs) \in Nat
      BY <1>2, PlacesAre
    <3> QED
      BY <1>2, <1>5, <3>1 DEF S!B1
  <2>2. place1 \in Places(scall)
    BY <1>1, <1>2, <1>5, <2>1, PlacesAre
  <2>3. S!Expected = place1
    BY <1>2, <1>3, <2>2
  <2> QED
    BY <1>1, <1>2, <1>5, <2>3, AnswersInLoop
<1>6. CASE S!B1 # 0 /\ S!Look(place1, place2) /\ S!B2 = 0 /\ S!Go(place1 + 1, 1, left)
  BY <1>1, <1>2, <1>6, SetPasses
<1>7. CASE S!B1 # 0 /\ S!Look(place1, place2) /\ S!B2 \notin {0, S!B1}
           /\ S!Go(place1, place2 + 1, left)
  BY <1>1, <1>2, <1>7, SetsOn
<1> QED
  BY <1>4, <1>5, <1>6, <1>7 DEF S!Strpbrk

LEMMA OccursIs ==
  ASSUME NEW s \in Seq(Bytes), NEW t \in Seq(Bytes), NEW k
  PROVE  k \in S!Occurrences(s, t) <=>
           /\ k \in 1..Len(s) - Len(t) + 1
           /\ \A y \in 1..Len(t) : S!Byte(s, k + y - 1) = S!Byte(t, y)
<1>1. Len(s) \in Nat /\ Len(t) \in Nat
  BY LenProperties
<1> SUFFICES ASSUME k \in 1..Len(s) - Len(t) + 1
             PROVE  SubSeq(s, k, k + Len(t) - 1) = t <=>
                      \A y \in 1..Len(t) : S!Byte(s, k + y - 1) = S!Byte(t, y)
  BY DEF S!Occurrences
<1> DEFINE u == SubSeq(s, k, k + Len(t) - 1)
<1>2. k \in Int /\ k + Len(t) - 1 \in Int /\ k >= 1 /\ k + Len(t) - 1 <= Len(s)
  BY <1>1
<1>3. \A x \in k..k + Len(t) - 1 : s[x] \in Bytes
  <2>1. \A x \in k..k + Len(t) - 1 : x \in 1..Len(s)
    BY <1>1, <1>2
  <2> QED
    BY <2>1, ElementOfSeq
<1>4. /\ u \in Seq(Bytes)
      /\ Len(u) = IF k <= k + Len(t) - 1 THEN (k + Len(t) - 1) - k + 1 ELSE 0
      /\ \A x \in 1..(k + Len(t) - 1) - k + 1 : u[x] = s[k + x - 1]
  BY <1>2, <1>3, SubSeqProperties
<1>5. (k + Len(t) - 1) - k + 1 = Len(t)
  BY <1>1, <1>2
<1>6. Len(u) = Len(t) /\ \A x \in 1..Len(t) : u[x] = s[k + x - 1]
  BY <1>1, <1>2, <1>4, <1>5
<1>7. ASSUME NEW y \in 1..Len(t)
      PROVE  S!Byte(s, k + y - 1) = u[y] /\ S!Byte(t, y) = t[y]
  <2>1. k + y - 1 \in 1..Len(s)
    BY <1>1, <1>2
  <2> QED
    BY <1>1, <1>6, <2>1, ByteIs
<1> HIDE DEF u
<1>8. (\A y \in 1..Len(t) : u[y] = t[y]) => u = t
  BY <1>4, <1>6, SeqEqual
<1> QED
  BY <1>7, <1>8 DEF u

LEMMA TextBytes ==
  ASSUME NEW s \in Seq(Bytes)
  PROVE  /\ S!Text(s) \in Seq(Bytes) /\ Len(S!Text(s)) = S!Strlen(s)
         /\ S!Strlen(s) \in Nat
         /\ \A y \in 1..S!Strlen(s) : S!Byte(S!Text(s), y) = S!Byte(s, y)
<1>1. S!Strlen(s) \in Nat /\ S!Text(s) \in Seq(Bytes) /\ Len(S!Text(s)) = S!Strlen(s)
  BY TextIs, StrlenIs
<1>2. \A y \in 1..S!Strlen(s) : y \in 1..S!Strlen(s) + 1
  BY <1>1
<1>3. \A y \in 1..S!Strlen(s) + 1 : S!Byte(S!Text(s), y) = S!Byte(s, y)
  BY TextIs
<1> QED
  BY <1>1, <1>2, <1>3

LEMMA FieldIs ==
  ASSUME NEW c \in SearchCalls, c.op \in OfStrings
  PROVE  /\ Field(c) \in Seq(Bytes) /\ Len(Field(c)) \in Nat
         /\ S!Text(c.ct) \in Seq(Bytes) /\ Len(S!Text(c.ct)) = S!Strlen(c.ct)
         /\ S!Strlen(c.ct) \in Nat
         /\ c.op = "strstr" => Len(Field(c)) = S!Strlen(c.cs)
         /\ c.op = "strnstr" => Len(Field(c)) = c.count
         /\ \A x \in 1..Len(Field(c)) : S!Byte(Field(c), x) = S!Byte(c.cs, x)
         /\ \A y \in 1..S!Strlen(c.ct) : S!Byte(S!Text(c.ct), y) = S!Byte(c.ct, y)
<1>1. /\ c.cs \in Seq(Bytes) /\ c.ct \in Seq(Bytes) /\ c.count \in Nat
      /\ c.op = "strnstr" => Len(c.cs) >= c.count
      /\ Len(c.cs) \in Nat
  BY CallIs DEF S!ForBytes
<1>2. /\ S!Text(c.ct) \in Seq(Bytes) /\ Len(S!Text(c.ct)) = S!Strlen(c.ct)
      /\ S!Strlen(c.ct) \in Nat
      /\ \A y \in 1..S!Strlen(c.ct) : S!Byte(S!Text(c.ct), y) = S!Byte(c.ct, y)
  BY <1>1, TextBytes
<1>3. CASE c.op = "strstr"
  <2>1. Field(c) = S!Text(c.cs)
    BY <1>3 DEF Field
  <2>2. /\ S!Text(c.cs) \in Seq(Bytes) /\ Len(S!Text(c.cs)) = S!Strlen(c.cs)
        /\ S!Strlen(c.cs) \in Nat
        /\ \A y \in 1..S!Strlen(c.cs) : S!Byte(S!Text(c.cs), y) = S!Byte(c.cs, y)
    BY <1>1, TextBytes
  <2> QED
    BY <1>2, <1>3, <2>1, <2>2
<1>4. CASE c.op = "strnstr"
  <2>1. Field(c) = S!Cut(c.cs, c.count)
    BY <1>4 DEF Field
  <2>2. /\ S!Cut(c.cs, c.count) \in Seq(Bytes)
        /\ Len(S!Cut(c.cs, c.count)) = c.count
        /\ \A k \in 1..c.count : S!Byte(S!Cut(c.cs, c.count), k) = S!Byte(c.cs, k)
    BY <1>1, <1>4, CutIs
  <2> QED
    BY <1>1, <1>2, <1>4, <2>1, <2>2
<1> QED
  BY <1>3, <1>4 DEF OfStrings

LEMMA SubstringStep ==
  ASSUME SearchInv, spc = "loop", scall.op \in OfStrings, S!Substring
  PROVE  SearchInv'
<1> DEFINE f == Field(scall)
           t == S!Text(scall.ct)
           l2 == S!Strlen(scall.ct)
           byte == S!Byte(scall.cs, place1 + place2 - 1)
           A == S!Occurrences(f, t)
<1>1. /\ scall \in SearchCalls /\ scall.op \notin Signs
      /\ StringLoop(scall, place1, place2, left)
  BY DEF SearchInv, SearchLoop, OfStrings, Signs
<1>2. /\ place1 \in Nat \ {0} /\ left \in Nat /\ left = Len(f) - (place1 - 1)
      /\ l2 > 0 /\ place2 \in Nat \ {0} /\ place2 - 1 <= l2
      /\ \A x \in 1..place1 - 1 : x \notin A
      /\ \A y \in 1..place2 - 1 : S!Byte(f, place1 + y - 1) = S!Byte(scall.ct, y)
  BY <1>1 DEF StringLoop
<1>3. /\ f \in Seq(Bytes) /\ Len(f) \in Nat /\ t \in Seq(Bytes) /\ Len(t) = l2
      /\ l2 \in Nat
      /\ scall.op = "strstr" => Len(f) = S!Strlen(scall.cs)
      /\ scall.op = "strnstr" => Len(f) = scall.count
      /\ \A x \in 1..Len(f) : S!Byte(f, x) = S!Byte(scall.cs, x)
      /\ \A y \in 1..l2 : S!Byte(t, y) = S!Byte(scall.ct, y)
  BY <1>1, FieldIs
<1>4. S!Expected = S!Least(A, 0)
  <2>1. t # <<>>
    BY <1>2, <1>3, EmptySeq
  <2> QED
    BY <2>1 DEF S!Expected, OfStrings, Field, S!NULL
<1>5. \A k : k \in A <=>
        /\ k \in 1..Len(f) - l2 + 1
        /\ \A y \in 1..l2 : S!Byte(f, k + y - 1) = S!Byte(t, y)
  <2> HIDE DEF A, f, t, l2
  <2>1. \A k : k \in S!Occurrences(f, t) <=>
          /\ k \in 1..Len(f) - Len(t) + 1
          /\ \A y \in 1..Len(t) : S!Byte(f, k + y - 1) = S!Byte(t, y)
    BY <1>3, OccursIs
  <2> QED
    BY <1>3, <2>1 DEF A
<1>6. left >= l2 /\ place2 <= l2 =>
        /\ place1 + place2 - 1 \in 1..Len(f)
        /\ S!Byte(f, place1 + place2 - 1) = byte
        /\ S!Look(place1 + place2 - 1, place2) => Looks
  <2> SUFFICES ASSUME left >= l2, place2 <= l2
               PROVE  /\ place1 + place2 - 1 \in 1..Len(f)
                      /\ S!Byte(f, place1 + place2 - 1) = byte
                      /\ S!Look(place1 + place2 - 1, place2) => Looks
    OBVIOUS
  <2>1. place1 + place2 - 1 \in 1..Len(f)
    BY <1>2, <1>3
  <2>2. Len(f) <= S!Limit(scall.cs) /\ S!Limit(scall.cs) \in Nat
    <3>1. CASE scall.op = "strstr"
      <4>1. scall.op \notin S!ForBytes \cup S!Limited
        BY <3>1 DEF S!ForBytes, S!Limited
      <4> QED
        BY <1>1, <1>3, <3>1, <4>1, EndsAt
    <3>2. CASE scall.op = "strnstr"
      <4>1. S!Limit(scall.cs) = scall.count
        BY <3>2 DEF S!Limit, S!ForBytes
      <4> QED
        BY <1>3, <3>2, <4>1
    <3> QED
      BY <3>1, <3>2 DEF OfStrings
  <2>3. Limit2 = l2 + 1
    BY DEF Limit2, S!Limit, S!End, S!ForBytes, S!Limited, OfStrings
  <2>4. /\ place1 + place2 - 1 \in 0..S!Limit(scall.cs)
        /\ place2 \in 0..Limit2
    <3> HIDE DEF f, l2
    <3> QED
      BY <1>2, <1>3, <2>1, <2>2, <2>3
  <2>5. S!Look(place1 + place2 - 1, place2) => Looks
    BY <2>4 DEF Looks
  <2> QED
    BY <1>3, <2>1, <2>5
<1> HIDE DEF f, t, l2, byte, A
<1>7. CASE left < l2 /\ S!Answer(S!NULL) /\ UNCHANGED far
  <2>1. ASSUME NEW x \in A PROVE FALSE
    <3>1. x \in 1..Len(f) - l2 + 1 /\ x \notin 1..place1 - 1
      BY <1>2, <1>5
    <3> QED
      BY <1>2, <1>3, <1>7, <3>1
  <2>2. S!Expected = S!NULL
    BY <1>4, <2>1, LeastOfNone DEF S!NULL
  <2> QED
    BY <1>1, <1>7, <2>2, AnswersInLoop DEF Looks
<1>8. CASE left >= l2 /\ place2 > l2 /\ S!Answer(place1) /\ UNCHANGED far
  <2>1. place2 = l2 + 1 /\ place1 \in 1..Len(f) - l2 + 1
    BY <1>2, <1>3, <1>8
  <2>2. \A y \in 1..l2 : S!Byte(f, place1 + y - 1) = S!Byte(t, y)
    <3>1. \A y \in 1..l2 : y \in 1..place2 - 1
      BY <1>3, <2>1
    <3> QED
      BY <1>2, <1>3, <3>1
  <2>3. place1 \in A
    BY <1>5, <2>1, <2>2
  <2>4. ASSUME NEW x \in A PROVE x \in Nat /\ place1 <= x
    <3>1. x \in 1..Len(f) - l2 + 1 /\ x \notin 1..place1 - 1
      BY <1>2, <1>5
    <3> QED
      BY <1>2, <1>3, <3>1
  <2>5. S!Expected = place1
    <3>1. A \subseteq Nat /\ \A x \in A : place1 <= x
      BY <2>4
    <3> QED
      BY <1>4, <2>3, <3>1, LeastIs
  <2> QED
    BY <1>1, <1>8, <2>5, AnswersInLoop DEF Looks
<1>9. CASE left >= l2 /\ place2 <= l2 /\ S!Look(place1 + place2 - 1, place2)
           /\ byte = S!B2 /\ S!Go(place1, place2 + 1, left)
  <2>1. Looks /\ S!Byte(f, place1 + place2 - 1) = byte
    BY <1>6, <1>9
  <2>2. place2 + 1 \in Nat \ {0} /\ (place2 + 1) - 1 <= l2
    BY <1>2, <1>3, <1>9
  <2>3. ASSUME NEW y \in 1..(place2 + 1) - 1
        PROVE  S!Byte(f, place1 + y - 1) = S!Byte(scall.ct, y)
    <3>1. y \in 1..place2 - 1 \/ y = place2
      BY <1>2
    <3> QED
      BY <1>2, <1>9, <2>1, <3>1 DEF S!B2
  <2>4. StringLoop(scall, place1, place2 + 1, left)
    BY <1>2, <2>2, <2>3 DEF StringLoop, f, t, l2, A
  <2>5. SearchLoop(scall, place1, place2 + 1, left)
    BY <2>4 DEF SearchLoop, Comparing, OfChars, OfSets, OfStrings
  <2> QED
    BY <1>2, <1>9, <2>1, <2>2, <2>5, Goes
<1>10. CASE left >= l2 /\ place2 <= l2 /\ S!Look(place1 + place2 - 1, place2)
            /\ byte # S!B2 /\ S!NextPlace
  <2>1. Looks /\ S!Byte(f, place1 + place2 - 1) = byte
    BY <1>6, <1>10
  <2>2. place1 \notin A
    <3>1. place2 \in 1..l2 /\ S!Byte(t, place2) = S!B2
      BY <1>2, <1>3, <1>10 DEF S!B2
    <3> QED
      BY <1>5, <1>10, <2>1, <3>1
  <2>3. /\ place1 + 1 \in Nat \ {0} /\ left - 1 \in Nat
        /\ left - 1 = Len(f) - ((place1 + 1) - 1)
        /\ 1 \in Nat \ {0} /\ 1 - 1 <= l2
    BY <1>2, <1>3, <1>10
  <2>4. ASSUME NEW x \in 1..(place1 + 1) - 1 PROVE x \notin A
    <3>1. x \in 1..place1 - 1 \/ x = place1
      BY <1>2
    <3> QED
      BY <1>2, <2>2, <3>1
  <2>5. StringLoop(scall, place1 + 1, 1, left - 1)
    BY <1>2, <2>3, <2>4 DEF StringLoop, f, t, l2, A
  <2>6. SearchLoop(scall, place1 + 1, 1, left - 1)
    BY <2>5 DEF SearchLoop, Comparing, OfChars, OfSets, OfStrings
  <2>7. S!Go(place1 + 1, 1, left - 1)
    BY <1>10 DEF S!NextPlace
  <2> QED
    BY <2>1, <2>3, <2>6, <2>7, Goes
<1> QED
  BY <1>7, <1>8, <1>9, <1>10 DEF S!Substring, byte, l2

-----------------------------------------------------------------------------
(* sysfs_streq: the texts that a string stands for.                        *)
LEMMA ReadingsAre ==
  ASSUME NEW s \in Seq(Bytes)
  PROVE  /\ Len(s) \in Nat /\ s \in S!Readings(s)
         /\ Len(s) > 0 /\ s[Len(s)] = 10 => S!Cut(s, Len(s) - 1) \in S!Readings(s)
         /\ \A z \in S!Readings(s) :
              /\ z \in Seq(Bytes) /\ Len(z) \in Nat /\ Len(z) <= Len(s)
              /\ Len(z) = Len(s) \/ (Len(z) = Len(s) - 1 /\ s[Len(s)] = 10)
              /\ \A x \in 1..Len(z) : z[x] = s[x]
<1>1. Len(s) \in Nat /\ (s # <<>> <=> Len(s) > 0)
  BY LenProperties, EmptySeq
<1>2. s \in S!Readings(s)
  BY DEF S!Readings
<1>3. Len(s) > 0 /\ s[Len(s)] = 10 => S!Cut(s, Len(s) - 1) \in S!Readings(s)
  BY <1>1 DEF S!Readings, S!NEWLINE
<1>4. ASSUME NEW z \in S!Readings(s)
      PROVE  /\ z \in Seq(Bytes) /\ Len(z) \in Nat /\ Len(z) <= Len(s)
             /\ Len(z) = Len(s) \/ (Len(z) = Len(s) - 1 /\ s[Len(s)] = 10)
             /\ \A x \in 1..Len(z) : z[x] = s[x]
  <2>1. CASE z = s
    BY <1>1, <2>1
  <2>2. CASE s # <<>> /\ s[Len(s)] = 10 /\ z = S!Cut(s, Len(s) - 1)
    <3>1. Len(s) - 1 \in Nat /\ Len(s) - 1 < Len(s)
      BY <1>1, <2>2
    <3>2. /\ z \in Seq(Bytes) /\ Len(z) = Len(s) - 1
          /\ \A k \in 1..Len(s) - 1 : S!Byte(z, k) = S!Byte(s, k)
      BY <2>2, <3>1, CutIs
    <3>3. \A x \in 1..Len(z) : z[x] = s[x]
      <4> TAKE x \in 1..Len(z)
      <4>1. x \in 1..Len(s) /\ x \in 1..Len(s) - 1
        BY <1>1, <3>2
      <4> QED
        BY <3>2, <4>1, ByteIs
    <3> QED
      BY <1>1, <2>2, <3>1, <3>2, <3>3
  <2> QED
    BY <2>1, <2>2 DEF S!Readings, S!NEWLINE
<1> QED
  BY <1>1, <1>2, <1>3, <1>4

(* s ends with a newline where t ends. *)
LEMMA ReadingsMeet ==
  ASSUME NEW s \in Seq(Bytes), NEW t \in Seq(Bytes), NEW k \in Nat \ {0},
         Len(s) = k, Len(t) = k - 1, s[k] = 10,
         \A x \in 1..k - 1 : s[x] = t[x]
  PROVE  S!Readings(s) \cap S!Readings(t) # {}
<1>1. /\ S!Cut(s, k - 1) \in Seq(Bytes) /\ Len(S!Cut(s, k - 1)) = k - 1
      /\ \A x \in 1..k - 1 : S!Byte(S!Cut(s, k - 1), x) = S!Byte(s, x)
  <2>1. k - 1 \in Nat /\ k - 1 < Len(s)
    OBVIOUS
  <2> QED
    BY <2>1, CutIs
<1>2. \A x \in 1..k - 1 : S!Cut(s, k - 1)[x] = t[x]
  <2> TAKE x \in 1..k - 1
  <2>1. x \in 1..Len(s) /\ x \in 1..Len(S!Cut(s, k - 1))
    BY <1>1
  <2> QED
    BY <1>1, <2>1, ByteIs
<1>3. S!Cut(s, k - 1) = t
  BY <1>1, <1>2, SeqEqual
<1>4. t \in S!Readings(s) /\ t \in S!Readings(t)
  BY <1>3, ReadingsAre
<1> QED
  BY <1>4

(* Where the texts differ, only a newline that ends one of them makes up   *)
(* for it.                                                                 *)
LEMMA ReadingsDiffer ==
  ASSUME NEW s \in Seq(Bytes), NEW t \in Seq(Bytes), NEW k \in Nat \ {0},
         k - 1 <= Len(s), k - 1 <= Len(t), S!Byte(s, k) # S!Byte(t, k),
         S!Readings(s) \cap S!Readings(t) # {}
  PROVE  \/ Len(s) = k /\ Len(t) = k - 1 /\ s[k] = 10
         \/ Len(t) = k /\ Len(s) = k - 1 /\ t[k] = 10
<1>1. PICK z : z \in S!Readings(s) /\ z \in S!Readings(t)
  OBVIOUS
<1>2. /\ Len(z) \in Nat /\ Len(s) \in Nat /\ Len(t) \in Nat
      /\ Len(z) <= Len(s) /\ Len(z) <= Len(t)
      /\ Len(z) = Len(s) \/ (Len(z) = Len(s) - 1 /\ s[Len(s)] = 10)
      /\ Len(z) = Len(t) \/ (Len(z) = Len(t) - 1 /\ t[Len(t)] = 10)
      /\ \A x \in 1..Len(z) : z[x] = s[x] /\ z[x] = t[x]
  BY <1>1, ReadingsAre
<1>3. /\ k <= Len(s) => S!Byte(s, k) = s[k]
      /\ k > Len(s) => S!Byte(s, k) = 0
      /\ k <= Len(t) => S!Byte(t, k) = t[k]
      /\ k > Len(t) => S!Byte(t, k) = 0
  <2>1. /\ k <= Len(s) => k \in 1..Len(s)
        /\ k > Len(s) => k \notin 1..Len(s)
        /\ k <= Len(t) => k \in 1..Len(t)
        /\ k > Len(t) => k \notin 1..Len(t)
    BY <1>2
  <2> QED
    BY <2>1, ByteIs
<1>4. Len(z) < k
  <2> SUFFICES ASSUME k <= Len(z) PROVE FALSE
    BY <1>2
  <2>1. k \in 1..Len(z) /\ k <= Len(s) /\ k <= Len(t)
    BY <1>2
  <2> QED
    BY <1>2, <1>3, <2>1
<1> QED
  BY <1>2, <1>3, <1>4

LEMMA SysfsStreqStep == ASSUME SearchInv, S!SysfsStreq PROVE SearchInv'
<1> DEFINE k == place1
           l1 == S!Strlen(scall.cs)
           l2 == S!Strlen(scall.ct)
           s == S!Text(scall.cs)
           t == S!Text(scall.ct)
           same == S!Readings(s) \cap S!Readings(t) # {}
<1>1. /\ spc = "loop" /\ scall.op = "sysfs_streq"
      /\ scall.op \notin S!ForBytes \cup S!Limited /\ scall.op \notin Signs
  BY DEF S!SysfsStreq, S!Op, S!ForBytes, S!Limited, Signs
<1>2. /\ scall \in SearchCalls /\ StreqLoop(scall, place1, place2)
  BY <1>1 DEF SearchInv, SearchLoop
<1>3. /\ Passed(scall, k) /\ place2 = k /\ left \in Nat
      /\ \A x \in 1..k - 1 : S!Byte(scall.cs, x) = S!Byte(scall.ct, x)
  BY <1>2 DEF StreqLoop, SearchInv
<1>4. /\ k \in Nat \ {0} /\ l1 \in Nat /\ k <= l1 + 1
      /\ S!Byte(scall.cs, k) = 0 <=> k = l1 + 1
      /\ S!Byte(scall.cs, k) # 0 => Passed(scall, k + 1) /\ k <= l1
  BY <1>2, <1>3, PassedHere
<1>5. /\ S!Limit(scall.cs) = l1 + 1 /\ Limit2 = l2 + 1 /\ l2 \in Nat
      /\ scall.cs \in Seq(Bytes) /\ scall.ct \in Seq(Bytes)
  BY <1>1, <1>2, EndsAt
<1>6. /\ k - 1 <= l2
      /\ S!Byte(scall.ct, k) = 0 <=> k - 1 = l2
      /\ S!Byte(scall.ct, k) # 0 => k <= l2
  <2>1. k - 1 \in Nat /\ (k - 1) + 1 = k
    BY <1>4
  <2>2. \A x \in 1..k - 1 : S!Byte(scall.ct, x) # 0
    BY <1>3 DEF Passed
  <2> QED
    BY <1>5, <2>1, <2>2, StrlenAhead
<1>7. /\ s \in Seq(Bytes) /\ t \in Seq(Bytes) /\ Len(s) = l1 /\ Len(t) = l2
      /\ \A x \in 1..l1 + 1 : S!Byte(s, x) = S!Byte(scall.cs, x)
      /\ \A x \in 1..l2 + 1 : S!Byte(t, x) = S!Byte(scall.ct, x)
  BY <1>5, TextIs
<1>8. S!B1 = S!Byte(scall.cs, k) /\ S!B2 = S!Byte(scall.ct, k)
  BY <1>3 DEF S!B1, S!B2
<1>9. S!Expected = same
  BY <1>1 DEF S!Expected
<1>10. /\ S!Byte(s, k) = S!B1 /\ S!Byte(t, k) = S!B2
       /\ k <= l1 => S!B1 = s[k]
       /\ k <= l2 => S!B2 = t[k]
       /\ \A x \in 1..k - 1 : s[x] = t[x]
  <2>1. k \in 1..l1 + 1 /\ k \in 1..l2 + 1
    BY <1>4, <1>5, <1>6
  <2>2. S!Byte(s, k) = S!B1 /\ S!Byte(t, k) = S!B2
    BY <1>7, <1>8, <2>1
  <2>3. /\ \A x \in 1..l1 : S!Byte(s, x) = s[x]
        /\ \A x \in 1..l2 : S!Byte(t, x) = t[x]
    BY <1>4, <1>5, <1>7, ByteIs
  <2>4. \A x \in 1..k - 1 : s[x] = t[x]
    <3> TAKE x \in 1..k - 1
    <3>1. x \in 1..l1 /\ x \in 1..l2 /\ x \in 1..l1 + 1 /\ x \in 1..l2 + 1
      BY <1>4, <1>5, <1>6
    <3> QED
      BY <1>3, <1>7, <2>3, <3>1
  <2> QED
    BY <1>4, <1>5, <2>2, <2>3, <2>4
<1>11. ASSUME S!Byte(scall.cs, k + 1) = 0, S!B1 # 0 PROVE l1 = k
  <2>1. k + 1 \in Nat \ {0} /\ Passed(scall, k + 1)
    BY <1>4, <1>8, <1>11
  <2>2. k + 1 = l1 + 1
    BY <1>2, <1>11, <2>1, PassedHere
  <2> QED
    BY <1>4, <2>2
<1>12. ASSUME S!Byte(scall.ct, k + 1) = 0, S!B2 # 0 PROVE l2 = k
  <2>1. \A x \in 1..k : S!Byte(scall.ct, x) # 0
    <3> TAKE x \in 1..k
    <3>1. x = k \/ x \in 1..k - 1
      BY <1>4
    <3> QED
      BY <1>3, <1>8, <1>12, <3>1 DEF Passed
  <2>2. k \in Nat
    BY <1>4
  <2> QED
    BY <1>5, <1>12, <2>1, <2>2, StrlenAhead
<1> DEFINE newline1 == S!B1 = 10 /\ S!Byte(scall.cs, place1 + 1) = 0 /\ S!B2 = 0
           newline2 == S!B1 = 0 /\ S!B2 = 10 /\ S!Byte(scall.ct, place2 + 1) = 0
<1>13. /\ l1 = k => S!Byte(scall.cs, k + 1) = 0
       /\ l2 = k => S!Byte(scall.ct, k + 1) = 0
  BY <1>5, StrlenIs
<1> HIDE DEF s, t, l1, l2, same
<1>14. CASE S!B1 # 0 /\ S!B1 = S!B2 /\ S!Both /\ S!Look(place1, place2)
  <2>1. Looks
    <3>1. place1 \in 0..S!Limit(scall.cs) /\ place2 \in 0..Limit2
      BY <1>3, <1>4, <1>5, <1>6
    <3> QED
      BY <1>14, <3>1 DEF Looks
  <2>2. StreqLoop(scall, place1 + 1, place2 + 1)
    <3>1. ASSUME NEW x \in 1..(place1 + 1) - 1
          PROVE  S!Byte(scall.cs, x) = S!Byte(scall.ct, x)
      <4>1. x \in 1..place1 - 1 \/ x = place1
        BY <1>4
      <4> QED
        BY <1>3, <1>8, <1>14, <4>1
    <3> QED
      BY <1>3, <1>4, <1>8, <1>14, <3>1 DEF StreqLoop
  <2>3. SearchLoop(scall, place1 + 1, place2 + 1, left)
    BY <1>1, <2>2 DEF SearchLoop, Comparing, OfChars, OfSets, OfStrings
  <2>4. /\ S!Go(place1 + 1, place2 + 1, left)
        /\ place1 + 1 \in Nat /\ place2 + 1 \in Nat
    BY <1>3, <1>4, <1>14 DEF S!Both
  <2> QED
    BY <1>1, <1>3, <2>1, <2>3, <2>4, Goes
<1>15. CASE S!B1 = 0 /\ S!B1 = S!B2 /\ S!Answer(TRUE) /\ S!Look(place1, place2)
  <2>1. Looks
    <3>1. place1 \in 0..S!Limit(scall.cs) /\ place2 \in 0..Limit2
      BY <1>3, <1>4, <1>5, <1>6
    <3> QED
      BY <1>15, <3>1 DEF Looks
  <2>2. l1 = k - 1 /\ l2 = k - 1
    BY <1>4, <1>5, <1>6, <1>8, <1>15
  <2>3. s = t
    BY <1>7, <1>10, <2>2, SeqEqual
  <2>4. same = TRUE
    <3>1. s \in S!Readings(s)
      BY <1>7, ReadingsAre
    <3> QED
      BY <2>3, <3>1 DEF same
  <2> QED
    BY <1>1, <1>9, <1>15, <2>1, <2>4, AnswersInLoop
<1>16. CASE /\ S!B1 # S!B2 /\ S!Answer(newline1 \/ newline2)
            /\ S!Look(IF S!B1 = 10 THEN place1 + 1 ELSE place1,
                      IF S!B1 = 0 /\ S!B2 = 10 THEN place2 + 1 ELSE place2)
  <2> DEFINE a == IF S!B1 = 10 THEN place1 + 1 ELSE place1
             b == IF S!B1 = 0 /\ S!B2 = 10 THEN place2 + 1 ELSE place2
  <2>1. Looks
    <3>1. a \in 0..S!Limit(scall.cs)
      BY <1>4, <1>5, <1>8
    <3>2. b \in 0..Limit2
      BY <1>3, <1>4, <1>5, <1>6, <1>8
    <3>3. S!Look(a, b)
      BY <1>16
    <3> HIDE DEF a, b
    <3> QED
      BY <3>1, <3>2, <3>3 DEF Looks
  <2>2. ASSUME newline1 PROVE same
    <3>1. l1 = k /\ l2 = k - 1 /\ s[k] = 10
      BY <1>4, <1>5, <1>6, <1>8, <1>10, <1>11, <2>2
    <3> QED
      BY <1>4, <1>7, <1>10, <3>1, ReadingsMeet DEF same
  <2>3. ASSUME newline2 PROVE same
    <3>1. l2 = k /\ l1 = k - 1 /\ t[k] = 10
      BY <1>3, <1>4, <1>5, <1>6, <1>8, <1>10, <1>12, <2>3
    <3>2. S!Readings(t) \cap S!Readings(s) # {}
      BY <1>4, <1>7, <1>10, <3>1, ReadingsMeet
    <3> QED
      BY <3>2 DEF same
  <2>4. ASSUME same PROVE newline1 \/ newline2
    <3>1. \/ Len(s) = k /\ Len(t) = k - 1 /\ s[k] = 10
          \/ Len(t) = k /\ Len(s) = k - 1 /\ t[k] = 10
      <4>1. k - 1 <= Len(s) /\ k - 1 <= Len(t) /\ S!Byte(s, k) # S!Byte(t, k)
        BY <1>4, <1>6, <1>7, <1>10, <1>16
      <4> QED
        BY <1>4, <1>7, <2>4, <4>1, ReadingsDiffer DEF same
    <3>2. CASE Len(s) = k /\ Len(t) = k - 1 /\ s[k] = 10
      <4>1. l1 = k /\ l2 = k - 1
        BY <1>7, <3>2
      <4> QED
        BY <1>4, <1>6, <1>8, <1>10, <1>13, <3>2, <4>1
    <3>3. CASE Len(t) = k /\ Len(s) = k - 1 /\ t[k] = 10
      <4>1. l2 = k /\ l1 = k - 1
        BY <1>7, <3>3
      <4> QED
        BY <1>3, <1>4, <1>5, <1>6, <1>8, <1>10, <1>13, <3>3, <4>1
    <3> QED
      BY <3>1, <3>2, <3>3
  <2>5. (newline1 \/ newline2) = same
    <3>1. same \in BOOLEAN
      BY DEF same
    <3> HIDE DEF newline1, newline2
    <3> QED
      BY <2>2, <2>3, <2>4, <3>1
  <2> HIDE DEF newline1, newline2
  <2> QED
    BY <1>1, <1>9, <1>16, <2>1, <2>5, AnswersInLoop
<1> QED
  BY <1>14, <1>15, <1>16 DEF S!SysfsStreq, S!NEWLINE

LEMMA SearchInvInit == ASSUME S!Init PROVE SearchInv
<1>1. PICK c \in SearchCalls : S!Begin(c)
  BY DEF S!Init
<1>2. /\ scall \in SearchCalls /\ spc = "call" /\ place1 = 1 /\ place2 = 1
      /\ left = scall.count /\ far = <<0, 0>>
  BY <1>1 DEF S!Begin
<1>3. left \in Nat
  BY <1>2, CallIs
<1>4. S!ReadsInside
  BY <1>2, LimitsAreNat DEF S!ReadsInside, Limit2
<1> QED
  BY <1>2, <1>3, <1>4 DEF SearchInv, S!AnswerRight

(* What comes before the loop. *)
LEMMA Starts ==
  ASSUME SearchInv, spc = "call", UNCHANGED <<scall, place2, sret>>, spc' = "loop",
         NEW a \in Nat, place1' = a, NEW m \in Nat, left' = m, Looks,
         SearchLoop(scall, a, 1, m)
  PROVE  SearchInv'
<1>1. far' \in Nat \X Nat /\ S!ReadsInside'
  BY Looked
<1> QED
  BY <1>1 DEF SearchInv, S!AnswerRight

LEMMA PassedNone ==
  ASSUME NEW c \in SearchCalls PROVE Passed(c, 1) /\ S!Strlen(c.cs) \in Nat
<1>1. S!Strlen(c.cs) \in Nat
  BY CallIs, StrlenIs
<1> QED
  BY <1>1 DEF Passed

LEMMA StartLoop ==
  ASSUME NEW c \in SearchCalls,
         c.op \notin {"strrchr", "strspn", "strcspn", "strstr", "strnstr"},
         c.op = "strnicmp" => c.count # 0
  PROVE  SearchLoop(c, 1, 1, c.count)
<1>1. /\ c.count \in Nat /\ Passed(c, 1) /\ S!Strlen(c.ct) \in Nat
      /\ \A x \in 1..1 - 1 : FALSE
  BY CallIs, StrlenIs, PassedNone
<1>2. c.op \in Comparing => CompareLoop(c, 1, c.count)
  <2> SUFFICES ASSUME c.op \in Comparing PROVE CompareLoop(c, 1, c.count)
    OBVIOUS
  <2>1. Len(View(c, c.cs)) \in Nat /\ Len(View(c, c.ct)) \in Nat
    BY ViewIs
  <2>2. c.op \in {"strnicmp", "strncasecmp"} /\ Bounded(c) => c.count > 0
    BY <1>1 DEF Bounded
  <2>3. c.op = "strncasecmp" /\ ~Bounded(c) => c.count = 0
    BY <1>1 DEF Bounded
  <2> QED
    BY <1>1, <2>1, <2>2, <2>3 DEF CompareLoop
<1>3. c.op = "sysfs_streq" => StreqLoop(c, 1, 1)
  BY <1>1 DEF StreqLoop
<1>4. c.op \in OfChars => CharLoop(c, 1, c.count)
  BY <1>1 DEF CharLoop, Without, Counted
<1>5. c.op \in OfSets => SetLoop(c, 1, 1, c.count)
  BY <1>1 DEF SetLoop, OfSets
<1>6. c.op \notin OfStrings
  BY DEF OfStrings
<1> QED
  BY <1>2, <1>3, <1>4, <1>5, <1>6 DEF SearchLoop

LEMMA StartStep == ASSUME SearchInv, S!Start PROVE SearchInv'
<1> DEFINE l1 == S!Strlen(scall.cs)
           l2 == S!Strlen(scall.ct)
           Ready(a, m) == spc' = "loop" /\ place1' = a /\ left' = m /\ UNCHANGED sret
           Ends(v) == spc' = "done" /\ sret' = v /\ UNCHANGED <<place1, left>>
<1>1. /\ spc = "call" /\ UNCHANGED <<scall, place2>> /\ scall \in SearchCalls
      /\ place1 = 1 /\ place2 = 1 /\ left = scall.count /\ left \in Nat
  BY DEF S!Start, SearchInv
<1>2. l1 \in Nat /\ l2 \in Nat /\ Passed(scall, 1) /\ \A x \in 1..1 - 1 : FALSE
  BY <1>1, CallIs, StrlenIs, PassedNone
<1>3. CASE scall.op = "strrchr"
  <2>1. Ready(l1 + 1, left) /\ S!Look(l1 + 1, 0)
    BY <1>3 DEF S!Start
  <2>2. S!Limit(scall.cs) = l1 + 1
    BY <1>3 DEF S!Limit, S!End, S!ForBytes, S!Limited
  <2>3. Looks
    BY <1>2, <2>1, <2>2, LooksHere
  <2>4. CharLoop(scall, l1 + 1, left)
    BY <1>1, <1>2, <1>3 DEF CharLoop
  <2>5. SearchLoop(scall, l1 + 1, 1, left)
    BY <1>3, <2>4 DEF SearchLoop, Comparing, OfChars, OfSets, OfStrings
  <2>6. l1 + 1 \in Nat
    BY <1>2
  <2> HIDE DEF l1
  <2> QED
    BY <1>1, <2>1, <2>3, <2>5, <2>6, Starts
<1>4. CASE scall.op \in OfStrings /\ l2 > 0
  <2> DEFINE m == Len(Field(scall))
  <2>1. /\ m \in Nat
        /\ scall.op = "strstr" => m = l1
        /\ scall.op = "strnstr" => m = scall.count
    BY <1>1, <1>4, FieldIs
  <2>2. /\ scall.op = "strstr" => Ready(1, l1) /\ S!Look(l1 + 1, l2 + 1)
        /\ scall.op = "strnstr" => Ready(1, left) /\ S!Look(0, l2 + 1)
    BY <1>4 DEF S!Start
  <2>3. Ready(1, m)
    BY <1>1, <1>4, <2>1, <2>2 DEF OfStrings
  <2>4. Looks
    <3>1. Limit2 = l2 + 1 /\ (scall.op = "strstr" => S!Limit(scall.cs) = l1 + 1)
          /\ S!Limit(scall.cs) \in Nat
      BY <1>1, <1>4, LimitsAreNat
      DEF Limit2, S!Limit, S!End, S!ForBytes, S!Limited, OfStrings
    <3>2. /\ l2 + 1 \in 0..Limit2 /\ 0 \in 0..S!Limit(scall.cs)
          /\ scall.op = "strstr" => l1 + 1 \in 0..S!Limit(scall.cs)
      BY <1>2, <3>1
    <3> QED
      BY <1>4, <2>2, <3>2 DEF Looks, OfStrings
  <2>5. StringLoop(scall, 1, 1, m)
    BY <1>2, <1>4, <2>1 DEF StringLoop
  <2>6. SearchLoop(scall, 1, 1, m)
    BY <1>4, <2>5 DEF SearchLoop, Comparing, OfChars, OfSets, OfStrings
  <2> HIDE DEF m
  <2> QED
    BY <1>1, <2>1, <2>3, <2>4, <2>6, Starts
<1>5. CASE scall.op \in OfStrings /\ ~(l2 > 0)
  <2>1. l2 = 0
    BY <1>2, <1>5
  <2>2. Ends(1) /\ S!Look(0, 1)
    BY <1>5, <2>1 DEF S!Start, OfStrings
  <2>3. Looks
    <3>1. Limit2 = 1 /\ 0 \in 0..S!Limit(scall.cs)
      BY <1>1, <1>5, <2>1, LimitsAreNat
      DEF Limit2, S!Limit, S!End, S!ForBytes, S!Limited, OfStrings
    <3>2. 1 \in 0..Limit2
      BY <3>1
    <3> QED
      BY <2>2, <3>1, <3>2 DEF Looks
  <2> DEFINE s == S!Text(scall.cs)
             t == S!Text(scall.ct)
  <2>4. /\ t \in Seq(Bytes) /\ Len(t) = 0 /\ t = <<>>
        /\ s \in Seq(Bytes) /\ Len(s) \in Nat
    BY <1>1, <2>1, CallIs, TextIs, EmptySeq, LenProperties
  <2>5. S!Expected = 1
    <3>1. CASE scall.op = "strnstr"
      BY <2>4, <3>1 DEF S!Expected
    <3>2. CASE scall.op = "strstr"
      <4> HIDE DEF s, t
      <4>1. 1 \in S!Occurrences(s, t)
        <5>1. 1 \in 1..Len(s) - Len(t) + 1 /\ \A y \in 1..Len(t) : FALSE
          BY <2>4
        <5>2. s \in Seq(Bytes) /\ t \in Seq(Bytes)
          BY <2>4
        <5> QED
          BY <5>1, <5>2, OccursIs
      <4>2. \A x \in S!Occurrences(s, t) : x \in Nat /\ 1 <= x
        BY <2>4 DEF S!Occurrences
      <4>3. S!Least(S!Occurrences(s, t), 0) = 1
        BY <4>1, <4>2, LeastIs
      <4> QED
        BY <3>2, <4>3 DEF S!Expected, S!NULL, s, t
    <3> QED
      BY <1>5, <3>1, <3>2 DEF OfStrings
  <2>6. scall.op \notin Signs
    BY <1>5 DEF Signs, OfStrings
  <2> QED
    BY <1>1, <2>2, <2>3, <2>5, <2>6, Answers
<1>6. CASE scall.op = "strnicmp" /\ left = 0
  <2>1. Ends(0) /\ UNCHANGED far
    BY <1>6 DEF S!Start
  <2>2. /\ scall.op \in Comparing /\ Bounded(scall) /\ scall.op \in Signs
    BY <1>6 DEF Comparing, Bounded, Signs
  <2>3. /\ Len(View(scall, scall.cs)) <= 0 /\ Len(View(scall, scall.ct)) <= 0
    BY <1>1, <1>6, <2>2, ViewIs
  <2>4. S!Expected = 0
    BY <1>1, <2>2, <2>3, EqualSoFar
  <2> QED
    BY <1>1, <2>1, <2>2, <2>4, Answers, SgnTwice DEF Looks
<1>7. CASE scall.op \in {"strspn", "strcspn"}
  <2>1. Ready(1, 0) /\ UNCHANGED far
    BY <1>7 DEF S!Start
  <2>2. SetLoop(scall, 1, 1, 0)
    BY <1>2 DEF SetLoop
  <2>3. SearchLoop(scall, 1, 1, 0)
    BY <1>7, <2>2 DEF SearchLoop, Comparing, OfChars, OfSets, OfStrings
  <2> QED
    BY <1>1, <2>1, <2>3, Starts DEF Looks
<1>8. CASE /\ scall.op \notin {"strrchr", "strspn", "strcspn", "strstr", "strnstr"}
           /\ ~(scall.op = "strnicmp" /\ left = 0)
  <2>1. Ready(1, left) /\ UNCHANGED far
    BY <1>8 DEF S!Start
  <2>2. SearchLoop(scall, 1, 1, left)
    BY <1>1, <1>8, StartLoop
  <2> QED
    BY <1>1, <2>1, <2>2, Starts DEF Looks
<1> QED
  BY <1>3, <1>4, <1>5, <1>6, <1>7, <1>8 DEF OfStrings

LEMMA SearchInvStutters ==
  ASSUME SearchInv, UNCHANGED searchVars PROVE SearchInv'
<1>1. UNCHANGED far /\ scall' = scall
  BY DEF searchVars
<1>2. far' \in Nat \X Nat /\ S!ReadsInside'
  BY <1>1, Looked DEF Looks
<1>3. S!AnswerRight'
  BY SameExpected DEF S!AnswerRight, SearchInv, searchVars
<1> QED
  BY <1>2, <1>3 DEF SearchInv, searchVars

LEMMA SearchInvNext ==
  ASSUME SearchInv, [LibsNext]_libVars PROVE SearchInv'
<1>1. CASE UNCHANGED searchVars
  BY <1>1, SearchInvStutters
<1>2. CASE S!Next
  <2>1. CASE S!Strstr \/ S!Strnstr
    BY <2>1, SubstringStep DEF S!Strstr, S!Strnstr, S!Op, OfStrings
  <2> QED
    BY <1>2, <2>1, StartStep, StrcmpStep, StrncmpStep, StrnicmpStep, StrcasecmpStep,
       StrncasecmpStep, MemcmpStep, SysfsStreqStep, StrtoboolStep, StrchrStep,
       StrrchrStep, StrnchrStep, MemscanStep, MemchrStep, SkipSpacesStep,
       StrlenStep, StrnlenStep, StrspnStep, StrcspnStep, StrpbrkStep
    DEF S!Next
<1> QED
  BY <1>1, <1>2
  DEF LibsNext, PutDecStep, FormatStep, SearchStep, CopyStep, libVars

(* Every comparison and search of string.c, called as its contract asks,   *)
(* answers what it is for and reads no byte behind a terminator or its     *)
(* limit.                                                                  *)
THEOREM SearchesAreRight == LibsSpec => []SearchRight
<1>1. LibsInit => SearchInv
  BY SearchInvInit DEF LibsInit
<1>2. SearchInv /\ [LibsNext]_libVars => SearchInv'
  BY SearchInvNext
<1>3. SearchInv => SearchRight
  BY DEF SearchInv, SearchRight, S!SearchRight
<1> QED
  BY <1>1, <1>2, <1>3, PTL DEF LibsSpec
=============================================================================
