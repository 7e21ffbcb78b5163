------------------------------- MODULE PutDec -------------------------------
(***************************************************************************)
(* put_dec_trunc8 of libs/vsprintf.c: the decimal digits of a number below *)
(* 10^8, the last one first, without a division.  Tenths come from         *)
(* products and shifts whose constants are right only up to a bound each,  *)
(* so every step has to keep its number below that bound.                  *)
(*                                                                         *)
(* Digits are numbers, without '0' added.                                  *)
(***************************************************************************)
EXTENDS Integers, Sequences

CONSTANT Numbers   \* the numbers it is called for

MAX == 100000000   \* 100*1000*1000

ASSUME NumbersAssumption == Numbers \subseteq 0..MAX - 1

VARIABLES n, r, q, buf, stage
putDecVars == <<n, r, q, buf, stage>>

(* The product with 0x1999999a, shifted by 32.  It has up to 56 bits; here *)
(* it is put together from the halves of the factors, 6553 and 39322 those *)
(* of the constant.  (39322 / 65536 is taken as 19661 / 32768.)            *)
Tenth32(x) ==
  LET h == x \div 65536
      l == x % 65536
  IN h * 6553 + ((h * 39322 + l * 6553 + ((l * 19661) \div 32768)) \div 65536)

(* Mutant: the constant rounded down, 0x1999. *)
Tenth16Low(x) == (x * 6553) \div 65536
Tenth16(x) == (x * 6554) \div 65536

Tenth11(x) == (x * 205) \div 2048

PutDecInit ==
  /\ n \in Numbers /\ r = n /\ q = 0 /\ buf = <<>> /\ stage = "loop"

(* while (r >= 10000). *)
Large == r >= 10000

Loop ==
  /\ stage = "loop" /\ Large
  /\ r' = Tenth32(r)
  /\ buf' = Append(buf, r - 10 * r')
  /\ UNCHANGED <<n, q, stage>>

Fourth ==
  /\ stage = "loop" /\ ~Large
  /\ q' = Tenth16(r)
  /\ buf' = Append(buf, r - 10 * q')
  /\ stage' = IF q' = 0 THEN "done" ELSE "third"
  /\ UNCHANGED <<n, r>>

Third ==
  /\ stage = "third"
  /\ r' = Tenth11(q)
  /\ buf' = Append(buf, q - 10 * r')
  /\ stage' = IF r' = 0 THEN "done" ELSE "second"
  /\ UNCHANGED <<n, q>>

Second ==
  /\ stage = "second"
  /\ q' = Tenth11(r)
  /\ buf' = Append(buf, r - 10 * q')
  /\ stage' = IF q' = 0 THEN "done" ELSE "first"
  /\ UNCHANGED <<n, r>>

(* The first digit of the number, the last one written. *)
First ==
  /\ stage = "first"
  /\ buf' = Append(buf, q)
  /\ stage' = "done"
  /\ UNCHANGED <<n, r, q>>

PutDecNext == Loop \/ Fourth \/ Third \/ Second \/ First

PutDecSpec == PutDecInit /\ [][PutDecNext]_putDecVars

-----------------------------------------------------------------------------
(* 10^(k-1) *)
Power == <<1, 10, 100, 1000, 10000, 100000, 1000000, 10000000, 100000000>>

(* What is left to convert. *)
Rest == IF stage \in {"loop", "second"} THEN r
        ELSE IF stage = "done" THEN 0 ELSE q

(* At every step what is written are the last digits of n and what is left *)
(* is the rest of it: no product is used beyond the bound up to which it   *)
(* is the tenth.                                                           *)
DigitsSoFar ==
  /\ Len(buf) <= 8
  /\ Rest = n \div Power[Len(buf) + 1]
  /\ \A k \in 1..Len(buf) : buf[k] = (n \div Power[k]) % 10

(* There is no leading zero, except that 0 has one digit: put_dec's caller *)
(* counts the digits to place them.                                        *)
NoLeadingZero ==
  stage = "done" => Len(buf) >= 1 /\ (Len(buf) > 1 => buf[Len(buf)] > 0)
=============================================================================
