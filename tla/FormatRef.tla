----------------------------- MODULE FormatRef ------------------------------
(***************************************************************************)
(* What ISO C says a conversion prints, written down from the conversion's *)
(* parts instead of the format's characters: the reference for Format.     *)
(*                                                                         *)
(* A directive is a record of flags, width, precision, qualifier and       *)
(* conversion.  A width or a precision is a record of how it is given      *)
(* ("no", "digits" or "star") and its number.                              *)
(***************************************************************************)
EXTENDS Integers, Sequences

(* Numbers with their representations: as a word, the sign and the digits  *)
(* of the decimal one, and the digits of the word in base 16 and 8.        *)
Sample(w, dec, hex, oct) == [w |-> w, dec |-> dec, hex |-> hex, oct |-> oct]
Zero == Sample(0, <<"0">>, <<"0">>, <<"0">>)
Seven == Sample(7, <<"7">>, <<"7">>, <<"7">>)
Beef == Sample(48879, <<"4", "8", "8", "7", "9">>, <<"b", "e", "e", "f">>,
               <<"1", "3", "7", "3", "5", "7">>)
Minus == Sample(-10, <<"1", "0">>,
                <<"f", "f", "f", "f", "f", "f", "f", "6">>,
                <<"3", "7", "7", "7", "7", "7", "7", "7", "7", "6", "6">>)
EightDigits == Sample(99999999, [k \in 1..8 |-> "9"],
                      <<"5", "f", "5", "e", "0", "f", "f">>,
                      <<"5", "7", "5", "3", "6", "0", "3", "7", "7">>)

Upper(c) == CASE c = "a" -> "A" [] c = "b" -> "B" [] c = "c" -> "C"
              [] c = "d" -> "D" [] c = "e" -> "E" [] c = "f" -> "F"
              [] c = "x" -> "X" [] OTHER -> c
UpperAll(text) == [k \in DOMAIN text |-> Upper(text[k])]

Signed(d) == d.conv \in {"d", "i"}
DigitsOf(d, v) == CASE d.conv \in {"d", "i", "u"} -> v.dec
                    [] d.conv = "o" -> v.oct [] d.conv = "x" -> v.hex
                    [] d.conv = "X" -> UpperAll(v.hex)

Fill(c, n) == [k \in 1..(IF n > 0 THEN n ELSE 0) |-> c]

Left(d) == "-" \in d.flags \/ (d.width.how = "star" /\ d.width.n < 0)
WidthOf(d) == IF d.width.n < 0 THEN -d.width.n ELSE d.width.n
HasPrecision(d) == d.precision.how # "no" /\ d.precision.n >= 0

(* A field of the directive's width around the text, which may begin with  *)
(* a sign or a prefix that zeros go behind.                                *)
Field(d, head, body, zeros) ==
  LET missing == WidthOf(d) - Len(head) - Len(body)
  IN IF Left(d) THEN head \o body \o Fill(" ", missing)
     ELSE IF zeros THEN head \o Fill("0", missing) \o body
     ELSE Fill(" ", missing) \o head \o body

IntegerText(d, v) ==
  LET digits == DigitsOf(d, v)
      sign == IF ~Signed(d) THEN <<>>
              ELSE IF v.w < 0 THEN <<"-">>
              ELSE IF "+" \in d.flags THEN <<"+">>
              ELSE IF " " \in d.flags THEN <<" ">> ELSE <<>>
      prefix == IF "#" \notin d.flags \/ v.w = 0 THEN <<>>
                ELSE CASE d.conv = "x" -> <<"0", "x">>
                       [] d.conv = "X" -> <<"0", "X">>
                       [] d.conv = "o" -> <<"0">>
                       [] OTHER -> <<>>
      body == IF HasPrecision(d)
              THEN Fill("0", d.precision.n - Len(digits)) \o digits ELSE digits
  IN Field(d, sign \o prefix, body, "0" \in d.flags)

(* Where the code does not do what ISO C says: 0 with a precision, the     *)
(* number 0 with the precision 0 or with #x, # with octal digits that      *)
(* begin with 0 for their precision, and an unsigned number of more than   *)
(* eight decimal digits.                                                   *)
IntegerAsIso(d, v) ==
  /\ ~("0" \in d.flags /\ HasPrecision(d))
  /\ v.w = 0 => ~(HasPrecision(d) /\ d.precision.n = 0)
  /\ v.w = 0 /\ "#" \in d.flags => d.conv \notin {"x", "X"}
  /\ d.conv = "o" /\ "#" \in d.flags => ~HasPrecision(d)
  /\ d.conv = "u" => v.w >= 0

StringOf(d, text) ==
  Field(d, <<>>, IF HasPrecision(d) /\ d.precision.n < Len(text)
                 THEN SubSeq(text, 1, d.precision.n) ELSE text, FALSE)

(* The directive's characters, and the words it takes for its stars. *)
OneDigit(n) ==
  <<"0", "1", "2", "3", "4", "5", "6", "7", "8", "9">>[n + 1]
FlagOrder == <<"-", "+", " ", "#", "0">>
Given(part, dot) ==
  CASE part.how = "no" -> <<>>
    [] part.how = "digits" ->
         dot \o (IF part.n < 10 THEN <<OneDigit(part.n)>>
                 ELSE <<OneDigit(part.n \div 10), OneDigit(part.n % 10)>>)
    [] part.how = "star" -> dot \o <<"*">>

Characters(d) ==
  <<"%">> \o SelectSeq(FlagOrder, LAMBDA c : c \in d.flags)
  \o Given(d.width, <<>>) \o Given(d.precision, <<".">>) \o d.qualifier
  \o <<d.conv>>

Stars(d) == (IF d.width.how = "star" THEN <<d.width.n>> ELSE <<>>)
            \o (IF d.precision.how = "star" THEN <<d.precision.n>> ELSE <<>>)
=============================================================================
