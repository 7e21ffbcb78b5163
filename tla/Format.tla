------------------------------- MODULE Format -------------------------------
(***************************************************************************)
(* The formatted output of libs/vsprintf.c: format_decode, string, number, *)
(* vsnprintf's loop over the tokens, and sprintf, snprintf and vscnprintf  *)
(* on top of it.                                                           *)
(*                                                                         *)
(* A text is a sequence of characters, each a string; NUL ends the format  *)
(* and the result.  The arguments are the 32-bit words on the stack, a     *)
(* pointer to a string being its place in Strings, 0 the null pointer.     *)
(* Widths and precisions are small, so that no s16 overflows.  put_dec is  *)
(* what PutDec shows it to be.                                             *)
(***************************************************************************)
EXTENDS Integers, Sequences, SequencesExt, FiniteSetsExt

CONSTANTS
  Calls,    \* the calls: records of op, size, fmt and args, and for those
            \* with known text, that text and what %n stores
  Strings,  \* what the pointers among the arguments point to
  BUF, TOP, \* where the buffer begins, and the last address there is
  INT_MAX   \* the largest int, as far as sizes are concerned

NUL == "NUL"
BEYOND == "BEYOND"    \* what lies behind the format

ASSUME AddressAssumption ==
  /\ BUF \in Nat \ {0} /\ TOP \in Nat /\ INT_MAX \in Nat
  /\ BUF <= TOP /\ BUF + INT_MAX > TOP

ASSUME CallsAssumption ==
  /\ \A c \in Calls : c.size \in Nat /\ c.fmt \in Seq(STRING)
  /\ Strings \in Seq(Seq(STRING))

VARIABLES
  label, call,
  fmt, old_fmt,      \* the place in the format, and where the token began
  spec,              \* what was decoded of it
  arg,               \* how many words were taken from the arguments
  num,               \* vsnprintf's variable, as <<high, low>> word
  str, end, size,    \* addresses
  mem,               \* the bytes written so far: a function of the address
  counted,           \* what %n stored
  ret

vars == <<label, call, fmt, old_fmt, spec, arg, num, str, end, size, mem, counted,
          ret>>

-----------------------------------------------------------------------------
(* For format_decode.  p is a place in the format f, s the spec so far.    *)
At(f, p) == IF p <= Len(f) THEN f[p] ELSE IF p = Len(f) + 1 THEN NUL ELSE BEYOND

Digit == <<"0", "1", "2", "3", "4", "5", "6", "7", "8", "9">>
IsDigit(c) == \E k \in 1..10 : Digit[k] = c
Value(c) == CHOOSE k \in 0..9 : Digit[k + 1] = c

(* The first place from p on where the format has something outside S. *)
Past(f, p, S) == CHOOSE k \in p..Len(f) + 2 :
                   At(f, k) \notin S /\ \A j \in p..k - 1 : At(f, j) \in S
Digits == {Digit[k] : k \in 1..10}
(* skip_atoi's loop: value[k] is its i behind the character at k. *)
SkipAtoi(f, p) ==
  LET last == Past(f, p, Digits) - 1
      value[k \in p - 1..last] ==
        IF k < p THEN 0 ELSE value[k - 1] * 10 + Value(f[k])
  IN value[last]

(* Where the text at p ends. *)
LiteralEnd(f, p) == CHOOSE k \in p..Len(f) + 1 :
                      At(f, k) \in {"%", NUL} /\ \A j \in p..k - 1 : At(f, j) # "%"

FlagOf(c) == CASE c = "-" -> "LEFT" [] c = "+" -> "PLUS" [] c = " " -> "SPACE"
               [] c = "#" -> "SPECIAL" [] c = "0" -> "ZEROPAD" [] OTHER -> c
FlagChars == {"-", "+", " ", "#", "0"}

(* The type of an integer conversion. *)
NumberType(qualifier, flags) ==
  LET signed == "SIGN" \in flags IN
  CASE qualifier = "L" -> "LONG_LONG"
    [] qualifier = "l" -> IF signed THEN "LONG" ELSE "ULONG"
    [] qualifier \in {"z", "Z"} -> "SIZE_T"
    [] qualifier = "t" -> "PTRDIFF"
    [] qualifier = "H" -> IF signed THEN "BYTE" ELSE "UBYTE"
    [] qualifier = "h" -> IF signed THEN "SHORT" ELSE "USHORT"
    [] OTHER -> IF signed THEN "INT" ELSE "UINT"

(* The conversion c: what becomes of the spec, whose base is 10 so far.    *)
Integer(s, base, flags) ==
  LET all == s.flags \cup flags
  IN [s EXCEPT !.base = base, !.flags = all,
               !.type = NumberType(s.qualifier, all)]
Convert(s, c) ==
  CASE c = "c" -> [s EXCEPT !.type = "CHAR"]
    [] c = "s" -> [s EXCEPT !.type = "STR"]
    [] c = "p" -> [s EXCEPT !.type = "PTR"]
    [] c = "n" -> [s EXCEPT !.type = "NRCHARS"]
    [] c = "%" -> [s EXCEPT !.type = "PERCENT_CHAR"]
    [] c = "o" -> Integer(s, 8, {})
    [] c = "x" -> Integer(s, 16, {"SMALL"})
    [] c = "X" -> Integer(s, 16, {})
    [] c \in {"d", "i"} -> Integer(s, 10, {"SIGN"})
    [] c = "u" -> Integer(s, 10, {})
    [] OTHER -> [s EXCEPT !.type = "INVALID"]

(* A width that comes from the arguments. *)
WidthArgument(s) ==
  IF s.field_width < 0
  THEN [s EXCEPT !.type = "NONE", !.field_width = -s.field_width,
                 !.flags = @ \cup {"LEFT"}]
  ELSE [s EXCEPT !.type = "NONE"]

-----------------------------------------------------------------------------
(* What the conversions append. *)
Repeat(c, count) == [k \in 1..(IF count > 0 THEN count ELSE 0) |-> c]

(* string() *)
NULL_TEXT == <<"(", "n", "u", "l", "l", ")">>
StringText(s, pointer) ==
  LET text == IF pointer = 0 THEN NULL_TEXT ELSE Strings[pointer]
      len == IF s.precision >= 0 /\ s.precision < Len(text) THEN s.precision
             ELSE Len(text)
      pad == Repeat(" ", s.field_width - len)
  IN IF "LEFT" \in s.flags THEN SubSeq(text, 1, len) \o pad
                           ELSE pad \o SubSeq(text, 1, len)

(* What is left of the width in the spec afterwards, here and in the       *)
(* number case, nobody reads.                                              *)
CharText(s, c) ==
  LET pad == Repeat(" ", s.field_width - 1)
  IN IF "LEFT" \in s.flags THEN <<c>> \o pad ELSE pad \o <<c>>

(* 64-bit numbers: two words, each from -2^31 on. *)
IsNegative(v) == v[1] < 0
Negate(v) == IF v[2] = 0 THEN <<-v[1], 0>> ELSE <<-v[1] - 1, -v[2]>>
Below(v, bound) == v[1] = 0 /\ v[2] >= 0 /\ v[2] < bound

Bit(word, k) ==
  IF k = 31 THEN (IF word < 0 THEN 1 ELSE 0) ELSE (word \div 2^k) % 2
BitOf(v, k) == IF k > 63 THEN 0
               ELSE IF k > 31 THEN Bit(v[1], k - 32) ELSE Bit(v[2], k)
BitsAt(v, k, width) ==
  IF width = 3 THEN BitOf(v, 3 * k) + 2 * BitOf(v, 3 * k + 1)
                    + 4 * BitOf(v, 3 * k + 2)
  ELSE BitOf(v, 4 * k) + 2 * BitOf(v, 4 * k + 1)
       + 4 * BitOf(v, 4 * k + 2) + 8 * BitOf(v, 4 * k + 3)

HexUpper == Digit \o <<"A", "B", "C", "D", "E", "F">>
HexLower == Digit \o <<"a", "b", "c", "d", "e", "f">>
Symbol(d, s) == IF "SMALL" \in s.flags THEN HexLower[d + 1] ELSE HexUpper[d + 1]

(* The sign does not count. *)
Magnitude(v, s) == IF "SIGN" \in s.flags /\ IsNegative(v) THEN Negate(v) ELSE v

(* put_dec answers with a null pointer from 10^8 on, and number() takes it *)
(* for an address.                                                         *)
DECIMALS == 100000000
Unprintable(v, s) == s.base = 10 /\ ~Below(v, DECIMALS)

(* The digits of v, in the order they are shown. *)
NumberDigits(v, s) ==
  IF Below(v, s.base) THEN <<Symbol(v[2], s)>>
  ELSE IF s.base = 10
  THEN LET len == Min({8} \cup {k \in 1..7 : v[2] < 10^k})
       IN [k \in 1..len |-> Digit[1 + ((v[2] \div 10^(len - k)) % 10)]]
  ELSE LET width == IF s.base = 16 THEN 4 ELSE 3
           len == 1 + Max({0} \cup {k \in 1..21 : BitsAt(v, k, width) # 0})
       IN [k \in 1..len |-> Symbol(BitsAt(v, len - k, width), s)]

(* The sign that is shown, if any. *)
Sign(v, s) ==
  IF "SIGN" \notin s.flags THEN <<>>
  ELSE IF IsNegative(v) THEN <<"-">>
  ELSE IF "PLUS" \in s.flags THEN <<"+">>
  ELSE IF "SPACE" \in s.flags THEN <<" ">> ELSE <<>>

Prefix(v, s) ==
  IF "SPECIAL" \notin s.flags \/ s.base = 10 THEN <<>>
  ELSE IF s.base = 16 THEN <<"0", IF "SMALL" \in s.flags THEN "x" ELSE "X">>
  ELSE IF v = <<0, 0>> THEN <<>> ELSE <<"0">>

(* What is left of the field beside the number. *)
FieldLeft(s, sign, prefix, shown) ==
  s.field_width - Len(sign) - Len(prefix) - shown

NumberText(v, s0) ==
  LET s == IF "LEFT" \in s0.flags THEN [s0 EXCEPT !.flags = @ \ {"ZEROPAD"}]
           ELSE s0
      tmp == NumberDigits(Magnitude(v, s), s)
      sign == Sign(v, s)
      prefix == Prefix(v, s)
      shown == IF Len(tmp) > s.precision THEN Len(tmp) ELSE s.precision
      left == FieldLeft(s, sign, prefix, shown)
      Spaces(when) == Repeat(" ", IF when THEN left ELSE 0)
  IN Spaces(s.flags \cap {"ZEROPAD", "LEFT"} = {}) \o sign \o prefix
     \o Repeat("0", IF "ZEROPAD" \in s.flags THEN left ELSE 0)
     \o Repeat("0", shown - Len(tmp)) \o tmp
     \o Spaces("LEFT" \in s.flags)

-----------------------------------------------------------------------------
(* vsnprintf. *)
NoSpec == [type |-> "NONE", flags |-> {}, base |-> 0, qualifier |-> "none",
           field_width |-> 0, precision |-> 0]

Begin(c) ==
  /\ label = "call" /\ call = c
  /\ fmt = 1 /\ old_fmt = 1 /\ spec = NoSpec /\ arg = 0 /\ num = <<>>
  /\ str = 0 /\ end = 0 /\ size = call.size
  /\ mem = <<>> /\ counted = -1 /\ ret = -1

Init == \E c \in Calls : Begin(c)

(* A size above INT_MAX is negative as an int: nothing is written.  A      *)
(* buffer that would wrap around the address space ends at its end.        *)
EndOf == IF BUF + size > TOP THEN TOP ELSE BUF + size

Enter ==
  /\ label = "call"
  /\ IF size > INT_MAX
     THEN label' = "return" /\ ret' = 0 /\ UNCHANGED <<str, end, size>>
     ELSE /\ label' = "loop" /\ str' = BUF /\ end' = EndOf /\ size' = end' - BUF
          /\ UNCHANGED ret
  /\ UNCHANGED <<call, fmt, old_fmt, spec, arg, num, mem, counted>>

(* The loop over the tokens, and format_decode from its start to the one   *)
(* of its labels where it goes on.  Behind the format there is no telling. *)
Here == At(call.fmt, fmt)
Ahead == At(call.fmt, fmt + 1)
Decoding == UNCHANGED <<call, arg, num, str, end, size, mem, counted, ret>>

Decode ==
  /\ label = "loop" /\ Here # NUL
  /\ old_fmt' = fmt
  /\ CASE Here = BEYOND -> label' = "beyond" /\ UNCHANGED <<fmt, spec>>
       [] Here # BEYOND /\ spec.type = "WIDTH" ->
            label' = "precision" /\ spec' = WidthArgument(spec) /\ UNCHANGED fmt
       [] Here # BEYOND /\ spec.type = "PRECISION" ->
            /\ label' = "qualifier" /\ UNCHANGED fmt
            /\ spec' = [spec EXCEPT !.type = "NONE",
                                    !.precision = IF @ < 0 THEN 0 ELSE @]
       [] OTHER ->
            IF Here # "%"
            THEN /\ label' = "switch" /\ fmt' = LiteralEnd(call.fmt, fmt)
                 /\ spec' = [spec EXCEPT !.type = "NONE"]
            ELSE /\ label' = "width" /\ fmt' = Past(call.fmt, fmt + 1, FlagChars)
                 /\ spec' = [spec EXCEPT !.type = "NONE", !.field_width = -1,
                               !.flags = {FlagOf(call.fmt[k]) :
                                            k \in fmt + 1..fmt' - 1}]
  /\ Decoding

DecodeWidth ==
  /\ label = "width"
  /\ CASE IsDigit(Here) ->
            /\ label' = "precision" /\ fmt' = Past(call.fmt, fmt, Digits)
            /\ spec' = [spec EXCEPT !.field_width = SkipAtoi(call.fmt, fmt)]
       [] Here = "*" -> /\ label' = "switch" /\ fmt' = fmt + 1
                        /\ spec' = [spec EXCEPT !.type = "WIDTH"]
       [] OTHER -> label' = "precision" /\ UNCHANGED <<fmt, spec>>
  /\ UNCHANGED old_fmt /\ Decoding

DecodePrecision ==
  /\ label = "precision"
  /\ LET Is(value, type) ==
           spec' = [spec EXCEPT !.precision = value, !.type = type]
     IN CASE Here # "." -> label' = "qualifier" /\ UNCHANGED fmt /\ Is(-1, "NONE")
          [] Here = "." /\ IsDigit(Ahead) ->
               /\ label' = "qualifier" /\ fmt' = Past(call.fmt, fmt + 1, Digits)
               /\ Is(SkipAtoi(call.fmt, fmt + 1), "NONE")
          [] Here = "." /\ Ahead = "*" ->
               label' = "switch" /\ fmt' = fmt + 2 /\ Is(-1, "PRECISION")
          [] OTHER -> label' = "qualifier" /\ fmt' = fmt + 1 /\ Is(-1, "NONE")
  /\ UNCHANGED old_fmt /\ Decoding

(* A qualifier.  An l or h that is not doubled becomes the doubled one, and *)
(* the character behind it is skipped.                                     *)
DecodeQualifier ==
  /\ label = "qualifier" /\ label' = "conversion"
  /\ LET single == Here # Ahead IN
     IF Here \notin {"h", "l", "L", "z", "Z", "t"}
     THEN fmt' = fmt /\ spec' = [spec EXCEPT !.qualifier = "none"]
     ELSE IF single /\ Here \in {"l", "h"}
     THEN /\ fmt' = fmt + 2
          /\ spec' = [spec EXCEPT !.qualifier = IF Here = "l" THEN "L" ELSE "H"]
     ELSE fmt' = fmt + 1 /\ spec' = [spec EXCEPT !.qualifier = Here]
  /\ UNCHANGED old_fmt /\ Decoding

DecodeConversion ==
  /\ label = "conversion" /\ label' = "switch"
  /\ spec' = Convert([spec EXCEPT !.base = 10], Here)
  /\ fmt' = IF spec'.type \in {"PTR", "INVALID"} THEN fmt ELSE fmt + 1
  /\ UNCHANGED old_fmt /\ Decoding

(* Every character is stored only if it comes before end, and counts in    *)
(* any case.  Mutant: one may be stored at end.                            *)
FitsAtEnd(a) == a <= end
Fits(a) == a < end

Emit(text) ==
  /\ LET stored == {a \in str..str + Len(text) - 1 : Fits(a)}
     IN mem' = [a \in stored \cup DOMAIN mem |->
                  IF a \in stored THEN text[a - str + 1] ELSE mem[a]]
  /\ str' = str + Len(text)

(* va_arg: the next word. *)
NextArg == call.args[arg + 1]
Take(words) == arg' = arg + words

Case(type) == label = "switch" /\ spec.type = type /\ label' = "loop"
Others == <<call, fmt, old_fmt, end, size, ret>>

Copy ==
  /\ Case("NONE") /\ Emit(SubSeq(call.fmt, old_fmt, fmt - 1))
  /\ UNCHANGED <<Others, spec, arg, num, counted>>

Width ==
  /\ Case("WIDTH") /\ Take(1)
  /\ spec' = [spec EXCEPT !.field_width = NextArg]
  /\ UNCHANGED <<Others, num, str, mem, counted>>

Precision ==
  /\ Case("PRECISION") /\ Take(1)
  /\ spec' = [spec EXCEPT !.precision = NextArg]
  /\ UNCHANGED <<Others, num, str, mem, counted>>

Char ==
  /\ Case("CHAR") /\ Take(1) /\ Emit(CharText(spec, NextArg))
  /\ UNCHANGED <<Others, spec, num, counted>>

Str ==
  /\ Case("STR") /\ Take(1) /\ Emit(StringText(spec, NextArg))
  /\ UNCHANGED <<Others, spec, num, counted>>

(* %p is not supported: it prints its own letter, as text, and takes no    *)
(* argument.                                                               *)
Ptr ==
  /\ Case("PTR")
  /\ UNCHANGED <<Others, spec, arg, num, str, mem, counted>>

Percent ==
  /\ Case("PERCENT_CHAR") \/ Case("INVALID")
  /\ Emit(<<"%">>)
  /\ UNCHANGED <<Others, spec, arg, num, counted>>

NrChars ==
  /\ Case("NRCHARS") /\ Take(1) /\ counted' = str - BUF
  /\ UNCHANGED <<Others, spec, num, str, mem>>

(* The integers: how many words they take and what number they make.  A    *)
(* size_t is unsigned here even if a sign is asked for, as ssize_t is.     *)
(* Mutant: a long long takes one word like the others.                     *)
Integers64 == {"LONG_LONG", "ULONG", "LONG", "SIZE_T", "PTRDIFF", "UBYTE",
               "BYTE", "USHORT", "SHORT", "INT", "UINT"}
WordsOfOne(type) == IF type = "PTRDIFF" THEN 0 ELSE 1
WordsOf(type) ==
  CASE type = "LONG_LONG" -> 2 [] type = "PTRDIFF" -> 0 [] OTHER -> 1

Extended(w) == <<IF w < 0 THEN -1 ELSE 0, w>>
Truncated(w, bound) == ((w + bound \div 2) % bound) - bound \div 2

NumberOf(type) ==
  CASE type = "LONG_LONG" -> <<call.args[arg + 2], NextArg>>
    [] type \in {"INT", "LONG"} -> Extended(NextArg)
    [] type = "BYTE" -> Extended(Truncated(NextArg, 256))
    [] type = "SHORT" -> Extended(Truncated(NextArg, 65536))
    [] type = "UBYTE" -> <<0, NextArg % 256>>
    [] type = "USHORT" -> <<0, NextArg % 65536>>
    [] OTHER -> <<0, NextArg>>

(* %t takes no argument and prints what num was, which at first is         *)
(* whatever was on the stack.                                              *)
NumbersOf(type) ==
  IF type # "PTRDIFF" THEN {NumberOf(type)}
  ELSE IF num = <<>> THEN {<<0, 0>>, <<-1, -1>>, <<0, 1000>>} ELSE {num}

(* Beyond eight decimal digits number() indexes its digits with a null     *)
(* pointer's distance from them.                                           *)
Number ==
  /\ label = "switch" /\ spec.type \in Integers64
  /\ Take(WordsOf(spec.type))
  /\ \E v \in NumbersOf(spec.type) :
       /\ num' = v
       /\ IF Unprintable(Magnitude(v, spec), spec)
          THEN label' = "wild" /\ UNCHANGED <<str, mem>>
          ELSE label' = "loop" /\ Emit(NumberText(v, spec))
  /\ UNCHANGED <<Others, spec, counted>>

(* The end of the format. *)
Terminator == IF str < end THEN str ELSE end - 1

Finish ==
  /\ label = "loop" /\ At(call.fmt, fmt) = NUL
  /\ mem' = IF size = 0 THEN mem
            ELSE [a \in {Terminator} \cup DOMAIN mem |->
                    IF a = Terminator THEN NUL ELSE mem[a]]
  /\ ret' = str - BUF
  /\ label' = "return"
  /\ UNCHANGED <<call, fmt, old_fmt, spec, arg, num, str, end, size, counted>>

(* vscnprintf returns what was written. *)
Written == IF ret < call.size THEN ret
           ELSE IF call.size # 0 THEN call.size - 1 ELSE 0

Return ==
  /\ label = "return" /\ label' = "done"
  /\ ret' = IF call.op = "vscnprintf" THEN Written ELSE ret
  /\ UNCHANGED <<call, fmt, old_fmt, spec, arg, num, str, end, size, mem,
                 counted>>

Next == \/ Enter \/ Decode \/ DecodeWidth \/ DecodePrecision \/ DecodeQualifier
        \/ DecodeConversion
        \/ Copy \/ Width \/ Precision \/ Char \/ Str \/ Ptr \/ Percent
        \/ NrChars \/ Number \/ Finish \/ Return

Spec == Init /\ [][Next]_vars

-----------------------------------------------------------------------------
(* Nothing is written outside of the buffer the caller gave, whatever the  *)
(* format and the arguments.                                               *)
InBounds ==
  LET given == IF call.size > INT_MAX THEN 0 ELSE call.size IN
  DOMAIN mem \subseteq BUF..BUF + given - 1

(* How many characters fit before the terminator, given what follows. *)
Room == IF BUF + call.size > TOP THEN TOP - BUF - 1 ELSE call.size - 1
Short(text) == IF Len(text) <= Room THEN text ELSE SubSeq(text, 1, Room)

(* In the buffer is the text the format asks for, cut where the buffer     *)
(* ends, and the terminator behind it; the rest of it is not written.      *)
TextRight ==
  label = "done" /\ call.known /\ call.size \in 1..INT_MAX =>
    LET text == Append(Short(call.text), NUL)
    IN mem = [a \in BUF..BUF + Len(text) - 1 |-> text[a - BUF + 1]]

(* snprintf returns the length of the whole text, however much of it fits; *)
(* vscnprintf the number of characters before the terminator.              *)
ReturnRight ==
  label = "done" =>
    /\ call.size > INT_MAX => ret = 0
    /\ call.op = "vscnprintf" /\ call.size \in 1..INT_MAX =>
         \A a \in BUF..BUF + ret :
           a \in DOMAIN mem /\ (mem[a] = NUL <=> a = BUF + ret)
    /\ call.op = "vscnprintf" /\ call.size = 0 => ret = 0
    /\ call.op # "vscnprintf" /\ call.known /\ call.size <= INT_MAX =>
         ret = Len(call.text)

(* Where a word of a certain kind is taken, the next one is of that kind.  *)
ArgumentsFit ==
  label = "switch" =>
    /\ spec.type \in {"WIDTH", "PRECISION"} =>
         arg < Len(call.args) /\ NextArg \in Int
    /\ spec.type = "STR" => arg < Len(call.args) /\ NextArg \in 0..Len(Strings)

(* Every conversion takes its own arguments, and what %n stores is how     *)
(* many characters come before it, stored or not.                          *)
ArgumentsRight ==
  /\ ArgumentsFit
  /\ label = "done" /\ call.known /\ call.size <= INT_MAX =>
       arg = Len(call.args) /\ counted = call.counted

(* A format that the header describes is read up to its end and no         *)
(* further: format_decode moves on with every token, and nothing sends it  *)
(* behind the format or number() to a wild address.                        *)
TokensAdvance ==
  call.known =>
    label \notin {"beyond", "wild"} /\ (label = "switch" => fmt > old_fmt)

(* All that vsnprintf and its callers promise for a call of a known format.*)
FormatRight == TextRight /\ ReturnRight /\ ArgumentsRight /\ TokensAdvance

-----------------------------------------------------------------------------
(* The comment at libs/vsprintf.c:66: h and l are qualifiers of integer    *)
(* fields, so a conversion with one shows its number.                      *)
QualifiersWork ==
  label \in {"done", "beyond"} =>
    label = "done" /\ \A k \in DOMAIN call.text : mem[BUF + k - 1] = call.text[k]

(* The comments at libs/vsprintf.c:290 and 334: numbers of nine digits are *)
(* somebody else's business, and what is not supported is 64 bits.         *)
NineDigits == label # "wild"
=============================================================================
