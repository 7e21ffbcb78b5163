------------------------------ MODULE MCFormat ------------------------------
(* Calls for Format: "a", one directive, "%d" for the argument 7 and "%n". *)
EXTENDS Format, FormatRef

Hello == <<"h", "e", "l", "l", "o">>
MCStrings == <<Hello, <<>>>>
MCBuf == 1
MCTop == 40
MCIntMax == 60

No == [how |-> "no", n |-> 0]
By(n) == [how |-> "digits", n |-> n]
Star(n) == [how |-> "star", n |-> n]
Directive(flags, width, precision, qualifier, conv) ==
  [flags |-> flags, width |-> width, precision |-> precision,
   qualifier |-> qualifier, conv |-> conv]

Call(op, n, d, words, text) ==
  [op |-> op, size |-> n, known |-> TRUE,
   fmt |-> <<"a">> \o Characters(d) \o <<"%", "d", "%", "n">>,
   args |-> Stars(d) \o words \o <<7, 0>>,
   text |-> <<"a">> \o text \o <<"7">>, counted |-> Len(text) + 2]

Some(op, sizes, directives) ==
  LET IntegerCalls(n) ==
        {Call(op, n, dv[1], <<dv[2].w>>, IntegerText(dv[1], dv[2])) :
           dv \in {x \in directives
                         \X {Zero, Seven, Beef, Minus, EightDigits} :
                     /\ x[1].conv \in {"d", "i", "u", "o", "x", "X"}
                     /\ IntegerAsIso(x[1], x[2])}}
      Texts(n) ==
        {Call(op, n, d, <<p>>,
              StringOf(d, IF p = 0 THEN NULL_TEXT ELSE Strings[p])) :
           d \in {x \in directives : x.conv = "s"
                                     /\ x.precision # Star(-1)}, p \in 0..2}
      Chars(n) ==
        {Call(op, n, d, <<"c">>, Field(d, <<>>, <<"c">>, FALSE)) :
           d \in {x \in directives : x.conv = "c"}}
      Percents(n) ==
        {Call(op, n, d, <<>>, <<"%">>) :
           d \in {x \in directives : x.conv = "%"}}
  IN UNION {IntegerCalls(n) \cup Texts(n) \cup Chars(n) \cup Percents(n) :
              n \in sizes}

Convs == {"d", "u", "o", "x", "X", "s", "c", "%"}
Directives(flagSets, widths, precisions) ==
  {Directive(f, w, p, <<>>, c) :
     f \in flagSets, w \in widths, p \in precisions, c \in Convs}

(* Every pair of flags, with room for all of the text. *)
FlagSets == {{a, b} : a, b \in {"-", "+", " ", "#", "0"}} \cup {{}}
Wide == Directives(FlagSets, {No, By(12), Star(4), Star(-4)},
                   {No, By(0), By(3), Star(-1)})
(* Few of them, where the text is cut. *)
Few == Directives({{}, {"-"}, {"0"}}, {No, By(5), Star(-4)}, {No, Star(2)})

(* The qualifiers of which there is something to expect. *)
Qualified(n) ==
  LET D(q, c) == Directive({}, No, No, q, c)
      Big == Sample(5, <<>>, <<"1">> \o Fill("0", 7) \o <<"5">>,
                    <<"4">> \o Fill("0", 9) \o <<"5">>)
      C(q, c, v, words) ==
        Call("snprintf", n, D(q, c), words, IntegerText(D(q, c), v))
  IN {C(<<"L">>, "d", Minus, <<-10, -1>>), C(<<"L">>, "d", Seven, <<7, 0>>),
      C(<<"L">>, "x", Big, <<5, 1>>), C(<<"L">>, "o", Big, <<5, 1>>),
      C(<<"z">>, "u", Beef, <<Beef.w>>), C(<<"Z">>, "x", Minus, <<Minus.w>>),
      C(<<"z">>, "d", Seven, <<7>>), C(<<>>, "i", Minus, <<Minus.w>>)}

(* Formats that are not supported or none at all. *)
Unknown ==
  {[op |-> "snprintf", size |-> n, known |-> FALSE, text |-> <<>>,
    counted |-> -1, args |-> <<7, -7, 7, 7>>, fmt |-> f] :
     n \in {0, 2, 35},
     f \in {<<"%">>, <<"%", "5">>, <<"%", "p">>, <<"%", "t", "d">>,
            <<"%", "d", "%", "t", "x">>, <<"%", "q">>, <<"%", "l", "l", "d">>,
            <<"%", "h", "d", "d">>, <<"%", "h", "d", "u">>, <<"%", "h">>,
            <<"%", ".", "d">>}}

MCCalls ==
  Some("snprintf", {35}, Wide)
  \cup Some("snprintf", {0, 1, 4, INT_MAX + 1}, Few)
  \cup Some("vscnprintf", {0, 1, 4, 9}, Few)
  \cup Some("sprintf", {INT_MAX}, Few)
  \cup Qualified(35) \cup Unknown

-----------------------------------------------------------------------------
(* The qualifiers the comment names. *)
LongCalls ==
  {Call("snprintf", 35, Directive({}, No, No, <<q>>, c), <<7>>, <<"7">>) :
     q \in {"h", "l"}, c \in {"d", "u", "x"}}

(* Nine decimal digits. *)
NineCalls ==
  {Call("snprintf", 35, Directive({}, No, No, <<>>, c), <<v>>, <<>>) :
     c \in {"d", "u", "x"}, v \in {99999999, 100000000}}
=============================================================================
