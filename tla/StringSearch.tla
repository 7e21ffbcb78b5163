---------------------------- MODULE StringSearch ----------------------------
(***************************************************************************)
(* The functions of libs/string.c that only read: comparisons, searches    *)
(* for a character, a set of characters or a string, and lengths, one      *)
(* iteration of a loop at a time.                                          *)
(*                                                                         *)
(* cs and ct are the bytes at the two arguments, places in them count from *)
(* 1; an answer that is a pointer is such a place, or NULL.  A byte is a   *)
(* number, the terminator is 0.                                            *)
(***************************************************************************)
EXTENDS Integers, Sequences, FiniteSets, FiniteSetsExt

CONSTANTS
  Calls,   \* records of op, cs, ct, c and count
  SIZES    \* how many values a size_t has

(* What callers owe: a limit is a size_t, no text is longer than there are *)
(* addresses, and a string is terminated, or as long as the limit if the   *)
(* function has one.  Functions for bytes read as many as they are told.   *)
Terminated(s) == \E k \in DOMAIN s : s[k] = 0
Limited == {"strncmp", "strnicmp", "strncasecmp", "strnchr", "strnlen"}
ForBytes == {"memcmp", "memscan", "memchr", "strnstr"}
Enough(c, s) ==
  IF c.op \in ForBytes THEN Len(s) >= c.count
  ELSE \/ Terminated(s)
       \/ /\ c.op \in Limited /\ c.count <= Len(s)
          /\ c.op = "strncasecmp" => c.count > 0

CallsAssumption ==
  /\ SIZES \in Nat \ {0}
  /\ \A c \in Calls :
       /\ c.cs \in Seq(0..255) /\ c.ct \in Seq(0..255) /\ c.c \in Int
       /\ c.count \in 0..SIZES - 1 /\ Len(c.cs) <= SIZES
       /\ Enough(c, c.cs)
       /\ c.op \notin {"memscan", "memchr", "strnstr"} => Enough(c, c.ct)
       /\ c.op = "strnstr" => Terminated(c.ct)

NULL == 0
EINVAL == 22

VARIABLES
  pc, call,
  i, j,      \* the places in cs and ct where the loop is
  n,         \* the function's counter
  ret,
  far        \* the last byte of cs and of ct that was read

vars == <<pc, call, i, j, n, ret, far>>

Byte(s, k) == IF k \in DOMAIN s THEN s[k] ELSE 0
B1 == Byte(call.cs, i)
B2 == Byte(call.ct, j)

(* ctype.h: the letters and the white space that occur. *)
IsUpper(b) == b \in 65..90
ToLower(b) == IF IsUpper(b) THEN b + 32 ELSE b
IsSpace(b) == b \in 9..13 \/ b = 32

(* strlen *)
Strlen(s) == Min({k \in 0..Len(s) : Byte(s, k + 1) = 0})

-----------------------------------------------------------------------------
Look(a, b) == far' = <<Max({far[1], a}), Max({far[2], b})>>
Op(name) == pc = "loop" /\ call.op = name
Answer(v) == pc' = "done" /\ ret' = v /\ UNCHANGED <<call, i, j, n>>
Go(a, b, m) ==
  i' = a /\ j' = b /\ n' = m /\ UNCHANGED <<pc, call, ret>>
Both == Go(i + 1, j + 1, n)

Begin(c) ==
  /\ call = c /\ pc = "call"
  /\ i = 1 /\ j = 1 /\ n = call.count /\ ret = NULL /\ far = <<0, 0>>

Init == \E c \in Calls : Begin(c)

(* What comes before the loop: strrchr and the searches for a string take  *)
(* lengths, strnicmp looks at its limit.                                   *)
Start ==
  /\ pc = "call" /\ UNCHANGED <<call, j>>
  /\ LET l1 == Strlen(call.cs)
         l2 == Strlen(call.ct)
         Loop(a, m) == pc' = "loop" /\ i' = a /\ n' = m /\ UNCHANGED ret
         Stop(v) == pc' = "done" /\ ret' = v /\ UNCHANGED <<i, n>>
     IN CASE call.op = "strrchr" -> Loop(l1 + 1, n) /\ Look(l1 + 1, 0)
          [] call.op = "strstr" /\ l2 > 0 -> Loop(1, l1) /\ Look(l1 + 1, l2 + 1)
          [] call.op = "strnstr" /\ l2 > 0 -> Loop(1, n) /\ Look(0, l2 + 1)
          [] call.op \in {"strstr", "strnstr"} /\ l2 = 0 -> Stop(1) /\ Look(0, 1)
          [] call.op = "strnicmp" /\ n = 0 -> Stop(0) /\ UNCHANGED far
          [] call.op \in {"strspn", "strcspn"} -> Loop(1, 0) /\ UNCHANGED far
          [] OTHER -> Loop(1, n) /\ UNCHANGED far

-----------------------------------------------------------------------------
(* Comparisons. *)
Order(a, b) == IF a < b THEN -1 ELSE 1

Strcmp ==
  /\ Op("strcmp") /\ Look(i, j)
  /\ \/ B1 # B2 /\ Answer(Order(B1, B2))
     \/ B1 = B2 /\ B1 = 0 /\ Answer(0)
     \/ B1 = B2 /\ B1 # 0 /\ Both

Strncmp ==
  /\ Op("strncmp")
  /\ \/ n = 0 /\ Answer(0) /\ UNCHANGED far
     \/ n # 0 /\ Look(i, j)
        /\ \/ B1 # B2 /\ Answer(Order(B1, B2))
           \/ B1 = B2 /\ B1 = 0 /\ Answer(0)
           \/ B1 = B2 /\ B1 # 0 /\ Go(i + 1, j + 1, n - 1)

(* What is answered when the limit is reached are equal letters. *)
Strnicmp ==
  /\ Op("strnicmp") /\ Look(i, j)
  /\ LET ended == B1 = 0 \/ B2 = 0
         same == ToLower(B1) = ToLower(B2)
     IN \/ ended /\ Answer(B1 - B2)
        \/ ~ended /\ ~same /\ Answer(ToLower(B1) - ToLower(B2))
        \/ ~ended /\ same /\ n = 1 /\ Answer(0)
        \/ ~ended /\ same /\ n # 1 /\ Go(i + 1, j + 1, n - 1)

Strcasecmp ==
  /\ Op("strcasecmp") /\ Look(i, j)
  /\ IF ToLower(B1) = ToLower(B2) /\ B1 # 0 THEN Both
     ELSE Answer(ToLower(B1) - ToLower(B2))

(* The limit is looked at behind the first comparison, so that 0 wraps.    *)
Left(m) == (m - 1) % SIZES
Strncasecmp ==
  /\ Op("strncasecmp") /\ Look(i, j)
  /\ IF Left(n) > 0 /\ ToLower(B1) = ToLower(B2) /\ B1 # 0
     THEN Go(i + 1, j + 1, Left(n))
     ELSE Answer(ToLower(B1) - ToLower(B2))

Memcmp ==
  /\ Op("memcmp")
  /\ \/ n = 0 /\ Answer(0) /\ UNCHANGED far
     \/ n # 0 /\ Look(i, j)
        /\ IF B1 # B2 THEN Answer(B1 - B2) ELSE Go(i + 1, j + 1, n - 1)

NEWLINE == 10
SysfsStreq ==
  /\ Op("sysfs_streq")
  /\ LET next1 == Byte(call.cs, i + 1)
         next2 == Byte(call.ct, j + 1)
         newline1 == B1 = NEWLINE /\ next1 = 0 /\ B2 = 0
         newline2 == B1 = 0 /\ B2 = NEWLINE /\ next2 = 0
     IN \/ B1 # 0 /\ B1 = B2 /\ Both /\ Look(i, j)
        \/ B1 = 0 /\ B1 = B2 /\ Answer(TRUE) /\ Look(i, j)
        \/ B1 # B2 /\ Answer(newline1 \/ newline2)
           /\ Look(IF B1 = NEWLINE THEN i + 1 ELSE i,
                   IF B1 = 0 /\ B2 = NEWLINE THEN j + 1 ELSE j)

(* The answer is the code and, on a match, what *res becomes. *)
Strtobool ==
  /\ Op("strtobool") /\ Look(i, 0)
  /\ Answer(CASE B1 \in {121, 89, 49} -> <<0, TRUE>>
              [] B1 \in {110, 78, 48} -> <<0, FALSE>>
              [] OTHER -> <<-EINVAL>>)

-----------------------------------------------------------------------------
(* Searches for a character.  (char)c keeps the low byte. *)
Char == call.c % 256

Strchr ==
  /\ Op("strchr") /\ Look(i, 0)
  /\ \/ B1 = Char /\ Answer(i)
     \/ B1 # Char /\ B1 = 0 /\ Answer(NULL)
     \/ B1 # Char /\ B1 # 0 /\ Go(i + 1, j, n)

Strrchr ==
  /\ Op("strrchr") /\ Look(i, 0)
  /\ \/ B1 = Char /\ Answer(i)
     \/ B1 # Char /\ i > 1 /\ Go(i - 1, j, n)
     \/ B1 # Char /\ i = 1 /\ Answer(NULL)

(* What the limited loops may still read. *)
More == n # 0

Strnchr ==
  /\ Op("strnchr")
  /\ \/ ~More /\ Answer(NULL) /\ UNCHANGED far
     \/ More /\ Look(i, 0)
        /\ \/ B1 = 0 /\ Answer(NULL)
           \/ B1 # 0 /\ B1 = Char /\ Answer(i)
           \/ B1 # 0 /\ B1 # Char /\ Go(i + 1, j, n - 1)

(* memscan compares with the whole of c. *)
Memscan ==
  /\ Op("memscan")
  /\ \/ ~More /\ Answer(i) /\ UNCHANGED far
     \/ More /\ Look(i, 0)
        /\ IF B1 = call.c THEN Answer(i) ELSE Go(i + 1, j, n - 1)

Memchr ==
  /\ Op("memchr")
  /\ \/ ~More /\ Answer(NULL) /\ UNCHANGED far
     \/ More /\ Look(i, 0)
        /\ IF B1 = Char THEN Answer(i) ELSE Go(i + 1, j, n - 1)

SkipSpaces ==
  /\ Op("skip_spaces") /\ Look(i, 0)
  /\ IF IsSpace(B1) THEN Go(i + 1, j, n) ELSE Answer(i)

StrlenLoop ==
  /\ Op("strlen") /\ Look(i, 0)
  /\ IF B1 # 0 THEN Go(i + 1, j, n) ELSE Answer(i - 1)

Strnlen ==
  /\ Op("strnlen")
  /\ \/ ~More /\ Answer(i - 1) /\ UNCHANGED far
     \/ More /\ Look(i, 0)
        /\ IF B1 # 0 THEN Go(i + 1, j, n - 1) ELSE Answer(i - 1)

-----------------------------------------------------------------------------
(* Searches for the characters of a set: the inner loop runs over ct. *)
NextChar == Go(i + 1, 1, n + 1)

Strspn ==
  /\ Op("strspn")
  /\ \/ B1 = 0 /\ Answer(n) /\ Look(i, 0)
     \/ B1 # 0 /\ Look(i, j)
        /\ \/ B2 = 0 /\ Answer(n)
           \/ B2 = B1 /\ NextChar
           \/ B2 \notin {0, B1} /\ Go(i, j + 1, n)

Strcspn ==
  /\ Op("strcspn")
  /\ \/ B1 = 0 /\ Answer(n) /\ Look(i, 0)
     \/ B1 # 0 /\ Look(i, j)
        /\ \/ B2 = 0 /\ NextChar
           \/ B2 = B1 /\ Answer(n)
           \/ B2 \notin {0, B1} /\ Go(i, j + 1, n)

Strpbrk ==
  /\ Op("strpbrk")
  /\ \/ B1 = 0 /\ Answer(NULL) /\ Look(i, 0)
     \/ B1 # 0 /\ Look(i, j)
        /\ \/ B2 = 0 /\ Go(i + 1, 1, n)
           \/ B2 = B1 /\ Answer(i)
           \/ B2 \notin {0, B1} /\ Go(i, j + 1, n)

(* Searches for a string: at each place memcmp runs over ct, and n counts  *)
(* the rest of cs.  Mutants: after a partial match the search goes on      *)
(* behind it; it stays where it is.                                        *)
NextPlaceBehind == Go(i + j, 1, n - j)
NextPlaceSame == Go(i, 1, n)
NextPlace == Go(i + 1, 1, n - 1)
Substring ==
  LET l2 == Strlen(call.ct)
      byte == Byte(call.cs, i + j - 1)
  IN \/ n < l2 /\ Answer(NULL) /\ UNCHANGED far
     \/ n >= l2 /\ j > l2 /\ Answer(i) /\ UNCHANGED far
     \/ n >= l2 /\ j <= l2 /\ Look(i + j - 1, j)
        /\ \/ byte = B2 /\ Go(i, j + 1, n)
           \/ byte # B2 /\ NextPlace

Strstr == Op("strstr") /\ Substring
Strnstr == Op("strnstr") /\ Substring

Next ==
  \/ Start
  \/ Strcmp \/ Strncmp \/ Strnicmp \/ Strcasecmp \/ Strncasecmp \/ Memcmp
  \/ SysfsStreq \/ Strtobool
  \/ Strchr \/ Strrchr \/ Strnchr \/ Memscan \/ Memchr \/ SkipSpaces
  \/ StrlenLoop \/ Strnlen \/ Strspn \/ Strcspn \/ Strpbrk \/ Strstr \/ Strnstr

Spec == Init /\ [][Next]_vars

-----------------------------------------------------------------------------
(* What the functions are for, said with the texts as a whole. *)
Cut(s, m) == SubSeq(s, 1, IF m < Len(s) THEN m ELSE Len(s))
Text(s) == Cut(s, Strlen(s))
Lower(s) == [k \in DOMAIN s |-> ToLower(s[k])]
Sgn(x) == IF x < 0 THEN -1 ELSE IF x > 0 THEN 1 ELSE 0

(* The order of two texts is that of the first bytes in which they differ, *)
(* the terminators among them.                                             *)
Compared(s, t) ==
  LET differ == {k \in 1..Len(s) + Len(t) + 1 : Byte(s, k) # Byte(t, k)}
  IN IF differ = {} THEN 0 ELSE Sgn(Byte(s, Min(differ)) - Byte(t, Min(differ)))

Least(S, default) == IF S = {} THEN default ELSE Min(S)
Chars(s) == {s[k] : k \in DOMAIN s}
Occurrences(s, t) ==
  {k \in 1..Len(s) - Len(t) + 1 : SubSeq(s, k, k + Len(t) - 1) = t}

(* The texts that a string stands for with its last newline counted or not.*)
Readings(s) ==
  {s} \cup (IF s # <<>> /\ s[Len(s)] = NEWLINE THEN {Cut(s, Len(s) - 1)} ELSE {})

Expected ==
  LET op == call.op
      m == call.count
      s == Text(call.cs)
      t == Text(call.ct)
      sN == Text(Cut(call.cs, m))
      tN == Text(Cut(call.ct, m))
      Inside(k) == k \in 1..Len(s)
  IN CASE op = "strcmp" -> Compared(s, t)
       [] op = "strncmp" -> Compared(sN, tN)
       [] op = "strnicmp" -> Compared(Lower(sN), Lower(tN))
       [] op = "strcasecmp" -> Compared(Lower(s), Lower(t))
       [] op = "strncasecmp" -> IF m = 0 THEN Compared(Lower(s), Lower(t))
                                ELSE Compared(Lower(sN), Lower(tN))
       [] op = "memcmp" -> Compared(Cut(call.cs, m), Cut(call.ct, m))
       [] op = "sysfs_streq" -> Readings(s) \cap Readings(t) # {}
       [] op = "strtobool" -> IF s = <<>> THEN <<-EINVAL>>
                              ELSE IF s[1] \in {121, 89, 49} THEN <<0, TRUE>>
                              ELSE IF s[1] \in {110, 78, 48} THEN <<0, FALSE>>
                              ELSE <<-EINVAL>>
       [] op = "strchr" -> Least({k \in 1..Len(s) + 1 : call.cs[k] = Char}, NULL)
       [] op = "strrchr" -> LET S == {k \in 1..Len(s) + 1 : call.cs[k] = Char}
                            IN IF S = {} THEN NULL ELSE Max(S)
       [] op = "strnchr" -> Least({k \in DOMAIN sN : sN[k] = Char}, NULL)
       [] op = "memscan" -> Least({k \in 1..m : call.cs[k] = call.c}, m + 1)
       [] op = "memchr" -> Least({k \in 1..m : call.cs[k] = Char}, NULL)
       [] op = "skip_spaces" ->
            Min({k \in 1..Len(s) + 1 : ~IsSpace(call.cs[k])})
       [] op = "strlen" -> Len(s)
       [] op = "strnlen" -> Len(sN)
       [] op = "strspn" -> Least({k \in DOMAIN s : s[k] \notin Chars(t)},
                                 Len(s) + 1) - 1
       [] op = "strcspn" -> Least({k \in DOMAIN s : s[k] \in Chars(t)},
                                  Len(s) + 1) - 1
       [] op = "strpbrk" -> Least({k \in DOMAIN s : s[k] \in Chars(t)}, NULL)
       [] op = "strstr" -> Least(Occurrences(s, t), NULL)
       [] op = "strnstr" -> IF t = <<>> THEN 1
                            ELSE Least(Occurrences(Cut(call.cs, m), t), NULL)

(* Every function answers what it is for; of the comparisons the sign      *)
(* counts.  A limit of 0 is none for strncasecmp, and strnstr searches the *)
(* bytes up to its limit, whatever they are.                               *)
AnswerRight ==
  pc = "done" =>
    IF call.op \in {"strnicmp", "strcasecmp", "strncasecmp", "memcmp"}
    THEN Sgn(ret) = Expected ELSE ret = Expected

(* The last byte of a text that may be read. *)
End(s) == Strlen(s) + 1
Limit(s) ==
  IF call.op \in ForBytes THEN call.count
  ELSE IF call.op \in Limited /\ (call.op = "strncasecmp" => call.count > 0)
  THEN Min({End(s), call.count}) ELSE End(s)

(* No byte is read behind a terminator or beyond the limit, so that the    *)
(* last byte of a buffer may be the last one there is.                     *)
ReadsInside ==
  /\ far[1] <= Limit(call.cs)
  /\ far[2] <= IF call.op = "strnstr" THEN End(call.ct) ELSE Limit(call.ct)

(* All that a comparison or a search promises: its answer, and no byte     *)
(* read beyond a terminator or its limit.                                  *)
SearchRight == AnswerRight /\ ReadsInside
=============================================================================
