----------------------------- MODULE StringCopy -----------------------------
(***************************************************************************)
(* The functions of libs/string.c that write: copies, concatenations,      *)
(* strim, and strsep as its callers use it, again and again until there is *)
(* nothing left.  All of them work on one small memory, so that areas may  *)
(* overlap, and write one byte at a time.                                  *)
(***************************************************************************)
EXTENDS Integers, Sequences, FiniteSets, FiniteSetsExt

CONSTANT Calls   \* records of op, mem, dest, src, c and count

NULL == 0

VARIABLES
  pc, call, mem,
  d, s, n,     \* where the loop writes and reads, and its counter
  ret,
  tokens       \* what strsep has returned so far

vars == <<pc, call, mem, d, s, n, ret, tokens>>

(* A byte of the memory m. *)
Byte(m, a) == IF a \in DOMAIN m THEN m[a] ELSE 0
IsSpace(b) == b \in 9..13 \/ b = 32
Strlen(m, a) == Min({k \in 0..Len(m) : Byte(m, a + k) = 0})
SkipSpaces(m, a) == Min({k \in a..Len(m) + 1 : ~IsSpace(Byte(m, k))})

(* strpbrk: the first byte of the string at a that is also one of the      *)
(* string at b.                                                            *)
Strpbrk(m, a, b) ==
  LET found == {k \in a..a + Strlen(m, a) - 1 :
                  \E l \in b..b + Strlen(m, b) - 1 : m[k] = m[l]}
  IN IF found = {} THEN NULL ELSE Min(found)

-----------------------------------------------------------------------------
Op(names) == pc = "loop" /\ call.op \in names
Put(a, b) == mem' = [mem EXCEPT ![a] = b]
Go(a, b, m) ==
  d' = a /\ s' = b /\ n' = m /\ UNCHANGED <<pc, call, ret, tokens>>
Return(v) ==
  pc' = "done" /\ ret' = v /\ UNCHANGED <<call, d, s, n, tokens>>

Begin(c) ==
  /\ call = c /\ mem = call.mem /\ pc = "call"
  /\ d = call.dest /\ s = call.src /\ n = call.count /\ ret = NULL
  /\ tokens = <<>>

Init == \E c \in Calls : Begin(c)

(* How much strlcpy and strlcat copy.  Mutant: without room for the        *)
(* terminator.                                                             *)
FittingAll(len, room) == IF len >= room THEN room ELSE len
Fitting(len, room) == IF len >= room THEN room - 1 ELSE len

(* What comes before the loops. *)
Start ==
  /\ pc = "call"
  /\ LET To(where) == pc' = where /\ UNCHANGED <<d, s, n, ret>>
         dsize == Strlen(mem, call.dest)
         len == Strlen(mem, call.src)
     IN CASE call.op = "memmove" /\ call.dest > call.src ->
               /\ pc' = "back" /\ d' = d + n /\ s' = s + n
               /\ UNCHANGED <<n, ret>>
          [] call.op = "strlcpy" ->
               /\ pc' = IF n = 0 THEN "done" ELSE "loop"
               /\ ret' = len /\ n' = Fitting(len, n) /\ UNCHANGED <<d, s>>
          [] call.op = "strlcat" ->
               /\ pc' = "loop" /\ ret' = dsize + len
               /\ d' = d + dsize /\ n' = Fitting(len, n - dsize)
               /\ UNCHANGED s
          [] call.op = "strcat" \/ (call.op = "strncat" /\ n > 0) -> To("seek")
          [] call.op = "strncat" /\ n = 0 ->
               pc' = "done" /\ ret' = d /\ UNCHANGED <<d, s, n>>
          [] call.op = "strim" /\ dsize > 0 ->
               pc' = "trim" /\ d' = d + dsize - 1 /\ UNCHANGED <<s, n, ret>>
          [] call.op = "strim" /\ dsize = 0 ->
               pc' = "done" /\ ret' = d /\ UNCHANGED <<d, s, n>>
          [] OTHER -> To("loop")
  /\ UNCHANGED <<call, mem, tokens>>

Memset ==
  /\ Op({"memset"})
  /\ IF n = 0 THEN Return(call.dest) /\ UNCHANGED mem
     ELSE Put(d, call.c) /\ Go(d + 1, s, n - 1)

(* memcpy, memmove to a lower address, and where strlcpy and strlcat call  *)
(* memcpy.                                                                 *)
Memcpy ==
  /\ Op({"memcpy", "memmove", "strlcpy", "strlcat"})
  /\ \/ n > 0 /\ Put(d, Byte(mem, s)) /\ Go(d + 1, s + 1, n - 1)
     \/ /\ n = 0 /\ call.op \in {"memcpy", "memmove"}
        /\ Return(call.dest) /\ UNCHANGED mem
     \/ n = 0 /\ call.op \in {"strlcpy", "strlcat"} /\ Put(d, 0) /\ Return(ret)

MemmoveBack ==
  /\ pc = "back"
  /\ IF n = 0 THEN Return(call.dest) /\ UNCHANGED mem
     ELSE Put(d - 1, Byte(mem, s - 1)) /\ Go(d - 1, s - 1, n - 1)

Strncpy ==
  /\ Op({"strncpy"})
  /\ IF n = 0 THEN Return(call.dest) /\ UNCHANGED mem
     ELSE /\ Put(d, Byte(mem, s))
          /\ Go(d + 1, IF Byte(mem, s) # 0 THEN s + 1 ELSE s, n - 1)

(* strcat and strncat look for the end of dest. *)
Seek ==
  /\ pc = "seek" /\ UNCHANGED <<call, mem, s, n, ret, tokens>>
  /\ IF Byte(mem, d) # 0 THEN d' = d + 1 /\ UNCHANGED pc
     ELSE pc' = "loop" /\ UNCHANGED d

(* strcpy, and the second loop of strcat. *)
Strcpy ==
  /\ Op({"strcpy", "strcat"}) /\ Put(d, Byte(mem, s))
  /\ IF Byte(mem, s) # 0 THEN Go(d + 1, s + 1, n) ELSE Return(call.dest)

(* The terminator of a text that is cut comes with its last character. *)
Strncat ==
  /\ Op({"strncat"})
  /\ \/ Byte(mem, s) = 0 /\ Put(d, 0) /\ Return(call.dest)
     \/ /\ Byte(mem, s) # 0 /\ n = 1
        /\ mem' = [mem EXCEPT ![d] = Byte(mem, s), ![d + 1] = 0]
        /\ Return(call.dest)
     \/ /\ Byte(mem, s) # 0 /\ n # 1
        /\ Put(d, Byte(mem, s)) /\ Go(d + 1, s + 1, n - 1)

Trims == d >= call.dest /\ IsSpace(Byte(mem, d))

Strim ==
  /\ pc = "trim"
  /\ IF Trims THEN UNCHANGED mem /\ Go(d - 1, s, n)
     ELSE Put(d + 1, 0) /\ Return(SkipSpaces(mem', call.dest))

(* One call, on the string that the calls before have left, at d.          *)
Behind(end) == end + 1
Strsep ==
  /\ Op({"strsep"})
  /\ IF d = NULL THEN Return(NULL) /\ UNCHANGED mem
     ELSE LET end == Strpbrk(mem, d, s) IN
          /\ tokens' = Append(tokens, d)
          /\ \/ end = NULL /\ d' = NULL /\ UNCHANGED mem
             \/ end # NULL /\ d' = Behind(end) /\ Put(end, 0)
          /\ UNCHANGED <<pc, call, s, n, ret>>

Next ==
  \/ Start \/ Memset \/ Memcpy \/ MemmoveBack \/ Strncpy \/ Seek \/ Strcpy
  \/ Strncat \/ Strim \/ Strsep

Spec == Init /\ [][Next]_vars

-----------------------------------------------------------------------------
(* What the functions are for, from the memory before the call. *)
Cut(t, m) == SubSeq(t, 1, IF m < Len(t) THEN m ELSE Len(t))
TextAt(m, a) == SubSeq(m, a, a + Strlen(m, a) - 1)
Ended(t) == Append(t, 0)
Fill(b, m) == [k \in 1..m |-> b]

(* The bytes that are to be at dest. *)
Wanted(c) ==
  LET dest == TextAt(c.mem, c.dest)
      src == TextAt(c.mem, c.src)
  IN CASE c.op = "memset" -> Fill(c.c, c.count)
       [] c.op \in {"memcpy", "memmove"} ->
            SubSeq(c.mem, c.src, c.src + c.count - 1)
       [] c.op = "strcpy" -> Ended(src)
       [] c.op = "strncpy" -> Cut(src \o Fill(0, c.count), c.count)
       [] c.op = "strlcpy" -> IF c.count = 0 THEN <<>>
                              ELSE Ended(Cut(src, c.count - 1))
       [] c.op = "strcat" -> Ended(dest \o src)
       [] c.op = "strncat" -> Ended(dest \o Cut(src, c.count))
       [] c.op = "strlcat" -> Ended(dest \o Cut(src, c.count - 1 - Len(dest)))
       [] c.op = "strim" ->
            LET black == {k \in DOMAIN dest : ~IsSpace(dest[k])}
            IN IF dest = <<>> THEN <<>>
               ELSE Ended(Cut(dest, IF black = {} THEN 0 ELSE Max(black)))

WantedReturn(c) ==
  CASE c.op = "strlcpy" -> Strlen(c.mem, c.src)
    [] c.op = "strlcat" -> Strlen(c.mem, c.dest) + Strlen(c.mem, c.src)
    [] c.op = "strim" ->
         LET trimmed == Wanted(c)
         IN c.dest + Cardinality({k \in DOMAIN trimmed :
                       \A l \in 1..k : IsSpace(trimmed[l])})
    [] OTHER -> c.dest

With(m, a, bytes) ==
  [k \in DOMAIN m |-> IF k \in a..a + Len(bytes) - 1 THEN bytes[k - a + 1]
                      ELSE m[k]]

(* On return the destination holds what the function is for, terminated    *)
(* and padded as its comment says, every other byte is as it was, and the  *)
(* return value is right, also where memmove's areas overlap.              *)
ResultRight ==
  pc = "done" /\ call.op # "strsep" =>
    mem = With(call.mem, call.dest, Wanted(call)) /\ ret = WantedReturn(call)

(* The bytes a call may write: the buffer whose size it was told, or as    *)
(* many as its result has.                                                 *)
Region(c) ==
  IF c.op \in {"strlcpy", "strlcat"} THEN c.dest..c.dest + c.count - 1
  ELSE c.dest..c.dest + Len(Wanted(c)) - 1

(* What callers owe: the destination has room for the result, what is read *)
(* as a string is terminated, strlcat's destination is one within its      *)
(* size, and nothing that is still to be read is written, other than by    *)
(* memmove.                                                                *)
FromStrings == {"strcpy", "strncpy", "strlcpy", "strcat", "strncat", "strlcat"}
OnStrings == {"strcat", "strncat", "strlcat", "strim", "strsep"}
StringAt(m, a) == \E k \in a..Len(m) : m[k] = 0
Span(m, a) == a..a + Strlen(m, a)
Apart(c) ==
  CASE c.op \in FromStrings ->
         \/ Region(c) \cap Span(c.mem, c.src) = {}
         \/ c.op = "strcpy" /\ c.dest <= c.src
    [] c.op = "memcpy" -> c.dest <= c.src \/ c.src + c.count <= c.dest
    [] c.op = "strsep" -> Span(c.mem, c.dest) \cap Span(c.mem, c.src) = {}
    [] OTHER -> TRUE

CallsAssumption ==
  \A c \in Calls :
    /\ c.mem \in Seq(0..255) /\ c.c \in 0..255 /\ c.count \in Nat
    /\ c.dest \in Nat \ {0} /\ c.src \in Nat \ {0}
    /\ c.op \in {"memset", "memcpy", "memmove"} \cup FromStrings \cup OnStrings
    /\ c.op \in FromStrings \cup {"strsep"} => StringAt(c.mem, c.src)
    /\ c.op \in OnStrings => StringAt(c.mem, c.dest)
    /\ c.op = "strlcat" => Strlen(c.mem, c.dest) < c.count
    /\ c.op \in {"memcpy", "memmove"} =>
         c.src..c.src + c.count - 1 \subseteq DOMAIN c.mem
    /\ c.op # "strsep" => Region(c) \subseteq DOMAIN c.mem
    /\ Apart(c)

(* No byte outside of it is written, not even for a moment. *)
DestinationOnly ==
  call.op # "strsep" =>
    \A a \in DOMAIN mem : mem[a] # call.mem[a] => a \in Region(call)

(* The calls of strsep return every token, empty ones too, in order, and   *)
(* the separators, nothing else, are overwritten.                          *)
TokensRight ==
  pc = "done" /\ call.op = "strsep" =>
    LET last == call.dest + Strlen(call.mem, call.dest) - 1
        separators == {k \in call.dest..last :
          \E l \in call.src..call.src + Strlen(call.mem, call.src) - 1 :
            call.mem[k] = call.mem[l]}
    IN /\ Len(tokens) = Cardinality(separators) + 1
       /\ {tokens[k] : k \in DOMAIN tokens}
            = {call.dest} \cup {k + 1 : k \in separators}
       /\ \A k \in 2..Len(tokens) : tokens[k - 1] < tokens[k]
       /\ mem = [k \in DOMAIN call.mem |->
                   IF k \in separators THEN 0 ELSE call.mem[k]]

(* All that a copy promises: what it leaves at its destination, no byte    *)
(* written elsewhere, and every token of strsep returned in turn.          *)
CopyRight == ResultRight /\ DestinationOnly /\ TokensRight
=============================================================================
