---------------------------- MODULE MCStringCopy ----------------------------
(* Small memories, and all the calls on them that the functions are meant  *)
(* for: strings are terminated, there is room, and only memmove's areas    *)
(* overlap in any way.                                                     *)
EXTENDS StringCopy

Call(op, m, dest, src, c, count) ==
  [op |-> op, mem |-> m, dest |-> dest, src |-> src, c |-> c, count |-> count]

Bytes == <<1, 2, 3, 4, 5, 6>>
Overlap(c) == Region(c) \cap (c.src..c.src + c.count - 1) # {}
Moves ==
  {c \in {Call(op, Bytes, d1, s1, 9, m) : op \in {"memset", "memcpy", "memmove"},
            d1 \in 1..6, s1 \in 1..6, m \in 0..5} :
     /\ c.dest + c.count <= 7 /\ c.src + c.count <= 7
     /\ c.op = "memset" => c.src = 1
     /\ c.op = "memcpy" => c.dest <= c.src \/ ~Overlap(c)}

Of(S, len) == UNION {[1..k -> S] : k \in 0..len}

(* A buffer with something in it before or behind the source, with which   *)
(* the function has enough room.                                           *)
Buffers == Of({0, 97}, 4)
Sources == {t \o <<0>> : t \in Of({97, 98}, 2)}
Places ==
  {[mem |-> b \o t, dest |-> 1, src |-> Len(b) + 1, len |-> Len(b)] :
     b \in Buffers, t \in Sources}
  \cup {[mem |-> t \o b, dest |-> Len(t) + 1, src |-> 1, len |-> Len(b)] :
          b \in Buffers, t \in Sources}
Enough(c, p) ==
  /\ c.op \in {"strcpy", "strcat"} => c.count = 0
  /\ c.op \in {"strcat", "strncat", "strlcat"} =>
       \E k \in p.dest..p.dest + p.len - 1 : p.mem[k] = 0
  /\ c.op = "strlcat" => Strlen(p.mem, p.dest) < c.count
  /\ Region(c) \subseteq p.dest..p.dest + p.len - 1
Copied(p) ==
  {c \in {Call(op, p.mem, p.dest, p.src, 0, k) :
            op \in {"strcpy", "strncpy", "strlcpy", "strcat", "strncat",
                    "strlcat"}, k \in 0..4} : Enough(c, p)}
Copies == UNION {Copied(p) : p \in Places}

(* strcpy to a lower address, into the string itself. *)
Shifts == {Call("strcpy", <<97, 98, 99, 100, 0>>, d1, s1, 0, 0) :
             d1 \in 1..2, s1 \in 2..5}

Trimmed == {Call("strim", <<1>> \o t \o <<0>>, 2, 1, 0, 0) :
              t \in Of({32, 9, 97}, 4)}
Separated == {Call("strsep", t \o <<0>> \o u \o <<0>>, 1, Len(t) + 2, 0, 0) :
                t \in Of({44, 59, 97}, 4), u \in Of({44, 59}, 2)}

MCCalls == Moves \cup Copies \cup Shifts \cup Trimmed \cup Separated
=============================================================================
