--------------------------- MODULE MCStringSearch ---------------------------
(* Strings of a newline, an A and an a, terminated or as long as the limit.*)
EXTENDS StringSearch

Of(S, len) == UNION {[1..k -> S] : k \in 0..len}
Chs == {10, 65, 97}
Ended(t) == t \o <<0>>
Call(op, cs, ct, c, count) ==
  [op |-> op, cs |-> cs, ct |-> ct, c |-> c, count |-> count]

One == {Ended(t) : t \in Of(Chs, 3)}
Two == {Ended(t) : t \in Of(Chs, 2)}
Searched == {97, 0, 97 - 256}
None == <<0>>

(* Limited ones: the buffer has just as many bytes as the limit, or the    *)
(* string ends before.                                                     *)
Buffers(m) == [1..m -> Chs \cup {0}]

Calls2(ops, S, T, counts) ==
  [op : ops, cs : S, ct : T, c : {0}, count : counts]
Calls1(ops, S, cs, counts) ==
  [op : ops, cs : S, ct : {None}, c : cs, count : counts]

MCCalls ==
  Calls2({"strcmp", "strcasecmp", "sysfs_streq", "strspn", "strcspn",
          "strpbrk", "strstr"}, One, Two, {0})
  \cup Calls2({"strncmp", "strnicmp", "strncasecmp"}, One, Two, 0..4)
  \cup UNION {Calls2({"strncmp", "strnicmp", "strncasecmp", "memcmp"},
                     Buffers(m), Buffers(m), {m}) : m \in 1..2}
  \cup UNION {Calls2({"strnstr"}, Buffers(m), Two, {m}) : m \in 0..4}
  \cup Calls1({"strchr", "strrchr"}, One, Searched, {0})
  \cup UNION {Calls1({"strnchr", "memscan", "memchr", "strnlen"},
                     Buffers(m), Searched, {m}) : m \in 0..3}
  \cup Calls2({"memcmp"}, {<<>>}, {<<>>}, {0})
  \cup Calls1({"skip_spaces", "strlen"}, One, {0}, {0})
  \cup Calls1({"strtobool"}, {Ended(t) : t \in Of({121, 78, 48, 50}, 2)},
              {0}, {0})
=============================================================================
