------------------------------ MODULE PagePool ------------------------------
(***************************************************************************)
(* What the page allocator promises its clients (the prototypes of         *)
(* include/mm.h:41-92), with no lists, flags or merging: a pool of N       *)
(* frames from which aligned runs of 1 << o frames are handed out, never   *)
(* two that overlap, each until its last reference is dropped.  A request  *)
(* fails only when no aligned run of that size is free.                    *)
(***************************************************************************)
EXTENDS Integers

CONSTANTS NULL, N, MAX_ORDER, Pow2, MaxRefs

VARIABLES
  held,  \* the blocks <<page, order>> in use
  refs,  \* references on each frame
  ret    \* the answer of the last allocation, until the next call

vars == <<held, refs, ret>>

Frames == 0 .. N - 1
Orders == 0 .. MAX_ORDER - 1
NoRet  == [order |-> MAX_ORDER, page |-> NULL]

Init ==
  /\ held = {}
  /\ refs = [f \in Frames |-> 0]
  /\ ret = NoRet

Apart(b, c) == b[1] + Pow2[b[2]] <= c[1] \/ c[1] + Pow2[c[2]] <= b[1]

(* <<p, o>> is an aligned run of frames nobody holds any part of. *)
Available(p, o) ==
  /\ p % Pow2[o] = 0 /\ p + Pow2[o] <= N
  /\ \A b \in held : Apart(<<p, o>>, b)

Begin == ret' = NoRet /\ UNCHANGED <<held, refs>>

Alloc(p, o) ==
  /\ Available(p, o)
  /\ held' = held \cup {<<p, o>>}
  /\ refs' = [refs EXCEPT ![p] = 1]
  /\ ret' = [order |-> o, page |-> p]

AllocFail(o) ==
  /\ o \in Orders => \A p \in Frames : ~Available(p, o)
  /\ ret' = [order |-> o, page |-> NULL]
  /\ UNCHANGED <<held, refs>>

Get(b) ==
  /\ refs[b[1]] < MaxRefs
  /\ refs' = [refs EXCEPT ![b[1]] = @ + 1]
  /\ ret' = NoRet
  /\ UNCHANGED held

Put(b) ==
  /\ refs' = [refs EXCEPT ![b[1]] = @ - 1]
  /\ held' = IF refs[b[1]] = 1 THEN held \ {b} ELSE held
  /\ ret' = NoRet

Next ==
  \/ Begin
  \/ \E p \in Frames, o \in Orders : Alloc(p, o)
  \/ \E o \in 0 .. MAX_ORDER : AllocFail(o)
  \/ \E b \in held : Get(b) \/ Put(b)

Spec == Init /\ [][Next]_vars
=============================================================================
