------------------------------- MODULE MCLibs -------------------------------
(***************************************************************************)
(* Calls for the library: only the part that a behaviour exercises begins  *)
(* with one of its calls, the others rest before the same one always.      *)
(***************************************************************************)
EXTENDS Libs, MCFormat

MCS == INSTANCE MCStringSearch
         WITH Calls <- {}, SIZES <- 16,
              pc <- spc, call <- scall, i <- place1, j <- place2,
              n <- left, ret <- sret
MCC == INSTANCE MCStringCopy
         WITH Calls <- {}, pc <- cpc, call <- ccall, mem <- bytes,
              d <- dst, s <- src, n <- room, ret <- cret

(* Numbers on both sides of every power of ten and of every multiple of    *)
(* one, and some with changing digits.                                     *)
MCNumbers ==
  {x \in {d * Power[k] + e : d \in 0..10, k \in 1..8, e \in {-1, 0, 1, 4, 9}} :
     x \in 0..MAX - 1}
  \cup {12345678, 87654321, 98765432, 99999999, 65535, 65536, 9999}

SearchRest == MCS!Call("strlen", <<0>>, <<0>>, 0, 0)
CopyRest == MCC!Call("strim", <<0>>, 1, 1, 0, 0)
FormatRest == CHOOSE c \in Unknown : TRUE
MCSearchCalls == MCS!MCCalls \cup {SearchRest}
MCCopyCalls == MCC!MCCalls \cup {CopyRest}

MCInit ==
  /\ callee \in {"put_dec", "vsnprintf", "search", "copy"}
  /\ PutDecInit /\ (callee # "put_dec" => n = 0)
  /\ \E c \in IF callee = "vsnprintf" THEN Calls ELSE {FormatRest} : Begin(c)
  /\ \E c \in IF callee = "search" THEN SearchCalls ELSE {SearchRest} :
       S!Begin(c)
  /\ \E c \in IF callee = "copy" THEN CopyCalls ELSE {CopyRest} :
       C!Begin(c)

(* Nothing else runs: a loop that can go on does.                          *)
MCSpec ==
  /\ MCInit /\ [][LibsNext]_libVars
  /\ WF_libVars(PutDecStep) /\ WF_libVars(SearchStep) /\ WF_libVars(CopyStep)
=============================================================================
