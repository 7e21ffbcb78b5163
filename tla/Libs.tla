-------------------------------- MODULE Libs --------------------------------
(***************************************************************************)
(* The library as a whole: vsnprintf and its callers, the digits it gets   *)
(* from put_dec, and the string functions.  The calls share no state, so   *)
(* callee picks the part a behaviour exercises, and the other parts rest   *)
(* before a call that never begins.                                        *)
(***************************************************************************)
EXTENDS PutDec, Format

CONSTANTS SearchCalls, CopyCalls, SIZES

VARIABLES
  callee,    \* "put_dec", "vsnprintf", "search" or "copy"
  spc, scall, place1, place2, left, sret, far,
  cpc, ccall, bytes, dst, src, room, cret, tokens

S == INSTANCE StringSearch
       WITH Calls <- SearchCalls,
            pc <- spc, call <- scall, i <- place1, j <- place2,
            n <- left, ret <- sret
C == INSTANCE StringCopy
       WITH Calls <- CopyCalls, pc <- cpc, call <- ccall, mem <- bytes,
            d <- dst, s <- src, n <- room, ret <- cret

ASSUME SearchAssumption == S!CallsAssumption
ASSUME CopyAssumption == C!CallsAssumption

searchVars == <<spc, scall, place1, place2, left, sret, far>>
copyVars == <<cpc, ccall, bytes, dst, src, room, cret, tokens>>
libVars == <<callee, putDecVars, vars, searchVars, copyVars>>

LibsInit ==
  /\ callee \in {"put_dec", "vsnprintf", "search", "copy"}
  /\ PutDecInit /\ Init /\ S!Init /\ C!Init

PutDecStep ==
  callee = "put_dec" /\ PutDecNext
  /\ UNCHANGED <<callee, vars, searchVars, copyVars>>
FormatStep ==
  callee = "vsnprintf" /\ Next
  /\ UNCHANGED <<callee, putDecVars, searchVars, copyVars>>
SearchStep ==
  callee = "search" /\ S!Next
  /\ UNCHANGED <<callee, putDecVars, vars, copyVars>>
CopyStep ==
  callee = "copy" /\ C!Next
  /\ UNCHANGED <<callee, putDecVars, vars, searchVars>>

LibsNext == PutDecStep \/ FormatStep \/ SearchStep \/ CopyStep

LibsSpec == LibsInit /\ [][LibsNext]_libVars

-----------------------------------------------------------------------------
(* Every comparison and search answers what it is for and reads no byte    *)
(* behind a terminator or its limit.                                       *)
SearchRight == S!SearchRight

(* Every copy leaves the bytes it is for at its destination, terminated    *)
(* and padded, never writes another one, and strsep returns every token.   *)
CopyRight == C!CopyRight

(* Every call of put_dec, and of every function of string.c, returns,      *)
(* strsep's callers' loop included.                                        *)
CallsReturn ==
  <>CASE callee = "put_dec" -> stage = "done"
      [] callee = "search" -> spc = "done"
      [] callee = "copy" -> cpc = "done"
      [] OTHER -> TRUE
=============================================================================
