------------------------------- MODULE Pic8259 -------------------------------
(***************************************************************************)
(* Two cascaded 8259A interrupt controllers, as much of them as idt/idt.c  *)
(* uses: initialization, edge-triggered requests, fixed priority, the      *)
(* acknowledge cycles and the non-specific end of interrupt.  This is not  *)
(* code of the repository; it is the hardware the code drives.             *)
(***************************************************************************)
EXTENDS Integers

(* A chip: the initialization word it expects next (0 when it is ready),   *)
(* the vector of its line 0, its cascade word, and its mask, request and   *)
(* in-service registers as sets of lines.                                  *)
Chip(vector) ==
  [icw |-> 0, base |-> vector, casc |-> 0, imr |-> {}, irr |-> {}, isr |-> {}]

BitsOf(v) == {n \in 0..7 : (v \div 2^n) % 2 = 1}

Least(S) == CHOOSE n \in S : \A m \in S : n <= m

(* The requests that get through the mask and past what is in service. *)
Eligible(chip, requests) ==
  {n \in requests \ chip.imr : \A m \in chip.isr : n < m}

(* A write to the command port: the first initialization word, or a        *)
(* non-specific end of interrupt, which clears the in-service bit of the   *)
(* highest priority.                                                       *)
Command(chip, v) ==
  CASE v = 17 -> [chip EXCEPT !.icw = 2, !.imr = {}, !.irr = {}, !.isr = {}]
    [] v = 32 /\ chip.isr # {} -> [chip EXCEPT !.isr = @ \ {Least(@)}]
    [] OTHER -> chip

(* A write to the data port: an initialization word, or the mask. *)
Data(chip, v) ==
  CASE chip.icw = 2 -> [chip EXCEPT !.icw = 3, !.base = v]
    [] chip.icw = 3 -> [chip EXCEPT !.icw = 4, !.casc = v]
    [] chip.icw = 4 -> [chip EXCEPT !.icw = 0]
    [] OTHER -> [chip EXCEPT !.imr = BitsOf(v)]

(* Both chips, m the master and s the slave.  A port that is neither's     *)
(* leaves them alone.                                                      *)
OutB(pic, port, v) ==
  CASE port = 32 -> [pic EXCEPT !.m = Command(@, v)]
    [] port = 33 -> [pic EXCEPT !.m = Data(@, v)]
    [] port = 160 -> [pic EXCEPT !.s = Command(@, v)]
    [] port = 161 -> [pic EXCEPT !.s = Data(@, v)]
    [] OTHER -> pic

Ready(pic) == pic.m.icw = 0 /\ pic.s.icw = 0

SlaveInt(pic) == Eligible(pic.s, pic.s.irr) # {}

(* The slave's output is the master's line 2. *)
MasterEligible(pic) ==
  Eligible(pic.m, pic.m.irr \cup (IF SlaveInt(pic) THEN {2} ELSE {}))

(* The processor's interrupt pin. *)
Intr(pic) == Ready(pic) /\ MasterEligible(pic) # {}

(* A line goes up: an edge is latched.  It goes down before it was         *)
(* acknowledged: the request is gone.                                      *)
RaiseLine(pic, n) ==
  IF n < 8 THEN [pic EXCEPT !.m.irr = @ \cup {n}]
           ELSE [pic EXCEPT !.s.irr = @ \cup {n - 8}]
Requested(pic, n) == IF n < 8 THEN n \in pic.m.irr ELSE n - 8 \in pic.s.irr
DropLine(pic, n) ==
  IF n < 8 THEN [pic EXCEPT !.m.irr = @ \ {n}]
           ELSE [pic EXCEPT !.s.irr = @ \ {n - 8}]

(* An acknowledge cycle of one chip: the line goes from requested to in    *)
(* service.  Without a request the chip answers line 7, a spurious         *)
(* interrupt, and nothing goes in service.                                 *)
AckLine(eligible) == IF eligible = {} THEN 7 ELSE Least(eligible)
AckChip(chip, eligible) ==
  IF eligible = {} THEN chip
  ELSE [chip EXCEPT !.irr = @ \ {Least(eligible)},
                    !.isr = @ \cup {Least(eligible)}]
=============================================================================
