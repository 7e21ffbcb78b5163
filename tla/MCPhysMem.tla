----------------------------- MODULE MCPhysMem -----------------------------
(* Memory maps as PC firmware gives them, in KB.                           *)
EXTENDS PhysMem

MB == 1024
Usable(from, to) == [base |-> from, len |-> to - from, type |-> 1]
Reserved(from, to) == [base |-> from, len |-> to - from, type |-> 2]

Below1M == <<Usable(0, 639), Reserved(639, 640), Reserved(960, 1024)>>

(* One bank up to a given size, with the firmware's tables at its end. *)
Plain(size) ==
  Below1M \o <<Usable(MB, size - 100), Reserved(size - 100, size)>>

(* A hole from 15 to 16 MB. *)
Hole(size) ==
  Below1M \o <<Usable(MB, 15 * MB), Reserved(15 * MB, 16 * MB),
               Usable(16 * MB, size)>>

(* A second bank above 4 GB. *)
High(size, top) == Plain(size) \o <<Usable(WORD, WORD + top)>>

(* Sizes of 4 to 8 MB leave no block for the heap; with an image that ends *)
(* at 4084 the frame array then begins at 4 MB.  4200 leaves no frame,     *)
(* 4204 one.                                                               *)
MCSizes == {3 * MB, 4200, 4204, 6 * MB, 8 * MB, 12 * MB, 16 * MB, 33 * MB + 5, 64 * MB,
            128 * MB, 1024 * MB + 100}

MCMaps == {Plain(s) : s \in MCSizes} \cup {Plain(1536 * MB)}
          \cup {High(64 * MB, 2048 * MB), Hole(64 * MB)}
          \cup {Plain(s * MB) : s \in {2048, 3072, 3500}}
          \cup {<<Usable(0, 64 * MB)>>}  \* no region begins above 1 MB
=============================================================================
