------------------------------- MODULE MCSquid ------------------------------
(* Byte sizes scaled down with the ratios of the code kept: the header is *)
(* one slot, the BufReader capacity a whole number of slots above the     *)
(* header (8192 - 16 = 511 * 16), and the batch larger than the buffer.   *)
(* Directory listings: chunks 2 and 1 listed out of order with a name the *)
(* regex rejects between them, every length from empty to several batches *)
(* (files shorter than the header, trailing partial slots), and a listing *)
(* whose numbers are not contiguous.                                      *)
EXTENDS Squid

CONSTANTS NoNumV

Lens == 0 .. 11

E(n, l) == [num |-> n, len |-> l]

MCDirs ==
  { << E(2, a), E(NoNumV, 3), E(1, b) >> : a \in Lens, b \in Lens }
  \cup { << E(1, 5), E(3, 5) >> }
=============================================================================
