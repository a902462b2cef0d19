------------------------------- MODULE MCKMem -------------------------------
(***************************************************************************)
(* A small arena for TLC: pages 1..6, of which 5 and 6 are the releasable  *)
(* region, a table of three entries, and every kind of request: none, one  *)
(* byte, exact pages, one byte over, the whole arena, too much, and the    *)
(* largest 32-bit number, whose rounding would wrap.                       *)
(***************************************************************************)
EXTENDS KMem

MCRequests == {0, 1, 256, 257, 1024, 1025, 1536, 1537, SizeMod - 1}

=============================================================================
