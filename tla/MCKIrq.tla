------------------------------- MODULE MCKIrq -------------------------------
(***************************************************************************)
(* A frame edge the kernel counts, an edge that a program may poll, the    *)
(* FIFO that only refilling quiets, and the YM whose flags the kernel can  *)
(* reset (a VIA is quieted as the FIFO is, by its enable alone); a handler *)
(* that is installed, and one that comes and goes.                         *)
(***************************************************************************)
EXTENDS KIrq

SomeSources == {"VSYNC", "LINE", "AFLOW", "YM"}
SomeInstalls == {<<"VSYNC", 1>>, <<"AFLOW", 2>>, <<"AFLOW", 0>>}
NmiInstalls == {"VSYNC"} \X {1}

=============================================================================
