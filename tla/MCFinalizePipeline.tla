------------------------- MODULE MCFinalizePipeline -------------------------
(***************************************************************************)
(* Instances of FinalizePipeline for TLC: two branches that part at the    *)
(* second height; the last block of one of them is late.                   *)
(***************************************************************************)
EXTENDS FinalizePipeline

CONSTANTS main, side

SideIsLate == {[height |-> MaxHeight, branch |-> side]}
=============================================================================
