--------------------------- MODULE MCCellListGPU ---------------------------
(***************************************************************************)
(* CellListGPU for TLC: constructs of up to MaxPart particles in NCells    *)
(* cells, one after the other, in both builds.                             *)
(***************************************************************************)
EXTENDS CellListGPU

CONSTANT
  MaxTogether   \* bound on the particles of a construct and of the one before it

\* A construct of the same particles as before is always possible.
InTwoConstructs ==
  pl' = pl \/ Cardinality(DOMAIN pl) + Cardinality(DOMAIN pl') <= MaxTogether

MCSpec == Init /\ [][Next /\ InTwoConstructs]_vars
=============================================================================
