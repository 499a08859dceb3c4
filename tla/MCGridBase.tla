----------------------------- MODULE MCGridBase -----------------------------
(***************************************************************************)
(* Instances of GridBase for TLC: two grids that are moved, copied and     *)
(* resized with three memories of their own and one of the caller.         *)
(***************************************************************************)
EXTENDS GridBase, TLC

CONSTANTS o1, o2, m1, m2, m3, ext, v1

TwoGrids == {o1, o2}
OneGrid == {o1}
Memories == {m1, m2, m3, ext}
External == {ext}
OneVal == {v1}
Squares == {<<0, 0>>, <<1, 2>>, <<2, 1>>, <<2, 2>>}

\* The second size is the first with another row.
Grows == {<<1, 2>>, <<2, 2>>}

\* The grids and the memories of their own are only compared.
Symmetry == Permutations(Grid) \union Permutations(Mem \ Ext)

=============================================================================
