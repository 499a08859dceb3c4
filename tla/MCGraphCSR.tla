----------------------------- MODULE MCGraphCSR -----------------------------
(***************************************************************************)
(* Instances of GraphCSR for TLC: two graphs made with or without vertices *)
(* and with different slots, whose callers are careful; and one graph of a *)
(* caller who gives a vertex more edges than it has slots.                 *)
(***************************************************************************)
EXTENDS GraphCSR, TLC

\* The graphs are only compared.
Symmetry == Permutations(Obj)
=============================================================================
