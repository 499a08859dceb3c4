------------------------------ MODULE GridStore ------------------------------
(***************************************************************************)
(* What grid_base_impl (Grid/grid_base_implementation.hpp) promises: a     *)
(* grid has a size in each direction and one value for each of its keys;   *)
(* no operation on a grid changes another one, and a resize keeps what     *)
(* both sizes have: "the element are retained on the new grid ... if is    *)
(* smaller the data are cropped" (line 980).                               *)
(***************************************************************************)
EXTENDS Integers

CONSTANTS
    Grid,       \* the grids of the program
    Sizes,      \* the sizes they are given, <<x, y>>
    Val         \* the values stored

VARIABLE store  \* the size of each grid and its value for each key

\* The keys of a grid of size sz.
Keys(sz) == (0 .. sz[1] - 1) \X (0 .. sz[2] - 1)

-----------------------------------------------------------------------------

Init == \A o \in Grid : store[o].sz = <<0, 0>>

\* Only o changes, and it has a value for each key of its size.
Only(o, sz) ==
    /\ store'[o].sz = sz
    /\ DOMAIN store'[o].val = Keys(sz)
    /\ \A p \in Grid \ {o} : store'[p] = store[p]

\* A new object, or a new memory under the same one: no value is promised.
Renew(o, sz) == Only(o, sz)

Set(o, k, v) == store' = [store EXCEPT ![o].val[k] = v]

Resize(o, sz) ==
    /\ Only(o, sz)
    /\ \A k \in DOMAIN store[o].val \cap Keys(sz) : store'[o].val[k] = store[o].val[k]

Copy(o, p) == store' = [store EXCEPT ![o] = store[p]]
Swap(o, p) == store' = [store EXCEPT ![o] = store[p], ![p] = store[o]]

Next ==
    \E o \in Grid :
        \/ \E sz \in Sizes : Renew(o, sz) \/ Resize(o, sz)
        \/ \E k \in DOMAIN store[o].val, v \in Val : Set(o, k, v)
        \/ \E p \in Grid : Copy(o, p) \/ Swap(o, p)

Spec == Init /\ [][Next]_store

=============================================================================
