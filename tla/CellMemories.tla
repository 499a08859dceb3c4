---------------------------- MODULE CellMemories ----------------------------
(***************************************************************************)
(* The three memories a cell list can be built on: Mem_fast, Mem_bal and   *)
(* Mem_mw (the template argument Mem_type).  MemFast is extended, the      *)
(* other two are instances beside it.                                      *)
(***************************************************************************)
EXTENDS MemFast

CONSTANT MaxEle     \* bound: the elements of one cell

VARIABLES
    bal_base,       \* cl_base of the Mem_bal objects
    mw_base,        \* cl_base of the Mem_mw objects
    mw_cells        \* the numbers of cells of the cell lists on Mem_mw

\* A Mem_bal keeps vectors when its list gets fewer cells, but not none.
Bal == INSTANCE MemBalanced WITH Sizes <- Sizes \union {1}, cl_base <- bal_base
Mw == INSTANCE MemMemoryWise WITH cl_base <- mw_base, cells <- mw_cells

-----------------------------------------------------------------------------

\* Mem_bal is a store of cells too: an initialisation empties the vectors an
\* earlier use left, no operation disturbs another cell or object
\* (MemBalanced.hpp:66-72).
BalImplementsStore == Bal!ImplementsStore

\* And so is Mem_mw: no vector of an earlier use is found again, and a cell
\* that lost its last element is as empty as one that never had any
\* (MemMemoryWise.hpp:121-128).
MwImplementsStore == Mw!ImplementsStore

=============================================================================
