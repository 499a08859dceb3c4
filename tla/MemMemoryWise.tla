---------------------------- MODULE MemMemoryWise ----------------------------
(***************************************************************************)
(* Mem_mw (NN/Mem_type/MemMemoryWise.hpp), the memory for few elements in  *)
(* many cells: an unordered_map cl_base from cells to the vectors of their *)
(* elements.  A cell without a vector is empty; the first element added to *)
(* a cell makes its vector, and only clear and init_to_zero delete it.     *)
(*                                                                         *)
(* The object does not keep the number of its cells: the cell list that    *)
(* owns it does, and copies and exchanges it with the object (cells).      *)
(*                                                                         *)
(* The definitions under "Fault:" are wrong variants of the one that       *)
(* follows them; no specification uses them.                               *)
(***************************************************************************)
EXTENDS Integers, Sequences

CONSTANTS
    Obj,        \* the Mem_mw objects of the program
    Ele,        \* the elements they store
    Sizes,      \* the numbers of cells an object is initialised with
    MaxEle      \* bound: the elements of one cell

Seqs == INSTANCE SequencesExt

VARIABLES cl_base, cells

vars == <<cl_base, cells>>

-----------------------------------------------------------------------------

Cells(o) == 0 .. cells[o] - 1

\* The vector of a cell, as find sees it.
Vector(base, cell) == IF cell \in DOMAIN base THEN base[cell] ELSE <<>>

GetNelements(o, cell) == Len(Vector(cl_base[o], cell))

\* The map with another vector for the cell, which operator[] may have made.
With(base, cell, vector) ==
    [c \in DOMAIN base \union {cell} |-> IF c = cell THEN vector ELSE base[c]]

NoCell == [c \in {} |-> <<>>]

Init ==
    /\ cl_base = [o \in Obj |-> NoCell]
    /\ cells = [o \in Obj |-> 0]

InitToZero(o, n) ==
    /\ cl_base' = [cl_base EXCEPT ![o] = NoCell]
    /\ cells' = [cells EXCEPT ![o] = n]

\* Fault: the vector of the cell is begun anew.
AddCellAnew(o, cell, ele) ==
    /\ cell \in Cells(o) /\ GetNelements(o, cell) < MaxEle
    /\ cl_base' = [cl_base EXCEPT ![o] = With(@, cell, <<ele>>)]
    /\ UNCHANGED cells

AddCell(o, cell, ele) ==
    /\ cell \in Cells(o) /\ GetNelements(o, cell) < MaxEle
    /\ cl_base' = [cl_base EXCEPT ![o] = With(@, cell, Append(Vector(@, cell), ele))]
    /\ UNCHANGED cells

\* An empty vector stays in the map.
Remove(o, cell, ele) ==
    /\ cell \in Cells(o) /\ ele \in 0 .. GetNelements(o, cell) - 1
    /\ cl_base' = [cl_base EXCEPT ![o] = With(@, cell, Seqs!RemoveAt(@[cell], ele + 1))]
    /\ UNCHANGED cells

Clear(o) ==
    /\ cl_base' = [cl_base EXCEPT ![o] = NoCell]
    /\ UNCHANGED cells

Copy(o, p) ==
    /\ cl_base' = [cl_base EXCEPT ![o] = cl_base[p]]
    /\ cells' = [cells EXCEPT ![o] = cells[p]]

\* Both swaps exchange the maps.
Swap(o, p) ==
    /\ cl_base' = [cl_base EXCEPT ![o] = cl_base[p], ![p] = cl_base[o]]
    /\ cells' = [cells EXCEPT ![o] = cells[p], ![p] = cells[o]]

Next ==
    \E o \in Obj :
        \/ \E n \in Sizes : InitToZero(o, n)
        \/ \E cell \in Cells(o) :
             \/ \E ele \in Ele : AddCell(o, cell, ele)
             \/ \E ele \in 0 .. GetNelements(o, cell) - 1 : Remove(o, cell, ele)
        \/ Clear(o)
        \/ \E p \in Obj : Copy(o, p) \/ Swap(o, p)

Spec == Init /\ [][Next]_vars

-----------------------------------------------------------------------------

\* Type invariant: a map from cells the object has to sequences of elements;
\* no vector survives of a cell it no longer has.
TypeOK ==
    /\ cells \in [Obj -> Nat]
    /\ \A o \in Obj : /\ DOMAIN cl_base[o] \subseteq Cells(o)
                      /\ \A c \in DOMAIN cl_base[o] : cl_base[o][c] \in Seq(Ele)

\* What the clients of an object with n cells see.
Contents(base, n) == [c \in 0 .. n - 1 |-> Vector(base, c)]

Store == INSTANCE CellStore WITH
    store <- [o \in Obj |-> Contents(cl_base[o], cells[o])], known <- Obj

\* Refinement: with the map hidden, Mem_mw is a store of cells.  No vector of
\* an earlier use, of a larger number of cells, is found again later
\* (init_to_zero, MemMemoryWise.hpp:61-64), and a cell that lost its last
\* element is as empty as one that never had any (getNelements, 121-128); the map
\* has vectors of cells there are, and of no others (TypeOK).
ImplementsStore == Store!Spec /\ []TypeOK

=============================================================================
