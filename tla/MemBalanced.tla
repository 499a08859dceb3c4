----------------------------- MODULE MemBalanced -----------------------------
(***************************************************************************)
(* Mem_bal (NN/Mem_type/MemBalanced.hpp), the memory with one growing      *)
(* vector for each cell.  An object is the sequence cl_base of the vectors *)
(* of its cells; the cell c has the vector cl_base[c + 1].  The slot       *)
(* numbers its callers pass are ignored.                                   *)
(*                                                                         *)
(* The definitions under "Fault:" are wrong variants of the one that       *)
(* follows them; no specification uses them.                               *)
(***************************************************************************)
EXTENDS Integers, Sequences

CONSTANTS
    Obj,        \* the Mem_bal objects of the program
    Ele,        \* the elements they store
    Sizes,      \* the numbers of cells an object is initialised with
    MaxEle      \* bound: the elements of one cell

Seqs == INSTANCE SequencesExt

VARIABLE cl_base

vars == cl_base

-----------------------------------------------------------------------------

Cells(o) == 0 .. Len(cl_base[o]) - 1
GetNelements(o, cell) == Len(cl_base[o][cell + 1])

Init == cl_base = [o \in Obj |-> <<>>]

\* vector::resize: the first vectors stay as they are, the new ones are empty.
Resized(s, n) == [i \in 1 .. n |-> IF i <= Len(s) THEN s[i] ELSE <<>>]

Cleared(s) == [i \in DOMAIN s |-> <<>>]

\* Fault: the vectors that stay are not cleared.
InitToZeroResizeOnly(o, n) ==
    cl_base' = [cl_base EXCEPT ![o] = Resized(@, n)]

InitToZero(o, n) ==
    cl_base' = [cl_base EXCEPT ![o] = Cleared(Resized(@, n))]

AddCell(o, cell, ele) ==
    /\ cell \in Cells(o) /\ GetNelements(o, cell) < MaxEle
    /\ cl_base' = [cl_base EXCEPT ![o][cell + 1] = Append(@, ele)]

\* The elements after the one that leaves move down.
Remove(o, cell, ele) ==
    /\ cell \in Cells(o) /\ ele \in 0 .. GetNelements(o, cell) - 1
    /\ cl_base' = [cl_base EXCEPT ![o][cell + 1] = Seqs!RemoveAt(@, ele + 1)]

Clear(o) == cl_base' = [cl_base EXCEPT ![o] = Cleared(@)]

Copy(o, p) == cl_base' = [cl_base EXCEPT ![o] = cl_base[p]]

\* Both swaps exchange the vectors.
Swap(o, p) == cl_base' = [cl_base EXCEPT ![o] = cl_base[p], ![p] = cl_base[o]]

Next ==
    \E o \in Obj :
        \/ \E n \in Sizes : InitToZero(o, n)
        \/ \E cell \in Cells(o) :
             \/ \E ele \in Ele : AddCell(o, cell, ele)
             \/ \E ele \in 0 .. GetNelements(o, cell) - 1 : Remove(o, cell, ele)
        \/ Clear(o)
        \/ \E p \in Obj : Copy(o, p) \/ Swap(o, p)

Spec == Init /\ [][Next]_vars

-----------------------------------------------------------------------------

\* What the clients of an object see.
Contents(s) == [c \in 0 .. Len(s) - 1 |-> s[c + 1]]

Store == INSTANCE CellStore WITH
    store <- [o \in Obj |-> Contents(cl_base[o])], known <- Obj

\* Refinement: Mem_bal is a store of cells.  An initialisation empties the
\* vectors that an earlier use of the object left (init_to_zero,
\* MemBalanced.hpp:66-72), and no operation disturbs another cell or object.
ImplementsStore == Store!Spec

=============================================================================
