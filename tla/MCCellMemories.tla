--------------------------- MODULE MCCellMemories ---------------------------
(***************************************************************************)
(* CellMemories for TLC.  A cell list has the memory its template argument *)
(* Mem_type names, so a behaviour has one kind.  Two Mem_fast objects with *)
(* two elements are too many states: there is either one object in use or  *)
(* one element.                                                            *)
(***************************************************************************)
EXTENDS CellMemories, TLC

CONSTANTS o1, o2, e1, e2

VARIABLE Mem_type   \* the kind of memory, the same in all states

TwoObjects == {o1, o2}
TwoElements == {e1, e2}

\* The elements are only stored and compared, the objects only hold them.
Symmetry == Permutations(Obj) \union Permutations(Ele)

Kinds == {"Mem_fast, one object", "Mem_fast, one element", "Mem_bal", "Mem_mw"}

\* The objects that have cells, the elements in their arrays.
Used1Object ==
    \E o \in Obj : \A p \in Obj \ {o} : mem[p].cells = 0

Used1Element ==
    \E e \in Ele : \A o \in Obj : \A k \in DOMAIN mem[o].cl_base : mem[o].cl_base[k] \in {e, Garbage}

MCInit ==
    /\ Mem_type \in Kinds
    /\ Init
    /\ Bal!Init
    /\ Mw!Init

MCNext ==
    /\ UNCHANGED Mem_type
    /\ \/ /\ Next
          /\ Mem_type = "Mem_fast, one object" /\ Used1Object'
          /\ UNCHANGED <<bal_base, mw_base, mw_cells>>
       \/ /\ Next
          /\ Mem_type = "Mem_fast, one element" /\ Used1Element'
          /\ UNCHANGED <<bal_base, mw_base, mw_cells>>
       \/ /\ Mem_type = "Mem_bal" /\ Bal!Next
          /\ UNCHANGED <<vars, mw_base, mw_cells>>
       \/ /\ Mem_type = "Mem_mw" /\ Mw!Next
          /\ UNCHANGED <<vars, bal_base>>

MCSpec == MCInit /\ [][MCNext]_<<vars, Mem_type, bal_base, mw_base, mw_cells>>

=============================================================================
