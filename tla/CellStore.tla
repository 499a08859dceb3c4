------------------------------ MODULE CellStore ------------------------------
(***************************************************************************)
(* What every memory of the cell list promises, whatever its layout: "a    *)
(* vector(1) of vector(2)" (MemFast.hpp:81).  A store holds, for each of   *)
(* its cells 0 .. n-1, the sequence of the elements added to it.  Mem_fast,*)
(* Mem_bal and Mem_mw implement it, each with a layout of its own; their   *)
(* modules state the refinements.                                          *)
(*                                                                         *)
(* A store that was moved from, or whose slot number was changed under its *)
(* data, promises nothing until it is initialised or overwritten: it is    *)
(* not known, and shown empty.                                             *)
(***************************************************************************)
EXTENDS Integers, Sequences

CONSTANTS
    Obj,        \* the stores of the program
    Ele,        \* the elements (particle ids) they hold
    Sizes       \* the numbers of cells a store is initialised with

VARIABLES
    store,      \* what each store holds
    known       \* the stores that promise it

vars == <<store, known>>

-----------------------------------------------------------------------------

\* A store with n cells and no element.
EmptyStore(n) == [c \in 0 .. n - 1 |-> <<>>]

\* The sequence without its k-th element.
Without(s, k) == [i \in 1 .. Len(s) - 1 |-> IF i < k THEN s[i] ELSE s[i + 1]]

\* o is known from now on if p is.
KnownAs(o, p) == IF p \in known THEN known \union {o} ELSE known \ {o}

Init ==
    /\ store = [o \in Obj |-> EmptyStore(0)]
    /\ known = Obj

\* All the cells are emptied, and there are n of them.
InitToZero(o, n) ==
    /\ store' = [store EXCEPT ![o] = EmptyStore(n)]
    /\ known' = known \union {o}

Add(o, c, e) ==
    /\ o \in known
    /\ store' = [store EXCEPT ![o][c] = Append(@, e)]
    /\ UNCHANGED known

\* One element leaves the cell and the others keep their order.
Remove(o, c) ==
    /\ o \in known
    /\ \E k \in DOMAIN store[o][c] :
         store' = [store EXCEPT ![o][c] = Without(@, k)]
    /\ UNCHANGED known

Clear(o) ==
    /\ o \in known
    /\ store' = [store EXCEPT ![o] = [c \in DOMAIN @ |-> <<>>]]
    /\ UNCHANGED known

Copy(o, p) ==
    /\ store' = [store EXCEPT ![o] = store[p]]
    /\ known' = KnownAs(o, p)

Swap(o, p) ==
    /\ store' = [store EXCEPT ![o] = store[p], ![p] = store[o]]
    /\ known' = (known \ {o, p})
                  \union {q \in {o} : p \in known} \union {q \in {p} : o \in known}

\* o takes what p held; p promises nothing any more.
Take(o, p) ==
    /\ o # p
    /\ store' = [store EXCEPT ![o] = store[p], ![p] = EmptyStore(0)]
    /\ known' = KnownAs(o, p) \ {p}

Forget(o) ==
    /\ store' = [store EXCEPT ![o] = EmptyStore(0)]
    /\ known' = known \ {o}

Next ==
    \E o \in Obj :
        \/ \E n \in Sizes : InitToZero(o, n)
        \/ \E c \in DOMAIN store[o] : Remove(o, c) \/ \E e \in Ele : Add(o, c, e)
        \/ Clear(o)
        \/ \E p \in Obj : Copy(o, p) \/ Swap(o, p) \/ Take(o, p)
        \/ Forget(o)

Spec == Init /\ [][Next]_vars

=============================================================================
