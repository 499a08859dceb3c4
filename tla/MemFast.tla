------------------------------- MODULE MemFast -------------------------------
(***************************************************************************)
(* Mem_fast (NN/Mem_type/MemFast.hpp), the default memory of the cell      *)
(* lists and of the Verlet lists: the vector of vectors is one flat array, *)
(* with the same number of slots for every cell, doubled as soon as one    *)
(* cell comes within one element of it.                                    *)
(*                                                                         *)
(* An object of the class is a record of                                   *)
(*     slot     the slots of each cell,                                    *)
(*     cells    cl_n.size(),                                               *)
(*     cl_n     the number of elements of each cell 0 .. cells-1,          *)
(*     size     cl_base.size(),                                            *)
(*     cl_base  the flat array 0 .. size-1.                                *)
(* The element ele of the cell c is cl_base[slot * c + ele].  A place that *)
(* was allocated and never written holds Garbage.                          *)
(*                                                                         *)
(* loose is not a field of the class.  It records which objects no longer  *)
(* describe what they hold: their slot number was set under the data       *)
(* (set_slot), or they were moved from (swap with an rvalue, which leaves  *)
(* them their old slot number and the other's arrays).  The caller of      *)
(* either may only initialise, assign or swap such an object.              *)
(*                                                                         *)
(* The definitions under "Fault:" are wrong variants of the one that       *)
(* follows them, as a slip in the code would make them.  No specification  *)
(* uses them; put in its place, each breaks a property below.              *)
(***************************************************************************)
EXTENDS Integers, Sequences

CONSTANTS
    Obj,        \* the Mem_fast objects of the program
    Ele,        \* the elements they store
    Sizes,      \* the numbers of cells an object is initialised with
    Slots,      \* the numbers of slots an object is given by its callers
    MaxSlot,    \* bound: no operation grows slot beyond it
    Garbage     \* an array element that was never written

\* The slot number is doubled when a cell fills up: 0 would stay 0.  The
\* callers pass STARTING_NSLOT, VERLET_STARTING_NSLOT or a slot that was
\* doubled from them.
ASSUME SlotsAssumption == Slots \subseteq Nat \ {0}
ASSUME SizesAssumption == Sizes \subseteq Nat
ASSUME MaxSlotAssumption == MaxSlot \in Nat
ASSUME GarbageAssumption == Garbage \notin Ele

VARIABLES
    mem,        \* the objects
    loose       \* those that do not describe what they hold

vars == <<mem, loose>>

-----------------------------------------------------------------------------

Cells(m) == 0 .. m.cells - 1

\* The value of the flat array's element (cell, ele), and what is stored.
Get(m, cell, ele) == m.cl_base[m.slot * cell + ele]
GetNElements(m, cell) == m.cl_n[cell]

\* The index getStopId takes the address of: one past the cell's last one.
StopIndex(m, cell) == m.slot * cell + m.cl_n[cell]

\* vector::resize: the first elements stay, the new ones are not written.
Resize(array, old, new) ==
    [k \in 0 .. new - 1 |-> IF k < old THEN array[k] ELSE Garbage]

\* Fault: the copy loop stops one element early.
UsedButLast(m) == UNION {{c} \X (0 .. m.cl_n[c] - 2) : c \in Cells(m)}

\* The places <<cell, ele>> in use.
Used(m) == UNION {{c} \X (0 .. m.cl_n[c] - 1) : c \in Cells(m)}

\* The place in use that realloc's loop moves to the index k.
SourceOf(m, k) == CHOOSE p \in Used(m) : k = 2 * p[1] * m.slot + p[2]

\* Fault: the elements are left where they were, with the old number of slots.
ReallocOldStride(m) ==
    [m EXCEPT !.slot = 2 * @, !.size = 2 * @,
              !.cl_base = Resize(@, m.size, 2 * m.size)]

\* realloc(): twice the slots, the elements of each cell copied to their new
\* place, nothing else.
Realloc(m) ==
    [slot    |-> 2 * m.slot,
     cells   |-> m.cells,
     cl_n    |-> m.cl_n,
     size    |-> 2 * m.slot * m.cells,
     cl_base |-> [k \in 0 .. 2 * m.slot * m.cells - 1 |->
                    IF \E p \in Used(m) : k = 2 * p[1] * m.slot + p[2]
                    THEN m.cl_base[m.slot * SourceOf(m, k)[1] + SourceOf(m, k)[2]]
                    ELSE Garbage]]

\* Fault: the object grows when a cell is full, no place is kept free.
NeedsReallocWhenFull(m, cell) == GetNElements(m, cell) >= m.slot

\* addCell has to grow the object first.  The place after the last element
\* is kept free: getStopId refers to it.
NeedsRealloc(m, cell) == GetNElements(m, cell) + 1 >= m.slot

-----------------------------------------------------------------------------

Constructed(slot) ==
    [slot |-> slot, cells |-> 0, cl_n |-> [c \in {} |-> 0],
     size |-> 0, cl_base |-> [k \in {} |-> Garbage]]

Init ==
    /\ mem \in [Obj -> {Constructed(slot) : slot \in Slots}]
    /\ loose = {}

InitToZero(o, slot, n) ==
    /\ mem' = [mem EXCEPT ![o] =
                [slot |-> slot, cells |-> n, cl_n |-> [c \in 0 .. n - 1 |-> 0],
                 size |-> n * slot, cl_base |-> Resize(@.cl_base, @.size, n * slot)]]
    /\ loose' = loose \ {o}

Stored(m, cell, ele) ==
    [m EXCEPT !.cl_base = [@ EXCEPT ![m.slot * cell + m.cl_n[cell]] = ele],
              !.cl_n = [@ EXCEPT ![cell] = m.cl_n[cell] + 1]]

AddCell(o, cell, ele) ==
    /\ o \notin loose
    /\ cell \in Cells(mem[o])
    /\ LET m == mem[o] IN
         /\ NeedsRealloc(m, cell) => 2 * m.slot <= MaxSlot
         /\ mem' = [mem EXCEPT ![o] =
                     Stored(IF NeedsRealloc(m, cell) THEN Realloc(m) ELSE m, cell, ele)]
    /\ UNCHANGED loose

\* remove(cell, ele) does not look at ele.
Remove(o, cell, ele) ==
    /\ o \notin loose
    /\ cell \in Cells(mem[o])
    /\ ele \in 0 .. GetNElements(mem[o], cell) - 1
    /\ mem' = [mem EXCEPT ![o].cl_n[cell] = @ - 1]
    /\ UNCHANGED loose

Clear(o) ==
    /\ o \notin loose
    /\ mem' = [mem EXCEPT ![o].cl_n = [c \in Cells(mem[o]) |-> 0]]
    /\ UNCHANGED loose

\* The staleness of an object is that of the layout it is given.
LooseAfter(o, p) == IF p \in loose THEN loose \union {o} ELSE loose \ {o}

\* operator=(const Mem_fast &) and copy_general.
Copy(o, p) ==
    /\ mem' = [mem EXCEPT ![o] = mem[p]]
    /\ loose' = LooseAfter(o, p)

\* swap(Mem_fast &) and operator=(Mem_fast &&), which calls it.
Swap(o, p) ==
    /\ mem' = [mem EXCEPT ![o] = mem[p], ![p] = mem[o]]
    /\ loose' = {q \in Obj : IF q = o THEN p \in loose
                              ELSE IF q = p THEN o \in loose
                              ELSE q \in loose}

\* swap(Mem_fast &&), which CellList::operator=(CellList &&) calls: the arrays
\* are exchanged, the slot number is only copied.
SwapRvalue(o, p) ==
    /\ o # p
    /\ mem' = [mem EXCEPT ![o] = mem[p], ![p] = [mem[o] EXCEPT !.slot = mem[p].slot]]
    /\ loose' = LooseAfter(o, p) \union {p}

SetSlot(o, slot) ==
    /\ mem' = [mem EXCEPT ![o].slot = slot]
    /\ loose' = loose \union {o}

Next ==
    \E o \in Obj :
        \/ \E slot \in Slots, n \in Sizes : InitToZero(o, slot, n)
        \/ \E cell \in Cells(mem[o]), ele \in Ele : AddCell(o, cell, ele)
        \/ \E cell \in Cells(mem[o]) :
             \E ele \in 0 .. GetNElements(mem[o], cell) - 1 : Remove(o, cell, ele)
        \/ Clear(o)
        \/ \E p \in Obj : Copy(o, p) \/ Swap(o, p) \/ SwapRvalue(o, p)
        \/ \E slot \in Slots : SetSlot(o, slot)

Spec == Init /\ [][Next]_vars

-----------------------------------------------------------------------------

ObjectOK(m) ==
    m \in [slot    : Nat \ {0},
           cells   : Nat,
           cl_n    : [Cells(m) -> Nat],
           size    : Nat,
           cl_base : [0 .. m.size - 1 -> Ele \union {Garbage}]]

\* Type invariant: cl_n has one count for each cell, cl_base as many places
\* as the vector's size (the fields of Mem_fast, MemFast.hpp:90-101).
TypeOK ==
    /\ DOMAIN mem = Obj
    /\ \A o \in Obj : ObjectOK(mem[o])
    /\ loose \subseteq Obj

\* Safety: an object that is not loose has its slots for all its cells and
\* in every cell at least one free place, so that the place addCell writes
\* and the one getStopId refers to are in the array, and in the cell's own
\* part of it (addCell, MemFast.hpp:213-221; getStopId, 347-350).
RoomOK(m) ==
    /\ m.size = m.slot * m.cells
    /\ \A c \in Cells(m) : m.cl_n[c] < m.slot

AlwaysRoom == \A o \in Obj \ loose : RoomOK(mem[o])

\* Safety: every place in use was written by an addCell: no growth, copy,
\* resize or exchange leaves a cell with an element nobody stored (realloc
\* moves the elements one by one, MemFast.hpp:114-118).
WrittenOK(m) ==
    \A c \in Cells(m) : \A j \in 0 .. m.cl_n[c] - 1 : Get(m, c, j) \in Ele

AlwaysWritten == \A o \in Obj \ loose : WrittenOK(mem[o])

\* What the clients of an object see.
Contents(m) ==
    [c \in Cells(m) |-> [k \in 1 .. GetNElements(m, c) |-> Get(m, c, k - 1)]]

StoreView ==
    [o \in Obj |-> IF o \in loose THEN [c \in {} |-> <<>>] ELSE Contents(mem[o])]

Store == INSTANCE CellStore WITH store <- StoreView, known <- Obj \ loose

\* Refinement: with the flat array, the growth and the shared slot number
\* hidden, Mem_fast is a vector of vectors (MemFast.hpp:77-86): an operation
\* on one cell leaves the others' sequences alone, growth changes none.
ImplementsStore == Store!Spec

\* "Remove an element in the cell ... ele element id to remove"
\* (MemFast.hpp:265-268): the sequence that stays is the cell's without the
\* element at ele.
RemoveTakesEle ==
    [][\A o \in Obj \ loose :
         \A cell \in Cells(mem[o]) :
           \A ele \in 0 .. GetNElements(mem[o], cell) - 1 :
             Remove(o, cell, ele) =>
               Contents(mem'[o])[cell] = Store!Without(Contents(mem[o])[cell], ele + 1)]_vars

=============================================================================
