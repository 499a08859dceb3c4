------------------------------- MODULE Vector -------------------------------
(***************************************************************************)
(* openfpm::vector on the native layouts (Vector/map_vector.hpp): a size   *)
(* and a one-dimensional grid with at least as many places.                *)
(*                                                                         *)
(* An object is a record of                                                *)
(*     v_size  the elements of the vector,                                 *)
(*     cap     base.size(), the places of the grid,                        *)
(*     base    the places 0 .. cap-1.                                      *)
(* A place that was allocated and never written holds Garbage.  The type   *)
(* of an object says how it grows: its policy.                             *)
(*                                                                         *)
(* moved is not a field.  It holds the objects operator=(vector &&) took   *)
(* from: they have kept their size and been given the other's grid, so     *)
(* that their size may be larger than their grid.  Their owner may only    *)
(* destroy, resize, clear, assign or swap them.                            *)
(*                                                                         *)
(* The definitions under "Fault:" are slips the next definition could      *)
(* have; no specification uses them.                                       *)
(***************************************************************************)
EXTENDS Integers, Sequences, FiniteSets

CONSTANTS
    Obj,                \* the vectors of the program
    Policy,             \* the growth policy of each
    Grow(_, _, _),      \* grow_p::grow(original, requested) of a policy
    Val, Garbage,       \* what places hold, written or not
    MaxSize,            \* bound: the elements of a vector
    MaxCapacity         \* bound: its places

\* A policy answers a request with at least as much.
ASSUME GrowAssumption ==
    \A p \in {Policy[o] : o \in Obj} \union {"double"} :
      \A original, requested \in 0 .. MaxCapacity :
        Grow(p, original, requested) \in Nat /\ requested <= Grow(p, original, requested)
ASSUME GarbageAssumption == Garbage \notin Val
ASSUME BoundsAssumption == MaxSize \in Nat /\ MaxCapacity \in Nat /\ MaxSize <= MaxCapacity

VARIABLES vec, moved

vars == <<vec, moved>>

-----------------------------------------------------------------------------

Places(v) == 0 .. v.cap - 1

\* base.resize(n): a new grid with the places both have.
Enlarged(v, n) ==
    [v EXCEPT !.cap = n,
              !.base = [k \in 0 .. n - 1 |-> IF k < v.cap THEN v.base[k] ELSE Garbage]]

NeedsPlace(v) == v.v_size >= v.cap

\* add() has made room for one more: the places are doubled, none become one.
Roomy(v) ==
    IF ~ NeedsPlace(v) THEN v
    ELSE Enlarged(v, IF v.cap = 0 THEN 1 ELSE 2 * v.cap)

\* v with room for n elements.
RoomFor(v, policy, n) ==
    IF n > v.cap THEN Enlarged(v, Grow(policy, v.cap, n)) ELSE v

\* Its first n places are those of w, from the place k on.
Filled(v, k, w, n) ==
    [v EXCEPT !.base = [i \in Places(v) |->
       IF i \in k .. k + n - 1 THEN w.base[i - k] ELSE v.base[i]]]

Empty == [v_size |-> 0, cap |-> 0, base |-> [k \in {} |-> Garbage]]

\* moved, when o is given what p has.
MovedAs(o, p) == IF p \in moved THEN moved \union {o} ELSE moved \ {o}

\* o becomes v; the bounds hold.
Becomes(o, v) ==
    /\ v.v_size <= MaxSize /\ v.cap <= MaxCapacity
    /\ vec' = [vec EXCEPT ![o] = v]

-----------------------------------------------------------------------------

Init ==
    /\ vec = [o \in Obj |-> Empty]
    /\ moved = {}

\* The object is destroyed and vector(n) constructed in its place.
Construct(o, n) ==
    /\ Becomes(o, [v_size |-> n, cap |-> n, base |-> [k \in 0 .. n - 1 |-> Garbage]])
    /\ moved' = moved \ {o}

Reserve(o, n) ==
    /\ o \notin moved /\ n > vec[o].cap
    /\ Becomes(o, Enlarged(vec[o], n))
    /\ UNCHANGED moved

\* resize(n), and clear(), which is resize(0).
Resize(o, n) ==
    /\ Becomes(o, [RoomFor(vec[o], Policy[o], n) EXCEPT !.v_size = n])
    /\ moved' = moved \ {o}

\* add(): the place is shown as it is.
AddEmpty(o) ==
    /\ o \notin moved
    /\ Becomes(o, [Roomy(vec[o]) EXCEPT !.v_size = vec[o].v_size + 1])
    /\ UNCHANGED moved

\* add(v), where v is not an element of this vector.
Add(o, e) ==
    /\ o \notin moved
    /\ Becomes(o, [Roomy(vec[o]) EXCEPT
                     !.v_size = vec[o].v_size + 1,
                     !.base = [Roomy(vec[o]).base EXCEPT ![vec[o].v_size] = e]])
    /\ UNCHANGED moved

\* add(vector) and add_prp of all properties: each add() may double the
\* places.  The loop does not end if the vector is added to itself.
AddVector(o, p) ==
    /\ o # p /\ {o, p} \cap moved = {}
    /\ LET n == vec[o].v_size + vec[p].v_size
       IN Becomes(o, [Filled(RoomFor(vec[o], "double", n), vec[o].v_size, vec[p], vec[p].v_size)
                        EXCEPT !.v_size = n])
    /\ UNCHANGED moved

\* Fault: the elements are moved from the lowest on.
InsertFromBelow(o, key) ==
    /\ o \notin moved /\ key \in 0 .. vec[o].v_size
    /\ LET v == Roomy(vec[o])
       IN Becomes(o, [v EXCEPT
            !.v_size = vec[o].v_size + 1,
            !.base = [i \in Places(v) |-> IF i \in key + 1 .. vec[o].v_size
                                          THEN v.base[key] ELSE v.base[i]]])
    /\ UNCHANGED moved

\* insert(key): the elements from key on move up, from the last one down.
Insert(o, key) ==
    /\ o \notin moved /\ key \in 0 .. vec[o].v_size
    /\ LET v == Roomy(vec[o])
       IN Becomes(o, [v EXCEPT
            !.v_size = vec[o].v_size + 1,
            !.base = [i \in Places(v) |-> IF i \in key + 1 .. vec[o].v_size
                                          THEN v.base[i - 1] ELSE v.base[i]]])
    /\ UNCHANGED moved

\* What is left of a vector when the keys K leave: an element that stays moves
\* down by the keys below it.  VectorRemove has the loop.
Without(v, K) ==
    LET Moves(s, d) == s \notin K /\ s - Cardinality({k \in K : k < s}) = d
    IN [v EXCEPT
         !.v_size = v.v_size - Cardinality(K),
         !.base = [d \in Places(v) |->
           IF \E s \in 0 .. v.v_size - 1 : Moves(s, d)
           THEN v.base[CHOOSE s \in 0 .. v.v_size - 1 : Moves(s, d)]
           ELSE v.base[d]]]

\* remove(key) and remove(keys, start), for the set K of keys from start on.
Remove(o, K) ==
    /\ o \notin moved /\ K # {} /\ K \subseteq 0 .. vec[o].v_size - 1
    /\ Becomes(o, Without(vec[o], K))
    /\ UNCHANGED moved

Set(o, i, e) ==
    /\ o \notin moved /\ i \in 0 .. vec[o].v_size - 1
    /\ Becomes(o, [vec[o] EXCEPT !.base = [vec[o].base EXCEPT ![i] = e]])
    /\ UNCHANGED moved

\* Fault: operator=(const vector &) without the growth.
CopyInto(v, w) == [Filled(v, 0, w, w.v_size) EXCEPT !.v_size = w.v_size]

\* operator=(const vector &): the grid grows if it is too small.
CopyOf(v, w) ==
    [Filled(IF v.cap < w.v_size THEN Enlarged(v, w.v_size) ELSE v, 0, w, w.v_size)
       EXCEPT !.v_size = w.v_size]

Copy(o, p) ==
    /\ Policy[o] = Policy[p] /\ p \notin moved
    /\ Becomes(o, CopyOf(vec[o], vec[p]))
    /\ moved' = moved \ {o}

\* operator= of a vector with another policy: the grid gets the size.
CopyOther(o, p) ==
    /\ Policy[o] # Policy[p] /\ p \notin moved
    /\ Becomes(o, [Filled(Enlarged(vec[o], vec[p].v_size), 0, vec[p], vec[p].v_size)
                     EXCEPT !.v_size = vec[p].v_size])
    /\ moved' = moved \ {o}

\* vector(const vector &): swap with a duplicate, which has all the places.
CopyConstruct(o, p) ==
    /\ Policy[o] = Policy[p] /\ o # p /\ p \notin moved
    /\ Becomes(o, vec[p])
    /\ moved' = moved \ {o}

\* vector(vector &&): swap with an empty vector.
MoveConstruct(o, p) ==
    /\ Policy[o] = Policy[p] /\ o # p
    /\ vec' = [vec EXCEPT ![o] = vec[p], ![p] = Empty]
    /\ moved' = MovedAs(o, p) \ {p}

\* operator=(vector &&): the grids are exchanged, the size is only copied.
MoveAssign(o, p) ==
    /\ Policy[o] = Policy[p] /\ o # p
    /\ vec' = [vec EXCEPT ![o] = vec[p], ![p] = [vec[o] EXCEPT !.v_size = vec[p].v_size]]
    /\ moved' = MovedAs(o, p) \union {p}

Swap(o, p) ==
    /\ Policy[o] = Policy[p]
    /\ vec' = [vec EXCEPT ![o] = vec[p], ![p] = vec[o]]
    /\ moved' = {q \in Obj : IF q = o THEN p \in moved
                              ELSE IF q = p THEN o \in moved
                              ELSE q \in moved}

Next ==
    \E o \in Obj :
        \/ \E n \in 0 .. MaxSize : Construct(o, n) \/ Reserve(o, n) \/ Resize(o, n)
        \/ AddEmpty(o)
        \/ \E e \in Val : Add(o, e) \/ \E i \in 0 .. MaxSize : Set(o, i, e)
        \/ \E key \in 0 .. MaxSize : Insert(o, key)
        \/ \E K \in SUBSET (0 .. MaxSize - 1) : Remove(o, K)
        \/ \E p \in Obj :
             \/ AddVector(o, p)
             \/ Copy(o, p) \/ CopyOther(o, p) \/ CopyConstruct(o, p)
             \/ MoveConstruct(o, p) \/ MoveAssign(o, p) \/ Swap(o, p)

Spec == Init /\ [][Next]_vars

-----------------------------------------------------------------------------

\* Type invariant: the grid has a place for each index below its size.
TypeOK ==
    /\ DOMAIN vec = Obj
    /\ \A o \in Obj :
         vec[o] \in [v_size : Nat, cap : Nat, base : [Places(vec[o]) -> Val \union {Garbage}]]
    /\ moved \subseteq Obj

\* Safety: "Actual size of the vector, warning: it is not the space allocated
\* in grid" (map_vector.hpp:206), and the space is never smaller: each element
\* has a place.  Only a vector operator=(vector &&) has taken from may be too
\* large (map_vector.hpp:1278-1287), and no operation passes that on to a
\* vector that is in use.
Fits == \A o \in Obj \ moved : vec[o].v_size <= vec[o].cap

\* What a reader of the vector sees.
Contents(v) == [i \in 1 .. v.v_size |-> v.base[i - 1]]

Store == INSTANCE VectorStore WITH
    seq <- [o \in Obj |-> IF o \in moved THEN <<>> ELSE Contents(vec[o])],
    known <- Obj \ moved

\* The keys a removal of n elements may be given.
KeysOfLength(n) == {K \in SUBSET (0 .. MaxSize - 1) : Cardinality(K) = n}

\* Refinement: with the places and the growth hidden a vector is a sequence
\* (map_vector.hpp:413-531, 838-927, 1278-1501): no growth, copy, move or
\* removal changes an element it has no business with.
ImplementsStore ==
    /\ Store!Init
    /\ [][\A o \in Obj :
            /\ \A n \in {vec'[o].v_size} :
                 /\ Construct(o, n) => Store!Construct(o, n)
                 /\ Resize(o, n) => Store!Resize(o, n)
            /\ Reserve(o, vec'[o].cap) => UNCHANGED Store!vars
            /\ \A key \in 0 .. MaxSize : Insert(o, key) => Store!Insert(o, key + 1)
            /\ AddEmpty(o) => Store!Insert(o, vec[o].v_size + 1)
            /\ \A e \in Val :
                 /\ Add(o, e) => Store!Append1(o, e)
                 /\ \A i \in 0 .. MaxSize : Set(o, i, e) => Store!Set(o, i + 1, e)
            /\ \A K \in KeysOfLength(vec[o].v_size - vec'[o].v_size) :
                 Remove(o, K) => Store!RemoveAll(o, {k + 1 : k \in K})
            /\ \A p \in Obj :
                 /\ AddVector(o, p) => Store!Concat(o, p)
                 /\ Copy(o, p) \/ CopyOther(o, p) \/ CopyConstruct(o, p) => Store!Copy(o, p)
                 /\ MoveConstruct(o, p) => Store!Take(o, p)
                 /\ MoveAssign(o, p) => Store!Rob(o, p)
                 /\ Swap(o, p) => Store!Swap(o, p)]_vars

=============================================================================
