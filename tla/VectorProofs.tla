---------------------------- MODULE VectorProofs ----------------------------
(***************************************************************************)
(* Theorems about openfpm::vector, for every set of vectors and every      *)
(* growth policy that gives at least what is asked for: a vector in use    *)
(* always has a place for each of its elements.  It holds because the only *)
(* objects whose size and grid can disagree are those a move assignment    *)
(* has taken from, and the operations that bring such an object back into  *)
(* use (resize, assignment, construction, swap) give it a size its grid    *)
(* has, or another object's size and grid together.  With it, every step   *)
(* of the vectors is a step of VectorStore, the sequences a caller sees.   *)
(*                                                                         *)
(* The second part is about the loop of remove(keys, start), for every     *)
(* vector and sorted keys: it is the one step Vector makes of it.          *)
(***************************************************************************)
EXTENDS Vector, VectorRemove, FiniteSetTheorems, NaturalsInduction, WellFoundedInduction, TLAPS

\* One object: its fields, and a place for each element.
VecOK(v) == v \in [v_size : Nat, cap : Nat, base : [Places(v) -> Val \union {Garbage}]]
FitsOK(v) == v.v_size <= v.cap

\* The bounds of the model.
Bounded == \A o \in Obj : vec[o].v_size <= MaxSize /\ vec[o].cap <= MaxCapacity

Inv == TypeOK /\ Fits /\ Bounded

LEMMA PoliciesGrow ==
    ASSUME NEW o \in Obj, NEW p, p = Policy[o] \/ p = "double",
           NEW c \in Nat, NEW r \in Nat, c <= MaxCapacity, r <= MaxCapacity
    PROVE  Grow(p, c, r) \in Nat /\ r <= Grow(p, c, r)
<1>1. p \in {Policy[q] : q \in Obj} \union {"double"}
  OBVIOUS
<1>2. c \in 0 .. MaxCapacity /\ r \in 0 .. MaxCapacity
  BY BoundsAssumption
<1>3. QED
  BY <1>1, <1>2, GrowAssumption

LEMMA EnlargedOK ==
    ASSUME NEW v, VecOK(v), NEW n \in Nat
    PROVE  VecOK(Enlarged(v, n)) /\ Enlarged(v, n).cap = n /\ Enlarged(v, n).v_size = v.v_size
<1> DEFINE b == [k \in 0 .. n - 1 |-> IF k < v.cap THEN v.base[k] ELSE Garbage]
<1>1. v.cap \in Nat /\ v.base \in [0 .. v.cap - 1 -> Val \union {Garbage}]
  BY DEF VecOK, Places
<1>2. b \in [0 .. n - 1 -> Val \union {Garbage}]
  BY <1>1
<1>3. Enlarged(v, n) = [v EXCEPT !.cap = n, !.base = b]
  BY DEF Enlarged
<1> HIDE DEF b
<1>4. QED
  BY <1>2, <1>3 DEF VecOK, Places

LEMMA RoomyOK ==
    ASSUME NEW v, VecOK(v), FitsOK(v)
    PROVE  /\ VecOK(Roomy(v)) /\ Roomy(v).v_size = v.v_size
           /\ v.v_size + 1 <= Roomy(v).cap
<1>1. v.v_size \in Nat /\ v.cap \in Nat /\ v.v_size <= v.cap
  BY DEF VecOK, FitsOK
<1>2. CASE NeedsPlace(v)
  <2> DEFINE n == IF v.cap = 0 THEN 1 ELSE 2 * v.cap
  <2>1. n \in Nat /\ v.v_size + 1 <= n
    BY <1>1, <1>2 DEF NeedsPlace
  <2>2. Roomy(v) = Enlarged(v, n)
    BY <1>2 DEF Roomy
  <2> HIDE DEF n
  <2>3. QED
    BY <2>1, <2>2, EnlargedOK
<1>3. CASE ~ NeedsPlace(v)
  BY <1>1, <1>3 DEF NeedsPlace, Roomy
<1>4. QED
  BY <1>2, <1>3

LEMMA RoomForOK ==
    ASSUME NEW v, VecOK(v), v.cap <= MaxCapacity,
           NEW o \in Obj, NEW p, p = Policy[o] \/ p = "double",
           NEW n \in Nat, n <= MaxSize
    PROVE  /\ VecOK(RoomFor(v, p, n)) /\ RoomFor(v, p, n).v_size = v.v_size
           /\ n <= RoomFor(v, p, n).cap
<1>1. v.cap \in Nat /\ n <= MaxCapacity
  BY BoundsAssumption DEF VecOK
<1>2. Grow(p, v.cap, n) \in Nat /\ n <= Grow(p, v.cap, n)
  BY <1>1, PoliciesGrow
<1>3. CASE n > v.cap
  BY <1>2, <1>3, EnlargedOK DEF RoomFor
<1>4. CASE ~ (n > v.cap)
  BY <1>1, <1>4 DEF RoomFor
<1>5. QED
  BY <1>3, <1>4

\* Writing places of another vector leaves a vector one.
LEMMA FilledOK ==
    ASSUME NEW v, VecOK(v), NEW w, VecOK(w), NEW k \in Nat, NEW n \in Nat, n <= w.cap
    PROVE  /\ VecOK(Filled(v, k, w, n))
           /\ Filled(v, k, w, n).cap = v.cap
           /\ Filled(v, k, w, n).v_size = v.v_size
<1>1. \A i \in k .. k + n - 1 : i - k \in Places(w)
  BY DEF VecOK, Places
<1>2. QED
  BY <1>1 DEF VecOK, Filled, Places

LEMMA NewSizeOK ==
    ASSUME NEW v, VecOK(v), NEW n \in Nat, n <= v.cap
    PROVE  VecOK([v EXCEPT !.v_size = n]) /\ FitsOK([v EXCEPT !.v_size = n])
BY DEF VecOK, FitsOK, Places

\* New places, and a size they are enough for.
LEMMA NewPlacesOK ==
    ASSUME NEW v, VecOK(v), NEW n \in Nat, n <= v.cap,
           NEW b \in [Places(v) -> Val \union {Garbage}]
    PROVE  /\ VecOK([v EXCEPT !.v_size = n, !.base = b])
           /\ FitsOK([v EXCEPT !.v_size = n, !.base = b])
BY DEF VecOK, FitsOK, Places

LEMMA NewValuesOK ==
    ASSUME NEW v, VecOK(v), FitsOK(v), NEW b \in [Places(v) -> Val \union {Garbage}]
    PROVE  VecOK([v EXCEPT !.base = b]) /\ FitsOK([v EXCEPT !.base = b])
BY DEF VecOK, FitsOK, Places

\* An object becomes a good one: it is in use from then on, if it was not.
LEMMA BecomesOK ==
    ASSUME Inv, NEW o \in Obj, NEW v, VecOK(v), FitsOK(v), Becomes(o, v),
           moved' = moved \/ moved' = moved \ {o}
    PROVE  Inv'
<1>1. DOMAIN vec' = Obj /\ vec'[o] = v /\ \A p \in Obj : p # o => vec'[p] = vec[p]
  BY DEF Inv, TypeOK, Becomes
<1>2. TypeOK'
  BY <1>1 DEF Inv, TypeOK, VecOK, Places
<1>3. Fits'
  BY <1>1 DEF Inv, Fits, FitsOK
<1>4. Bounded'
  BY <1>1 DEF Inv, Bounded, Becomes
<1>5. QED
  BY <1>2, <1>3, <1>4 DEF Inv

LEMMA ObjectsOK ==
    ASSUME Inv, NEW o \in Obj
    PROVE  /\ VecOK(vec[o]) /\ vec[o].v_size \in Nat /\ vec[o].cap \in Nat
           /\ vec[o].v_size <= MaxSize /\ vec[o].cap <= MaxCapacity
           /\ o \notin moved => FitsOK(vec[o])
BY DEF Inv, TypeOK, VecOK, Fits, FitsOK, Bounded

LEMMA EmptyOK == VecOK(Empty) /\ FitsOK(Empty) /\ Empty.v_size = 0 /\ Empty.cap = 0
BY DEF VecOK, FitsOK, Empty, Places

LEMMA InitInv == Init => Inv
<1>1. SUFFICES ASSUME Init PROVE Inv
  OBVIOUS
<1>2. \A o \in Obj : vec[o] = Empty
  BY <1>1 DEF Init
<1>3. TypeOK
  BY <1>1, <1>2, EmptyOK DEF Init, TypeOK, VecOK
<1>4. Fits /\ Bounded
  BY <1>2, EmptyOK, BoundsAssumption DEF Fits, FitsOK, Bounded
<1>5. QED
  BY <1>3, <1>4 DEF Inv

\* vector(n), reserve(n) and resize(n).
LEMMA SizeSteps ==
    ASSUME Inv, NEW o \in Obj, NEW n \in 0 .. MaxSize,
           Construct(o, n) \/ Reserve(o, n) \/ Resize(o, n)
    PROVE  Inv'
<1>0. n \in Nat /\ n <= MaxSize
  BY BoundsAssumption
<1>1. CASE Construct(o, n)
  <2> DEFINE v == [v_size |-> n, cap |-> n, base |-> [k \in 0 .. n - 1 |-> Garbage]]
  <2>1. VecOK(v) /\ FitsOK(v)
    BY <1>0 DEF VecOK, FitsOK, Places
  <2>2. Becomes(o, v) /\ moved' = moved \ {o}
    BY <1>1 DEF Construct
  <2> HIDE DEF v
  <2>3. QED
    BY <2>1, <2>2, BecomesOK
<1>2. CASE Reserve(o, n)
  <2>1. VecOK(vec[o]) /\ FitsOK(vec[o]) /\ n > vec[o].cap /\ vec[o].cap \in Nat /\ vec[o].v_size \in Nat
    BY <1>2, ObjectsOK DEF Reserve
  <2>2. VecOK(Enlarged(vec[o], n)) /\ FitsOK(Enlarged(vec[o], n))
    <3>1. /\ VecOK(Enlarged(vec[o], n)) /\ Enlarged(vec[o], n).cap = n
          /\ Enlarged(vec[o], n).v_size = vec[o].v_size
      BY <1>0, <2>1, EnlargedOK
    <3>2. QED
      BY <1>0, <2>1, <3>1 DEF FitsOK
  <2>3. QED
    BY <1>2, <2>2, BecomesOK DEF Reserve
<1>3. CASE Resize(o, n)
  <2>1. VecOK(RoomFor(vec[o], Policy[o], n)) /\ n <= RoomFor(vec[o], Policy[o], n).cap
    BY <1>0, ObjectsOK, RoomForOK
  <2>2. QED
    BY <1>0, <1>3, <2>1, NewSizeOK, BecomesOK DEF Resize
<1>4. QED
  BY <1>1, <1>2, <1>3

\* add(), add(v) and set.
LEMMA ElementSteps ==
    ASSUME Inv, NEW o \in Obj,
           \/ AddEmpty(o)
           \/ \E e \in Val : Add(o, e) \/ \E i \in 0 .. MaxSize : Set(o, i, e)
    PROVE  Inv'
<1>1. /\ VecOK(vec[o]) /\ FitsOK(vec[o])
      /\ VecOK(Roomy(vec[o])) /\ vec[o].v_size + 1 <= Roomy(vec[o]).cap
      /\ vec[o].v_size \in Nat /\ vec[o].v_size + 1 \in Nat
  <2>1. o \notin moved
    BY DEF AddEmpty, Add, Set
  <2>2. VecOK(vec[o]) /\ FitsOK(vec[o]) /\ vec[o].v_size \in Nat
    BY <2>1, ObjectsOK
  <2>3. QED
    BY <2>2, RoomyOK
<1>2. CASE AddEmpty(o)
  BY <1>1, <1>2, NewSizeOK, BecomesOK DEF AddEmpty
<1>3. ASSUME NEW e \in Val, Add(o, e)
      PROVE  Inv'
  <2> DEFINE r == Roomy(vec[o])
             b == [r.base EXCEPT ![vec[o].v_size] = e]
  <2>1. b \in [Places(r) -> Val \union {Garbage}]
    BY <1>1 DEF VecOK, Places
  <2>2. Becomes(o, [r EXCEPT !.v_size = vec[o].v_size + 1, !.base = b]) /\ moved' = moved
    BY <1>3 DEF Add
  <2> HIDE DEF b
  <2>3. QED
    BY <1>1, <2>1, <2>2, NewPlacesOK, BecomesOK
<1>4. ASSUME NEW e \in Val, NEW i \in 0 .. MaxSize, Set(o, i, e)
      PROVE  Inv'
  <2> DEFINE b == [vec[o].base EXCEPT ![i] = e]
  <2>1. b \in [Places(vec[o]) -> Val \union {Garbage}]
    BY <1>1 DEF VecOK, Places
  <2>2. Becomes(o, [vec[o] EXCEPT !.base = b]) /\ moved' = moved
    BY <1>4 DEF Set
  <2> HIDE DEF b
  <2>3. VecOK([vec[o] EXCEPT !.base = b]) /\ FitsOK([vec[o] EXCEPT !.base = b])
    BY <1>1, <2>1, NewValuesOK
  <2>4. QED
    BY <2>2, <2>3, BecomesOK
<1>5. QED
  BY <1>2, <1>3, <1>4

LEMMA InsertStep ==
    ASSUME Inv, NEW o \in Obj, NEW key \in 0 .. MaxSize, Insert(o, key)
    PROVE  Inv'
<1> DEFINE r == Roomy(vec[o])
           b == [i \in Places(r) |-> IF i \in key + 1 .. vec[o].v_size
                                     THEN r.base[i - 1] ELSE r.base[i]]
<1>1. VecOK(r) /\ vec[o].v_size + 1 <= r.cap /\ vec[o].v_size + 1 \in Nat
  BY ObjectsOK, RoomyOK DEF Insert
<1>2. Becomes(o, [r EXCEPT !.v_size = vec[o].v_size + 1, !.base = b]) /\ moved' = moved
  BY DEF Insert
<1> HIDE DEF r
<1>3. ASSUME NEW i \in Places(r), i \in key + 1 .. vec[o].v_size
      PROVE  i - 1 \in Places(r)
  <2>1. key \in Nat /\ r.cap \in Nat
    BY <1>1, BoundsAssumption DEF VecOK
  <2>2. QED
    BY <1>3, <2>1 DEF Places
<1>4. r.base \in [Places(r) -> Val \union {Garbage}]
  BY <1>1 DEF VecOK
<1>5. b \in [Places(r) -> Val \union {Garbage}]
  BY <1>3, <1>4
<1> HIDE DEF b
<1>6. QED
  BY <1>1, <1>2, <1>5, NewPlacesOK, BecomesOK

LEMMA KeysFinite ==
    ASSUME NEW K, K # {}, NEW m \in Nat, K \subseteq 0 .. m - 1
    PROVE  Cardinality(K) \in Nat /\ Cardinality(K) <= m
<1>1. IsFiniteSet(0 .. m - 1) /\ Cardinality(0 .. m - 1) = m
  BY FS_Interval
<1>2. IsFiniteSet(K) /\ Cardinality(K) <= Cardinality(0 .. m - 1)
  BY <1>1, FS_Subset
<1>3. QED
  BY <1>1, <1>2, FS_CardinalityType

LEMMA RemoveStep ==
    ASSUME Inv, NEW o \in Obj, NEW K, Remove(o, K)
    PROVE  Inv'
<1> DEFINE v == vec[o]
           Moves(s, d) == s \notin K /\ s - Cardinality({k \in K : k < s}) = d
           b == [d \in Places(v) |->
                   IF \E s \in 0 .. v.v_size - 1 : Moves(s, d)
                   THEN v.base[CHOOSE s \in 0 .. v.v_size - 1 : Moves(s, d)]
                   ELSE v.base[d]]
<1>1. VecOK(v) /\ FitsOK(v) /\ v.v_size \in Nat /\ v.cap \in Nat
      /\ K # {} /\ K \subseteq 0 .. v.v_size - 1
  BY ObjectsOK DEF Remove, Without
<1>2. Becomes(o, [v EXCEPT !.v_size = v.v_size - Cardinality(K), !.base = b]) /\ moved' = moved
  BY DEF Remove, Without
<1>3. Cardinality(K) \in Nat /\ Cardinality(K) <= v.v_size
  BY <1>1, KeysFinite
<1>4. v.v_size - Cardinality(K) \in Nat /\ v.v_size - Cardinality(K) <= v.cap
  BY <1>1, <1>3 DEF FitsOK
<1>5. v.base \in [Places(v) -> Val \union {Garbage}] /\ 0 .. v.v_size - 1 \subseteq Places(v)
  BY <1>1 DEF VecOK, FitsOK, Places
<1> HIDE DEF v, Moves
<1>6. b \in [Places(v) -> Val \union {Garbage}]
  <2>1. ASSUME NEW d \in Places(v), \E s \in 0 .. v.v_size - 1 : Moves(s, d)
        PROVE  (CHOOSE s \in 0 .. v.v_size - 1 : Moves(s, d)) \in Places(v)
    BY <1>5, <2>1
  <2>2. QED
    BY <1>5, <2>1
<1> HIDE DEF b
<1>7. QED
  BY <1>1, <1>2, <1>4, <1>6, NewPlacesOK, BecomesOK DEF v

LEMMA AddVectorStep ==
    ASSUME Inv, NEW o \in Obj, NEW p \in Obj, AddVector(o, p)
    PROVE  Inv'
<1> DEFINE n == vec[o].v_size + vec[p].v_size
           r == RoomFor(vec[o], "double", n)
           f == Filled(r, vec[o].v_size, vec[p], vec[p].v_size)
<1>1. /\ VecOK(vec[o]) /\ VecOK(vec[p]) /\ vec[p].v_size <= vec[p].cap
      /\ vec[o].v_size \in Nat /\ vec[p].v_size \in Nat /\ vec[o].cap <= MaxCapacity
  BY ObjectsOK DEF AddVector, FitsOK
<1>2. Becomes(o, [f EXCEPT !.v_size = n]) /\ moved' = moved
  BY DEF AddVector
<1>3. n \in Nat
  BY <1>1
<1> HIDE DEF n
<1>4. n <= MaxSize
  <2>1. DOMAIN f = {"v_size", "cap", "base"} \/ n <= MaxSize
    BY <1>1 DEF VecOK, Filled, RoomFor, Enlarged
  <2>2. CASE DOMAIN f = {"v_size", "cap", "base"}
    BY <1>2, <2>2 DEF Becomes
  <2>3. QED
    BY <2>1, <2>2
<1>5. VecOK(r) /\ n <= r.cap
  BY <1>1, <1>3, <1>4, RoomForOK
<1> HIDE DEF r
<1>6. VecOK(f) /\ f.cap = r.cap
  <2> DEFINE w == vec[p]
             m == vec[o].v_size
             k == vec[p].v_size
  <2>1. VecOK(w) /\ m \in Nat /\ k \in Nat /\ k <= w.cap
    BY <1>1
  <2> HIDE DEF w, m, k
  <2>2. VecOK(Filled(r, m, w, k)) /\ Filled(r, m, w, k).cap = r.cap
    BY <1>5, <2>1, FilledOK
  <2>3. QED
    BY <2>2 DEF w, m, k
<1> HIDE DEF f
<1>7. QED
  BY <1>2, <1>3, <1>5, <1>6, NewSizeOK, BecomesOK

\* The assignments and the constructors that copy.
LEMMA CopySteps ==
    ASSUME Inv, NEW o \in Obj, NEW p \in Obj,
           Copy(o, p) \/ CopyOther(o, p) \/ CopyConstruct(o, p)
    PROVE  Inv'
<1>1. /\ VecOK(vec[o]) /\ VecOK(vec[p]) /\ FitsOK(vec[p])
      /\ vec[p].v_size \in Nat /\ vec[p].v_size <= vec[p].cap /\ vec[o].cap \in Nat
      /\ moved' = moved \ {o}
  <2>1. p \notin moved /\ moved' = moved \ {o}
    BY DEF Copy, CopyOther, CopyConstruct
  <2>2. QED
    BY <2>1, ObjectsOK DEF FitsOK
<1>2. ASSUME NEW v, VecOK(v), vec[p].v_size <= v.cap,
             Becomes(o, [Filled(v, 0, vec[p], vec[p].v_size) EXCEPT !.v_size = vec[p].v_size])
      PROVE  Inv'
  <2>1. /\ VecOK(Filled(v, 0, vec[p], vec[p].v_size))
        /\ Filled(v, 0, vec[p], vec[p].v_size).cap = v.cap
    <3> DEFINE w == vec[p]
               k == 0
    <3>1. k \in Nat /\ VecOK(w) /\ w.v_size \in Nat /\ w.v_size <= w.cap /\ VecOK(v)
      BY <1>1, <1>2
    <3> HIDE DEF w, k
    <3>2. VecOK(Filled(v, k, w, w.v_size)) /\ Filled(v, k, w, w.v_size).cap = v.cap
      BY <3>1, FilledOK
    <3>3. QED
      BY <3>2 DEF w, k
  <2>2. QED
    BY <1>1, <1>2, <2>1, NewSizeOK, BecomesOK
<1>3. /\ VecOK(Enlarged(vec[o], vec[p].v_size))
      /\ Enlarged(vec[o], vec[p].v_size).cap = vec[p].v_size
  BY <1>1, EnlargedOK
<1>4. CASE Copy(o, p)
  <2>1. CASE vec[o].cap < vec[p].v_size
    BY <1>1, <1>2, <1>3, <1>4, <2>1 DEF Copy, CopyOf
  <2>2. CASE ~ (vec[o].cap < vec[p].v_size)
    BY <1>1, <1>2, <1>4, <2>2 DEF Copy, CopyOf
  <2>3. QED
    BY <2>1, <2>2
<1>5. CASE CopyOther(o, p)
  BY <1>1, <1>2, <1>3, <1>5 DEF CopyOther
<1>6. CASE CopyConstruct(o, p)
  BY <1>1, <1>6, BecomesOK DEF CopyConstruct
<1>7. QED
  BY <1>4, <1>5, <1>6

\* Two objects change, each as a whole or to one that is not in use.
LEMMA MoveSteps ==
    ASSUME Inv, NEW o \in Obj, NEW p \in Obj,
           MoveConstruct(o, p) \/ MoveAssign(o, p) \/ Swap(o, p)
    PROVE  Inv'
<1>1. /\ VecOK(vec[o]) /\ VecOK(vec[p]) /\ VecOK(Empty) /\ FitsOK(Empty)
      /\ vec[p].v_size \in Nat /\ vec[p].v_size <= MaxSize
      /\ p \notin moved => FitsOK(vec[p])
      /\ o \notin moved => FitsOK(vec[o])
  BY ObjectsOK, EmptyOK
<1>2. VecOK([vec[o] EXCEPT !.v_size = vec[p].v_size])
  BY <1>1 DEF VecOK, Places
<1>3. /\ DOMAIN vec' = Obj
      /\ vec'[o] = vec[p]
      /\ \A q \in Obj : q # o /\ q # p => vec'[q] = vec[q]
  <2>1. DOMAIN vec = Obj
    BY DEF Inv, TypeOK
  <2>2. CASE MoveConstruct(o, p)
    BY <2>1, <2>2 DEF MoveConstruct
  <2>3. CASE MoveAssign(o, p)
    BY <2>1, <2>3 DEF MoveAssign
  <2>4. CASE Swap(o, p)
    BY <2>1, <2>4 DEF Swap
  <2>5. QED
    BY <2>2, <2>3, <2>4
<1>4. /\ moved' \subseteq Obj
      /\ o # p => (o \in moved' <=> p \in moved)
      /\ \A q \in Obj : q # o /\ q # p => (q \in moved' <=> q \in moved)
      /\ o = p => moved' = moved
  <2>1. moved \subseteq Obj
    BY DEF Inv, TypeOK
  <2>2. CASE MoveConstruct(o, p)
    BY <2>1, <2>2 DEF MoveConstruct, MovedAs
  <2>3. CASE MoveAssign(o, p)
    BY <2>1, <2>3 DEF MoveAssign, MovedAs
  <2>4. CASE Swap(o, p)
    BY <2>1, <2>4 DEF Swap
  <2>5. QED
    BY <2>2, <2>3, <2>4
<1>5. o # p => \/ vec'[p] = Empty
               \/ vec'[p] = [vec[o] EXCEPT !.v_size = vec[p].v_size] /\ p \in moved'
               \/ vec'[p] = vec[o] /\ (p \in moved' <=> o \in moved)
  BY DEF Inv, TypeOK, MoveConstruct, MoveAssign, Swap
<1>6. \A q \in Obj : VecOK(vec'[q])
  BY <1>1, <1>2, <1>3, <1>5, ObjectsOK
<1>7. TypeOK'
  BY <1>3, <1>4, <1>6 DEF TypeOK, VecOK, Places
<1>8. Fits'
  <2>1. ASSUME NEW q \in Obj, q \notin moved'
        PROVE  FitsOK(vec'[q])
    BY <1>1, <1>3, <1>4, <1>5, <2>1, ObjectsOK
  <2>2. QED
    BY <2>1 DEF Fits, FitsOK
<1>9. Bounded'
  <2>1. ASSUME NEW q \in Obj
        PROVE  vec'[q].v_size <= MaxSize /\ vec'[q].cap <= MaxCapacity
    <3>1. CASE o # p /\ q = p
      <4>1. /\ Empty.v_size <= MaxSize /\ Empty.cap <= MaxCapacity
        BY EmptyOK, BoundsAssumption
      <4>2. /\ [vec[o] EXCEPT !.v_size = vec[p].v_size].v_size = vec[p].v_size
            /\ [vec[o] EXCEPT !.v_size = vec[p].v_size].cap = vec[o].cap
        BY <1>1 DEF VecOK
      <4>3. vec[o].v_size <= MaxSize /\ vec[o].cap <= MaxCapacity
        BY ObjectsOK
      <4>4. QED
        BY <1>1, <1>5, <3>1, <4>1, <4>2, <4>3
    <3>2. CASE ~ (o # p /\ q = p)
      BY <1>3, <3>2, ObjectsOK
    <3>3. QED
      BY <3>1, <3>2
  <2>2. QED
    BY <2>1 DEF Bounded
<1>10. QED
  BY <1>7, <1>8, <1>9 DEF Inv

LEMMA Inductive == Inv /\ [Next]_vars => Inv'
<1>1. ASSUME Inv, UNCHANGED vars
      PROVE  Inv'
  BY <1>1 DEF Inv, vars, TypeOK, Fits, Bounded, Places
<1>2. ASSUME Inv, Next
      PROVE  Inv'
  BY <1>2, SizeSteps, ElementSteps, InsertStep, RemoveStep, AddVectorStep, CopySteps, MoveSteps
     DEF Next
<1>3. QED
  BY <1>1, <1>2

\* The size and the grid of every vector agree in every reachable state
\* (map_vector.hpp:413-531, 838-927, 1128-1501).
THEOREM Invariance == Spec => []Inv
<1>1. QED
  BY InitInv, Inductive, PTL DEF Spec

\* The grid of a vector has as many places as it says (map_vector.hpp:206-213).
THEOREM SpecTypeOK == Spec => []TypeOK
<1>1. Inv => TypeOK
  BY DEF Inv
<1>2. QED
  BY <1>1, Invariance, PTL

\* A vector in use has a place for each of its elements, whatever was moved,
\* grown or removed before (map_vector.hpp:206-213, 1278-1287).
THEOREM SpecFits == Spec => []Fits
<1>1. Inv => Fits
  BY DEF Inv
<1>2. QED
  BY <1>1, Invariance, PTL

-----------------------------------------------------------------------------
(* The refinement of VectorStore. *)

\* What a reader sees of the object o.
Seen(o) == IF o \in moved THEN <<>> ELSE Contents(vec[o])

LEMMA ContentsOf ==
    ASSUME NEW v, v.v_size \in Nat
    PROVE  /\ Len(Contents(v)) = v.v_size /\ DOMAIN Contents(v) = 1 .. v.v_size
           /\ \A i \in 1 .. v.v_size : Contents(v)[i] = v.base[i - 1]
BY DEF Contents

\* Two objects that show the same.
LEMMA SameContents ==
    ASSUME NEW v, NEW w, v.v_size \in Nat, w.v_size = v.v_size,
           \A i \in 0 .. v.v_size - 1 : v.base[i] = w.base[i]
    PROVE  Contents(v) = Contents(w)
<1>1. \A i \in 1 .. v.v_size : v.base[i - 1] = w.base[i - 1]
  <2>1. \A i \in 1 .. v.v_size : i - 1 \in 0 .. v.v_size - 1
    OBVIOUS
  <2>2. QED
    BY <2>1
<1>2. QED
  BY <1>1 DEF Contents

\* What the operations do to the elements of one object.
LEMMA EnlargedKeeps ==
    ASSUME NEW v, VecOK(v), NEW n \in Nat
    PROVE  /\ Enlarged(v, n).v_size = v.v_size
           /\ \A k \in 0 .. n - 1 : k < v.cap => Enlarged(v, n).base[k] = v.base[k]
<1> DEFINE b == [k \in 0 .. n - 1 |-> IF k < v.cap THEN v.base[k] ELSE Garbage]
<1>1. Enlarged(v, n) = [v EXCEPT !.cap = n, !.base = b]
  BY DEF Enlarged
<1>2. \A k \in 0 .. n - 1 : k < v.cap => b[k] = v.base[k]
  OBVIOUS
<1> HIDE DEF b
<1>3. QED
  BY <1>1, <1>2 DEF VecOK

LEMMA RoomyKeeps ==
    ASSUME NEW v, VecOK(v), FitsOK(v)
    PROVE  \A k \in 0 .. v.v_size - 1 : Roomy(v).base[k] = v.base[k]
<1>1. v.v_size \in Nat /\ v.cap \in Nat /\ v.v_size <= v.cap
  BY DEF VecOK, FitsOK
<1>2. CASE NeedsPlace(v)
  <2> DEFINE n == IF v.cap = 0 THEN 1 ELSE 2 * v.cap
  <2>1. n \in Nat /\ v.cap <= n
    BY <1>1
  <2>2. Roomy(v) = Enlarged(v, n)
    BY <1>2 DEF Roomy
  <2> HIDE DEF n
  <2>3. \A k \in 0 .. n - 1 : k < v.cap => Roomy(v).base[k] = v.base[k]
    BY <2>1, <2>2, EnlargedKeeps
  <2>4. QED
    BY <1>1, <2>1, <2>3
<1>3. CASE ~ NeedsPlace(v)
  BY <1>3 DEF Roomy
<1>4. QED
  BY <1>2, <1>3

\* (The policy answers what it was asked for: Grow is called with n.)
LEMMA RoomForKeeps ==
    ASSUME NEW v, VecOK(v), v.cap <= MaxCapacity,
           NEW o \in Obj, NEW p, p = Policy[o] \/ p = "double", NEW n \in Nat, n <= MaxSize
    PROVE  \A k \in 0 .. n - 1 : k < v.cap => RoomFor(v, p, n).base[k] = v.base[k]
<1>1. v.cap \in Nat /\ n <= MaxCapacity
  BY BoundsAssumption DEF VecOK
<1>2. Grow(p, v.cap, n) \in Nat /\ n <= Grow(p, v.cap, n)
  BY <1>1, PoliciesGrow
<1>3. CASE n > v.cap
  <2> DEFINE m == Grow(p, v.cap, n)
  <2>1. m \in Nat /\ n <= m /\ RoomFor(v, p, n) = Enlarged(v, m)
    BY <1>2, <1>3 DEF RoomFor
  <2> HIDE DEF m
  <2>2. \A k \in 0 .. m - 1 : k < v.cap => Enlarged(v, m).base[k] = v.base[k]
    BY <2>1, EnlargedKeeps
  <2>3. QED
    BY <2>1, <2>2
<1>4. CASE ~ (n > v.cap)
  BY <1>4 DEF RoomFor
<1>5. QED
  BY <1>3, <1>4

\* The object o becomes v, and is in use from then on; the others stay.
LEMMA OneShown ==
    ASSUME Inv, NEW o \in Obj, NEW v, Becomes(o, v), moved' = moved \/ moved' = moved \ {o},
           o \notin moved'
    PROVE  /\ Seen(o)' = Contents(v)
           /\ \A p \in Obj : p # o => Seen(p)' = Seen(p)
           /\ \A p \in Obj : p \in moved' <=> p \in moved \ {o}
<1>1. vec'[o] = v /\ \A p \in Obj : p # o => vec'[p] = vec[p]
  BY DEF Inv, TypeOK, Becomes
<1>2. \A p \in Obj : p \in moved' <=> p \in moved \ {o}
  OBVIOUS
<1>3. ASSUME NEW p \in Obj, p # o PROVE Seen(p)' = Seen(p)
  BY <1>1, <1>2, <1>3 DEF Seen, Contents
<1>4. Seen(o)' = Contents(v)
  BY <1>1 DEF Seen, Contents
<1>5. QED
  BY <1>2, <1>3, <1>4

\* vector(n), resize(n) and reserve(n).
LEMMA ConstructMaps ==
    ASSUME Inv, NEW o \in Obj, NEW n, n = vec'[o].v_size, Construct(o, n), Inv'
    PROVE  Store!Construct(o, n)
<1> DEFINE v == [v_size |-> n, cap |-> n, base |-> [k \in 0 .. n - 1 |-> Garbage]]
<1>1. Becomes(o, v) /\ moved' = moved \ {o}
  BY DEF Construct
<1>2. n \in Nat /\ v.v_size = n
  BY DEF Inv, TypeOK
<1> HIDE DEF v
<1>3. /\ Seen(o)' = Contents(v)
      /\ \A p \in Obj : p # o => Seen(p)' = Seen(p)
      /\ \A p \in Obj : p \in moved' <=> p \in moved \ {o}
  BY <1>1, OneShown
<1>4. Len(Seen(o)') = n
  BY <1>2, <1>3, ContentsOf
<1>5. QED
  BY <1>3, <1>4 DEF Store!Construct, Store!OnlyChanges, Seen

LEMMA ResizeMaps ==
    ASSUME Inv, NEW o \in Obj, NEW n, n = vec'[o].v_size, Resize(o, n), Inv'
    PROVE  Store!Resize(o, n)
<1> DEFINE r == RoomFor(vec[o], Policy[o], n)
           v == [r EXCEPT !.v_size = n]
<1>1. Becomes(o, v) /\ moved' = moved \ {o}
  BY DEF Resize
<1>2. n \in Nat /\ n <= MaxSize
  BY DEF Inv, TypeOK, Bounded
<1>3. /\ VecOK(vec[o]) /\ vec[o].cap <= MaxCapacity /\ vec[o].v_size \in Nat /\ vec[o].cap \in Nat
      /\ o \notin moved => vec[o].v_size <= vec[o].cap
  BY ObjectsOK DEF FitsOK
<1>4. VecOK(r) /\ \A k \in 0 .. n - 1 : k < vec[o].cap => r.base[k] = vec[o].base[k]
  <2> DEFINE q == Policy[o]
             w == vec[o]
  <2>1. VecOK(w) /\ w.cap <= MaxCapacity /\ q = Policy[o]
    BY <1>3
  <2> HIDE DEF q, w
  <2>2. VecOK(RoomFor(w, q, n))
    BY <1>2, <2>1, RoomForOK
  <2>3. \A k \in 0 .. n - 1 : k < w.cap => RoomFor(w, q, n).base[k] = w.base[k]
    BY <1>2, <2>1, RoomForKeeps
  <2>4. QED
    BY <2>2, <2>3 DEF q, w
<1> HIDE DEF r
<1>5. v.v_size = n /\ v.base = r.base
  BY <1>4 DEF VecOK
<1> HIDE DEF v
<1>6. /\ Seen(o)' = Contents(v)
      /\ \A p \in Obj : p # o => Seen(p)' = Seen(p)
      /\ \A p \in Obj : p \in moved' <=> p \in moved \ {o}
  BY <1>1, OneShown
<1>7. Len(Seen(o)') = n /\ \A i \in 1 .. n : Seen(o)'[i] = r.base[i - 1]
  BY <1>2, <1>5, <1>6, ContentsOf
<1>8. ASSUME o \notin moved
      PROVE  \A i \in 1 .. IF Len(Seen(o)) < Len(Seen(o)') THEN Len(Seen(o)) ELSE Len(Seen(o)') :
                Seen(o)[i] = Seen(o)'[i]
  <2>1. /\ Len(Seen(o)) = vec[o].v_size
        /\ \A i \in 1 .. vec[o].v_size : Seen(o)[i] = vec[o].base[i - 1]
    <3>1. Seen(o) = Contents(vec[o]) /\ vec[o].v_size \in Nat
      BY <1>3, <1>8 DEF Seen
    <3>2. QED
      BY <3>1, ContentsOf
  <2>2. ASSUME NEW i \in 1 .. vec[o].v_size, i <= n PROVE Seen(o)[i] = Seen(o)'[i]
    <3>1. i \in 1 .. n /\ i - 1 \in 0 .. n - 1 /\ i - 1 < vec[o].cap
      <4>1. i \in Nat /\ 1 <= i /\ i <= vec[o].v_size /\ vec[o].v_size <= vec[o].cap
            /\ vec[o].cap \in Nat /\ vec[o].v_size \in Nat
        BY <1>3, <1>8, <2>2
      <4>2. QED
        BY <1>2, <2>2, <4>1
    <3>2. QED
      BY <1>4, <1>7, <2>1, <3>1
  <2>3. QED
    BY <1>2, <1>3, <1>7, <2>1, <2>2
<1>9. QED
  BY <1>6, <1>7, <1>8 DEF Store!Resize, Store!OnlyChanges, Store!AgreeTo, Store!Shorter, Seen

LEMMA ReserveMaps ==
    ASSUME Inv, NEW o \in Obj, Reserve(o, vec'[o].cap), Inv'
    PROVE  UNCHANGED Store!vars
<1> DEFINE n == vec'[o].cap
           v == Enlarged(vec[o], n)
<1>1. o \notin moved /\ n > vec[o].cap /\ Becomes(o, v) /\ moved' = moved
  BY DEF Reserve
<1>2. n \in Nat
  BY DEF Inv, TypeOK
<1>3. VecOK(vec[o]) /\ vec[o].v_size \in Nat /\ vec[o].cap \in Nat /\ vec[o].v_size <= vec[o].cap
  BY <1>1, ObjectsOK DEF FitsOK
<1> HIDE DEF n
<1>4. v.v_size = vec[o].v_size /\ \A k \in 0 .. n - 1 : k < vec[o].cap => v.base[k] = vec[o].base[k]
  BY <1>2, <1>3, EnlargedKeeps
<1> HIDE DEF v
<1>5. /\ Seen(o)' = Contents(v)
      /\ \A p \in Obj : p # o => Seen(p)' = Seen(p)
  BY <1>1, OneShown
<1>6. Contents(v) = Contents(vec[o])
  <2>1. \A i \in 0 .. v.v_size - 1 : v.base[i] = vec[o].base[i]
    BY <1>1, <1>2, <1>3, <1>4
  <2>2. QED
    BY <1>3, <1>4, <2>1, SameContents
<1>7. Seen(o)' = Seen(o)
  BY <1>1, <1>5, <1>6 DEF Seen
<1>8. QED
  BY <1>1, <1>5, <1>7 DEF Store!vars, Seen

\* add(), add(v), insert and set.
LEMMA InsertMaps ==
    ASSUME Inv, NEW o \in Obj, NEW key \in 0 .. MaxSize, Insert(o, key)
    PROVE  Store!Insert(o, key + 1)
<1> DEFINE r == Roomy(vec[o])
           m == vec[o].v_size
           b == [i \in Places(r) |-> IF i \in key + 1 .. m THEN r.base[i - 1] ELSE r.base[i]]
           v == [r EXCEPT !.v_size = m + 1, !.base = b]
<1>1. o \notin moved /\ key \in 0 .. m /\ Becomes(o, v) /\ moved' = moved
  BY DEF Insert
<1>2. /\ VecOK(vec[o]) /\ FitsOK(vec[o]) /\ m \in Nat
      /\ VecOK(r) /\ m + 1 <= r.cap /\ \A k \in 0 .. m - 1 : r.base[k] = vec[o].base[k]
  BY <1>1, ObjectsOK, RoomyOK, RoomyKeeps
<1> HIDE DEF r
<1>3. \A i \in 0 .. m : b[i] = IF i \in key + 1 .. m THEN r.base[i - 1] ELSE r.base[i]
  <2>1. \A i \in 0 .. m : i \in Places(r)
    BY <1>2 DEF VecOK, Places
  <2>2. QED
    BY <2>1
<1> HIDE DEF b
<1>4. v.v_size = m + 1 /\ v.base = b
  BY <1>2 DEF VecOK
<1> HIDE DEF v
<1>5. /\ Seen(o)' = Contents(v)
      /\ \A p \in Obj : p # o => Seen(p)' = Seen(p)
  BY <1>1, OneShown
<1>6. Len(Seen(o)') = m + 1 /\ \A i \in 1 .. m + 1 : Seen(o)'[i] = b[i - 1]
  BY <1>2, <1>4, <1>5, ContentsOf
<1>7. Len(Seen(o)) = m /\ \A i \in 1 .. m : Seen(o)[i] = vec[o].base[i - 1]
  BY <1>1, <1>2, ContentsOf DEF Seen
<1>8. \A i \in 1 .. m : Seen(o)[i] = IF i < key + 1 THEN Seen(o)'[i] ELSE Seen(o)'[i + 1]
  <2>1. ASSUME NEW i \in 1 .. m, i < key + 1 PROVE Seen(o)[i] = Seen(o)'[i]
    <3>1. i \in 1 .. m + 1 /\ i - 1 \in 0 .. m /\ i - 1 \notin key + 1 .. m /\ i - 1 \in 0 .. m - 1
      BY <1>1, <1>2, <2>1
    <3>2. QED
      BY <1>2, <1>3, <1>6, <1>7, <3>1
  <2>2. ASSUME NEW i \in 1 .. m, ~(i < key + 1) PROVE Seen(o)[i] = Seen(o)'[i + 1]
    <3>1. i + 1 \in 1 .. m + 1 /\ i \in 0 .. m /\ i \in key + 1 .. m /\ i - 1 \in 0 .. m - 1
          /\ (i + 1) - 1 = i
      BY <1>1, <1>2, <2>2
    <3>2. QED
      BY <1>2, <1>3, <1>6, <1>7, <3>1
  <2>3. QED
    BY <2>1, <2>2
<1>9. Len(Seen(o)') = Len(Seen(o)) + 1
  BY <1>6, <1>7
<1>10. QED
  BY <1>1, <1>5, <1>7, <1>8, <1>9 DEF Store!Insert, Store!OnlyChanges, Seen

LEMMA AddEmptyMaps ==
    ASSUME Inv, NEW o \in Obj, AddEmpty(o)
    PROVE  Store!Insert(o, vec[o].v_size + 1)
<1> DEFINE r == Roomy(vec[o])
           m == vec[o].v_size
           v == [r EXCEPT !.v_size = m + 1]
<1>1. o \notin moved /\ Becomes(o, v) /\ moved' = moved
  BY DEF AddEmpty
<1>2. /\ VecOK(vec[o]) /\ FitsOK(vec[o]) /\ m \in Nat
      /\ VecOK(r) /\ \A k \in 0 .. m - 1 : r.base[k] = vec[o].base[k]
  BY <1>1, ObjectsOK, RoomyOK, RoomyKeeps
<1> HIDE DEF r
<1>3. v.v_size = m + 1 /\ v.base = r.base
  BY <1>2 DEF VecOK
<1> HIDE DEF v
<1>4. /\ Seen(o)' = Contents(v)
      /\ \A p \in Obj : p # o => Seen(p)' = Seen(p)
  BY <1>1, OneShown
<1>5. Len(Seen(o)') = m + 1 /\ \A i \in 1 .. m + 1 : Seen(o)'[i] = r.base[i - 1]
  BY <1>2, <1>3, <1>4, ContentsOf
<1>6. Len(Seen(o)) = m /\ \A i \in 1 .. m : Seen(o)[i] = vec[o].base[i - 1]
  BY <1>1, <1>2, ContentsOf DEF Seen
<1>7. \A i \in 1 .. m : i < m + 1 /\ Seen(o)[i] = Seen(o)'[i]
  <2>1. \A i \in 1 .. m : i \in 1 .. m + 1 /\ i - 1 \in 0 .. m - 1 /\ i < m + 1
    BY <1>2
  <2>2. QED
    BY <1>2, <1>5, <1>6, <2>1
<1>8. QED
  BY <1>1, <1>4, <1>5, <1>6, <1>7 DEF Store!Insert, Store!OnlyChanges, Seen

LEMMA AddMaps ==
    ASSUME Inv, NEW o \in Obj, NEW e \in Val, Add(o, e)
    PROVE  Store!Append1(o, e)
<1> DEFINE r == Roomy(vec[o])
           m == vec[o].v_size
           b == [r.base EXCEPT ![m] = e]
           v == [r EXCEPT !.v_size = m + 1, !.base = b]
<1>1. o \notin moved /\ Becomes(o, v) /\ moved' = moved
  BY DEF Add
<1>2. /\ VecOK(vec[o]) /\ FitsOK(vec[o]) /\ m \in Nat
      /\ VecOK(r) /\ m + 1 <= r.cap /\ \A k \in 0 .. m - 1 : r.base[k] = vec[o].base[k]
  BY <1>1, ObjectsOK, RoomyOK, RoomyKeeps
<1> HIDE DEF r
<1>3. b[m] = e /\ \A i \in 0 .. m - 1 : b[i] = r.base[i]
  <2>1. m \in Places(r) /\ r.base \in [Places(r) -> Val \union {Garbage}]
    BY <1>2 DEF VecOK, Places
  <2>2. \A i \in 0 .. m - 1 : i \in Places(r) /\ i # m
    BY <1>2 DEF VecOK, Places
  <2>3. QED
    BY <2>1, <2>2
<1> HIDE DEF b
<1>4. v.v_size = m + 1 /\ v.base = b
  BY <1>2 DEF VecOK
<1> HIDE DEF v
<1>5. /\ Seen(o)' = Contents(v)
      /\ \A p \in Obj : p # o => Seen(p)' = Seen(p)
  BY <1>1, OneShown
<1>6. /\ Contents(v) = [i \in 1 .. m + 1 |-> b[i - 1]]
      /\ Seen(o) = [i \in 1 .. m |-> vec[o].base[i - 1]]
  BY <1>1, <1>4 DEF Contents, Seen
<1>7. Seen(o)' = Append(Seen(o), e)
  <2> DEFINE s == Seen(o)
  <2>1. \A i \in 1 .. m + 1 : b[i - 1] = IF i = m + 1 THEN e ELSE s[i]
    <3>1. ASSUME NEW i \in 1 .. m + 1 PROVE b[i - 1] = IF i = m + 1 THEN e ELSE s[i]
      <4>1. CASE i = m + 1
        BY <1>2, <1>3, <4>1
      <4>2. CASE i # m + 1
        <5>1. i \in 1 .. m /\ i - 1 \in 0 .. m - 1
          BY <1>2, <4>2
        <5>2. QED
          BY <1>2, <1>3, <1>6, <4>2, <5>1
      <4>3. QED
        BY <4>1, <4>2
    <3>2. QED
      BY <3>1
  <2>2. Len(s) = m
    BY <1>1, <1>2, ContentsOf DEF Seen
  <2>3. Append(s, e) = [i \in 1 .. m + 1 |-> IF i = m + 1 THEN e ELSE s[i]]
    <3>1. m \in Nat /\ s = [i \in 1 .. m |-> s[i]]
      BY <1>2, <1>6
    <3> HIDE DEF s
    <3>2. s \in Seq({s[i] : i \in 1 .. m})
      BY <3>1
    <3>3. QED
      BY <2>2, <3>1, <3>2
  <2>4. QED
    BY <1>5, <1>6, <2>1, <2>3
<1>8. QED
  BY <1>1, <1>5, <1>7 DEF Store!Append1, Seen

LEMMA SetMaps ==
    ASSUME Inv, NEW o \in Obj, NEW e \in Val, NEW i \in 0 .. MaxSize, Set(o, i, e)
    PROVE  Store!Set(o, i + 1, e)
<1> DEFINE m == vec[o].v_size
           b == [vec[o].base EXCEPT ![i] = e]
           v == [vec[o] EXCEPT !.base = b]
<1>1. o \notin moved /\ i \in 0 .. m - 1 /\ Becomes(o, v) /\ moved' = moved
  BY DEF Set
<1>2. VecOK(vec[o]) /\ FitsOK(vec[o]) /\ m \in Nat
  BY <1>1, ObjectsOK
<1>3. \A k \in 0 .. m - 1 : b[k] = IF k = i THEN e ELSE vec[o].base[k]
  <2>1. \A k \in 0 .. m - 1 : k \in Places(vec[o])
    BY <1>2 DEF VecOK, FitsOK, Places
  <2>2. QED
    BY <1>1, <1>2, <2>1 DEF VecOK
<1> HIDE DEF b
<1>4. v.v_size = m /\ v.base = b
  BY <1>2 DEF VecOK
<1> HIDE DEF v
<1>5. /\ Seen(o)' = Contents(v)
      /\ \A p \in Obj : p # o => Seen(p)' = Seen(p)
  BY <1>1, OneShown
<1>6. Seen(o)' = [Seen(o) EXCEPT ![i + 1] = e]
  <2>1. /\ Contents(v) = [k \in 1 .. m |-> b[k - 1]]
        /\ Seen(o) = [k \in 1 .. m |-> vec[o].base[k - 1]]
    BY <1>1, <1>4 DEF Contents, Seen
  <2>2. \A k \in 1 .. m : k - 1 \in 0 .. m - 1 /\ (k - 1 = i <=> k = i + 1)
    BY <1>1, <1>2
  <2>3. [Seen(o) EXCEPT ![i + 1] = e]
          = [k \in 1 .. m |-> IF k = i + 1 THEN e ELSE vec[o].base[k - 1]]
    BY <2>1
  <2>4. \A k \in 1 .. m : b[k - 1] = IF k = i + 1 THEN e ELSE vec[o].base[k - 1]
    BY <1>3, <2>2
  <2>5. [k \in 1 .. m |-> b[k - 1]]
          = [k \in 1 .. m |-> IF k = i + 1 THEN e ELSE vec[o].base[k - 1]]
    BY <2>4
  <2>6. QED
    BY <1>5, <2>1, <2>3, <2>5, Zenon
<1>7. QED
  BY <1>1, <1>5, <1>6 DEF Store!Set, Seen

-----------------------------------------------------------------------------
(* Which element comes to stand in a place when the keys K leave. *)

Less == {ss \in Nat \X Nat : ss[1] < ss[2]}

LEMMA LeastNat ==
    ASSUME NEW S \in SUBSET Nat, S # {}
    PROVE  \E m \in S : \A k \in S : m <= k
<1>1. IsWellFoundedOn(Less, Nat)
  BY NatLessThanWellFounded DEF OpToRel, Less
<1>2. \E m \in S : \A k \in S : ~(<<k, m>> \in Less)
  BY <1>1, WFMin
<1>3. \A k, m \in Nat : k < m => <<k, m>> \in Less
  BY DEF Less
<1>4. \A k, m \in Nat : ~(k < m) => m <= k
  OBVIOUS
<1>5. QED
  BY <1>2, <1>3, <1>4

Below(K, s) == {k \in K : k < s}
Rank(K, s) == s - Cardinality(Below(K, s))

LEMMA BelowFinite ==
    ASSUME NEW m \in Nat, NEW K, K \subseteq 0 .. m - 1
    PROVE  /\ IsFiniteSet(K) /\ Cardinality(K) \in 0 .. m
           /\ \A s : IsFiniteSet(Below(K, s)) /\ Cardinality(Below(K, s)) \in Nat
<1>1. IsFiniteSet(0 .. m - 1) /\ Cardinality(0 .. m - 1) = IF 0 > m - 1 THEN 0 ELSE m - 1 - 0 + 1
  BY FS_Interval
<1>2. Cardinality(0 .. m - 1) = m
  BY <1>1
<1>3. IsFiniteSet(K) /\ Cardinality(K) <= Cardinality(0 .. m - 1)
  BY <1>1, FS_Subset
<1>4. Cardinality(K) \in Nat
  BY <1>3, FS_CardinalityType
<1>5. \A s : Below(K, s) \in SUBSET K
  BY DEF Below
<1>6. \A s : IsFiniteSet(Below(K, s))
  BY <1>3, <1>5, FS_Subset
<1>7. \A s : Cardinality(Below(K, s)) \in Nat
  BY <1>6, FS_CardinalityType
<1>8. QED
  BY <1>2, <1>3, <1>4, <1>6, <1>7

\* A key does not raise the rank of what follows it, another element does.
LEMMA RankStep ==
    ASSUME NEW m \in Nat, NEW K, K \subseteq 0 .. m - 1, NEW s \in Nat
    PROVE  /\ Rank(K, 0) = 0 /\ Rank(K, s) \in Int
           /\ Rank(K, s + 1) = IF s \in K THEN Rank(K, s) ELSE Rank(K, s) + 1
           /\ Rank(K, m) = m - Cardinality(K)
<1>1. \A t : IsFiniteSet(Below(K, t)) /\ Cardinality(Below(K, t)) \in Nat
  BY BelowFinite
<1>2. \A k \in K : /\ k \in Nat /\ k < m /\ ~(k < 0)
                   /\ k < s + 1 <=> k < s \/ k = s
                   /\ ~(s < s) /\ s < s + 1
  OBVIOUS
<1>3. Below(K, 0) = {} /\ Below(K, m) = K
  <2>1. \A k \in K : ~(k < 0) /\ k < m
    BY <1>2
  <2>2. QED
    BY <2>1, Zenon DEF Below
<1>4. Cardinality(Below(K, 0)) = 0
  BY <1>3, FS_EmptySet
<1>5. Cardinality(Below(K, s + 1))
        = IF s \in K THEN Cardinality(Below(K, s)) + 1 ELSE Cardinality(Below(K, s))
  <2>1. CASE s \in K
    <3>1. Below(K, s + 1) = Below(K, s) \cup {s} /\ s \notin Below(K, s)
      BY <1>2, <2>1, Zenon DEF Below
    <3>2. QED
      BY <1>1, <2>1, <3>1, FS_AddElement
  <2>2. CASE s \notin K
    <3>1. Below(K, s + 1) = Below(K, s)
      BY <1>2, <2>2, Zenon DEF Below
    <3>2. QED
      BY <2>2, <3>1
  <2>3. QED
    BY <2>1, <2>2
<1>6. QED
  BY <1>1, <1>3, <1>4, <1>5 DEF Rank

LEMMA RankGrows ==
    ASSUME NEW m \in Nat, NEW K, K \subseteq 0 .. m - 1, NEW s \in Nat, NEW t \in Nat, s < t, s \notin K
    PROVE  Rank(K, s) < Rank(K, t)
<1> DEFINE S == {r \in Nat : s < r /\ ~(Rank(K, s) < Rank(K, r))}
<1>1. SUFFICES ASSUME S # {} PROVE FALSE
  OBVIOUS
<1>2. PICK r \in S : \A q \in S : r <= q
  BY <1>1, LeastNat
<1>3. r \in Nat /\ s < r /\ ~(Rank(K, s) < Rank(K, r))
  OBVIOUS
<1>4. Rank(K, s + 1) = Rank(K, s) + 1 /\ Rank(K, s) \in Int
  BY RankStep
<1>5. CASE r = s + 1
  BY <1>3, <1>4, <1>5
<1>6. CASE r # s + 1
  <2>1. r - 1 \in Nat /\ s < r - 1 /\ ~(r <= r - 1) /\ (r - 1) + 1 = r
    BY <1>3, <1>6
  <2>2. Rank(K, s) < Rank(K, r - 1)
    BY <1>2, <2>1
  <2>3. /\ Rank(K, r) = IF r - 1 \in K THEN Rank(K, r - 1) ELSE Rank(K, r - 1) + 1
        /\ Rank(K, r - 1) \in Int
    <3> DEFINE q == r - 1
    <3>1. q \in Nat /\ r = q + 1
      BY <2>1
    <3> HIDE DEF q
    <3>2. /\ Rank(K, q + 1) = IF q \in K THEN Rank(K, q) ELSE Rank(K, q) + 1
          /\ Rank(K, q) \in Int
      BY <3>1, RankStep
    <3>3. QED
      BY <3>1, <3>2 DEF q
  <2>4. QED
    BY <1>3, <1>4, <2>2, <2>3
<1>7. QED
  BY <1>5, <1>6

\* For each place there is one element that comes to stand in it.
LEMMA OneOfRank ==
    ASSUME NEW m \in Nat, NEW K, K \subseteq 0 .. m - 1, NEW d \in 0 .. m - Cardinality(K) - 1
    PROVE  \E s \in 0 .. m - 1 :
             /\ s \notin K /\ Rank(K, s) = d
             /\ \A t \in 0 .. m - 1 : t \notin K /\ Rank(K, t) = d => t = s
<1> DEFINE S == {r \in Nat : d < Rank(K, r)}
<1>1. Cardinality(K) \in 0 .. m
  BY BelowFinite
<1>2. /\ Rank(K, 0) = 0 /\ Rank(K, m) = m - Cardinality(K)
      /\ \A s \in Nat : Rank(K, s) \in Int
      /\ \A s \in Nat : Rank(K, s + 1) = IF s \in K THEN Rank(K, s) ELSE Rank(K, s) + 1
  BY RankStep
<1>3. m \in S /\ 0 \notin S
  BY <1>1, <1>2
<1>4. PICK r \in S : \A q \in S : r <= q
  BY <1>3, LeastNat
<1>5. r \in Nat /\ r # 0 /\ r <= m /\ d < Rank(K, r)
  BY <1>3, <1>4
<1>6. r - 1 \in 0 .. m - 1 /\ r - 1 \in Nat /\ ~(r <= r - 1) /\ (r - 1) + 1 = r
  BY <1>5
<1>7. ~(d < Rank(K, r - 1))
  BY <1>4, <1>6
<1>8. r - 1 \notin K /\ Rank(K, r - 1) = d
  <2>1. Rank(K, r) = IF r - 1 \in K THEN Rank(K, r - 1) ELSE Rank(K, r - 1) + 1
    BY <1>2, <1>6
  <2>2. Rank(K, r - 1) \in Int /\ d \in Int
    BY <1>1, <1>2, <1>6
  <2>3. QED
    BY <1>5, <1>7, <2>1, <2>2
<1>9. ASSUME NEW t \in 0 .. m - 1, t \notin K, Rank(K, t) = d PROVE t = r - 1
  <2>1. t \in Nat
    OBVIOUS
  <2>2. ~(t < r - 1)
    <3>1. t < r - 1 => Rank(K, t) < Rank(K, r - 1)
      BY <1>6, <1>9, <2>1, RankGrows
    <3>2. QED
      BY <1>8, <1>9, <3>1
  <2>3. ~(r - 1 < t)
    <3>1. r - 1 < t => Rank(K, r - 1) < Rank(K, t)
      BY <1>6, <1>8, <2>1, RankGrows
    <3>2. QED
      BY <1>8, <1>9, <3>1
  <2>4. QED
    BY <1>6, <2>1, <2>2, <2>3
<1>10. QED
  BY <1>6, <1>8, <1>9

\* The positions of a sequence are a place further on.
LEMMA Shifted ==
    ASSUME NEW K, IsFiniteSet(K), K \subseteq Int
    PROVE  IsFiniteSet({k + 1 : k \in K}) /\ Cardinality({k + 1 : k \in K}) = Cardinality(K)
<1> DEFINE T == {k + 1 : k \in K}
           f == [k \in K |-> k + 1]
<1>1. f \in [K -> T] /\ (\A k \in K : \A l \in K : f[k] = f[l] => k = l)
      /\ \A t \in T : \E k \in K : f[k] = t
  OBVIOUS
<1> HIDE DEF T, f
<1>2. f \in Bijection(K, T)
  BY <1>1 DEF Bijection, Injection, Surjection, IsInjective
<1>3. ExistsBijection(K, T)
  BY <1>2 DEF ExistsBijection
<1>4. QED
  BY <1>3, FS_Bijection DEF T

LEMMA RankOfShifted ==
    ASSUME NEW m \in Nat, NEW K, K \subseteq 0 .. m - 1
    PROVE  /\ Cardinality({k + 1 : k \in K}) = Cardinality(K)
           /\ \A s \in Int : (s + 1) - Cardinality({r \in {k + 1 : k \in K} : r < s + 1})
                               = Rank(K, s) + 1
<1>1. IsFiniteSet(K) /\ \A s : IsFiniteSet(Below(K, s)) /\ Cardinality(Below(K, s)) \in Nat
  BY BelowFinite
<1>2. ASSUME NEW s \in Int
      PROVE  (s + 1) - Cardinality({r \in {k + 1 : k \in K} : r < s + 1}) = Rank(K, s) + 1
  <2>1. {r \in {k + 1 : k \in K} : r < s + 1} = {k + 1 : k \in Below(K, s)}
    <3>1. \A k \in K : k \in Int
      OBVIOUS
    <3>2. \A k \in K : k + 1 < s + 1 <=> k < s
      BY <3>1
    <3>3. QED
      BY <3>2 DEF Below
  <2>2. Below(K, s) \subseteq Int
    <3>1. \A k \in K : k \in Int
      OBVIOUS
    <3>2. QED
      BY <3>1, Zenon DEF Below
  <2>3. Cardinality({k + 1 : k \in Below(K, s)}) = Cardinality(Below(K, s))
    BY <1>1, <2>2, Shifted
  <2>4. Cardinality({r \in {k + 1 : k \in K} : r < s + 1}) = Cardinality(Below(K, s))
    BY <2>1, <2>3
  <2>5. Cardinality(Below(K, s)) \in Nat
    BY <1>1
  <2>6. QED
    BY <2>4, <2>5 DEF Rank
<1>3. K \subseteq Int
  OBVIOUS
<1>4. QED
  BY <1>1, <1>2, <1>3, Shifted

\* remove(key) and remove(keys, start).
LEMMA RemoveMaps ==
    ASSUME Inv, NEW o \in Obj, NEW K, Remove(o, K)
    PROVE  Store!RemoveAll(o, {k + 1 : k \in K})
<1> DEFINE v == vec[o]
           m == v.v_size
           Moves(s, d) == s \notin K /\ s - Cardinality({k \in K : k < s}) = d
           b == [d \in Places(v) |-> IF \E s \in 0 .. m - 1 : Moves(s, d)
                                     THEN v.base[CHOOSE s \in 0 .. m - 1 : Moves(s, d)]
                                     ELSE v.base[d]]
           n == m - Cardinality(K)
           w == [v EXCEPT !.v_size = n, !.base = b]
           K1 == {k + 1 : k \in K}
           Stays(k, i) == k - Cardinality({r \in K1 : r < k}) = i
<1>1. o \notin moved /\ K \subseteq 0 .. m - 1 /\ Becomes(o, w) /\ moved' = moved
  BY DEF Remove, Without
<1>2. VecOK(v) /\ FitsOK(v) /\ m \in Nat /\ m <= v.cap
  BY <1>1, ObjectsOK DEF FitsOK
<1>3. Cardinality(K) \in 0 .. m
  BY <1>1, <1>2, BelowFinite
<1>4. n \in 0 .. m
  BY <1>2, <1>3
<1>5. \A s, d : Moves(s, d) <=> s \notin K /\ Rank(K, s) = d
  BY DEF Rank, Below
<1>6. /\ Cardinality(K1) = Cardinality(K)
      /\ \A s \in Int : \A i : Stays(s + 1, i) <=> Rank(K, s) + 1 = i
  BY <1>1, <1>2, RankOfShifted
<1>7. 0 .. m - 1 \subseteq Places(v)
  BY <1>2 DEF VecOK, Places
<1>8. w.v_size = n /\ w.base = b
  <2> HIDE DEF b, n
  <2>1. QED
    BY <1>2 DEF VecOK
<1> HIDE DEF w
<1>9. /\ Seen(o)' = Contents(w)
      /\ \A p \in Obj : p # o => Seen(p)' = Seen(p)
  BY <1>1, OneShown
<1>10. /\ Contents(w) = [i \in 1 .. n |-> b[i - 1]]
       /\ Seen(o) = [i \in 1 .. m |-> v.base[i - 1]]
  BY <1>1, <1>8 DEF Contents, Seen
<1>11. Len(Seen(o)) = m /\ DOMAIN Seen(o) = 1 .. m
  BY <1>1, <1>2, ContentsOf DEF Seen
<1>12. ASSUME NEW i \in 1 .. n
       PROVE  b[i - 1] = Seen(o)[CHOOSE k \in DOMAIN Seen(o) \ K1 : Stays(k, i)]
  <2> DEFINE d == i - 1
  <2>1. d \in 0 .. m - Cardinality(K) - 1 /\ d \in 0 .. m - 1 /\ d + 1 = i /\ d \in Int
    BY <1>2, <1>3
  <2> HIDE DEF d
  <2>2. PICK s \in 0 .. m - 1 :
          /\ s \notin K /\ Rank(K, s) = d
          /\ \A t \in 0 .. m - 1 : t \notin K /\ Rank(K, t) = d => t = s
    <3> HIDE DEF m
    <3>1. \A q \in Nat : K \subseteq 0 .. q - 1 =>
            \A c \in 0 .. q - Cardinality(K) - 1 :
              \E s \in 0 .. q - 1 :
                /\ s \notin K /\ Rank(K, s) = c
                /\ \A t \in 0 .. q - 1 : t \notin K /\ Rank(K, t) = c => t = s
      BY OneOfRank
    <3>2. m \in Nat /\ K \subseteq 0 .. m - 1 /\ d \in 0 .. m - Cardinality(K) - 1
      BY <1>1, <1>2, <2>1
    <3>3. QED
      BY ONLY <3>1, <3>2, Zenon
  <2>3. b[d] = v.base[s]
    <3>1. Moves(s, d) /\ \A t \in 0 .. m - 1 : Moves(t, d) => t = s
      BY <1>5, <2>2
    <3> HIDE DEF Moves
    <3>2. (CHOOSE t \in 0 .. m - 1 : Moves(t, d)) = s
      BY <3>1
    <3>3. d \in Places(v)
      BY <1>7, <2>1
    <3>4. QED
      BY <3>1, <3>2, <3>3
  <2>4. s + 1 \in DOMAIN Seen(o) \ K1 /\ Stays(s + 1, i)
    <3>1. s + 1 \in 1 .. m /\ s \in Int
      BY <1>2
    <3>2. s + 1 \notin K1
      <4>1. \A k \in K : k \in Int
        BY <1>1
      <4>2. \A k \in K : k + 1 # s + 1
        BY <2>2, <3>1, <4>1
      <4>3. QED
        BY <4>2
    <3>3. Stays(s + 1, i)
      BY <1>6, <2>1, <2>2, <3>1
    <3>4. QED
      BY <1>11, <3>1, <3>2, <3>3
  <2>5. ASSUME NEW k \in DOMAIN Seen(o) \ K1, Stays(k, i) PROVE k = s + 1
    <3> DEFINE t == k - 1
    <3>1. t \in 0 .. m - 1 /\ t + 1 = k /\ t \in Int
      BY <1>2, <1>11
    <3> HIDE DEF t
    <3>2. t \notin K
      BY <2>5, <3>1
    <3>3. Rank(K, t) + 1 = i
      BY <1>6, <2>5, <3>1
    <3>4. Rank(K, t) \in Int
      <4> HIDE DEF m
      <4>1. t \in Nat
        BY <1>2, <3>1
      <4>2. QED
        BY <1>1, <1>2, <4>1, RankStep
    <3>5. Rank(K, t) = d
      BY <2>1, <3>3, <3>4
    <3>6. t = s
      BY <2>2, <3>1, <3>2, <3>5
    <3>7. QED
      BY <3>1, <3>6
  <2> HIDE DEF Stays, b, K1
  <2>6. (CHOOSE k \in DOMAIN Seen(o) \ K1 : Stays(k, i)) = s + 1
    BY <2>4, <2>5
  <2>7. s + 1 \in 1 .. m /\ (s + 1) - 1 = s
    BY <1>2
  <2>8. Seen(o)[s + 1] = v.base[s]
    BY <1>10, <2>7
  <2>9. QED
    BY <2>3, <2>6, <2>8 DEF d
<1>13. Seen(o)' = [i \in 1 .. Len(Seen(o)) - Cardinality(K1) |->
                     Seen(o)[CHOOSE k \in DOMAIN Seen(o) \ K1 : Stays(k, i)]]
  <2>1. Len(Seen(o)) - Cardinality(K1) = n
    BY <1>6, <1>11
  <2> DEFINE X(i) == Seen(o)[CHOOSE k \in DOMAIN Seen(o) \ K1 : Stays(k, i)]
  <2>2. \A i \in 1 .. n : b[i - 1] = X(i)
    BY <1>12
  <2> HIDE DEF X, b, n
  <2>3. [i \in 1 .. n |-> b[i - 1]] = [i \in 1 .. n |-> X(i)]
    BY <2>2
  <2>4. Seen(o)' = [i \in 1 .. n |-> X(i)]
    BY <1>9, <1>10, <2>3
  <2>5. QED
    BY <2>1, <2>4 DEF X
<1>14. Store!Keeping(Seen(o), K1) = Seen(o)'
  <2> HIDE DEF K1
  <2>1. \A S : Store!Cardinality(S) = Cardinality(S)
    BY DEF Store!Cardinality, Cardinality
  <2>2. QED
    BY <1>13, <2>1, ZenonT(60) DEF Store!Keeping
<1>15. Store!RemoveAll(o, K1)
  <2> HIDE DEF K1
  <2>1. QED
    BY <1>1, <1>9, <1>14 DEF Store!RemoveAll, Seen
<1>16. QED
  BY <1>15

\* The n elements of the grid f from the place k on are the first n of w.
Copied(f, k, w, n) == \A i \in 0 .. n - 1 : f.base[k + i] = w.base[i]

LEMMA FilledCopies ==
    ASSUME NEW v, VecOK(v), NEW w, NEW k \in Nat, NEW n \in Nat, k + n <= v.cap
    PROVE  Copied(Filled(v, k, w, n), k, w, n) /\ Copied(Filled(v, k, w, n), 0, v, k)
<1> DEFINE f == Filled(v, k, w, n)
           b == [i \in Places(v) |-> IF i \in k .. k + n - 1 THEN w.base[i - k] ELSE v.base[i]]
<1>1. f = [v EXCEPT !.base = b]
  BY DEF Filled
<1>2. v.cap \in Nat
  BY DEF VecOK
<1>3. ASSUME NEW i \in 0 .. n - 1 PROVE b[k + i] = w.base[i]
  <2>1. k + i \in Places(v) /\ k + i \in k .. k + n - 1 /\ (k + i) - k = i
    BY <1>2 DEF Places
  <2>2. QED
    BY <2>1
<1>4. ASSUME NEW i \in 0 .. k - 1 PROVE b[0 + i] = v.base[i]
  <2>1. 0 + i = i /\ i \in Places(v) /\ i \notin k .. k + n - 1
    BY <1>2 DEF Places
  <2>2. QED
    BY <2>1
<1> HIDE DEF b
<1>5. f.base = b
  BY <1>1 DEF VecOK
<1> HIDE DEF f
<1>6. QED
  BY <1>3, <1>4, <1>5 DEF Copied, f

\* The elements of one sequence after those of another.
LEMMA Joined ==
    ASSUME NEW S, NEW s \in Seq(S), NEW t \in Seq(S), NEW m \in Nat, NEW k \in Nat,
           Len(s) = m, Len(t) = k
    PROVE  s \o t = [i \in 1 .. m + k |-> IF i <= m THEN s[i] ELSE t[i - m]]
<1> DEFINE n == m + k
           g == [i \in 1 .. n |-> IF i <= m THEN s[i] ELSE t[i - m]]
<1>1. n \in Nat /\ n = m + k
  OBVIOUS
<1>2. s \o t \in Seq(S) /\ Len(s \o t) = n
  OBVIOUS
<1>3. \A i \in 1 .. n : (s \o t)[i] = IF i <= m THEN s[i] ELSE t[i - m]
  BY <1>1, <1>2
<1> HIDE DEF n
<1> DEFINE u == s \o t
<1>4. u \in Seq(S) /\ Len(u) = n /\ \A i \in 1 .. n : u[i] = g[i]
  BY <1>2, <1>3
<1> HIDE DEF u
<1>5. u = g
  <2>1. u = [i \in 1 .. n |-> u[i]]
    BY <1>1, <1>4
  <2>2. QED
    BY <1>4, <2>1
<1>6. QED
  BY <1>5 DEF n, u

\* add(vector).
LEMMA ConcatMaps ==
    ASSUME Inv, NEW o \in Obj, NEW p \in Obj, AddVector(o, p)
    PROVE  Store!Concat(o, p)
<1> DEFINE m == vec[o].v_size
           k == vec[p].v_size
           n == m + k
           r == RoomFor(vec[o], "double", n)
           f == Filled(r, m, vec[p], k)
           v == [f EXCEPT !.v_size = n]
<1>1. o # p /\ o \notin moved /\ p \notin moved /\ Becomes(o, v) /\ moved' = moved
  BY DEF AddVector
<1>2. /\ VecOK(vec[o]) /\ VecOK(vec[p]) /\ m \in Nat /\ k \in Nat
      /\ m <= vec[o].cap /\ k <= vec[p].cap /\ vec[o].cap <= MaxCapacity
      /\ vec[o].cap \in Nat /\ vec[p].cap \in Nat
  BY <1>1, ObjectsOK DEF FitsOK
<1>3. n \in Nat /\ n = m + k
  BY <1>2
<1> HIDE DEF n
<1>4. n <= MaxSize
  <2>1. DOMAIN f = {"v_size", "cap", "base"} \/ n <= MaxSize
    BY <1>2 DEF VecOK, Filled, RoomFor, Enlarged
  <2>2. CASE DOMAIN f = {"v_size", "cap", "base"}
    BY <1>1, <2>2 DEF Becomes
  <2>3. QED
    BY <2>1, <2>2
<1>5. /\ VecOK(r) /\ n <= r.cap
      /\ \A i \in 0 .. n - 1 : i < vec[o].cap => r.base[i] = vec[o].base[i]
  <2> DEFINE w == vec[o]
  <2> HIDE DEF w
  <2>1. VecOK(w) /\ w.cap <= MaxCapacity
    BY <1>2 DEF w
  <2>2. VecOK(RoomFor(w, "double", n)) /\ n <= RoomFor(w, "double", n).cap
    BY <1>3, <1>4, <2>1, RoomForOK
  <2>3. \A i \in 0 .. n - 1 : i < w.cap => RoomFor(w, "double", n).base[i] = w.base[i]
    BY <1>3, <1>4, <2>1, RoomForKeeps
  <2>4. QED
    BY <2>2, <2>3 DEF w
<1> HIDE DEF r
<1>6. VecOK(f)
  BY <1>2, <1>5, FilledOK
<1>7. /\ \A i \in 0 .. k - 1 : f.base[m + i] = vec[p].base[i]
      /\ \A i \in 0 .. m - 1 : f.base[i] = r.base[i]
  <2> DEFINE w == vec[p]
             a == m
             c == k
  <2>1. a \in Nat /\ c \in Nat /\ a + c <= r.cap /\ VecOK(r)
    BY <1>2, <1>3, <1>5
  <2> HIDE DEF w, a, c
  <2>2. Copied(Filled(r, a, w, c), a, w, c) /\ Copied(Filled(r, a, w, c), 0, r, a)
    BY <2>1, FilledCopies
  <2>3. QED
    BY <2>2 DEF w, a, c, Copied
<1> HIDE DEF f
<1>8. v.v_size = n /\ v.base = f.base
  BY <1>6 DEF VecOK
<1> HIDE DEF v
<1>9. /\ Seen(o)' = Contents(v)
      /\ \A q \in Obj : q # o => Seen(q)' = Seen(q)
  BY <1>1, OneShown
<1>10. /\ Contents(v) = [i \in 1 .. n |-> f.base[i - 1]]
       /\ Seen(o) = [i \in 1 .. m |-> vec[o].base[i - 1]]
       /\ Seen(p) = [i \in 1 .. k |-> vec[p].base[i - 1]]
  BY <1>1, <1>8 DEF Contents, Seen
<1>11. Seen(o)' = Seen(o) \o Seen(p)
  <2> DEFINE s == Seen(o)
             t == Seen(p)
  <2>1. \A i \in 1 .. n : f.base[i - 1] = IF i <= m THEN s[i] ELSE t[i - m]
    <3>1. ASSUME NEW i \in 1 .. n PROVE f.base[i - 1] = IF i <= m THEN s[i] ELSE t[i - m]
      <4>1. CASE i <= m
        <5>1. i \in 1 .. m /\ i - 1 \in 0 .. m - 1 /\ i - 1 \in 0 .. n - 1 /\ i - 1 < vec[o].cap
          BY <1>2, <1>3, <4>1
        <5>2. QED
          BY <1>5, <1>7, <1>10, <4>1, <5>1
      <4>2. CASE ~(i <= m)
        <5>1. i - m \in 1 .. k /\ (i - m) - 1 \in 0 .. k - 1 /\ m + ((i - m) - 1) = i - 1
          BY <1>2, <1>3, <4>2
        <5>2. f.base[m + ((i - m) - 1)] = vec[p].base[(i - m) - 1]
          BY <1>7, <5>1
        <5>3. t[i - m] = vec[p].base[(i - m) - 1]
          BY <1>10, <5>1
        <5>4. QED
          BY <4>2, <5>1, <5>2, <5>3
      <4>3. QED
        BY <4>1, <4>2
    <3>2. QED
      BY <3>1
  <2>2. s = [i \in 1 .. m |-> s[i]] /\ t = [i \in 1 .. k |-> t[i]]
    BY <1>10
  <2>3. Seen(o)' = [i \in 1 .. n |-> IF i <= m THEN s[i] ELSE t[i - m]]
    BY <1>9, <1>10, <2>1
  <2> HIDE DEF s, t, m, k
  <2> DEFINE S == {s[i] : i \in 1 .. m} \cup {t[i] : i \in 1 .. k}
  <2> DEFINE s1 == [i \in 1 .. m |-> s[i]]
             t1 == [i \in 1 .. k |-> t[i]]
  <2>4. s \in Seq(S) /\ t \in Seq(S) /\ Len(s) = m /\ Len(t) = k
    <3>1. s1 \in [1 .. m -> S] /\ t1 \in [1 .. k -> S] /\ m \in Nat /\ k \in Nat
      BY <1>2 DEF m, k
    <3> HIDE DEF S
    <3>2. s1 \in Seq(S) /\ t1 \in Seq(S) /\ Len(s1) = m /\ Len(t1) = k
      <4> HIDE DEF s1, t1
      <4>1. QED
        BY <3>1
    <3>3. QED
      BY <2>2, <3>2
  <2> HIDE DEF S
  <2>5. s \o t = [i \in 1 .. n |-> IF i <= m THEN s[i] ELSE t[i - m]]
    BY <1>2, <1>3, <2>4, Joined
  <2>6. QED
    BY <2>3, <2>5 DEF s, t
<1>12. QED
  BY <1>1, <1>9, <1>11 DEF Store!Concat, Seen

\* The assignments and the constructors that copy.
LEMMA CopyMaps ==
    ASSUME Inv, NEW o \in Obj, NEW p \in Obj,
           Copy(o, p) \/ CopyOther(o, p) \/ CopyConstruct(o, p)
    PROVE  Store!Copy(o, p)
<1> DEFINE w == vec[p]
           k == w.v_size
<1>1. p \notin moved /\ moved' = moved \ {o}
  BY DEF Copy, CopyOther, CopyConstruct
<1>2. /\ VecOK(vec[o]) /\ VecOK(w) /\ k \in Nat /\ k <= w.cap /\ vec[o].cap \in Nat
  BY <1>1, ObjectsOK DEF FitsOK
<1>3. Seen(p) = Contents(w)
  BY <1>1 DEF Seen
\* A grid with room for k, filled with the elements of the other.
<1>4. ASSUME NEW v, VecOK(v), k <= v.cap,
             Becomes(o, [Filled(v, 0, w, k) EXCEPT !.v_size = k])
      PROVE  Seen(o)' = Seen(p) /\ \A q \in Obj : q # o => Seen(q)' = Seen(q)
  <2> DEFINE f == Filled(v, 0, w, k)
             u == [f EXCEPT !.v_size = k]
  <2>1. VecOK(f) /\ \A i \in 0 .. k - 1 : f.base[i] = w.base[i]
    <3> DEFINE z == 0
    <3> HIDE DEF w, k
    <3>1. z \in Nat /\ VecOK(w) /\ k \in Nat /\ k <= w.cap /\ VecOK(v)
      BY <1>2, <1>4
    <3>2. z + k <= v.cap
      BY <1>2, <1>4
    <3> HIDE DEF z
    <3>3. VecOK(Filled(v, z, w, k))
      BY <3>1, FilledOK
    <3>4. Copied(Filled(v, z, w, k), z, w, k)
      BY <3>1, <3>2, FilledCopies
    <3>5. \A i \in 0 .. k - 1 : z + i = i
      BY DEF z
    <3>6. \A i \in 0 .. k - 1 : Filled(v, z, w, k).base[i] = w.base[i]
      BY <3>4, <3>5 DEF Copied
    <3>7. QED
      BY <3>3, <3>6 DEF z
  <2> HIDE DEF f
  <2>2. u.v_size = k /\ u.base = f.base /\ Becomes(o, u)
    BY <1>4, <2>1 DEF VecOK, f
  <2> HIDE DEF u
  <2>3. Seen(o)' = Contents(u) /\ \A q \in Obj : q # o => Seen(q)' = Seen(q)
    BY <1>1, <2>2, OneShown
  <2>4. Contents(w) = Contents(u)
    <3>1. w.v_size \in Nat /\ u.v_size = w.v_size
      BY <1>2, <2>2
    <3>2. \A i \in 0 .. w.v_size - 1 : w.base[i] = u.base[i]
      BY <2>1, <2>2
    <3> HIDE DEF w
    <3>3. QED
      BY <3>1, <3>2, SameContents
  <2>5. QED
    BY <1>3, <2>3, <2>4
<1>5. VecOK(Enlarged(vec[o], k)) /\ Enlarged(vec[o], k).cap = k
  <2> HIDE DEF k
  <2>1. QED
    BY <1>2, EnlargedOK
<1>6. Seen(o)' = Seen(p) /\ \A q \in Obj : q # o => Seen(q)' = Seen(q)
  <2>1. CASE Copy(o, p)
    <3>1. CASE vec[o].cap < k
      BY <1>2, <1>4, <1>5, <2>1, <3>1 DEF Copy, CopyOf
    <3>2. CASE ~ (vec[o].cap < k)
      BY <1>2, <1>4, <2>1, <3>2 DEF Copy, CopyOf
    <3>3. QED
      BY <3>1, <3>2
  <2>2. CASE CopyOther(o, p)
    BY <1>2, <1>4, <1>5, <2>2 DEF CopyOther
  <2>3. CASE CopyConstruct(o, p)
    BY <1>1, <1>3, <2>3, OneShown DEF CopyConstruct
  <2>4. QED
    BY <2>1, <2>2, <2>3
<1>7. QED
  BY <1>1, <1>6 DEF Store!Copy, Seen

\* Moves: two objects change.
LEMMA TakeMaps ==
    ASSUME Inv, NEW o \in Obj, NEW p \in Obj, MoveConstruct(o, p)
    PROVE  Store!Take(o, p)
<1>1. /\ o # p /\ DOMAIN vec = Obj /\ moved \subseteq Obj
      /\ vec' = [vec EXCEPT ![o] = vec[p], ![p] = Empty]
      /\ moved' = MovedAs(o, p) \ {p}
  BY DEF MoveConstruct, Inv, TypeOK
<1>2. /\ vec'[o] = vec[p] /\ vec'[p] = Empty
      /\ \A q \in Obj : q # o /\ q # p => vec'[q] = vec[q]
  BY <1>1
<1>3. /\ p \notin moved' /\ (o \in moved' <=> p \in moved)
      /\ \A q \in Obj : q # o /\ q # p => (q \in moved' <=> q \in moved)
  BY <1>1 DEF MovedAs
<1>4. Contents(Empty) = <<>>
  BY DEF Contents, Empty
<1>5. /\ Seen(o)' = Seen(p) /\ Seen(p)' = <<>>
      /\ \A q \in Obj : q # o /\ q # p => Seen(q)' = Seen(q)
  BY <1>2, <1>3, <1>4 DEF Seen, Contents
<1>6. QED
  BY <1>1, <1>3, <1>5 DEF Store!Take, Store!KnownAs, Seen

LEMMA RobMaps ==
    ASSUME Inv, NEW o \in Obj, NEW p \in Obj, MoveAssign(o, p)
    PROVE  Store!Rob(o, p)
<1>1. /\ o # p /\ DOMAIN vec = Obj /\ moved \subseteq Obj
      /\ vec' = [vec EXCEPT ![o] = vec[p], ![p] = [vec[o] EXCEPT !.v_size = vec[p].v_size]]
      /\ moved' = MovedAs(o, p) \union {p}
  BY DEF MoveAssign, Inv, TypeOK
<1>2. /\ vec'[o] = vec[p]
      /\ \A q \in Obj : q # o /\ q # p => vec'[q] = vec[q]
  BY <1>1
<1>3. /\ p \in moved' /\ (o \in moved' <=> p \in moved)
      /\ \A q \in Obj : q # o /\ q # p => (q \in moved' <=> q \in moved)
  BY <1>1 DEF MovedAs
<1>4. /\ Seen(o)' = Seen(p) /\ Seen(p)' = <<>>
      /\ \A q \in Obj : q # o /\ q # p => Seen(q)' = Seen(q)
  BY <1>2, <1>3 DEF Seen, Contents
<1>5. QED
  BY <1>1, <1>3, <1>4 DEF Store!Rob, Store!KnownAs, Seen

LEMMA SwapMaps ==
    ASSUME Inv, NEW o \in Obj, NEW p \in Obj, Swap(o, p)
    PROVE  Store!Swap(o, p)
<1>1. /\ DOMAIN vec = Obj /\ moved \subseteq Obj
      /\ vec' = [vec EXCEPT ![o] = vec[p], ![p] = vec[o]]
      /\ moved' = {q \in Obj : IF q = o THEN p \in moved
                                ELSE IF q = p THEN o \in moved
                                ELSE q \in moved}
  BY DEF Swap, Inv, TypeOK
<1>2. /\ vec'[o] = vec[p] /\ vec'[p] = vec[o]
      /\ \A q \in Obj : q # o /\ q # p => vec'[q] = vec[q]
  BY <1>1
<1>3. /\ (o \in moved' <=> p \in moved) /\ (p \in moved' <=> o \in moved)
      /\ \A q \in Obj : q # o /\ q # p => (q \in moved' <=> q \in moved)
  BY <1>1
<1>4. /\ Seen(o)' = Seen(p) /\ Seen(p)' = Seen(o)
      /\ \A q \in Obj : q # o /\ q # p => Seen(q)' = Seen(q)
  BY <1>2, <1>3 DEF Seen, Contents
<1>5. Obj \ moved' = {q \in Obj : IF q = o THEN p \in Obj \ moved
                                  ELSE IF q = p THEN o \in Obj \ moved
                                  ELSE q \in Obj \ moved}
  BY <1>3
<1>6. QED
  BY <1>4, <1>5 DEF Store!Swap, Seen

LEMMA StoreInit == Init => Store!Init
<1>1. SUFFICES ASSUME Init PROVE Store!Init
  OBVIOUS
<1>2. moved = {} /\ \A o \in Obj : vec[o] = Empty
  BY <1>1 DEF Init
<1>3. Contents(Empty) = <<>>
  BY DEF Contents, Empty
<1>4. QED
  BY <1>2, <1>3 DEF Store!Init

\* Every step of a vector is the step of a sequence, or changes no sequence.
LEMMA StoreStep ==
    ASSUME Inv, Inv', NEW o \in Obj
    PROVE  /\ \A n \in {vec'[o].v_size} :
                /\ Construct(o, n) => Store!Construct(o, n)
                /\ Resize(o, n) => Store!Resize(o, n)
           /\ Reserve(o, vec'[o].cap) => UNCHANGED Store!vars
           /\ \A key \in 0 .. MaxSize : Insert(o, key) => Store!Insert(o, key + 1)
           /\ AddEmpty(o) => Store!Insert(o, vec[o].v_size + 1)
           /\ \A e \in Val :
                /\ Add(o, e) => Store!Append1(o, e)
                /\ \A i \in 0 .. MaxSize : Set(o, i, e) => Store!Set(o, i + 1, e)
           /\ \A K \in KeysOfLength(vec[o].v_size - vec'[o].v_size) :
                Remove(o, K) => Store!RemoveAll(o, {k + 1 : k \in K})
           /\ \A p \in Obj :
                /\ AddVector(o, p) => Store!Concat(o, p)
                /\ Copy(o, p) \/ CopyOther(o, p) \/ CopyConstruct(o, p) => Store!Copy(o, p)
                /\ MoveConstruct(o, p) => Store!Take(o, p)
                /\ MoveAssign(o, p) => Store!Rob(o, p)
                /\ Swap(o, p) => Store!Swap(o, p)
<1>1. ASSUME NEW n \in {vec'[o].v_size}
      PROVE  /\ Construct(o, n) => Store!Construct(o, n)
             /\ Resize(o, n) => Store!Resize(o, n)
  BY <1>1, ConstructMaps, ResizeMaps
<1>2. Reserve(o, vec'[o].cap) => UNCHANGED Store!vars
  BY ReserveMaps
<1>3. AddEmpty(o) => Store!Insert(o, vec[o].v_size + 1)
  BY AddEmptyMaps
<1>4. \A key \in 0 .. MaxSize : Insert(o, key) => Store!Insert(o, key + 1)
  BY InsertMaps
<1>5. ASSUME NEW e \in Val
      PROVE  /\ Add(o, e) => Store!Append1(o, e)
             /\ \A i \in 0 .. MaxSize : Set(o, i, e) => Store!Set(o, i + 1, e)
  BY AddMaps, SetMaps
<1>6. \A K : Remove(o, K) => Store!RemoveAll(o, {k + 1 : k \in K})
  BY RemoveMaps
<1>7. ASSUME NEW p \in Obj
      PROVE  /\ AddVector(o, p) => Store!Concat(o, p)
             /\ Copy(o, p) \/ CopyOther(o, p) \/ CopyConstruct(o, p) => Store!Copy(o, p)
             /\ MoveConstruct(o, p) => Store!Take(o, p)
             /\ MoveAssign(o, p) => Store!Rob(o, p)
             /\ Swap(o, p) => Store!Swap(o, p)
  BY ConcatMaps, CopyMaps, TakeMaps, RobMaps, SwapMaps
<1>8. QED
  BY <1>1, <1>2, <1>3, <1>4, <1>5, <1>6, <1>7

\* With the places and the growth hidden a vector is a sequence: no growth, copy,
\* move or removal changes an element it has no business with
\* (map_vector.hpp:413-531, 838-927, 1278-1501).
THEOREM VectorImplements == Spec => ImplementsStore
<1>1. Init => Store!Init
  BY StoreInit
<1>2. Inv /\ Inv' => 
        \A o \in Obj :
          /\ \A n \in {vec'[o].v_size} :
               /\ Construct(o, n) => Store!Construct(o, n)
               /\ Resize(o, n) => Store!Resize(o, n)
          /\ Reserve(o, vec'[o].cap) => UNCHANGED Store!vars
          /\ \A key \in 0 .. MaxSize : Insert(o, key) => Store!Insert(o, key + 1)
          /\ AddEmpty(o) => Store!Insert(o, vec[o].v_size + 1)
          /\ \A e \in Val :
               /\ Add(o, e) => Store!Append1(o, e)
               /\ \A i \in 0 .. MaxSize : Set(o, i, e) => Store!Set(o, i + 1, e)
          /\ \A K \in KeysOfLength(vec[o].v_size - vec'[o].v_size) :
               Remove(o, K) => Store!RemoveAll(o, {k + 1 : k \in K})
          /\ \A p \in Obj :
               /\ AddVector(o, p) => Store!Concat(o, p)
               /\ Copy(o, p) \/ CopyOther(o, p) \/ CopyConstruct(o, p) => Store!Copy(o, p)
               /\ MoveConstruct(o, p) => Store!Take(o, p)
               /\ MoveAssign(o, p) => Store!Rob(o, p)
               /\ Swap(o, p) => Store!Swap(o, p)
  BY StoreStep
<1>3. QED
  BY <1>1, <1>2, Invariance, PTL DEF Spec, ImplementsStore

-----------------------------------------------------------------------------
(***************************************************************************)
(* The loop of remove(keys, start).  It compacts in place, so the invariant*)
(* has to say that d_k never reaches a place that is still to be read or   *)
(* one that holds an element of an earlier run of elements without a key.  *)
(* The run after the key a ends up in the places from Dest(a) on; Behind   *)
(* says that these places are in increasing order without reasoning on the *)
(* number of keys: one key more is passed at a time.                       *)
(***************************************************************************)

\* Where the elements after the key a go.
Dest(a) == keys[a] - (a - start)

InLoop == pc \in {"while", "skip"}

\* What the call was given.
GivenOK ==
    /\ orig_size \in Nat /\ orig \in [0 .. orig_size - 1 -> Elem]
    /\ n_keys \in Nat /\ start \in Nat /\ keys \in [0 .. n_keys - 1 -> 0 .. orig_size - 1]
    /\ \A a \in start .. n_keys - 2 : keys[a] < keys[a + 1]

\* The indices: a_key is the last key s_k has passed.
Indices ==
    InLoop =>
      /\ v_size = orig_size
      /\ a_key \in start .. n_keys - 1
      /\ keys[a_key] < s_k /\ s_k <= NextKey(a_key)
      /\ d_k = s_k - (a_key - start + 1)

\* The runs that were moved end where the next one begins.
Behind == InLoop => \A a \in start .. a_key : 0 <= Dest(a) /\ Dest(a) <= d_k

\* The runs before the one s_k is in are read.
Passed == InLoop => \A a \in start .. a_key - 1 : NextKey(a) <= s_k

\* What is to be read is unchanged, what was read is in its new place.
Elements ==
    InLoop =>
      /\ \A p \in s_k .. orig_size - 1 : v_base[p] = orig[p]
      /\ \A p \in 0 .. keys[start] - 1 : v_base[p] = orig[p]
      /\ \A a \in start .. a_key : \A p \in keys[a] + 1 .. NextKey(a) - 1 :
           p < s_k => v_base[p - (a - start + 1)] = orig[p]

Called == pc = "call" => v_size = orig_size /\ v_base = orig

LoopInv ==
    /\ GivenOK
    /\ RemoveTypeOK
    /\ Called
    /\ Indices
    /\ Behind
    /\ Passed
    /\ Elements
    /\ Compacted

\* The key after a is in the vector.
LEMMA NextKeyType ==
    ASSUME GivenOK, NEW a \in start .. n_keys - 1
    PROVE  /\ NextKey(a) \in 0 .. orig_size
           /\ keys[a] \in 0 .. orig_size - 1
           /\ keys[a] < NextKey(a)
           /\ a + 1 < n_keys => NextKey(a) = keys[a + 1] /\ NextKey(a) < orig_size
<1>1. n_keys \in Nat /\ start \in Nat /\ orig_size \in Nat
  BY DEF GivenOK
<1>2. a \in 0 .. n_keys - 1 /\ keys[a] \in 0 .. orig_size - 1
  BY <1>1 DEF GivenOK
<1>3. CASE a + 1 < n_keys
  <2>1. a \in start .. n_keys - 2 /\ a + 1 \in 0 .. n_keys - 1
    BY <1>1, <1>3
  <2>2. keys[a] < keys[a + 1] /\ keys[a + 1] \in 0 .. orig_size - 1
    BY <2>1 DEF GivenOK
  <2>3. QED
    BY <1>1, <1>2, <1>3, <2>2 DEF NextKey
<1>4. CASE ~ (a + 1 < n_keys)
  BY <1>1, <1>2, <1>4 DEF NextKey
<1>5. QED
  BY <1>3, <1>4

LEMMA LoopInit == RemoveInit => LoopInv
<1>1. SUFFICES ASSUME RemoveInit PROVE LoopInv
  OBVIOUS
<1>2. GivenOK
  BY <1>1, VectorRemoveAssumption DEF RemoveInit, GivenOK, SortedKeys
<1>3. RemoveTypeOK /\ Called
  BY <1>1, <1>2 DEF RemoveInit, GivenOK, RemoveTypeOK, Called
<1>4. Indices /\ Behind /\ Passed /\ Elements /\ Compacted
  BY <1>1 DEF RemoveInit, Indices, Behind, Passed, Elements, Compacted, InLoop
<1>5. QED
  BY <1>2, <1>3, <1>4 DEF LoopInv

\* remove has found the first key, or nothing to do.
LEMMA EnterStep ==
    ASSUME LoopInv, Enter
    PROVE  LoopInv'
<1>1. GivenOK /\ GivenOK' /\ RemoveTypeOK /\ v_size = orig_size /\ v_base = orig /\ UNCHANGED <<args, v_size, v_base>>
  BY DEF LoopInv, Called, Enter, GivenOK, args
<1>2. CASE n_keys <= start
  <2>1. pc' = "returned" /\ UNCHANGED <<a_key, d_k, s_k>>
    BY <1>2 DEF Enter
  <2>2. RemoveTypeOK' /\ Called' /\ Indices' /\ Behind' /\ Passed' /\ Elements' /\ Compacted'
    BY <1>1, <1>2, <2>1 DEF RemoveTypeOK, Called, Indices, Behind, Passed, Elements, Compacted, InLoop, args
  <2>3. QED
    BY <1>1, <2>2 DEF LoopInv
<1>3. CASE ~ (n_keys <= start)
  <2>1. /\ pc' = "while" /\ a_key' = start
        /\ d_k' = keys[start] /\ s_k' = keys[start] + 1
    BY <1>3 DEF Enter
  <2>2. /\ n_keys \in Nat /\ start \in Nat /\ orig_size \in Nat /\ start \in start .. n_keys - 1
        /\ keys' = keys /\ start' = start /\ n_keys' = n_keys /\ orig_size' = orig_size /\ orig' = orig
        /\ v_size' = v_size /\ v_base' = v_base
    BY <1>1, <1>3 DEF GivenOK, args
  <2>3. /\ NextKey(start) \in 0 .. orig_size /\ keys[start] \in 0 .. orig_size - 1
        /\ keys[start] < NextKey(start)
    BY <1>1, <2>2, NextKeyType
  <2>4. \A a : NextKey(a)' = NextKey(a) /\ Dest(a)' = Dest(a)
    BY <2>2 DEF NextKey, Dest
  <2>5. RemoveTypeOK'
    BY <1>1, <2>1, <2>2, <2>3 DEF RemoveTypeOK
  <2>6. Called' /\ Compacted'
    BY <2>1 DEF Called, Compacted
  <2>7. Indices'
    <3>1. NextKey(a_key)' = NextKey(start)
      BY <2>1, <2>2 DEF NextKey
    <3>2. QED
      BY <1>1, <2>1, <2>2, <2>3, <3>1 DEF Indices
  <2>8. Behind'
    BY <2>1, <2>2, <2>3, <2>4 DEF Behind, Dest
  <2>9. Elements'
    BY <1>1, <2>1, <2>2, <2>3 DEF Elements, NextKey
  <2>10. Passed'
    BY <2>1, <2>2 DEF Passed
  <2>11. QED
    BY <1>1, <2>5, <2>6, <2>7, <2>8, <2>9, <2>10 DEF LoopInv
<1>4. QED
  BY <1>2, <1>3

\* The test of the outer loop changes nothing.
LEMMA LoopStep ==
    ASSUME LoopInv, Loop
    PROVE  LoopInv'
<1>1. /\ UNCHANGED <<args, v_size, v_base, a_key, d_k, s_k>>
      /\ pc = "while" /\ pc' = "skip"
  BY DEF Loop
<1>2. GivenOK' /\ RemoveTypeOK'
  BY <1>1 DEF LoopInv, GivenOK, RemoveTypeOK, args
<1>3. Called' /\ Compacted'
  BY <1>1 DEF Called, Compacted
<1>4. Indices' /\ Behind' /\ Passed' /\ Elements'
  BY <1>1 DEF LoopInv, Indices, Behind, Passed, Elements, InLoop, NextKey, Dest, args
<1>5. QED
  BY <1>2, <1>3, <1>4 DEF LoopInv

\* s_k passes a key: the run before it is complete.
LEMMA SkipStep ==
    ASSUME LoopInv, Skip
    PROVE  LoopInv'
<1>1. /\ UNCHANGED <<args, v_size, v_base, d_k, pc>> /\ pc = "skip"
      /\ a_key' = a_key + 1 /\ s_k' = keys[a_key + 1] + 1
      /\ a_key + 1 < n_keys /\ s_k = keys[a_key + 1]
  BY DEF Skip, AtKey
<1>2. /\ GivenOK /\ RemoveTypeOK /\ GivenOK'
      /\ keys' = keys /\ start' = start /\ n_keys' = n_keys /\ orig_size' = orig_size /\ orig' = orig
      /\ v_size' = v_size /\ v_base' = v_base /\ d_k' = d_k /\ pc' = "skip"
  BY <1>1 DEF LoopInv, GivenOK, args
<1>3. /\ v_size = orig_size /\ a_key \in start .. n_keys - 1 /\ keys[a_key] < s_k
      /\ d_k = s_k - (a_key - start + 1)
      /\ n_keys \in Nat /\ start \in Nat /\ orig_size \in Nat
  BY <1>1 DEF LoopInv, Indices, InLoop, GivenOK
<1>4. a_key + 1 \in start .. n_keys - 1
  BY <1>1, <1>3
<1>5. /\ NextKey(a_key + 1) \in 0 .. orig_size /\ keys[a_key + 1] \in 0 .. orig_size - 1
      /\ keys[a_key + 1] < NextKey(a_key + 1)
  BY <1>2, <1>4, NextKeyType
<1>6. \A a : NextKey(a)' = NextKey(a) /\ Dest(a)' = Dest(a)
  BY <1>2 DEF NextKey, Dest
<1>7. RemoveTypeOK'
  <2>1. a_key' \in Nat /\ s_k' \in 0 .. orig_size
    BY <1>1, <1>3, <1>4, <1>5
  <2>2. d_k \in 0 .. orig_size
    BY <1>2 DEF RemoveTypeOK
  <2>3. GivenOK /\ v_size \in 0 .. orig_size /\ v_base \in [0 .. orig_size - 1 -> Elem]
    BY <1>2 DEF RemoveTypeOK
  <2>4. /\ orig_size \in Nat /\ orig \in [0 .. orig_size - 1 -> Elem]
        /\ n_keys \in Nat /\ start \in Nat /\ keys \in [0 .. n_keys - 1 -> 0 .. orig_size - 1]
    BY <1>2 DEF RemoveTypeOK
  <2>5. /\ orig_size' \in Nat /\ orig' \in [0 .. orig_size' - 1 -> Elem]
        /\ n_keys' \in Nat /\ start' \in Nat
        /\ keys' \in [0 .. n_keys' - 1 -> 0 .. orig_size' - 1]
        /\ v_size' \in 0 .. orig_size' /\ v_base' \in [0 .. orig_size' - 1 -> Elem]
        /\ a_key' \in Nat /\ d_k' \in 0 .. orig_size' /\ s_k' \in 0 .. orig_size'
    BY <1>2, <2>1, <2>2, <2>3, <2>4
  <2>6. pc' \in {"call", "while", "skip", "returned"}
    BY <1>2
  <2>7. QED
    BY <2>5, <2>6 DEF RemoveTypeOK
<1>8. Called' /\ Compacted'
  BY <1>2 DEF Called, Compacted
<1>9. Indices'
  <2>1. NextKey(a_key)' = NextKey(a_key + 1)
    BY <1>1, <1>2 DEF NextKey
  <2>2. d_k' = s_k' - (a_key' - start' + 1)
    BY <1>1, <1>2, <1>3, <1>5
  <2>3. QED
    BY <1>1, <1>2, <1>3, <1>4, <1>5, <2>1, <2>2 DEF Indices
<1>10. Behind'
  <2>1. \A a \in start .. a_key : 0 <= Dest(a) /\ Dest(a) <= d_k
    BY <1>1 DEF LoopInv, Behind, InLoop
  <2>2. 0 <= Dest(a_key + 1) /\ Dest(a_key + 1) <= d_k
    <3>1. d_k \in 0 .. orig_size
      BY <1>2 DEF RemoveTypeOK
    <3>2. QED
      BY <1>1, <1>3, <1>5, <3>1 DEF Dest
  <2>3. \A a \in start .. a_key + 1 : a \in start .. a_key \/ a = a_key + 1
    BY <1>3
  <2>4. \A a \in start' .. a_key' : 0 <= Dest(a)' /\ Dest(a)' <= d_k'
    BY <1>1, <1>2, <1>6, <2>1, <2>2, <2>3
  <2>5. QED
    BY <2>4 DEF Behind
<1>11. Elements'
  <2>1. /\ \A p \in s_k .. orig_size - 1 : v_base[p] = orig[p]
        /\ \A p \in 0 .. keys[start] - 1 : v_base[p] = orig[p]
        /\ \A a \in start .. a_key : \A p \in keys[a] + 1 .. NextKey(a) - 1 :
             p < s_k => v_base[p - (a - start + 1)] = orig[p]
    BY <1>1 DEF LoopInv, Elements, InLoop
  <2>2. \A p \in s_k' .. orig_size' - 1 : v_base'[p] = orig'[p]
    BY <1>1, <1>2, <1>3, <1>5, <2>1
  <2>3. \A p \in 0 .. keys'[start'] - 1 : v_base'[p] = orig'[p]
    BY <1>2, <2>1
  <2>4. ASSUME NEW a \in start .. a_key + 1, NEW p \in keys[a] + 1 .. NextKey(a) - 1,
               p < keys[a_key + 1] + 1
        PROVE  v_base[p - (a - start + 1)] = orig[p]
    <3>1. a \in start .. n_keys - 1 /\ a \in Int
      BY <1>3, <1>4
    <3>2. keys[a] \in 0 .. orig_size - 1 /\ NextKey(a) \in 0 .. orig_size
      BY <1>2, <3>1, NextKeyType
    <3>3. p \in Int
      BY <3>2
    <3>4. a # a_key + 1
      <4>1. keys[a] + 1 <= p
        BY <3>2
      <4>2. QED
        BY <2>4, <1>5, <3>2, <3>3, <4>1
    <3>5. a \in start .. a_key
      BY <1>3, <3>1, <3>4
    <3>6. NextKey(a) <= s_k
      <4>1. CASE a = a_key
        BY <1>1, <1>5, <4>1 DEF NextKey
      <4>2. CASE a # a_key
        <5>1. a \in start .. a_key - 1
          BY <1>3, <3>5, <4>2
        <5>2. QED
          BY <1>1, <5>1 DEF LoopInv, Passed, InLoop
      <4>3. QED
        BY <4>1, <4>2
    <3>7. p < s_k
      BY <1>1, <1>5, <3>2, <3>3, <3>6
    <3>8. QED
      BY <2>1, <3>5, <3>7
  <2>5. QED
    BY <1>1, <1>2, <1>6, <2>2, <2>3, <2>4 DEF Elements
<1>12. Passed'
  <2>1. \A a \in start .. a_key - 1 : NextKey(a) <= s_k
    BY <1>1 DEF LoopInv, Passed, InLoop
  <2>2. ASSUME NEW a \in start .. a_key
        PROVE  NextKey(a) <= keys[a_key + 1] + 1
    <3>1. a \in start .. n_keys - 1 /\ a \in Int
      BY <1>3
    <3>2. NextKey(a) \in 0 .. orig_size
      BY <1>2, <3>1, NextKeyType
    <3>3. CASE a = a_key
      BY <1>1, <1>5, <3>3 DEF NextKey
    <3>4. CASE a # a_key
      <4>1. a \in start .. a_key - 1
        BY <1>3, <3>1, <3>4
      <4>2. NextKey(a) <= s_k
        BY <2>1, <4>1
      <4>3. QED
        BY <1>1, <1>5, <3>2, <4>2
    <3>5. QED
      BY <3>3, <3>4
  <2>3. a_key' - 1 = a_key
    BY <1>1, <1>3
  <2>4. QED
    BY <1>1, <1>2, <1>6, <2>2, <2>3 DEF Passed
<1>13. QED
  BY <1>2, <1>7, <1>8, <1>9, <1>10, <1>11, <1>12 DEF LoopInv

\* One element moves down.
LEMMA MoveStep ==
    ASSUME LoopInv, Move
    PROVE  LoopInv'
<1>1. /\ UNCHANGED <<args, v_size, a_key>> /\ pc = "skip" /\ pc' = "while"
      /\ v_base' = [v_base EXCEPT ![d_k] = v_base[s_k]]
      /\ d_k' = d_k + 1 /\ s_k' = s_k + 1
      /\ ~ (a_key + 1 < n_keys /\ s_k = keys[a_key + 1]) /\ ~ (s_k >= v_size)
  BY DEF Move, AtKey, PastEnd
<1>2. /\ GivenOK /\ RemoveTypeOK /\ GivenOK'
      /\ keys' = keys /\ start' = start /\ n_keys' = n_keys /\ orig_size' = orig_size /\ orig' = orig
      /\ v_size' = v_size /\ a_key' = a_key
  BY <1>1 DEF LoopInv, GivenOK, args
<1>3. /\ v_size = orig_size /\ a_key \in start .. n_keys - 1
      /\ keys[a_key] < s_k /\ s_k <= NextKey(a_key)
      /\ d_k = s_k - (a_key - start + 1)
      /\ n_keys \in Nat /\ start \in Nat /\ orig_size \in Nat
  BY <1>1 DEF LoopInv, Indices, InLoop, GivenOK
<1>4. /\ NextKey(a_key) \in 0 .. orig_size /\ keys[a_key] \in 0 .. orig_size - 1
      /\ a_key + 1 < n_keys => NextKey(a_key) = keys[a_key + 1]
      /\ ~ (a_key + 1 < n_keys) => NextKey(a_key) = orig_size
  BY <1>2, <1>3, NextKeyType DEF NextKey
<1>5. /\ s_k \in 0 .. orig_size - 1 /\ s_k + 1 <= NextKey(a_key)
      /\ d_k \in 0 .. orig_size - 1 /\ d_k < s_k
      /\ v_base \in [0 .. orig_size - 1 -> Elem]
  <2>1. s_k \in 0 .. orig_size /\ d_k \in 0 .. orig_size /\ v_base \in [0 .. orig_size - 1 -> Elem]
    BY <1>2 DEF RemoveTypeOK
  <2>2. QED
    BY <1>1, <1>3, <1>4, <2>1
<1>6. \A a : NextKey(a)' = NextKey(a) /\ Dest(a)' = Dest(a)
  BY <1>2 DEF NextKey, Dest
<1>7. /\ v_base' \in [0 .. orig_size - 1 -> Elem] /\ v_base'[d_k] = v_base[s_k]
      /\ \A p \in 0 .. orig_size - 1 : p # d_k => v_base'[p] = v_base[p]
  BY <1>1, <1>5
<1>8. RemoveTypeOK'
  BY <1>1, <1>2, <1>5, <1>7 DEF RemoveTypeOK
<1>9. Called' /\ Compacted'
  BY <1>1 DEF Called, Compacted
<1>10. Indices'
  BY <1>1, <1>2, <1>3, <1>4, <1>5, <1>6 DEF Indices
<1>11. \A a \in start .. a_key : 0 <= Dest(a) /\ Dest(a) <= d_k
  BY <1>1 DEF LoopInv, Behind, InLoop
<1>12. Behind'
  <2>1. ASSUME NEW a \in start .. a_key
        PROVE  0 <= Dest(a) /\ Dest(a) <= d_k + 1
    <3>1. a \in start .. n_keys - 1 /\ a \in Int
      BY <1>3
    <3>2. Dest(a) \in Int
      BY <1>2, <1>3, <3>1, NextKeyType DEF Dest
    <3>3. QED
      BY <1>5, <1>11, <3>2
  <2>2. QED
    BY <1>1, <1>2, <1>6, <2>1 DEF Behind
<1>13. \A a \in start .. a_key - 1 : NextKey(a) <= s_k
  BY <1>1 DEF LoopInv, Passed, InLoop
<1>14. Passed'
  <2>1. ASSUME NEW a \in start .. a_key - 1
        PROVE  NextKey(a) <= s_k + 1
    <3>1. a \in start .. n_keys - 1
      BY <1>3
    <3>2. NextKey(a) \in 0 .. orig_size
      BY <1>2, <3>1, NextKeyType
    <3>3. QED
      BY <1>5, <1>13, <3>2
  <2>2. QED
    BY <1>1, <1>2, <1>6, <2>1 DEF Passed
<1>15. Elements'
  <2>1. /\ \A p \in s_k .. orig_size - 1 : v_base[p] = orig[p]
        /\ \A p \in 0 .. keys[start] - 1 : v_base[p] = orig[p]
        /\ \A a \in start .. a_key : \A p \in keys[a] + 1 .. NextKey(a) - 1 :
             p < s_k => v_base[p - (a - start + 1)] = orig[p]
    BY <1>1 DEF LoopInv, Elements, InLoop
  <2>2. \A p \in s_k + 1 .. orig_size - 1 : v_base'[p] = orig[p]
    BY <1>5, <1>7, <2>1
  <2>3. \A p \in 0 .. keys[start] - 1 : v_base'[p] = orig[p]
    <3>1. start \in start .. n_keys - 1 /\ start \in start .. a_key
      BY <1>3
    <3>2. keys[start] \in 0 .. orig_size - 1
      BY <1>2, <3>1, NextKeyType
    <3>3. keys[start] <= d_k
      BY <1>3, <1>11, <3>1, <3>2 DEF Dest
    <3>4. QED
      BY <1>3, <1>5, <1>7, <2>1, <3>2, <3>3
  <2>4. ASSUME NEW a \in start .. a_key, NEW p \in keys[a] + 1 .. NextKey(a) - 1,
               p < s_k + 1
        PROVE  v_base'[p - (a - start + 1)] = orig[p]
    <3>1. a \in start .. n_keys - 1 /\ a \in Int
      BY <1>3
    <3>2. /\ keys[a] \in 0 .. orig_size - 1 /\ NextKey(a) \in 0 .. orig_size
          /\ a + 1 < n_keys => NextKey(a) = keys[a + 1]
      BY <1>2, <3>1, NextKeyType
    <3>3. p \in Int /\ keys[a] + 1 <= p /\ p <= NextKey(a) - 1
      BY <3>2
    <3>4. CASE p = s_k
      <4>1. a = a_key
        <5>1. ASSUME a # a_key PROVE FALSE
          <6>1. a \in start .. a_key - 1
            BY <1>3, <3>1, <5>1
          <6>2. NextKey(a) <= s_k
            BY <1>13, <6>1
          <6>3. QED
            BY <1>5, <3>2, <3>3, <3>4, <6>2
        <5>2. QED
          BY <5>1
      <4>2. p - (a - start + 1) = d_k
        BY <1>3, <3>4, <4>1
      <4>3. QED
        BY <1>5, <1>7, <2>1, <3>4, <4>2
    <3>5. CASE p # s_k
      <4>1. v_base[p - (a - start + 1)] = orig[p]
        BY <2>4, <1>5, <2>1, <3>3, <3>5
      <4>2. p - (a - start + 1) < d_k
        <5>1. CASE a = a_key
          BY <2>4, <1>3, <1>5, <3>3, <3>5, <5>1
        <5>2. CASE a # a_key
          <6>1. a + 1 \in start .. a_key /\ a + 1 < n_keys /\ a \in Int
            BY <1>3, <3>1, <5>2
          <6>2. Dest(a + 1) <= d_k
            BY <1>11, <6>1
          <6>3. NextKey(a) - (a + 1 - start) <= d_k
            BY <1>3, <3>1, <3>2, <6>1, <6>2 DEF Dest
          <6>4. QED
            BY <1>3, <1>5, <3>2, <3>3, <6>1, <6>3
        <5>3. QED
          BY <5>1, <5>2
      <4>3. 0 <= p - (a - start + 1)
        BY <1>3, <1>11, <3>1, <3>2, <3>3 DEF Dest
      <4>4. p - (a - start + 1) \in 0 .. orig_size - 1 /\ p - (a - start + 1) # d_k
        BY <1>3, <1>5, <3>1, <3>3, <4>2, <4>3
      <4>5. QED
        BY <1>7, <4>1, <4>4
    <3>6. QED
      BY <3>4, <3>5
  <2>5. QED
    BY <1>1, <1>2, <1>5, <1>6, <2>2, <2>3, <2>4 DEF Elements
<1>16. QED
  BY <1>2, <1>8, <1>9, <1>10, <1>12, <1>14, <1>15 DEF LoopInv

\* The vector is given its new size.
LEMMA ReturnStep ==
    ASSUME LoopInv, Return
    PROVE  LoopInv'
<1>1. /\ UNCHANGED <<args, v_base, a_key, d_k, s_k>> /\ pc' = "returned"
      /\ v_size' = v_size - (n_keys - start)
      /\ pc \in {"while", "skip"}
      /\ s_k >= v_size
  BY DEF Return, PastEnd
<1>2. /\ GivenOK /\ RemoveTypeOK /\ GivenOK'
      /\ keys' = keys /\ start' = start /\ n_keys' = n_keys /\ orig_size' = orig_size /\ orig' = orig
      /\ v_base' = v_base
  BY <1>1 DEF LoopInv, GivenOK, args
<1>3. /\ v_size = orig_size /\ a_key \in start .. n_keys - 1
      /\ keys[a_key] < s_k /\ s_k <= NextKey(a_key)
      /\ d_k = s_k - (a_key - start + 1)
      /\ n_keys \in Nat /\ start \in Nat /\ orig_size \in Nat
  BY <1>1 DEF LoopInv, Indices, InLoop, GivenOK
<1>4. /\ NextKey(a_key) \in 0 .. orig_size
      /\ a_key + 1 < n_keys => NextKey(a_key) < orig_size
  BY <1>2, <1>3, NextKeyType
<1>5. s_k \in 0 .. orig_size /\ d_k \in 0 .. orig_size
  BY <1>2 DEF RemoveTypeOK
<1>6. s_k = orig_size /\ a_key = n_keys - 1
  BY <1>1, <1>3, <1>4, <1>5
<1>7. v_size' \in 0 .. orig_size
  BY <1>1, <1>3, <1>5, <1>6
<1>8. RemoveTypeOK'
  BY <1>1, <1>2, <1>7 DEF RemoveTypeOK
<1>9. Called' /\ Indices' /\ Behind' /\ Passed' /\ Elements'
  BY <1>1 DEF Called, Indices, Behind, Passed, Elements, InLoop
<1>10. Removed'
  <2>1. /\ \A p \in 0 .. keys[start] - 1 : v_base[p] = orig[p]
        /\ \A a \in start .. a_key : \A p \in keys[a] + 1 .. NextKey(a) - 1 :
             p < s_k => v_base[p - (a - start + 1)] = orig[p]
    BY <1>1 DEF LoopInv, Elements, InLoop
  <2>2. ASSUME NEW a \in start .. n_keys - 1, NEW p \in keys[a] + 1 .. NextKey(a) - 1
        PROVE  v_base[p - (a - start + 1)] = orig[p]
    <3>1. keys[a] \in 0 .. orig_size - 1 /\ NextKey(a) \in 0 .. orig_size
      BY <1>2, NextKeyType
    <3>2. p < s_k /\ a \in start .. a_key
      BY <1>3, <1>6, <3>1
    <3>3. QED
      BY <2>1, <3>2
  <2>3. \A a : NextKey(a)' = NextKey(a)
    BY <1>2 DEF NextKey
  <2>4. v_size' = orig_size - (n_keys - start)
    BY <1>1, <1>3
  <2>5. QED
    BY <1>2, <2>1, <2>2, <2>3, <2>4 DEF Removed
<1>11. Compacted'
  BY <1>1, <1>2, <1>3, <1>10 DEF Compacted
<1>12. QED
  BY <1>2, <1>8, <1>9, <1>11 DEF LoopInv

LEMMA LoopInductive == LoopInv /\ [RemoveNext]_loop_vars => LoopInv'
<1>1. ASSUME LoopInv, UNCHANGED loop_vars
      PROVE  LoopInv'
  BY <1>1 DEF LoopInv, loop_vars, GivenOK, RemoveTypeOK, Called, Indices, Behind, Passed, Elements,
              Compacted, Removed, InLoop, NextKey, Dest
<1>2. QED
  BY <1>1, EnterStep, LoopStep, SkipStep, MoveStep, ReturnStep DEF RemoveNext

\* The invariant of the loop holds at each step (map_vector.hpp:897-927).
THEOREM LoopInvariance == RemoveSpec => []LoopInv
<1>1. QED
  BY LoopInit, LoopInductive, PTL DEF RemoveSpec

\* remove(keys, start) leaves the elements without a key, in their order, for
\* every vector and every sorted list of keys (map_vector.hpp:892-927).
THEOREM SpecCompacted == RemoveSpec => []Compacted
<1>1. LoopInv => Compacted
  BY DEF LoopInv
<1>2. QED
  BY <1>1, LoopInvariance, PTL

\* The indices never leave the vector (map_vector.hpp:901-926).
THEOREM RemoveTyped == RemoveSpec => []RemoveTypeOK
<1>1. LoopInv => RemoveTypeOK
  BY DEF LoopInv
<1>2. QED
  BY <1>1, LoopInvariance, PTL

\* The loop reads no place it has written and none beyond the vector
\* (map_vector.hpp:919).
THEOREM SpecReadsAhead == RemoveSpec => []ReadsAhead
<1>1. LoopInv => ReadsAhead
  <2>1. SUFFICES ASSUME LoopInv, InLoop
                 PROVE  /\ d_k < s_k /\ s_k <= v_size
                        /\ ~ PastEnd => s_k \in DOMAIN v_base
    BY DEF ReadsAhead, InLoop
  <2>2. /\ v_size = orig_size /\ a_key \in start .. n_keys - 1 /\ s_k \in 0 .. orig_size
        /\ d_k = s_k - (a_key - start + 1)
        /\ n_keys \in Nat /\ start \in Nat /\ orig_size \in Nat
        /\ v_base \in [0 .. orig_size - 1 -> Elem]
    BY <2>1 DEF LoopInv, Indices, RemoveTypeOK, GivenOK
  <2>3. QED
    BY <2>2 DEF PastEnd
<1>2. QED
  BY <1>1, LoopInvariance, PTL

-----------------------------------------------------------------------------
(* The loop does what Vector says of remove. *)

\* The keys that are used.
KeySet == {keys[a] : a \in start .. n_keys - 1}

\* The keys stand in increasing order.
LEMMA KeysGrow ==
    ASSUME GivenOK
    PROVE  \A a, b \in start .. n_keys - 1 : a < b => keys[a] < keys[b]
<1>1. /\ n_keys \in Nat /\ start \in Nat /\ orig_size \in Nat
      /\ \A a \in start .. n_keys - 1 : keys[a] \in 0 .. orig_size - 1
      /\ \A a \in start .. n_keys - 2 : keys[a] < keys[a + 1]
  BY DEF GivenOK
<1>2. SUFFICES ASSUME NEW a \in start .. n_keys - 1
               PROVE  \A b \in start .. n_keys - 1 : a < b => keys[a] < keys[b]
  OBVIOUS
<1> DEFINE S == {b \in Nat : b \in start .. n_keys - 1 /\ a < b /\ ~(keys[a] < keys[b])}
<1>3. SUFFICES ASSUME S # {} PROVE FALSE
  BY <1>1
<1>4. PICK b \in S : \A c \in S : b <= c
  BY <1>3, LeastNat
<1>5. /\ b - 1 \in start .. n_keys - 2 /\ b - 1 \in start .. n_keys - 1 /\ b - 1 \in Nat
      /\ (b - 1) + 1 = b /\ ~(b <= b - 1) /\ ~(keys[a] < keys[b])
  BY <1>1, <1>4
<1>6. b - 1 \notin S
  BY <1>4, <1>5
<1>7. a = b - 1 \/ keys[a] < keys[b - 1]
  BY <1>1, <1>4, <1>5, <1>6
<1>8. keys[b - 1] < keys[(b - 1) + 1]
  BY <1>1, <1>5
<1>9. keys[b - 1] < keys[b]
  BY <1>5, <1>8
<1>10. /\ keys[a] \in Int /\ keys[b] \in Int /\ keys[b - 1] \in Int
  BY <1>1, <1>4, <1>5
<1>11. QED
  BY <1>5, <1>7, <1>9, <1>10

\* There are as many of them as arguments.
LEMMA KeysCounted ==
    ASSUME GivenOK, NEW m \in Int, NEW n \in Int, start <= m, m - 1 <= n, n <= n_keys - 1
    PROVE  /\ IsFiniteSet({keys[b] : b \in m .. n})
           /\ Cardinality({keys[b] : b \in m .. n}) = n - m + 1
<1> DEFINE T == {keys[b] : b \in m .. n}
           f == [b \in m .. n |-> keys[b]]
<1>1. n_keys \in Nat /\ start \in Nat /\ \A b \in m .. n : b \in start .. n_keys - 1
  BY DEF GivenOK
<1>2. \A b \in start .. n_keys - 1 : keys[b] \in Int
  BY <1>1 DEF GivenOK
<1>3. \A a, b \in m .. n : keys[a] = keys[b] => a = b
  BY <1>1, <1>2, KeysGrow
<1>4. f \in [m .. n -> T] /\ (\A a \in m .. n : \A b \in m .. n : f[a] = f[b] => a = b)
      /\ \A t \in T : \E b \in m .. n : f[b] = t
  BY <1>3
<1> HIDE DEF T, f
<1>5. f \in Bijection(m .. n, T)
  BY <1>4 DEF Bijection, Injection, Surjection, IsInjective
<1>6. ExistsBijection(m .. n, T)
  BY <1>5 DEF ExistsBijection
<1>7. IsFiniteSet(m .. n) /\ Cardinality(m .. n) = IF m > n THEN 0 ELSE n - m + 1
  BY FS_Interval
<1>8. Cardinality(m .. n) = n - m + 1
  BY <1>7
<1>9. QED
  BY <1>6, <1>7, <1>8, FS_Bijection DEF T

\* An element after the key a and before the next stays, and its place is the
\* one the loop moves it to.
LEMMA RunPlaces ==
    ASSUME GivenOK, NEW a \in start .. n_keys - 1, NEW p \in keys[a] + 1 .. NextKey(a) - 1
    PROVE  p \notin KeySet /\ Rank(KeySet, p) = p - (a - start + 1)
<1>1. /\ n_keys \in Nat /\ start \in Nat /\ orig_size \in Nat
      /\ \A b \in start .. n_keys - 1 : keys[b] \in 0 .. orig_size - 1
  BY DEF GivenOK
<1>2. /\ keys[a] \in 0 .. orig_size - 1 /\ NextKey(a) \in 0 .. orig_size
      /\ a + 1 < n_keys => NextKey(a) = keys[a + 1]
  BY NextKeyType
<1>3. ASSUME NEW b \in start .. n_keys - 1
      PROVE  keys[b] # p /\ (keys[b] < p <=> b \in start .. a)
  <2>1. CASE b \in start .. a
    <3>1. b = a \/ keys[b] < keys[a]
      BY <1>1, <2>1, KeysGrow
    <3>2. QED
      BY <1>1, <1>2, <2>1, <3>1
  <2>2. CASE b \notin start .. a
    <3>1. a + 1 \in start .. n_keys - 1 /\ a + 1 < n_keys /\ (b = a + 1 \/ a + 1 < b)
      BY <1>1, <2>2
    <3>2. b = a + 1 \/ keys[a + 1] < keys[b]
      BY <3>1, KeysGrow
    <3>3. keys[a + 1] \in Int /\ keys[b] \in Int /\ p < keys[a + 1] /\ p \in Int
      BY <1>1, <1>2, <3>1
    <3>4. QED
      BY <2>2, <3>2, <3>3
  <2>3. QED
    BY <2>1, <2>2
<1>4. start .. a \subseteq start .. n_keys - 1
  BY <1>1
<1>5. Below(KeySet, p) = {keys[b] : b \in start .. a}
  BY <1>3, <1>4 DEF Below, KeySet
<1>6. Cardinality({keys[b] : b \in start .. a}) = a - start + 1
  <2>1. start \in Int /\ a \in Int /\ start <= start /\ start - 1 <= a /\ a <= n_keys - 1
    BY <1>1
  <2>2. QED
    BY <2>1, KeysCounted
<1>7. QED
  BY <1>3, <1>5, <1>6 DEF Rank, KeySet

LEMMA FirstPlaces ==
    ASSUME GivenOK, start < n_keys, NEW p \in 0 .. keys[start] - 1
    PROVE  p \notin KeySet /\ Rank(KeySet, p) = p
<1>1. /\ n_keys \in Nat /\ start \in Nat /\ start \in start .. n_keys - 1
      /\ \A b \in start .. n_keys - 1 : keys[b] \in 0 .. orig_size - 1
  BY DEF GivenOK
<1>2. ASSUME NEW b \in start .. n_keys - 1
      PROVE  keys[b] # p /\ ~(keys[b] < p)
  <2>1. b = start \/ keys[start] < keys[b]
    BY <1>1, KeysGrow
  <2>2. keys[b] \in Int /\ keys[start] \in Int
    BY <1>1 DEF GivenOK
  <2>3. QED
    BY <2>1, <2>2
<1>3. Below(KeySet, p) = {} /\ p \notin KeySet
  BY <1>2 DEF Below, KeySet
<1>4. QED
  BY <1>3, FS_EmptySet DEF Rank

\* A place that is no key is before the first one or after one of them.
LEMMA EveryPlace ==
    ASSUME GivenOK, start < n_keys, NEW p \in 0 .. orig_size - 1, p \notin KeySet
    PROVE  \/ p \in 0 .. keys[start] - 1
           \/ \E a \in start .. n_keys - 1 : p \in keys[a] + 1 .. NextKey(a) - 1
<1>1. /\ n_keys \in Nat /\ start \in Nat /\ orig_size \in Nat /\ start \in start .. n_keys - 1
      /\ \A b \in start .. n_keys - 1 : keys[b] \in 0 .. orig_size - 1 /\ keys[b] # p
  BY DEF GivenOK, KeySet
<1>2. SUFFICES ASSUME keys[start] < p
               PROVE  \E a \in start .. n_keys - 1 : p \in keys[a] + 1 .. NextKey(a) - 1
  BY <1>1
<1> DEFINE S == {b \in Nat : b = n_keys \/ (b \in start .. n_keys - 1 /\ p < keys[b])}
<1>3. n_keys \in S
  BY <1>1
<1>4. PICK b \in S : \A c \in S : b <= c
  BY <1>3, LeastNat
<1>5. b # start /\ b \in start .. n_keys
  BY <1>1, <1>2, <1>4
<1> DEFINE a == b - 1
<1>6. a \in start .. n_keys - 1 /\ a \in Nat /\ a + 1 = b /\ ~(b <= a)
  BY <1>1, <1>5
<1>7. a \notin S
  BY <1>4, <1>6
<1>8. keys[a] < p
  BY <1>1, <1>6, <1>7
<1>9. p < NextKey(a)
  <2>1. CASE b = n_keys
    <3>1. ~(a + 1 < n_keys) /\ p < orig_size
      BY <1>1, <1>6, <2>1
    <3>2. QED
      BY <3>1 DEF NextKey
  <2>2. CASE b # n_keys
    BY <1>1, <1>4, <1>6, <2>2 DEF NextKey
  <2>3. QED
    BY <2>1, <2>2
<1>10. NextKey(a) \in 0 .. orig_size /\ keys[a] \in 0 .. orig_size - 1
  BY <1>6, NextKeyType
<1> HIDE DEF a
<1>11. p \in keys[a] + 1 .. NextKey(a) - 1
  BY <1>8, <1>9, <1>10
<1>12. QED
  BY <1>6, <1>11

\* The vector the call was given, without its unused places.
Given == [v_size |-> orig_size, cap |-> orig_size, base |-> orig]

\* The vector is what Vector says remove leaves of the one the call was given.
LeavesWithout ==
    pc = "returned" /\ start < n_keys =>
        /\ v_size = Without(Given, KeySet).v_size
        /\ \A d \in 0 .. v_size - 1 : v_base[d] = Without(Given, KeySet).base[d]

\* The action Remove of Vector, and with it the removal from a sequence that
\* VectorStore promises, is what the loop of remove(keys, start) computes
\* (map_vector.hpp:892-927).
THEOREM LoopIsRemove == RemoveSpec => []LeavesWithout
<1>1. SUFFICES ASSUME LoopInv, pc = "returned", start < n_keys
               PROVE  /\ v_size = Without(Given, KeySet).v_size
                      /\ \A d \in 0 .. v_size - 1 : v_base[d] = Without(Given, KeySet).base[d]
  <2>1. LoopInv => LeavesWithout
    BY <1>1 DEF LeavesWithout
  <2>2. QED
    BY <2>1, LoopInvariance, PTL
<1>2. GivenOK /\ Removed /\ v_size \in Nat
  BY <1>1 DEF LoopInv, Compacted, RemoveTypeOK, GivenOK
<1>3. n_keys \in Nat /\ start \in Nat /\ orig_size \in Nat /\ orig \in [0 .. orig_size - 1 -> Elem]
  BY <1>2 DEF GivenOK
<1>4. KeySet \subseteq 0 .. orig_size - 1 /\ Cardinality(KeySet) = n_keys - start
  <2>1. KeySet \subseteq 0 .. orig_size - 1
    BY <1>2, <1>3 DEF GivenOK, KeySet
  <2>2. Cardinality(KeySet) = (n_keys - 1) - start + 1
    <3> DEFINE n == n_keys - 1
    <3>1. start \in Int /\ n \in Int /\ start <= start /\ start - 1 <= n /\ n <= n_keys - 1
      BY <1>1, <1>3
    <3> HIDE DEF n
    <3>2. Cardinality({keys[a] : a \in start .. n}) = n - start + 1
      BY <1>2, <3>1, KeysCounted
    <3>3. QED
      BY <3>2 DEF n, KeySet
  <2>3. QED
    BY <1>3, <2>1, <2>2
<1> DEFINE Moves(s, d) == s \notin KeySet /\ s - Cardinality({k \in KeySet : k < s}) = d
           b == [d \in 0 .. orig_size - 1 |->
                   IF \E s \in 0 .. orig_size - 1 : Moves(s, d)
                   THEN orig[CHOOSE s \in 0 .. orig_size - 1 : Moves(s, d)]
                   ELSE orig[d]]
<1>5. /\ Without(Given, KeySet).v_size = orig_size - Cardinality(KeySet)
      /\ Without(Given, KeySet).base = b
  BY DEF Without, Given, Places
<1>6. v_size = orig_size - Cardinality(KeySet)
  BY <1>2, <1>3, <1>4 DEF Removed
<1>7. \A s, d : Moves(s, d) <=> s \notin KeySet /\ Rank(KeySet, s) = d
  BY DEF Rank, Below
<1>8. ASSUME NEW d \in 0 .. v_size - 1
      PROVE  v_base[d] = b[d]
  <2>1. d \in 0 .. orig_size - 1 /\ d \in 0 .. orig_size - Cardinality(KeySet) - 1
    BY <1>1, <1>3, <1>4, <1>6
  <2>2. PICK s \in 0 .. orig_size - 1 :
          /\ s \notin KeySet /\ Rank(KeySet, s) = d
          /\ \A t \in 0 .. orig_size - 1 : t \notin KeySet /\ Rank(KeySet, t) = d => t = s
    <3> HIDE DEF Moves, b
    <3>1. /\ orig_size \in Nat /\ KeySet \subseteq 0 .. orig_size - 1
          /\ d \in 0 .. orig_size - Cardinality(KeySet) - 1
      BY <1>3, <1>4, <2>1
    <3>2. \A q \in Nat : KeySet \subseteq 0 .. q - 1 =>
            \A c \in 0 .. q - Cardinality(KeySet) - 1 :
              \E t \in 0 .. q - 1 :
                /\ t \notin KeySet /\ Rank(KeySet, t) = c
                /\ \A u \in 0 .. q - 1 : u \notin KeySet /\ Rank(KeySet, u) = c => u = t
      BY OneOfRank
    <3>3. QED
      BY ONLY <3>1, <3>2, Zenon
  <2>3. Moves(s, d) /\ \A t \in 0 .. orig_size - 1 : Moves(t, d) => t = s
    BY <1>7, <2>2
  <2>4. b[d] = orig[s]
    <3> HIDE DEF Moves
    <3>1. (CHOOSE t \in 0 .. orig_size - 1 : Moves(t, d)) = s
      BY <2>3
    <3>2. QED
      BY <2>1, <2>3, <3>1
  <2>5. v_base[d] = orig[s]
    <3>1. CASE s \in 0 .. keys[start] - 1
      BY <1>1, <1>2, <2>2, <3>1, FirstPlaces DEF Removed
    <3>2. CASE \E a \in start .. n_keys - 1 : s \in keys[a] + 1 .. NextKey(a) - 1
      <4>1. PICK a \in start .. n_keys - 1 : s \in keys[a] + 1 .. NextKey(a) - 1
        BY <3>2
      <4>2. v_base[s - (a - start + 1)] = orig[s]
        BY <1>2, <4>1 DEF Removed
      <4>3. Rank(KeySet, s) = s - (a - start + 1)
        BY <1>2, <4>1, RunPlaces
      <4>4. QED
        BY <2>2, <4>2, <4>3
    <3>3. QED
      BY <1>1, <1>2, <2>2, <3>1, <3>2, EveryPlace
  <2>6. QED
    BY <2>4, <2>5
<1>9. QED
  BY <1>5, <1>6, <1>8

=============================================================================
