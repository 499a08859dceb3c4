------------------------- MODULE CellMemoriesProofs -------------------------
(***************************************************************************)
(* Theorems about the three cell memories, for every set of objects,       *)
(* elements, sizes and slot numbers.  The arrays of Mem_fast always fit    *)
(* its cells and a cell always has a free place; and whatever they grow,   *)
(* copy or exchange, Mem_fast, Mem_bal and Mem_mw implement the vector of  *)
(* vectors CellStore.                                                      *)
(***************************************************************************)
EXTENDS CellMemories, SequenceTheorems, TLAPS

(***************************************************************************)
(* The layout.  A place s * c + i with i < s belongs to the cell c only.   *)
(***************************************************************************)

\* Products are monotonic (the only nonlinear fact the layout rests on).
LEMMA TimesMonotonic ==
    ASSUME NEW s \in Nat, NEW c \in Nat, NEW d \in Nat, c < d
    PROVE  s * c + s <= s * d
<1>1. PICK k \in Nat : d = c + 1 + k
  <2>1. d - c - 1 \in Nat /\ d = c + 1 + (d - c - 1)
    OBVIOUS
  <2>2. QED
    BY <2>1
<1>2. s * d = s * c + s + s * k
  BY <1>1
<1>3. s * k >= 0
  BY <1>1
<1>4. s * d \in Nat /\ s * c \in Nat /\ s * k \in Nat
  BY <1>1
<1>5. QED
  BY <1>2, <1>3, <1>4

\* Two cells never share a place (the index of MemFast.hpp:247).
LEMMA PlacesDisjoint ==
    ASSUME NEW s \in Nat, NEW c \in Nat, NEW d \in Nat,
           NEW i \in Nat, NEW j \in Nat, i < s, j < s,
           s * c + i = s * d + j
    PROVE  c = d /\ i = j
<1>0. s * c \in Nat /\ s * d \in Nat
  OBVIOUS
<1>1. ~ (c < d)
  BY <1>0, TimesMonotonic
<1>2. ~ (d < c)
  BY <1>0, TimesMonotonic
<1>3. c = d
  BY <1>1, <1>2
<1>4. QED
  BY <1>0, <1>3

\* The places of the cells 0 .. n-1 are those of an array of s * n elements.
LEMMA PlaceInArray ==
    ASSUME NEW s \in Nat, NEW n \in Nat, NEW c \in 0 .. n - 1,
           NEW i \in Nat, i < s
    PROVE  s * c + i \in 0 .. s * n - 1
<1>1. s * c + s <= s * n
  BY TimesMonotonic
<1>2. s * c \in Nat /\ s * n \in Nat
  OBVIOUS
<1>3. QED
  BY <1>1, <1>2

(***************************************************************************)
(* What holds of one object that is not loose, and what each operation     *)
(* makes of it.                                                            *)
(***************************************************************************)

GoodObject(m) == ObjectOK(m) /\ RoomOK(m) /\ WrittenOK(m)

\* The places in use, cell by cell.
LEMMA UsedPlaces ==
    ASSUME NEW m, NEW p
    PROVE  p \in Used(m) <=>
             \E c \in Cells(m) : \E j \in 0 .. m.cl_n[c] - 1 : p = <<c, j>>
BY DEF Used

\* realloc() doubles the slots and keeps every element (MemFast.hpp:107-125).
LEMMA ReallocGood ==
    ASSUME NEW m, GoodObject(m)
    PROVE  /\ GoodObject(Realloc(m))
           /\ Realloc(m).slot = 2 * m.slot
           /\ Realloc(m).cells = m.cells
           /\ Realloc(m).cl_n = m.cl_n
           /\ \A c \in Cells(m) : \A j \in 0 .. m.cl_n[c] - 1 :
                 Get(Realloc(m), c, j) = Get(m, c, j)
<1> DEFINE r == Realloc(m)
<1> USE DEF GoodObject
<1>1. /\ m.slot \in Nat \ {0} /\ m.cells \in Nat /\ m.size \in Nat
      /\ m.cl_n \in [Cells(m) -> Nat]
      /\ m.cl_base \in [0 .. m.size - 1 -> Ele \union {Garbage}]
      /\ m.size = m.slot * m.cells
      /\ \A c \in Cells(m) : m.cl_n[c] < m.slot
      /\ DOMAIN m = {"slot", "cells", "cl_n", "size", "cl_base"}
  BY DEF ObjectOK, RoomOK
<1>2. /\ r.slot = 2 * m.slot /\ r.cells = m.cells /\ r.cl_n = m.cl_n
      /\ r.size = 2 * m.slot * m.cells
  BY <1>1 DEF Realloc, ObjectOK
<1>3. 2 * m.slot * m.cells \in Nat
  BY <1>1
<1>4. \A c \in Cells(m) : \A j \in 0 .. m.cl_n[c] - 1 :
         /\ 2 * c * m.slot + j \in 0 .. 2 * m.slot * m.cells - 1
         /\ r.cl_base[2 * c * m.slot + j] = m.cl_base[m.slot * c + j]
  <2> SUFFICES ASSUME NEW c \in Cells(m), NEW j \in 0 .. m.cl_n[c] - 1
               PROVE  /\ 2 * c * m.slot + j \in 0 .. 2 * m.slot * m.cells - 1
                      /\ r.cl_base[2 * c * m.slot + j] = m.cl_base[m.slot * c + j]
    OBVIOUS
  <2>1. /\ c \in Nat /\ c \in 0 .. m.cells - 1 /\ j \in Nat /\ j < m.slot
        /\ 2 * m.slot \in Nat /\ j < 2 * m.slot
    BY <1>1 DEF Cells
  <2>2. 2 * c * m.slot = (2 * m.slot) * c
    BY <2>1, <1>1
  <2>3. 2 * c * m.slot + j \in 0 .. 2 * m.slot * m.cells - 1
    BY <2>1, <2>2, <1>1, PlaceInArray
  <2>4. <<c, j>> \in Used(m)
    BY UsedPlaces
  <2>5. \A p \in Used(m) : 2 * c * m.slot + j = 2 * p[1] * m.slot + p[2] => p = <<c, j>>
    <3> SUFFICES ASSUME NEW p \in Used(m), 2 * c * m.slot + j = 2 * p[1] * m.slot + p[2]
                 PROVE  p = <<c, j>>
      OBVIOUS
    <3>0. PICK d \in Cells(m) : \E i \in 0 .. m.cl_n[d] - 1 : p = <<d, i>>
      BY UsedPlaces
    <3>1. PICK i \in 0 .. m.cl_n[d] - 1 : p = <<d, i>>
      BY <3>0
    <3>a. m.cl_n[d] \in Nat /\ m.cl_n[d] < m.slot
      BY <1>1
    <3>2. d \in Nat /\ i \in Nat /\ i < 2 * m.slot
      BY <1>1, <3>a, SMTT(30) DEF Cells
    <3>3. 2 * d * m.slot = (2 * m.slot) * d
      BY <3>2, <1>1
    <3>4. (2 * m.slot) * c + j = (2 * m.slot) * d + i
      BY <2>2, <3>1, <3>3
    <3>5. c = d /\ j = i
      BY <2>1, <3>2, <3>4, PlacesDisjoint
    <3>6. QED
      BY <3>1, <3>5
  <2>6. QED
    <3>1. SourceOf(m, 2 * c * m.slot + j) = <<c, j>>
      BY <2>4, <2>5 DEF SourceOf
    <3>2. r.cl_base[2 * c * m.slot + j] =
            m.cl_base[m.slot * SourceOf(m, 2 * c * m.slot + j)[1]
                        + SourceOf(m, 2 * c * m.slot + j)[2]]
      BY <2>3, <2>4, <1>1 DEF Realloc
    <3>3. QED
      BY <2>3, <3>1, <3>2
<1>5. \A c \in Cells(m) : \A j \in 0 .. m.cl_n[c] - 1 : Get(r, c, j) = Get(m, c, j)
  <2> SUFFICES ASSUME NEW c \in Cells(m), NEW j \in 0 .. m.cl_n[c] - 1
               PROVE  Get(r, c, j) = Get(m, c, j)
    OBVIOUS
  <2>1. 2 * c * m.slot = (2 * m.slot) * c
    BY <1>1 DEF Cells
  <2>2. QED
    BY <1>2, <1>4, <2>1 DEF Get
<1>6. r.cl_base \in [0 .. 2 * m.slot * m.cells - 1 -> Ele \union {Garbage}]
  <2>1. \A p \in Used(m) : m.cl_base[m.slot * p[1] + p[2]] \in Ele
    BY UsedPlaces DEF WrittenOK, Get
  <2>2. \A k : (\E p \in Used(m) : k = 2 * p[1] * m.slot + p[2])
                => SourceOf(m, k) \in Used(m)
    BY DEF SourceOf
  <2>3. QED
    BY <2>1, <2>2, <1>1 DEF Realloc
<1>7. ObjectOK(r)
  <2>1. r = [slot |-> 2 * m.slot, cells |-> m.cells, cl_n |-> m.cl_n,
             size |-> 2 * m.slot * m.cells, cl_base |-> r.cl_base]
    BY DEF Realloc
  <2>2. 2 * m.slot \in Nat \ {0}
    BY <1>1
  <2>3. QED
    BY <1>1, <1>3, <1>6, <2>1, <2>2 DEF ObjectOK, Cells
<1>8. RoomOK(r)
  <2>1. Cells(r) = Cells(m)
    BY <1>2 DEF Cells
  <2>2. \A c \in Cells(m) : m.cl_n[c] < 2 * m.slot
    <3> SUFFICES ASSUME NEW c \in Cells(m) PROVE m.cl_n[c] < 2 * m.slot
      OBVIOUS
    <3>1. m.cl_n[c] \in Nat /\ m.cl_n[c] < m.slot
      BY <1>1
    <3>2. QED
      BY <1>1, <3>1
  <2>3. QED
    BY <1>2, <2>1, <2>2 DEF RoomOK
<1>9. WrittenOK(r)
  BY <1>2, <1>5 DEF WrittenOK, Cells
<1>10. QED
  BY <1>2, <1>5, <1>7, <1>8, <1>9

\* addCell's write, once there is room, adds one element to one cell
\* (MemFast.hpp:220-221).
LEMMA StoredGood ==
    ASSUME NEW m, GoodObject(m), NEW cell \in Cells(m), NEW ele \in Ele,
           ~ NeedsRealloc(m, cell)
    PROVE  LET n == Stored(m, cell, ele) IN
           /\ GoodObject(n)
           /\ n.slot = m.slot /\ n.cells = m.cells
           /\ n.cl_n = [m.cl_n EXCEPT ![cell] = @ + 1]
           /\ \A c \in Cells(m) : \A j \in 0 .. n.cl_n[c] - 1 :
                 Get(n, c, j) = IF c = cell /\ j = m.cl_n[cell] THEN ele ELSE Get(m, c, j)
<1> DEFINE n == Stored(m, cell, ele)
           place == m.slot * cell + m.cl_n[cell]
<1> USE DEF GoodObject
<1>1. /\ m.slot \in Nat \ {0} /\ m.cells \in Nat /\ m.size \in Nat
      /\ m.cl_n \in [Cells(m) -> Nat]
      /\ m.cl_base \in [0 .. m.size - 1 -> Ele \union {Garbage}]
      /\ m.size = m.slot * m.cells
      /\ m = [slot |-> m.slot, cells |-> m.cells, cl_n |-> m.cl_n,
              size |-> m.size, cl_base |-> m.cl_base]
  BY DEF ObjectOK, RoomOK
<1>2. /\ m.cl_n[cell] \in Nat /\ m.cl_n[cell] + 1 < m.slot
      /\ cell \in Nat /\ cell \in 0 .. m.cells - 1
  BY <1>1 DEF NeedsRealloc, GetNElements, Cells
<1>3. place \in 0 .. m.size - 1
  <2> DEFINE s == m.slot
             k == m.cells
             i == m.cl_n[cell]
  <2>1. s \in Nat /\ k \in Nat /\ cell \in 0 .. k - 1 /\ i \in Nat /\ i < s
    BY <1>1, <1>2
  <2> HIDE DEF s, k, i
  <2>2. s * cell + i \in 0 .. s * k - 1
    BY <2>1, PlaceInArray
  <2>3. QED
    BY <1>1, <2>2 DEF s, k, i
<1>4. n = [slot |-> m.slot, cells |-> m.cells,
           cl_n |-> [m.cl_n EXCEPT ![cell] = @ + 1],
           size |-> m.size, cl_base |-> [m.cl_base EXCEPT ![place] = ele]]
  <2>1. n.cl_n = [m.cl_n EXCEPT ![cell] = m.cl_n[cell] + 1]
    BY DEF Stored, ObjectOK
  <2>2. [m.cl_n EXCEPT ![cell] = m.cl_n[cell] + 1] = [m.cl_n EXCEPT ![cell] = @ + 1]
    BY <1>1
  <2>3. n.cl_base = [m.cl_base EXCEPT ![place] = ele]
    BY DEF Stored, ObjectOK
  <2>4. /\ n.slot = m.slot /\ n.cells = m.cells /\ n.size = m.size
        /\ DOMAIN n = {"slot", "cells", "cl_n", "size", "cl_base"}
        /\ n = [f \in DOMAIN n |-> n[f]]
    BY DEF Stored, ObjectOK
  <2>5. QED
    BY <2>1, <2>2, <2>3, <2>4
<1>5. ObjectOK(n)
  <2>1. [m.cl_n EXCEPT ![cell] = @ + 1] \in [Cells(m) -> Nat]
    BY <1>1, <1>2
  <2>2. [m.cl_base EXCEPT ![place] = ele] \in [0 .. m.size - 1 -> Ele \union {Garbage}]
    BY <1>1, <1>3
  <2>3. QED
    BY <1>1, <1>4, <2>1, <2>2 DEF ObjectOK, Cells
<1>6. \A c \in Cells(m) : m.cl_n[c] \in Nat /\ m.cl_n[c] < m.slot
  BY <1>1 DEF RoomOK
<1>7. \A c \in Cells(m) :
        n.cl_n[c] = IF c = cell THEN m.cl_n[c] + 1 ELSE m.cl_n[c]
  BY <1>1, <1>4
<1>8. RoomOK(n)
  <2>1. Cells(n) = Cells(m)
    BY <1>4 DEF Cells
  <2>2. \A c \in Cells(m) : n.cl_n[c] < m.slot
    BY <1>2, <1>6, <1>7
  <2>3. n.size = n.slot * n.cells
    BY <1>1, <1>4
  <2>4. n.slot = m.slot
    BY <1>4
  <2>5. QED
    BY <2>1, <2>2, <2>3, <2>4 DEF RoomOK
<1>9. ASSUME NEW c \in Cells(m), NEW j \in 0 .. n.cl_n[c] - 1
      PROVE  Get(n, c, j) = IF c = cell /\ j = m.cl_n[cell] THEN ele ELSE Get(m, c, j)
  <2>1. c \in Nat /\ c \in 0 .. m.cells - 1 /\ m.cl_n[c] \in Nat
    BY <1>1 DEF Cells
  <2>2. n.cl_n[c] <= m.cl_n[c] + 1 /\ n.cl_n[c] \in Nat
    BY <1>7, <2>1
  <2>3. j \in Nat /\ j < m.slot
    <3>1. n.cl_n[c] < m.slot
      BY <1>4, <1>8 DEF RoomOK, Cells
    <3>2. QED
      BY <2>2, <3>1, <1>1
  <2>4. m.slot * c + j \in 0 .. m.size - 1
    BY <1>1, <2>1, <2>3, PlaceInArray
  <2>5. (m.slot * c + j = place) <=> (c = cell /\ j = m.cl_n[cell])
    <3>1. m.slot * c + j = place => c = cell /\ j = m.cl_n[cell]
      BY <1>1, <1>2, <2>1, <2>3, PlacesDisjoint, SMTT(30)
    <3>2. QED
      BY <3>1
  <2>6. Get(n, c, j) = IF m.slot * c + j = place THEN ele ELSE m.cl_base[m.slot * c + j]
    BY <1>1, <1>4, <2>4 DEF Get
  <2>7. QED
    BY <2>5, <2>6 DEF Get
<1>10. WrittenOK(n)
  <2> SUFFICES ASSUME NEW c \in Cells(m), NEW j \in 0 .. n.cl_n[c] - 1
               PROVE  Get(n, c, j) \in Ele
    BY <1>4 DEF WrittenOK, Cells
  <2>1. CASE c = cell /\ j = m.cl_n[cell]
    BY <1>9, <2>1
  <2>2. CASE ~ (c = cell /\ j = m.cl_n[cell])
    <3>1. j \in 0 .. m.cl_n[c] - 1
      BY <1>2, <1>6, <1>7, <2>2
    <3>2. Get(m, c, j) \in Ele
      BY <3>1 DEF WrittenOK
    <3>3. QED
      BY <1>9, <2>2, <3>2
  <2>3. QED
    BY <2>1, <2>2
<1>11. QED
  BY <1>4, <1>5, <1>8, <1>9, <1>10

\* addCell as a whole: the growth it may need, then the write.
LEMMA AddCellGood ==
    ASSUME NEW m, GoodObject(m), NEW cell \in Cells(m), NEW ele \in Ele
    PROVE  LET n == Stored(IF NeedsRealloc(m, cell) THEN Realloc(m) ELSE m, cell, ele) IN
           /\ GoodObject(n)
           /\ n.cells = m.cells
           /\ n.cl_n = [m.cl_n EXCEPT ![cell] = @ + 1]
           /\ \A c \in Cells(m) : \A j \in 0 .. n.cl_n[c] - 1 :
                 Get(n, c, j) = IF c = cell /\ j = m.cl_n[cell] THEN ele ELSE Get(m, c, j)
<1> DEFINE r == IF NeedsRealloc(m, cell) THEN Realloc(m) ELSE m
           n == Stored(r, cell, ele)
<1>1. /\ m.slot \in Nat \ {0} /\ m.cells \in Nat /\ m.cl_n \in [Cells(m) -> Nat]
      /\ m.cl_n[cell] \in Nat /\ m.cl_n[cell] < m.slot
  BY DEF GoodObject, ObjectOK, RoomOK
<1>2. /\ GoodObject(r) /\ r.cells = m.cells /\ r.cl_n = m.cl_n
      /\ \A c \in Cells(m) : \A j \in 0 .. m.cl_n[c] - 1 : Get(r, c, j) = Get(m, c, j)
  BY ReallocGood
<1>3. Cells(r) = Cells(m)
  BY <1>2 DEF Cells
<1>4. ~ NeedsRealloc(r, cell)
  <2>1. CASE NeedsRealloc(m, cell)
    <3>1. r.slot = 2 * m.slot
      BY <2>1, ReallocGood
    <3>2. QED
      BY <1>1, <1>2, <3>1 DEF NeedsRealloc, GetNElements
  <2>2. CASE ~ NeedsRealloc(m, cell)
    BY <2>2
  <2>3. QED
    BY <2>1, <2>2
<1>5. /\ GoodObject(n)
      /\ n.slot = r.slot /\ n.cells = r.cells
      /\ n.cl_n = [r.cl_n EXCEPT ![cell] = @ + 1]
      /\ \A c \in Cells(r) : \A j \in 0 .. n.cl_n[c] - 1 :
            Get(n, c, j) = IF c = cell /\ j = r.cl_n[cell] THEN ele ELSE Get(r, c, j)
  BY <1>2, <1>3, <1>4, StoredGood
<1>6. ASSUME NEW c \in Cells(m), NEW j \in 0 .. n.cl_n[c] - 1
      PROVE  Get(n, c, j) = IF c = cell /\ j = m.cl_n[cell] THEN ele ELSE Get(m, c, j)
  <2>1. CASE c = cell /\ j = m.cl_n[cell]
    BY <2>1, <1>2, <1>3, <1>5
  <2>2. CASE ~ (c = cell /\ j = m.cl_n[cell])
    <3>1. m.cl_n[c] \in Nat
      BY <1>1
    <3>2. n.cl_n[c] = IF c = cell THEN m.cl_n[c] + 1 ELSE m.cl_n[c]
      BY <1>1, <1>2, <1>5
    <3>3. j \in 0 .. m.cl_n[c] - 1
      BY <2>2, <3>1, <3>2
    <3>4. QED
      BY <2>2, <3>3, <1>2, <1>3, <1>5
  <2>3. QED
    BY <2>1, <2>2
<1>7. QED
  BY <1>2, <1>5, <1>6

\* remove() takes one from a count (MemFast.hpp:273).
LEMMA RemoveGood ==
    ASSUME NEW m, GoodObject(m), NEW cell \in Cells(m), m.cl_n[cell] > 0
    PROVE  LET n == [m EXCEPT !.cl_n[cell] = @ - 1] IN
           /\ GoodObject(n)
           /\ n.cells = m.cells
           /\ n.cl_n = [m.cl_n EXCEPT ![cell] = @ - 1]
           /\ \A c \in Cells(m) : \A j \in 0 .. n.cl_n[c] - 1 : Get(n, c, j) = Get(m, c, j)
<1> DEFINE n == [m EXCEPT !.cl_n[cell] = @ - 1]
<1>1. /\ m.slot \in Nat \ {0} /\ m.cells \in Nat /\ m.cl_n \in [Cells(m) -> Nat]
      /\ \A c \in Cells(m) : m.cl_n[c] \in Nat /\ m.cl_n[c] < m.slot
  BY DEF GoodObject, ObjectOK, RoomOK
<1>2. n.cl_n = [m.cl_n EXCEPT ![cell] = @ - 1]
  BY DEF GoodObject, ObjectOK
<1>3. /\ n.slot = m.slot /\ n.cells = m.cells /\ n.size = m.size /\ n.cl_base = m.cl_base
      /\ DOMAIN n = {"slot", "cells", "cl_n", "size", "cl_base"}
      /\ n = [f \in DOMAIN n |-> n[f]]
  BY DEF GoodObject, ObjectOK
<1>4. n.cl_n \in [Cells(m) -> Nat]
  BY <1>1, <1>2
<1>5. ObjectOK(n)
  <2>1. Cells(n) = Cells(m)
    BY <1>3 DEF Cells
  <2>2. n = [slot |-> n.slot, cells |-> n.cells, cl_n |-> n.cl_n,
             size |-> n.size, cl_base |-> n.cl_base]
    BY <1>3
  <2>3. /\ m.size \in Nat
        /\ m.cl_base \in [0 .. m.size - 1 -> Ele \union {Garbage}]
    BY DEF GoodObject, ObjectOK
  <2>4. QED
    BY <1>1, <1>3, <1>4, <2>1, <2>2, <2>3 DEF ObjectOK
<1>6. \A c \in Cells(m) : n.cl_n[c] \in Nat /\ n.cl_n[c] <= m.cl_n[c]
  BY <1>1, <1>2
<1>7. RoomOK(n)
  BY <1>1, <1>3, <1>6 DEF GoodObject, RoomOK, Cells
<1>8. \A c \in Cells(m) : \A j \in 0 .. n.cl_n[c] - 1 :
        Get(n, c, j) = Get(m, c, j) /\ j \in 0 .. m.cl_n[c] - 1
  BY <1>1, <1>3, <1>6 DEF Get
<1>9. WrittenOK(n)
  BY <1>3, <1>8 DEF GoodObject, WrittenOK, Cells
<1>10. QED
  BY <1>2, <1>3, <1>5, <1>7, <1>8, <1>9 DEF GoodObject

(***************************************************************************)
(* The inductive invariant.  None of its parts is inductive alone: addCell *)
(* keeps the place it writes inside the array because of the room, realloc *)
(* finds the elements because of the layout, and what it copies was        *)
(* written.                                                                *)
(***************************************************************************)

Inv == TypeOK /\ AlwaysRoom /\ AlwaysWritten

LEMMA InvObjects ==
    Inv <=> /\ DOMAIN mem = Obj
            /\ loose \subseteq Obj
            /\ \A o \in Obj : ObjectOK(mem[o])
            /\ \A o \in Obj \ loose : GoodObject(mem[o])
BY DEF Inv, TypeOK, AlwaysRoom, AlwaysWritten, GoodObject

LEMMA InitInv == Init => Inv
<1> SUFFICES ASSUME Init PROVE Inv
  OBVIOUS
<1>1. \A slot \in Slots : GoodObject(Constructed(slot))
  <2> SUFFICES ASSUME NEW slot \in Slots PROVE GoodObject(Constructed(slot))
    OBVIOUS
  <2> DEFINE m == Constructed(slot)
  <2>1. slot \in Nat \ {0}
    BY SlotsAssumption
  <2>2. Cells(m) = {} /\ 0 .. m.size - 1 = {}
    BY DEF Cells, Constructed
  <2>3. ObjectOK(m)
    BY <2>1, <2>2 DEF ObjectOK, Constructed
  <2>4. m.size = m.slot * m.cells
    BY <2>1 DEF Constructed
  <2>5. QED
    BY <2>2, <2>3, <2>4 DEF GoodObject, RoomOK, WrittenOK
<1>2. DOMAIN mem = Obj /\ loose = {} /\ \A o \in Obj : GoodObject(mem[o])
  BY <1>1 DEF Init
<1>3. QED
  BY <1>2, InvObjects DEF GoodObject

\* An object just initialised has room and holds nothing (MemFast.hpp:150-162).
LEMMA InitToZeroGood ==
    ASSUME NEW m, ObjectOK(m), NEW slot \in Slots, NEW n \in Sizes
    PROVE  GoodObject([slot |-> slot, cells |-> n, cl_n |-> [c \in 0 .. n - 1 |-> 0],
                       size |-> n * slot, cl_base |-> Resize(m.cl_base, m.size, n * slot)])
<1> DEFINE z == [slot |-> slot, cells |-> n, cl_n |-> [c \in 0 .. n - 1 |-> 0],
                 size |-> n * slot, cl_base |-> Resize(m.cl_base, m.size, n * slot)]
<1>1. slot \in Nat \ {0} /\ n \in Nat
  BY SlotsAssumption, SizesAssumption
<1>2. n * slot \in Nat /\ n * slot = slot * n
  BY <1>1
<1>3. Resize(m.cl_base, m.size, n * slot) \in [0 .. n * slot - 1 -> Ele \union {Garbage}]
  <2>1. m.size \in Nat /\ m.cl_base \in [0 .. m.size - 1 -> Ele \union {Garbage}]
    BY DEF ObjectOK
  <2>2. QED
    BY <2>1, <1>2 DEF Resize
<1>4. [c \in 0 .. n - 1 |-> 0] \in [0 .. n - 1 -> Nat]
  OBVIOUS
<1>5. ObjectOK(z)
  BY <1>1, <1>2, <1>3, <1>4 DEF ObjectOK, Cells
<1>6. RoomOK(z) /\ WrittenOK(z)
  BY <1>1, <1>2 DEF RoomOK, WrittenOK, Cells
<1>7. QED
  BY <1>5, <1>6 DEF GoodObject

\* clear() empties the cells and leaves the arrays (MemFast.hpp:322-326).
LEMMA ClearGood ==
    ASSUME NEW m, GoodObject(m)
    PROVE  LET z == [m EXCEPT !.cl_n = [c \in Cells(m) |-> 0]] IN
           GoodObject(z) /\ z.cells = m.cells /\ z.cl_n = [c \in Cells(m) |-> 0]
<1> DEFINE z == [m EXCEPT !.cl_n = [c \in Cells(m) |-> 0]]
<1>1. z = [slot |-> m.slot, cells |-> m.cells, cl_n |-> [c \in Cells(m) |-> 0],
           size |-> m.size, cl_base |-> m.cl_base]
  <2>1. /\ z.slot = m.slot /\ z.cells = m.cells /\ z.size = m.size /\ z.cl_base = m.cl_base
        /\ DOMAIN z = {"slot", "cells", "cl_n", "size", "cl_base"}
        /\ z = [f \in DOMAIN z |-> z[f]]
    BY DEF GoodObject, ObjectOK
  <2>2. z.cl_n = [c \in Cells(m) |-> 0]
    BY DEF GoodObject, ObjectOK
  <2>3. QED
    BY <2>1, <2>2
<1>2. ObjectOK(z)
  BY <1>1 DEF GoodObject, ObjectOK, Cells
<1>3. RoomOK(z) /\ WrittenOK(z)
  BY <1>1 DEF GoodObject, ObjectOK, RoomOK, WrittenOK, Cells
<1>4. QED
  BY <1>1, <1>2, <1>3 DEF GoodObject

\* Giving an object another slot number leaves it an object.
LEMMA SetSlotOK ==
    ASSUME NEW m, ObjectOK(m), NEW slot \in Nat \ {0}
    PROVE  ObjectOK([m EXCEPT !.slot = slot])
<1>1. [m EXCEPT !.slot = slot] =
        [slot |-> slot, cells |-> m.cells, cl_n |-> m.cl_n,
         size |-> m.size, cl_base |-> m.cl_base]
  BY DEF ObjectOK
<1>2. QED
  BY <1>1 DEF ObjectOK, Cells

LEMMA NextInv == Inv /\ [Next]_vars => Inv'
<1> SUFFICES ASSUME Inv, [Next]_vars PROVE Inv'
  OBVIOUS
<1>1. /\ DOMAIN mem = Obj /\ loose \subseteq Obj
      /\ \A o \in Obj : ObjectOK(mem[o])
      /\ \A o \in Obj \ loose : GoodObject(mem[o])
  BY InvObjects
<1> DEFINE Goal == /\ DOMAIN mem' = Obj /\ loose' \subseteq Obj
                   /\ \A o \in Obj : ObjectOK(mem'[o])
                   /\ \A o \in Obj \ loose' : GoodObject(mem'[o])
<1>2. Goal => Inv'
  BY DEF Inv, TypeOK, AlwaysRoom, AlwaysWritten, GoodObject
<1>3. ASSUME NEW o \in Obj, NEW slot \in Slots, NEW n \in Sizes, InitToZero(o, slot, n)
      PROVE  Goal
  BY <1>1, <1>3, InitToZeroGood DEF InitToZero, GoodObject
<1>4. ASSUME NEW o \in Obj, NEW cell \in Cells(mem[o]), NEW ele \in Ele, AddCell(o, cell, ele)
      PROVE  Goal
  BY <1>1, <1>4, AddCellGood DEF AddCell, GoodObject
<1>5. ASSUME NEW o \in Obj, NEW cell \in Cells(mem[o]),
             NEW ele \in 0 .. GetNElements(mem[o], cell) - 1, Remove(o, cell, ele)
      PROVE  Goal
  <2>1. mem[o].cl_n[cell] > 0
    BY <1>1 DEF GetNElements, ObjectOK
  <2>2. mem' = [mem EXCEPT ![o] = [mem[o] EXCEPT !.cl_n[cell] = @ - 1]]
    BY <1>5 DEF Remove
  <2>3. GoodObject(mem'[o])
    BY <1>1, <1>5, <2>1, <2>2, RemoveGood DEF Remove
  <2>4. QED
    BY <1>1, <1>5, <2>2, <2>3 DEF Remove, GoodObject
<1>6. ASSUME NEW o \in Obj, Clear(o)
      PROVE  Goal
  <2>1. mem' = [mem EXCEPT ![o] = [mem[o] EXCEPT !.cl_n = [c \in Cells(mem[o]) |-> 0]]]
    BY <1>6 DEF Clear
  <2>2. GoodObject(mem'[o])
    BY <1>1, <1>6, <2>1, ClearGood DEF Clear
  <2>3. QED
    BY <1>1, <1>6, <2>1, <2>2 DEF Clear, GoodObject
<1>7. ASSUME NEW o \in Obj, NEW p \in Obj, Copy(o, p)
      PROVE  Goal
  BY <1>1, <1>7 DEF Copy, LooseAfter
<1>8. ASSUME NEW o \in Obj, NEW p \in Obj, Swap(o, p)
      PROVE  Goal
  BY <1>1, <1>8 DEF Swap
<1>9. ASSUME NEW o \in Obj, NEW p \in Obj, SwapRvalue(o, p)
      PROVE  Goal
  <2>1. mem[p].slot \in Nat \ {0}
    BY <1>1 DEF ObjectOK
  <2>2. ObjectOK([mem[o] EXCEPT !.slot = mem[p].slot])
    BY <1>1, <2>1, SetSlotOK
  <2>3. QED
    BY <1>1, <1>9, <2>2 DEF SwapRvalue, LooseAfter
<1>10. ASSUME NEW o \in Obj, NEW slot \in Slots, SetSlot(o, slot)
       PROVE  Goal
  <2>1. mem' = [mem EXCEPT ![o] = [mem[o] EXCEPT !.slot = slot]]
    BY <1>10 DEF SetSlot
  <2>2. ObjectOK(mem'[o])
    BY <1>1, <2>1, SlotsAssumption, SetSlotOK
  <2>3. QED
    BY <1>1, <1>10, <2>1, <2>2 DEF SetSlot
<1>11. CASE UNCHANGED vars
  <2>1. mem' = mem /\ loose' = loose
    BY <1>11 DEF vars
  <2>2. QED
    BY <1>1, <1>2, <2>1
<1>12. QED
  BY <1>2, <1>3, <1>4, <1>5, <1>6, <1>7, <1>8, <1>9, <1>10, <1>11 DEF Next

\* The arrays of every object keep their type, for every constant.
THEOREM TypeCorrect == Spec => []TypeOK
<1>1. Inv => TypeOK
  BY DEF Inv
<1>2. QED
  BY <1>1, InitInv, NextInv, PTL DEF Spec

\* Every cell of an object in use always has a free place of its own.
THEOREM RoomInvariant == Spec => []AlwaysRoom
<1>1. Inv => AlwaysRoom
  BY DEF Inv
<1>2. QED
  BY <1>1, InitInv, NextInv, PTL DEF Spec

\* No operation leaves a cell with an element that was never stored.
THEOREM WrittenInvariant == Spec => []AlwaysWritten
<1>1. Inv => AlwaysWritten
  BY DEF Inv
<1>2. QED
  BY <1>1, InitInv, NextInv, PTL DEF Spec

(***************************************************************************)
(* Mem_fast implements the vector of vectors.                              *)
(***************************************************************************)

LEMMA ContentsSeqs ==
    ASSUME NEW m, GoodObject(m)
    PROVE  /\ Contents(m) = [c \in Cells(m) |-> Contents(m)[c]]
           /\ \A c \in Cells(m) :
                /\ m.cl_n[c] \in Nat
                /\ Contents(m)[c] = [k \in 1 .. m.cl_n[c] |-> Get(m, c, k - 1)]
                /\ Contents(m)[c] \in Seq(Ele)
                /\ Len(Contents(m)[c]) = m.cl_n[c]
<1>1. /\ m.cl_n \in [Cells(m) -> Nat]
      /\ \A c \in Cells(m) : \A j \in 0 .. m.cl_n[c] - 1 : Get(m, c, j) \in Ele
  BY DEF GoodObject, ObjectOK, WrittenOK
<1>2. Contents(m) = [c \in Cells(m) |-> [k \in 1 .. m.cl_n[c] |-> Get(m, c, k - 1)]]
  BY DEF Contents, GetNElements
<1>3. ASSUME NEW c \in Cells(m)
      PROVE  /\ m.cl_n[c] \in Nat
             /\ Contents(m)[c] = [k \in 1 .. m.cl_n[c] |-> Get(m, c, k - 1)]
             /\ Contents(m)[c] \in Seq(Ele)
             /\ Len(Contents(m)[c]) = m.cl_n[c]
  <2>1. m.cl_n[c] \in Nat
    BY <1>1
  <2>2. \A k \in 1 .. m.cl_n[c] : Get(m, c, k - 1) \in Ele
    <3> SUFFICES ASSUME NEW k \in 1 .. m.cl_n[c] PROVE Get(m, c, k - 1) \in Ele
      OBVIOUS
    <3>1. k - 1 \in 0 .. m.cl_n[c] - 1
      BY <2>1
    <3>2. QED
      BY <1>1, <3>1
  <2>3. [k \in 1 .. m.cl_n[c] |-> Get(m, c, k - 1)] \in Seq(Ele)
    BY <2>1, <2>2
  <2>4. QED
    BY <1>2, <2>1, <2>3
<1>4. QED
  BY <1>2, <1>3

\* addCell appends to one cell's sequence.
LEMMA AddCellContents ==
    ASSUME NEW m, GoodObject(m), NEW cell \in Cells(m), NEW ele \in Ele
    PROVE  Contents(Stored(IF NeedsRealloc(m, cell) THEN Realloc(m) ELSE m, cell, ele))
             = [Contents(m) EXCEPT ![cell] = Append(@, ele)]
<1> DEFINE n == Stored(IF NeedsRealloc(m, cell) THEN Realloc(m) ELSE m, cell, ele)
<1>1. /\ GoodObject(n) /\ n.cells = m.cells
      /\ n.cl_n = [m.cl_n EXCEPT ![cell] = @ + 1]
      /\ \A c \in Cells(m) : \A j \in 0 .. n.cl_n[c] - 1 :
            Get(n, c, j) = IF c = cell /\ j = m.cl_n[cell] THEN ele ELSE Get(m, c, j)
  BY AddCellGood
<1>2. Cells(n) = Cells(m)
  BY <1>1 DEF Cells
<1>3. m.cl_n \in [Cells(m) -> Nat]
  BY DEF GoodObject, ObjectOK
<1>4. ASSUME NEW c \in Cells(m)
      PROVE  Contents(n)[c] = IF c = cell THEN Append(Contents(m)[c], ele) ELSE Contents(m)[c]
  <2>1. /\ Contents(n)[c] = [k \in 1 .. n.cl_n[c] |-> Get(n, c, k - 1)]
        /\ Contents(m)[c] = [k \in 1 .. m.cl_n[c] |-> Get(m, c, k - 1)]
        /\ Contents(m)[c] \in Seq(Ele) /\ Len(Contents(m)[c]) = m.cl_n[c]
    BY <1>1, <1>2, ContentsSeqs
  <2>2. CASE c = cell
    <3>1. n.cl_n[c] = m.cl_n[c] + 1 /\ m.cl_n[c] \in Nat
      BY <1>1, <1>3, <2>2
    <3>2. \A k \in 1 .. m.cl_n[c] + 1 :
             Get(n, c, k - 1) = IF k = m.cl_n[c] + 1 THEN ele ELSE Get(m, c, k - 1)
      BY <1>1, <2>2, <3>1
    <3>3. Append(Contents(m)[c], ele) =
            [k \in 1 .. m.cl_n[c] + 1 |->
               IF k = m.cl_n[c] + 1 THEN ele ELSE Contents(m)[c][k]]
      BY <2>1, <3>1
    <3>4. \A k \in 1 .. m.cl_n[c] : Contents(m)[c][k] = Get(m, c, k - 1)
      BY <2>1
    <3>5. Append(Contents(m)[c], ele) = [k \in 1 .. m.cl_n[c] + 1 |-> Get(n, c, k - 1)]
      BY <3>1, <3>2, <3>3, <3>4
    <3>6. QED
      BY <2>1, <2>2, <3>1, <3>5
  <2>3. CASE c # cell
    <3>1. n.cl_n[c] = m.cl_n[c] /\ m.cl_n[c] \in Nat
      BY <1>1, <1>3, <2>3
    <3>2. \A k \in 1 .. m.cl_n[c] : Get(n, c, k - 1) = Get(m, c, k - 1)
      BY <1>1, <2>3, <3>1
    <3>3. QED
      BY <2>1, <2>3, <3>1, <3>2
  <2>4. QED
    BY <2>2, <2>3
<1>5. Contents(n) = [c \in Cells(m) |-> Contents(n)[c]]
  BY <1>1, <1>2, ContentsSeqs
<1>6. Contents(m) = [c \in Cells(m) |-> Contents(m)[c]]
  BY ContentsSeqs
<1>7. QED
  BY <1>4, <1>5, <1>6

\* remove drops the last element of one cell's sequence.
LEMMA RemoveContents ==
    ASSUME NEW m, GoodObject(m), NEW cell \in Cells(m), m.cl_n[cell] > 0
    PROVE  Contents([m EXCEPT !.cl_n[cell] = @ - 1])
             = [Contents(m) EXCEPT ![cell] = Store!Without(@, m.cl_n[cell])]
<1> DEFINE n == [m EXCEPT !.cl_n[cell] = @ - 1]
<1>1. /\ GoodObject(n) /\ n.cells = m.cells
      /\ n.cl_n = [m.cl_n EXCEPT ![cell] = @ - 1]
      /\ \A c \in Cells(m) : \A j \in 0 .. n.cl_n[c] - 1 : Get(n, c, j) = Get(m, c, j)
  BY RemoveGood
<1> HIDE DEF n
<1>2. Cells(n) = Cells(m)
  BY <1>1 DEF Cells
<1>3. m.cl_n \in [Cells(m) -> Nat]
  BY DEF GoodObject, ObjectOK
<1>4. ASSUME NEW c \in Cells(m)
      PROVE  Contents(n)[c] = IF c = cell THEN Store!Without(Contents(m)[c], m.cl_n[cell])
                                          ELSE Contents(m)[c]
  <2>1. /\ Contents(n)[c] = [k \in 1 .. n.cl_n[c] |-> Get(n, c, k - 1)]
        /\ Contents(m)[c] = [k \in 1 .. m.cl_n[c] |-> Get(m, c, k - 1)]
        /\ Contents(m)[c] \in Seq(Ele) /\ Len(Contents(m)[c]) = m.cl_n[c]
    <3>0. GoodObject(n) /\ c \in Cells(n)
      BY <1>1, <1>2
    <3>1. Contents(n)[c] = [k \in 1 .. n.cl_n[c] |-> Get(n, c, k - 1)]
      BY <3>0, ContentsSeqs
    <3>2. QED
      BY <3>1, ContentsSeqs
  <2>2. n.cl_n[c] = IF c = cell THEN m.cl_n[c] - 1 ELSE m.cl_n[c]
    BY <1>1, <1>3
  <2>3. m.cl_n[c] \in Nat /\ n.cl_n[c] \in Nat
    BY <1>3, <2>2
  <2>4. \A k \in 1 .. n.cl_n[c] : Get(n, c, k - 1) = Get(m, c, k - 1)
    BY <1>1, <2>3
  <2>5. CASE c = cell
    <3> DEFINE s == Contents(m)[c]
    <3>1. Store!Without(s, m.cl_n[c]) =
            [k \in 1 .. m.cl_n[c] - 1 |-> IF k < m.cl_n[c] THEN s[k] ELSE s[k + 1]]
      BY <2>1 DEF Store!Without
    <3>2. \A k \in 1 .. m.cl_n[c] - 1 : k < m.cl_n[c] /\ s[k] = Get(n, c, k - 1)
      BY <2>1, <2>2, <2>3, <2>4, <2>5
    <3>3. Store!Without(s, m.cl_n[c]) = [k \in 1 .. m.cl_n[c] - 1 |-> Get(n, c, k - 1)]
      BY <3>1, <3>2
    <3>4. QED
      BY <2>1, <2>2, <2>5, <3>3
  <2>6. CASE c # cell
    BY <2>1, <2>2, <2>3, <2>4, <2>6
  <2>7. QED
    BY <2>5, <2>6
<1>5. Contents(n) = [c \in Cells(m) |-> Contents(n)[c]]
  BY <1>1, <1>2, ContentsSeqs
<1>6. Contents(m) = [c \in Cells(m) |-> Contents(m)[c]]
  BY ContentsSeqs
<1>7. QED
  BY <1>4, <1>5, <1>6 DEF n

\* The view of an object changes only if the object does.
LEMMA ViewExcept ==
    ASSUME NEW o \in Obj, NEW v,
           \A q \in Obj \ {o} : StoreView'[q] = StoreView[q],
           StoreView'[o] = v
    PROVE  StoreView' = [StoreView EXCEPT ![o] = v]
BY DEF StoreView

LEMMA ContentsEmpty ==
    ASSUME NEW m, GoodObject(m), m.cl_n = [c \in Cells(m) |-> 0]
    PROVE  Contents(m) = Store!EmptyStore(m.cells)
<1>1. \A c \in Cells(m) : Contents(m)[c] = <<>>
  <2> SUFFICES ASSUME NEW c \in Cells(m) PROVE Contents(m)[c] = <<>>
    OBVIOUS
  <2>1. Contents(m)[c] \in Seq(Ele) /\ Len(Contents(m)[c]) = m.cl_n[c]
    BY ContentsSeqs
  <2>2. m.cl_n[c] = 0
    OBVIOUS
  <2>3. QED
    BY <2>1, <2>2
<1>2. Contents(m) = [c \in Cells(m) |-> <<>>]
  BY <1>1, ContentsSeqs
<1>3. QED
  BY <1>2 DEF Store!EmptyStore, Cells

LEMMA InitRefines == Init => Store!Init
<1> SUFFICES ASSUME Init PROVE Store!Init
  OBVIOUS
<1>1. \A o \in Obj : Contents(mem[o]) = Store!EmptyStore(0)
  BY DEF Init, Constructed, Contents, Cells, Store!EmptyStore
<1>2. QED
  BY <1>1 DEF Init, StoreView, Store!Init

LEMMA NextRefines == Inv /\ Inv' /\ [Next]_vars => [Store!Next]_(Store!vars)
<1> SUFFICES ASSUME Inv, Inv', [Next]_vars PROVE [Store!Next]_(Store!vars)
  OBVIOUS
<1> DEFINE Goal == Store!Next
<1>1. /\ DOMAIN mem = Obj /\ loose \subseteq Obj
      /\ \A o \in Obj : ObjectOK(mem[o])
      /\ \A o \in Obj \ loose : GoodObject(mem[o])
  BY InvObjects
<1>2. /\ DOMAIN StoreView = Obj
      /\ \A o \in Obj : StoreView[o] = IF o \in loose THEN [c \in {} |-> <<>>]
                                                     ELSE Contents(mem[o])
      /\ DOMAIN StoreView' = Obj
      /\ \A o \in Obj : StoreView'[o] = IF o \in loose' THEN [c \in {} |-> <<>>]
                                                       ELSE Contents(mem'[o])
  BY DEF StoreView
<1>3. [c \in {} |-> <<>>] = Store!EmptyStore(0)
  BY DEF Store!EmptyStore
<1>4. ASSUME NEW o \in Obj, NEW slot \in Slots, NEW n \in Sizes, InitToZero(o, slot, n)
      PROVE  Goal
  <2> DEFINE z == [slot |-> slot, cells |-> n, cl_n |-> [c \in 0 .. n - 1 |-> 0],
                   size |-> n * slot,
                   cl_base |-> Resize(mem[o].cl_base, mem[o].size, n * slot)]
  <2>1. mem' = [mem EXCEPT ![o] = z] /\ loose' = loose \ {o}
    BY <1>4 DEF InitToZero
  <2>2. GoodObject(z)
    BY <1>1, InitToZeroGood
  <2>3. Contents(z) = Store!EmptyStore(n)
    BY <2>2, ContentsEmpty DEF Cells
  <2>4. StoreView' = [StoreView EXCEPT ![o] = Store!EmptyStore(n)]
    <3> HIDE DEF z
    <3>1. StoreView'[o] = Store!EmptyStore(n)
      BY <1>1, <1>2, <2>1, <2>3
    <3>2. \A q \in Obj \ {o} : StoreView'[q] = StoreView[q]
      BY <1>1, <1>2, <2>1
    <3>3. QED
      BY <3>1, <3>2, ViewExcept
  <2>5. Obj \ loose' = (Obj \ loose) \union {o}
    BY <2>1
  <2>6. Store!InitToZero(o, n)
    BY <2>4, <2>5 DEF Store!InitToZero
  <2>7. QED
    BY <2>6 DEF Store!Next
<1>5. ASSUME NEW o \in Obj, NEW cell \in Cells(mem[o]), NEW ele \in Ele, AddCell(o, cell, ele)
      PROVE  Goal
  <2> DEFINE n == Stored(IF NeedsRealloc(mem[o], cell) THEN Realloc(mem[o]) ELSE mem[o],
                         cell, ele)
  <2>1. mem' = [mem EXCEPT ![o] = n] /\ loose' = loose /\ o \notin loose
    BY <1>5 DEF AddCell
  <2>2. GoodObject(mem[o])
    BY <1>1, <2>1
  <2>3. Contents(n) = [Contents(mem[o]) EXCEPT ![cell] = Append(@, ele)]
    BY <2>2, AddCellContents
  <2>4. StoreView' = [StoreView EXCEPT ![o][cell] = Append(@, ele)]
    <3> HIDE DEF n
    <3>1. StoreView'[o] = [Contents(mem[o]) EXCEPT ![cell] = Append(@, ele)]
      BY <1>1, <1>2, <2>1, <2>3
    <3>2. \A q \in Obj \ {o} : StoreView'[q] = StoreView[q]
      BY <1>1, <1>2, <2>1
    <3>3. StoreView[o] = Contents(mem[o])
      BY <1>2, <2>1
    <3>4. StoreView' = [StoreView EXCEPT ![o] = [Contents(mem[o]) EXCEPT ![cell] = Append(@, ele)]]
      BY <3>1, <3>2, ViewExcept
    <3>5. QED
      BY <1>2, <3>3, <3>4
  <2>5. Store!Add(o, cell, ele)
    BY <2>1, <2>4 DEF Store!Add
  <2>6. cell \in DOMAIN StoreView[o]
    BY <1>2, <2>1, <2>2, ContentsSeqs
  <2>7. QED
    BY <2>5, <2>6 DEF Store!Next
<1>6. ASSUME NEW o \in Obj, NEW cell \in Cells(mem[o]),
             NEW ele \in 0 .. GetNElements(mem[o], cell) - 1, Remove(o, cell, ele)
      PROVE  Goal
  <2> DEFINE n == [mem[o] EXCEPT !.cl_n[cell] = @ - 1]
             k == mem[o].cl_n[cell]
  <2>1. mem' = [mem EXCEPT ![o] = n] /\ loose' = loose /\ o \notin loose
    BY <1>6 DEF Remove
  <2>2. GoodObject(mem[o]) /\ k > 0 /\ k \in Nat
    BY <1>1, <2>1 DEF GetNElements, ObjectOK
  <2>3. Contents(n) = [Contents(mem[o]) EXCEPT ![cell] = Store!Without(@, k)]
    BY <2>2, RemoveContents
  <2>4. StoreView' = [StoreView EXCEPT ![o][cell] = Store!Without(@, k)]
    <3> HIDE DEF n, k
    <3>1. StoreView'[o] = [Contents(mem[o]) EXCEPT ![cell] = Store!Without(@, k)]
      BY <1>1, <1>2, <2>1, <2>3
    <3>2. \A q \in Obj \ {o} : StoreView'[q] = StoreView[q]
      BY <1>1, <1>2, <2>1
    <3>3. StoreView[o] = Contents(mem[o])
      BY <1>2, <2>1
    <3>4. StoreView' = [StoreView EXCEPT ![o] = [Contents(mem[o]) EXCEPT ![cell] = Store!Without(@, k)]]
      BY <3>1, <3>2, ViewExcept
    <3>5. QED
      BY <1>2, <3>3, <3>4
  <2>5. k \in DOMAIN StoreView[o][cell] /\ cell \in DOMAIN StoreView[o]
    <3>1. StoreView[o] = Contents(mem[o])
      BY <1>2, <2>1
    <3>2. cell \in DOMAIN Contents(mem[o])
      BY <2>2, ContentsSeqs
    <3>3. Contents(mem[o])[cell] \in Seq(Ele) /\ Len(Contents(mem[o])[cell]) = k
      BY <2>2, ContentsSeqs
    <3>4. k \in 1 .. k
      BY <2>2
    <3>5. QED
      BY <3>1, <3>2, <3>3, <3>4
  <2>6. Store!Remove(o, cell)
    BY <2>1, <2>4, <2>5 DEF Store!Remove
  <2>7. QED
    BY <2>5, <2>6 DEF Store!Next
<1>7. ASSUME NEW o \in Obj, Clear(o)
      PROVE  Goal
  <2> DEFINE z == [mem[o] EXCEPT !.cl_n = [c \in Cells(mem[o]) |-> 0]]
  <2>1. mem' = [mem EXCEPT ![o] = z] /\ loose' = loose /\ o \notin loose
    BY <1>7 DEF Clear
  <2>2. GoodObject(mem[o])
    BY <1>1, <2>1
  <2>3. GoodObject(z) /\ z.cells = mem[o].cells /\ z.cl_n = [c \in Cells(mem[o]) |-> 0]
    BY <2>2, ClearGood
  <2>4. Contents(z) = Store!EmptyStore(mem[o].cells)
    BY <2>3, ContentsEmpty DEF Cells
  <2>5. Store!EmptyStore(mem[o].cells) = [c \in DOMAIN Contents(mem[o]) |-> <<>>]
    BY <2>2, ContentsSeqs DEF Store!EmptyStore, Cells
  <2>6. StoreView' = [StoreView EXCEPT ![o] = [c \in DOMAIN @ |-> <<>>]]
    <3> HIDE DEF z
    <3>1. StoreView'[o] = [c \in DOMAIN Contents(mem[o]) |-> <<>>]
      BY <1>1, <1>2, <2>1, <2>4, <2>5
    <3>2. \A q \in Obj \ {o} : StoreView'[q] = StoreView[q]
      BY <1>1, <1>2, <2>1
    <3>3. StoreView[o] = Contents(mem[o])
      BY <1>2, <2>1
    <3>4. StoreView' = [StoreView EXCEPT ![o] = [c \in DOMAIN Contents(mem[o]) |-> <<>>]]
      BY <3>1, <3>2, ViewExcept
    <3>5. QED
      BY <1>2, <3>3, <3>4
  <2>7. Store!Clear(o)
    BY <2>1, <2>6 DEF Store!Clear
  <2>8. QED
    BY <2>7 DEF Store!Next
<1>8. ASSUME NEW o \in Obj, NEW p \in Obj, Copy(o, p)
      PROVE  Goal
  <2>1. mem' = [mem EXCEPT ![o] = mem[p]] /\ loose' = LooseAfter(o, p)
    BY <1>8 DEF Copy
  <2>2. /\ o \in loose' <=> p \in loose
        /\ \A q \in Obj \ {o} : q \in loose' <=> q \in loose
    BY <2>1 DEF LooseAfter
  <2>3. StoreView' = [StoreView EXCEPT ![o] = StoreView[p]]
    <3>1. StoreView'[o] = StoreView[p]
      BY <1>1, <1>2, <2>1, <2>2
    <3>2. \A q \in Obj \ {o} : StoreView'[q] = StoreView[q]
      BY <1>1, <1>2, <2>1, <2>2
    <3>3. QED
      BY <3>1, <3>2, ViewExcept
  <2>4. Obj \ loose' = Store!KnownAs(o, p)
    BY <2>1, <2>2 DEF LooseAfter, Store!KnownAs
  <2>5. Store!Copy(o, p)
    BY <2>3, <2>4 DEF Store!Copy
  <2>6. QED
    BY <2>5 DEF Store!Next
<1>9. ASSUME NEW o \in Obj, NEW p \in Obj, Swap(o, p)
      PROVE  Goal
  <2>1. /\ mem' = [mem EXCEPT ![o] = mem[p], ![p] = mem[o]]
        /\ \A q \in Obj : q \in loose' <=> IF q = o THEN p \in loose
                                           ELSE IF q = p THEN o \in loose
                                           ELSE q \in loose
    BY <1>9 DEF Swap
  <2>2. \A q \in Obj : StoreView'[q] = IF q = o THEN StoreView[p]
                                        ELSE IF q = p THEN StoreView[o]
                                        ELSE StoreView[q]
    BY <1>1, <1>2, <2>1
  <2>3. StoreView' = [StoreView EXCEPT ![o] = StoreView[p], ![p] = StoreView[o]]
    <3>1. StoreView' = [q \in Obj |-> StoreView'[q]]
      BY DEF StoreView
    <3>2. QED
      BY <1>2, <2>2, <3>1
  <2>4. Obj \ loose' = ((Obj \ loose) \ {o, p})
                         \union {q \in {o} : p \in Obj \ loose}
                         \union {q \in {p} : o \in Obj \ loose}
    BY <2>1
  <2>5. Store!Swap(o, p)
    BY <2>3, <2>4 DEF Store!Swap
  <2>6. QED
    BY <2>5 DEF Store!Next
<1>10. ASSUME NEW o \in Obj, NEW p \in Obj, SwapRvalue(o, p)
       PROVE  Goal
  <2>1. /\ o # p
        /\ mem' = [mem EXCEPT ![o] = mem[p], ![p] = [mem[o] EXCEPT !.slot = mem[p].slot]]
        /\ p \in loose'
        /\ o \in loose' <=> p \in loose
        /\ \A q \in Obj \ {o, p} : q \in loose' <=> q \in loose
    BY <1>10 DEF SwapRvalue, LooseAfter
  <2>2. \A q \in Obj : StoreView'[q] = IF q = o THEN StoreView[p]
                                        ELSE IF q = p THEN Store!EmptyStore(0)
                                        ELSE StoreView[q]
    BY <1>1, <1>2, <1>3, <2>1
  <2>3. StoreView' = [StoreView EXCEPT ![o] = StoreView[p], ![p] = Store!EmptyStore(0)]
    <3>1. StoreView' = [q \in Obj |-> StoreView'[q]]
      BY DEF StoreView
    <3>2. QED
      BY <1>2, <2>1, <2>2, <3>1
  <2>4. Obj \ loose' = Store!KnownAs(o, p) \ {p}
    BY <2>1 DEF Store!KnownAs
  <2>5. Store!Take(o, p)
    BY <2>1, <2>3, <2>4 DEF Store!Take
  <2>6. QED
    BY <2>5 DEF Store!Next
<1>11. ASSUME NEW o \in Obj, NEW slot \in Slots, SetSlot(o, slot)
       PROVE  Goal
  <2>1. mem' = [mem EXCEPT ![o].slot = slot] /\ loose' = loose \union {o}
    BY <1>11 DEF SetSlot
  <2>2. StoreView' = [StoreView EXCEPT ![o] = Store!EmptyStore(0)]
    <3>1. StoreView'[o] = Store!EmptyStore(0)
      BY <1>2, <1>3, <2>1
    <3>2. \A q \in Obj \ {o} : StoreView'[q] = StoreView[q]
      BY <1>1, <1>2, <2>1
    <3>3. QED
      BY <3>1, <3>2, ViewExcept
  <2>3. Store!Forget(o)
    BY <2>1, <2>2 DEF Store!Forget
  <2>4. QED
    BY <2>3 DEF Store!Next
<1>12. CASE UNCHANGED vars
  BY <1>12 DEF vars, Store!vars, StoreView
<1>13. QED
  BY <1>4, <1>5, <1>6, <1>7, <1>8, <1>9, <1>10, <1>11, <1>12 DEF Next

\* Growing, sharing one slot number and exchanging the arrays never show:
\* Mem_fast is the vector of vectors.
THEOREM Refinement == Spec => ImplementsStore
<1>1. Init => Store!Init
  BY InitRefines
<1>2. Inv /\ Inv' /\ [Next]_vars => [Store!Next]_(Store!vars)
  BY NextRefines
<1>3. QED
  BY <1>1, <1>2, InitInv, NextInv, PTL DEF Spec, ImplementsStore, Store!Spec

-----------------------------------------------------------------------------
(***************************************************************************)
(* Mem_bal: a vector for each cell.                                        *)
(***************************************************************************)

\* Both libraries' removal from a sequence is the one of CellStore.
LEMMA WithoutIs ==
  ASSUME NEW S, NEW s \in Seq(S), NEW k \in 1 .. Len(s)
  PROVE  /\ Mw!Seqs!RemoveAt(s, k) \in Seq(S)
         /\ Mw!Seqs!RemoveAt(s, k) = Bal!Store!Without(s, k)
         /\ Bal!Seqs!RemoveAt(s, k) = Bal!Store!Without(s, k)
         /\ Mw!Store!Without(s, k) = Bal!Store!Without(s, k)
<1> DEFINE a == SubSeq(s, 1, k - 1)
           b == SubSeq(s, k + 1, Len(s))
<1>1. /\ a \in Seq(S) /\ Len(a) = k - 1 /\ \A i \in 1 .. k - 1 : a[i] = s[i]
  OBVIOUS
<1>2. /\ b \in Seq(S) /\ Len(b) = Len(s) - k /\ \A i \in 1 .. Len(s) - k : b[i] = s[i + k]
  OBVIOUS
<1> HIDE DEF a, b
<1>3. /\ a \o b \in Seq(S) /\ Len(a \o b) = Len(s) - 1
      /\ \A i \in 1 .. Len(s) - 1 : (a \o b)[i] = IF i < k THEN s[i] ELSE s[i + 1]
  <2>1. a \o b \in Seq(S) /\ Len(a \o b) = Len(s) - 1
    <3>1. a \o b \in Seq(S) /\ Len(a \o b) = Len(a) + Len(b)
      BY <1>1, <1>2, ConcatProperties, Zenon
    <3>2. Len(s) \in Nat /\ k \in Int
      OBVIOUS
    <3>3. QED
      BY <1>1, <1>2, <3>1, <3>2
  <2>2. \A i \in 1 .. Len(s) - 1 : (a \o b)[i] = IF i < k THEN a[i] ELSE b[i - (k - 1)]
    <3>1. \A i \in 1 .. Len(a) + Len(b) :
             (a \o b)[i] = IF i <= Len(a) THEN a[i] ELSE b[i - Len(a)]
      BY <1>1, <1>2, ConcatProperties, Zenon
    <3>2. Len(a) + Len(b) = Len(s) - 1 /\ Len(a) = k - 1
      BY <1>1, <1>2
    <3>3. \A i \in 1 .. Len(s) - 1 : (i <= k - 1) <=> (i < k)
      OBVIOUS
    <3>4. \A i \in 1 .. Len(s) - 1 :
             (a \o b)[i] = IF i <= k - 1 THEN a[i] ELSE b[i - (k - 1)]
      BY <3>1, <3>2, Zenon
    <3>5. QED
      BY <3>3, <3>4, Zenon
  <2>3. \A i \in 1 .. Len(s) - 1 : i >= k =>
           i - (k - 1) \in 1 .. Len(s) - k /\ (i - (k - 1)) + k = i + 1
    OBVIOUS
  <2>4. QED
    BY <1>1, <1>2, <2>1, <2>2, <2>3
<1>4. a \o b = [i \in 1 .. Len(s) - 1 |-> IF i < k THEN s[i] ELSE s[i + 1]]
  <2> DEFINE x == a \o b
  <2>1. DOMAIN x = 1 .. Len(x) /\ Len(x) = Len(s) - 1 /\ x \in Seq(S)
    BY <1>3
  <2> HIDE DEF x
  <2>2. x = [i \in 1 .. Len(s) - 1 |-> x[i]]
    BY <2>1
  <2>3. QED
    BY <1>3, <2>2, Zenon DEF x
<1>5. /\ Mw!Seqs!RemoveAt(s, k) = a \o b
      /\ Bal!Seqs!RemoveAt(s, k) = a \o b
  BY DEF a, b, Mw!Seqs!RemoveAt, Bal!Seqs!RemoveAt
<1>6. QED
  BY <1>3, <1>4, <1>5 DEF Mw!Store!Without, Bal!Store!Without

\* The vectors of a Mem_bal object.
Vectors == Seq(Seq(Ele))
BalTyped == bal_base \in [Obj -> Vectors]

\* What is seen of the objects.
BalView == [o \in Obj |-> Bal!Contents(bal_base[o])]

LEMMA BalInit == Bal!Init => BalTyped /\ Bal!Store!Init
BY DEF Bal!Init, Bal!Store!Init, Bal!Contents, Bal!Store!EmptyStore, BalTyped, Vectors

\* What is seen when one vector of an object is replaced.
LEMMA BalContents ==
  ASSUME NEW S, NEW t \in Seq(S), NEW c \in 0 .. Len(t) - 1, NEW w
  PROVE  Bal!Contents([t EXCEPT ![c + 1] = w]) = [Bal!Contents(t) EXCEPT ![c] = w]
<1> DEFINE s == [t EXCEPT ![c + 1] = w]
<1>1. Len(s) = Len(t) /\ c + 1 \in 1 .. Len(t) /\ Len(t) \in Nat
  OBVIOUS
<1>2. \A d \in 0 .. Len(t) - 1 : s[d + 1] = IF d = c THEN w ELSE t[d + 1]
  BY <1>1
<1> HIDE DEF s
<1>3. Bal!Contents(s) = [d \in 0 .. Len(t) - 1 |-> s[d + 1]]
  BY <1>1 DEF Bal!Contents
<1>4. Bal!Contents(t) = [d \in 0 .. Len(t) - 1 |-> t[d + 1]]
  BY DEF Bal!Contents
<1>5. Bal!Contents(s) = [Bal!Contents(t) EXCEPT ![c] = w]
  BY <1>2, <1>3, <1>4
<1>6. QED
  BY <1>5 DEF s

\* A step replaces the vectors of one object.
LEMMA BalOne ==
  ASSUME BalTyped, NEW o \in Obj, NEW s \in Vectors,
         bal_base' = [bal_base EXCEPT ![o] = s]
  PROVE  BalTyped' /\ BalView' = [BalView EXCEPT ![o] = Bal!Contents(s)]
BY DEF BalTyped, BalView

LEMMA BalInitToZero ==
  ASSUME BalTyped, NEW o \in Obj, NEW n \in Sizes \union {1}, Bal!InitToZero(o, n)
  PROVE  BalTyped' /\ Bal!Store!InitToZero(o, n)
<1> DEFINE s == [i \in 1 .. n |-> <<>>]
<1>1. n \in Nat
  BY SizesAssumption
<1>2. s \in Vectors /\ bal_base' = [bal_base EXCEPT ![o] = s]
  BY <1>1 DEF Bal!InitToZero, Bal!Cleared, Bal!Resized, BalTyped, Vectors
<1>3. Bal!Contents(s) = [c \in 0 .. n - 1 |-> <<>>]
  BY <1>1 DEF Bal!Contents
<1> HIDE DEF s
<1>4. QED
  BY <1>2, <1>3, BalOne DEF BalView, Bal!Store!InitToZero, Bal!Store!EmptyStore

LEMMA BalAdd ==
  ASSUME BalTyped, NEW o \in Obj, NEW c \in Bal!Cells(o), NEW e \in Ele, Bal!AddCell(o, c, e)
  PROVE  BalTyped' /\ c \in DOMAIN BalView[o] /\ Bal!Store!Add(o, c, e)
<1> DEFINE t == bal_base[o]
           w == Append(t[c + 1], e)
           s == [t EXCEPT ![c + 1] = w]
<1>1. /\ t \in Vectors /\ c + 1 \in 1 .. Len(t) /\ c \in 0 .. Len(t) - 1
      /\ t[c + 1] \in Seq(Ele)
  BY DEF BalTyped, Bal!Cells, Vectors
<1>2. bal_base' = [bal_base EXCEPT ![o] = s]
  BY DEF Bal!AddCell, BalTyped
<1> HIDE DEF t
<1>3. w \in Seq(Ele)
  BY <1>1
<1> HIDE DEF w
<1>4. s \in Vectors
  BY <1>1, <1>3 DEF Vectors
<1>5. Bal!Contents(s) = [Bal!Contents(t) EXCEPT ![c] = w]
  BY <1>1, BalContents DEF Vectors
<1> HIDE DEF s
<1>6. BalTyped' /\ BalView' = [BalView EXCEPT ![o] = [Bal!Contents(t) EXCEPT ![c] = w]]
  BY <1>2, <1>4, <1>5, BalOne
<1>7. /\ BalView[o] = Bal!Contents(t) /\ DOMAIN Bal!Contents(t) = 0 .. Len(t) - 1
      /\ Bal!Contents(t)[c] = t[c + 1]
  BY <1>1 DEF BalView, t, Bal!Contents
<1>8. BalView' = [BalView EXCEPT ![o][c] = Append(@, e)]
  BY <1>6, <1>7 DEF w, BalView
<1>9. QED
  BY <1>1, <1>6, <1>7, <1>8 DEF BalView, Bal!Store!Add

LEMMA BalRemove ==
  ASSUME BalTyped, NEW o \in Obj, NEW c \in Bal!Cells(o), NEW k \in 0 .. Bal!GetNelements(o, c) - 1,
         Bal!Remove(o, c, k)
  PROVE  BalTyped' /\ c \in DOMAIN BalView[o] /\ Bal!Store!Remove(o, c)
<1> DEFINE t == bal_base[o]
           w == Bal!Store!Without(t[c + 1], k + 1)
           s == [t EXCEPT ![c + 1] = w]
<1>1. /\ t \in Vectors /\ c + 1 \in 1 .. Len(t) /\ c \in 0 .. Len(t) - 1
      /\ t[c + 1] \in Seq(Ele) /\ k + 1 \in 1 .. Len(t[c + 1])
  BY DEF BalTyped, Bal!Cells, Bal!GetNelements, Vectors
<1>2. /\ bal_base' = [bal_base EXCEPT ![o] = [t EXCEPT ![c + 1] = Bal!Seqs!RemoveAt(t[c + 1], k + 1)]]
  BY DEF Bal!Remove, BalTyped
<1> HIDE DEF t
<1>3. w \in Seq(Ele) /\ Bal!Seqs!RemoveAt(t[c + 1], k + 1) = w
  BY <1>1, WithoutIs
<1> HIDE DEF w
<1>4. s \in Vectors
  BY <1>1, <1>3 DEF Vectors
<1>5. Bal!Contents(s) = [Bal!Contents(t) EXCEPT ![c] = w]
  BY <1>1, BalContents DEF Vectors
<1>6. bal_base' = [bal_base EXCEPT ![o] = s]
  BY <1>2, <1>3
<1> HIDE DEF s
<1>7. BalTyped' /\ BalView' = [BalView EXCEPT ![o] = [Bal!Contents(t) EXCEPT ![c] = w]]
  BY <1>4, <1>5, <1>6, BalOne
<1>8. /\ BalView[o] = Bal!Contents(t) /\ DOMAIN Bal!Contents(t) = 0 .. Len(t) - 1
      /\ Bal!Contents(t)[c] = t[c + 1]
  BY <1>1 DEF BalView, t, Bal!Contents
<1>9. BalView' = [BalView EXCEPT ![o][c] = Bal!Store!Without(@, k + 1)]
  BY <1>7, <1>8 DEF w, BalView
<1>10. k + 1 \in DOMAIN BalView[o][c]
  BY <1>1, <1>8
<1>11. QED
  BY <1>1, <1>7, <1>8, <1>9, <1>10 DEF BalView, Bal!Store!Remove

LEMMA BalClear ==
  ASSUME BalTyped, NEW o \in Obj, Bal!Clear(o)
  PROVE  BalTyped' /\ Bal!Store!Clear(o)
<1> DEFINE t == bal_base[o]
           s == [i \in DOMAIN t |-> <<>>]
<1>1. t \in Vectors /\ DOMAIN t = 1 .. Len(t) /\ Len(t) \in Nat
  BY DEF BalTyped, Vectors
<1>2. bal_base' = [bal_base EXCEPT ![o] = s]
  BY DEF Bal!Clear, Bal!Cleared, BalTyped
<1> HIDE DEF t
<1>3. s \in Vectors /\ Len(s) = Len(t)
  BY <1>1 DEF Vectors
<1>4. Bal!Contents(s) = [c \in 0 .. Len(t) - 1 |-> <<>>]
  BY <1>1, <1>3 DEF Bal!Contents
<1> HIDE DEF s
<1>5. BalView[o] = Bal!Contents(t) /\ DOMAIN Bal!Contents(t) = 0 .. Len(t) - 1
  BY DEF BalView, t, Bal!Contents
<1>6. BalTyped' /\ BalView' = [BalView EXCEPT ![o] = [c \in DOMAIN @ |-> <<>>]]
  BY <1>2, <1>3, <1>4, <1>5, BalOne, ZenonT(60) DEF BalView
<1>7. QED
  BY <1>6 DEF BalView, Bal!Store!Clear

LEMMA BalCopy ==
  ASSUME BalTyped, NEW o \in Obj, NEW p \in Obj, Bal!Copy(o, p)
  PROVE  BalTyped' /\ Bal!Store!Copy(o, p)
BY DEF BalTyped, Bal!Copy, Bal!Store!Copy, Bal!Store!KnownAs

LEMMA BalSwap ==
  ASSUME BalTyped, NEW o \in Obj, NEW p \in Obj, Bal!Swap(o, p)
  PROVE  BalTyped' /\ Bal!Store!Swap(o, p)
BY DEF BalTyped, Bal!Swap, Bal!Store!Swap

LEMMA BalNext ==
  ASSUME BalTyped, [Bal!Next]_(Bal!vars)
  PROVE  BalTyped' /\ [Bal!Store!Next]_(Bal!Store!vars)
<1>1. CASE \E o \in Obj, n \in Sizes \union {1} : Bal!InitToZero(o, n)
  BY <1>1, BalInitToZero DEF Bal!Store!Next
<1>2. CASE \E o \in Obj : \E c \in Bal!Cells(o) : \E e \in Ele : Bal!AddCell(o, c, e)
  BY <1>2, BalAdd DEF Bal!Store!Next, BalView
<1>3. CASE \E o \in Obj : \E c \in Bal!Cells(o) :
             \E k \in 0 .. Bal!GetNelements(o, c) - 1 : Bal!Remove(o, c, k)
  BY <1>3, BalRemove DEF Bal!Store!Next, BalView
<1>4. CASE \E o \in Obj : Bal!Clear(o)
  BY <1>4, BalClear DEF Bal!Store!Next
<1>5. CASE \E o, p \in Obj : Bal!Copy(o, p)
  BY <1>5, BalCopy DEF Bal!Store!Next
<1>6. CASE \E o, p \in Obj : Bal!Swap(o, p)
  BY <1>6, BalSwap DEF Bal!Store!Next
<1>7. CASE UNCHANGED Bal!vars
  BY <1>7 DEF Bal!vars, BalTyped, Bal!Store!vars
<1>8. QED
  BY <1>1, <1>2, <1>3, <1>4, <1>5, <1>6, <1>7 DEF Bal!Next

\* Mem_bal is a store of cells too: no operation shows an element of an earlier
\* use or disturbs another cell or object, for any objects and sizes.
THEOREM BalRefinement == Bal!Spec => BalImplementsStore
<1>1. Bal!Init => BalTyped /\ Bal!Store!Init
  BY BalInit
<1>2. BalTyped /\ [Bal!Next]_(Bal!vars) => BalTyped' /\ [Bal!Store!Next]_(Bal!Store!vars)
  BY BalNext
<1>3. QED
  BY <1>1, <1>2, PTL DEF Bal!Spec, Bal!Store!Spec, BalImplementsStore, Bal!ImplementsStore

-----------------------------------------------------------------------------
(***************************************************************************)
(* Mem_mw: a map from cells to vectors.                                    *)
(***************************************************************************)

\* The map of a Mem_mw object with n cells.
MapOf(b, n) == n \in Nat /\ DOMAIN b \subseteq 0 .. n - 1 /\ \A c \in DOMAIN b : b[c] \in Seq(Ele)
MwTyped ==
  /\ mw_cells = [o \in Obj |-> mw_cells[o]] /\ mw_base = [o \in Obj |-> mw_base[o]]
  /\ \A o \in Obj : MapOf(mw_base[o], mw_cells[o])
MwView == [o \in Obj |-> Mw!Contents(mw_base[o], mw_cells[o])]

LEMMA MwTypes == MwTyped => Mw!TypeOK
<1> SUFFICES ASSUME MwTyped PROVE Mw!TypeOK
  OBVIOUS
<1>1. \A o \in Obj : MapOf(mw_base[o], mw_cells[o])
  BY DEF MwTyped
<1>2. mw_cells \in [Obj -> Nat]
  <2>1. \A o \in Obj : mw_cells[o] \in Nat
    BY <1>1 DEF MapOf
  <2>2. QED
    BY <2>1 DEF MwTyped
<1>3. QED
  BY <1>1, <1>2 DEF Mw!TypeOK, Mw!Cells, MapOf

LEMMA MwInit == Mw!Init => MwTyped /\ Mw!Store!Init
<1> SUFFICES ASSUME Mw!Init PROVE MwTyped /\ Mw!Store!Init
  OBVIOUS
<1>1. \A o \in Obj : mw_cells[o] = 0 /\ mw_base[o] = Mw!NoCell
  BY DEF Mw!Init
<1>2. MapOf(Mw!NoCell, 0) /\ Mw!Contents(Mw!NoCell, 0) = [c \in 0 .. 0 - 1 |-> <<>>]
  BY DEF MapOf, Mw!NoCell, Mw!Contents
<1>3. MwTyped
  BY <1>1, <1>2 DEF MwTyped, Mw!Init
<1>4. QED
  BY <1>1, <1>2, <1>3 DEF Mw!Store!Init, Mw!Store!EmptyStore

LEMMA MwOne ==
  ASSUME MwTyped, NEW o \in Obj, NEW b, NEW n, MapOf(b, n),
         mw_base' = [mw_base EXCEPT ![o] = b], mw_cells' = [mw_cells EXCEPT ![o] = n]
  PROVE  MwTyped' /\ MwView' = [MwView EXCEPT ![o] = Mw!Contents(b, n)]
<1>1. \A p \in Obj : /\ mw_base'[p] = IF p = o THEN b ELSE mw_base[p]
                     /\ mw_cells'[p] = IF p = o THEN n ELSE mw_cells[p]
  BY DEF MwTyped
<1>2. MwTyped'
  <2>1. \A p \in Obj : MapOf(mw_base'[p], mw_cells'[p])
    BY <1>1 DEF MwTyped
  <2>2. mw_cells' = [p \in Obj |-> mw_cells'[p]] /\ mw_base' = [p \in Obj |-> mw_base'[p]]
    BY DEF MwTyped
  <2>3. QED
    BY <2>1, <2>2 DEF MwTyped, MapOf
<1>3. MwView' = [MwView EXCEPT ![o] = Mw!Contents(b, n)]
  <2>1. \A p \in Obj : Mw!Contents(mw_base'[p], mw_cells'[p])
                        = IF p = o THEN Mw!Contents(b, n) ELSE Mw!Contents(mw_base[p], mw_cells[p])
    BY <1>1
  <2>2. MwView' = [p \in Obj |-> Mw!Contents(mw_base'[p], mw_cells'[p])]
    BY DEF MwView, Mw!Contents, Mw!Vector
  <2>3. QED
    BY <2>1, <2>2 DEF MwView
<1>4. QED
  BY <1>2, <1>3

\* The map of one object becomes b, with n cells.
Becomes(o, b, n) ==
  mw_base' = [mw_base EXCEPT ![o] = b] /\ mw_cells' = [mw_cells EXCEPT ![o] = n]

LEMMA MwBecomes ==
  ASSUME MwTyped, NEW o \in Obj, NEW b, NEW n, MapOf(b, n), Becomes(o, b, n), NEW x, x = Mw!Contents(b, n)
  PROVE  MwTyped' /\ MwView' = [MwView EXCEPT ![o] = x]
BY MwOne DEF Becomes

\* clear and init_to_zero.
LEMMA MwEmpty ==
  ASSUME NEW n \in Nat
  PROVE  MapOf(Mw!NoCell, n) /\ Mw!Contents(Mw!NoCell, n) = [c \in 0 .. n - 1 |-> <<>>]
BY DEF MapOf, Mw!NoCell, Mw!Contents, Mw!Vector

LEMMA MwInitToZero ==
  ASSUME MwTyped, NEW o \in Obj, NEW n \in Sizes, Mw!InitToZero(o, n)
  PROVE  MwTyped' /\ Mw!Store!InitToZero(o, n)
<1>1. n \in Nat
  BY SizesAssumption
<1>2. MwTyped' /\ MwView' = [MwView EXCEPT ![o] = [c \in 0 .. n - 1 |-> <<>>]]
  <2>1. Becomes(o, Mw!NoCell, n)
    BY DEF Mw!InitToZero, Becomes
  <2>2. QED
    BY <1>1, <2>1, MwEmpty, MwBecomes
<1>3. QED
  BY <1>2 DEF MwView, Mw!Store!InitToZero, Mw!Store!EmptyStore

LEMMA MwClear ==
  ASSUME MwTyped, NEW o \in Obj, Mw!Clear(o)
  PROVE  MwTyped' /\ Mw!Store!Clear(o)
<1> DEFINE n == mw_cells[o]
<1>1. n \in Nat
  BY DEF MwTyped, MapOf
<1>2. Becomes(o, Mw!NoCell, n)
  BY DEF Mw!Clear, MwTyped, Becomes
<1> HIDE DEF n
<1>3. MwTyped' /\ MwView' = [MwView EXCEPT ![o] = [c \in 0 .. n - 1 |-> <<>>]]
  BY <1>1, <1>2, MwEmpty, MwBecomes
<1>4. DOMAIN MwView[o] = 0 .. n - 1
  BY DEF MwView, n, Mw!Contents
<1>5. QED
  BY <1>3, <1>4 DEF MwView, Mw!Store!Clear

\* operator[] with another vector.
LEMMA MwWith ==
  ASSUME NEW b, NEW n, MapOf(b, n), NEW c \in 0 .. n - 1, NEW w \in Seq(Ele)
  PROVE  /\ MapOf(Mw!With(b, c, w), n)
         /\ Mw!Contents(Mw!With(b, c, w), n) = [Mw!Contents(b, n) EXCEPT ![c] = w]
<1>1. MapOf(Mw!With(b, c, w), n)
  BY DEF MapOf, Mw!With
<1>2. \A d \in 0 .. n - 1 : Mw!Vector(Mw!With(b, c, w), d) = IF d = c THEN w ELSE Mw!Vector(b, d)
  BY DEF Mw!With, Mw!Vector
<1>3. QED
  BY <1>1, <1>2 DEF Mw!Contents

LEMMA MwVector ==
  ASSUME NEW b, NEW n, MapOf(b, n), NEW c \in 0 .. n - 1
  PROVE  Mw!Vector(b, c) \in Seq(Ele) /\ Mw!Contents(b, n)[c] = Mw!Vector(b, c)
BY DEF MapOf, Mw!Vector, Mw!Contents

LEMMA MwAdd ==
  ASSUME MwTyped, NEW o \in Obj, NEW c \in Mw!Cells(o), NEW e \in Ele, Mw!AddCell(o, c, e)
  PROVE  MwTyped' /\ c \in DOMAIN MwView[o] /\ Mw!Store!Add(o, c, e)
<1> DEFINE b == mw_base[o]
           n == mw_cells[o]
           w == Append(Mw!Vector(b, c), e)
<1>1. MapOf(b, n) /\ c \in 0 .. n - 1
  BY DEF MwTyped, Mw!Cells
<1>2. Becomes(o, Mw!With(b, c, w), n)
  BY DEF Mw!AddCell, MwTyped, Becomes
<1>3. MwView[o] = Mw!Contents(b, n) /\ DOMAIN Mw!Contents(b, n) = 0 .. n - 1
  BY DEF MwView, Mw!Contents
<1> HIDE DEF b, n
<1>4. Mw!Contents(b, n)[c] = Mw!Vector(b, c) /\ w \in Seq(Ele)
  BY <1>1, MwVector
<1> HIDE DEF w
<1>5. MwTyped' /\ MwView' = [MwView EXCEPT ![o] = [Mw!Contents(b, n) EXCEPT ![c] = w]]
  <2>1. MapOf(Mw!With(b, c, w), n)
    BY <1>1, <1>4, MwWith
  <2>2. [Mw!Contents(b, n) EXCEPT ![c] = w] = Mw!Contents(Mw!With(b, c, w), n)
    BY <1>1, <1>4, MwWith
  <2>3. QED
    <3> DEFINE y == Mw!With(b, c, w)
               x == [Mw!Contents(b, n) EXCEPT ![c] = w]
    <3>1. Becomes(o, y, n) /\ MapOf(y, n) /\ x = Mw!Contents(y, n)
      BY <1>2, <2>1, <2>2
    <3> HIDE DEF x, y
    <3>2. MwTyped' /\ MwView' = [MwView EXCEPT ![o] = x]
      BY <3>1, MwBecomes
    <3>3. QED
      BY <3>2 DEF x
<1>6. MwView' = [MwView EXCEPT ![o][c] = Append(@, e)]
  BY <1>3, <1>4, <1>5 DEF w, MwView
<1>7. QED
  BY <1>1, <1>3, <1>5, <1>6 DEF MwView, Mw!Store!Add

LEMMA MwRemove ==
  ASSUME MwTyped, NEW o \in Obj, NEW c \in Mw!Cells(o), NEW k \in 0 .. Mw!GetNelements(o, c) - 1,
         Mw!Remove(o, c, k)
  PROVE  MwTyped' /\ c \in DOMAIN MwView[o] /\ Mw!Store!Remove(o, c)
<1> DEFINE b == mw_base[o]
           n == mw_cells[o]
           v == Mw!Vector(b, c)
           w == Mw!Store!Without(v, k + 1)
<1>1. MapOf(b, n) /\ c \in 0 .. n - 1 /\ k \in 0 .. Len(v) - 1
  BY DEF MwTyped, Mw!Cells, Mw!GetNelements
<1>2. Becomes(o, Mw!With(b, c, Mw!Seqs!RemoveAt(b[c], k + 1)), n)
  BY DEF Mw!Remove, MwTyped, Becomes
<1>3. MwView[o] = Mw!Contents(b, n) /\ DOMAIN Mw!Contents(b, n) = 0 .. n - 1
  BY DEF MwView, Mw!Contents
<1> HIDE DEF b, n
<1>4. v = b[c] /\ v \in Seq(Ele)
  BY <1>1 DEF Mw!Vector, MapOf
<1>5. Mw!Contents(b, n)[c] = v
  BY <1>1, MwVector
<1> HIDE DEF v
<1>6. w \in Seq(Ele) /\ Mw!Seqs!RemoveAt(v, k + 1) = w /\ k + 1 \in DOMAIN v
  BY <1>1, <1>4, WithoutIs
<1> HIDE DEF w
<1>7. MwTyped' /\ MwView' = [MwView EXCEPT ![o] = [Mw!Contents(b, n) EXCEPT ![c] = w]]
  <2>1. MapOf(Mw!With(b, c, w), n)
    BY <1>1, <1>6, MwWith
  <2>2. [Mw!Contents(b, n) EXCEPT ![c] = w] = Mw!Contents(Mw!With(b, c, w), n)
    BY <1>1, <1>6, MwWith
  <2>3. Becomes(o, Mw!With(b, c, w), n)
    BY <1>2, <1>4, <1>6
  <2>4. QED
    <3> DEFINE y == Mw!With(b, c, w)
               x == [Mw!Contents(b, n) EXCEPT ![c] = w]
    <3>1. Becomes(o, y, n) /\ MapOf(y, n) /\ x = Mw!Contents(y, n)
      BY <2>1, <2>2, <2>3
    <3> HIDE DEF x, y
    <3>2. MwTyped' /\ MwView' = [MwView EXCEPT ![o] = x]
      BY <3>1, MwBecomes
    <3>3. QED
      BY <3>2 DEF x
<1>8. MwView' = [MwView EXCEPT ![o][c] = Mw!Store!Without(@, k + 1)]
  BY <1>3, <1>5, <1>7 DEF w, MwView
<1>9. QED
  BY <1>1, <1>3, <1>5, <1>6, <1>7, <1>8 DEF MwView, Mw!Store!Remove

LEMMA MwCopy ==
  ASSUME MwTyped, NEW o \in Obj, NEW p \in Obj, Mw!Copy(o, p)
  PROVE  MwTyped' /\ Mw!Store!Copy(o, p)
<1>1. /\ MwTyped' /\ MwView' = [MwView EXCEPT ![o] = Mw!Contents(mw_base[p], mw_cells[p])]
  <2>1. Becomes(o, mw_base[p], mw_cells[p]) /\ MapOf(mw_base[p], mw_cells[p])
    BY DEF Mw!Copy, MwTyped, Becomes
  <2>2. QED
    BY ONLY <2>1, MwTyped, o \in Obj, MwBecomes, Zenon
<1>2. QED
  BY <1>1 DEF MwView, Mw!Store!Copy, Mw!Store!KnownAs

LEMMA MwSwap ==
  ASSUME MwTyped, NEW o \in Obj, NEW p \in Obj, Mw!Swap(o, p)
  PROVE  MwTyped' /\ Mw!Store!Swap(o, p)
<1>1. \A q \in Obj : /\ mw_base'[q] = IF q = p THEN mw_base[o] ELSE IF q = o THEN mw_base[p] ELSE mw_base[q]
                     /\ mw_cells'[q] = IF q = p THEN mw_cells[o] ELSE IF q = o THEN mw_cells[p] ELSE mw_cells[q]
  BY DEF Mw!Swap, MwTyped
<1>2. mw_cells' = [q \in Obj |-> mw_cells'[q]] /\ mw_base' = [q \in Obj |-> mw_base'[q]]
  BY DEF Mw!Swap, MwTyped
<1>3. MwTyped'
  <2>1. \A q \in Obj : MapOf(mw_base'[q], mw_cells'[q])
    BY <1>1 DEF MwTyped
  <2>2. QED
    BY <1>2, <2>1 DEF MwTyped, MapOf
<1>4. MwView' = [MwView EXCEPT ![o] = MwView[p], ![p] = MwView[o]]
  BY <1>1 DEF MwView
<1>5. QED
  BY <1>3, <1>4 DEF MwView, Mw!Store!Swap

LEMMA MwNext ==
  ASSUME MwTyped, [Mw!Next]_(Mw!vars)
  PROVE  MwTyped' /\ [Mw!Store!Next]_(Mw!Store!vars)
<1>1. CASE \E o \in Obj, n \in Sizes : Mw!InitToZero(o, n)
  BY <1>1, MwInitToZero DEF Mw!Store!Next
<1>2. CASE \E o \in Obj : \E c \in Mw!Cells(o) : \E e \in Ele : Mw!AddCell(o, c, e)
  BY <1>2, MwAdd DEF Mw!Store!Next, MwView
<1>3. CASE \E o \in Obj : \E c \in Mw!Cells(o) :
             \E k \in 0 .. Mw!GetNelements(o, c) - 1 : Mw!Remove(o, c, k)
  BY <1>3, MwRemove DEF Mw!Store!Next, MwView
<1>4. CASE \E o \in Obj : Mw!Clear(o)
  BY <1>4, MwClear DEF Mw!Store!Next
<1>5. CASE \E o, p \in Obj : Mw!Copy(o, p)
  BY <1>5, MwCopy DEF Mw!Store!Next
<1>6. CASE \E o, p \in Obj : Mw!Swap(o, p)
  BY <1>6, MwSwap DEF Mw!Store!Next
<1>7. CASE UNCHANGED Mw!vars
  BY <1>7 DEF Mw!vars, MwTyped, MapOf, Mw!Store!vars
<1>8. QED
  BY <1>1, <1>2, <1>3, <1>4, <1>5, <1>6, <1>7 DEF Mw!Next

\* And so is Mem_mw, whose map has vectors of the cells there are and of no
\* others: no vector of an earlier use is found again, for any objects and sizes.
THEOREM MwRefinement == Mw!Spec => MwImplementsStore
<1>1. Mw!Init => MwTyped /\ Mw!Store!Init
  BY MwInit
<1>2. MwTyped /\ [Mw!Next]_(Mw!vars) => MwTyped' /\ [Mw!Store!Next]_(Mw!Store!vars)
  BY MwNext
<1>3. MwTyped => Mw!TypeOK
  BY MwTypes
<1>4. QED
  BY <1>1, <1>2, <1>3, PTL DEF Mw!Spec, Mw!Store!Spec, MwImplementsStore, Mw!ImplementsStore

=============================================================================
