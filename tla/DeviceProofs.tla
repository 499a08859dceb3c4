---------------------------- MODULE DeviceProofs -----------------------------
(***************************************************************************)
(* CellListGPU in both builds, for every number of cells and of particles  *)
(* and every interleaving of the device threads.  The inductive invariant  *)
(* follows the pipeline: what a kernel has established so far, and what    *)
(* the kernels before it left.  The builds meet after fill_cells: by the   *)
(* ranks of the atomic additions in the one, by a stable sort in the       *)
(* other, cells lists every particle once, cell after cell (Placed).       *)
(*                                                                         *)
(* DeviceScan, the scan that gives CellListGPU the starts of the cells, is *)
(* in the second half: for every size of warps and blocks, every number    *)
(* and type of counts and every order of the threads.                      *)
(***************************************************************************)
EXTENDS CellListGPU, DeviceScan, FiniteSetTheorems, NaturalsInduction, WellFoundedInduction, TLAPS

\* The particles of cell c, those subindex has counted, those of lower cells.
InCell(c)  == {i \in Threads : pl[i] = c}
Counted(c) == {i \in Threads : pl[i] = c /\ rank[i] # Garbage}
Lower(c)   == {i \in Threads : pl[i] < c}

AfterCount   == {"scan", "fill_cells", "reorder_parts",
                 "mark_domain_particles", "idle"}
AfterScan    == AfterCount \ {"scan"}
AfterFill    == AfterScan \ {"fill_cells"}
AfterReorder == {"mark_domain_particles", "idle"}

\* The caller's particles and the sizes of the arrays in use.
Shape ==
  /\ \E n \in 0 .. MaxPart : pl \in [0 .. n - 1 -> Cells]
  /\ kernel \in AfterCount \cup {"none", "subindex"}
  /\ kernel = "subindex" =>
       /\ done \subseteq Threads
       /\ rank \in [Threads -> Nat \cup {Garbage}]
       /\ cl_n \in [Bins -> Nat]
       /\ DOMAIN part_ids = Threads
  /\ kernel = "scan" => DOMAIN starts = Bins
  /\ kernel = "fill_cells" => done \subseteq Threads /\ DOMAIN cells = Threads
  /\ kernel = "reorder_parts" =>
       /\ done \subseteq Threads
       /\ DOMAIN sorted_to_not_sorted = Threads
       /\ DOMAIN non_sorted_to_sorted = Threads
       /\ DOMAIN pl_out = Threads
  /\ kernel \in {"subindex", "scan", "fill_cells"} => DOMAIN pl_out = Threads

\* subindex: a counter is the number of the particles counted, and their ranks
\* are all different and below it.
Counting ==
  kernel = "subindex" =>
    /\ \A c \in Bins : cl_n[c] = Cardinality(Counted(c))
    /\ \A i \in Threads : rank[i] # Garbage => rank[i] < cl_n[pl[i]]
    /\ \A i, j \in Threads :
         i # j /\ pl[i] = pl[j] /\ rank[i] # Garbage => rank[i] # rank[j]
    /\ \A i \in done : /\ rank[i] # Garbage
                       /\ part_ids[i] = [cell |-> pl[i], local |-> rank[i]]

\* After subindex: what it leaves in cl_n, and in part_ids until the sort.
Ranked ==
  /\ kernel \in AfterCount => \A c \in Bins : cl_n[c] = Cardinality(InCell(c))
  /\ kernel \in {"scan", "fill_cells"} =>
       /\ \A i \in Threads : /\ part_ids[i].cell = pl[i]
                             /\ part_ids[i].local \in 0 .. cl_n[pl[i]] - 1
       /\ \A i, j \in Threads :
            i # j /\ pl[i] = pl[j] => part_ids[i].local # part_ids[j].local

\* The scan: an entry counts the particles of the lower cells.
Scanned ==
  /\ kernel = "scan" =>
       \E m \in 0 .. NCells + 1 :
         /\ done = 0 .. m - 1
         /\ \A c \in 0 .. m - 1 : starts[c] = Cardinality(Lower(c))
  /\ kernel \in AfterScan =>
       \A c \in Bins : starts[c] = Cardinality(Lower(c))

\* fill_cells: who has returned has written its entry.
Filled == kernel = "fill_cells" => \A i \in done : cells[FillPlace(i)] = i

\* After fill_cells, and the sort: cells lists every particle once, those of
\* cell c from starts[c] to starts[c + 1], and in the deterministic build in
\* the order of their indices.
Listed(a) ==
  /\ \A k \in Threads : /\ a[k] \in Threads
                         /\ starts[pl[a[k]]] <= k /\ k < starts[pl[a[k]] + 1]
  /\ \A k, l \in Threads : k # l => a[k] # a[l]
  /\ \A i \in Threads : \E k \in Threads : a[k] = i
InOrder(a) ==
  \A k, l \in Threads : k < l /\ pl[a[k]] = pl[a[l]] => a[k] < a[l]
Placed == kernel \in AfterFill => Listed(cells) /\ (deterministic => InOrder(cells))

\* reorder_parts: who has returned has written both maps and the particle.
Moved(k) ==
  /\ sorted_to_not_sorted[k] = cells[k]
  /\ non_sorted_to_sorted[cells[k]] = k
  /\ pl_out[k] = pl[cells[k]]

Reordering ==
  /\ kernel = "reorder_parts" => \A k \in done : Moved(k)
  /\ kernel \in AfterReorder => \A k \in Threads : Moved(k)

\* mark_domain_particles: who has returned has written both arrays.
Marking ==
  /\ kernel \in {"reorder_parts", "mark_domain_particles"} =>
       /\ DOMAIN sorted_domain_particles_ids = Threads
       /\ DOMAIN sorted_domain_particles_dg = Threads
  /\ kernel = "mark_domain_particles" =>
       \A k \in done : /\ sorted_domain_particles_ids[k] = k
                       /\ sorted_domain_particles_dg[k] = IsGhost(sorted_to_not_sorted[k])

\* The domain particles before the ghosts, both in sorted order.
Divided ==
  kernel = "idle" /\ opt = "Full" => \A k, l \in Threads : k < l =>
    LET p == sorted_domain_particles_ids[k]
        q == sorted_domain_particles_ids[l]
    IN /\ sorted_to_not_sorted[p] < g_m \/ sorted_to_not_sorted[q] >= g_m
       /\ (sorted_to_not_sorted[p] < g_m <=> sorted_to_not_sorted[q] < g_m) => p < q

\* The pipeline up to reorder_parts, and all of it.
Core == Shape /\ Counting /\ Ranked /\ Scanned /\ Filled /\ Placed /\ Reordering
IInv == TypeOK /\ Core /\ Marking /\ Divided
-----------------------------------------------------------------------------
(***************************************************************************)
(* Counting particles.                                                     *)
(***************************************************************************)

\* The threads of a construct are finitely many, and so is any set of them.
LEMMA ThreadsFinite ==
  ASSUME Shape
  PROVE  /\ IsFiniteSet(Threads)
         /\ \E n \in Nat : Threads = 0 .. n - 1 /\ Cardinality(Threads) = n
         /\ \A i \in Threads : pl[i] \in Cells
         /\ \A S \in SUBSET Threads :
              /\ IsFiniteSet(S) /\ Cardinality(S) \in Nat
              /\ Cardinality(S) <= Cardinality(Threads)
<1>1. PICK n \in 0 .. MaxPart : pl \in [0 .. n - 1 -> Cells]
  BY DEF Shape
<1>2. n \in Nat
  BY MaxPartAssumption
<1>3. Threads = 0 .. n - 1
  BY <1>1 DEF Threads
<1>4. IsFiniteSet(Threads) /\ Cardinality(Threads) = n
  BY <1>2, <1>3, FS_Interval
<1>5. ASSUME NEW S \in SUBSET Threads
      PROVE  /\ IsFiniteSet(S) /\ Cardinality(S) \in Nat
             /\ Cardinality(S) <= Cardinality(Threads)
  BY <1>4, FS_Subset, FS_CardinalityType
<1>6. \A i \in Threads : pl[i] \in Cells
  BY <1>1, <1>3
<1>7. QED
  BY <1>2, <1>3, <1>4, <1>5, <1>6

\* The step of the scan, on sets: the particles below c + 1 are those below c
\* and those of c.
LEMMA LowerNext ==
  ASSUME Shape, NEW c \in Nat
  PROVE  /\ Cardinality(Lower(c + 1)) = Cardinality(Lower(c)) + Cardinality(InCell(c))
         /\ Cardinality(Lower(c)) \in Nat /\ Cardinality(InCell(c)) \in Nat
<1>1. /\ Lower(c) \in SUBSET Threads /\ InCell(c) \in SUBSET Threads
  BY DEF Lower, InCell
<1>2. /\ IsFiniteSet(Lower(c)) /\ Cardinality(Lower(c)) \in Nat
      /\ IsFiniteSet(InCell(c)) /\ Cardinality(InCell(c)) \in Nat
  BY <1>1, ThreadsFinite
<1>3. \A i \in Threads : pl[i] \in Nat
  BY ThreadsFinite DEF Cells
<1>4. Lower(c + 1) = Lower(c) \cup InCell(c)
  BY <1>3 DEF Lower, InCell
<1>5. Lower(c) \cap InCell(c) = {}
  BY <1>3 DEF Lower, InCell
<1>6. Cardinality(Lower(c + 1)) =
        Cardinality(Lower(c)) + Cardinality(InCell(c)) - Cardinality({})
  BY <1>2, <1>4, <1>5, FS_Union
<1>7. QED
  BY <1>2, <1>6, FS_EmptySet

LEMMA LowerFirst ==
  ASSUME Shape
  PROVE  Cardinality(Lower(0)) = 0
<1>1. Lower(0) = {}
  BY ThreadsFinite DEF Lower, Cells
<1>2. QED
  BY <1>1, FS_EmptySet

LEMMA LowerMonotone ==
  ASSUME Shape, NEW c \in Nat, NEW d \in Nat, c <= d
  PROVE  /\ Cardinality(Lower(c)) <= Cardinality(Lower(d))
         /\ Cardinality(Lower(d)) <= Cardinality(Threads)
<1>1. \A i \in Threads : pl[i] \in Nat
  BY ThreadsFinite DEF Cells
<1>2. Lower(c) \in SUBSET Lower(d) /\ Lower(d) \in SUBSET Threads
  BY <1>1 DEF Lower
<1>3. IsFiniteSet(Lower(d)) /\ Cardinality(Lower(d)) <= Cardinality(Threads)
  BY <1>2, ThreadsFinite
<1>4. QED
  BY <1>2, <1>3, FS_Subset
-----------------------------------------------------------------------------
(***************************************************************************)
(* The stable sort.                                                        *)
(***************************************************************************)

\* Entry i comes before entry j: it has a smaller key, or the same and stood
\* before it.
Before(key, i, j) == key[i] < key[j] \/ (key[i] = key[j] /\ i < j)

AllBefore(key, i) == {j \in DOMAIN key : Before(key, j, i)}

\* The keys of n entries.
KeysOf(n, key) == DOMAIN key = 0 .. n - 1 /\ \A i \in 0 .. n - 1 : key[i] \in Int

LEMMA PlaceBefore ==
  ASSUME NEW key, NEW i
  PROVE  Place(key, i) = Cardinality(AllBefore(key, i))
BY DEF Place, AllBefore, Before

\* Before is a strict total order.
LEMMA BeforeOrder ==
  ASSUME NEW n \in Nat, NEW key, KeysOf(n, key),
         NEW i \in 0 .. n - 1, NEW j \in 0 .. n - 1
  PROVE  /\ ~ Before(key, i, i)
         /\ i = j \/ Before(key, i, j) \/ Before(key, j, i)
         /\ \A k \in 0 .. n - 1 : Before(key, k, i) /\ Before(key, i, j) => Before(key, k, j)
<1>1. key[i] \in Int /\ key[j] \in Int /\ \A k \in 0 .. n - 1 : key[k] \in Int
  BY DEF KeysOf
<1>2. QED
  BY <1>1 DEF Before

\* The places are those of the array, each for one entry, in the order Before.
Permutes(n, key) ==
  /\ \A i \in 0 .. n - 1 : Place(key, i) \in 0 .. n - 1
  /\ \A i, j \in 0 .. n - 1 : Before(key, i, j) => Place(key, i) < Place(key, j)
  /\ \A i, j \in 0 .. n - 1 : i # j => Place(key, i) # Place(key, j)
  /\ \A k \in 0 .. n - 1 : \E i \in 0 .. n - 1 : Place(key, i) = k

LEMMA PlacesSorted ==
  ASSUME NEW n \in Nat, NEW key, KeysOf(n, key)
  PROVE  Permutes(n, key)
<1> DEFINE T == 0 .. n - 1
<1>1. IsFiniteSet(T) /\ Cardinality(T) = n /\ DOMAIN key = T
  BY FS_Interval DEF KeysOf
<1>2. \A S \in SUBSET T : IsFiniteSet(S) /\ Cardinality(S) \in Nat
  BY <1>1, FS_Subset, FS_CardinalityType
<1>3. \A i : AllBefore(key, i) \in SUBSET T
  BY <1>1 DEF AllBefore
<1>4. ASSUME NEW i \in T, NEW j \in T, Before(key, i, j)
      PROVE  Place(key, i) < Place(key, j)
  <2>1. AllBefore(key, i) \cup {i} \subseteq AllBefore(key, j)
    BY <1>1, <1>4, BeforeOrder DEF AllBefore
  <2>2. i \notin AllBefore(key, i)
    BY BeforeOrder DEF AllBefore
  <2>3. /\ IsFiniteSet(AllBefore(key, i)) /\ IsFiniteSet(AllBefore(key, j))
        /\ Cardinality(AllBefore(key, i)) \in Nat /\ Cardinality(AllBefore(key, j)) \in Nat
    BY <1>2, <1>3
  <2>4. Cardinality(AllBefore(key, i) \cup {i}) = Cardinality(AllBefore(key, i)) + 1
    BY <2>2, <2>3, FS_AddElement
  <2>5. Cardinality(AllBefore(key, i) \cup {i}) <= Cardinality(AllBefore(key, j))
    BY <2>1, <2>3, FS_Subset
  <2>6. QED
    BY <2>3, <2>4, <2>5, PlaceBefore
<1>5. ASSUME NEW i \in T
      PROVE  Place(key, i) \in T
  <2>1. AllBefore(key, i) \subseteq T \ {i}
    BY <1>3, BeforeOrder DEF AllBefore
  <2>2. IsFiniteSet(T \ {i}) /\ Cardinality(T \ {i}) = n - 1
    <3> HIDE DEF T
    <3>1. IsFiniteSet(T \ {i}) /\ Cardinality(T \ {i}) = Cardinality(T) - 1
      BY <1>1, FS_RemoveElement
    <3>2. QED
      BY <1>1, <3>1
  <2>3. Cardinality(AllBefore(key, i)) <= n - 1 /\ Cardinality(AllBefore(key, i)) \in Nat
    BY <1>2, <1>3, <2>1, <2>2, FS_Subset
  <2>4. QED
    BY <2>3, PlaceBefore
<1>6. ASSUME NEW i \in T, NEW j \in T, i # j
      PROVE  Place(key, i) # Place(key, j)
  <2>1. Before(key, i, j) \/ Before(key, j, i)
    BY <1>6, BeforeOrder
  <2>2. Place(key, i) \in Nat /\ Place(key, j) \in Nat
    BY <1>5
  <2>3. Place(key, i) < Place(key, j) \/ Place(key, j) < Place(key, i)
    BY <1>4, <2>1
  <2>4. QED
    BY <2>2, <2>3
<1>7. ASSUME NEW k \in T
      PROVE  \E i \in T : Place(key, i) = k
  <2> DEFINE f == [i \in T |-> Place(key, i)]
  <2>1. f \in [T -> T] /\ \A i, j \in T : f[i] = f[j] => i = j
    BY <1>5, <1>6
  <2>2. f \in Injection(T, T)
    BY <2>1 DEF Injection, IsInjective
  <2>3. f \in Surjection(T, T)
    BY <1>1, <2>2, FS_Injection
  <2>4. \E i \in T : f[i] = k
    BY <2>3 DEF Surjection
  <2>5. QED
    BY <2>4
<1>8. QED
  BY <1>4, <1>5, <1>6, <1>7 DEF Permutes

\* The entry that comes to stand at k.
From(key, k) == CHOOSE i \in DOMAIN key : Place(key, i) = k

\* A merge sort moves every entry to one place, in the order Before.
OutOf(n, key, val) ==
  /\ DOMAIN MergeSort(key, val) = 0 .. n - 1
  /\ \A k \in 0 .. n - 1 : /\ From(key, k) \in 0 .. n - 1
                           /\ Place(key, From(key, k)) = k
                           /\ MergeSort(key, val)[k] = val[From(key, k)]
  /\ \A k, l \in 0 .. n - 1 : k < l => Before(key, From(key, k), From(key, l))

LEMMA Sorted ==
  ASSUME NEW n \in Nat, NEW key, KeysOf(n, key), NEW val
  PROVE  OutOf(n, key, val)
<1>p. Permutes(n, key)
  BY PlacesSorted
<1>1. DOMAIN key = 0 .. n - 1
  BY DEF KeysOf
<1>2. DOMAIN MergeSort(key, val) = 0 .. n - 1
  BY <1>1 DEF MergeSort
<1>3. ASSUME NEW k \in 0 .. n - 1
      PROVE  /\ From(key, k) \in 0 .. n - 1
             /\ Place(key, From(key, k)) = k
             /\ MergeSort(key, val)[k] = val[From(key, k)]
  <2>1. \E i \in DOMAIN key : Place(key, i) = k
    BY <1>1, <1>p DEF Permutes
  <2>2. From(key, k) \in DOMAIN key /\ Place(key, From(key, k)) = k
    BY <2>1 DEF From
  <2>3. MergeSort(key, val)[k] = val[From(key, k)]
    BY <1>1 DEF MergeSort, From
  <2>4. QED
    BY <1>1, <2>2, <2>3
<1>4. ASSUME NEW k \in 0 .. n - 1, NEW l \in 0 .. n - 1, k < l
      PROVE  Before(key, From(key, k), From(key, l))
  <2> DEFINE i == From(key, k)
             j == From(key, l)
  <2>1. i \in 0 .. n - 1 /\ j \in 0 .. n - 1 /\ Place(key, i) = k /\ Place(key, j) = l
    BY <1>3
  <2> HIDE DEF i, j
  <2>2. i # j
    BY <1>4, <2>1
  <2>3. ~ Before(key, j, i)
    <3>1. Before(key, j, i) => Place(key, j) < Place(key, i)
      BY <2>1, <1>p DEF Permutes
    <3>2. QED
      BY <1>4, <2>1, <3>1
  <2>4. Before(key, i, j)
    BY <2>1, <2>2, <2>3, BeforeOrder
  <2>5. QED
    BY <2>4 DEF i, j
<1>5. QED
  BY <1>2, <1>3, <1>4 DEF OutOf
-----------------------------------------------------------------------------
(***************************************************************************)
(* The places of fill_cells.                                               *)
(***************************************************************************)

\* What the counting and the scan give: from an entry of starts to the next one
\* there are as many places as particles in the cell.
LEMMA StartsCount ==
  ASSUME Shape, Ranked, Scanned, kernel \in AfterScan
  PROVE  /\ \A c \in Cells : /\ starts[c] \in Nat
                             /\ starts[c + 1] = starts[c] + cl_n[c]
                             /\ cl_n[c] \in Nat
         /\ \A c, d \in Bins : c <= d => starts[c] <= starts[d]
         /\ \A c \in Bins : starts[c] \in Nat /\ starts[c] <= Cardinality(Threads)
<1>1. \A c \in Bins : starts[c] = Cardinality(Lower(c))
  BY DEF Scanned
<1>2. Cells \subseteq Bins /\ Bins \subseteq Nat /\ \A c \in Cells : c + 1 \in Bins
  BY NCellsAssumption DEF Cells, Bins
<1>3. ASSUME NEW c \in Cells
      PROVE  /\ starts[c] \in Nat /\ cl_n[c] \in Nat
             /\ starts[c + 1] = starts[c] + cl_n[c]
  <2>1. c \in Bins /\ c + 1 \in Bins /\ c \in Nat
    BY <1>2
  <2>2. cl_n[c] = Cardinality(InCell(c))
    BY <2>1 DEF Ranked, AfterScan
  <2>3. QED
    BY <1>1, <2>1, <2>2, LowerNext
<1>4. ASSUME NEW c \in Bins, NEW d \in Bins, c <= d
      PROVE  starts[c] <= starts[d]
  BY <1>1, <1>2, <1>4, LowerMonotone
<1>5. ASSUME NEW c \in Bins
      PROVE  starts[c] \in Nat /\ starts[c] <= Cardinality(Threads)
  <2>1. c \in Nat /\ c <= c /\ starts[c] = Cardinality(Lower(c))
    BY <1>1, <1>2
  <2>2. QED
    BY <2>1, LowerMonotone, LowerNext
<1>6. QED
  BY <1>3, <1>4, <1>5

\* The ranks put the particles of cell c in the entries from starts[c] to
\* starts[c + 1].
LEMMA FillPlaces ==
  ASSUME ~deterministic, Shape, Ranked, Scanned, kernel = "fill_cells", NEW i \in Threads
  PROVE  /\ FillPlace(i) \in Nat
         /\ starts[pl[i]] <= FillPlace(i)
         /\ FillPlace(i) < starts[pl[i] + 1]
<1>1. pl[i] \in Cells
  BY ThreadsFinite
<1>2. FillPlace(i) = starts[pl[i]] + part_ids[i].local
  BY DEF FillPlace, Ranked
<1>3. part_ids[i].local \in 0 .. cl_n[pl[i]] - 1
  BY DEF Ranked
<1>4. /\ starts[pl[i]] \in Nat /\ cl_n[pl[i]] \in Nat
      /\ starts[pl[i] + 1] = starts[pl[i]] + cl_n[pl[i]]
  BY <1>1, StartsCount DEF AfterScan, AfterCount
<1>5. QED
  BY <1>2, <1>3, <1>4

\* So does the stable sort of the particles by cell.
LEMMA SortPlaces ==
  ASSUME Shape, Scanned, kernel \in AfterScan, NEW i \in Threads
  PROVE  starts[pl[i]] <= Place(pl, i) /\ Place(pl, i) < starts[pl[i] + 1]
<1> DEFINE c == pl[i]
           B == AllBefore(pl, i)
<1>1. \A j \in Threads : pl[j] \in Nat /\ pl[j] \in Cells
  BY ThreadsFinite DEF Cells
<1>2. c \in Nat /\ c \in Bins /\ c + 1 \in Bins
  BY <1>1, NCellsAssumption DEF Cells, Bins
<1>3. starts[c] = Cardinality(Lower(c)) /\ starts[c + 1] = Cardinality(Lower(c + 1))
  BY <1>2 DEF Scanned
<1>4. Threads \subseteq Nat /\ \A j \in Threads : ~ (j < j)
  BY ThreadsFinite
<1>5. Lower(c) \subseteq B /\ B \subseteq Lower(c + 1) \ {i} /\ i \in Lower(c + 1)
  BY <1>1, <1>4 DEF Lower, AllBefore, Before, Threads
<1>6. B \in SUBSET Threads /\ Lower(c) \in SUBSET Threads /\ Lower(c + 1) \in SUBSET Threads
  BY DEF Lower, AllBefore, Threads
<1>7. /\ IsFiniteSet(B) /\ Cardinality(B) \in Nat
      /\ IsFiniteSet(Lower(c + 1)) /\ Cardinality(Lower(c + 1)) \in Nat
  BY <1>6, ThreadsFinite
<1> HIDE DEF B, c
<1>8. Cardinality(Lower(c)) <= Cardinality(B)
  BY <1>5, <1>7, FS_Subset
<1>9. Cardinality(Lower(c + 1) \ {i}) = Cardinality(Lower(c + 1)) - 1 /\ IsFiniteSet(Lower(c + 1) \ {i})
  BY <1>5, <1>7, FS_RemoveElement
<1>10. Cardinality(B) <= Cardinality(Lower(c + 1) \ {i})
  BY <1>5, <1>9, FS_Subset
<1>11. Place(pl, i) = Cardinality(B)
  BY PlaceBefore DEF B
<1>12. starts[c] <= Place(pl, i) /\ Place(pl, i) < starts[c + 1]
  BY <1>3, <1>7, <1>8, <1>9, <1>10, <1>11
<1>13. QED
  BY <1>12 DEF c

\* No two particles have the same place, and every place is in the array.
LEMMA PlacesApart ==
  ASSUME ~deterministic, Shape, Ranked, Scanned, kernel = "fill_cells"
  PROVE  Apart(FillPlace)
<1>0. kernel \in AfterScan
  BY DEF AfterScan, AfterCount
<1>1. ASSUME NEW i \in Threads
      PROVE  FillPlace(i) \in Threads
  <2>1. PICK n \in Nat : Threads = 0 .. n - 1 /\ Cardinality(Threads) = n
    BY ThreadsFinite
  <2>2. pl[i] \in Cells /\ pl[i] + 1 \in Bins
    BY ThreadsFinite, NCellsAssumption DEF Cells, Bins
  <2>3. FillPlace(i) \in Nat /\ FillPlace(i) < starts[pl[i] + 1]
    BY FillPlaces
  <2>4. starts[pl[i] + 1] \in Nat /\ starts[pl[i] + 1] <= Cardinality(Threads)
    BY <1>0, <2>2, StartsCount
  <2>5. QED
    BY <2>1, <2>3, <2>4
<1>2. ASSUME NEW i \in Threads, NEW j \in Threads, pl[i] < pl[j]
      PROVE  FillPlace(i) < FillPlace(j)
  <2>1. /\ pl[i] \in Nat /\ pl[j] \in Nat
        /\ pl[i] + 1 \in Bins /\ pl[j] \in Bins /\ pl[i] + 1 <= pl[j]
    BY <1>2, ThreadsFinite, NCellsAssumption DEF Cells, Bins
  <2>2. starts[pl[i] + 1] <= starts[pl[j]]
    BY <1>0, <2>1, StartsCount
  <2>3. starts[pl[i] + 1] \in Nat /\ starts[pl[j]] \in Nat
    BY <1>0, <2>1, StartsCount
  <2>4. /\ FillPlace(i) \in Nat /\ FillPlace(i) < starts[pl[i] + 1]
        /\ FillPlace(j) \in Nat /\ starts[pl[j]] <= FillPlace(j)
    BY FillPlaces
  <2>5. QED
    BY <2>2, <2>3, <2>4
<1>3. ASSUME NEW i \in Threads, NEW j \in Threads, i # j, pl[i] = pl[j]
      PROVE  FillPlace(i) # FillPlace(j)
  <2>1. /\ FillPlace(i) = starts[pl[i]] + part_ids[i].local
        /\ FillPlace(j) = starts[pl[i]] + part_ids[j].local
    BY <1>3 DEF FillPlace, Ranked
  <2>2. pl[i] \in Cells /\ starts[pl[i]] \in Nat /\ cl_n[pl[i]] \in Nat
    BY <1>0, ThreadsFinite, StartsCount
  <2>3. /\ part_ids[i].local # part_ids[j].local
        /\ part_ids[i].local \in 0 .. cl_n[pl[i]] - 1
        /\ part_ids[j].local \in 0 .. cl_n[pl[i]] - 1
    BY <1>3 DEF Ranked
  <2>4. QED
    BY <2>1, <2>2, <2>3
<1>4. ASSUME NEW i \in Threads, NEW j \in Threads, i # j
      PROVE  FillPlace(i) # FillPlace(j)
  <2>1. pl[i] \in Nat /\ pl[j] \in Nat
    BY ThreadsFinite DEF Cells
  <2>2. FillPlace(i) \in Nat /\ FillPlace(j) \in Nat
    BY FillPlaces
  <2>3. CASE pl[i] = pl[j]
    BY <1>3, <1>4, <2>3
  <2>4. CASE pl[i] < pl[j]
    BY <1>2, <2>2, <2>4
  <2>5. CASE pl[j] < pl[i]
    BY <1>2, <2>2, <2>5
  <2>6. QED
    BY <2>1, <2>3, <2>4, <2>5
<1>5. QED
  BY <1>1, <1>4 DEF Apart

LEMMA FillPlacesApart ==
  ASSUME Shape, Ranked, Scanned, kernel = "fill_cells"
  PROVE  Apart(FillPlace)
<1>1. CASE deterministic
  BY <1>1 DEF Apart, FillPlace
<1>2. CASE ~deterministic
  BY <1>2, PlacesApart
<1>3. QED
  BY <1>1, <1>2

\* An array with particle i at f[i], for places f that are all different and in
\* the entries of the cells, lists every particle once, cell after cell.
LEMMA ListedBy ==
  ASSUME Shape, NEW f \in [Threads -> Threads],
         \A i, j \in Threads : i # j => f[i] # f[j],
         \A i \in Threads : starts[pl[i]] <= f[i] /\ f[i] < starts[pl[i] + 1],
         NEW a, \A i \in Threads : a[f[i]] = i
  PROVE  Listed(a)
<1>1. f \in Injection(Threads, Threads)
  BY DEF Injection, IsInjective
<1>2. f \in Surjection(Threads, Threads)
  BY <1>1, ThreadsFinite, FS_Injection
<1>3. ASSUME NEW k \in Threads PROVE a[k] \in Threads /\ f[a[k]] = k
  BY <1>2 DEF Surjection
<1>4. QED
  BY <1>3 DEF Listed
-----------------------------------------------------------------------------
(***************************************************************************)
(* The invariant implies the properties.                                   *)
(***************************************************************************)

LEMMA InvNoWriteConflict ==
  ASSUME Core
  PROVE  NoWriteConflict
<1>1. CASE kernel = "fill_cells"
  BY <1>1, FillPlacesApart DEF NoWriteConflict, Core
<1>2. CASE kernel = "reorder_parts"
  <2>1. kernel \in AfterFill
    BY <1>2 DEF AfterFill, AfterScan, AfterCount
  <2>2. Apart(LAMBDA k : cells[k])
    BY <2>1 DEF Core, Placed, Listed, Apart
  <2>3. QED
    BY <1>2, <2>2 DEF NoWriteConflict
<1>3. QED
  BY <1>1, <1>2 DEF NoWriteConflict

LEMMA InvMapsInverse ==
  ASSUME Core
  PROVE  MapsInverse
<1> SUFFICES ASSUME kernel = "idle", NEW i \in Threads
             PROVE  /\ non_sorted_to_sorted[sorted_to_not_sorted[i]] = i
                    /\ sorted_to_not_sorted[non_sorted_to_sorted[i]] = i
                    /\ pl_out[i] = pl[sorted_to_not_sorted[i]]
  BY DEF MapsInverse
<1>1. kernel \in AfterFill /\ kernel \in AfterScan
  BY DEF AfterFill, AfterScan, AfterCount
<1>2. \A k \in Threads : Moved(k)
  BY DEF Core, Reordering, AfterReorder
<1>3. PICK k \in Threads : cells[k] = i
  BY <1>1 DEF Core, Placed, Listed
<1>4. non_sorted_to_sorted[i] = k /\ sorted_to_not_sorted[k] = i
  BY <1>2, <1>3 DEF Moved
<1>5. QED
  BY <1>2, <1>4 DEF Moved

LEMMA InvGrouped ==
  ASSUME Core
  PROVE  Grouped
<1> SUFFICES ASSUME kernel = "idle", NEW c \in Cells
             PROVE  /\ {sorted_to_not_sorted[k] : k \in starts[c] .. starts[c + 1] - 1}
                         = InCell(c)
                    /\ starts[c + 1] - starts[c] = Cardinality(InCell(c))
                    /\ cl_n[c] = Cardinality(InCell(c))
  BY DEF Grouped, InCell
<1>1. kernel \in AfterCount /\ kernel \in AfterFill /\ kernel \in AfterScan
  BY DEF AfterFill, AfterScan, AfterCount
<1>2. \A k \in Threads : sorted_to_not_sorted[k] = cells[k]
  BY DEF Core, Reordering, AfterReorder, Moved
<1>3. c \in Bins /\ c + 1 \in Bins /\ c \in Nat
  BY NCellsAssumption DEF Cells, Bins
<1>4. cl_n[c] = Cardinality(InCell(c))
  BY <1>1, <1>3 DEF Core, Ranked
<1>5. /\ starts[c] \in Nat /\ starts[c + 1] \in Nat /\ cl_n[c] \in Nat
      /\ starts[c + 1] = starts[c] + cl_n[c]
      /\ starts[c + 1] <= Cardinality(Threads)
  BY <1>1, <1>3, StartsCount DEF Core
<1>6. ASSUME NEW k \in starts[c] .. starts[c + 1] - 1
      PROVE  sorted_to_not_sorted[k] \in InCell(c)
  <2>1. k \in Threads
    BY <1>5, ThreadsFinite DEF Core
  <2> DEFINE i == cells[k]
  <2>2. i \in Threads /\ starts[pl[i]] <= k /\ k < starts[pl[i] + 1]
    BY <1>1, <2>1 DEF Core, Placed, Listed
  <2> HIDE DEF i
  <2>3. pl[i] \in Cells /\ pl[i] \in Nat /\ pl[i] \in Bins /\ pl[i] + 1 \in Bins
    BY <2>2, ThreadsFinite, NCellsAssumption DEF Core, Cells, Bins
  <2>5. starts[pl[i]] \in Nat /\ starts[pl[i] + 1] \in Nat
    BY <1>1, <2>3, StartsCount DEF Core
  <2>6. \A a, b \in Bins : a <= b => starts[a] <= starts[b]
    BY <1>1, StartsCount DEF Core
  <2>7. ~(pl[i] + 1 <= c)
    BY <1>3, <1>5, <2>2, <2>3, <2>5, <2>6
  <2>8. ~(c + 1 <= pl[i])
    BY <1>3, <1>5, <2>2, <2>3, <2>5, <2>6
  <2>9. pl[i] = c
    BY <1>3, <2>3, <2>7, <2>8
  <2>10. QED
    BY <1>2, <2>1, <2>2, <2>9 DEF InCell, i
<1>7. ASSUME NEW i \in InCell(c)
      PROVE  \E k \in starts[c] .. starts[c + 1] - 1 : sorted_to_not_sorted[k] = i
  <2>1. i \in Threads /\ pl[i] = c
    BY DEF InCell
  <2>2. PICK k \in Threads : cells[k] = i
    BY <1>1, <2>1 DEF Core, Placed, Listed
  <2>3. starts[pl[cells[k]]] <= k /\ k < starts[pl[cells[k]] + 1] /\ k \in Nat
    <3>1. Shape /\ Listed(cells)
      BY <1>1 DEF Core, Placed
    <3>2. k \in Nat
      BY <3>1, ThreadsFinite
    <3>3. QED
      BY <3>1, <3>2 DEF Listed
  <2>4. QED
    BY <1>2, <1>5, <2>1, <2>2, <2>3
<1>8. {sorted_to_not_sorted[k] : k \in starts[c] .. starts[c + 1] - 1} = InCell(c)
  BY <1>6, <1>7
<1>9. starts[c + 1] - starts[c] = Cardinality(InCell(c))
  BY <1>4, <1>5
<1>10. QED
  BY <1>4, <1>8, <1>9

LEMMA InvDeterministicOrder ==
  ASSUME Core
  PROVE  DeterministicOrder
<1> SUFFICES ASSUME deterministic, kernel = "idle", NEW k \in Threads, NEW l \in Threads,
                    k < l, pl_out[k] = pl_out[l]
             PROVE  sorted_to_not_sorted[k] < sorted_to_not_sorted[l]
  BY DEF DeterministicOrder, SameOrderAsCPU
<1>1. InOrder(cells)
  BY DEF Core, Placed, AfterFill, AfterScan, AfterCount
<1>2. Moved(k) /\ Moved(l)
  BY DEF Core, Reordering, AfterReorder
<1>3. QED
  BY <1>1, <1>2 DEF Moved, InOrder
-----------------------------------------------------------------------------
(***************************************************************************)
(* The invariant is inductive: one lemma per action.                       *)
(***************************************************************************)

LEMMA InitCore ==
  ASSUME Init
  PROVE  Core
<1>1. Threads = {} /\ kernel = "none"
  BY DEF Init, Empty, Threads
<1>2. Shape
  <2>1. pl \in [0 .. 0 - 1 -> Cells]
    BY DEF Init, Empty
  <2>2. 0 \in 0 .. MaxPart
    BY MaxPartAssumption
  <2>3. QED
    BY <1>1, <2>1, <2>2 DEF Shape
<1>3. QED
  BY <1>1, <1>2 DEF Core, Counting, Ranked, Scanned, Filled, Placed, Reordering,
     AfterCount, AfterScan, AfterFill, AfterReorder

LEMMA ConstructCore ==
  ASSUME Core, NEW pos \in Positions, NEW g, NEW o, Construct(pos, g, o)
  PROVE  Core'
<1>1. PICK n \in 0 .. MaxPart : pos \in [0 .. n - 1 -> Cells]
  BY DEF Positions
<1>2. /\ pl' = pos /\ Threads' = DOMAIN pos
      /\ rank' = [i \in DOMAIN pos |-> Garbage]
      /\ cl_n' = [c \in Bins |-> 0] /\ done' = {}
      /\ DOMAIN part_ids' = DOMAIN pos /\ DOMAIN pl_out' = DOMAIN pos
  BY DEF Construct, Threads, Counters, Resize
<1>3. CASE DOMAIN pos = {}
  <2>1. kernel' = "idle" /\ starts' = [c \in Bins |-> 0] /\ Threads' = {}
    BY <1>2, <1>3 DEF Construct, StartsOfNone
  <2>2. Shape'
    BY <1>1, <1>2, <2>1 DEF Shape, AfterCount
  <2>3. \A c \in Bins : InCell(c)' = {} /\ Lower(c)' = {}
    BY <2>1 DEF InCell, Lower
  <2>4. Ranked' /\ Scanned'
    BY <1>2, <2>1, <2>3, FS_EmptySet DEF Ranked, Scanned
  <2>5. Counting' /\ Filled' /\ Placed' /\ Reordering'
    BY <2>1 DEF Counting, Filled, Placed, Listed, InOrder, Reordering
  <2>6. QED
    BY <2>2, <2>4, <2>5 DEF Core
<1>4. CASE DOMAIN pos # {}
  <2>1. kernel' = "subindex"
    BY <1>4 DEF Construct
  <2>2. rank' \in [Threads' -> Nat \cup {Garbage}] /\ cl_n' \in [Bins -> Nat]
    BY <1>2
  <2>3. Shape'
    BY <1>1, <1>2, <2>1, <2>2 DEF Shape
  <2>4. \A c \in Bins : Counted(c)' = {}
    BY <1>2 DEF Counted
  <2>5. Counting'
    BY <1>2, <2>1, <2>4, FS_EmptySet DEF Counting
  <2>6. Ranked' /\ Scanned' /\ Filled' /\ Placed' /\ Reordering'
    BY <2>1 DEF Ranked, Scanned, Filled, Placed, Reordering, AfterCount, AfterScan,
       AfterFill, AfterReorder
  <2>7. QED
    BY <2>3, <2>5, <2>6 DEF Core
<1>5. QED
  BY <1>3, <1>4

\* The atomicAdd: the counter and the counted particles grow together.
LEMMA CountCore ==
  ASSUME Core, NEW i \in Threads, Count(i)
  PROVE  Core'
<1> DEFINE c == pl[i]
<1>1. /\ kernel = "subindex" /\ kernel' = "subindex"
      /\ pl' = pl /\ Threads' = Threads /\ done' = done /\ i \notin done
      /\ part_ids' = part_ids /\ pl_out' = pl_out /\ rank[i] = Garbage
  BY DEF Count, call, sorted, Threads
<1>2. c \in Cells /\ c \in Bins /\ rank \in [Threads -> Nat \cup {Garbage}]
      /\ cl_n \in [Bins -> Nat]
  <2>1. c \in Cells
    BY ThreadsFinite DEF Core
  <2>2. c \in Bins
    BY <2>1, NCellsAssumption DEF Cells, Bins
  <2>3. QED
    BY <1>1, <2>1, <2>2 DEF Core, Shape
<1>3. /\ rank' = [rank EXCEPT ![i] = cl_n[c]]
      /\ cl_n' = [cl_n EXCEPT ![c] = cl_n[c] + 1]
  BY DEF Count
<1> HIDE DEF c
<1>4. cl_n[c] \in Nat /\ cl_n[c] # Garbage /\ cl_n[c] + 1 \in Nat
  BY <1>2, GarbageAssumption
<1>5. rank' \in [Threads -> Nat \cup {Garbage}] /\ cl_n' \in [Bins -> Nat]
  BY <1>2, <1>3, <1>4
<1>6. Shape'
  BY <1>1, <1>5 DEF Core, Shape
<1>7. ASSUME NEW d \in Bins
      PROVE  cl_n'[d] = Cardinality(Counted(d)')
  <2>1. cl_n[d] = Cardinality(Counted(d))
    BY <1>1 DEF Core, Counting
  <2>2. CASE d = c
    <3>1. Counted(d)' = Counted(d) \cup {i}
      BY <1>1, <1>2, <1>3, <1>4, <2>2 DEF Counted, c
    <3>2. i \notin Counted(d)
      BY <1>1 DEF Counted
    <3>3. IsFiniteSet(Counted(d))
      BY ThreadsFinite DEF Core, Counted
    <3>4. Cardinality(Counted(d)') = Cardinality(Counted(d)) + 1
      BY <3>1, <3>2, <3>3, FS_AddElement
    <3>5. QED
      BY <1>2, <1>3, <2>1, <2>2, <3>4
  <2>3. CASE d # c
    <3>1. Counted(d)' = Counted(d)
      BY <1>1, <1>2, <1>3, <2>3 DEF Counted, c
    <3>2. QED
      BY <1>2, <1>3, <2>1, <2>3, <3>1
  <2>4. QED
    BY <2>2, <2>3
<1>8. \A j \in Threads : pl[j] \in Bins /\ pl[j] \in Nat
  BY ThreadsFinite, NCellsAssumption DEF Core, Cells, Bins
<1>9. \A j \in Threads : rank[j] # Garbage => rank[j] \in Nat /\ rank[j] < cl_n[pl[j]]
  BY <1>1, <1>2 DEF Core, Counting
<1>10. ASSUME NEW j \in Threads, rank'[j] # Garbage
       PROVE  rank'[j] < cl_n'[pl[j]]
  <2>1. CASE j = i
    BY <1>2, <1>3, <1>4, <2>1 DEF c
  <2>2. CASE j # i
    <3>1. rank'[j] = rank[j]
      BY <1>2, <1>3, <2>2
    <3>2. rank[j] \in Nat /\ rank[j] < cl_n[pl[j]] /\ cl_n[pl[j]] \in Nat
      BY <1>2, <1>8, <1>9, <1>10, <3>1
    <3>3. cl_n'[pl[j]] = cl_n[pl[j]] \/ cl_n'[pl[j]] = cl_n[pl[j]] + 1
      BY <1>2, <1>3, <1>8
    <3>4. QED
      BY <3>1, <3>2, <3>3
  <2>3. QED
    BY <2>1, <2>2
<1>11. ASSUME NEW j \in Threads, NEW k \in Threads,
              j # k, pl[j] = pl[k], rank'[j] # Garbage
       PROVE  rank'[j] # rank'[k]
  <2>1. CASE j = i
    <3>1. rank'[j] = cl_n[c] /\ rank'[k] = rank[k] /\ pl[k] = c
      BY <1>2, <1>3, <1>11, <2>1 DEF c
    <3>2. CASE rank[k] = Garbage
      BY <1>4, <3>1, <3>2
    <3>3. CASE rank[k] # Garbage
      <4>1. rank[k] \in Nat /\ rank[k] < cl_n[c]
        BY <1>9, <3>1, <3>3
      <4>2. QED
        BY <1>4, <3>1, <4>1
    <3>4. QED
      BY <3>2, <3>3
  <2>2. CASE k = i
    <3>1. rank'[k] = cl_n[c] /\ rank'[j] = rank[j] /\ pl[j] = c
      BY <1>2, <1>3, <1>11, <2>2 DEF c
    <3>2. rank[j] \in Nat /\ rank[j] < cl_n[c]
      BY <1>9, <1>11, <3>1
    <3>3. QED
      BY <1>4, <3>1, <3>2
  <2>3. CASE j # i /\ k # i
    <3>1. rank'[j] = rank[j] /\ rank'[k] = rank[k]
      BY <1>2, <1>3, <2>3
    <3>2. QED
      BY <1>1, <1>11, <3>1 DEF Core, Counting
  <2>4. QED
    BY <2>1, <2>2, <2>3
<1>12. ASSUME NEW j \in done
       PROVE  rank'[j] # Garbage /\ part_ids'[j] = [cell |-> pl[j], local |-> rank'[j]]
  <2>1. j # i /\ j \in Threads
    BY <1>1 DEF Core, Shape
  <2>2. rank'[j] = rank[j]
    BY <1>2, <1>3, <2>1
  <2>3. QED
    BY <1>1, <2>2 DEF Core, Counting
<1>13. Counting'
  BY <1>1, <1>7, <1>10, <1>11, <1>12 DEF Counting
<1>14. Ranked' /\ Scanned' /\ Filled' /\ Placed' /\ Reordering'
  BY <1>1 DEF Ranked, Scanned, Filled, Placed, Reordering, AfterCount, AfterScan,
     AfterFill, AfterReorder
<1>15. QED
  BY <1>6, <1>13, <1>14 DEF Core

LEMMA StoreIdsCore ==
  ASSUME Core, NEW i \in Threads, StoreIds(i)
  PROVE  Core'
<1>1. /\ kernel = "subindex" /\ kernel' = "subindex"
      /\ pl' = pl /\ Threads' = Threads /\ done' = done \cup {i}
      /\ rank' = rank /\ cl_n' = cl_n /\ pl_out' = pl_out /\ rank[i] # Garbage
      /\ part_ids' = [part_ids EXCEPT ![i] = [cell |-> pl[i], local |-> rank[i]]]
  BY DEF StoreIds, call, sorted, Threads
<1>2. DOMAIN part_ids = Threads
  BY <1>1 DEF Core, Shape
<1>3. Shape'
  BY <1>1, <1>2 DEF Core, Shape
<1>4. \A c \in Bins : Counted(c)' = Counted(c)
  BY <1>1 DEF Counted
<1>5. ASSUME NEW j \in done'
      PROVE  rank'[j] # Garbage /\ part_ids'[j] = [cell |-> pl[j], local |-> rank[j]]
  BY <1>1, <1>2 DEF Core, Shape, Counting
<1>6. Counting'
  BY <1>1, <1>4, <1>5 DEF Core, Counting
<1>7. Ranked' /\ Scanned' /\ Filled' /\ Placed' /\ Reordering'
  BY <1>1 DEF Ranked, Scanned, Filled, Placed, Reordering, AfterCount, AfterScan,
     AfterFill, AfterReorder
<1>8. QED
  BY <1>3, <1>6, <1>7 DEF Core

LEMMA LaunchScanCore ==
  ASSUME Core, LaunchScan
  PROVE  Core'
<1>1. /\ kernel = "subindex" /\ kernel' = "scan" /\ done = Threads /\ done' = {}
      /\ pl' = pl /\ Threads' = Threads /\ pl_out' = pl_out
      /\ part_ids' = part_ids /\ cl_n' = cl_n
      /\ DOMAIN starts' = Bins
  BY DEF LaunchScan, call, index, sorted, Threads, Returned, Resize
<1>2. Shape'
  BY <1>1 DEF Core, Shape, AfterCount
<1>3. \A i \in Threads : /\ rank[i] # Garbage
                         /\ part_ids[i] = [cell |-> pl[i], local |-> rank[i]]
  BY <1>1 DEF Core, Counting
<1>12. ASSUME NEW i \in Threads
       PROVE  part_ids'[i].cell = pl[i] /\ part_ids'[i].local = rank[i]
  <2> DEFINE stored == [cell |-> pl[i], local |-> rank[i]]
  <2>1. part_ids'[i] = stored
    BY <1>1, <1>3
  <2>2. stored.cell = pl[i] /\ stored.local = rank[i]
    OBVIOUS
  <2> HIDE DEF stored
  <2>3. QED
    BY <2>1, <2>2
<1>4. \A c \in Bins : Counted(c) = InCell(c) /\ InCell(c)' = InCell(c)
  BY <1>1, <1>3 DEF Counted, InCell
<1>5. \A c \in Bins : cl_n'[c] = Cardinality(InCell(c)')
  BY <1>1, <1>4 DEF Core, Counting
<1>6. ASSUME NEW i \in Threads
      PROVE  /\ part_ids'[i].cell = pl[i]
             /\ part_ids'[i].local \in 0 .. cl_n'[pl[i]] - 1
  <2>1. rank[i] \in Nat /\ rank[i] < cl_n[pl[i]]
    BY <1>1, <1>3 DEF Core, Shape, Counting
  <2>2. pl[i] \in Bins
    BY ThreadsFinite, NCellsAssumption DEF Core, Cells, Bins
  <2>3. cl_n[pl[i]] \in Nat
    BY <1>1, <2>2 DEF Core, Shape
  <2>4. QED
    BY <1>1, <1>12, <2>1, <2>3
<1>7. ASSUME NEW i \in Threads, NEW j \in Threads, i # j, pl[i] = pl[j]
      PROVE  part_ids'[i].local # part_ids'[j].local
  <2>1. part_ids'[i].local = rank[i] /\ part_ids'[j].local = rank[j]
    BY <1>12
  <2>2. rank[i] # rank[j]
    BY <1>1, <1>3, <1>7 DEF Core, Counting
  <2>3. QED
    BY <2>1, <2>2
<1>8. Ranked'
  BY <1>1, <1>5, <1>6, <1>7 DEF Ranked
<1>9. Scanned'
  <2>1. /\ 0 \in 0 .. NCells + 1 /\ done' = 0 .. 0 - 1
        /\ \A c \in 0 .. 0 - 1 : starts'[c] = Cardinality(Lower(c)')
    BY <1>1, NCellsAssumption
  <2>2. QED
    BY <1>1, <2>1 DEF Scanned, AfterScan, AfterCount
<1>10. Counting' /\ Filled' /\ Placed' /\ Reordering'
  BY <1>1 DEF Counting, Filled, Placed, Reordering, AfterFill, AfterScan, AfterReorder
<1>11. QED
  BY <1>2, <1>8, <1>9, <1>10 DEF Core

\* One more entry: LowerNext says it counts one more cell.
LEMMA ScanCore ==
  ASSUME Core, NEW c \in Bins, Scan(c)
  PROVE  Core'
<1>1. /\ kernel = "scan" /\ kernel' = "scan" /\ done = 0 .. c - 1 /\ done' = 0 .. c
      /\ pl' = pl /\ Threads' = Threads /\ pl_out' = pl_out
      /\ part_ids' = part_ids /\ cl_n' = cl_n
      /\ starts' = [starts EXCEPT ![c] =
                      IF c = 0 THEN 0 ELSE starts[c - 1] + cl_n[c - 1]]
  BY DEF Scan, call, index, sorted, Threads
<1>2. DOMAIN starts = Bins
  BY <1>1 DEF Core, Shape
<1>3. Shape'
  BY <1>1, <1>2 DEF Core, Shape, AfterCount
<1>4. \A d : InCell(d)' = InCell(d) /\ Lower(d)' = Lower(d)
  BY <1>1 DEF InCell, Lower
<1>5. Ranked'
  BY <1>1, <1>4 DEF Core, Ranked, AfterCount
<1>6. c \in Nat /\ c <= NCells /\ c + 1 \in 0 .. NCells + 1
  BY NCellsAssumption DEF Bins
<1>7. PICK m \in 0 .. NCells + 1 :
        /\ done = 0 .. m - 1
        /\ \A d \in 0 .. m - 1 : starts[d] = Cardinality(Lower(d))
  BY <1>1 DEF Core, Scanned
<1>8. \A d \in 0 .. c - 1 : starts[d] = Cardinality(Lower(d))
  BY <1>1, <1>7
<1>9. starts'[c] = Cardinality(Lower(c))
  <2>1. starts'[c] = IF c = 0 THEN 0 ELSE starts[c - 1] + cl_n[c - 1]
    BY <1>1, <1>2
  <2>2. CASE c = 0
    BY <2>1, <2>2, LowerFirst DEF Core
  <2>3. CASE c # 0
    <3>1. c - 1 \in Nat /\ c - 1 \in 0 .. c - 1 /\ c - 1 \in Bins /\ (c - 1) + 1 = c
      BY <1>6, <2>3, NCellsAssumption DEF Bins
    <3>2. cl_n[c - 1] = Cardinality(InCell(c - 1))
      BY <1>1, <3>1 DEF Core, Ranked, AfterCount
    <3>3. Cardinality(Lower(c)) =
            Cardinality(Lower(c - 1)) + Cardinality(InCell(c - 1))
      BY <3>1, LowerNext DEF Core
    <3>4. QED
      BY <1>8, <2>1, <2>3, <3>1, <3>2, <3>3
  <2>4. QED
    BY <2>2, <2>3
<1>10. \A d \in 0 .. c : starts'[d] = Cardinality(Lower(d)')
  <2>1. ASSUME NEW d \in 0 .. c - 1
        PROVE  starts'[d] = starts[d]
    BY <1>1, <1>2, <1>6 DEF Bins
  <2>2. \A d \in 0 .. c : d = c \/ d \in 0 .. c - 1
    BY <1>6
  <2>3. QED
    BY <1>4, <1>8, <1>9, <2>1, <2>2
<1>11. Scanned'
  <2>1. c = (c + 1) - 1
    BY <1>6
  <2>2. /\ done' = 0 .. (c + 1) - 1
        /\ \A d \in 0 .. (c + 1) - 1 : starts'[d] = Cardinality(Lower(d)')
    BY <1>1, <1>10, <2>1
  <2>3. QED
    BY <1>1, <1>6, <2>2 DEF Scanned, AfterScan, AfterCount
<1>12. Counting' /\ Filled' /\ Placed' /\ Reordering'
  BY <1>1 DEF Counting, Filled, Placed, Reordering, AfterFill, AfterScan, AfterCount,
     AfterReorder
<1>13. QED
  BY <1>3, <1>5, <1>11, <1>12 DEF Core

LEMMA LaunchFillCore ==
  ASSUME Core, LaunchFill
  PROVE  Core'
<1>1. /\ kernel = "scan" /\ kernel' = "fill_cells" /\ done = Bins /\ done' = {}
      /\ pl' = pl /\ Threads' = Threads /\ pl_out' = pl_out
      /\ part_ids' = part_ids /\ cl_n' = cl_n /\ starts' = starts
      /\ DOMAIN cells' = Threads
  BY DEF LaunchFill, call, index, sorted, Threads, Resize
<1>2. Shape'
  BY <1>1 DEF Core, Shape, AfterCount
<1>3. \A d : InCell(d)' = InCell(d) /\ Lower(d)' = Lower(d)
  BY <1>1 DEF InCell, Lower
<1>4. Ranked'
  BY <1>1, <1>3 DEF Core, Ranked, AfterCount
<1>5. Scanned'
  <2>1. PICK m \in 0 .. NCells + 1 :
          /\ done = 0 .. m - 1
          /\ \A d \in 0 .. m - 1 : starts[d] = Cardinality(Lower(d))
    BY <1>1 DEF Core, Scanned
  <2>2. \A d \in Bins : starts'[d] = Cardinality(Lower(d)')
    BY <1>1, <1>3, <2>1
  <2>3. QED
    BY <1>1, <2>2 DEF Scanned
<1>6. Filled' /\ Placed' /\ Counting' /\ Reordering'
  BY <1>1 DEF Filled, Placed, Counting, Reordering, AfterFill, AfterScan, AfterCount,
     AfterReorder
<1>7. QED
  BY <1>2, <1>4, <1>5, <1>6 DEF Core

\* A thread writes its own place and no other thread's (FillPlacesApart).
LEMMA FillCellsCore ==
  ASSUME deterministic' = deterministic, Core, NEW i \in Threads, FillCells(i)
  PROVE  Core'
<1>1. /\ kernel = "fill_cells" /\ kernel' = "fill_cells" /\ done' = done \cup {i}
      /\ pl' = pl /\ Threads' = Threads /\ pl_out' = pl_out
      /\ part_ids' = part_ids /\ cl_n' = cl_n /\ starts' = starts
      /\ cells' = [cells EXCEPT ![FillPlace(i)] = i]
  BY DEF FillCells, call, index, sorted, Threads
<1>2. DOMAIN cells = Threads /\ done \subseteq Threads
  BY <1>1 DEF Core, Shape
<1>3. Shape'
  BY <1>1, <1>2 DEF Core, Shape, AfterCount
<1>4. \A d : InCell(d)' = InCell(d) /\ Lower(d)' = Lower(d)
  BY <1>1 DEF InCell, Lower
<1>5. Ranked' /\ Scanned'
  BY <1>1, <1>4 DEF Core, Ranked, Scanned, AfterCount, AfterScan
<1>6. Apart(FillPlace) /\ \A j \in Threads : FillPlace(j)' = FillPlace(j)
  BY <1>1, FillPlacesApart DEF Core, FillPlace
<1>7. ASSUME NEW j \in done'
      PROVE  cells'[FillPlace(j)'] = j
  <2>1. CASE j = i
    BY <1>1, <1>2, <1>6, <2>1 DEF Apart
  <2>2. CASE j # i
    <3>1. j \in done /\ j \in Threads
      BY <1>1, <1>2, <2>2
    <3>2. FillPlace(j) # FillPlace(i)
      BY <1>6, <2>2, <3>1 DEF Apart
    <3>3. cells[FillPlace(j)] = j
      BY <1>1, <3>1 DEF Core, Filled
    <3>4. QED
      BY <1>1, <1>2, <1>6, <3>1, <3>2, <3>3 DEF Apart
  <2>3. QED
    BY <2>1, <2>2
<1>8. Filled'
  BY <1>1, <1>7 DEF Filled
<1>9. Counting' /\ Placed' /\ Reordering'
  BY <1>1 DEF Counting, Placed, Reordering, AfterFill, AfterScan, AfterCount, AfterReorder
<1>10. QED
  BY <1>3, <1>5, <1>8, <1>9 DEF Core

\* The end of fill_cells, with the sort of the deterministic build.
LEMMA LaunchReorderCore ==
  ASSUME deterministic' = deterministic, Core, LaunchReorder
  PROVE  Core'
<1>1. /\ kernel = "fill_cells" /\ kernel' = "reorder_parts"
      /\ done = Threads /\ done' = {}
      /\ pl' = pl /\ Threads' = Threads /\ pl_out' = pl_out
      /\ cl_n' = cl_n /\ starts' = starts
      /\ DOMAIN sorted_to_not_sorted' = Threads
      /\ DOMAIN non_sorted_to_sorted' = Threads
  BY DEF LaunchReorder, call, Threads, Returned, Resize
<1>2. Shape'
  BY <1>1 DEF Core, Shape, AfterCount
<1>3. \A d : InCell(d)' = InCell(d) /\ Lower(d)' = Lower(d)
  BY <1>1 DEF InCell, Lower
<1>4. Ranked' /\ Scanned'
  BY <1>1, <1>3 DEF Core, Ranked, Scanned, AfterCount, AfterScan
<1>5. Shape /\ Ranked /\ Scanned /\ kernel \in AfterScan
  BY <1>1 DEF Core, AfterScan, AfterCount
<1>6. \A i \in Threads : cells[FillPlace(i)] = i
  BY <1>1 DEF Core, Filled
<1>7. Listed(cells') /\ (deterministic => InOrder(cells'))
  <2>1. CASE ~deterministic
    <3> DEFINE f == [i \in Threads |-> FillPlace(i)]
    <3>1. cells' = cells
      BY <2>1 DEF LaunchReorder
    <3>2. f \in [Threads -> Threads] /\ \A i, j \in Threads : i # j => f[i] # f[j]
      BY <1>1, <1>5, FillPlacesApart DEF Apart
    <3>3. \A i \in Threads : starts[pl[i]] <= f[i] /\ f[i] < starts[pl[i] + 1]
      BY <1>1, <1>5, <2>1, FillPlaces
    <3>4. \A i \in Threads : cells[f[i]] = i
      BY <1>6
    <3> HIDE DEF f
    <3>5. QED
      BY <1>5, <2>1, <3>1, <3>2, <3>3, <3>4, ListedBy
  <2>2. CASE deterministic
    <3> DEFINE key == [i \in Threads |-> part_ids[i].cell]
               f == [i \in Threads |-> Place(pl, i)]
               a == cells'
    <3>1. PICK n \in Nat : Threads = 0 .. n - 1
      BY <1>5, ThreadsFinite
    <3>2. pl \in [0 .. n - 1 -> Int] /\ KeysOf(n, pl)
      BY <1>5, <3>1, NCellsAssumption DEF Shape, Threads, Cells, KeysOf
    <3>3. key = pl
      BY <1>1, <1>5, <3>1, <3>2 DEF Ranked
    <3>4. a = MergeSort(pl, cells)
      BY <2>2, <3>3 DEF LaunchReorder, SortByCell
    <3> HIDE DEF a
    <3>p. Permutes(n, pl) /\ OutOf(n, pl, cells)
      BY <3>2, PlacesSorted, Sorted
    <3>5. /\ \A i \in 0 .. n - 1 : Place(pl, i) \in 0 .. n - 1
          /\ \A i, j \in 0 .. n - 1 : i # j => Place(pl, i) # Place(pl, j)
      BY <3>p DEF Permutes
    <3>6. \A k \in Threads : /\ From(pl, k) \in Threads
                             /\ Place(pl, From(pl, k)) = k
                             /\ a[k] = cells[From(pl, k)]
      BY <3>1, <3>p, <3>4 DEF OutOf
    <3>7. \A k, l \in Threads : k < l => Before(pl, From(pl, k), From(pl, l))
      BY <3>1, <3>p DEF OutOf
    <3>8. \A i \in Threads : cells[i] = i
      BY <1>6, <2>2 DEF FillPlace
    <3>9. \A k \in Threads : a[k] = From(pl, k)
      BY <3>6, <3>8
    <3>10. f \in [Threads -> Threads] /\ \A i, j \in Threads : i # j => f[i] # f[j]
      BY <3>1, <3>5
    <3>11. \A i \in Threads : starts[pl[i]] <= f[i] /\ f[i] < starts[pl[i] + 1]
      BY <1>5, SortPlaces
    <3>12. \A i \in Threads : a[f[i]] = i
      <4>1. ASSUME NEW i \in Threads PROVE From(pl, Place(pl, i)) = i
        <5>1. Place(pl, i) \in Threads
          BY <3>1, <3>5
        <5>2. Place(pl, From(pl, Place(pl, i))) = Place(pl, i) /\ From(pl, Place(pl, i)) \in Threads
          BY <3>6, <5>1
        <5>3. QED
          BY <3>1, <3>5, <5>2
      <4>2. QED
        BY <3>9, <3>10, <4>1
    <3> HIDE DEF f
    <3>13. Listed(a)
      BY <1>5, <3>10, <3>11, <3>12, ListedBy
    <3>14. InOrder(a)
      <4>1. ASSUME NEW k \in Threads, NEW l \in Threads, k < l
            PROVE  Before(pl, a[k], a[l])
        BY <3>7, <3>9, <4>1
      <4>2. \A k \in Threads : pl[a[k]] \in Int
        BY <3>1, <3>2, <3>6, <3>9
      <4>3. QED
        BY <4>1, <4>2 DEF InOrder, Before
    <3>15. QED
      BY <3>13, <3>14 DEF a
  <2>3. QED
    BY <2>1, <2>2
<1>8. Placed'
  BY <1>1, <1>7 DEF Placed, Listed, InOrder
<1>9. Counting' /\ Filled' /\ Reordering'
  BY <1>1 DEF Counting, Filled, Reordering, AfterReorder
<1>10. QED
  BY <1>2, <1>4, <1>8, <1>9 DEF Core

\* A thread writes the entry of the particle it moves: cells is a permutation.
LEMMA ReorderPartsCore ==
  ASSUME deterministic' = deterministic, Core, NEW k \in Threads, ReorderParts(k)
  PROVE  Core'
<1>1. /\ kernel = "reorder_parts" /\ kernel' = "reorder_parts"
      /\ done' = done \cup {k}
      /\ pl' = pl /\ Threads' = Threads
      /\ part_ids' = part_ids /\ cl_n' = cl_n /\ starts' = starts
      /\ cells' = cells
      /\ pl_out' = [pl_out EXCEPT ![k] = pl[cells[k]]]
      /\ sorted_to_not_sorted' = [sorted_to_not_sorted EXCEPT ![k] = cells[k]]
      /\ non_sorted_to_sorted' = [non_sorted_to_sorted EXCEPT ![cells[k]] = k]
  BY DEF ReorderParts, call, index, Threads
<1>2. /\ done \subseteq Threads /\ DOMAIN pl_out = Threads
      /\ DOMAIN sorted_to_not_sorted = Threads
      /\ DOMAIN non_sorted_to_sorted = Threads
  BY <1>1 DEF Core, Shape
<1>3. Shape'
  BY <1>1, <1>2 DEF Core, Shape, AfterCount
<1>4. \A d : InCell(d)' = InCell(d) /\ Lower(d)' = Lower(d)
  BY <1>1 DEF InCell, Lower
<1>5. Ranked' /\ Scanned'
  BY <1>1, <1>4 DEF Core, Ranked, Scanned, AfterCount, AfterScan
<1>6. Listed(cells) /\ (deterministic => InOrder(cells))
  BY <1>1 DEF Core, Placed, AfterFill, AfterScan, AfterCount
<1>7. Placed' /\ Filled'
  BY <1>1, <1>6 DEF Placed, Listed, InOrder, Filled
<1>9. /\ \A j \in Threads : cells[j] \in Threads
      /\ \A j \in Threads : j # k => cells[j] # cells[k]
  BY <1>6 DEF Listed
<1>10. ASSUME NEW j \in done'
       PROVE  Moved(j)'
  <2>1. CASE j = k
    BY <1>1, <1>2, <1>9, <2>1 DEF Moved
  <2>2. CASE j # k
    <3>1. j \in done /\ j \in Threads /\ Moved(j)
      BY <1>1, <1>2, <2>2 DEF Core, Reordering
    <3>2. cells[j] \in Threads /\ cells[j] # cells[k]
      BY <1>9, <2>2, <3>1
    <3>3. QED
      BY <1>1, <1>2, <2>2, <3>1, <3>2 DEF Moved
  <2>3. QED
    BY <2>1, <2>2
<1>11. Reordering'
  BY <1>1, <1>10 DEF Reordering, AfterReorder
<1>12. Counting'
  BY <1>1 DEF Counting
<1>13. QED
  BY <1>3, <1>5, <1>7, <1>11, <1>12 DEF Core

\* The steps after reorder_parts leave everything the invariant reads alone.
LEMMA ReorderedCore ==
  ASSUME deterministic' = deterministic, Core,
         \/ kernel = "reorder_parts" /\ done = Threads
         \/ kernel \in AfterReorder,
         kernel' \in AfterReorder,
         UNCHANGED <<call, index, starts, cells, sorted>>
  PROVE  Core'
<1>1. /\ pl' = pl /\ Threads' = Threads /\ part_ids' = part_ids /\ cl_n' = cl_n
      /\ starts' = starts /\ cells' = cells /\ pl_out' = pl_out
      /\ sorted_to_not_sorted' = sorted_to_not_sorted
      /\ non_sorted_to_sorted' = non_sorted_to_sorted
  BY DEF call, index, sorted, Threads
<1>2. Shape'
  BY <1>1 DEF Core, Shape, AfterReorder, AfterCount
<1>3. \A d : InCell(d)' = InCell(d) /\ Lower(d)' = Lower(d)
  BY <1>1 DEF InCell, Lower
<1>4. kernel \in AfterFill /\ kernel \in AfterScan /\ kernel \in AfterCount
  BY DEF AfterReorder, AfterFill, AfterScan, AfterCount
<1>5. Ranked' /\ Scanned'
  BY <1>1, <1>3, <1>4 DEF Core, Ranked, Scanned, AfterReorder
<1>6. \A j \in Threads : Moved(j)' = Moved(j)
  BY <1>1 DEF Moved
<1>11. Listed(cells) /\ (deterministic => InOrder(cells))
  BY <1>4 DEF Core, Placed
<1>7. Placed' /\ Filled'
  BY <1>1, <1>11 DEF Placed, Listed, InOrder, Filled, AfterReorder
<1>8. Reordering'
  BY <1>1, <1>6 DEF Core, Reordering, AfterReorder
<1>9. Counting'
  BY DEF Counting, AfterReorder
<1>10. QED
  BY <1>2, <1>5, <1>7, <1>8, <1>9 DEF Core

LEMMA ClearCore ==
  ASSUME Core, Clear
  PROVE  Core'
<1>1. kernel' = "none" /\ pl' = pl
  BY DEF Clear, call
<1>2. Shape'
  BY <1>1 DEF Core, Shape
<1>3. QED
  BY <1>1, <1>2 DEF Core, Counting, Ranked, Scanned, Filled, Placed, Reordering,
     AfterCount, AfterScan, AfterFill, AfterReorder

LEMMA StutterCore ==
  ASSUME Core, UNCHANGED vars
  PROVE  Core'
<1>1. /\ UNCHANGED <<deterministic, pl, kernel, done, rank, part_ids, cl_n, starts, cells>>
      /\ UNCHANGED <<sorted_to_not_sorted, non_sorted_to_sorted, pl_out>>
      /\ Threads' = Threads
  BY DEF vars, call, index, sorted, Threads
<1>2. /\ \A d : InCell(d)' = InCell(d) /\ Lower(d)' = Lower(d) /\ Counted(d)' = Counted(d)
      /\ \A j : FillPlace(j)' = FillPlace(j) /\ Moved(j)' = Moved(j)
  BY <1>1 DEF InCell, Lower, Counted, FillPlace, Moved
<1>3. Shape' /\ Counting'
  BY <1>1, <1>2 DEF Core, Shape, Counting
<1>4. Ranked' /\ Scanned'
  BY <1>1, <1>2 DEF Core, Ranked, Scanned
<1>5. Filled' /\ Placed' /\ Reordering'
  BY <1>1, <1>2 DEF Core, Filled, Placed, Listed, InOrder, Reordering
<1>6. QED
  BY <1>3, <1>4, <1>5 DEF Core

LEMMA NextCore ==
  ASSUME Core, [Next]_vars
  PROVE  Core'
<1>0. deterministic' = deterministic
  BY DEF Next, vars
<1>1. CASE Launch
  BY <1>1, ConstructCore, ClearCore DEF Launch
<1>2. CASE Host
  <2>1. CASE LaunchScan
    BY <2>1, LaunchScanCore
  <2>2. CASE \E c \in Bins : Scan(c)
    BY <2>2, ScanCore
  <2>3. CASE LaunchFill
    BY <2>3, LaunchFillCore
  <2>4. CASE LaunchReorder
    BY <1>0, <2>4, LaunchReorderCore
  <2>5. CASE Reordered
    BY <1>0, <2>5, ReorderedCore DEF Reordered, Returned, AfterReorder
  <2>6. CASE SortDomain
    BY <1>0, <2>6, ReorderedCore DEF SortDomain, AfterReorder
  <2>7. QED
    BY <1>2, <2>1, <2>2, <2>3, <2>4, <2>5, <2>6 DEF Host
<1>3. CASE \E i \in Threads : Thread(i)
  <2>1. PICK i \in Threads : Thread(i)
    BY <1>3
  <2>2. CASE Count(i)
    BY <2>2, CountCore
  <2>3. CASE StoreIds(i)
    BY <2>3, StoreIdsCore
  <2>4. CASE FillCells(i)
    BY <1>0, <2>4, FillCellsCore
  <2>5. CASE ReorderParts(i)
    BY <1>0, <2>5, ReorderPartsCore
  <2>6. CASE Mark(i)
    BY <1>0, <2>6, ReorderedCore DEF Mark, AfterReorder
  <2>7. QED
    BY <2>1, <2>2, <2>3, <2>4, <2>5, <2>6 DEF Thread
<1>4. CASE UNCHANGED vars
  BY <1>4, StutterCore
<1>5. QED
  BY <1>1, <1>2, <1>3, <1>4 DEF Next
-----------------------------------------------------------------------------
(***************************************************************************)
(* The types, and the domain list.                                         *)
(***************************************************************************)

\* The part of TypeOK about one array.
ArrayOK(a) == DOMAIN a \subseteq 0 .. MaxPart - 1 /\ \A i \in DOMAIN a : a[i] \in Value

ArraysOK == /\ ArrayOK(cells) /\ ArrayOK(sorted_to_not_sorted)
            /\ ArrayOK(non_sorted_to_sorted) /\ ArrayOK(pl_out)

CallOK == pl \in Positions /\ g_m \in 0 .. MaxPart /\ opt \in {"Full", "Only"}

Kernels == {"none", "idle", "subindex", "scan", "fill_cells", "reorder_parts",
            "mark_domain_particles"}

SizesOK == kernel # "none" => DOMAIN cl_n = Bins /\ DOMAIN part_ids = Threads

LEMMA TypeParts ==
  TypeOK <=> /\ CallOK /\ kernel \in Kernels /\ done \subseteq Threads \cup Bins /\ ArraysOK
             /\ DOMAIN sorted_domain_particles_ids = DOMAIN sorted_domain_particles_dg
             /\ SizesOK
BY DEF TypeOK, CallOK, Kernels, ArraysOK, ArrayOK, SizesOK

LEMMA TypeTogether ==
  ASSUME CallOK', kernel' \in Kernels, done' \subseteq Threads' \cup Bins, ArraysOK',
         DOMAIN sorted_domain_particles_ids' = DOMAIN sorted_domain_particles_dg',
         SizesOK'
  PROVE  TypeOK'
BY DEF TypeOK, CallOK, Kernels, ArraysOK, ArrayOK, SizesOK

LEMMA ResizeOK ==
  ASSUME NEW a, ArrayOK(a), NEW I, I \subseteq 0 .. MaxPart - 1
  PROVE  ArrayOK(Resize(a, I))
BY DEF ArrayOK, Resize, Value

LEMMA WriteOK ==
  ASSUME NEW a, ArrayOK(a), NEW i, NEW e \in Value
  PROVE  ArrayOK([a EXCEPT ![i] = e])
BY DEF ArrayOK

LEMMA PositionsIn ==
  ASSUME NEW pos \in Positions
  PROVE  /\ DOMAIN pos \subseteq 0 .. MaxPart - 1
         /\ Cardinality(DOMAIN pos) \in 0 .. MaxPart
         /\ \A i \in DOMAIN pos : pos[i] \in Value
<1>1. PICK n \in 0 .. MaxPart : pos \in [0 .. n - 1 -> Cells]
  BY DEF Positions
<1>2. n \in Nat /\ MaxPart \in Nat /\ DOMAIN pos = 0 .. n - 1
  BY <1>1, MaxPartAssumption
<1>3. Cardinality(DOMAIN pos) = n
  BY <1>2, FS_Interval
<1>4. \A i \in DOMAIN pos : pos[i] \in Value
  BY <1>1, <1>2, NCellsAssumption DEF Cells, Value
<1>5. QED
  BY <1>2, <1>3, <1>4

\* The threads of the construct that runs.
LEMMA ThreadsIn ==
  ASSUME TypeOK
  PROVE  /\ Threads \subseteq 0 .. MaxPart - 1 /\ Threads \subseteq Value
         /\ \A i \in Threads : pl[i] \in Value
<1>1. pl \in Positions
  BY DEF TypeOK
<1>2. Threads \subseteq 0 .. MaxPart - 1 /\ \A i \in Threads : pl[i] \in Value
  BY <1>1, PositionsIn DEF Threads
<1>3. QED
  BY <1>2 DEF Value

LEMMA InitType ==
  ASSUME Init
  PROVE  TypeOK
<1>1. DOMAIN Empty = {}
  BY DEF Empty
<1>2. CallOK
  <2>1. Empty \in [0 .. 0 - 1 -> Cells] /\ 0 \in 0 .. MaxPart
    BY MaxPartAssumption DEF Empty
  <2>2. QED
    BY <2>1 DEF CallOK, Init, Positions
<1>3. ArrayOK(Empty)
  BY <1>1 DEF ArrayOK
<1>4. QED
  BY <1>1, <1>2, <1>3, TypeParts DEF Init, Kernels, ArraysOK, SizesOK

LEMMA ConstructType ==
  ASSUME TypeOK, NEW pos \in Positions, NEW o \in {"Full", "Only"},
         NEW g \in 0 .. Cardinality(DOMAIN pos), Construct(pos, g, o)
  PROVE  TypeOK'
<1>1. CallOK'
  BY PositionsIn, MaxPartAssumption DEF CallOK, Construct
<1>2. ArraysOK /\ DOMAIN sorted_domain_particles_ids = DOMAIN sorted_domain_particles_dg
  BY TypeParts
<1>3. ArraysOK'
  <2>1. ArrayOK(Resize(pl_out, DOMAIN pos))
    BY <1>2, PositionsIn, ResizeOK DEF ArraysOK
  <2>2. QED
    BY <1>2, <2>1 DEF ArraysOK, ArrayOK, Construct
<1>4. SizesOK'
  BY DEF SizesOK, Construct, Counters, Resize, Threads
<1>5. kernel' \in Kernels /\ done' = {}
  BY DEF Construct, Kernels
<1>6. DOMAIN sorted_domain_particles_ids' = DOMAIN sorted_domain_particles_dg'
  BY <1>2 DEF Construct, domain
<1>7. QED
  BY <1>1, <1>3, <1>4, <1>5, <1>6, TypeTogether

LEMMA ClearType ==
  ASSUME TypeOK, Clear
  PROVE  TypeOK'
<1>1. ArrayOK(Empty)
  BY DEF ArrayOK, Empty
<1>2. ArraysOK' /\ CallOK' /\ SizesOK'
  BY <1>1, TypeParts DEF Clear, ArraysOK, ArrayOK, CallOK, SizesOK, call
<1>3. kernel' \in Kernels /\ done' \subseteq Threads' \cup Bins
  BY TypeParts DEF Clear, Kernels, call, Threads
<1>4. DOMAIN sorted_domain_particles_ids' = DOMAIN sorted_domain_particles_dg'
  BY TypeParts DEF Clear, domain
<1>5. QED
  BY <1>2, <1>3, <1>4, TypeTogether

\* Every other step leaves the call alone, and the sizes once they are set.
LEMMA StepType ==
  ASSUME TypeOK, UNCHANGED call, kernel # "none", kernel' \in Kernels,
         done' \subseteq Threads \cup Bins, ArraysOK',
         DOMAIN cl_n' = DOMAIN cl_n, DOMAIN part_ids' = DOMAIN part_ids,
         DOMAIN sorted_domain_particles_ids' = DOMAIN sorted_domain_particles_dg'
  PROVE  TypeOK'
<1>1. CallOK' /\ Threads' = Threads
  BY TypeParts DEF CallOK, call, Threads
<1>2. SizesOK'
  BY <1>1, TypeParts DEF SizesOK
<1>3. QED
  BY <1>1, <1>2, TypeTogether

LEMMA CountingType ==
  ASSUME TypeOK, NEW i \in Threads, Count(i) \/ StoreIds(i)
  PROVE  TypeOK'
<1>1. ArraysOK'
  BY TypeParts DEF Count, StoreIds, ArraysOK, ArrayOK, sorted
<1>2. /\ UNCHANGED call /\ kernel # "none" /\ kernel' \in Kernels
      /\ DOMAIN cl_n' = DOMAIN cl_n /\ DOMAIN part_ids' = DOMAIN part_ids
  BY DEF Count, StoreIds, Kernels
<1>3. done' \subseteq Threads \cup Bins
  BY TypeParts DEF Count, StoreIds
<1>4. DOMAIN sorted_domain_particles_ids' = DOMAIN sorted_domain_particles_dg'
  BY TypeParts DEF Count, StoreIds, domain
<1>5. QED
  BY <1>1, <1>2, <1>3, <1>4, StepType

LEMMA ScanType ==
  ASSUME TypeOK, LaunchScan \/ (\E c \in Bins : Scan(c)) \/ LaunchFill
  PROVE  TypeOK'
<1>1. ArraysOK'
  <2>1. ArrayOK(Resize(cells, Threads))
    BY TypeParts, ThreadsIn, ResizeOK DEF ArraysOK
  <2>2. cells' = cells \/ cells' = Resize(cells, Threads)
    BY DEF LaunchScan, Scan, LaunchFill
  <2>3. UNCHANGED sorted
    BY DEF LaunchScan, Scan, LaunchFill
  <2>4. QED
    BY <2>1, <2>2, <2>3, TypeParts DEF ArraysOK, ArrayOK, sorted
<1>2. /\ UNCHANGED call /\ kernel # "none" /\ kernel' \in Kernels /\ UNCHANGED index
      /\ UNCHANGED domain
  BY DEF LaunchScan, Scan, LaunchFill, Kernels
<1>3. done' \subseteq Threads \cup Bins
  BY NCellsAssumption DEF LaunchScan, Scan, LaunchFill, Bins
<1>4. QED
  BY <1>1, <1>2, <1>3, TypeParts, StepType DEF index, domain

LEMMA FillCellsType ==
  ASSUME TypeOK, NEW i \in Threads, FillCells(i)
  PROVE  TypeOK'
<1>1. i \in Value /\ ArrayOK(cells)
  BY TypeParts, ThreadsIn DEF ArraysOK
<1>2. ArrayOK([cells EXCEPT ![FillPlace(i)] = i])
  BY <1>1, WriteOK
<1>3. ArraysOK'
  BY <1>2, TypeParts DEF FillCells, ArraysOK, ArrayOK, sorted
<1>4. /\ UNCHANGED call /\ kernel # "none" /\ kernel' \in Kernels /\ UNCHANGED index
      /\ UNCHANGED domain
  BY DEF FillCells, Kernels
<1>5. done' \subseteq Threads \cup Bins
  BY TypeParts DEF FillCells
<1>6. QED
  BY <1>3, <1>4, <1>5, TypeParts, StepType DEF index, domain

LEMMA LaunchReorderType ==
  ASSUME TypeOK, Core, deterministic' = deterministic, LaunchReorder
  PROVE  TypeOK'
<1>1. UNCHANGED call /\ kernel = "fill_cells" /\ kernel' = "reorder_parts" /\ done' = {}
  BY DEF LaunchReorder
<1>2. Threads' = Threads
  BY <1>1 DEF call, Threads
<1>3. ArrayOK(cells')
  <2>1. CASE ~deterministic
    BY <2>1, TypeParts DEF LaunchReorder, ArraysOK
  <2>2. CASE deterministic
    <3>1. \A k \in Threads : cells'[k] \in Threads
      BY <1>1, <1>2, LaunchReorderCore DEF Core, Placed, Listed, AfterFill, AfterScan, AfterCount
    <3>2. DOMAIN cells' = Threads
      BY <2>2 DEF LaunchReorder, SortByCell, MergeSort
    <3>3. QED
      BY <3>1, <3>2, ThreadsIn DEF ArrayOK
  <2>3. QED
    BY <2>1, <2>2
<1>4. /\ ArrayOK(Resize(sorted_to_not_sorted, Threads))
      /\ ArrayOK(Resize(non_sorted_to_sorted, Threads))
  BY TypeParts, ThreadsIn, ResizeOK DEF ArraysOK
<1>5. ArraysOK'
  BY <1>3, <1>4, TypeParts DEF LaunchReorder, ArraysOK, ArrayOK
<1>6. DOMAIN part_ids' = DOMAIN part_ids
  <2>1. DOMAIN part_ids = Threads
    BY <1>1, TypeParts DEF SizesOK
  <2>2. QED
    BY <2>1 DEF LaunchReorder, SortByCell
<1>7. cl_n' = cl_n
  BY DEF LaunchReorder
<1>8. DOMAIN sorted_domain_particles_ids' = DOMAIN sorted_domain_particles_dg'
  BY DEF LaunchReorder, Resize
<1>9. QED
  BY <1>1, <1>5, <1>6, <1>7, <1>8, StepType DEF Kernels

LEMMA ReorderPartsType ==
  ASSUME TypeOK, Core, NEW k \in Threads, ReorderParts(k)
  PROVE  TypeOK'
<1>1. cells[k] \in Threads
  BY DEF ReorderParts, Core, Placed, Listed, AfterFill, AfterScan, AfterCount
<1>2. pl[cells[k]] \in Value /\ cells[k] \in Value /\ k \in Value
  BY <1>1, ThreadsIn
<1>3. /\ ArrayOK([pl_out EXCEPT ![k] = pl[cells[k]]])
      /\ ArrayOK([sorted_to_not_sorted EXCEPT ![k] = cells[k]])
      /\ ArrayOK([non_sorted_to_sorted EXCEPT ![cells[k]] = k])
  BY <1>2, TypeParts, WriteOK DEF ArraysOK
<1>4. ArraysOK'
  BY <1>3, TypeParts DEF ReorderParts, ArraysOK, ArrayOK
<1>5. /\ UNCHANGED call /\ kernel # "none" /\ kernel' \in Kernels /\ UNCHANGED index
      /\ UNCHANGED domain
  BY DEF ReorderParts, Kernels
<1>6. done' \subseteq Threads \cup Bins
  BY TypeParts DEF ReorderParts
<1>7. QED
  BY <1>4, <1>5, <1>6, TypeParts, StepType DEF index, domain

LEMMA DomainType ==
  ASSUME TypeOK, Reordered \/ SortDomain \/ \E k \in Threads : Mark(k)
  PROVE  TypeOK'
<1>1. ArraysOK'
  BY TypeParts DEF Reordered, SortDomain, Mark, ArraysOK, ArrayOK, sorted
<1>2. UNCHANGED call /\ kernel # "none" /\ kernel' \in Kernels /\ UNCHANGED index
  BY DEF Reordered, SortDomain, Mark, Kernels
<1>3. done' \subseteq Threads \cup Bins
  BY TypeParts DEF Reordered, SortDomain, Mark
<1>4. DOMAIN sorted_domain_particles_ids' = DOMAIN sorted_domain_particles_dg'
  BY TypeParts DEF Reordered, SortDomain, Mark, MergeSort, domain
<1>5. QED
  BY <1>1, <1>2, <1>3, <1>4, StepType DEF index

LEMMA NextType ==
  ASSUME TypeOK, Core, [Next]_vars
  PROVE  TypeOK'
<1>0. deterministic' = deterministic
  BY DEF Next, vars
<1>1. CASE Launch
  BY <1>1, ConstructType, ClearType DEF Launch
<1>2. CASE Host
  BY <1>0, <1>2, ScanType, LaunchReorderType, DomainType DEF Host
<1>3. CASE \E i \in Threads : Thread(i)
  BY <1>3, CountingType, FillCellsType, ReorderPartsType, DomainType DEF Thread
<1>4. CASE UNCHANGED vars
  <2>1. /\ UNCHANGED <<call, kernel, done, index, cells, sorted, domain>>
        /\ Threads' = Threads
    BY <1>4 DEF vars, call, Threads
  <2>2. ArraysOK' /\ CallOK' /\ SizesOK'
    BY <2>1, TypeParts DEF ArraysOK, ArrayOK, CallOK, SizesOK, call, index, sorted
  <2>3. DOMAIN sorted_domain_particles_ids' = DOMAIN sorted_domain_particles_dg'
    BY <2>1, TypeParts DEF domain
  <2>4. kernel' \in Kernels /\ done' \subseteq Threads' \cup Bins
    BY <2>1, TypeParts
  <2>5. QED
    BY <2>2, <2>3, <2>4, TypeTogether
<1>5. QED
  BY <1>1, <1>2, <1>3, <1>4 DEF Next

\* mark_domain_particles: each thread writes its own two entries.
LEMMA MarkMarking ==
  ASSUME TypeOK, Core, Marking, NEW k \in Threads, Mark(k)
  PROVE  Marking'
<1>1. /\ kernel = "mark_domain_particles" /\ kernel' = kernel /\ done' = done \cup {k}
      /\ Threads' = Threads /\ g_m' = g_m /\ sorted_to_not_sorted' = sorted_to_not_sorted
      /\ sorted_domain_particles_dg' =
           [sorted_domain_particles_dg EXCEPT ![k] = IsGhost(sorted_to_not_sorted[k])]
      /\ sorted_domain_particles_ids' = [sorted_domain_particles_ids EXCEPT ![k] = k]
  BY DEF Mark, call, sorted, Threads
<1>2. /\ DOMAIN sorted_domain_particles_ids = Threads
      /\ DOMAIN sorted_domain_particles_dg = Threads
      /\ \A j \in done : /\ sorted_domain_particles_ids[j] = j
                         /\ sorted_domain_particles_dg[j] = IsGhost(sorted_to_not_sorted[j])
  BY <1>1 DEF Marking
<1>3. \A p : IsGhost(p)' = IsGhost(p)
  BY <1>1 DEF IsGhost
<1>4. ASSUME NEW j \in done'
      PROVE  /\ sorted_domain_particles_ids'[j] = j
             /\ sorted_domain_particles_dg'[j] = IsGhost(sorted_to_not_sorted[j])
  <2>1. CASE j = k
    BY <1>1, <1>2, <2>1
  <2>2. CASE j # k
    <3>1. j \in done
      BY <1>1, <2>2
    <3>2. /\ sorted_domain_particles_ids'[j] = sorted_domain_particles_ids[j]
          /\ sorted_domain_particles_dg'[j] = sorted_domain_particles_dg[j]
      BY <1>1, <2>2
    <3>3. QED
      BY <1>2, <3>1, <3>2
  <2>3. QED
    BY <2>1, <2>2
<1>5. QED
  BY <1>1, <1>2, <1>3, <1>4 DEF Marking, IsGhost

\* The stable sort by dg: the domain particles first, in the order of ids.
LEMMA SortDomainDivided ==
  ASSUME TypeOK, Core, Marking, SortDomain
  PROVE  Divided'
<1> DEFINE dg == sorted_domain_particles_dg
           ids == sorted_domain_particles_ids
           sns == sorted_to_not_sorted
<1>1. /\ kernel = "mark_domain_particles" /\ done = Threads
      /\ Threads' = Threads /\ g_m' = g_m /\ sorted_to_not_sorted' = sns
      /\ sorted_domain_particles_ids' = MergeSort(dg, ids)
  BY DEF SortDomain, Returned, call, sorted, Threads
<1>2. PICK n \in Nat : Threads = 0 .. n - 1
  BY ThreadsFinite DEF Core
<1>3. /\ DOMAIN dg = Threads
      /\ \A k \in Threads : ids[k] = k /\ dg[k] = IsGhost(sns[k])
  BY <1>1 DEF Marking
<1>4. \A k \in Threads : sns[k] \in Int
  <2>1. \A k \in Threads : sns[k] = cells[k]
    BY <1>1 DEF Core, Reordering, AfterReorder, Moved
  <2>2. \A k \in Threads : cells[k] \in Threads
    BY <1>1 DEF Core, Placed, Listed, AfterFill, AfterScan, AfterCount
  <2>3. QED
    BY <1>2, <2>1, <2>2
<1>5. g_m \in Nat
  BY MaxPartAssumption DEF TypeOK
<1>6. KeysOf(n, dg)
  <2>1. \A k \in Threads : dg[k] \in {0, 1}
    BY <1>3 DEF IsGhost
  <2>2. QED
    BY <1>2, <1>3, <2>1 DEF KeysOf
<1> HIDE DEF dg, ids, sns
<1>p. OutOf(n, dg, ids)
  BY <1>2, <1>6, Sorted
<1>7. \A k \in Threads : /\ From(dg, k) \in Threads
                         /\ MergeSort(dg, ids)[k] = From(dg, k)
  BY <1>2, <1>3, <1>p DEF OutOf
<1>8. \A k, l \in Threads : k < l => Before(dg, From(dg, k), From(dg, l))
  BY <1>2, <1>p DEF OutOf
<1>9. ASSUME NEW p \in Threads, NEW q \in Threads, Before(dg, p, q)
      PROVE  /\ sns[p] < g_m \/ sns[q] >= g_m
             /\ (sns[p] < g_m <=> sns[q] < g_m) => p < q
  <2>1. sns[p] \in Int /\ sns[q] \in Int /\ dg[p] = IsGhost(sns[p]) /\ dg[q] = IsGhost(sns[q])
    BY <1>3, <1>4
  <2>2. QED
    BY <1>5, <1>9, <2>1 DEF Before, IsGhost
<1>10. \A k, l \in Threads : k < l =>
         LET p == MergeSort(dg, ids)[k]
             q == MergeSort(dg, ids)[l]
         IN /\ sns[p] < g_m \/ sns[q] >= g_m
            /\ (sns[p] < g_m <=> sns[q] < g_m) => p < q
  BY <1>7, <1>8, <1>9
<1>11. QED
  BY <1>1, <1>10 DEF Divided, sns, ids, dg

LEMMA NextDomain ==
  ASSUME TypeOK, Core, Marking, Divided, [Next]_vars
  PROVE  Marking' /\ Divided'
<1>1. CASE \/ \E pos \in Positions, o \in {"Full", "Only"} :
                \E g \in Markers \cap 0 .. Cardinality(DOMAIN pos) : Construct(pos, g, o)
           \/ Clear
  <2>1. kernel' \in {"none", "subindex"} \/ (kernel' = "idle" /\ Threads' = {})
    BY <1>1 DEF Construct, Clear, Threads
  <2>2. QED
    BY <2>1 DEF Marking, Divided
<1>2. CASE LaunchScan \/ (\E c \in Bins : Scan(c)) \/ LaunchFill
  <2>1. kernel' \in {"scan", "fill_cells"}
    BY <1>2 DEF LaunchScan, Scan, LaunchFill
  <2>2. QED
    BY <2>1 DEF Marking, Divided
<1>3. CASE \E i \in Threads : Count(i) \/ StoreIds(i) \/ FillCells(i)
  <2>1. kernel' \in {"subindex", "fill_cells"}
    BY <1>3 DEF Count, StoreIds, FillCells
  <2>2. QED
    BY <2>1 DEF Marking, Divided
<1>4. CASE LaunchReorder
  <2>1. kernel' = "reorder_parts" /\ Threads' = Threads
    BY <1>4 DEF LaunchReorder, call, Threads
  <2>2. /\ DOMAIN sorted_domain_particles_ids' = Threads
        /\ DOMAIN sorted_domain_particles_dg' = Threads
    BY <1>4 DEF LaunchReorder, Resize
  <2>3. QED
    BY <2>1, <2>2 DEF Marking, Divided
<1>5. CASE \E k \in Threads : ReorderParts(k)
  <2>1. /\ kernel = "reorder_parts" /\ kernel' = "reorder_parts" /\ Threads' = Threads
        /\ UNCHANGED domain
    BY <1>5 DEF ReorderParts, call, Threads
  <2>2. QED
    BY <2>1 DEF Marking, Divided, domain
<1>6. CASE Reordered
  <2>1. /\ kernel = "reorder_parts" /\ Threads' = Threads /\ UNCHANGED domain
        /\ done' = {} /\ opt' = opt
        /\ kernel' = IF opt = "Full" THEN "mark_domain_particles" ELSE "idle"
    BY <1>6 DEF Reordered, call, Threads
  <2>2. QED
    BY <2>1 DEF Marking, Divided, domain
<1>7. CASE \E k \in Threads : Mark(k)
  <2>1. kernel' = "mark_domain_particles"
    BY <1>7 DEF Mark
  <2>2. QED
    BY <1>7, <2>1, MarkMarking DEF Divided
<1>8. CASE SortDomain
  <2>1. kernel' = "idle"
    BY <1>8 DEF SortDomain
  <2>2. QED
    BY <1>8, <2>1, SortDomainDivided DEF Marking
<1>9. CASE UNCHANGED vars
  BY <1>9 DEF vars, call, sorted, domain, Marking, Divided, Threads, IsGhost
<1>10. QED
  BY <1>1, <1>2, <1>3, <1>4, <1>5, <1>6, <1>7, <1>8, <1>9 DEF Next, Launch, Host, Thread
-----------------------------------------------------------------------------
(***************************************************************************)
(* The theorems.                                                           *)
(***************************************************************************)

LEMMA Inductive == Spec => []IInv
<1>1. Init => IInv
  <2>1. ASSUME Init PROVE Marking /\ Divided
    BY <2>1 DEF Init, Marking, Divided
  <2>2. QED
    BY <2>1, InitType, InitCore DEF IInv
<1>2. IInv /\ [Next]_vars => IInv'
  BY NextType, NextCore, NextDomain DEF IInv
<1>3. QED
  BY <1>1, <1>2, PTL DEF Spec

\* However the threads of fill_cells and reorder_parts interleave, no two of
\* them write the same entry and none writes outside its array: construct is
\* free of write races after the atomic counting of subindex.
THEOREM WriteConflictFree == Spec => []NoWriteConflict
<1>1. IInv => NoWriteConflict
  BY InvNoWriteConflict DEF IInv
<1>2. QED
  BY <1>1, Inductive, PTL

\* Every construct leaves the particles grouped by cell, between the entries of
\* starts that the host accessors and the device iterators use.
THEOREM CellsGrouped == Spec => []Grouped
<1>1. IInv => Grouped
  BY InvGrouped DEF IInv
<1>2. QED
  BY <1>1, Inductive, PTL

\* Every construct leaves two index maps that are inverse of each other, and the
\* particles moved along them.
THEOREM IndexMapsInverse == Spec => []MapsInverse
<1>1. IInv => MapsInverse
  BY InvMapsInverse DEF IInv
<1>2. QED
  BY <1>1, Inductive, PTL

\* A construct that makes the domain list puts the sorted places of the domain
\* particles before those of the ghosts, both in sorted order, whatever is left
\* in the arrays by the construct before.
THEOREM DomainParticlesFirst == Spec => []DomainFirst
<1>1. IInv => DomainFirst
  BY DEF IInv, Divided, DomainFirst
<1>2. QED
  BY <1>1, Inductive, PTL

\* In the build with MAKE_CELLLIST_DETERMINISTIC the particles of a cell stand in
\* the order of their indices, however the threads interleave.
THEOREM OrderDeterministic == Spec => []DeterministicOrder
<1>1. IInv => DeterministicOrder
  BY InvDeterministicOrder DEF IInv
<1>2. QED
  BY <1>1, Inductive, PTL

-----------------------------------------------------------------------------
(* DeviceScan.  The sums and the loops of the warps are functions made step  *)
(* by step: that they exist, and what they hold, is shown by the least place *)
(* at which they would not.                                                  *)

Less == {ss \in Nat \X Nat : ss[1] < ss[2]}

\* A set of natural numbers has a least one.
LEMMA LeastNat ==
  ASSUME NEW S \in SUBSET Nat, S # {}
  PROVE  \E m \in S : \A k \in S : m <= k
<1>1. IsWellFoundedOn(Less, Nat)
  BY NatLessThanWellFounded DEF OpToRel, Less
<1>2. \E m \in S : \A k \in S : ~(<<k, m>> \in Less)
  BY <1>1, WFMin
<1>3. \A k, m \in Nat : k < m => <<k, m>> \in Less
  BY DEF Less
<1>4. \A k, m \in Nat : ~(k < m) => m <= k
  OBVIOUS
<1>5. QED
  BY <1>2, <1>3, <1>4

-----------------------------------------------------------------------------
(* Functions computed from the value at 0 up: the sums and the loops of the *)
(* warps.  G gives the next value.                                          *)

Grows(f, b, c, G) == f[0] = c /\ \A n \in 1 .. b : f[n] = G[<<n, f[n - 1]>>]

Short(b, c, V, G) == {d \in 0 .. b : ~ \E f \in [0 .. d -> V] : Grows(f, d, c, G)}

\* There is such a function, whatever the bound.
LEMMA GrowsExists ==
  ASSUME NEW V, NEW c \in V, NEW b \in Nat, NEW G \in [(1 .. b) \X V -> V]
  PROVE  \E f \in [0 .. b -> V] : Grows(f, b, c, G)
<1>1. SUFFICES ASSUME Short(b, c, V, G) # {} PROVE FALSE
  BY DEF Short
<1>2. Short(b, c, V, G) \in SUBSET Nat
  BY DEF Short
<1>3. PICK d \in Short(b, c, V, G) : \A e \in Short(b, c, V, G) : d <= e
  BY <1>1, <1>2, LeastNat
<1>4. d \in 0 .. b /\ ~ \E f \in [0 .. d -> V] : Grows(f, d, c, G)
  BY DEF Short
<1>5. d # 0
  <2>1. /\ [n \in 0 .. 0 |-> c] \in [0 .. 0 -> V]
        /\ Grows([n \in 0 .. 0 |-> c], 0, c, G)
    BY DEF Grows
  <2>2. QED
    BY <1>4, <2>1
<1>6. d - 1 \in 0 .. b /\ d - 1 \notin Short(b, c, V, G)
  BY <1>3, <1>4, <1>5
<1>7. PICK f \in [0 .. d - 1 -> V] : Grows(f, d - 1, c, G)
  BY <1>6 DEF Short
<1> DEFINE w == [n \in 0 .. d |-> IF n = d THEN G[<<d, f[d - 1]>>] ELSE f[n]]
<1>8. f[d - 1] \in V /\ G[<<d, f[d - 1]>>] \in V
  BY <1>4, <1>5, <1>7
<1>9. w \in [0 .. d -> V]
  BY <1>4, <1>5, <1>7, <1>8
<1>10. \A n \in 0 .. d : n # d => n \in 0 .. d - 1 /\ w[n] = f[n]
  BY <1>4
<1>11. w[0] = c
  BY <1>4, <1>5, <1>7, <1>10 DEF Grows
<1>12. ASSUME NEW n \in 1 .. d PROVE w[n] = G[<<n, w[n - 1]>>]
  <2>1. CASE n = d
    <3>1. w[d] = G[<<d, f[d - 1]>>] /\ w[d - 1] = f[d - 1]
      BY <1>4, <1>5
    <3> HIDE DEF w
    <3>2. QED
      BY <2>1, <3>1
  <2>2. CASE n # d
    <3>1. n \in 1 .. d - 1 /\ w[n] = f[n] /\ w[n - 1] = f[n - 1]
      BY <1>4, <2>2
    <3> HIDE DEF w
    <3>2. QED
      BY <1>7, <3>1 DEF Grows
  <2>3. QED
    BY <2>1, <2>2
<1>13. Grows(w, d, c, G)
  <2> HIDE DEF w
  <2>1. QED
    BY <1>11, <1>12 DEF Grows
<1>14. QED
  BY <1>4, <1>9, <1>13

-----------------------------------------------------------------------------
(* Sums.  Where the terms are the differences of some g, their sum is a      *)
(* difference of g too.                                                      *)

Summing(f, n, s) == s = [i \in 0 .. n |-> IF i = 0 THEN 0 ELSE s[i - 1] + f[i - 1]]

TotalFunction(f, n) == CHOOSE s : Summing(f, n, s)

\* Total names the function its LET defines.
LEMMA TotalIs == ASSUME NEW f, NEW n PROVE Total(f, n) = TotalFunction(f, n)[n]
BY DEF Total, TotalFunction, Summing

Ints(f, n) == \A i \in 0 .. n - 1 : f[i] \in Int

\* The function of the sums exists and has them at every place.
LEMMA SummingExists ==
  ASSUME NEW n \in Nat, NEW f, Ints(f, n)
  PROVE  Summing(f, n, TotalFunction(f, n))
<1> DEFINE G == [p \in (1 .. n) \X Int |-> p[2] + f[p[1] - 1]]
<1>1. G \in [(1 .. n) \X Int -> Int]
  BY DEF Ints
<1>2. \A i \in 1 .. n, x \in Int : G[<<i, x>>] = x + f[i - 1]
  OBVIOUS
<1> HIDE DEF G
<1> DEFINE V == Int
<1>3. PICK s \in [0 .. n -> Int] : Grows(s, n, 0, G)
  <2>1. 0 \in V /\ G \in [(1 .. n) \X V -> V]
    BY <1>1
  <2> HIDE DEF V
  <2>2. \E s \in [0 .. n -> V] : Grows(s, n, 0, G)
    BY <2>1, GrowsExists
  <2>3. QED
    BY <2>2 DEF V
<1>4. \A i \in 0 .. n : s[i] = IF i = 0 THEN 0 ELSE s[i - 1] + f[i - 1]
  <2>1. ASSUME NEW i \in 0 .. n, i # 0 PROVE s[i] = s[i - 1] + f[i - 1]
    <3>1. i \in 1 .. n /\ s[i - 1] \in Int
      BY <2>1
    <3>2. QED
      BY <1>2, <1>3, <3>1 DEF Grows
  <2>2. QED
    BY <1>3, <2>1 DEF Grows
<1>5. Summing(f, n, s)
  <2>1. s = [i \in 0 .. n |-> s[i]]
    OBVIOUS
  <2>2. [i \in 0 .. n |-> s[i]] = [i \in 0 .. n |-> IF i = 0 THEN 0 ELSE s[i - 1] + f[i - 1]]
    BY <1>4
  <2>3. QED
    BY <2>1, <2>2, Zenon DEF Summing
<1>6. QED
  BY <1>5 DEF TotalFunction

Astray(n, s, g) == {i \in 0 .. n : s[i] # g[i] - g[0]}

\* The sum of differences is the difference of the ends.
LEMMA Telescope ==
  ASSUME NEW n \in Nat, NEW f, NEW g, Ints(g, n + 1),
         \A i \in 0 .. n - 1 : f[i] = g[i + 1] - g[i]
  PROVE  Total(f, n) = g[n] - g[0]
<1> DEFINE s == TotalFunction(f, n)
<1>1. \A i \in 0 .. n : g[i] \in Int
  BY DEF Ints
<1>2. Ints(f, n)
  BY <1>1 DEF Ints
<1>3. Summing(f, n, s)
  BY <1>2, SummingExists
<1> HIDE DEF s
<1>4. \A i \in 0 .. n : s[i] = IF i = 0 THEN 0 ELSE s[i - 1] + f[i - 1]
  BY <1>3 DEF Summing
<1>5. Astray(n, s, g) = {}
  <2>1. SUFFICES ASSUME Astray(n, s, g) # {} PROVE FALSE
    OBVIOUS
  <2>2. Astray(n, s, g) \in SUBSET Nat
    BY DEF Astray
  <2>3. PICK i \in Astray(n, s, g) : \A k \in Astray(n, s, g) : i <= k
    BY <2>1, <2>2, LeastNat
  <2>4. i \in 0 .. n /\ s[i] # g[i] - g[0]
    BY DEF Astray
  <2>5. i # 0
    BY <1>1, <1>4, <2>4
  <2>6. i - 1 \in 0 .. n - 1 /\ i - 1 \notin Astray(n, s, g)
    BY <2>3, <2>4, <2>5
  <2>7. s[i - 1] = g[i - 1] - g[0] /\ f[i - 1] = g[i] - g[i - 1]
    BY <2>4, <2>5, <2>6 DEF Astray
  <2>8. s[i] = s[i - 1] + f[i - 1]
    BY <1>4, <2>4, <2>5
  <2>9. QED
    BY <1>1, <2>4, <2>6, <2>7, <2>8
<1>6. s[n] = g[n] - g[0]
  BY <1>5 DEF Astray
<1>7. QED
  BY <1>6, TotalIs DEF s

\* The sum of no term is 0, and of one term more that term more.
LEMMA TotalFacts ==
  ASSUME NEW n \in Nat, NEW f, Ints(f, n)
  PROVE  /\ Total(f, 0) = 0
         /\ \A i \in 0 .. n : Total(f, i) \in Int
         /\ \A i \in 0 .. n - 1 : Total(f, i + 1) - Total(f, i) = f[i]
<1> DEFINE s == TotalFunction(f, n)
<1>1. Summing(f, n, s)
  BY SummingExists
<1> HIDE DEF s
<1>2. \A i \in 0 .. n : s[i] = IF i = 0 THEN 0 ELSE s[i - 1] + f[i - 1]
  BY <1>1 DEF Summing
<1> DEFINE bad == {i \in 0 .. n : s[i] \notin Int}
<1>3. bad = {}
  <2>1. SUFFICES ASSUME bad # {} PROVE FALSE
    OBVIOUS
  <2>2. bad \in SUBSET Nat
    OBVIOUS
  <2>3. PICK i \in bad : \A k \in bad : i <= k
    BY <2>1, <2>2, LeastNat
  <2>4. i # 0
    BY <1>2
  <2>5. i - 1 \in 0 .. n - 1 /\ i - 1 \notin bad
    BY <2>3, <2>4
  <2>6. s[i - 1] \in Int /\ f[i - 1] \in Int /\ s[i] = s[i - 1] + f[i - 1]
    BY <1>2, <2>3, <2>4, <2>5 DEF Ints
  <2>7. QED
    BY <2>3, <2>6
<1>4. \A i \in 0 .. n : s[i] \in Int
  BY <1>3
<1>5. ASSUME NEW m \in 0 .. n PROVE Total(f, m) = s[m]
  <2>1. Ints(s, m + 1)
    BY <1>4 DEF Ints
  <2>2. \A i \in 0 .. m - 1 : f[i] = s[i + 1] - s[i]
    <3>1. ASSUME NEW i \in 0 .. m - 1 PROVE f[i] = s[i + 1] - s[i]
      <4>1. i + 1 \in 0 .. n /\ i \in 0 .. n /\ i + 1 # 0 /\ i + 1 - 1 = i /\ i \in 0 .. n - 1
        BY <1>5
      <4>2. s[i + 1] = s[i] + f[i]
        BY <1>2, <4>1
      <4>3. QED
        BY <1>4, <4>1, <4>2 DEF Ints
    <3>2. QED
      BY <3>1
  <2>3. Total(f, m) = s[m] - s[0]
    BY <2>1, <2>2, Telescope
  <2>4. QED
    BY <1>2, <1>4, <2>3
<1>6. ASSUME NEW i \in 0 .. n - 1 PROVE Total(f, i + 1) - Total(f, i) = f[i]
  <2>1. i + 1 \in 0 .. n /\ i \in 0 .. n /\ i + 1 # 0 /\ i + 1 - 1 = i
    OBVIOUS
  <2>2. s[i + 1] = s[i] + f[i]
    BY <1>2, <2>1
  <2>3. s[i] \in Int /\ f[i] \in Int
    BY <1>4, <2>1 DEF Ints
  <2>4. QED
    BY <1>5, <2>1, <2>2, <2>3
<1>7. QED
  BY <1>2, <1>4, <1>5, <1>6

-----------------------------------------------------------------------------
(* The loops.  A loop of n turns reaches Width(n) lanes.                     *)

Width(n) == IF n = 0 THEN 1 ELSE 2 * Strides[n]

\* The counters of the loops are 1, 2, 4, ... as long as Strides has them.
LEMMA StridesFacts ==
  /\ Len(Strides) \in Nat \ {0}
  /\ \A n \in 1 .. Len(Strides) : Strides[n] \in Nat \ {0}
  /\ \A n \in 0 .. Len(Strides) : Width(n) \in Nat \ {0}
  /\ \A n \in 1 .. Len(Strides) : Strides[n] = Width(n - 1) /\ Width(n) = 2 * Width(n - 1)
<1> DEFINE K == Len(Strides)
           bad == {n \in 1 .. K : Strides[n] \notin Nat \ {0}}
<1>1. K \in Nat \ {0} /\ \A n \in 1 .. K : Strides[n] \in Nat
  BY StridesAssumption
<1>2. Strides[1] = 1 /\ \A n \in 1 .. K - 1 : Strides[n + 1] = 2 * Strides[n]
  BY StridesAssumption
<1> HIDE DEF K
<1>3. bad = {}
  <2>1. SUFFICES ASSUME bad # {} PROVE FALSE
    OBVIOUS
  <2>2. bad \in SUBSET Nat
    BY <1>1
  <2>3. PICK n \in bad : \A m \in bad : n <= m
    BY <2>1, <2>2, LeastNat
  <2>4. n \in 1 .. K /\ n # 1
    BY <1>2, <2>3
  <2>5. n - 1 \in 1 .. K - 1 /\ n - 1 \in 1 .. K /\ n - 1 \notin bad
    BY <1>1, <2>3, <2>4
  <2>6. Strides[n] = 2 * Strides[n - 1]
    <3>1. Strides[(n - 1) + 1] = 2 * Strides[n - 1] /\ (n - 1) + 1 = n
      BY <1>2, <2>4, <2>5
    <3>2. QED
      BY <3>1
  <2>7. QED
    BY <2>3, <2>5, <2>6
<1>4. \A n \in 1 .. K : Strides[n] \in Nat \ {0}
  BY <1>3
<1>5. \A n \in 0 .. K : Width(n) \in Nat \ {0}
  BY <1>1, <1>4 DEF Width
<1>6. ASSUME NEW n \in 1 .. K PROVE Strides[n] = Width(n - 1)
  <2>1. CASE n = 1
    BY <1>2, <2>1 DEF Width
  <2>2. CASE n # 1
    <3>1. n - 1 \in 1 .. K - 1 /\ (n - 1) + 1 = n
      BY <1>1, <2>2
    <3>2. Strides[(n - 1) + 1] = 2 * Strides[n - 1]
      BY <1>2, <3>1
    <3>3. QED
      BY <3>1, <3>2 DEF Width
  <2>3. QED
    BY <2>1, <2>2
<1>7. \A n \in 1 .. K : Width(n) = 2 * Strides[n]
  BY <1>1 DEF Width
<1>8. QED
  BY <1>1, <1>4, <1>5, <1>6, <1>7 DEF K

\* Each counter is at least twice any before it.
LEMMA StridesOrder ==
  ASSUME NEW m \in 1 .. Len(Strides), NEW n \in 1 .. Len(Strides), m < n
  PROVE  Width(m) <= Strides[n]
<1> DEFINE K == Len(Strides)
           bad == {k \in m + 1 .. K : ~(Width(m) <= Strides[k])}
<1>1. /\ K \in Nat \ {0} /\ m \in 1 .. K /\ n \in 1 .. K
      /\ \A k \in 1 .. K : Strides[k] \in Nat \ {0}
      /\ \A k \in 0 .. K : Width(k) \in Nat \ {0}
      /\ \A k \in 1 .. K : Strides[k] = Width(k - 1) /\ Width(k) = 2 * Width(k - 1)
  BY StridesFacts
<1> HIDE DEF K
<1>2. bad = {}
  <2>1. SUFFICES ASSUME bad # {} PROVE FALSE
    OBVIOUS
  <2>2. bad \in SUBSET Nat
    BY <1>1
  <2>3. PICK k \in bad : \A j \in bad : k <= j
    BY <2>1, <2>2, LeastNat
  <2>4. k \in m + 1 .. K /\ k \in 1 .. K /\ ~(Width(m) <= Strides[k])
    BY <1>1, <2>3
  <2>5. k # m + 1
    <3>1. SUFFICES ASSUME k = m + 1 PROVE FALSE
      OBVIOUS
    <3>2. Strides[k] = Width(k - 1)
      BY <1>1, <2>4
    <3>3. k - 1 = m
      BY <1>1, <3>1
    <3>4. Strides[k] = Width(m) /\ Width(m) \in Nat
      BY <1>1, <3>2, <3>3
    <3>5. QED
      BY <2>4, <3>4
  <2>6. k - 1 \in m + 1 .. K /\ k - 1 \in 1 .. K /\ k - 1 \notin bad
    BY <1>1, <2>3, <2>4, <2>5
  <2>7. Width(m) <= Strides[k - 1]
    BY <2>6
  <2>8. Strides[k] = Width(k - 1) /\ Width(k - 1) = 2 * Width((k - 1) - 1) /\ Strides[k - 1] = Width((k - 1) - 1)
    BY <1>1, <2>4, <2>6
  <2>9. Strides[k] = 2 * Strides[k - 1] /\ Strides[k - 1] \in Nat
    BY <1>1, <2>6, <2>8
  <2>10. Width(m) \in Nat
    BY <1>1
  <2>11. QED
    BY <2>4, <2>7, <2>9, <2>10
<1>3. n \in m + 1 .. K
  BY <1>1
<1>4. QED
  BY <1>2, <1>3

\* The sizes of warps and blocks.
LEMMA UnitsFacts ==
  /\ Warp \in Nat /\ Warp >= 2 /\ NWARP \in 1 .. Warp
  /\ THREADS \in Nat /\ THREADS >= Warp /\ THREADS >= NWARP /\ THREADS = NWARP * Warp
<1>1. PICK n \in 1 .. Len(Strides) : Warp = 2 * Strides[n]
  BY StridesAssumption
<1>2. Strides[n] \in Nat \ {0}
  BY StridesFacts
<1>3. Warp \in Nat /\ Warp >= 2 /\ NWARP \in 1 .. Warp
  BY <1>1, <1>2, UnitsAssumption
<1>4. PICK a \in Nat : NWARP = a + 1
  <2>1. NWARP - 1 \in Nat /\ NWARP = (NWARP - 1) + 1
    BY <1>3
  <2>2. QED
    BY <2>1
<1>5. Warp * NWARP = NWARP * Warp /\ NWARP * Warp = a * Warp + Warp /\ a * Warp \in Nat
  BY <1>3, <1>4
<1>6. QED
  BY <1>3, <1>5 DEF THREADS

\* Turns(limit) counts the counters below the limit, and they reach it.
LEMMA TurnsFacts ==
  ASSUME NEW limit \in 1 .. THREADS
  PROVE  /\ Turns(limit) \in 0 .. Len(Strides)
         /\ \A n \in 1 .. Len(Strides) : Strides[n] < limit <=> n <= Turns(limit)
         /\ limit <= Width(Turns(limit))
<1> DEFINE K == Len(Strides)
           far == {n \in 1 .. K : ~(Strides[n] < limit)}
<1>1. /\ K \in Nat \ {0}
      /\ \A k \in 1 .. K : Strides[k] \in Nat \ {0}
      /\ \A k \in 0 .. K : Width(k) \in Nat \ {0}
      /\ \A k \in 1 .. K : Strides[k] = Width(k - 1) /\ Width(k) = 2 * Width(k - 1)
      /\ \A m, n \in 1 .. K : m < n => Width(m) <= Strides[n]
  BY StridesFacts, StridesOrder
<1>2. THREADS \in Nat /\ limit \in Nat /\ limit <= THREADS
  BY UnitsFacts
<1>3. THREADS <= Width(K)
  BY <1>1, StridesAssumption DEF Width
<1>4. Turns(limit) = CHOOSE k \in 0 .. K : \A n \in 1 .. K : Strides[n] < limit <=> n <= k
  BY DEF Turns
<1> HIDE DEF K
<1>5. \E k \in 0 .. K : \A n \in 1 .. K : Strides[n] < limit <=> n <= k
  <2>1. CASE far = {}
    <3>1. \A n \in 1 .. K : Strides[n] < limit <=> n <= K
      BY <1>1, <2>1
    <3>2. QED
      BY <1>1, <3>1
  <2>2. CASE far # {}
    <3>1. far \in SUBSET Nat
      BY <1>1
    <3>2. PICK m \in far : \A j \in far : m <= j
      BY <2>2, <3>1, LeastNat
    <3>3. m \in 1 .. K /\ ~(Strides[m] < limit)
      BY <3>2
    <3>4. ASSUME NEW n \in 1 .. K PROVE Strides[n] < limit <=> n <= m - 1
      <4>1. CASE n < m
        <5>1. n \notin far
          BY <1>1, <3>2, <3>3, <4>1
        <5>2. QED
          BY <1>1, <3>3, <4>1, <5>1
      <4>2. CASE n = m
        BY <1>1, <3>3, <4>2
      <4>3. CASE n > m
        <5>1. Width(m) <= Strides[n] /\ Width(m) = 2 * Width(m - 1) /\ Strides[m] = Width(m - 1)
          BY <1>1, <3>3, <4>3
        <5>2. Strides[m] \in Nat /\ Strides[n] \in Nat
          BY <1>1, <3>3
        <5>3. QED
          BY <1>1, <1>2, <3>3, <4>3, <5>1, <5>2
      <4>4. QED
        BY <1>1, <3>3, <4>1, <4>2, <4>3
    <3>5. m - 1 \in 0 .. K
      BY <1>1, <3>3
    <3>6. QED
      BY <3>4, <3>5
  <2>3. QED
    BY <2>1, <2>2
<1> DEFINE k == Turns(limit)
<1>6. k \in 0 .. K /\ \A n \in 1 .. K : Strides[n] < limit <=> n <= k
  BY <1>4, <1>5
<1> HIDE DEF k
<1>7. limit <= Width(k)
  <2>1. CASE k = K
    BY <1>1, <1>2, <1>3, <2>1
  <2>2. CASE k # K
    <3>1. k + 1 \in 1 .. K /\ ~(k + 1 <= k) /\ (k + 1) - 1 = k
      BY <1>1, <1>6, <2>2
    <3>2. ~(Strides[k + 1] < limit) /\ Strides[k + 1] = Width((k + 1) - 1)
      BY <1>1, <1>6, <3>1
    <3>3. QED
      BY <1>1, <1>2, <1>6, <3>1, <3>2
  <2>3. QED
    BY <2>1, <2>2
<1>8. QED
  BY <1>6, <1>7 DEF k, K

\* A loop with a limit above 1 has a turn.
LEMMA TurnsMany ==
  ASSUME NEW limit \in 2 .. THREADS PROVE Turns(limit) \in 1 .. Len(Strides)
<1>1. limit \in 1 .. THREADS
  BY UnitsFacts
<1>2. Turns(limit) \in 0 .. Len(Strides) /\ \A n \in 1 .. Len(Strides) : Strides[n] < limit <=> n <= Turns(limit)
  BY <1>1, TurnsFacts
<1>3. 1 \in 1 .. Len(Strides) /\ Strides[1] = 1 /\ Len(Strides) \in Nat
  BY StridesFacts, StridesAssumption
<1>4. Strides[1] < limit
  BY <1>3, UnitsFacts
<1>5. 1 <= Turns(limit)
  BY <1>2, <1>3, <1>4
<1>6. QED
  BY <1>2, <1>3, <1>5

\* The last counter below the size of a warp is half of it.
LEMMA TurnsWarp == Turns(Warp) \in 1 .. Len(Strides) /\ Width(Turns(Warp)) = Warp
<1> DEFINE k == Turns(Warp)
<1>1. Warp \in 2 .. THREADS /\ Warp \in 1 .. THREADS
  BY UnitsFacts
<1>2. k \in 1 .. Len(Strides)
  BY <1>1, TurnsMany
<1>3. /\ \A n \in 1 .. Len(Strides) : Strides[n] < Warp <=> n <= k
      /\ Warp <= Width(k)
  BY <1>1, TurnsFacts
<1> HIDE DEF k
<1>4. PICK m \in 1 .. Len(Strides) : Warp = 2 * Strides[m]
  BY StridesAssumption
<1>5. /\ Strides[m] \in Nat \ {0} /\ Strides[k] \in Nat \ {0} /\ m # 0 /\ k # 0 /\ Len(Strides) \in Nat
      /\ Width(k) = 2 * Strides[k] /\ Width(m) = 2 * Strides[m]
  BY <1>2, StridesFacts DEF Width
<1>6. ~(m > k)
  <2>1. Strides[m] < Warp
    BY <1>4, <1>5
  <2>2. m <= k
    BY <1>3, <2>1
  <2>3. QED
    BY <1>2, <1>5, <2>2
<1>7. ~(m < k)
  <2>1. SUFFICES ASSUME m < k PROVE FALSE
    OBVIOUS
  <2>2. Width(m) <= Strides[k]
    BY <1>2, <2>1, StridesOrder
  <2>3. Strides[k] < Warp
    BY <1>2, <1>3, <1>5
  <2>4. QED
    BY <1>4, <1>5, <2>2, <2>3
<1>8. m = k
  BY <1>2, <1>5, <1>6, <1>7
<1>9. QED
  BY <1>2, <1>4, <1>5, <1>8 DEF k

-----------------------------------------------------------------------------
(* What a warp computes.  After the turns of WarpScan a lane holds the sum   *)
(* of the last Width lanes up to its own; the turns of WarpReduce leave the  *)
(* sum of all to fewer and fewer lanes.                                      *)

Upto(f, x)    == IF x <= 0 THEN 0 ELSE Total(f, x)
Span(f, l, w) == Upto(f, l + 1) - Upto(f, l + 1 - w)

\* Two spans one after the other are a span of both; long ones are all.
LEMMA SpanFacts ==
  ASSUME NEW n \in Nat, NEW f, Ints(f, n), NEW l \in 0 .. n - 1
  PROVE  /\ \A w \in Nat : Span(f, l, w) \in Int
         /\ Span(f, l, 1) = f[l]
         /\ \A w \in Nat : l < w => Span(f, l, w) = Total(f, l + 1) /\ \A u \in Nat : l < u => Span(f, l, u) = Span(f, l, w)
         /\ \A w \in Nat : w <= l => Span(f, l, w) + Span(f, l - w, w) = Span(f, l, 2 * w)
<1>1. /\ Total(f, 0) = 0 /\ \A i \in 0 .. n : Total(f, i) \in Int
      /\ Total(f, l + 1) - Total(f, l) = f[l]
  BY TotalFacts
<1> DEFINE g == [x \in Int |-> Upto(f, x)]
<1>2. \A x \in Int : Upto(f, x) = g[x]
  OBVIOUS
<1>3. /\ \A x \in Int : x <= n => g[x] \in Int
      /\ \A x \in Int : x <= 0 => g[x] = 0
      /\ \A x \in 0 .. n : g[x] = Total(f, x)
  BY <1>1 DEF Upto
<1> HIDE DEF g
<1>4. ASSUME NEW w \in Int, NEW j \in Int PROVE Span(f, j, w) = g[j + 1] - g[j + 1 - w]
  <2>1. j + 1 \in Int /\ j + 1 - w \in Int
    OBVIOUS
  <2>2. Upto(f, j + 1) = g[j + 1] /\ Upto(f, j + 1 - w) = g[j + 1 - w]
    BY <1>2, <2>1
  <2>3. QED
    BY <2>2 DEF Span
<1>5. \A w \in Nat : l + 1 - w \in Int /\ l + 1 - w <= n /\ l + 1 \in Int /\ l + 1 <= n /\ w \in Int /\ l \in Int
  OBVIOUS
<1>6. ASSUME NEW w \in Nat PROVE Span(f, l, w) \in Int
  <2>1. Span(f, l, w) = g[l + 1] - g[l + 1 - w]
    BY <1>4, <1>5
  <2>2. g[l + 1] \in Int /\ g[l + 1 - w] \in Int
    BY <1>3, <1>5
  <2>3. QED
    BY <2>1, <2>2
<1>7. Span(f, l, 1) = f[l]
  <2>1. g[l + 1] = Total(f, l + 1) /\ g[l] = Total(f, l) /\ l + 1 - 1 = l /\ 1 \in Int /\ l \in Int
    BY <1>3
  <2>2. QED
    BY <1>1, <1>4, <2>1
<1>8. ASSUME NEW w \in Nat, l < w PROVE Span(f, l, w) = Total(f, l + 1)
  <2>1. g[l + 1 - w] = 0 /\ g[l + 1] = Total(f, l + 1) /\ Total(f, l + 1) \in Int
    BY <1>1, <1>3, <1>8
  <2>2. Span(f, l, w) = g[l + 1] - g[l + 1 - w]
    BY <1>4, <1>5
  <2>3. QED
    BY <2>1, <2>2
<1>9. ASSUME NEW w \in Nat, w <= l PROVE Span(f, l, w) + Span(f, l - w, w) = Span(f, l, 2 * w)
  <2>1. /\ l - w \in Int /\ 2 * w \in Nat /\ l - w + 1 = l + 1 - w /\ l - w + 1 - w = l + 1 - 2 * w
        /\ l + 1 \in Int /\ l + 1 - w \in Int /\ l + 1 - 2 * w \in Int
        /\ l + 1 <= n /\ l + 1 - w <= n /\ l + 1 - 2 * w <= n
    BY <1>9
  <2>2. /\ Span(f, l, w) = g[l + 1] - g[l + 1 - w]
        /\ Span(f, l - w, w) = g[l + 1 - w] - g[l + 1 - 2 * w]
        /\ Span(f, l, 2 * w) = g[l + 1] - g[l + 1 - 2 * w]
    <3>1. w \in Int /\ l \in Int /\ 2 * w \in Int
      OBVIOUS
    <3>2. Span(f, l, w) = g[l + 1] - g[l + 1 - w] /\ Span(f, l, 2 * w) = g[l + 1] - g[l + 1 - 2 * w]
      BY <1>4, <3>1
    <3>3. Span(f, l - w, w) = g[l - w + 1] - g[l - w + 1 - w]
      BY <1>4, <2>1, <3>1
    <3>4. QED
      BY <2>1, <3>2, <3>3
  <2>3. g[l + 1] \in Int /\ g[l + 1 - w] \in Int /\ g[l + 1 - 2 * w] \in Int
    BY <1>3, <2>1
  <2>4. QED
    BY <2>2, <2>3
<1>10. QED
  BY <1>6, <1>7, <1>8, <1>9

UpTurn(u, i) == [l \in Lanes |-> IF l >= i THEN u[l] + ShuffleUp(u, i)[l] ELSE u[l]]

Scanning(val, n, v) ==
  v = [j \in 0 .. n |-> IF j = 0 THEN val ELSE UpTurn(v[j - 1], Strides[j])]

ScanFunction(val, n) == CHOOSE v : Scanning(val, n, v)

\* WarpScan names the function its LET defines.
LEMMA WarpScanIs == ASSUME NEW val, NEW n PROVE WarpScan(val, n) = ScanFunction(val, n)[n]
BY DEF WarpScan, ScanFunction, Scanning, UpTurn

\* The lanes are numbered, and what they hold can be summed.
LEMMA LanesFacts == Lanes = 0 .. Warp - 1 /\ \A val \in [Lanes -> Int] : Ints(val, Warp)
BY UnitsFacts DEF Lanes, Ints

\* A turn leaves an integer in every lane.
LEMMA UpTurnIn ==
  ASSUME NEW u \in [Lanes -> Int], NEW i \in Nat
  PROVE  /\ UpTurn(u, i) \in [Lanes -> Int]
         /\ \A l \in Lanes : UpTurn(u, i)[l] = IF l >= i THEN u[l] + u[l - i] ELSE u[l]
<1>1. \A l \in Lanes : l >= i => l - i \in Lanes
  BY UnitsFacts DEF Lanes
<1>2. \A l \in Lanes : ShuffleUp(u, i)[l] = IF l >= i THEN u[l - i] ELSE u[l]
  BY DEF ShuffleUp
<1>3. \A l \in Lanes : UpTurn(u, i)[l] = IF l >= i THEN u[l] + u[l - i] ELSE u[l]
  BY <1>2 DEF UpTurn
<1>4. \A l \in Lanes : UpTurn(u, i)[l] \in Int
  BY <1>1, <1>3
<1>5. UpTurn(u, i) = [l \in Lanes |-> UpTurn(u, i)[l]]
  BY DEF UpTurn
<1>6. QED
  BY <1>3, <1>4, <1>5

\* The function of the turns exists.
LEMMA ScanningExists ==
  ASSUME NEW val \in [Lanes -> Int], NEW n \in 0 .. Len(Strides)
  PROVE  Scanning(val, n, ScanFunction(val, n)) /\ ScanFunction(val, n) \in [0 .. n -> [Lanes -> Int]]
<1> DEFINE V == [Lanes -> Int]
           G == [p \in (1 .. n) \X V |-> UpTurn(p[2], Strides[p[1]])]
<1>1. n \in Nat /\ \A j \in 1 .. n : Strides[j] \in Nat
  BY StridesFacts
<1>2. G \in [(1 .. n) \X V -> V]
  BY <1>1, UpTurnIn
<1>3. \A j \in 1 .. n, u \in V : G[<<j, u>>] = UpTurn(u, Strides[j])
  OBVIOUS
<1> HIDE DEF G, V
<1>4. PICK s \in [0 .. n -> V] : Grows(s, n, val, G)
  <2>1. val \in V
    BY DEF V
  <2>2. QED
    BY <1>1, <1>2, <2>1, GrowsExists
<1>5. \A j \in 0 .. n : s[j] = IF j = 0 THEN val ELSE UpTurn(s[j - 1], Strides[j])
  <2>1. ASSUME NEW j \in 0 .. n, j # 0 PROVE s[j] = UpTurn(s[j - 1], Strides[j])
    <3>1. j \in 1 .. n /\ s[j - 1] \in V
      BY <2>1
    <3>2. QED
      BY <1>3, <1>4, <3>1 DEF Grows
  <2>2. QED
    BY <1>4, <2>1 DEF Grows
<1>6. Scanning(val, n, s)
  <2>1. s = [j \in 0 .. n |-> s[j]]
    OBVIOUS
  <2>2. [j \in 0 .. n |-> s[j]] = [j \in 0 .. n |-> IF j = 0 THEN val ELSE UpTurn(s[j - 1], Strides[j])]
    BY <1>5
  <2>3. QED
    BY <2>1, <2>2, Zenon DEF Scanning
<1>7. Scanning(val, n, ScanFunction(val, n))
  BY <1>6 DEF ScanFunction
<1> DEFINE v == ScanFunction(val, n)
           bad == {j \in 0 .. n : v[j] \notin V}
<1> HIDE DEF v
<1>8. v = [j \in 0 .. n |-> IF j = 0 THEN val ELSE UpTurn(v[j - 1], Strides[j])]
  BY <1>7 DEF Scanning, v
<1>9. bad = {}
  <2>1. SUFFICES ASSUME bad # {} PROVE FALSE
    OBVIOUS
  <2>2. bad \in SUBSET Nat
    BY <1>1
  <2>3. PICK j \in bad : \A m \in bad : j <= m
    BY <2>1, <2>2, LeastNat
  <2>4. j # 0
    BY <1>8, <2>3 DEF V
  <2>5. j \in 1 .. n /\ j - 1 \in 0 .. n /\ j - 1 \notin bad
    BY <1>1, <2>3, <2>4
  <2>6. v[j - 1] \in V /\ v[j] = UpTurn(v[j - 1], Strides[j])
    BY <1>8, <2>5
  <2>7. Strides[j] \in Nat
    BY <1>1, <2>5
  <2>8. UpTurn(v[j - 1], Strides[j]) \in V
    <3> DEFINE u == v[j - 1]
               i == Strides[j]
    <3>1. u \in [Lanes -> Int] /\ i \in Nat
      BY <2>6, <2>7 DEF V
    <3> HIDE DEF u, i
    <3>2. UpTurn(u, i) \in [Lanes -> Int]
      BY <3>1, UpTurnIn
    <3>3. QED
      BY <3>2 DEF u, i, V
  <2>9. QED
    BY <2>3, <2>6, <2>8
<1>10. v \in [0 .. n -> V]
  <2>1. \A j \in 0 .. n : v[j] \in V
    BY <1>9
  <2>2. v = [j \in 0 .. n |-> v[j]]
    BY <1>8
  <2>3. QED
    BY <2>1, <2>2
<1>11. QED
  BY <1>7, <1>10 DEF v, V

\* What lane l holds after n turns.
LEMMA WarpScanSpan ==
  ASSUME NEW val \in [Lanes -> Int], NEW n \in 0 .. Len(Strides)
  PROVE  /\ WarpScan(val, n) \in [Lanes -> Int]
         /\ \A l \in Lanes : WarpScan(val, n)[l] = Span(val, l, Width(n))
<1> DEFINE v == ScanFunction(val, n)
           bad == {j \in 0 .. n : ~ \A l \in Lanes : v[j][l] = Span(val, l, Width(j))}
<1>1. Scanning(val, n, v) /\ v \in [0 .. n -> [Lanes -> Int]]
  BY ScanningExists
<1>2. WarpScan(val, n) = v[n]
  BY WarpScanIs
<1> HIDE DEF v
<1>3. \A j \in 0 .. n : v[j] = IF j = 0 THEN val ELSE UpTurn(v[j - 1], Strides[j])
  BY <1>1 DEF Scanning
<1>4. n \in Nat /\ Warp \in Nat
  BY StridesFacts, UnitsFacts
<1>5. Ints(val, Warp) /\ Lanes = 0 .. Warp - 1
  BY LanesFacts
<1>6. bad = {}
  <2>1. SUFFICES ASSUME bad # {} PROVE FALSE
    OBVIOUS
  <2>2. bad \in SUBSET Nat
    BY <1>4
  <2>3. PICK j \in bad : \A m \in bad : j <= m
    BY <2>1, <2>2, LeastNat
  <2>4. j # 0
    <3>1. \A l \in Lanes : val[l] = Span(val, l, 1)
      BY <1>4, <1>5, SpanFacts
    <3>2. QED
      BY <1>3, <2>3, <3>1 DEF Width
  <2>5. j \in 1 .. n /\ j - 1 \in 0 .. n /\ j - 1 \notin bad
    BY <1>4, <2>3, <2>4
  <2>6. \A l \in Lanes : v[j - 1][l] = Span(val, l, Width(j - 1))
    BY <2>5
  <2> DEFINE u == v[j - 1]
             i == Strides[j]
  <2>7. i \in Nat \ {0} /\ i = Width(j - 1) /\ Width(j) = 2 * i
    BY <2>5, StridesFacts
  <2>8. u \in [Lanes -> Int] /\ v[j] = UpTurn(u, i)
    BY <1>1, <1>3, <2>4, <2>5
  <2> HIDE DEF u, i
  <2>9. \A l \in Lanes : u[l] = Span(val, l, i)
    BY <2>6, <2>7 DEF u
  <2>10. ASSUME NEW l \in Lanes PROVE v[j][l] = Span(val, l, Width(j))
    <3>1. v[j][l] = IF l >= i THEN u[l] + u[l - i] ELSE u[l]
      <4>1. i \in Nat
        BY <2>7
      <4>2. UpTurn(u, i)[l] = IF l >= i THEN u[l] + u[l - i] ELSE u[l]
        BY <2>8, <4>1, UpTurnIn
      <4>3. QED
        BY <2>8, <4>2
    <3>2. l \in 0 .. Warp - 1
      BY <1>5
    <3>3. CASE l >= i
      <4>1. l - i \in Lanes
        <5>1. l - i \in 0 .. Warp - 1
          BY <1>4, <2>7, <3>2, <3>3
        <5>2. QED
          BY <1>5, <5>1
      <4>2. Span(val, l, i) + Span(val, l - i, i) = Span(val, l, 2 * i)
        BY <1>4, <1>5, <2>7, <3>2, <3>3, SpanFacts
      <4>3. QED
        BY <2>7, <2>9, <3>1, <3>3, <4>1, <4>2
    <3>4. CASE ~(l >= i)
      <4>1. l < i /\ l < 2 * i /\ i \in Nat /\ 2 * i \in Nat
        BY <2>7, <3>2, <3>4
      <4>2. Span(val, l, 2 * i) = Span(val, l, i)
        BY <1>4, <1>5, <3>2, <4>1, SpanFacts
      <4>3. QED
        BY <2>7, <2>9, <3>1, <3>4, <4>2
    <3>5. QED
      BY <3>3, <3>4
  <2>11. QED
    BY <2>3, <2>10
<1>7. n \in 0 .. n
  BY <1>4
<1>8. QED
  BY <1>1, <1>2, <1>6, <1>7

\* After the turns below limit, the first limit lanes have their running sums.
LEMMA WarpScanTotal ==
  ASSUME NEW val \in [Lanes -> Int], NEW limit \in 1 .. Warp, NEW l \in 0 .. limit - 1
  PROVE  WarpScan(val, Turns(limit))[l] = Total(val, l + 1)
<1>1. limit \in 1 .. THREADS /\ Warp \in Nat
  BY UnitsFacts
<1>2. Turns(limit) \in 0 .. Len(Strides) /\ limit <= Width(Turns(limit)) /\ Width(Turns(limit)) \in Nat
  BY <1>1, TurnsFacts, StridesFacts
<1>3. l \in 0 .. Warp - 1 /\ l \in Lanes /\ Ints(val, Warp)
  BY <1>1, LanesFacts
<1>4. WarpScan(val, Turns(limit))[l] = Span(val, l, Width(Turns(limit)))
  BY <1>2, <1>3, WarpScanSpan
<1>5. l < Width(Turns(limit))
  BY <1>1, <1>2
<1>6. QED
  BY <1>1, <1>2, <1>3, <1>4, <1>5, SpanFacts

DownTurn(u, i) == [l \in Lanes |-> u[l] + ShuffleDown(u, i)[l]]

Reducing(val, k, v) ==
  v = [j \in 0 .. k |-> IF j = 0 THEN val ELSE DownTurn(v[j - 1], Strides[k + 1 - j])]

ReduceFunction(val) == CHOOSE v : Reducing(val, Turns(Warp), v)

\* WarpReduce names the function its LET defines.
LEMMA WarpReduceIs == ASSUME NEW val PROVE WarpReduce(val) = ReduceFunction(val)[Turns(Warp)][0]
BY DEF WarpReduce, ReduceFunction, Reducing, DownTurn

\* A turn leaves an integer in every lane.
LEMMA DownTurnIn ==
  ASSUME NEW u \in [Lanes -> Int], NEW i \in Nat
  PROVE  /\ DownTurn(u, i) \in [Lanes -> Int]
         /\ \A l \in Lanes : l + i < Warp => DownTurn(u, i)[l] = u[l] + u[l + i]
<1>1. \A l \in Lanes : l + i < Warp => l + i \in Lanes
  BY UnitsFacts DEF Lanes
<1>2. \A l \in Lanes : ShuffleDown(u, i)[l] = IF l + i < Warp THEN u[l + i] ELSE u[l]
  BY DEF ShuffleDown
<1>3. \A l \in Lanes : ShuffleDown(u, i)[l] \in Int
  BY <1>1, <1>2
<1>4. \A l \in Lanes : DownTurn(u, i)[l] = u[l] + ShuffleDown(u, i)[l]
  BY DEF DownTurn
<1>5. \A l \in Lanes : DownTurn(u, i)[l] \in Int
  BY <1>3, <1>4
<1>6. DownTurn(u, i) = [l \in Lanes |-> DownTurn(u, i)[l]]
  BY DEF DownTurn
<1>7. QED
  BY <1>2, <1>4, <1>5, <1>6

\* The function of the turns exists.
LEMMA ReducingExists ==
  ASSUME NEW val \in [Lanes -> Int]
  PROVE  LET k == Turns(Warp)
             v == ReduceFunction(val)
         IN  Reducing(val, k, v) /\ v \in [0 .. k -> [Lanes -> Int]]
<1> DEFINE V == [Lanes -> Int]
           k == Turns(Warp)
           G == [p \in (1 .. k) \X V |-> DownTurn(p[2], Strides[k + 1 - p[1]])]
<1>1. k \in Nat /\ \A j \in 1 .. k : Strides[k + 1 - j] \in Nat
  <2>1. k \in 1 .. Len(Strides) /\ Len(Strides) \in Nat /\ \A n \in 1 .. Len(Strides) : Strides[n] \in Nat
    BY TurnsWarp, StridesFacts
  <2> HIDE DEF k
  <2>2. \A j \in 1 .. k : k + 1 - j \in 1 .. Len(Strides)
    BY <2>1
  <2>3. QED
    BY <2>1, <2>2
<1> HIDE DEF k
<1>2. G \in [(1 .. k) \X V -> V]
  BY <1>1, DownTurnIn
<1>3. \A j \in 1 .. k, u \in V : G[<<j, u>>] = DownTurn(u, Strides[k + 1 - j])
  OBVIOUS
<1> HIDE DEF G, V
<1>4. PICK s \in [0 .. k -> V] : Grows(s, k, val, G)
  <2>1. val \in V
    BY DEF V
  <2>2. QED
    BY <1>1, <1>2, <2>1, GrowsExists
<1>5. \A j \in 0 .. k : s[j] = IF j = 0 THEN val ELSE DownTurn(s[j - 1], Strides[k + 1 - j])
  <2>1. ASSUME NEW j \in 0 .. k, j # 0 PROVE s[j] = DownTurn(s[j - 1], Strides[k + 1 - j])
    <3>1. j \in 1 .. k /\ s[j - 1] \in V
      BY <1>1, <2>1
    <3>2. QED
      BY <1>3, <1>4, <3>1 DEF Grows
  <2>2. QED
    BY <1>4, <2>1 DEF Grows
<1>6. Reducing(val, k, s)
  <2>1. s = [j \in 0 .. k |-> s[j]]
    OBVIOUS
  <2>2. [j \in 0 .. k |-> s[j]] = [j \in 0 .. k |-> IF j = 0 THEN val ELSE DownTurn(s[j - 1], Strides[k + 1 - j])]
    BY <1>5
  <2>3. QED
    BY <2>1, <2>2, Zenon DEF Reducing
<1> DEFINE v == ReduceFunction(val)
           bad == {j \in 0 .. k : v[j] \notin V}
<1>7. Reducing(val, k, v)
  BY <1>6 DEF ReduceFunction, k
<1> HIDE DEF v
<1>8. v = [j \in 0 .. k |-> IF j = 0 THEN val ELSE DownTurn(v[j - 1], Strides[k + 1 - j])]
  BY <1>7 DEF Reducing
<1>9. bad = {}
  <2>1. SUFFICES ASSUME bad # {} PROVE FALSE
    OBVIOUS
  <2>2. bad \in SUBSET Nat
    BY <1>1
  <2>3. PICK j \in bad : \A m \in bad : j <= m
    BY <2>1, <2>2, LeastNat
  <2>4. j # 0
    BY <1>8, <2>3 DEF V
  <2>5. j \in 1 .. k /\ j - 1 \in 0 .. k /\ j - 1 \notin bad
    BY <1>1, <2>3, <2>4
  <2>6. v[j - 1] \in V /\ v[j] = DownTurn(v[j - 1], Strides[k + 1 - j])
    BY <1>8, <2>5
  <2>7. Strides[k + 1 - j] \in Nat
    BY <1>1, <2>5
  <2>8. DownTurn(v[j - 1], Strides[k + 1 - j]) \in V
    <3> DEFINE u == v[j - 1]
               i == Strides[k + 1 - j]
    <3>1. u \in [Lanes -> Int] /\ i \in Nat
      BY <2>6, <2>7 DEF V
    <3> HIDE DEF u, i
    <3>2. DownTurn(u, i) \in [Lanes -> Int]
      BY <3>1, DownTurnIn
    <3>3. QED
      BY <3>2 DEF u, i, V
  <2>9. QED
    BY <2>3, <2>6, <2>8
<1>10. v \in [0 .. k -> V]
  <2>1. \A j \in 0 .. k : v[j] \in V
    BY <1>9
  <2>2. v = [j \in 0 .. k |-> v[j]]
    BY <1>8
  <2>3. QED
    BY <2>1, <2>2
<1>11. QED
  BY <1>7, <1>10 DEF v, V, k

\* A turn folds the upper half of 2 * i lanes onto the lower one.
LEMMA FoldHalf ==
  ASSUME NEW u \in [Lanes -> Int], NEW i \in Nat, 2 * i <= Warp
  PROVE  Total(DownTurn(u, i), i) = Total(u, 2 * i)
<1>1. Ints(u, Warp) /\ Warp \in Nat /\ Lanes = 0 .. Warp - 1
  BY LanesFacts, UnitsFacts
<1>2. /\ Total(u, 0) = 0
      /\ \A l \in 0 .. Warp : Total(u, l) \in Int
      /\ \A l \in 0 .. Warp - 1 : Total(u, l + 1) - Total(u, l) = u[l]
  BY <1>1, TotalFacts
<1> DEFINE g == [l \in 0 .. i |-> Total(u, l) + Total(u, l + i)]
           d == DownTurn(u, i)
<1>3. \A l \in Lanes : l + i < Warp => d[l] = u[l] + u[l + i]
  BY DownTurnIn
<1>4. \A l \in 0 .. i : g[l] = Total(u, l) + Total(u, l + i) /\ Total(u, l) \in Int /\ Total(u, l + i) \in Int
  BY <1>1, <1>2
<1> HIDE DEF g, d
<1>5. ASSUME NEW l \in 0 .. i - 1 PROVE d[l] = g[l + 1] - g[l]
  <2>1. /\ l \in 0 .. Warp - 1 /\ l + i < Warp /\ l + i \in 0 .. Warp - 1
        /\ l \in 0 .. i /\ l + 1 \in 0 .. i /\ (l + 1) + i = (l + i) + 1
    BY <1>1
  <2>2. d[l] = u[l] + u[l + i]
    BY <1>1, <1>3, <2>1
  <2>3. Total(u, l + 1) - Total(u, l) = u[l] /\ Total(u, (l + i) + 1) - Total(u, l + i) = u[l + i]
    BY <1>2, <2>1
  <2>4. /\ g[l] = Total(u, l) + Total(u, l + i) /\ g[l + 1] = Total(u, l + 1) + Total(u, (l + i) + 1)
        /\ Total(u, l) \in Int /\ Total(u, l + i) \in Int /\ Total(u, l + 1) \in Int /\ Total(u, (l + i) + 1) \in Int
    BY <1>4, <2>1
  <2>5. QED
    BY <2>2, <2>3, <2>4
<1>6. Ints(g, i + 1)
  BY <1>4 DEF Ints
<1>7. Total(d, i) = g[i] - g[0]
  BY <1>5, <1>6, Telescope
<1>8. /\ g[i] = Total(u, i) + Total(u, 2 * i) /\ g[0] = Total(u, 0) + Total(u, i)
      /\ Total(u, i) \in Int /\ Total(u, 2 * i) \in Int
  <2>1. i \in 0 .. i /\ 0 \in 0 .. i /\ i + i = 2 * i /\ 0 + i = i
    OBVIOUS
  <2>2. QED
    BY <1>4, <2>1
<1>9. QED
  BY <1>2, <1>7, <1>8 DEF d

\* The lowest lane ends with the sum of all lanes.
LEMMA WarpReduceTotal ==
  ASSUME NEW val \in [Lanes -> Int]
  PROVE  WarpReduce(val) = Total(val, Warp)
<1> DEFINE k == Turns(Warp)
           v == ReduceFunction(val)
           bad == {j \in 0 .. k : Total(v[j], Width(k - j)) # Total(val, Warp)}
<1>1. Reducing(val, k, v) /\ v \in [0 .. k -> [Lanes -> Int]]
  BY ReducingExists
<1>2. WarpReduce(val) = v[k][0]
  BY WarpReduceIs
<1>3. /\ k \in 1 .. Len(Strides) /\ Width(k) = Warp /\ Len(Strides) \in Nat /\ Warp \in Nat
      /\ \A n \in 1 .. Len(Strides) : Strides[n] \in Nat \ {0} /\ Strides[n] = Width(n - 1) /\ Width(n) = 2 * Width(n - 1)
  BY TurnsWarp, StridesFacts, UnitsFacts
<1> HIDE DEF v, k
<1>4. \A j \in 0 .. k : v[j] = IF j = 0 THEN val ELSE DownTurn(v[j - 1], Strides[k + 1 - j])
  BY <1>1 DEF Reducing
<1>5. bad = {}
  <2>1. SUFFICES ASSUME bad # {} PROVE FALSE
    OBVIOUS
  <2>2. bad \in SUBSET Nat
    BY <1>3
  <2>3. PICK j \in bad : \A m \in bad : j <= m
    BY <2>1, <2>2, LeastNat
  <2>4. j # 0
    <3>1. SUFFICES ASSUME j = 0 PROVE FALSE
      OBVIOUS
    <3>2. v[j] = val /\ k - j = k
      BY <1>3, <1>4, <2>3, <3>1
    <3>3. QED
      BY <1>3, <2>3, <3>2
  <2>5. j \in 1 .. k /\ j - 1 \in 0 .. k /\ j - 1 \notin bad
    BY <1>3, <2>3, <2>4
  <2> DEFINE u == v[j - 1]
             n == k + 1 - j
             i == Strides[n]
  <2>6. n \in 1 .. Len(Strides) /\ n <= k /\ k - (j - 1) = n /\ n - 1 = k - j
    BY <1>3, <2>5
  <2>7. Total(u, Width(n)) = Total(val, Warp)
    BY <2>5, <2>6
  <2>8. u \in [Lanes -> Int] /\ v[j] = DownTurn(u, i)
    BY <1>1, <1>4, <2>4, <2>5
  <2> HIDE DEF u, n
  <2>9. i \in Nat /\ i = Width(k - j) /\ Width(n) = 2 * i
    BY <1>3, <2>6
  <2>10. 2 * i <= Warp
    <3>1. CASE n = k
      BY <1>3, <2>9, <3>1
    <3>2. CASE n # k
      <4>1. Width(n) <= Strides[k] /\ Width(k) = 2 * Width(k - 1) /\ Strides[k] = Width(k - 1) /\ Strides[k] \in Nat
        BY <1>3, <2>6, <3>2, StridesOrder
      <4>2. QED
        BY <1>3, <2>9, <4>1
    <3>3. QED
      BY <3>1, <3>2
  <2> HIDE DEF i
  <2>11. Total(DownTurn(u, i), i) = Total(u, 2 * i)
    BY <2>8, <2>9, <2>10, FoldHalf
  <2>12. QED
    BY <2>3, <2>7, <2>8, <2>9, <2>11
<1>6. Total(v[k], 1) = Total(val, Warp)
  <2>1. k \in 0 .. k /\ k - k = 0
    BY <1>3
  <2>2. QED
    BY <1>5, <2>1 DEF Width
<1>7. Total(v[k], 1) = v[k][0]
  <2> DEFINE u == v[k]
  <2>1. u \in [Lanes -> Int]
    BY <1>1, <1>3
  <2> HIDE DEF u
  <2>2. Ints(u, Warp) /\ Warp \in Nat /\ 0 \in 0 .. Warp - 1 /\ 0 + 1 = 1 /\ 1 \in 0 .. Warp
    BY <2>1, LanesFacts, UnitsFacts
  <2>3. Total(u, 0) = 0 /\ Total(u, 1) \in Int /\ Total(u, 1) - Total(u, 0) = u[0]
    BY <2>2, TotalFacts
  <2>4. Total(u, 1) = u[0]
    BY <2>3
  <2>5. QED
    BY <2>4 DEF u
<1>8. QED
  BY <1>2, <1>6, <1>7

-----------------------------------------------------------------------------
(* Counts, threads, warps and blocks.                                        *)

\* Multiples of a greater number lie beyond.
LEMMA TimesLess ==
  ASSUME NEW s \in Nat, NEW c \in Nat, NEW d \in Nat, c < d
  PROVE  c * s \in Nat /\ d * s \in Nat /\ c * s + s <= d * s
<1>1. PICK k \in Nat : d = c + 1 + k
  <2>1. d - c - 1 \in Nat /\ d = c + 1 + (d - c - 1)
    OBVIOUS
  <2>2. QED
    BY <2>1
<1>2. d * s = c * s + s + k * s
  BY <1>1
<1>3. k * s >= 0
  BY <1>1
<1>4. d * s \in Nat /\ c * s \in Nat /\ k * s \in Nat
  BY <1>1
<1>5. QED
  BY <1>2, <1>3, <1>4

\* Multiplying keeps the order.
LEMMA TimesMost ==
  ASSUME NEW s \in Nat, NEW c \in Nat, NEW d \in Nat, c <= d
  PROVE  c * s \in Nat /\ d * s \in Nat /\ c * s <= d * s
<1>1. CASE c = d
  BY <1>1
<1>2. CASE c < d
  BY <1>2, TimesLess
<1>3. QED
  BY <1>1, <1>2

LEMMA Quotient ==
  ASSUME NEW u \in Nat \ {0}, NEW y \in Nat
  PROVE  /\ y \div u \in Nat /\ (y \div u) * u \in Nat /\ y % u \in 0 .. u - 1
         /\ y = (y \div u) * u + (y % u)
OBVIOUS

\* The parts of a number are its only ones.
LEMMA QuotientOnce ==
  ASSUME NEW u \in Nat \ {0}, NEW q \in Nat, NEW m \in 0 .. u - 1
  PROVE  /\ q * u + m \in Nat
         /\ (q * u + m) \div u = q /\ (q * u + m) % u = m
<1>1. q * u \in Nat /\ q * u + m \in Nat
  OBVIOUS
<1> DEFINE y == q * u + m
           p == y \div u
           n == y % u
<1>2. p \in Nat /\ p * u \in Nat /\ n \in 0 .. u - 1 /\ y = p * u + n
  BY <1>1, Quotient
<1>3. q * u + m = p * u + n
  BY <1>2
<1> HIDE DEF y, p, n
<1>4. ~(p < q)
  <2>1. SUFFICES ASSUME p < q PROVE FALSE
    OBVIOUS
  <2>2. p * u + u <= q * u
    BY <1>2, <2>1, TimesLess
  <2>3. QED
    BY <1>1, <1>2, <1>3, <2>2
<1>5. ~(q < p)
  <2>1. SUFFICES ASSUME q < p PROVE FALSE
    OBVIOUS
  <2>2. q * u + u <= p * u
    BY <1>2, <2>1, TimesLess
  <2>3. QED
    BY <1>1, <1>2, <1>3, <2>2
<1>6. p = q
  BY <1>2, <1>4, <1>5
<1>7. n = m
  BY <1>1, <1>2, <1>3, <1>6
<1>8. QED
  BY <1>1, <1>6, <1>7 DEF y, p, n

\* A number below the divisor has no whole part.
LEMMA SmallQuotient ==
  ASSUME NEW u \in Nat \ {0}, NEW m \in 0 .. u - 1
  PROVE  m \div u = 0 /\ m % u = m
<1> DEFINE q == 0
<1>1. q \in Nat /\ q * u + m = m
  OBVIOUS
<1> HIDE DEF q
<1>2. (q * u + m) \div u = q /\ (q * u + m) % u = m
  BY <1>1, QuotientOnce
<1>3. QED
  BY <1>1, <1>2 DEF q

\* Up(a, b) pieces of b hold a, and one less does not.
LEMMA UpFacts ==
  ASSUME NEW a \in Nat, NEW b \in Nat \ {0}
  PROVE  /\ Up(a, b) \in Nat /\ Up(a, b) * b \in Nat /\ a <= Up(a, b) * b
         /\ \A t \in Nat : t < Up(a, b) <=> t * b < a
<1> DEFINE q == Up(a, b)
<1>1. q \in Nat /\ q * b \in Nat /\ q * b <= a + b - 1 /\ a <= q * b
  <2> DEFINE y == a + b - 1
             m == y % b
             z == (y \div b) * b
  <2>1. y \in Nat
    OBVIOUS
  <2>2. y \div b \in Nat /\ z \in Nat /\ m \in 0 .. b - 1 /\ y = z + m
    BY <2>1, Quotient
  <2>3. q = y \div b /\ q * b = z
    BY DEF Up
  <2> HIDE DEF m, z, q
  <2>4. QED
    BY <2>2, <2>3
<1> HIDE DEF q
<1>2. ASSUME NEW t \in Nat PROVE t < q <=> t * b < a
  <2>1. CASE t < q
    <3>1. t * b + b <= q * b /\ t * b \in Nat
      BY <1>1, <2>1, TimesLess
    <3>2. QED
      BY <1>1, <2>1, <3>1
  <2>2. CASE q <= t
    <3>1. q * b <= t * b /\ t * b \in Nat
      BY <1>1, <2>2, TimesMost
    <3>2. QED
      BY <1>1, <2>2, <3>1
  <2>3. QED
    BY <1>1, <2>1, <2>2
<1>3. QED
  BY <1>1, <1>2 DEF q

\* The sum of a slice of f is the difference of the sums at its ends.
LEMMA SliceTotal ==
  ASSUME NEW n \in Nat, NEW f, Ints(f, n), NEW a \in Nat, NEW k \in Nat, a + k <= n,
         NEW h, \A m \in 0 .. k - 1 : h[m] = f[a + m]
  PROVE  Total(h, k) = Total(f, a + k) - Total(f, a)
<1> DEFINE g == [m \in 0 .. k |-> Total(f, a + m)]
<1>1. /\ \A i \in 0 .. n : Total(f, i) \in Int
      /\ \A i \in 0 .. n - 1 : Total(f, i + 1) - Total(f, i) = f[i]
  BY TotalFacts
<1>2. \A m \in 0 .. k : a + m \in 0 .. n /\ g[m] = Total(f, a + m) /\ g[m] \in Int
  BY <1>1
<1> HIDE DEF g
<1>3. Ints(g, k + 1)
  BY <1>2 DEF Ints
<1>4. ASSUME NEW m \in 0 .. k - 1 PROVE h[m] = g[m + 1] - g[m]
  <2>1. a + m \in 0 .. n - 1 /\ m \in 0 .. k /\ m + 1 \in 0 .. k /\ a + (m + 1) = (a + m) + 1
    OBVIOUS
  <2>2. g[m] = Total(f, a + m) /\ g[m + 1] = Total(f, (a + m) + 1)
    BY <1>2, <2>1
  <2>3. QED
    BY <1>1, <2>1, <2>2
<1>5. Total(h, k) = g[k] - g[0]
  BY <1>3, <1>4, Telescope
<1>6. g[k] = Total(f, a + k) /\ g[0] = Total(f, a)
  <2>1. k \in 0 .. k /\ 0 \in 0 .. k /\ a + 0 = a
    OBVIOUS
  <2>2. QED
    BY <1>2, <2>1
<1>7. QED
  BY <1>5, <1>6

\* The first thread of a warp.
Base(b, w) == (b * NWARP + w) * Warp

\* The first threads of the warps, in the order of the grid.
LEMMA BaseFacts ==
  ASSUME NEW b \in Nat, NEW w \in Nat
  PROVE  /\ b * NWARP + w \in Nat /\ Base(b, w) \in Nat
         /\ Base(b, w) + Warp = Base(b, w + 1)
         /\ Base(b, NWARP) = Base(b + 1, 0)
         /\ Base(b, 0) = b * THREADS /\ Base(b + 1, 0) = (b + 1) * THREADS
         /\ \A l : Lane(b, w, l) = Base(b, w) + l
<1>1. NWARP \in Nat /\ Warp \in Nat /\ THREADS = NWARP * Warp
  BY UnitsFacts
<1> DEFINE x == b * NWARP
<1>2. x \in Nat /\ (b + 1) * NWARP = x + NWARP
  BY <1>1
<1>3. x * Warp = b * (NWARP * Warp) /\ (x + NWARP) * Warp = (b + 1) * (NWARP * Warp)
  BY <1>1
<1> HIDE DEF x
<1>4. (x + w) * Warp + Warp = (x + (w + 1)) * Warp /\ (x + w) * Warp \in Nat
  BY <1>1, <1>2
<1>5. Base(b, w) = (x + w) * Warp /\ Base(b, w + 1) = (x + (w + 1)) * Warp
  BY DEF Base, x
<1>6. Base(b, NWARP) = (x + NWARP) * Warp /\ Base(b, 0) = (x + 0) * Warp /\ Base(b + 1, 0) = ((x + NWARP) + 0) * Warp
  BY <1>2 DEF Base, x
<1>7. x + 0 = x /\ (x + NWARP) + 0 = x + NWARP /\ x + w \in Nat
  BY <1>1, <1>2
<1>8. QED
  BY <1>1, <1>3, <1>4, <1>5, <1>6, <1>7 DEF Lane, Base, x

-----------------------------------------------------------------------------
(* The sums before each thread: those breduce makes leave an incomplete last *)
(* thread out, those gexscan makes have what lies after the counts in it.    *)

Lesser(a, b) == IF a < b THEN a ELSE b

Word(i) ==
  IF i < Size THEN counts[i]
  ELSE IF rt = 2 /\ i % ratio = 3 /\ Leftover >= IdsBound \div 2 THEN Leftover - IdsBound
  ELSE Leftover

Words == [i \in 0 .. Up(Size, ratio) * ratio - 1 |-> Word(i)]

Reduced == [t \in Nat |-> Total(counts, Lesser(t, Size \div ratio) * ratio)]
Preceding == [t \in Nat |-> Total(Words, Lesser(t, Up(Size, ratio)) * ratio)]

Narrowed ==
  compressed = [i \in 0 .. Up(Size, ratio) * ratio - 1 |->
                  IF i < Size THEN counts[i] % IdsBound ELSE Leftover]

\* The counts a caller passes.
LEMMA SizeFacts ==
  ASSUME CountsFit
  PROVE  /\ rt \in {1, 2, 4} /\ ratio \in Nat \ {0} /\ (rt = 2 => ratio = 8)
         /\ Size \in Nat /\ DOMAIN counts = 0 .. Size - 1
         /\ Ints(counts, Size)
         /\ \A i \in 0 .. Size - 1 :
              /\ counts[i] \in 0 .. IdsBound - 1 /\ counts[i] % IdsBound = counts[i]
              /\ rt = 2 => ~(counts[i] >= IdsBound \div 2)
<1>1. PICK n \in Nat : counts \in [0 .. n - 1 -> Nat]
  BY DEF CountsFit
<1>2. DOMAIN counts = 0 .. n - 1 /\ Size = n
  <2>1. 0 \in Int /\ n - 1 \in Int
    BY <1>1
  <2>2. Cardinality(0 .. n - 1) = IF 0 > n - 1 THEN 0 ELSE (n - 1) - 0 + 1
    BY <2>1, FS_Interval
  <2>3. QED
    BY <1>1, <2>2 DEF Size
<1>3. rt \in {1, 2, 4} /\ ratio \in Nat \ {0} /\ (rt = 2 => ratio = 8)
  BY DEF CountsFit, ratio
<1>4. ASSUME NEW i \in 0 .. n - 1
      PROVE  /\ counts[i] \in 0 .. IdsBound - 1 /\ counts[i] % IdsBound = counts[i]
             /\ rt = 2 => ~(counts[i] >= IdsBound \div 2)
  <2>1. IdsBound \in Nat \ {0} /\ counts[i] \in 0 .. IdsBound - 1 /\ (rt = 2 => counts[i] < IdsBound \div 2)
    BY <1>1, <1>2, UnitsAssumption DEF CountsFit
  <2>2. counts[i] % IdsBound = counts[i]
    BY <2>1, SmallQuotient
  <2>3. IdsBound \div 2 \in Int /\ counts[i] \in Int
    BY <2>1
  <2>4. QED
    BY <2>1, <2>2, <2>3
<1>5. Ints(counts, Size)
  BY <1>1, <1>2 DEF Ints
<1>6. QED
  BY <1>1, <1>2, <1>3, <1>4, <1>5

\* The words gexscan reads: the counts, then what lies after them.
LEMMA WordsFacts ==
  ASSUME CountsFit
  PROVE  LET M == Up(Size, ratio) * ratio
         IN  /\ M \in Nat /\ Size <= M /\ Ints(Words, M)
             /\ \A i \in 0 .. M - 1 : Words[i] = Word(i)
             /\ \A i \in 0 .. Size : Total(Words, i) = Total(counts, i)
<1> DEFINE M == Up(Size, ratio) * ratio
<1>1. M \in Nat /\ Size <= M /\ Size \in Nat /\ Ints(counts, Size)
  <2>1. Size \in Nat /\ ratio \in Nat \ {0} /\ Ints(counts, Size)
    BY SizeFacts
  <2>2. QED
    BY <2>1, UpFacts
<1>2. \A i \in 0 .. M - 1 : Words[i] = Word(i)
  BY DEF Words
<1> HIDE DEF M
<1>3. IdsBound \in Int /\ Leftover \in Int
  BY UnitsAssumption
<1>4. \A i \in 0 .. M - 1 : Word(i) \in Int
  BY <1>1, <1>3 DEF Word, Ints
<1>5. Ints(Words, M)
  BY <1>2, <1>4 DEF Ints
<1>6. ASSUME NEW i \in 0 .. Size PROVE Total(Words, i) = Total(counts, i)
  <2>1. \A j \in 0 .. i - 1 : Words[j] = counts[0 + j]
    BY <1>1, <1>2 DEF Word
  <2>2. 0 + i <= Size /\ 0 + i = i /\ i \in Nat /\ 0 \in Nat
    BY <1>1
  <2>3. Total(Words, i) = Total(counts, 0 + i) - Total(counts, 0)
    BY <1>1, <2>1, <2>2, SliceTotal
  <2>4. Total(counts, 0) = 0 /\ Total(counts, i) \in Int
    BY <1>1, TotalFacts
  <2>5. QED
    BY <2>2, <2>3, <2>4
<1>7. QED
  BY <1>1, <1>2, <1>5, <1>6 DEF M

\* The sums before the threads are integers; both kernels have the same ones as
\* long as the counts last.
LEMMA SumsFacts ==
  ASSUME CountsFit
  PROVE  /\ Reduced \in [Nat -> Int] /\ Preceding \in [Nat -> Int] /\ Reduced[0] = 0
         /\ \A t \in Nat : t < Up(Size, ratio) =>
              t * ratio \in 0 .. Size /\ Preceding[t] = Total(counts, t * ratio)
         /\ \A t \in Nat : t * ratio <= Size => Reduced[t] = Preceding[t]
<1> DEFINE n == Size \div ratio
           u == Up(Size, ratio)
<1>1. Size \in Nat /\ ratio \in Nat \ {0} /\ Ints(counts, Size)
  BY SizeFacts
<1>2. n \in Nat /\ n * ratio \in Nat /\ n * ratio <= Size /\ Size < n * ratio + ratio
  <2> DEFINE z == n * ratio
             m == Size % ratio
  <2>1. n \in Nat /\ z \in Nat /\ m \in 0 .. ratio - 1 /\ Size = z + m
    BY <1>1, Quotient
  <2> HIDE DEF n, z, m
  <2>2. QED
    BY <1>1, <2>1 DEF z
<1>3. u \in Nat /\ u * ratio \in Nat /\ Size <= u * ratio /\ \A t \in Nat : t < u <=> t * ratio < Size
  BY <1>1, UpFacts
<1>4. /\ u * ratio \in Nat /\ Ints(Words, u * ratio)
      /\ \A i \in 0 .. Size : Total(Words, i) = Total(counts, i)
  BY WordsFacts
<1>5. /\ \A i \in 0 .. Size : Total(counts, i) \in Int
      /\ \A i \in 0 .. u * ratio : Total(Words, i) \in Int
      /\ Total(counts, 0) = 0
  BY <1>1, <1>4, TotalFacts
<1>6. \A t \in Nat : /\ Reduced[t] = Total(counts, Lesser(t, n) * ratio)
                     /\ Preceding[t] = Total(Words, Lesser(t, u) * ratio)
  BY DEF Reduced, Preceding
<1> HIDE DEF n, u
<1>7. ASSUME NEW t \in Nat
      PROVE  Lesser(t, n) * ratio \in 0 .. Size /\ Lesser(t, u) * ratio \in 0 .. u * ratio
  <2>1. Lesser(t, n) \in Nat /\ Lesser(t, n) <= n /\ Lesser(t, u) \in Nat /\ Lesser(t, u) <= u
    BY <1>2, <1>3 DEF Lesser
  <2> DEFINE a == Lesser(t, n)
             b == Lesser(t, u)
  <2> HIDE DEF a, b
  <2>2. a \in Nat /\ a <= n /\ b \in Nat /\ b <= u
    BY <2>1 DEF a, b
  <2>3. a * ratio \in Nat /\ a * ratio <= n * ratio /\ b * ratio \in Nat /\ b * ratio <= u * ratio
    BY <1>1, <1>2, <1>3, <2>2, TimesMost
  <2>4. a * ratio \in 0 .. Size /\ b * ratio \in 0 .. u * ratio
    BY <1>1, <1>2, <1>3, <2>3
  <2>5. QED
    BY <2>4 DEF a, b
<1>8. Reduced \in [Nat -> Int] /\ Preceding \in [Nat -> Int]
  <2>1. \A t \in Nat : Reduced[t] \in Int /\ Preceding[t] \in Int
    BY <1>5, <1>6, <1>7
  <2>2. Reduced = [t \in Nat |-> Reduced[t]] /\ Preceding = [t \in Nat |-> Preceding[t]]
    BY DEF Reduced, Preceding
  <2>3. QED
    BY <2>1, <2>2
<1>9. Reduced[0] = 0
  <2>1. Lesser(0, n) = 0
    BY <1>2 DEF Lesser
  <2>2. 0 * ratio = 0
    BY <1>1
  <2>3. QED
    BY <1>5, <1>6, <2>1, <2>2
<1>10. ASSUME NEW t \in Nat, t < u
       PROVE  t * ratio \in 0 .. Size /\ Preceding[t] = Total(counts, t * ratio)
  <2>1. t * ratio < Size /\ t * ratio \in Nat /\ Lesser(t, u) = t
    <3>1. t * ratio < Size /\ Lesser(t, u) = t
      BY <1>3, <1>10 DEF Lesser
    <3>2. t * ratio \in Nat
      BY <1>1
    <3>3. QED
      BY <3>1, <3>2
  <2>2. t * ratio \in 0 .. Size
    BY <1>1, <2>1
  <2>3. QED
    BY <1>4, <1>6, <2>1, <2>2
<1>11. ASSUME NEW t \in Nat, t * ratio <= Size PROVE Reduced[t] = Preceding[t]
  <2>0. t * ratio \in Nat
    BY <1>1
  <2>1. t <= n
    <3>1. SUFFICES ASSUME n < t PROVE FALSE
      BY <1>2
    <3>2. n * ratio + ratio <= t * ratio
      BY <1>1, <1>2, <3>1, TimesLess
    <3>3. QED
      BY <1>1, <1>2, <1>11, <2>0, <3>2
  <2>2. Lesser(t, n) = t
    BY <1>2, <2>1 DEF Lesser
  <2>3. Reduced[t] = Total(counts, t * ratio)
    BY <1>6, <2>2
  <2>4. Lesser(t, u) = t
    <3>1. SUFFICES ASSUME u < t PROVE FALSE
      BY <1>3 DEF Lesser
    <3>2. u * ratio + ratio <= t * ratio
      BY <1>1, <1>3, <3>1, TimesLess
    <3>3. QED
      BY <1>1, <1>3, <1>11, <2>0, <3>2
  <2>5. Preceding[t] = Total(Words, t * ratio)
    BY <1>6, <2>4
  <2>6. t * ratio \in 0 .. Size
    BY <1>1, <1>11, <2>0
  <2>7. QED
    BY <1>4, <2>3, <2>5, <2>6
<1>12. QED
  BY <1>8, <1>9, <1>10, <1>11 DEF u

\* compress4 has lost nothing.
LEMMA NarrowedIs ==
  ASSUME CountsFit, Narrowed, NEW t \in Nat, t < Up(Size, ratio), NEW m \in 0 .. ratio - 1
  PROVE  /\ t * ratio + m \in 0 .. Up(Size, ratio) * ratio - 1
         /\ (t * ratio + m) % ratio = m
         /\ compressed[t * ratio + m] =
              IF t * ratio + m < Size THEN counts[t * ratio + m] ELSE Leftover
<1>1. Size \in Nat /\ ratio \in Nat \ {0}
  BY SizeFacts
<1> DEFINE u == Up(Size, ratio)
           i == t * ratio + m
<1>2. u \in Nat /\ u * ratio \in Nat
  BY <1>1, UpFacts
<1>3. t * ratio \in Nat /\ t * ratio + ratio <= u * ratio
  BY <1>1, <1>2, TimesLess
<1>4. i \in 0 .. u * ratio - 1
  BY <1>1, <1>2, <1>3
<1>5. i % ratio = m
  BY <1>1, QuotientOnce
<1>6. compressed[i] = IF i < Size THEN counts[i] % IdsBound ELSE Leftover
  BY <1>4 DEF Narrowed
<1>7. i < Size => counts[i] % IdsBound = counts[i]
  <2>1. i < Size => i \in 0 .. Size - 1
    BY <1>1, <1>4
  <2>2. QED
    BY <2>1, SizeFacts
<1>8. QED
  BY <1>4, <1>5, <1>6, <1>7

\* What a thread of breduce adds up.
LEMMA ReduceThread ==
  ASSUME CountsFit, Narrowed, NEW t \in Nat
  PROVE  Total(ThreadCounts(t, Size \div ratio), ratio) = Reduced[t + 1] - Reduced[t]
<1> DEFINE n == Size \div ratio
           h == ThreadCounts(t, n)
<1>1. Size \in Nat /\ ratio \in Nat \ {0} /\ ratio \in Nat /\ Ints(counts, Size)
  BY SizeFacts
<1>2. n \in Nat /\ n * ratio \in Nat /\ n * ratio <= Size
  <2> DEFINE z == n * ratio
             m == Size % ratio
  <2>1. n \in Nat /\ z \in Nat /\ m \in 0 .. ratio - 1 /\ Size = z + m
    BY <1>1, Quotient
  <2> HIDE DEF n, z, m
  <2>2. QED
    BY <1>1, <2>1 DEF z
<1>3. \A s \in Nat : Reduced[s] = Total(counts, Lesser(s, n) * ratio) /\ Reduced[s] \in Int
  <2>1. \A s \in Nat : Reduced[s] = Total(counts, Lesser(s, n) * ratio)
    BY DEF Reduced
  <2>2. \A s \in Nat : Reduced[s] \in Int
    BY SumsFacts
  <2>3. QED
    BY <2>1, <2>2
<1>4. \A m \in 0 .. ratio - 1 : h[m] = IF t < n THEN compressed[t * ratio + m] ELSE 0
  BY DEF ThreadCounts
<1> HIDE DEF n, h
<1>5. CASE t < n
  <2> DEFINE a == t * ratio
  <2>1. a \in Nat /\ a + ratio <= n * ratio
    BY <1>1, <1>2, <1>5, TimesLess
  <2>2. (t + 1) * ratio = a + ratio
    BY <1>1
  <2>3. Reduced[t] = Total(counts, a) /\ Reduced[t + 1] = Total(counts, a + ratio)
    <3>1. Lesser(t, n) = t /\ Lesser(t + 1, n) = t + 1 /\ t + 1 \in Nat
      BY <1>2, <1>5 DEF Lesser
    <3>2. QED
      BY <1>3, <2>2, <3>1
  <2>4. ASSUME NEW m \in 0 .. ratio - 1 PROVE h[m] = counts[a + m]
    <3>1. a + m < Size
      BY <1>1, <1>2, <2>1
    <3>2. t < Up(Size, ratio)
      <4>1. t * ratio < Size
        BY <1>1, <1>2, <2>1
      <4>2. QED
        BY <1>1, <4>1, UpFacts
    <3>3. compressed[t * ratio + m] = IF t * ratio + m < Size THEN counts[t * ratio + m] ELSE Leftover
      BY <3>2, NarrowedIs
    <3>4. QED
      BY <1>4, <1>5, <3>1, <3>3
  <2> HIDE DEF a
  <2>5. a + ratio <= Size
    BY <1>1, <1>2, <2>1
  <2>6. Total(h, ratio) = Total(counts, a + ratio) - Total(counts, a)
    BY <1>1, <2>1, <2>4, <2>5, SliceTotal
  <2>7. QED
    BY <2>3, <2>6 DEF h, n
<1>6. CASE ~(t < n)
  <2> DEFINE g == [m \in 0 .. ratio |-> 0]
  <2>1. Ints(g, ratio + 1)
    BY <1>1 DEF Ints
  <2>2. \A m \in 0 .. ratio - 1 : h[m] = g[m + 1] - g[m]
    BY <1>1, <1>4, <1>6
  <2>3. g[ratio] = 0 /\ g[0] = 0
    BY <1>1
  <2> HIDE DEF g
  <2>4. Total(h, ratio) = g[ratio] - g[0]
    BY <1>1, <2>1, <2>2, Telescope
  <2>5. Lesser(t, n) = n /\ Lesser(t + 1, n) = n /\ t + 1 \in Nat
    BY <1>2, <1>6 DEF Lesser
  <2>6. Reduced[t + 1] = Reduced[t]
    BY <1>3, <2>5
  <2>7. QED
    BY <1>3, <2>3, <2>4, <2>5, <2>6 DEF h, n
<1>7. QED
  BY <1>5, <1>6

\* What a thread of gexscan adds up: also what lies after the counts.
LEMMA ScanThread ==
  ASSUME CountsFit, Narrowed, NEW t \in Nat
  PROVE  LET c == ThreadCounts(t, Up(Size, ratio))
         IN  Total([m \in 0 .. ratio - 1 |-> Extended(c, m)], ratio) = Preceding[t + 1] - Preceding[t]
<1> DEFINE u == Up(Size, ratio)
           c == ThreadCounts(t, u)
           h == [m \in 0 .. ratio - 1 |-> Extended(c, m)]
           M == u * ratio
<1>1. Size \in Nat /\ ratio \in Nat \ {0} /\ ratio \in Nat /\ IdsBound \in Nat \ {0} /\ IdsBound \div 2 \in Int
  BY SizeFacts, UnitsAssumption
<1>2. u \in Nat /\ M \in Nat
  BY <1>1, UpFacts
<1>3. Ints(Words, M) /\ \A i \in 0 .. M - 1 : Words[i] = Word(i)
  BY WordsFacts
<1>4. \A s \in Nat : Preceding[s] = Total(Words, Lesser(s, u) * ratio) /\ Preceding[s] \in Int
  <2>1. \A s \in Nat : Preceding[s] = Total(Words, Lesser(s, u) * ratio)
    BY DEF Preceding
  <2>2. \A s \in Nat : Preceding[s] \in Int
    BY SumsFacts
  <2>3. QED
    BY <2>1, <2>2
<1>5. \A m \in 0 .. ratio - 1 : /\ h[m] = Extended(c, m)
                                /\ c[m] = IF t < u THEN compressed[t * ratio + m] ELSE 0
  BY DEF ThreadCounts
<1> HIDE DEF c, h, M
<1>6. CASE t < u
  <2> DEFINE a == t * ratio
  <2>1. a \in Nat /\ a + ratio <= M
    BY <1>1, <1>2, <1>6, TimesLess DEF M
  <2>2. (t + 1) * ratio = a + ratio
    BY <1>1
  <2>3. Preceding[t] = Total(Words, a) /\ Preceding[t + 1] = Total(Words, a + ratio)
    <3>1. Lesser(t, u) = t /\ Lesser(t + 1, u) = t + 1 /\ t + 1 \in Nat
      BY <1>2, <1>6 DEF Lesser
    <3>2. QED
      BY <1>4, <2>2, <3>1
  <2>4. ASSUME NEW m \in 0 .. ratio - 1 PROVE h[m] = Words[a + m]
    <3>1. /\ a + m \in 0 .. M - 1 /\ (a + m) % ratio = m
          /\ c[m] = IF a + m < Size THEN counts[a + m] ELSE Leftover
      <4>1. /\ t * ratio + m \in 0 .. Up(Size, ratio) * ratio - 1
            /\ (t * ratio + m) % ratio = m
            /\ compressed[t * ratio + m] =
                 IF t * ratio + m < Size THEN counts[t * ratio + m] ELSE Leftover
        BY <1>6, NarrowedIs
      <4>2. QED
        BY <1>5, <1>6, <4>1 DEF M
    <3>2. Words[a + m] = Word(a + m)
      BY <1>3, <3>1
    <3> HIDE DEF a
    <3>3. CASE a + m < Size
      <4>1. a + m \in 0 .. Size - 1
        BY <1>1, <3>1, <3>3
      <4>2. rt = 2 => ~(counts[a + m] >= IdsBound \div 2)
        BY <4>1, SizeFacts
      <4>3. c[m] = counts[a + m]
        BY <3>1, <3>3
      <4>4. Extended(c, m) = c[m]
        BY <4>2, <4>3 DEF Extended
      <4>5. QED
        BY <1>5, <3>2, <3>3, <4>3, <4>4 DEF Word
    <3>4. CASE ~(a + m < Size)
      <4>1. c[m] = Leftover
        BY <3>1, <3>4
      <4>2. Extended(c, m) = IF rt = 2 /\ m = 3 /\ Leftover >= IdsBound \div 2 THEN Leftover - IdsBound ELSE Leftover
        BY <4>1 DEF Extended
      <4>3. Word(a + m) = IF rt = 2 /\ m = 3 /\ Leftover >= IdsBound \div 2 THEN Leftover - IdsBound ELSE Leftover
        BY <3>1, <3>4 DEF Word
      <4>4. QED
        BY <1>5, <3>2, <4>2, <4>3
    <3>5. QED
      BY <3>3, <3>4
  <2> HIDE DEF a
  <2>5. Total(h, ratio) = Total(Words, a + ratio) - Total(Words, a)
    BY <1>1, <1>2, <1>3, <2>1, <2>4, SliceTotal
  <2>6. QED
    BY <2>3, <2>5 DEF h, c
<1>7. CASE ~(t < u)
  <2> DEFINE g == [m \in 0 .. ratio |-> 0]
  <2>1. Ints(g, ratio + 1)
    BY <1>1 DEF Ints
  <2>2. \A m \in 0 .. ratio - 1 : h[m] = g[m + 1] - g[m]
    <3>1. ASSUME NEW m \in 0 .. ratio - 1 PROVE h[m] = 0
      <4>1. c[m] = 0
        BY <1>5, <1>7
      <4>2. ~(0 >= IdsBound \div 2)
        BY UnitsAssumption
      <4>3. Extended(c, m) = 0
        BY <4>1, <4>2 DEF Extended
      <4>4. QED
        BY <1>5, <4>3
    <3>2. \A m \in 0 .. ratio - 1 : g[m + 1] = 0 /\ g[m] = 0
      BY <1>1
    <3> HIDE DEF g
    <3>3. ASSUME NEW m \in 0 .. ratio - 1 PROVE h[m] = g[m + 1] - g[m]
      BY <3>1, <3>2
    <3>4. QED
      BY <3>3
  <2>3. g[ratio] = 0 /\ g[0] = 0
    BY <1>1
  <2> HIDE DEF g
  <2>4. Total(h, ratio) = g[ratio] - g[0]
    BY <1>1, <2>1, <2>2, Telescope
  <2>5. Lesser(t, u) = u /\ Lesser(t + 1, u) = u /\ t + 1 \in Nat
    BY <1>2, <1>7 DEF Lesser
  <2>6. Preceding[t + 1] = Preceding[t]
    BY <1>4, <2>5
  <2>7. QED
    BY <1>4, <2>3, <2>4, <2>5, <2>6 DEF h, c
<1>8. QED
  BY <1>6, <1>7

\* Where a thread of gexscan writes the sum before a count.
LEMMA WriteThread ==
  ASSUME CountsFit, Narrowed, NEW t \in Nat, NEW m \in 0 .. ratio - 1, t * ratio + m < Size
  PROVE  Prefix(ThreadCounts(t, Up(Size, ratio)), Preceding[t])[m] = Total(counts, t * ratio + m)
<1> DEFINE u == Up(Size, ratio)
           c == ThreadCounts(t, u)
           a == t * ratio
           h == [k \in DOMAIN c |-> IF k \div 4 < m \div 4 THEN Extended(c, k) ELSE c[k]]
<1>1. Size \in Nat /\ ratio \in Nat \ {0} /\ ratio \in Nat /\ Ints(counts, Size)
  BY SizeFacts
<1>2. a \in Nat /\ a < Size /\ t < u /\ a + m \in Nat /\ m \in Nat /\ a + m <= Size
  <2>1. a \in Nat
    BY <1>1
  <2>2. a < Size /\ a + m \in Nat /\ m \in Nat /\ a + m <= Size
    BY <1>1, <2>1
  <2>3. t < u
    BY <1>1, <2>2, UpFacts
  <2>4. QED
    BY <2>1, <2>2, <2>3
<1>3. DOMAIN c = 0 .. ratio - 1 /\ \A k \in 0 .. ratio - 1 : c[k] = compressed[a + k]
  BY <1>2 DEF ThreadCounts
<1>4. Prefix(c, Preceding[t])[m] = Preceding[t] + Total(h, m)
  BY <1>3 DEF Prefix
<1>5. Preceding[t] = Total(counts, a)
  BY <1>2, SumsFacts
<1>6. \A k \in 0 .. ratio - 1 : h[k] = IF k \div 4 < m \div 4 THEN Extended(c, k) ELSE c[k]
  BY <1>3
<1> HIDE DEF h, c
<1>7. ASSUME NEW k \in 0 .. m - 1 PROVE h[k] = counts[a + k]
  <2>1. k \in 0 .. ratio - 1 /\ a + k \in 0 .. Size - 1 /\ a + k < Size
    BY <1>1, <1>2
  <2>2. compressed[t * ratio + k] = IF t * ratio + k < Size THEN counts[t * ratio + k] ELSE Leftover
    BY <1>2, <2>1, NarrowedIs
  <2> HIDE DEF a
  <2>3. c[k] = counts[a + k]
    BY <1>3, <2>1, <2>2 DEF a
  <2>4. rt = 2 => ~(counts[a + k] >= IdsBound \div 2)
    BY <2>1, SizeFacts
  <2>5. Extended(c, k) = c[k]
    BY <2>3, <2>4 DEF Extended
  <2>6. QED
    BY <1>6, <2>1, <2>3, <2>5
<1> HIDE DEF a
<1>8. Total(h, m) = Total(counts, a + m) - Total(counts, a)
  BY <1>1, <1>2, <1>7, SliceTotal
<1>9. Total(counts, a + m) \in Int /\ Total(counts, a) \in Int
  <2>1. a \in 0 .. Size /\ a + m \in 0 .. Size
    BY <1>1, <1>2
  <2>2. QED
    BY <1>1, <2>1, TotalFacts
<1>10. Prefix(c, Preceding[t])[m] = Total(counts, a + m)
  BY <1>4, <1>5, <1>8, <1>9
<1>11. QED
  BY <1>10 DEF c, a

\* What the warps and the blocks of breduce add up, for the sums R before each
\* thread of the grid.
Spread(R, b, w) == [l \in Lanes |-> R[Lane(b, w, l) + 1] - R[Lane(b, w, l)]]

\* The sums of the threads of a warp add up to what lies between two of them.
LEMMA WarpTotal ==
  ASSUME NEW R \in [Nat -> Int], NEW b \in Nat, NEW w \in Nat
  PROVE  /\ Spread(R, b, w) \in [Lanes -> Int]
         /\ \A l \in 0 .. Warp : Total(Spread(R, b, w), l) = R[Base(b, w) + l] - R[Base(b, w)]
<1> DEFINE own == Spread(R, b, w)
           a == Base(b, w)
           g == [l \in 0 .. Warp |-> R[a + l]]
<1>1. /\ a \in Nat /\ \A l : Lane(b, w, l) = a + l
      /\ Warp \in Nat /\ Lanes = 0 .. Warp - 1
  BY BaseFacts, UnitsFacts, LanesFacts
<1> HIDE DEF a
<1>2. \A l \in 0 .. Warp : a + l \in Nat /\ g[l] = R[a + l] /\ g[l] \in Int
  BY <1>1
<1>3. own = [l \in Lanes |-> own[l]] /\ \A l \in Lanes : own[l] = R[a + l + 1] - R[a + l]
  BY <1>1 DEF Spread
<1> HIDE DEF g, own
<1>4. ASSUME NEW l \in 0 .. Warp - 1 PROVE own[l] = g[l + 1] - g[l] /\ own[l] \in Int
  <2>1. l \in 0 .. Warp /\ l + 1 \in 0 .. Warp /\ a + (l + 1) = a + l + 1
    BY <1>1
  <2>2. g[l + 1] = R[a + l + 1] /\ g[l] = R[a + l] /\ g[l + 1] \in Int /\ g[l] \in Int
    BY <1>2, <2>1
  <2>3. own[l] = R[a + l + 1] - R[a + l]
    BY <1>1, <1>3
  <2>4. QED
    BY <2>2, <2>3
<1>5. own \in [Lanes -> Int]
  <2>1. \A l \in Lanes : own[l] \in Int
    BY <1>1, <1>4
  <2>2. QED
    BY <1>3, <2>1
<1>6. ASSUME NEW l \in 0 .. Warp PROVE Total(own, l) = R[a + l] - R[a]
  <2>1. l \in Nat /\ Ints(g, l + 1) /\ \A j \in 0 .. l - 1 : own[j] = g[j + 1] - g[j]
    BY <1>1, <1>2, <1>4 DEF Ints
  <2>2. Total(own, l) = g[l] - g[0]
    BY <2>1, Telescope
  <2>3. g[l] = R[a + l] /\ g[0] = R[a]
    BY <1>1, <1>2
  <2>4. QED
    BY <2>2, <2>3
<1>7. QED
  BY <1>5, <1>6 DEF a, own

\* The sums of the first warps of a block, one in a lane.
LEMMA BlockTotal ==
  ASSUME NEW R \in [Nat -> Int], NEW b \in Nat,
         NEW own, own = [l \in Lanes |-> IF l < NWARP THEN R[Base(b, l + 1)] - R[Base(b, l)] ELSE 0]
  PROVE  /\ own \in [Lanes -> Int]
         /\ Total(own, Warp) = R[(b + 1) * THREADS] - R[b * THREADS]
<1> DEFINE g == [l \in 0 .. Warp |-> R[Base(b, Lesser(l, NWARP))]]
<1>1. Warp \in Nat /\ Lanes = 0 .. Warp - 1 /\ NWARP \in 1 .. Warp
  BY UnitsFacts, LanesFacts
<1>2. \A l \in Nat : Base(b, l) \in Nat
  BY BaseFacts
<1>3. \A l \in 0 .. Warp : Lesser(l, NWARP) \in Nat /\ g[l] = R[Base(b, Lesser(l, NWARP))] /\ g[l] \in Int
  <2>1. ASSUME NEW l \in 0 .. Warp
        PROVE  Lesser(l, NWARP) \in Nat /\ g[l] = R[Base(b, Lesser(l, NWARP))] /\ g[l] \in Int
    <3>1. Lesser(l, NWARP) \in Nat
      BY <1>1 DEF Lesser
    <3>2. g[l] = R[Base(b, Lesser(l, NWARP))]
      OBVIOUS
    <3>3. g[l] \in Int
      BY <1>2, <3>1, <3>2
    <3>4. QED
      BY <3>1, <3>2, <3>3
  <2>2. QED
    BY <2>1
<1> HIDE DEF g
<1>4. ASSUME NEW l \in 0 .. Warp - 1 PROVE own[l] = g[l + 1] - g[l] /\ own[l] \in Int
  <2>1. l \in 0 .. Warp /\ l + 1 \in 0 .. Warp
    BY <1>1
  <2>2. /\ g[l + 1] = R[Base(b, Lesser(l + 1, NWARP))] /\ g[l] = R[Base(b, Lesser(l, NWARP))]
        /\ g[l + 1] \in Int /\ g[l] \in Int
    BY <1>3, <2>1
  <2>3. own[l] = IF l < NWARP THEN R[Base(b, l + 1)] - R[Base(b, l)] ELSE 0
    BY <1>1
  <2>4. CASE l < NWARP
    <3>1. Lesser(l, NWARP) = l /\ Lesser(l + 1, NWARP) = l + 1
      BY <1>1, <2>4 DEF Lesser
    <3>2. QED
      BY <2>2, <2>3, <2>4, <3>1
  <2>5. CASE ~(l < NWARP)
    <3>1. Lesser(l, NWARP) = NWARP /\ Lesser(l + 1, NWARP) = NWARP
      BY <1>1, <2>5 DEF Lesser
    <3>2. QED
      BY <2>2, <2>3, <2>5, <3>1
  <2>6. QED
    BY <2>4, <2>5
<1>5. own \in [Lanes -> Int]
  <2>1. own = [l \in Lanes |-> own[l]]
    OBVIOUS
  <2>2. QED
    BY <1>1, <1>4, <2>1
<1>6. Total(own, Warp) = g[Warp] - g[0]
  <2> DEFINE f == own
  <2>1. Ints(g, Warp + 1)
    <3>1. ASSUME NEW j \in 0 .. (Warp + 1) - 1 PROVE g[j] \in Int
      <4>1. j \in 0 .. Warp
        BY <1>1
      <4>2. QED
        BY <1>3, <4>1
    <3>2. QED
      BY <3>1 DEF Ints
  <2>2. \A j \in 0 .. Warp - 1 : f[j] = g[j + 1] - g[j]
    BY <1>4
  <2> HIDE DEF f
  <2>3. Total(f, Warp) = g[Warp] - g[0]
    BY <1>1, <2>1, <2>2, Telescope
  <2>4. QED
    BY <2>3 DEF f
<1>7. g[Warp] = R[(b + 1) * THREADS] /\ g[0] = R[b * THREADS]
  <2>1. Lesser(Warp, NWARP) = NWARP /\ Lesser(0, NWARP) = 0 /\ Warp \in 0 .. Warp /\ 0 \in 0 .. Warp
    BY <1>1 DEF Lesser
  <2>2. Base(b, NWARP) = (b + 1) * THREADS /\ Base(b, 0) = b * THREADS
    <3>1. 0 \in Nat
      OBVIOUS
    <3>2. Base(b, NWARP) = Base(b + 1, 0) /\ Base(b, 0) = b * THREADS /\ Base(b + 1, 0) = (b + 1) * THREADS
      BY <3>1, BaseFacts
    <3>3. QED
      BY <3>2
  <2>3. QED
    BY <1>3, <2>1, <2>2
<1>8. QED
  BY <1>5, <1>6, <1>7

-----------------------------------------------------------------------------
(* bexscan.  G[i] is the sum of the blocks before i.  In step 2 * n - 1 of a *)
(* chunk the threads read what n - 1 turns left in shtmp, in step 2 * n they *)
(* store what n turns give; step 0 is the carry.                             *)

\* A phase of bexscan after the load is a chunk and a step in it.
LEMMA PhaseFacts ==
  /\ THREADS \in Nat \ {0, 1} /\ Turns(THREADS) \in 1 .. Len(Strides) /\ THREADS <= Width(Turns(THREADS))
  /\ Len(Strides) \in Nat
  /\ Steps \in Nat /\ Steps = 2 * Turns(THREADS) + 1 /\ Steps >= 3
  /\ \A p \in Nat \ {0} : /\ Chunk(p) \in Nat /\ Step(p) \in 0 .. Steps - 1
                          /\ Chunk(p) * Steps \in Nat /\ p - 1 = Chunk(p) * Steps + Step(p)
<1>1. /\ THREADS \in Nat \ {0, 1} /\ THREADS \in Nat /\ THREADS >= 2
      /\ THREADS \in 2 .. THREADS /\ THREADS \in 1 .. THREADS
  BY UnitsFacts
<1>2. Turns(THREADS) \in 1 .. Len(Strides) /\ THREADS <= Width(Turns(THREADS)) /\ Len(Strides) \in Nat
  BY <1>1, TurnsMany, TurnsFacts, StridesFacts
<1>3. Steps \in Nat /\ Steps = 2 * Turns(THREADS) + 1 /\ Steps >= 3 /\ Steps \in Nat \ {0}
  BY <1>2 DEF Steps
<1>4. ASSUME NEW p \in Nat \ {0}
      PROVE  /\ Chunk(p) \in Nat /\ Step(p) \in 0 .. Steps - 1
             /\ Chunk(p) * Steps \in Nat /\ p - 1 = Chunk(p) * Steps + Step(p)
  <2>1. p - 1 \in Nat
    OBVIOUS
  <2>2. QED
    BY <1>3, <2>1, Quotient DEF Chunk, Step
<1>5. \A p \in Nat \ {0} : /\ Chunk(p) \in Nat /\ Step(p) \in 0 .. Steps - 1
                          /\ Chunk(p) * Steps \in Nat /\ p - 1 = Chunk(p) * Steps + Step(p)
  BY <1>4, Zenon
<1>6. QED
  BY <1>1, <1>2, <1>3, <1>5, Zenon

\* The phase after.
LEMMA PhaseNext ==
  ASSUME NEW p \in Nat \ {0}
  PROVE  /\ Chunk(1) = 0 /\ Step(1) = 0
         /\ Step(p) < Steps - 1 => Chunk(p + 1) = Chunk(p) /\ Step(p + 1) = Step(p) + 1
         /\ Step(p) = Steps - 1 => Chunk(p + 1) = Chunk(p) + 1 /\ Step(p + 1) = 0
<1> DEFINE c == Chunk(p)
           j == Step(p)
<1>0. Steps \in Nat /\ Steps \in Nat \ {0} /\ Steps >= 3
  BY PhaseFacts
<1>1. /\ Steps \in Nat /\ Steps \in Nat \ {0} /\ Steps >= 3
      /\ c \in Nat /\ j \in 0 .. Steps - 1 /\ c * Steps \in Nat /\ p - 1 = c * Steps + j
  BY <1>0, PhaseFacts, Zenon
<1> HIDE DEF c, j
<1>2. Chunk(1) = 0 /\ Step(1) = 0
  <2>1. 0 \in 0 .. Steps - 1 /\ 1 - 1 = 0
    BY <1>1
  <2>2. 0 \div Steps = 0 /\ 0 % Steps = 0
    BY <1>1, <2>1, SmallQuotient
  <2>3. QED
    BY <2>1, <2>2 DEF Chunk, Step
<1>3. ASSUME j < Steps - 1 PROVE Chunk(p + 1) = c /\ Step(p + 1) = j + 1
  <2> DEFINE m == j + 1
  <2>1. (p + 1) - 1 = c * Steps + m /\ m \in 0 .. Steps - 1
    BY <1>1, <1>3
  <2> HIDE DEF m
  <2>2. (c * Steps + m) \div Steps = c /\ (c * Steps + m) % Steps = m
    BY <1>1, <2>1, QuotientOnce
  <2>3. QED
    BY <2>1, <2>2 DEF Chunk, Step, m
<1>4. ASSUME j = Steps - 1 PROVE Chunk(p + 1) = c + 1 /\ Step(p + 1) = 0
  <2> DEFINE d == c + 1
             m == 0
  <2>0. d * Steps = c * Steps + Steps
    BY <1>1
  <2>1. (p + 1) - 1 = d * Steps + m /\ m \in 0 .. Steps - 1 /\ d \in Nat
    BY <1>1, <1>4, <2>0
  <2> HIDE DEF m, d
  <2>2. (d * Steps + m) \div Steps = d /\ (d * Steps + m) % Steps = m
    BY <1>1, <2>1, QuotientOnce
  <2>3. QED
    BY <2>1, <2>2 DEF Chunk, Step, m, d
<1>5. QED
  BY <1>2, <1>3, <1>4 DEF c, j

\* Before and at the end of n chunks.
LEMMA PhaseEnd ==
  ASSUME NEW n \in Nat, NEW p \in 1 .. n * Steps
  PROVE  /\ Chunk(p) < n
         /\ p = n * Steps => Chunk(p) = n - 1 /\ Step(p) = Steps - 1
<1> DEFINE c == Chunk(p)
           j == Step(p)
<1>0. p \in Nat \ {0}
  OBVIOUS
<1>1. /\ Steps \in Nat /\ Steps \in Nat \ {0}
      /\ c \in Nat /\ j \in 0 .. Steps - 1 /\ c * Steps \in Nat /\ p - 1 = c * Steps + j
  BY <1>0, PhaseFacts
<1> HIDE DEF c, j
<1>2. n * Steps \in Nat /\ p <= n * Steps
  BY <1>1
<1>3. c < n
  <2>1. SUFFICES ASSUME n <= c PROVE FALSE
    BY <1>1
  <2>2. n * Steps <= c * Steps
    BY <1>1, <2>1, TimesMost
  <2>3. QED
    BY <1>0, <1>1, <1>2, <2>2
<1>4. ASSUME p = n * Steps PROVE c = n - 1 /\ j = Steps - 1
  <2>1. ~(c + 1 < n)
    <3>1. SUFFICES ASSUME c + 1 < n PROVE FALSE
      OBVIOUS
    <3>2. (c + 1) * Steps = c * Steps + Steps
      BY <1>1
    <3>3. (c + 1) * Steps + Steps <= n * Steps
      BY <1>1, <3>1, TimesLess
    <3>4. QED
      BY <1>0, <1>1, <1>2, <1>4, <3>2, <3>3
  <2>2. c = n - 1
    BY <1>1, <1>3, <2>1
  <2>3. n * Steps = c * Steps + Steps
    BY <1>1, <2>2
  <2>4. QED
    BY <1>1, <1>2, <1>4, <2>2, <2>3
<1>5. QED
  BY <1>3, <1>4 DEF c, j

\* The sum of the last w blocks of chunk c up to its block t; for the first
\* ones, of all blocks.
Cum(G, c, x)     == IF x <= 0 THEN 0 ELSE G[c * THREADS + x]
Part(G, c, t, w) == Cum(G, c, t + 1) - Cum(G, c, t + 1 - w)

InPart(nb, G, c, t) ==
  /\ nb \in Nat /\ G \in [0 .. nb -> Int] /\ c \in Nat
  /\ t \in 0 .. THREADS - 1 /\ c * THREADS + t < nb

PartLaws(G, c, t) ==
  /\ \A w \in Nat : Part(G, c, t, w) \in Int
  /\ t = 0 => Part(G, c, t, 1) = G[c * THREADS + 1]
  /\ t > 0 => Part(G, c, t, 1) = G[c * THREADS + t + 1] - G[c * THREADS + t]
  /\ \A w \in Nat : t < w => Part(G, c, t, w) = G[c * THREADS + t + 1]
  /\ \A w \in Nat : w <= t => Part(G, c, t, w) + Part(G, c, t - w, w) = Part(G, c, t, 2 * w)

\* What the turns need of the sums of parts.
LEMMA PartFacts ==
  ASSUME NEW nb, NEW G, NEW c, NEW t, InPart(nb, G, c, t)
  PROVE  PartLaws(G, c, t)
<1>0. /\ nb \in Nat /\ G \in [0 .. nb -> Int] /\ c \in Nat
      /\ t \in 0 .. THREADS - 1 /\ c * THREADS + t < nb
  BY DEF InPart
<1> DEFINE a == c * THREADS
           g == [x \in Int |-> Cum(G, c, x)]
<1>1. a \in Nat /\ THREADS \in Nat
  BY <1>0, UnitsFacts
<1>2. \A x \in Int : Cum(G, c, x) = g[x]
  OBVIOUS
<1>3. /\ \A x \in Int : x <= t + 1 => g[x] \in Int
      /\ \A x \in Int : x <= 0 => g[x] = 0
      /\ \A x \in Int : x > 0 => g[x] = G[a + x]
  <2>1. \A x \in Int : x > 0 => g[x] = G[a + x]
    BY DEF Cum
  <2>2. \A x \in Int : x <= 0 => g[x] = 0
    BY DEF Cum
  <2> HIDE DEF g, a
  <2>3. \A x \in Int : x > 0 /\ x <= t + 1 => a + x \in 0 .. nb
    BY <1>0, <1>1 DEF a
  <2>4. QED
    BY <1>0, <2>1, <2>2, <2>3
<1> HIDE DEF g, a
<1>4. ASSUME NEW w \in Int, NEW j \in Int PROVE Part(G, c, j, w) = g[j + 1] - g[j + 1 - w]
  <2>1. j + 1 \in Int /\ j + 1 - w \in Int
    OBVIOUS
  <2>2. Cum(G, c, j + 1) = g[j + 1] /\ Cum(G, c, j + 1 - w) = g[j + 1 - w]
    BY <1>2, <2>1
  <2>3. QED
    BY <2>2 DEF Part
<1>5. \A w \in Nat : /\ t + 1 - w \in Int /\ t + 1 - w <= t + 1 /\ w \in Int
  BY <1>0, <1>1
<1>6. t \in Int /\ t + 1 \in Int /\ g[t + 1] \in Int /\ g[t + 1] = G[a + (t + 1)] /\ 1 \in Int
  BY <1>0, <1>1, <1>3
<1>7. ASSUME NEW w \in Nat PROVE Part(G, c, t, w) = g[t + 1] - g[t + 1 - w] /\ g[t + 1 - w] \in Int
  BY <1>3, <1>4, <1>5, <1>6
<1>8. \A w \in Nat : Part(G, c, t, w) \in Int
  <2>1. ASSUME NEW w \in Nat PROVE Part(G, c, t, w) \in Int
    <3> DEFINE e == t + 1 - w
    <3>1. Part(G, c, t, w) = g[t + 1] - g[e] /\ g[e] \in Int
      BY <1>7
    <3> HIDE DEF e
    <3>2. QED
      BY <1>6, <3>1
  <2>2. QED
    BY <2>1
<1>9. a + (t + 1) = a + t + 1 /\ t + 1 - 1 = t
  BY <1>0, <1>1
<1>10. Part(G, c, t, 1) = g[t + 1] - g[t]
  BY <1>7, <1>9
<1>11. t = 0 => Part(G, c, t, 1) = G[a + 1]
  <2>1. t = 0 => g[t] = 0 /\ g[t + 1] = G[a + 1]
    BY <1>3, <1>6
  <2>2. QED
    BY <1>6, <1>10, <2>1
<1>12. t > 0 => Part(G, c, t, 1) = G[a + t + 1] - G[a + t]
  <2>1. t > 0 => g[t] = G[a + t]
    BY <1>3, <1>6
  <2>2. QED
    BY <1>6, <1>9, <1>10, <2>1
<1>13. ASSUME NEW w \in Nat, t < w PROVE Part(G, c, t, w) = G[a + t + 1]
  <2>1. g[t + 1 - w] = 0
    BY <1>3, <1>5, <1>6, <1>13
  <2>2. QED
    BY <1>6, <1>7, <1>9, <2>1
<1>14. ASSUME NEW w \in Nat, w <= t
       PROVE  Part(G, c, t, w) + Part(G, c, t - w, w) = Part(G, c, t, 2 * w)
  <2>1. /\ t - w \in Int /\ 2 * w \in Nat /\ w \in Int
        /\ t - w + 1 = t + 1 - w /\ t - w + 1 - w = t + 1 - 2 * w
    BY <1>6
  <2>2. Part(G, c, t - w, w) = g[t - w + 1] - g[t - w + 1 - w]
    BY <1>4, <2>1
  <2>3. /\ Part(G, c, t, w) = g[t + 1] - g[t + 1 - w] /\ g[t + 1 - w] \in Int
        /\ Part(G, c, t, 2 * w) = g[t + 1] - g[t + 1 - 2 * w] /\ g[t + 1 - 2 * w] \in Int
    BY <1>7, <2>1
  <2> DEFINE e == g[t + 1 - w]
             d == g[t + 1 - 2 * w]
             q == Part(G, c, t - w, w)
  <2>4. g[t - w + 1] = e /\ g[t - w + 1 - w] = d
    BY <2>1
  <2>5. q = e - d
    BY <2>2, <2>4
  <2>6. Part(G, c, t, w) = g[t + 1] - e /\ Part(G, c, t, 2 * w) = g[t + 1] - d /\ e \in Int /\ d \in Int
    BY <2>3
  <2> HIDE DEF e, d, q
  <2>7. Part(G, c, t, w) + q = Part(G, c, t, 2 * w)
    BY <1>6, <2>5, <2>6
  <2>8. QED
    BY <2>7 DEF q
<1>15. /\ t = 0 => Part(G, c, t, 1) = G[c * THREADS + 1]
       /\ t > 0 => Part(G, c, t, 1) = G[c * THREADS + t + 1] - G[c * THREADS + t]
  BY <1>11, <1>12 DEF a
<1>16. \A w \in Nat : t < w => Part(G, c, t, w) = G[c * THREADS + t + 1]
  BY <1>13 DEF a
<1>17. QED
  BY <1>8, <1>14, <1>15, <1>16, Zenon DEF PartLaws

\* What thread t of chunk c has in shtmp (x), in its register (r) and in v (y)
\* in step j, before or after it arrives at the barrier.
Held(G, c, j, arrived, t, x, r, y) ==
  LET n == (j + 1) \div 2
      i == c * THREADS + t
  IN  /\ j = 0 => x = IF arrived THEN Part(G, c, t, 1) ELSE G[i + 1] - G[i]
      /\ j % 2 = 1 => /\ x = Part(G, c, t, Width(n - 1))
                      /\ arrived /\ t >= Strides[n] => r = Part(G, c, t, Width(n))
      /\ j > 0 /\ j % 2 = 0 =>
           /\ x = Part(G, c, t, IF arrived THEN Width(n) ELSE Width(n - 1))
           /\ ~arrived /\ t >= Strides[n] => r = Part(G, c, t, Width(n))
           /\ arrived /\ j = Steps - 1 => y = x

Earlier(nb, G, c, s, v) ==
  \A i \in 0 .. nb - 1 : i \div THREADS < c => s[i] = G[i + 1] /\ v[i] = G[i + 1]
Later(nb, G, c, s) ==
  \A i \in 0 .. nb - 1 : i \div THREADS > c => s[i] = G[i + 1] - G[i]
Current(nb, G, c, j, wait, s, r, v) ==
  \A t \in 0 .. THREADS - 1 : c * THREADS + t < nb =>
    Held(G, c, j, t \in wait, t, s[c * THREADS + t], r[t], v[c * THREADS + t])
Registers(j, wait, r) == j > 0 \/ wait # {} => DOMAIN r = 0 .. THREADS - 1

InChunks(nb, G, c, j, wait, s, r, v) ==
  /\ Earlier(nb, G, c, s, v)
  /\ Later(nb, G, c, s)
  /\ Current(nb, G, c, j, wait, s, r, v)
  /\ Registers(j, wait, r)

\* The stride of the steps 2 * n - 1 and 2 * n of a chunk.
LEMMA TurnOf ==
  ASSUME NEW j \in 1 .. Steps - 1
  PROVE  LET n == (j + 1) \div 2
         IN  /\ n \in 1 .. Len(Strides) /\ n \in Nat /\ n - 1 \in 0 .. Len(Strides)
             /\ Strides[n] \in Nat \ {0} /\ Strides[n] = Width(n - 1) /\ Width(n) = 2 * Strides[n]
             /\ Width(n) \in Nat
             /\ j % 2 = 0 => j \div 2 = n
             /\ j = Steps - 1 => n = Turns(THREADS) /\ j % 2 = 0
<1> DEFINE n == (j + 1) \div 2
           k == Turns(THREADS)
<1>1. k \in 1 .. Len(Strides) /\ Len(Strides) \in Nat /\ Steps = 2 * k + 1
  BY PhaseFacts
<1> HIDE DEF k
<1>2. n \in 1 .. k /\ (j % 2 = 0 => j \div 2 = n) /\ (j = Steps - 1 => n = k /\ j % 2 = 0)
  BY <1>1
<1> HIDE DEF n
<1>3. n \in 1 .. Len(Strides) /\ n \in 0 .. Len(Strides) /\ n \in Nat /\ n - 1 \in 0 .. Len(Strides)
  BY <1>1, <1>2
<1>4. /\ Strides[n] \in Nat \ {0} /\ Strides[n] = Width(n - 1) /\ Width(n) = 2 * Width(n - 1)
      /\ Width(n) \in Nat
  BY <1>3, StridesFacts
<1>5. QED
  BY <1>2, <1>3, <1>4 DEF n, k

\* The carry gives the first thread of a chunk all the blocks before.
LEMMA HeldCarry ==
  ASSUME NEW nb \in Nat, NEW G \in [0 .. nb -> Int], G[0] = 0, NEW c \in Nat,
         NEW t \in 0 .. THREADS - 1, c * THREADS + t < nb,
         NEW x, NEW r, NEW y, Held(G, c, 0, FALSE, t, x, r, y), NEW q
  PROVE  Held(G, c, 0, TRUE, t,
              IF c * THREADS + t > 0 /\ t = 0 THEN x + G[c * THREADS] ELSE x, q, y)
<1> DEFINE a == c * THREADS
<1>1. /\ t = 0 => Part(G, c, t, 1) = G[a + 1]
      /\ t > 0 => Part(G, c, t, 1) = G[a + t + 1] - G[a + t]
  <2>1. InPart(nb, G, c, t)
    BY DEF InPart
  <2>2. PartLaws(G, c, t)
    BY <2>1, PartFacts, Zenon
  <2>3. QED
    BY <2>2 DEF PartLaws
<1>2. a \in Nat /\ THREADS \in Nat
  BY PhaseFacts
<1>3. x = G[a + t + 1] - G[a + t]
  BY DEF Held
<1> HIDE DEF a
<1>4. G[a + t + 1] \in Int /\ G[a + t] \in Int
  <2>1. a + t + 1 \in 0 .. nb /\ a + t \in 0 .. nb
    BY <1>2 DEF a
  <2>2. QED
    BY <2>1
<1> DEFINE x2 == IF a + t > 0 /\ t = 0 THEN x + G[a] ELSE x
<1>5. x2 = Part(G, c, t, 1)
  <2>1. CASE t > 0
    BY <1>1, <1>3, <2>1
  <2>2. CASE t = 0 /\ a > 0
    <3>1. a + t = a /\ a + t + 1 = a + 1 /\ x2 = x + G[a]
      BY <1>2, <2>2
    <3> HIDE DEF x2
    <3>2. QED
      BY <1>1, <1>3, <1>4, <2>2, <3>1
  <2>3. CASE t = 0 /\ a = 0
    <3>1. a + t = 0 /\ a + t + 1 = a + 1 /\ x2 = x
      BY <1>2, <2>3
    <3> HIDE DEF x2
    <3>2. QED
      BY <1>1, <1>3, <1>4, <2>3, <3>1
  <2>4. QED
    BY <1>2, <2>1, <2>2, <2>3
<1> HIDE DEF x2
<1>6. Held(G, c, 0, TRUE, t, x2, q, y)
  BY <1>5 DEF Held
<1>7. QED
  BY <1>6 DEF x2, a

\* What a thread adds to its own sum is that of as many blocks below.
LEMMA HeldRead ==
  ASSUME NEW nb \in Nat, NEW G \in [0 .. nb -> Int], NEW c \in Nat,
         NEW t \in 0 .. THREADS - 1, c * THREADS + t < nb,
         NEW j \in 1 .. Steps - 1, j % 2 = 1,
         NEW x, NEW r, NEW y, Held(G, c, j, FALSE, t, x, r, y),
         NEW z, t >= Strides[(j + 1) \div 2] => z = Part(G, c, t - Strides[(j + 1) \div 2], Width((j + 1) \div 2 - 1)),
         NEW q, t >= Strides[(j + 1) \div 2] => q = x + z
  PROVE  Held(G, c, j, TRUE, t, x, q, y)
<1> DEFINE n == (j + 1) \div 2
<1>1. /\ n \in Nat /\ Strides[n] \in Nat /\ Strides[n] = Width(n - 1) /\ Width(n) = 2 * Strides[n]
  BY TurnOf
<1>2. x = Part(G, c, t, Width(n - 1))
  BY DEF Held
<1>3. /\ t >= Strides[n] => z = Part(G, c, t - Strides[n], Width(n - 1))
      /\ t >= Strides[n] => q = x + z
  OBVIOUS
<1> HIDE DEF n
<1>4. t >= Strides[n] => q = Part(G, c, t, Width(n))
  <2>1. \A w \in Nat : w <= t => Part(G, c, t, w) + Part(G, c, t - w, w) = Part(G, c, t, 2 * w)
    <3>1. InPart(nb, G, c, t)
      BY DEF InPart
    <3>2. PartLaws(G, c, t)
      BY <3>1, PartFacts, Zenon
    <3>3. QED
      BY <3>2 DEF PartLaws
  <2>2. THREADS \in Nat
    BY PhaseFacts
  <2>3. QED
    BY <1>1, <1>2, <1>3, <2>1, <2>2
<1>5. QED
  BY <1>2, <1>4 DEF Held, n

\* What it stores is the sum of twice as many.
LEMMA HeldStore ==
  ASSUME NEW nb \in Nat, NEW G \in [0 .. nb -> Int], NEW c \in Nat,
         NEW t \in 0 .. THREADS - 1, c * THREADS + t < nb,
         NEW j \in 1 .. Steps - 1, j % 2 = 0,
         NEW x, NEW r, NEW y, Held(G, c, j, FALSE, t, x, r, y),
         NEW z, z = IF t >= Strides[j \div 2] THEN r ELSE x,
         NEW y2, j = Steps - 1 => y2 = z
  PROVE  Held(G, c, j, TRUE, t, z, r, y2)
<1> DEFINE n == (j + 1) \div 2
<1>1. /\ n \in Nat /\ Strides[n] \in Nat /\ Strides[n] = Width(n - 1) /\ Width(n) = 2 * Strides[n]
      /\ j \div 2 = n /\ Width(n) \in Nat
  BY TurnOf
<1>2. x = Part(G, c, t, Width(n - 1)) /\ (t >= Strides[n] => r = Part(G, c, t, Width(n)))
  BY DEF Held
<1> HIDE DEF n
<1>3. z = Part(G, c, t, Width(n))
  <2>1. CASE t >= Strides[n]
    BY <1>1, <1>2, <2>1
  <2>2. CASE ~(t >= Strides[n])
    <3>1. \A w \in Nat : t < w => Part(G, c, t, w) = G[c * THREADS + t + 1]
      <4>1. InPart(nb, G, c, t)
        BY DEF InPart
      <4>2. PartLaws(G, c, t)
        BY <4>1, PartFacts, Zenon
      <4>3. QED
        BY <4>2 DEF PartLaws
    <3>2. t < Width(n - 1) /\ t < Width(n) /\ Width(n - 1) \in Nat
      <4>1. t \in Nat /\ t < Strides[n]
        BY <1>1, <2>2, UnitsFacts
      <4>2. QED
        BY <1>1, <4>1
    <3>3. QED
      BY <1>1, <1>2, <2>2, <3>1, <3>2
  <2>3. QED
    BY <2>1, <2>2
<1>4. QED
  BY <1>3 DEF Held, n

\* At the barrier all have arrived, the next step begins.
LEMMA HeldNext ==
  ASSUME NEW G, NEW c, NEW t, NEW x, NEW r, NEW y, NEW j \in 0 .. Steps - 1, j < Steps - 1,
         Held(G, c, j, TRUE, t, x, r, y)
  PROVE  Held(G, c, j + 1, FALSE, t, x, r, y)
<1>1. Steps \in Nat
  BY PhaseFacts
<1>2. CASE j = 0
  <2>1. (1 + 1) \div 2 - 1 = 0 /\ 1 % 2 = 1 /\ j + 1 = 1
    BY <1>2
  <2>2. x = Part(G, c, t, Width(0))
    BY <1>2 DEF Held, Width
  <2>3. QED
    BY <2>1, <2>2 DEF Held
<1>3. CASE j % 2 = 1
  <2>1. (j + 1) % 2 = 0 /\ j + 1 > 0 /\ ((j + 1) + 1) \div 2 = (j + 1) \div 2
    BY <1>3
  <2> DEFINE n == (j + 1) \div 2
  <2>2. x = Part(G, c, t, Width(n - 1)) /\ (t >= Strides[n] => r = Part(G, c, t, Width(n)))
    BY <1>3 DEF Held
  <2>3. QED
    BY <2>1, <2>2 DEF Held
<1>4. CASE j > 0 /\ j % 2 = 0
  <2>1. (j + 1) % 2 = 1 /\ j + 1 > 0 /\ ((j + 1) + 1) \div 2 - 1 = (j + 1) \div 2
    BY <1>4
  <2>2. x = Part(G, c, t, Width((j + 1) \div 2))
    BY <1>4 DEF Held
  <2>3. QED
    BY <2>1, <2>2 DEF Held
<1>5. j = 0 \/ j % 2 = 1 \/ (j > 0 /\ j % 2 = 0)
  BY <1>1
<1>6. QED
  BY <1>2, <1>3, <1>4, <1>5, Zenon

\* What thread t changes when it arrives: its own entries, to what they should be.
Moves(nb, G, c, j, t, i, s, r, v, s2, r2, v2) ==
  /\ nb \in Nat /\ c \in Nat /\ j \in Nat /\ t \in 0 .. THREADS - 1 /\ i = c * THREADS + t /\ i < nb
  /\ \A m \in 0 .. nb - 1 : m # i => s2[m] = s[m] /\ v2[m] = v[m]
  /\ j > 0 => \A u \in 0 .. THREADS - 1 : u # t => r2[u] = r[u]
  /\ DOMAIN r2 = 0 .. THREADS - 1
  /\ Held(G, c, j, TRUE, t, s2[i], r2[t], v2[i])

\* Its arrival keeps what holds of the chunk.
LEMMA ChunkStep ==
  ASSUME NEW nb, NEW G, NEW c, NEW j, NEW wait, NEW s, NEW r, NEW v, NEW s2, NEW r2, NEW v2, NEW t, NEW i,
         InChunks(nb, G, c, j, wait, s, r, v), Moves(nb, G, c, j, t, i, s, r, v, s2, r2, v2)
  PROVE  InChunks(nb, G, c, j, wait \cup {t}, s2, r2, v2)
<1>0. /\ nb \in Nat /\ c \in Nat /\ j \in Nat /\ t \in 0 .. THREADS - 1 /\ i = c * THREADS + t /\ i < nb
      /\ \A m \in 0 .. nb - 1 : m # i => s2[m] = s[m] /\ v2[m] = v[m]
      /\ j > 0 => \A u \in 0 .. THREADS - 1 : u # t => r2[u] = r[u]
      /\ DOMAIN r2 = 0 .. THREADS - 1
      /\ Held(G, c, j, TRUE, t, s2[i], r2[t], v2[i])
  BY Zenon DEF Moves
<1>1. THREADS \in Nat \ {0} /\ THREADS \in Nat
  BY PhaseFacts
<1>2. ASSUME NEW u \in 0 .. THREADS - 1, c * THREADS + u < nb
      PROVE  /\ c * THREADS + u \in 0 .. nb - 1 /\ (c * THREADS + u) \div THREADS = c
             /\ c * THREADS + u = i => u = t
  <2>1. c * THREADS \in Nat
    BY <1>0, <1>1
  <2>2. (c * THREADS + u) \div THREADS = c
    BY <1>0, <1>1, QuotientOnce
  <2> DEFINE a == c * THREADS
  <2>3. a \in Nat /\ i = a + t /\ a + u < nb
    BY <1>0, <1>2, <2>1
  <2> HIDE DEF a
  <2>4. a + u \in 0 .. nb - 1 /\ (a + u = i => u = t)
    BY <1>0, <1>1, <2>3
  <2>5. QED
    BY <2>2, <2>4 DEF a
<1>3. i \in 0 .. nb - 1 /\ i \div THREADS = c
  BY <1>0, <1>2
<1>4. \A m \in 0 .. nb - 1 : (m \div THREADS < c \/ m \div THREADS > c) => m # i
  BY <1>0, <1>1, <1>3
<1>5. Earlier(nb, G, c, s2, v2) /\ Later(nb, G, c, s2)
  <2>1. Earlier(nb, G, c, s, v) /\ Later(nb, G, c, s)
    BY DEF InChunks
  <2>2. Earlier(nb, G, c, s2, v2)
    BY <1>0, <1>4, <2>1 DEF Earlier
  <2>3. Later(nb, G, c, s2)
    BY <1>0, <1>4, <2>1 DEF Later
  <2>4. QED
    BY <2>2, <2>3
<1>6. Current(nb, G, c, j, wait \cup {t}, s2, r2, v2)
  <2>1. SUFFICES ASSUME NEW u \in 0 .. THREADS - 1, c * THREADS + u < nb
        PROVE  Held(G, c, j, u \in wait \cup {t}, u, s2[c * THREADS + u], r2[u], v2[c * THREADS + u])
    BY Zenon DEF Current
  <2>2. CASE u = t
    <3>1. (u \in wait \cup {t}) = TRUE /\ c * THREADS + u = i
      BY <1>0, <2>2
    <3>2. QED
      BY <1>0, <2>2, <3>1, Zenon
  <2>3. CASE u # t
    <3>1. Held(G, c, j, u \in wait, u, s[c * THREADS + u], r[u], v[c * THREADS + u])
      BY <2>1, Zenon DEF InChunks, Current
    <3>2. s2[c * THREADS + u] = s[c * THREADS + u] /\ v2[c * THREADS + u] = v[c * THREADS + u]
      BY <1>0, <1>2, <2>1, <2>3
    <3>3. (u \in wait \cup {t}) = (u \in wait)
      BY <2>3
    <3>4. CASE j > 0
      <4>1. r2[u] = r[u]
        BY <1>0, <2>3, <3>4
      <4>2. QED
        BY <3>1, <3>2, <3>3, <4>1, Zenon
    <3>5. CASE j = 0
      <4>1. Held(G, c, 0, u \in wait, u, s[c * THREADS + u], r2[u], v[c * THREADS + u])
        BY <3>1, <3>5 DEF Held
      <4>2. QED
        BY <3>2, <3>3, <3>5, <4>1, Zenon
    <3>6. QED
      BY <1>0, <3>4, <3>5
  <2>4. QED
    BY <2>2, <2>3
<1>7. Registers(j, wait \cup {t}, r2)
  BY <1>0 DEF Registers
<1>8. QED
  BY <1>5, <1>6, <1>7 DEF InChunks

\* The barrier to the next step of the chunk.
LEMMA ChunkNext ==
  ASSUME NEW nb \in Nat, NEW G, NEW c \in Nat, NEW j \in 0 .. Steps - 1, j < Steps - 1, NEW wait,
         NEW s, NEW r, NEW v, InChunks(nb, G, c, j, wait, s, r, v), c * THREADS < nb,
         \A t \in 0 .. THREADS - 1 : c * THREADS + t < nb => t \in wait
  PROVE  InChunks(nb, G, c, j + 1, {}, s, r, v)
<1>1. THREADS \in Nat \ {0} /\ THREADS \in Nat /\ Steps \in Nat
  BY PhaseFacts
<1>2. Current(nb, G, c, j + 1, {}, s, r, v)
  <2>1. SUFFICES ASSUME NEW t \in 0 .. THREADS - 1, c * THREADS + t < nb
        PROVE  Held(G, c, j + 1, t \in {}, t, s[c * THREADS + t], r[t], v[c * THREADS + t])
    BY Zenon DEF Current
  <2>2. Held(G, c, j, t \in wait, t, s[c * THREADS + t], r[t], v[c * THREADS + t])
    BY <2>1, Zenon DEF InChunks, Current
  <2>3. (t \in wait) = TRUE /\ (t \in {}) = FALSE
    BY <2>1
  <2>4. Held(G, c, j, TRUE, t, s[c * THREADS + t], r[t], v[c * THREADS + t])
    BY <2>2, <2>3, Zenon
  <2>5. Held(G, c, j + 1, FALSE, t, s[c * THREADS + t], r[t], v[c * THREADS + t])
    BY <2>4, HeldNext, Zenon
  <2>6. QED
    BY <2>3, <2>5, Zenon
<1>3. Registers(j + 1, {}, r)
  <2>1. 0 \in 0 .. THREADS - 1 /\ c * THREADS + 0 < nb
    BY <1>1
  <2>2. wait # {}
    BY <2>1
  <2>3. QED
    BY <2>2 DEF InChunks, Registers
<1>4. QED
  BY <1>2, <1>3 DEF InChunks

\* The last turn of a chunk gives the sums of all blocks up to each of its.
LEMMA ChunkSums ==
  ASSUME NEW nb \in Nat, NEW G \in [0 .. nb -> Int], NEW c \in Nat, NEW wait,
         NEW s, NEW r, NEW v, InChunks(nb, G, c, Steps - 1, wait, s, r, v),
         \A t \in 0 .. THREADS - 1 : c * THREADS + t < nb => t \in wait
  PROVE  \A i \in 0 .. nb - 1 : i \div THREADS <= c => s[i] = G[i + 1] /\ v[i] = G[i + 1]
<1> DEFINE j == Steps - 1
           k == Turns(THREADS)
<1>1. THREADS \in Nat \ {0} /\ THREADS \in Nat /\ Steps \in Nat /\ Steps >= 3 /\ THREADS <= Width(k)
  BY PhaseFacts
<1>2. j \in 1 .. Steps - 1 /\ j > 0 /\ j = Steps - 1
  BY <1>1
<1> HIDE DEF j
<1>3. (j + 1) \div 2 = k /\ j % 2 = 0 /\ Width(k) \in Nat
  BY <1>2, TurnOf
<1>4. SUFFICES ASSUME NEW i \in 0 .. nb - 1, i \div THREADS = c
      PROVE  s[i] = G[i + 1] /\ v[i] = G[i + 1]
  <2>1. ASSUME NEW i \in 0 .. nb - 1, i \div THREADS <= c PROVE s[i] = G[i + 1] /\ v[i] = G[i + 1]
    <3>1. i \div THREADS \in Nat
      <4>1. i \in Nat
        OBVIOUS
      <4>2. QED
        BY <1>1, <4>1, Quotient
    <3>2. CASE i \div THREADS < c
      BY <3>2 DEF InChunks, Earlier
    <3>3. CASE i \div THREADS = c
      BY <1>4, <3>3
    <3>4. QED
      BY <2>1, <3>1, <3>2, <3>3
  <2>2. QED
    BY <2>1
<1> DEFINE t == i % THREADS
<1>5. t \in 0 .. THREADS - 1 /\ i = c * THREADS + t
  <2>1. i \in Nat
    OBVIOUS
  <2>2. t \in 0 .. THREADS - 1 /\ i = (i \div THREADS) * THREADS + t
    BY <1>1, <2>1, Quotient
  <2>3. QED
    BY <1>4, <2>2
<1> HIDE DEF t
<1>6. c * THREADS + t < nb /\ t \in wait
  BY <1>5
<1>7. Held(G, c, j, TRUE, t, s[i], r[t], v[i])
  <2>1. Held(G, c, j, t \in wait, t, s[c * THREADS + t], r[t], v[c * THREADS + t])
    BY <1>5, <1>6, Zenon DEF InChunks, Current, j
  <2>2. (t \in wait) = TRUE
    BY <1>6
  <2>3. QED
    BY <1>5, <2>1, <2>2, Zenon
<1>8. s[i] = Part(G, c, t, Width(k)) /\ v[i] = s[i]
  BY <1>2, <1>3, <1>7 DEF Held
<1>9. Part(G, c, t, Width(k)) = G[c * THREADS + t + 1]
  <2>1. t < Width(k)
    BY <1>1, <1>3, <1>5
  <2>2. t \in 0 .. THREADS - 1 /\ c * THREADS + t < nb
    BY <1>5, <1>6
  <2>3. \A w \in Nat : t < w => Part(G, c, t, w) = G[c * THREADS + t + 1]
    <3>1. InPart(nb, G, c, t)
      BY <2>2 DEF InPart
    <3>2. PartLaws(G, c, t)
      BY <3>1, PartFacts, Zenon
    <3>3. QED
      BY <3>2 DEF PartLaws
  <2>4. QED
    BY <1>3, <2>1, <2>3
<1>10. QED
  BY <1>5, <1>8, <1>9

\* The barrier to the next chunk.
LEMMA ChunkEnd ==
  ASSUME NEW nb \in Nat, NEW G \in [0 .. nb -> Int], NEW c \in Nat, NEW wait,
         NEW s, NEW r, NEW v, InChunks(nb, G, c, Steps - 1, wait, s, r, v),
         \A t \in 0 .. THREADS - 1 : c * THREADS + t < nb => t \in wait
  PROVE  InChunks(nb, G, c + 1, 0, {}, s, r, v)
<1>1. THREADS \in Nat \ {0} /\ THREADS \in Nat
  BY PhaseFacts
<1>2. \A i \in 0 .. nb - 1 : i \div THREADS <= c => s[i] = G[i + 1] /\ v[i] = G[i + 1]
  BY ChunkSums
<1>3. \A i \in 0 .. nb - 1 : i \div THREADS \in Nat
  BY <1>1
<1>4. Earlier(nb, G, c + 1, s, v)
  BY <1>2, <1>3 DEF Earlier
<1>5. Later(nb, G, c, s)
  BY DEF InChunks
<1>6. Later(nb, G, c + 1, s)
  BY <1>3, <1>5 DEF Later
<1>7. Current(nb, G, c + 1, 0, {}, s, r, v)
  <2>1. SUFFICES ASSUME NEW t \in 0 .. THREADS - 1, (c + 1) * THREADS + t < nb
        PROVE  Held(G, c + 1, 0, t \in {}, t, s[(c + 1) * THREADS + t], r[t], v[(c + 1) * THREADS + t])
    BY Zenon DEF Current
  <2> DEFINE d == c + 1
             i == d * THREADS + t
  <2>2. d \in Nat /\ d > c
    OBVIOUS
  <2> HIDE DEF d
  <2>3. i \in Nat /\ i \div THREADS = d
    BY <1>1, <2>2, QuotientOnce
  <2>4. i < nb
    BY <2>1 DEF d
  <2> HIDE DEF i
  <2>5. s[i] = G[i + 1] - G[i]
    BY <1>5, <2>2, <2>3, <2>4 DEF Later
  <2>6. Held(G, d, 0, FALSE, t, s[i], r[t], v[i])
    BY <2>5 DEF Held, i
  <2>7. (t \in {}) = FALSE
    OBVIOUS
  <2>8. QED
    BY <2>6, <2>7, Zenon DEF i, d
<1>8. Registers(0, {}, r)
  BY DEF Registers
<1>9. QED
  BY <1>4, <1>6, <1>7, <1>8 DEF InChunks

\* The load, and the barrier to the first chunk.
Loading(nb, G, wait, s, v) ==
  \A i \in 0 .. nb - 1 : /\ v[i] = G[i + 1] - G[i]
                         /\ i % THREADS \in wait => s[i] = v[i]

Chunked(nb, G, p, wait, s, r, v) ==
  /\ p \in 0 .. Up(nb, THREADS) * Steps /\ wait \subseteq 0 .. THREADS - 1
  /\ DOMAIN s = 0 .. nb - 1 /\ DOMAIN v = 0 .. nb - 1
  /\ p = 0 => Loading(nb, G, wait, s, v)
  /\ p > 0 => InChunks(nb, G, Chunk(p), Step(p), wait, s, r, v)

\* The load of a thread.
LEMMA ChunkLoad ==
  ASSUME NEW nb \in Nat, NEW G, NEW wait, NEW s, NEW r, NEW v, Chunked(nb, G, 0, wait, s, r, v),
         NEW t \in 0 .. THREADS - 1, NEW s2,
         s2 = [i \in DOMAIN s |-> IF i % THREADS = t THEN v[i] ELSE s[i]]
  PROVE  Chunked(nb, G, 0, wait \cup {t}, s2, r, v)
<1>1. Loading(nb, G, wait, s, v) /\ DOMAIN s = 0 .. nb - 1
  BY DEF Chunked
<1>2. \A i \in 0 .. nb - 1 : s2[i] = IF i % THREADS = t THEN v[i] ELSE s[i]
  BY <1>1
<1>3. DOMAIN s2 = 0 .. nb - 1
  BY <1>1
<1>4. Loading(nb, G, wait \cup {t}, s2, v)
  BY <1>1, <1>2 DEF Loading
<1>5. QED
  BY <1>3, <1>4 DEF Chunked

\* A barrier of bexscan goes on with the chunk or to the next one.
LEMMA ChunkBarrier ==
  ASSUME NEW nb \in Nat, NEW G \in [0 .. nb -> Int], NEW p \in Nat, NEW wait, NEW s, NEW r, NEW v,
         Chunked(nb, G, p, wait, s, r, v), p < Up(nb, THREADS) * Steps,
         p = 0 => 0 .. THREADS - 1 \subseteq wait,
         p > 0 => \A t \in 0 .. THREADS - 1 : Index(p, t) < nb => t \in wait
  PROVE  Chunked(nb, G, p + 1, {}, s, r, v)
<1> DEFINE n == Up(nb, THREADS)
<1>1. /\ THREADS \in Nat \ {0} /\ THREADS \in Nat /\ Steps \in Nat
      /\ n \in Nat /\ \A c \in Nat : c < n => c * THREADS < nb
  BY PhaseFacts, UpFacts
<1>2. n * Steps \in Nat /\ p + 1 \in 0 .. n * Steps /\ p + 1 > 0
  BY <1>1
<1>3. InChunks(nb, G, Chunk(p + 1), Step(p + 1), {}, s, r, v)
  <2>1. CASE p = 0
    <3>1. Chunk(p + 1) = 0 /\ Step(p + 1) = 0
      <4>1. 1 \in Nat \ {0} /\ 0 + 1 = 1
        OBVIOUS
      <4>2. Chunk(1) = 0 /\ Step(1) = 0
        BY <4>1, PhaseNext
      <4>3. QED
        BY <2>1, <4>1, <4>2
    <3>2. \A i \in 0 .. nb - 1 : s[i] = G[i + 1] - G[i]
      <4>1. \A i \in 0 .. nb - 1 : i % THREADS \in 0 .. THREADS - 1
        BY <1>1
      <4>2. QED
        BY <2>1, <4>1 DEF Chunked, Loading
    <3>3. \A i \in 0 .. nb - 1 : i \div THREADS \in Nat
      <4>1. \A i \in 0 .. nb - 1 : i \in Nat
        OBVIOUS
      <4>2. QED
        BY <1>1, <4>1, Quotient, Zenon
    <3>4. Earlier(nb, G, 0, s, v) /\ Later(nb, G, 0, s) /\ Registers(0, {}, r)
      BY <3>2, <3>3 DEF Earlier, Later, Registers
    <3>5. Current(nb, G, 0, 0, {}, s, r, v)
      <4>1. SUFFICES ASSUME NEW t \in 0 .. THREADS - 1, 0 * THREADS + t < nb
            PROVE  Held(G, 0, 0, t \in {}, t, s[0 * THREADS + t], r[t], v[0 * THREADS + t])
        BY Zenon DEF Current
      <4> DEFINE i == 0 * THREADS + t
      <4>2. i \in 0 .. nb - 1
        BY <1>1, <4>1
      <4> HIDE DEF i
      <4>3. Held(G, 0, 0, FALSE, t, s[i], r[t], v[i])
        BY <3>2, <4>2 DEF Held, i
      <4>4. (t \in {}) = FALSE
        OBVIOUS
      <4>5. QED
        BY <4>3, <4>4, Zenon DEF i
    <3>6. InChunks(nb, G, 0, 0, {}, s, r, v)
      BY <3>4, <3>5 DEF InChunks
    <3>7. QED
      BY <3>1, <3>6
  <2>2. CASE p > 0
    <3> DEFINE c == Chunk(p)
               j == Step(p)
    <3>1. p \in Nat \ {0} /\ p \in 1 .. n * Steps
      BY <1>2, <2>2
    <3>2. c \in Nat /\ j \in 0 .. Steps - 1
      BY <3>1, PhaseFacts, Zenon
    <3>3. c < n /\ c * THREADS < nb
      <4>1. c < n
        BY <1>1, <3>1, PhaseEnd
      <4>2. QED
        BY <1>1, <3>2, <4>1
    <3>4. InChunks(nb, G, c, j, wait, s, r, v)
      BY <2>2 DEF Chunked
    <3>5. \A t \in 0 .. THREADS - 1 : c * THREADS + t < nb => t \in wait
      BY <2>2 DEF Index
    <3>6. /\ j < Steps - 1 => Chunk(p + 1) = c /\ Step(p + 1) = j + 1
          /\ j = Steps - 1 => Chunk(p + 1) = c + 1 /\ Step(p + 1) = 0
      BY <3>1, PhaseNext
    <3> HIDE DEF c, j
    <3>7. CASE j < Steps - 1
      <4>1. InChunks(nb, G, c, j + 1, {}, s, r, v)
        BY <3>2, <3>3, <3>4, <3>5, <3>7, ChunkNext
      <4>2. QED
        BY <3>6, <3>7, <4>1
    <3>8. CASE j = Steps - 1
      <4>1. InChunks(nb, G, c + 1, 0, {}, s, r, v)
        BY <3>2, <3>4, <3>5, <3>8, ChunkEnd
      <4>2. QED
        BY <3>6, <3>8, <4>1
    <3>9. QED
      BY <1>1, <3>2, <3>7, <3>8
  <2>3. QED
    BY <2>1, <2>2
<1>4. QED
  BY <1>2, <1>3 DEF Chunked

\* When the last chunk has returned, each block has the sum up to its own.
LEMMA ChunkFinal ==
  ASSUME NEW nb \in Nat, NEW G \in [0 .. nb -> Int], NEW wait, NEW s, NEW r, NEW v, NEW p \in Nat,
         p = Up(nb, THREADS) * Steps, Chunked(nb, G, p, wait, s, r, v),
         p > 0 => \A t \in 0 .. THREADS - 1 : Index(p, t) < nb => t \in wait
  PROVE  \A i \in 0 .. nb - 1 : v[i] = G[i + 1]
<1> DEFINE n == Up(nb, THREADS)
<1>1. /\ THREADS \in Nat \ {0} /\ THREADS \in Nat /\ Steps \in Nat /\ Steps >= 3
      /\ n \in Nat /\ n * THREADS \in Nat /\ nb <= n * THREADS
  BY PhaseFacts, UpFacts
<1> HIDE DEF n
<1>2. SUFFICES ASSUME NEW i \in 0 .. nb - 1 PROVE v[i] = G[i + 1]
  OBVIOUS
<1>3. i \div THREADS \in Nat /\ i \div THREADS < n
  <2> DEFINE q == i \div THREADS
             z == q * THREADS
             m == i % THREADS
  <2>1. q \in Nat /\ z \in Nat /\ m \in 0 .. THREADS - 1 /\ i = z + m
    <3>1. i \in Nat
      OBVIOUS
    <3>2. QED
      BY <1>1, <3>1, Quotient
  <2> HIDE DEF q, m
  <2>2. ~(n <= q)
    <3>1. SUFFICES ASSUME n <= q PROVE FALSE
      OBVIOUS
    <3>2. n * THREADS <= z
      BY <1>1, <2>1, <3>1, TimesMost
    <3> HIDE DEF z
    <3>3. QED
      BY <1>1, <2>1, <3>2
  <2>3. QED
    BY <1>1, <2>1, <2>2 DEF q
<1>4. p \in 1 .. n * Steps /\ p = n * Steps
  <2>1. n * Steps >= 3
    <3>1. n >= 1 /\ 1 * Steps = Steps /\ 1 \in Nat
      BY <1>1, <1>3
    <3>2. 1 * Steps <= n * Steps /\ n * Steps \in Nat
      BY <1>1, <3>1, TimesMost
    <3>3. QED
      BY <1>1, <3>1, <3>2
  <2>2. p = n * Steps
    BY DEF n
  <2>3. QED
    BY <2>1, <2>2
<1>5. Chunk(p) = n - 1 /\ Step(p) = Steps - 1 /\ n - 1 \in Nat
  <2>1. n - 1 \in Nat
    BY <1>1, <1>3
  <2>2. QED
    BY <1>1, <1>4, <2>1, PhaseEnd
<1>6. InChunks(nb, G, n - 1, Steps - 1, wait, s, r, v)
  BY <1>4, <1>5 DEF Chunked
<1>7. \A t \in 0 .. THREADS - 1 : (n - 1) * THREADS + t < nb => t \in wait
  BY <1>4, <1>5 DEF Index
<1> DEFINE c == n - 1
<1>8. c \in Nat /\ i \div THREADS <= c
  BY <1>1, <1>3, <1>5
<1> HIDE DEF c
<1>9. s[i] = G[i + 1] /\ v[i] = G[i + 1]
  BY <1>6, <1>7, <1>8, ChunkSums DEF c
<1>10. QED
  BY <1>9

-----------------------------------------------------------------------------
(* The invariant: what each kernel has done so far.                          *)

BlockSums == [b \in 0 .. nblocks |-> Reduced[b * THREADS]]

BlockReduced(R, b, p, wait, s, v) ==
  /\ p \in 0 .. 1 /\ wait \subseteq Warps /\ DOMAIN s = Warps
  /\ \A w \in Warps : p = 1 \/ w \in wait => s[w] = R[Base(b, w + 1)] - R[Base(b, w)]
  /\ p = 1 /\ 0 \in wait => v = R[(b + 1) * THREADS] - R[b * THREADS]

\* The warp that leaves its sum to warp w, and what it leaves.
Source(w)   == IF w = 0 THEN NWARP - 1 ELSE w - 1
Left(Q, b, w) == IF w = 0 THEN Q[Base(b, 0)] ELSE Q[Base(b, w)] - Q[Base(b, w - 1)]

BlockScanned(Q, b, p, wait, s, r) ==
  /\ p \in 0 .. 2 /\ wait \subseteq Warps /\ DOMAIN s = Warps
  /\ \A w \in Warps : p > 0 \/ w \in wait =>
       w \in DOMAIN r /\ \A l \in Lanes : r[w][l] = Q[Base(b, w) + l] - Q[Base(b, w)]
  /\ \A w \in Warps : (p = 0 /\ Source(w) \in wait) \/ (p = 1 /\ 0 \notin wait) => s[w] = Left(Q, b, w)
  /\ \A w \in Warps : (p = 1 /\ 0 \in wait) \/ p = 2 => s[w] = Q[Base(b, w)]

\* The warps that have written the sums before the counts they have.
Written ==
  \A b \in 0 .. nblocks - 1, w \in Warps : at[b] = 2 /\ w \in waiting[b] =>
    \A i \in 0 .. Size - 1 :
      (i \div ratio) \div Warp = b * NWARP + w => cl_n_scan[i] = Total(counts, i)

Sized == running # "compress4" => Narrowed /\ DOMAIN red = 0 .. nblocks - 1

OfBlocks(f) == DOMAIN f = 0 .. nblocks - 1

ReduceInv == running = "breduce" =>
  /\ OfBlocks(at) /\ OfBlocks(waiting) /\ OfBlocks(sh)
  /\ \A b \in 0 .. nblocks - 1 : BlockReduced(Reduced, b, at[b], waiting[b], sh[b], red[b])

ChunksInv == running = "bexscan" =>
  /\ DOMAIN at = {0} /\ DOMAIN waiting = {0} /\ DOMAIN sh = {0} /\ DOMAIN reg = {0}
  /\ Chunked(nblocks, BlockSums, at[0], waiting[0], sh[0], reg[0], red)

WarpsInv == running = "gexscan" =>
  /\ OfBlocks(at) /\ OfBlocks(waiting) /\ OfBlocks(sh) /\ OfBlocks(reg)
  /\ \A b \in 0 .. nblocks - 1 : red[b] = BlockSums[b + 1]
  /\ \A b \in 0 .. nblocks - 1 : BlockScanned(Preceding, b, at[b], waiting[b], sh[b], reg[b])
  /\ DOMAIN cl_n_scan = 0 .. Up(Size, ratio) * ratio - 1
  /\ Written

ReturnInv == running = "returned" =>
  /\ DOMAIN cl_n_scan = DOMAIN counts
  /\ \A i \in DOMAIN counts : cl_n_scan[i] = Total(counts, i)

ScanInv ==
  /\ CountsFit
  /\ running \in {"compress4", "breduce", "bexscan", "gexscan", "returned"}
  /\ running = "compress4" => red = <<>> /\ at = <<>>
  /\ Sized /\ ReduceInv /\ ChunksInv /\ WarpsInv /\ ReturnInv

\* scan_ begins with it.
LEMMA InitInv == ASSUME ScanInit, CountsFit PROVE ScanInv
BY DEF ScanInit, ScanInv, Sized, ReduceInv, ChunksInv, WarpsInv, ReturnInv

\* The blocks and the sums before them.
LEMMA NblocksFacts ==
  ASSUME CountsFit
  PROVE  /\ nblocks \in Nat /\ BlockSums \in [0 .. nblocks -> Int] /\ BlockSums[0] = 0
         /\ \A b \in 0 .. nblocks : BlockSums[b] = Reduced[b * THREADS] /\ b * THREADS \in Nat
         /\ \A b \in Nat : b < nblocks => b * THREADS * ratio < Size
         /\ \A b \in 0 .. nblocks - 1 : b * THREADS \in Nat /\ Reduced[b * THREADS] = Preceding[b * THREADS]
<1>1. /\ Size \in Nat /\ ratio \in Nat \ {0} /\ THREADS \in Nat \ {0} /\ THREADS * ratio \in Nat \ {0}
  <2>1. Size \in Nat /\ ratio \in Nat \ {0} /\ THREADS \in Nat \ {0}
    BY SizeFacts, PhaseFacts
  <2>2. 1 \in Nat /\ 1 <= THREADS /\ THREADS \in Nat /\ ratio \in Nat /\ ratio >= 1
    BY <2>1
  <2>3. 1 * ratio <= THREADS * ratio /\ THREADS * ratio \in Nat /\ 1 * ratio = ratio
    BY <2>2, TimesMost
  <2>4. QED
    BY <2>1, <2>2, <2>3
<1>2. nblocks \in Nat /\ \A b \in Nat : b < nblocks <=> b * (THREADS * ratio) < Size
  BY <1>1, UpFacts DEF nblocks
<1>3. \A b \in Nat : b * THREADS \in Nat /\ b * (THREADS * ratio) = b * THREADS * ratio /\ b * THREADS * ratio \in Nat
  BY <1>1
<1>4. \A b \in 0 .. nblocks : BlockSums[b] = Reduced[b * THREADS]
  BY DEF BlockSums
<1>5. Reduced \in [Nat -> Int] /\ Reduced[0] = 0 /\ \A t \in Nat : t * ratio <= Size => Reduced[t] = Preceding[t]
  BY SumsFacts
<1>6. BlockSums \in [0 .. nblocks -> Int]
  <2>1. \A b \in 0 .. nblocks : BlockSums[b] \in Int
    BY <1>3, <1>4, <1>5
  <2>2. BlockSums = [b \in 0 .. nblocks |-> BlockSums[b]]
    BY DEF BlockSums
  <2>3. QED
    BY <2>1, <2>2
<1>7. BlockSums[0] = 0
  <2>1. 0 \in 0 .. nblocks /\ 0 * THREADS = 0
    BY <1>1, <1>2
  <2>2. BlockSums[0] = Reduced[0 * THREADS]
    BY <1>4, <2>1
  <2>3. QED
    BY <1>5, <2>1, <2>2
<1>8. \A b \in Nat : b < nblocks => b * THREADS * ratio < Size
  BY <1>2, <1>3
<1>9. ASSUME NEW b \in 0 .. nblocks - 1 PROVE b * THREADS \in Nat /\ Reduced[b * THREADS] = Preceding[b * THREADS]
  <2> DEFINE t == b * THREADS
  <2>1. b \in Nat /\ b < nblocks /\ t \in Nat /\ t * ratio < Size
    BY <1>2, <1>3, <1>8
  <2>2. t * ratio \in Nat
    BY <1>3, <2>1
  <2> HIDE DEF t
  <2>3. QED
    BY <1>1, <1>5, <2>1, <2>2 DEF t
<1>10. \A b \in 0 .. nblocks : b * THREADS \in Nat
  BY <1>2, <1>3
<1>11. QED
  BY <1>2, <1>4, <1>6, <1>7, <1>8, <1>9, <1>10, Zenon

\* What depends on the arguments alone stays.
LEMMA Frame ==
  ASSUME CountsFit, UNCHANGED <<rt, counts>>
  PROVE  /\ CountsFit' /\ Size' = Size /\ ratio' = ratio /\ nblocks' = nblocks
         /\ Reduced' = Reduced /\ Preceding' = Preceding /\ BlockSums' = BlockSums
         /\ compressed' = compressed /\ Narrowed => Narrowed'
<1>1. rt' = rt /\ counts' = counts
  OBVIOUS
<1>2. CountsFit'
  BY <1>1 DEF CountsFit
<1>3. Size' = Size /\ ratio' = ratio
  BY <1>1 DEF Size, ratio
<1>4. nblocks' = nblocks
  BY <1>3 DEF nblocks
<1>5. Reduced' = Reduced
  BY <1>1, <1>3 DEF Reduced
<1>6. Preceding' = Preceding
  <2>1. Words' = Words
    BY <1>1, <1>3 DEF Words, Word
  <2>2. QED
    BY <1>3, <2>1 DEF Preceding
<1>7. BlockSums' = BlockSums
  BY <1>4, <1>5 DEF BlockSums
<1>8. compressed' = compressed /\ Narrowed => Narrowed'
  BY <1>1, <1>3 DEF Narrowed
<1>9. QED
  BY <1>2, <1>3, <1>4, <1>5, <1>6, <1>7, <1>8

\* compress4 and the launch of breduce.
LEMMA LaunchReduceInv ==
  ASSUME ScanInv, LaunchReduce
  PROVE  ScanInv'
<1>1. CountsFit /\ running = "compress4"
  BY DEF ScanInv, LaunchReduce
<1>2. /\ running' = "breduce" /\ UNCHANGED <<rt, counts>>
      /\ at' = [b \in 0 .. nblocks - 1 |-> 0] /\ waiting' = [b \in 0 .. nblocks - 1 |-> {}]
      /\ sh' = [b \in 0 .. nblocks - 1 |-> [e \in Warps |-> Leftover]]
      /\ red' = [b \in 0 .. nblocks - 1 |-> Leftover]
      /\ compressed' = [i \in 0 .. Up(Size, ratio) * ratio - 1 |->
                          IF i < Size THEN counts[i] % IdsBound ELSE Leftover]
  BY DEF LaunchReduce, LaunchKernel
<1>3. /\ CountsFit' /\ Size' = Size /\ ratio' = ratio /\ nblocks' = nblocks /\ Reduced' = Reduced
  BY <1>1, <1>2, Frame
<1>4. Sized'
  BY <1>2, <1>3 DEF Sized, Narrowed
<1>5. ReduceInv'
  <2>1. OfBlocks(at') /\ OfBlocks(waiting') /\ OfBlocks(sh')
    BY <1>2 DEF OfBlocks
  <2>2. ASSUME NEW b \in 0 .. nblocks - 1
        PROVE  BlockReduced(Reduced, b, at'[b], waiting'[b], sh'[b], red'[b])
    <3>1. at'[b] = 0 /\ waiting'[b] = {} /\ DOMAIN (sh'[b]) = Warps
      BY <1>2
    <3>2. QED
      BY <3>1 DEF BlockReduced
  <2>3. QED
    BY <1>3, <2>1, <2>2 DEF ReduceInv, OfBlocks
<1>6. QED
  BY <1>2, <1>3, <1>4, <1>5 DEF ScanInv, ChunksInv, WarpsInv, ReturnInv

\* A warp of breduce.
LEMMA ReduceWarpInv ==
  ASSUME ScanInv, NEW b, NEW w \in Warps, ReduceWarp(b, w)
  PROVE  ScanInv'
<1> DEFINE own == [l \in Lanes |-> Total(ThreadCounts(Lane(b, w, l), Size \div ratio), ratio)]
<1>1. CountsFit /\ running = "breduce" /\ Narrowed /\ DOMAIN red = 0 .. nblocks - 1
  BY DEF ScanInv, Sized, ReduceWarp, Runs
<1>2. /\ b \in 0 .. nblocks - 1 /\ at[b] = 0 /\ w \in Warps
      /\ running' = running /\ UNCHANGED <<rt, counts>>
      /\ at' = at /\ waiting' = [waiting EXCEPT ![b] = @ \cup {w}]
      /\ sh' = [sh EXCEPT ![b][w] = WarpReduce(own)]
      /\ red' = red /\ compressed' = compressed
  BY <1>1 DEF ReduceWarp, Runs, Arrive, Blocks
<1>3. /\ CountsFit' /\ Size' = Size /\ ratio' = ratio /\ nblocks' = nblocks /\ Reduced' = Reduced
      /\ Narrowed'
  BY <1>1, <1>2, Frame
<1>4. /\ OfBlocks(at) /\ OfBlocks(waiting) /\ OfBlocks(sh)
      /\ \A a \in 0 .. nblocks - 1 : BlockReduced(Reduced, a, at[a], waiting[a], sh[a], red[a])
  BY <1>1 DEF ScanInv, ReduceInv
<1>5. nblocks \in Nat /\ b \in Nat /\ Reduced \in [Nat -> Int]
  <2>1. nblocks \in Nat
    BY <1>1, NblocksFacts
  <2>2. QED
    BY <1>1, <1>2, <2>1, SumsFacts
<1>6. WarpReduce(own) = Reduced[Base(b, w + 1)] - Reduced[Base(b, w)]
  <2>1. w \in Nat /\ Warp \in Nat
    BY UnitsFacts DEF Warps
  <2>2. \A l \in Lanes : Lane(b, w, l) \in Nat
    <3>1. Lanes = 0 .. Warp - 1 /\ Base(b, w) \in Nat /\ \A l : Lane(b, w, l) = Base(b, w) + l
      BY <1>5, <2>1, LanesFacts, BaseFacts
    <3>2. QED
      BY <3>1
  <2>3. own = Spread(Reduced, b, w)
    BY <1>1, <2>2, ReduceThread DEF Spread
  <2> HIDE DEF own
  <2>4. /\ own \in [Lanes -> Int]
        /\ \A l \in 0 .. Warp : Total(own, l) = Reduced[Base(b, w) + l] - Reduced[Base(b, w)]
    BY <1>5, <2>1, <2>3, WarpTotal
  <2>5. Base(b, w) + Warp = Base(b, w + 1) /\ Warp \in 0 .. Warp
    BY <1>5, <2>1, BaseFacts
  <2>6. Total(own, Warp) = Reduced[Base(b, w + 1)] - Reduced[Base(b, w)]
    BY <2>4, <2>5
  <2>7. QED
    BY <2>4, <2>6, WarpReduceTotal
<1> HIDE DEF own
<1>7. ReduceInv'
  <2>1. OfBlocks(at') /\ OfBlocks(waiting') /\ OfBlocks(sh')
    BY <1>2, <1>4 DEF OfBlocks
  <2>2. ASSUME NEW a \in 0 .. nblocks - 1
        PROVE  BlockReduced(Reduced, a, at'[a], waiting'[a], sh'[a], red'[a])
    <3>1. BlockReduced(Reduced, a, at[a], waiting[a], sh[a], red[a])
      BY <1>4
    <3>2. CASE a # b
      <4>1. at'[a] = at[a] /\ waiting'[a] = waiting[a] /\ sh'[a] = sh[a] /\ red'[a] = red[a]
        BY <1>2, <3>2
      <4>2. QED
        BY <3>1, <4>1
    <3>3. CASE a = b
      <4>1. /\ at'[b] = 0 /\ waiting'[b] = waiting[b] \cup {w} /\ red'[b] = red[b]
            /\ sh'[b] = [sh[b] EXCEPT ![w] = WarpReduce(own)]
        BY <1>2, <1>4 DEF OfBlocks
      <4>2. /\ waiting[b] \subseteq Warps /\ DOMAIN (sh[b]) = Warps
            /\ \A v \in Warps : v \in waiting[b] => sh[b][v] = Reduced[Base(b, v + 1)] - Reduced[Base(b, v)]
        BY <1>2, <3>1, <3>3 DEF BlockReduced
      <4>3. DOMAIN (sh'[b]) = Warps
        BY <4>1, <4>2
      <4>4. \A v \in Warps : v \in waiting[b] \cup {w} => sh'[b][v] = Reduced[Base(b, v + 1)] - Reduced[Base(b, v)]
        <5>1. ASSUME NEW v \in Warps, v \in waiting[b] \cup {w}
              PROVE  sh'[b][v] = Reduced[Base(b, v + 1)] - Reduced[Base(b, v)]
          <6>1. CASE v = w
            BY <1>2, <1>6, <4>1, <4>2, <6>1
          <6>2. CASE v # w
            <7>1. sh'[b][v] = sh[b][v] /\ v \in waiting[b]
              BY <4>1, <4>2, <5>1, <6>2
            <7>2. QED
              BY <4>2, <7>1
          <6>3. QED
            BY <6>1, <6>2
        <5>2. QED
          BY <5>1
      <4>5. QED
        BY <1>2, <3>3, <4>1, <4>2, <4>3, <4>4 DEF BlockReduced
    <3>4. QED
      BY <3>2, <3>3
  <2>3. QED
    BY <1>3, <2>1, <2>2 DEF ReduceInv, OfBlocks
<1>8. Sized'
  BY <1>1, <1>2, <1>3 DEF Sized
<1>9. QED
  BY <1>1, <1>2, <1>3, <1>7, <1>8 DEF ScanInv, ChunksInv, WarpsInv, ReturnInv

\* The warp of breduce that adds up the warps.
LEMMA ReduceBlockInv ==
  ASSUME ScanInv, NEW b, ReduceBlock(b)
  PROVE  ScanInv'
<1> DEFINE own == [l \in Lanes |-> IF l < NWARP THEN sh[b][l] ELSE 0]
<1>1. CountsFit /\ running = "breduce" /\ Narrowed /\ DOMAIN red = 0 .. nblocks - 1
  BY DEF ScanInv, Sized, ReduceBlock, Runs
<1>2. /\ b \in 0 .. nblocks - 1 /\ at[b] = 1
      /\ running' = running /\ UNCHANGED <<rt, counts>>
      /\ at' = at /\ waiting' = [waiting EXCEPT ![b] = @ \cup {0}]
      /\ red' = [red EXCEPT ![b] = WarpReduce(own)]
      /\ sh' = sh /\ compressed' = compressed
  BY <1>1 DEF ReduceBlock, Runs, Arrive, Blocks
<1>3. /\ CountsFit' /\ Size' = Size /\ ratio' = ratio /\ nblocks' = nblocks /\ Reduced' = Reduced
      /\ Narrowed'
  BY <1>1, <1>2, Frame
<1>4. /\ OfBlocks(at) /\ OfBlocks(waiting) /\ OfBlocks(sh)
      /\ \A a \in 0 .. nblocks - 1 : BlockReduced(Reduced, a, at[a], waiting[a], sh[a], red[a])
  BY <1>1 DEF ScanInv, ReduceInv
<1>5. nblocks \in Nat /\ b \in Nat /\ Reduced \in [Nat -> Int]
  <2>1. nblocks \in Nat
    BY <1>1, NblocksFacts
  <2>2. QED
    BY <1>1, <1>2, <2>1, SumsFacts
<1>6. WarpReduce(own) = Reduced[(b + 1) * THREADS] - Reduced[b * THREADS]
  <2>1. \A w \in Warps : sh[b][w] = Reduced[Base(b, w + 1)] - Reduced[Base(b, w)]
    BY <1>2, <1>4 DEF BlockReduced
  <2>2. own = [l \in Lanes |-> IF l < NWARP THEN Reduced[Base(b, l + 1)] - Reduced[Base(b, l)] ELSE 0]
    <3>1. \A l \in Lanes : l < NWARP => l \in Warps
      BY UnitsFacts DEF Lanes, Warps
    <3>2. QED
      BY <2>1, <3>1
  <2> HIDE DEF own
  <2> DEFINE R == Reduced
  <2>3. /\ R \in [Nat -> Int]
        /\ own = [l \in Lanes |-> IF l < NWARP THEN R[Base(b, l + 1)] - R[Base(b, l)] ELSE 0]
    BY <1>5, <2>2
  <2> HIDE DEF R
  <2>4. own \in [Lanes -> Int] /\ Total(own, Warp) = R[(b + 1) * THREADS] - R[b * THREADS]
    BY <1>5, <2>3, BlockTotal, Zenon
  <2>5. QED
    BY <2>4, WarpReduceTotal DEF R
<1> HIDE DEF own
<1>7. 0 \in Warps
  BY UnitsFacts DEF Warps
<1>8. ReduceInv'
  <2>1. OfBlocks(at') /\ OfBlocks(waiting') /\ OfBlocks(sh')
    BY <1>2, <1>4 DEF OfBlocks
  <2>2. ASSUME NEW a \in 0 .. nblocks - 1
        PROVE  BlockReduced(Reduced, a, at'[a], waiting'[a], sh'[a], red'[a])
    <3>1. BlockReduced(Reduced, a, at[a], waiting[a], sh[a], red[a])
      BY <1>4
    <3>2. CASE a # b
      <4>1. at'[a] = at[a] /\ waiting'[a] = waiting[a] /\ sh'[a] = sh[a] /\ red'[a] = red[a]
        BY <1>2, <3>2
      <4>2. QED
        BY <3>1, <4>1
    <3>3. CASE a = b
      <4>1. /\ at'[b] = 1 /\ waiting'[b] = waiting[b] \cup {0} /\ sh'[b] = sh[b]
            /\ red'[b] = WarpReduce(own)
        BY <1>1, <1>2, <1>4 DEF OfBlocks
      <4>2. QED
        BY <1>2, <1>6, <1>7, <3>1, <3>3, <4>1 DEF BlockReduced
    <3>4. QED
      BY <3>2, <3>3
  <2>3. QED
    BY <1>3, <2>1, <2>2 DEF ReduceInv, OfBlocks
<1>9. Sized'
  BY <1>1, <1>2, <1>3 DEF Sized
<1>10. QED
  BY <1>1, <1>2, <1>3, <1>8, <1>9 DEF ScanInv, ChunksInv, WarpsInv, ReturnInv

\* breduce has returned: red has the sums of the blocks.
LEMMA LaunchBlocksInv ==
  ASSUME ScanInv, LaunchBlocks
  PROVE  ScanInv'
<1>1. CountsFit /\ running = "breduce" /\ Narrowed /\ DOMAIN red = 0 .. nblocks - 1
  BY DEF ScanInv, Sized, LaunchBlocks
<1>2. /\ running' = "bexscan" /\ UNCHANGED <<rt, counts>>
      /\ at' = [b \in {0} |-> 0] /\ waiting' = [b \in {0} |-> {}]
      /\ sh' = [b \in {0} |-> [e \in 0 .. nblocks - 1 |-> Leftover]]
      /\ reg' = [b \in {0} |-> <<>>]
      /\ red' = red /\ compressed' = compressed
  BY DEF LaunchBlocks, LaunchKernel
<1>3. /\ CountsFit' /\ Size' = Size /\ ratio' = ratio /\ nblocks' = nblocks /\ BlockSums' = BlockSums
      /\ Narrowed'
  BY <1>1, <1>2, Frame
<1>4. /\ nblocks \in Nat /\ Steps \in Nat /\ THREADS \in Nat \ {0}
      /\ \A b \in 0 .. nblocks : BlockSums[b] = Reduced[b * THREADS]
  BY <1>1, NblocksFacts, PhaseFacts
<1>5. \A b \in 0 .. nblocks - 1 : red[b] = BlockSums[b + 1] - BlockSums[b]
  <2>1. ASSUME NEW b \in 0 .. nblocks - 1 PROVE red[b] = BlockSums[b + 1] - BlockSums[b]
    <3>1. BlockReduced(Reduced, b, at[b], waiting[b], sh[b], red[b])
      BY <1>1 DEF ScanInv, ReduceInv
    <3>2. at[b] = 1 /\ 0 \in waiting[b]
      BY <1>1 DEF LaunchBlocks, AllReturned, Blocks, LastPhase, Active
    <3>3. red[b] = Reduced[(b + 1) * THREADS] - Reduced[b * THREADS]
      BY <3>1, <3>2 DEF BlockReduced
    <3>4. b \in 0 .. nblocks /\ b + 1 \in 0 .. nblocks
      BY <1>4
    <3>5. QED
      BY <1>4, <3>3, <3>4
  <2>2. QED
    BY <2>1
<1>6. Chunked(nblocks, BlockSums, 0, {}, sh'[0], reg'[0], red)
  <2>1. 0 \in 0 .. Up(nblocks, THREADS) * Steps
    <3>1. Up(nblocks, THREADS) \in Nat
      BY <1>4, UpFacts
    <3>2. Up(nblocks, THREADS) * Steps \in Nat
      BY <1>4, <3>1
    <3>3. QED
      BY <3>2
  <2>2. Loading(nblocks, BlockSums, {}, sh'[0], red)
    BY <1>5 DEF Loading
  <2>3. DOMAIN (sh'[0]) = 0 .. nblocks - 1
    BY <1>2
  <2>4. QED
    BY <1>1, <2>1, <2>2, <2>3 DEF Chunked
<1>7. ChunksInv'
  <2>1. at'[0] = 0 /\ waiting'[0] = {}
    BY <1>2
  <2>2. DOMAIN at' = {0} /\ DOMAIN waiting' = {0} /\ DOMAIN sh' = {0} /\ DOMAIN reg' = {0}
    BY <1>2
  <2>3. QED
    BY <1>2, <1>3, <1>6, <2>1, <2>2 DEF ChunksInv
<1>8. Sized'
  BY <1>1, <1>2, <1>3 DEF Sized
<1>9. QED
  BY <1>1, <1>2, <1>3, <1>7, <1>8 DEF ScanInv, ReduceInv, WarpsInv, ReturnInv

\* A step of bexscan.
LEMMA ChunkKept ==
  ASSUME ScanInv, running = "bexscan", UNCHANGED <<rt, counts, running, compressed>>,
         DOMAIN at' = {0}, DOMAIN waiting' = {0}, DOMAIN sh' = {0}, DOMAIN reg' = {0},
         Chunked(nblocks, BlockSums, at'[0], waiting'[0], sh'[0], reg'[0], red')
  PROVE  ScanInv'
<1>1. CountsFit /\ Narrowed
  BY DEF ScanInv, Sized
<1>2. CountsFit' /\ Size' = Size /\ nblocks' = nblocks /\ BlockSums' = BlockSums /\ Narrowed'
  BY <1>1, Frame
<1>3. DOMAIN red' = 0 .. nblocks - 1
  BY DEF Chunked
<1>4. Sized'
  BY <1>2, <1>3 DEF Sized
<1>5. ChunksInv'
  BY <1>2 DEF ChunksInv
<1>6. QED
  BY <1>2, <1>4, <1>5 DEF ScanInv, ReduceInv, WarpsInv, ReturnInv

\* What the invariant says while bexscan runs.
LEMMA ChunkFacts ==
  ASSUME ScanInv, running = "bexscan"
  PROVE  /\ nblocks \in Nat /\ BlockSums \in [0 .. nblocks -> Int] /\ BlockSums[0] = 0
         /\ DOMAIN at = {0} /\ DOMAIN waiting = {0} /\ DOMAIN sh = {0} /\ DOMAIN reg = {0}
         /\ Chunked(nblocks, BlockSums, at[0], waiting[0], sh[0], reg[0], red)
         /\ at[0] \in Nat /\ waiting[0] \subseteq 0 .. THREADS - 1
         /\ DOMAIN (sh[0]) = 0 .. nblocks - 1 /\ DOMAIN red = 0 .. nblocks - 1
<1>1. CountsFit
  BY DEF ScanInv
<1>2. nblocks \in Nat /\ BlockSums \in [0 .. nblocks -> Int] /\ BlockSums[0] = 0
  BY <1>1, NblocksFacts
<1>3. /\ DOMAIN at = {0} /\ DOMAIN waiting = {0} /\ DOMAIN sh = {0} /\ DOMAIN reg = {0}
      /\ Chunked(nblocks, BlockSums, at[0], waiting[0], sh[0], reg[0], red)
  BY DEF ScanInv, ChunksInv
<1>4. Up(nblocks, THREADS) * Steps \in Int
  <2>1. THREADS \in Nat \ {0} /\ Steps \in Nat
    BY PhaseFacts
  <2>2. Up(nblocks, THREADS) \in Nat
    BY <1>2, <2>1, UpFacts
  <2>3. QED
    BY <2>1, <2>2
<1>5. QED
  BY <1>2, <1>3, <1>4 DEF Chunked

\* The load of a thread of bexscan.
LEMMA LoadInv ==
  ASSUME ScanInv, NEW t, Load(t)
  PROVE  ScanInv'
<1>1. running = "bexscan"
  BY DEF Load, Runs
<1>2. /\ DOMAIN at = {0} /\ DOMAIN waiting = {0} /\ DOMAIN sh = {0} /\ DOMAIN reg = {0}
      /\ Chunked(nblocks, BlockSums, at[0], waiting[0], sh[0], reg[0], red)
      /\ nblocks \in Nat
  BY <1>1, ChunkFacts
<1>3. /\ at[0] = 0 /\ t \in 0 .. THREADS - 1
      /\ UNCHANGED <<rt, counts, running, compressed>> /\ at' = at /\ reg' = reg /\ red' = red
      /\ waiting' = [waiting EXCEPT ![0] = @ \cup {t}]
      /\ sh' = [sh EXCEPT ![0] = [i \in DOMAIN @ |-> IF i % THREADS = t THEN red[i] ELSE @[i]]]
  BY <1>1 DEF Load, Runs, Arrive, Active
<1> DEFINE s == sh[0]
           s2 == [i \in DOMAIN s |-> IF i % THREADS = t THEN red[i] ELSE s[i]]
<1>4. sh'[0] = s2 /\ waiting'[0] = waiting[0] \cup {t}
  BY <1>2, <1>3
<1>5. Chunked(nblocks, BlockSums, 0, waiting[0], s, reg[0], red)
  BY <1>2, <1>3
<1>6. Chunked(nblocks, BlockSums, 0, waiting[0] \cup {t}, s2, reg[0], red)
  BY <1>2, <1>3, <1>5, ChunkLoad
<1>7. Chunked(nblocks, BlockSums, at'[0], waiting'[0], sh'[0], reg'[0], red')
  BY <1>3, <1>4, <1>6
<1>8. DOMAIN at' = {0} /\ DOMAIN waiting' = {0} /\ DOMAIN sh' = {0} /\ DOMAIN reg' = {0}
  BY <1>2, <1>3
<1>9. QED
  BY <1>1, <1>3, <1>7, <1>8, ChunkKept

\* Where a thread of bexscan is that has passed the load.
LEMMA InChunkFacts ==
  ASSUME ScanInv, NEW t, InChunk(t)
  PROVE  LET p == at[0]
             c == Chunk(p)
             j == Step(p)
         IN  /\ running = "bexscan" /\ p \in Nat \ {0} /\ c \in Nat /\ j \in 0 .. Steps - 1 /\ Steps \in Nat
             /\ t \in 0 .. THREADS - 1 /\ t \notin waiting[0]
             /\ Index(p, t) = c * THREADS + t /\ c * THREADS \in Nat
             /\ Index(p, t) \in 0 .. nblocks - 1 /\ c * THREADS + t < nblocks
             /\ InChunks(nblocks, BlockSums, c, j, waiting[0], sh[0], reg[0], red)
             /\ Held(BlockSums, c, j, FALSE, t, sh[0][Index(p, t)], reg[0][t], red[Index(p, t)])
<1> DEFINE p == at[0]
           c == Chunk(p)
           j == Step(p)
<1>1. /\ running = "bexscan" /\ p > 0 /\ t \in 0 .. THREADS - 1 /\ Index(p, t) < nblocks
      /\ t \notin waiting[0]
  BY DEF InChunk, Runs, Active
<1>2. /\ nblocks \in Nat /\ p \in Nat
      /\ Chunked(nblocks, BlockSums, p, waiting[0], sh[0], reg[0], red)
  BY <1>1, ChunkFacts
<1>3. p \in Nat \ {0} /\ Steps \in Nat /\ THREADS \in Nat
  <2>1. p \in Nat \ {0}
    BY <1>1, <1>2
  <2>2. Steps \in Nat /\ THREADS \in Nat
    BY PhaseFacts
  <2>3. QED
    BY <2>1, <2>2
<1>4. c \in Nat /\ j \in 0 .. Steps - 1
  BY <1>3, PhaseFacts, Zenon
<1>5. InChunks(nblocks, BlockSums, c, j, waiting[0], sh[0], reg[0], red)
  BY <1>1, <1>2, Zenon DEF Chunked
<1>6. Index(p, t) = c * THREADS + t
  BY DEF Index
<1> HIDE DEF c, j, p
<1>7. c * THREADS \in Nat
  BY <1>3, <1>4
<1> DEFINE a == c * THREADS
<1>8. a \in Nat /\ Index(p, t) = a + t /\ a + t < nblocks
  BY <1>1, <1>6, <1>7
<1> HIDE DEF a
<1>9. Index(p, t) \in 0 .. nblocks - 1
  BY <1>1, <1>2, <1>3, <1>8
<1>10. Held(BlockSums, c, j, FALSE, t, sh[0][Index(p, t)], reg[0][t], red[Index(p, t)])
  <2>1. Held(BlockSums, c, j, t \in waiting[0], t, sh[0][c * THREADS + t], reg[0][t], red[c * THREADS + t])
    BY <1>1, <1>5, <1>8, Zenon DEF InChunks, Current, a
  <2>2. (t \in waiting[0]) = FALSE
    BY <1>1
  <2>3. QED
    BY <1>6, <2>1, <2>2, Zenon
<1>11. QED
  BY <1>1, <1>3, <1>4, <1>5, <1>6, <1>7, <1>8, <1>9, <1>10 DEF a, c, j, p

\* A thread of a chunk arrives with its own entries as they should be.
LEMMA ChunkArrives ==
  ASSUME ScanInv, NEW t, InChunk(t), Arrive(0, t), compressed' = compressed,
         DOMAIN sh' = {0}, DOMAIN reg' = {0},
         DOMAIN (sh'[0]) = DOMAIN (sh[0]), DOMAIN red' = DOMAIN red,
         DOMAIN (reg'[0]) = 0 .. THREADS - 1,
         \A m \in 0 .. nblocks - 1 : m # Index(at[0], t) => sh'[0][m] = sh[0][m] /\ red'[m] = red[m],
         Step(at[0]) > 0 => \A u \in 0 .. THREADS - 1 : u # t => reg'[0][u] = reg[0][u],
         Held(BlockSums, Chunk(at[0]), Step(at[0]), TRUE, t,
              sh'[0][Index(at[0], t)], reg'[0][t], red'[Index(at[0], t)])
  PROVE  ScanInv'
<1> DEFINE p == at[0]
           c == Chunk(p)
           j == Step(p)
           i == Index(p, t)
<1>1. /\ running = "bexscan" /\ p \in Nat \ {0} /\ c \in Nat /\ j \in 0 .. Steps - 1 /\ Steps \in Nat
      /\ t \in 0 .. THREADS - 1 /\ i = c * THREADS + t
      /\ i \in 0 .. nblocks - 1 /\ c * THREADS + t < nblocks
      /\ InChunks(nblocks, BlockSums, c, j, waiting[0], sh[0], reg[0], red)
  BY InChunkFacts
<1>2. /\ nblocks \in Nat /\ DOMAIN at = {0} /\ DOMAIN waiting = {0} /\ DOMAIN (sh[0]) = 0 .. nblocks - 1
      /\ DOMAIN red = 0 .. nblocks - 1 /\ waiting[0] \subseteq 0 .. THREADS - 1
      /\ Chunked(nblocks, BlockSums, p, waiting[0], sh[0], reg[0], red)
  BY <1>1, ChunkFacts
<1>3. /\ UNCHANGED <<rt, counts, running>> /\ at' = at
      /\ waiting' = [waiting EXCEPT ![0] = @ \cup {t}] /\ waiting'[0] = waiting[0] \cup {t}
  BY <1>2 DEF Arrive
<1> DEFINE s == sh[0]
           r == reg[0]
           w == waiting[0]
           s2 == sh'[0]
           r2 == reg'[0]
           v2 == red'
           G == BlockSums
           nb == nblocks
<1>4. /\ nb \in Nat /\ c \in Nat /\ j \in Nat /\ t \in 0 .. THREADS - 1
      /\ i = c * THREADS + t /\ i < nb
      /\ InChunks(nb, G, c, j, w, s, r, red)
  <2>1. i < nb
    BY <1>1, <1>2
  <2>2. j \in Nat
    BY <1>1
  <2>3. QED
    BY <1>1, <1>2, <2>1, <2>2, Zenon
<1>5. \A m \in 0 .. nb - 1 : m # i => s2[m] = s[m] /\ v2[m] = red[m]
  OBVIOUS
<1>6. (j > 0) => \A u \in 0 .. THREADS - 1 : u # t => r2[u] = r[u]
  OBVIOUS
<1>7. DOMAIN r2 = 0 .. THREADS - 1 /\ Held(G, c, j, TRUE, t, s2[i], r2[t], v2[i])
  OBVIOUS
<1> HIDE DEF p, c, j, i, s, r, w, s2, r2, v2, G, nb
<1>75. Moves(nb, G, c, j, t, i, s, r, red, s2, r2, v2)
  BY <1>4, <1>5, <1>6, <1>7, Zenon DEF Moves
<1>8. InChunks(nb, G, c, j, w \cup {t}, s2, r2, v2)
  BY <1>4, <1>75, ChunkStep, Zenon
<1>9. Chunked(nblocks, BlockSums, at'[0], waiting'[0], sh'[0], reg'[0], red')
  <2>1. waiting'[0] \subseteq 0 .. THREADS - 1 /\ at'[0] = p
    BY <1>1, <1>2, <1>3 DEF p
  <2>2. InChunks(nblocks, BlockSums, Chunk(p), Step(p), waiting'[0], sh'[0], reg'[0], red')
    BY <1>3, <1>8 DEF c, j, w, s2, r2, v2, G, nb
  <2>3. p \in 0 .. Up(nblocks, THREADS) * Steps /\ p # 0
    BY <1>1, <1>2 DEF Chunked
  <2>4. DOMAIN (sh'[0]) = 0 .. nblocks - 1 /\ DOMAIN red' = 0 .. nblocks - 1
    BY <1>2
  <2>5. QED
    BY <2>1, <2>2, <2>3, <2>4 DEF Chunked
<1>10. DOMAIN at' = {0} /\ DOMAIN waiting' = {0}
  BY <1>2, <1>3
<1>11. QED
  BY <1>1, <1>3, <1>9, <1>10, ChunkKept

\* The sum the first thread of a chunk finds in the last entry of the one before.
LEMMA LastBefore ==
  ASSUME NEW nb \in Nat, NEW G, NEW c \in Nat, NEW s, NEW v, Earlier(nb, G, c, s, v),
         c * THREADS > 0, c * THREADS < nb
  PROVE  c * THREADS - 1 \in 0 .. nb - 1 /\ s[c * THREADS - 1] = G[c * THREADS]
<1>1. THREADS \in Nat \ {0} /\ THREADS \in Nat
  BY PhaseFacts
<1>2. c # 0
  BY <1>1
<1> DEFINE d == c - 1
           m == THREADS - 1
<1>3. d \in Nat /\ m \in 0 .. THREADS - 1 /\ d < c
  BY <1>1, <1>2
<1>4. d * THREADS + THREADS = c * THREADS /\ d * THREADS \in Nat
  BY <1>1, <1>3
<1>5. d * THREADS + m = c * THREADS - 1
  BY <1>1, <1>4
<1>6. (d * THREADS + m) \div THREADS = d
  <2> HIDE DEF d, m
  <2>1. QED
    BY <1>1, <1>3, QuotientOnce
<1> HIDE DEF d, m
<1> DEFINE a == c * THREADS
<1>7. a \in Nat /\ a > 0 /\ a < nb
  BY <1>1
<1>8. (a - 1) \div THREADS < c
  BY <1>3, <1>5, <1>6
<1> HIDE DEF a
<1>9. a - 1 \in 0 .. nb - 1
  BY <1>7
<1>10. s[a - 1] = G[a - 1 + 1]
  BY <1>8, <1>9 DEF Earlier
<1>11. a - 1 + 1 = a
  BY <1>7
<1>12. QED
  BY <1>9, <1>10, <1>11 DEF a

\* The carry into a chunk.
LEMMA CarryInv ==
  ASSUME ScanInv, NEW t, Carry(t)
  PROVE  ScanInv'
<1> DEFINE p == at[0]
           c == Chunk(p)
           i == Index(p, t)
           x == sh[0][i]
           a == c * THREADS
<1>1. InChunk(t) /\ Step(p) = 0 /\ Arrive(0, t) /\ compressed' = compressed /\ red' = red
  BY DEF Carry
<1>2. /\ sh' = IF Carries(i, t) THEN [sh EXCEPT ![0][i] = @ + sh[0][i - 1]] ELSE sh
      /\ reg' = [reg EXCEPT ![0] = [u \in 0 .. THREADS - 1 |-> 0]]
  BY DEF Carry
<1>3. /\ running = "bexscan" /\ c \in Nat /\ t \in 0 .. THREADS - 1 /\ i = a + t /\ a \in Nat
      /\ i \in 0 .. nblocks - 1 /\ a + t < nblocks
      /\ InChunks(nblocks, BlockSums, c, 0, waiting[0], sh[0], reg[0], red)
      /\ Held(BlockSums, c, 0, FALSE, t, x, reg[0][t], red[i])
  BY <1>1, InChunkFacts
<1>4. /\ nblocks \in Nat /\ BlockSums \in [0 .. nblocks -> Int] /\ BlockSums[0] = 0
      /\ DOMAIN sh = {0} /\ DOMAIN reg = {0} /\ DOMAIN (sh[0]) = 0 .. nblocks - 1
  BY <1>3, ChunkFacts
<1>5. THREADS \in Nat
  BY PhaseFacts
<1>6. Carries(i, t) => sh[0][i - 1] = BlockSums[a]
  <2>1. SUFFICES ASSUME Carries(i, t) PROVE sh[0][i - 1] = BlockSums[a]
    OBVIOUS
  <2>2. t = 0 /\ i > 0
    BY <2>1 DEF Carries
  <2>3. i = a /\ a > 0 /\ a < nblocks
    BY <1>3, <1>4, <2>2
  <2>4. Earlier(nblocks, BlockSums, c, sh[0], red)
    BY <1>3 DEF InChunks
  <2>5. sh[0][c * THREADS - 1] = BlockSums[c * THREADS]
    BY <1>3, <1>4, <2>3, <2>4, LastBefore
  <2>6. QED
    BY <2>3, <2>5
<1> DEFINE z == IF c * THREADS + t > 0 /\ t = 0 THEN x + BlockSums[c * THREADS] ELSE x
<1>7. Carries(i, t) <=> c * THREADS + t > 0 /\ t = 0
  BY <1>3 DEF Carries
<1>8. sh'[0][i] = z
  <2>1. CASE Carries(i, t)
    <3>1. sh'[0][i] = x + sh[0][i - 1]
      BY <1>2, <1>3, <1>4, <2>1
    <3>2. QED
      BY <1>6, <1>7, <2>1, <3>1
  <2>2. CASE ~Carries(i, t)
    BY <1>2, <1>7, <2>2
  <2>3. QED
    BY <2>1, <2>2
<1>9. Held(BlockSums, c, 0, TRUE, t, z, reg'[0][t], red[i])
  <2> HIDE DEF x
  <2>1. QED
    BY <1>3, <1>4, HeldCarry
<1>10. DOMAIN sh' = {0} /\ DOMAIN reg' = {0} /\ DOMAIN (sh'[0]) = DOMAIN (sh[0])
  BY <1>2, <1>4
<1>11. DOMAIN (reg'[0]) = 0 .. THREADS - 1
  BY <1>2, <1>4
<1>12. \A m \in 0 .. nblocks - 1 : m # i => sh'[0][m] = sh[0][m] /\ red'[m] = red[m]
  BY <1>1, <1>2, <1>4
<1>13. Held(BlockSums, c, Step(p), TRUE, t, sh'[0][i], reg'[0][t], red'[i])
  BY <1>1, <1>8, <1>9, Zenon
<1>14. ~(Step(at[0]) > 0)
  BY <1>1
<1>15. QED
  BY <1>1, <1>10, <1>11, <1>12, <1>13, <1>14, ChunkArrives

\* A thread reads its own entry and the one a stride below: neither is written
\* before the barrier.
LEMMA AddBelowInv ==
  ASSUME ScanInv, NEW t, AddBelow(t)
  PROVE  ScanInv'
<1> DEFINE p == at[0]
           c == Chunk(p)
           j == Step(p)
           i == Index(p, t)
           n == (j + 1) \div 2
           d == Strides[n]
           x == sh[0][i]
           z == sh[0][i - d]
           q == IF t >= d THEN x + z ELSE 0
<1>1. InChunk(t) /\ j % 2 = 1 /\ Arrive(0, t) /\ compressed' = compressed /\ red' = red /\ sh' = sh
  BY DEF AddBelow
<1>2. reg' = [reg EXCEPT ![0][t] = q]
  BY DEF AddBelow, Stride
<1>3. /\ running = "bexscan" /\ c \in Nat /\ j \in 0 .. Steps - 1 /\ t \in 0 .. THREADS - 1
      /\ i = c * THREADS + t /\ c * THREADS \in Nat
      /\ i \in 0 .. nblocks - 1 /\ c * THREADS + t < nblocks
      /\ InChunks(nblocks, BlockSums, c, j, waiting[0], sh[0], reg[0], red)
      /\ Held(BlockSums, c, j, FALSE, t, x, reg[0][t], red[i])
  BY <1>1, InChunkFacts
<1>4. /\ nblocks \in Nat /\ BlockSums \in [0 .. nblocks -> Int]
      /\ DOMAIN sh = {0} /\ DOMAIN reg = {0} /\ DOMAIN (sh[0]) = 0 .. nblocks - 1
  BY <1>3, ChunkFacts
<1>5. THREADS \in Nat /\ Steps \in Nat
  BY PhaseFacts
<1>6. j \in 1 .. Steps - 1 /\ j > 0
  BY <1>1, <1>3, <1>5
<1>7. d \in Nat \ {0}
  BY <1>6, TurnOf
<1>8. ASSUME t >= d PROVE z = Part(BlockSums, c, t - d, Width(n - 1))
  <2> DEFINE u == t - d
             a == c * THREADS
  <2> HIDE DEF c, j, d, n, i
  <2>1. u \in 0 .. THREADS - 1 /\ a + u < nblocks /\ i - d = a + u
    BY <1>3, <1>4, <1>5, <1>7, <1>8
  <2> HIDE DEF u, a
  <2>2. Held(BlockSums, c, j, u \in waiting[0], u, sh[0][c * THREADS + u], reg[0][u], red[c * THREADS + u])
    BY <1>3, <2>1, Zenon DEF InChunks, Current, a
  <2>3. sh[0][c * THREADS + u] = Part(BlockSums, c, u, Width(n - 1))
    BY <1>1, <2>2 DEF Held, n
  <2>4. QED
    BY <2>1, <2>3 DEF a, u
<1>9. DOMAIN (reg[0]) = 0 .. THREADS - 1
  BY <1>3, <1>6 DEF InChunks, Registers
<1>10. reg'[0] = [reg[0] EXCEPT ![t] = q] /\ reg'[0][t] = q
  BY <1>2, <1>3, <1>4, <1>9
<1>11. Held(BlockSums, c, j, TRUE, t, x, q, red[i])
  <2> DEFINE G == BlockSums
             nb == nblocks
             r == reg[0][t]
             y == red[i]
  <2>1. (t >= d) => q = x + z
    OBVIOUS
  <2>2. Held(G, c, j, FALSE, t, x, r, y) /\ nb \in Nat /\ G \in [0 .. nb -> Int] /\ c * THREADS + t < nb
    BY <1>3, <1>4
  <2>3. t >= Strides[(j + 1) \div 2] => z = Part(G, c, t - Strides[(j + 1) \div 2], Width((j + 1) \div 2 - 1))
    BY <1>8
  <2>4. t >= Strides[(j + 1) \div 2] => q = x + z
    BY <2>1
  <2> HIDE DEF c, j, d, n, i, x, z, q, G, nb, r, y
  <2>5. Held(G, c, j, TRUE, t, x, q, y)
    BY <1>1, <1>3, <1>6, <2>2, <2>3, <2>4, HeldRead
  <2>6. QED
    BY <2>5 DEF G, y
<1>12. DOMAIN sh' = {0} /\ DOMAIN reg' = {0} /\ DOMAIN (sh'[0]) = DOMAIN (sh[0]) /\ DOMAIN red' = DOMAIN red
  BY <1>1, <1>2, <1>4
<1>13. DOMAIN (reg'[0]) = 0 .. THREADS - 1 /\ \A u \in 0 .. THREADS - 1 : u # t => reg'[0][u] = reg[0][u]
  BY <1>9, <1>10
<1>14. \A m \in 0 .. nblocks - 1 : m # i => sh'[0][m] = sh[0][m] /\ red'[m] = red[m]
  BY <1>1
<1>15. Held(BlockSums, c, j, TRUE, t, sh'[0][i], reg'[0][t], red'[i])
  BY <1>1, <1>10, <1>11, Zenon
<1>16. QED
  BY <1>1, <1>12, <1>13, <1>14, <1>15, ChunkArrives

\* A thread stores its sum.
LEMMA StoreSumInv ==
  ASSUME ScanInv, NEW t, StoreSum(t)
  PROVE  ScanInv'
<1> DEFINE p == at[0]
           c == Chunk(p)
           j == Step(p)
           i == Index(p, t)
           x == sh[0][i]
           r == reg[0][t]
           z == IF t >= Strides[j \div 2] THEN r ELSE x
<1>1. InChunk(t) /\ j > 0 /\ j % 2 = 0 /\ Arrive(0, t) /\ compressed' = compressed /\ reg' = reg
  BY DEF StoreSum
<1>2. /\ sh' = [sh EXCEPT ![0][i] = z]
      /\ red' = IF j = Steps - 1 THEN [red EXCEPT ![i] = z] ELSE red
  BY DEF StoreSum
<1>3. /\ running = "bexscan" /\ c \in Nat /\ j \in 0 .. Steps - 1 /\ t \in 0 .. THREADS - 1
      /\ i = c * THREADS + t
      /\ i \in 0 .. nblocks - 1 /\ c * THREADS + t < nblocks
      /\ InChunks(nblocks, BlockSums, c, j, waiting[0], sh[0], reg[0], red)
      /\ Held(BlockSums, c, j, FALSE, t, x, r, red[i])
  BY <1>1, InChunkFacts
<1>4. /\ nblocks \in Nat /\ BlockSums \in [0 .. nblocks -> Int]
      /\ DOMAIN sh = {0} /\ DOMAIN reg = {0} /\ DOMAIN (sh[0]) = 0 .. nblocks - 1
      /\ DOMAIN red = 0 .. nblocks - 1
  BY <1>3, ChunkFacts
<1>5. THREADS \in Nat /\ Steps \in Nat
  BY PhaseFacts
<1>6. j \in 1 .. Steps - 1
  BY <1>1, <1>3, <1>5
<1>7. DOMAIN (reg[0]) = 0 .. THREADS - 1
  BY <1>1, <1>3 DEF InChunks, Registers
<1>8. sh'[0][i] = z /\ (j = Steps - 1 => red'[i] = z)
  BY <1>2, <1>3, <1>4
<1>9. Held(BlockSums, c, j, TRUE, t, z, r, red'[i])
  <2> DEFINE G == BlockSums
             nb == nblocks
             y == red[i]
             y2 == red'[i]
  <2>1. Held(G, c, j, FALSE, t, x, r, y) /\ nb \in Nat /\ G \in [0 .. nb -> Int] /\ c * THREADS + t < nb
    BY <1>3, <1>4
  <2>2. (j = Steps - 1) => y2 = z
    BY <1>8
  <2>3. z = IF t >= Strides[j \div 2] THEN r ELSE x
    OBVIOUS
  <2> HIDE DEF c, j, i, x, z, r, G, nb, y, y2
  <2>4. Held(G, c, j, TRUE, t, z, r, y2)
    BY <1>1, <1>3, <1>6, <2>1, <2>2, <2>3, HeldStore
  <2>5. QED
    BY <2>4 DEF G, y2
<1>10. DOMAIN sh' = {0} /\ DOMAIN reg' = {0} /\ DOMAIN (sh'[0]) = DOMAIN (sh[0]) /\ DOMAIN red' = DOMAIN red
  BY <1>1, <1>2, <1>4
<1>11. DOMAIN (reg'[0]) = 0 .. THREADS - 1 /\ \A u \in 0 .. THREADS - 1 : u # t => reg'[0][u] = reg[0][u]
  BY <1>1, <1>7
<1>12. \A m \in 0 .. nblocks - 1 : m # i => sh'[0][m] = sh[0][m] /\ red'[m] = red[m]
  BY <1>2, <1>4
<1>13. Held(BlockSums, c, j, TRUE, t, sh'[0][i], reg'[0][t], red'[i])
  BY <1>1, <1>8, <1>9, Zenon
<1>14. QED
  BY <1>1, <1>10, <1>11, <1>12, <1>13, ChunkArrives

\* What the invariant says while gexscan runs.
LEMMA WarpsFacts ==
  ASSUME ScanInv, running = "gexscan"
  PROVE  /\ CountsFit /\ Narrowed /\ DOMAIN red = 0 .. nblocks - 1 /\ nblocks \in Nat
         /\ OfBlocks(at) /\ OfBlocks(waiting) /\ OfBlocks(sh) /\ OfBlocks(reg)
         /\ \A b \in 0 .. nblocks - 1 : red[b] = BlockSums[b + 1]
         /\ \A b \in 0 .. nblocks - 1 : BlockScanned(Preceding, b, at[b], waiting[b], sh[b], reg[b])
         /\ DOMAIN cl_n_scan = 0 .. Up(Size, ratio) * ratio - 1
         /\ Written
<1>1. CountsFit
  BY DEF ScanInv
<1>2. nblocks \in Nat
  BY <1>1, NblocksFacts
<1>3. QED
  BY <1>1, <1>2 DEF ScanInv, Sized, WarpsInv

\* A step of gexscan in block b.
LEMMA WarpsKept ==
  ASSUME ScanInv, running = "gexscan", NEW b, UNCHANGED <<rt, counts, running, compressed, red>>,
         OfBlocks(at'), OfBlocks(waiting'), OfBlocks(sh'), OfBlocks(reg'),
         \A a \in 0 .. nblocks - 1 : a # b =>
           at'[a] = at[a] /\ waiting'[a] = waiting[a] /\ sh'[a] = sh[a] /\ reg'[a] = reg[a],
         BlockScanned(Preceding, b, at'[b], waiting'[b], sh'[b], reg'[b]),
         DOMAIN cl_n_scan' = DOMAIN cl_n_scan,
         Written'
  PROVE  ScanInv'
<1>1. /\ CountsFit /\ Narrowed /\ DOMAIN red = 0 .. nblocks - 1
      /\ \A a \in 0 .. nblocks - 1 : red[a] = BlockSums[a + 1]
      /\ \A a \in 0 .. nblocks - 1 : BlockScanned(Preceding, a, at[a], waiting[a], sh[a], reg[a])
      /\ DOMAIN cl_n_scan = 0 .. Up(Size, ratio) * ratio - 1
  BY WarpsFacts
<1>2. /\ CountsFit' /\ Size' = Size /\ ratio' = ratio /\ nblocks' = nblocks /\ BlockSums' = BlockSums
      /\ Preceding' = Preceding /\ Narrowed'
  BY <1>1, Frame
<1>3. \A a \in 0 .. nblocks - 1 : BlockScanned(Preceding, a, at'[a], waiting'[a], sh'[a], reg'[a])
  <2>1. ASSUME NEW a \in 0 .. nblocks - 1
        PROVE  BlockScanned(Preceding, a, at'[a], waiting'[a], sh'[a], reg'[a])
    <3>1. CASE a = b
      BY <3>1
    <3>2. CASE a # b
      BY <1>1, <3>2
    <3>3. QED
      BY <3>1, <3>2
  <2>2. QED
    BY <2>1
<1>4. Sized'
  BY <1>1, <1>2 DEF Sized
<1>5. WarpsInv'
  <2>1. (OfBlocks(at) /\ OfBlocks(waiting) /\ OfBlocks(sh) /\ OfBlocks(reg))'
    BY <1>2 DEF OfBlocks
  <2>2. (\A a \in 0 .. nblocks - 1 : red[a] = BlockSums[a + 1])'
    BY <1>1, <1>2
  <2>3. (\A a \in 0 .. nblocks - 1 : BlockScanned(Preceding, a, at[a], waiting[a], sh[a], reg[a]))'
    BY <1>2, <1>3
  <2>4. (DOMAIN cl_n_scan = 0 .. Up(Size, ratio) * ratio - 1)'
    <3>1. Up(Size, ratio)' = Up(Size, ratio)
      BY <1>2 DEF Up
    <3>2. QED
      BY <1>1, <1>2, <3>1
  <2>5. QED
    BY <2>1, <2>2, <2>3, <2>4 DEF WarpsInv
<1>6. QED
  BY <1>2, <1>4, <1>5 DEF ScanInv, ReduceInv, ChunksInv, ReturnInv

\* As long as a block has not come to its last phase with a warp in it, what is
\* written stays.
LEMMA WrittenKept ==
  ASSUME ScanInv, running = "gexscan", NEW b, UNCHANGED <<rt, counts, cl_n_scan>>,
         \A a \in 0 .. nblocks - 1 : a # b => at'[a] = at[a] /\ waiting'[a] = waiting[a],
         at'[b] = 2 => waiting'[b] = {}
  PROVE  Written'
<1>1. CountsFit /\ Written
  BY WarpsFacts
<1>2. Size' = Size /\ ratio' = ratio /\ nblocks' = nblocks
  BY <1>1, Frame
<1>3. SUFFICES ASSUME NEW a \in 0 .. nblocks - 1, NEW w \in Warps, at'[a] = 2, w \in waiting'[a],
                      NEW i \in 0 .. Size - 1, (i \div ratio) \div Warp = a * NWARP + w
               PROVE  cl_n_scan[i] = Total(counts, i)
  BY <1>2 DEF Written
<1>4. a # b
  BY <1>3
<1>5. at[a] = 2 /\ w \in waiting[a]
  BY <1>3, <1>4
<1>6. QED
  BY <1>1, <1>3, <1>5 DEF Written

\* The barrier of breduce: every warp has left its sum.
LEMMA BarrierReduce ==
  ASSUME ScanInv, running = "breduce", NEW b, Barrier(b)
  PROVE  ScanInv'
<1>1. CountsFit /\ Narrowed /\ DOMAIN red = 0 .. nblocks - 1
  BY DEF ScanInv, Sized
<1>2. /\ b \in 0 .. nblocks - 1 /\ at[b] < 1 /\ Active(b, at[b]) \subseteq waiting[b]
      /\ at' = [at EXCEPT ![b] = @ + 1] /\ waiting' = [waiting EXCEPT ![b] = {}]
      /\ UNCHANGED <<rt, counts, compressed, red, cl_n_scan, running, sh, reg>>
  BY DEF Barrier, Blocks, LastPhase, Awaited
<1>3. /\ OfBlocks(at) /\ OfBlocks(waiting) /\ OfBlocks(sh)
      /\ \A a \in 0 .. nblocks - 1 : BlockReduced(Reduced, a, at[a], waiting[a], sh[a], red[a])
  BY DEF ScanInv, ReduceInv
<1>4. /\ CountsFit' /\ Size' = Size /\ ratio' = ratio /\ nblocks' = nblocks /\ Reduced' = Reduced
      /\ Narrowed'
  BY <1>1, <1>2, Frame
<1>5. at[b] = 0 /\ Warps \subseteq waiting[b]
  <2>1. at[b] \in 0 .. 1
    BY <1>2, <1>3 DEF BlockReduced
  <2>2. at[b] = 0
    BY <1>2, <2>1
  <2>3. QED
    BY <1>2, <2>2 DEF Active
<1>6. ReduceInv'
  <2>1. OfBlocks(at') /\ OfBlocks(waiting') /\ OfBlocks(sh')
    BY <1>2, <1>3 DEF OfBlocks
  <2>2. ASSUME NEW a \in 0 .. nblocks - 1
        PROVE  BlockReduced(Reduced, a, at'[a], waiting'[a], sh'[a], red'[a])
    <3>1. BlockReduced(Reduced, a, at[a], waiting[a], sh[a], red[a])
      BY <1>3
    <3>2. CASE a # b
      <4>1. at'[a] = at[a] /\ waiting'[a] = waiting[a] /\ sh'[a] = sh[a] /\ red'[a] = red[a]
        BY <1>2, <3>2
      <4>2. QED
        BY <3>1, <4>1
    <3>3. CASE a = b
      <4>1. at'[a] = 1 /\ waiting'[a] = {} /\ sh'[a] = sh[a] /\ red'[a] = red[a]
        BY <1>2, <1>3, <1>5, <3>3 DEF OfBlocks
      <4>2. QED
        BY <1>5, <3>1, <3>3, <4>1 DEF BlockReduced
    <3>4. QED
      BY <3>2, <3>3
  <2>3. QED
    BY <1>4, <2>1, <2>2 DEF ReduceInv, OfBlocks
<1>7. Sized'
  BY <1>1, <1>2, <1>4 DEF Sized
<1>8. QED
  BY <1>2, <1>4, <1>6, <1>7 DEF ScanInv, ChunksInv, WarpsInv, ReturnInv

\* The barriers of bexscan.
LEMMA BarrierChunks ==
  ASSUME ScanInv, running = "bexscan", NEW b, Barrier(b)
  PROVE  ScanInv'
<1> DEFINE nb == nblocks
           G == BlockSums
           p == at[0]
           w == waiting[0]
<1>1. /\ nb \in Nat /\ G \in [0 .. nb -> Int] /\ DOMAIN at = {0} /\ DOMAIN waiting = {0}
      /\ DOMAIN sh = {0} /\ DOMAIN reg = {0}
      /\ Chunked(nb, G, p, w, sh[0], reg[0], red) /\ p \in Nat
  BY ChunkFacts
<1>2. /\ b = 0 /\ p < Up(nb, THREADS) * Steps /\ Active(0, p) \subseteq w
      /\ at' = [at EXCEPT ![0] = @ + 1] /\ waiting' = [waiting EXCEPT ![0] = {}]
      /\ UNCHANGED <<rt, counts, compressed, red, cl_n_scan, running, sh, reg>>
  BY DEF Barrier, Blocks, LastPhase, Awaited, Chunks
<1>3. (p = 0) => 0 .. THREADS - 1 \subseteq w
  BY <1>2 DEF Active
<1>4. (p > 0) => \A t \in 0 .. THREADS - 1 : Index(p, t) < nb => t \in w
  BY <1>2 DEF Active
<1>5. Chunked(nb, G, p + 1, {}, sh[0], reg[0], red)
  <2> DEFINE s == sh[0]
             r == reg[0]
  <2>1. Chunked(nb, G, p, w, s, r, red)
    BY <1>1
  <2> HIDE DEF nb, G, p, w, s, r
  <2>2. Chunked(nb, G, p + 1, {}, s, r, red)
    BY <1>1, <1>2, <1>3, <1>4, <2>1, ChunkBarrier
  <2>3. QED
    BY <2>2 DEF s, r
<1>6. at'[0] = p + 1 /\ waiting'[0] = {} /\ DOMAIN at' = {0} /\ DOMAIN waiting' = {0}
  BY <1>1, <1>2
<1>7. QED
  BY <1>1, <1>2, <1>5, <1>6, ChunkKept

\* The barriers of gexscan.
LEMMA BarrierWarps ==
  ASSUME ScanInv, running = "gexscan", NEW b, Barrier(b)
  PROVE  ScanInv'
<1>1. /\ b \in 0 .. nblocks - 1 /\ at[b] < 2 /\ Active(b, at[b]) \subseteq waiting[b]
      /\ at' = [at EXCEPT ![b] = @ + 1] /\ waiting' = [waiting EXCEPT ![b] = {}]
      /\ UNCHANGED <<rt, counts, compressed, red, cl_n_scan, running, sh, reg>>
  BY DEF Barrier, Blocks, LastPhase, Awaited
<1>2. /\ OfBlocks(at) /\ OfBlocks(waiting) /\ OfBlocks(sh) /\ OfBlocks(reg)
      /\ BlockScanned(Preceding, b, at[b], waiting[b], sh[b], reg[b])
  BY <1>1, WarpsFacts
<1>3. at'[b] = at[b] + 1 /\ waiting'[b] = {} /\ sh'[b] = sh[b] /\ reg'[b] = reg[b]
  BY <1>1, <1>2 DEF OfBlocks
<1>4. BlockScanned(Preceding, b, at'[b], {}, sh[b], reg[b])
  <2>1. at[b] \in 0 .. 2 /\ DOMAIN (sh[b]) = Warps
    BY <1>2 DEF BlockScanned
  <2>2. CASE at[b] = 0
    <3>1. Warps \subseteq waiting[b]
      BY <1>1, <2>2 DEF Active
    <3>2. \A w \in Warps : Source(w) \in Warps
      BY UnitsFacts DEF Source, Warps
    <3>3. QED
      BY <1>2, <1>3, <2>1, <2>2, <3>1, <3>2 DEF BlockScanned
  <2>3. CASE at[b] = 1
    <3>1. 0 \in waiting[b]
      BY <1>1, <2>3 DEF Active
    <3>2. QED
      BY <1>2, <1>3, <2>1, <2>3, <3>1 DEF BlockScanned
  <2>4. QED
    BY <1>1, <2>1, <2>2, <2>3
<1>5. \A a \in 0 .. nblocks - 1 : a # b =>
        at'[a] = at[a] /\ waiting'[a] = waiting[a] /\ sh'[a] = sh[a] /\ reg'[a] = reg[a]
  BY <1>1
<1>6. Written'
  BY <1>1, <1>3, <1>5, WrittenKept
<1>7. OfBlocks(at') /\ OfBlocks(waiting') /\ OfBlocks(sh') /\ OfBlocks(reg')
  BY <1>1, <1>2 DEF OfBlocks
<1>8. BlockScanned(Preceding, b, at'[b], waiting'[b], sh'[b], reg'[b])
  BY <1>3, <1>4
<1>9. QED
  BY <1>1, <1>5, <1>6, <1>7, <1>8, WarpsKept

\* No barrier breaks the invariant, in any kernel.
LEMMA BarrierInv ==
  ASSUME ScanInv, NEW b \in DOMAIN at, Barrier(b)
  PROVE  ScanInv'
<1>1. CASE running = "returned"
  <2>1. UNCHANGED <<rt, counts, compressed, red, cl_n_scan, running>>
    BY DEF Barrier
  <2>2. CountsFit /\ Narrowed /\ DOMAIN red = 0 .. nblocks - 1 /\ ReturnInv
    BY <1>1 DEF ScanInv, Sized
  <2>3. CountsFit' /\ nblocks' = nblocks /\ Narrowed'
    BY <2>1, <2>2, Frame
  <2>4. Sized' /\ ReturnInv'
    BY <2>1, <2>2, <2>3 DEF Sized, ReturnInv
  <2>5. QED
    BY <1>1, <2>1, <2>3, <2>4 DEF ScanInv, ReduceInv, ChunksInv, WarpsInv
<1>2. running # "compress4"
  BY DEF ScanInv
<1>3. running \in {"compress4", "breduce", "bexscan", "gexscan", "returned"}
  BY DEF ScanInv
<1>4. QED
  BY <1>1, <1>2, <1>3, BarrierReduce, BarrierChunks, BarrierWarps

\* bexscan has returned: red has the running sums of the blocks.
LEMMA LaunchGexscanInv ==
  ASSUME ScanInv, LaunchGexscan
  PROVE  ScanInv'
<1>1. running = "bexscan" /\ AllReturned
  BY DEF LaunchGexscan
<1>2. /\ running' = "gexscan" /\ UNCHANGED <<rt, counts, compressed, red>>
      /\ at' = [b \in 0 .. nblocks - 1 |-> 0] /\ waiting' = [b \in 0 .. nblocks - 1 |-> {}]
      /\ sh' = [b \in 0 .. nblocks - 1 |-> [e \in Warps |-> Leftover]]
      /\ reg' = [b \in 0 .. nblocks - 1 |-> <<>>]
      /\ cl_n_scan' = [i \in 0 .. Up(Size, ratio) * ratio - 1 |-> Leftover]
  BY DEF LaunchGexscan, LaunchKernel
<1>3. CountsFit /\ Narrowed /\ DOMAIN red = 0 .. nblocks - 1
  BY <1>1 DEF ScanInv, Sized
<1>4. /\ CountsFit' /\ Size' = Size /\ ratio' = ratio /\ nblocks' = nblocks /\ BlockSums' = BlockSums
      /\ Preceding' = Preceding /\ Narrowed'
  BY <1>2, <1>3, Frame
<1>5. \A b \in 0 .. nblocks - 1 : red[b] = BlockSums[b + 1]
  <2> DEFINE nb == nblocks
             G == BlockSums
             p == at[0]
             w == waiting[0]
             s == sh[0]
             r == reg[0]
  <2>1. /\ nb \in Nat /\ G \in [0 .. nb -> Int]
        /\ Chunked(nb, G, p, w, s, r, red) /\ p \in Nat
    BY <1>1, ChunkFacts
  <2>2. p = Up(nb, THREADS) * Steps /\ Active(0, p) \subseteq w
    BY <1>1 DEF AllReturned, Blocks, LastPhase, Chunks
  <2>3. (p > 0) => \A t \in 0 .. THREADS - 1 : Index(p, t) < nb => t \in w
    BY <1>1, <2>2 DEF Active
  <2> HIDE DEF nb, G, p, w, s, r
  <2>4. \A i \in 0 .. nb - 1 : red[i] = G[i + 1]
    BY <2>1, <2>2, <2>3, ChunkFinal
  <2>5. QED
    BY <2>4 DEF nb, G
<1>6. \A b \in 0 .. nblocks - 1 : BlockScanned(Preceding, b, at'[b], waiting'[b], sh'[b], reg'[b])
  <2>1. ASSUME NEW b \in 0 .. nblocks - 1
        PROVE  BlockScanned(Preceding, b, at'[b], waiting'[b], sh'[b], reg'[b])
    <3>1. at'[b] = 0 /\ waiting'[b] = {} /\ DOMAIN (sh'[b]) = Warps
      BY <1>2
    <3>2. QED
      BY <3>1 DEF BlockScanned
  <2>2. QED
    BY <2>1
<1>7. Written'
  <2>1. \A b \in 0 .. nblocks - 1 : waiting'[b] = {}
    BY <1>2
  <2>2. QED
    BY <1>4, <2>1 DEF Written
<1>8. WarpsInv'
  <2>1. (OfBlocks(at) /\ OfBlocks(waiting) /\ OfBlocks(sh) /\ OfBlocks(reg))'
    BY <1>2, <1>4 DEF OfBlocks
  <2>2. (\A a \in 0 .. nblocks - 1 : red[a] = BlockSums[a + 1])'
    BY <1>2, <1>4, <1>5
  <2>3. (\A a \in 0 .. nblocks - 1 : BlockScanned(Preceding, a, at[a], waiting[a], sh[a], reg[a]))'
    BY <1>4, <1>6
  <2>4. (DOMAIN cl_n_scan = 0 .. Up(Size, ratio) * ratio - 1)'
    <3>1. Up(Size, ratio)' = Up(Size, ratio)
      BY <1>4 DEF Up
    <3>2. QED
      BY <1>2, <1>4, <3>1
  <2>5. QED
    BY <1>7, <2>1, <2>2, <2>3, <2>4 DEF WarpsInv
<1>9. Sized'
  BY <1>2, <1>3, <1>4 DEF Sized
<1>10. QED
  BY <1>2, <1>4, <1>8, <1>9 DEF ScanInv, ReduceInv, ChunksInv, ReturnInv

\* What a warp of gexscan finds: the sums of its threads.
LEMMA WarpSums ==
  ASSUME CountsFit, Narrowed, NEW b \in Nat, NEW w \in Nat
  PROVE  LET own  == [l \in Lanes |->
                        LET c == ThreadCounts(Lane(b, w, l), Up(Size, ratio))
                        IN  Total([m \in 0 .. ratio - 1 |-> Extended(c, m)], ratio)]
             incl == WarpScan(own, Turns(Warp))
         IN  /\ incl[Warp - 1] = Preceding[Base(b, w + 1)] - Preceding[Base(b, w)]
             /\ \A l \in Lanes : incl[l] - own[l] = Preceding[Base(b, w) + l] - Preceding[Base(b, w)]
<1> DEFINE own == [l \in Lanes |->
                     LET c == ThreadCounts(Lane(b, w, l), Up(Size, ratio))
                     IN  Total([m \in 0 .. ratio - 1 |-> Extended(c, m)], ratio)]
           Q == Preceding
           incl == WarpScan(own, Turns(Warp))
<1>1. /\ Warp \in Nat /\ Warp >= 2 /\ Lanes = 0 .. Warp - 1 /\ Base(b, w) \in Nat
      /\ \A l : Lane(b, w, l) = Base(b, w) + l
  BY UnitsFacts, LanesFacts, BaseFacts
<1>2. Q \in [Nat -> Int]
  BY SumsFacts
<1>3. own = Spread(Q, b, w)
  <2>1. \A l \in Lanes : Lane(b, w, l) \in Nat
    BY <1>1
  <2>2. ASSUME NEW l \in Lanes
        PROVE  LET c == ThreadCounts(Lane(b, w, l), Up(Size, ratio))
               IN  Total([m \in 0 .. ratio - 1 |-> Extended(c, m)], ratio) =
                     Preceding[Lane(b, w, l) + 1] - Preceding[Lane(b, w, l)]
    BY <2>1, ScanThread
  <2>3. QED
    BY <2>2 DEF Spread
<1> HIDE DEF own, Q
<1>4. /\ own \in [Lanes -> Int]
      /\ \A l \in 0 .. Warp : Total(own, l) = Q[Base(b, w) + l] - Q[Base(b, w)]
  BY <1>2, <1>3, WarpTotal
<1>5. ASSUME NEW l \in 0 .. Warp - 1 PROVE incl[l] = Q[Base(b, w) + (l + 1)] - Q[Base(b, w)]
  <2>1. Warp \in 1 .. Warp /\ l + 1 \in 0 .. Warp
    BY <1>1
  <2>2. incl[l] = Total(own, l + 1)
    BY <1>4, <2>1, WarpScanTotal
  <2>3. QED
    BY <1>4, <2>1, <2>2
<1> HIDE DEF incl
<1>6. incl[Warp - 1] = Q[Base(b, w + 1)] - Q[Base(b, w)]
  <2>1. Warp - 1 \in 0 .. Warp - 1 /\ (Warp - 1) + 1 = Warp
    BY <1>1
  <2>2. Base(b, w) + Warp = Base(b, w + 1)
    BY BaseFacts
  <2>3. QED
    BY <1>5, <2>1, <2>2
<1>7. ASSUME NEW l \in 0 .. Warp - 1 PROVE incl[l] - own[l] = Q[Base(b, w) + l] - Q[Base(b, w)]
  <2> DEFINE a == Base(b, w)
  <2>1. a \in Nat /\ l \in Nat
    BY <1>1
  <2>2. incl[l] = Q[a + (l + 1)] - Q[a]
    BY <1>5
  <2>3. own[l] = Q[a + l + 1] - Q[a + l]
    BY <1>1, <1>3 DEF Spread
  <2> HIDE DEF a
  <2>4. Q[a + (l + 1)] \in Int /\ Q[a] \in Int /\ Q[a + l] \in Int /\ a + l + 1 = a + (l + 1)
    BY <1>2, <2>1
  <2>5. incl[l] - own[l] = Q[a + l] - Q[a]
    BY <2>2, <2>3, <2>4
  <2>6. QED
    BY <2>5 DEF a
<1>8. QED
  BY <1>1, <1>6, <1>7 DEF own, incl, Q

\* A warp of gexscan scans its threads and leaves its sum to the next.
LEMMA ScanWarpInv ==
  ASSUME ScanInv, NEW b, NEW w \in Warps, ScanWarp(b, w)
  PROVE  ScanInv'
<1> DEFINE own == [l \in Lanes |->
                     LET c == ThreadCounts(Lane(b, w, l), Up(Size, ratio))
                     IN  Total([m \in 0 .. ratio - 1 |-> Extended(c, m)], ratio)]
           incl == WarpScan(own, Turns(Warp))
           Q == Preceding
           rw == [l \in Lanes |-> incl[l] - own[l]]
<1>1. running = "gexscan" /\ b \in 0 .. nblocks - 1 /\ at[b] = 0 /\ w \notin waiting[b]
  BY DEF ScanWarp, Runs, Blocks
<1>2. /\ sh' = IF w < NWARP - 1
               THEN [sh EXCEPT ![b][w + 1] = incl[Warp - 1]]
               ELSE [sh EXCEPT ![b][0] = IF b > 0 THEN red[b - 1] ELSE 0]
      /\ reg' = [reg EXCEPT ![b] = [u \in DOMAIN @ \cup {w} |-> IF u = w THEN rw ELSE @[u]]]
  BY DEF ScanWarp
<1>3. /\ UNCHANGED <<rt, counts, running, compressed, red, cl_n_scan>> /\ at' = at
      /\ waiting' = [waiting EXCEPT ![b] = @ \cup {w}]
  BY DEF ScanWarp, Arrive
<1>4. /\ CountsFit /\ Narrowed /\ nblocks \in Nat
      /\ OfBlocks(at) /\ OfBlocks(waiting) /\ OfBlocks(sh) /\ OfBlocks(reg)
      /\ \A a \in 0 .. nblocks - 1 : red[a] = BlockSums[a + 1]
      /\ BlockScanned(Q, b, 0, waiting[b], sh[b], reg[b])
  BY <1>1, WarpsFacts
<1>5. b \in Nat /\ w \in Nat /\ NWARP \in Nat \ {0} /\ w \in 0 .. NWARP - 1
  BY <1>1, <1>4, UnitsFacts DEF Warps
<1>6. /\ incl[Warp - 1] = Q[Base(b, w + 1)] - Q[Base(b, w)]
      /\ \A l \in Lanes : incl[l] - own[l] = Q[Base(b, w) + l] - Q[Base(b, w)]
  BY <1>4, <1>5, WarpSums
<1> HIDE DEF own, incl
<1>7. \A l \in Lanes : rw[l] = Q[Base(b, w) + l] - Q[Base(b, w)]
  BY <1>6
<1> HIDE DEF rw
<1> DEFINE t == IF w < NWARP - 1 THEN w + 1 ELSE 0
           x == IF w < NWARP - 1 THEN incl[Warp - 1] ELSE IF b > 0 THEN red[b - 1] ELSE 0
<1>8. sh' = [sh EXCEPT ![b][t] = x]
  BY <1>2
<1>9. t \in Warps /\ \A v \in Warps : Source(v) = w => v = t
  BY <1>5 DEF Warps, Source
<1>10. x = Left(Q, b, t)
  <2>1. CASE w < NWARP - 1
    <3>1. t = w + 1 /\ t # 0 /\ t - 1 = w /\ x = incl[Warp - 1]
      BY <1>5, <2>1
    <3>2. QED
      BY <1>6, <3>1 DEF Left
  <2>2. CASE ~(w < NWARP - 1)
    <3>1. t = 0 /\ x = IF b > 0 THEN red[b - 1] ELSE 0
      BY <2>2
    <3>2. x = BlockSums[b]
      <4>1. CASE b > 0
        <5>1. b - 1 \in 0 .. nblocks - 1 /\ b - 1 + 1 = b
          BY <1>1, <1>4, <1>5, <4>1
        <5>2. QED
          BY <1>4, <3>1, <4>1, <5>1
      <4>2. CASE b = 0
        BY <1>4, <3>1, <4>2, NblocksFacts
      <4>3. QED
        BY <1>5, <4>1, <4>2
    <3>3. BlockSums[b] = Q[b * THREADS]
      <4>1. b \in 0 .. nblocks
        BY <1>1, <1>4
      <4>2. BlockSums[b] = Reduced[b * THREADS] /\ Reduced[b * THREADS] = Preceding[b * THREADS]
        BY <1>1, <1>4, <4>1, NblocksFacts
      <4>3. QED
        BY <4>2
    <3>4. Base(b, 0) = b * THREADS
      <4>1. 0 \in Nat
        OBVIOUS
      <4>2. QED
        BY <1>5, <4>1, BaseFacts
    <3>5. QED
      BY <3>1, <3>2, <3>3, <3>4 DEF Left
  <2>3. QED
    BY <2>1, <2>2
<1> HIDE DEF t, x
<1>11. BlockScanned(Q, b, at'[b], waiting'[b], sh'[b], reg'[b])
  <2>1. /\ at'[b] = 0 /\ waiting'[b] = waiting[b] \cup {w} /\ sh'[b] = [sh[b] EXCEPT ![t] = x]
        /\ reg'[b] = [u \in DOMAIN (reg[b]) \cup {w} |-> IF u = w THEN rw ELSE reg[b][u]]
    BY <1>1, <1>2, <1>3, <1>4, <1>8 DEF OfBlocks
  <2>2. /\ waiting[b] \subseteq Warps /\ DOMAIN (sh[b]) = Warps
        /\ \A v \in Warps : v \in waiting[b] =>
             v \in DOMAIN (reg[b]) /\ \A l \in Lanes : reg[b][v][l] = Q[Base(b, v) + l] - Q[Base(b, v)]
        /\ \A v \in Warps : Source(v) \in waiting[b] => sh[b][v] = Left(Q, b, v)
    BY <1>4 DEF BlockScanned
  <2>3. \A v \in Warps : v \in waiting[b] \cup {w} =>
          v \in DOMAIN (reg'[b]) /\ \A l \in Lanes : reg'[b][v][l] = Q[Base(b, v) + l] - Q[Base(b, v)]
    <3>1. ASSUME NEW v \in Warps, v \in waiting[b] \cup {w}
          PROVE  v \in DOMAIN (reg'[b]) /\ \A l \in Lanes : reg'[b][v][l] = Q[Base(b, v) + l] - Q[Base(b, v)]
      <4>1. CASE v = w
        <5>1. v \in DOMAIN (reg'[b]) /\ reg'[b][v] = rw
          BY <2>1, <4>1
        <5>2. QED
          BY <1>7, <4>1, <5>1
      <4>2. CASE v # w
        <5>1. v \in waiting[b]
          BY <3>1, <4>2
        <5>2. v \in DOMAIN (reg[b]) /\ \A l \in Lanes : reg[b][v][l] = Q[Base(b, v) + l] - Q[Base(b, v)]
          BY <2>2, <5>1
        <5>3. v \in DOMAIN (reg'[b]) /\ reg'[b][v] = reg[b][v]
          BY <2>1, <4>2, <5>2
        <5>4. QED
          BY <5>2, <5>3
      <4>3. QED
        BY <4>1, <4>2
    <3>2. QED
      BY <3>1
  <2>4. \A v \in Warps : Source(v) \in waiting[b] \cup {w} => sh'[b][v] = Left(Q, b, v)
    <3>1. ASSUME NEW v \in Warps, Source(v) \in waiting[b] \cup {w}
          PROVE  sh'[b][v] = Left(Q, b, v)
      <4>1. CASE v = t
        BY <1>9, <1>10, <2>1, <2>2, <4>1
      <4>2. CASE v # t
        <5>1. Source(v) \in waiting[b]
          BY <1>9, <3>1, <4>2
        <5>2. sh'[b][v] = sh[b][v]
          BY <2>1, <2>2, <4>2
        <5>3. QED
          BY <2>2, <5>1, <5>2
      <4>3. QED
        BY <4>1, <4>2
    <3>2. QED
      BY <3>1
  <2>5. DOMAIN (sh'[b]) = Warps
    BY <2>1, <2>2
  <2> HIDE DEF Q
  <2>6. BlockScanned(Q, b, 0, waiting[b] \cup {w}, sh'[b], reg'[b])
    <3>1. waiting[b] \cup {w} \subseteq Warps
      BY <2>2
    <3> DEFINE wt == waiting[b] \cup {w}
               s == sh'[b]
               r == reg'[b]
    <3>2. /\ wt \subseteq Warps /\ DOMAIN s = Warps
          /\ \A v \in Warps : v \in wt =>
               v \in DOMAIN r /\ \A l \in Lanes : r[v][l] = Q[Base(b, v) + l] - Q[Base(b, v)]
          /\ \A v \in Warps : Source(v) \in wt => s[v] = Left(Q, b, v)
      BY <2>3, <2>4, <2>5, <3>1
    <3> HIDE DEF wt, s, r
    <3>3. BlockScanned(Q, b, 0, wt, s, r)
      BY <3>2 DEF BlockScanned
    <3>4. QED
      BY <3>3 DEF wt, s, r
  <2>7. QED
    BY <2>1, <2>6
<1>12. \A a \in 0 .. nblocks - 1 : a # b =>
        at'[a] = at[a] /\ waiting'[a] = waiting[a] /\ sh'[a] = sh[a] /\ reg'[a] = reg[a]
  BY <1>2, <1>3, <1>8
<1>13. Written'
  <2>1. at'[b] # 2
    BY <1>1, <1>3
  <2>2. QED
    BY <1>1, <1>3, <1>12, <2>1, WrittenKept
<1>14. OfBlocks(at') /\ OfBlocks(waiting') /\ OfBlocks(sh') /\ OfBlocks(reg')
  BY <1>2, <1>3, <1>4, <1>8 DEF OfBlocks
<1>15. QED
  BY <1>1, <1>3, <1>11, <1>12, <1>13, <1>14, WarpsKept

\* What the first warp makes of the sums the warps left.
LEMMA OffsetsTotal ==
  ASSUME NEW Q \in [Nat -> Int], NEW b \in Nat, NEW val,
         val = [l \in Lanes |-> IF l < NWARP THEN Left(Q, b, l) ELSE 0], NEW w \in Warps
  PROVE  WarpScan(val, Turns(NWARP))[w] = Q[Base(b, w)]
<1>1. /\ Warp \in Nat /\ Lanes = 0 .. Warp - 1 /\ NWARP \in 1 .. Warp /\ Warps = 0 .. NWARP - 1
      /\ w \in Nat /\ w < NWARP /\ NWARP \in Nat
  BY UnitsFacts, LanesFacts DEF Warps
<1>2. \A v \in Nat : Base(b, v) \in Nat /\ Q[Base(b, v)] \in Int
  BY BaseFacts
<1> DEFINE g == [k \in 0 .. Warp |-> IF k = 0 THEN 0 ELSE Q[Base(b, k - 1)]]
<1>3. /\ \A k \in 0 .. Warp : g[k] \in Int
      /\ g[0] = 0 /\ \A k \in 1 .. Warp : g[k] = Q[Base(b, k - 1)]
  <2>1. g[0] = 0
    BY <1>1
  <2>2. ASSUME NEW k \in 1 .. Warp PROVE g[k] = Q[Base(b, k - 1)] /\ g[k] \in Int
    <3>1. k \in 0 .. Warp /\ k # 0 /\ k - 1 \in Nat
      BY <1>1
    <3>2. g[k] = Q[Base(b, k - 1)]
      BY <3>1
    <3>3. QED
      BY <1>2, <3>1, <3>2
  <2> HIDE DEF g
  <2>3. ASSUME NEW k \in 0 .. Warp PROVE g[k] \in Int
    <3>1. CASE k = 0
      BY <2>1, <3>1
    <3>2. CASE k # 0
      BY <1>1, <2>2, <3>2
    <3>3. QED
      BY <3>1, <3>2
  <2>4. QED
    BY <2>1, <2>2, <2>3
<1> HIDE DEF g
<1>4. \A l \in 0 .. Warp - 1 : val[l] \in Int
  <2>1. ASSUME NEW l \in 0 .. Warp - 1 PROVE Left(Q, b, l) \in Int
    <3>1. CASE l = 0
      BY <1>2, <3>1 DEF Left
    <3>2. CASE l # 0
      <4>1. l \in Nat /\ l - 1 \in Nat
        BY <3>2
      <4>2. QED
        BY <1>2, <3>2, <4>1 DEF Left
    <3>3. QED
      BY <3>1, <3>2
  <2>2. QED
    BY <1>1, <2>1
<1>5. val \in [Lanes -> Int]
  <2>1. val = [l \in Lanes |-> val[l]]
    OBVIOUS
  <2>2. QED
    BY <1>1, <1>4, <2>1
<1>6. \A l \in 0 .. NWARP - 1 : val[l] = g[l + 1] - g[l]
  <2>1. ASSUME NEW l \in 0 .. NWARP - 1 PROVE val[l] = g[l + 1] - g[l]
    <3>1. val[l] = Left(Q, b, l) /\ l + 1 \in 1 .. Warp /\ l + 1 - 1 = l /\ l \in Nat
      BY <1>1
    <3>2. g[l + 1] = Q[Base(b, l)] /\ Q[Base(b, l)] \in Int
      BY <1>2, <1>3, <3>1
    <3>3. CASE l = 0
      <4>1. Left(Q, b, l) = Q[Base(b, l)]
        BY <3>3 DEF Left
      <4>2. QED
        BY <1>3, <3>1, <3>2, <3>3, <4>1
    <3>4. CASE l # 0
      <4>1. l \in 1 .. Warp
        BY <1>1, <3>4
      <4>2. g[l] = Q[Base(b, l - 1)]
        BY <1>3, <4>1
      <4>3. QED
        BY <3>1, <3>2, <3>4, <4>2 DEF Left
    <3>5. QED
      BY <3>3, <3>4
  <2>2. QED
    BY <2>1
<1> DEFINE n == w + 1
<1>7. n \in Nat /\ Ints(g, n + 1) /\ \A l \in 0 .. n - 1 : val[l] = g[l + 1] - g[l]
  <2>1. n \in Nat /\ \A l \in 0 .. n - 1 : l \in 0 .. NWARP - 1
    BY <1>1
  <2>2. ASSUME NEW l \in 0 .. (n + 1) - 1 PROVE g[l] \in Int
    <3>1. l \in 0 .. Warp
      BY <1>1
    <3>2. QED
      BY <1>3, <3>1
  <2>3. Ints(g, n + 1)
    BY <2>2 DEF Ints
  <2> HIDE DEF n
  <2>4. \A l \in 0 .. n - 1 : val[l] = g[l + 1] - g[l]
    BY <1>6, <2>1
  <2>5. QED
    BY <2>1, <2>3, <2>4
<1>8. Total(val, n) = g[n] - g[0]
  <2> DEFINE f == val
  <2>1. n \in Nat /\ Ints(g, n + 1)
    BY <1>7
  <2>2. \A l \in 0 .. n - 1 : f[l] = g[l + 1] - g[l]
    BY <1>7
  <2> HIDE DEF n, f
  <2>3. Total(f, n) = g[n] - g[0]
    BY <2>1, <2>2, Telescope
  <2>4. QED
    BY <2>3 DEF f
<1>9. g[n] = Q[Base(b, w)] /\ g[0] = 0 /\ g[n] \in Int
  <2>1. n \in 1 .. Warp /\ n - 1 = w
    BY <1>1
  <2>2. QED
    BY <1>2, <1>3, <2>1
<1>10. WarpScan(val, Turns(NWARP))[w] = Total(val, n)
  <2>1. w \in 0 .. NWARP - 1
    BY <1>1
  <2>2. QED
    BY <1>1, <1>5, <2>1, WarpScanTotal
<1> HIDE DEF n
<1>11. QED
  BY <1>8, <1>9, <1>10

\* The first warp of gexscan scans the sums of the warps.
LEMMA ScanOffsetsInv ==
  ASSUME ScanInv, NEW b, ScanOffsets(b)
  PROVE  ScanInv'
<1> DEFINE val == [l \in Lanes |-> IF l < NWARP THEN sh[b][l] ELSE 0]
           off == WarpScan(val, Turns(NWARP))
           Q == Preceding
<1>1. running = "gexscan" /\ b \in 0 .. nblocks - 1 /\ at[b] = 1 /\ 0 \notin waiting[b]
  BY DEF ScanOffsets, Runs, Blocks
<1>2. /\ sh' = [sh EXCEPT ![b] = [w \in Warps |-> off[w]]] /\ reg' = reg
      /\ UNCHANGED <<rt, counts, running, compressed, red, cl_n_scan>> /\ at' = at
      /\ waiting' = [waiting EXCEPT ![b] = @ \cup {0}]
  BY DEF ScanOffsets, Arrive
<1>3. /\ CountsFit /\ nblocks \in Nat
      /\ OfBlocks(at) /\ OfBlocks(waiting) /\ OfBlocks(sh) /\ OfBlocks(reg)
      /\ BlockScanned(Q, b, 1, waiting[b], sh[b], reg[b])
  BY <1>1, WarpsFacts
<1>4. b \in Nat /\ Q \in [Nat -> Int] /\ 0 \in Warps /\ \A l \in Lanes : l < NWARP => l \in Warps
  BY <1>1, <1>3, SumsFacts, UnitsFacts DEF Warps, Lanes
<1>5. \A w \in Warps : sh[b][w] = Left(Q, b, w)
  BY <1>1, <1>3 DEF BlockScanned
<1>6. \A w \in Warps : off[w] = Q[Base(b, w)]
  <2>1. val = [l \in Lanes |-> IF l < NWARP THEN Left(Q, b, l) ELSE 0]
    BY <1>4, <1>5
  <2> HIDE DEF val, Q
  <2>2. QED
    BY <1>4, <2>1, OffsetsTotal
<1> HIDE DEF off, Q
<1>7. BlockScanned(Q, b, at'[b], waiting'[b], sh'[b], reg'[b])
  <2>1. /\ at'[b] = 1 /\ waiting'[b] = waiting[b] \cup {0} /\ sh'[b] = [w \in Warps |-> off[w]]
        /\ reg'[b] = reg[b]
    BY <1>1, <1>2, <1>3 DEF OfBlocks
  <2>2. /\ waiting[b] \subseteq Warps
        /\ \A v \in Warps :
             v \in DOMAIN (reg[b]) /\ \A l \in Lanes : reg[b][v][l] = Q[Base(b, v) + l] - Q[Base(b, v)]
    BY <1>3 DEF BlockScanned
  <2>3. DOMAIN (sh'[b]) = Warps /\ \A w \in Warps : sh'[b][w] = Q[Base(b, w)]
    BY <1>6, <2>1
  <2>4. QED
    BY <1>4, <2>1, <2>2, <2>3 DEF BlockScanned
<1>8. \A a \in 0 .. nblocks - 1 : a # b =>
        at'[a] = at[a] /\ waiting'[a] = waiting[a] /\ sh'[a] = sh[a] /\ reg'[a] = reg[a]
  BY <1>2
<1>9. Written'
  <2>1. at'[b] # 2
    BY <1>1, <1>2
  <2>2. QED
    BY <1>1, <1>2, <1>8, <2>1, WrittenKept
<1>10. OfBlocks(at') /\ OfBlocks(waiting') /\ OfBlocks(sh') /\ OfBlocks(reg')
  BY <1>2, <1>3 DEF OfBlocks
<1>11. QED
  BY <1>1, <1>2, <1>7, <1>8, <1>9, <1>10, WarpsKept DEF Q

\* Which thread of which warp of which block writes the sum before count i.
LEMMA PlaceFacts ==
  ASSUME CountsFit, NEW i \in 0 .. Size - 1
  PROVE  LET t == i \div ratio
             g == t \div Warp
         IN  /\ t \in Nat /\ t < Up(Size, ratio) /\ i % ratio \in 0 .. ratio - 1
             /\ i = t * ratio + (i % ratio)
             /\ g \in Nat /\ t % Warp \in Lanes /\ t = g * Warp + (t % Warp)
             /\ g \div NWARP \in 0 .. nblocks - 1 /\ g % NWARP \in Warps
             /\ g = (g \div NWARP) * NWARP + (g % NWARP)
             /\ i \in 0 .. Up(Size, ratio) * ratio - 1
<1> DEFINE t == i \div ratio
           g == t \div Warp
           b == g \div NWARP
           w == g % NWARP
           m == i % ratio
           l == t % Warp
<1>1. /\ ratio \in Nat \ {0} /\ Size \in Nat /\ Warp \in Nat \ {0} /\ NWARP \in Nat \ {0}
      /\ THREADS = NWARP * Warp /\ Lanes = 0 .. Warp - 1 /\ Warps = 0 .. NWARP - 1
      /\ THREADS \in Nat \ {0}
  BY SizeFacts, UnitsFacts, LanesFacts DEF Warps
<1>2. i \in Nat /\ i < Size
  BY <1>1
<1>3. t \in Nat /\ t * ratio \in Nat /\ m \in 0 .. ratio - 1 /\ i = t * ratio + m
  BY <1>1, <1>2, Quotient
<1> HIDE DEF t, m
<1>4. g \in Nat /\ g * Warp \in Nat /\ l \in 0 .. Warp - 1 /\ t = g * Warp + l
  BY <1>1, <1>3, Quotient
<1> HIDE DEF g, l
<1>5. b \in Nat /\ b * NWARP \in Nat /\ w \in 0 .. NWARP - 1 /\ g = b * NWARP + w
  BY <1>1, <1>4, Quotient
<1> HIDE DEF b, w
<1>6. t * ratio < Size
  BY <1>1, <1>2, <1>3
<1>7. t < Up(Size, ratio)
  BY <1>1, <1>3, <1>6, UpFacts
<1>8. i \in 0 .. Up(Size, ratio) * ratio - 1
  <2>1. Up(Size, ratio) * ratio \in Nat /\ Size <= Up(Size, ratio) * ratio
    BY <1>1, UpFacts
  <2>2. QED
    BY <1>1, <1>2, <2>1
<1>9. b < nblocks
  <2> DEFINE x == b * NWARP
             y == b * THREADS
  <2>1. x \in Nat /\ x <= g /\ y \in Nat
    BY <1>1, <1>5
  <2>2. x * Warp = y
    BY <1>1, <1>5
  <2>3. x * Warp <= g * Warp
    <3> HIDE DEF x, y
    <3>1. QED
      BY <1>1, <1>4, <2>1, TimesMost
  <2> HIDE DEF x
  <2>4. y <= t
    <3> HIDE DEF y
    <3>1. x * Warp \in Nat
      BY <2>1, <2>2
    <3>2. QED
      BY <1>4, <2>2, <2>3, <3>1
  <2>5. y * ratio <= t * ratio /\ y * ratio \in Nat
    <3> HIDE DEF y
    <3>1. QED
      BY <1>1, <1>3, <2>1, <2>4, TimesMost
  <2>6. b * (THREADS * ratio) = y * ratio
    BY <1>1, <1>5
  <2> HIDE DEF y
  <2>7. b * (THREADS * ratio) < Size
    BY <1>1, <1>3, <1>6, <2>5, <2>6
  <2>8. THREADS * ratio \in Nat \ {0}
    <3>1. 1 \in Nat /\ 1 <= THREADS /\ THREADS \in Nat /\ ratio \in Nat /\ ratio >= 1
      BY <1>1
    <3>2. 1 * ratio <= THREADS * ratio /\ THREADS * ratio \in Nat /\ 1 * ratio = ratio
      BY <3>1, TimesMost
    <3>3. QED
      BY <3>1, <3>2
  <2> DEFINE u == THREADS * ratio
  <2>9. u \in Nat \ {0} /\ b * u < Size /\ nblocks = Up(Size, u)
    BY <2>7, <2>8 DEF nblocks
  <2> HIDE DEF u
  <2>10. QED
    BY <1>1, <1>5, <2>9, UpFacts
<1>10. b \in 0 .. nblocks - 1
  <2>1. nblocks \in Nat
    BY NblocksFacts
  <2>2. QED
    BY <1>5, <1>9, <2>1
<1>11. QED
  BY <1>1, <1>3, <1>4, <1>5, <1>7, <1>8, <1>10 DEF t, g, b, w, m, l

\* A warp of gexscan writes the sums before its counts, no other warp's.
LEMMA WriteScanInv ==
  ASSUME ScanInv, NEW b, NEW w \in Warps, WriteScan(b, w)
  PROVE  ScanInv'
<1> DEFINE n   == Up(Size, ratio)
           Own == {l \in Lanes : Lane(b, w, l) < n}
           Out == [l \in Own |-> Prefix(ThreadCounts(Lane(b, w, l), n), sh[b][w] + reg[b][w][l])]
           Q   == Preceding
<1>1. running = "gexscan" /\ b \in 0 .. nblocks - 1 /\ at[b] = 2 /\ w \notin waiting[b]
  BY DEF WriteScan, Runs, Blocks
<1>2. /\ UNCHANGED <<rt, counts, running, compressed, red>> /\ at' = at /\ sh' = sh /\ reg' = reg
      /\ waiting' = [waiting EXCEPT ![b] = @ \cup {w}]
      /\ cl_n_scan' = [i \in DOMAIN cl_n_scan |->
           IF (i \div ratio) \div Warp = b * NWARP + w
           THEN Out[(i \div ratio) % Warp][i % ratio] ELSE cl_n_scan[i]]
  BY DEF WriteScan, Arrive
<1>3. /\ CountsFit /\ Narrowed /\ nblocks \in Nat
      /\ OfBlocks(at) /\ OfBlocks(waiting) /\ OfBlocks(sh) /\ OfBlocks(reg)
      /\ BlockScanned(Q, b, 2, waiting[b], sh[b], reg[b])
      /\ DOMAIN cl_n_scan = 0 .. Up(Size, ratio) * ratio - 1
      /\ Written
  BY <1>1, WarpsFacts
<1>4. b \in Nat /\ w \in Nat /\ Q \in [Nat -> Int] /\ Base(b, w) \in Nat
  <2>1. b \in Nat /\ w \in Nat
    BY <1>1, <1>3, UnitsFacts DEF Warps
  <2>2. QED
    BY <1>3, <2>1, SumsFacts, BaseFacts
<1>5. /\ sh[b][w] = Q[Base(b, w)]
      /\ \A l \in Lanes : reg[b][w][l] = Q[Base(b, w) + l] - Q[Base(b, w)]
  BY <1>3 DEF BlockScanned
<1>6. ASSUME NEW i \in 0 .. Size - 1, (i \div ratio) \div Warp = b * NWARP + w
      PROVE  cl_n_scan'[i] = Total(counts, i)
  <2> DEFINE t == i \div ratio
             l == t % Warp
             m == i % ratio
  <2>1. /\ t \in Nat /\ t < n /\ m \in 0 .. ratio - 1 /\ i = t * ratio + m
        /\ l \in Lanes /\ t = (b * NWARP + w) * Warp + l
        /\ i \in 0 .. Up(Size, ratio) * ratio - 1
    BY <1>3, <1>6, PlaceFacts
  <2>2. cl_n_scan'[i] = Out[l][m]
    BY <1>2, <1>3, <1>6, <2>1
  <2> HIDE DEF t, l, m
  <2>3. Lane(b, w, l) = t /\ Base(b, w) + l = t
    BY <2>1 DEF Lane, Base
  <2>4. sh[b][w] + reg[b][w][l] = Q[t]
    <3>1. reg[b][w][l] = Q[t] - Q[Base(b, w)]
      BY <1>5, <2>1, <2>3
    <3>2. Q[t] \in Int /\ Q[Base(b, w)] \in Int
      BY <1>4, <2>1
    <3> HIDE DEF Q
    <3>3. QED
      BY <1>5, <3>1, <3>2
  <2>5. Out[l] = Prefix(ThreadCounts(t, n), Q[t])
    BY <2>1, <2>3, <2>4
  <2>6. t * ratio + m < Size
    <3>1. i < Size
      BY <1>3, SizeFacts
    <3>2. QED
      BY <2>1, <3>1
  <2>7. Prefix(ThreadCounts(t, n), Q[t])[m] = Total(counts, t * ratio + m)
    BY <1>3, <2>1, <2>6, WriteThread
  <2>8. QED
    BY <2>1, <2>2, <2>5, <2>7
<1> HIDE DEF n, Own, Out
<1>7. Written'
  <2>1. Size' = Size /\ ratio' = ratio /\ nblocks' = nblocks
    BY <1>2, <1>3, Frame
  <2>2. SUFFICES ASSUME NEW a \in 0 .. nblocks - 1, NEW v \in Warps, at'[a] = 2, v \in waiting'[a],
                        NEW i \in 0 .. Size - 1, (i \div ratio) \div Warp = a * NWARP + v
                 PROVE  cl_n_scan'[i] = Total(counts, i)
    BY <1>2, <2>1 DEF Written
  <2>3. CASE (i \div ratio) \div Warp = b * NWARP + w
    BY <1>6, <2>3
  <2>4. CASE (i \div ratio) \div Warp # b * NWARP + w
    <3>1. i \in DOMAIN cl_n_scan
      BY <1>3, PlaceFacts
    <3>2. cl_n_scan'[i] = cl_n_scan[i]
      BY <1>2, <2>4, <3>1
    <3>3. at[a] = 2 /\ v \in waiting[a]
      <4>1. ~(a = b /\ v = w)
        BY <2>2, <2>4
      <4>2. QED
        BY <1>2, <1>3, <2>2, <4>1 DEF OfBlocks
    <3>4. cl_n_scan[i] = Total(counts, i)
      BY <1>3, <2>2, <3>3 DEF Written
    <3>5. QED
      BY <3>2, <3>4
  <2>5. QED
    BY <2>3, <2>4
<1>8. BlockScanned(Q, b, at'[b], waiting'[b], sh'[b], reg'[b])
  <2>1. at'[b] = 2 /\ waiting'[b] = waiting[b] \cup {w} /\ sh'[b] = sh[b] /\ reg'[b] = reg[b]
    BY <1>1, <1>2, <1>3 DEF OfBlocks
  <2>2. BlockScanned(Q, b, 2, waiting[b] \cup {w}, sh[b], reg[b])
    BY <1>3 DEF BlockScanned
  <2>3. QED
    BY <2>1, <2>2
<1>9. \A a \in 0 .. nblocks - 1 : a # b =>
        at'[a] = at[a] /\ waiting'[a] = waiting[a] /\ sh'[a] = sh[a] /\ reg'[a] = reg[a]
  BY <1>2
<1>10. OfBlocks(at') /\ OfBlocks(waiting') /\ OfBlocks(sh') /\ OfBlocks(reg')
  BY <1>2, <1>3 DEF OfBlocks
<1>11. DOMAIN cl_n_scan' = DOMAIN cl_n_scan
  BY <1>2
<1>12. QED
  BY <1>1, <1>2, <1>7, <1>8, <1>9, <1>10, <1>11, WarpsKept DEF Q

\* gexscan has returned: every count is of a warp that has written.
LEMMA ReturnsInv ==
  ASSUME ScanInv, Return
  PROVE  ScanInv'
<1>1. running = "gexscan" /\ AllReturned
  BY DEF Return
<1>2. /\ running' = "returned" /\ UNCHANGED <<rt, counts, compressed, red>>
      /\ cl_n_scan' = [i \in DOMAIN counts |-> cl_n_scan[i]]
  BY DEF Return
<1>3. CountsFit /\ Narrowed /\ DOMAIN red = 0 .. nblocks - 1 /\ Written
  BY <1>1, WarpsFacts
<1>4. CountsFit' /\ nblocks' = nblocks /\ Narrowed'
  BY <1>2, <1>3, Frame
<1>5. \A b \in 0 .. nblocks - 1, w \in Warps : at[b] = 2 /\ w \in waiting[b]
  BY <1>1 DEF AllReturned, Blocks, LastPhase, Active
<1>6. DOMAIN counts = 0 .. Size - 1
  BY <1>3, SizeFacts
<1>7. \A i \in DOMAIN counts : cl_n_scan[i] = Total(counts, i)
  <2>1. SUFFICES ASSUME NEW i \in 0 .. Size - 1 PROVE cl_n_scan[i] = Total(counts, i)
    BY <1>6
  <2> DEFINE g == (i \div ratio) \div Warp
             b == g \div NWARP
             w == g % NWARP
  <2>2. b \in 0 .. nblocks - 1 /\ w \in Warps /\ g = b * NWARP + w
    BY <1>3, PlaceFacts
  <2> HIDE DEF b, w
  <2>3. at[b] = 2 /\ w \in waiting[b]
    BY <1>5, <2>2
  <2>4. QED
    BY <1>3, <2>2, <2>3 DEF Written
<1>8. ReturnInv'
  BY <1>2, <1>7 DEF ReturnInv
<1>9. Sized'
  BY <1>2, <1>3, <1>4 DEF Sized
<1>10. QED
  BY <1>2, <1>4, <1>8, <1>9 DEF ScanInv, ReduceInv, ChunksInv, WarpsInv

\* Nothing changes.
LEMMA ScanStutter ==
  ASSUME ScanInv, UNCHANGED scan_vars
  PROVE  ScanInv'
<1>1. /\ rt' = rt /\ counts' = counts /\ compressed' = compressed /\ red' = red /\ cl_n_scan' = cl_n_scan
      /\ running' = running /\ at' = at /\ waiting' = waiting /\ sh' = sh /\ reg' = reg
  BY DEF scan_vars
<1>2. CountsFit
  BY DEF ScanInv
<1>3. /\ CountsFit' /\ Size' = Size /\ ratio' = ratio /\ nblocks' = nblocks
      /\ Reduced' = Reduced /\ Preceding' = Preceding /\ BlockSums' = BlockSums
      /\ Narrowed => Narrowed'
  BY <1>1, <1>2, Frame
<1>4. Sized'
  BY <1>1, <1>3 DEF ScanInv, Sized
<1>5. ReduceInv'
  BY <1>1, <1>3 DEF ScanInv, ReduceInv, OfBlocks
<1>6. ChunksInv'
  BY <1>1, <1>3 DEF ScanInv, ChunksInv
<1>7. WarpsInv'
  <2>1. Up(Size, ratio)' = Up(Size, ratio)
    BY <1>3 DEF Up
  <2>2. Written' = Written
    BY <1>1, <1>3 DEF Written
  <2>3. QED
    BY <1>1, <1>3, <2>1, <2>2 DEF ScanInv, WarpsInv, OfBlocks
<1>8. ReturnInv'
  BY <1>1 DEF ScanInv, ReturnInv
<1>9. QED
  BY <1>1, <1>3, <1>4, <1>5, <1>6, <1>7, <1>8 DEF ScanInv

\* The invariant is inductive.
LEMMA ScanNextInv ==
  ASSUME ScanInv, [ScanNext]_scan_vars
  PROVE  ScanInv'
<1>1. CASE ScanHost
  BY <1>1, LaunchReduceInv, LaunchBlocksInv, LaunchGexscanInv, ReturnsInv DEF ScanHost
<1>2. ASSUME NEW b \in DOMAIN at, WarpStep(b) PROVE ScanInv'
  BY <1>2, ReduceWarpInv, ReduceBlockInv, ScanWarpInv, ScanOffsetsInv, WriteScanInv DEF WarpStep
<1>3. ASSUME NEW b \in DOMAIN at, Barrier(b) PROVE ScanInv'
  BY <1>3, BarrierInv
<1>4. ASSUME NEW t \in 0 .. THREADS - 1, ThreadStep(t) PROVE ScanInv'
  BY <1>4, LoadInv, CarryInv, AddBelowInv, StoreSumInv DEF ThreadStep
<1>5. CASE UNCHANGED scan_vars
  BY <1>5, ScanStutter
<1>6. QED
  BY <1>1, <1>2, <1>3, <1>4, <1>5 DEF ScanNext

-----------------------------------------------------------------------------
(* What the invariant gives *)

\* The invariant gives the sizes of the arrays.
LEMMA InvTypes == ASSUME ScanInv PROVE ScanTypeOK
<1>1. rt \in {1, 2, 4} /\ running \in {"compress4", "breduce", "bexscan", "gexscan", "returned"}
  BY DEF ScanInv, CountsFit
<1>2. ASSUME NEW b \in DOMAIN at PROVE at[b] \in 0 .. LastPhase \/ running = "returned"
  <2>1. CASE running = "compress4"
    BY <2>1 DEF ScanInv
  <2>2. CASE running = "breduce"
    BY <2>2 DEF ScanInv, ReduceInv, OfBlocks, BlockReduced, LastPhase
  <2>3. CASE running = "bexscan"
    BY <2>3 DEF ScanInv, ChunksInv, Chunked, LastPhase, Chunks
  <2>4. CASE running = "gexscan"
    BY <2>4 DEF ScanInv, WarpsInv, OfBlocks, BlockScanned, LastPhase
  <2>5. QED
    BY <1>1, <2>1, <2>2, <2>3, <2>4
<1>3. DOMAIN red = IF running = "compress4" THEN {} ELSE 0 .. nblocks - 1
  <2>1. CASE running = "compress4"
    BY <2>1 DEF ScanInv
  <2>2. CASE running # "compress4"
    BY <2>2 DEF ScanInv, Sized
  <2>3. QED
    BY <2>1, <2>2
<1>4. running = "returned" => DOMAIN cl_n_scan = DOMAIN counts
  BY DEF ScanInv, ReturnInv
<1>5. QED
  BY <1>1, <1>2, <1>3, <1>4 DEF ScanTypeOK

\* The entry of a thread of bexscan in a chunk, and the one a stride below.
LEMMA EntryFacts ==
  ASSUME NEW nb \in Nat, NEW p \in Nat \ {0},
         NEW t \in 0 .. THREADS - 1, Index(p, t) < nb
  PROVE  /\ Chunk(p) * THREADS \in Nat /\ Index(p, t) = Chunk(p) * THREADS + t
         /\ Index(p, t) \in 0 .. nb - 1
         /\ Index(p, t) > 0 => Index(p, t) - 1 \in 0 .. nb - 1
         /\ Step(p) % 2 = 1 /\ t >= Stride(p) => Index(p, t) - Stride(p) \in 0 .. nb - 1
<1> DEFINE a == Chunk(p) * THREADS
<1>1. THREADS \in Nat /\ Steps \in Nat
  BY PhaseFacts
<1>2. Chunk(p) \in Nat /\ Step(p) \in 0 .. Steps - 1
  BY PhaseFacts, Zenon
<1>3. a \in Nat /\ Index(p, t) = a + t
  BY <1>1, <1>2 DEF Index
<1> HIDE DEF a
<1>4. Index(p, t) \in 0 .. nb - 1 /\ (Index(p, t) > 0 => Index(p, t) - 1 \in 0 .. nb - 1)
  BY <1>1, <1>3
<1>5. ASSUME Step(p) % 2 = 1, t >= Stride(p) PROVE Index(p, t) - Stride(p) \in 0 .. nb - 1
  <2> DEFINE j == Step(p)
  <2>1. j \in 1 .. Steps - 1
    BY <1>1, <1>2, <1>5
  <2> HIDE DEF j
  <2>2. Strides[(j + 1) \div 2] \in Nat
    BY <2>1, TurnOf
  <2>3. Stride(p) \in Nat
    BY <2>2 DEF Stride, j
  <2>4. QED
    BY <1>1, <1>3, <1>5, <2>3
<1>6. QED
  BY <1>3, <1>4, <1>5 DEF a

\* The invariant gives NoRace: in a chunk the threads have entries of their own.
LEMMA InvNoRace == ASSUME ScanInv PROVE NoRace
<1>1. SUFFICES ASSUME running = "bexscan", NEW t \in Active(0, at[0])
      PROVE  /\ Writes(t, at[0]) \cup Reads(t, at[0]) \subseteq DOMAIN sh[0]
             /\ \A u \in Active(0, at[0]) \ {t} :
                  Writes(t, at[0]) \cap (Writes(u, at[0]) \cup Reads(u, at[0])) = {}
  BY DEF NoRace
<1> DEFINE p == at[0]
           nb == nblocks
<1>2. p \in Nat /\ nb \in Nat /\ DOMAIN (sh[0]) = 0 .. nb - 1
  BY <1>1, ChunkFacts
<1>3. /\ p = 0 => Active(0, p) = 0 .. THREADS - 1
      /\ p > 0 => Active(0, p) = {u \in 0 .. THREADS - 1 : Index(p, u) < nb}
  BY <1>1 DEF Active
<1>4. THREADS \in Nat
  BY PhaseFacts
<1>5. CASE p = 0
  <2>1. \A u : Writes(u, p) = {i \in 0 .. nb - 1 : i % THREADS = u} /\ Reads(u, p) = {}
    BY <1>5 DEF Writes, Reads
  <2>2. QED
    BY <1>2, <2>1
<1>6. CASE p > 0
  <2>1. p \in Nat \ {0}
    BY <1>2, <1>6
  <2>2. \A u \in Active(0, p) :
          /\ u \in 0 .. THREADS - 1 /\ Chunk(p) * THREADS \in Nat /\ Index(p, u) = Chunk(p) * THREADS + u
          /\ Index(p, u) \in 0 .. nb - 1 /\ (Index(p, u) > 0 => Index(p, u) - 1 \in 0 .. nb - 1)
          /\ Step(p) % 2 = 1 /\ u >= Stride(p) => Index(p, u) - Stride(p) \in 0 .. nb - 1
    BY <1>2, <1>3, <1>6, <2>1, EntryFacts
  <2>3. Step(p) \in Nat
    <3>1. Step(p) \in 0 .. Steps - 1
      BY <2>1, PhaseFacts, Zenon
    <3>2. QED
      BY <3>1
  <2>4. t \in Active(0, p)
    BY <1>1
  <2>5. CASE Step(p) = 0
    <3>1. \A u : /\ Writes(u, p) = {i \in {Index(p, u)} : Carries(i, u)}
                 /\ Reads(u, p) = {Index(p, u) - c : c \in {c \in {0, 1} : Carries(Index(p, u), u)}}
      BY <1>6, <2>5 DEF Writes, Reads
    <3>2. \A u : Carries(Index(p, u), u) <=> Index(p, u) > 0 /\ u = 0
      BY DEF Carries
    <3>3. Writes(t, p) \cup Reads(t, p) \subseteq 0 .. nb - 1
      BY <2>2, <2>4, <3>1, <3>2
    <3>4. ASSUME NEW u \in Active(0, p) \ {t} PROVE Writes(t, p) \cap (Writes(u, p) \cup Reads(u, p)) = {}
      <4>1. CASE t # 0
        <5>1. Writes(t, p) = {}
          BY <3>1, <3>2, <4>1
        <5>2. QED
          BY <5>1
      <4>2. CASE t = 0
        <5>1. ~Carries(Index(p, u), u)
          BY <3>2, <3>4, <4>2
        <5>2. Writes(u, p) = {} /\ Reads(u, p) = {}
          BY <3>1, <5>1
        <5>3. QED
          BY <5>2
      <4>3. QED
        BY <4>1, <4>2
    <3>5. QED
      BY <1>2, <3>3, <3>4
  <2>6. CASE Step(p) % 2 = 1
    <3>1. \A u : /\ Writes(u, p) = {}
                 /\ Reads(u, p) = {i \in {Index(p, u), Index(p, u) - Stride(p)} : u >= Stride(p)}
      BY <1>6, <2>6 DEF Writes, Reads
    <3>2. Writes(t, p) \cup Reads(t, p) \subseteq 0 .. nb - 1
      BY <2>2, <2>4, <2>6, <3>1
    <3>3. QED
      BY <1>2, <3>1, <3>2
  <2>7. CASE Step(p) > 0 /\ Step(p) % 2 = 0
    <3>1. \A u : /\ Writes(u, p) = {i \in {Index(p, u)} : u >= Strides[Step(p) \div 2]}
                 /\ Reads(u, p) = {Index(p, u)}
      BY <1>6, <2>7 DEF Writes, Reads
    <3>2. Writes(t, p) \cup Reads(t, p) \subseteq 0 .. nb - 1
      BY <2>2, <2>4, <3>1
    <3>3. ASSUME NEW u \in Active(0, p) \ {t} PROVE Writes(t, p) \cap (Writes(u, p) \cup Reads(u, p)) = {}
      <4>1. Index(p, u) # Index(p, t)
        <5> DEFINE a == Chunk(p) * THREADS
        <5>1. a \in Nat /\ Index(p, u) = a + u /\ Index(p, t) = a + t /\ u \in Nat /\ t \in Nat /\ u # t
          BY <1>4, <2>2, <2>4, <3>3
        <5> HIDE DEF a
        <5>2. QED
          BY <5>1
      <4>2. QED
        BY <3>1, <4>1
    <3>4. QED
      BY <1>2, <3>2, <3>3
  <2>8. Step(p) = 0 \/ Step(p) % 2 = 1 \/ (Step(p) > 0 /\ Step(p) % 2 = 0)
    BY <2>3
  <2>9. QED
    BY <2>5, <2>6, <2>7, <2>8
<1>7. QED
  BY <1>2, <1>5, <1>6

\* scan_ keeps ScanInv, whatever order the units run in.
THEOREM ScanInvariant == ScanSpec /\ CountsFit => []ScanInv
<1>1. ScanInit /\ CountsFit => ScanInv
  BY InitInv
<1>2. ScanInv /\ [ScanNext]_scan_vars => ScanInv'
  BY ScanNextInv
<1>3. QED
  BY <1>1, <1>2, PTL DEF ScanSpec

\* The arrays of scan_ have their sizes, and no block passes its last phase.
THEOREM ScanTypes == ScanSpec /\ CountsFit => []ScanTypeOK
<1>1. ScanInv => ScanTypeOK
  BY InvTypes
<1>2. QED
  BY <1>1, ScanInvariant, PTL

\* For every size of the warps and blocks, every type of the counts and every
\* order of warps and threads, scan_ returns the exclusive prefix sum.
THEOREM ScanExclusive == ScanSpec /\ CountsFit => []Exclusive
<1>1. ScanInv => Exclusive
  BY InvTypes DEF Exclusive, ScanInv, ReturnInv
<1>2. QED
  BY <1>1, ScanInvariant, PTL

\* No two threads of bexscan meet in an entry of shtmp between two barriers.
THEOREM ScanNoRace == ScanSpec /\ CountsFit => []NoRace
<1>1. ScanInv => NoRace
  BY InvNoRace
<1>2. QED
  BY <1>1, ScanInvariant, PTL

=============================================================================
