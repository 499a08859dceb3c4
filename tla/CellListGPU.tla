---------------------------- MODULE CellListGPU ----------------------------
(***************************************************************************)
(* CellList_gpu::construct (NN/CellList/cuda/CellList_gpu.hpp): the host   *)
(* launches four kernels, a scan and up to two sorts on the device, one    *)
(* after the other.  A kernel runs one thread per particle; threads of one *)
(* kernel interleave freely, and the next launch starts when all of them   *)
(* have returned.  The arrays live on: every construct finds what the      *)
(* previous one left in them.                                              *)
(*                                                                         *)
(* A particle is its index, its position is the cell subindex computes for *)
(* it.  An array is a function on 0 .. size - 1.  The build of the program *)
(* (with MAKE_CELLLIST_DETERMINISTIC or without) is chosen before it runs. *)
(***************************************************************************)
EXTENDS Integers, FiniteSets

CONSTANTS
  NCells,          \* number of cells of the grid, padding included
  MaxPart,         \* bound on the particles of one construct
  Markers,         \* the ghost markers callers pass
  Garbage          \* content of device memory nobody has written

ASSUME NCellsAssumption == NCells \in Nat \ {0}
ASSUME MaxPartAssumption == MaxPart \in Nat
ASSUME MarkersAssumption == Markers \subseteq Nat
ASSUME GarbageAssumption == Garbage \notin Nat

VARIABLES
  deterministic,                 \* built with MAKE_CELLLIST_DETERMINISTIC
  pl,                            \* cell of each particle of the last construct
  g_m,                           \* its ghost marker argument
  opt,                           \* its cl_construct_opt argument
  kernel,                        \* what the device is running
  done,                          \* its threads that have returned
  rank,                          \* register e[dim] of the threads of subindex
  part_ids,                      \* cell and position in the cell, per particle
  cl_n,                          \* particles of each cell
  starts,                        \* exclusive scan of cl_n
  cells,                         \* particles, cell after cell
  sorted_to_not_sorted,
  non_sorted_to_sorted,
  pl_out,                        \* the particles in the sorted order
  sorted_domain_particles_ids,
  sorted_domain_particles_dg

call   == <<pl, g_m, opt>>
index  == <<rank, part_ids, cl_n>>
sorted == <<sorted_to_not_sorted, non_sorted_to_sorted, pl_out>>
domain == <<sorted_domain_particles_ids, sorted_domain_particles_dg>>
vars   == <<deterministic, call, kernel, done, index, starts, cells, sorted, domain>>

Cells == 0 .. NCells - 1
Bins  == 0 .. NCells              \* cl_n and starts have one entry more
Empty == [i \in {} |-> 0]

Resize(a, I) == [i \in I |-> IF i \in DOMAIN a THEN a[i] ELSE Garbage]

Threads  == DOMAIN pl             \* one per particle, whatever the blocks
Returned == done = Threads

\* mgpu::mergesort is stable: where it puts the entry at i.
Place(key, i) ==
  Cardinality({j \in DOMAIN key : key[j] < key[i] \/ (key[j] = key[i] /\ j < i)})

\* Fault: a sort that is not stable.
MergeSortUnstable(key, val) ==
  LET Behind(i) == Cardinality({j \in DOMAIN key :
                     key[j] < key[i] \/ (key[j] = key[i] /\ j > i)})
  IN [k \in DOMAIN key |-> val[CHOOSE i \in DOMAIN key : Behind(i) = k]]

\* The values after a mergesort by key.
MergeSort(key, val) ==
  [k \in DOMAIN key |-> val[CHOOSE i \in DOMAIN key : Place(key, i) = k]]
-----------------------------------------------------------------------------
Init ==
  /\ deterministic \in BOOLEAN
  /\ pl = Empty /\ g_m = 0 /\ opt = "Full"
  /\ kernel = "none" /\ done = {}
  /\ rank = Empty /\ part_ids = Empty /\ cl_n = [c \in Cells |-> 0]
  /\ starts = Empty /\ cells = Empty
  /\ sorted_to_not_sorted = Empty /\ non_sorted_to_sorted = Empty
  /\ pl_out = Empty
  /\ sorted_domain_particles_ids = Empty /\ sorted_domain_particles_dg = Empty

\* The counters start from zero in every construct.
Counters == [c \in Bins |-> 0]

\* Fault: the early return leaves starts alone.
StartsKept == [c \in Bins |-> IF c \in DOMAIN starts THEN starts[c] ELSE 0]

\* starts when there is no particle.
StartsOfNone == [c \in Bins |-> 0]

\* populate_cell_list sizes the output vectors and calls
\* construct(pl, ..., g_m, opt), here up to the launch of subindex.
Construct(pos, g, o) ==
  /\ kernel \in {"none", "idle"}
  /\ pl' = pos /\ g_m' = g /\ opt' = o
  /\ part_ids' = Resize(part_ids, DOMAIN pos)
  /\ cl_n' = Counters
  /\ rank' = [i \in DOMAIN pos |-> Garbage]
  /\ done' = {}
  /\ IF DOMAIN pos = {}
     THEN kernel' = "idle" /\ starts' = StartsOfNone
     ELSE kernel' = "subindex" /\ UNCHANGED starts
  /\ pl_out' = Resize(pl_out, DOMAIN pos)
  /\ UNCHANGED <<cells, sorted_to_not_sorted, non_sorted_to_sorted, domain>>

\* subindex, first half: the atomicAdd returns the old count of the cell.
Count(i) ==
  /\ kernel = "subindex" /\ i \notin done /\ rank[i] = Garbage
  /\ rank' = [rank EXCEPT ![i] = cl_n[pl[i]]]
  /\ cl_n' = [cl_n EXCEPT ![pl[i]] = cl_n[pl[i]] + 1]
  /\ UNCHANGED <<call, kernel, done, part_ids, starts, cells, sorted, domain>>

\* Fault: an increment that is not atomic, the count is read when it is stored.
StoreIdsReread(i) ==
  /\ kernel = "subindex" /\ i \notin done /\ rank[i] # Garbage
  /\ part_ids' = [part_ids EXCEPT ![i] =
                    [cell |-> pl[i], local |-> cl_n[pl[i]] - 1]]
  /\ done' = done \cup {i}
  /\ UNCHANGED <<call, kernel, rank, cl_n, starts, cells, sorted, domain>>

\* subindex, second half: the thread stores cell and rank for fill_cells.
StoreIds(i) ==
  /\ kernel = "subindex" /\ i \notin done /\ rank[i] # Garbage
  /\ part_ids' = [part_ids EXCEPT ![i] = [cell |-> pl[i], local |-> rank[i]]]
  /\ done' = done \cup {i}
  /\ UNCHANGED <<call, kernel, rank, cl_n, starts, cells, sorted, domain>>

LaunchScan ==
  /\ kernel = "subindex" /\ Returned
  /\ kernel' = "scan" /\ done' = {}
  /\ starts' = Resize(starts, Bins)
  /\ UNCHANGED <<call, index, cells, sorted, domain>>

\* openfpm::scan, one output at a time.
Scan(c) ==
  /\ kernel = "scan" /\ done = 0 .. c - 1
  /\ starts' = [starts EXCEPT ![c] =
                  IF c = 0 THEN 0 ELSE starts[c - 1] + cl_n[c - 1]]
  /\ done' = 0 .. c
  /\ UNCHANGED <<call, kernel, index, cells, sorted, domain>>

LaunchFill ==
  /\ kernel = "scan" /\ done = Bins
  /\ kernel' = "fill_cells" /\ done' = {}
  /\ cells' = Resize(cells, Threads)
  /\ UNCHANGED <<call, index, starts, sorted, domain>>

\* The entry of cells a thread of fill_cells writes.
FillPlace(i) ==
  IF deterministic THEN i ELSE starts[part_ids[i].cell] + part_ids[i].local

\* fill_cells.  The phase is always 0: encode_phase_id leaves the index alone.
FillCells(i) ==
  /\ kernel = "fill_cells" /\ i \notin done
  /\ cells' = [cells EXCEPT ![FillPlace(i)] = i]
  /\ done' = done \cup {i}
  /\ UNCHANGED <<call, kernel, index, starts, sorted, domain>>

\* Fault: the cells sorted without a view on the keys' order of arrival.
SortByCellUnstable ==
  LET key == [i \in Threads |-> part_ids[i].cell]
      by  == MergeSort(key, key)
  IN /\ cells' = MergeSortUnstable(key, cells)
     /\ part_ids' = [i \in Threads |-> [part_ids[i] EXCEPT !.cell = by[i]]]

\* The sort by cell of the deterministic build, keys and values in place.
SortByCell ==
  LET key == [i \in Threads |-> part_ids[i].cell]
      by  == MergeSort(key, key)
  IN /\ cells' = MergeSort(key, cells)
     /\ part_ids' = [i \in Threads |-> [part_ids[i] EXCEPT !.cell = by[i]]]

LaunchReorder ==
  /\ kernel = "fill_cells" /\ Returned
  /\ IF deterministic THEN SortByCell ELSE UNCHANGED <<cells, part_ids>>
  /\ kernel' = "reorder_parts" /\ done' = {}
  /\ sorted_to_not_sorted' = Resize(sorted_to_not_sorted, Threads)
  /\ non_sorted_to_sorted' = Resize(non_sorted_to_sorted, Threads)
  /\ sorted_domain_particles_ids' = Resize(sorted_domain_particles_ids, Threads)
  /\ sorted_domain_particles_dg' = Resize(sorted_domain_particles_dg, Threads)
  /\ UNCHANGED <<call, rank, cl_n, starts, pl_out>>

\* Fault: the particle of the thread is moved, not the one cells names.
ReorderPartsOwn(k) ==
  /\ kernel = "reorder_parts" /\ k \notin done
  /\ pl_out' = [pl_out EXCEPT ![k] = pl[k]]
  /\ sorted_to_not_sorted' = [sorted_to_not_sorted EXCEPT ![k] = cells[k]]
  /\ non_sorted_to_sorted' = [non_sorted_to_sorted EXCEPT ![cells[k]] = k]
  /\ done' = done \cup {k}
  /\ UNCHANGED <<call, kernel, index, starts, cells, domain>>

\* reorder_parts: the thread of sorted place k moves particle cells[k] there.
ReorderParts(k) ==
  /\ kernel = "reorder_parts" /\ k \notin done
  /\ pl_out' = [pl_out EXCEPT ![k] = pl[cells[k]]]
  /\ sorted_to_not_sorted' = [sorted_to_not_sorted EXCEPT ![k] = cells[k]]
  /\ non_sorted_to_sorted' = [non_sorted_to_sorted EXCEPT ![cells[k]] = k]
  /\ done' = done \cup {k}
  /\ UNCHANGED <<call, kernel, index, starts, cells, domain>>

\* construct after reorder_parts: done, unless the domain list is wanted too.
Reordered ==
  /\ kernel = "reorder_parts" /\ Returned
  /\ kernel' = IF opt = "Full" THEN "mark_domain_particles" ELSE "idle"
  /\ done' = {}
  /\ UNCHANGED <<call, index, starts, cells, sorted, domain>>

\* Fault: the marker taken for the last domain particle.
IsGhostAfter(p) == IF p <= g_m THEN 0 ELSE 1

IsGhost(p) == IF p < g_m THEN 0 ELSE 1

\* mark_domain_particles
Mark(k) ==
  /\ kernel = "mark_domain_particles" /\ k \notin done
  /\ sorted_domain_particles_dg' =
       [sorted_domain_particles_dg EXCEPT ![k] = IsGhost(sorted_to_not_sorted[k])]
  /\ sorted_domain_particles_ids' = [sorted_domain_particles_ids EXCEPT ![k] = k]
  /\ done' = done \cup {k}
  /\ UNCHANGED <<call, kernel, index, starts, cells, sorted>>

SortDomain ==
  /\ kernel = "mark_domain_particles" /\ Returned
  /\ LET dg == sorted_domain_particles_dg
     IN /\ sorted_domain_particles_ids' =
             MergeSort(dg, sorted_domain_particles_ids)
        /\ sorted_domain_particles_dg' = MergeSort(dg, dg)
  /\ kernel' = "idle" /\ done' = {}
  /\ UNCHANGED <<call, index, starts, cells, sorted>>

\* clear(): not every array of construct is among those it empties.
Clear ==
  /\ kernel \in {"none", "idle"}
  /\ kernel' = "none"
  /\ cl_n' = Empty /\ cells' = Empty /\ starts' = Empty /\ part_ids' = Empty
  /\ sorted_to_not_sorted' = Empty
  /\ UNCHANGED <<call, done, rank, non_sorted_to_sorted, pl_out, domain>>
-----------------------------------------------------------------------------
Positions == UNION {[0 .. n - 1 -> Cells] : n \in 0 .. MaxPart}

Launch ==
  \/ \E pos \in Positions, o \in {"Full", "Only"} :
       \E g \in Markers \cap 0 .. Cardinality(DOMAIN pos) : Construct(pos, g, o)
  \/ Clear

\* A step of a thread of the kernel that is running.
Thread(i) ==
  \/ Count(i)
  \/ StoreIds(i)
  \/ FillCells(i)
  \/ ReorderParts(i)
  \/ Mark(i)

\* A step of construct on the host, between two kernels.
Host ==
  \/ LaunchScan
  \/ \E c \in Bins : Scan(c)
  \/ LaunchFill
  \/ LaunchReorder
  \/ Reordered
  \/ SortDomain

Next ==
  /\ UNCHANGED deterministic
  /\ Launch \/ Host \/ \E i \in Threads : Thread(i)

Spec == Init /\ [][Next]_vars
-----------------------------------------------------------------------------
Value == Int \cup {Garbage}
Arrays == UNION {[I -> Value] : I \in {0 .. n - 1 : n \in 0 .. MaxPart}}

\* Every array holds indices or garbage; the arrays of one size have that size.
TypeOK ==
  /\ pl \in Positions /\ g_m \in 0 .. MaxPart /\ opt \in {"Full", "Only"}
  /\ kernel \in {"none", "idle", "subindex", "scan", "fill_cells",
                 "reorder_parts", "mark_domain_particles"}
  /\ done \subseteq Threads \cup Bins
  /\ \A a \in {cells, sorted_to_not_sorted, non_sorted_to_sorted, pl_out} :
       DOMAIN a \subseteq 0 .. MaxPart - 1 /\ \A i \in DOMAIN a : a[i] \in Value
  /\ DOMAIN sorted_domain_particles_ids = DOMAIN sorted_domain_particles_dg
  /\ kernel # "none" => DOMAIN cl_n = Bins /\ DOMAIN part_ids = Threads

\* Whatever the order of the threads, no two of one kernel write the same
\* entry of an array, and each writes inside it (fill_cells writes cells at the
\* place subindex and the scan gave it, reorder_parts writes
\* non_sorted_to_sorted at the particle it found in cells).
Apart(F(_)) ==
  /\ \A i \in Threads : F(i) \in Threads
  /\ \A i, j \in Threads : i # j => F(i) # F(j)

NoWriteConflict ==
  /\ kernel = "fill_cells" => Apart(FillPlace)
  /\ kernel = "reorder_parts" => Apart(LAMBDA k : cells[k])

\* After a construct the sorted order lists the particles cell after cell: the
\* entries from starts[c] to starts[c + 1] are the particles of cell c, which
\* is what get, getNelements and the device iterators read.
Grouped ==
  kernel = "idle" => \A c \in Cells :
    LET Here == {i \in Threads : pl[i] = c}
    IN /\ {sorted_to_not_sorted[k] : k \in starts[c] .. starts[c + 1] - 1} = Here
       /\ starts[c + 1] - starts[c] = Cardinality(Here)
       /\ cl_n[c] = Cardinality(Here)

\* After a construct with particles the two index maps are inverse of each other
\* and the particles themselves were moved along them.
MapsInverse ==
  kernel = "idle" => \A i \in Threads :
    /\ non_sorted_to_sorted[sorted_to_not_sorted[i]] = i
    /\ sorted_to_not_sorted[non_sorted_to_sorted[i]] = i
    /\ pl_out[i] = pl[sorted_to_not_sorted[i]]

\* What CellList_gpu_test.cu:1117 checks at one marker: the domain list starts
\* with the sorted places of the domain particles, in sorted order, and goes on
\* with those of the ghost particles.  The arrays it is made of, which are kept
\* from one construct to the next, have the sizes of this one (TypeOK).
DomainFirst ==
  /\ TypeOK
  /\ kernel = "idle" /\ opt = "Full" => \A k, l \in Threads : k < l =>
       LET p == sorted_domain_particles_ids[k]
           q == sorted_domain_particles_ids[l]
       IN /\ sorted_to_not_sorted[p] < g_m \/ sorted_to_not_sorted[q] >= g_m
          /\ (sorted_to_not_sorted[p] < g_m <=> sorted_to_not_sorted[q] < g_m) => p < q

\* Two particles of a cell are in the order of their indices.
SameOrderAsCPU ==
  kernel = "idle" => \A k, l \in Threads :
    k < l /\ pl_out[k] = pl_out[l] => sorted_to_not_sorted[k] < sorted_to_not_sorted[l]

\* The deterministic build keeps the particles of a cell in the order of their
\* indices, the order of the CPU cell list (CellList_gpu_test.cu:1221 compares
\* the two without sorting them).
DeterministicOrder == deterministic => SameOrderAsCPU

\* CellList_gpu.hpp:60 calls sorted_domain_particles_ids "the index of all the
\* domain particles in the sorted vector", line 53 calls sorted_to_not_sorted
\* the unordered index "for each sorted index".  Read after a construct, they
\* should not speak of particles that are not there.
NoGoneParticles ==
  kernel = "idle" =>
    /\ DOMAIN sorted_to_not_sorted = Threads
    /\ opt = "Full" => DOMAIN sorted_domain_particles_ids = Threads
=============================================================================
