# openfpm_data in TLA+

`openfpm_data` is the data-structure layer of OpenFPM: grids, vectors, graphs,
cell lists and Verlet lists, on the CPU and on a GPU. It is a library of class
templates; what is hard about it is not a protocol but state that several
structures keep about each other: a stride and the array it addresses, a stencil
and the grid whose rows it counts, a reference count and the grids that hold the
memory, an index and the particle it stands for, and, on the device and over two
processors, decisions taken by threads and processes that do not talk to each
other. The modules here model these, TLC checks them on small instances, and
TLAPS proves most of the properties for every instance.

Paths are relative to `src/src/`.

## 1. The system

| Component | State | Operations | Uses |
|---|---|---|---|
| `Mem_fast` (`NN/Mem_type/MemFast.hpp`) | one flat array, a count per cell, one slot number for all cells | init_to_zero, addCell (grows), remove, clear, =, swap, set_slot | the default memory of cell and Verlet lists |
| `Mem_bal` (`MemBalanced.hpp`) | a growing vector per cell | the same | memory of cell lists |
| `Mem_mw` (`MemMemoryWise.hpp`) | a map from cells to vectors | the same | memory of cell lists |
| `CellDecomposer_sm` (`NN/CellList/CellDecomposer.hpp`) | box, cell sizes, padding, `gr_cell`, `gr_cell2`, `cell_shift` | Initialize, setDimensions, getCell, getCellDom, getCellPad, convertDomainSpaceIntoCellUnits | base class of cell lists |
| `CellList` (`CellList.hpp`) | a decomposer, a memory, stencils `NNc_full`, `NNc_sym`, `rcache`, `nnc_rad`, the number `n_dec` | Initialize (two), add, addDom, addPad, remove, clear, =, swap, setRadius, the walks | filled by `populate_cell_list` (`CellList_util.hpp`), read by Verlet lists and user loops |
| symmetric walks (`CellNNIterator.hpp`) | place in the stencil, cell, element | constructor, ++, isNext, get | two processors walk over lists made from one decomposer |
| `CellList_gpu` (`NN/CellList/cuda/`) | device arrays `cl_n`, `part_ids`, `starts`, `cells` and index maps | construct (kernels, scan, sorts), clear, toKernel | called by `populate_cell_list` on the device |
| `grid_base_impl`, `memory_c` (`Grid/`, `memory_ly/`) | sizes, a counted reference to a memory | construct, setMemory (own, external), resize, =, move, swap, set | under every grid and vector |
| `Graph_CSR` (`Graph/map_graph.hpp`) | vertices, edge counts, a flat adjacency array with slots, edge properties | addVertex, addEdge, clear, =, move, swap, edge iterator | graphs of sub-domains |
| `openfpm::vector` (`Vector/map_vector.hpp`) | a grid of one dimension and a size that is at most the grid's | add, resize, reserve, insert, remove (one, several), set, =, move, swap | everywhere |
| `grid_sm` and iterators (`Grid/grid_sm.hpp`, `Grid/iterators/`) | sizes, strides, a position | linearise, iterate over boxes and stencils | grids |
| Verlet lists (`NN/VerletList/VerletListFast.hpp`) | a memory with a list per particle, the cell list they were found with, the sequence `dp` of domain particles | Initialize (own cells, a caller's), InitializeSym, InitializeCrs, createVerletCrs, update, clear, =, swap | on cell lists |
| lists of several sets (`CellListM.hpp`, `VerletListM.hpp`) | words that hold a set and a number | add, =, walks, Initialize | particles of several phases |
| loops over particles (`ParticleIt_Cells.hpp`, `ParticleItCRS_Cells.hpp`, `CellListIterator.hpp`) | a cell, a place in it | constructor, ++, isNext | Verlet lists, user loops |
| `scan` (`util/cuda/scan_cuda.cuh`) | arrays of sums, shared memory of a block | four kernels | `CellList_gpu::construct` |
| Packer, Unpacker (`Packer_Unpacker/`) | a buffer, marks | request, pack, unpack | vectors and grids |
| shapes, utilities, vendored code | none or local | | |

The components call each other synchronously; there are no callbacks. Only two
parts have concurrency: the threads of device kernels (cell lists and the scan),
and the processors of a symmetric cell list, which share no state. Nothing is
persisted, sent or retried.

What makes each correct, and what is hard about it:

- **Cell memories** are vectors of vectors whatever their layout. Hard: growth
  that moves all cells, arrays that keep data of an earlier use, exchanges between
  objects with different slot numbers.
- **Cell list**: from the cell of a particle the walk visits everything near it,
  once; every pair once with the symmetric walk. Hard: parts kept separately and
  copied one by one, particles on borders, two numberings of the same cells.
- **Symmetric walks**: over two processors each pair is met once although neither
  knows what the other does. Hard: the rules of order, in which particle numbers
  differ between the processors.
- **`CellList_gpu`**: whatever the order of the threads, no write conflict, and
  the particles grouped by cell with two inverse maps.
- **Grid memory**: exact counts, no leak, no use after delete, values kept over
  resizes. Hard: temporaries that are exchanged with and destroyed in nearly
  every operation.
- **Graph**: the adjacency array is the directed graph that was built.
- **Vector**: the sequence of its elements, and never a size larger than its grid.
  Hard: objects moved from, which keep a size that is not theirs; the loop that
  removes several elements in place.
- **Verlet lists**: the particles within the radius, each once. Hard: lists that
  are updated on the cells of an earlier call, after copies and exchanges of the
  list and its cells; pairs that two lists decide about separately.
- **Lists of several sets**: a word never mixes set and number; a pair of two sets
  is in one of two lists.
- **Scan**: prefix sums whatever the order of warps and threads. Hard: sums made in
  place between barriers, a last chunk in which only some threads reach a barrier,
  words of several counts of which the last is incomplete.

## 2. The modules

`CellStore`, `GraphStore`, `GridStore` and `VectorStore` are the abstract
specifications. The
modules named `MC...` instantiate the others for TLC, those named `...Proofs` hold
the theorems (section 4). A definition under "Fault:" is a slip the one after it could have;
no specification uses it, and put in its place it breaks a property.

| Module | Models | Correspondence |
|---|---|---|
| `CellStore` | what a cell memory promises | a function from cells to sequences of elements per object; an object that does not promise anything any more is not `known` |
| `MemFast` | `Mem_fast` | a record per object with the class's fields; `Realloc`, `AddCell`, ... as in the code; `loose` are the objects whose slot number was changed under their data |
| `CellMemories` | the three memories together | instances of the three modules, which the run and the theorems share |
| `MemBalanced`, `MemMemoryWise` | `Mem_bal`, `Mem_mw` | `cl_base` as a sequence of sequences, and as a function on the cells that have a vector |
| `CellDecomposer` | `CellDecomposer_sm`, the stencils, walks as sequences | pure operators; a decomposer is a record of its fields; two dimensions, whole coordinates |
| `CellList` | `CellList` | a record per list; one action per operation; the memory is what `CellStore` promises; `own` and `made` are history |
| `CellListSym` | `populate_cell_list_sym`, `CellNNIteratorSym` on two processors | the iterator's state is `it`; one step per element that is met |
| `CellListGPU` | `CellList_gpu::construct`, `clear`, the kernels | one step per thread and memory access that others can see; a launch is a step of the host; `deterministic` says which build it is and never changes |
| `GridBase`, `GridStore` | `grid_base_impl`, `memory_c`; what a grid promises | memories with a reference count and elements, grids with their fields; the caller's references are `held` |
| `Vector`, `VectorStore` | the native `openfpm::vector` on the host; a sequence per object | a record of `v_size`, the grid's places and what they hold; growth policies are a constant operator, given in `MCVector`; `moved` are the objects a move assignment took from |
| `VectorRemove` | the loop of `remove(keys, start)` | one step per turn of the loop; `orig` is the vector at the call; `Vector` takes the call as one step with this result (`Without`), which is theorem `LoopIsRemove` |
| `DeviceScan` | `scan::scan_` and its kernels | a unit is a warp (registers are exchanged in step) or, in `bexscan`, a thread; a step is what a unit does between two barriers |
| `VerletList` | `VerletList`, `initCl`, `create_`, `NNType`, `PartItNN`, the parameters of `CellList.hpp` | a record of the lists, `dp` and the inner cell list; `made` is history |
| `CellWalks` | `CellListM`, the walks over several sets, `VerletListM`, the three loops over particles | a word is a number of two parts, the code's masks and shifts are remainders, products and quotients by the sizes of these parts; a loop keeps the list it started on, what it has seen and the pairs it met |
| `GraphCSR`, `GraphStore` | `Graph_CSR`, its edge iterator; what a graph promises | a record per graph with the class's vectors as functions on 0 .. size-1 |

What the code builds in a loop over an array (`Chosen`: what is in a cell, in the order
of addition) or over registers (`Total`, `WarpReduce`, `WarpScan`) is a recursive function
and not a fold of a library, so that the theorems can speak of it.

Composition: `CellList`, `CellListSym`, `VerletList` and `CellWalks` extend
`CellDecomposer` and share its stencils and walks; `VerletList` contains a cell
list. `CellListGPU` uses the scan by its result, which is what `DeviceScan` checks
(`Exclusive`). `CellList` uses a memory by the promise of `CellStore`, which `MemFast`, `MemBalanced` and
`MemMemoryWise` are shown to implement (`ImplementsStore`).

What the modelling leaves out on purpose:

- Floating-point rounding. Coordinates are whole and the cells a whole number of
  them; the borders, where the code itself chooses a side, are exact. The points
  that rounding brings onto a border are `Ghosts` of `CellList`.
- Dimensions above two, periodic conversion.
- What an element or property is: a model value.
- A cell outside a list reads as empty (`Walk`), the mildest outcome of the
  read out of bounds the code would make. `ParticleIt_Cells` reads past its last
  cell; the end is the mildest outcome there, too.
- References into a vector. An element is passed by value; a caller's reference to
  an element that a growth moves is not in the model (section 5).

Guards that stand for the caller (all of them are in "map" as external):
a particle is added once and within the reach of the list (`NewParticle`,
`InReach`); the particles of a list are in its part of space; an external memory
is given to one grid at a time. With `Careless = FALSE` the callers of a graph make none
of the calls that `Graph_CSR` gets wrong without a check (section 4, `Careful`). That is
not the caller's duty in any document: what happens without it is in section 5. A cell
list may be given other cells whatever stencils of radii it keeps; the record says which
grid each was made for (`cached`, `summed`), and `RadiusNeighbours` claims a stencil for the
cells of that grid. What the theorems ask of constants is stated as a formula (`WellPosed`,
`Careful`), and the MC modules of the cell lists assume it of the
values of their runs, so that TLC evaluates it. (`getCellPad` moves a ghost that lies
beyond a border in one dimension only; `CornersStay` is what it takes for `addPad` of
coordinates to leave a ghost in its cell, and the run's coordinates keep to it.)

## 3. What the runs check

Passing runs. Deadlock is checked except where a sequential program ends.

**`cell_memories`** (`MCCellMemories`). Two objects of each memory; none or two cells
(Mem_bal also one, for it keeps vectors when cells go); Mem_fast with one object
and two elements, or two objects and one element, up to 4 slots.
`AlwaysRoom`: each cell has a free place inside the array and inside the cell's
own part of it, which `getStopId` and `addCell` rely on. `AlwaysWritten`: no place
in use was never written. `ImplementsStore`, `BalImplementsStore`,
`MwImplementsStore`: refinement of `CellStore`, and for Mem_mw that no vector
survives of a cell that is gone. The bounds let an object grow from 1 to 2 to 4
slots with elements in two cells, shrink to no cell and come back, and be
exchanged with one of another slot number; growth depends on nothing but slot
number and one count, so further doublings repeat these.

**`gpu`** (`MCCellListGPU`). Constructs of 0 to 3 particles in 2 cells one after
the other, in both builds, under every interleaving. `NoWriteConflict`: no two
threads of a kernel write one entry. `Grouped`: `starts` delimits the particles of
each cell. `MapsInverse`: the two index maps. `DomainFirst`: the domain list.
`DeterministicOrder`: with `MAKE_CELLLIST_DETERMINISTIC` the order inside a cell is
the CPU's. Three particles give two in one cell and one in another, in each
order. A construct follows one of the same particles, or of few enough that both
have at most 4 (`MaxTogether`): arrays shrink and grow between constructs, and what
3 particles left is found again by 3 after a construct of none.

**`scan`** (`MCDeviceScan`). The four kernels with warps of 4 threads and blocks of
2 warps, for the three ratios of count to word, from fewer counts than a thread
takes to 10 blocks, which is more than `bexscan` has threads (8). `Exclusive`: the
result is the exclusive prefix sum, whatever lies behind the counts. `NoRace`: between
two barriers of `bexscan` no thread touches an entry another one writes.
`Finishes`: no block waits for ever. That the first two hold for warps of 32, any block
and any counts is proved (section 4). All the code does is linear in the counts,
so a vector with a 1 at one place, tried at each place of the small sizes, and one
with many counts show what any vector shows. Blocks of `breduce` and `gexscan`
share nothing and are run one after the other.

**`graph`** (`MCGraphCSR`). Two graphs made with none or 2 vertices and 1 or 2 slots,
with up to 2 vertices of up to 2 edges, 3 edges in all. `WellFormed` (sizes, a place for
every edge, the numbers of the edges), `WalkVisitsEdges`, `ImplementsGraph`. A graph made
with vertices has no room for edges until its first one, one made without gets it with each
vertex; a vertex can fill its slots; copies and exchanges mix the slots, moves do so
while there are no edges. A first vertex without edges, and all of them without, are
among the states, so the key the walk starts at is in the property. An edge beyond the
slots is run `graph_full_doc`.

**`grid`** (`MCGridBase`). Two grids of 1 x 2 and 2 x 2 elements, three memories of
their own and one of the caller. `RefCounts`, `NoLeak`, `Backed`, `NotShared` and
`ImplementsStore`: a resize keeps what both sizes have, at its new place, a copy
equals its source, nothing else changes. A third memory is the temporary that an
operation on two full grids needs; the second size differs in the stride, so
elements move.

**`vector`** (`MCVector`). Three vectors, two that double and one that grows by
pages, of up to 3 elements and 4 places; one has no places and one at most one
(`SmallCapacity`) while the third is large, so every copy, move and exchange meets
both a smaller and a larger receiver. `Fits`: a vector in use has a place for each
element. `ImplementsStore`: every operation is its namesake on sequences. Sizes of
3 reach two growths by doubling and the first, middle and last place of an
insertion or a removal.

**`vector_remove`** (`MCVectorRemove`). Vectors of up to 6 different elements, every
sorted list of keys, with and without a key before `start`. `Compacted`: what is left
is there in its order. `ReadsAhead`: nothing is read after it was written over, or
beyond the vector. Six elements have runs of keys of each length at both ends
and in between.

**`cell_list`** (`MCCellList`). Two lists, each initialised any number of times from
two boxes or two parts of a decomposer, with up to 3 elements (bound over both lists) at 6
points on different sides of borders; a radius of one cell, for which one list is asked and
keeps up to 2 stencils. `OwnInDomainCells`,
`NoNeighbourMissed`, `PairOnce`, `RadiusNeighbours` and `TypeOK` (the memory has a
cell for each cell of the decomposer). All properties are about pairs, so three
elements suffice; the two boxes differ in origin and row length, so a stencil or
decomposer of the wrong one misses. The rows are 4 and 5 cells long, and a part has rows of 4
in a grid with rows of 5: so a stencil of one box is used on the cells of the same box made
again, on those of a part, and is unfit for the other box, in any order of initialisations,
copies, exchanges and calls for radii. Stencils do not go from list to list (`From`), hence
one list that is asked.

**`verlet`** (`MCVerletList`). Two lists over the whole of an 8 x 8 domain or its
left half, radii 2 and 4, three scenes of four particles (two at one place, ghosts
on one side and on both, on both sides of a corner of cells), a caller's cell list
with cells as large as the radius or half as large. `NeighboursExact`: a full list
names exactly the particles within the radius. `PairsOnce`: a pair of the domain is in
one of two symmetric or CRS lists, one with a ghost in at most one. `DomainSequence`:
the CRS sequence is the domain, each particle once. The operations combine the
state of two lists only in copies, moves and exchanges; so a first list is built
while the other is new, and a list is rebuilt or cleared while the other is new
or equal to it (`First`, `Alone`).

**`walks`** (`MCCellWalks`). Two lists of two sets of particles in 2 x 2 cells and
their padding; words of 3 bits, 1 of them for the set (`LowWords` = 4, `HighWords` = 2),
so that the largest number has all its bits set; three populations. `WalksTypeOK`: each
word gives back its set and number, and each particle of the sets of a list is once in
its cell and in no other. `NeighboursOfAllSets`: a list names the near particles of
all sets in the cells. `PairsOnceOverSets`: a pair, of one set or two, is in one of
the two symmetric lists, and the CRS loop meets it once. `ParticlesOnce`: each of
the three loops meets each particle of the domain once and, but for the CRS loop,
no ghost. The populations have several elements in a cell, two at one place, ghosts in
domain cells and in the padding.

**`sym`** (`MCCellListSym`). Two processors, three particles at every choice of 12
points around a corner of four cells, the domain cut inside a cell or on a
border between two. `EachPairOnce`: no pair twice, and in the end each near pair
once, over both processors. `WalkInCells`: the padding is as deep as the stencil.
`Terminates`: both processors come to the end. Three particles give two ghosts
of one processor whose numbers are in either order.

Fairness is assumed where a property says that something ends: `CellListSym` has
`WF_vars(Next)`, because the loops are sequential code that is not left half way, and
`MCDeviceScan` has `WF_scan_vars(MCNext)`, because the device runs a kernel until it
has ended: some unit that can go on does. No unit is owed a turn of its own;
each makes finitely many steps in a kernel. The operations of the other modules are
calls of a caller who need not make any.

Type invariants are conjuncts of a checked property (`WellFormed`, `DomainFirst`,
`WalkInCells`, `Exclusive`, `NeighboursExact`, `MwImplementsStore`), properties of their own
(`cell_list`, `walks`) or theorems (section 4).

## 4. What is proved

| Theorem | States |
|---|---|
| `CellMemoriesProofs`: `TypeCorrect`, `RoomInvariant`, `WrittenInvariant` | `TypeOK`, `AlwaysRoom`, `AlwaysWritten` of Mem_fast for all objects, elements, sizes and slots |
| `CellMemoriesProofs`: `Refinement`, `BalRefinement`, `MwRefinement` | Mem_fast, Mem_bal and Mem_mw implement `CellStore` |
| `CellListProofs`: `ListsTyped`, `ListsOwn`, `ListsNeighbours`, `ListsPairs` | `TypeOK`, `OwnInDomainCells`, `NoNeighbourMissed`, `PairOnce` for any number of lists, any boxes, parts, paddings and points |
| `CellListProofs`: `ListsRadius` | `RadiusNeighbours` for any number of lists, any boxes, parts, points and radii, and any other calls in between |
| `NeighbourProofs`: `VerletExact`, `VerletPairs`, `VerletTypes` | `NeighboursExact`, `PairsOnce` and the types of `VerletList` for any number of lists, any boxes, particles, radii and caller's cell lists |
| `NeighbourProofs`: `VerletSequence` | `DomainSequence` likewise, where the parts of space end with cells (`PartsOnCells`) |
| `NeighbourProofs`: `WalksTypes`, `WalksNeighbours` | `WalksTypeOK`, `NeighboursOfAllSets` for any number of lists, sets and particles, any boxes and radii, and words of any two widths that hold them |
| `NeighbourProofs`: `WalksPairsOnce` | `PairsOnceOverSets` likewise, where no particles of two sets are at one place and no cell a CRS loop walks from holds two elements (`SetsApart`, `~Crowded`) |
| `NeighbourProofs`: `WalksMeetOnce` | `ParticlesOnce` likewise, for any order of the cells, where the loop over cells does not start at a ghost (`~AnyFirst`) |
| `NeighbourProofs`: `PairsMetOnce`, `WalksStayInCells` | `EachPairOnce`, `WalkInCells` for any domain, cut, padding, ghost width and number of particles |
| `DeviceProofs`: `WriteConflictFree`, `CellsGrouped`, `IndexMapsInverse`, `DomainParticlesFirst`, `OrderDeterministic` | `NoWriteConflict`, `Grouped`, `MapsInverse`, `DomainFirst`, `DeterministicOrder`, in both builds, for any number of cells and particles and any interleaving |
| `DeviceProofs`: `ScanExclusive`, `ScanNoRace`, `ScanTypes` | `Exclusive`, `NoRace` and the sizes of the arrays of `DeviceScan` for any warps, blocks and counts, the three types of counts and any interleaving |
| `GraphCSRProofs`: `GraphWellFormed`, `GraphWalk` | `WellFormed`, `WalkVisitsEdges` for any number of graphs, made with any vertices and slots, and of edges (`Careful`) |
| `GraphCSRProofs`: `GraphImplements` | Graph_CSR implements `GraphStore`, likewise |
| `GridBaseProofs`: `TypeCorrect`, `CountsExact`, `NothingLeaks`, `AlwaysBacked`, `NeverShared` | `TypeOK`, `RefCounts`, `NoLeak`, `Backed`, `NotShared` for any number of grids and memories and all sizes |
| `GridBaseProofs`: `GridImplements` | grids implement `GridStore`, if none is resized in an external memory |
| `VectorProofs`: `SpecTypeOK`, `SpecFits` | `TypeOK`, `Fits` for any objects, values, bounds and growth policies that give at least what is asked for |
| `VectorProofs`: `VectorImplements` | openfpm::vector implements `VectorStore` |
| `VectorProofs`: `RemoveTyped`, `SpecCompacted`, `SpecReadsAhead`, `LoopIsRemove` | the types, `Compacted`, `ReadsAhead` for vectors of any length, any sorted keys and any start; what the loop leaves is what the action `Remove` of `Vector` says |

`CellDecomposerProofs` has no theorem of a specification but the facts about boxes,
cells, stencils and walks that `CellListProofs` and `NeighbourProofs` rest on.
`NeighbourProofs` extends `CellListSym`, `VerletList` and `CellWalks`: three specifications
whose theorems need the same facts about half stencils. `DeviceProofs` extends `CellListGPU` and
the scan it calls, `DeviceScan`.

### Assumptions

The `ASSUME`s of the modules: slot numbers are positive (0 could not be doubled),
sizes are natural numbers, unwritten values are not values, a growth policy answers
with at least the request, there are finitely many grids (a count is a number), a
padding has at least one cell. `StridesAssumption` says what the counters of the loops over
the lanes are (1, 2, 4, ... up to half a block, with twice one of them the lanes of a warp),
`UnitsAssumption` that a block has no more warps than a warp has lanes: the first warp
takes them all in one exchange. Both hold of the 32 lanes and 128 threads of
`scan_`.
Beyond them, each named in its theorem:

- `WellPosed` of `CellList`. The cells divide the box and a part lies within it
  (`EvenCells`), since rounding is not in the model. No point is a whole number of cells
  before the box (`PointsOffCells`; `size_t_floor` is wrong there, `MCCellListFloor.cfg`).
  With more than one cell of padding none is on the positive border
  (`BorderSettled`): `addDom` stores it one cell below the one `add` does. And the
  coordinates that `addPad` gets are such that it leaves a ghost in its cell (`CornersStay`).
- `WellPosed` of `CellListSym`: cells that divide the domain, points inside it and not
  on its positive border (`MCCellListSymBorder.cfg` has the counterexample), and ghosts
  no farther away than a cell.
- `VerletWellPosed`: the cells of every radius divide the domain evenly, those of a
  caller's list its box, with padding as deep as the radius; a part lies in the domain;
  ghosts reach at least one unit. `~OfAnother`: a list is updated on the cells it was made
  with (`MCVerletListMove.cfg`). What particles a caller passes, and that a radius is not
  greater than the cells of a list that is updated, are guards of the actions (`Belongs`,
  `Reaches`, `MayUpdate`).
- `PartsOnCells`, for the CRS sequence only: a part of space ends where a cell does. In
  a cell that two processors share, the sequence names the ghosts as well
  (`MCVerletListCut.cfg`).
- `WalksWellPosed` of `CellWalks`: the cells divide the box and are as large as the radius,
  the number of each particle and of each set fits its part of a word, particles are less
  than a cell outside the box (`SetsFit`), and the curve is once in each cell of the domain
  (`CurveFits`). `SetsApart`, for pairs only: particles of two sets at one place are in both
  symmetric lists. `~Crowded`, for pairs only, and `~AnyFirst`, for `ParticlesOnce` only: see
  the two rows on `CellWalks` in section 5.
- `Careful` (`Careless = FALSE`): a vertex gets no more edges than slots; a vertex is added
  to a graph made with vertices only after its first edge, which makes room for all; and
  graphs with other slots are moved into each other only while neither has entries. Each
  of the three is needed (`graph_full_doc`, and the two rows on `RoomForEdges` in the
  table of section 5). `CartesianGraphFactory`, which makes a graph with its vertices and
  then adds the edges, keeps to them as long as 16 slots are enough.
- `CountsFit` of `DeviceScan`: the counts are natural numbers that `ids_type` holds, and the
  signed type of `extend` too where two share a word (section 5 has what a greater count
  becomes). It is asked of the initial state; no step changes the counts.
- `~ResizeExternal`: no grid with elements in a caller's memory is resized
  (`MCGridBaseExternal.cfg`).

None of these was added to get a proof through: where one fails, a run or a
configuration of section 5 shows the property violated, except that `BorderSettled`
and `CornersStay` were first met as counterexamples of TLC to a lemma, and that without
ghosts a symmetric Verlet list has no padding and its walks leave the cells. `WellPosed`,
`VerletWellPosed`, `WalksWellPosed`, `SetsApart` and `Careful` hold of the constants of the
passing runs, `CountsFit` of
the initial states of `MCDeviceScan`.

### Arguments

*Mem_fast.* The invariant is the conjunction of the three properties and is
inductive: an addition preserves `WrittenOK` only where there is room, and there
is room only while the arrays fit. The lemma `PlacesDisjoint`, that
`slot * c + i` with `i < slot` determines `c` and `i`, carries growth and
addition; for the refinement each action is shown to map to its namesake.
*Mem_bal* and *Mem_mw* need only their types and, for Mem_mw, that the map has
vectors of existing cells: a vector of an earlier use would otherwise be found again
when the cells come back.

*CellList.* The invariant ties three fields that the code keeps separately: the
decomposer is one the list may be made with, every element stands once in the memory
and in a cell it may be put in by `add`, `addDom` or `addPad` (`Placed`), and the stencils
are those of the grid that numbers these cells (`Kept`). Copies, moves and exchanges
preserve it because they take all three. The rest is geometry, in two steps: two
points no more than a cell apart are in cells whose keys differ by at most one, and
the numbers of such cells differ by an entry of the stencil, which has each entry
once (rows have at least three cells). A walk visits an element as often as its
cell's number is reached (`CellDecomposerProofs`).

*CellListSym.* All a walk does is a function of what does not change, the scene: cut,
positions, vectors, markers. A walk from its own particle `i` stops at places (entry of
the stencil, element of the cell there). `RowHolds` says what stands in the cell at
an entry in terms of positions only, because both processors' cells are those of one
decomposer. So the pair met at a place determines place, walk and processor
(`OnePlace`: in different cells the half stencil decides, in one cell the positions, and
particles at one place are on one processor, where the numbers decide); and two
particles that interact meet at some place (`AllMet`: one of them owns or has a ghost of
the other, and both are in padded cells). `SelectIs` says that `selectValid` moves to the
next good place and passes over none. The invariant is then that `met` counts exactly
the places the walks have passed; it is inductive, where `EachPairOnce`
is not: it says nothing about the pairs a walk has still to meet.

*VerletList.* The properties speak of lists of numbers, which remember nothing of how
they came about; the history field `made` does. The invariant `ListsInv` says of every
list that it is what create makes of `made`: the exact list (`ExactList`), the half
list (`HalfList`: those near that are *ahead*, in a later cell or later in the cell),
or, for CRS, the half list and the sequence of the domain (`SequenceOK`). And it says that
the decomposer of the cell list inside, and the one in `made`, are of the kinds a program
makes (`MadeFor`). Copies and exchanges keep this as it is about one list at a time; an
update needs both halves, because its cells come from one call and its part of space from
another. Every kind of decomposer has cells as deep as the radius around its part
(`Roomy`), so a particle near one of the part is some cells away, no more than the
distance allows (`KeysNear`), and each of the three stencils leads there once
(`StencilsComplete`); `Ahead` holds of exactly one order of two particles (`AheadEither`),
so of two half lists one has the pair. The loop of CRS meets a particle in the cell it is
in and at one place (`MetAt`), hence it has one list.

*CellWalks.* A word is `p + LowWords * v` while the number fits below `LowWords` and the set
below `HighWords`; quotient and remainder then take it apart (`PackedIs`), and an element of
a population is its word. The invariant `WalksInv` says of each list that every element of
its sets is once in its `Seat`, the cell of its position, and in no other (`Filling`); of
each Verlet list that it has the near elements of the list it was made from, all of them
or those *in front* (`KeepsOK`); and of the loop that `seen` has just the elements at the
places it has passed (`SeenOK`) and, in a CRS loop, `met` just the pairs of such an
element with one that the stencil leads to (`MetOK`). The places are those of the cells in
the order of the loop, and with `Filling` an element has one if its seat is a domain cell
(`PlaceOnce`). Of two near elements in different cells the half stencil has one direction;
in one cell the order of the positions decides between elements of two sets, whose
numbers are unrelated (`FrontEither`). It is there that equal positions in two sets fail.

*CellListGPU.* `Grouped` and `MapsInverse` speak of the end of a construct only and
are far from inductive. `IInv` follows the pipeline: while `subindex` runs the
counter of a cell is the number of its particles counted so far and the ranks
are distinct and below it (`Counting`); afterwards the ranks number each cell
(`Ranked`); the scan counts the particles of lower cells (`Scanned`). In the default build
the places of `fill_cells` are therefore distinct and, being as many as the particles,
all of them; in the deterministic one the sort gives the same and keeps the order of
the numbers. From there both are in one state (`Placed`), the two maps become inverse
(`Reordering`), and the marks that `mark_domain_particles` writes divide the sorted places
(`Marking`, `Divided`).

*DeviceScan.* `Exclusive` speaks of the result only. `ScanInv` says for each kernel, phase
and unit what has been established, with every partial sum written as a difference of
two entries of one function, the sums of the counts up to each thread: then a lane that
adds what another holds joins two spans end to end, and the sum telescopes. A loop over
the lanes doubles the spans from turn to turn (`WarpReduce`, `WarpScan`), which is where
`StridesAssumption` is needed. In `breduce` each warp that has arrived holds the sum of its
own span, then the first one that of its block (`BlockReduced`). In `bexscan` what a
thread has in memory, in its register and in `v` depends on its chunk, on the step
in it and on whether it has reached the barrier (`Held`): chunks before hold sums from the
start, those behind the sums of single blocks (`Chunked`). That no other thread writes what
a step reads is part of that reasoning, and `NoRace` says it apart, with the bounds of the
array. In `gexscan` the places in `woff` rotate: a warp leaves its sum to the next and
the last one leaves the sum of the blocks before to the first, so that a scan of them
gives each warp its start (`BlockScanned`); what a warp has written stays (`Written`).
`breduce` leaves an incomplete last word out and `gexscan` does not; the proof has two sums,
`Reduced` and `Preceding`, which agree at the start of each block: only the last block can
have such a word, and no block comes after it. In the same way what lies behind the counts
comes after all of them. Sums are in whole numbers: that a total fits `cnt_type` is the
caller's duty, as in any prefix sum.

*GraphCSR.* The invariant says of each graph that it is as it was made (`Bare`: vertices
and no room), or that its arrays have the sizes that `n` vertices and `m` edges with `v_slot`
slots need (`Sized`), and the numbers in the slots in use are those of the edges, each
once (`Linking`). The first edge takes a graph from the one to the other. A vertex that is
added appends its slots at the end of `e_l`, so that no other slot moves; without the room of
the vertices before, they would be in the wrong place. With it each action is
its namesake of `GraphStore`. What the edge iterator is to meet, `Met`, are the edges and the
key it starts at; that it meets each is shown by the least step at which it would differ
from the keys in order.

*GridBase.* `RefCounts` is inductive only with the fact that a memory of the grids
is alive as long as it is counted (`Alive`): without it a new memory could be one
somebody still counts. Nearly all actions replace one grid's record and move
one reference; the lemma `Rebind` is proved once for that. In the refinement what a
caller reads of other grids stays because no two share a memory (`NotShared`).

*Vector.* `Fits` is inductive together with the types and the bound on sizes
(`Bounded`), which the assumption on growth policies needs. One lemma per kind of
change (`RoomyOK`, `RoomForOK`, `FilledOK`) says that it keeps a record in order, and
`BecomesOK` that replacing one object by such a record keeps the invariant; the
moves, which leave an object without the grid its size was of, are proved apart.

*VectorRemove.* `Compacted` says nothing before the return. The invariant adds
where the two indices are (`Indices`: `d_k` lags behind `s_k` by the keys passed); that
an element not yet read is the one of the call and one already read and kept is at
its new place (`Elements`); that the runs passed were read up to `s_k` (`Passed`) and
their new places end at or before `d_k` (`Behind`), so that no later write reaches
them. That the keys increase makes the lag exact; it is the documented
precondition and used in one place only. `LoopIsRemove` closes the gap between the loop
and the one step `Vector` makes of it.

A sequence or sum that the code builds element by element is reasoned about by the least
number at which a claim about it fails (`LeastNat` of `CellDecomposerProofs` and of `DeviceProofs`), because the induction theorems of the library
cannot be instantiated.

### Only model-checked

- `Terminates` and `Finishes`: liveness under fairness.
- Everything in section 5.

## 5. Where the code does not do what it says

The run `graph_full_doc` shows it: `EdgesOnlyGrow` does not hold. The edge for which a
vertex has no slot makes a new graph with the constructor's arguments exchanged
and none of the edges (`map_graph.hpp:378`).

Further disagreements. Each is a property, stated in the module named, that TLC
finds violated when it is put into the configuration named with the constants
of the last column. The configurations that are not of a run contain it already.

| Property (module) | What happens | Configuration |
|---|---|---|
| `RemoveTakesEle` (`MemFast`) | `Mem_fast::remove(cell, ele)` takes the last element of the cell, not `ele` (`MemFast.hpp:273`) | `MCCellMemoriesRemove.cfg` |
| `ResizeRetains` (`GridBase`) | a grid with elements in an external memory loses them in a resize (`grid_base_impl_layout.hpp:199`) | `MCGridBaseExternal.cfg` |
| `EveryRadiusNeighbours` (`CellList`) | a list initialised again walks with the stencil of a radius of the grid before (`CellList.hpp:980`) | `MCCellListReinit.cfg` |
| `EveryRadiusNeighbours` (`CellList`) | a second setRadius visits everything twice (`CellList.hpp:690`) | `MCCellListReinit.cfg`, `Shapes <- MCOneShape`, `Radii = {4}`, `MaxKept = 2` |
| `EveryRadiusNeighbours` (`CellList`) | a list made from a decomposer counts the rows of the wrong grid (`CellList.hpp:983`) | `MCCellListReinit.cfg`, `Shapes = {}`, `Subs <- MCSubs`, `Radii = {4}` |
| `NoNeighbourMissed` (`CellList`) | `size_t_floor(-1.0)` is -2: an element exactly one cell before the domain is stored out of reach (`mathutil.hpp:182`) | `MCCellListFloor.cfg` |
| `EachPairOnce` (`CellListSym`) | a particle on the positive border is stored by `addDom` in the last domain cell and looked for by `getCell` in the padding (`VerletListFast.hpp:147`) | `MCCellListSymBorder.cfg` |
| `NeighboursExact` (`VerletList`) | the move assignment ("Copy the verlet list", `VerletListFast.hpp:763`) does not take the cell list, which the copy (796) and `swap` (843) do; an update then fills the cells the receiver had | `MCVerletListMove.cfg` |
| `DomainSequence` (`VerletList`) | where a part of space ends inside a cell, a CRS list has a ghost in its "domain particle sequence" (`VerletListFast.hpp:947`), and a list for it (395) | `MCVerletListCut.cfg` |
| `PairsOnceOverSets` (`CellWalks`) | the walk of run-time size over several sets does not select its first element (`CellNNIteratorRuntimeM.hpp:150`): a pair of one cell is met twice | `MCCellWalks.cfg`, `Crowded = TRUE` |
| `ParticlesOnce` (`CellWalks`) | the constructor of `ParticleIt_Cells` does not pass over a ghost that comes first (`ParticleIt_Cells.hpp:91`) | `MCCellWalks.cfg`, `AnyFirst = TRUE` |
| `NoGoneParticles` (`CellListGPU`) | a construct without particles leaves the sorted lists of the one before (`CellList_gpu.hpp:247`) | `MCCellListGPU.cfg` |
| `EveryWalkVisitsEdges` (`GraphCSR`) | the edge iterator starts with an edge of vertex 0 even if it has none (`map_graph.hpp:188`) | `MCGraphCSR.cfg` |
| `InvalidEdgeThere` (`GraphCSR`) | `clear` drops the stub that a refused addEdge returns (`map_graph.hpp:678`) | `MCGraphCSR.cfg` |
| `MoveTakesAll` (`GraphCSR`) | the move assignment exchanges `v_slot` twice (`map_graph.hpp:540-548`) | `MCGraphCSR.cfg`, `Careless = TRUE` |
| `RoomForEdges` (`GraphCSR`) | so the edges of a graph moved into one with other slots are not where they are looked for | `MCGraphCSR.cfg`, `Careless = TRUE`, `Counts = {0}`, `Slots = {2, 3}` |
| `RoomForEdges` (`GraphCSR`) | the room check compares the degree of one vertex with the whole array (`map_graph.hpp:398`); a vertex added to a graph made with vertices makes room for its own edges only | `MCGraphCSR.cfg`, `Careless = TRUE`, `Counts = {1}`, `Slots = {2}` |
| `BoxEncloses` (`GridBase`) | `grid_sm::swap` leaves the box behind (`grid_sm.hpp:699`) | `MCGridBase.cfg` |
| `EqualMeansMatch` (`GridBase`) | `operator==` compares each element with itself (`grid_base_implementation.hpp:590`) | `MCGridBase.cfg`, two values |
| `NdecOfCells` (`CellList`) | `swap` gives `n_dec` and `from_cd` one way only (`CellList.hpp:899`) | `MCCellList.cfg`, `Decs = {1, 2}` |
| `GhostsInPadding` (`CellList`) | `addPad(Point)` calls `getCell` (`CellList.hpp:816`) | `MCCellList.cfg`, a ghost `<<0, 3>>` in `Points` and `Ghosts` |
| `NoNeighbourMissed` (`CellList`) | `getCellPad` moves a ghost beside the domain a row further (`CellDecomposer.hpp:715`) | `MCCellList.cfg`, `Coordinates` with `<<-1, 5>>`, a point `<<3, 3>>` |
| `OwnInDomainCells` (`CellList`) | list and decomposer with different paddings: all cells are off (`CellDecomposer.hpp:1346`) | `MCCellList.cfg`, `Outer` with `pad` 0 |

`SwapRvalue` of `MemFast` is not an exchange either (`MemFast.hpp:311`): the slot
number is copied, not exchanged. The object moved from is `loose` until it is
initialised, assigned or exchanged, which is what `CellList`'s move assignment
does with it: it is destroyed.

Read in the code, and not shown by a model:

- `vector::add()` and `resize` show elements that were removed before, where the comment
  says "insert a new empty object" (`map_vector.hpp:408`); `add` of an element of the
  vector itself reads it after the grid was reallocated (472), and adding a vector to
  itself does not end (523).
- `ratio_extend` of two counts per word holds one of them in a `short int`
  (`scan_cuda.cuh:184`): a count of 32768 or more comes back with its sign (`Extended` of
  `DeviceScan` has it; the run's counts are smaller).
- `CellListM::swap` exchanges an object with itself (`CellListM.hpp:237`).
- Two particles of two sets at one place are in both lists (`CellNNIteratorM.hpp:64`).
- `VerletListM` with `VL_CRS_SYMMETRIC` indexes one set's positions with whole words
  (`VerletListM.hpp:227`), and a radius larger than a cell prints an error and leaves the
  list as it was (292).
- A Verlet list built on a caller's cell list keeps its own, older cells; an update
  uses those (`VerletListFast.hpp:609`, 649). With `VL_SYMMETRIC` a radius larger than the
  caller's cells misses neighbours (663); with `VL_CRS_SYMMETRIC` `Initialize` and `update`
  pass no domain cells and give no lists (513, 614).
- `CellList::getDomainIterator` passes two arguments where the constructor of
  `ParticleIt_Cells` takes three (`CellList.hpp:700`): it does not compile when used.

## 6. What is not modelled, and the plan

Not modelled, and not planned: shapes (no state; what cell lists use of them is in
`CellDecomposer`), compile-time utilities, timers, the merge sort (`CellListGPU`
has it by its contract), vendored code. The last is most of the source tree (cub,
moderngpu and boost's multi_array are in it), so the mapped share of the lines is
small although the library's own stateful parts are covered.

Left, in this order:

1. Packer and Unpacker as a codec: what is unpacked is what was packed, marks and
   all, also over several objects in one buffer. Three places to look at:
   `PACKER_ARRAY_PRIMITIVE`'s packRequest leaves out the length pack writes,
   `PACKER_ARRAY_CP`'s unpack reads another pointer than pack wrote, and
   `PACKER_ENCAP`'s packRequest without properties asks for nothing.
2. `grid_sm` and the iterators: each key of a box once, in order; stencil and
   sub-iterators against a definition by sets. They are stateless but for a position.
3. The stencils of anomalous cells (CRS) over two processors, next to `CellListSym`;
   device-side iterators next to `CellListGPU`; the keys of the space-filling curve, which
   `CellListFast_gen.hpp` makes once and keeps over a re-initialisation.
4. The std::vector specialisation and the merges of `openfpm::vector`; the device copies
   of grids and vectors.
