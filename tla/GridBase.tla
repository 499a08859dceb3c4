------------------------------ MODULE GridBase ------------------------------
(***************************************************************************)
(* grid_base_impl (Grid/grid_base_implementation.hpp), the grid under      *)
(* every openfpm grid and vector, with memory_c (memory_ly/memory_c.hpp)   *)
(* which holds its memory by reference count, and the memory objects,      *)
(* which are external: what the code here asks of them is incRef, decRef,  *)
(* ref, delete and a resize that keeps the content and never shrinks.      *)
(* Grids are two-dimensional and have one property; the operations are the *)
(* same for each property and in every dimension.                          *)
(*                                                                         *)
(* A memory is a record of                                                 *)
(*     live   it has been made with new and not deleted,                   *)
(*     ref    its reference count,                                         *)
(*     data   its elements 0, 1, ...; Garbage until they are written.      *)
(* A grid is a record of its fields sz (of g1), box (of g1), mem (the      *)
(* memory of data_, or NoMem), init (is_mem_init), external (isExternal).  *)
(*                                                                         *)
(* A memory outside Ext is made by the grids.  A memory of Ext is made by  *)
(* the caller, who may keep a reference of its own (held) and gives it to  *)
(* one grid at a time: a second one would move the buffer under the first. *)
(* A grid with a size and no memory may not be read: check_init.           *)
(*                                                                         *)
(* The definitions under "Fault:" are slips the next definition could      *)
(* have; no specification uses them.                                       *)
(***************************************************************************)
EXTENDS Integers, FiniteSets

CONSTANTS
    Grid,           \* the grids of the program
    Mem, Ext,       \* the memories, and those of them the caller makes
    NoMem,          \* NULL
    Sizes,          \* the sizes grids are given, <<x, y>>
    Val, Garbage,   \* what elements hold, written or not
    ResizeExternal  \* whether grids with elements in an external memory are resized

ASSUME MemAssumption == Ext \subseteq Mem /\ NoMem \notin Mem /\ IsFiniteSet(Grid)
ASSUME SizesAssumption == Sizes \subseteq Nat \X Nat
ASSUME GarbageAssumption == Garbage \notin Val

VARIABLES mem, grid, held

vars == <<mem, grid, held>>

-----------------------------------------------------------------------------

Total(sz) == sz[1] * sz[2]
Keys(sz)  == (0 .. sz[1] - 1) \X (0 .. sz[2] - 1)

\* grid_sm::LinId
LinId(sz, k) == k[1] + k[2] * sz[1]

Deleted == [live |-> FALSE, ref |-> 0, data |-> [i \in {} |-> Garbage]]

\* Fault: a memory is never deleted.
DropKeeps(ms, m) ==
    IF m = NoMem THEN ms ELSE [ms EXCEPT ![m] = [ms[m] EXCEPT !.ref = ms[m].ref - 1]]

\* memory_c's destructor.
Drop(ms, m) ==
    IF m = NoMem THEN ms
    ELSE [ms EXCEPT ![m] = IF ms[m].ref = 1 THEN Deleted
                           ELSE [ms[m] EXCEPT !.ref = ms[m].ref - 1]]

\* Fault: the memory is deleted even if it is the one that is set.
AttachAny(ms, old, m) ==
    LET dropped == Drop(ms, old)
    IN [dropped EXCEPT ![m] = [dropped[m] EXCEPT !.ref = dropped[m].ref + 1]]

\* memory_c::setMemory(m), where old is the memory it had.  m stays alive if
\* it is old.
Attach(ms, old, m) ==
    IF old = m THEN ms
    ELSE LET dropped == Drop(ms, old)
         IN [dropped EXCEPT ![m] = [dropped[m] EXCEPT !.ref = dropped[m].ref + 1]]

\* A memory made with new, attached to one memory_c.
Fresh(ms, m, data) ==
    [ms EXCEPT ![m] = [live |-> TRUE, ref |-> 1, data |-> data]]

\* memory_c::allocate(n): the memory is resized.  allocate is not called for 0.
Allocated(data, n) ==
    [i \in DOMAIN data \union (0 .. n - 1) |-> IF i \in DOMAIN data THEN data[i] ELSE Garbage]

Unwritten(n) == [i \in 0 .. n - 1 |-> Garbage]

\* The memories the next new may return.
Unused == {m \in Mem \ Ext : ~ mem[m].live}

\* The value at the key k of the grid o.
Get(o, k) == mem[grid[o].mem].data[LinId(grid[o].sz, k)]

\* The grid may be read at all its keys.
Readable(o) == grid[o].init \/ Total(grid[o].sz) = 0

-----------------------------------------------------------------------------

\* grid_base_impl(sz)
Constructed(sz) ==
    [sz |-> sz, box |-> sz, mem |-> NoMem, init |-> FALSE, external |-> FALSE]

Init ==
    /\ mem = [m \in Mem |-> Deleted]
    /\ grid = [o \in Grid |-> Constructed(<<0, 0>>)]
    /\ held = {}

\* The object is destroyed, and another one constructed in its place.
Renew(o, sz) ==
    /\ mem' = Drop(mem, grid[o].mem)
    /\ grid' = [grid EXCEPT ![o] = Constructed(sz)]
    /\ UNCHANGED held

\* Fault: the memory the grid had is forgotten, as bind_ref forgets it.
SetMemoryNoDrop(o) ==
    /\ \E m \in Unused :
         /\ mem' = Fresh(mem, m, Unwritten(Total(grid[o].sz)))
         /\ grid' = [grid EXCEPT ![o] = [grid[o] EXCEPT !.mem = m, !.init = TRUE]]
    /\ UNCHANGED held

\* setMemory()
SetMemory(o) ==
    /\ \E m \in Unused :
         /\ mem' = Fresh(Drop(mem, grid[o].mem), m, Unwritten(Total(grid[o].sz)))
         /\ grid' = [grid EXCEPT ![o] = [grid[o] EXCEPT !.mem = m, !.init = TRUE]]
    /\ UNCHANGED held

\* The caller makes a memory, empty or with n values in it (PtrMemory).
NewExternal(m, n, v) ==
    /\ m \in Ext /\ ~ mem[m].live
    /\ mem' = [mem EXCEPT ![m] = [live |-> TRUE, ref |-> 0, data |-> [i \in 0 .. n - 1 |-> v]]]
    /\ UNCHANGED <<grid, held>>

\* The caller takes a reference to it, or lets it go.
Hold(m) ==
    /\ m \in Ext \ held /\ mem[m].live
    /\ mem' = [mem EXCEPT ![m] = [mem[m] EXCEPT !.ref = mem[m].ref + 1]]
    /\ held' = held \union {m}
    /\ UNCHANGED grid

LetGo(m) ==
    /\ m \in held
    /\ mem' = Drop(mem, m)
    /\ held' = held \ {m}
    /\ UNCHANGED grid

\* setMemory(m)
SetExternal(o, m) ==
    /\ m \in Ext /\ mem[m].live
    /\ \A p \in Grid \ {o} : grid[p].mem # m
    /\ LET ms == Attach(mem, grid[o].mem, m)
       IN mem' = [ms EXCEPT ![m] = [ms[m] EXCEPT
                    !.data = Allocated(ms[m].data, Total(grid[o].sz))]]
    /\ grid' = [grid EXCEPT ![o] =
                 [grid[o] EXCEPT !.mem = m, !.init = TRUE, !.external = TRUE]]
    /\ UNCHANGED held

\* set(key, v)
Set(o, k, v) ==
    /\ grid[o].init /\ k \in Keys(grid[o].sz)
    /\ LET m == grid[o].mem
       IN mem' = [mem EXCEPT ![m] = [mem[m] EXCEPT
                    !.data = [mem[m].data EXCEPT ![LinId(grid[o].sz, k)] = v]]]
    /\ UNCHANGED <<grid, held>>

\* Fault: the elements are copied by their linear index.
CopiedLinear(o, sz) ==
    [i \in 0 .. Total(sz) - 1 |->
       IF i < Total(grid[o].sz) THEN mem[grid[o].mem].data[i] ELSE Garbage]

\* resize_impl_host: the elements both sizes have, at their new places.
Copied(o, sz) ==
    LET common == Keys(grid[o].sz) \cap Keys(sz)
    IN [i \in 0 .. Total(sz) - 1 |->
          IF \E k \in common : LinId(sz, k) = i
          THEN Get(o, CHOOSE k \in common : LinId(sz, k) = i)
          ELSE Garbage]

\* resize(sz) into a new memory.
ResizeOwn(o, sz) ==
    /\ ~ grid[o].external /\ Readable(o)
    /\ \E m \in Unused :
         /\ grid' = [grid EXCEPT ![o] =
                      [grid[o] EXCEPT !.sz = sz, !.mem = m, !.init = TRUE]]
         /\ mem' = Drop(Fresh(mem, m, Copied(o, sz)), grid[o].mem)
    /\ UNCHANGED held

\* resize(sz) of a grid with an external memory.  The new grid takes the memory
\* over, and the old one is given a new memory before its elements are copied.
ResizeInPlace(o, sz) ==
    /\ grid[o].external
    /\ ResizeExternal \/ Total(grid[o].sz) = 0
    /\ LET m      == grid[o].mem
           common == Keys(grid[o].sz) \cap Keys(sz)
           data   == Allocated(mem[m].data, Total(sz))
       IN mem' = [mem EXCEPT ![m] = [mem[m] EXCEPT
                    !.data = [i \in DOMAIN data |->
                      IF \E k \in common : LinId(sz, k) = i THEN Garbage ELSE data[i]]]]
    /\ grid' = [grid EXCEPT ![o] = [grid[o] EXCEPT !.sz = sz]]
    /\ UNCHANGED held

Resize(o, sz) == ResizeOwn(o, sz) \/ ResizeInPlace(o, sz)

\* Fault: the copy refers to the memory of the other grid.
CopyShares(o, p) ==
    /\ Readable(p)
    /\ mem' = IF grid[p].mem = NoMem THEN Drop(mem, grid[o].mem)
              ELSE Attach(mem, grid[o].mem, grid[p].mem)
    /\ grid' = [grid EXCEPT ![o] = [grid[p] EXCEPT !.box = grid[o].box]]
    /\ UNCHANGED held

\* operator=(const grid_base_impl &): swap with a duplicate.
Copy(o, p) ==
    /\ Readable(p)
    /\ \E m \in Unused :
         /\ grid' = [grid EXCEPT ![o] =
                      [sz |-> grid[p].sz, box |-> grid[o].box, mem |-> m,
                       init |-> TRUE, external |-> FALSE]]
         /\ mem' = Drop(Fresh(mem, m, Copied(p, grid[p].sz)), grid[o].mem)
    /\ UNCHANGED held

\* swap and operator=(grid_base_impl &&).  grid_sm::swap leaves the boxes.
Swap(o, p) ==
    /\ grid' = [grid EXCEPT ![o] = [grid[p] EXCEPT !.box = grid[o].box],
                            ![p] = [grid[o] EXCEPT !.box = grid[p].box]]
    /\ UNCHANGED <<mem, held>>

Next ==
    \/ \E o \in Grid :
         \/ \E sz \in Sizes : Renew(o, sz) \/ Resize(o, sz)
         \/ SetMemory(o)
         \/ \E m \in Ext : SetExternal(o, m)
         \/ \E k \in UNION {Keys(sz) : sz \in Sizes}, v \in Val : Set(o, k, v)
         \/ \E p \in Grid : Copy(o, p) \/ Swap(o, p)
    \/ \E m \in Ext :
         \/ \E n \in {Total(sz) : sz \in Sizes}, v \in Val : NewExternal(m, n, v)
         \/ Hold(m)
         \/ LetGo(m)

Spec == Init /\ [][Next]_vars

-----------------------------------------------------------------------------

\* Every variable holds what the fields of the classes hold.
TypeOK ==
    /\ \A m \in Mem : mem[m].live \in BOOLEAN /\ mem[m].ref \in Nat
    /\ \A o \in Grid : /\ grid[o].sz \in Nat \X Nat /\ grid[o].box \in Nat \X Nat
                       /\ grid[o].mem \in Mem \union {NoMem}
                       /\ grid[o].init \in BOOLEAN /\ grid[o].external \in BOOLEAN
    /\ held \subseteq Ext

Holders(m) == {o \in Grid : grid[o].mem = m}

\* The reference count of a memory is the number of grids that hold it, plus
\* the caller's reference.  A deleted memory is held by none of them.
RefCounts == \A m \in Mem :
    mem[m].ref = Cardinality(Holders(m)) + (IF m \in held THEN 1 ELSE 0)

\* Nothing leaks: a memory the grids made is alive only while one of them or
\* the caller holds it.
NoLeak == \A m \in Mem \ Ext : mem[m].live => Holders(m) # {}

\* A grid never refers to a deleted memory, and one that is initialised has an
\* element in its memory for each of its keys: every access of an initialised
\* grid is inside a live buffer.
Backed == \A o \in Grid :
    /\ grid[o].mem # NoMem => mem[grid[o].mem].live
    /\ grid[o].init => /\ grid[o].mem # NoMem
                       /\ 0 .. Total(grid[o].sz) - 1 \subseteq DOMAIN mem[grid[o].mem].data

\* A memory is used by one grid only: no grid is changed through another one.
NotShared == \A o, p \in Grid : o # p /\ grid[o].mem = grid[p].mem => grid[o].mem = NoMem

\* What the grids hold, as a caller reads it.
GridView == [o \in Grid |->
    [sz  |-> grid[o].sz,
     val |-> [k \in Keys(grid[o].sz) |-> IF grid[o].init THEN Get(o, k) ELSE Garbage]]]

Store == INSTANCE GridStore WITH store <- GridView

\* Each operation on grids is its namesake in GridStore: a resize keeps what
\* both sizes have, a copy is equal to its source, a swap exchanges two grids,
\* and no other grid changes.
ImplementsStore ==
    /\ Store!Init
    /\ [][\A o \in Grid :
            /\ \A sz \in Sizes : Resize(o, sz) => Store!Resize(o, sz)
            /\ \A p \in Grid : /\ Copy(o, p) => Store!Copy(o, p)
                               /\ Swap(o, p) => Store!Swap(o, p)
            /\ \A k \in Keys(grid[o].sz), v \in Val : Set(o, k, v) => Store!Set(o, k, v)
            /\ SetMemory(o) \/ (\E m \in Ext : SetExternal(o, m))
                 => Store!Renew(o, grid[o].sz)]_vars

\* "the element are retained on the new grid" (grid_base_implementation.hpp:980)
ResizeRetains ==
    [][\A o \in Grid, sz \in Sizes : Resize(o, sz) => Store!Resize(o, sz)]_vars

\* The box of the grid is the "Box enclosing the grid" (grid_sm.hpp:89).
BoxEncloses == \A o \in Grid : grid[o].box = grid[o].sz

\* operator==, which compares each element of the grid with itself.
Equal(o, p) ==
    /\ grid[o].sz = grid[p].sz
    /\ \A k \in Keys(grid[o].sz) : Get(o, k) = Get(o, k)

\* Every element of the grid has been written.
Written(o) == grid[o].init /\ \A k \in Keys(grid[o].sz) : Get(o, k) # Garbage

\* operator== returns "true if they match" (grid_base_implementation.hpp:575).
EqualMeansMatch == \A o, p \in Grid :
    Written(o) /\ Written(p) /\ Equal(o, p) => GridView[o] = GridView[p]

=============================================================================
