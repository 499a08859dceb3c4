--------------------------- MODULE GridBaseProofs ---------------------------
(***************************************************************************)
(* GridBase for every number of grids and memories and for all sizes.  The *)
(* inductive invariant is the conjunction of the module's own invariants   *)
(* with the shape of the records and with what ties a reference count to   *)
(* the life of its memory.  Nearly every operation replaces the record of  *)
(* one grid and moves one reference from the memory the grid had to the    *)
(* one it gets: the lemma Rebind is proved for all of them, and each       *)
(* operation is shown to be of that kind.  With the invariant, every step  *)
(* is the step of GridStore it is named after: what a caller reads of the  *)
(* other grids stays because no two grids share a memory.                  *)
(***************************************************************************)
EXTENDS GridBase, FiniteSetTheorems, TLAPS

MemFields  == {"live", "ref", "data"}
GridFields == {"sz", "box", "mem", "init", "external"}

\* The memories and the grids are records with these fields.
MemShape(ms) ==
    /\ DOMAIN ms = Mem
    /\ \A m \in Mem : /\ DOMAIN ms[m] = MemFields
                      /\ ms[m].live \in BOOLEAN /\ ms[m].ref \in Nat

GridOK(r) ==
    /\ DOMAIN r = GridFields
    /\ r.sz \in Nat \X Nat /\ r.box \in Nat \X Nat
    /\ r.mem \in Mem \union {NoMem}
    /\ r.init \in BOOLEAN /\ r.external \in BOOLEAN

Shape ==
    /\ MemShape(mem)
    /\ DOMAIN grid = Grid /\ \A o \in Grid : GridOK(grid[o])
    /\ held \subseteq Ext

\* A memory somebody counts is alive, and one the grids made is counted as
\* long as it is alive.
Alive ==
    /\ \A m \in Mem : mem[m].ref > 0 => mem[m].live
    /\ \A m \in Mem \ Ext : mem[m].live => mem[m].ref > 0

IInv == Shape /\ RefCounts /\ Alive /\ Backed /\ NotShared

One(b) == IF b THEN 1 ELSE 0

HoldersIn(g, m) == {o \in Grid : g[o].mem = m}

-----------------------------------------------------------------------------

\* The number of grids that hold a memory is a natural number, and 0 if none.
LEMMA CountType ==
    ASSUME NEW g, NEW m
    PROVE  /\ IsFiniteSet(HoldersIn(g, m))
           /\ Cardinality(HoldersIn(g, m)) \in Nat
           /\ Cardinality(HoldersIn(g, m)) = 0 <=> HoldersIn(g, m) = {}
  <1>1. HoldersIn(g, m) \subseteq Grid  BY DEF HoldersIn
  <1>2. IsFiniteSet(HoldersIn(g, m))  BY <1>1, MemAssumption, FS_Subset
  <1> QED  BY <1>2, FS_CardinalityType, FS_EmptySet

\* Replacing the record of one grid moves one reference.
LEMMA CountRebind ==
    ASSUME NEW g, DOMAIN g = Grid, NEW o \in Grid, NEW r, NEW m,
           NEW h, h[o] = r, \A p \in Grid : p # o => h[p] = g[p]
    PROVE  Cardinality(HoldersIn(h, m))
             = Cardinality(HoldersIn(g, m)) - One(g[o].mem = m) + One(r.mem = m)
  <1> DEFINE H == HoldersIn(g, m)
             K == HoldersIn(h, m)
             R == H \ {o}
  <1>1. /\ g[o].mem = m => H = R \union {o}
        /\ g[o].mem # m => H = R
    BY DEF HoldersIn
  <1>2. /\ r.mem = m => K = R \union {o}
        /\ r.mem # m => K = R
    BY DEF HoldersIn
  <1>3. IsFiniteSet(R) /\ Cardinality(R) \in Nat /\ o \notin R
    <2>1. IsFiniteSet(H)  BY CountType
    <2>2. R \subseteq H  OBVIOUS
    <2>3. IsFiniteSet(R)  BY <2>1, <2>2, FS_Subset
    <2> QED  BY <2>3, FS_CardinalityType
  <1>4. Cardinality(R \union {o}) = Cardinality(R) + 1  BY <1>3, FS_AddElement
  <1> HIDE DEF H, K, R
  <1>5. Cardinality(H) = Cardinality(R) + One(g[o].mem = m)
    <2>1. CASE g[o].mem = m
      <3>1. H = R \union {o} /\ One(g[o].mem = m) = 1  BY <1>1, <2>1 DEF One
      <3> QED  BY <1>4, <3>1
    <2>2. CASE g[o].mem # m
      <3>1. H = R /\ One(g[o].mem = m) = 0  BY <1>1, <2>2 DEF One
      <3> QED  BY <1>3, <3>1
    <2> QED  BY <2>1, <2>2
  <1>6. Cardinality(K) = Cardinality(R) + One(r.mem = m)
    <2>1. CASE r.mem = m
      <3>1. K = R \union {o} /\ One(r.mem = m) = 1  BY <1>2, <2>1 DEF One
      <3> QED  BY <1>4, <3>1
    <2>2. CASE r.mem # m
      <3>1. K = R /\ One(r.mem = m) = 0  BY <1>2, <2>2 DEF One
      <3> QED  BY <1>3, <3>1
    <2> QED  BY <2>1, <2>2
  <1>7. Cardinality(K) = Cardinality(H) - One(g[o].mem = m) + One(r.mem = m)
    BY <1>3, <1>5, <1>6 DEF One
  <1> QED  BY <1>7 DEF H, K

\* A memory replaced by one with the fields and types of a memory.
LEMMA ShapeAt ==
    ASSUME NEW ms, MemShape(ms), NEW m \in Mem, NEW new,
           DOMAIN new = MemFields, new.live \in BOOLEAN, new.ref \in Nat,
           NEW d, DOMAIN d = Mem, d[m] = new,
           \A n \in Mem : n # m => d[n] = ms[n]
    PROVE  MemShape(d)
  <1>1. \A n \in Mem : DOMAIN d[n] = MemFields /\ d[n].live \in BOOLEAN /\ d[n].ref \in Nat
    <2> SUFFICES ASSUME NEW n \in Mem
                 PROVE  DOMAIN d[n] = MemFields /\ d[n].live \in BOOLEAN /\ d[n].ref \in Nat
      OBVIOUS
    <2>1. CASE n = m
      <3>1. d[n] = new  BY <2>1
      <3> QED  BY <3>1
    <2>2. CASE n # m
      <3>1. d[n] = ms[n]  BY <2>2
      <3> QED  BY <3>1 DEF MemShape
    <2> QED  BY <2>1, <2>2
  <1> QED  BY <1>1 DEF MemShape

\* What the destructor of memory_c does to each memory.
LEMMA DropAt ==
    ASSUME NEW ms, MemShape(ms), NEW old \in Mem \union {NoMem},
           old # NoMem => ms[old].ref > 0
    PROVE  /\ MemShape(Drop(ms, old))
           /\ \A m \in Mem : m # old => Drop(ms, old)[m] = ms[m]
           /\ old # NoMem => /\ Drop(ms, old)[old].ref = ms[old].ref - 1
                             /\ ms[old].ref = 1 => ~ Drop(ms, old)[old].live
                             /\ ms[old].ref # 1 => Drop(ms, old)[old].live = ms[old].live
                             /\ ms[old].ref # 1 => Drop(ms, old)[old].data = ms[old].data
  <1>1. CASE old = NoMem
    BY <1>1, MemAssumption DEF Drop
  <1>2. CASE old # NoMem
    <2> DEFINE new == IF ms[old].ref = 1 THEN Deleted
                      ELSE [ms[old] EXCEPT !.ref = ms[old].ref - 1]
    <2>1. Drop(ms, old) = [ms EXCEPT ![old] = new]  BY <1>2 DEF Drop
    <2>2. old \in Mem /\ ms[old].ref \in Nat /\ ms[old].ref > 0 /\ DOMAIN ms[old] = MemFields
          /\ ms[old].live \in BOOLEAN /\ DOMAIN ms = Mem
      BY <1>2 DEF MemShape
    <2>3. CASE ms[old].ref = 1
      <3>1. new = Deleted  BY <2>3
      <3>2. DOMAIN Deleted = MemFields /\ Deleted.ref = 0 /\ Deleted.live = FALSE
            /\ Deleted.live \in BOOLEAN /\ Deleted.ref \in Nat
        BY DEF Deleted, MemFields
      <3> HIDE DEF new
      <3>3. /\ MemShape(Drop(ms, old)) /\ Drop(ms, old)[old] = new
            /\ \A m \in Mem : m # old => Drop(ms, old)[m] = ms[m]
        <4>1. /\ DOMAIN Drop(ms, old) = Mem /\ Drop(ms, old)[old] = new
              /\ \A m \in Mem : m # old => Drop(ms, old)[m] = ms[m]
          BY <2>1, <2>2
        <4> QED  BY <2>2, <3>1, <3>2, <4>1, ShapeAt
      <3> QED  BY <2>3, <3>1, <3>2, <3>3
    <2>4. CASE ms[old].ref # 1
      <3>1. new = [ms[old] EXCEPT !.ref = ms[old].ref - 1]  BY <2>4
      <3>2. /\ DOMAIN new = MemFields /\ new.ref = ms[old].ref - 1
            /\ new.live = ms[old].live /\ new.data = ms[old].data
        BY <2>2, <3>1 DEF MemFields
      <3> HIDE DEF new
      <3>3. new.live \in BOOLEAN /\ new.ref \in Nat  BY <2>2, <3>2
      <3>4. /\ MemShape(Drop(ms, old)) /\ Drop(ms, old)[old] = new
            /\ \A m \in Mem : m # old => Drop(ms, old)[m] = ms[m]
        <4>1. /\ DOMAIN Drop(ms, old) = Mem /\ Drop(ms, old)[old] = new
              /\ \A m \in Mem : m # old => Drop(ms, old)[m] = ms[m]
          BY <2>1, <2>2
        <4> QED  BY <2>2, <3>2, <3>3, <4>1, ShapeAt
      <3> QED  BY <2>4, <3>2, <3>4
    <2> QED  BY <2>3, <2>4
  <1> QED  BY <1>1, <1>2

\* What a new memory is.
LEMMA FreshAt ==
    ASSUME NEW ms, MemShape(ms), NEW m \in Mem, NEW data
    PROVE  /\ MemShape(Fresh(ms, m, data))
           /\ \A n \in Mem : n # m => Fresh(ms, m, data)[n] = ms[n]
           /\ Fresh(ms, m, data)[m].live
           /\ Fresh(ms, m, data)[m].ref = 1
           /\ Fresh(ms, m, data)[m].data = data
  <1> DEFINE new == [live |-> TRUE, ref |-> 1, data |-> data]
  <1>1. /\ DOMAIN new = MemFields /\ new.live = TRUE /\ new.ref = 1 /\ new.data = data
        /\ new.live \in BOOLEAN /\ new.ref \in Nat
    BY DEF MemFields
  <1>2. Fresh(ms, m, data) = [ms EXCEPT ![m] = new]  BY DEF Fresh
  <1> HIDE DEF new
  <1>3. /\ MemShape(Fresh(ms, m, data)) /\ Fresh(ms, m, data)[m] = new
        /\ \A n \in Mem : n # m => Fresh(ms, m, data)[n] = ms[n]
    <2>1. /\ DOMAIN Fresh(ms, m, data) = Mem /\ Fresh(ms, m, data)[m] = new
          /\ \A n \in Mem : n # m => Fresh(ms, m, data)[n] = ms[n]
      BY <1>2 DEF MemShape
    <2> QED  BY <1>1, <2>1, ShapeAt
  <1> QED  BY <1>1, <1>3

\* A grid that has a memory is counted.
LEMMA HolderCounted ==
    ASSUME IInv, NEW o \in Grid, grid[o].mem # NoMem
    PROVE  grid[o].mem \in Mem /\ mem[grid[o].mem].ref > 0 /\ mem[grid[o].mem].live
  <1> DEFINE m == grid[o].mem
  <1>1. m \in Mem  BY DEF IInv, Shape, GridOK
  <1>2. Holders(m) # {}  BY DEF Holders
  <1>3. Holders(m) = HoldersIn(grid, m)  BY DEF Holders, HoldersIn
  <1>4. Cardinality(Holders(m)) > 0  BY <1>2, <1>3, CountType
  <1>5. mem[m].ref > 0
    BY <1>1, <1>3, <1>4, CountType DEF IInv, RefCounts
  <1> QED  BY <1>1, <1>5 DEF IInv, Alive

\* A memory that is not alive is in no grid and has no count.
LEMMA UnusedFree ==
    ASSUME IInv, NEW m \in Unused
    PROVE  /\ m \in Mem \ Ext /\ mem[m].ref = 0
           /\ \A o \in Grid : grid[o].mem # m
  <1>1. m \in Mem \ Ext /\ ~ mem[m].live  BY DEF Unused
  <1>2. mem[m].ref = 0  BY <1>1 DEF IInv, Alive, Shape, MemShape
  <1>3. m # NoMem  BY <1>1, MemAssumption
  <1> QED  BY <1>1, <1>2, <1>3 DEF IInv, Backed

-----------------------------------------------------------------------------

\* One grid gets a new record, and its reference moves with it.
LEMMA Rebind ==
    ASSUME IInv, NEW o \in Grid, NEW r, GridOK(r),
           grid' = [grid EXCEPT ![o] = r], held' = held, MemShape(mem'),
           \A m \in Mem : mem'[m].ref = mem[m].ref - One(grid[o].mem = m) + One(r.mem = m),
           \A m \in Mem : mem'[m].ref > 0 => mem'[m].live,
           \A m \in Mem \ Ext : mem'[m].live => mem'[m].ref > 0,
           \A p \in Grid \ {o} : grid[p].mem # NoMem =>
               /\ mem'[grid[p].mem].live
               /\ DOMAIN mem[grid[p].mem].data \subseteq DOMAIN mem'[grid[p].mem].data
               /\ grid[p].mem # r.mem,
           r.init => /\ r.mem # NoMem
                     /\ 0 .. Total(r.sz) - 1 \subseteq DOMAIN mem'[r.mem].data
    PROVE  IInv'
  <1>1. \A p \in Grid : p # o => grid'[p] = grid[p]  BY DEF IInv, Shape
  <1>2. grid'[o] = r  BY DEF IInv, Shape
  <1>3. Shape'  BY <1>1, <1>2 DEF IInv, Shape
  <1>4. RefCounts'
    <2> SUFFICES ASSUME NEW m \in Mem
                 PROVE  mem'[m].ref = Cardinality(HoldersIn(grid', m)) + One(m \in held)
      BY DEF RefCounts, Holders, HoldersIn, One
    <2>1. mem[m].ref = Cardinality(HoldersIn(grid, m)) + One(m \in held)
      BY DEF IInv, RefCounts, Holders, HoldersIn, One
    <2>2. Cardinality(HoldersIn(grid', m))
            = Cardinality(HoldersIn(grid, m)) - One(grid[o].mem = m) + One(r.mem = m)
      <3>1. DOMAIN grid = Grid  BY DEF IInv, Shape
      <3>2. \A h : h[o] = r /\ (\A p \in Grid : p # o => h[p] = grid[p]) =>
              Cardinality(HoldersIn(h, m))
                = Cardinality(HoldersIn(grid, m)) - One(grid[o].mem = m) + One(r.mem = m)
        BY <3>1, CountRebind
      <3> QED  BY <1>1, <1>2, <3>2, Zenon
    <2>3. mem'[m].ref = mem[m].ref - One(grid[o].mem = m) + One(r.mem = m)  OBVIOUS
    <2>4. Cardinality(HoldersIn(grid, m)) \in Nat  BY CountType
    <2> HIDE DEF HoldersIn
    <2> QED  BY <2>1, <2>2, <2>3, <2>4 DEF One
  <1>5. Alive'  BY DEF Alive
  <1>6. Backed'
    <2>1. ASSUME NEW p \in Grid, p # o
          PROVE  /\ grid'[p].mem # NoMem => mem'[grid'[p].mem].live
                 /\ grid'[p].init =>
                      /\ grid'[p].mem # NoMem
                      /\ 0 .. Total(grid'[p].sz) - 1 \subseteq DOMAIN mem'[grid'[p].mem].data
      <3> DEFINE g == grid[p]
      <3>1. /\ g.mem # NoMem => /\ mem'[g.mem].live
                                /\ DOMAIN mem[g.mem].data \subseteq DOMAIN mem'[g.mem].data
            /\ g.init => g.mem # NoMem /\ 0 .. Total(g.sz) - 1 \subseteq DOMAIN mem[g.mem].data
        BY <2>1 DEF IInv, Backed
      <3>2. grid'[p] = g
        BY <1>1, <2>1
      <3> HIDE DEF g
      <3> QED  BY <3>1, <3>2
    <2>2. r.mem # NoMem => mem'[r.mem].live
      <3> SUFFICES ASSUME r.mem # NoMem PROVE mem'[r.mem].live  OBVIOUS
      <3>1. r.mem \in Mem  BY DEF GridOK
      <3>2. mem'[r.mem].ref = mem[r.mem].ref - One(grid[o].mem = r.mem) + 1
        BY <3>1 DEF One
      <3>3. grid[o].mem = r.mem => mem[r.mem].ref > 0  BY HolderCounted
      <3>4. mem[r.mem].ref \in Nat  BY <3>1 DEF IInv, Shape, MemShape
      <3>5. mem'[r.mem].ref > 0  BY <3>2, <3>3, <3>4 DEF One
      <3> QED  BY <3>1, <3>5
    <2> QED  BY <1>2, <2>1, <2>2 DEF Backed
  <1>7. NotShared'
    <2> SUFFICES ASSUME NEW p \in Grid, NEW q \in Grid, p # q, grid'[p].mem = grid'[q].mem,
                        grid'[p].mem # NoMem
                 PROVE  FALSE
      BY DEF NotShared
    <2>1. CASE p # o /\ q # o  BY <1>1, <2>1 DEF IInv, NotShared
    <2>2. CASE p = o  BY <1>1, <1>2, <2>2
    <2>3. CASE q = o  BY <1>1, <1>2, <2>3
    <2> QED  BY <2>1, <2>2, <2>3
  <1> QED  BY <1>3, <1>4, <1>5, <1>6, <1>7 DEF IInv

\* The old memory is dropped and none is taken.
LEMMA RebindNone ==
    ASSUME IInv, NEW o \in Grid, NEW r, GridOK(r), r.mem = NoMem, r.init = FALSE,
           grid' = [grid EXCEPT ![o] = r], held' = held,
           mem' = Drop(mem, grid[o].mem)
    PROVE  IInv'
  <1> DEFINE old == grid[o].mem
  <1>1. old \in Mem \union {NoMem} /\ MemShape(mem)  BY DEF IInv, Shape, GridOK
  <1>2. old # NoMem => mem[old].ref > 0 /\ mem[old].live  BY HolderCounted
  <1>3. /\ MemShape(mem')
        /\ \A m \in Mem : m # old => mem'[m] = mem[m]
        /\ old # NoMem => /\ mem'[old].ref = mem[old].ref - 1
                          /\ mem[old].ref = 1 => ~ mem'[old].live
                          /\ mem[old].ref # 1 => mem'[old].live = mem[old].live
    BY <1>1, <1>2, DropAt
  <1>4. \A m \in Mem : m # NoMem /\ mem[m].ref \in Nat  BY <1>1, MemAssumption DEF MemShape
  <1>5. \A m \in Mem : mem'[m].ref = mem[m].ref - One(old = m) + One(r.mem = m)
    BY <1>3, <1>4 DEF One
  <1>6. \A m \in Mem : mem'[m].ref > 0 => mem'[m].live
    BY <1>2, <1>3, <1>4 DEF IInv, Alive
  <1>7. \A m \in Mem \ Ext : mem'[m].live => mem'[m].ref > 0
    BY <1>2, <1>3, <1>4 DEF IInv, Alive
  <1>8. \A p \in Grid \ {o} : grid[p].mem # NoMem =>
          /\ grid[p].mem \in Mem /\ mem[grid[p].mem].live /\ grid[p].mem # old
    BY HolderCounted DEF IInv, NotShared
  <1> HIDE DEF old
  <1>9. \A p \in Grid \ {o} : grid[p].mem # NoMem =>
          /\ mem'[grid[p].mem].live
          /\ DOMAIN mem[grid[p].mem].data \subseteq DOMAIN mem'[grid[p].mem].data
          /\ grid[p].mem # r.mem
    BY <1>3, <1>8
  <1> QED  BY <1>3, <1>5, <1>6, <1>7, <1>9, Rebind DEF old

\* The old memory is dropped and a new one with enough elements is taken, in
\* either order.
LEMMA RebindFresh ==
    ASSUME IInv, NEW o \in Grid, NEW r, GridOK(r), NEW n \in Unused, r.mem = n, NEW data,
           0 .. Total(r.sz) - 1 \subseteq DOMAIN data,
           grid' = [grid EXCEPT ![o] = r], held' = held,
           \/ mem' = Drop(Fresh(mem, n, data), grid[o].mem)
           \/ mem' = Fresh(Drop(mem, grid[o].mem), n, data)
    PROVE  IInv'
  <1> DEFINE old == grid[o].mem
  <1>1. old \in Mem \union {NoMem} /\ MemShape(mem)  BY DEF IInv, Shape, GridOK
  <1>2. old # NoMem => mem[old].ref > 0 /\ mem[old].live  BY HolderCounted
  <1>3. /\ n \in Mem \ Ext /\ mem[n].ref = 0
        /\ \A p \in Grid : grid[p].mem # n
    BY UnusedFree
  <1>4. /\ MemShape(mem')
        /\ \A m \in Mem : m # old /\ m # n => mem'[m] = mem[m]
        /\ old # NoMem => /\ mem'[old].ref = mem[old].ref - 1
                          /\ mem[old].ref = 1 => ~ mem'[old].live
                          /\ mem[old].ref # 1 => mem'[old].live = mem[old].live
        /\ mem'[n].live /\ mem'[n].ref = 1 /\ mem'[n].data = data
    <2>1. CASE mem' = Drop(Fresh(mem, n, data), old)
      <3> DEFINE ms == Fresh(mem, n, data)
      <3>1. /\ MemShape(ms) /\ \A m \in Mem : m # n => ms[m] = mem[m]
            /\ ms[n].live /\ ms[n].ref = 1 /\ ms[n].data = data
        BY <1>1, <1>3, FreshAt
      <3>2. old # n  BY <1>3
      <3>3. old # NoMem => ms[old] = mem[old] /\ ms[old].ref > 0
        BY <1>1, <1>2, <3>1, <3>2
      <3> HIDE DEF ms, old
      <3>4. /\ MemShape(Drop(ms, old))
            /\ \A m \in Mem : m # old => Drop(ms, old)[m] = ms[m]
            /\ old # NoMem => /\ Drop(ms, old)[old].ref = ms[old].ref - 1
                              /\ ms[old].ref = 1 => ~ Drop(ms, old)[old].live
                              /\ ms[old].ref # 1 => Drop(ms, old)[old].live = ms[old].live
        BY <1>1, <3>1, <3>3, DropAt
      <3>5. mem' = Drop(ms, old)  BY <2>1 DEF ms
      <3> QED  BY <1>1, <1>3, <3>1, <3>2, <3>3, <3>4, <3>5
    <2>2. CASE mem' = Fresh(Drop(mem, old), n, data)
      <3> DEFINE ms == Drop(mem, old)
      <3>1. /\ MemShape(ms)
            /\ \A m \in Mem : m # old => ms[m] = mem[m]
            /\ old # NoMem => /\ ms[old].ref = mem[old].ref - 1
                              /\ mem[old].ref = 1 => ~ ms[old].live
                              /\ mem[old].ref # 1 => ms[old].live = mem[old].live
        BY <1>1, <1>2, DropAt
      <3>2. old # n  BY <1>3
      <3> HIDE DEF ms, old
      <3>3. /\ MemShape(Fresh(ms, n, data))
            /\ \A m \in Mem : m # n => Fresh(ms, n, data)[m] = ms[m]
            /\ Fresh(ms, n, data)[n].live /\ Fresh(ms, n, data)[n].ref = 1
            /\ Fresh(ms, n, data)[n].data = data
        BY <1>3, <3>1, FreshAt
      <3>4. mem' = Fresh(ms, n, data)  BY <2>2 DEF ms
      <3> QED  BY <1>1, <3>1, <3>2, <3>3, <3>4
    <2> QED  BY <2>1, <2>2
  <1>5. old # n  BY <1>3
  <1>6. \A m \in Mem : m # NoMem /\ mem[m].ref \in Nat  BY <1>1, MemAssumption DEF MemShape
  <1>7. \A m \in Mem : mem'[m].ref = mem[m].ref - One(old = m) + One(r.mem = m)
    BY <1>3, <1>4, <1>5, <1>6 DEF One
  <1>8. \A m \in Mem : mem'[m].ref > 0 => mem'[m].live
    BY <1>2, <1>4, <1>5, <1>6 DEF IInv, Alive
  <1>9. \A m \in Mem \ Ext : mem'[m].live => mem'[m].ref > 0
    BY <1>2, <1>4, <1>5, <1>6 DEF IInv, Alive
  <1>10. \A p \in Grid \ {o} : grid[p].mem # NoMem =>
           /\ grid[p].mem \in Mem /\ mem[grid[p].mem].live
           /\ grid[p].mem # old /\ grid[p].mem # n
    BY <1>3, HolderCounted DEF IInv, NotShared
  <1>11. n # NoMem /\ 0 .. Total(r.sz) - 1 \subseteq DOMAIN mem'[n].data
    BY <1>3, <1>4, MemAssumption
  <1> HIDE DEF old
  <1>12. \A p \in Grid \ {o} : grid[p].mem # NoMem =>
           /\ mem'[grid[p].mem].live
           /\ DOMAIN mem[grid[p].mem].data \subseteq DOMAIN mem'[grid[p].mem].data
           /\ grid[p].mem # r.mem
    BY <1>4, <1>10
  <1> QED  BY <1>4, <1>7, <1>8, <1>9, <1>11, <1>12, Rebind DEF old

-----------------------------------------------------------------------------

\* No memory is alive, and no grid has one.
LEMMA InitInv == Init => IInv
  <1> SUFFICES ASSUME Init PROVE IInv  OBVIOUS
  <1>1. /\ DOMAIN Deleted = MemFields /\ Deleted.live = FALSE /\ Deleted.ref = 0
        /\ Deleted.live \in BOOLEAN /\ Deleted.ref \in Nat
    BY DEF Deleted, MemFields
  <1>2. /\ GridOK(Constructed(<<0, 0>>))
        /\ Constructed(<<0, 0>>).mem = NoMem /\ Constructed(<<0, 0>>).init = FALSE
    BY DEF GridOK, GridFields, Constructed
  <1>3. /\ DOMAIN mem = Mem /\ \A m \in Mem : mem[m] = Deleted
        /\ DOMAIN grid = Grid /\ \A o \in Grid : grid[o] = Constructed(<<0, 0>>)
        /\ held = {}
    BY DEF Init
  <1>4. Shape
    <2>1. \A m \in Mem : /\ DOMAIN mem[m] = MemFields
                         /\ mem[m].live \in BOOLEAN /\ mem[m].ref \in Nat
      <3> SUFFICES ASSUME NEW m \in Mem
                   PROVE  /\ DOMAIN mem[m] = MemFields
                          /\ mem[m].live \in BOOLEAN /\ mem[m].ref \in Nat
        OBVIOUS
      <3>1. mem[m] = Deleted  BY <1>3
      <3> QED  BY <1>1, <3>1
    <2> QED  BY <1>2, <1>3, <2>1 DEF Shape, MemShape
  <1>5. RefCounts
    <2>1. \A m \in Mem : m # NoMem  BY MemAssumption
    <2>2. \A m \in Mem : Holders(m) = {}  BY <1>2, <1>3, <2>1 DEF Holders
    <2> QED  BY <1>1, <1>3, <2>2, FS_EmptySet DEF RefCounts
  <1>6. Alive /\ Backed /\ NotShared  BY <1>1, <1>2, <1>3 DEF Alive, Backed, NotShared
  <1> QED  BY <1>4, <1>5, <1>6 DEF IInv

\* The destroyed object's reference is dropped, and none is taken.
LEMMA RenewInv ==
    ASSUME IInv, NEW o \in Grid, NEW sz \in Sizes, Renew(o, sz)
    PROVE  IInv'
  <1> DEFINE r == Constructed(sz)
  <1>1. GridOK(r) /\ r.mem = NoMem /\ r.init = FALSE
    BY SizesAssumption DEF GridOK, GridFields, Constructed
  <1>2. /\ grid' = [grid EXCEPT ![o] = r] /\ held' = held
        /\ mem' = Drop(mem, grid[o].mem)
    BY DEF Renew
  <1> HIDE DEF r
  <1> QED  BY <1>1, <1>2, RebindNone

\* The new memory has an element for each key of the grid.
LEMMA SetMemoryInv ==
    ASSUME IInv, NEW o \in Grid, SetMemory(o)
    PROVE  IInv'
  <1>1. PICK n \in Unused :
          /\ mem' = Fresh(Drop(mem, grid[o].mem), n, Unwritten(Total(grid[o].sz)))
          /\ grid' = [grid EXCEPT ![o] = [grid[o] EXCEPT !.mem = n, !.init = TRUE]]
    BY DEF SetMemory
  <1> DEFINE r == [grid[o] EXCEPT !.mem = n, !.init = TRUE]
             data == Unwritten(Total(grid[o].sz))
  <1>2. GridOK(grid[o]) /\ n \in Mem  BY UnusedFree DEF IInv, Shape
  <1>3. GridOK(r) /\ r.mem = n /\ r.sz = grid[o].sz
    BY <1>2 DEF GridOK, GridFields
  <1>4. 0 .. Total(r.sz) - 1 \subseteq DOMAIN data  BY <1>3 DEF Unwritten
  <1>5. held' = held  BY DEF SetMemory
  <1> HIDE DEF r, data
  <1>6. grid' = [grid EXCEPT ![o] = r] /\ mem' = Fresh(Drop(mem, grid[o].mem), n, data)
    BY <1>1 DEF r, data
  <1> QED  BY <1>3, <1>4, <1>5, <1>6, RebindFresh

\* The temporary's new memory is backed for the new size; the old one is dropped.
LEMMA ResizeOwnInv ==
    ASSUME IInv, NEW o \in Grid, NEW sz \in Sizes, ResizeOwn(o, sz)
    PROVE  IInv'
  <1>1. PICK n \in Unused :
          /\ mem' = Drop(Fresh(mem, n, Copied(o, sz)), grid[o].mem)
          /\ grid' = [grid EXCEPT ![o] = [grid[o] EXCEPT !.sz = sz, !.mem = n, !.init = TRUE]]
    BY DEF ResizeOwn
  <1> DEFINE r == [grid[o] EXCEPT !.sz = sz, !.mem = n, !.init = TRUE]
  <1>2. GridOK(grid[o]) /\ n \in Mem /\ sz \in Nat \X Nat
    BY UnusedFree, SizesAssumption DEF IInv, Shape
  <1>3. GridOK(r) /\ r.mem = n /\ r.sz = sz
    BY <1>2 DEF GridOK, GridFields
  <1>4. 0 .. Total(r.sz) - 1 \subseteq DOMAIN Copied(o, sz)  BY <1>3 DEF Copied
  <1>5. held' = held  BY DEF ResizeOwn
  <1> HIDE DEF r
  <1>6. grid' = [grid EXCEPT ![o] = r]  BY <1>1 DEF r
  <1> QED  BY <1>1, <1>3, <1>4, <1>5, <1>6, RebindFresh

\* The duplicate's memory is new, as large as the source's size asks.
LEMMA CopyInv ==
    ASSUME IInv, NEW o \in Grid, NEW p \in Grid, Copy(o, p)
    PROVE  IInv'
  <1> DEFINE R(n) == [sz |-> grid[p].sz, box |-> grid[o].box, mem |-> n,
                      init |-> TRUE, external |-> FALSE]
  <1>1. PICK n \in Unused :
          /\ mem' = Drop(Fresh(mem, n, Copied(p, grid[p].sz)), grid[o].mem)
          /\ grid' = [grid EXCEPT ![o] = R(n)]
    BY DEF Copy
  <1> DEFINE r == R(n)
  <1>2. GridOK(grid[o]) /\ GridOK(grid[p]) /\ n \in Mem  BY UnusedFree DEF IInv, Shape
  <1>3. GridOK(r) /\ r.mem = n /\ r.sz = grid[p].sz
    BY <1>2 DEF GridOK, GridFields
  <1>4. 0 .. Total(r.sz) - 1 \subseteq DOMAIN Copied(p, grid[p].sz)  BY <1>3 DEF Copied
  <1>5. held' = held  BY DEF Copy
  <1> HIDE DEF r
  <1>6. grid' = [grid EXCEPT ![o] = r]  BY <1>1 DEF r
  <1> QED  BY <1>1, <1>3, <1>4, <1>5, <1>6, RebindFresh

\* The grid takes the caller's memory; it may be the one it has.
LEMMA SetExternalInv ==
    ASSUME IInv, NEW o \in Grid, NEW n \in Ext, SetExternal(o, n)
    PROVE  IInv'
  <1> DEFINE old == grid[o].mem
             ms  == Attach(mem, old, n)
             r   == [grid[o] EXCEPT !.mem = n, !.init = TRUE, !.external = TRUE]
             new == [ms[n] EXCEPT !.data = Allocated(ms[n].data, Total(grid[o].sz))]
  <1>1. /\ n \in Mem /\ n # NoMem /\ mem[n].live
        /\ \A p \in Grid \ {o} : grid[p].mem # n
        /\ mem' = [ms EXCEPT ![n] = new]
        /\ grid' = [grid EXCEPT ![o] = r] /\ held' = held
    BY MemAssumption DEF SetExternal
  <1>2. old \in Mem \union {NoMem} /\ MemShape(mem) /\ GridOK(grid[o])
    BY DEF IInv, Shape, GridOK
  <1>3. old # NoMem => mem[old].ref > 0 /\ mem[old].live  BY HolderCounted
  <1>4. GridOK(r) /\ r.mem = n /\ r.sz = grid[o].sz /\ r.init
    BY <1>1, <1>2 DEF GridOK, GridFields
  <1>5. /\ MemShape(ms)
        /\ \A m \in Mem : m # old /\ m # n => ms[m] = mem[m]
        /\ old # NoMem /\ old # n =>
             /\ ms[old].ref = mem[old].ref - 1
             /\ mem[old].ref = 1 => ~ ms[old].live
             /\ mem[old].ref # 1 => ms[old].live = mem[old].live
        /\ ms[n].live /\ ms[n].ref = mem[n].ref + One(old # n)
    <2>1. CASE old = n
      <3>1. ms = mem  BY <2>1 DEF Attach
      <3> HIDE DEF ms, old
      <3> QED  BY <1>1, <1>2, <2>1, <3>1 DEF One, MemShape
    <2>2. CASE old # n
      <3> DEFINE d == Drop(mem, old)
                 e == [d[n] EXCEPT !.ref = d[n].ref + 1]
      <3>1. ms = [d EXCEPT ![n] = e]  BY <2>2 DEF Attach
      <3>2. /\ MemShape(d)
            /\ \A m \in Mem : m # old => d[m] = mem[m]
            /\ old # NoMem => /\ d[old].ref = mem[old].ref - 1
                              /\ mem[old].ref = 1 => ~ d[old].live
                              /\ mem[old].ref # 1 => d[old].live = mem[old].live
        BY <1>2, <1>3, DropAt
      <3> HIDE DEF d, ms, old
      <3>3. DOMAIN d = Mem /\ DOMAIN d[n] = MemFields /\ d[n].ref \in Nat /\ d[n] = mem[n]
        BY <1>1, <2>2, <3>2 DEF MemShape
      <3>4. DOMAIN e = MemFields /\ e.ref = mem[n].ref + 1 /\ e.live = mem[n].live
        BY <3>3 DEF MemFields
      <3> HIDE DEF e
      <3>5. e.live \in BOOLEAN /\ e.ref \in Nat
        BY <1>1, <1>2, <3>4 DEF MemShape
      <3>6. MemShape(ms) /\ ms[n] = e /\ \A m \in Mem : m # n => ms[m] = d[m]
        <4>1. DOMAIN ms = Mem /\ ms[n] = e /\ \A m \in Mem : m # n => ms[m] = d[m]
          BY <1>1, <3>1, <3>3
        <4> QED  BY <1>1, <3>2, <3>4, <3>5, <4>1, ShapeAt
      <3> QED  BY <1>1, <1>2, <2>2, <3>2, <3>4, <3>6 DEF One
    <2> QED  BY <2>1, <2>2
  <1>6. /\ DOMAIN new = MemFields /\ new.live = ms[n].live /\ new.ref = ms[n].ref
        /\ 0 .. Total(grid[o].sz) - 1 \subseteq DOMAIN new.data
    <2>1. DOMAIN ms[n] = MemFields  BY <1>1, <1>5 DEF MemShape
    <2> HIDE DEF ms
    <2> QED  BY <2>1 DEF MemFields, Allocated
  <1> HIDE DEF new, ms, r, old
  <1>7. new.live \in BOOLEAN /\ new.ref \in Nat  BY <1>1, <1>5, <1>6 DEF MemShape
  <1>8. MemShape(mem') /\ mem'[n] = new /\ \A m \in Mem : m # n => mem'[m] = ms[m]
    <2>1. DOMAIN mem' = Mem /\ mem'[n] = new /\ \A m \in Mem : m # n => mem'[m] = ms[m]
      BY <1>1, <1>5 DEF MemShape
    <2>2. \A d : /\ DOMAIN d = Mem /\ d[n] = new
                 /\ (\A m \in Mem : m # n => d[m] = ms[m])
                => MemShape(d)
      BY <1>1, <1>5, <1>6, <1>7, ShapeAt
    <2>3. DOMAIN new = MemFields  BY <1>6
    <2> QED  BY <2>1, <2>2, Zenon
  <1>9. \A m \in Mem : m # NoMem /\ mem[m].ref \in Nat  BY <1>2, MemAssumption DEF MemShape
  <1>10. \A m \in Mem : mem'[m].ref = mem[m].ref - One(old = m) + One(r.mem = m)
    BY <1>1, <1>4, <1>5, <1>6, <1>8, <1>9 DEF One
  <1>11. \A m \in Mem : mem'[m].ref > 0 => mem'[m].live
    <2> SUFFICES ASSUME NEW m \in Mem, mem'[m].ref > 0 PROVE mem'[m].live
      OBVIOUS
    <2>1. CASE m = n  BY <1>5, <1>6, <1>8, <2>1
    <2>2. CASE m # n /\ m = old  BY <1>1, <1>2, <1>3, <1>5, <1>8, <1>9, <2>2
    <2>3. CASE m # n /\ m # old  BY <1>5, <1>8, <2>3 DEF IInv, Alive
    <2> QED  BY <2>1, <2>2, <2>3
  <1>12. \A m \in Mem \ Ext : mem'[m].live => mem'[m].ref > 0
    BY <1>1, <1>3, <1>5, <1>6, <1>8, <1>9 DEF IInv, Alive
  <1>13. \A p \in Grid \ {o} : grid[p].mem # NoMem =>
           /\ grid[p].mem \in Mem /\ mem[grid[p].mem].live
           /\ grid[p].mem # old /\ grid[p].mem # n
    BY <1>1, HolderCounted DEF IInv, NotShared, old
  <1>14. \A p \in Grid \ {o} : grid[p].mem # NoMem =>
           /\ mem'[grid[p].mem].live
           /\ DOMAIN mem[grid[p].mem].data \subseteq DOMAIN mem'[grid[p].mem].data
           /\ grid[p].mem # r.mem
    BY <1>4, <1>5, <1>8, <1>13
  <1>15. r.mem # NoMem /\ 0 .. Total(r.sz) - 1 \subseteq DOMAIN mem'[r.mem].data
    BY <1>1, <1>4, <1>6, <1>8
  <1>16. \A m \in Mem : mem'[m].ref = mem[m].ref - One(grid[o].mem = m) + One(r.mem = m)
    BY <1>10 DEF old
  <1> QED  BY <1>1, <1>4, <1>8, <1>11, <1>12, <1>14, <1>15, <1>16, Rebind

\* The memory is the grid's still, and the larger size is backed by it.
LEMMA ResizeInPlaceInv ==
    ASSUME IInv, NEW o \in Grid, NEW sz \in Sizes, ResizeInPlace(o, sz)
    PROVE  IInv'
  <1> DEFINE n      == grid[o].mem
             common == Keys(grid[o].sz) \cap Keys(sz)
             all    == Allocated(mem[n].data, Total(sz))
             data   == [i \in DOMAIN all |->
                         IF \E k \in common : LinId(sz, k) = i THEN Garbage ELSE all[i]]
             new    == [mem[n] EXCEPT !.data = data]
             r      == [grid[o] EXCEPT !.sz = sz]
  <1>1. /\ mem' = [mem EXCEPT ![n] = new]
        /\ grid' = [grid EXCEPT ![o] = r] /\ held' = held
    BY DEF ResizeInPlace
  <1>2. MemShape(mem) /\ GridOK(grid[o]) /\ sz \in Nat \X Nat
    BY SizesAssumption DEF IInv, Shape
  <1>3. GridOK(r) /\ r.mem = n /\ r.sz = sz /\ r.init = grid[o].init
    BY <1>2 DEF GridOK, GridFields
  <1>4. DOMAIN all = DOMAIN mem[n].data \union (0 .. Total(sz) - 1)  BY DEF Allocated
  <1>5. DOMAIN data = DOMAIN all  OBVIOUS
  <1> HIDE DEF data, all, r
  <1>6. n # NoMem =>
          /\ n \in Mem /\ mem[n].live
          /\ DOMAIN new = MemFields /\ new.live = mem[n].live /\ new.ref = mem[n].ref
          /\ new.data = data /\ new.live \in BOOLEAN /\ new.ref \in Nat
    <2> SUFFICES ASSUME n # NoMem
                 PROVE  /\ n \in Mem /\ mem[n].live
                        /\ DOMAIN new = MemFields /\ new.live = mem[n].live
                        /\ new.ref = mem[n].ref /\ new.data = data
                        /\ new.live \in BOOLEAN /\ new.ref \in Nat
      OBVIOUS
    <2>1. n \in Mem /\ mem[n].live  BY HolderCounted
    <2>2. DOMAIN mem[n] = MemFields /\ mem[n].live \in BOOLEAN /\ mem[n].ref \in Nat
      BY <1>2, <2>1 DEF MemShape
    <2> HIDE DEF n
    <2> QED  BY <2>1, <2>2 DEF MemFields
  <1> HIDE DEF new
  <1>7. /\ DOMAIN mem' = Mem
        /\ n # NoMem => mem'[n] = new
        /\ \A m \in Mem : m # n => mem'[m] = mem[m]
    BY <1>1, <1>2, <1>6 DEF MemShape
  <1>8. \A m \in Mem : /\ DOMAIN mem'[m] = MemFields /\ mem'[m].live = mem[m].live
                       /\ mem'[m].ref = mem[m].ref
                       /\ DOMAIN mem[m].data \subseteq DOMAIN mem'[m].data
    <2> SUFFICES ASSUME NEW m \in Mem
                 PROVE  /\ DOMAIN mem'[m] = MemFields /\ mem'[m].live = mem[m].live
                        /\ mem'[m].ref = mem[m].ref
                        /\ DOMAIN mem[m].data \subseteq DOMAIN mem'[m].data
      OBVIOUS
    <2>1. m # NoMem  BY MemAssumption
    <2>2. CASE m = n
      <3> HIDE DEF n
      <3> QED  BY <1>4, <1>5, <1>6, <1>7, <2>1, <2>2
    <2>3. CASE m # n
      <3> HIDE DEF n
      <3> QED  BY <1>2, <1>7, <2>3 DEF MemShape
    <2> QED  BY <2>2, <2>3
  <1>9. MemShape(mem')  BY <1>2, <1>7, <1>8 DEF MemShape
  <1>10. \A m \in Mem : mem[m].ref \in Nat  BY <1>2 DEF MemShape
  <1>11. \A m \in Mem : mem'[m].ref = mem[m].ref - One(n = m) + One(r.mem = m)
    BY <1>3, <1>8, <1>10 DEF One
  <1>12. /\ \A m \in Mem : mem'[m].ref > 0 => mem'[m].live
         /\ \A m \in Mem \ Ext : mem'[m].live => mem'[m].ref > 0
    BY <1>8 DEF IInv, Alive
  <1>13. \A p \in Grid \ {o} : grid[p].mem # NoMem =>
           /\ grid[p].mem \in Mem /\ mem[grid[p].mem].live /\ grid[p].mem # n
    BY HolderCounted DEF IInv, NotShared
  <1>14. \A p \in Grid \ {o} : grid[p].mem # NoMem =>
           /\ mem'[grid[p].mem].live
           /\ DOMAIN mem[grid[p].mem].data \subseteq DOMAIN mem'[grid[p].mem].data
           /\ grid[p].mem # r.mem
    BY <1>3, <1>8, <1>13
  <1>15. r.init => r.mem # NoMem /\ 0 .. Total(r.sz) - 1 \subseteq DOMAIN mem'[r.mem].data
    <2>1. r.init => n # NoMem  BY <1>3 DEF IInv, Backed
    <2> HIDE DEF n
    <2> QED  BY <1>3, <1>4, <1>5, <1>6, <1>7, <2>1
  <1> QED  BY <1>1, <1>3, <1>9, <1>11, <1>12, <1>14, <1>15, Rebind

-----------------------------------------------------------------------------

\* One memory changes, and no grid.
LEMMA Touch ==
    ASSUME IInv, NEW n \in Mem, NEW new,
           mem' = [mem EXCEPT ![n] = new], grid' = grid,
           DOMAIN new = MemFields, new.live \in BOOLEAN, new.ref \in Nat,
           held' \subseteq Ext, \A m \in Mem : m # n => (m \in held' <=> m \in held),
           new.ref = mem[n].ref + One(n \in held') - One(n \in held),
           new.ref > 0 => new.live,
           n \notin Ext => (new.live => new.ref > 0),
           \A o \in Grid : grid[o].mem = n =>
               new.live /\ DOMAIN mem[n].data \subseteq DOMAIN new.data
    PROVE  IInv'
  <1>1. /\ DOMAIN mem' = Mem /\ mem'[n] = new
        /\ \A m \in Mem : m # n => mem'[m] = mem[m]
    BY DEF IInv, Shape, MemShape
  <1>2. MemShape(mem')
    <2>1. \A d : /\ DOMAIN d = Mem /\ d[n] = new
                /\ (\A m \in Mem : m # n => d[m] = mem[m])
               => MemShape(d)
      <3>1. MemShape(mem)  BY DEF IInv, Shape
      <3> QED  BY <3>1, ShapeAt
    <2>2. /\ DOMAIN mem' = Mem /\ mem'[n] = new
          /\ \A m \in Mem : m # n => mem'[m] = mem[m]
      BY <1>1
    <2> QED  BY <2>1, <2>2, Zenon
  <1>3. Shape'  BY <1>2 DEF IInv, Shape
  <1>4. RefCounts'
    <2> SUFFICES ASSUME NEW m \in Mem
                 PROVE  mem'[m].ref = Cardinality(Holders(m)) + One(m \in held')
      BY DEF RefCounts, Holders, One
    <2>1. mem[m].ref = Cardinality(Holders(m)) + One(m \in held)
      BY DEF IInv, RefCounts, One
    <2>2. Cardinality(Holders(m)) \in Nat  BY CountType DEF Holders, HoldersIn
    <2>3. CASE m = n  BY <1>1, <2>1, <2>2, <2>3 DEF One
    <2>4. CASE m # n
      <3>1. mem'[m] = mem[m] /\ One(m \in held') = One(m \in held)
        BY <1>1, <2>4 DEF One
      <3> QED  BY <2>1, <3>1
    <2> QED  BY <2>3, <2>4
  <1>5. Alive'
    <2>1. \A m \in Mem : mem'[m].ref > 0 => mem'[m].live
      BY <1>1 DEF IInv, Alive
    <2>2. \A m \in Mem \ Ext : mem'[m].live => mem'[m].ref > 0
      BY <1>1 DEF IInv, Alive
    <2> QED  BY <2>1, <2>2 DEF Alive
  <1>6. Backed'
    <2> SUFFICES ASSUME NEW o \in Grid
                 PROVE  /\ grid[o].mem # NoMem => mem'[grid[o].mem].live
                        /\ grid[o].init =>
                             /\ grid[o].mem # NoMem
                             /\ 0 .. Total(grid[o].sz) - 1 \subseteq DOMAIN mem'[grid[o].mem].data
      BY DEF Backed
    <2>1. grid[o].mem \in Mem \union {NoMem}  BY DEF IInv, Shape, GridOK
    <2>2. CASE grid[o].mem = n  BY <1>1, <2>2 DEF IInv, Backed
    <2>3. CASE grid[o].mem # n  BY <1>1, <2>1, <2>3 DEF IInv, Backed
    <2> QED  BY <2>2, <2>3
  <1>7. NotShared'  BY DEF IInv, NotShared
  <1> QED  BY <1>3, <1>4, <1>5, <1>6, <1>7 DEF IInv

\* A memory the caller makes had no reference and gets none.
LEMMA NewExternalInv ==
    ASSUME IInv, NEW m \in Ext, NEW n, NEW v, NewExternal(m, n, v)
    PROVE  IInv'
  <1> DEFINE data == [i \in 0 .. n - 1 |-> v]
             new  == [live |-> TRUE, ref |-> 0, data |-> data]
  <1>1. /\ m \in Mem /\ m # NoMem /\ ~ mem[m].live
        /\ mem' = [mem EXCEPT ![m] = new] /\ grid' = grid /\ held' = held
    BY MemAssumption DEF NewExternal
  <1> HIDE DEF data
  <1>2. /\ DOMAIN new = MemFields /\ new.live = TRUE /\ new.ref = 0
        /\ new.live \in BOOLEAN /\ new.ref \in Nat
    BY DEF MemFields
  <1>3. mem[m].ref = 0  BY <1>1 DEF IInv, Alive, Shape, MemShape
  <1>4. \A o \in Grid : grid[o].mem # m  BY <1>1 DEF IInv, Backed
  <1> HIDE DEF new
  <1>5. held' \subseteq Ext /\ new.ref = mem[m].ref + One(m \in held') - One(m \in held)
    BY <1>1, <1>2, <1>3 DEF IInv, Shape, One
  <1>6. new.ref > 0 => new.live  BY <1>2
  <1> QED  BY <1>1, <1>2, <1>4, <1>5, <1>6, Touch

\* The caller counts himself.
LEMMA HoldInv ==
    ASSUME IInv, NEW m \in Ext, Hold(m)
    PROVE  IInv'
  <1> DEFINE new == [mem[m] EXCEPT !.ref = mem[m].ref + 1]
  <1>1. /\ m \in Mem /\ m \notin held /\ mem[m].live
        /\ mem' = [mem EXCEPT ![m] = new] /\ grid' = grid /\ held' = held \union {m}
    BY MemAssumption DEF Hold
  <1>2. DOMAIN mem[m] = MemFields /\ mem[m].ref \in Nat
    BY <1>1 DEF IInv, Shape, MemShape
  <1>3. /\ DOMAIN new = MemFields /\ new.live = mem[m].live
        /\ new.ref = mem[m].ref + 1 /\ new.data = mem[m].data
    BY <1>2 DEF MemFields
  <1> HIDE DEF new
  <1>4. new.live \in BOOLEAN /\ new.ref \in Nat
    BY <1>1, <1>2, <1>3 DEF IInv, Shape, MemShape
  <1>5. /\ held' \subseteq Ext
        /\ new.ref = mem[m].ref + One(m \in held') - One(m \in held)
        /\ \A n \in Mem : n # m => (n \in held' <=> n \in held)
    BY <1>1, <1>2, <1>3 DEF IInv, Shape, One
  <1> QED  BY <1>1, <1>3, <1>4, <1>5, Touch

\* The caller's reference may be the last one.
LEMMA LetGoInv ==
    ASSUME IInv, NEW m \in Ext, LetGo(m)
    PROVE  IInv'
  <1> DEFINE new == IF mem[m].ref = 1 THEN Deleted
                    ELSE [mem[m] EXCEPT !.ref = mem[m].ref - 1]
  <1>1. /\ m \in Mem /\ m # NoMem /\ m \in held
        /\ mem' = [mem EXCEPT ![m] = new] /\ grid' = grid /\ held' = held \ {m}
    BY MemAssumption DEF LetGo, Drop
  <1>2. mem[m].ref = Cardinality(Holders(m)) + 1  BY <1>1 DEF IInv, RefCounts
  <1>3. Cardinality(Holders(m)) \in Nat /\ (Cardinality(Holders(m)) = 0 <=> Holders(m) = {})
    BY CountType DEF Holders, HoldersIn
  <1>4. mem[m].ref \in Nat /\ mem[m].ref > 0  BY <1>2, <1>3
  <1>5. mem[m].live /\ DOMAIN mem[m] = MemFields
    BY <1>1, <1>4 DEF IInv, Alive, Shape, MemShape
  <1>6. /\ DOMAIN new = MemFields /\ new.ref = mem[m].ref - 1
        /\ new.live \in BOOLEAN /\ (mem[m].ref # 1 => new.live /\ new.data = mem[m].data)
    <2>1. CASE mem[m].ref = 1
      <3>1. new = Deleted  BY <2>1
      <3>2. DOMAIN Deleted = MemFields /\ Deleted.ref = 0 /\ Deleted.live \in BOOLEAN
        BY DEF Deleted, MemFields
      <3> HIDE DEF new
      <3> QED  BY <2>1, <3>1, <3>2
    <2>2. CASE mem[m].ref # 1
      <3>1. new = [mem[m] EXCEPT !.ref = mem[m].ref - 1]  BY <2>2
      <3> HIDE DEF new
      <3> QED  BY <1>5, <3>1 DEF MemFields
    <2> QED  BY <2>1, <2>2
  <1> HIDE DEF new
  <1>7. new.ref \in Nat /\ (new.ref > 0 => new.live)  BY <1>4, <1>6
  <1>8. \A o \in Grid : grid[o].mem = m =>
          new.live /\ DOMAIN mem[m].data \subseteq DOMAIN new.data
    <2> SUFFICES ASSUME NEW o \in Grid, grid[o].mem = m
                 PROVE  new.live /\ DOMAIN mem[m].data \subseteq DOMAIN new.data
      OBVIOUS
    <2>1. Holders(m) # {}  BY DEF Holders
    <2>2. mem[m].ref # 1  BY <1>2, <1>3, <2>1
    <2> QED  BY <1>6, <2>2
  <1>9. /\ held' \subseteq Ext
        /\ new.ref = mem[m].ref + One(m \in held') - One(m \in held)
        /\ \A n \in Mem : n # m => (n \in held' <=> n \in held)
    BY <1>1, <1>4, <1>6 DEF IInv, Shape, One
  <1> QED  BY <1>1, <1>6, <1>7, <1>8, <1>9, Touch

\* A write keeps the places of the memory.
LEMMA SetInv ==
    ASSUME IInv, NEW o \in Grid, NEW k, NEW v, Set(o, k, v)
    PROVE  IInv'
  <1> DEFINE m    == grid[o].mem
             data == [mem[m].data EXCEPT ![LinId(grid[o].sz, k)] = v]
             new  == [mem[m] EXCEPT !.data = data]
  <1>1. /\ grid[o].init /\ mem' = [mem EXCEPT ![m] = new]
        /\ grid' = grid /\ held' = held
    BY DEF Set
  <1>2. m # NoMem  BY <1>1 DEF IInv, Backed
  <1>3. m \in Mem /\ mem[m].live  BY <1>2, HolderCounted
  <1>4. DOMAIN data = DOMAIN mem[m].data  OBVIOUS
  <1> HIDE DEF data, m
  <1>5. DOMAIN mem[m] = MemFields /\ mem[m].ref \in Nat /\ mem[m].live \in BOOLEAN
    BY <1>3 DEF IInv, Shape, MemShape
  <1>6. /\ DOMAIN new = MemFields /\ new.live = mem[m].live
        /\ new.ref = mem[m].ref /\ new.data = data
    BY <1>5 DEF MemFields
  <1> HIDE DEF new
  <1>7. new.live \in BOOLEAN /\ new.ref \in Nat /\ (new.ref > 0 => new.live)
    BY <1>3, <1>5, <1>6
  <1>8. m \notin Ext => (new.live => new.ref > 0)  BY <1>3, <1>6 DEF IInv, Alive
  <1>9. new.ref = mem[m].ref + One(m \in held') - One(m \in held) /\ held' \subseteq Ext
    BY <1>1, <1>5, <1>6 DEF One, IInv, Shape
  <1> QED  BY <1>1, <1>3, <1>4, <1>6, <1>7, <1>8, <1>9, Touch

\* Two grids exchange their records; the boxes stay, and are not of interest.
LEMMA SwapInv ==
    ASSUME IInv, NEW o \in Grid, NEW p \in Grid, Swap(o, p)
    PROVE  IInv'
  <1> DEFINE ro == [grid[p] EXCEPT !.box = grid[o].box]
             rp == [grid[o] EXCEPT !.box = grid[p].box]
             g1 == [q \in Grid |-> IF q = o THEN ro ELSE grid[q]]
  <1>1. mem' = mem /\ held' = held /\ grid' = [grid EXCEPT ![o] = ro, ![p] = rp]
    BY DEF Swap
  <1>2. DOMAIN grid = Grid /\ GridOK(grid[o]) /\ GridOK(grid[p])  BY DEF IInv, Shape
  <1>3. /\ GridOK(ro) /\ ro.mem = grid[p].mem /\ ro.sz = grid[p].sz /\ ro.init = grid[p].init
        /\ GridOK(rp) /\ rp.mem = grid[o].mem /\ rp.sz = grid[o].sz /\ rp.init = grid[o].init
    BY <1>2 DEF GridOK, GridFields
  <1> HIDE DEF ro, rp
  <1>4. /\ DOMAIN grid' = Grid /\ grid'[p] = rp /\ (o # p => grid'[o] = ro)
        /\ \A q \in Grid : q # o /\ q # p => grid'[q] = grid[q]
    BY <1>1, <1>2
  <1>5. DOMAIN g1 = Grid /\ g1[o] = ro /\ \A q \in Grid : q # o => g1[q] = grid[q]
    OBVIOUS
  <1> HIDE DEF g1
  <1>6. Shape'
    <2>1. \A q \in Grid : GridOK(grid'[q])  BY <1>3, <1>4 DEF IInv, Shape
    <2> QED  BY <1>1, <1>4, <2>1 DEF IInv, Shape
  <1>7. RefCounts'
    <2> SUFFICES ASSUME NEW m \in Mem
                 PROVE  Cardinality(HoldersIn(grid', m)) = Cardinality(HoldersIn(grid, m))
      BY <1>1 DEF IInv, RefCounts, Holders, HoldersIn
    <2>1. CASE o = p
      <3>1. HoldersIn(grid', m) = HoldersIn(grid, m)
        BY <1>3, <1>4, <2>1 DEF HoldersIn
      <3> QED  BY <3>1
    <2>2. CASE o # p
      <3>1. Cardinality(HoldersIn(g1, m))
              = Cardinality(HoldersIn(grid, m)) - One(grid[o].mem = m) + One(ro.mem = m)
        BY <1>2, <1>5, CountRebind
      <3>2. grid'[p] = rp /\ \A q \in Grid : q # p => grid'[q] = g1[q]
        BY <1>4, <1>5, <2>2
      <3>3. \A h : h[p] = rp /\ (\A q \in Grid : q # p => h[q] = g1[q]) =>
              Cardinality(HoldersIn(h, m))
                = Cardinality(HoldersIn(g1, m)) - One(g1[p].mem = m) + One(rp.mem = m)
        BY <1>5, CountRebind
      <3>4. Cardinality(HoldersIn(grid', m))
              = Cardinality(HoldersIn(g1, m)) - One(g1[p].mem = m) + One(rp.mem = m)
        BY <3>2, <3>3, Zenon
      <3>5. g1[p] = grid[p]  BY <1>5, <2>2
      <3>6. /\ One(g1[p].mem = m) = One(ro.mem = m)
            /\ One(rp.mem = m) = One(grid[o].mem = m)
        BY <1>3, <3>5
      <3>7. Cardinality(HoldersIn(grid, m)) \in Nat /\ One(ro.mem = m) \in Nat
            /\ One(grid[o].mem = m) \in Nat
        BY CountType DEF One
      <3>8. Cardinality(HoldersIn(grid', m))
              = Cardinality(HoldersIn(g1, m)) - One(ro.mem = m) + One(grid[o].mem = m)
        BY <3>4, <3>6, Zenon
      <3> QED  BY <3>1, <3>7, <3>8
    <2> QED  BY <2>1, <2>2
  <1>8. Alive'  BY <1>1 DEF IInv, Alive
  <1>9. Backed'
    <2> SUFFICES ASSUME NEW q \in Grid
                 PROVE  /\ grid'[q].mem # NoMem => mem[grid'[q].mem].live
                        /\ grid'[q].init =>
                             /\ grid'[q].mem # NoMem
                             /\ 0 .. Total(grid'[q].sz) - 1 \subseteq DOMAIN mem[grid'[q].mem].data
      BY <1>1 DEF Backed
    <2>1. \E s \in Grid : /\ grid'[q].mem = grid[s].mem /\ grid'[q].init = grid[s].init
                         /\ grid'[q].sz = grid[s].sz
      BY <1>3, <1>4
    <2> QED  BY <2>1 DEF IInv, Backed
  <1>10. NotShared'
    <2> SUFFICES ASSUME NEW q \in Grid, NEW s \in Grid, q # s, grid'[q].mem = grid'[s].mem
                 PROVE  grid'[q].mem = NoMem
      BY DEF NotShared
    <2>1. \A t \in Grid : grid'[t].mem = grid[IF t = o THEN p ELSE IF t = p THEN o ELSE t].mem
      BY <1>3, <1>4
    <2> QED  BY <2>1 DEF IInv, NotShared
  <1> QED  BY <1>6, <1>7, <1>8, <1>9, <1>10 DEF IInv

-----------------------------------------------------------------------------

\* The invariant is inductive: each operation is of one of the kinds above.
LEMMA NextInv == IInv /\ [Next]_vars => IInv'
  <1> SUFFICES ASSUME IInv, [Next]_vars PROVE IInv'  OBVIOUS
  <1>1. CASE UNCHANGED vars
    BY <1>1 DEF vars, IInv, Shape, RefCounts, Holders, Alive, Backed, NotShared
  <1>2. ASSUME NEW o \in Grid, NEW sz \in Sizes, Renew(o, sz) PROVE IInv'
    BY <1>2, RenewInv
  <1>3. ASSUME NEW o \in Grid, NEW sz \in Sizes, Resize(o, sz) PROVE IInv'
    BY <1>3, ResizeOwnInv, ResizeInPlaceInv DEF Resize
  <1>4. ASSUME NEW o \in Grid, SetMemory(o) PROVE IInv'
    BY <1>4, SetMemoryInv
  <1>5. ASSUME NEW o \in Grid, NEW m \in Ext, SetExternal(o, m) PROVE IInv'
    BY <1>5, SetExternalInv
  <1>6. ASSUME NEW o \in Grid, NEW k, NEW v, Set(o, k, v) PROVE IInv'
    BY <1>6, SetInv
  <1>7. ASSUME NEW o \in Grid, NEW p \in Grid, Copy(o, p) \/ Swap(o, p) PROVE IInv'
    BY <1>7, CopyInv, SwapInv
  <1>8. ASSUME NEW m \in Ext, NEW n, NEW v, NewExternal(m, n, v) PROVE IInv'
    BY <1>8, NewExternalInv
  <1>9. ASSUME NEW m \in Ext, Hold(m) \/ LetGo(m) PROVE IInv'
    BY <1>9, HoldInv, LetGoInv
  <1> QED  BY <1>1, <1>2, <1>3, <1>4, <1>5, <1>6, <1>7, <1>8, <1>9 DEF Next

\* The invariant of the specification.
LEMMA Inductive == Spec => []IInv
  <1>1. Init => IInv  BY InitInv
  <1>2. IInv /\ [Next]_vars => IInv'  BY NextInv
  <1> QED  BY <1>1, <1>2, PTL DEF Spec

\* The fields of the grids and of the memories keep their types: in particular
\* no reference count becomes negative.
THEOREM TypeCorrect == Spec => []TypeOK
  <1>1. IInv => TypeOK  BY DEF IInv, Shape, MemShape, GridOK, TypeOK
  <1> QED  BY <1>1, Inductive, PTL

\* Every reference count is the number of references there are, after any
\* sequence of constructions, resizes, copies, moves and swaps.
THEOREM CountsExact == Spec => []RefCounts
  <1>1. IInv => RefCounts  BY DEF IInv
  <1> QED  BY <1>1, Inductive, PTL

\* A memory that the grids made is freed with the last grid that has it.
THEOREM NothingLeaks == Spec => []NoLeak
  <1>1. IInv => NoLeak
    <2> SUFFICES ASSUME IInv, NEW m \in Mem \ Ext, mem[m].live PROVE Holders(m) # {}
      BY DEF NoLeak
    <2>1. mem[m].ref > 0 /\ m \notin held  BY DEF IInv, Alive, Shape
    <2>2. mem[m].ref = Cardinality(Holders(m)) + 0
      BY <2>1 DEF IInv, RefCounts
    <2>3. Cardinality(Holders(m)) \in Nat  BY CountType DEF Holders, HoldersIn
    <2>4. Cardinality(Holders(m)) > 0  BY <2>1, <2>2, <2>3
    <2> QED  BY <2>4, FS_EmptySet
  <1> QED  BY <1>1, Inductive, PTL

\* No grid refers to a deleted memory or to one with too few elements.
THEOREM AlwaysBacked == Spec => []Backed
  <1>1. IInv => Backed  BY DEF IInv
  <1> QED  BY <1>1, Inductive, PTL

\* No two grids share a memory.
THEOREM NeverShared == Spec => []NotShared
  <1>1. IInv => NotShared  BY DEF IInv
  <1> QED  BY <1>1, Inductive, PTL

-----------------------------------------------------------------------------
(* The refinement of GridStore. *)

\* LinId numbers the keys of a grid from 0, each with a number of its own.
LEMMA LinIdInside ==
    ASSUME NEW sz \in Nat \X Nat, NEW k \in Keys(sz)
    PROVE  LinId(sz, k) \in 0 .. Total(sz) - 1
  <1> DEFINE x == sz[1]  y == sz[2]  a == k[1]  b == k[2]
  <1>1. x \in Nat /\ y \in Nat /\ a \in 0 .. x - 1 /\ b \in 0 .. y - 1
    BY DEF Keys
  <1>2. LinId(sz, k) = a + b * x /\ Total(sz) = x * y
    BY DEF LinId, Total
  <1> HIDE DEF x, y, a, b
  <1>3. b * x \in Nat /\ x * y \in Nat /\ (b + 1) * x = b * x + x
    BY <1>1
  <1>4. (b + 1) * x <= y * x
    <2> DEFINE c == y - (b + 1)
    <2>1. c \in Nat /\ y = (b + 1) + c
      BY <1>1
    <2> HIDE DEF c
    <2>2. y * x = (b + 1) * x + c * x /\ c * x \in Nat /\ (b + 1) * x \in Nat
      BY <1>1, <2>1
    <2> QED  BY <2>2
  <1>5. y * x = x * y
    BY <1>1
  <1>6. a + b * x \in 0 .. x * y - 1
    <2> DEFINE p == b * x  q == x * y  r == (b + 1) * x
    <2>1. p \in Nat /\ q \in Nat /\ r = p + x /\ r <= q
      BY <1>3, <1>4, <1>5
    <2> HIDE DEF p, q, r
    <2>2. a + p \in 0 .. q - 1
      BY <1>1, <2>1
    <2> QED  BY <2>2 DEF p, q
  <1> QED  BY <1>2, <1>6

LEMMA LinIdOrdered ==
    ASSUME NEW x \in Nat, NEW a \in 0 .. x - 1, NEW c \in 0 .. x - 1,
           NEW b \in Nat, NEW d \in Nat, b < d
    PROVE  a + b * x < c + d * x
  <1> DEFINE e == d - (b + 1)
             p == b * x
             q == e * x
  <1>1. e \in Nat /\ d = (b + 1) + e
    OBVIOUS
  <1> HIDE DEF e
  <1>2. d * x = p + x + q /\ p \in Nat /\ q \in Nat
    BY <1>1
  <1> HIDE DEF p, q
  <1>3. a + p < c + (p + x + q)
    BY <1>2
  <1> QED  BY <1>2, <1>3 DEF p

LEMMA LinIdUnique ==
    ASSUME NEW sz \in Nat \X Nat, NEW k \in Keys(sz), NEW l \in Keys(sz),
           LinId(sz, k) = LinId(sz, l)
    PROVE  k = l
  <1> DEFINE x == sz[1]  a == k[1]  b == k[2]  c == l[1]  d == l[2]
  <1>1. x \in Nat /\ a \in 0 .. x - 1 /\ c \in 0 .. x - 1 /\ b \in Nat /\ d \in Nat
    BY DEF Keys
  <1>2. a + b * x = c + d * x
    BY DEF LinId
  <1>3. k = <<a, b>> /\ l = <<c, d>>
    BY DEF Keys
  <1> HIDE DEF x, a, b, c, d
  <1>4. b * x \in Nat /\ d * x \in Nat
    BY <1>1
  <1>5. ~ (b < d)
    <2>1. b < d => a + b * x < c + d * x
      BY <1>1, LinIdOrdered
    <2> QED  BY <1>1, <1>2, <1>4, <2>1
  <1>6. ~ (d < b)
    <2>1. d < b => c + d * x < a + b * x
      BY <1>1, LinIdOrdered
    <2> QED  BY <1>1, <1>2, <1>4, <2>1
  <1>7. b = d
    BY <1>1, <1>5, <1>6
  <1>8. a = c
    <2> DEFINE p == b * x
    <2>1. p \in Nat /\ a + p = c + p
      BY <1>2, <1>4, <1>7
    <2> HIDE DEF p
    <2> QED  BY <1>1, <2>1
  <1> QED  BY <1>3, <1>7, <1>8

\* A grid with no elements has no keys.
LEMMA NoKeys ==
    ASSUME NEW sz \in Nat \X Nat, Total(sz) = 0
    PROVE  Keys(sz) = {}
  <1> SUFFICES ASSUME NEW k \in Keys(sz) PROVE FALSE
    OBVIOUS
  <1>1. LinId(sz, k) \in 0 .. Total(sz) - 1
    BY LinIdInside
  <1> QED  BY <1>1

\* What a caller reads of the grid g when the memories are ms.
View(g, ms) ==
    [sz  |-> g.sz,
     val |-> [k \in Keys(g.sz) |-> IF g.init THEN ms[g.mem].data[LinId(g.sz, k)] ELSE Garbage]]

LEMMA ViewNow ==
    ASSUME NEW o \in Grid
    PROVE  GridView[o] = View(grid[o], mem) /\ GridView'[o] = View(grid'[o], mem')
  BY DEF GridView, View, Get

LEMMA ViewHas ==
    ASSUME NEW g, NEW ms
    PROVE  /\ View(g, ms).sz = g.sz
           /\ DOMAIN View(g, ms).val = Keys(g.sz)
           /\ \A k \in Keys(g.sz) : View(g, ms).val[k] =
                 IF g.init THEN ms[g.mem].data[LinId(g.sz, k)] ELSE Garbage
  <1> DEFINE f == [k \in Keys(g.sz) |-> IF g.init THEN ms[g.mem].data[LinId(g.sz, k)] ELSE Garbage]
  <1>1. View(g, ms) = [sz |-> g.sz, val |-> f]
    BY DEF View
  <1>2. /\ DOMAIN f = Keys(g.sz)
        /\ \A k \in Keys(g.sz) : f[k] = IF g.init THEN ms[g.mem].data[LinId(g.sz, k)] ELSE Garbage
    OBVIOUS
  <1> HIDE DEF f
  <1>3. View(g, ms).sz = g.sz /\ View(g, ms).val = f
    BY <1>1
  <1> QED  BY <1>2, <1>3

\* Two views with the same sizes and values.
LEMMA SameView ==
    ASSUME NEW g, NEW ms, NEW h, NEW ns, h.sz = g.sz,
           \A k \in Keys(g.sz) :
               (IF h.init THEN ns[h.mem].data[LinId(g.sz, k)] ELSE Garbage)
               = (IF g.init THEN ms[g.mem].data[LinId(g.sz, k)] ELSE Garbage)
    PROVE  View(h, ns) = View(g, ms)
  <1> DEFINE e == [k \in Keys(g.sz) |-> IF h.init THEN ns[h.mem].data[LinId(g.sz, k)] ELSE Garbage]
             f == [k \in Keys(g.sz) |-> IF g.init THEN ms[g.mem].data[LinId(g.sz, k)] ELSE Garbage]
  <1>1. e = f
    OBVIOUS
  <1>2. View(h, ns) = [sz |-> g.sz, val |-> e] /\ View(g, ms) = [sz |-> g.sz, val |-> f]
    BY DEF View
  <1> HIDE DEF e, f
  <1> QED  BY <1>1, <1>2

\* A grid whose record and whose memory stay is read as before.
LEMMA OthersStay ==
    ASSUME IInv, NEW o, \A p \in Grid \ {o} : grid'[p] = grid[p],
           \A p \in Grid \ {o} : grid[p].mem # NoMem => mem'[grid[p].mem] = mem[grid[p].mem]
    PROVE  \A p \in Grid \ {o} : GridView'[p] = GridView[p]
  <1> SUFFICES ASSUME NEW p \in Grid \ {o} PROVE GridView'[p] = GridView[p]
    OBVIOUS
  <1> DEFINE g == grid[p]
  <1>1. g.init => g.mem # NoMem
    BY DEF IInv, Backed
  <1>2. grid'[p] = g /\ (g.mem # NoMem => mem'[g.mem] = mem[g.mem])
    OBVIOUS
  <1>3. GridView[p] = View(g, mem) /\ GridView'[p] = View(g, mem')
    BY <1>2, ViewNow
  <1> HIDE DEF g
  <1>4. View(g, mem') = View(g, mem)
    BY <1>1, <1>2, SameView
  <1> QED  BY <1>3, <1>4

\* The grid o gets a new memory, and the memory it had is dropped before or after.
LEMMA NewMemory ==
    ASSUME IInv, NEW o \in Grid, NEW m \in Unused, NEW data,
           \/ mem' = Drop(Fresh(mem, m, data), grid[o].mem)
           \/ mem' = Fresh(Drop(mem, grid[o].mem), m, data)
    PROVE  /\ mem'[m].data = data
           /\ \A p \in Grid \ {o} : grid[p].mem # NoMem => mem'[grid[p].mem] = mem[grid[p].mem]
  <1> DEFINE old == grid[o].mem
  <1>1. m \in Mem /\ m # old /\ \A p \in Grid : grid[p].mem # m
    BY UnusedFree
  <1>2. old \in Mem \union {NoMem} /\ (old # NoMem => mem[old].ref > 0)
    BY HolderCounted DEF IInv, Shape, GridOK
  <1>3. MemShape(mem)
    BY DEF IInv, Shape
  <1>4. \A p \in Grid \ {o} : grid[p].mem # NoMem =>
          grid[p].mem \in Mem /\ grid[p].mem # old /\ grid[p].mem # m
    BY <1>1 DEF IInv, NotShared, Shape, GridOK
  <1>5. CASE mem' = Drop(Fresh(mem, m, data), old)
    <2> DEFINE ms == Fresh(mem, m, data)
    <2>1. /\ MemShape(ms) /\ ms[m].data = data /\ \A n \in Mem : n # m => ms[n] = mem[n]
      BY <1>1, <1>3, FreshAt
    <2> HIDE DEF ms, old
    <2>2. old # NoMem => ms[old].ref > 0
      BY <1>1, <1>2, <2>1
    <2>3. \A n \in Mem : n # old => Drop(ms, old)[n] = ms[n]
      BY <1>2, <2>1, <2>2, DropAt
    <2>4. mem' = Drop(ms, old)
      BY <1>5 DEF ms
    <2> QED  BY <1>1, <1>4, <2>1, <2>3, <2>4
  <1>6. CASE mem' = Fresh(Drop(mem, old), m, data)
    <2> DEFINE ms == Drop(mem, old)
    <2> HIDE DEF old
    <2>1. MemShape(ms) /\ \A n \in Mem : n # old => ms[n] = mem[n]
      BY <1>2, <1>3, DropAt
    <2>2. mem' = Fresh(ms, m, data)
      BY <1>6
    <2> HIDE DEF ms
    <2>3. Fresh(ms, m, data)[m].data = data /\ \A n \in Mem : n # m => Fresh(ms, m, data)[n] = ms[n]
      BY <1>1, <2>1, FreshAt
    <2> QED  BY <1>1, <1>4, <2>1, <2>2, <2>3
  <1> QED  BY <1>5, <1>6

\* The elements of the grid o at the places of the size sz.
LEMMA CopiedHas ==
    ASSUME NEW o, grid[o].sz \in Nat \X Nat, NEW sz \in Nat \X Nat,
           NEW k \in Keys(grid[o].sz) \cap Keys(sz)
    PROVE  Copied(o, sz)[LinId(sz, k)] = Get(o, k)
  <1> DEFINE common == Keys(grid[o].sz) \cap Keys(sz)
             i == LinId(sz, k)
             l == CHOOSE j \in common : LinId(sz, j) = i
  <1>1. i \in 0 .. Total(sz) - 1
    BY LinIdInside
  <1>2. l \in common /\ LinId(sz, l) = i /\ \E j \in common : LinId(sz, j) = i
    OBVIOUS
  <1>3. Copied(o, sz)[i] = Get(o, l)
    BY <1>1, <1>2 DEF Copied
  <1> HIDE DEF l
  <1>4. l = k
    BY <1>2, LinIdUnique
  <1> QED  BY <1>3, <1>4

-----------------------------------------------------------------------------

LEMMA SameKeys ==
    ASSUME NEW sz
    PROVE  Store!Keys(sz) = Keys(sz)
  BY DEF Store!Keys, Keys

\* One grid gets a new record and the memories of the others stay.
LEMMA OneChanges ==
    ASSUME IInv, NEW o \in Grid, NEW r, grid' = [grid EXCEPT ![o] = r],
           \A p \in Grid \ {o} : grid[p].mem # NoMem => mem'[grid[p].mem] = mem[grid[p].mem]
    PROVE  /\ GridView'[o] = View(r, mem')
           /\ \A p \in Grid \ {o} : GridView'[p] = GridView[p]
           /\ Store!Only(o, r.sz)
  <1>1. grid'[o] = r /\ \A p \in Grid \ {o} : grid'[p] = grid[p]
    BY DEF IInv, Shape
  <1>2. GridView'[o] = View(r, mem')
    BY <1>1, ViewNow
  <1>3. \A p \in Grid \ {o} : GridView'[p] = GridView[p]
    BY <1>1, OthersStay
  <1>4. View(r, mem').sz = r.sz /\ DOMAIN View(r, mem').val = Keys(r.sz)
    BY ViewHas
  <1>5. Store!Only(o, r.sz)
    BY <1>2, <1>3, <1>4, SameKeys DEF Store!Only
  <1> QED  BY <1>2, <1>3, <1>5

LEMMA ResizeMaps ==
    ASSUME IInv, ~ ResizeExternal, NEW o \in Grid, NEW sz \in Sizes, Resize(o, sz)
    PROVE  Store!Resize(o, sz)
  <1>1. sz \in Nat \X Nat /\ grid[o].sz \in Nat \X Nat /\ GridOK(grid[o])
    BY SizesAssumption DEF IInv, Shape, GridOK
  <1>2. /\ DOMAIN GridView[o].val = Keys(grid[o].sz)
        /\ \A k \in Keys(grid[o].sz) : GridView[o].val[k] =
              IF grid[o].init THEN Get(o, k) ELSE Garbage
    BY ViewNow, ViewHas DEF Get
  <1>3. CASE ResizeOwn(o, sz)
    <2>1. PICK m \in Unused :
            /\ grid' = [grid EXCEPT ![o] = [grid[o] EXCEPT !.sz = sz, !.mem = m, !.init = TRUE]]
            /\ mem' = Drop(Fresh(mem, m, Copied(o, sz)), grid[o].mem)
      BY <1>3 DEF ResizeOwn
    <2> DEFINE r == [grid[o] EXCEPT !.sz = sz, !.mem = m, !.init = TRUE]
    <2>2. r.sz = sz /\ r.mem = m /\ r.init
      BY <1>1 DEF GridOK, GridFields
    <2>3. grid' = [grid EXCEPT ![o] = r]
      BY <2>1
    <2> HIDE DEF r
    <2>4. /\ mem'[m].data = Copied(o, sz)
          /\ \A p \in Grid \ {o} : grid[p].mem # NoMem => mem'[grid[p].mem] = mem[grid[p].mem]
      BY <2>1, NewMemory
    <2>5. GridView'[o] = View(r, mem') /\ Store!Only(o, sz)
      BY <2>2, <2>3, <2>4, OneChanges
    <2>6. ASSUME NEW k \in Keys(grid[o].sz) \cap Keys(sz)
          PROVE  GridView'[o].val[k] = GridView[o].val[k]
      <3>1. GridView'[o].val[k] = Copied(o, sz)[LinId(sz, k)]
        BY <2>2, <2>4, <2>5, ViewHas
      <3>2. Copied(o, sz)[LinId(sz, k)] = Get(o, k)
        BY <1>1, CopiedHas
      <3>3. grid[o].init
        BY <1>1, <1>3, NoKeys DEF ResizeOwn, Readable
      <3> QED  BY <1>2, <3>1, <3>2, <3>3
    <2> QED  BY <1>2, <2>5, <2>6, SameKeys DEF Store!Resize
  <1>4. CASE ResizeInPlace(o, sz)
    <2>1. Total(grid[o].sz) = 0
      BY <1>4 DEF ResizeInPlace
    <2>2. Keys(grid[o].sz) = {}
      BY <1>1, <2>1, NoKeys
    <2> DEFINE r == [grid[o] EXCEPT !.sz = sz]
               m == grid[o].mem
               common == Keys(grid[o].sz) \cap Keys(sz)
               data == Allocated(mem[m].data, Total(sz))
               d == [i \in DOMAIN data |->
                       IF \E k \in common : LinId(sz, k) = i THEN Garbage ELSE data[i]]
               new == [mem[m] EXCEPT !.data = d]
    <2>3. grid' = [grid EXCEPT ![o] = r] /\ mem' = [mem EXCEPT ![m] = new]
      BY <1>4 DEF ResizeInPlace
    <2> HIDE DEF new, r
    <2>4. \A p \in Grid \ {o} : grid[p].mem # NoMem => mem'[grid[p].mem] = mem[grid[p].mem]
      BY <2>3 DEF IInv, NotShared
    <2>5. r.sz = sz
      BY <1>1 DEF GridOK, GridFields, r
    <2>6. Store!Only(o, r.sz)
      BY <2>3, <2>4, OneChanges
    <2> QED  BY <1>2, <2>2, <2>5, <2>6 DEF Store!Resize
  <1> QED  BY <1>3, <1>4 DEF Resize

LEMMA CopyMaps ==
    ASSUME IInv, NEW o \in Grid, NEW p \in Grid, Copy(o, p)
    PROVE  Store!Copy(o, p)
  <1> DEFINE sz == grid[p].sz
  <1>1. sz \in Nat \X Nat /\ (grid[p].init \/ Keys(sz) = {})
    BY NoKeys DEF IInv, Shape, GridOK, Copy, Readable
  <1>2. PICK m \in Unused :
          /\ grid' = [grid EXCEPT ![o] = [sz |-> sz, box |-> grid[o].box, mem |-> m,
                                          init |-> TRUE, external |-> FALSE]]
          /\ mem' = Drop(Fresh(mem, m, Copied(p, sz)), grid[o].mem)
    BY DEF Copy
  <1> DEFINE r == [sz |-> sz, box |-> grid[o].box, mem |-> m, init |-> TRUE, external |-> FALSE]
  <1>3. r.sz = sz /\ r.mem = m /\ r.init
    OBVIOUS
  <1>4. grid' = [grid EXCEPT ![o] = r]
    BY <1>2
  <1> HIDE DEF r
  <1>5. /\ mem'[m].data = Copied(p, sz)
        /\ \A q \in Grid \ {o} : grid[q].mem # NoMem => mem'[grid[q].mem] = mem[grid[q].mem]
    BY <1>2, NewMemory
  <1>6. /\ GridView'[o] = View(r, mem')
        /\ \A q \in Grid \ {o} : GridView'[q] = GridView[q]
    BY <1>4, <1>5, OneChanges
  <1>7. \A k \in Keys(sz) : Copied(p, sz)[LinId(sz, k)] = Get(p, k)
    BY <1>1, CopiedHas
  <1>8. View(r, mem') = View(grid[p], mem)
    <2> DEFINE g == grid[p]
    <2>1. \A k \in Keys(g.sz) :
            (IF r.init THEN mem'[r.mem].data[LinId(g.sz, k)] ELSE Garbage)
            = (IF g.init THEN mem[g.mem].data[LinId(g.sz, k)] ELSE Garbage)
      BY <1>1, <1>3, <1>5, <1>7 DEF Get
    <2>2. r.sz = g.sz
      BY <1>3
    <2> HIDE DEF g
    <2>3. View(r, mem') = View(g, mem)
      BY <2>1, <2>2, SameView
    <2> QED  BY <2>3 DEF g
  <1>9. GridView'[o] = GridView[p]
    BY <1>6, <1>8, ViewNow
  <1> QED  BY <1>6, <1>9 DEF Store!Copy, GridView

LEMMA SwapMaps ==
    ASSUME IInv, NEW o \in Grid, NEW p \in Grid, Swap(o, p)
    PROVE  Store!Swap(o, p)
  <1> DEFINE a == [grid[p] EXCEPT !.box = grid[o].box]
             b == [grid[o] EXCEPT !.box = grid[p].box]
  <1>1. grid' = [grid EXCEPT ![o] = a, ![p] = b] /\ mem' = mem
    BY DEF Swap
  <1>2. GridOK(grid[o]) /\ GridOK(grid[p]) /\ DOMAIN grid = Grid
    BY DEF IInv, Shape
  <1>3. /\ a.sz = grid[p].sz /\ a.mem = grid[p].mem /\ a.init = grid[p].init
        /\ b.sz = grid[o].sz /\ b.mem = grid[o].mem /\ b.init = grid[o].init
    BY <1>2 DEF GridOK, GridFields
  <1> HIDE DEF a, b
  <1>4. View(a, mem) = View(grid[p], mem) /\ View(b, mem) = View(grid[o], mem)
    BY <1>3, SameView
  <1>5. /\ grid'[p] = b /\ (o # p => grid'[o] = a)
        /\ \A q \in Grid : q # o /\ q # p => grid'[q] = grid[q]
    BY <1>1, <1>2
  <1>6. /\ GridView'[p] = GridView[o] /\ (o # p => GridView'[o] = GridView[p])
        /\ \A q \in Grid : q # o /\ q # p => GridView'[q] = GridView[q]
    <2>1. GridView'[p] = GridView[o]
      BY <1>1, <1>4, <1>5, ViewNow
    <2>2. ASSUME o # p PROVE GridView'[o] = GridView[p]
      <3>1. GridView'[o] = View(grid'[o], mem') /\ GridView[p] = View(grid[p], mem)
        BY ViewNow
      <3>2. grid'[o] = a
        BY <1>5, <2>2
      <3> QED  BY <1>1, <1>4, <3>1, <3>2
    <2>3. \A q \in Grid : q # o /\ q # p => GridView'[q] = GridView[q]
      BY <1>1, <1>5, ViewNow
    <2> QED  BY <2>1, <2>2, <2>3
  <1> QED  BY <1>6 DEF Store!Swap, GridView

LEMMA SetMaps ==
    ASSUME IInv, NEW o \in Grid, NEW k \in Keys(grid[o].sz), NEW v \in Val, Set(o, k, v)
    PROVE  Store!Set(o, k, v)
  <1> DEFINE g == grid[o]
             m == g.mem
             i == LinId(g.sz, k)
             d == [mem[m].data EXCEPT ![i] = v]
             new == [mem[m] EXCEPT !.data = d]
  <1>1. mem' = [mem EXCEPT ![m] = new] /\ grid' = grid /\ g.init
    BY DEF Set
  <1>2. g.sz \in Nat \X Nat /\ m \in Mem /\ m # NoMem
        /\ 0 .. Total(g.sz) - 1 \subseteq DOMAIN mem[m].data
    BY <1>1 DEF IInv, Shape, GridOK, Backed
  <1>3. i \in DOMAIN mem[m].data
    BY <1>2, LinIdInside
  <1>4. d[i] = v /\ \A j : j # i => d[j] = mem[m].data[j]
    BY <1>3
  <1>5. DOMAIN mem = Mem /\ DOMAIN mem[m] = MemFields
    BY <1>2 DEF IInv, Shape, MemShape
  <1> HIDE DEF d
  <1>6. new.data = d
    BY <1>5 DEF MemFields
  <1> HIDE DEF new
  <1>7. mem'[m].data = d
    BY <1>1, <1>2, <1>5, <1>6
  <1>8. \A p \in Grid \ {o} : grid[p].mem # NoMem => mem'[grid[p].mem] = mem[grid[p].mem]
    BY <1>1 DEF IInv, NotShared
  <1>9. \A p \in Grid \ {o} : GridView'[p] = GridView[p]
    BY <1>1, <1>8, OthersStay
  <1>10. GridView'[o] = View(g, mem') /\ GridView[o] = View(g, mem)
    BY <1>1, ViewNow
  <1>11. View(g, mem') = [View(g, mem) EXCEPT !.val = [View(g, mem).val EXCEPT ![k] = v]]
    <2> DEFINE e == [l \in Keys(g.sz) |-> IF g.init THEN mem[m].data[LinId(g.sz, l)] ELSE Garbage]
               f == [l \in Keys(g.sz) |-> IF g.init THEN mem'[m].data[LinId(g.sz, l)] ELSE Garbage]
    <2>1. View(g, mem) = [sz |-> g.sz, val |-> e] /\ View(g, mem') = [sz |-> g.sz, val |-> f]
      BY DEF View
    <2>2. \A l \in Keys(g.sz) : l # k => LinId(g.sz, l) # i
      BY <1>2, LinIdUnique
    <2>3. f = [e EXCEPT ![k] = v]
      <3>1. e = [l \in Keys(g.sz) |-> mem[m].data[LinId(g.sz, l)]]
        BY <1>1
      <3>2. f = [l \in Keys(g.sz) |-> d[LinId(g.sz, l)]]
        BY <1>1, <1>7
      <3>3. \A l \in Keys(g.sz) : d[LinId(g.sz, l)] =
               IF l = k THEN v ELSE mem[m].data[LinId(g.sz, l)]
        BY <1>4, <2>2
      <3> HIDE DEF e, f, m, i, g
      <3> QED  BY <3>1, <3>2, <3>3
    <2> HIDE DEF e, f
    <2> QED  BY <2>1, <2>3
  <1> QED  BY <1>9, <1>10, <1>11 DEF Store!Set, GridView

LEMMA RenewMaps ==
    ASSUME IInv, NEW o \in Grid, SetMemory(o) \/ \E m \in Ext : SetExternal(o, m)
    PROVE  Store!Renew(o, grid[o].sz)
  <1>1. GridOK(grid[o])
    BY DEF IInv, Shape
  <1>2. CASE SetMemory(o)
    <2>1. PICK m \in Unused :
            /\ mem' = Fresh(Drop(mem, grid[o].mem), m, Unwritten(Total(grid[o].sz)))
            /\ grid' = [grid EXCEPT ![o] = [grid[o] EXCEPT !.mem = m, !.init = TRUE]]
      BY <1>2 DEF SetMemory
    <2> DEFINE r == [grid[o] EXCEPT !.mem = m, !.init = TRUE]
    <2>2. r.sz = grid[o].sz /\ grid' = [grid EXCEPT ![o] = r]
      BY <1>1, <2>1 DEF GridOK, GridFields
    <2> HIDE DEF r
    <2>3. \A p \in Grid \ {o} : grid[p].mem # NoMem => mem'[grid[p].mem] = mem[grid[p].mem]
      BY <2>1, NewMemory
    <2>4. Store!Only(o, r.sz)
      BY <2>2, <2>3, OneChanges
    <2> QED  BY <2>2, <2>4 DEF Store!Renew
  <1>3. ASSUME NEW m \in Ext, SetExternal(o, m) PROVE Store!Renew(o, grid[o].sz)
    <2> DEFINE old == grid[o].mem
               ms == Attach(mem, old, m)
               new == [ms[m] EXCEPT !.data = Allocated(ms[m].data, Total(grid[o].sz))]
               r == [grid[o] EXCEPT !.mem = m, !.init = TRUE, !.external = TRUE]
    <2>1. /\ \A p \in Grid \ {o} : grid[p].mem # m
          /\ mem' = [ms EXCEPT ![m] = new]
          /\ grid' = [grid EXCEPT ![o] = r]
      BY <1>3 DEF SetExternal
    <2>2. r.sz = grid[o].sz
      BY <1>1 DEF GridOK, GridFields
    <2> HIDE DEF r, new
    <2>3. old \in Mem \union {NoMem} /\ (old # NoMem => mem[old].ref > 0) /\ MemShape(mem)
      BY HolderCounted DEF IInv, Shape, GridOK
    <2>4. \A p \in Grid \ {o} : grid[p].mem # NoMem => grid[p].mem \in Mem /\ grid[p].mem # old
      BY DEF IInv, Shape, GridOK, NotShared
    <2> HIDE DEF old
    <2>5. \A n \in Mem : n # old => Drop(mem, old)[n] = mem[n]
      BY <2>3, DropAt
    <2>6. \A n \in Mem : n # old /\ n # m => ms[n] = mem[n]
      BY <2>5 DEF Attach
    <2> HIDE DEF ms
    <2>7. \A p \in Grid \ {o} : grid[p].mem # NoMem => mem'[grid[p].mem] = mem[grid[p].mem]
      BY <2>1, <2>4, <2>6
    <2>8. Store!Only(o, r.sz)
      BY <2>1, <2>7, OneChanges
    <2> QED  BY <2>2, <2>8 DEF Store!Renew
  <1> QED  BY <1>2, <1>3

LEMMA StoreInit ==
    ASSUME Init
    PROVE  Store!Init
  <1>1. \A o \in Grid : grid[o].sz = <<0, 0>>
    BY DEF Init, Constructed
  <1>2. \A o \in Grid : GridView[o].sz = grid[o].sz
    BY ViewNow, ViewHas
  <1> QED  BY <1>1, <1>2 DEF Store!Init

\* A caller who reads the grids sees what GridStore promises: a resize keeps
\* what both sizes have, a copy is equal to its source, a swap exchanges two
\* grids, an element that is written is the only one that changes, and no grid
\* changes with another.  It holds as long as no grid with elements in an
\* external memory is resized (grid_base_implementation.hpp:346-479, 980-1040).
THEOREM GridImplements == ~ ResizeExternal => (Spec => ImplementsStore)
  <1> SUFFICES ASSUME ~ ResizeExternal PROVE Spec => ImplementsStore
    OBVIOUS
  <1> DEFINE Maps ==
        \A o \in Grid :
            /\ \A sz \in Sizes : Resize(o, sz) => Store!Resize(o, sz)
            /\ \A p \in Grid : /\ Copy(o, p) => Store!Copy(o, p)
                               /\ Swap(o, p) => Store!Swap(o, p)
            /\ \A k \in Keys(grid[o].sz), v \in Val : Set(o, k, v) => Store!Set(o, k, v)
            /\ SetMemory(o) \/ (\E m \in Ext : SetExternal(o, m))
                 => Store!Renew(o, grid[o].sz)
  <1>1. Init => Store!Init
    BY StoreInit
  <1>2. IInv => Maps
    BY ResizeMaps, CopyMaps, SwapMaps, SetMaps, RenewMaps
  <1>3. QED
    BY <1>1, <1>2, Inductive, PTL DEF Spec, ImplementsStore

=============================================================================
