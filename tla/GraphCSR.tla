------------------------------ MODULE GraphCSR ------------------------------
(***************************************************************************)
(* Graph_CSR (Graph/map_graph.hpp): vertex i keeps its edges in the        *)
(* entries from i * v_slot of one array, e_l, and their number in v_l[i].  *)
(*                                                                         *)
(* An openfpm::vector is a function on 0 .. size - 1; resize leaves the    *)
(* new entries unwritten (Unset).  A write outside an array changes        *)
(* nothing here; the invariants exclude it.                                *)
(***************************************************************************)
EXTENDS Naturals, FiniteSets, Sequences

CONSTANTS
  Obj,           \* the graphs of the program
  VProp, EProp,  \* vertex and edge properties
  Unset,         \* what an unwritten entry holds
  Counts, Slots, \* the arguments n_vertex and n_slot graphs are made with
  MaxVertex,     \* bound on the vertices of a graph
  MaxDegree,     \* bound on the edges of a vertex
  MaxEdge,       \* bound on the edges of a graph
  Careless       \* whether callers also make the calls that the class, which
                 \* checks none of them, gets wrong

ASSUME BoundsAssumption == {MaxVertex, MaxDegree, MaxEdge} \subseteq Nat
ASSUME StartsAssumption == Counts \subseteq 0 .. MaxVertex /\ Slots \subseteq Nat \ {0}
ASSUME UnsetAssumption == Unset \notin VProp \cup EProp

VARIABLE g    \* the graphs

Size(a) == Cardinality(DOMAIN a)
Resize(a, n) == [i \in 0 .. n - 1 |-> IF i \in DOMAIN a THEN a[i] ELSE Unset]
Add(a, x) == [i \in 0 .. Size(a) |-> IF i = Size(a) THEN x ELSE a[i]]

\* A write that is lost when it is outside the array.
Set(a, i, x) == IF i \in DOMAIN a THEN [a EXCEPT ![i] = x] ELSE a

None == [i \in {} |-> Unset]

\* Graph_CSR(n_vertex, n_slot)
Constructed(n_vertex, n_slot) ==
  [v_slot |-> n_slot, v |-> Resize(None, n_vertex),
   v_l |-> [i \in 0 .. n_vertex - 1 |-> 0],
   e |-> None, e_l |-> None, e_invalid |-> Resize(None, 1)]

\* getNVertex, getNChilds, getNEdge, getChild
NVertex(h)     == Size(h.v)
NChilds(h, c)  == h.v_l[c]
Child(h, c, s) == h.e_l[c * h.v_slot + s]

\* The edges as the accessors name them: vertex and position in its list.
Keys(h) == {k \in (0 .. NVertex(h) - 1) \X (0 .. MaxDegree) : k[2] < NChilds(h, k[1])}

Init == g \in [Obj -> {Constructed(n, s) : n \in Counts, s \in Slots}]
-----------------------------------------------------------------------------
\* addVertex(vrt).  It makes room for the edges of one vertex: a graph made with
\* vertices has room for theirs only from its first edge on.
AddVertex(o, vrt) ==
  /\ NVertex(g[o]) < MaxVertex
  /\ Careless \/ Size(g[o].e_l) = NVertex(g[o]) * g[o].v_slot
  /\ g' = [g EXCEPT ![o].v = Add(@, vrt), ![o].v_l = Add(@, 0),
                    ![o].e_l = Resize(@, Size(@) + g[o].v_slot)]

\* addEdge_ when the vertex is full: the graph that is swapped in.  The
\* constructor is given the slots for the vertices and the vertices for the
\* slots, and the vertices are read at twice their index.
Reallocated(h) ==
  LET new == Constructed(2 * h.v_slot, NVertex(h))
  IN [new EXCEPT !.v = [i \in DOMAIN @ |->
        IF i < NVertex(h) /\ 2 * i < NVertex(h) THEN h.v[2 * i] ELSE Unset]]

\* addEdge_: room for the edge, where x is the number of edges v1 has.
WithRoom(h, x) ==
  IF x >= Size(h.e_l)
  THEN [h EXCEPT !.e_l = Resize(@, NVertex(h) * h.v_slot)]
  ELSE h

\* Fault: the edge is numbered after it has been added.
LinkedLate(h, v1, x, v2, ed) ==
  [h EXCEPT !.e_l = Set(@, v1 * h.v_slot + x, [vid |-> v2, eid |-> Size(h.e) + 1]),
            !.e   = Add(@, ed),
            !.v_l = Set(@, v1, IF v1 \in DOMAIN @ THEN @[v1] + 1 ELSE 0)]

\* Fault: the property of the edge is not stored.
LinkedBare(h, v1, x, v2, ed) ==
  [h EXCEPT !.e_l = Set(@, v1 * h.v_slot + x, [vid |-> v2, eid |-> Size(h.e)]),
            !.e   = Add(@, Unset),
            !.v_l = Set(@, v1, IF v1 \in DOMAIN @ THEN @[v1] + 1 ELSE 0)]

\* addEdge_ and addEdge: the edge at position x of v1, its property, the count.
Linked(h, v1, x, v2, ed) ==
  [h EXCEPT !.e_l = Set(@, v1 * h.v_slot + x, [vid |-> v2, eid |-> Size(h.e)]),
            !.e   = Add(@, ed),
            !.v_l = Set(@, v1, IF v1 \in DOMAIN @ THEN @[v1] + 1 ELSE 0)]

\* addEdge(v1, v2, ed).  With CheckExistence a vertex that is not there makes it
\* return e_invalid and change nothing; with NoCheck the caller sees to that.
AddEdge(o, v1, v2, ed) ==
  LET h == g[o]
      x == NChilds(h, v1)
  IN /\ v1 < NVertex(h) /\ v2 < NVertex(h)
     /\ x < MaxDegree /\ Size(h.e) < MaxEdge
     /\ Careless \/ x < h.v_slot
     /\ LET room == WithRoom(IF x >= h.v_slot THEN Reallocated(h) ELSE h, x)
        IN g' = [g EXCEPT ![o] = Linked(room, v1, x, v2, ed)]

\* clear(): every vector is resized to 0, v_slot stays.
Clear(o) ==
  g' = [g EXCEPT ![o] = [Constructed(0, g[o].v_slot) EXCEPT !.e_invalid = None]]

\* operator=(const Graph_CSR &) and the move constructor, which calls it on an
\* lvalue: swap with a duplicate.
Copy(o, p) == g' = [g EXCEPT ![o] = g[p]]

\* swap, of lvalues and of rvalues
Swap(o, p) == g' = [g EXCEPT ![o] = g[p], ![p] = g[o]]

\* operator=(Graph_CSR &&): v_slot is exchanged, and once more by swap.  Entries
\* stay where they are if the slots are the same.
MoveAssign(o, p) ==
  /\ o # p
  /\ \/ Careless
     \/ g[o].v_slot = g[p].v_slot
     \/ Size(g[o].e_l) = 0 /\ Size(g[p].e_l) = 0
  /\ g' = [g EXCEPT ![o] = [g[p] EXCEPT !.v_slot = g[o].v_slot],
                    ![p] = [g[o] EXCEPT !.v_slot = g[p].v_slot]]

Next == \E o \in Obj :
  \/ \E vrt \in VProp : AddVertex(o, vrt)
  \/ \E v1, v2 \in 0 .. MaxVertex - 1, ed \in EProp : AddEdge(o, v1, v2, ed)
  \/ Clear(o)
  \/ \E p \in Obj : Copy(o, p) \/ Swap(o, p) \/ MoveAssign(o, p)

Spec == Init /\ [][Next]_g
-----------------------------------------------------------------------------
\* edge_iterator::operator++ from the key <<pos, pos_e>>.
NextVertex(h, pos) ==
  LET further == {c \in pos + 1 .. NVertex(h) - 1 : NChilds(h, c) # 0}
  IN IF further = {} THEN NVertex(h)
     ELSE CHOOSE c \in further : \A d \in further : c <= d

\* Fault: vertices without edges are not skipped.
AdvanceNoSkip(h, ek) ==
  IF ek[2] + 1 >= NChilds(h, ek[1]) THEN <<ek[1] + 1, 0>> ELSE <<ek[1], ek[2] + 1>>

Advance(h, ek) ==
  IF ek[2] + 1 >= NChilds(h, ek[1]) THEN <<NextVertex(h, ek[1]), 0>>
  ELSE <<ek[1], ek[2] + 1>>

\* The keys getEdgeIterator gives, from edge_key::begin to !isNext.
Walk(h) ==
  LET Bound == MaxVertex + MaxEdge
      key[n \in 0 .. Bound] ==
        IF n = 0 THEN <<0, 0>>
        ELSE IF key[n - 1][1] < NVertex(h) THEN Advance(h, key[n - 1])
        ELSE key[n - 1]
      ended == {n \in 0 .. Bound : key[n][1] >= NVertex(h)}
      len == IF ended = {} THEN Bound
             ELSE CHOOSE n \in ended : \A m \in ended : n <= m
  IN [n \in 1 .. len |-> key[n - 1]]
-----------------------------------------------------------------------------
\* The counters, the vertices and the edges are arrays of the right size.
TypeOK == \A o \in Obj :
  /\ DOMAIN g[o].v = 0 .. NVertex(g[o]) - 1 /\ DOMAIN g[o].v_l = DOMAIN g[o].v
  /\ \A c \in DOMAIN g[o].v_l : g[o].v_l[c] \in 0 .. MaxDegree
  /\ DOMAIN g[o].e = 0 .. Size(g[o].e) - 1
  /\ DOMAIN g[o].e_l = 0 .. Size(g[o].e_l) - 1

\* Every edge of every vertex lies inside e_l and inside the slots of its own
\* vertex: what map_graph.hpp:394 is sure of when it stores an edge.
RoomForEdges == \A o \in Obj : \A k \in Keys(g[o]) :
  /\ k[2] < g[o].v_slot
  /\ k[1] * g[o].v_slot + k[2] \in DOMAIN g[o].e_l

\* The edge ids in e_l number the edges: each property belongs to exactly one
\* edge of one vertex.
EdgesNumbered == \A o \in Obj : \A id \in DOMAIN g[o].e :
  \E k \in Keys(g[o]) : \A l \in Keys(g[o]) :
    k = l <=> Child(g[o], l[1], l[2]).eid = id

\* The adjacency array and the counts belong together: its parts have the sizes
\* the vertices and edges say, every edge has its place (map_graph.hpp:394) and
\* the number of its own property (405), whatever was copied, moved or exchanged.
WellFormed == TypeOK /\ RoomForEdges /\ EdgesNumbered

\* The edge iterator gives the keys of S, each once.
Visits(h, S) == /\ {Walk(h)[n] : n \in DOMAIN Walk(h)} = S
                /\ Len(Walk(h)) = Cardinality(S)

\* The edge iterator names every edge once, and in a graph with vertices the key
\* it starts at: <<0, 0>> comes first even if the first vertex has no edge, and
\* no other vertex without edges shows (map_graph.hpp:188, 206).
WalkVisitsEdges == \A o \in Obj :
  Visits(g[o], Keys(g[o]) \cup {<<c, 0>> : c \in DOMAIN g[o].v \cap {0}})

\* Nothing but edges: edge_iterator is documented without restriction
\* (map_graph.hpp:164), and operator++ skips "every vertex without edges" (206).
EveryWalkVisitsEdges == \A o \in Obj : Visits(g[o], Keys(g[o]))

\* The graph as the accessors show it.
GraphView == [o \in Obj |->
  [verts |-> [i \in 1 .. NVertex(g[o]) |-> g[o].v[i - 1]],
   adj   |-> [i \in 1 .. NVertex(g[o]) |->
               [s \in 1 .. NChilds(g[o], i - 1) |-> Child(g[o], i - 1, s - 1)]],
   props |-> [i \in 1 .. Size(g[o].e) |-> g[o].e[i - 1]]]]

Store == INSTANCE GraphStore WITH graph <- GraphView

\* The graph is the directed graph GraphStore describes.
ImplementsGraph == Store!Init /\ [][Store!Next]_GraphView

\* Adding an edge never loses one: a vertex with more edges than slots is given
\* "double slot" (map_graph.hpp:374).
EdgesOnlyGrow == [][\A o \in Obj :
  (\E v1, v2 \in 0 .. MaxVertex - 1, ed \in EProp : AddEdge(o, v1, v2, ed))
    => Size(g'[o].e) = Size(g[o].e) + 1 /\ NVertex(g'[o]) = NVertex(g[o])]_g

\* "Copy the graph", says map_graph.hpp:533 of the move assignment: afterwards
\* the graph is what the other one was, v_slot included, as operator== compares.
MoveTakesAll == [][\A o, p \in Obj : MoveAssign(o, p) => g'[o] = g[p]]_g

\* addEdge returns "an invalid edge, is a kind of stub object" when it refuses
\* (map_graph.hpp:888): the stub must be there.
InvalidEdgeThere == \A o \in Obj : 0 \in DOMAIN g[o].e_invalid
=============================================================================
