----------------------------- MODULE GraphStore -----------------------------
(***************************************************************************)
(* What Graph_CSR (Graph/map_graph.hpp) promises: a directed graph whose   *)
(* vertices and edges are numbered in the order they were added and carry  *)
(* properties, and whose vertices list their edges in that order.  There   *)
(* is no limit to the edges of a vertex.                                   *)
(***************************************************************************)
EXTENDS Naturals, Sequences

CONSTANTS Obj, VProp, EProp, Unset

VARIABLE graph    \* per object: vertices, edges of each vertex, edges

\* A graph made with n vertices, whose properties are still to be set.
Fresh(n) == [verts |-> [i \in 1 .. n |-> Unset],
             adj   |-> [i \in 1 .. n |-> <<>>],
             props |-> <<>>]

Init == \A o \in Obj : graph[o] = Fresh(Len(graph[o].verts))

AddVertex(o, p) ==
  graph' = [graph EXCEPT ![o].verts = Append(@, p), ![o].adj = Append(@, <<>>)]

\* Vertices are named from 0, as the code does.
AddEdge(o, v1, v2, ed) ==
  graph' = [graph EXCEPT
    ![o].adj[v1 + 1] = Append(@, [vid |-> v2, eid |-> Len(graph[o].props)]),
    ![o].props = Append(@, ed)]

Clear(o)   == graph' = [graph EXCEPT ![o] = Fresh(0)]
Copy(o, p) == graph' = [graph EXCEPT ![o] = graph[p]]
Swap(o, p) == graph' = [graph EXCEPT ![o] = graph[p], ![p] = graph[o]]

Next == \E o \in Obj :
  \/ \E p \in VProp : AddVertex(o, p)
  \/ \E v1, v2 \in 0 .. Len(graph[o].verts) - 1, ed \in EProp :
       AddEdge(o, v1, v2, ed)
  \/ Clear(o)
  \/ \E p \in Obj : Copy(o, p) \/ Swap(o, p)

Spec == Init /\ [][Next]_graph
=============================================================================
