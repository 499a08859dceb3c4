--------------------------- MODULE GraphCSRProofs ---------------------------
(***************************************************************************)
(* GraphCSR for any number of graphs, vertices, edges and slots, graphs    *)
(* made with and without vertices.  The class checks nothing of what its   *)
(* callers ask, and what they have to see to is Careful: a vertex is given *)
(* no more edges than slots; a vertex is added to a graph that was made    *)
(* with vertices only after its first edge; and graphs with other slots    *)
(* are moved into each other only while neither has entries.  Each of the  *)
(* three is needed: Careless calls break RoomForEdges or ImplementsGraph.  *)
(***************************************************************************)
EXTENDS GraphCSR, FiniteSetTheorems, NaturalsInduction, WellFoundedInduction, TLAPS

Careful == Careless = FALSE

Links == [vid : Nat, eid : Nat]

Fields(h) ==
  h = [v_slot |-> h.v_slot, v |-> h.v, v_l |-> h.v_l, e |-> h.e, e_l |-> h.e_l,
       e_invalid |-> h.e_invalid]

\* What is proved of a graph with its room: h has n vertices and m edges.
Sized(h, n, m) ==
  /\ Fields(h)
  /\ h.v_slot \in Slots
  /\ h.v \in [0 .. n - 1 -> VProp \cup {Unset}]
  /\ h.v_l \in [0 .. n - 1 -> 0 .. MaxDegree]
  /\ \A c \in 0 .. n - 1 : h.v_l[c] <= h.v_slot
  /\ h.e \in [0 .. m - 1 -> EProp]
  /\ h.e_l \in [0 .. n * h.v_slot - 1 -> Links \cup {Unset}]
  /\ n <= MaxVertex /\ m <= MaxEdge

\* Every edge in use is written and has a number, and every number one edge.
Linking(h, n, m) ==
  /\ \A c \in 0 .. n - 1 : \A s \in 0 .. h.v_l[c] - 1 :
       Child(h, c, s) \in Links /\ Child(h, c, s).eid \in 0 .. m - 1
  /\ \A id \in 0 .. m - 1 : \E c \in 0 .. n - 1 : \E s \in 0 .. h.v_l[c] - 1 :
       \A d \in 0 .. n - 1 : \A t \in 0 .. h.v_l[d] - 1 :
         c = d /\ s = t <=> Child(h, d, t).eid = id

Roomy(h) == \E n, m \in Nat : Sized(h, n, m) /\ Linking(h, n, m)

\* A graph as it was made: n vertices without edges, and without room for any.
Bare(h, n) ==
  /\ Fields(h)
  /\ h.v_slot \in Slots
  /\ h.v \in [0 .. n - 1 -> VProp \cup {Unset}]
  /\ h.v_l = [c \in 0 .. n - 1 |-> 0]
  /\ h.e = None /\ h.e_l = None
  /\ n <= MaxVertex

GraphOK(h) == Roomy(h) \/ \E n \in Nat : Bare(h, n)

Inv == g = [o \in Obj |-> g[o]] /\ \A o \in Obj : GraphOK(g[o])

-----------------------------------------------------------------------------
(* Arrays. *)

LEMMA SizeOf ==
  ASSUME NEW n \in Nat, NEW a, DOMAIN a = 0 .. n - 1
  PROVE  Size(a) = n
<1>1. Cardinality(0 .. n - 1) = n
  BY FS_Interval
<1>2. QED
  BY <1>1 DEF Size

LEMMA AddOf ==
  ASSUME NEW n \in Nat, NEW a, DOMAIN a = 0 .. n - 1, NEW x
  PROVE  Add(a, x) = [i \in 0 .. n |-> IF i = n THEN x ELSE a[i]]
<1>1. Size(a) = n
  BY SizeOf
<1>2. QED
  BY <1>1 DEF Add

LEMMA ResizeOf ==
  ASSUME NEW n \in Nat, NEW k \in Nat, NEW a, DOMAIN a = 0 .. n - 1
  PROVE  Resize(a, k) = [i \in 0 .. k - 1 |-> IF i < n THEN a[i] ELSE Unset]
BY DEF Resize

\* Two positions of two vertices are the same place only if they are the same.
LEMMA PlacesApart ==
  ASSUME NEW w \in Nat, NEW c \in Nat, NEW s \in 0 .. w - 1, NEW d \in Nat, NEW t \in 0 .. w - 1,
         c * w + s = d * w + t
  PROVE  c = d /\ s = t
<1>1. ASSUME NEW p \in Nat, NEW q \in Nat, p < q
      PROVE  p * w + w <= q * w
  <2>1. PICK k \in Nat : q = p + 1 + k
    <3>1. q - p - 1 \in Nat /\ q = p + 1 + (q - p - 1)
      BY <1>1
    <3>2. QED
      BY <3>1
  <2>2. (p + 1 + k) * w = p * w + w + k * w /\ k * w \in Nat
    OBVIOUS
  <2>3. QED
    BY <2>1, <2>2
<1>2. c * w \in Nat /\ d * w \in Nat
  OBVIOUS
<1>3. ~(c < d)
  BY <1>1, <1>2
<1>4. ~(d < c)
  BY <1>1, <1>2
<1>5. c = d
  BY <1>3, <1>4
<1>6. QED
  BY <1>2, <1>5

LEMMA PlaceInArray ==
  ASSUME NEW w \in Nat, NEW n \in Nat, NEW c \in 0 .. n - 1, NEW s \in 0 .. w - 1
  PROVE  c * w + s \in 0 .. n * w - 1
<1>1. PICK k \in Nat : n = c + 1 + k
  <2>1. n - c - 1 \in Nat /\ n = c + 1 + (n - c - 1)
    OBVIOUS
  <2>2. QED
    BY <2>1
<1>2. n * w = c * w + w + k * w /\ c * w \in Nat /\ k * w \in Nat
  BY <1>1
<1>3. QED
  BY <1>2

LEMMA AppendOf ==
  ASSUME NEW n \in Nat, NEW f, f = [i \in 1 .. n |-> f[i]], NEW x
  PROVE  Append(f, x) = [i \in 1 .. n + 1 |-> IF i <= n THEN f[i] ELSE x]
<1> DEFINE S == {f[i] : i \in 1 .. n} \cup {x}
<1>1. f \in [1 .. n -> S] /\ x \in S
  OBVIOUS
<1>2. f \in Seq(S) /\ Len(f) = n
  BY <1>1
<1>3. QED
  BY <1>1, <1>2

-----------------------------------------------------------------------------
(* What the operations make of one graph, and what the accessors show. *)

View(h) ==
  [verts |-> [i \in 1 .. NVertex(h) |-> h.v[i - 1]],
   adj   |-> [i \in 1 .. NVertex(h) |->
               [s \in 1 .. NChilds(h, i - 1) |-> Child(h, i - 1, s - 1)]],
   props |-> [i \in 1 .. Size(h.e) |-> h.e[i - 1]]]

LEMMA ViewOf == GraphView = [o \in Obj |-> View(g[o])]
BY DEF GraphView, View

LEMMA SizedFacts ==
  ASSUME NEW n \in Nat, NEW m \in Nat, NEW h, Sized(h, n, m)
  PROVE  /\ NVertex(h) = n /\ Size(h.e) = m /\ Size(h.e_l) = n * h.v_slot
         /\ h.v_slot \in Nat \ {0} /\ n * h.v_slot \in Nat
         /\ h.v_l \in [0 .. n - 1 -> 0 .. MaxDegree]
         /\ \A c \in 0 .. n - 1 : h.v_l[c] \in Nat /\ h.v_l[c] <= h.v_slot
         /\ MaxDegree \in Nat
<1>1. h.v_slot \in Nat \ {0} /\ n * h.v_slot \in Nat /\ MaxDegree \in Nat
  <2>1. h.v_slot \in Nat \ {0} /\ MaxDegree \in Nat
    BY StartsAssumption, BoundsAssumption DEF Sized
  <2>2. QED
    BY <2>1
<1>2. DOMAIN h.v = 0 .. n - 1 /\ DOMAIN h.e = 0 .. m - 1
      /\ DOMAIN h.e_l = 0 .. n * h.v_slot - 1 /\ h.v_l \in [0 .. n - 1 -> 0 .. MaxDegree]
      /\ \A c \in 0 .. n - 1 : h.v_l[c] <= h.v_slot
  BY DEF Sized
<1>3. \A c \in 0 .. n - 1 : h.v_l[c] \in Nat
  BY <1>1, <1>2
<1>4. QED
  BY <1>1, <1>2, <1>3, SizeOf DEF NVertex

\* Places in use are places of the array.
LEMMA InUse ==
  ASSUME NEW n \in Nat, NEW m \in Nat, NEW h, Sized(h, n, m),
         NEW c \in 0 .. n - 1, NEW s \in Nat, s < h.v_slot
  PROVE  c * h.v_slot + s \in 0 .. n * h.v_slot - 1
<1>1. h.v_slot \in Nat /\ s \in 0 .. h.v_slot - 1
  BY SizedFacts
<1>2. QED
  BY <1>1, PlaceInArray

Made(n, s, stub) ==
  [v_slot |-> s, v |-> Resize(None, n), v_l |-> [i \in 0 .. n - 1 |-> 0],
   e |-> None, e_l |-> None, e_invalid |-> stub]

LEMMA MadeBare ==
  ASSUME NEW s \in Slots, NEW n \in Nat, n <= MaxVertex, NEW stub
  PROVE  Bare(Made(n, s, stub), n) /\ Made(n, s, stub).v = [i \in 0 .. n - 1 |-> Unset]
<1> DEFINE h == Made(n, s, stub)
<1>0. /\ h.v_slot = s /\ h.v = Resize(None, n) /\ h.v_l = [i \in 0 .. n - 1 |-> 0]
      /\ h.e = None /\ h.e_l = None
  BY DEF Made
<1>1. Resize(None, n) = [i \in 0 .. n - 1 |-> Unset]
  BY DEF Resize, None
<1>2. Resize(None, n) \in [0 .. n - 1 -> VProp \cup {Unset}]
  BY <1>1
<1>3. Fields(h)
  BY DEF Fields, Made
<1> HIDE DEF h
<1>4. Bare(h, n) /\ h.v = [i \in 0 .. n - 1 |-> Unset]
  BY <1>0, <1>1, <1>2, <1>3 DEF Bare
<1>5. QED
  BY <1>4 DEF h

LEMMA BareFacts ==
  ASSUME NEW n \in Nat, NEW h, Bare(h, n)
  PROVE  /\ NVertex(h) = n /\ Size(h.e) = 0 /\ Size(h.e_l) = 0
         /\ h.v_l = [c \in 0 .. n - 1 |-> 0] /\ Keys(h) = {}
         /\ View(h) = [verts |-> [i \in 1 .. n |-> h.v[i - 1]],
                       adj |-> [i \in 1 .. n |-> <<>>], props |-> <<>>]
<1>1. DOMAIN h.v = 0 .. n - 1 /\ DOMAIN h.e = 0 .. 0 - 1 /\ DOMAIN h.e_l = 0 .. 0 - 1
  BY DEF Bare, None
<1>2. NVertex(h) = n /\ Size(h.e) = 0 /\ Size(h.e_l) = 0
  BY <1>1, SizeOf DEF NVertex
<1>3. h.v_l = [c \in 0 .. n - 1 |-> 0] /\ \A c \in 0 .. n - 1 : NChilds(h, c) = 0
  BY DEF Bare, NChilds
<1>4. Keys(h) = {}
  BY <1>2, <1>3 DEF Keys
<1>5. \A i \in 1 .. n : [s \in 1 .. NChilds(h, i - 1) |-> Child(h, i - 1, s - 1)] = <<>>
  <2>1. \A i \in 1 .. n : NChilds(h, i - 1) = 0
    BY <1>3
  <2>2. 1 .. 0 = {}
    OBVIOUS
  <2>3. QED
    BY <2>1, <2>2
<1>6. [i \in 1 .. 0 |-> h.e[i - 1]] = <<>>
  OBVIOUS
<1>7. QED
  BY <1>2, <1>3, <1>4, <1>5, <1>6 DEF View

LEMMA MadeFresh ==
  ASSUME NEW n \in Nat, NEW h, Bare(h, n), h.v = [i \in 0 .. n - 1 |-> Unset]
  PROVE  View(h) = Store!Fresh(n)
<1>1. [i \in 1 .. n |-> h.v[i - 1]] = [i \in 1 .. n |-> Unset]
  OBVIOUS
<1>2. View(h) = [verts |-> [i \in 1 .. n |-> h.v[i - 1]],
                 adj |-> [i \in 1 .. n |-> <<>>], props |-> <<>>]
  BY BareFacts
<1>3. QED
  BY ONLY <1>1, <1>2 DEF Store!Fresh

\* Without vertices there is nothing to make room for.
LEMMA BareRoomy ==
  ASSUME NEW h, Bare(h, 0)
  PROVE  Sized(h, 0, 0) /\ Linking(h, 0, 0)
<1>1. h.v_slot \in Nat /\ 0 .. 0 - 1 = {} /\ 0 * h.v_slot = 0
  <2>1. h.v_slot \in Slots
    BY DEF Bare
  <2>2. h.v_slot \in Nat
    BY <2>1, StartsAssumption
  <2>3. QED
    BY ONLY <2>2
<1>2. h.v_l \in [0 .. 0 - 1 -> 0 .. MaxDegree] /\ None \in [{} -> EProp]
      /\ None \in [{} -> Links \cup {Unset}]
  BY <1>1 DEF Bare, None
<1>3. 0 <= MaxEdge
  BY BoundsAssumption
<1>4. Sized(h, 0, 0)
  BY <1>1, <1>2, <1>3 DEF Sized, Bare
<1>5. QED
  BY <1>1, <1>4 DEF Linking

\* And a graph without entries has no vertices or is as it was made.
LEMMA NoEntries ==
  ASSUME NEW h, GraphOK(h), Size(h.e_l) = 0
  PROVE  \E n \in Nat : Bare(h, n)
<1>1. SUFFICES ASSUME Roomy(h) PROVE \E n \in Nat : Bare(h, n)
  BY DEF GraphOK
<1>2. PICK n, m \in Nat : Sized(h, n, m) /\ Linking(h, n, m)
  BY <1>1 DEF Roomy
<1>3. n * h.v_slot = 0 /\ h.v_slot \in Nat \ {0}
  BY <1>2, SizedFacts
<1>4. n = 0
  <2>1. ASSUME n # 0 PROVE FALSE
    <3>1. 0 \in 0 .. n - 1 /\ 0 \in Nat /\ 0 < h.v_slot
      BY <1>3, <2>1
    <3>2. 0 * h.v_slot + 0 \in 0 .. n * h.v_slot - 1
      BY <1>2, <3>1, InUse
    <3>3. QED
      BY <1>3, <3>2
  <2>2. QED
    BY <2>1
<1>5. m = 0
  <2>1. ASSUME m # 0 PROVE FALSE
    <3>1. 0 \in 0 .. m - 1 /\ 0 .. n - 1 = {}
      BY <1>4, <2>1
    <3>2. QED
      BY <1>2, <3>1 DEF Linking
  <2>2. QED
    BY <2>1
<1>6. h.e = None /\ h.e_l = None /\ h.v_l = [c \in 0 .. 0 - 1 |-> 0]
  <2>1. 0 .. 0 - 1 = {}
    OBVIOUS
  <2>2. h.e \in [{} -> EProp] /\ h.e_l \in [{} -> Links \cup {Unset}]
        /\ h.v_l \in [{} -> 0 .. MaxDegree]
    BY <1>2, <1>3, <1>4, <1>5, <2>1 DEF Sized
  <2>3. \A S, f, k : f \in [{} -> S] /\ k = [i \in {} |-> k[i]] => f = k
    OBVIOUS
  <2>4. QED
    BY <2>1, <2>2, <2>3 DEF None
<1>7. QED
  BY <1>2, <1>4, <1>6 DEF Sized, Bare

\* addVertex of one graph.
WithVertex(h, vrt) ==
  [v_slot |-> h.v_slot, v |-> Add(h.v, vrt), v_l |-> Add(h.v_l, 0), e |-> h.e,
   e_l |-> Resize(h.e_l, Size(h.e_l) + h.v_slot), e_invalid |-> h.e_invalid]

LEMMA AddVertexOK ==
  ASSUME NEW n \in Nat, NEW m \in Nat, NEW h, Sized(h, n, m), Linking(h, n, m),
         n < MaxVertex, NEW vrt \in VProp
  PROVE  /\ Sized(WithVertex(h, vrt), n + 1, m) /\ Linking(WithVertex(h, vrt), n + 1, m)
         /\ View(WithVertex(h, vrt))
              = [View(h) EXCEPT !.verts = Append(@, vrt), !.adj = Append(@, <<>>)]
<1> DEFINE k == WithVertex(h, vrt)
<1>0. /\ k.v_slot = h.v_slot /\ k.v = Add(h.v, vrt) /\ k.v_l = Add(h.v_l, 0) /\ k.e = h.e
      /\ k.e_l = Resize(h.e_l, Size(h.e_l) + h.v_slot) /\ k.e_invalid = h.e_invalid
  BY DEF WithVertex
<1>1. /\ NVertex(h) = n /\ Size(h.e) = m /\ Size(h.e_l) = n * h.v_slot
      /\ h.v_slot \in Nat \ {0} /\ n * h.v_slot \in Nat
      /\ h.v_l \in [0 .. n - 1 -> 0 .. MaxDegree] /\ MaxDegree \in Nat
      /\ \A c \in 0 .. n - 1 : h.v_l[c] \in Nat /\ h.v_l[c] <= h.v_slot
  BY SizedFacts
<1>2. n * h.v_slot + h.v_slot = (n + 1) * h.v_slot /\ (n + 1) * h.v_slot \in Nat
  BY <1>1
<1>3. k.v = [i \in 0 .. n |-> IF i = n THEN vrt ELSE h.v[i]]
  <2>1. DOMAIN h.v = 0 .. n - 1
    BY DEF Sized
  <2>2. QED
    BY <1>0, <2>1, AddOf
<1>4. k.v_l = [i \in 0 .. n |-> IF i = n THEN 0 ELSE h.v_l[i]]
  <2>1. DOMAIN h.v_l = 0 .. n - 1
    BY <1>1
  <2>2. QED
    BY <1>0, <2>1, AddOf
<1>5. k.e_l = [i \in 0 .. (n + 1) * h.v_slot - 1 |-> IF i < n * h.v_slot THEN h.e_l[i] ELSE Unset]
  <2>1. k.e_l = Resize(h.e_l, (n + 1) * h.v_slot)
    BY <1>0, <1>1, <1>2
  <2>2. DOMAIN h.e_l = 0 .. n * h.v_slot - 1
    BY DEF Sized
  <2>3. \A p, q \in Nat : DOMAIN h.e_l = 0 .. p - 1 =>
          Resize(h.e_l, q) = [i \in 0 .. q - 1 |-> IF i < p THEN h.e_l[i] ELSE Unset]
    BY ResizeOf
  <2>4. QED
    BY <1>1, <1>2, <2>1, <2>2, <2>3
<1>6. k.v_slot = h.v_slot /\ k.e = h.e /\ k.e_invalid = h.e_invalid
  BY <1>0
<1>a. Fields(k)
  BY DEF WithVertex, Fields
<1> HIDE DEF k
<1>7. Sized(k, n + 1, m)
  <2>1. n + 1 \in Nat /\ n + 1 - 1 = n /\ n + 1 <= MaxVertex
    BY BoundsAssumption
  <2>2. k.v \in [0 .. n -> VProp \cup {Unset}]
    BY <1>3 DEF Sized
  <2>3. k.v_l \in [0 .. n -> 0 .. MaxDegree]
    BY <1>1, <1>4
  <2>4. k.e_l \in [0 .. (n + 1) * k.v_slot - 1 -> Links \cup {Unset}]
    <3>1. h.e_l \in [0 .. n * h.v_slot - 1 -> Links \cup {Unset}]
      BY DEF Sized
    <3>2. \A i \in 0 .. (n + 1) * h.v_slot - 1 : i < n * h.v_slot => i \in 0 .. n * h.v_slot - 1
      BY <1>1, <1>2
    <3>3. QED
      BY <1>5, <1>6, <3>1, <3>2
  <2>5. k.v_slot \in Slots /\ k.e \in [0 .. m - 1 -> EProp] /\ m <= MaxEdge
    BY <1>6 DEF Sized
  <2>6. \A c \in 0 .. n : k.v_l[c] <= k.v_slot
    BY <1>1, <1>4, <1>6
  <2>7. QED
    BY <1>a, <2>1, <2>2, <2>3, <2>4, <2>5, <2>6 DEF Sized
<1>8. \A c \in 0 .. n - 1 : /\ k.v_l[c] = h.v_l[c]
                            /\ \A s \in 0 .. h.v_l[c] - 1 : Child(k, c, s) = Child(h, c, s)
  <2> SUFFICES ASSUME NEW c \in 0 .. n - 1
               PROVE  /\ k.v_l[c] = h.v_l[c]
                      /\ \A s \in 0 .. h.v_l[c] - 1 : Child(k, c, s) = Child(h, c, s)
    OBVIOUS
  <2>1. k.v_l[c] = h.v_l[c] /\ h.v_l[c] \in Nat /\ h.v_l[c] <= h.v_slot
    BY <1>1, <1>4
  <2>2. ASSUME NEW s \in 0 .. h.v_l[c] - 1 PROVE Child(k, c, s) = Child(h, c, s)
    <3>1. s \in Nat /\ s < h.v_slot
      BY <1>1, <2>1
    <3>2. c * h.v_slot + s \in 0 .. n * h.v_slot - 1
      BY <3>1, InUse
    <3>3. c * h.v_slot + s \in 0 .. (n + 1) * h.v_slot - 1 /\ c * h.v_slot + s < n * h.v_slot
      <4>1. \A p, q, w, x \in Nat : w # 0 /\ p + w = q /\ x \in 0 .. p - 1
              => x \in 0 .. q - 1 /\ x < p
        OBVIOUS
      <4>2. c * h.v_slot + s \in Nat
        BY <3>2
      <4>3. QED
        BY <1>1, <1>2, <3>2, <4>1, <4>2
    <3>4. QED
      BY <1>5, <1>6, <3>3 DEF Child
  <2>3. QED
    BY <2>1, <2>2
<1>9. k.v_l[n] = 0 /\ 0 .. n = (0 .. n - 1) \cup {n} /\ 0 .. 0 - 1 = {}
  BY <1>4
<1>10. Linking(k, n + 1, m)
  <2>1. \A c : c \in 0 .. n + 1 - 1 <=> c \in 0 .. n - 1 \/ c = n
    OBVIOUS
  <2>2. \A s : s \notin 0 .. k.v_l[n] - 1
    BY <1>9
  <2>3. \A c \in 0 .. n - 1 : 0 .. k.v_l[c] - 1 = 0 .. h.v_l[c] - 1
    BY <1>8
  <2>4. \A c \in 0 .. n + 1 - 1 : \A s \in 0 .. k.v_l[c] - 1 :
          Child(k, c, s) \in Links /\ Child(k, c, s).eid \in 0 .. m - 1
    <3> SUFFICES ASSUME NEW c \in 0 .. n + 1 - 1, NEW s \in 0 .. k.v_l[c] - 1
                 PROVE  Child(k, c, s) \in Links /\ Child(k, c, s).eid \in 0 .. m - 1
      OBVIOUS
    <3>1. c \in 0 .. n - 1
      BY <2>1, <2>2
    <3>2. s \in 0 .. h.v_l[c] - 1 /\ Child(k, c, s) = Child(h, c, s)
      BY <1>8, <2>3, <3>1
    <3>3. QED
      BY <3>1, <3>2 DEF Linking
  <2>5. ASSUME NEW id \in 0 .. m - 1
        PROVE  \E c \in 0 .. n + 1 - 1 : \E s \in 0 .. k.v_l[c] - 1 :
                 \A d \in 0 .. n + 1 - 1 : \A t \in 0 .. k.v_l[d] - 1 :
                   c = d /\ s = t <=> Child(k, d, t).eid = id
    <3>0. PICK c \in 0 .. n - 1 : \E s \in 0 .. h.v_l[c] - 1 :
            \A d \in 0 .. n - 1 : \A t \in 0 .. h.v_l[d] - 1 :
              c = d /\ s = t <=> Child(h, d, t).eid = id
      BY DEF Linking
    <3>1. PICK s \in 0 .. h.v_l[c] - 1 :
            \A d \in 0 .. n - 1 : \A t \in 0 .. h.v_l[d] - 1 :
              c = d /\ s = t <=> Child(h, d, t).eid = id
      BY <3>0
    <3>2. c \in 0 .. n + 1 - 1 /\ s \in 0 .. k.v_l[c] - 1
      BY <2>1, <2>3
    <3>3. \A d \in 0 .. n + 1 - 1 : \A t \in 0 .. k.v_l[d] - 1 :
            c = d /\ s = t <=> Child(k, d, t).eid = id
      BY <1>8, <2>1, <2>2, <2>3, <3>1
    <3>4. QED
      BY <3>2, <3>3
  <2>6. QED
    BY <2>4, <2>5 DEF Linking
<1>11. View(k) = [View(h) EXCEPT !.verts = Append(@, vrt), !.adj = Append(@, <<>>)]
  <2>1. NVertex(k) = n + 1 /\ Size(k.e) = m
    BY <1>7, SizedFacts
  <2>2. View(k).verts = Append(View(h).verts, vrt)
    <3>1. Append(View(h).verts, vrt)
            = [i \in 1 .. n + 1 |-> IF i <= n THEN View(h).verts[i] ELSE vrt]
      <4>1. NVertex(h) = n
        BY <1>1
      <4>2. View(h).verts = [i \in 1 .. n |-> View(h).verts[i]]
        BY ONLY <4>1 DEF View
      <4>3. QED
        BY ONLY <4>2, n \in Nat, AppendOf
    <3>2. \A i \in 1 .. n + 1 : k.v[i - 1] = IF i <= n THEN View(h).verts[i] ELSE vrt
      BY <1>1, <1>3, <1>6 DEF View
    <3>3. QED
      BY <2>1, <3>1, <3>2 DEF View
  <2>3. View(k).adj = Append(View(h).adj, <<>>)
    <3>1. Append(View(h).adj, <<>>)
            = [i \in 1 .. n + 1 |-> IF i <= n THEN View(h).adj[i] ELSE <<>>]
      BY <1>1, AppendOf DEF View
    <3>2. ASSUME NEW i \in 1 .. n
          PROVE  [s \in 1 .. NChilds(k, i - 1) |-> Child(k, i - 1, s - 1)] = View(h).adj[i]
      <4>1. i - 1 \in 0 .. n - 1 /\ h.v_l[i - 1] \in Nat
        <5>1. \A c \in 0 .. n - 1 : h.v_l[c] \in Nat
          BY <1>1
        <5>2. QED
          BY <5>1
      <4>2. \A s \in 1 .. h.v_l[i - 1] : s - 1 \in 0 .. h.v_l[i - 1] - 1
        BY <4>1
      <4>3. QED
        BY <1>1, <1>8, <4>1, <4>2 DEF View, NChilds
    <3>3. [s \in 1 .. NChilds(k, n + 1 - 1) |-> Child(k, n + 1 - 1, s - 1)] = <<>>
      <4>1. NChilds(k, n + 1 - 1) = 0 /\ 1 .. 0 = {}
        BY <1>9 DEF NChilds
      <4>2. QED
        BY <4>1
    <3>4. View(k).adj = [i \in 1 .. n + 1 |->
                          [s \in 1 .. NChilds(k, i - 1) |-> Child(k, i - 1, s - 1)]]
      BY <2>1 DEF View
    <3>5. ASSUME NEW i \in 1 .. n + 1
          PROVE  [s \in 1 .. NChilds(k, i - 1) |-> Child(k, i - 1, s - 1)]
                   = IF i <= n THEN View(h).adj[i] ELSE <<>>
      <4>1. CASE i <= n  BY <3>2, <4>1
      <4>2. CASE ~(i <= n)
        <5>1. i = n + 1  BY <4>2
        <5>2. QED  BY <3>3, <4>2, <5>1
      <4>3. QED  BY <4>1, <4>2
    <3>6. QED
      BY <3>1, <3>4, <3>5
  <2>4. View(k).props = View(h).props
    BY <1>1, <1>6, <2>1 DEF View
  <2>5. QED
    BY <2>2, <2>3, <2>4 DEF View
<1>12. QED
  BY <1>7, <1>10, <1>11 DEF k

\* addEdge of one graph whose vertex v1 has a slot left.
WithEdge(h, v1, v2, ed) ==
  [v_slot |-> h.v_slot, v |-> h.v, v_l |-> [h.v_l EXCEPT ![v1] = h.v_l[v1] + 1],
   e |-> Add(h.e, ed),
   e_l |-> [h.e_l EXCEPT ![v1 * h.v_slot + h.v_l[v1]] = [vid |-> v2, eid |-> Size(h.e)]],
   e_invalid |-> h.e_invalid]

LEMMA VertexFields ==
  ASSUME NEW h, Fields(h), NEW a, NEW b, NEW c
  PROVE  [h EXCEPT !.v = a, !.v_l = b, !.e_l = c]
           = [v_slot |-> h.v_slot, v |-> a, v_l |-> b, e |-> h.e, e_l |-> c,
              e_invalid |-> h.e_invalid]
<1>1. PICK p, q, r, t, u, w :
        h = [v_slot |-> p, v |-> q, v_l |-> r, e |-> t, e_l |-> u, e_invalid |-> w]
  BY DEF Fields
<1>2. h.v_slot = p /\ h.e = t /\ h.e_invalid = w
  BY <1>1
<1>3. [[v_slot |-> p, v |-> q, v_l |-> r, e |-> t, e_l |-> u, e_invalid |-> w]
          EXCEPT !.v = a, !.v_l = b, !.e_l = c]
        = [v_slot |-> p, v |-> a, v_l |-> b, e |-> t, e_l |-> c, e_invalid |-> w]
  <2>1. [[v_slot |-> p, v |-> q, v_l |-> r, e |-> t, e_l |-> u, e_invalid |-> w] EXCEPT !.v = a]
          = [v_slot |-> p, v |-> a, v_l |-> r, e |-> t, e_l |-> u, e_invalid |-> w]
    OBVIOUS
  <2>2. [[v_slot |-> p, v |-> a, v_l |-> r, e |-> t, e_l |-> u, e_invalid |-> w] EXCEPT !.v_l = b]
          = [v_slot |-> p, v |-> a, v_l |-> b, e |-> t, e_l |-> u, e_invalid |-> w]
    OBVIOUS
  <2>3. [[v_slot |-> p, v |-> a, v_l |-> b, e |-> t, e_l |-> u, e_invalid |-> w] EXCEPT !.e_l = c]
          = [v_slot |-> p, v |-> a, v_l |-> b, e |-> t, e_l |-> c, e_invalid |-> w]
    OBVIOUS
  <2>4. QED
    BY ONLY <2>1, <2>2, <2>3, Zenon
<1>4. QED
  BY ONLY <1>1, <1>2, <1>3, Zenon

LEMMA FieldsExcept ==
  ASSUME NEW h, Fields(h), NEW a, NEW b, NEW c
  PROVE  [h EXCEPT !.e_l = a, !.e = b, !.v_l = c]
           = [v_slot |-> h.v_slot, v |-> h.v, v_l |-> c, e |-> b, e_l |-> a,
              e_invalid |-> h.e_invalid]
<1>1. PICK p, q, r, t, u, w :
        h = [v_slot |-> p, v |-> q, v_l |-> r, e |-> t, e_l |-> u, e_invalid |-> w]
  BY DEF Fields
<1>2. h.v_slot = p /\ h.v = q /\ h.e_invalid = w
  BY <1>1
<1>3. [[v_slot |-> p, v |-> q, v_l |-> r, e |-> t, e_l |-> u, e_invalid |-> w]
          EXCEPT !.e_l = a, !.e = b, !.v_l = c]
        = [v_slot |-> p, v |-> q, v_l |-> c, e |-> b, e_l |-> a, e_invalid |-> w]
  <2>1. [[v_slot |-> p, v |-> q, v_l |-> r, e |-> t, e_l |-> u, e_invalid |-> w] EXCEPT !.e_l = a]
          = [v_slot |-> p, v |-> q, v_l |-> r, e |-> t, e_l |-> a, e_invalid |-> w]
    OBVIOUS
  <2>2. [[v_slot |-> p, v |-> q, v_l |-> r, e |-> t, e_l |-> a, e_invalid |-> w] EXCEPT !.e = b]
          = [v_slot |-> p, v |-> q, v_l |-> r, e |-> b, e_l |-> a, e_invalid |-> w]
    OBVIOUS
  <2>3. [[v_slot |-> p, v |-> q, v_l |-> r, e |-> b, e_l |-> a, e_invalid |-> w] EXCEPT !.v_l = c]
          = [v_slot |-> p, v |-> q, v_l |-> c, e |-> b, e_l |-> a, e_invalid |-> w]
    OBVIOUS
  <2>4. QED
    BY ONLY <2>1, <2>2, <2>3, Zenon
<1>4. QED
  BY ONLY <1>1, <1>2, <1>3, Zenon

LEMMA AddEdgeIs ==
  ASSUME NEW n \in Nat, NEW m \in Nat, NEW h, Sized(h, n, m),
         NEW v1 \in 0 .. n - 1, NEW v2, NEW ed, h.v_l[v1] < h.v_slot
  PROVE  /\ WithRoom(h, h.v_l[v1]) = h
         /\ Linked(h, v1, h.v_l[v1], v2, ed) = WithEdge(h, v1, v2, ed)
<1>1. /\ Size(h.e_l) = n * h.v_slot /\ h.v_slot \in Nat \ {0}
      /\ h.v_l \in [0 .. n - 1 -> 0 .. MaxDegree] /\ MaxDegree \in Nat /\ n * h.v_slot \in Nat
      /\ h.v_l[v1] \in Nat
  BY SizedFacts
<1>2. h.v_l[v1] \in Nat /\ h.v_l[v1] < h.v_slot
  BY <1>1
<1>3. v1 * h.v_slot + h.v_l[v1] \in 0 .. n * h.v_slot - 1
  BY <1>2, InUse
<1>4. h.v_l[v1] < n * h.v_slot
  <2>1. v1 * h.v_slot \in Nat
    BY <1>1
  <2>2. \A p, q, x \in Nat : q + x \in 0 .. p - 1 => x < p
    OBVIOUS
  <2>3. QED
    BY <1>1, <1>2, <1>3, <2>1, <2>2
<1>5. WithRoom(h, h.v_l[v1]) = h
  BY <1>1, <1>2, <1>4 DEF WithRoom
<1>6. /\ Set(h.e_l, v1 * h.v_slot + h.v_l[v1], [vid |-> v2, eid |-> Size(h.e)])
           = [h.e_l EXCEPT ![v1 * h.v_slot + h.v_l[v1]] = [vid |-> v2, eid |-> Size(h.e)]]
      /\ Set(h.v_l, v1, IF v1 \in DOMAIN h.v_l THEN h.v_l[v1] + 1 ELSE 0)
           = [h.v_l EXCEPT ![v1] = h.v_l[v1] + 1]
  <2>1. DOMAIN h.e_l = 0 .. n * h.v_slot - 1 /\ DOMAIN h.v_l = 0 .. n - 1
    BY <1>1 DEF Sized
  <2>2. QED
    BY <1>3, <2>1 DEF Set
<1>7. Fields(h)
  BY DEF Sized
<1>8. [h EXCEPT !.e_l = Set(h.e_l, v1 * h.v_slot + h.v_l[v1], [vid |-> v2, eid |-> Size(h.e)]),
                !.e   = Add(h.e, ed),
                !.v_l = Set(h.v_l, v1, IF v1 \in DOMAIN h.v_l THEN h.v_l[v1] + 1 ELSE 0)]
        = WithEdge(h, v1, v2, ed)
  <2>1. \A a, b, c : [h EXCEPT !.e_l = a, !.e = b, !.v_l = c]
           = [v_slot |-> h.v_slot, v |-> h.v, v_l |-> c, e |-> b, e_l |-> a,
              e_invalid |-> h.e_invalid]
    BY <1>7, FieldsExcept, Zenon
  <2>2. WithEdge(h, v1, v2, ed)
          = [v_slot |-> h.v_slot, v |-> h.v,
             v_l |-> Set(h.v_l, v1, IF v1 \in DOMAIN h.v_l THEN h.v_l[v1] + 1 ELSE 0),
             e |-> Add(h.e, ed),
             e_l |-> Set(h.e_l, v1 * h.v_slot + h.v_l[v1], [vid |-> v2, eid |-> Size(h.e)]),
             e_invalid |-> h.e_invalid]
    BY ONLY <1>6, Zenon DEF WithEdge
  <2>3. QED
    BY ONLY <2>1, <2>2, Zenon
<1>9. Linked(h, v1, h.v_l[v1], v2, ed) = WithEdge(h, v1, v2, ed)
  BY <1>8 DEF Linked
<1>10. QED
  BY <1>5, <1>9

\* A graph without entries is given room for every slot by its first edge.
LEMMA EntriesField ==
  ASSUME NEW h, Fields(h), NEW a
  PROVE  [h EXCEPT !.e_l = a]
           = [v_slot |-> h.v_slot, v |-> h.v, v_l |-> h.v_l, e |-> h.e, e_l |-> a,
              e_invalid |-> h.e_invalid]
<1>1. PICK p, q, r, t, u, w :
        h = [v_slot |-> p, v |-> q, v_l |-> r, e |-> t, e_l |-> u, e_invalid |-> w]
  BY DEF Fields
<1>2. h.v_slot = p /\ h.v = q /\ h.v_l = r /\ h.e = t /\ h.e_invalid = w
  BY <1>1
<1>3. [[v_slot |-> p, v |-> q, v_l |-> r, e |-> t, e_l |-> u, e_invalid |-> w] EXCEPT !.e_l = a]
        = [v_slot |-> p, v |-> q, v_l |-> r, e |-> t, e_l |-> a, e_invalid |-> w]
  OBVIOUS
<1>4. QED
  BY ONLY <1>1, <1>2, <1>3, Zenon

LEMMA FirstRoom ==
  ASSUME NEW n \in Nat, NEW h, Bare(h, n), NEW x, x = 0, NEW k, k = WithRoom(h, x)
  PROVE  /\ Sized(k, n, 0) /\ Linking(k, n, 0) /\ View(k) = View(h)
         /\ k.v_l = h.v_l /\ k.v_slot = h.v_slot
<1>1. /\ NVertex(h) = n /\ Size(h.e) = 0 /\ Size(h.e_l) = 0
      /\ h.v_l = [c \in 0 .. n - 1 |-> 0]
      /\ View(h) = [verts |-> [i \in 1 .. n |-> h.v[i - 1]],
                    adj |-> [i \in 1 .. n |-> <<>>], props |-> <<>>]
  BY BareFacts
<1>2. h.v_slot \in Nat \ {0} /\ n * h.v_slot \in Nat /\ Fields(h) /\ 0 .. 0 - 1 = {}
  <2>1. h.v_slot \in Nat \ {0} /\ Fields(h)
    BY StartsAssumption DEF Bare
  <2>2. QED
    BY <2>1
<1>3. k = [h EXCEPT !.e_l = Resize(h.e_l, n * h.v_slot)]
  BY <1>1 DEF WithRoom
<1>4. /\ k.v_slot = h.v_slot /\ k.v = h.v /\ k.v_l = h.v_l /\ k.e = h.e
      /\ k.e_l = Resize(h.e_l, n * h.v_slot) /\ Fields(k)
  <2>1. k = [v_slot |-> h.v_slot, v |-> h.v, v_l |-> h.v_l, e |-> h.e,
             e_l |-> Resize(h.e_l, n * h.v_slot), e_invalid |-> h.e_invalid]
    BY <1>2, <1>3, EntriesField
  <2>2. QED
    BY <2>1 DEF Fields
<1>5. k.e_l \in [0 .. n * k.v_slot - 1 -> Links \cup {Unset}]
  BY <1>4 DEF Bare, Resize, None
<1>6. k.v_l \in [0 .. n - 1 -> 0 .. MaxDegree] /\ \A c \in 0 .. n - 1 : k.v_l[c] <= k.v_slot
  BY <1>1, <1>2, <1>4, BoundsAssumption
<1>7. k.e \in [0 .. 0 - 1 -> EProp] /\ 0 <= MaxEdge
  <2>1. None \in [{} -> EProp]
    BY DEF None
  <2>2. QED
    BY <1>2, <1>4, <2>1, BoundsAssumption DEF Bare
<1>8. Sized(k, n, 0)
  BY <1>4, <1>5, <1>6, <1>7 DEF Sized, Bare
<1>9. Linking(k, n, 0)
  BY <1>1, <1>2, <1>4 DEF Linking
<1>10. View(k) = View(h)
  <2>1. NVertex(k) = n /\ Size(k.e) = 0
    BY <1>1, <1>4 DEF NVertex
  <2>2. \A i \in 1 .. n : [s \in 1 .. NChilds(k, i - 1) |-> Child(k, i - 1, s - 1)] = <<>>
    <3>1. \A i \in 1 .. n : NChilds(k, i - 1) = 0
      BY <1>1, <1>4 DEF NChilds
    <3>2. 1 .. 0 = {}
      OBVIOUS
    <3>3. QED
      BY <3>1, <3>2
  <2>3. [i \in 1 .. 0 |-> k.e[i - 1]] = <<>>
    OBVIOUS
  <2>4. View(k) = [verts |-> [i \in 1 .. n |-> k.v[i - 1]],
                   adj |-> [i \in 1 .. n |-> <<>>], props |-> <<>>]
    BY <2>1, <2>2, <2>3 DEF View
  <2>5. QED
    BY <1>1, <1>4, <2>4
<1>11. QED
  BY <1>4, <1>8, <1>9, <1>10

\* The same as the accessors show it.
WithEdgeSeen(w, v1, link, ed) ==
  [w EXCEPT !.adj[v1 + 1] = Append(@, link), !.props = Append(@, ed)]

LEMMA AddEdgeOK ==
  ASSUME NEW n \in Nat, NEW m \in Nat, NEW h, Sized(h, n, m), Linking(h, n, m),
         NEW v1 \in 0 .. n - 1, NEW v2 \in 0 .. n - 1, NEW ed \in EProp,
         h.v_l[v1] < MaxDegree, h.v_l[v1] < h.v_slot, m < MaxEdge
  PROVE  /\ Sized(WithEdge(h, v1, v2, ed), n, m + 1) /\ Linking(WithEdge(h, v1, v2, ed), n, m + 1)
         /\ View(WithEdge(h, v1, v2, ed))
              = WithEdgeSeen(View(h), v1, [vid |-> v2, eid |-> m], ed)
<1> DEFINE k == WithEdge(h, v1, v2, ed)
           x == h.v_l[v1]
           new == [vid |-> v2, eid |-> m]
<1>1. /\ NVertex(h) = n /\ Size(h.e) = m
      /\ h.v_slot \in Nat \ {0}
      /\ h.v_l \in [0 .. n - 1 -> 0 .. MaxDegree] /\ MaxDegree \in Nat
      /\ \A c \in 0 .. n - 1 : h.v_l[c] \in Nat /\ h.v_l[c] <= h.v_slot
  BY SizedFacts
<1>2. /\ k.v_slot = h.v_slot /\ k.v = h.v /\ k.v_l = [h.v_l EXCEPT ![v1] = x + 1]
      /\ k.e = Add(h.e, ed) /\ k.e_l = [h.e_l EXCEPT ![v1 * h.v_slot + x] = new]
  BY <1>1 DEF WithEdge
<1>3. /\ x \in Nat /\ x < h.v_slot /\ x + 1 \in 0 .. MaxDegree /\ x + 1 <= h.v_slot
      /\ new \in Links /\ new.eid = m
  BY <1>1 DEF Links
<1>a. Fields(k)
  BY DEF WithEdge, Fields
<1> HIDE DEF k
<1>4. k.e = [i \in 0 .. m |-> IF i = m THEN ed ELSE h.e[i]]
  <2>1. DOMAIN h.e = 0 .. m - 1
    BY DEF Sized
  <2>2. \A a, y : DOMAIN a = 0 .. m - 1 => Add(a, y) = [i \in 0 .. m |-> IF i = m THEN y ELSE a[i]]
    BY AddOf
  <2>3. QED
    BY ONLY <1>2, <2>1, <2>2
<1>5. /\ v1 * h.v_slot + x \in 0 .. n * h.v_slot - 1
      /\ h.e_l \in [0 .. n * h.v_slot - 1 -> Links \cup {Unset}]
  BY <1>3, InUse DEF Sized
<1>6. Sized(k, n, m + 1)
  <2>1. k.e \in [0 .. m + 1 - 1 -> EProp]
    <3>1. h.e \in [0 .. m - 1 -> EProp]
      BY DEF Sized
    <3>2. QED
      BY <1>4, <3>1
  <2>2. k.v_l \in [0 .. n - 1 -> 0 .. MaxDegree]
    <3>1. \A f, y : f \in [0 .. n - 1 -> 0 .. MaxDegree] /\ y \in 0 .. MaxDegree
                     => [f EXCEPT ![v1] = y] \in [0 .. n - 1 -> 0 .. MaxDegree]
      OBVIOUS
    <3>2. QED
      BY <1>1, <1>2, <1>3, <3>1
  <2>3. k.e_l \in [0 .. n * k.v_slot - 1 -> Links \cup {Unset}]
    BY <1>2, <1>3, <1>5
  <2>4. k.v_slot \in Slots /\ k.v \in [0 .. n - 1 -> VProp \cup {Unset}] /\ n <= MaxVertex
    BY <1>2 DEF Sized
  <2>5. m + 1 <= MaxEdge
    BY BoundsAssumption
  <2>6. \A c \in 0 .. n - 1 : k.v_l[c] <= k.v_slot
    BY <1>1, <1>2, <1>3
  <2>7. QED
    BY <1>a, <2>1, <2>2, <2>3, <2>4, <2>5, <2>6 DEF Sized
<1>7. /\ k.v_l[v1] = x + 1 /\ \A c \in 0 .. n - 1 : c # v1 => k.v_l[c] = h.v_l[c]
      /\ \A c \in 0 .. n - 1 : h.v_l[c] \in 0 .. MaxDegree
  BY <1>1, <1>2
<1>8. Child(k, v1, x) = new
  BY <1>2, <1>5 DEF Child
<1>9. ASSUME NEW c \in 0 .. n - 1, NEW s \in 0 .. h.v_l[c] - 1
      PROVE  Child(k, c, s) = Child(h, c, s)
  <2>1. s \in Nat /\ s < h.v_slot /\ s \in 0 .. h.v_slot - 1 /\ x \in 0 .. h.v_slot - 1
    <3>1. \A a, w \in Nat : \A y \in 0 .. a - 1 :
            a <= w => y \in Nat /\ y < w /\ y \in 0 .. w - 1
      OBVIOUS
    <3>2. h.v_l[c] \in Nat /\ h.v_l[c] <= h.v_slot
      BY <1>1
    <3>3. s \in Nat /\ s < h.v_slot /\ s \in 0 .. h.v_slot - 1
      BY <1>1, <3>1, <3>2
    <3>4. x \in 0 .. h.v_slot - 1
      <4>1. \A y, w \in Nat : y < w => y \in 0 .. w - 1
        OBVIOUS
      <4>2. QED
        BY <1>1, <1>3, <4>1
    <3>5. QED
      BY <3>3, <3>4
  <2>2. c * h.v_slot + s \in 0 .. n * h.v_slot - 1
    BY <2>1, InUse
  <2>3. c * h.v_slot + s # v1 * h.v_slot + x
    <3>1. SUFFICES ASSUME c * h.v_slot + s = v1 * h.v_slot + x
                   PROVE  FALSE
      OBVIOUS
    <3>2. \A w, a, b \in Nat : \A y, z \in 0 .. w - 1 : a * w + y = b * w + z => a = b /\ y = z
      BY PlacesApart
    <3>3. c = v1 /\ s = x
      <4>1. h.v_slot \in Nat /\ c \in Nat /\ v1 \in Nat
        BY <1>1
      <4>2. \A a, b \in Nat : \A y, z \in 0 .. h.v_slot - 1 :
              a * h.v_slot + y = b * h.v_slot + z => a = b /\ y = z
        BY ONLY <3>2, <4>1, Zenon
      <4>3. c * h.v_slot + s = v1 * h.v_slot + x => c = v1 /\ s = x
        BY ONLY <2>1, <4>1, <4>2, Zenon
      <4>4. QED
        BY <3>1, <4>3
    <3>4. QED
      BY <1>3, <3>3
  <2>4. QED
    BY <1>2, <1>5, <2>2, <2>3 DEF Child
<1>10. \A c \in 0 .. n - 1 : \A s :
         s \in 0 .. k.v_l[c] - 1 <=> s \in 0 .. h.v_l[c] - 1 \/ (c = v1 /\ s = x)
  BY <1>3, <1>7
<1>11. Linking(k, n, m + 1)
  <2>1. \A c \in 0 .. n - 1 : \A s \in 0 .. h.v_l[c] - 1 :
          Child(h, c, s) \in Links /\ Child(h, c, s).eid \in 0 .. m - 1
    BY DEF Linking
  <2>2. \A i : i \in 0 .. m + 1 - 1 <=> i \in 0 .. m - 1 \/ i = m
    OBVIOUS
  <2>3. ASSUME NEW c \in 0 .. n - 1, NEW s \in 0 .. k.v_l[c] - 1
        PROVE  Child(k, c, s) \in Links /\ Child(k, c, s).eid \in 0 .. m + 1 - 1
    <3>1. CASE c = v1 /\ s = x
      BY <1>3, <1>8, <2>2, <3>1
    <3>2. CASE ~(c = v1 /\ s = x)
      <4>1. s \in 0 .. h.v_l[c] - 1
        BY <1>10, <3>2
      <4>2. QED
        BY <1>9, <2>1, <2>2, <4>1
    <3>3. QED
      BY <3>1, <3>2
  <2>4. \A d \in 0 .. n - 1 : \A t \in 0 .. k.v_l[d] - 1 :
          \/ d = v1 /\ t = x /\ Child(k, d, t).eid = m
          \/ ~(d = v1 /\ t = x) /\ t \in 0 .. h.v_l[d] - 1
             /\ Child(k, d, t) = Child(h, d, t) /\ Child(k, d, t).eid \in 0 .. m - 1
    BY <1>3, <1>8, <1>9, <1>10, <2>1
  <2>5. ASSUME NEW id \in 0 .. m - 1
        PROVE  \E c \in 0 .. n - 1 : \E s \in 0 .. k.v_l[c] - 1 :
                 \A d \in 0 .. n - 1 : \A t \in 0 .. k.v_l[d] - 1 :
                   c = d /\ s = t <=> Child(k, d, t).eid = id
    <3>0. PICK c \in 0 .. n - 1 : \E s \in 0 .. h.v_l[c] - 1 :
            \A d \in 0 .. n - 1 : \A t \in 0 .. h.v_l[d] - 1 :
              c = d /\ s = t <=> Child(h, d, t).eid = id
      BY DEF Linking
    <3>1. PICK s \in 0 .. h.v_l[c] - 1 :
            \A d \in 0 .. n - 1 : \A t \in 0 .. h.v_l[d] - 1 :
              c = d /\ s = t <=> Child(h, d, t).eid = id
      BY <3>0
    <3>2. s \in 0 .. k.v_l[c] - 1 /\ ~(c = v1 /\ s = x)
      BY <1>3, <1>10
    <3>3. id # m
      OBVIOUS
    <3>4. \A d \in 0 .. n - 1 : \A t \in 0 .. k.v_l[d] - 1 :
            c = d /\ s = t <=> Child(k, d, t).eid = id
      BY <2>4, <3>1, <3>2, <3>3
    <3>5. QED
      BY <3>2, <3>4
  <2>6. \E c \in 0 .. n - 1 : \E s \in 0 .. k.v_l[c] - 1 :
          \A d \in 0 .. n - 1 : \A t \in 0 .. k.v_l[d] - 1 :
            c = d /\ s = t <=> Child(k, d, t).eid = m
    <3>1. x \in 0 .. k.v_l[v1] - 1 /\ m \notin 0 .. m - 1
      BY <1>10
    <3>2. \A d \in 0 .. n - 1 : \A t \in 0 .. k.v_l[d] - 1 :
            v1 = d /\ x = t <=> Child(k, d, t).eid = m
      BY <2>4, <3>1
    <3>3. QED
      BY <3>1, <3>2
  <2>7. \A id \in 0 .. m + 1 - 1 :
          \E c \in 0 .. n - 1 : \E s \in 0 .. k.v_l[c] - 1 :
            \A d \in 0 .. n - 1 : \A t \in 0 .. k.v_l[d] - 1 :
              c = d /\ s = t <=> Child(k, d, t).eid = id
    <3> SUFFICES ASSUME NEW id \in 0 .. m + 1 - 1
                 PROVE  \E c \in 0 .. n - 1 : \E s \in 0 .. k.v_l[c] - 1 :
                          \A d \in 0 .. n - 1 : \A t \in 0 .. k.v_l[d] - 1 :
                            c = d /\ s = t <=> Child(k, d, t).eid = id
      OBVIOUS
    <3>1. CASE id \in 0 .. m - 1
      BY <2>5, <3>1
    <3>2. CASE id = m
      BY <2>6, <3>2
    <3>3. QED
      BY <2>2, <3>1, <3>2
  <2>8. QED
    BY <2>3, <2>7 DEF Linking
<1>12. View(k) = WithEdgeSeen(View(h), v1, new, ed)
  <2>1. NVertex(k) = n /\ Size(k.e) = m + 1
    BY <1>6, SizedFacts
  <2>2. View(k).verts = View(h).verts
    BY <1>1, <1>2, <2>1 DEF View
  <2>3. View(k).props = Append(View(h).props, ed)
    <3>1. Append(View(h).props, ed)
            = [i \in 1 .. m + 1 |-> IF i <= m THEN View(h).props[i] ELSE ed]
      BY <1>1, AppendOf DEF View
    <3>2. \A i \in 1 .. m + 1 : k.e[i - 1] = IF i <= m THEN View(h).props[i] ELSE ed
      BY <1>1, <1>4 DEF View
    <3>3. QED
      BY <2>1, <3>1, <3>2 DEF View
  <2>4. View(k).adj = [View(h).adj EXCEPT ![v1 + 1] = Append(@, new)]
    <3>1. View(h).adj[v1 + 1] = [s \in 1 .. x |-> Child(h, v1, s - 1)]
      <4>1. NVertex(h) = n /\ v1 + 1 \in 1 .. n /\ v1 + 1 - 1 = v1
        BY <1>1
      <4>2. QED
        BY ONLY <4>1 DEF View, NChilds
    <3>2. Append(View(h).adj[v1 + 1], new)
            = [s \in 1 .. x + 1 |-> IF s <= x THEN View(h).adj[v1 + 1][s] ELSE new]
      BY <1>3, <3>1, AppendOf
    <3>3. [s \in 1 .. NChilds(k, v1) |-> Child(k, v1, s - 1)] = Append(View(h).adj[v1 + 1], new)
      <4>1. ASSUME NEW s \in 1 .. x + 1
            PROVE  Child(k, v1, s - 1) = IF s <= x THEN View(h).adj[v1 + 1][s] ELSE new
        <5>1. CASE s <= x
          BY <1>3, <1>9, <3>1, <5>1
        <5>2. CASE ~(s <= x)
          <6>1. s - 1 = x
            BY <1>3, <5>2
          <6>2. QED
            BY <1>8, <5>2, <6>1
        <5>3. QED
          BY <5>1, <5>2
      <4>2. NChilds(k, v1) = x + 1
        BY <1>7 DEF NChilds
      <4>3. QED
        BY <3>2, <4>1, <4>2
    <3>4. ASSUME NEW i \in 1 .. n, i # v1 + 1
          PROVE  [s \in 1 .. NChilds(k, i - 1) |-> Child(k, i - 1, s - 1)] = View(h).adj[i]
      <4>1. i - 1 \in 0 .. n - 1 /\ i - 1 # v1
        BY <3>4
      <4>2. NChilds(k, i - 1) = h.v_l[i - 1] /\ h.v_l[i - 1] \in Nat
        BY <1>7, <4>1 DEF NChilds
      <4>3. \A s \in 1 .. h.v_l[i - 1] : s - 1 \in 0 .. h.v_l[i - 1] - 1
        BY <4>2
      <4>4. QED
        BY <1>1, <1>9, <4>1, <4>2, <4>3 DEF View, NChilds
    <3>5. v1 + 1 \in 1 .. n /\ v1 + 1 - 1 = v1
      OBVIOUS
    <3>6. View(h).adj = [i \in 1 .. n |-> View(h).adj[i]]
      BY <1>1 DEF View
    <3>7. View(k).adj = [i \in 1 .. n |-> [s \in 1 .. NChilds(k, i - 1) |-> Child(k, i - 1, s - 1)]]
      BY <2>1 DEF View
    <3>8. \A i \in 1 .. n : [s \in 1 .. NChilds(k, i - 1) |-> Child(k, i - 1, s - 1)]
            = IF i = v1 + 1 THEN Append(View(h).adj[v1 + 1], new) ELSE View(h).adj[i]
      <4>1. ASSUME NEW i \in 1 .. n, i = v1 + 1
            PROVE  [s \in 1 .. NChilds(k, i - 1) |-> Child(k, i - 1, s - 1)]
                     = Append(View(h).adj[v1 + 1], new)
        <5>1. i - 1 = v1
          BY <4>1
        <5>2. QED
          BY <3>3, <5>1
      <4>2. QED
        BY <3>4, <4>1
    <3>9. QED
      BY <3>5, <3>6, <3>7, <3>8
  <2>5. View(k) = [verts |-> View(k).verts, adj |-> View(k).adj, props |-> View(k).props]
        /\ View(h) = [verts |-> View(h).verts, adj |-> View(h).adj, props |-> View(h).props]
    BY DEF View
  <2>6. \A u, w : /\ u = [verts |-> u.verts, adj |-> u.adj, props |-> u.props]
                  /\ w = [verts |-> w.verts, adj |-> w.adj, props |-> w.props]
                  /\ u.verts = w.verts /\ u.props = Append(w.props, ed)
                  /\ u.adj = [w.adj EXCEPT ![v1 + 1] = Append(@, new)]
                  => u = [w EXCEPT !.adj[v1 + 1] = Append(@, new), !.props = Append(@, ed)]
    OBVIOUS
  <2>7. QED
    BY <2>2, <2>3, <2>4, <2>5, <2>6 DEF WithEdgeSeen
<1>13. QED
  BY <1>6, <1>11, <1>12 DEF k

-----------------------------------------------------------------------------
(* The invariant says what the runs check. *)

LEMMA KeysOf ==
  ASSUME NEW n \in Nat, NEW m \in Nat, NEW h, Sized(h, n, m)
  PROVE  /\ \A k \in Keys(h) : /\ k = <<k[1], k[2]>> /\ k[1] \in 0 .. n - 1
                               /\ k[2] \in 0 .. h.v_l[k[1]] - 1 /\ k[2] \in Nat
         /\ \A c \in 0 .. n - 1 : \A s \in 0 .. h.v_l[c] - 1 : <<c, s>> \in Keys(h)
<1>1. /\ NVertex(h) = n /\ MaxDegree \in Nat
      /\ h.v_l \in [0 .. n - 1 -> 0 .. MaxDegree]
  BY SizedFacts
<1>2. \A c \in 0 .. n - 1 : h.v_l[c] \in 0 .. MaxDegree
  BY <1>1
<1>3. ASSUME NEW k \in Keys(h)
      PROVE  /\ k = <<k[1], k[2]>> /\ k[1] \in 0 .. n - 1
             /\ k[2] \in 0 .. h.v_l[k[1]] - 1 /\ k[2] \in Nat
  <2>1. k \in (0 .. n - 1) \X (0 .. MaxDegree) /\ k[2] < h.v_l[k[1]]
    BY <1>1 DEF Keys, NChilds
  <2>2. QED
    BY <1>1, <1>2, <2>1
<1>4. ASSUME NEW c \in 0 .. n - 1, NEW s \in 0 .. h.v_l[c] - 1
      PROVE  <<c, s>> \in Keys(h)
  <2>1. s \in 0 .. MaxDegree /\ s < h.v_l[c]
    BY <1>1, <1>2
  <2>2. QED
    BY <1>1, <2>1 DEF Keys, NChilds
<1>5. QED
  BY <1>3, <1>4

LEMMA GraphFacts ==
  ASSUME NEW h, GraphOK(h)
  PROVE  /\ DOMAIN h.v = 0 .. NVertex(h) - 1 /\ DOMAIN h.v_l = DOMAIN h.v
         /\ \A c \in DOMAIN h.v_l : h.v_l[c] \in 0 .. MaxDegree
         /\ DOMAIN h.e = 0 .. Size(h.e) - 1 /\ DOMAIN h.e_l = 0 .. Size(h.e_l) - 1
         /\ \A k \in Keys(h) : k[2] < h.v_slot /\ k[1] * h.v_slot + k[2] \in DOMAIN h.e_l
         /\ \A id \in DOMAIN h.e : \E k \in Keys(h) : \A l \in Keys(h) :
              k = l <=> Child(h, l[1], l[2]).eid = id
<1>0. CASE \E n \in Nat : Bare(h, n)
  <2>1. PICK n \in Nat : Bare(h, n)
    BY <1>0
  <2>2. /\ NVertex(h) = n /\ Size(h.e) = 0 /\ Size(h.e_l) = 0 /\ Keys(h) = {}
        /\ h.v_l = [c \in 0 .. n - 1 |-> 0]
    BY <2>1, BareFacts
  <2>3. DOMAIN h.v = 0 .. n - 1 /\ DOMAIN h.e = {} /\ DOMAIN h.e_l = {} /\ 0 .. 0 - 1 = {}
    BY <2>1 DEF Bare, None
  <2>4. \A c \in DOMAIN h.v_l : h.v_l[c] \in 0 .. MaxDegree
    BY <2>2, BoundsAssumption
  <2>5. QED
    BY <2>2, <2>3, <2>4
<1>a. SUFFICES ASSUME Roomy(h) PROVE
         /\ DOMAIN h.v = 0 .. NVertex(h) - 1 /\ DOMAIN h.v_l = DOMAIN h.v
         /\ \A c \in DOMAIN h.v_l : h.v_l[c] \in 0 .. MaxDegree
         /\ DOMAIN h.e = 0 .. Size(h.e) - 1 /\ DOMAIN h.e_l = 0 .. Size(h.e_l) - 1
         /\ \A k \in Keys(h) : k[2] < h.v_slot /\ k[1] * h.v_slot + k[2] \in DOMAIN h.e_l
         /\ \A id \in DOMAIN h.e : \E k \in Keys(h) : \A l \in Keys(h) :
              k = l <=> Child(h, l[1], l[2]).eid = id
  BY <1>0 DEF GraphOK
<1>1. PICK n, m \in Nat : Sized(h, n, m) /\ Linking(h, n, m)
  BY <1>a DEF Roomy
<1>2. /\ NVertex(h) = n /\ Size(h.e) = m /\ Size(h.e_l) = n * h.v_slot
      /\ h.v_slot \in Nat \ {0}
      /\ h.v_l \in [0 .. n - 1 -> 0 .. MaxDegree] /\ MaxDegree \in Nat
      /\ \A c \in 0 .. n - 1 : h.v_l[c] \in Nat /\ h.v_l[c] <= h.v_slot
  BY <1>1, SizedFacts
<1>3. /\ DOMAIN h.v = 0 .. n - 1 /\ DOMAIN h.v_l = 0 .. n - 1 /\ DOMAIN h.e = 0 .. m - 1
      /\ DOMAIN h.e_l = 0 .. n * h.v_slot - 1
  BY <1>1, <1>2 DEF Sized
<1>4. \A c \in 0 .. n - 1 : h.v_l[c] \in 0 .. MaxDegree
  BY <1>2
<1>5. \A k \in Keys(h) : /\ k = <<k[1], k[2]>> /\ k[1] \in 0 .. n - 1
                         /\ k[2] \in 0 .. h.v_l[k[1]] - 1 /\ k[2] \in Nat /\ k[2] < h.v_slot
  BY <1>1, <1>2, <1>4, KeysOf
<1>6. \A c \in 0 .. n - 1 : \A s \in 0 .. h.v_l[c] - 1 : <<c, s>> \in Keys(h)
  BY <1>1, KeysOf
<1>7. ASSUME NEW id \in 0 .. m - 1
      PROVE  \E k \in Keys(h) : \A l \in Keys(h) : k = l <=> Child(h, l[1], l[2]).eid = id
  <2>1. PICK c \in 0 .. n - 1 : \E s \in 0 .. h.v_l[c] - 1 :
          \A d \in 0 .. n - 1 : \A t \in 0 .. h.v_l[d] - 1 :
            c = d /\ s = t <=> Child(h, d, t).eid = id
    BY <1>1 DEF Linking
  <2>2. PICK s \in 0 .. h.v_l[c] - 1 :
          \A d \in 0 .. n - 1 : \A t \in 0 .. h.v_l[d] - 1 :
            c = d /\ s = t <=> Child(h, d, t).eid = id
    BY <2>1
  <2>3. \A l \in Keys(h) : <<c, s>> = l <=> Child(h, l[1], l[2]).eid = id
    BY <1>5, <2>2
  <2>4. QED
    BY <1>6, <2>3
<1>8. \A k \in Keys(h) : k[1] * h.v_slot + k[2] \in 0 .. n * h.v_slot - 1
  BY <1>1, <1>5, InUse
<1>9. QED
  BY <1>2, <1>3, <1>4, <1>5, <1>7, <1>8

LEMMA InvWellFormed == ASSUME Inv PROVE WellFormed
BY GraphFacts DEF Inv, WellFormed, TypeOK, RoomForEdges, EdgesNumbered

-----------------------------------------------------------------------------
(* The steps. *)

LEMMA InitInv == ASSUME Init PROVE Inv /\ Store!Init
<1>1. ASSUME NEW o \in Obj
      PROVE  GraphOK(g[o]) /\ \E n \in Nat : View(g[o]) = Store!Fresh(n)
  <2>1. PICK n \in Counts, s \in Slots : g[o] = Constructed(n, s)
    BY DEF Init
  <2>2. g[o] = Made(n, s, Resize(None, 1))
    BY <2>1 DEF Constructed, Made
  <2>3. n \in Nat /\ n <= MaxVertex
    BY StartsAssumption, BoundsAssumption
  <2>4. Bare(g[o], n) /\ g[o].v = [i \in 0 .. n - 1 |-> Unset]
    BY <2>2, <2>3, MadeBare
  <2>5. QED
    BY <2>3, <2>4, MadeFresh DEF GraphOK
<1>2. Inv
  BY <1>1 DEF Inv, Init
<1>3. \A o \in Obj : \E n \in Nat : GraphView[o] = Store!Fresh(n)
  BY <1>1, ViewOf
<1>4. \A n \in Nat : Len(Store!Fresh(n).verts) = n
  BY DEF Store!Fresh
<1>5. QED
  BY <1>2, <1>3, <1>4 DEF Store!Init

\* One graph is replaced, and the others stay.
LEMMA Replaced ==
  ASSUME Inv, NEW o \in Obj, NEW k, GraphOK(k), g' = [g EXCEPT ![o] = k]
  PROVE  Inv' /\ GraphView' = [GraphView EXCEPT ![o] = View(k)]
<1>1. g' = [p \in Obj |-> IF p = o THEN k ELSE g[p]]
  BY DEF Inv
<1>2. Inv'
  BY <1>1 DEF Inv
<1>3. GraphView' = [p \in Obj |-> View(g'[p])]
  BY DEF GraphView, View
<1>4. QED
  BY <1>1, <1>2, <1>3, ViewOf

LEMMA Exchanged ==
  ASSUME Inv, NEW o \in Obj, NEW p \in Obj, g' = [g EXCEPT ![o] = g[p], ![p] = g[o]]
  PROVE  Inv' /\ Store!Swap(o, p)
<1>1. g' = [q \in Obj |-> IF q = p THEN g[o] ELSE IF q = o THEN g[p] ELSE g[q]]
  BY DEF Inv
<1>2. Inv'
  BY <1>1 DEF Inv
<1>3. GraphView' = [q \in Obj |-> View(g'[q])]
  BY DEF GraphView, View
<1>4. GraphView' = [GraphView EXCEPT ![o] = GraphView[p], ![p] = GraphView[o]]
  BY <1>1, <1>3, ViewOf
<1>5. QED
  BY <1>2, <1>4 DEF Store!Swap

LEMMA StepAddVertex ==
  ASSUME Careful, Inv, NEW o \in Obj, NEW vrt \in VProp, AddVertex(o, vrt)
  PROVE  Inv' /\ Store!AddVertex(o, vrt)
<1> DEFINE h == g[o]
<1>0. GraphOK(h) /\ Size(h.e_l) = NVertex(h) * h.v_slot
  BY DEF Inv, AddVertex, Careful
<1>1. PICK n, m \in Nat : Sized(h, n, m) /\ Linking(h, n, m)
  <2>1. ASSUME NEW n \in Nat, Bare(h, n) PROVE Roomy(h)
    <3>1. n * h.v_slot = 0 /\ h.v_slot \in Nat \ {0}
      BY <1>0, <2>1, BareFacts, StartsAssumption DEF Bare
    <3>2. n = 0
      <4>1. \A a \in Nat, w \in Nat \ {0} : a * w = 0 => a = 0
        OBVIOUS
      <4>2. QED
        BY <3>1, <4>1
    <3>3. QED
      BY <2>1, <3>2, BareRoomy DEF Roomy
  <2>2. QED
    BY <1>0, <2>1 DEF GraphOK, Roomy
<1>2. n < MaxVertex /\ n + 1 \in Nat
  BY <1>1, SizedFacts DEF AddVertex
<1>3. GraphOK(WithVertex(h, vrt))
      /\ View(WithVertex(h, vrt)) = [View(h) EXCEPT !.verts = Append(@, vrt), !.adj = Append(@, <<>>)]
  BY <1>1, <1>2, AddVertexOK DEF GraphOK, Roomy
<1>4. g' = [g EXCEPT ![o] = WithVertex(h, vrt)]
  <2>1. [h EXCEPT !.v = Add(h.v, vrt), !.v_l = Add(h.v_l, 0),
                  !.e_l = Resize(h.e_l, Size(h.e_l) + h.v_slot)] = WithVertex(h, vrt)
    <3>1. Fields(h)
      BY <1>1 DEF Sized
    <3>2. QED
      <4>1. \A a, b, c : [h EXCEPT !.v = a, !.v_l = b, !.e_l = c]
              = [v_slot |-> h.v_slot, v |-> a, v_l |-> b, e |-> h.e, e_l |-> c,
                 e_invalid |-> h.e_invalid]
        BY <3>1, VertexFields, Zenon
      <4>2. QED
        BY ONLY <4>1, Zenon DEF WithVertex
  <2>2. g' = [g EXCEPT ![o] = [h EXCEPT !.v = Add(h.v, vrt), !.v_l = Add(h.v_l, 0),
                  !.e_l = Resize(h.e_l, Size(h.e_l) + h.v_slot)]]
    BY DEF AddVertex, Inv
  <2>3. QED
    BY <2>1, <2>2
<1>5. Inv' /\ GraphView' = [GraphView EXCEPT ![o] = View(WithVertex(h, vrt))]
  BY <1>3, <1>4, Replaced
<1>6. GraphView[o] = View(h)
  BY ViewOf
<1>7. QED
  BY <1>3, <1>5, <1>6 DEF Store!AddVertex

LEMMA StepAddEdge ==
  ASSUME Careful, Inv, NEW o \in Obj, NEW v1 \in Nat, NEW v2 \in Nat, NEW ed \in EProp,
         AddEdge(o, v1, v2, ed)
  PROVE  /\ Inv' /\ Store!AddEdge(o, v1, v2, ed)
         /\ v1 \in 0 .. Len(GraphView[o].verts) - 1 /\ v2 \in 0 .. Len(GraphView[o].verts) - 1
<1> DEFINE h == g[o]
           x == h.v_l[v1]
           k == WithRoom(h, x)
<1>1. /\ v1 < NVertex(h) /\ v2 < NVertex(h) /\ x < MaxDegree /\ x < h.v_slot
      /\ Size(h.e) < MaxEdge
  BY DEF AddEdge, NChilds, Careful
<1>2. PICK n, m \in Nat :
        /\ Sized(k, n, m) /\ Linking(k, n, m) /\ View(k) = View(h)
        /\ NVertex(h) = n /\ Size(h.e) = m /\ k.v_l = h.v_l /\ k.v_slot = h.v_slot
        /\ h.v_slot \in Nat /\ x \in Nat
  <2>1. ASSUME NEW n \in Nat, NEW m \in Nat, Sized(h, n, m), Linking(h, n, m)
        PROVE  k = h /\ NVertex(h) = n /\ Size(h.e) = m /\ h.v_slot \in Nat /\ x \in Nat
    <3>1. /\ NVertex(h) = n /\ Size(h.e) = m /\ h.v_slot \in Nat
          /\ \A c \in 0 .. n - 1 : h.v_l[c] \in Nat
      BY <2>1, SizedFacts
    <3>2. v1 \in 0 .. n - 1
      BY <1>1, <3>1
    <3>3. k = h
      BY <1>1, <2>1, <3>2, AddEdgeIs
    <3>4. QED
      BY <3>1, <3>2, <3>3
  <2>2. ASSUME NEW n \in Nat, Bare(h, n)
        PROVE  /\ Sized(k, n, 0) /\ Linking(k, n, 0) /\ View(k) = View(h)
               /\ NVertex(h) = n /\ Size(h.e) = 0 /\ k.v_l = h.v_l /\ k.v_slot = h.v_slot
               /\ h.v_slot \in Nat /\ x = 0
    <3>1. NVertex(h) = n /\ Size(h.e) = 0 /\ h.v_l = [c \in 0 .. n - 1 |-> 0]
      BY <2>2, BareFacts
    <3>2. v1 \in 0 .. n - 1 /\ h.v_slot \in Nat
      <4>1. h.v_slot \in Slots
        BY <2>2 DEF Bare
      <4>2. h.v_slot \in Nat
        BY ONLY <4>1, StartsAssumption
      <4>3. v1 < n /\ v1 \in Nat
        BY <1>1, <3>1
      <4>4. v1 \in 0 .. n - 1
        BY ONLY <4>3, n \in Nat
      <4>5. QED
        BY ONLY <4>2, <4>4
    <3>3. x = 0
      BY <3>1, <3>2
    <3> HIDE DEF k, x
    <3>4. k = WithRoom(h, x)
      BY DEF k
    <3>5. /\ Sized(k, n, 0) /\ Linking(k, n, 0) /\ View(k) = View(h)
          /\ k.v_l = h.v_l /\ k.v_slot = h.v_slot
      BY <2>2, <3>3, <3>4, FirstRoom
    <3>6. QED
      BY <3>1, <3>2, <3>3, <3>5
  <2>3. Roomy(h) \/ \E n \in Nat : Bare(h, n)
    BY DEF Inv, GraphOK
  <2> HIDE DEF k, x
  <2>4. CASE Roomy(h)
    BY <2>1, <2>4 DEF Roomy
  <2>5. CASE \E n \in Nat : Bare(h, n)
    <3>1. PICK n \in Nat : Bare(h, n)
      BY <2>5
    <3>2. 0 \in Nat
      OBVIOUS
    <3>3. QED
      BY <2>2, <3>1, <3>2
  <2>6. QED
    BY <2>3, <2>4, <2>5
<1>3. /\ v1 \in 0 .. n - 1 /\ v2 \in 0 .. n - 1 /\ m < MaxEdge
      /\ k.v_l[v1] = x /\ k.v_l[v1] < MaxDegree /\ k.v_l[v1] < k.v_slot /\ ~(x >= h.v_slot)
  BY <1>1, <1>2
<1> HIDE DEF k
<1>4. GraphOK(WithEdge(k, v1, v2, ed))
      /\ View(WithEdge(k, v1, v2, ed))
              = WithEdgeSeen(View(h), v1, [vid |-> v2, eid |-> m], ed)
  <2>1. /\ Sized(WithEdge(k, v1, v2, ed), n, m + 1)
        /\ Linking(WithEdge(k, v1, v2, ed), n, m + 1)
        /\ View(WithEdge(k, v1, v2, ed))
              = WithEdgeSeen(View(k), v1, [vid |-> v2, eid |-> m], ed)
    BY <1>2, <1>3, AddEdgeOK
  <2>2. m + 1 \in Nat
    OBVIOUS
  <2>3. QED
    BY <1>2, <2>1, <2>2 DEF GraphOK, Roomy
<1>5. g' = [g EXCEPT ![o] = WithEdge(k, v1, v2, ed)]
  <2>1. Linked(k, v1, x, v2, ed) = WithEdge(k, v1, v2, ed)
    BY <1>2, <1>3, AddEdgeIs
  <2>2. g' = [g EXCEPT ![o] = Linked(k, v1, x, v2, ed)]
    BY <1>3 DEF AddEdge, NChilds, k
  <2>3. QED
    BY <2>1, <2>2
<1>6. Inv' /\ GraphView' = [GraphView EXCEPT ![o] = View(WithEdge(k, v1, v2, ed))]
  BY <1>4, <1>5, Replaced
<1>7. GraphView[o] = View(h)
  BY ViewOf
<1>8. Len(View(h).verts) = n /\ Len(View(h).props) = m
  BY <1>2 DEF View
<1>9. QED
  BY <1>3, <1>4, <1>6, <1>7, <1>8 DEF Store!AddEdge, WithEdgeSeen

LEMMA SlotsThere ==
  ASSUME Inv, NEW o \in Obj
  PROVE  Fields(g[o]) /\ g[o].v_slot \in Slots /\ GraphOK(g[o])
BY DEF Inv, GraphOK, Roomy, Sized, Bare

LEMMA StepClear ==
  ASSUME Inv, NEW o \in Obj, Clear(o)
  PROVE  Inv' /\ Store!Clear(o)
<1> DEFINE k == [Constructed(0, g[o].v_slot) EXCEPT !.e_invalid = None]
<1>1. k = Made(0, g[o].v_slot, None)
  BY DEF Constructed, Made
<1>2. g[o].v_slot \in Slots /\ 0 \in Nat /\ 0 <= MaxVertex
  BY SlotsThere, BoundsAssumption
<1> HIDE DEF k
<1>3. Bare(k, 0) /\ k.v = [i \in 0 .. 0 - 1 |-> Unset]
  BY <1>1, <1>2, MadeBare
<1>4. GraphOK(k) /\ View(k) = Store!Fresh(0)
  BY <1>2, <1>3, MadeFresh DEF GraphOK
<1>5. QED
  BY <1>4, Replaced DEF Clear, Store!Clear, k

\* Slots do not matter to a graph without entries.
LEMMA OtherSlots ==
  ASSUME NEW h, GraphOK(h), Size(h.e_l) = 0, NEW s \in Slots, NEW k, k = [h EXCEPT !.v_slot = s]
  PROVE  GraphOK(k) /\ View(k) = View(h)
<1>1. PICK n \in Nat : Bare(h, n)
  BY NoEntries
<1>2. PICK p, q, r, t, u, w :
        h = [v_slot |-> p, v |-> q, v_l |-> r, e |-> t, e_l |-> u, e_invalid |-> w]
  BY <1>1 DEF Bare, Fields
<1>3. k = [v_slot |-> s, v |-> h.v, v_l |-> h.v_l, e |-> h.e, e_l |-> h.e_l,
           e_invalid |-> h.e_invalid]
  BY <1>2
<1>4. /\ k.v_slot = s /\ k.v = h.v /\ k.v_l = h.v_l /\ k.e = h.e /\ k.e_l = h.e_l
      /\ k.e_invalid = h.e_invalid
  BY <1>3
<1>5. Bare(k, n)
  BY <1>1, <1>3, <1>4 DEF Bare, Fields
<1>6. /\ View(h) = [verts |-> [i \in 1 .. n |-> h.v[i - 1]],
                     adj |-> [i \in 1 .. n |-> <<>>], props |-> <<>>]
      /\ View(k) = [verts |-> [i \in 1 .. n |-> k.v[i - 1]],
                     adj |-> [i \in 1 .. n |-> <<>>], props |-> <<>>]
  <2>1. \A x : Bare(x, n) => View(x) = [verts |-> [i \in 1 .. n |-> x.v[i - 1]],
                                        adj |-> [i \in 1 .. n |-> <<>>], props |-> <<>>]
    BY BareFacts
  <2>2. QED
    BY ONLY <1>1, <1>5, <2>1, Zenon
<1>7. GraphOK(k)
  BY <1>5 DEF GraphOK
<1>8. QED
  BY ONLY <1>4, <1>6, <1>7

LEMMA StepMove ==
  ASSUME Careful, Inv, NEW o \in Obj, NEW p \in Obj, MoveAssign(o, p)
  PROVE  Inv' /\ Store!Swap(o, p)
<1>1. CASE g[o].v_slot = g[p].v_slot
  <2>1. ASSUME NEW h, Fields(h) PROVE [h EXCEPT !.v_slot = h.v_slot] = h
    BY <2>1 DEF Fields
  <2>2. g' = [g EXCEPT ![o] = g[p], ![p] = g[o]]
    BY <1>1, <2>1, SlotsThere DEF MoveAssign
  <2>3. QED
    BY <2>2, Exchanged
<1>2. CASE Size(g[o].e_l) = 0 /\ Size(g[p].e_l) = 0
  <2> DEFINE a == [g[p] EXCEPT !.v_slot = g[o].v_slot]
             b == [g[o] EXCEPT !.v_slot = g[p].v_slot]
  <2>1. /\ GraphOK(g[o]) /\ GraphOK(g[p]) /\ g[o].v_slot \in Slots /\ g[p].v_slot \in Slots
    BY SlotsThere
  <2>2. g' = [g EXCEPT ![o] = a, ![p] = b] /\ o # p
    BY DEF MoveAssign
  <2>3. GraphOK(a) /\ View(a) = View(g[p])
    BY <1>2, <2>1, OtherSlots
  <2>4. GraphOK(b) /\ View(b) = View(g[o])
    BY <1>2, <2>1, OtherSlots
  <2> HIDE DEF a, b
  <2>5. g' = [q \in Obj |-> IF q = p THEN b ELSE IF q = o THEN a ELSE g[q]]
    BY <2>2 DEF Inv
  <2>6. Inv'
    BY <2>3, <2>4, <2>5 DEF Inv
  <2>7. GraphView' = [q \in Obj |-> View(g'[q])]
    BY DEF GraphView, View
  <2>8. GraphView' = [GraphView EXCEPT ![o] = GraphView[p], ![p] = GraphView[o]]
    BY <2>3, <2>4, <2>5, <2>7, ViewOf
  <2>9. QED
    BY <2>6, <2>8 DEF Store!Swap
<1>3. QED
  BY <1>1, <1>2 DEF MoveAssign, Careful

LEMMA NextInv ==
  ASSUME Careful, Inv, [Next]_g
  PROVE  Inv' /\ [Store!Next]_GraphView
<1>1. ASSUME NEW o \in Obj, NEW vrt \in VProp, AddVertex(o, vrt)
      PROVE  Inv' /\ Store!Next
  BY <1>1, StepAddVertex DEF Store!Next
<1>2. ASSUME NEW o \in Obj, NEW v1 \in 0 .. MaxVertex - 1, NEW v2 \in 0 .. MaxVertex - 1,
             NEW ed \in EProp, AddEdge(o, v1, v2, ed)
      PROVE  Inv' /\ Store!Next
  <2>1. v1 \in Nat /\ v2 \in Nat
    BY BoundsAssumption
  <2>2. QED
    BY <1>2, <2>1, StepAddEdge DEF Store!Next
<1>3. ASSUME NEW o \in Obj, Clear(o) PROVE Inv' /\ Store!Next
  BY <1>3, StepClear DEF Store!Next
<1>4. ASSUME NEW o \in Obj, NEW p \in Obj, Copy(o, p) PROVE Inv' /\ Store!Next
  <2>1. GraphOK(g[p]) /\ GraphView[p] = View(g[p])
    BY ViewOf DEF Inv
  <2>2. Inv' /\ Store!Copy(o, p)
    BY <1>4, <2>1, Replaced DEF Copy, Store!Copy
  <2>3. QED
    BY <2>2 DEF Store!Next
<1>5. ASSUME NEW o \in Obj, NEW p \in Obj, Swap(o, p) PROVE Inv' /\ Store!Next
  BY <1>5, Exchanged DEF Swap, Store!Next
<1>6. ASSUME NEW o \in Obj, NEW p \in Obj, MoveAssign(o, p) PROVE Inv' /\ Store!Next
  BY <1>6, StepMove DEF Store!Next
<1>7. ASSUME UNCHANGED g PROVE Inv' /\ UNCHANGED GraphView
  <2>1. Inv'
    BY <1>7 DEF Inv
  <2>2. UNCHANGED GraphView
    BY <1>7 DEF GraphView
  <2>3. QED
    BY <2>1, <2>2
<1>8. QED
  BY <1>1, <1>2, <1>3, <1>4, <1>5, <1>6, <1>7 DEF Next

\* The arrays have their sizes, every edge of every vertex has its place in e_l
\* (map_graph.hpp:394) and the number of its own property (405): for any graphs,
\* made with any number of vertices and slots and used as Careful says.
THEOREM GraphWellFormed == Careful => (Spec => []WellFormed)
<1> SUFFICES ASSUME Careful PROVE Spec => []WellFormed
  OBVIOUS
<1>1. Init => Inv
  BY InitInv
<1>2. Inv /\ [Next]_g => Inv'
  BY NextInv
<1>3. Inv => WellFormed
  BY InvWellFormed
<1>4. QED
  BY <1>1, <1>2, <1>3, PTL DEF Spec

\* Graph_CSR, used as Careful says, is the directed graph of GraphStore: every
\* step of it (addVertex, addEdge, clear, =, swap) is the same step of the graph
\* its accessors show.
THEOREM GraphImplements == Careful => (Spec => ImplementsGraph)
<1> SUFFICES ASSUME Careful PROVE Spec => ImplementsGraph
  OBVIOUS
<1>1. Init => Inv /\ Store!Init
  BY InitInv
<1>2. Inv /\ [Next]_g => Inv' /\ [Store!Next]_GraphView
  BY NextInv
<1>3. QED
  BY <1>1, <1>2, PTL DEF Spec, ImplementsGraph

-----------------------------------------------------------------------------
(* The walk of the edge iterator.  Keys are met in lexicographic order; the  *)
(* position of a key in the walk is the number of keys before it.            *)

Less == {ss \in Nat \X Nat : ss[1] < ss[2]}

LEMMA LeastNat ==
  ASSUME NEW S \in SUBSET Nat, S # {}
  PROVE  \E m \in S : \A k \in S : m <= k
<1>1. IsWellFoundedOn(Less, Nat)
  BY NatLessThanWellFounded DEF OpToRel, Less
<1>2. \E m \in S : \A k \in S : ~(<<k, m>> \in Less)
  BY <1>1, WFMin
<1>3. \A k, m \in Nat : k < m => <<k, m>> \in Less
  BY DEF Less
<1>4. \A k, m \in Nat : ~(k < m) => m <= k
  OBVIOUS
<1>5. QED
  BY <1>2, <1>3, <1>4

Onward(h, k) == IF k[1] < NVertex(h) THEN Advance(h, k) ELSE k

\* f gives the first keys of the walk, up to f[b].
Keying(h, f, b) ==
  f = [n \in 0 .. b |-> IF n = 0 THEN <<0, 0>> ELSE Onward(h, f[n - 1])]

Unkeyed(h) == {b \in Nat : ~ \E f : Keying(h, f, b)}

LEMMA KeyingExists == ASSUME NEW h, NEW b \in Nat PROVE \E f : Keying(h, f, b)
<1>1. SUFFICES ASSUME Unkeyed(h) # {} PROVE FALSE
  BY DEF Unkeyed
<1>2. Unkeyed(h) \in SUBSET Nat
  BY DEF Unkeyed
<1>3. PICK c \in Unkeyed(h) : \A d \in Unkeyed(h) : c <= d
  BY <1>1, <1>2, LeastNat
<1>4. c \in Nat /\ ~ \E f : Keying(h, f, c)
  BY DEF Unkeyed
<1>5. c # 0
  <2>1. Keying(h, [n \in 0 .. 0 |-> <<0, 0>>], 0)
    BY DEF Keying
  <2>2. QED
    BY <1>4, <2>1
<1>6. c - 1 \in Nat /\ c - 1 \notin Unkeyed(h)
  BY <1>3, <1>4, <1>5
<1>7. PICK f : Keying(h, f, c - 1)
  BY <1>6 DEF Unkeyed
<1> DEFINE w == [n \in 0 .. c |-> IF n = c THEN Onward(h, f[c - 1]) ELSE f[n]]
<1>8. \A n \in 0 .. c - 1 : f[n] = IF n = 0 THEN <<0, 0>> ELSE Onward(h, f[n - 1])
  BY <1>7 DEF Keying
<1>9. \A n \in 0 .. c : w[n] = IF n = 0 THEN <<0, 0>> ELSE Onward(h, w[n - 1])
  BY <1>4, <1>5, <1>8
<1>10. Keying(h, w, c)
  <2>1. w = [n \in 0 .. c |-> w[n]]
    OBVIOUS
  <2>2. [n \in 0 .. c |-> w[n]] = [n \in 0 .. c |-> IF n = 0 THEN <<0, 0>> ELSE Onward(h, w[n - 1])]
    BY <1>9
  <2>3. QED
    BY <2>1, <2>2, Zenon DEF Keying
<1>11. QED
  BY <1>4, <1>10

\* There are at most as many keys as edges: their edge ids differ.
LEMMA KeysCount ==
  ASSUME NEW n \in Nat, NEW m \in Nat, NEW h, Sized(h, n, m), Linking(h, n, m)
  PROVE  IsFiniteSet(Keys(h)) /\ Cardinality(Keys(h)) \in 0 .. m
<1> DEFINE f == [k \in Keys(h) |-> Child(h, k[1], k[2]).eid]
           T == 0 .. m - 1
<1>1. \A k \in Keys(h) : /\ k = <<k[1], k[2]>> /\ k[1] \in 0 .. n - 1
                         /\ k[2] \in 0 .. h.v_l[k[1]] - 1
  BY KeysOf
<1>2. f \in [Keys(h) -> T]
  BY <1>1 DEF Linking
<1>3. ASSUME NEW k \in Keys(h), NEW l \in Keys(h), f[k] = f[l]
      PROVE  k = l
  <2>1. f[k] \in 0 .. m - 1 /\ f[k] = Child(h, k[1], k[2]).eid /\ f[k] = Child(h, l[1], l[2]).eid
    BY <1>2, <1>3
  <2>2. PICK c \in 0 .. n - 1 : \E s \in 0 .. h.v_l[c] - 1 :
          \A d \in 0 .. n - 1 : \A t \in 0 .. h.v_l[d] - 1 :
            c = d /\ s = t <=> Child(h, d, t).eid = f[k]
    BY <2>1 DEF Linking
  <2>3. PICK s \in 0 .. h.v_l[c] - 1 :
          \A d \in 0 .. n - 1 : \A t \in 0 .. h.v_l[d] - 1 :
            c = d /\ s = t <=> Child(h, d, t).eid = f[k]
    BY <2>2
  <2>4. c = k[1] /\ s = k[2] /\ c = l[1] /\ s = l[2]
    BY <1>1, <2>1, <2>3
  <2>5. QED
    BY <1>1, <2>4
<1>4. f \in Injection(Keys(h), T)
  BY <1>2, <1>3 DEF Injection, IsInjective
<1>5. IsFiniteSet(T) /\ Cardinality(T) = m
  <2>1. IsFiniteSet(0 .. m - 1) /\ Cardinality(0 .. m - 1) = IF 0 > m - 1 THEN 0 ELSE m - 1 - 0 + 1
    BY FS_Interval
  <2>2. QED
    BY <2>1
<1>6. \A S, W : \A q \in Injection(S, W) : IsFiniteSet(W) =>
        IsFiniteSet(S) /\ Cardinality(S) <= Cardinality(W)
  BY FS_Injection
<1>7. IsFiniteSet(Keys(h)) /\ Cardinality(Keys(h)) <= m
  BY <1>4, <1>5, <1>6
<1>8. Cardinality(Keys(h)) \in Nat
  BY <1>7, FS_CardinalityType
<1>9. QED
  BY <1>7, <1>8

\* The keys the walk gives.
Met(h) == Keys(h) \cup {<<c, 0>> : c \in DOMAIN h.v \cap {0}}

WalkBound == MaxVertex + MaxEdge

\* What the walk has to do with: h has n vertices and lists their edges.
Listed(h, n) ==
  /\ NVertex(h) = n
  /\ \A k \in Met(h) : k = <<k[1], k[2]>> /\ k[1] \in 0 .. n - 1 /\ k[2] \in Nat
  /\ \A k \in Met(h) : k[2] < NChilds(h, k[1]) \/ (k = <<0, 0>> /\ NChilds(h, 0) = 0)
  /\ \A c \in 0 .. n - 1 : NChilds(h, c) \in Nat
                           /\ \A s \in 0 .. NChilds(h, c) - 1 : <<c, s>> \in Met(h)
  /\ n # 0 => <<0, 0>> \in Met(h)
  /\ IsFiniteSet(Met(h)) /\ Cardinality(Met(h)) \in 0 .. WalkBound

LEMMA GraphListed ==
  ASSUME NEW h, GraphOK(h)
  PROVE  \E n \in Nat : Listed(h, n)
<1>1. PICK n \in Nat, m \in 0 .. MaxEdge :
        /\ NVertex(h) = n /\ n <= MaxVertex /\ DOMAIN h.v = 0 .. n - 1
        /\ \A k \in Keys(h) : /\ k = <<k[1], k[2]>> /\ k[1] \in 0 .. n - 1
                              /\ k[2] \in 0 .. h.v_l[k[1]] - 1 /\ k[2] \in Nat
        /\ \A c \in 0 .. n - 1 : \A s \in 0 .. h.v_l[c] - 1 : <<c, s>> \in Keys(h)
        /\ \A c \in 0 .. n - 1 : h.v_l[c] \in Nat
        /\ IsFiniteSet(Keys(h)) /\ Cardinality(Keys(h)) \in 0 .. m
  <2>1. ASSUME NEW n \in Nat, NEW m \in Nat, Sized(h, n, m), Linking(h, n, m)
        PROVE  /\ m \in 0 .. MaxEdge /\ NVertex(h) = n /\ n <= MaxVertex /\ DOMAIN h.v = 0 .. n - 1
               /\ \A k \in Keys(h) : /\ k = <<k[1], k[2]>> /\ k[1] \in 0 .. n - 1
                                     /\ k[2] \in 0 .. h.v_l[k[1]] - 1 /\ k[2] \in Nat
               /\ \A c \in 0 .. n - 1 : \A s \in 0 .. h.v_l[c] - 1 : <<c, s>> \in Keys(h)
               /\ \A c \in 0 .. n - 1 : h.v_l[c] \in Nat
               /\ IsFiniteSet(Keys(h)) /\ Cardinality(Keys(h)) \in 0 .. m
    <3>1. /\ m <= MaxEdge /\ MaxEdge \in Nat /\ n <= MaxVertex /\ DOMAIN h.v = 0 .. n - 1
      BY <2>1, BoundsAssumption DEF Sized
    <3>2. NVertex(h) = n /\ \A c \in 0 .. n - 1 : h.v_l[c] \in Nat
      BY <2>1, SizedFacts
    <3>3. /\ \A k \in Keys(h) : /\ k = <<k[1], k[2]>> /\ k[1] \in 0 .. n - 1
                                /\ k[2] \in 0 .. h.v_l[k[1]] - 1 /\ k[2] \in Nat
          /\ \A c \in 0 .. n - 1 : \A s \in 0 .. h.v_l[c] - 1 : <<c, s>> \in Keys(h)
      BY <2>1, KeysOf
    <3>4. IsFiniteSet(Keys(h)) /\ Cardinality(Keys(h)) \in 0 .. m
      BY <2>1, KeysCount
    <3>5. QED
      BY <3>1, <3>2, <3>3, <3>4
  <2>2. ASSUME NEW n \in Nat, Bare(h, n)
        PROVE  /\ 0 \in 0 .. MaxEdge /\ NVertex(h) = n /\ n <= MaxVertex /\ DOMAIN h.v = 0 .. n - 1
               /\ Keys(h) = {} /\ \A c \in 0 .. n - 1 : h.v_l[c] = 0
               /\ IsFiniteSet({}) /\ Cardinality({}) = 0
    BY <2>2, BareFacts, BoundsAssumption, FS_EmptySet DEF Bare
  <2>3. CASE Roomy(h)
    BY <2>1, <2>3 DEF Roomy
  <2>4. CASE \E n \in Nat : Bare(h, n)
    <3>1. PICK n \in Nat : Bare(h, n)
      BY <2>4
    <3>2. /\ 0 \in 0 .. MaxEdge /\ NVertex(h) = n /\ n <= MaxVertex /\ DOMAIN h.v = 0 .. n - 1
          /\ Keys(h) = {} /\ \A c \in 0 .. n - 1 : h.v_l[c] = 0
          /\ IsFiniteSet({}) /\ Cardinality({}) = 0
      BY <2>2, <3>1
    <3>3. \A c \in 0 .. n - 1 : h.v_l[c] \in Nat /\ 0 .. h.v_l[c] - 1 = {}
      BY <3>2
    <3>4. QED
      BY ONLY <3>2, <3>3
  <2>5. QED
    BY <2>3, <2>4 DEF GraphOK
<1>2. {<<c, 0>> : c \in DOMAIN h.v \cap {0}} = IF n = 0 THEN {} ELSE {<<0, 0>>}
  BY <1>1
<1>3. \A k \in Met(h) : k \in Keys(h) \/ (k = <<0, 0>> /\ n # 0)
  BY <1>2 DEF Met
<1>4. Keys(h) \subseteq Met(h) /\ (n # 0 => <<0, 0>> \in Met(h))
  BY <1>2 DEF Met
<1>5. \A k \in Met(h) : k = <<k[1], k[2]>> /\ k[1] \in 0 .. n - 1 /\ k[2] \in Nat
  <2>1. n # 0 => 0 \in 0 .. n - 1
    OBVIOUS
  <2>2. QED
    BY <1>1, <1>3, <2>1
<1>6. \A k \in Met(h) : k[2] < NChilds(h, k[1]) \/ (k = <<0, 0>> /\ NChilds(h, 0) = 0)
  <2>1. \A k \in Keys(h) : k[2] < h.v_l[k[1]]
    BY <1>1
  <2>2. n # 0 => 0 < h.v_l[0] \/ h.v_l[0] = 0
    BY <1>1
  <2>3. QED
    BY <1>3, <2>1, <2>2 DEF NChilds
<1>7. \A c \in 0 .. n - 1 : NChilds(h, c) \in Nat
                            /\ \A s \in 0 .. NChilds(h, c) - 1 : <<c, s>> \in Met(h)
  BY <1>1, <1>4 DEF NChilds
<1>8. IsFiniteSet(Met(h)) /\ Cardinality(Met(h)) \in 0 .. WalkBound
  <2>1. /\ m \in Nat /\ m <= MaxEdge /\ MaxEdge \in Nat /\ MaxVertex \in Nat /\ WalkBound \in Nat
        /\ Cardinality(Keys(h)) \in Nat /\ Cardinality(Keys(h)) <= m
    BY <1>1, BoundsAssumption DEF WalkBound
  <2>2. CASE n = 0
    BY <1>1, <1>2, <2>1, <2>2 DEF Met, WalkBound
  <2>3. CASE n # 0
    <3>1. Met(h) = Keys(h) \cup {<<0, 0>>}
      BY <1>2, <2>3 DEF Met
    <3>2. \A S, x : IsFiniteSet(S) =>
            /\ IsFiniteSet(S \cup {x})
            /\ Cardinality(S \cup {x}) = Cardinality(S) \/ Cardinality(S \cup {x}) = Cardinality(S) + 1
      BY FS_AddElement
    <3>3. IsFiniteSet(Met(h)) /\ (Cardinality(Met(h)) = Cardinality(Keys(h))
                                  \/ Cardinality(Met(h)) = Cardinality(Keys(h)) + 1)
      <4>1. IsFiniteSet(Keys(h))
        BY <1>1
      <4>2. QED
        BY ONLY <3>1, <3>2, <4>1, Zenon
    <3>4. 1 <= MaxVertex
      BY <1>1, <2>1, <2>3
    <3>5. QED
      BY <2>1, <3>3, <3>4 DEF WalkBound
  <2>4. QED
    BY <2>2, <2>3
<1>9. QED
  BY <1>1, <1>4, <1>5, <1>6, <1>7, <1>8 DEF Listed

Before(k, l) == k[1] < l[1] \/ (k[1] = l[1] /\ k[2] < l[2])
Passed(h, k) == {l \in Met(h) : Before(l, k)}

\* One step of the walk passes the key it was at, and no other.
LEMMA AdvancePasses ==
  ASSUME NEW n \in Nat, NEW h, Listed(h, n), NEW k \in Met(h)
  PROVE  /\ Advance(h, k) \in Met(h) \cup {<<n, 0>>}
         /\ Passed(h, Advance(h, k)) = Passed(h, k) \cup {k}
<1>1. /\ NVertex(h) = n
      /\ \A l \in Met(h) : l = <<l[1], l[2]>> /\ l[1] \in 0 .. n - 1 /\ l[2] \in Nat
      /\ \A l \in Met(h) : l[2] < NChilds(h, l[1]) \/ (l = <<0, 0>> /\ NChilds(h, 0) = 0)
      /\ \A c \in 0 .. n - 1 : NChilds(h, c) \in Nat
                               /\ \A s \in 0 .. NChilds(h, c) - 1 : <<c, s>> \in Met(h)
  BY DEF Listed
<1>3. SUFFICES /\ Advance(h, k) \in Met(h) \cup {<<n, 0>>}
               /\ \A l \in Met(h) : Before(l, Advance(h, k)) <=> Before(l, k) \/ l = k
  BY DEF Passed
<1>4. CASE k[2] + 1 < NChilds(h, k[1])
  <2>1. Advance(h, k) = <<k[1], k[2] + 1>>
    BY <1>1, <1>4 DEF Advance
  <2>2. Advance(h, k) \in Met(h)
    <3>1. k[1] \in 0 .. n - 1 /\ k[2] + 1 \in 0 .. NChilds(h, k[1]) - 1
      BY <1>1, <1>4
    <3>2. QED
      BY <1>1, <2>1, <3>1
  <2>3. ASSUME NEW l \in Met(h)
        PROVE  Before(l, <<k[1], k[2] + 1>>) <=> Before(l, k) \/ l = k
    BY <1>1 DEF Before
  <2>4. QED
    BY <2>1, <2>2, <2>3
<1>5. CASE ~(k[2] + 1 < NChilds(h, k[1]))
  <2> DEFINE further == {c \in k[1] + 1 .. n - 1 : NChilds(h, c) # 0}
  <2>1. Advance(h, k) = <<NextVertex(h, k[1]), 0>>
    BY <1>1, <1>5 DEF Advance
  <2>2. \A l \in Met(h) : l[1] = k[1] => l[2] <= k[2]
    BY <1>1, <1>5
  <2>3. \A l \in Met(h) : NChilds(h, l[1]) # 0 \/ l[1] = 0
    BY <1>1
  <2>4. ASSUME NEW l \in Met(h)
        PROVE  /\ l[1] > k[1] => l[1] \in further
               /\ l[1] < k[1] => Before(l, k)
               /\ l[1] = k[1] => Before(l, k) \/ l = k
               /\ Before(l, k) \/ l = k => l[1] <= k[1]
               /\ \A d \in Nat : Before(l, <<d, 0>>) <=> l[1] < d
    <3>1. l[1] > k[1] => l[1] \in k[1] + 1 .. n - 1 /\ l[1] # 0
      BY <1>1
    <3>2. QED
      BY <1>1, <2>2, <2>3, <3>1 DEF Before
  <2>5. CASE further = {}
    <3>1. Advance(h, k) = <<n, 0>>
      BY <1>1, <2>1, <2>5 DEF NextVertex
    <3>2. \A l \in Met(h) : Before(l, <<n, 0>>) <=> Before(l, k) \/ l = k
      BY <1>1, <2>4, <2>5
    <3>3. QED
      BY <3>1, <3>2
  <2>6. CASE further # {}
    <3>1. further \in SUBSET Nat
      BY <1>1
    <3> HIDE DEF further
    <3>2. PICK c \in further : \A d \in further : c <= d
      BY <2>6, <3>1, LeastNat
    <3>3. NextVertex(h, k[1]) = CHOOSE d \in further : \A e \in further : d <= e
      BY <1>1, <2>6 DEF NextVertex, further
    <3>4. NextVertex(h, k[1]) \in further /\ \A d \in further : NextVertex(h, k[1]) <= d
      BY <3>2, <3>3
    <3>5. PICK d \in further : d = NextVertex(h, k[1]) /\ \A e \in further : d <= e
      BY <3>4
    <3>6. d \in k[1] + 1 .. n - 1 /\ d \in 0 .. n - 1 /\ 0 \in 0 .. NChilds(h, d) - 1
      BY <1>1 DEF further
    <3>7. <<d, 0>> \in Met(h)
      BY <1>1, <3>6
    <3>8. ASSUME NEW l \in Met(h) PROVE Before(l, <<d, 0>>) <=> Before(l, k) \/ l = k
      <4>1. /\ l[1] \in Nat /\ k[1] \in Nat /\ d \in Nat /\ k[1] < d
            /\ l[1] > k[1] => d <= l[1]
        BY <1>1, <2>4, <3>5, <3>6
      <4>2. QED
        BY <2>4, <4>1
    <3>9. QED
      BY <2>1, <3>5, <3>7, <3>8
  <2>7. QED
    BY <2>5, <2>6
<1>6. QED
  BY <1>4, <1>5

\* The positions that do not hold the key with as many keys before it.
Misplaced(h, f, n) ==
  {i \in 0 .. Cardinality(Met(h)) :
     ~(f[i] \in Met(h) \cup {<<n, 0>>} /\ Cardinality(Passed(h, f[i])) = i)}

LEMMA WalkInOrder ==
  ASSUME NEW n \in Nat, NEW h, Listed(h, n),
         NEW b \in Nat, Cardinality(Met(h)) <= b, NEW f, Keying(h, f, b)
  PROVE  /\ \A i \in 0 .. Cardinality(Met(h)) : Cardinality(Passed(h, f[i])) = i
         /\ \A i \in 0 .. Cardinality(Met(h)) - 1 : f[i] \in Met(h)
         /\ f[Cardinality(Met(h))] = <<n, 0>>
<1> DEFINE M == Cardinality(Met(h))
<1>1. IsFiniteSet(Met(h)) /\ M \in 0 .. b
  BY DEF Listed
<1>2. \A k : IsFiniteSet(Passed(h, k)) /\ Passed(h, k) \subseteq Met(h)
  <2>1. \A S, T : IsFiniteSet(S) /\ T \subseteq S => IsFiniteSet(T)
    BY FS_Subset
  <2>2. QED
    BY <1>1, <2>1 DEF Passed
<1>3. \A i \in 0 .. b : f[i] = IF i = 0 THEN <<0, 0>> ELSE Onward(h, f[i - 1])
  BY DEF Keying
<1>4. /\ \A l \in Met(h) : l = <<l[1], l[2]>> /\ l[1] \in 0 .. n - 1 /\ l[2] \in Nat
      /\ NVertex(h) = n /\ (n # 0 => <<0, 0>> \in Met(h))
  BY DEF Listed
\* The end has every key before it, and no key has itself before it.
<1>5. Passed(h, <<n, 0>>) = Met(h) /\ \A k \in Met(h) : k \notin Passed(h, k)
  BY <1>4 DEF Passed, Before
<1>6. \A k \in Met(h) : Cardinality(Passed(h, k)) # M
  <2>1. \A S, T : IsFiniteSet(S) /\ T \subseteq S /\ Cardinality(S) = Cardinality(T) => S = T
    BY FS_Subset
  <2>2. QED
    BY <1>1, <1>2, <1>5, <2>1
<1>7. Misplaced(h, f, n) = {}
  <2>1. SUFFICES ASSUME Misplaced(h, f, n) # {} PROVE FALSE
    OBVIOUS
  <2>2. Misplaced(h, f, n) \in SUBSET Nat
    BY <1>1 DEF Misplaced
  <2>3. PICK i \in Misplaced(h, f, n) : \A j \in Misplaced(h, f, n) : i <= j
    BY <2>1, <2>2, LeastNat
  <2>4. i \in 0 .. M /\ ~(f[i] \in Met(h) \cup {<<n, 0>>} /\ Cardinality(Passed(h, f[i])) = i)
    BY DEF Misplaced
  <2>5. CASE i = 0
    <3>1. f[0] = <<0, 0>>
      BY <1>3
    <3>2. <<0, 0>> \in Met(h) \cup {<<n, 0>>}
      BY <1>4
    <3>3. Passed(h, <<0, 0>>) = {}
      BY <1>4 DEF Passed, Before
    <3>4. QED
      BY <2>4, <2>5, <3>1, <3>2, <3>3, FS_EmptySet
  <2>6. CASE i # 0
    <3>1. i - 1 \in 0 .. M /\ i - 1 \in Nat /\ i \in 0 .. b /\ ~(i <= i - 1) /\ i - 1 # M
      BY <1>1, <2>4, <2>6
    <3>2. i - 1 \notin Misplaced(h, f, n)
      BY <2>3, <3>1
    <3>3. f[i - 1] \in Met(h) \cup {<<n, 0>>} /\ Cardinality(Passed(h, f[i - 1])) = i - 1
      BY <3>1, <3>2 DEF Misplaced
    <3>4. f[i - 1] \in Met(h)
      BY <1>5, <3>1, <3>3
    <3>5. f[i] = Advance(h, f[i - 1])
      BY <1>3, <1>4, <2>6, <3>1, <3>4 DEF Onward
    <3>6. f[i] \in Met(h) \cup {<<n, 0>>} /\ Passed(h, f[i]) = Passed(h, f[i - 1]) \cup {f[i - 1]}
      BY <3>4, <3>5, AdvancePasses
    <3>7. Cardinality(Passed(h, f[i])) = i - 1 + 1
      <4>1. \A S, x : IsFiniteSet(S) /\ x \notin S => Cardinality(S \cup {x}) = Cardinality(S) + 1
        BY FS_AddElement
      <4>2. QED
        BY <1>2, <1>5, <3>3, <3>4, <3>6, <4>1
    <3>8. QED
      BY <2>4, <3>1, <3>6, <3>7
  <2>7. QED
    BY <2>5, <2>6
<1>8. \A i \in 0 .. M : f[i] \in Met(h) \cup {<<n, 0>>} /\ Cardinality(Passed(h, f[i])) = i
  BY <1>7 DEF Misplaced
<1>9. \A i \in 0 .. M - 1 : i \in 0 .. M /\ i # M
  BY <1>1
<1>10. \A i \in 0 .. M - 1 : f[i] \in Met(h)
  BY <1>5, <1>8, <1>9
<1>11. f[M] = <<n, 0>>
  BY <1>1, <1>6, <1>8
<1>12. QED
  BY <1>8, <1>10, <1>11

Keyed(h) == CHOOSE f : Keying(h, f, WalkBound)

LEMMA WalkIs ==
  ASSUME NEW h
  PROVE  Walk(h) =
    LET ended == {n \in 0 .. WalkBound : Keyed(h)[n][1] >= NVertex(h)}
        len == IF ended = {} THEN WalkBound
               ELSE CHOOSE n \in ended : \A m \in ended : n <= m
    IN [n \in 1 .. len |-> Keyed(h)[n - 1]]
BY DEF Walk, WalkBound, Keyed, Keying, Onward

\* Of two keys one is before the other, with fewer keys before it.
LEMMA SamePlace ==
  ASSUME NEW n \in Nat, NEW h, Listed(h, n),
         NEW k \in Met(h), NEW l \in Met(h), Cardinality(Passed(h, k)) = Cardinality(Passed(h, l))
  PROVE  k = l
<1>1. \A w \in Met(h) : w = <<w[1], w[2]>> /\ w[1] \in 0 .. n - 1 /\ w[2] \in Nat
  BY DEF Listed
<1>2. \A w : IsFiniteSet(Passed(h, w))
  <2>1. \A S, T : IsFiniteSet(S) /\ T \subseteq S => IsFiniteSet(T)
    BY FS_Subset
  <2>2. QED
    BY <2>1 DEF Passed, Listed
<1>3. ASSUME NEW v \in Met(h), NEW w \in Met(h), Before(v, w)
      PROVE  Cardinality(Passed(h, v)) # Cardinality(Passed(h, w))
  <2>1. Passed(h, v) \subseteq Passed(h, w)
    BY <1>1, <1>3 DEF Passed, Before
  <2>2. v \in Passed(h, w) /\ v \notin Passed(h, v)
    BY <1>1, <1>3 DEF Passed, Before
  <2>3. \A S, T : IsFiniteSet(S) /\ T \subseteq S /\ Cardinality(S) = Cardinality(T) => S = T
    BY FS_Subset
  <2>4. QED
    BY <1>2, <2>1, <2>2, <2>3
<1>4. k = l \/ Before(k, l) \/ Before(l, k)
  BY <1>1 DEF Before
<1>5. QED
  BY <1>3, <1>4

LEMMA WalkVisits ==
  ASSUME NEW h, GraphOK(h)
  PROVE  Visits(h, Met(h))
<1>1. PICK n \in Nat : Listed(h, n)
  BY GraphListed
<1> DEFINE M == Cardinality(Met(h))
           f == Keyed(h)
           ended == {i \in 0 .. WalkBound : f[i][1] >= NVertex(h)}
<1>2. M \in Nat /\ M <= WalkBound /\ WalkBound \in Nat
  BY <1>1, BoundsAssumption DEF Listed, WalkBound
<1>3. Keying(h, f, WalkBound)
  BY <1>2, KeyingExists DEF Keyed
<1>4. NVertex(h) = n
  BY <1>1 DEF Listed
<1>5. /\ \A i \in 0 .. M : Cardinality(Passed(h, f[i])) = i
      /\ \A i \in 0 .. M - 1 : f[i] \in Met(h)
      /\ f[M] = <<n, 0>>
  BY <1>1, <1>2, <1>3, WalkInOrder
<1>6. \A k \in Met(h) : k[1] \in 0 .. n - 1
  BY <1>1 DEF Listed
<1> HIDE DEF f
<1>7. M \in ended /\ \A i \in ended : M <= i
  <2>1. \A i \in 0 .. M - 1 : i \notin ended
    BY <1>4, <1>5, <1>6
  <2>2. \A i \in ended : i \in Nat /\ ~(i < M)
    BY <1>2, <2>1
  <2>3. M \in ended
    BY <1>2, <1>4, <1>5
  <2>4. QED
    BY <1>2, <2>2, <2>3
<1>8. (CHOOSE i \in ended : \A j \in ended : i <= j) = M
  <2>1. \A i \in ended : i \in Nat
    BY <1>2
  <2> HIDE DEF ended
  <2>2. \A i \in ended : (\A j \in ended : i <= j) => i = M
    BY <1>2, <1>7, <2>1
  <2>3. QED
    BY <1>7, <2>2
<1>9. Walk(h) = [i \in 1 .. M |-> f[i - 1]]
  <2>1. ended # {}
    BY <1>7
  <2>2. Walk(h) = [i \in 1 .. IF ended = {} THEN WalkBound
                              ELSE CHOOSE i \in ended : \A j \in ended : i <= j |-> f[i - 1]]
    BY WalkIs DEF f
  <2>3. QED
    BY <1>8, <2>1, <2>2
<1>10. ASSUME NEW k \in Met(h) PROVE \E i \in 1 .. M : f[i - 1] = k
  <2>1. Cardinality(Passed(h, k)) \in 0 .. M - 1
    <3>1. \A S, T : IsFiniteSet(S) /\ T \subseteq S
            => IsFiniteSet(T) /\ Cardinality(T) <= Cardinality(S)
               /\ (Cardinality(S) = Cardinality(T) => S = T)
      BY FS_Subset
    <3>2. IsFiniteSet(Met(h)) /\ Passed(h, k) \subseteq Met(h)
      BY <1>1 DEF Passed, Listed
    <3>3. k \notin Passed(h, k)
      <4>1. k[1] \in Nat /\ k[2] \in Nat
        BY <1>1 DEF Listed
      <4>2. QED
        BY <4>1 DEF Passed, Before
    <3>4. Cardinality(Passed(h, k)) \in Nat
      BY <3>1, <3>2, FS_CardinalityType
    <3>5. Cardinality(Passed(h, k)) <= M /\ Cardinality(Passed(h, k)) # M
      BY <3>1, <3>2, <3>3
    <3>6. QED
      BY <1>2, <3>4, <3>5
  <2>2. f[Cardinality(Passed(h, k))] \in Met(h)
        /\ Cardinality(Passed(h, f[Cardinality(Passed(h, k))])) = Cardinality(Passed(h, k))
    BY <1>2, <1>5, <2>1
  <2>3. f[Cardinality(Passed(h, k))] = k
    BY <1>1, <2>2, SamePlace
  <2>4. ASSUME NEW j \in 0 .. M - 1, f[j] = k PROVE \E i \in 1 .. M : f[i - 1] = k
    <3>1. j + 1 \in 1 .. M /\ f[j + 1 - 1] = k
      BY <1>2, <2>4
    <3>2. QED
      BY <3>1
  <2>5. QED
    BY <2>1, <2>3, <2>4
<1>11. {Walk(h)[i] : i \in DOMAIN Walk(h)} = Met(h)
  <2>1. DOMAIN Walk(h) = 1 .. M /\ \A i \in 1 .. M : Walk(h)[i] = f[i - 1] /\ i - 1 \in 0 .. M - 1
    BY <1>2, <1>9
  <2>2. \A i \in 1 .. M : f[i - 1] \in Met(h)
    BY <1>5, <2>1
  <2>3. QED
    BY <1>10, <2>1, <2>2
<1>12. Len(Walk(h)) = M
  BY <1>2, <1>9
<1>13. QED
  BY <1>11, <1>12 DEF Visits

\* The edge iterator (map_graph.hpp:164-244) of every graph, whichever of its
\* vertices have edges, gives each edge exactly once and ends; the only key it may
\* give that is not an edge is the one it starts at.
THEOREM GraphWalk == Careful => (Spec => []WalkVisitsEdges)
<1> SUFFICES ASSUME Careful PROVE Spec => []WalkVisitsEdges
  OBVIOUS
<1>1. Init => Inv
  BY InitInv
<1>2. Inv /\ [Next]_g => Inv'
  BY NextInv
<1>3. Inv => WalkVisitsEdges
  BY WalkVisits DEF Inv, WalkVisitsEdges, Met
<1>4. QED
  BY <1>1, <1>2, <1>3, PTL DEF Spec

=============================================================================
