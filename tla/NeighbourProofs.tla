--------------------------- MODULE NeighbourProofs ---------------------------
(***************************************************************************)
(* The symmetric walks of two processors meet each pair once, for any      *)
(* domain, cut, particles and padding, the Verlet lists of a program name  *)
(* the particles they should, for any boxes, particles and radii, and so   *)
(* do the lists of several sets of particles, for any width of the words.  *)
(*                                                                         *)
(* Symmetric walks.  What does not change is the scene: the cut, the       *)
(* positions, the vectors and their markers.  All that a walk may do is a  *)
(* function of the scene, and the definitions below are about a scene S,   *)
(* which is Scene in the theorems.  The walk from the element i on P meets *)
(* j at a good place: an entry n of the stencil and an element k of the    *)
(* cell there.  Row is that cell, and it holds just the elements of the    *)
(* vector aside of i (RowHolds), which says nothing of the processor: the  *)
(* cells of both lists are those of one decomposer.  So no pair is met at  *)
(* two places (OnePlace), and every pair that interacts at one (AllMet).   *)
(* A walk goes from good place to good place and leaves none out           *)
(* (SelectIs).  The invariant says that met counts exactly the good places *)
(* passed.                                                                 *)
(*                                                                         *)
(* Verlet lists.  A decomposer that a program makes has cells all around   *)
(* its part of space, as deep as the radius (Roomy, MadeRoomy), so the     *)
(* particles near one of the part are in cells that a stencil leads to     *)
(* (KeysNear, StencilsComplete), and a walk meets each once (FullList,     *)
(* SymList, CrsLists).  The invariant, ListsInv, says of every list that   *)
(* it is what create makes of what it was built from, and that the cell    *)
(* list inside is one a program makes.                                     *)
(*                                                                         *)
(* Lists of several sets.  What comes out of a word is what was packed     *)
(* into it (PackedIs), so an element is known by its word, and its Seat is *)
(* the cell it belongs in.  The invariant, WalksInv, says that a list      *)
(* holds each element of its sets in its seat and nowhere else (Filling),  *)
(* that a Verlet list is what create makes of such a list (KeepsOK), and   *)
(* that a loop has seen just the elements at the places it has passed, and *)
(* met from each what the CRS walk leads to (LoopOK).                      *)
(***************************************************************************)
EXTENDS CellListSym, VerletList, CellWalks, CellDecomposerProofs, TLAPS

\* The scene, and what the definitions of CellListSym are for it.
Scene == [split |-> split, pos |-> pos, v |-> v, g_m |-> g_m]

Grid(S, P) == Decs[S.split][P]
Step(S, P) == Stencils[S.split][P]
X(S, P, i) == S.pos[S.v[P][i]]
OwnerIn(S, x) == IF x[1] < S.split THEN 1 ELSE 2
GhostOf(S, P, x) ==
    /\ OwnerIn(S, x) # P
    /\ IF P = 1 THEN x[1] < S.split + Ghost ELSE x[1] >= S.split - Ghost

\* The cell an element is put in, and the one its walk starts from.
Put(S, P, i) == IF i <= S.g_m[P] THEN GetCellDom(Grid(S, P), X(S, P, i))
                                 ELSE GetCell(Grid(S, P), X(S, P, i))
Home(S, P, i) == GetCell(Grid(S, P), X(S, P, i))

Filled(S, P) ==
    [c \in Cells(Grid(S, P)) |->
        Chosen([i \in DOMAIN S.v[P] |-> i], {i \in DOMAIN S.v[P] : c = Put(S, P, i)})]
Content(S, P, c) == IF c \in DOMAIN Filled(S, P) THEN Filled(S, P)[c] ELSE <<>>

After(S, P, i, j) ==
    IF X(S, P, i) = X(S, P, j) THEN j >= i ELSE NotBefore(X(S, P, i), X(S, P, j))

\* The particles of the vectors: the processor's own, then its ghosts.
SceneOK(S) ==
    /\ S.split \in Splits
    /\ S.pos \in [Particles -> Points]
    /\ \A P \in Procs :
         /\ S.v[P] \in Seq(Particles)
         /\ S.g_m[P] \in 0 .. Len(S.v[P])
         /\ \A i \in 1 .. Len(S.v[P]) :
              /\ i <= S.g_m[P] <=> OwnerIn(S, X(S, P, i)) = P
              /\ OwnerIn(S, X(S, P, i)) = P \/ GhostOf(S, P, X(S, P, i))
              /\ \A j \in 1 .. Len(S.v[P]) : S.v[P][i] = S.v[P][j] => i = j
         /\ \A p \in Particles :
              OwnerIn(S, S.pos[p]) = P \/ GhostOf(S, P, S.pos[p])
                => \E i \in 1 .. Len(S.v[P]) : S.v[P][i] = p

-----------------------------------------------------------------------------
(* The vectors. *)

LEMMA InitScene == Init => SceneOK(Scene)
<1> SUFFICES ASSUME Init PROVE SceneOK(Scene)
  OBVIOUS
<1>1. N \in Nat /\ Particles = 1 .. N
  BY SymAssumption DEF Particles
<1>2. /\ split \in Splits /\ pos \in [Particles -> Points]
      /\ v = [P \in Procs |-> Own(P) \o InOrder({p \in Particles : InGhost(P, pos[p])})]
      /\ g_m = [P \in Procs |-> Len(Own(P))]
  BY DEF Init
<1>3. /\ Scene.split = split /\ Scene.pos = pos /\ Scene.v = v /\ Scene.g_m = g_m
      /\ \A x : OwnerIn(Scene, x) = Owner(x)
      /\ \A P, x : GhostOf(Scene, P, x) <=> InGhost(P, x)
  BY DEF Scene, OwnerIn, Owner, GhostOf, InGhost
<1>4. ASSUME NEW P \in Procs
      PROVE  /\ v[P] \in Seq(Particles)
             /\ g_m[P] \in 0 .. Len(v[P])
             /\ \A i \in 1 .. Len(v[P]) :
                  /\ i <= g_m[P] <=> Owner(pos[v[P][i]]) = P
                  /\ Owner(pos[v[P][i]]) = P \/ InGhost(P, pos[v[P][i]])
                  /\ \A j \in 1 .. Len(v[P]) : v[P][i] = v[P][j] => i = j
             /\ \A p \in Particles :
                  Owner(pos[p]) = P \/ InGhost(P, pos[p])
                    => \E i \in 1 .. Len(v[P]) : v[P][i] = p
  <2> DEFINE U == {p \in Particles : Owner(pos[p]) = P}
             G == {p \in Particles : InGhost(P, pos[p])}
             s == InOrder(U)
             t == InOrder(G)
  <2>1. v[P] = s \o t /\ g_m[P] = Len(s)
    BY <1>2 DEF Own
  <2>2. \A p \in G : p \notin U
    BY DEF InGhost
  <2>3. /\ s \in Seq(Particles) /\ (\A x \in U : Once(s, x)) /\ (\A x : x \notin U => Absent(s, x))
    <3>1. U \in SUBSET (1 .. N)
      BY <1>1
    <3> HIDE DEF U
    <3>2. QED
      BY <1>1, <3>1, NumbersChosen DEF InOrder
  <2>4. /\ t \in Seq(Particles) /\ (\A x \in G : Once(t, x)) /\ (\A x : x \notin G => Absent(t, x))
    <3>1. G \in SUBSET (1 .. N)
      BY <1>1
    <3> HIDE DEF G
    <3>2. QED
      BY <1>1, <3>1, NumbersChosen DEF InOrder
  <2>5. \A p : /\ p \in U <=> p \in Particles /\ Owner(pos[p]) = P
               /\ p \in G <=> p \in Particles /\ InGhost(P, pos[p])
    OBVIOUS
  <2> HIDE DEF U, G, s, t
  <2>6. \A x : /\ s \o t \in Seq(Particles)
               /\ Absent(s, x) /\ Absent(t, x) => Absent(s \o t, x)
               /\ Absent(s, x) /\ Once(t, x) => Once(s \o t, x)
               /\ Once(s, x) /\ Absent(t, x) => Once(s \o t, x)
    BY <2>3, <2>4, ConcatOnce
  <2>7. /\ \A x : x \in U \/ x \in G => Once(s \o t, x)
        /\ \A x : x \notin U /\ x \notin G => Absent(s \o t, x)
    BY <2>2, <2>3, <2>4, <2>6
  <2> DEFINE z == s \o t
  <2>8. /\ z \in Seq(Particles) /\ Len(z) = Len(s) + Len(t) /\ Len(s) \in Nat /\ Len(t) \in Nat
        /\ \A i \in 1 .. Len(s) : z[i] = s[i]
        /\ \A i \in Len(s) + 1 .. Len(s) + Len(t) : z[i] = t[i - Len(s)]
    <3>1. s \in Seq(Particles) /\ t \in Seq(Particles)
      BY <2>3, <2>4
    <3>2. QED
      BY <3>1
  <2> HIDE DEF z
  <2>9. \A x : Once(z, x) \/ Absent(z, x)
    BY <2>7 DEF z
  <2>10. \A i, j \in 1 .. Len(z) : z[i] = z[j] => i = j
    BY <2>8, <2>9, OnceApart
  <2>11. \A i \in 1 .. Len(s) : z[i] \in U
    BY <2>3, <2>8 DEF Absent
  <2>12. \A i \in 1 .. Len(z) : ~(i <= Len(s)) => z[i] \in G
    <3> SUFFICES ASSUME NEW i \in 1 .. Len(z), ~(i <= Len(s)) PROVE z[i] \in G
      OBVIOUS
    <3>1. i \in Len(s) + 1 .. Len(s) + Len(t) /\ i - Len(s) \in 1 .. Len(t)
      BY <2>8
    <3>2. z[i] = t[i - Len(s)]
      BY <2>8, <3>1
    <3>3. QED
      BY <2>4, <3>1, <3>2 DEF Absent
  <2>13. ASSUME NEW i \in 1 .. Len(z)
         PROVE  /\ i <= Len(s) <=> Owner(pos[z[i]]) = P
                /\ Owner(pos[z[i]]) = P \/ InGhost(P, pos[z[i]])
    <3>1. CASE i <= Len(s)
      BY <2>5, <2>8, <2>11, <3>1
    <3>2. CASE ~(i <= Len(s))
      BY <2>5, <2>12, <3>2 DEF InGhost
    <3>3. QED
      BY <3>1, <3>2
  <2>14. ASSUME NEW p \in Particles, Owner(pos[p]) = P \/ InGhost(P, pos[p])
         PROVE  \E i \in 1 .. Len(z) : z[i] = p
    BY <2>5, <2>7, <2>14 DEF Once, z
  <2>15. v[P] = z /\ g_m[P] = Len(s)
    BY <2>1 DEF z
  <2>16. g_m[P] \in 0 .. Len(v[P])
    BY <2>8, <2>15
  <2>17. QED
    BY <2>8, <2>10, <2>13, <2>14, <2>15, <2>16
<1>5. \A P, i : X(Scene, P, i) = pos[v[P][i]]
  BY <1>3 DEF X
<1>6. ASSUME NEW P \in Procs
      PROVE  /\ Scene.v[P] \in Seq(Particles)
             /\ Scene.g_m[P] \in 0 .. Len(Scene.v[P])
             /\ \A i \in 1 .. Len(Scene.v[P]) :
                  /\ i <= Scene.g_m[P] <=> OwnerIn(Scene, X(Scene, P, i)) = P
                  /\ \/ OwnerIn(Scene, X(Scene, P, i)) = P
                     \/ GhostOf(Scene, P, X(Scene, P, i))
                  /\ \A j \in 1 .. Len(Scene.v[P]) : Scene.v[P][i] = Scene.v[P][j] => i = j
             /\ \A p \in Particles :
                  OwnerIn(Scene, Scene.pos[p]) = P \/ GhostOf(Scene, P, Scene.pos[p])
                    => \E i \in 1 .. Len(Scene.v[P]) : Scene.v[P][i] = p
  <2>1. v[P] \in Seq(Particles) /\ g_m[P] \in 0 .. Len(v[P])
    BY <1>4
  <2>2. ASSUME NEW i \in 1 .. Len(v[P])
        PROVE  /\ i <= g_m[P] <=> OwnerIn(Scene, X(Scene, P, i)) = P
               /\ \/ OwnerIn(Scene, X(Scene, P, i)) = P
                  \/ GhostOf(Scene, P, X(Scene, P, i))
    BY <1>3, <1>4, <1>5
  <2>3. \A i, j \in 1 .. Len(v[P]) : v[P][i] = v[P][j] => i = j
    BY <1>4
  <2>4. ASSUME NEW p \in Particles,
               OwnerIn(Scene, pos[p]) = P \/ GhostOf(Scene, P, pos[p])
        PROVE  \E i \in 1 .. Len(v[P]) : v[P][i] = p
    BY <1>3, <1>4, <2>4
  <2>5. QED
    BY <1>3, <2>1, <2>2, <2>3, <2>4
<1>7. QED
  BY <1>2, <1>3, <1>6 DEF SceneOK

-----------------------------------------------------------------------------
(* The cells of the particles. *)

\* The cell of the domain a coordinate is in, the same for both processors.
Q(x, i) == (x[i] - Outer.box.lo[i]) \div OuterDec.unit[i]

\* The coordinates of the cell of x in the list of P.
Key(S, P, x) == [i \in D |-> Q(x, i) + Pad - Grid(S, P).shift[i]]

\* The processor may have x in its vector.
Near(S, P, x) == OwnerIn(S, x) = P \/ GhostOf(S, P, x)

LEMMA PartIs ==
  ASSUME WellPosed, NEW s \in Splits, NEW P \in Procs
  PROVE  PartOf(Part(P, s), Outer.box)
<1>1. /\ \A i \in D : /\ Outer.box.lo[i] \in Int /\ Outer.box.hi[i] \in Int
                      /\ Outer.box.lo[i] < Outer.box.hi[i]
      /\ 1 \in D
  BY DEF WellPosed, Even, D
<1>2. s \in Outer.box.lo[1] + 1 .. Outer.box.hi[1] - 1
  BY SymAssumption
<1>3. s \in Int /\ Outer.box.lo[1] < s /\ s < Outer.box.hi[1]
  BY <1>1, <1>2
<1>4. ASSUME NEW i \in D
      PROVE  LET dom == Part(P, s)
             IN  /\ dom.lo[i] \in Int /\ dom.hi[i] \in Int /\ dom.lo[i] < dom.hi[i]
                 /\ Outer.box.lo[i] <= dom.lo[i] /\ dom.hi[i] <= Outer.box.hi[i]
  <2>1. /\ P = 1 => Part(P, s).lo = Outer.box.lo /\ Part(P, s).hi = <<s, Outer.box.hi[2]>>
        /\ P # 1 => Part(P, s).lo = <<s, Outer.box.lo[2]>> /\ Part(P, s).hi = Outer.box.hi
    BY DEF Part
  <2>2. i = 1 \/ i = 2
    BY DEF D
  <2>3. QED
    BY <1>1, <1>3, <2>1, <2>2
<1>5. QED
  BY <1>4 DEF PartOf

LEMMA GridIs ==
  ASSUME WellPosed, NEW S, S.split \in Splits, NEW P \in Procs, NEW i \in D
  PROVE  /\ Grid(S, P).box = Outer.box /\ Grid(S, P).off = Pad
         /\ Grid(S, P).unit[i] = OuterDec.unit[i] /\ Outer.div[i] \in Nat
         /\ \E a, b \in Nat :
              Apt(Pad, Grid(S, P), Part(P, S.split), i, Outer.div[i], a, b)
<1>1. Grid(S, P) = SetCellDecomposer(OuterDec, Part(P, S.split), Pad)
  BY DEF Grid, Decs
<1>2. Even(Outer.box, Outer.div) /\ Outer.div[i] \in Nat
  BY DEF WellPosed, Even
<1>3. Pad \in Nat \ {0} /\ PartOf(Part(P, S.split), Outer.box)
  BY SymAssumption, PartIs
<1> DEFINE dom == Part(P, S.split)
<1> HIDE DEF dom
<1>4. LET cd == Decomposed(Outer.box, Outer.div, Pad)
          d == SetCellDecomposer(cd, dom, Pad)
      IN  /\ d.box = Outer.box /\ d.off = Pad /\ d.unit[i] = cd.unit[i]
          /\ \E a, b \in Nat : Apt(Pad, d, dom, i, Outer.div[i], a, b)
  BY <1>2, <1>3, NestedApt DEF dom
<1>5. QED
  BY <1>1, <1>2, <1>4 DEF OuterDec, dom

LEMMA QIs ==
  ASSUME WellPosed, NEW x \in Points, NEW i \in D
  PROVE  /\ OuterDec.unit[i] \in Nat \ {0} /\ x[i] \in Int /\ Outer.box.lo[i] \in Int
         /\ Outer.box.hi[i] \in Int /\ Outer.box.lo[i] <= x[i] /\ x[i] < Outer.box.hi[i]
         /\ InCell(x[i] - Outer.box.lo[i], Q(x, i), OuterDec.unit[i])
         /\ FloorCell(x[i] - Outer.box.lo[i], OuterDec.unit[i]) = Q(x, i)
<1>1. Pad \in Nat \ {0}
  BY SymAssumption
<1>2. Apt(Pad, OuterDec, Outer.box, i, Outer.div[i], 0, Outer.div[i])
  BY <1>1, DecomposedApt DEF WellPosed, OuterDec
<1>3. OuterDec.unit[i] \in Nat \ {0}
  BY <1>2 DEF Apt, Fits
<1>4. x[i] \in Int
  BY DEF WellPosed, D
<1>5. Outer.box.lo[i] \in Int /\ Outer.box.hi[i] \in Int
  BY DEF WellPosed, Even
<1>6. Outer.box.lo[i] <= x[i] /\ x[i] < Outer.box.hi[i]
  BY DEF WellPosed, PointsInside
<1> DEFINE y == x[i] - Outer.box.lo[i]
           u == OuterDec.unit[i]
<1>7. y \in Int /\ ~(y < 0) /\ u \in Nat \ {0} /\ Q(x, i) = y \div u
  BY <1>3, <1>4, <1>5, <1>6 DEF Q
<1> HIDE DEF y, u
<1>8. FloorCell(y, u) = Q(x, i) /\ InCell(y, FloorCell(y, u), u)
  <2>1. FloorCell(y, u) = y \div u
    BY <1>7 DEF FloorCell
  <2>2. InCell(y, FloorCell(y, u), u)
    BY <1>7, FloorCellIs
  <2>3. QED
    BY <1>7, <2>1, <2>2
<1>9. QED
  BY <1>3, <1>4, <1>5, <1>6, <1>8 DEF y, u

\* A particle is in reach of its processor's list and of the list of one that has a
\* ghost of it.
LEMMA NearReach ==
  ASSUME WellPosed, NEW S, S.split \in Splits, NEW P \in Procs, NEW x \in Points, Near(S, P, x),
         NEW i \in D
  PROVE  LET dom == Part(P, S.split)
             u == OuterDec.unit[i]
         IN  /\ dom.lo[i] - Pad * u <= x[i] /\ x[i] < dom.hi[i] + Pad * u
             /\ OwnerIn(S, x) = P => dom.lo[i] <= x[i] /\ x[i] < dom.hi[i]
<1> DEFINE dom == Part(P, S.split)
           u == OuterDec.unit[i]
           s == S.split
<1>1. /\ u \in Nat \ {0} /\ x[i] \in Int /\ Outer.box.lo[i] \in Int /\ Outer.box.hi[i] \in Int
      /\ Outer.box.lo[i] <= x[i] /\ x[i] < Outer.box.hi[i]
  BY QIs
<1>2. /\ P = 1 => dom.lo = Outer.box.lo /\ dom.hi = <<s, Outer.box.hi[2]>>
      /\ P # 1 => dom.lo = <<s, Outer.box.lo[2]>> /\ dom.hi = Outer.box.hi
  BY DEF Part
<1>3. dom.lo[i] \in Int /\ dom.hi[i] \in Int
  BY PartIs DEF PartOf
<1>4. Ghost \in Nat /\ Ghost <= u /\ Pad \in Nat \ {0}
  BY SymAssumption DEF WellPosed, GhostsInPadding
<1>5. i = 1 \/ i = 2
  BY DEF D
<1>6. P = 1 \/ P = 2
  BY DEF Procs
<1>7. i = 1 => /\ OwnerIn(S, x) = P => dom.lo[i] <= x[i] /\ x[i] < dom.hi[i]
               /\ GhostOf(S, P, x) => dom.lo[i] - Ghost <= x[i] /\ x[i] < dom.hi[i] + Ghost
  <2> SUFFICES ASSUME i = 1 
               PROVE /\ OwnerIn(S, x) = P => dom.lo[1] <= x[1] /\ x[1] < dom.hi[1]
                     /\ GhostOf(S, P, x) => dom.lo[1] - Ghost <= x[1] /\ x[1] < dom.hi[1] + Ghost
    OBVIOUS
  <2>1. CASE P = 1
    <3>1. dom.lo[1] = Outer.box.lo[1] /\ dom.hi[1] = s
      BY <1>2, <2>1
    <3> HIDE DEF dom
    <3>2. QED
      BY <1>1, <1>3, <1>4, <2>1, <3>1 DEF OwnerIn, GhostOf
  <2>2. CASE P = 2
    <3>1. dom.lo[1] = s /\ dom.hi[1] = Outer.box.hi[1]
      BY <1>2, <2>2
    <3> HIDE DEF dom
    <3>2. QED
      BY <1>1, <1>3, <1>4, <2>2, <3>1 DEF OwnerIn, GhostOf
  <2>3. QED
    BY <1>6, <2>1, <2>2
<1>8. i = 2 => dom.lo[i] = Outer.box.lo[i] /\ dom.hi[i] = Outer.box.hi[i]
  BY <1>2, <1>6
<1> HIDE DEF dom, u
<1>9. Ghost <= Pad * u /\ Pad * u \in Nat
  <2>1. 0 < Pad => 0 * u + u <= Pad * u
    BY <1>1, <1>4, Mono
  <2>2. QED
    BY <1>1, <1>4, <2>1
<1>10. /\ OwnerIn(S, x) = P => dom.lo[i] <= x[i] /\ x[i] < dom.hi[i]
       /\ dom.lo[i] - Ghost <= x[i] /\ x[i] < dom.hi[i] + Ghost
  <2>1. CASE i = 1
    BY <1>1, <1>3, <1>4, <1>7, <2>1 DEF Near
  <2>2. CASE i = 2
    BY <1>1, <1>3, <1>4, <1>8, <2>2
  <2>3. QED
    BY <1>5, <2>1, <2>2
<1>11. dom.lo[i] - Pad * u <= x[i] /\ x[i] < dom.hi[i] + Pad * u
  BY <1>1, <1>3, <1>4, <1>9, <1>10
<1>12. QED
  BY <1>10, <1>11 DEF dom, u

\* The cell of a particle in the list of a processor that may have it: its
\* coordinates count from the padding, and addDom puts it where getCell does.
LEMMA KeyIs ==
  ASSUME WellPosed, NEW S, S.split \in Splits, NEW P \in Procs, NEW x \in Points, Near(S, P, x)
  PROVE  LET g == Grid(S, P).gr2
             k == Key(S, P, x)
         IN  /\ GetCell(Grid(S, P), x) = LinId(g, k) /\ GetCellDom(Grid(S, P), x) = LinId(g, k)
             /\ \A i \in D :
                  /\ g[i] \in Nat /\ g[i] >= 3 /\ k[i] \in 0 .. g[i] - 1
                  /\ OwnerIn(S, x) = P => k[i] - 1 \in 0 .. g[i] - 1 /\ k[i] + 1 \in 0 .. g[i] - 1
<1> DEFINE d == Grid(S, P)
           own == Part(P, S.split)
<1>1. ASSUME NEW i \in D
      PROVE  /\ Q(x, i) \in Int /\ Pad \in Nat /\ d.shift[i] \in Int
             /\ ConvertToIDNs(d, x, i) = Q(x, i) + Pad
             /\ Q(x, i) + Pad # d.gr[i] - d.off /\ Q(x, i) + Pad # d.off - 1
             /\ d.gr2[i] \in Nat /\ d.gr2[i] >= 3
             /\ Q(x, i) + Pad - d.shift[i] \in 0 .. d.gr2[i] - 1
             /\ OwnerIn(S, x) = P => /\ Q(x, i) + Pad - d.shift[i] - 1 \in 0 .. d.gr2[i] - 1
                                     /\ Q(x, i) + Pad - d.shift[i] + 1 \in 0 .. d.gr2[i] - 1
  <2> DEFINE u == OuterDec.unit[i]
             n == Outer.div[i]
             lo == Outer.box.lo[i]
             hi == Outer.box.hi[i]
             ol == own.lo[i]
             oh == own.hi[i]
             q == Q(x, i)
  <2>1. /\ d.box = Outer.box /\ d.off = Pad /\ d.unit[i] = u /\ n \in Nat
        /\ \E a, b \in Nat : Apt(Pad, d, own, i, n, a, b)
    BY GridIs
  <2>2. PICK a \in Nat, b \in Nat : Apt(Pad, d, own, i, n, a, b)
    BY <2>1
  <2>3. /\ u \in Nat \ {0} /\ x[i] \in Int /\ lo \in Int /\ hi \in Int /\ lo <= x[i] /\ x[i] < hi
        /\ InCell(x[i] - lo, q, u) /\ FloorCell(x[i] - lo, u) = q
    BY QIs
  <2>4. /\ ol - Pad * u <= x[i] /\ x[i] < oh + Pad * u
        /\ OwnerIn(S, x) = P => ol <= x[i] /\ x[i] < oh
    BY NearReach
  <2>5. /\ Fits(u, Pad, lo, hi, n, a, b, ol, oh)
        /\ d.gr[i] = n + 2 * Pad /\ d.gr2[i] = b - a + 2 * Pad /\ d.shift[i] = a
    BY <2>1, <2>2 DEF Apt
  <2>6. ConvertToIDNs(d, x, i) =
          LET id == FloorCell(x[i] - lo, u) + d.off
          IN  IF id \in 0 .. d.gr[i] - 1 THEN id ELSE d.gr[i] - 1
    BY <2>1 DEF ConvertToIDNs
  <2>7. Pad \in Nat \ {0} /\ n \in Nat
    BY <2>1, SymAssumption
  <2> HIDE DEF d, own, u, n, lo, hi, ol, oh, q
  <2>8. /\ ol - Pad * u <= x[i] => a - Pad <= q
        /\ x[i] < oh + Pad * u => q < b + Pad
        /\ ol <= x[i] => a <= q
        /\ x[i] < oh => q < b
    BY <2>3, <2>5, Place
  <2>9. a < b /\ b <= n /\ hi = lo + n * u
    BY <2>5 DEF Fits
  <2>10. q \in Int /\ 0 <= q /\ q < n
    <3>1. \A p \in Int : /\ p * u <= x[i] - lo => p <= q
                         /\ x[i] - lo < p * u => q < p
      <4>1. x[i] - lo \in Int
        BY <2>3
      <4>2. QED
        BY <2>3, <4>1, CellOrder
    <3>2. 0 * u <= x[i] - lo /\ x[i] - lo < n * u
      BY <2>3, <2>7, <2>9
    <3>3. QED
      BY <2>3, <2>7, <3>1, <3>2 DEF InCell
  <2>11. ConvertToIDNs(d, x, i) = q + Pad
    BY <2>1, <2>3, <2>5, <2>6, <2>7, <2>10
  <2>12. QED
    BY <2>1, <2>4, <2>5, <2>7, <2>8, <2>9, <2>10, <2>11 DEF q, d
<1>2. /\ Key(S, P, x) = [i \in D |-> Q(x, i) + Pad - d.shift[i]]
      /\ \A i \in D : Key(S, P, x)[i] = Q(x, i) + Pad - d.shift[i]
  BY DEF Key
<1>3. GetCell(d, x) = LinId(d.gr2, Key(S, P, x))
  <2>1. [i \in D |-> ConvertToID(d, x, i)] = [i \in D |-> Q(x, i) + Pad - d.shift[i]]
    <3> HIDE DEF d
    <3>1. \A i \in D : ConvertToID(d, x, i) = Q(x, i) + Pad - d.shift[i]
      BY <1>1 DEF ConvertToID
    <3>2. QED
      BY <3>1, Zenon
  <2>2. QED
    BY <1>2, <2>1 DEF GetCell
<1>4. GetCellDom(d, x) = LinId(d.gr2, Key(S, P, x))
  <2> DEFINE Dom(i) == LET id == ConvertToIDNs(d, x, i)
                       IN  CASE id = d.gr[i] - d.off -> d.gr[i] - d.off - 1
                             [] id = d.off - 1 -> d.off
                             [] OTHER -> id
  <2>1. GetCellDom(d, x) = LinId(d.gr2, [i \in D |-> Dom(i) - d.shift[i]])
    BY DEF GetCellDom
  <2>2. \A i \in D : Dom(i) = Q(x, i) + Pad
    <3> HIDE DEF d
    <3>1. QED
      BY <1>1
  <2> HIDE DEF Dom, d
  <2>3. [i \in D |-> Dom(i) - d.shift[i]] = [i \in D |-> Q(x, i) + Pad - d.shift[i]]
    <3>1. \A i \in D : Dom(i) - d.shift[i] = Q(x, i) + Pad - d.shift[i]
      BY <1>1, <2>2
    <3>2. QED
      BY <3>1, Zenon
  <2>4. QED
    BY <1>2, <2>1, <2>3
<1>5. ASSUME NEW i \in D
      PROVE  LET g == d.gr2
                 k == Key(S, P, x)
             IN  /\ g[i] \in Nat /\ g[i] >= 3 /\ k[i] \in 0 .. g[i] - 1
                 /\ OwnerIn(S, x) = P => k[i] - 1 \in 0 .. g[i] - 1 /\ k[i] + 1 \in 0 .. g[i] - 1
  <2> HIDE DEF d
  <2>1. QED
    BY <1>1, <1>2
<1>6. QED
  BY <1>3, <1>4, <1>5

-----------------------------------------------------------------------------
(* The stencil. *)

LEMMA NNcSymIs ==
  ASSUME NEW g, g[1] \in Nat, g[1] >= 3
  PROVE  LET s == NNcSym(g)
         IN  /\ s \in Seq(Int) /\ Len(s) = 5
             /\ s[1] = 0 /\ s[2] = 1 /\ s[3] = g[1] - 1 /\ s[4] = g[1] /\ s[5] = g[1] + 1
<1> DEFINE w == g[1]
           s == NNcFull(g)
           f == ChosenFunction(s, Nat)
<1>1. w \in Nat /\ w >= 3
  OBVIOUS
<1>2. /\ s \in Seq(Int) /\ Len(s) = 9
      /\ \A n \in 1 .. 9 : s[n] = (((n - 1) % 3) - 1) + w * ((n - 1) \div 3 - 1)
  BY NNcFullIs
<1>3. NNcSym(g) = f[9]
  BY <1>2, ChosenIs DEF NNcSym
<1>4. Choosing(s, Nat, f, 9)
  <2>1. \E h : Choosing(s, Nat, h, 9)
    BY ChoosingExists
  <2>2. QED
    BY <1>2, <2>1 DEF ChosenFunction
<1> HIDE DEF w, s, f
<1>5. /\ s[1] = w * (-1) - 1 /\ s[2] = w * (-1) /\ s[3] = w * (-1) + 1 /\ s[4] = -1 /\ s[5] = 0
      /\ s[6] = 1 /\ s[7] = w - 1 /\ s[8] = w /\ s[9] = w + 1
  <2>1. /\ 1 \in 1 .. 9 /\ 2 \in 1 .. 9 /\ 3 \in 1 .. 9 /\ 4 \in 1 .. 9 /\ 5 \in 1 .. 9
        /\ 6 \in 1 .. 9 /\ 7 \in 1 .. 9 /\ 8 \in 1 .. 9 /\ 9 \in 1 .. 9
    OBVIOUS
  <2>2. QED
    BY <1>1, <1>2, <2>1
<1>6. /\ s[1] \notin Nat /\ s[2] \notin Nat /\ s[3] \notin Nat /\ s[4] \notin Nat /\ s[5] \in Nat
      /\ s[6] \in Nat /\ s[7] \in Nat /\ s[8] \in Nat /\ s[9] \in Nat
  BY <1>1, <1>5
<1>7. \A i \in 0 .. 9 : f[i] = IF i = 0 THEN <<>>
                               ELSE IF s[i] \in Nat THEN Append(f[i - 1], s[i]) ELSE f[i - 1]
  BY <1>4 DEF Choosing
<1>8. /\ f[0] = <<>>
      /\ \A i \in 1 .. 9 : f[i] = IF s[i] \in Nat THEN Append(f[i - 1], s[i]) ELSE f[i - 1]
  BY <1>7
<1>9. f[4] = <<>>
  <2>1. f[1] = f[0] /\ f[2] = f[1] /\ f[3] = f[2] /\ f[4] = f[3]
    BY <1>6, <1>8
  <2>2. QED
    BY <1>8, <2>1
<1>10. /\ f[5] = Append(f[4], s[5]) /\ f[6] = Append(f[5], s[6]) /\ f[7] = Append(f[6], s[7])
       /\ f[8] = Append(f[7], s[8]) /\ f[9] = Append(f[8], s[9])
  <2>1. \A i \in 1 .. 9 : s[i] \in Nat => f[i] = Append(f[i - 1], s[i])
    BY <1>8
  <2>2. f[5] = Append(f[4], s[5])
    BY <1>6, <2>1, SMTT(30)
  <2>3. f[6] = Append(f[5], s[6])
    BY <1>6, <2>1
  <2>4. f[7] = Append(f[6], s[7])
    BY <1>6, <2>1
  <2>5. f[8] = Append(f[7], s[8])
    BY <1>6, <2>1
  <2>6. f[9] = Append(f[8], s[9])
    BY <1>6, <2>1
  <2>7. QED
    BY <2>2, <2>3, <2>4, <2>5, <2>6
<1> DEFINE Grown(q, x, r) == /\ r \in Seq(Int) /\ Len(r) = Len(q) + 1 /\ r[Len(q) + 1] = x
                             /\ \A i \in 1 .. Len(q) : r[i] = q[i]
<1>11. \A q \in Seq(Int), x \in Int : Grown(q, x, Append(q, x))
  OBVIOUS
<1> HIDE DEF Grown
<1>12. /\ f[9] \in Seq(Int) /\ Len(f[9]) = 5
       /\ f[9][1] = 0 /\ f[9][2] = 1 /\ f[9][3] = w - 1 /\ f[9][4] = w /\ f[9][5] = w + 1
  <2>1. f[4] \in Seq(Int) /\ Len(f[4]) = 0
    BY <1>9
  <2>2. s[5] \in Int /\ s[6] \in Int /\ s[7] \in Int /\ s[8] \in Int /\ s[9] \in Int
    BY <1>6
  <2>3. Grown(f[4], s[5], f[5])
    BY <1>10, <1>11, <2>2, <2>1, Zenon
  <2>4. /\ f[5] \in Seq(Int) /\ Len(f[5]) = 1
        /\ f[5][1] = s[5]
    BY <2>1, <2>3 DEF Grown
  <2>5. Grown(f[5], s[6], f[6])
    BY <1>10, <1>11, <2>2, <2>4, Zenon
  <2>6. /\ f[6] \in Seq(Int) /\ Len(f[6]) = 2
        /\ f[6][1] = s[5] /\ f[6][2] = s[6]
    BY <2>4, <2>5 DEF Grown
  <2>7. Grown(f[6], s[7], f[7])
    BY <1>10, <1>11, <2>2, <2>6, Zenon
  <2>8. /\ f[7] \in Seq(Int) /\ Len(f[7]) = 3
        /\ f[7][1] = s[5] /\ f[7][2] = s[6] /\ f[7][3] = s[7]
    BY <2>6, <2>7 DEF Grown
  <2>9. Grown(f[7], s[8], f[8])
    BY <1>10, <1>11, <2>2, <2>8, Zenon
  <2>10. /\ f[8] \in Seq(Int) /\ Len(f[8]) = 4
        /\ f[8][1] = s[5] /\ f[8][2] = s[6] /\ f[8][3] = s[7] /\ f[8][4] = s[8]
    BY <2>8, <2>9 DEF Grown
  <2>11. Grown(f[8], s[9], f[9])
    BY <1>10, <1>11, <2>2, <2>10, Zenon
  <2>12. /\ f[9] \in Seq(Int) /\ Len(f[9]) = 5
        /\ f[9][1] = s[5] /\ f[9][2] = s[6] /\ f[9][3] = s[7] /\ f[9][4] = s[8] /\ f[9][5] = s[9]
    BY <2>10, <2>11 DEF Grown
  <2>13. QED
    BY <1>5, <2>12
<1>13. QED
  BY <1>3, <1>12 DEF w

\* The steps of the stencil, in columns and rows.
Across(n) == CASE n = 1 -> 0 [] n = 2 -> 1 [] n = 3 -> -1 [] n = 4 -> 0 [] OTHER -> 1
Up(n) == IF n <= 2 THEN 0 ELSE 1

LEMMA StepIs ==
  ASSUME WellPosed, NEW S, S.split \in Splits, NEW P \in Procs
  PROVE  LET w == Grid(S, P).gr2[1]
         IN  /\ w \in Nat /\ w >= 3 /\ Len(Step(S, P)) = 5
             /\ DOMAIN Step(S, P) = 1 .. 5
             /\ \A n \in 1 .. 5 : /\ Step(S, P)[n] = Across(n) + w * Up(n)
                                  /\ Step(S, P)[n] \in Int
                                  /\ Step(S, P)[n] = 0 <=> n = 1
<1> DEFINE w == Grid(S, P).gr2[1]
<1>1. w \in Nat /\ w >= 3
  <2>1. 1 \in D
    BY DEF D
  <2>2. PICK a \in Nat, b \in Nat : Apt(Pad, Grid(S, P), Part(P, S.split), 1, Outer.div[1], a, b)
    BY <2>1, GridIs
  <2>3. a < b /\ w = b - a + 2 * Pad /\ Pad \in Nat \ {0}
    BY <2>2, SymAssumption DEF Apt, Fits
  <2> HIDE DEF w
  <2>4. QED
    BY <2>3
<1>2. Step(S, P) = NNcSym(Grid(S, P).gr2)
  BY DEF Step, Stencils, Grid
<1> DEFINE s == Step(S, P)
<1>3. /\ s \in Seq(Int) /\ Len(s) = 5
      /\ s[1] = 0 /\ s[2] = 1 /\ s[3] = w - 1 /\ s[4] = w /\ s[5] = w + 1
  BY <1>1, <1>2, NNcSymIs
<1> HIDE DEF w, s
<1>4. ASSUME NEW n \in 1 .. 5
      PROVE  /\ s[n] = Across(n) + w * Up(n)
             /\ s[n] \in Int
             /\ s[n] = 0 <=> n = 1
  <2>1. n = 1 \/ n = 2 \/ n = 3 \/ n = 4 \/ n = 5
    OBVIOUS
  <2>2. QED
    BY <1>1, <1>3, <2>1 DEF Across, Up
<1>5. Len(s) = 5 /\ DOMAIN s = 1 .. 5
  BY <1>3
<1>6. QED
  BY <1>1, <1>4, <1>5 DEF w, s

-----------------------------------------------------------------------------
(* Whom a walk meets. *)

\* The cell at the entry n of the stencil around the particle i of P.
Row(S, P, i, n) == Content(S, P, Home(S, P, i) + Step(S, P)[n])

\* The walk from i stops at the element k of the cell at the entry n.
Good(S, P, i, n, k) ==
    /\ n \in 1 .. 5 /\ k \in 1 .. Len(Row(S, P, i, n))
    /\ n = 1 => After(S, P, i, Row(S, P, i, n)[k])

\* y is at the entry n of the stencil around x.
Aside(x, y, n) == Q(y, 1) - Q(x, 1) = Across(n) /\ Q(y, 2) - Q(x, 2) = Up(n)

LEMMA PutIs ==
  ASSUME WellPosed, NEW S, SceneOK(S), NEW P \in Procs, NEW i \in 1 .. Len(S.v[P])
  PROVE  /\ X(S, P, i) \in Points /\ Near(S, P, X(S, P, i))
         /\ Put(S, P, i) = Home(S, P, i)
         /\ Home(S, P, i) = LinId(Grid(S, P).gr2, Key(S, P, X(S, P, i)))
<1>1. /\ S.split \in Splits /\ S.pos \in [Particles -> Points] /\ S.v[P] \in Seq(Particles)
      /\ OwnerIn(S, X(S, P, i)) = P \/ GhostOf(S, P, X(S, P, i))
  BY DEF SceneOK
<1>2. X(S, P, i) \in Points
  <2>1. S.v[P][i] \in Particles
    BY <1>1
  <2>2. QED
    BY <1>1, <2>1 DEF X
<1>3. Near(S, P, X(S, P, i))
  BY <1>1 DEF Near
<1> DEFINE x == X(S, P, i)
<1> HIDE DEF x
<1>4. /\ GetCell(Grid(S, P), x) = LinId(Grid(S, P).gr2, Key(S, P, x))
      /\ GetCellDom(Grid(S, P), x) = LinId(Grid(S, P).gr2, Key(S, P, x))
  BY <1>1, <1>2, <1>3, KeyIs DEF x
<1>5. QED
  BY <1>2, <1>3, <1>4 DEF Put, Home, x

LEMMA FilledIs ==
  ASSUME WellPosed, NEW S, SceneOK(S), NEW P \in Procs, NEW c \in Cells(Grid(S, P))
  PROVE  LET s == Content(S, P, c)
         IN  /\ s \in Seq(1 .. Len(S.v[P]))
             /\ \A j \in 1 .. Len(S.v[P]) : /\ Home(S, P, j) = c => Once(s, j)
                                            /\ Home(S, P, j) # c => Absent(s, j)
<1> DEFINE m == Len(S.v[P])
           U == {i \in DOMAIN S.v[P] : c = Put(S, P, i)}
<1>1. S.v[P] \in Seq(Particles)
  BY DEF SceneOK
<1>2. m \in Nat /\ DOMAIN S.v[P] = 1 .. m
  BY <1>1
<1>3. Content(S, P, c) = Chosen([i \in 1 .. m |-> i], U)
  BY <1>2 DEF Content, Filled
<1>4. \A j \in 1 .. m : j \in U <=> Home(S, P, j) = c
  BY <1>2, PutIs
<1>5. U \in SUBSET (1 .. m)
  BY <1>2
<1> HIDE DEF m, U
<1>6. /\ Chosen([i \in 1 .. m |-> i], U) \in Seq(1 .. m)
      /\ \A x \in U : Once(Chosen([i \in 1 .. m |-> i], U), x)
      /\ \A x : x \notin U => Absent(Chosen([i \in 1 .. m |-> i], U), x)
  BY <1>2, <1>5, NumbersChosen
<1>7. QED
  BY <1>3, <1>4, <1>6 DEF m

\* The columns of two numbers of a row differ by less than the row.
LEMMA RowStep ==
  ASSUME NEW w \in Nat, NEW a \in 0 .. w - 1, NEW b \in Int, NEW e \in Int, NEW f \in Int,
         a + e \in 0 .. w - 1, NEW p \in 0 .. w - 1, NEW q \in Int
  PROVE  p + w * q = (a + w * b) + (e + w * f) <=> p - a = e /\ q - b = f
<1>1. w * (b + f) = w * b + w * f /\ b + f \in Int /\ a + e \in Int /\ p \in Int
  OBVIOUS
<1>2. p - (a + e) \in -(w - 1) .. w - 1
  OBVIOUS
<1>3. p + w * q = (a + e) + w * (b + f) => p = a + e /\ q = b + f
  BY <1>1, <1>2, StepOne
<1>4. w * b \in Int /\ w * f \in Int /\ w * q \in Int
  OBVIOUS
<1>5. (a + w * b) + (e + w * f) = (a + e) + w * (b + f)
  BY <1>1, <1>4
<1>6. p + w * q = (a + w * b) + (e + w * f) => p - a = e /\ q - b = f
  BY <1>3, <1>5
<1>7. p - a = e /\ q - b = f => p + w * q = (a + w * b) + (e + w * f)
  <2>1. p - a = e /\ q - b = f => p = a + e /\ q = b + f
    BY <1>1
  <2>2. QED
    BY <1>5, <2>1
<1>8. QED
  BY <1>6, <1>7

\* The cells of the stencil around a processor's own particle are cells of its
\* list, and what is in them is aside of the particle.
LEMMA RowIs ==
  ASSUME WellPosed, NEW S, SceneOK(S), NEW P \in Procs, NEW i \in 1 .. S.g_m[P], NEW n \in 1 .. 5
  PROVE  LET c == Home(S, P, i) + Step(S, P)[n]
         IN  /\ c \in Cells(Grid(S, P))
             /\ \A j \in 1 .. Len(S.v[P]) :
                  Home(S, P, j) = c <=> Aside(X(S, P, i), X(S, P, j), n)
<1> DEFINE g == Grid(S, P).gr2
           K(j) == Key(S, P, X(S, P, j))
           w == g[1]
           h == g[2]
           e == Across(n)
           f == Up(n)
<1>1. /\ S.split \in Splits /\ S.v[P] \in Seq(Particles) /\ S.g_m[P] \in 0 .. Len(S.v[P])
      /\ \A j \in 1 .. Len(S.v[P]) : j <= S.g_m[P] <=> OwnerIn(S, X(S, P, j)) = P
  BY DEF SceneOK
<1>2. i \in 1 .. Len(S.v[P]) /\ OwnerIn(S, X(S, P, i)) = P
  BY <1>1
<1>3. w \in Nat /\ w >= 3 /\ Step(S, P)[n] = e + w * f
  BY <1>1, StepIs
<1>4. e \in -1 .. 1 /\ f \in 0 .. 1
  BY DEF Across, Up
<1>5. \A j \in 1 .. Len(S.v[P]) :
        /\ X(S, P, j) \in Points /\ Near(S, P, X(S, P, j)) /\ Home(S, P, j) = K(j)[1] + w * K(j)[2]
  BY PutIs DEF LinId
<1>6. 1 \in D /\ 2 \in D
  BY DEF D
<1>7. ASSUME NEW j \in 1 .. Len(S.v[P])
      PROVE  /\ K(j)[1] \in 0 .. w - 1 /\ K(j)[2] \in 0 .. h - 1 /\ h \in Nat
             /\ OwnerIn(S, X(S, P, j)) = P =>
                  /\ K(j)[1] - 1 \in 0 .. w - 1 /\ K(j)[1] + 1 \in 0 .. w - 1 /\ K(j)[2] + 1 \in 0 .. h - 1
             /\ K(j)[1] - K(i)[1] = Q(X(S, P, j), 1) - Q(X(S, P, i), 1)
             /\ K(j)[2] - K(i)[2] = Q(X(S, P, j), 2) - Q(X(S, P, i), 2)
  <2> DEFINE x == X(S, P, j)
  <2>1. x \in Points /\ Near(S, P, x)
    BY <1>5
  <2> HIDE DEF x
  <2>2. \A d \in D :
          /\ g[d] \in Nat /\ g[d] >= 3 /\ Key(S, P, x)[d] \in 0 .. g[d] - 1
          /\ OwnerIn(S, x) = P => /\ Key(S, P, x)[d] - 1 \in 0 .. g[d] - 1
                                  /\ Key(S, P, x)[d] + 1 \in 0 .. g[d] - 1
    BY <1>1, <2>1, KeyIs
  <2>3. ASSUME NEW d \in D
        PROVE  K(j)[d] - K(i)[d] = Q(X(S, P, j), d) - Q(X(S, P, i), d)
    <3> DEFINE y == X(S, P, i)
               z == X(S, P, j)
    <3>1. K(j)[d] = Q(z, d) + Pad - Grid(S, P).shift[d] /\ K(i)[d] = Q(y, d) + Pad - Grid(S, P).shift[d]
      BY DEF Key
    <3>2. Q(z, d) \in Int /\ Q(y, d) \in Int
      BY <1>2, <1>5, QIs DEF InCell
    <3>3. Pad \in Int /\ Grid(S, P).shift[d] \in Int
      <4>1. PICK a \in Nat, b \in Nat : Apt(Pad, Grid(S, P), Part(P, S.split), d, Outer.div[d], a, b)
        BY <1>1, GridIs
      <4>2. QED
        BY <4>1, SymAssumption DEF Apt
    <3> HIDE DEF y, z, K
    <3>3a. QED
      BY <3>1, <3>2, <3>3 DEF y, z
  <2>4. QED
    BY <1>6, <2>2, <2>3 DEF x
<1> DEFINE c == Home(S, P, i) + Step(S, P)[n]
<1> HIDE DEF g, K, w, h, e, f
<1>8. c = (K(i)[1] + w * K(i)[2]) + (e + w * f)
  BY <1>2, <1>3, <1>5
<1>9. /\ K(i)[1] \in 0 .. w - 1 /\ K(i)[1] + e \in 0 .. w - 1
      /\ K(i)[2] \in 0 .. h - 1 /\ K(i)[2] + f \in 0 .. h - 1 /\ h \in Nat
  <2>1. /\ K(i)[1] \in 0 .. w - 1 /\ K(i)[2] \in 0 .. h - 1 /\ h \in Nat
        /\ K(i)[1] - 1 \in 0 .. w - 1 /\ K(i)[1] + 1 \in 0 .. w - 1 /\ K(i)[2] + 1 \in 0 .. h - 1
    BY <1>2, <1>7
  <2>2. (e = -1 \/ e = 0 \/ e = 1) /\ (f = 0 \/ f = 1)
    BY <1>4
  <2>3. QED
    BY <1>3, <2>1, <2>2
<1>10. c \in Cells(Grid(S, P))
  <2> DEFINE k == <<K(i)[1] + e, K(i)[2] + f>>
  <2>1. k[1] \in 0 .. g[1] - 1 /\ k[2] \in 0 .. g[2] - 1 /\ g[1] \in Nat /\ g[2] \in Nat
    BY <1>3, <1>9 DEF w, h
  <2>2. LinId(g, k) \in 0 .. g[1] * g[2] - 1
    <3> HIDE DEF k
    <3>1. QED
      BY <2>1, LinIdIn
  <2>3. LinId(g, k) = (K(i)[1] + e) + w * (K(i)[2] + f)
    BY DEF LinId, w
  <2>4. c = (K(i)[1] + e) + w * (K(i)[2] + f)
    <3>1. K(i)[1] \in Int /\ K(i)[2] \in Int /\ e \in Int /\ f \in Int /\ w \in Int
      BY <1>3, <1>4, <1>9
    <3>2. w * (K(i)[2] + f) = w * K(i)[2] + w * f /\ w * K(i)[2] \in Int /\ w * f \in Int
      BY <3>1
    <3>3. QED
      BY <1>8, <3>1, <3>2
  <2>5. QED
    BY <2>2, <2>3, <2>4 DEF Cells, g
<1>11. ASSUME NEW j \in 1 .. Len(S.v[P])
       PROVE  Home(S, P, j) = c <=> Aside(X(S, P, i), X(S, P, j), n)
  <2>1. Home(S, P, j) = K(j)[1] + w * K(j)[2]
    BY <1>5
  <2>2. K(j)[1] \in 0 .. w - 1 /\ K(j)[2] \in Int /\ K(i)[2] \in Int /\ e \in Int /\ f \in Int
    BY <1>4, <1>7, <1>9
  <2>3. K(j)[1] + w * K(j)[2] = (K(i)[1] + w * K(i)[2]) + (e + w * f)
          <=> K(j)[1] - K(i)[1] = e /\ K(j)[2] - K(i)[2] = f
    <3> DEFINE a == K(i)[1]
               b == K(i)[2]
               p == K(j)[1]
               q == K(j)[2]
    <3>1. /\ w \in Nat /\ a \in 0 .. w - 1 /\ b \in Int /\ e \in Int /\ f \in Int
          /\ a + e \in 0 .. w - 1 /\ p \in 0 .. w - 1 /\ q \in Int
      BY <1>3, <1>9, <2>2
    <3> HIDE DEF a, b, p, q
    <3>2. p + w * q = (a + w * b) + (e + w * f) <=> p - a = e /\ q - b = f
      BY <3>1, RowStep
    <3>3. QED
      BY <3>2 DEF a, b, p, q
  <2>4. QED
    BY <1>7, <1>8, <2>1, <2>3 DEF Aside, e, f
<1>12. QED
  BY <1>10, <1>11


LEMMA VectorLen ==
  ASSUME NEW S, SceneOK(S), NEW P \in Procs
  PROVE  Len(S.v[P]) \in 0 .. N
<1> DEFINE s == S.v[P]
<1>1. s \in Seq(Particles) /\ \A a, b \in 1 .. Len(s) : s[a] = s[b] => a = b
  BY DEF SceneOK
<1>2. N \in Nat
  BY SymAssumption
<1> HIDE DEF s
<1>3. s \in Seq(1 .. N)
  BY <1>1 DEF Particles
<1>4. Len(s) \in 0 .. N
  BY <1>1, <1>2, <1>3, InjectiveLen
<1>5. QED
  BY <1>4 DEF s

\* s holds the elements aside of i at the entry n, each once.
Holds(S, P, i, n, s) ==
    /\ s \in Seq(1 .. Len(S.v[P])) /\ Len(s) \in 0 .. N
    /\ \A k \in 1 .. Len(s) : Aside(X(S, P, i), X(S, P, s[k]), n)
    /\ \A k, l \in 1 .. Len(s) : s[k] = s[l] => k = l
    /\ \A j \in 1 .. Len(S.v[P]) :
         Aside(X(S, P, i), X(S, P, j), n) => \E k \in 1 .. Len(s) : s[k] = j

LEMMA RowHolds ==
  ASSUME WellPosed, NEW S, SceneOK(S), NEW P \in Procs, NEW i \in 1 .. S.g_m[P], NEW n \in 1 .. 5
  PROVE  Holds(S, P, i, n, Row(S, P, i, n))
<1> DEFINE c == Home(S, P, i) + Step(S, P)[n]
           m == Len(S.v[P])
           s == Row(S, P, i, n)
           Near2(j) == Aside(X(S, P, i), X(S, P, j), n)
<1>1. /\ c \in Cells(Grid(S, P))
      /\ \A j \in 1 .. m : Home(S, P, j) = c <=> Near2(j)
  BY RowIs
<1> HIDE DEF Near2
<1>2. s = Content(S, P, c)
  BY DEF Row
<1> HIDE DEF c, s
<1>3. /\ s \in Seq(1 .. m)
      /\ \A j \in 1 .. m : /\ Home(S, P, j) = c => Once(s, j)
                           /\ Home(S, P, j) # c => Absent(s, j)
  BY <1>1, <1>2, FilledIs
<1>4. /\ S.v[P] \in Seq(Particles)
      /\ \A a, b \in 1 .. m : S.v[P][a] = S.v[P][b] => a = b
  BY DEF SceneOK
<1>5. m \in Nat /\ \A a \in 1 .. m : S.v[P][a] \in 1 .. N
  <2>1. m \in Nat /\ \A a \in 1 .. m : S.v[P][a] \in Particles
    BY <1>4
  <2>2. QED
    BY <2>1 DEF Particles
<1> HIDE DEF m
<1>6. /\ Len(s) \in Nat /\ \A k \in 1 .. Len(s) : s[k] \in 1 .. m
  <2> DEFINE T == 1 .. m
  <2>1. s \in Seq(T)
    BY <1>3
  <2> HIDE DEF T
  <2>2. Len(s) \in Nat /\ \A k \in 1 .. Len(s) : s[k] \in T
    BY <2>1
  <2>3. QED
    BY <2>2 DEF T
<1>7. \A k \in 1 .. Len(s) : Near2(s[k])
  <2>1. ASSUME NEW k \in 1 .. Len(s), Home(S, P, s[k]) # c PROVE FALSE
    <3>1. Absent(s, s[k])
      BY <1>3, <1>6, <2>1
    <3>2. QED
      BY <3>1 DEF Absent
  <2>2. QED
    BY <1>1, <1>6, <2>1
<1>8. \A k, l \in 1 .. Len(s) : s[k] = s[l] => k = l
  <2>1. \A j : Once(s, j) \/ Absent(s, j)
    <3>1. \A j : j \notin 1 .. m => Absent(s, j)
      BY <1>6 DEF Absent
    <3>2. QED
      BY <1>3, <3>1
  <2>2. QED
    BY <1>3, <2>1, OnceApart
<1>9. \A j \in 1 .. m : Near2(j) => \E k \in 1 .. Len(s) : s[k] = j
  BY <1>1, <1>3 DEF Once
<1>10. Len(s) \in 0 .. N
  <2>1. Len(s) \in 0 .. m
    BY <1>3, <1>5, <1>8, InjectiveLen
  <2>2. m \in 0 .. N /\ N \in Nat
    BY VectorLen, SymAssumption DEF m
  <2>3. QED
    BY <2>1, <2>2
<1>11. QED
  BY <1>3, <1>7, <1>8, <1>9, <1>10 DEF Near2, m, s, Holds

\* Two entries of the stencil are the same only if they are the same way, and none
\* but the first leads back.
LEMMA AsideApart ==
  ASSUME WellPosed, NEW x \in Points, NEW y \in Points, NEW n \in 1 .. 5, NEW m \in 1 .. 5,
         Aside(x, y, n)
  PROVE  /\ Aside(x, y, m) => n = m
         /\ Aside(y, x, m) => n = 1 /\ m = 1
<1> DEFINE a == Q(y, 1) - Q(x, 1)
           b == Q(y, 2) - Q(x, 2)
<1>1. Q(x, 1) \in Int /\ Q(x, 2) \in Int /\ Q(y, 1) \in Int /\ Q(y, 2) \in Int
  BY QIs DEF InCell, D
<1>2. Q(x, 1) - Q(y, 1) = -a /\ Q(x, 2) - Q(y, 2) = -b /\ a \in Int /\ b \in Int
  BY <1>1
<1>3. a = Across(n) /\ b = Up(n)
  BY DEF Aside
<1>4. /\ Aside(x, y, m) => a = Across(m) /\ b = Up(m)
      /\ Aside(y, x, m) => -a = Across(m) /\ -b = Up(m)
  BY <1>2 DEF Aside
<1> HIDE DEF a, b
<1>5. /\ n = 1 \/ n = 2 \/ n = 3 \/ n = 4 \/ n = 5
      /\ m = 1 \/ m = 2 \/ m = 3 \/ m = 4 \/ m = 5
  OBVIOUS
<1>6. \A k : /\ k = 1 => Across(k) = 0 /\ Up(k) = 0
             /\ k = 2 => Across(k) = 1 /\ Up(k) = 0
             /\ k = 3 => Across(k) = -1 /\ Up(k) = 1
             /\ k = 4 => Across(k) = 0 /\ Up(k) = 1
             /\ k = 5 => Across(k) = 1 /\ Up(k) = 1
  BY DEF Across, Up
<1>7. Across(n) = Across(m) /\ Up(n) = Up(m) => n = m
  BY <1>5, <1>6
<1>8. -Across(n) = Across(m) /\ -Up(n) = Up(m) => n = 1 /\ m = 1
  BY <1>5, <1>6
<1>9. QED
  BY <1>3, <1>4, <1>7, <1>8

\* The pair that is met there.
Pair(S, P, i, n, k) == {S.v[P][i], S.v[P][Row(S, P, i, n)[k]]}

\* No two places, on one processor or on both, meet the same pair.
LEMMA OnePlace ==
  ASSUME WellPosed, NEW S, SceneOK(S), NEW P \in Procs, NEW R \in Procs,
         NEW i \in 1 .. S.g_m[P], NEW j \in 1 .. S.g_m[R], NEW n, NEW k, NEW m, NEW l,
         Good(S, P, i, n, k), Good(S, R, j, m, l), Pair(S, P, i, n, k) = Pair(S, R, j, m, l)
  PROVE  P = R /\ i = j /\ n = m /\ k = l
<1> DEFINE a == Row(S, P, i, n)[k]
           b == Row(S, R, j, m)[l]
           x == X(S, P, i)
           y == X(S, P, a)
           z == X(S, R, j)
           u == X(S, R, b)
<1>1. /\ n \in 1 .. 5 /\ m \in 1 .. 5 /\ k \in 1 .. Len(Row(S, P, i, n)) /\ l \in 1 .. Len(Row(S, R, j, m))
      /\ n = 1 => After(S, P, i, a)
      /\ m = 1 => After(S, R, j, b)
  BY DEF Good
<1>2. /\ Row(S, P, i, n) \in Seq(1 .. Len(S.v[P])) /\ Aside(x, y, n)
      /\ \A o \in 1 .. Len(Row(S, P, i, n)) : Row(S, P, i, n)[o] = Row(S, P, i, n)[k] => o = k
  <2> DEFINE s == Row(S, P, i, n)
  <2>1. Holds(S, P, i, n, s) /\ k \in 1 .. Len(s)
    BY <1>1, RowHolds
  <2> HIDE DEF s
  <2>2. /\ s \in Seq(1 .. Len(S.v[P])) /\ Aside(X(S, P, i), X(S, P, s[k]), n)
        /\ \A o \in 1 .. Len(s) : s[o] = s[k] => o = k
    BY <2>1 DEF Holds
  <2>3. QED
    BY <2>2 DEF s
<1>3. Row(S, R, j, m) \in Seq(1 .. Len(S.v[R])) /\ Aside(z, u, m)
  BY <1>1, RowHolds DEF Holds
<1>4. /\ \A O \in Procs : /\ S.v[O] \in Seq(Particles) /\ S.g_m[O] \in 0 .. Len(S.v[O])
                          /\ \A c \in 1 .. Len(S.v[O]) :
                               /\ c <= S.g_m[O] <=> OwnerIn(S, X(S, O, c)) = O
                               /\ \A d \in 1 .. Len(S.v[O]) : S.v[O][c] = S.v[O][d] => c = d
  BY DEF SceneOK
<1>5. /\ i \in 1 .. Len(S.v[P]) /\ j \in 1 .. Len(S.v[R])
      /\ a \in 1 .. Len(S.v[P]) /\ b \in 1 .. Len(S.v[R])
  <2>1. i \in 1 .. Len(S.v[P]) /\ j \in 1 .. Len(S.v[R])
    BY <1>4
  <2>3. a \in 1 .. Len(S.v[P])
    BY <1>1, <1>2, SMTT(30)
  <2>4. b \in 1 .. Len(S.v[R])
    BY <1>1, <1>3, SMTT(30)
  <2>5. QED
    BY <2>1, <2>3, <2>4
<1>6. OwnerIn(S, x) = P /\ OwnerIn(S, z) = R
  BY <1>4, <1>5
<1>7. x \in Points /\ y \in Points /\ z \in Points /\ u \in Points
  BY <1>5, PutIs
<1>8. /\ {S.v[P][i], S.v[P][a]} = {S.v[R][j], S.v[R][b]}
      /\ x = S.pos[S.v[P][i]] /\ y = S.pos[S.v[P][a]] /\ z = S.pos[S.v[R][j]] /\ u = S.pos[S.v[R][b]]
  BY DEF Pair, X
<1>9. /\ n = 1 => IF x = y THEN a >= i ELSE NotBefore(x, y)
      /\ m = 1 => IF z = u THEN b >= j ELSE NotBefore(z, u)
  BY <1>1 DEF After
<1> HIDE DEF a, b, x, y, z, u
<1>10. \/ S.v[P][i] = S.v[R][j] /\ S.v[P][a] = S.v[R][b]
       \/ S.v[P][i] = S.v[R][b] /\ S.v[P][a] = S.v[R][j]
  BY <1>8
<1>11. CASE S.v[P][i] = S.v[R][j] /\ S.v[P][a] = S.v[R][b]
  <2>1. x = z /\ y = u
    BY <1>8, <1>11
  <2>2. P = R
    BY <1>6, <2>1
  <2>3. i = j /\ a = b
    BY <1>4, <1>5, <1>11, <2>2
  <2>4. n = m
    BY <1>1, <1>2, <1>3, <1>7, <2>1, AsideApart
  <2>5. Row(S, R, j, m)[l] = Row(S, P, i, n)[k] /\ Row(S, R, j, m) = Row(S, P, i, n)
    BY <2>2, <2>3, <2>4 DEF a, b
  <2>6. l = k
    BY <1>1, <1>2, <2>5
  <2>7. QED
    BY <2>2, <2>3, <2>4, <2>6
<1>12. CASE S.v[P][i] = S.v[R][b] /\ S.v[P][a] = S.v[R][j]
  <2>1. x = u /\ y = z
    BY <1>8, <1>12
  <2>2. n = 1 /\ m = 1
    <3>1. Aside(y, x, m)
      BY <1>3, <2>1
    <3>2. QED
      BY <1>1, <1>2, <1>7, <3>1, AsideApart
  <2>3. x = y
    <3>1. SUFFICES ASSUME x # y PROVE FALSE
      OBVIOUS
    <3>2. NotBefore(x, y) /\ NotBefore(y, x)
      BY <1>9, <2>1, <2>2, <3>1
    <3>3. x \in Int \X Int /\ y \in Int \X Int
      BY <1>7 DEF WellPosed
    <3>4. QED
      BY <3>1, <3>2, <3>3 DEF NotBefore
  <2>4. P = R
    BY <1>6, <2>1, <2>3
  <2>5. i = b /\ a = j
    BY <1>4, <1>5, <1>12, <2>4
  <2>6. a >= i /\ b >= j
    BY <1>9, <2>1, <2>2, <2>3
  <2>7. i = j /\ a = b
    <3>1. i \in Int /\ j \in Int
      BY <1>5
    <3>2. QED
      BY <2>5, <2>6, <3>1
  <2>8. Row(S, R, j, m)[l] = Row(S, P, i, n)[k] /\ Row(S, R, j, m) = Row(S, P, i, n)
    BY <2>2, <2>4, <2>7 DEF a, b
  <2>9. l = k
    BY <1>1, <1>2, <2>8
  <2>10. QED
    BY <2>2, <2>4, <2>7, <2>9
<1>13. QED
  BY <1>10, <1>11, <1>12

\* Of two particles in one cell or in cells side by side one is aside of the other.
LEMMA AsideOr ==
  ASSUME WellPosed, NEW x \in Points, NEW y \in Points,
         Q(y, 1) - Q(x, 1) \in -1 .. 1, Q(y, 2) - Q(x, 2) \in -1 .. 1
  PROVE  \E n \in 1 .. 5 : Aside(x, y, n) \/ Aside(y, x, n)
<1> DEFINE a == Q(y, 1) - Q(x, 1)
           b == Q(y, 2) - Q(x, 2)
<1>1. Q(x, 1) \in Int /\ Q(x, 2) \in Int /\ Q(y, 1) \in Int /\ Q(y, 2) \in Int
  BY QIs DEF InCell, D
<1>2. Q(x, 1) - Q(y, 1) = -a /\ Q(x, 2) - Q(y, 2) = -b /\ a \in -1 .. 1 /\ b \in -1 .. 1
  BY <1>1
<1>3. \A n : /\ Aside(x, y, n) <=> a = Across(n) /\ b = Up(n)
             /\ Aside(y, x, n) <=> -a = Across(n) /\ -b = Up(n)
  BY <1>2 DEF Aside
<1> HIDE DEF a, b
<1>4. /\ Across(1) = 0 /\ Up(1) = 0 /\ Across(2) = 1 /\ Up(2) = 0 /\ Across(3) = -1 /\ Up(3) = 1
      /\ Across(4) = 0 /\ Up(4) = 1 /\ Across(5) = 1 /\ Up(5) = 1
  BY DEF Across, Up
<1>5. (a = -1 \/ a = 0 \/ a = 1) /\ (b = -1 \/ b = 0 \/ b = 1)
  BY <1>2
<1>6. /\ 1 \in 1 .. 5 /\ 2 \in 1 .. 5 /\ 3 \in 1 .. 5 /\ 4 \in 1 .. 5 /\ 5 \in 1 .. 5
  OBVIOUS
<1>7. CASE b = 0
  <2>1. \/ Aside(x, y, 1) \/ Aside(x, y, 2) \/ Aside(y, x, 2)
    BY <1>3, <1>4, <1>5, <1>7
  <2>2. QED
    BY <1>6, <2>1
<1>8. CASE b = 1
  <2>1. \/ Aside(x, y, 3) \/ Aside(x, y, 4) \/ Aside(x, y, 5)
    BY <1>3, <1>4, <1>5, <1>8
  <2>2. QED
    BY <1>6, <2>1
<1>9. CASE b = -1
  <2>1. \/ Aside(y, x, 3) \/ Aside(y, x, 4) \/ Aside(y, x, 5)
    BY <1>3, <1>4, <1>5, <1>9
  <2>2. QED
    BY <1>6, <2>1
<1>10. QED
  BY <1>5, <1>7, <1>8, <1>9

LEMMA Squares ==
  ASSUME NEW a \in Int, NEW b \in Int, NEW r \in Nat, a * a + b * b <= r * r
  PROVE  a \in -r .. r /\ b \in -r .. r
<1>1. ASSUME NEW c \in Int, c * c <= r * r PROVE c <= r
  <2>1. SUFFICES ASSUME r < c PROVE FALSE
    BY <1>1
  <2>2. c \in Nat
    BY <2>1
  <2>3. r * c + c <= c * c
    BY <2>1, <2>2, Mono
  <2>4. r * r + r <= c * r
    BY <2>1, Mono
  <2>5. r * c = c * r /\ r * r \in Int /\ c * c \in Int /\ r * c \in Int
    BY <2>2
  <2>6. QED
    BY <1>1, <2>1, <2>3, <2>4, <2>5
<1>2. \A c \in Int : c * c \in Nat /\ (-c) * (-c) = c * c
  <2>1. ASSUME NEW c \in Int PROVE c * c \in Nat
    <3>1. CASE c \in Nat
      <4>1. 0 < c => 0 * c + c <= c * c
        BY <3>1, Mono
      <4>2. QED
        BY <3>1, <4>1
    <3>2. CASE -c \in Nat
      <4>1. (-c) * (-c) = c * c /\ c * c \in Int /\ -c \in Int
        OBVIOUS
      <4>2. 0 < -c => 0 * (-c) + (-c) <= (-c) * (-c)
        <5> DEFINE e == -c
        <5>1. e \in Nat
          BY <3>2
        <5> HIDE DEF e
        <5>2. 0 < e => 0 * e + e <= e * e
          BY <5>1, Mono
        <5>3. QED
          BY <5>2 DEF e
      <4>3. -c = 0 \/ 0 < -c
        BY <3>2
      <4>4. 0 * (-c) = 0 /\ (-c = 0 => c * c = 0)
        OBVIOUS
      <4>5. QED
        BY <4>1, <4>2, <4>3, <4>4
    <3>3. QED
      BY <3>1, <3>2
  <2>2. QED
    BY <2>1
<1>3. /\ a * a \in Nat /\ b * b \in Nat /\ (-a) * (-a) = a * a /\ (-b) * (-b) = b * b
      /\ r * r \in Int /\ -a \in Int /\ -b \in Int
  BY <1>2
<1>4. a * a <= r * r /\ b * b <= r * r
  BY <1>3
<1>5. a <= r /\ -a <= r /\ b <= r /\ -b <= r
  <2>1. (-a) * (-a) <= r * r /\ (-b) * (-b) <= r * r
    BY <1>3, <1>4
  <2>2. \A c \in Int : c * c <= r * r => c <= r
    BY <1>1
  <2>3. QED
    BY <1>3, <1>4, <2>1, <2>2
<1>6. QED
  BY <1>5

LEMMA InteractNear ==
  ASSUME WellPosed, NEW x \in Points, NEW y \in Points, Interact(x, y)
  PROVE  /\ x[1] - y[1] \in -Ghost .. Ghost
         /\ \A i \in D : Q(y, i) - Q(x, i) \in -1 .. 1
<1>1. Ghost \in Nat /\ \A i \in D : Ghost <= OuterDec.unit[i]
  BY DEF WellPosed, GhostsInPadding
<1>2. \A i \in D : /\ OuterDec.unit[i] \in Nat \ {0} /\ x[i] \in Int /\ y[i] \in Int
                   /\ Outer.box.lo[i] \in Int
                   /\ InCell(x[i] - Outer.box.lo[i], Q(x, i), OuterDec.unit[i])
                   /\ InCell(y[i] - Outer.box.lo[i], Q(y, i), OuterDec.unit[i])
  BY QIs
<1>3. 1 \in D /\ 2 \in D /\ \A i \in D : i = 1 \/ i = 2
  BY DEF D
<1>4. x[1] - y[1] \in -Ghost .. Ghost /\ x[2] - y[2] \in -Ghost .. Ghost
  <2> DEFINE a == x[1] - y[1]
             b == x[2] - y[2]
  <2>1. a \in Int /\ b \in Int
    BY <1>2, <1>3
  <2>2. a * a + b * b <= Ghost * Ghost
    BY DEF Interact
  <2> HIDE DEF a, b
  <2>3. a \in -Ghost .. Ghost /\ b \in -Ghost .. Ghost
    BY <1>1, <2>1, <2>2, Squares
  <2>4. QED
    BY <2>3 DEF a, b
<1>5. ASSUME NEW i \in D PROVE Q(y, i) - Q(x, i) \in -1 .. 1
  <2> DEFINE u == OuterDec.unit[i]
             lo == Outer.box.lo[i]
             c == x[i] - lo
             d == y[i] - lo
  <2>1. /\ u \in Nat \ {0} /\ c \in Int /\ d \in Int /\ InCell(c, Q(x, i), u) /\ InCell(d, Q(y, i), u)
    BY <1>2
  <2>2. d - c \in -u .. u
    <3>1. x[i] - y[i] \in -Ghost .. Ghost
      BY <1>3, <1>4
    <3>2. Ghost <= u /\ x[i] \in Int /\ y[i] \in Int /\ lo \in Int /\ u \in Nat
      BY <1>1, <1>2
    <3> HIDE DEF u, lo
    <3>3. QED
      BY <1>1, <3>1, <3>2
  <2> HIDE DEF u, c, d
  <2>3. QED
    BY <2>1, <2>2, CloseCells
<1>6. QED
  BY <1>4, <1>5

\* A processor has the particles near to its own.
LEMMA BothHeld ==
  ASSUME WellPosed, NEW S, SceneOK(S), NEW p \in Particles, NEW q \in Particles,
         S.pos[p][1] - S.pos[q][1] \in -Ghost .. Ghost
  PROVE  LET P == OwnerIn(S, S.pos[p])
         IN  /\ P \in Procs
             /\ \E i \in 1 .. S.g_m[P] : S.v[P][i] = p
             /\ \E j \in 1 .. Len(S.v[P]) : S.v[P][j] = q
<1> DEFINE P == OwnerIn(S, S.pos[p])
           x == S.pos[p][1]
           y == S.pos[q][1]
<1>1. P \in Procs
  BY DEF OwnerIn, Procs
<1>2. /\ S.split \in Splits /\ S.pos \in [Particles -> Points]
      /\ S.v[P] \in Seq(Particles) /\ S.g_m[P] \in 0 .. Len(S.v[P])
      /\ \A i \in 1 .. Len(S.v[P]) : i <= S.g_m[P] <=> OwnerIn(S, X(S, P, i)) = P
      /\ \A c \in Particles : OwnerIn(S, S.pos[c]) = P \/ GhostOf(S, P, S.pos[c])
                                => \E i \in 1 .. Len(S.v[P]) : S.v[P][i] = c
  BY <1>1 DEF SceneOK
<1>3. PICK i \in 1 .. Len(S.v[P]) : S.v[P][i] = p
  BY <1>2
<1>4. i \in 1 .. S.g_m[P]
  <2>1. OwnerIn(S, X(S, P, i)) = P
    BY <1>3 DEF X
  <2>2. i <= S.g_m[P]
    BY <1>2, <2>1
  <2>3. QED
    BY <1>2, <2>2
<1>5. OwnerIn(S, S.pos[q]) = P \/ GhostOf(S, P, S.pos[q])
  <2>1. S.pos[p] \in Points /\ S.pos[q] \in Points
    BY <1>2
  <2>2. x \in Int /\ y \in Int
    BY <2>1 DEF WellPosed
  <2>3. Ghost \in Nat /\ S.split \in Int
    <3>1. \A e \in D : Outer.box.lo[e] \in Int /\ Outer.box.hi[e] \in Int
      BY DEF WellPosed, Even
    <3>2. S.split \in Outer.box.lo[1] + 1 .. Outer.box.hi[1] - 1
      <4>1. Splits \subseteq Outer.box.lo[1] + 1 .. Outer.box.hi[1] - 1 /\ S.split \in Splits
        BY <1>2, SymAssumption
      <4>2. QED
        BY ONLY <4>1, Zenon
    <3>3. 1 \in D
      BY DEF D
    <3>4. QED
      BY <3>1, <3>2, <3>3 DEF WellPosed, GhostsInPadding
  <2>4. /\ P = IF x < S.split THEN 1 ELSE 2
        /\ OwnerIn(S, S.pos[q]) = IF y < S.split THEN 1 ELSE 2
        /\ GhostOf(S, P, S.pos[q]) <=>
             /\ OwnerIn(S, S.pos[q]) # P
             /\ IF P = 1 THEN y < S.split + Ghost ELSE y >= S.split - Ghost
    BY DEF OwnerIn, GhostOf
  <2> HIDE DEF P, x, y
  <2>5. x - y \in -Ghost .. Ghost
    BY DEF x, y
  <2>6. QED
    BY <2>2, <2>3, <2>4, <2>5
<1>6. \E j \in 1 .. Len(S.v[P]) : S.v[P][j] = q
  BY <1>2, <1>5
<1>7. QED
  BY <1>1, <1>3, <1>4, <1>6

\* The walk from i stops at j.
Stops(S, P, i, j, n) ==
    \E k \in Nat : Good(S, P, i, n, k) /\ Pair(S, P, i, n, k) = {S.v[P][i], S.v[P][j]}

\* A walk stops at every particle aside of the one it starts from.
LEMMA StopsAt ==
  ASSUME WellPosed, NEW S, SceneOK(S), NEW P \in Procs, NEW i \in 1 .. S.g_m[P],
         NEW j \in 1 .. Len(S.v[P]), NEW n \in 1 .. 5, Aside(X(S, P, i), X(S, P, j), n),
         n = 1 => After(S, P, i, j)
  PROVE  Stops(S, P, i, j, n)
<1>1. PICK k \in 1 .. Len(Row(S, P, i, n)) : Row(S, P, i, n)[k] = j
  <2> DEFINE s == Row(S, P, i, n)
  <2>1. Holds(S, P, i, n, s)
    BY RowHolds
  <2> HIDE DEF s
  <2>2. \E k \in 1 .. Len(s) : s[k] = j
    BY <2>1 DEF Holds
  <2>3. QED
    BY <2>2 DEF s
<1>2. Good(S, P, i, n, k)
  BY <1>1 DEF Good
<1>3. QED
  BY <1>1, <1>2 DEF Pair, Stops

\* A place where p and q are met.
Met(S, p, q) ==
    \E P \in Procs, n \in 1 .. 5, k \in Nat : \E i \in 1 .. S.g_m[P] :
        Good(S, P, i, n, k) /\ Pair(S, P, i, n, k) = {p, q}

LEMMA AsideMet ==
  ASSUME WellPosed, NEW S, SceneOK(S), NEW p \in Particles, NEW q \in Particles,
         S.pos[p][1] - S.pos[q][1] \in -Ghost .. Ghost, NEW n \in 1 .. 5,
         Aside(S.pos[p], S.pos[q], n),
         n = 1 => S.pos[p] # S.pos[q] /\ NotBefore(S.pos[p], S.pos[q])
  PROVE  Met(S, p, q)
<1> DEFINE P == OwnerIn(S, S.pos[p])
<1>1. P \in Procs
  BY BothHeld
<1>2. PICK i \in 1 .. S.g_m[P] : S.v[P][i] = p
  BY BothHeld
<1>3. PICK j \in 1 .. Len(S.v[P]) : S.v[P][j] = q
  BY BothHeld
<1>4. X(S, P, i) = S.pos[p] /\ X(S, P, j) = S.pos[q]
  BY <1>2, <1>3 DEF X
<1> HIDE DEF P
<1>5. n = 1 => After(S, P, i, j)
  BY <1>4 DEF After
<1>6. Stops(S, P, i, j, n)
  <2>1. Aside(X(S, P, i), X(S, P, j), n)
    BY <1>4
  <2>2. QED
    BY <1>1, <1>5, <2>1, StopsAt
<1>7. QED
  BY <1>1, <1>2, <1>3, <1>6 DEF Met, Stops

LEMMA EqualMet ==
  ASSUME WellPosed, NEW S, SceneOK(S), NEW p \in Particles, NEW q \in Particles,
         S.pos[p] = S.pos[q], S.pos[p] \in Points
  PROVE  Met(S, p, q)
<1> DEFINE P == OwnerIn(S, S.pos[p])
<1>1. Ghost \in Nat /\ S.pos[p][1] \in Int
  BY DEF WellPosed, GhostsInPadding
<1>2. S.pos[p][1] - S.pos[q][1] \in -Ghost .. Ghost /\ S.pos[q][1] - S.pos[p][1] \in -Ghost .. Ghost
  BY <1>1
<1>3. P \in Procs /\ P = OwnerIn(S, S.pos[q])
  BY <1>2, BothHeld
<1>4. PICK i \in 1 .. S.g_m[P] : S.v[P][i] = p
  BY <1>2, BothHeld, SMTT(30)
<1>5. PICK j \in 1 .. S.g_m[P] : S.v[P][j] = q
  BY <1>2, <1>3, BothHeld
<1>6. X(S, P, i) = S.pos[p] /\ X(S, P, j) = S.pos[p]
  BY <1>4, <1>5 DEF X
<1>7. Aside(S.pos[p], S.pos[p], 1) /\ 1 \in 1 .. 5
  <2>1. Q(S.pos[p], 1) \in Int /\ Q(S.pos[p], 2) \in Int
    BY QIs DEF InCell, D
  <2>2. QED
    BY <2>1 DEF Aside, Across, Up
<1>8. S.g_m[P] \in 0 .. Len(S.v[P]) /\ S.v[P] \in Seq(Particles)
  BY <1>3 DEF SceneOK
<1> HIDE DEF P
<1>9. /\ i \in 1 .. Len(S.v[P]) /\ j \in 1 .. Len(S.v[P]) /\ (i <= j \/ j <= i)
  BY <1>8
<1>10. /\ i <= j => After(S, P, i, j)
       /\ j <= i => After(S, P, j, i)
  BY <1>6, <1>9 DEF After
<1>11. CASE i <= j
  <2>1. Stops(S, P, i, j, 1)
    <3>1. Aside(X(S, P, i), X(S, P, j), 1) /\ After(S, P, i, j)
      BY <1>6, <1>7, <1>10, <1>11
    <3>2. QED
      BY <1>3, <1>7, <1>9, <3>1, StopsAt
  <2>2. QED
    BY <1>3, <1>4, <1>5, <1>7, <2>1 DEF Met, Stops
<1>12. CASE j <= i
  <2>1. Stops(S, P, j, i, 1)
    <3>1. Aside(X(S, P, j), X(S, P, i), 1) /\ After(S, P, j, i)
      BY <1>6, <1>7, <1>10, <1>12
    <3>2. QED
      BY <1>3, <1>7, <1>9, <3>1, StopsAt
  <2>2. {S.v[P][j], S.v[P][i]} = {p, q}
    BY <1>4, <1>5
  <2>3. QED
    BY <1>3, <1>7, <2>1, <2>2 DEF Met, Stops
<1>13. QED
  BY <1>9, <1>11, <1>12

\* Two particles that interact are met somewhere.
LEMMA AllMet ==
  ASSUME WellPosed, NEW S, SceneOK(S), NEW p \in Particles, NEW q \in Particles,
         Interact(S.pos[p], S.pos[q])
  PROVE  Met(S, p, q)
<1> DEFINE x == S.pos[p]
           y == S.pos[q]
<1>1. x \in Points /\ y \in Points
  BY DEF SceneOK
<1>2. x[1] - y[1] \in -Ghost .. Ghost /\ \A i \in D : Q(y, i) - Q(x, i) \in -1 .. 1
  BY <1>1, InteractNear
<1>3. PICK n \in 1 .. 5 : Aside(x, y, n) \/ Aside(y, x, n)
  <2>1. 1 \in D /\ 2 \in D
    BY DEF D
  <2>2. QED
    BY <1>1, <1>2, <2>1, AsideOr
<1>4. y[1] - x[1] \in -Ghost .. Ghost
  <2>1. x[1] \in Int /\ y[1] \in Int /\ Ghost \in Nat
    BY <1>1 DEF WellPosed, GhostsInPadding
  <2>2. QED
    BY <1>2, <2>1
<1>5. Met(S, q, p) => Met(S, p, q)
  BY DEF Met
<1>6. CASE x = y
  BY <1>1, <1>6, EqualMet
<1>7. CASE x # y /\ n = 1
  <2>1. Aside(x, y, 1) /\ Aside(y, x, 1)
    <3>1. Q(x, 1) \in Int /\ Q(x, 2) \in Int /\ Q(y, 1) \in Int /\ Q(y, 2) \in Int
      BY <1>1, QIs DEF InCell, D
    <3>2. QED
      BY <1>3, <1>7, <3>1 DEF Aside, Across, Up
  <2>2. NotBefore(x, y) \/ NotBefore(y, x)
    <3>1. x[1] \in Int /\ x[2] \in Int /\ y[1] \in Int /\ y[2] \in Int
      BY <1>1 DEF WellPosed
    <3>2. QED
      BY <3>1 DEF NotBefore
  <2>3. 1 \in 1 .. 5
    OBVIOUS
  <2>4. NotBefore(x, y) => Met(S, p, q)
    BY <1>2, <1>7, <2>1, <2>3, AsideMet
  <2>5. NotBefore(y, x) => Met(S, q, p)
    BY <1>4, <1>7, <2>1, <2>3, AsideMet
  <2>6. QED
    BY <1>5, <2>2, <2>4, <2>5
<1>8. CASE n # 1
  <2>1. Aside(x, y, n) => Met(S, p, q)
    BY <1>2, <1>8, AsideMet
  <2>2. Aside(y, x, n) => Met(S, q, p)
    BY <1>4, <1>8, AsideMet
  <2>3. QED
    BY <1>3, <1>5, <2>1, <2>2
<1>9. QED
  BY <1>6, <1>7, <1>8

-----------------------------------------------------------------------------
(* What the selection of the next element does. *)

Earlier(n, k, m, l) == n < m \/ (n = m /\ k < l)

\* A record of a walk.
WalkFields == {"proc", "p", "n", "c", "k"}
IsWalk(w) == w = [f \in WalkFields |-> w[f]]

\* The walk of a processor's own particle.
Walking(S, w) ==
    /\ IsWalk(w)
    /\ w.proc \in Procs /\ w.p \in 1 .. S.g_m[w.proc]

\* It stands in a cell of the stencil, or behind the last element of it.
Stands(S, w) ==
    /\ w.n \in 1 .. 5
    /\ w.c = Home(S, w.proc, w.p) + Step(S, w.proc)[w.n]
    /\ w.k \in 1 .. Len(Row(S, w.proc, w.p, w.n)) + 1

\* At a good place, or at the end.
Selected(S, w) ==
    /\ Walking(S, w)
    /\ w.c \in Cells(Grid(S, w.proc)) /\ w.k \in 1 .. N + 1
    /\ \/ w.n = 6
       \/ Stands(S, w) /\ Good(S, w.proc, w.p, w.n, w.k)

\* r is w, moved on to the next good place: no other is between the two.
MovedTo(S, w, r) ==
    /\ Selected(S, r)
    /\ r.proc = w.proc /\ r.p = w.p
    /\ \A m, l : Good(S, w.proc, w.p, m, l) =>
                   (Earlier(m, l, r.n, r.k) <=> Earlier(m, l, w.n, w.k))

LEMMA SceneIs ==
  /\ Scene.split = split /\ Scene.pos = pos /\ Scene.v = v /\ Scene.g_m = g_m
  /\ \A P \in Procs :
       /\ Dec[P] = Grid(Scene, P) /\ Stencil[P] = Step(Scene, P)
       /\ \A i : GetCell(Dec[P], At(P, i)) = Home(Scene, P, i)
       /\ \A i, j : ComesAfter(P, i, j) <=> After(Scene, P, i, j)
       /\ Populated(P) = Filled(Scene, P)
       /\ \A c : cells[P] = Filled(Scene, P) => Cell(P, c) = Content(Scene, P, c)
<1>1. /\ Scene.split = split /\ Scene.pos = pos /\ Scene.v = v /\ Scene.g_m = g_m
  BY DEF Scene
<1>2. ASSUME NEW P \in Procs
      PROVE  Dec[P] = Grid(Scene, P) /\ Stencil[P] = Step(Scene, P)
  BY <1>1 DEF Dec, Grid, Stencil, Step
<1>3. \A P, i : At(P, i) = X(Scene, P, i)
  BY <1>1 DEF At, X
<1>4. ASSUME NEW P \in Procs, NEW i PROVE GetCell(Dec[P], At(P, i)) = Home(Scene, P, i)
  BY <1>2, <1>3 DEF Home
<1>5. ASSUME NEW P \in Procs, NEW i, NEW j PROVE ComesAfter(P, i, j) <=> After(Scene, P, i, j)
  BY <1>3 DEF ComesAfter, After
<1>6. ASSUME NEW P \in Procs PROVE Populated(P) = Filled(Scene, P)
  <2>1. \A i : (IF i <= g_m[P] THEN GetCellDom(Dec[P], At(P, i)) ELSE GetCell(Dec[P], At(P, i)))
                 = Put(Scene, P, i)
    BY <1>1, <1>2, <1>3 DEF Put
  <2> DEFINE put(i) == IF i <= g_m[P] THEN GetCellDom(Dec[P], At(P, i)) ELSE GetCell(Dec[P], At(P, i))
             s == [i \in DOMAIN v[P] |-> i]
  <2>2. Populated(P) = [c \in Cells(Dec[P]) |-> Chosen(s, {i \in DOMAIN v[P] : c = put(i)})]
    BY DEF Populated
  <2>3. \A i : put(i) = Put(Scene, P, i)
    BY <2>1
  <2> HIDE DEF put
  <2>4. \A c : {i \in DOMAIN v[P] : c = put(i)} = {i \in DOMAIN v[P] : c = Put(Scene, P, i)}
    BY <2>3
  <2>5. Populated(P) = [c \in Cells(Dec[P]) |-> Chosen(s, {i \in DOMAIN v[P] : c = Put(Scene, P, i)})]
    BY <2>2, <2>4
  <2>6. QED
    BY <1>1, <1>2, <2>5, Zenon DEF Filled
<1>7. ASSUME NEW P \in Procs, NEW c, cells[P] = Filled(Scene, P)
      PROVE  Cell(P, c) = Content(Scene, P, c)
  BY <1>7 DEF Cell, Content
<1>8. QED
  BY <1>1, <1>2, <1>4, <1>5, <1>6, <1>7

\* The cells around the particle of a walk.
LEMMA RowsOf ==
  ASSUME WellPosed, NEW S, SceneOK(S), NEW P \in Procs, NEW i \in 1 .. S.g_m[P]
  PROVE  /\ \A n \in 1 .. 5 : /\ Home(S, P, i) + Step(S, P)[n] \in Cells(Grid(S, P))
                              /\ Len(Row(S, P, i, n)) \in 0 .. N
                              /\ Row(S, P, i, n) # <<>> <=> Len(Row(S, P, i, n)) > 0
         /\ \A m, l : Good(S, P, i, m, l) => m \in 1 .. 5 /\ l \in 1 .. Len(Row(S, P, i, m))
         /\ \A m \in 2 .. 5 : \A l \in 1 .. Len(Row(S, P, i, m)) : Good(S, P, i, m, l)
         /\ \A l \in 1 .. Len(Row(S, P, i, 1)) :
              Good(S, P, i, 1, l) <=> After(S, P, i, Row(S, P, i, 1)[l])
<1>1. ASSUME NEW n \in 1 .. 5
      PROVE  /\ Home(S, P, i) + Step(S, P)[n] \in Cells(Grid(S, P))
             /\ Len(Row(S, P, i, n)) \in 0 .. N
             /\ Row(S, P, i, n) # <<>> <=> Len(Row(S, P, i, n)) > 0
  <2> DEFINE s == Row(S, P, i, n)
  <2>1. Holds(S, P, i, n, s)
    BY RowHolds
  <2> HIDE DEF s
  <2>2. s \in Seq(1 .. Len(S.v[P])) /\ Len(s) \in 0 .. N
    BY <2>1 DEF Holds
  <2>3. s # <<>> <=> Len(s) > 0
    BY <2>2
  <2>4. Home(S, P, i) + Step(S, P)[n] \in Cells(Grid(S, P))
    BY RowIs
  <2>5. QED
    BY <2>2, <2>3, <2>4 DEF s
<1>2. \A m, l : Good(S, P, i, m, l) => m \in 1 .. 5 /\ l \in 1 .. Len(Row(S, P, i, m))
  BY DEF Good
<1>3. \A m \in 2 .. 5 : \A l \in 1 .. Len(Row(S, P, i, m)) : Good(S, P, i, m, l)
  BY DEF Good
<1>4. \A l \in 1 .. Len(Row(S, P, i, 1)) :
        Good(S, P, i, 1, l) <=> After(S, P, i, Row(S, P, i, 1)[l])
  BY DEF Good
<1>5. QED
  BY <1>1, <1>2, <1>3, <1>4

\* q is w at another place.
MovedOn(q, w, n, c, k) ==
    IsWalk(q) /\ q.proc = w.proc /\ q.p = w.p /\ q.n = n /\ q.c = c /\ q.k = k

LEMMA PlacedN == ASSUME NEW w, IsWalk(w), NEW a PROVE MovedOn([w EXCEPT !.n = a], w, a, w.c, w.k)
BY DEF IsWalk, WalkFields, MovedOn

LEMMA PlacedK == ASSUME NEW w, IsWalk(w), NEW a PROVE MovedOn([w EXCEPT !.k = a], w, w.n, w.c, a)
BY DEF IsWalk, WalkFields, MovedOn

LEMMA PlacedAll ==
  ASSUME NEW w, IsWalk(w), NEW a, NEW b, NEW d
  PROVE  MovedOn([w EXCEPT !.n = a, !.c = b, !.k = d], w, a, b, d)
BY DEF IsWalk, WalkFields, MovedOn

LEMMA WalkIs ==
  ASSUME NEW w, IsWalk(w)
  PROVE  w = [proc |-> w.proc, p |-> w.p, n |-> w.n, c |-> w.c, k |-> w.k]
BY DEF IsWalk, WalkFields

LEMMA NonEmptyIs ==
  ASSUME WellPosed, SceneOK(Scene), NEW w, Walking(Scene, w), Stands(Scene, w),
         cells[w.proc] = Filled(Scene, w.proc),
         w.n = 1 => w.k > Len(Row(Scene, w.proc, w.p, 1))
  PROVE  MovedTo(Scene, w, SelectNonEmpty(w, Home(Scene, w.proc, w.p)))
<1> DEFINE P == w.proc
           i == w.p
           centre == Home(Scene, P, i)
           st == Stencil[P]
           R(m) == Row(Scene, P, i, m)
           later == {m \in w.n + 1 .. Len(st) : Cell(P, centre + st[m]) # <<>>}
           first == CHOOSE m \in later : \A o \in later : m <= o
           r == SelectNonEmpty(w, centre)
           G(m, l) == Good(Scene, P, i, m, l)
<1>1. /\ P \in Procs /\ i \in 1 .. Scene.g_m[P]
      /\ IsWalk(w)
      /\ w.n \in 1 .. 5 /\ w.c = centre + Step(Scene, P)[w.n] /\ w.k \in 1 .. Len(R(w.n)) + 1
  BY DEF Walking, Stands
<1>2. /\ st = Step(Scene, P) /\ \A c : Cell(P, c) = Content(Scene, P, c)
  BY <1>1, SceneIs
<1>3. Len(st) = 5
  <2>1. Scene.split \in Splits
    BY DEF SceneOK
  <2>2. QED
    BY <1>1, <1>2, <2>1, StepIs
<1>4. /\ \A m : Cell(P, centre + st[m]) = R(m)
      /\ Cell(P, w.c) = R(w.n)
  BY <1>1, <1>2 DEF Row
<1>5. /\ \A m \in 1 .. 5 : /\ centre + st[m] \in Cells(Grid(Scene, P))
                           /\ Len(R(m)) \in 0 .. N
                           /\ R(m) # <<>> <=> Len(R(m)) > 0
      /\ \A m, l : G(m, l) => m \in 1 .. 5 /\ l \in 1 .. Len(R(m))
      /\ \A m \in 2 .. 5 : \A l \in 1 .. Len(R(m)) : G(m, l)
  BY <1>1, <1>2, RowsOf
<1>6. r = IF w.k <= Len(R(w.n)) THEN w
          ELSE IF later = {} THEN [w EXCEPT !.n = 6]
          ELSE [w EXCEPT !.n = first, !.c = centre + st[first], !.k = 1]
  <2>1. r = IF w.k <= Len(Cell(P, w.c)) THEN w
            ELSE IF later = {} THEN [w EXCEPT !.n = Len(st) + 1]
            ELSE [w EXCEPT !.n = first, !.c = centre + st[first], !.k = 1]
    BY DEF SelectNonEmpty
  <2> HIDE DEF r, later, first, st
  <2>2. Len(st) + 1 = 6
    BY <1>3
  <2>3. QED
    BY <1>4, <2>1, <2>2
<1>7. \A m : m \in later <=> m \in w.n + 1 .. 5 /\ Len(R(m)) > 0
  <2>1. \A m : m \in later <=> m \in w.n + 1 .. 5 /\ R(m) # <<>>
    BY <1>3, <1>4
  <2> HIDE DEF R, later
  <2>2. QED
    BY <1>1, <1>5, <2>1
<1>8. N \in Nat
  BY SymAssumption
<1>9. /\ w.c \in Cells(Grid(Scene, P)) /\ w.k \in 1 .. N + 1
  <2>1. Len(R(w.n)) \in 0 .. N
    BY <1>1, <1>5
  <2>2. w.k \in 1 .. N + 1
    BY <1>1, <1>8, <2>1
  <2>3. w.c \in Cells(Grid(Scene, P))
    BY <1>1, <1>2, <1>5
  <2>4. QED
    BY <2>2, <2>3
<1>10. CASE w.k <= Len(R(w.n))
  <2>1. r = w
    <3> HIDE DEF r, later, R
    <3>1. QED
      BY <1>6, <1>10
  <2>2. w.n # 1
    <3>1. w.n = 1 => w.k > Len(R(w.n))
      OBVIOUS
    <3>2. Len(R(w.n)) \in Int /\ w.k \in Int
      BY <1>1, <1>5
    <3>3. QED
      BY <1>10, <3>1, <3>2
  <2>3. w.n \in 2 .. 5 /\ w.k \in 1 .. Len(R(w.n))
    BY <1>1, <1>5, <1>10, <2>2
  <2>4. G(w.n, w.k)
    BY <1>5, <2>3
  <2>5. QED
    BY <1>9, <2>1, <2>4 DEF MovedTo, Selected
<1>11. CASE ~(w.k <= Len(R(w.n))) /\ later = {}
  <2>1. r = [w EXCEPT !.n = 6]
    <3> HIDE DEF r, later, R
    <3>1. QED
      BY <1>6, <1>11
  <2> HIDE DEF r
  <2>2. Walking(Scene, r) /\ r.n = 6 /\ r.c = w.c /\ r.k = w.k /\ r.proc = P /\ r.p = i
    <3>1. MovedOn(r, w, 6, w.c, w.k)
      BY <1>1, <2>1, PlacedN
    <3>2. QED
      BY <1>1, <3>1 DEF Walking, MovedOn
  <2>3. ASSUME NEW m, NEW l, G(m, l)
        PROVE  Earlier(m, l, r.n, r.k) <=> Earlier(m, l, w.n, w.k)
    <3>1. m \in 1 .. 5 /\ l \in 1 .. Len(R(m)) /\ Len(R(m)) \in 0 .. N
      BY <1>5, <2>3
    <3>2. m \notin later
      BY <1>11
    <3> HIDE DEF R, later, G
    <3>3. m <= w.n
      BY <1>1, <1>7, <3>1, <3>2
    <3>4. m = w.n => l < w.k
      BY <1>1, <1>11, <3>1
    <3>5. QED
      BY <1>1, <2>2, <3>1, <3>3, <3>4 DEF Earlier
  <2>4. Selected(Scene, r)
    BY <1>9, <2>2 DEF Selected
  <2>5. QED
    BY <2>2, <2>3, <2>4 DEF MovedTo, r
<1>12. CASE ~(w.k <= Len(R(w.n))) /\ later # {}
  <2>1. first \in later /\ \A o \in later : first <= o
    <3>1. later \in SUBSET Nat
      BY <1>1
    <3> HIDE DEF later
    <3>2. \E m \in later : \A o \in later : m <= o
      BY <1>12, <3>1, LeastNat
    <3>3. QED
      BY <3>2
  <2>2. r = [w EXCEPT !.n = first, !.c = centre + st[first], !.k = 1]
    <3> HIDE DEF r, later, R, first
    <3>1. QED
      BY <1>6, <1>12
  <2> HIDE DEF r, first
  <2>3. /\ Walking(Scene, r) /\ r.n = first /\ r.c = centre + st[first] /\ r.k = 1
        /\ r.proc = P /\ r.p = i
    <3> DEFINE e == centre + st[first]
    <3>1. MovedOn(r, w, first, e, 1)
      <4>1. r = [w EXCEPT !.n = first, !.c = e, !.k = 1]
        BY <2>2
      <4> HIDE DEF e
      <4>2. QED
        BY <1>1, <4>1, PlacedAll
    <3>2. QED
      BY <1>1, <3>1 DEF Walking, MovedOn
  <2>4. first \in w.n + 1 .. 5 /\ first \in 2 .. 5 /\ first \in 1 .. 5 /\ Len(R(first)) > 0
    <3>1. first \in w.n + 1 .. 5 /\ Len(R(first)) > 0
      BY <1>7, <2>1
    <3>2. QED
      BY <1>1, <3>1
  <2>5. Len(R(first)) \in 0 .. N /\ 1 \in 1 .. Len(R(first)) /\ 1 \in 1 .. Len(R(first)) + 1
    <3>1. Len(R(first)) \in 0 .. N
      BY <1>5, <2>4
    <3>2. QED
      BY <1>8, <2>4, <3>1
  <2>6. G(first, 1)
    BY <1>5, <2>4, <2>5
  <2>7. Stands(Scene, r)
    BY <1>2, <2>3, <2>4, <2>5 DEF Stands
  <2>8. Selected(Scene, r)
    <3>1. 1 \in 1 .. N + 1
      BY <1>8
    <3>2. centre + st[first] \in Cells(Grid(Scene, P))
      BY <1>5, <2>4
    <3>3. QED
      BY <2>3, <2>6, <2>7, <3>1, <3>2 DEF Selected
  <2>9. ASSUME NEW m, NEW l, G(m, l)
        PROVE  Earlier(m, l, r.n, r.k) <=> Earlier(m, l, w.n, w.k)
    <3>1. m \in 1 .. 5 /\ l \in 1 .. Len(R(m)) /\ Len(R(m)) \in 0 .. N
      BY <1>5, <2>9
    <3>2. m \in later => first <= m
      BY <2>1
    <3> HIDE DEF R, later, G
    <3>3. m < first => m <= w.n
      BY <1>1, <1>7, <2>4, <3>1, <3>2, SMTT(30)
    <3>4. m = w.n => l < w.k
      BY <1>1, <1>12, <3>1
    <3>5. l >= 1 /\ l \in Int /\ w.n < first /\ w.n \in Int /\ first \in Int /\ w.k \in Int /\ m \in Int
      BY <1>9, <1>1, <2>4, <3>1
    <3>6. QED
      BY <2>3, <3>3, <3>4, <3>5 DEF Earlier
  <2>10. QED
    BY <2>3, <2>8, <2>9 DEF MovedTo, r
<1>13. QED
  BY <1>10, <1>11, <1>12

LEMMA SelectIs ==
  ASSUME WellPosed, SceneOK(Scene), NEW w, Walking(Scene, w), Stands(Scene, w),
         cells[w.proc] = Filled(Scene, w.proc)
  PROVE  MovedTo(Scene, w, SelectValid(w, Home(Scene, w.proc, w.p)))
<1> DEFINE P == w.proc
           i == w.p
           centre == Home(Scene, P, i)
           own == Cell(P, w.c)
           good == {j \in w.k .. Len(own) : ComesAfter(P, i, own[j])}
           first == CHOOSE j \in good : \A o \in good : j <= o
           past == [w EXCEPT !.k = Len(own) + 1]
           R(m) == Row(Scene, P, i, m)
           r == SelectValid(w, centre)
           G(m, l) == Good(Scene, P, i, m, l)
<1>1. /\ P \in Procs /\ i \in 1 .. Scene.g_m[P] /\ IsWalk(w)
      /\ w.n \in 1 .. 5 /\ w.c = centre + Step(Scene, P)[w.n] /\ w.k \in 1 .. Len(R(w.n)) + 1
  BY DEF Walking, Stands
<1>2. /\ Stencil[P] = Step(Scene, P) /\ own = Content(Scene, P, w.c)
      /\ \A a, b : ComesAfter(P, a, b) <=> After(Scene, P, a, b)
  BY <1>1, SceneIs
<1>3. own = R(w.n)
  BY <1>1, <1>2 DEF Row
<1>4. Len(Stencil[P]) = 5 /\ (Stencil[P][w.n] # 0 <=> w.n # 1)
  <2>1. Scene.split \in Splits
    BY DEF SceneOK
  <2>2. Len(Step(Scene, P)) = 5 /\ (Step(Scene, P)[w.n] = 0 <=> w.n = 1)
    BY <1>1, <2>1, StepIs
  <2>3. QED
    BY <1>2, <2>2
<1>5. /\ \A m \in 1 .. 5 : Len(R(m)) \in 0 .. N
      /\ \A m, l : G(m, l) => m \in 1 .. 5 /\ l \in 1 .. Len(R(m))
      /\ \A l \in 1 .. Len(R(1)) : G(1, l) <=> After(Scene, P, i, R(1)[l])
      /\ centre + Step(Scene, P)[w.n] \in Cells(Grid(Scene, P))
  BY <1>1, RowsOf
<1>6. r = IF w.n # 1 THEN SelectNonEmpty(w, centre)
          ELSE IF good # {} THEN [w EXCEPT !.k = first]
          ELSE SelectNonEmpty(past, centre)
  <2>1. r = IF Exhausted(w) \/ Stencil[P][w.n] # 0 THEN SelectNonEmpty(w, centre)
            ELSE IF good # {} THEN [w EXCEPT !.k = first]
            ELSE SelectNonEmpty(past, centre)
    BY DEF SelectValid
  <2>2. ~Exhausted(w)
    BY <1>1, <1>4 DEF Exhausted
  <2> HIDE DEF r, good, first, past, own, centre
  <2>3. QED
    BY <1>4, <2>1, <2>2
<1>7. N \in Nat
  BY SymAssumption
<1>8. CASE w.n # 1
  <2>1. MovedTo(Scene, w, SelectNonEmpty(w, centre))
    BY <1>8, NonEmptyIs
  <2>2. r = SelectNonEmpty(w, centre)
    <3> HIDE DEF r, good, first, past, own, centre
    <3>1. QED
      BY <1>6, <1>8
  <2>3. QED
    BY <2>1, <2>2
<1>9. w.n = 1 => \A l : l \in good <=> l \in w.k .. Len(R(1)) /\ G(1, l)
  <2>1. SUFFICES ASSUME w.n = 1, NEW l PROVE l \in good <=> l \in w.k .. Len(R(1)) /\ G(1, l)
    OBVIOUS
  <2>2. l \in good <=> l \in w.k .. Len(R(1)) /\ After(Scene, P, i, R(1)[l])
    BY <1>2, <1>3, <2>1
  <2>3. l \in w.k .. Len(R(1)) => l \in 1 .. Len(R(1))
    <3>1. w.k \in Nat /\ w.k >= 1 /\ Len(R(1)) \in Int
      BY <1>1, <1>5, <2>1
    <3> HIDE DEF R
    <3>2. QED
      BY <3>1
  <2>4. QED
    BY <1>5, <2>2, <2>3
<1>10. CASE w.n = 1 /\ good # {}
  <2>1. first \in good /\ \A o \in good : first <= o
    <3>1. good \in SUBSET Nat
      BY <1>1
    <3> HIDE DEF good
    <3>2. \E m \in good : \A o \in good : m <= o
      BY <1>10, <3>1, LeastNat
    <3>3. QED
      BY <3>2
  <2>2. r = [w EXCEPT !.k = first]
    <3> HIDE DEF r, good, first, past, own, centre
    <3>1. QED
      BY <1>6, <1>10
  <2> HIDE DEF r, first
  <2>3. IsWalk(r) /\ r.proc = P /\ r.p = i /\ r.n = w.n /\ r.c = w.c /\ r.k = first
    <3>1. MovedOn(r, w, w.n, w.c, first)
      BY <1>1, <2>2, PlacedK
    <3>2. QED
      BY <3>1 DEF MovedOn
  <2>4. /\ first \in w.k .. Len(R(1)) /\ G(1, first) /\ Len(R(1)) \in 0 .. N /\ w.k \in Nat /\ w.k >= 1
    BY <1>1, <1>5, <1>9, <1>10, <2>1, SMTT(30)
  <2>5. /\ first \in 1 .. Len(R(1)) + 1 /\ first \in 1 .. N + 1 /\ first \in Nat
    <3> HIDE DEF R
    <3>1. QED
      BY <1>7, <2>4
  <2>6. Walking(Scene, r)
    BY <1>1, <2>3 DEF Walking
  <2>7. Stands(Scene, r)
    BY <1>1, <1>10, <2>3, <2>5 DEF Stands
  <2>8. Selected(Scene, r)
    BY <1>1, <1>5, <1>10, <2>3, <2>4, <2>5, <2>6, <2>7 DEF Selected
  <2>9. ASSUME NEW m, NEW l, G(m, l)
        PROVE  Earlier(m, l, r.n, r.k) <=> Earlier(m, l, w.n, w.k)
    <3>1. m \in 1 .. 5 /\ l \in 1 .. Len(R(m)) /\ Len(R(m)) \in 0 .. N
      BY <1>5, <2>9
    <3>2. m = 1 /\ l >= w.k => first <= l
      <4>1. SUFFICES ASSUME m = 1, l >= w.k PROVE first <= l
        OBVIOUS
      <4>2. l \in w.k .. Len(R(1))
        BY <2>4, <3>1, <4>1
      <4>3. l \in good
        BY <1>9, <1>10, <2>9, <4>1, <4>2
      <4>4. QED
        BY <2>1, <4>3
    <3>3. w.k <= first /\ l \in Int /\ m \in Int /\ first \in Int /\ w.k \in Int
      BY <2>4, <2>5, <3>1
    <3>4. QED
      BY <1>10, <2>3, <3>1, <3>2, <3>3 DEF Earlier
  <2>10. QED
    BY <2>3, <2>8, <2>9 DEF MovedTo, r
<1>11. CASE w.n = 1 /\ good = {}
  <2>1. r = SelectNonEmpty(past, centre)
    <3> HIDE DEF r, good, first, past, own, centre
    <3>1. QED
      BY <1>6, <1>11
  <2>2. /\ IsWalk(past) /\ past.proc = P /\ past.p = i /\ past.n = w.n /\ past.c = w.c
        /\ past.k = Len(R(1)) + 1
    <3> DEFINE k == Len(own) + 1
    <3>1. MovedOn([w EXCEPT !.k = k], w, w.n, w.c, k)
      BY <1>1, PlacedK
    <3>2. k = Len(R(1)) + 1
      BY <1>3, <1>11
    <3> HIDE DEF k
    <3>3. MovedOn(past, w, w.n, w.c, k)
      BY <3>1 DEF k
    <3> HIDE DEF past
    <3>4. QED
      BY <3>2, <3>3 DEF MovedOn
  <2> HIDE DEF past
  <2>3. Len(R(1)) \in Nat /\ Len(R(1)) + 1 > Len(R(1)) /\ Len(R(1)) + 1 \in 1 .. Len(R(1)) + 1
    <3>1. Len(R(1)) \in 0 .. N
      BY <1>5
    <3> HIDE DEF R
    <3>2. QED
      BY <1>7, <3>1
  <2>4. Walking(Scene, past)
    BY <1>1, <2>2 DEF Walking
  <2>5. Stands(Scene, past)
    BY <1>1, <1>11, <2>2, <2>3 DEF Stands
  <2>6. MovedTo(Scene, past, SelectNonEmpty(past, Home(Scene, past.proc, past.p)))
    <3>1. past.k > Len(Row(Scene, past.proc, past.p, 1))
      BY <2>2, <2>3
    <3>2. cells[past.proc] = Filled(Scene, past.proc)
      BY <2>2
    <3>3. QED
      BY <2>4, <2>5, <3>1, <3>2, NonEmptyIs
  <2>7. MovedTo(Scene, past, r)
    BY <2>1, <2>2, <2>6
  <2> HIDE DEF r
  <2>8. ASSUME NEW m, NEW l, G(m, l)
        PROVE  Earlier(m, l, past.n, past.k) <=> Earlier(m, l, w.n, w.k)
    <3>1. m \in 1 .. 5 /\ l \in 1 .. Len(R(m)) /\ Len(R(m)) \in 0 .. N
      BY <1>5, <2>8
    <3>2. m = 1 => ~(l >= w.k)
      <4>1. SUFFICES ASSUME m = 1, l >= w.k PROVE FALSE
        OBVIOUS
      <4>2. w.k \in Nat /\ l \in w.k .. Len(R(1))
        BY <1>1, <3>1, <4>1
      <4>3. l \in good
        BY <1>9, <1>11, <2>8, <4>1, <4>2
      <4>4. QED
        BY <1>11, <4>3
    <3>3. l \in Int /\ m \in Int /\ w.k \in Int /\ (m = 1 => l < Len(R(1)) + 1)
      BY <1>1, <2>3, <3>1
    <3>4. QED
      BY <1>11, <2>2, <3>1, <3>2, <3>3 DEF Earlier
  <2>9. QED
    BY <2>2, <2>7, <2>8 DEF MovedTo, r
<1>12. QED
  BY <1>8, <1>10, <1>11

-----------------------------------------------------------------------------
(* The invariant. *)

\* The walks up to w have passed the place.
Passed(w, P, i, n, k) ==
    \/ P < w.proc
    \/ P = w.proc /\ (i < w.p \/ (i = w.p /\ Earlier(n, k, w.n, w.k)))

MetPast(S, w, pair) ==
    \E P \in Procs, n \in 1 .. 5, k \in Nat : \E i \in 1 .. S.g_m[P] :
        Good(S, P, i, n, k) /\ Pair(S, P, i, n, k) = pair /\ Passed(w, P, i, n, k)

Pairs == {{p, q} : p, q \in Particles}

\* Each pair is counted once, when the place where it is met has been passed.
Counted(S, w, m) ==
    /\ m = [pair \in Pairs |-> m[pair]]
    /\ \A pair \in Pairs : m[pair] = IF MetPast(S, w, pair) THEN 1 ELSE 0

CellsOK(S, cs) ==
    /\ cs = [P \in Procs |-> cs[P]]
    /\ \A P \in Procs : cs[P] = <<>> \/ cs[P] = Filled(S, P)

WalkOK(S, w) == w.proc \in Procs /\ (w = Idle(w.proc) \/ Selected(S, w))

InvAt(S, cs, w, m) == SceneOK(S) /\ CellsOK(S, cs) /\ WalkOK(S, w) /\ Counted(S, w, m)

Inv == InvAt(Scene, cells, it, met)

\* What has been counted depends only on the places passed.
LEMMA CountedSame ==
  ASSUME NEW S, NEW w, NEW r, NEW m, Counted(S, w, m),
         \A P \in Procs, n \in 1 .. 5, k \in Nat : \A i \in 1 .. S.g_m[P] :
           Good(S, P, i, n, k) => (Passed(w, P, i, n, k) <=> Passed(r, P, i, n, k))
  PROVE  Counted(S, r, m)
<1>1. \A pair : MetPast(S, w, pair) <=> MetPast(S, r, pair)
  BY DEF MetPast
<1>2. QED
  BY <1>1 DEF Counted

LEMMA InitInv == Init => Inv
<1> SUFFICES ASSUME Init PROVE Inv
  OBVIOUS
<1>1. SceneOK(Scene)
  BY InitScene
<1>2. /\ cells = [P \in Procs |-> <<>>] /\ it = Idle(1)
      /\ met = [pair \in Pairs |-> 0]
  BY DEF Init, Pairs
<1>3. CellsOK(Scene, cells)
  BY <1>2 DEF CellsOK
<1>4. it.proc = 1 /\ it.p = 0 /\ it = Idle(it.proc) /\ it.proc \in Procs
  BY <1>2 DEF Idle, Procs
<1>5. WalkOK(Scene, it)
  BY <1>4 DEF WalkOK
<1>6. \A P \in Procs : \A n, k : \A i \in 1 .. Scene.g_m[P] : ~Passed(it, P, i, n, k)
  <2>1. ASSUME NEW P \in Procs, NEW n, NEW k, NEW i \in 1 .. Scene.g_m[P]
        PROVE  ~Passed(it, P, i, n, k)
    <3>1. P = 1 \/ P = 2
      BY DEF Procs
    <3>2. i \in Int /\ i >= 1
      BY <1>1 DEF SceneOK
    <3>3. QED
      BY <1>4, <3>1, <3>2 DEF Passed
  <2>2. QED
    BY <2>1
<1>7. \A pair : ~MetPast(Scene, it, pair)
  BY <1>6 DEF MetPast
<1>8. Counted(Scene, it, met)
  BY <1>2, <1>7 DEF Counted
<1>9. QED
  BY <1>1, <1>3, <1>5, <1>8 DEF Inv, InvAt

\* A walk is exhausted when it is past the stencil's five cells.
LEMMA WalkState ==
  ASSUME WellPosed, Inv
  PROVE  /\ it.proc \in Procs /\ IsWalk(it)
         /\ \/ /\ it = Idle(it.proc) /\ it.p = 0 /\ it.n = 0 /\ it.c = 0 /\ it.k = 0
               /\ ~Exhausted(it)
            \/ /\ Selected(Scene, it) /\ it.p # 0 /\ it.p \in 1 .. Scene.g_m[it.proc]
               /\ Exhausted(it) => it.n = 6
               /\ ~Exhausted(it) => Stands(Scene, it) /\ Good(Scene, it.proc, it.p, it.n, it.k)
<1>1. SceneOK(Scene) /\ it.proc \in Procs /\ (it = Idle(it.proc) \/ Selected(Scene, it))
  BY DEF Inv, InvAt, WalkOK
<1>2. Len(Stencil[it.proc]) = 5
  <2>1. Stencil[it.proc] = Step(Scene, it.proc) /\ Scene.split \in Splits
    BY <1>1, SceneIs DEF SceneOK
  <2>2. QED
    BY <1>1, <2>1, StepIs
<1>3. Exhausted(it) <=> it.n > 5
  BY <1>2 DEF Exhausted
<1>4. CASE it = Idle(it.proc)
  <2>1. /\ it.p = 0 /\ it.n = 0 /\ it.c = 0 /\ it.k = 0
    BY <1>4 DEF Idle
  <2>2. IsWalk(it)
    <3> DEFINE P == it.proc
    <3> HIDE DEF P
    <3>1. it = [proc |-> P, p |-> 0, n |-> 0, c |-> 0, k |-> 0]
      BY <1>4 DEF Idle, P
    <3>2. QED
      BY <3>1 DEF IsWalk, WalkFields
  <2>3. QED
    BY <1>1, <1>3, <1>4, <2>1, <2>2
<1>5. CASE Selected(Scene, it)
  <2>1. /\ IsWalk(it) /\ it.p \in 1 .. Scene.g_m[it.proc]
        /\ it.n = 6 \/ (Stands(Scene, it) /\ Good(Scene, it.proc, it.p, it.n, it.k))
    BY <1>5 DEF Selected, Walking
  <2>2. Stands(Scene, it) => it.n \in 1 .. 5
    BY DEF Stands
  <2>3. it.p # 0
    <3>1. Scene.g_m[it.proc] \in Int
      BY <1>1 DEF SceneOK
    <3>2. QED
      BY <2>1, <3>1
  <2>4. QED
    BY <1>1, <1>3, <1>5, <2>1, <2>2, <2>3
<1>6. QED
  BY <1>1, <1>4, <1>5

LEMMA PopulateInv == ASSUME WellPosed, Inv, Populate PROVE Inv'
<1>1. /\ SceneOK(Scene) /\ CellsOK(Scene, cells) /\ WalkOK(Scene, it) /\ Counted(Scene, it, met)
      /\ it.proc \in Procs
  BY DEF Inv, InvAt, WalkOK
<1>2. /\ cells' = [cells EXCEPT ![it.proc] = Populated(it.proc)]
      /\ it' = it /\ met' = met /\ Scene' = Scene
  BY DEF Populate, input, Scene
<1>3. cells' = [cells EXCEPT ![it.proc] = Filled(Scene, it.proc)]
  BY <1>1, <1>2, SceneIs
<1>4. CellsOK(Scene, cells')
  BY <1>1, <1>3 DEF CellsOK
<1>5. InvAt(Scene, cells', it', met')
  BY <1>1, <1>2, <1>4 DEF InvAt
<1>6. QED
  BY <1>2, <1>5 DEF Inv

LEMMA OtherProcessorInv == ASSUME WellPosed, Inv, OtherProcessor PROVE Inv'
<1>1. /\ SceneOK(Scene) /\ CellsOK(Scene, cells) /\ Counted(Scene, it, met)
  BY DEF Inv, InvAt
<1>2. /\ it' = Idle(2) /\ cells' = cells /\ met' = met /\ Scene' = Scene
      /\ it.proc = 1 /\ it.p = g_m[1] /\ (it.p = 0 \/ Exhausted(it))
  BY DEF OtherProcessor, Finished, input, Scene
<1>3. it'.proc = 2 /\ it'.p = 0 /\ it' = Idle(it'.proc) /\ it'.proc \in Procs
  BY <1>2 DEF Idle, Procs
<1>4. WalkOK(Scene, it')
  BY <1>3 DEF WalkOK
<1>5. it.p = 0 \/ it.n = 6
  BY <1>2, WalkState
<1>6. ASSUME NEW P \in Procs, NEW n \in 1 .. 5, NEW k \in Nat, NEW i \in 1 .. Scene.g_m[P]
      PROVE  Passed(it, P, i, n, k) <=> Passed(it', P, i, n, k)
  <2>1. Scene.g_m[P] \in Nat /\ Scene.g_m = g_m /\ i \in Int /\ i >= 1 /\ i <= Scene.g_m[P]
    <3>1. Scene.g_m[P] \in Nat /\ Scene.g_m = g_m
      BY <1>1, SceneIs DEF SceneOK
    <3>2. QED
      BY <3>1
  <2>2. P = 1 \/ P = 2
    BY DEF Procs
  <2>3. CASE P = 1
    <3>1. Passed(it', P, i, n, k)
      BY <1>3, <2>3 DEF Passed
    <3>2. i = it.p => it.n = 6
      BY <1>5, <2>1
    <3>3. i < it.p \/ i = it.p
      BY <1>2, <2>1, <2>3
    <3>4. Passed(it, P, i, n, k)
      BY <1>2, <2>3, <3>2, <3>3 DEF Passed, Earlier
    <3>5. QED
      BY <3>1, <3>4
  <2>4. CASE P = 2
    <3>1. ~Passed(it', P, i, n, k)
      BY <1>3, <2>1, <2>4 DEF Passed
    <3>2. ~Passed(it, P, i, n, k)
      BY <1>2, <2>4 DEF Passed
    <3>3. QED
      BY <3>1, <3>2
  <2>5. QED
    BY <2>2, <2>3, <2>4
<1>7. Counted(Scene, it', met)
  <2> DEFINE r == it'
  <2>1. \A P \in Procs, n \in 1 .. 5, k \in Nat : \A i \in 1 .. Scene.g_m[P] :
          Good(Scene, P, i, n, k) => (Passed(it, P, i, n, k) <=> Passed(r, P, i, n, k))
    BY <1>6
  <2> HIDE DEF r
  <2>2. Counted(Scene, r, met)
    BY <1>1, <2>1, CountedSame
  <2>3. QED
    BY <2>2 DEF r
<1>8. InvAt(Scene, cells', it', met')
  BY <1>1, <1>2, <1>4, <1>7 DEF InvAt
<1>9. QED
  BY <1>2, <1>8 DEF Inv

\* The walk of a processor's own particle begins in the cell that holds it.
LEMMA HomeHolds ==
  ASSUME WellPosed, NEW S, SceneOK(S), NEW P \in Procs, NEW i \in 1 .. S.g_m[P]
  PROVE  /\ Home(S, P, i) \in Int /\ Home(S, P, i) + Step(S, P)[1] = Home(S, P, i)
         /\ Row(S, P, i, 1) = Content(S, P, Home(S, P, i)) /\ Len(Row(S, P, i, 1)) >= 1
<1> DEFINE x == X(S, P, i)
           g == Grid(S, P).gr2
           s == Row(S, P, i, 1)
<1>1. i \in 1 .. Len(S.v[P]) /\ S.split \in Splits
  <2>1. S.v[P] \in Seq(Particles) /\ S.g_m[P] \in 0 .. Len(S.v[P]) /\ S.split \in Splits
    BY DEF SceneOK
  <2>2. QED
    BY <2>1
<1>2. x \in Points /\ Near(S, P, x) /\ Home(S, P, i) = LinId(g, Key(S, P, x))
  BY <1>1, PutIs
<1>3. \A d \in D : g[d] \in Nat /\ Key(S, P, x)[d] \in 0 .. g[d] - 1
  <2> HIDE DEF x
  <2>1. QED
    BY <1>1, <1>2, KeyIs
<1>4. Home(S, P, i) \in Int
  <2> DEFINE a == Key(S, P, x)[1]
             b == Key(S, P, x)[2]
             w == g[1]
  <2>1. a \in Int /\ b \in Int /\ w \in Int
    BY <1>3 DEF D
  <2>2. Home(S, P, i) = a + w * b
    BY <1>2 DEF LinId
  <2> HIDE DEF a, b, w
  <2>3. QED
    BY <2>1, <2>2
<1>5. Step(S, P)[1] = 0
  <2>1. 1 \in 1 .. 5
    OBVIOUS
  <2>2. Step(S, P)[1] \in Int /\ (Step(S, P)[1] = 0 <=> 1 = 1)
    BY <1>1, <2>1, StepIs
  <2>3. QED
    BY <2>2
<1>6. Home(S, P, i) + Step(S, P)[1] = Home(S, P, i)
  BY <1>4, <1>5
<1>7. s = Content(S, P, Home(S, P, i))
  BY <1>6 DEF Row
<1>8. Aside(x, x, 1)
  <2>1. Q(x, 1) \in Int /\ Q(x, 2) \in Int
    BY <1>2, QIs DEF InCell, D
  <2>2. QED
    BY <2>1 DEF Aside, Across, Up
<1>9. Holds(S, P, i, 1, s)
  <2>1. 1 \in 1 .. 5
    OBVIOUS
  <2>2. QED
    BY <2>1, RowHolds
<1> HIDE DEF s
<1>10. PICK k \in 1 .. Len(s) : s[k] = i
  BY <1>1, <1>8, <1>9 DEF Holds
<1>11. Len(s) \in 0 .. N /\ N \in Nat
  BY <1>9, SymAssumption DEF Holds
<1>12. Len(s) >= 1
  BY <1>10, <1>11
<1>13. QED
  BY <1>4, <1>6, <1>7, <1>12 DEF s

LEMMA NextParticleInv == ASSUME WellPosed, Inv, NextParticle PROVE Inv'
<1> DEFINE P == it.proc
           i == it.p + 1
           first == [it EXCEPT !.p = it.p + 1, !.n = 1, !.k = 1,
                               !.c = GetCell(Dec[it.proc], At(it.proc, it.p + 1))]
           G(m, l) == Good(Scene, P, i, m, l)
<1>1. /\ SceneOK(Scene) /\ CellsOK(Scene, cells) /\ Counted(Scene, it, met) /\ P \in Procs
      /\ IsWalk(it)
  BY WalkState DEF Inv, InvAt
<1>2. /\ cells[P] # <<>> /\ (it.p = 0 \/ Exhausted(it)) /\ it.p < g_m[P]
      /\ it' = SelectValid(SelectNonEmpty(first, first.c), first.c)
      /\ cells' = cells /\ met' = met /\ Scene' = Scene
  BY DEF NextParticle, input, Scene
<1>3. cells[P] = Filled(Scene, P)
  BY <1>1, <1>2 DEF CellsOK
<1>4. /\ Scene.g_m = g_m /\ Stencil[P] = Step(Scene, P)
      /\ GetCell(Dec[P], At(P, i)) = Home(Scene, P, i)
      /\ \A c : Cell(P, c) = Content(Scene, P, c)
  BY <1>1, <1>3, SceneIs
<1>5. /\ i \in 1 .. Scene.g_m[P] /\ it.p \in Nat
  <2>1. Scene.g_m[P] \in Nat /\ it.p < Scene.g_m[P]
    <3>1. Scene.g_m[P] \in 0 .. Len(Scene.v[P])
      BY <1>1 DEF SceneOK
    <3>2. QED
      BY <1>2, <1>4, <3>1
  <2>2. it.p = 0 \/ it.p \in 1 .. Scene.g_m[P]
    BY WalkState
  <2>3. QED
    BY <2>1, <2>2
<1>6. /\ IsWalk(first) /\ first.proc = P /\ first.p = i /\ first.n = 1 /\ first.k = 1
      /\ first.c = Home(Scene, P, i)
  <2> DEFINE h == Home(Scene, P, i)
  <2>1. first = [it EXCEPT !.p = it.p + 1, !.n = 1, !.k = 1, !.c = h]
    BY <1>4
  <2> HIDE DEF first, h
  <2>2. IsWalk(first) /\ first.proc = it.proc /\ first.p = it.p + 1 /\ first.n = 1 /\ first.k = 1 /\ first.c = h
    BY <1>1, <2>1 DEF IsWalk, WalkFields
  <2>3. QED
    BY <2>2 DEF h
<1> HIDE DEF first
<1>7. /\ Home(Scene, P, i) + Step(Scene, P)[1] = Home(Scene, P, i)
      /\ Row(Scene, P, i, 1) = Content(Scene, P, Home(Scene, P, i))
      /\ Len(Row(Scene, P, i, 1)) >= 1
  BY <1>1, <1>5, HomeHolds
<1>8. SelectNonEmpty(first, first.c) = first
  <2>1. Cell(P, first.c) = Row(Scene, P, i, 1)
    BY <1>4, <1>6, <1>7
  <2>2. 1 <= Len(Row(Scene, P, i, 1))
    <3>1. Len(Row(Scene, P, i, 1)) \in 0 .. N /\ N \in Nat
      BY <1>1, <1>5, RowsOf, SymAssumption
    <3>2. QED
      BY <1>7, <3>1
  <2>3. first.k <= Len(Cell(first.proc, first.c))
    BY <1>6, <2>1, <2>2
  <2>4. QED
    BY <2>3 DEF SelectNonEmpty
<1>9. Walking(Scene, first) /\ Stands(Scene, first)
  <2>1. 1 \in 1 .. Len(Row(Scene, P, i, 1)) + 1 /\ 1 \in 1 .. 5
    <3>1. Len(Row(Scene, P, i, 1)) \in 0 .. N /\ N \in Nat
      BY <1>1, <1>5, RowsOf, SymAssumption
    <3>2. QED
      BY <1>7, <3>1
  <2>2. QED
    BY <1>1, <1>5, <1>6, <1>7, <2>1 DEF Walking, Stands
<1>10. MovedTo(Scene, first, it')
  <2>1. cells[first.proc] = Filled(Scene, first.proc)
    BY <1>3, <1>6
  <2>2. MovedTo(Scene, first, SelectValid(first, Home(Scene, first.proc, first.p)))
    BY <1>1, <1>9, <2>1, SelectIs
  <2>3. it' = SelectValid(first, Home(Scene, first.proc, first.p))
    BY <1>2, <1>6, <1>8
  <2>4. QED
    BY <2>2, <2>3
<1> DEFINE r == it'
<1> HIDE DEF r, i
<1>11. /\ Selected(Scene, r) /\ r.proc = P /\ r.p = i
       /\ \A m, l : G(m, l) => (Earlier(m, l, r.n, r.k) <=> Earlier(m, l, 1, 1))
  BY <1>6, <1>10 DEF MovedTo, r
<1>12. WalkOK(Scene, r)
  BY <1>1, <1>11 DEF WalkOK
<1>13. ASSUME NEW R \in Procs, NEW n \in 1 .. 5, NEW k \in Nat, NEW j \in 1 .. Scene.g_m[R],
              Good(Scene, R, j, n, k)
       PROVE  Passed(it, R, j, n, k) <=> Passed(r, R, j, n, k)
  <2>1. it.p # 0 => it.n = 6
    BY <1>2, WalkState
  <2>2. i = it.p + 1 /\ it.p \in Nat /\ j \in Nat /\ j >= 1 /\ n <= 5 /\ n >= 1 /\ k >= 1
    <3>1. Scene.g_m[R] \in Nat
      BY <1>1 DEF SceneOK
    <3>2. k >= 1
      BY <1>13 DEF Good
    <3>3. QED
      BY <1>5, <3>1, <3>2 DEF i
  <2>3. j = i /\ R = P => ~Earlier(n, k, r.n, r.k)
    <3>1. ~Earlier(n, k, 1, 1)
      BY <2>2 DEF Earlier
    <3>2. QED
      BY <1>11, <1>13, <3>1
  <2>4. R < P <=> R < r.proc
    BY <1>11
  <2>5. CASE R # P
    BY <1>11, <2>5 DEF Passed
  <2>6. CASE R = P
    <3>1. ~(R < P) /\ ~(R < r.proc) /\ R = r.proc
      BY <1>11, <2>6 DEF Procs
    <3>2. CASE j < it.p
      BY <1>11, <2>2, <2>6, <3>2 DEF Passed
    <3>3. CASE j = it.p
      <4>1. it.n = 6
        BY <2>1, <2>2, <3>3
      <4>2. Passed(it, R, j, n, k)
        BY <2>2, <2>6, <3>3, <4>1 DEF Passed, Earlier
      <4>3. Passed(r, R, j, n, k)
        BY <1>11, <2>2, <2>6, <3>3 DEF Passed
      <4>4. QED
        BY <4>2, <4>3
    <3>4. CASE j > it.p
      <4>1. ~Passed(it, R, j, n, k)
        BY <2>2, <2>6, <3>1, <3>4 DEF Passed
      <4>2. ~Passed(r, R, j, n, k)
        BY <1>11, <2>2, <2>3, <2>6, <3>1, <3>4 DEF Passed
      <4>3. QED
        BY <4>1, <4>2
    <3>5. QED
      BY <2>2, <3>2, <3>3, <3>4
  <2>7. QED
    BY <2>5, <2>6
<1>14. Counted(Scene, r, met)
  BY <1>1, <1>13, CountedSame
<1>15. InvAt(Scene, cells', it', met')
  BY <1>1, <1>2, <1>12, <1>14 DEF InvAt, r
<1>16. QED
  BY <1>2, <1>15 DEF Inv

\* The place a walk stands at is the one it passes with its next step, and the
\* pair met there has not been met before.
LEMMA MeetInv == ASSUME WellPosed, Inv, Meet PROVE Inv'
<1> DEFINE P == it.proc
           i == it.p
           q == Cell(P, it.c)[it.k]
           pair0 == {v[P][i], v[P][q]}
           next == [it EXCEPT !.k = @ + 1]
           G(R, j, m, l) == Good(Scene, R, j, m, l)
<1>1. /\ SceneOK(Scene) /\ CellsOK(Scene, cells) /\ Counted(Scene, it, met) /\ P \in Procs
      /\ IsWalk(it)
  BY WalkState DEF Inv, InvAt
<1>2. /\ cells[P] # <<>> /\ i # 0 /\ ~Exhausted(it)
      /\ met' = [met EXCEPT ![pair0] = @ + 1]
      /\ it' = SelectValid(next, Centre(it))
      /\ cells' = cells /\ Scene' = Scene
  BY DEF Meet, input, Scene
<1>3. /\ Selected(Scene, it) /\ i \in 1 .. Scene.g_m[P]
      /\ Stands(Scene, it) /\ G(P, i, it.n, it.k)
  BY <1>2, WalkState
<1>4. cells[P] = Filled(Scene, P)
  BY <1>1, <1>2 DEF CellsOK
<1>5. /\ Scene.v = v /\ Centre(it) = Home(Scene, P, i)
      /\ \A c : Cell(P, c) = Content(Scene, P, c)
  BY <1>1, <1>4, SceneIs DEF Centre
<1>6. /\ it.n \in 1 .. 5 /\ it.k \in 1 .. Len(Row(Scene, P, i, it.n))
      /\ q = Row(Scene, P, i, it.n)[it.k]
      /\ Len(Row(Scene, P, i, it.n)) \in 0 .. N
  <2>1. it.n \in 1 .. 5 /\ it.k \in 1 .. Len(Row(Scene, P, i, it.n))
    BY <1>3 DEF Good
  <2>2. q = Row(Scene, P, i, it.n)[it.k]
    BY <1>3, <1>5 DEF Stands, Row
  <2>3. Len(Row(Scene, P, i, it.n)) \in 0 .. N
    BY <1>1, <1>3, <2>1, RowsOf
  <2>4. QED
    BY <2>1, <2>2, <2>3
<1>7. pair0 = Pair(Scene, P, i, it.n, it.k)
  BY <1>5, <1>6 DEF Pair
<1>8. pair0 \in Pairs
  <2> DEFINE s == Row(Scene, P, i, it.n)
             k == it.k
  <2>1. Holds(Scene, P, i, it.n, s)
    BY <1>1, <1>3, <1>6, RowHolds
  <2>2. k \in 1 .. Len(s) /\ q = s[k]
    BY <1>6
  <2> HIDE DEF s, k, q
  <2>3. s \in Seq(1 .. Len(v[P]))
    BY <1>5, <2>1 DEF Holds
  <2>4. q \in 1 .. Len(v[P])
    BY <2>2, <2>3
  <2>5. v[P] \in Seq(Particles) /\ Scene.g_m[P] \in 0 .. Len(v[P])
    BY <1>1, <1>5 DEF SceneOK
  <2>6. v[P][i] \in Particles /\ v[P][q] \in Particles
    BY <1>3, <2>4, <2>5
  <2>7. QED
    BY <2>6 DEF Pairs
<1>9. MovedOn(next, it, it.n, it.c, it.k + 1)
  <2> DEFINE a == it.k + 1
  <2>1. next = [it EXCEPT !.k = a]
    OBVIOUS
  <2> HIDE DEF a, next
  <2>2. MovedOn(next, it, it.n, it.c, a)
    BY <1>1, <2>1, PlacedK
  <2>3. QED
    BY <2>2 DEF a
<1> HIDE DEF next, pair0, q
<1>10. Walking(Scene, next) /\ Stands(Scene, next)
  <2>1. it.k + 1 \in 1 .. Len(Row(Scene, P, i, it.n)) + 1
    BY <1>6
  <2>2. QED
    BY <1>1, <1>3, <1>9, <2>1 DEF Walking, Stands, MovedOn
<1>11. MovedTo(Scene, next, it')
  <2>1. next.proc = P /\ next.p = i
    BY <1>9 DEF MovedOn
  <2>2. MovedTo(Scene, next, SelectValid(next, Home(Scene, next.proc, next.p)))
    BY <1>1, <1>4, <1>10, <2>1, SelectIs
  <2>3. QED
    BY <1>2, <1>5, <2>1, <2>2
<1> DEFINE r == it'
           mm == met'
<1> HIDE DEF r, mm
<1>12. /\ Selected(Scene, r) /\ r.proc = P /\ r.p = i
       /\ \A m, l : G(P, i, m, l) => (Earlier(m, l, r.n, r.k) <=> Earlier(m, l, it.n, it.k + 1))
  BY <1>9, <1>11 DEF MovedTo, MovedOn, r
<1>13. WalkOK(Scene, r)
  BY <1>1, <1>12 DEF WalkOK
<1>14. ASSUME NEW R \in Procs, NEW n \in 1 .. 5, NEW k \in Nat, NEW j \in 1 .. Scene.g_m[R],
              G(R, j, n, k)
       PROVE  Passed(r, R, j, n, k) <=>
                Passed(it, R, j, n, k) \/ (R = P /\ j = i /\ n = it.n /\ k = it.k)
  <2>1. CASE R = P /\ j = i
    <3>1. Earlier(n, k, r.n, r.k) <=> Earlier(n, k, it.n, it.k + 1)
      BY <1>12, <1>14, <2>1
    <3>2. it.k \in Int /\ k \in Int
      BY <1>6
    <3>3. Earlier(n, k, it.n, it.k + 1) <=> Earlier(n, k, it.n, it.k) \/ (n = it.n /\ k = it.k)
      BY <3>2 DEF Earlier
    <3>4. P \in Int /\ i \in Int
      BY <1>1, <1>3 DEF Procs
    <3>5. /\ Passed(r, R, j, n, k) <=> Earlier(n, k, r.n, r.k)
          /\ Passed(it, R, j, n, k) <=> Earlier(n, k, it.n, it.k)
      BY <1>12, <2>1, <3>4 DEF Passed
    <3>6. QED
      BY <2>1, <3>1, <3>3, <3>5
  <2>2. CASE ~(R = P /\ j = i)
    BY <1>12, <2>2 DEF Passed
  <2>3. QED
    BY <2>1, <2>2
<1>15. ~MetPast(Scene, it, pair0)
  <2>1. SUFFICES ASSUME NEW R \in Procs, NEW n \in 1 .. 5, NEW k \in Nat, NEW j \in 1 .. Scene.g_m[R],
                        G(R, j, n, k), Pair(Scene, R, j, n, k) = pair0, Passed(it, R, j, n, k)
                 PROVE  FALSE
    BY DEF MetPast
  <2>2. Pair(Scene, R, j, n, k) = Pair(Scene, P, i, it.n, it.k)
    BY <1>7, <2>1
  <2>3. R = P /\ j = i /\ n = it.n /\ k = it.k
    BY <1>1, <1>3, <2>1, <2>2, OnePlace
  <2>4. P \in Int /\ i \in Int /\ n \in Int /\ k \in Int
    BY <1>1, <1>3 DEF Procs
  <2>5. QED
    BY <2>1, <2>3, <2>4 DEF Passed, Earlier
<1>16. ASSUME NEW pair
       PROVE  MetPast(Scene, r, pair) <=> MetPast(Scene, it, pair) \/ pair = pair0
  <2>1. ASSUME MetPast(Scene, r, pair) PROVE MetPast(Scene, it, pair) \/ pair = pair0
    <3>1. PICK R \in Procs, n \in 1 .. 5, k \in Nat : \E j \in 1 .. Scene.g_m[R] :
            G(R, j, n, k) /\ Pair(Scene, R, j, n, k) = pair /\ Passed(r, R, j, n, k)
      BY <2>1 DEF MetPast
    <3>2. PICK j \in 1 .. Scene.g_m[R] :
            G(R, j, n, k) /\ Pair(Scene, R, j, n, k) = pair /\ Passed(r, R, j, n, k)
      BY <3>1
    <3>3. Passed(it, R, j, n, k) \/ (R = P /\ j = i /\ n = it.n /\ k = it.k)
      BY <1>14, <3>2
    <3>4. CASE Passed(it, R, j, n, k)
      BY <3>2, <3>4 DEF MetPast
    <3>5. CASE R = P /\ j = i /\ n = it.n /\ k = it.k
      BY <1>7, <3>2, <3>5
    <3>6. QED
      BY <3>3, <3>4, <3>5
  <2>2. ASSUME MetPast(Scene, it, pair) PROVE MetPast(Scene, r, pair)
    <3>1. PICK R \in Procs, n \in 1 .. 5, k \in Nat : \E j \in 1 .. Scene.g_m[R] :
            G(R, j, n, k) /\ Pair(Scene, R, j, n, k) = pair /\ Passed(it, R, j, n, k)
      BY <2>2 DEF MetPast
    <3>2. PICK j \in 1 .. Scene.g_m[R] :
            G(R, j, n, k) /\ Pair(Scene, R, j, n, k) = pair /\ Passed(it, R, j, n, k)
      BY <3>1
    <3>3. Passed(r, R, j, n, k)
      BY <1>14, <3>2
    <3>4. QED
      BY <3>2, <3>3 DEF MetPast
  <2>3. ASSUME pair = pair0 PROVE MetPast(Scene, r, pair)
    <3>1. it.n \in 1 .. 5 /\ it.k \in Nat
      BY <1>6
    <3>2. Passed(r, P, i, it.n, it.k)
      BY <1>1, <1>3, <1>14, <3>1
    <3>3. QED
      BY <1>1, <1>3, <1>7, <2>3, <3>1, <3>2 DEF MetPast
  <2>4. QED
    BY <2>1, <2>2, <2>3
<1>17. Counted(Scene, r, mm)
  <2>1. /\ met = [pair \in Pairs |-> met[pair]]
        /\ \A pair \in Pairs : met[pair] = IF MetPast(Scene, it, pair) THEN 1 ELSE 0
    BY <1>1 DEF Counted
  <2>2. mm = [met EXCEPT ![pair0] = @ + 1]
    BY <1>2 DEF mm
  <2>3. mm = [pair \in Pairs |-> mm[pair]]
    BY <2>1, <2>2
  <2>4. \A pair \in Pairs : mm[pair] = IF pair = pair0 THEN met[pair] + 1 ELSE met[pair]
    BY <2>1, <2>2
  <2>5. ASSUME NEW pair \in Pairs PROVE mm[pair] = IF MetPast(Scene, r, pair) THEN 1 ELSE 0
    <3>1. CASE pair = pair0
      <4>1. met[pair] = 0 /\ MetPast(Scene, r, pair)
        BY <1>15, <1>16, <2>1, <3>1
      <4>2. QED
        BY <2>4, <3>1, <4>1
    <3>2. CASE pair # pair0
      BY <1>16, <2>1, <2>4, <3>2
    <3>3. QED
      BY <3>1, <3>2
  <2>6. QED
    BY <2>3, <2>5 DEF Counted
<1>18. InvAt(Scene, cells', it', met')
  BY <1>1, <1>2, <1>13, <1>17 DEF InvAt, r, mm
<1>19. QED
  BY <1>2, <1>18 DEF Inv

LEMMA NextInv == ASSUME WellPosed, Inv, [Next]_vars PROVE Inv'
<1>1. CASE Next
  BY <1>1, PopulateInv, NextParticleInv, MeetInv, OtherProcessorInv DEF Next
<1>2. CASE UNCHANGED vars
  <2>1. Scene' = Scene /\ cells' = cells /\ it' = it /\ met' = met
    BY <1>2 DEF vars, input, Scene
  <2>2. InvAt(Scene, cells', it', met')
    BY <2>1 DEF Inv
  <2>3. QED
    BY <2>1, <2>2 DEF Inv
<1>3. QED
  BY <1>1, <1>2

\* When both processors have finished, every place has been passed.
LEMMA DonePassed ==
  ASSUME WellPosed, Inv, Done, NEW P \in Procs, NEW n \in 1 .. 5, NEW k \in Nat,
         NEW i \in 1 .. Scene.g_m[P]
  PROVE  Passed(it, P, i, n, k)
<1>1. it.proc = 2 /\ it.p = Scene.g_m[2] /\ (it.p = 0 \/ Exhausted(it))
  BY SceneIs DEF Done, Finished
<1>2. it.p = 0 \/ it.n = 6
  BY <1>1, WalkState
<1>3. Scene.g_m[P] \in Nat /\ i \in Int /\ 1 <= i /\ i <= Scene.g_m[P]
  <2>1. Scene.g_m[P] \in Nat
    BY DEF Inv, InvAt, SceneOK
  <2>2. QED
    BY <2>1
<1>4. CASE P = 1
  BY <1>1, <1>4 DEF Passed
<1>5. CASE P = 2
  <2>1. it.n = 6
    BY <1>1, <1>2, <1>3, <1>5
  <2>2. i < it.p \/ i = it.p
    BY <1>1, <1>3, <1>5
  <2>3. QED
    BY <1>1, <1>5, <2>1, <2>2 DEF Passed, Earlier
<1>6. QED
  BY <1>4, <1>5 DEF Procs

LEMMA InvPairOnce == ASSUME WellPosed, Inv PROVE EachPairOnce
<1>1. /\ SceneOK(Scene) /\ Scene.pos = pos
      /\ \A pair \in Pairs : met[pair] = IF MetPast(Scene, it, pair) THEN 1 ELSE 0
  BY SceneIs DEF Inv, InvAt, Counted
<1>2. ASSUME NEW p \in Particles, NEW q \in Particles
      PROVE  /\ met[{p, q}] <= 1
             /\ Done /\ Interact(pos[p], pos[q]) => met[{p, q}] = 1
  <2>1. {p, q} \in Pairs
    BY DEF Pairs
  <2>2. met[{p, q}] = IF MetPast(Scene, it, {p, q}) THEN 1 ELSE 0
    BY <1>1, <2>1
  <2>3. ASSUME Done, Interact(pos[p], pos[q]) PROVE MetPast(Scene, it, {p, q})
    <3>1. Met(Scene, p, q)
      BY <1>1, <2>3, AllMet
    <3>2. PICK P \in Procs, n \in 1 .. 5, k \in Nat : \E i \in 1 .. Scene.g_m[P] :
            Good(Scene, P, i, n, k) /\ Pair(Scene, P, i, n, k) = {p, q}
      BY <3>1 DEF Met
    <3>3. PICK i \in 1 .. Scene.g_m[P] :
            Good(Scene, P, i, n, k) /\ Pair(Scene, P, i, n, k) = {p, q}
      BY <3>2
    <3>4. Passed(it, P, i, n, k)
      BY <2>3, DonePassed
    <3>5. QED
      BY <3>3, <3>4 DEF MetPast
  <2>4. QED
    BY <2>2, <2>3
<1>3. QED
  BY <1>2 DEF EachPairOnce

\* What the cells hold when they are filled.
LEMMA FilledType ==
  ASSUME WellPosed, NEW S, SceneOK(S), NEW P \in Procs
  PROVE  Filled(S, P) \in [Cells(Grid(S, P)) -> Seq(DOMAIN S.v[P])]
<1> DEFINE C == Cells(Grid(S, P))
           F == Filled(S, P)
<1>1. F = [c \in C |-> F[c]]
  BY DEF Filled
<1>2. ASSUME NEW c \in C PROVE F[c] \in Seq(DOMAIN S.v[P])
  <2>1. Content(S, P, c) \in Seq(1 .. Len(S.v[P]))
    BY <1>2, FilledIs
  <2>2. Content(S, P, c) = F[c]
    BY <1>1, <1>2 DEF Content
  <2>3. S.v[P] \in Seq(Particles)
    BY DEF SceneOK
  <2>4. DOMAIN S.v[P] = 1 .. Len(S.v[P])
    BY <2>3
  <2>5. QED
    BY <2>1, <2>2, <2>4
<1> HIDE DEF F, C
<1>3. QED
  BY <1>1, <1>2 DEF F, C

\* Every list has a cell.
LEMMA CellZero == ASSUME WellPosed, NEW S, S.split \in Splits, NEW P \in Procs PROVE 0 \in Cells(Grid(S, P))
<1> DEFINE g == Grid(S, P).gr2
<1>1. ASSUME NEW i \in D PROVE g[i] \in Nat /\ g[i] >= 3
  <2>1. PICK a \in Nat, b \in Nat : Apt(Pad, Grid(S, P), Part(P, S.split), i, Outer.div[i], a, b)
    BY GridIs
  <2>2. a < b /\ g[i] = b - a + 2 * Pad /\ Pad \in Nat \ {0}
    BY <2>1, SymAssumption DEF Apt, Fits
  <2> HIDE DEF g
  <2>3. QED
    BY <2>2
<1> HIDE DEF g
<1>2. g[1] * g[2] \in Nat /\ g[1] * g[2] >= 1
  <2>1. 1 \in D /\ 2 \in D
    BY DEF D
  <2>2. \A a, b \in Nat : a >= 1 /\ b >= 1 => a * b \in Nat /\ a * b >= 1
    OBVIOUS
  <2>3. QED
    BY <1>1, <2>1, <2>2
<1>3. 0 \in 0 .. g[1] * g[2] - 1
  BY <1>2
<1>4. QED
  BY <1>3 DEF Cells, g

LEMMA InvWalkInCells == ASSUME WellPosed, Inv PROVE WalkInCells
<1>1. /\ SceneOK(Scene) /\ CellsOK(Scene, cells) /\ Counted(Scene, it, met) /\ it.proc \in Procs
      /\ IsWalk(it)
  BY WalkState DEF Inv, InvAt
<1>2. /\ Scene.split = split /\ Scene.pos = pos /\ Scene.v = v /\ Scene.g_m = g_m
      /\ \A P \in Procs : Dec[P] = Grid(Scene, P) /\ Stencil[P] = Step(Scene, P)
      /\ \A i : GetCell(Dec[it.proc], At(it.proc, i)) = Home(Scene, it.proc, i)
  BY <1>1, SceneIs
<1>3. split \in Splits /\ pos \in [Particles -> Points]
  BY <1>1, <1>2 DEF SceneOK
<1>4. ASSUME NEW P \in Procs
      PROVE  /\ v[P] \in Seq(Particles)
             /\ g_m[P] \in 0 .. Len(v[P])
             /\ cells[P] # <<>> => cells[P] \in [Cells(Dec[P]) -> Seq(DOMAIN v[P])]
  <2>1. v[P] \in Seq(Particles) /\ g_m[P] \in 0 .. Len(v[P])
    BY <1>1, <1>2 DEF SceneOK
  <2>2. ASSUME cells[P] # <<>> PROVE cells[P] \in [Cells(Dec[P]) -> Seq(DOMAIN v[P])]
    <3>1. cells[P] = Filled(Scene, P)
      BY <1>1, <2>2 DEF CellsOK
    <3>2. QED
      BY <1>1, <1>2, <3>1, FilledType
  <2>3. QED
    BY <2>1, <2>2
<1>5. N \in Nat /\ Len(v[it.proc]) \in 0 .. N
  BY <1>1, <1>2, VectorLen, SymAssumption
<1>6. /\ it.p \in 0 .. N /\ it.n \in 0 .. 6 /\ it.k \in 0 .. N + 1
      /\ it.c \in Cells(Dec[it.proc]) /\ it.p <= g_m[it.proc]
  <2>1. g_m[it.proc] \in 0 .. N
    BY <1>1, <1>4, <1>5
  <2>2. CASE it.p = 0 /\ it.n = 0 /\ it.c = 0 /\ it.k = 0
    <3>1. 0 \in Cells(Dec[it.proc])
      BY <1>1, <1>2, <1>3, CellZero
    <3>2. QED
      BY <1>5, <2>1, <2>2, <3>1
  <2>3. CASE Selected(Scene, it) /\ it.p \in 1 .. Scene.g_m[it.proc]
    <3>1. it.c \in Cells(Dec[it.proc]) /\ it.k \in 1 .. N + 1
      BY <1>1, <1>2, <2>3 DEF Selected
    <3>2. it.n \in 0 .. 6
      <4>1. it.n = 6 \/ it.n \in 1 .. 5
        BY <2>3 DEF Selected, Stands
      <4>2. QED
        BY <4>1
    <3>3. QED
      BY <1>2, <1>5, <2>1, <2>3, <3>1, <3>2
  <2>4. QED
    BY <2>2, <2>3, WalkState
<1>7. it \in [proc : Procs, p : 0 .. N, n : 0 .. 6, k : 0 .. N + 1, c : Cells(Dec[it.proc])]
  <2> DEFINE P == it.proc
             a == it.p
             b == it.n
             c == it.c
             d == it.k
             C == Cells(Dec[it.proc])
  <2>1. it = [proc |-> P, p |-> a, n |-> b, c |-> c, k |-> d]
    BY <1>1, WalkIs
  <2>2. P \in Procs /\ a \in 0 .. N /\ b \in 0 .. 6 /\ d \in 0 .. N + 1 /\ c \in C
    BY <1>1, <1>6
  <2> HIDE DEF P, a, b, c, d, C
  <2>3. it \in [proc : Procs, p : 0 .. N, n : 0 .. 6, k : 0 .. N + 1, c : C]
    BY <2>1, <2>2
  <2>4. QED
    BY <2>3 DEF C
<1>8. met \in [DOMAIN met -> Nat]
  <2>1. /\ met = [pair \in Pairs |-> met[pair]]
        /\ \A pair \in Pairs : met[pair] = IF MetPast(Scene, it, pair) THEN 1 ELSE 0
    BY <1>1 DEF Counted
  <2>2. DOMAIN met = Pairs /\ \A pair \in Pairs : met[pair] \in Nat
    BY <2>1
  <2>3. met \in [Pairs -> Nat]
    BY <2>1, <2>2
  <2>4. QED
    BY <2>2, <2>3
<1>9. TypeOK
  BY <1>3, <1>4, <1>6, <1>7, <1>8 DEF TypeOK
<1>10. ASSUME it.p # 0, NEW j \in DOMAIN Stencil[it.proc]
       PROVE  Centre(it) + Stencil[it.proc][j] \in Cells(Dec[it.proc])
  <2>1. it.p \in 1 .. Scene.g_m[it.proc]
    BY <1>10, WalkState
  <2>2. Stencil[it.proc] = Step(Scene, it.proc) /\ DOMAIN Stencil[it.proc] = 1 .. 5
    BY <1>1, <1>2, <1>3, StepIs
  <2>3. j \in 1 .. 5
    BY <2>2
  <2>4. Home(Scene, it.proc, it.p) + Step(Scene, it.proc)[j] \in Cells(Grid(Scene, it.proc))
    BY <1>1, <2>1, <2>3, RowsOf
  <2>5. Centre(it) = Home(Scene, it.proc, it.p)
    BY <1>2 DEF Centre
  <2>6. QED
    BY <1>1, <1>2, <2>2, <2>4, <2>5
<1>11. QED
  BY <1>9, <1>10 DEF WalkInCells

-----------------------------------------------------------------------------
(* The theorems. *)

\* No pair is met twice, by one processor or by both, and when both have walked
\* over all their particles every pair that interacts has been met: the promise
\* of the symmetric iterator (CellNNIterator.hpp), for any two processors whose
\* decomposers were made from one.
THEOREM PairsMetOnce == WellPosed => (Spec => []EachPairOnce)
<1> SUFFICES ASSUME WellPosed PROVE Spec => []EachPairOnce
  OBVIOUS
<1>1. Init => Inv
  BY InitInv
<1>2. Inv /\ [Next]_vars => Inv'
  BY NextInv
<1>3. Inv => EachPairOnce
  BY InvPairOnce
<1>4. QED
  BY <1>1, <1>2, <1>3, PTL DEF Spec

\* The walks, and every cell they look into, are in the list that was filled,
\* whose padding is as deep as the stencil.
THEOREM WalksStayInCells == WellPosed => (Spec => []WalkInCells)
<1> SUFFICES ASSUME WellPosed PROVE Spec => []WalkInCells
  OBVIOUS
<1>1. Init => Inv
  BY InitInv
<1>2. Inv /\ [Next]_vars => Inv'
  BY NextInv
<1>3. Inv => WalkInCells
  BY InvWalkInCells
<1>4. QED
  BY <1>1, <1>2, <1>3, PTL DEF Spec

-----------------------------------------------------------------------------
(* Verlet lists: the cells around a part of space. *)

\* A dimension of a decomposer: the cells a to before b, of n of sides u from lo
\* on, cover the part of space from ol to oh, with P of padding.
Room(u, P, lo, n, a, b, ol, oh) ==
  /\ u \in Nat \ {0} /\ P \in Nat \ {0} /\ {n, a, b} \subseteq Nat /\ {lo, ol, oh} \subseteq Int
  /\ a < b /\ b <= n
  /\ lo + a * u <= ol /\ oh <= lo + b * u

RoomIn(d, own, i, n, a, b) ==
  /\ Room(d.unit[i], d.off, d.box.lo[i], n, a, b, own.lo[i], own.hi[i])
  /\ d.gr[i] = n + 2 * d.off /\ d.gr2[i] = b - a + 2 * d.off /\ d.shift[i] = a

Roomy(d, own) == \A i \in D : \E n, a, b \in Nat : RoomIn(d, own, i, n, a, b)

\* The cell q has y in it or on its upper border.
ClosedIn(y, q, u) == q \in Int /\ q * u <= y /\ y <= q * u + u

LEMMA FloorClosed ==
  ASSUME NEW u \in Nat \ {0}, NEW y \in Int
  PROVE  LET q == FloorCell(y, u)
         IN  /\ ClosedIn(y, q, u)
             /\ y >= 0 => InCell(y, q, u)
             /\ \A p \in Int : /\ y < p * u => q < p
                               /\ p * u < y => p <= q
                               /\ p * u <= y /\ y >= 0 => p <= q
<1> DEFINE q == FloorCell(y, u)
<1>1. CASE ~(y < 0 /\ y % u = 0)
  <2>1. InCell(y, q, u)
    BY <1>1, FloorCellIs
  <2>2. \A p \in Int : /\ p * u <= y => p <= q
                       /\ y < p * u => q < p
    BY <2>1, CellOrder
  <2> HIDE DEF q
  <2>3. \A p \in Int : p * u \in Int
    OBVIOUS
  <2>4. ClosedIn(y, q, u)
    BY <2>1, <2>3 DEF InCell, ClosedIn
  <2>5. \A p \in Int : p * u < y => p <= q
    BY <2>2, <2>3
  <2>6. QED
    BY <2>1, <2>2, <2>4, <2>5 DEF q
<1>2. CASE y < 0 /\ y % u = 0
  <2> DEFINE m == y \div u
             t == m * u
  <2>1. m \in Int /\ t \in Int /\ y = t
    BY <1>2, FloorFacts
  <2>2. q = m - 1
    BY <1>2 DEF FloorCell
  <2>3. (m - 1) * u = t - u
    BY <2>1
  <2>4. t = m * u
    OBVIOUS
  <2> HIDE DEF q, m, t
  <2>5. ClosedIn(y, q, u)
    BY <2>1, <2>2, <2>3 DEF ClosedIn
  <2>6. ASSUME NEW p \in Int PROVE /\ y < p * u => q < p
                                   /\ p * u < y => p <= q
    <3>1. p < m => p * u + u <= m * u
      BY <2>1, Mono
    <3>2. m < p => m * u + u <= p * u
      BY <2>1, Mono
    <3>3. p * u \in Int
      OBVIOUS
    <3>4. p = m => p * u = t
      BY <2>4
    <3>5. QED
      BY <2>1, <2>2, <2>4, <3>1, <3>2, <3>3, <3>4
  <2>7. QED
    BY <1>2, <2>5, <2>6 DEF q
<1>3. QED
  BY <1>1, <1>2

\* A point that is less than the padding away from the part of space is in the
\* cells.
LEMMA PointPlaced ==
  ASSUME NEW d, NEW own, NEW i \in D, NEW n, NEW a, NEW b, RoomIn(d, own, i, n, a, b),
         NEW x, x[i] \in Int,
         own.lo[i] - d.off * d.unit[i] < x[i], x[i] < own.hi[i] + d.off * d.unit[i]
  PROVE  LET y == x[i] - d.box.lo[i]
             q == FloorCell(y, d.unit[i])
         IN  /\ ClosedIn(y, q, d.unit[i])
             /\ ConvertToIDNs(d, x, i) = q + d.off
             /\ ConvertToID(d, x, i) = q + d.off - a
             /\ ConvertToID(d, x, i) \in 0 .. d.gr2[i] - 1
             /\ own.lo[i] <= x[i] /\ x[i] < own.hi[i] =>
                  /\ InCell(y, q, d.unit[i])
                  /\ ConvertToID(d, x, i) \in d.off .. d.gr2[i] - d.off - 1
                  /\ ConvertToIDNs(d, x, i) \in d.off .. d.gr[i] - d.off - 1
<1> DEFINE u == d.unit[i]
           P == d.off
           lo == d.box.lo[i]
           ol == own.lo[i]
           oh == own.hi[i]
           coord == x[i]
           y == coord - lo
           q == FloorCell(y, u)
           id == ConvertToIDNs(d, x, i)
           g == d.gr[i]
           s == d.gr2[i]
           h == d.shift[i]
           k == ConvertToID(d, x, i)
<1>1. /\ u \in Nat \ {0} /\ P \in Nat \ {0} /\ n \in Nat /\ a \in Nat /\ b \in Nat
      /\ lo \in Int /\ ol \in Int /\ oh \in Int /\ a < b /\ b <= n
      /\ lo + a * u <= ol /\ oh <= lo + b * u
      /\ g = n + 2 * P /\ s = b - a + 2 * P /\ h = a
  BY DEF RoomIn, Room
<1>2. coord \in Int /\ ol - P * u < coord /\ coord < oh + P * u
  OBVIOUS
<1>3. /\ id = IF q + P \in 0 .. g - 1 THEN q + P ELSE g - 1
      /\ k = id - h
  BY DEF ConvertToIDNs, ConvertToID
<1> HIDE DEF u, P, lo, ol, oh, coord, g, s, h, id, k
<1>4. y \in Int
  BY <1>1, <1>2
<1>5. /\ ClosedIn(y, q, u)
      /\ y >= 0 => InCell(y, q, u)
      /\ \A p \in Int : /\ y < p * u => q < p
                        /\ p * u < y => p <= q
                        /\ p * u <= y /\ y >= 0 => p <= q
  BY <1>1, <1>4, FloorClosed
<1> HIDE DEF q
<1>6. q \in Int
  BY <1>5 DEF ClosedIn
<1>7. /\ (a - P) * u = a * u - P * u /\ (b + P) * u = b * u + P * u
      /\ a * u \in Nat /\ b * u \in Nat /\ P * u \in Nat /\ a - P \in Int /\ b + P \in Int
  BY <1>1
<1>8. (a - P) * u < y /\ y < (b + P) * u
  BY <1>1, <1>2, <1>7
<1>9. a - P <= q /\ q < b + P
  BY <1>5, <1>7, <1>8
<1>10. q + P \in 0 .. g - 1 /\ id = q + P /\ k = q + P - a /\ k \in 0 .. s - 1
  BY <1>1, <1>3, <1>6, <1>9
<1>11. ASSUME ol <= coord, coord < oh
       PROVE  InCell(y, q, u) /\ k \in P .. s - P - 1 /\ id \in P .. g - P - 1
  <2>1. a * u <= y /\ y < b * u
    BY <1>1, <1>2, <1>7, <1>11
  <2>2. y >= 0
    BY <1>4, <1>7, <2>1
  <2>3. a <= q /\ q < b
    BY <1>1, <1>5, <2>1, <2>2
  <2>4. QED
    BY <1>1, <1>5, <1>6, <1>10, <2>2, <2>3
<1>12. QED
  BY <1>5, <1>10, <1>11 DEF q, u, P, lo, ol, oh, coord, g, s, h, id, k

\* The whole cells between two that hold a coordinate each are not longer than
\* what is between these.
LEMMA GapWithin ==
  ASSUME NEW u \in Nat \ {0}, NEW y \in Int, NEW z \in Int, NEW q, NEW p,
         InCell(y, q, u), ClosedIn(z, p, u), NEW a \in Nat, y - z \in -a .. a
  PROVE  /\ Gap(p - q) \in Nat /\ Gap(p - q) * u <= a
         /\ \A w \in Nat \ {0} : a < w * u => p - q \in -w .. w
<1>1. q \in Int /\ p \in Int /\ q * u \in Int /\ p * u \in Int
      /\ q * u <= y /\ y < q * u + u /\ p * u <= z /\ z <= p * u + u
  BY DEF InCell, ClosedIn
<1>2. ASSUME NEW s \in Nat, NEW w \in Nat \ {0}, s * u <= a, a < w * u PROVE s < w
  <2>1. w <= s => w * u <= s * u
    <3>1. w < s => w * u + u <= s * u
      BY Mono
    <3>2. w * u \in Int /\ s * u \in Int
      OBVIOUS
    <3>3. QED
      BY <3>1, <3>2
  <2>2. w * u \in Int /\ s * u \in Int
    OBVIOUS
  <2>3. QED
    BY <1>2, <2>1, <2>2
<1>3. CASE p = q
  <2>1. p - q = 0 /\ Gap(0) = 0 /\ 0 * u = 0
    BY <1>1, <1>3 DEF Gap
  <2>2. QED
    BY <2>1
<1>4. CASE q < p
  <2> DEFINE s == p - q - 1
  <2>1. s \in Nat /\ Gap(p - q) = s /\ p - q = s + 1
    BY <1>1, <1>4 DEF Gap
  <2>2. s * u = p * u - q * u - u
    BY <1>1
  <2> HIDE DEF s
  <2>3. s * u <= a
    BY <1>1, <2>2
  <2>4. QED
    BY <1>2, <2>1, <2>3
<1>5. CASE p < q
  <2> DEFINE s == q - p - 1
  <2>1. s \in Nat /\ Gap(p - q) = s /\ q - p = s + 1
    BY <1>1, <1>5 DEF Gap
  <2>2. s * u = q * u - p * u - u
    BY <1>1
  <2> HIDE DEF s
  <2>3. s * u <= a
    BY <1>1, <2>2
  <2>4. p - q = -(s + 1)
    BY <1>1, <2>1
  <2>5. QED
    BY <1>2, <2>1, <2>3, <2>4
<1>6. QED
  BY <1>1, <1>3, <1>4, <1>5

\* The cells of a point of the part of space and of one within r of it.
LEMMA KeysNear ==
  ASSUME NEW d, NEW own, Roomy(d, own), NEW i \in D, NEW x, NEW y, x[i] \in Int, y[i] \in Int,
         own.lo[i] <= x[i], x[i] < own.hi[i],
         NEW r \in Nat \ {0}, r <= d.off * d.unit[i], Abs(x[i] - y[i]) < r
  PROVE  LET k == ConvertToID(d, x, i)
             l == ConvertToID(d, y, i)
         IN  /\ k \in 0 .. d.gr2[i] - 1 /\ l \in 0 .. d.gr2[i] - 1
             /\ Gap(l - k) \in Nat /\ Gap(l - k) * d.unit[i] <= Abs(x[i] - y[i])
             /\ \A w \in Nat \ {0} : r <= w * d.unit[i] => l - k \in -w .. w
<1> DEFINE u == d.unit[i]
           P == d.off
           lo == d.box.lo[i]
           k == ConvertToID(d, x, i)
           l == ConvertToID(d, y, i)
           a == Abs(x[i] - y[i])
<1>1. PICK n \in Nat, f \in Nat, b \in Nat : RoomIn(d, own, i, n, f, b)
  BY DEF Roomy
<1>2. u \in Nat \ {0} /\ P \in Nat \ {0} /\ lo \in Int /\ own.lo[i] \in Int /\ own.hi[i] \in Int
  BY <1>1 DEF RoomIn, Room
<1>3. a \in Nat /\ x[i] - y[i] \in -a .. a
  BY AbsOf
<1>4. own.lo[i] - P * u < y[i] /\ y[i] < own.hi[i] + P * u
  <2> DEFINE z == P * u
  <2>1. r <= z /\ z \in Int /\ a < r
    BY <1>2
  <2> HIDE DEF z, a
  <2>2. QED
    BY <1>2, <1>3, <2>1 DEF z
<1>5. own.lo[i] - P * u < x[i] /\ x[i] < own.hi[i] + P * u
  <2> DEFINE z == P * u
  <2>1. r <= z /\ z \in Int
    BY <1>2
  <2> HIDE DEF z
  <2>2. QED
    BY <1>2, <2>1 DEF z
<1> DEFINE F(z) == FloorCell(z[i] - lo, u)
           q == F(x)
           p == F(y)
<1>6. ASSUME NEW z, z[i] \in Int, own.lo[i] - P * u < z[i], z[i] < own.hi[i] + P * u
      PROVE  /\ ClosedIn(z[i] - lo, F(z), u)
             /\ ConvertToID(d, z, i) = F(z) + P - f
             /\ ConvertToID(d, z, i) \in 0 .. d.gr2[i] - 1
             /\ own.lo[i] <= z[i] /\ z[i] < own.hi[i] => InCell(z[i] - lo, F(z), u)
  BY <1>1, <1>6, PointPlaced
<1> HIDE DEF F
<1>7. /\ InCell(x[i] - lo, q, u) /\ k = q + P - f /\ k \in 0 .. d.gr2[i] - 1
      /\ ClosedIn(y[i] - lo, p, u) /\ l = p + P - f /\ l \in 0 .. d.gr2[i] - 1
  BY <1>4, <1>5, <1>6
<1> HIDE DEF q, p
<1>8. q \in Int /\ p \in Int
  BY <1>7 DEF InCell, ClosedIn
<1>9. l - k = p - q
  BY <1>2, <1>7, <1>8
<1>10. x[i] - lo \in Int /\ y[i] - lo \in Int /\ (x[i] - lo) - (y[i] - lo) \in -a .. a
  <2> HIDE DEF a
  <2>1. QED
    BY <1>2, <1>3
<1>11. a < r
  OBVIOUS
<1> HIDE DEF k, l, a, u
<1>12. /\ Gap(p - q) \in Nat /\ Gap(p - q) * u <= a
       /\ \A w \in Nat \ {0} : a < w * u => p - q \in -w .. w
  BY <1>2, <1>3, <1>7, <1>10, GapWithin
<1>13. \A w \in Nat \ {0} : r <= w * u => a < w * u
  BY <1>2, <1>3, <1>11
<1>14. QED
  BY <1>7, <1>9, <1>12, <1>13 DEF k, l, a, u

-----------------------------------------------------------------------------
(* Verlet lists: the particles in the cells. *)

LEMMA SceneParts ==
  ASSUME ScenesOK, NEW s \in Scenes
  PROVE  /\ s.pos \in Seq(Int \X Int) /\ Len(s.pos) \in Nat /\ DOMAIN s.pos = 1 .. Len(s.pos)
         /\ s.g_m \in 0 .. Len(s.pos)
         /\ \A q \in 1 .. Len(s.pos) : /\ \A i \in D : s.pos[q][i] \in Int
                                       /\ s.pos[q] = <<s.pos[q][1], s.pos[q][2]>>
<1>1. s.pos \in Seq(Int \X Int) /\ s.g_m \in 0 .. Len(s.pos)
  BY DEF ScenesOK
<1>2. Len(s.pos) \in Nat /\ DOMAIN s.pos = 1 .. Len(s.pos)
  BY <1>1
<1>3. \A q \in 1 .. Len(s.pos) : s.pos[q] \in Int \X Int
  BY <1>1
<1>4. \A z \in Int \X Int : z = <<z[1], z[2]>> /\ \A i \in D : z[i] \in Int
  BY DEF D
<1>5. QED
  BY <1>1, <1>2, <1>3, <1>4

CellAt(d, s, q) == GetCell(d, s.pos[q])

\* The processor's own particles are in the cells of its part, with either way
\* of finding them.
LEMMA OwnCell ==
  ASSUME ScenesOK, NEW d, NEW own, Roomy(d, own), NEW s \in Scenes, Belongs(own, s),
         NEW p \in 1 .. s.g_m
  PROVE  /\ \A i \in D : own.lo[i] <= s.pos[p][i] /\ s.pos[p][i] < own.hi[i]
         /\ GetCellDom(d, s.pos[p]) = CellAt(d, s, p)
         /\ CellAt(d, s, p) \in DomainCells(d)
<1> DEFINE x == s.pos[p]
<1>1. p \in 1 .. Len(s.pos) /\ p <= s.g_m /\ \A i \in D : x[i] \in Int
  BY SceneParts
<1>2. \A i \in D : own.lo[i] <= x[i] /\ x[i] < own.hi[i]
  BY <1>1, SceneParts DEF Belongs, InBox
<1> HIDE DEF x
<1>3. ASSUME NEW i \in D
      PROVE  /\ ConvertToID(d, x, i) \in d.off .. d.gr2[i] - d.off - 1
             /\ ConvertToIDNs(d, x, i) \in d.off .. d.gr[i] - d.off - 1
             /\ d.off \in Nat \ {0} /\ d.gr[i] \in Nat /\ d.gr2[i] \in Nat
  <2>1. PICK n \in Nat, a \in Nat, b \in Nat : RoomIn(d, own, i, n, a, b)
    BY DEF Roomy
  <2>2. /\ d.unit[i] \in Nat \ {0} /\ d.off \in Nat \ {0} /\ own.lo[i] \in Int /\ own.hi[i] \in Int
        /\ d.gr[i] \in Nat /\ d.gr2[i] \in Nat
    BY <2>1 DEF RoomIn, Room
  <2>3. own.lo[i] - d.off * d.unit[i] < x[i] /\ x[i] < own.hi[i] + d.off * d.unit[i]
    <3> DEFINE z == d.off * d.unit[i]
    <3>1. z \in Nat \ {0}
      BY <2>2
    <3> HIDE DEF z
    <3>2. own.lo[i] - z < x[i] /\ x[i] < own.hi[i] + z
      BY <1>1, <1>2, <2>2, <3>1
    <3>3. QED
      BY <3>2 DEF z
  <2>4. x[i] \in Int /\ own.lo[i] <= x[i] /\ x[i] < own.hi[i]
    BY <1>1, <1>2
  <2>5. /\ ConvertToID(d, x, i) \in d.off .. d.gr2[i] - d.off - 1
        /\ ConvertToIDNs(d, x, i) \in d.off .. d.gr[i] - d.off - 1
    BY <2>1, <2>3, <2>4, PointPlaced
  <2>6. QED
    BY <2>2, <2>5
<1> DEFINE Dom(i) == LET id == ConvertToIDNs(d, x, i)
                     IN  CASE id = d.gr[i] - d.off -> d.gr[i] - d.off - 1
                           [] id = d.off - 1 -> d.off
                           [] OTHER -> id
<1>4. \A i \in D : Dom(i) = ConvertToIDNs(d, x, i)
  <2> SUFFICES ASSUME NEW i \in D PROVE Dom(i) = ConvertToIDNs(d, x, i)
    OBVIOUS
  <2>1. ConvertToIDNs(d, x, i) # d.gr[i] - d.off /\ ConvertToIDNs(d, x, i) # d.off - 1
    BY <1>3
  <2>2. QED
    BY <2>1
<1>5. GetCellDom(d, x) = GetCell(d, x)
  <2>1. [i \in D |-> Dom(i) - d.shift[i]] = [i \in D |-> ConvertToID(d, x, i)]
    <3> HIDE DEF Dom
    <3>1. \A i \in D : Dom(i) - d.shift[i] = ConvertToID(d, x, i)
      BY <1>4 DEF ConvertToID
    <3>2. QED
      BY <3>1
  <2>2. QED
    BY <2>1 DEF GetCellDom, GetCell
<1>6. GetCell(d, x) = LinId(d.gr2, <<ConvertToID(d, x, 1), ConvertToID(d, x, 2)>>)
  BY DEF GetCell, LinId, D
<1>7. GetCell(d, x) \in DomainCells(d)
  <2>1. /\ ConvertToID(d, x, 1) \in d.off .. d.gr2[1] - d.off - 1
        /\ ConvertToID(d, x, 2) \in d.off .. d.gr2[2] - d.off - 1
    BY <1>3 DEF D
  <2>2. QED
    BY <1>6, <2>1 DEF DomainCells
<1>8. QED
  BY <1>2, <1>5, <1>7 DEF x, CellAt

\* The cells hold the particles of s, each in its cell.
Sorted(d, s, held) ==
  /\ held \in [Cells(d) -> Seq(1 .. Len(s.pos))]
  /\ \A q \in 1 .. Len(s.pos) :
       /\ \A c \in Cells(d) : c # CellAt(d, s, q) => Absent(held[c], q)
       /\ CellAt(d, s, q) \in Cells(d) => Once(held[CellAt(d, s, q)], q)

LEMMA PopulateSorts ==
  ASSUME ScenesOK, NEW d, NEW own, Roomy(d, own), NEW s \in Scenes, Belongs(own, s), NEW opt
  PROVE  Sorted(d, s, PopulateCellList(d, s, opt))
<1> DEFINE m == Len(s.pos)
           C == Cells(d)
           at == [i \in 1 .. m |-> CellOf(d, s, opt, i)]
           U(c) == {i \in 1 .. m : at[i] = c}
           held == PopulateCellList(d, s, opt)
<1>1. m \in Nat /\ DOMAIN s.pos = 1 .. m /\ s.g_m \in 0 .. m
  BY SceneParts
<1>2. ASSUME NEW q \in 1 .. m PROVE at[q] = CellAt(d, s, q)
  <2>1. q <= s.g_m => GetCellDom(d, s.pos[q]) = CellAt(d, s, q)
    <3>1. q <= s.g_m => q \in 1 .. s.g_m
      BY <1>1
    <3>2. QED
      BY <3>1, OwnCell
  <2>2. QED
    BY <2>1 DEF CellOf, CellAt
<1>3. held = [c \in C |-> Chosen([i \in 1 .. m |-> i], U(c))]
  BY <1>1 DEF PopulateCellList
<1> HIDE DEF C, m, at, held
<1>4. ASSUME NEW c \in C
      PROVE  /\ held[c] \in Seq(1 .. m)
             /\ \A q \in 1 .. m : IF CellAt(d, s, q) = c THEN Once(held[c], q) ELSE Absent(held[c], q)
  <2>1. held[c] = Chosen([i \in 1 .. m |-> i], U(c))
    BY <1>3
  <2>2. U(c) \in SUBSET (1 .. m) /\ \A q \in 1 .. m : q \in U(c) <=> CellAt(d, s, q) = c
    BY <1>2
  <2> HIDE DEF U
  <2>3. /\ held[c] \in Seq(1 .. m)
        /\ \A q \in U(c) : Once(held[c], q)
        /\ \A q : q \notin U(c) => Absent(held[c], q)
    BY <1>1, <2>1, <2>2, NumbersChosen
  <2>4. QED
    BY <2>2, <2>3
<1>5. held \in [C -> Seq(1 .. m)]
  BY <1>3, <1>4
<1>6. QED
  BY <1>4, <1>5 DEF Sorted, C, m, held

-----------------------------------------------------------------------------
(* Verlet lists: near particles are in near cells. *)

Close(x, y, r) == Distance2(x, y) < r * r

LEMMA LegsShort ==
  ASSUME NEW x, NEW y, NEW r \in Nat \ {0}, \A i \in D : x[i] \in Int /\ y[i] \in Int
  PROVE  /\ Distance2(x, y) = Abs(x[1] - y[1]) * Abs(x[1] - y[1]) + Abs(x[2] - y[2]) * Abs(x[2] - y[2])
         /\ Close(x, y, r) => \A i \in D : Abs(x[i] - y[i]) < r
<1> DEFINE e == x[1] - y[1]
           f == x[2] - y[2]
           a == Abs(e)
           b == Abs(f)
<1>1. e \in Int /\ f \in Int
  BY DEF D
<1>2. Distance2(x, y) = e * e + f * f
  BY DEF Distance2
<1> HIDE DEF e, f
<1>3. a \in Nat /\ b \in Nat /\ a * a = e * e /\ b * b = f * f
  BY <1>1, AbsOf
<1> HIDE DEF a, b
<1>4. Distance2(x, y) = a * a + b * b /\ a * a \in Nat /\ b * b \in Nat /\ r * r \in Nat
  BY <1>2, <1>3
<1>5. ASSUME NEW z \in Nat, NEW s \in Nat, z * z + s < r * r PROVE z < r
  <2>1. z * z \in Nat /\ r * r \in Nat /\ r \in Nat
    OBVIOUS
  <2>2. z * z + s <= r * r
    BY <1>5, <2>1
  <2>3. z <= r
    BY <2>1, <2>2, LegWithin
  <2>4. z # r
    BY <1>5, <2>1
  <2>5. QED
    BY <2>1, <2>3, <2>4
<1>6. ASSUME Close(x, y, r) PROVE a < r /\ b < r
  <2>1. a * a + b * b < r * r /\ b * b + a * a < r * r
    BY <1>4, <1>6 DEF Close
  <2> DEFINE aa == a * a
             bb == b * b
  <2>2. a * a + bb < r * r /\ b * b + aa < r * r /\ aa \in Nat /\ bb \in Nat
    BY <1>4, <2>1
  <2> HIDE DEF aa, bb
  <2>3. QED
    BY <1>3, <1>5, <2>2
<1>7. QED
  BY <1>4, <1>6 DEF D, a, b, e, f

\* The step k of cells from x to y is within what the distance allows.
StepFor(d, r, x, y, k) ==
  /\ k \in [D -> Int]
  /\ \A i \in D : /\ Gap(k[i]) \in Nat /\ Gap(k[i]) * d.unit[i] <= Abs(x[i] - y[i])
                  /\ \A w \in Nat \ {0} : r <= w * d.unit[i] => k[i] \in -w .. w

\* The cell of y is such a step away from the cell of x.
StepsTo(d, r, x, y) ==
  \E k : StepFor(d, r, x, y, k) /\ GetCell(d, y) - GetCell(d, x) = LinId(d.gr2, k)

\* The point x is in the box own, in cells that have padding as deep as r.
DeepIn(d, own, x, r) ==
  /\ Roomy(d, own) /\ r \in Nat \ {0} /\ \A i \in D : r <= d.off * d.unit[i]
  /\ \A i \in D : own.lo[i] <= x[i] /\ x[i] < own.hi[i]

LEMMA NearCells ==
  ASSUME NEW d, NEW own, NEW x, NEW y, \A i \in D : x[i] \in Int /\ y[i] \in Int,
         NEW r, DeepIn(d, own, x, r), Close(x, y, r)
  PROVE  GetCell(d, x) \in Cells(d) /\ GetCell(d, y) \in Cells(d) /\ StepsTo(d, r, x, y)
<1>0. /\ Roomy(d, own) /\ \A i \in D : own.lo[i] <= x[i] /\ x[i] < own.hi[i]
      /\ r \in Nat \ {0} /\ \A i \in D : r <= d.off * d.unit[i]
  BY DEF DeepIn
<1> DEFINE K(z) == [i \in D |-> ConvertToID(d, z, i)]
           k == [i \in D |-> K(y)[i] - K(x)[i]]
<1>1. 1 \in D /\ 2 \in D /\ \A i \in D : i = 1 \/ i = 2
  BY DEF D
<1>2. \A i \in D : Abs(x[i] - y[i]) < r
  BY <1>0, LegsShort
<1>3. GetCell(d, x) = LinId(d.gr2, K(x)) /\ GetCell(d, y) = LinId(d.gr2, K(y))
  BY DEF GetCell
<1>4. ASSUME NEW i \in D
      PROVE  /\ K(x)[i] \in 0 .. d.gr2[i] - 1 /\ K(y)[i] \in 0 .. d.gr2[i] - 1
             /\ Gap(k[i]) \in Nat /\ Gap(k[i]) * d.unit[i] <= Abs(x[i] - y[i])
             /\ \A w \in Nat \ {0} : r <= w * d.unit[i] => k[i] \in -w .. w
             /\ d.gr2[i] \in Nat
  <2>1. K(x)[i] = ConvertToID(d, x, i) /\ K(y)[i] = ConvertToID(d, y, i)
    OBVIOUS
  <2>2. k[i] = ConvertToID(d, y, i) - ConvertToID(d, x, i)
    OBVIOUS
  <2>3. \E n, a, b \in Nat : RoomIn(d, own, i, n, a, b)
    BY <1>0 DEF Roomy
  <2>4. d.gr2[i] \in Nat
    BY <2>3 DEF RoomIn, Room
  <2>5. /\ x[i] \in Int /\ y[i] \in Int /\ own.lo[i] <= x[i] /\ x[i] < own.hi[i]
        /\ r <= d.off * d.unit[i] /\ Abs(x[i] - y[i]) < r
    BY <1>0, <1>2
  <2>6. LET kx == ConvertToID(d, x, i)
            ky == ConvertToID(d, y, i)
        IN  /\ kx \in 0 .. d.gr2[i] - 1 /\ ky \in 0 .. d.gr2[i] - 1
            /\ Gap(ky - kx) \in Nat /\ Gap(ky - kx) * d.unit[i] <= Abs(x[i] - y[i])
            /\ \A w \in Nat \ {0} : r <= w * d.unit[i] => ky - kx \in -w .. w
    BY <1>0, <2>5, KeysNear
  <2>7. QED
    BY <2>1, <2>2, <2>4, <2>6
<1> HIDE DEF K
<1>5. \A z \in {x, y} : LinId(d.gr2, K(z)) \in 0 .. d.gr2[1] * d.gr2[2] - 1
  <2> SUFFICES ASSUME NEW z \in {x, y} PROVE LinId(d.gr2, K(z)) \in 0 .. d.gr2[1] * d.gr2[2] - 1
    OBVIOUS
  <2>1. /\ d.gr2[1] \in Nat /\ d.gr2[2] \in Nat
        /\ K(z)[1] \in 0 .. d.gr2[1] - 1 /\ K(z)[2] \in 0 .. d.gr2[2] - 1
    BY <1>1, <1>4
  <2>2. QED
    BY <2>1, LinIdIn
<1>6. LinId(d.gr2, K(y)) - LinId(d.gr2, K(x)) = LinId(d.gr2, k)
  <2> DEFINE g == d.gr2[1]
             a == K(y)[1]
             b == K(y)[2]
             c == K(x)[1]
             e == K(x)[2]
  <2>1. a \in Int /\ b \in Int /\ c \in Int /\ e \in Int /\ g \in Int
    BY <1>1, <1>4
  <2>2. k[1] = a - c /\ k[2] = b - e
    BY <1>1
  <2>3. /\ LinId(d.gr2, K(y)) = a + g * b /\ LinId(d.gr2, K(x)) = c + g * e
        /\ LinId(d.gr2, k) = k[1] + g * k[2]
    BY DEF LinId
  <2> HIDE DEF a, b, c, e, g, k
  <2>4. (a + g * b) - (c + g * e) = (a - c) + g * (b - e)
    BY <2>1
  <2>5. QED
    BY <2>2, <2>3, <2>4
<1>7. StepFor(d, r, x, y, k)
  <2>1. \A i \in D : k[i] \in Int
    <3>1. \A i \in D : K(x)[i] \in Int /\ K(y)[i] \in Int
      BY <1>4
    <3>2. QED
      BY <3>1
  <2>2. k = [i \in D |-> k[i]]
    OBVIOUS
  <2> HIDE DEF k
  <2>3. QED
    BY <1>4, <2>1, <2>2 DEF StepFor
<1>8. QED
  BY <1>3, <1>5, <1>6, <1>7 DEF Cells, StepsTo

\* The stencils have the step, once.
LEMMA StepInFull ==
  ASSUME NEW d, NEW own, Roomy(d, own), NEW x, NEW y, NEW r \in Nat \ {0},
         \A i \in D : r <= d.unit[i], NEW k, StepFor(d, r, x, y, k)
  PROVE  /\ Once(NNcFull(d.gr2), LinId(d.gr2, k))
         /\ IF LinId(d.gr2, k) >= 0 THEN Once(NNcSym(d.gr2), LinId(d.gr2, k))
                                    ELSE Absent(NNcSym(d.gr2), LinId(d.gr2, k))
         /\ NNcFull(d.gr2) \in Seq(Int) /\ NNcSym(d.gr2) \in Seq(Int)
         /\ k[1] \in -1 .. 1 /\ k[2] \in -1 .. 1 /\ d.gr2[1] \in Nat /\ d.gr2[1] >= 3
<1>1. 1 \in D /\ 2 \in D
  BY DEF D
<1>2. PICK n \in Nat, a \in Nat, b \in Nat : RoomIn(d, own, 1, n, a, b)
  BY <1>1 DEF Roomy
<1>3. d.gr2[1] \in Nat /\ d.gr2[1] >= 3
  <2> DEFINE P == d.off
  <2>1. P \in Nat \ {0} /\ a < b /\ d.gr2[1] = b - a + 2 * P
    BY <1>2 DEF RoomIn, Room
  <2> HIDE DEF P
  <2>2. QED
    BY <2>1
<1>4. ASSUME NEW i \in D PROVE k[i] \in -1 .. 1
  <2>1. \E n2, a2, b2 \in Nat : RoomIn(d, own, i, n2, a2, b2)
    BY DEF Roomy
  <2>2. d.unit[i] \in Nat \ {0}
    BY <2>1 DEF RoomIn, Room
  <2>3. r <= 1 * d.unit[i] /\ 1 \in Nat \ {0}
    BY <2>2
  <2>4. QED
    BY <2>3 DEF StepFor
<1>5. k[1] \in -1 .. 1 /\ k[2] \in -1 .. 1
  BY <1>1, <1>4
<1>6. LinId(d.gr2, k) = k[1] + d.gr2[1] * k[2]
  BY DEF LinId
<1>7. Once(NNcFull(d.gr2), k[1] + d.gr2[1] * k[2]) /\ NNcFull(d.gr2) \in Seq(Int)
  BY <1>3, <1>5, NNcFullOnce, NNcFullIs
<1>8. /\ NNcSym(d.gr2) \in Seq(Int)
      /\ k[1] + d.gr2[1] * k[2] >= 0 => Once(NNcSym(d.gr2), k[1] + d.gr2[1] * k[2])
      /\ k[1] + d.gr2[1] * k[2] < 0 => Absent(NNcSym(d.gr2), k[1] + d.gr2[1] * k[2])
  BY <1>3, <1>5, NNcSymOnce
<1>9. k[1] + d.gr2[1] * k[2] \in Int
  BY <1>3, <1>5
<1>10. QED
  BY <1>3, <1>5, <1>6, <1>7, <1>8, <1>9

LEMMA StepInRad ==
  ASSUME NEW d, NEW own, Roomy(d, own), d.gr = d.gr2, NEW x, NEW y,
         \A i \in D : x[i] \in Int /\ y[i] \in Int, NEW r \in Nat \ {0},
         \A i \in D : r <= d.off * d.unit[i], NEW k, StepFor(d, r, x, y, k), Close(x, y, r)
  PROVE  Once(NNcRad(d, r), LinId(d.gr2, k)) /\ NNcRad(d, r) \in Seq(Int)
<1> DEFINE w == Radius(d, r)
           P == d.off
<1>1. 1 \in D /\ 2 \in D
  BY DEF D
<1>2. ASSUME NEW i \in D
      PROVE  d.unit[i] \in Nat \ {0} /\ P \in Nat \ {0} /\ \E m \in Nat \ {0} : d.gr2[i] = m + 2 * P
  <2>1. PICK n \in Nat, a \in Nat, b \in Nat : RoomIn(d, own, i, n, a, b)
    BY DEF Roomy
  <2>2. /\ d.unit[i] \in Nat \ {0} /\ P \in Nat \ {0}
        /\ a < b /\ d.gr2[i] = b - a + 2 * P
    BY <2>1 DEF RoomIn, Room
  <2> HIDE DEF P
  <2>3. b - a \in Nat \ {0}
    BY <2>2
  <2>4. QED
    BY <2>2, <2>3
<1>3. ASSUME NEW i \in D PROVE w[i] \in Nat \ {0} /\ r <= w[i] * d.unit[i] /\ w[i] <= P
  <2>1. \A j \in D : d.unit[j] \in Nat \ {0}
    BY <1>2
  <2>2. w[i] \in Nat /\ r <= w[i] * d.unit[i] /\ \A p \in Nat : r <= p * d.unit[i] => w[i] <= p
    BY <2>1, RadiusOf
  <2>3. r <= P * d.unit[i] /\ P \in Nat
    BY <1>2
  <2>4. w[i] # 0
    <3>1. 0 * d.unit[i] = 0
      BY <2>1
    <3>2. w[i] = 0 => r <= 0
      BY <2>2, <3>1
    <3>3. QED
      BY <3>2
  <2>5. QED
    BY <2>2, <2>3, <2>4
<1> HIDE DEF w, P
<1>4. k \in Around(w)
  <2>1. \A i \in D : k[i] \in -w[i] .. w[i]
    BY <1>3 DEF StepFor
  <2>2. QED
    BY <2>1 DEF Around, StepFor
<1>5. CellDistance2(d, k) <= r * r
  <2> DEFINE e == Gap(k[1]) * d.unit[1]
             f == Gap(k[2]) * d.unit[2]
             a == Abs(x[1] - y[1])
             b == Abs(x[2] - y[2])
  <2>1. e \in Nat /\ f \in Nat /\ e <= a /\ f <= b
    BY <1>1, <1>2 DEF StepFor
  <2>2. a \in Nat /\ b \in Nat
    <3>1. x[1] - y[1] \in Int /\ x[2] - y[2] \in Int
      BY <1>1
    <3>2. QED
      BY <3>1, AbsOf
  <2>3. Distance2(x, y) = a * a + b * b
    BY LegsShort
  <2>4. CellDistance2(d, k) = e * e + f * f
    BY DEF CellDistance2, Gap
  <2> HIDE DEF a, b, e, f
  <2>5. e * e <= a * a /\ f * f <= b * b /\ e * e \in Nat /\ f * f \in Nat
    BY <2>1, <2>2, SquareMono
  <2>6. a * a \in Nat /\ b * b \in Nat /\ r * r \in Nat
    BY <2>2
  <2>7. QED
    BY <2>3, <2>4, <2>5, <2>6 DEF Close
<1>6. d.gr[1] \in Nat /\ 2 * w[1] + 1 <= d.gr[1]
  <2>1. PICK m \in Nat \ {0} : d.gr2[1] = m + 2 * P
    BY <1>1, <1>2
  <2>2. w[1] \in Nat /\ w[1] <= P /\ P \in Nat
    BY <1>1, <1>2, <1>3
  <2>3. QED
    BY <2>1, <2>2
<1>7. \A i \in D : d.unit[i] \in Nat \ {0}
  BY <1>2
<1>8. r \in Nat
  OBVIOUS
<1>9. \A e \in Around(w) : CellDistance2(d, e) <= r * r => Once(NNcRad(d, r), LinId(d.gr, e))
  BY <1>6, <1>7, <1>8, NNcRadOnce DEF w
<1>10. NNcRad(d, r) \in Seq(Int)
  BY <1>6, <1>7, <1>8, NNcRadType
<1>11. QED
  BY <1>4, <1>5, <1>9, <1>10

LEMMA DomainCellOf ==
  ASSUME NEW d, NEW e \in DomainCells(d)
  PROVE  \E a \in d.off .. d.gr2[1] - d.off - 1 : \E b \in d.off .. d.gr2[2] - d.off - 1 :
            e = LinId(d.gr2, <<a, b>>)
<1> DEFINE S == d.off .. d.gr2[1] - d.off - 1
           T == d.off .. d.gr2[2] - d.off - 1
           L(a, b) == LinId(d.gr2, <<a, b>>)
<1>1. e \in {L(a, b) : a \in S, b \in T}
  BY DEF DomainCells
<1> HIDE DEF S, T, L
<1>2. \E a \in S : \E b \in T : e = L(a, b)
  BY <1>1
<1>3. QED
  BY <1>2 DEF S, T, L

LEMMA StencilTypes ==
  ASSUME NEW d, NEW own, Roomy(d, own)
  PROVE  /\ NNcFull(d.gr2) \in Seq(Int) /\ NNcSym(d.gr2) \in Seq(Int)
         /\ d.gr = d.gr2 => \A r \in Nat : NNcRad(d, r) \in Seq(Int)
         /\ Cells(d) \subseteq Int /\ DomainCells(d) \subseteq Cells(d)
         /\ d.off \in Nat \ {0} /\ d.gr2[1] \in Nat /\ d.gr2[2] \in Nat
         /\ \A i \in D : d.unit[i] \in Nat \ {0}
<1>1. 1 \in D /\ 2 \in D
  BY DEF D
<1>2. ASSUME NEW i \in D
      PROVE  d.off \in Nat \ {0} /\ d.unit[i] \in Nat \ {0} /\ d.gr2[i] \in Nat /\ d.gr2[i] >= 3
  <2>1. PICK n \in Nat, a \in Nat, b \in Nat : RoomIn(d, own, i, n, a, b)
    BY DEF Roomy
  <2> DEFINE P == d.off
  <2>2. P \in Nat \ {0} /\ a < b /\ d.gr2[i] = b - a + 2 * P /\ d.unit[i] \in Nat \ {0}
    BY <2>1 DEF RoomIn, Room
  <2> HIDE DEF P
  <2>3. d.gr2[i] \in Nat /\ d.gr2[i] >= 3
    BY <2>2
  <2>4. QED
    BY <2>2, <2>3 DEF P
<1>3. NNcFull(d.gr2) \in Seq(Int)
  BY <1>1, <1>2, NNcFullIs
<1>4. NNcSym(d.gr2) \in Seq(Int)
  <2>1. 0 \in -1 .. 1
    OBVIOUS
  <2>2. QED
    BY <1>1, <1>2, <2>1, NNcSymOnce
<1>5. ASSUME d.gr = d.gr2, NEW r \in Nat PROVE NNcRad(d, r) \in Seq(Int)
  BY <1>1, <1>2, <1>5, NNcRadType
<1>6. d.gr2[1] * d.gr2[2] \in Int
  BY <1>1, <1>2
<1>7. Cells(d) \subseteq Int
  BY <1>6 DEF Cells
<1>8. DomainCells(d) \subseteq Cells(d)
  <2> DEFINE g == d.gr2
             P == d.off
  <2>1. g[1] \in Nat /\ g[2] \in Nat /\ P \in Nat
    BY <1>1, <1>2
  <2>2. ASSUME NEW e \in DomainCells(d) PROVE e \in Cells(d)
    <3>1. PICK a \in P .. g[1] - P - 1 : \E b \in P .. g[2] - P - 1 : e = LinId(g, <<a, b>>)
      BY DomainCellOf
    <3>2. PICK b \in P .. g[2] - P - 1 : e = LinId(g, <<a, b>>)
      BY <3>1
    <3> HIDE DEF g, P
    <3>3. /\ a \in 0 .. g[1] - 1 /\ b \in 0 .. g[2] - 1
          /\ <<a, b>>[1] = a /\ <<a, b>>[2] = b
      BY <2>1
    <3>4. LinId(g, <<a, b>>) \in 0 .. g[1] * g[2] - 1
      BY <2>1, <3>3, LinIdIn
    <3>5. QED
      BY <3>2, <3>4 DEF Cells, g
  <2>3. QED
    BY <2>2
<1>9. QED
  BY <1>1, <1>2, <1>3, <1>4, <1>5, <1>7, <1>8

-----------------------------------------------------------------------------
(* Verlet lists: the list of a particle. *)

LEMMA CutOnce ==
  ASSUME NEW m, NEW xs, DOMAIN xs = 1 .. m, NEW walk \in Seq(1 .. m), NEW x, NEW r
  PROVE  LET cut == WithinCut(walk, x, xs, r)
         IN  /\ cut \in Seq(1 .. m)
             /\ \A q \in 1 .. m : /\ ~Close(x, xs[q], r) \/ Absent(walk, q) => Absent(cut, q)
                                  /\ Close(x, xs[q], r) /\ Once(walk, q) => Once(cut, q)
<1> DEFINE U == {q \in DOMAIN xs : Distance2(x, xs[q]) < r * r}
           cut == WithinCut(walk, x, xs, r)
<1>1. cut = Chosen(walk, U)
  BY DEF WithinCut
<1>2. \A q \in 1 .. m : q \in U <=> Close(x, xs[q], r)
  BY DEF Close
<1> HIDE DEF U, cut
<1>3. \A q : /\ cut \in Seq(1 .. m)
             /\ Absent(walk, q) \/ q \notin U => Absent(cut, q)
             /\ Once(walk, q) /\ q \in U => Once(cut, q)
  BY <1>1, ChosenOnce
<1>4. QED
  BY <1>2, <1>3 DEF cut

\* list names just the particles of pos that are close to x.
ExactList(list, x, xs, r) ==
  /\ list \in Seq(DOMAIN xs)
  /\ \A q \in DOMAIN xs : IF Close(x, xs[q], r) THEN Once(list, q) ELSE Absent(list, q)

\* A stencil that has the steps to near cells.
Complete(st, d, r) ==
  /\ st \in Seq(Int)
  /\ \A x, y, k :
       (\A i \in D : x[i] \in Int /\ y[i] \in Int) /\ StepFor(d, r, x, y, k) /\ Close(x, y, r)
         => Once(st, LinId(d.gr2, k))

LEMMA StencilsComplete ==
  ASSUME NEW d, NEW own, Roomy(d, own), NEW r \in Nat \ {0}
  PROVE  /\ (\A i \in D : r <= d.unit[i]) => Complete(NNcFull(d.gr2), d, r)
         /\ d.gr = d.gr2 /\ (\A i \in D : r <= d.off * d.unit[i]) => Complete(NNcRad(d, r), d, r)
<1>1. /\ NNcFull(d.gr2) \in Seq(Int)
      /\ d.gr = d.gr2 => NNcRad(d, r) \in Seq(Int)
  BY StencilTypes
<1>2. ASSUME \A i \in D : r <= d.unit[i] PROVE Complete(NNcFull(d.gr2), d, r)
  <2>1. \A x, y, k : StepFor(d, r, x, y, k) => Once(NNcFull(d.gr2), LinId(d.gr2, k))
    BY <1>2, StepInFull
  <2>2. QED
    BY <1>1, <2>1, Zenon DEF Complete
<1>3. ASSUME d.gr = d.gr2, \A i \in D : r <= d.off * d.unit[i] PROVE Complete(NNcRad(d, r), d, r)
  <2>1. ASSUME NEW x, NEW y, NEW k, \A i \in D : x[i] \in Int /\ y[i] \in Int,
               StepFor(d, r, x, y, k), Close(x, y, r)
        PROVE  Once(NNcRad(d, r), LinId(d.gr2, k))
    BY <1>3, <2>1, StepInRad
  <2>2. QED
    BY <1>1, <1>3, <2>1, Zenon DEF Complete
<1>4. QED
  BY <1>2, <1>3

\* What a particle x of the part of space and the particles of s are to the cells.
LEMMA NearHeld ==
  ASSUME ScenesOK, NEW d, NEW own, Roomy(d, own), NEW x, \A i \in D : x[i] \in Int,
         \A i \in D : own.lo[i] <= x[i] /\ x[i] < own.hi[i],
         NEW r \in Nat \ {0}, \A i \in D : r <= d.off * d.unit[i],
         NEW s \in Scenes, NEW q \in 1 .. Len(s.pos)
  PROVE  /\ GetCell(d, x) \in Cells(d) /\ GetCell(d, x) \in Int
         /\ Close(x, s.pos[q], r) =>
              /\ CellAt(d, s, q) \in Cells(d) /\ CellAt(d, s, q) \in Int
              /\ \E k : /\ StepFor(d, r, x, s.pos[q], k)
                        /\ CellAt(d, s, q) - GetCell(d, x) = LinId(d.gr2, k)
<1>1. \A i \in D : s.pos[q][i] \in Int
  BY SceneParts
<1>2. Close(x, x, r)
  <2>1. x[1] \in Int /\ x[2] \in Int
    BY DEF D
  <2>2. x[1] - x[1] = 0 /\ x[2] - x[2] = 0 /\ 0 * 0 + 0 * 0 = 0
    BY <2>1
  <2>3. r * r > 0
    OBVIOUS
  <2>4. QED
    BY <2>2, <2>3 DEF Close, Distance2
<1>3. DeepIn(d, own, x, r)
  BY DEF DeepIn
<1>4. GetCell(d, x) \in Cells(d)
  BY <1>2, <1>3, NearCells
<1>5. Cells(d) \subseteq Int
  BY StencilTypes
<1>6. ASSUME Close(x, s.pos[q], r)
      PROVE  /\ CellAt(d, s, q) \in Cells(d)
             /\ \E k : /\ StepFor(d, r, x, s.pos[q], k)
                       /\ CellAt(d, s, q) - GetCell(d, x) = LinId(d.gr2, k)
  <2> DEFINE y == s.pos[q]
  <2>1. CellAt(d, s, q) = GetCell(d, y)
    BY DEF CellAt
  <2>2. (\A i \in D : x[i] \in Int /\ y[i] \in Int) /\ Close(x, y, r)
    BY <1>1, <1>6
  <2> HIDE DEF y
  <2>3. GetCell(d, y) \in Cells(d) /\ StepsTo(d, r, x, y)
    BY <1>3, <2>2, NearCells
  <2>4. QED
    BY <2>1, <2>3 DEF StepsTo, y
<1>7. QED
  BY <1>4, <1>5, <1>6

LEMMA FullList ==
  ASSUME ScenesOK, NEW d, NEW own, Roomy(d, own), NEW x, \A i \in D : x[i] \in Int,
         \A i \in D : own.lo[i] <= x[i] /\ x[i] < own.hi[i],
         NEW r \in Nat \ {0}, \A i \in D : r <= d.off * d.unit[i],
         NEW s \in Scenes, NEW held, Sorted(d, s, held), NEW st, Complete(st, d, r),
         GetCell(d, x) \in Int
  PROVE  ExactList(WithinCut(Walk(held, GetCell(d, x), st), x, s.pos, r), x, s.pos, r)
<1> DEFINE m == Len(s.pos)
           C == Cells(d)
           c == GetCell(d, x)
           w == Walk(held, c, st)
           Of(q) == CellAt(d, s, q)
<1>1. DOMAIN s.pos = 1 .. m /\ \A q \in 1 .. m : \A i \in D : s.pos[q][i] \in Int
  BY SceneParts
<1>2. C \subseteq Int
  BY StencilTypes
<1>3. Layout(1 .. m, C, held, st)
  BY <1>2 DEF Layout, Sorted, Complete
<1>4. c \in Int
  OBVIOUS
<1> HIDE DEF w
<1>5. ASSUME NEW q \in 1 .. m, Close(x, s.pos[q], r) PROVE Once(w, q)
  <2>1. Of(q) \in C /\ Of(q) \in Int
    BY <1>5, NearHeld
  <2>2. PICK k : StepFor(d, r, x, s.pos[q], k) /\ Of(q) - c = LinId(d.gr2, k)
    BY <1>5, NearHeld
  <2>3. Once(st, Of(q) - c)
    BY <1>1, <1>5, <2>2 DEF Complete
  <2>4. Once(held[Of(q)], q) /\ OnlyIn(held, q, Of(q))
    BY <2>1 DEF Sorted, OnlyIn
  <2> HIDE DEF C, c, Of, m
  <2>5. Once(Walk(held, c, st), q)
    BY <1>3, <1>4, <2>1, <2>3, <2>4, WalkMeets
  <2>6. QED
    BY <2>5 DEF w
<1>6. w \in Seq(1 .. m)
  <2>1. OnlyIn(held, m + 1, c)
    <3>1. \A a \in C : Absent(held[a], m + 1)
      <4>1. m \in Nat /\ \A a \in C : held[a] \in Seq(1 .. m)
        BY SceneParts DEF Sorted
      <4> HIDE DEF m, C
      <4>2. ASSUME NEW a \in C, NEW n \in 1 .. Len(held[a]) PROVE held[a][n] # m + 1
        <5>1. held[a][n] \in 1 .. m
          BY <4>1
        <5>2. QED
          BY <4>1, <5>1
      <4>3. QED
        BY <4>2 DEF Absent
    <3>2. DOMAIN held = C
      BY DEF Sorted
    <3>3. QED
      BY <3>1, <3>2 DEF OnlyIn
  <2> HIDE DEF C, c, m
  <2>2. QED
    BY <1>3, <1>4, <2>1, WalkMeets DEF w
<1>7. LET cut == WithinCut(w, x, s.pos, r)
      IN  /\ cut \in Seq(1 .. m)
          /\ \A q \in 1 .. m : /\ ~Close(x, s.pos[q], r) \/ Absent(w, q) => Absent(cut, q)
                               /\ Close(x, s.pos[q], r) /\ Once(w, q) => Once(cut, q)
  <2> HIDE DEF m
  <2>1. QED
    BY <1>1, <1>6, CutOnce
<1>8. QED
  BY <1>1, <1>5, <1>7 DEF ExactList, w

-----------------------------------------------------------------------------
(* Verlet lists: the symmetric list of a particle. *)

\* The cells that a symmetric walk from p, met in the cell c, goes over.
AheadOf(held, c, xs, p) ==
  [held EXCEPT ![c] = Chosen(held[c], {q \in Seqs!ToSet(held[c]) : StandsAfter(xs, p, q)})]

LEMMA SymNearIs ==
  ASSUME NEW held, NEW c \in DOMAIN held, NEW xs, NEW p, NEW st
  PROVE  SymNear(held, c, xs, p, st) = Walk(AheadOf(held, c, xs, p), c, st)
BY DEF SymNear, AheadOf

LEMMA AheadHeld ==
  ASSUME ScenesOK, NEW d, NEW s \in Scenes, NEW held, Sorted(d, s, held), NEW c \in Cells(d), NEW p
  PROVE  LET ahead == AheadOf(held, c, s.pos, p)
         IN  /\ ahead \in [Cells(d) -> Seq(1 .. Len(s.pos))]
             /\ \A q \in 1 .. Len(s.pos) :
                  /\ OnlyIn(ahead, q, CellAt(d, s, q))
                  /\ CellAt(d, s, q) \in Cells(d) =>
                       IF CellAt(d, s, q) = c /\ ~StandsAfter(s.pos, p, q)
                       THEN Absent(ahead[CellAt(d, s, q)], q)
                       ELSE Once(ahead[CellAt(d, s, q)], q)
<1> DEFINE U == {q \in Seqs!ToSet(held[c]) : StandsAfter(s.pos, p, q)}
           ahead == AheadOf(held, c, s.pos, p)
           C == Cells(d)
           T == 1 .. Len(s.pos)
           Of(q) == CellAt(d, s, q)
<1>1. /\ held \in [C -> Seq(T)]
      /\ \A q \in T : /\ \A a \in C : a # Of(q) => Absent(held[a], q)
                      /\ Of(q) \in C => Once(held[Of(q)], q)
  BY DEF Sorted
<1>2. c \in C /\ c \in DOMAIN held
  BY <1>1
<1>3. ahead = [held EXCEPT ![c] = Chosen(held[c], U)]
  BY DEF AheadOf
<1> HIDE DEF C, T, Of, ahead
<1>4. \A q \in T : Once(held[c], q) => (q \in U <=> StandsAfter(s.pos, p, q))
  <2>1. ASSUME NEW q \in T, Once(held[c], q) PROVE q \in Seqs!ToSet(held[c])
    <3>1. DOMAIN held[c] = 1 .. Len(held[c])
      BY <1>1, <1>2
    <3>2. QED
      BY <2>1, <3>1 DEF Once, Seqs!ToSet
  <2>2. QED
    BY <2>1
<1> HIDE DEF U
<1>5. \A q : /\ Chosen(held[c], U) \in Seq(T)
             /\ Absent(held[c], q) \/ q \notin U => Absent(Chosen(held[c], U), q)
             /\ Once(held[c], q) /\ q \in U => Once(Chosen(held[c], U), q)
  <2>1. held[c] \in Seq(T)
    BY <1>1, <1>2
  <2>2. QED
    BY <2>1, ChosenOnce
<1>6. /\ ahead \in [C -> Seq(T)] /\ ahead[c] = Chosen(held[c], U)
      /\ \A a \in C : a # c => ahead[a] = held[a]
  BY <1>1, <1>2, <1>3, <1>5
<1>7. ASSUME NEW q \in T
      PROVE  /\ \A a \in C : a # Of(q) => Absent(ahead[a], q)
             /\ Of(q) \in C => IF Of(q) = c /\ ~StandsAfter(s.pos, p, q)
                               THEN Absent(ahead[Of(q)], q) ELSE Once(ahead[Of(q)], q)
  <2>1. \A a \in C : a # Of(q) => Absent(ahead[a], q)
    BY <1>1, <1>2, <1>5, <1>6
  <2>2. ASSUME Of(q) \in C, Of(q) # c PROVE Once(ahead[Of(q)], q)
    BY <1>1, <1>6, <2>2
  <2>3. ASSUME Of(q) = c
        PROVE  IF StandsAfter(s.pos, p, q) THEN Once(ahead[c], q) ELSE Absent(ahead[c], q)
    <3>1. Once(held[c], q)
      BY <1>1, <1>2, <2>3
    <3>2. QED
      BY <1>4, <1>5, <1>6, <3>1
  <2>4. QED
    BY <2>1, <2>2, <2>3
<1>8. QED
  BY <1>6, <1>7 DEF OnlyIn, C, T, Of, ahead

\* q comes after p in the order of the symmetric walks, or is p.
Ahead(d, s, p, q) ==
  LET o == CellAt(d, s, q) - CellAt(d, s, p) IN o > 0 \/ (o = 0 /\ StandsAfter(s.pos, p, q))

\* list names just the particles close to p that come after it.
HalfList(list, d, s, p, r) ==
  /\ list \in Seq(1 .. Len(s.pos))
  /\ \A q \in 1 .. Len(s.pos) :
       IF Close(s.pos[p], s.pos[q], r) /\ Ahead(d, s, p, q) THEN Once(list, q) ELSE Absent(list, q)

LEMMA SymType ==
  ASSUME ScenesOK, NEW d, NEW own, Roomy(d, own), NEW s \in Scenes, NEW held, Sorted(d, s, held),
         NEW c \in Cells(d), NEW p
  PROVE  /\ SymNear(held, c, s.pos, p, NNcSym(d.gr2)) \in Seq(1 .. Len(s.pos))
         /\ \A x, r : WithinCut(SymNear(held, c, s.pos, p, NNcSym(d.gr2)), x, s.pos, r)
                         \in Seq(1 .. Len(s.pos))
<1> DEFINE T == 1 .. Len(s.pos)
           C == Cells(d)
           st == NNcSym(d.gr2)
           near == SymNear(held, c, s.pos, p, st)
           ahead == AheadOf(held, c, s.pos, p)
<1>1. near = Walk(ahead, c, st) /\ ahead \in [C -> Seq(T)]
  <2>1. near = Walk(ahead, c, st)
    BY SymNearIs DEF Sorted
  <2>2. ahead \in [C -> Seq(T)]
    BY AheadHeld
  <2>3. QED
    BY <2>1, <2>2
<1>2. C \subseteq Int /\ st \in Seq(Int) /\ c \in C
  BY StencilTypes
<1>3. Len(s.pos) \in Nat /\ DOMAIN s.pos = T
  BY SceneParts
<1> DEFINE none == Len(s.pos) + 1
<1>4. none \notin T
  BY <1>3
<1> HIDE DEF T, C, st, near, ahead, none
<1>5. OnlyIn(ahead, none, c)
  <2>1. \A a \in C : \A n \in 1 .. Len(ahead[a]) : ahead[a][n] \in T
    BY <1>1
  <2>2. QED
    BY <1>1, <1>4, <2>1 DEF OnlyIn, Absent
<1>6. Layout(T, C, ahead, st)
  BY <1>1, <1>2 DEF Layout
<1>7. c \in Int
  BY <1>2
<1>8. near \in Seq(T)
  BY <1>1, <1>5, <1>6, <1>7, WalkMeets
<1>9. ASSUME NEW x, NEW r PROVE WithinCut(near, x, s.pos, r) \in Seq(T)
  <2> DEFINE m == Len(s.pos)
  <2>1. near \in Seq(1 .. m) /\ DOMAIN s.pos = 1 .. m
    BY <1>3, <1>8 DEF T
  <2> HIDE DEF m
  <2>2. WithinCut(near, x, s.pos, r) \in Seq(1 .. m)
    BY <2>1, CutOnce
  <2>3. QED
    BY <2>2 DEF m, T
<1>10. QED
  BY <1>8, <1>9 DEF near, st, T

LEMMA SymList ==
  ASSUME ScenesOK, NEW d, NEW own, Roomy(d, own), NEW s \in Scenes, Belongs(own, s),
         NEW held, Sorted(d, s, held), NEW r \in Nat \ {0}, \A i \in D : r <= d.unit[i],
         NEW p \in 1 .. s.g_m
  PROVE  HalfList(WithinCut(SymNear(held, CellAt(d, s, p), s.pos, p, NNcSym(d.gr2)),
                            s.pos[p], s.pos, r), d, s, p, r)
<1> DEFINE m == Len(s.pos)
           C == Cells(d)
           x == s.pos[p]
           c == CellAt(d, s, p)
           st == NNcSym(d.gr2)
           near == SymNear(held, c, s.pos, p, st)
           ahead == AheadOf(held, c, s.pos, p)
           Of(q) == CellAt(d, s, q)
<1>1. /\ m \in Nat /\ DOMAIN s.pos = 1 .. m /\ p \in 1 .. m
      /\ \A q \in 1 .. m : \A i \in D : s.pos[q][i] \in Int
  BY SceneParts
<1>2. \A i \in D : own.lo[i] <= x[i] /\ x[i] < own.hi[i]
  BY OwnCell
<1>3. \A i \in D : r <= d.off * d.unit[i]
  <2>1. ASSUME NEW P \in Nat \ {0}, NEW u \in Nat \ {0}, r <= u PROVE r <= P * u
    <3>1. 1 < P => 1 * u + u <= P * u
      BY Mono
    <3>2. P * u \in Nat /\ 1 * u = u
      OBVIOUS
    <3>3. QED
      BY <2>1, <3>1, <3>2
  <2>2. d.off \in Nat \ {0} /\ \A i \in D : d.unit[i] \in Nat \ {0}
    BY StencilTypes
  <2>3. QED
    BY <2>1, <2>2
<1>4. ASSUME NEW q \in 1 .. m
      PROVE  /\ c \in C /\ c \in Int
             /\ Close(x, s.pos[q], r) =>
                  /\ Of(q) \in C /\ Of(q) \in Int
                  /\ \E k : StepFor(d, r, x, s.pos[q], k) /\ Of(q) - c = LinId(d.gr2, k)
  <2>1. \A i \in D : x[i] \in Int
    BY <1>1
  <2>2. c = GetCell(d, x)
    BY DEF CellAt
  <2>3. /\ GetCell(d, x) \in C /\ GetCell(d, x) \in Int
        /\ Close(x, s.pos[q], r) =>
             /\ Of(q) \in C /\ Of(q) \in Int
             /\ \E k : StepFor(d, r, x, s.pos[q], k) /\ Of(q) - GetCell(d, x) = LinId(d.gr2, k)
    BY <1>2, <1>3, <2>1, NearHeld
  <2>4. QED
    BY <2>2, <2>3
<1>5. c \in C /\ c \in Int
  BY <1>1, <1>4
<1>6. /\ near = Walk(ahead, c, st)
      /\ ahead \in [C -> Seq(1 .. m)]
      /\ \A q \in 1 .. m :
           /\ OnlyIn(ahead, q, Of(q))
           /\ Of(q) \in C => IF Of(q) = c /\ ~StandsAfter(s.pos, p, q)
                             THEN Absent(ahead[Of(q)], q) ELSE Once(ahead[Of(q)], q)
  <2>1. near = Walk(ahead, c, st)
    BY <1>5, SymNearIs DEF Sorted
  <2>2. ahead \in [C -> Seq(1 .. m)]
    BY <1>5, AheadHeld
  <2>3. \A q \in 1 .. m :
          /\ OnlyIn(ahead, q, Of(q))
          /\ Of(q) \in C => IF Of(q) = c /\ ~StandsAfter(s.pos, p, q)
                            THEN Absent(ahead[Of(q)], q) ELSE Once(ahead[Of(q)], q)
    BY <1>5, AheadHeld
  <2>4. QED
    BY <2>1, <2>2, <2>3
<1>7. st \in Seq(Int) /\ C \subseteq Int
  BY StencilTypes
<1>8. Layout(1 .. m, C, ahead, st)
  BY <1>6, <1>7 DEF Layout
<1>9. near \in Seq(1 .. m)
  BY <1>5, SymType
<1> DEFINE cut == WithinCut(near, x, s.pos, r)
<1>10. /\ cut \in Seq(1 .. m)
       /\ \A q \in 1 .. m : /\ ~Close(x, s.pos[q], r) \/ Absent(near, q) => Absent(cut, q)
                            /\ Close(x, s.pos[q], r) /\ Once(near, q) => Once(cut, q)
  <2> HIDE DEF m, near
  <2>1. QED
    BY <1>1, <1>9, CutOnce
<1>11. ASSUME NEW q \in 1 .. m, Close(x, s.pos[q], r)
       PROVE  IF Ahead(d, s, p, q) THEN Once(near, q) ELSE Absent(near, q)
  <2>1. Of(q) \in C /\ Of(q) \in Int
    BY <1>4, <1>11
  <2>2. PICK k : StepFor(d, r, x, s.pos[q], k) /\ Of(q) - c = LinId(d.gr2, k)
    BY <1>4, <1>11
  <2>3. IF Of(q) - c >= 0 THEN Once(st, Of(q) - c) ELSE Absent(st, Of(q) - c)
    BY <2>2, StepInFull
  <2>4. Ahead(d, s, p, q) <=> Of(q) - c > 0 \/ (Of(q) - c = 0 /\ StandsAfter(s.pos, p, q))
    BY DEF Ahead
  <2>5. OnlyIn(ahead, q, Of(q))
    BY <1>6
  <2>6. IF Of(q) = c /\ ~StandsAfter(s.pos, p, q) THEN Absent(ahead[Of(q)], q)
                                                  ELSE Once(ahead[Of(q)], q)
    BY <1>6, <2>1
  <2> DEFINE b == Of(q)
  <2>7. /\ b \in C /\ Once(ahead[b], q) /\ Once(st, b - c) => Once(near, q)
        /\ (b \in C => Absent(ahead[b], q)) \/ Absent(st, b - c) => Absent(near, q)
    <3> HIDE DEF m, C, c, st, near, ahead, Of, b
    <3>1. b \in Int /\ OnlyIn(ahead, q, b)
      BY <2>1, <2>5 DEF b
    <3>2. QED
      BY <1>5, <1>6, <1>8, <3>1, WalkMeets
  <2> HIDE DEF m, C, c, st, near, ahead, Of
  <2>8. CASE Of(q) - c > 0
    <3>1. Once(st, Of(q) - c) /\ Of(q) # c
      BY <1>5, <2>1, <2>3, <2>8
    <3>2. QED
      BY <2>1, <2>4, <2>6, <2>7, <2>8, <3>1
  <2>9. CASE Of(q) - c < 0
    <3>1. Absent(st, Of(q) - c) /\ ~(Of(q) - c > 0) /\ Of(q) - c # 0
      BY <1>5, <2>1, <2>3, <2>9
    <3>2. QED
      BY <2>4, <2>7, <3>1
  <2>10. CASE Of(q) - c = 0
    <3>1. Once(st, Of(q) - c) /\ Of(q) = c /\ ~(Of(q) - c > 0)
      BY <1>5, <2>1, <2>3, <2>10
    <3>2. QED
      BY <2>1, <2>4, <2>6, <2>7, <2>10, <3>1
  <2>11. QED
    BY <1>5, <2>1, <2>8, <2>9, <2>10
<1>12. HalfList(cut, d, s, p, r)
  <2> HIDE DEF near, cut
  <2>1. QED
    BY <1>10, <1>11 DEF HalfList
<1>13. QED
  BY <1>12

-----------------------------------------------------------------------------
(* Verlet lists: the particles of the cells, in the order of the cells. *)

\* A sequence that starts at another of its places.
LEMMA RotateOnce ==
  ASSUME NEW T, NEW s \in Seq(T), NEW n \in 1 .. Len(s) + 1, NEW x
  PROVE  LET t == SubSeq(s, n, Len(s)) \o SubSeq(s, 1, n - 1)
         IN  /\ t \in Seq(T)
             /\ Absent(s, x) => Absent(t, x)
             /\ Once(s, x) => Once(t, x)
<1> DEFINE A == SubSeq(s, n, Len(s))
           B == SubSeq(s, 1, n - 1)
           l == Len(s)
<1>1. l \in Nat /\ n \in 1 .. l + 1
  OBVIOUS
<1>2. /\ A \in Seq(T) /\ Len(A) = l - n + 1 /\ \A i \in 1 .. l - n + 1 : A[i] = s[n + i - 1]
  OBVIOUS
<1>3. /\ B \in Seq(T) /\ Len(B) = n - 1 /\ \A i \in 1 .. n - 1 : B[i] = s[i]
  OBVIOUS
<1> HIDE DEF A, B, l
<1>4. /\ A \o B \in Seq(T)
      /\ Absent(A, x) /\ Absent(B, x) => Absent(A \o B, x)
      /\ Absent(A, x) /\ Once(B, x) => Once(A \o B, x)
      /\ Once(A, x) /\ Absent(B, x) => Once(A \o B, x)
  BY <1>2, <1>3, ConcatOnce
<1>5. ASSUME NEW i \in 1 .. l - n + 1 PROVE n + i - 1 \in 1 .. l /\ A[i] = s[n + i - 1]
  BY <1>1, <1>2
<1>6. ASSUME NEW i \in 1 .. n - 1 PROVE i \in 1 .. l /\ B[i] = s[i]
  BY <1>1, <1>3
<1>7. Absent(s, x) => Absent(A \o B, x)
  BY <1>2, <1>3, <1>4, <1>5, <1>6 DEF Absent, l
<1>8. ASSUME Once(s, x) PROVE Once(A \o B, x)
  <2>1. PICK j \in 1 .. l : s[j] = x /\ \A k \in 1 .. l : s[k] = x => k = j
    BY <1>8 DEF Once, l
  <2>2. CASE j < n
    <3>1. \A i \in 1 .. l - n + 1 : n + i - 1 # j
      BY <1>1, <2>1, <2>2
    <3>2. Absent(A, x)
      BY <1>2, <1>5, <2>1, <3>1 DEF Absent
    <3>3. j \in 1 .. n - 1
      BY <1>1, <2>1, <2>2
    <3>4. Once(B, x)
      BY <1>3, <1>6, <2>1, <3>3 DEF Once
    <3>5. QED
      BY <1>4, <3>2, <3>4
  <2>3. CASE ~(j < n)
    <3>1. \A i \in 1 .. n - 1 : i # j
      BY <1>1, <2>1, <2>3
    <3>2. Absent(B, x)
      BY <1>3, <1>6, <2>1, <3>1 DEF Absent
    <3> DEFINE h == j - n + 1
    <3>3. h \in 1 .. l - n + 1 /\ n + h - 1 = j
      BY <1>1, <2>1, <2>3
    <3> HIDE DEF h
    <3>4. A[h] = x
      BY <1>5, <2>1, <3>3
    <3>5. ASSUME NEW i \in 1 .. l - n + 1, A[i] = x PROVE i = h
      <4>1. n + i - 1 = j
        BY <1>5, <2>1, <3>5
      <4>2. QED
        BY <1>1, <3>3, <4>1
    <3>6. Once(A, x)
      BY <1>2, <3>3, <3>4, <3>5 DEF Once
    <3>7. QED
      BY <1>4, <3>2, <3>6
  <2>4. QED
    BY <2>2, <2>3
<1>9. QED
  BY <1>4, <1>7, <1>8 DEF A, B

\* The order names just the cells of the domain, each once.
OrderOK(d, order) ==
  /\ order \in Seq(Cells(d))
  /\ \A c \in Cells(d) : IF c \in DomainCells(d) THEN Once(order, c) ELSE Absent(order, c)

LEMMA CrsOrderIs ==
  ASSUME NEW d, NEW own, Roomy(d, own), 2 \in 1 .. Cardinality(DomainCells(d))
  PROVE  OrderOK(d, CrsOrder(d, 2))
<1> DEFINE C == Cells(d)
           total == d.gr2[1] * d.gr2[2]
           s == [k \in 1 .. total |-> k - 1]
           all == Chosen(s, DomainCells(d))
<1>1. total \in Nat /\ C = 0 .. total - 1 /\ DomainCells(d) \subseteq C
  <2>1. d.gr2[1] \in Nat /\ d.gr2[2] \in Nat /\ DomainCells(d) \subseteq C
    BY StencilTypes
  <2>2. QED
    BY <2>1 DEF Cells
<1>2. CrsOrder(d, 2) = SubSeq(all, 2, Len(all)) \o SubSeq(all, 1, 2 - 1)
  BY DEF CrsOrder
<1> HIDE DEF total, C
<1>3. s \in Seq(C) /\ Len(s) = total
  BY <1>1
<1>4. ASSUME NEW c \in C PROVE Once(s, c)
  <2>1. c + 1 \in 1 .. total /\ s[c + 1] = c
    BY <1>1
  <2>2. \A k \in 1 .. total : s[k] = c => k = c + 1
    BY <1>1
  <2>3. QED
    BY <1>3, <2>1, <2>2 DEF Once
<1> HIDE DEF s
<1>5. \A c : /\ all \in Seq(C)
             /\ Absent(s, c) \/ c \notin DomainCells(d) => Absent(all, c)
             /\ Once(s, c) /\ c \in DomainCells(d) => Once(all, c)
  BY <1>3, ChosenOnce
<1>6. \A c \in C : IF c \in DomainCells(d) THEN Once(all, c) ELSE Absent(all, c)
  BY <1>4, <1>5
<1>7. DomainCells(d) # {}
  BY FS_EmptySet
<1>8. Len(all) \in Nat /\ Len(all) >= 1
  <2>1. PICK c \in DomainCells(d) : TRUE
    BY <1>7
  <2>2. Once(all, c)
    BY <1>1, <1>6
  <2>3. QED
    BY <1>5, <2>2 DEF Once
<1> DEFINE t == SubSeq(all, 2, Len(all)) \o SubSeq(all, 1, 2 - 1)
<1> HIDE DEF all
<1>9. 2 \in 1 .. Len(all) + 1
  BY <1>8
<1>10. \A c : t \in Seq(C) /\ (Absent(all, c) => Absent(t, c)) /\ (Once(all, c) => Once(t, c))
  BY <1>5, <1>9, RotateOnce
<1> HIDE DEF t
<1>11. QED
  BY <1>2, <1>6, <1>10 DEF OrderOK, C, t

\* The elements of t, met in the cell c.
MetIn(c, t) == [k \in DOMAIN t |-> <<c, t[k]>>]

LEMMA MetInOnce ==
  ASSUME NEW C, NEW T, NEW c \in C, NEW t \in Seq(T)
  PROVE  /\ MetIn(c, t) \in Seq(C \X T)
         /\ \A q : /\ Once(t, q) => Once(MetIn(c, t), <<c, q>>)
                   /\ Absent(t, q) => Absent(MetIn(c, t), <<c, q>>)
                   /\ \A b : b # c => Absent(MetIn(c, t), <<b, q>>)
<1>1. /\ MetIn(c, t) \in Seq(C \X T) /\ Len(MetIn(c, t)) = Len(t)
      /\ \A k \in 1 .. Len(t) : MetIn(c, t)[k] = <<c, t[k]>>
  BY DEF MetIn
<1>2. QED
  BY <1>1 DEF Once, Absent

LEMMA CrsParticlesOnce ==
  ASSUME NEW d, NEW s, NEW held, Sorted(d, s, held), NEW order, OrderOK(d, order)
  PROVE  LET seq == CrsParticles(held, order)
         IN  /\ seq \in Seq(Cells(d) \X (1 .. Len(s.pos)))
             /\ \A c \in Cells(d), q \in 1 .. Len(s.pos) :
                  IF c = CellAt(d, s, q) /\ c \in DomainCells(d)
                  THEN Once(seq, <<c, q>>) ELSE Absent(seq, <<c, q>>)
<1> DEFINE C == Cells(d)
           T == 1 .. Len(s.pos)
           seq == CrsParticles(held, order)
           f == [n \in DOMAIN order |-> MetIn(order[n], held[order[n]])]
<1>1. /\ held \in [C -> Seq(T)]
      /\ \A q \in T : /\ \A a \in C : a # CellAt(d, s, q) => Absent(held[a], q)
                      /\ CellAt(d, s, q) \in C => Once(held[CellAt(d, s, q)], q)
  BY DEF Sorted
<1>2. /\ order \in Seq(C)
      /\ \A c \in C : IF c \in DomainCells(d) THEN Once(order, c) ELSE Absent(order, c)
  BY DEF OrderOK
<1>3. seq = Seqs!FlattenSeq(f)
  BY DEF CrsParticles, MetIn
<1> HIDE DEF C, T, seq
<1>4. /\ DOMAIN order = 1 .. Len(order) /\ Len(order) \in Nat
      /\ \A n \in 1 .. Len(order) : order[n] \in C
  BY <1>2
<1>5. \A n \in 1 .. Len(order) : f[n] = MetIn(order[n], held[order[n]]) /\ held[order[n]] \in Seq(T)
  BY <1>1, <1>4
<1>6. ASSUME NEW n \in 1 .. Len(order)
      PROVE  /\ f[n] \in Seq(C \X T)
             /\ \A q : /\ Once(held[order[n]], q) => Once(f[n], <<order[n], q>>)
                       /\ Absent(held[order[n]], q) => Absent(f[n], <<order[n], q>>)
                       /\ \A b : b # order[n] => Absent(f[n], <<b, q>>)
  <2> DEFINE c == order[n]
             t == held[order[n]]
  <2>1. c \in C /\ f[n] = MetIn(c, t) /\ t \in Seq(T)
    BY <1>4, <1>5
  <2> HIDE DEF c, t
  <2>2. /\ MetIn(c, t) \in Seq(C \X T)
        /\ \A q : /\ Once(t, q) => Once(MetIn(c, t), <<c, q>>)
                  /\ Absent(t, q) => Absent(MetIn(c, t), <<c, q>>)
                  /\ \A b : b # c => Absent(MetIn(c, t), <<b, q>>)
    BY <2>1, MetInOnce, Zenon
  <2>3. QED
    BY <2>1, <2>2, Zenon DEF c, t
<1>7. f = [n \in 1 .. Len(order) |-> f[n]]
  BY <1>4
<1> HIDE DEF f
<1>8. f \in Seq(Seq(C \X T)) /\ Len(f) = Len(order)
  BY <1>4, <1>6, <1>7
<1>9. \A z : /\ seq \in Seq(C \X T)
             /\ AbsentTo(f, Len(f), z) => Absent(seq, z)
             /\ OnceTo(f, Len(f), z) => Once(seq, z)
  BY <1>3, <1>8, FlattenOnce
<1>10. ASSUME NEW c \in C, NEW q \in T
       PROVE  IF c = CellAt(d, s, q) /\ c \in DomainCells(d)
              THEN Once(seq, <<c, q>>) ELSE Absent(seq, <<c, q>>)
  <2>1. CASE c = CellAt(d, s, q) /\ c \in DomainCells(d)
    <3>1. Once(order, c) /\ Once(held[c], q)
      BY <1>1, <1>2, <2>1
    <3>2. PICK n \in 1 .. Len(order) : order[n] = c /\ \A k \in 1 .. Len(order) : order[k] = c => k = n
      BY <3>1 DEF Once
    <3>3. Once(f[n], <<c, q>>)
      BY <1>6, <3>1, <3>2
    <3>4. \A k \in 1 .. Len(order) : k # n => Absent(f[k], <<c, q>>)
      BY <1>6, <3>2
    <3>5. OnceTo(f, Len(f), <<c, q>>)
      BY <1>8, <3>3, <3>4 DEF OnceTo
    <3>6. QED
      BY <1>9, <2>1, <3>5
  <2>2. CASE ~(c = CellAt(d, s, q) /\ c \in DomainCells(d))
    <3>1. \A n \in 1 .. Len(order) : order[n] = c => Absent(held[c], q)
      BY <1>1, <1>2, <2>2 DEF Absent
    <3>2. \A n \in 1 .. Len(order) : Absent(f[n], <<c, q>>)
      BY <1>6, <3>1
    <3>3. AbsentTo(f, Len(f), <<c, q>>)
      BY <1>8, <3>2 DEF AbsentTo
    <3>4. QED
      BY <1>9, <2>2, <3>3
  <2>3. QED
    BY <2>1, <2>2
<1>11. QED
  BY <1>9, <1>10 DEF C, T, seq

\* The places a particle is met at: one, in its cell, if that is of the domain.
LEMMA MetAt ==
  ASSUME NEW d, NEW s, NEW held, Sorted(d, s, held), NEW order, OrderOK(d, order),
         NEW p \in 1 .. Len(s.pos)
  PROVE  LET seq == CrsParticles(held, order)
         IN  IF CellAt(d, s, p) \in DomainCells(d) /\ CellAt(d, s, p) \in Cells(d)
             THEN \E n \in 1 .. Len(seq) :
                    /\ seq[n] = <<CellAt(d, s, p), p>>
                    /\ \A k \in 1 .. Len(seq) : seq[k][2] = p => k = n
             ELSE \A k \in 1 .. Len(seq) : seq[k][2] # p
<1> DEFINE C == Cells(d)
           T == 1 .. Len(s.pos)
           seq == CrsParticles(held, order)
           h == CellAt(d, s, p)
<1>1. /\ seq \in Seq(C \X T)
      /\ \A c \in C, q \in T : IF c = CellAt(d, s, q) /\ c \in DomainCells(d)
                               THEN Once(seq, <<c, q>>) ELSE Absent(seq, <<c, q>>)
  BY CrsParticlesOnce
<1>2. p \in T
  OBVIOUS
<1> HIDE DEF C, T, seq
<1>3. \A c \in C : IF c = h /\ c \in DomainCells(d) THEN Once(seq, <<c, p>>) ELSE Absent(seq, <<c, p>>)
  BY <1>1, <1>2
<1> HIDE DEF h
<1>4. ASSUME NEW k \in 1 .. Len(seq), seq[k][2] = p PROVE seq[k] = <<h, p>> /\ h \in C /\ h \in DomainCells(d)
  <2>1. PICK c \in C : seq[k] = <<c, p>>
    <3>1. seq[k] \in C \X T
      BY <1>1
    <3>2. seq[k] = <<seq[k][1], p>> /\ seq[k][1] \in C
      BY <1>4, <3>1
    <3>3. QED
      BY <3>2
  <2>2. ~Absent(seq, <<c, p>>)
    BY <2>1 DEF Absent
  <2>3. QED
    BY <1>3, <2>1, <2>2
<1>5. CASE h \in DomainCells(d) /\ h \in C
  <2>1. Once(seq, <<h, p>>)
    BY <1>3, <1>5
  <2>2. PICK n \in 1 .. Len(seq) :
          seq[n] = <<h, p>> /\ \A k \in 1 .. Len(seq) : seq[k] = <<h, p>> => k = n
    BY <2>1 DEF Once
  <2>3. \A k \in 1 .. Len(seq) : seq[k][2] = p => k = n
    BY <1>4, <2>2
  <2>4. QED
    BY <1>5, <2>2, <2>3 DEF C, seq, h
<1>6. CASE ~(h \in DomainCells(d) /\ h \in C)
  <2>1. \A k \in 1 .. Len(seq) : seq[k][2] # p
    BY <1>4, <1>6
  <2>2. QED
    BY <1>6, <2>1 DEF C, seq, h
<1>7. QED
  BY <1>5, <1>6

\* The sequence names the particles in the cells of the domain.
LEMMA SequenceOnce ==
  ASSUME NEW d, NEW s, NEW held, Sorted(d, s, held), NEW order, OrderOK(d, order)
  PROVE  /\ CrsSequence(held, order) \in Seq(1 .. Len(s.pos))
         /\ \A p \in 1 .. Len(s.pos) :
              IF CellAt(d, s, p) \in DomainCells(d) /\ CellAt(d, s, p) \in Cells(d)
              THEN Once(CrsSequence(held, order), p) ELSE Absent(CrsSequence(held, order), p)
<1> DEFINE C == Cells(d)
           T == 1 .. Len(s.pos)
           seq == CrsParticles(held, order)
           t == CrsSequence(held, order)
<1>1. seq \in Seq(C \X T)
  BY CrsParticlesOnce
<1>2. t = [n \in DOMAIN seq |-> seq[n][2]]
  BY DEF CrsSequence
<1>3. \A p \in T :
        IF CellAt(d, s, p) \in DomainCells(d) /\ CellAt(d, s, p) \in C
        THEN \E n \in 1 .. Len(seq) :
               /\ seq[n] = <<CellAt(d, s, p), p>>
               /\ \A k \in 1 .. Len(seq) : seq[k][2] = p => k = n
        ELSE \A k \in 1 .. Len(seq) : seq[k][2] # p
  BY MetAt
<1> HIDE DEF C, T, seq, t
<1>4. /\ t \in Seq(T) /\ Len(t) = Len(seq) /\ \A n \in 1 .. Len(seq) : t[n] = seq[n][2]
  <2>1. \A n \in 1 .. Len(seq) : seq[n] \in C \X T
    BY <1>1
  <2>2. \A n \in 1 .. Len(seq) : seq[n][2] \in T
    BY <2>1
  <2>3. DOMAIN seq = 1 .. Len(seq) /\ Len(seq) \in Nat
    BY <1>1
  <2>4. t = [n \in 1 .. Len(seq) |-> seq[n][2]]
    BY <1>2, <2>3
  <2>5. QED
    BY <2>2, <2>3, <2>4
<1>5. ASSUME NEW p \in T
      PROVE  IF CellAt(d, s, p) \in DomainCells(d) /\ CellAt(d, s, p) \in C THEN Once(t, p) ELSE Absent(t, p)
  <2>1. CASE CellAt(d, s, p) \in DomainCells(d) /\ CellAt(d, s, p) \in C
    <3>1. PICK n \in 1 .. Len(seq) : /\ seq[n] = <<CellAt(d, s, p), p>>
                                     /\ \A k \in 1 .. Len(seq) : seq[k][2] = p => k = n
      BY <1>3, <2>1
    <3>2. t[n] = p
      BY <1>4, <3>1
    <3>3. QED
      BY <1>4, <2>1, <3>1, <3>2 DEF Once
  <2>2. CASE ~(CellAt(d, s, p) \in DomainCells(d) /\ CellAt(d, s, p) \in C)
    <3>1. \A k \in 1 .. Len(seq) : seq[k][2] # p
      BY <1>3, <2>2
    <3>2. QED
      BY <1>4, <2>2, <3>1 DEF Absent
  <2>3. QED
    BY <2>1, <2>2
<1>6. QED
  BY <1>4, <1>5 DEF C, T, t

\* The lists of the CRS scheme.
LEMMA CrsLists ==
  ASSUME ScenesOK, NEW d, NEW own, Roomy(d, own), NEW s \in Scenes, Belongs(own, s),
         NEW cl, cl.dec = d, Sorted(d, s, cl.cells), NEW r \in Nat \ {0}, \A i \in D : r <= d.unit[i],
         NEW order, OrderOK(d, order)
  PROVE  LET ver == CreatedCrs(cl, s, r, order)
         IN  /\ DOMAIN ver = 1 .. Len(s.pos)
             /\ \A p \in 1 .. Len(s.pos) : ver[p] \in Seq(1 .. Len(s.pos))
             /\ \A p \in 1 .. s.g_m : HalfList(ver[p], d, s, p, r)
<1> DEFINE C == Cells(d)
           T == 1 .. Len(s.pos)
           held == cl.cells
           seq == CrsParticles(held, order)
           sym == NNcSym(d.gr2)
           Of(p) == {n \in DOMAIN seq : seq[n][2] = p}
           Round(n) == SymNear(held, seq[n][1], s.pos, seq[n][2], sym)
           Cut(p, n) == WithinCut(Round(n), s.pos[p], s.pos, r)
           f(p) == [n \in 1 .. Len(seq) |-> IF n \in Of(p) THEN Cut(p, n) ELSE <<>>]
           ver == CreatedCrs(cl, s, r, order)
<1>1. ver = [p \in T |-> Seqs!FlattenSeq(f(p))]
  BY DEF CreatedCrs, End
<1>2. seq \in Seq(C \X T) /\ DOMAIN seq = 1 .. Len(seq) /\ Len(seq) \in Nat
  <2>1. seq \in Seq(C \X T)
    BY CrsParticlesOnce
  <2> HIDE DEF seq, C, T
  <2>2. QED
    BY <2>1
<1> HIDE DEF ver
<1>3. ASSUME NEW n \in 1 .. Len(seq), NEW p PROVE Cut(p, n) \in Seq(T)
  <2>1. seq[n][1] \in C
    <3> HIDE DEF seq, C, T
    <3>1. seq[n] \in C \X T
      BY <1>2
    <3>2. QED
      BY <3>1
  <2> DEFINE e == seq[n][1]
             g == seq[n][2]
  <2>2. e \in Cells(d)
    BY <2>1
  <2> HIDE DEF e, g
  <2>3. \A x, rr : WithinCut(SymNear(held, e, s.pos, g, NNcSym(d.gr2)), x, s.pos, rr) \in Seq(1 .. Len(s.pos))
    BY <2>2, SymType
  <2>4. QED
    BY <2>3 DEF e, g
<1> HIDE DEF Cut, Round
<1>4. ASSUME NEW p \in T
      PROVE  f(p) \in Seq(Seq(T)) /\ Len(f(p)) = Len(seq)
             /\ \A n \in 1 .. Len(seq) : f(p)[n] = IF seq[n][2] = p THEN Cut(p, n) ELSE <<>>
  <2>1. f(p) = [n \in 1 .. Len(seq) |-> IF seq[n][2] = p THEN Cut(p, n) ELSE <<>>]
    BY <1>2
  <2> HIDE DEF T, seq, f, Of
  <2>2. <<>> \in Seq(T)
    OBVIOUS
  <2>3. \A n \in 1 .. Len(seq) : (IF seq[n][2] = p THEN Cut(p, n) ELSE <<>>) \in Seq(T)
    BY <1>3, <2>2
  <2>4. QED
    BY <1>2, <2>1, <2>3
<1>5. ASSUME NEW p \in T
      PROVE  /\ ver[p] = Seqs!FlattenSeq(f(p)) /\ ver[p] \in Seq(T)
             /\ \A z : /\ AbsentTo(f(p), Len(f(p)), z) => Absent(ver[p], z)
                       /\ OnceTo(f(p), Len(f(p)), z) => Once(ver[p], z)
  <2>1. f(p) \in Seq(Seq(T)) /\ ver[p] = Seqs!FlattenSeq(f(p))
    BY <1>1, <1>4
  <2> DEFINE F == f(p)
  <2> HIDE DEF T, F
  <2>2. \A z : /\ Seqs!FlattenSeq(F) \in Seq(T)
               /\ AbsentTo(F, Len(F), z) => Absent(Seqs!FlattenSeq(F), z)
               /\ OnceTo(F, Len(F), z) => Once(Seqs!FlattenSeq(F), z)
    BY <2>1, FlattenOnce DEF F
  <2>3. QED
    BY <2>1, <2>2 DEF F
<1>6. ASSUME NEW p \in 1 .. s.g_m PROVE HalfList(ver[p], d, s, p, r)
  <2>1. p \in T
    BY SceneParts
  <2> DEFINE h == CellAt(d, s, p)
             F == f(p)
             w == ver[p]
             P(z) == Close(s.pos[p], s.pos[z], r) /\ Ahead(d, s, p, z)
  <2>2. h \in DomainCells(d) /\ h \in C
    BY OwnCell, StencilTypes
  <2>3. PICK n \in 1 .. Len(seq) :
          seq[n] = <<h, p>> /\ \A k \in 1 .. Len(seq) : seq[k][2] = p => k = n
    BY <2>1, <2>2, MetAt
  <2>4. Cut(p, n) = WithinCut(SymNear(held, h, s.pos, p, NNcSym(d.gr2)), s.pos[p], s.pos, r)
    BY <2>3 DEF Cut, Round
  <2>5. HalfList(Cut(p, n), d, s, p, r)
    BY <2>4, SymList
  <2>6. /\ Len(F) = Len(seq)
        /\ \A k \in 1 .. Len(seq) : F[k] = IF seq[k][2] = p THEN Cut(p, k) ELSE <<>>
    BY <1>4, <2>1
  <2>7. /\ w \in Seq(T)
        /\ \A z : /\ AbsentTo(F, Len(F), z) => Absent(w, z)
                  /\ OnceTo(F, Len(F), z) => Once(w, z)
    BY <1>5, <2>1
  <2>8. \A q \in T : IF P(q) THEN Once(Cut(p, n), q) ELSE Absent(Cut(p, n), q)
    BY <2>5 DEF HalfList
  <2> HIDE DEF F, w, P, T, seq, h
  <2>9. \A z : \A k \in 1 .. Len(seq) : k # n => Absent(F[k], z)
    <3>1. \A k \in 1 .. Len(seq) : k # n => F[k] = <<>>
      BY <2>3, <2>6
    <3>2. \A z : Absent(<<>>, z)
      BY DEF Absent
    <3>3. QED
      BY <3>1, <3>2
  <2>10. F[n] = Cut(p, n)
    <3>1. seq[n][2] = p
      BY <2>3
    <3>2. QED
      BY <2>6, <3>1
  <2>11. ASSUME NEW q \in T PROVE IF P(q) THEN Once(w, q) ELSE Absent(w, q)
    <3>1. Once(F[n], q) => OnceTo(F, Len(F), q)
      BY <2>6, <2>9 DEF OnceTo
    <3>2. Absent(F[n], q) => AbsentTo(F, Len(F), q)
      BY <2>6, <2>9 DEF AbsentTo
    <3>3. QED
      BY <2>7, <2>8, <2>10, <3>1, <3>2
  <2>12. QED
    BY <2>7, <2>11 DEF HalfList, w, P, T
<1>7. QED
  BY <1>1, <1>5, <1>6 DEF ver

-----------------------------------------------------------------------------
(* Verlet lists: the decomposers that a program makes. *)

LEMMA AptRoom ==
  ASSUME NEW P, NEW d, NEW box, NEW own, NEW i \in D, NEW n, NEW a, NEW b,
         Apt(P, d, box, i, n, a, b), d.off = P,
         own.lo[i] = box.lo[i], own.hi[i] \in Int, own.hi[i] <= box.hi[i]
  PROVE  n \in Nat /\ a \in Nat /\ b \in Nat /\ RoomIn(d, own, i, n, a, b)
<1> DEFINE u == d.unit[i]
           lo == d.box.lo[i]
           ol == own.lo[i]
           oh == own.hi[i]
           bh == box.hi[i]
           g == d.gr[i]
           g2 == d.gr2[i]
           h == d.shift[i]
<1>1. /\ u \in Nat \ {0} /\ P \in Nat \ {0} /\ {n, a, b} \subseteq Nat /\ {lo, ol, bh} \subseteq Int
      /\ a < b /\ b <= n
      /\ a * u <= ol - lo /\ bh - lo <= b * u
      /\ g = n + 2 * P /\ g2 = b - a + 2 * P /\ h = a
  BY DEF Apt, Fits
<1>2. oh \in Int /\ oh <= bh
  OBVIOUS
<1> HIDE DEF u, lo, ol, oh, bh, g, g2, h
<1>3. a * u \in Int /\ b * u \in Int
  BY <1>1
<1>4. lo + a * u <= ol /\ oh <= lo + b * u
  BY <1>1, <1>2, <1>3
<1>5. Room(u, P, lo, n, a, b, ol, oh)
  BY <1>1, <1>2, <1>4 DEF Room
<1>6. QED
  BY <1>1, <1>5 DEF RoomIn, u, lo, ol, oh, g, g2, h

LEMMA Multiple ==
  ASSUME NEW n \in Nat \ {0}, NEW r \in Int
  PROVE  (n * r) % n = 0 /\ (n * r) \div n = r
<1> DEFINE y == n * r
           q == y \div n
           m == y % n
<1>1. y \in Int
  OBVIOUS
<1>2. q \in Int /\ m \in 0 .. n - 1 /\ y = q * n + m
  BY <1>1, FloorFacts
<1>3. q * n = n * q
  BY <1>2
<1>4. m + n * q = 0 + n * r
  <2>1. n * q \in Int /\ n * r \in Int
    BY <1>2
  <2>2. y = n * r
    OBVIOUS
  <2> HIDE DEF y, q, m
  <2>3. QED
    BY <1>2, <1>3, <2>1, <2>2
<1> HIDE DEF y, q, m
<1>5. m - 0 \in -(n - 1) .. n - 1
  BY <1>2
<1>6. m = 0 /\ q = r
  BY <1>2, <1>4, <1>5, StepOne
<1>7. QED
  BY <1>6 DEF y, q, m

LEMMA CalculateRoomy ==
  ASSUME VerletWellPosed, NEW b \in Boxes, NEW r \in Nat \ {0}
  PROVE  /\ Roomy(ParamCalculate(b, r), b)
         /\ \A i \in D : ParamCalculate(b, r).unit[i] = r
<1> DEFINE div == [i \in D |-> Sides(b)[i] \div r + 1]
           box == [lo |-> b.lo, hi |-> [i \in D |-> b.lo[i] + div[i] * r]]
           d == Decomposed(box, div, 1)
<1>1. ParamCalculate(b, r) = d
  BY DEF ParamCalculate
<1>2. ASSUME NEW i \in D
      PROVE  /\ b.lo[i] \in Int /\ b.hi[i] \in Int /\ div[i] \in Nat \ {0}
             /\ box.lo[i] = b.lo[i] /\ box.hi[i] = b.lo[i] + div[i] * r
             /\ b.hi[i] <= b.lo[i] + div[i] * r
  <2> DEFINE lo == b.lo[i]
             hi == b.hi[i]
             w == hi - lo
  <2>1. lo \in Int /\ hi \in Int /\ lo < hi
    BY DEF VerletWellPosed, PartOf
  <2>2. Sides(b)[i] = w
    BY DEF Sides
  <2>4. w \in Nat \ {0}
    BY <2>1
  <2> HIDE DEF w
  <2> DEFINE q == w \div r
             t == q * r
             m == w % r
  <2>3. div[i] = q + 1
    BY <2>2
  <2>5. q \in Int /\ t \in Int /\ m \in 0 .. r - 1 /\ w = t + m
    BY <2>4, FloorFacts
  <2>6. t = q * r
    OBVIOUS
  <2> HIDE DEF q, t, m, div
  <2>7. q >= 0
    <3>1. q < 0 => q * r + r <= 0 * r
      BY <2>5, Mono
    <3>2. 0 * r = 0
      OBVIOUS
    <3>3. QED
      BY <2>4, <2>5, <2>6, <3>1, <3>2
  <2>8. (q + 1) * r = t + r
    BY <2>5, <2>6
  <2>9. w <= (q + 1) * r
    BY <2>5, <2>8
  <2>10. hi <= lo + (q + 1) * r
    BY <2>1, <2>5, <2>8, <2>9 DEF w
  <2>11. QED
    BY <2>1, <2>3, <2>5, <2>7, <2>10
<1> HIDE DEF div
<1>3. Even(box, div)
  <2>1. ASSUME NEW i \in D
        PROVE  /\ box.lo[i] \in Int /\ box.hi[i] \in Int /\ box.lo[i] < box.hi[i]
               /\ div[i] \in Nat \ {0} /\ (box.hi[i] - box.lo[i]) % div[i] = 0
    <3> DEFINE n == div[i]
               lo == box.lo[i]
               z == n * r
    <3>1. n \in Nat \ {0} /\ lo \in Int /\ box.hi[i] = lo + n * r
      BY <1>2
    <3> HIDE DEF n, lo, box
    <3>2. z \in Nat \ {0} /\ z = n * r
      BY <3>1
    <3>3. z % n = 0
      BY <3>1, Multiple
    <3> HIDE DEF z
    <3>4. box.hi[i] - lo = z
      BY <3>1, <3>2
    <3>5. QED
      BY <3>1, <3>2, <3>3, <3>4 DEF n, lo
  <2>2. QED
    BY <2>1 DEF Even
<1>4. ASSUME NEW i \in D PROVE RoomIn(d, b, i, div[i], 0, div[i])
  <2>1. Apt(1, d, box, i, div[i], 0, div[i])
    BY <1>3, DecomposedApt
  <2>2. d.off = 1
    BY DEF Decomposed
  <2> HIDE DEF d, box
  <2>3. QED
    BY <1>2, <2>1, <2>2, AptRoom
<1>5. Roomy(d, b)
  <2>1. \A i \in D : div[i] \in Nat /\ 0 \in Nat
    BY <1>2
  <2>2. QED
    BY <1>4, <2>1 DEF Roomy
<1>6. ASSUME NEW i \in D PROVE d.unit[i] = r
  <2>1. d.unit[i] = (box.hi[i] - box.lo[i]) \div div[i]
    BY DEF Decomposed
  <2> DEFINE n == div[i]
             lo == box.lo[i]
             z == n * r
  <2>2. n \in Nat \ {0} /\ lo \in Int /\ box.hi[i] = lo + n * r
    BY <1>2
  <2> HIDE DEF n, lo, box, d
  <2>3. z \in Int /\ z = n * r /\ z \div n = r
    BY <2>2, Multiple
  <2> HIDE DEF z
  <2>4. box.hi[i] - lo = z
    BY <2>2, <2>3
  <2>5. QED
    BY <2>1, <2>3, <2>4 DEF n, lo
<1>7. QED
  BY <1>1, <1>5, <1>6

\* The cells of a symmetric list are not smaller than the radius, their padding
\* is deeper than the ghosts.
LEMMA SymRoomy ==
  ASSUME VerletWellPosed, NEW b \in Boxes, NEW r \in Radii, NEW i \in D
  PROVE  LET d == SymDec(b, r)
         IN  /\ \E n, f, t \in Nat : Apt(d.off, d, b, i, n, f, t) /\ RoomIn(d, b, i, n, f, t)
             /\ d.off \in Nat \ {0} /\ d.unit[i] \in Nat \ {0}
             /\ r <= d.unit[i] /\ GhostWidth < d.off * d.unit[i]
             /\ d.box.lo[i] = Domain.lo[i] /\ d.unit[i] = ParamCalculateSym(r).unit[i]
<1> DEFINE G == GhostWidth
           div == [j \in D |-> Sides(Domain)[j] \div r]
           P == CeilCell(GhostWidth * 1013, r * 1000)
           cd == Decomposed(Domain, div, P)
           d == SymDec(b, r)
           u == d.unit[i]
           n == div[i]
           w == Domain.hi[i] - Domain.lo[i]
<1>1. /\ G \in Nat \ {0} /\ r \in Nat \ {0} /\ PartOf(b, Domain) /\ Even(Domain, div)
  BY DEF VerletWellPosed, GridsOK
<1>2. ParamCalculateSym(r) = cd /\ cd.off = P /\ d = SetCellDecomposer(cd, b, P)
  BY DEF ParamCalculateSym, SymDec, Decomposed
<1>3. n \in Nat \ {0} /\ w \in Nat \ {0} /\ w % n = 0 /\ n = w \div r /\ cd.unit[i] = w \div n
  BY <1>1 DEF Even, Sides, Decomposed
<1> HIDE DEF cd, d, w, n, G, P
<1>4. P \in Nat \ {0} /\ G < P * r
  <2> DEFINE coord == r * 1000
             y == G * 1013
  <2>1. coord \in Nat \ {0} /\ y \in Nat \ {0} /\ P = CeilCell(y, coord)
    BY <1>1 DEF G, P
  <2>2. P \in Int /\ P * coord - coord < y /\ y <= P * coord
    <3> HIDE DEF coord, y
    <3>1. y \in Int
      BY <2>1
    <3>2. QED
      BY <2>1, <3>1, CeilCellIs
  <2>3. P > 0
    <3> HIDE DEF coord, y
    <3>1. P < 0 => P * coord + coord <= 0 * coord
      BY <2>1, <2>2, Mono
    <3>2. 0 * coord = 0 /\ P * coord \in Int
      BY <2>1, <2>2
    <3>3. P = 0 => P * coord = 0
      BY <3>2
    <3>4. QED
      BY <2>1, <2>2, <3>1, <3>2, <3>3
  <2>4. G < P * r
    <3> DEFINE z == P * r
    <3>1. P * coord = z * 1000 /\ z \in Int
      BY <1>1, <2>2
    <3> HIDE DEF z
    <3>2. G * 1013 <= z * 1000
      BY <2>2, <3>1
    <3>3. G < z
      BY <1>1, <3>1, <3>2
    <3>4. QED
      BY <3>3 DEF z
  <2>5. QED
    BY <2>2, <2>3, <2>4
<1>5. /\ d.box = Domain /\ d.off = P /\ u = cd.unit[i]
      /\ \E f, t \in Nat : Apt(P, d, b, i, n, f, t)
  <2>1. LET c == Decomposed(Domain, div, P)
            e == SetCellDecomposer(c, b, P)
        IN  /\ e.box = Domain /\ e.off = P /\ e.unit[i] = c.unit[i]
            /\ \E f, t \in Nat : Apt(P, e, b, i, div[i], f, t)
    BY <1>1, <1>4, NestedApt
  <2>2. QED
    BY <1>2, <2>1 DEF cd, n
<1>6. u \in Nat \ {0} /\ w = n * u
  BY <1>3, <1>5, UnitOf
<1>7. r <= u
  <2> HIDE DEF u
  <2> DEFINE t == n * r
  <2>1. t <= w /\ t \in Int
    <3> DEFINE m == w % r
               k == w \div r
               kr == k * r
    <3>1. w \in Int /\ r \in Nat \ {0}
      BY <1>1, <1>3
    <3>2. k \in Int /\ kr \in Int /\ m \in 0 .. r - 1 /\ w = kr + m
      BY <3>1, FloorFacts
    <3>3. kr = t
      BY <1>3
    <3> HIDE DEF t, m, k, kr
    <3>4. QED
      BY <1>1, <3>2, <3>3
  <2>2. u < r => u * n + n <= r * n
    BY <1>1, <1>3, <1>6, Mono
  <2>3. u * n = n * u /\ r * n = n * r /\ n * u \in Int
    BY <1>1, <1>3, <1>6
  <2>4. r * n = t
    BY <2>3
  <2> HIDE DEF t
  <2>5. QED
    BY <1>1, <1>3, <1>6, <2>1, <2>2, <2>3, <2>4
<1>8. G < P * u
  <2> HIDE DEF u
  <2>1. r < u => r * P + P <= u * P
    BY <1>1, <1>4, <1>6, Mono
  <2>2. r * P = P * r /\ u * P = P * u /\ P * u \in Int /\ P * r \in Int
    BY <1>1, <1>4, <1>6
  <2>3. r = u => P * r = P * u
    OBVIOUS
  <2>4. QED
    BY <1>1, <1>4, <1>6, <1>7, <2>1, <2>2, <2>3
<1>9. \E m, f, t \in Nat : Apt(P, d, b, i, m, f, t) /\ RoomIn(d, b, i, m, f, t)
  <2>1. PICK f \in Nat, t \in Nat : Apt(P, d, b, i, n, f, t)
    BY <1>5
  <2>2. b.hi[i] \in Int /\ b.hi[i] <= b.hi[i]
    BY <1>1 DEF PartOf
  <2>3. RoomIn(d, b, i, n, f, t)
    BY <1>5, <2>1, <2>2, AptRoom
  <2>4. n \in Nat
    BY <1>3
  <2>5. QED
    BY <2>1, <2>3, <2>4
<1>10. QED
  BY <1>2, <1>4, <1>5, <1>6, <1>7, <1>8, <1>9 DEF d, u, G, cd

\* The cells the symmetric lists of VerletList and the caller's are made of.
MadeFor(d, own) ==
  /\ own \in Boxes
  /\ \/ \E r \in Radii : d = ParamCalculate(own, r)
     \/ \E r \in Radii : d = SymDec(own, r)
     \/ \E e \in External : d = Decomposed(e.box, e.div, e.pad) /\ own = e.box

LEMMA MadeRoomy ==
  ASSUME VerletWellPosed, NEW d, NEW own, MadeFor(d, own)
  PROVE  Roomy(d, own)
<1>1. ASSUME NEW r \in Radii, d = ParamCalculate(own, r) PROVE Roomy(d, own)
  <2>1. own \in Boxes /\ r \in Nat \ {0}
    BY DEF MadeFor, VerletWellPosed
  <2>2. QED
    BY <1>1, <2>1, CalculateRoomy
<1>2. ASSUME NEW r \in Radii, d = SymDec(own, r) PROVE Roomy(d, own)
  <2>1. own \in Boxes
    BY DEF MadeFor
  <2>2. \A i \in D : \E n, f, t \in Nat : Apt(d.off, d, own, i, n, f, t) /\ RoomIn(d, own, i, n, f, t)
    BY <1>2, <2>1, SymRoomy
  <2>3. QED
    BY <2>2 DEF Roomy
<1>3. ASSUME NEW e \in External, d = Decomposed(e.box, e.div, e.pad), own = e.box PROVE Roomy(d, own)
  <2>1. /\ e.box \in Boxes /\ Even(e.box, e.div) /\ e.pad \in Nat \ {0} /\ PartOf(own, Domain)
    BY <1>3 DEF VerletWellPosed, GridsOK
  <2>2. ASSUME NEW i \in D PROVE \E n, f, t \in Nat : RoomIn(d, own, i, n, f, t)
    <3>1. Apt(e.pad, d, own, i, e.div[i], 0, e.div[i])
      BY <1>3, <2>1, DecomposedApt
    <3>2. d.off = e.pad
      BY <1>3 DEF Decomposed
    <3>3. own.hi[i] \in Int /\ own.hi[i] <= own.hi[i]
      BY <2>1 DEF PartOf
    <3>4. e.div[i] \in Nat /\ 0 \in Nat /\ RoomIn(d, own, i, e.div[i], 0, e.div[i])
      BY <3>1, <3>2, <3>3, AptRoom
    <3>5. QED
      BY <3>4
  <2>3. QED
    BY <2>2 DEF Roomy
<1>4. QED
  BY <1>1, <1>2, <1>3 DEF MadeFor

\* The number of a cell of the domain is of no other cell.
LEMMA DomainCellKeys ==
  ASSUME NEW d, d.off \in Nat, d.gr2[1] \in Nat, d.gr2[2] \in Nat,
         NEW k \in 0 .. d.gr2[1] - 1, NEW l \in 0 .. d.gr2[2] - 1,
         LinId(d.gr2, <<k, l>>) \in DomainCells(d)
  PROVE  k \in d.off .. d.gr2[1] - d.off - 1 /\ l \in d.off .. d.gr2[2] - d.off - 1
<1> DEFINE g == d.gr2[1]
           h == d.gr2[2]
           P == d.off
<1>1. PICK a \in P .. g - P - 1 : \E b \in P .. h - P - 1 : LinId(d.gr2, <<k, l>>) = LinId(d.gr2, <<a, b>>)
  BY DomainCellOf
<1>2. PICK b \in P .. h - P - 1 : LinId(d.gr2, <<k, l>>) = LinId(d.gr2, <<a, b>>)
  BY <1>1
<1>3. k + g * l = a + g * b
  BY <1>2 DEF LinId
<1>4. g \in Nat /\ h \in Nat /\ P \in Nat /\ k \in 0 .. g - 1 /\ l \in 0 .. h - 1
  OBVIOUS
<1> HIDE DEF g, h, P
<1>5. k \in Int /\ l \in Int /\ a \in Int /\ b \in Int /\ k - a \in -(g - 1) .. g - 1
  BY <1>4
<1>6. k = a /\ l = b
  BY <1>3, <1>4, <1>5, StepOne
<1>7. k \in P .. g - P - 1 /\ l \in P .. h - P - 1
  BY <1>6
<1>8. QED
  BY <1>7 DEF g, h, P

\* Of a side of the part of space: where a coordinate beyond it is put.
LEMMA BeyondSide ==
  ASSUME NEW d, NEW own, NEW i \in D, NEW n, NEW a, NEW b, Apt(d.off, d, own, i, n, a, b),
         RoomIn(d, own, i, n, a, b), NEW x, x[i] \in Int,
         (own.lo[i] - d.box.lo[i]) % d.unit[i] = 0, (own.hi[i] - d.box.lo[i]) % d.unit[i] = 0,
         own.lo[i] - d.off * d.unit[i] < x[i], x[i] < own.hi[i] + d.off * d.unit[i]
  PROVE  /\ ConvertToID(d, x, i) \in 0 .. d.gr2[i] - 1
         /\ x[i] < own.lo[i] \/ own.hi[i] <= x[i]
              => ConvertToID(d, x, i) \notin d.off .. d.gr2[i] - d.off - 1
<1> DEFINE u == d.unit[i]
           P == d.off
           lo == d.box.lo[i]
           ol == own.lo[i]
           oh == own.hi[i]
           coord == x[i]
           s == d.gr2[i]
           k == ConvertToID(d, x, i)
<1>1. /\ u \in Nat \ {0} /\ P \in Nat \ {0} /\ a \in Nat /\ b \in Nat
      /\ lo \in Int /\ ol \in Int /\ oh \in Int /\ a < b
      /\ a * u <= ol - lo /\ ol - lo < a * u + u
      /\ b * u - u < oh - lo /\ oh - lo <= b * u
      /\ s = b - a + 2 * P
  BY DEF Apt, Fits
<1>2. coord \in Int /\ (ol - lo) % u = 0 /\ (oh - lo) % u = 0
  OBVIOUS
<1>3. k = FloorCell(coord - lo, u) + P - a /\ k \in 0 .. s - 1
  <2>1. k = FloorCell(coord - lo, u) + P - a
    BY PointPlaced
  <2>2. k \in 0 .. s - 1
    BY PointPlaced
  <2>3. QED
    BY <2>1, <2>2
<1> HIDE DEF u, P, lo, ol, oh, coord, s, k
<1> DEFINE q == FloorCell(coord - lo, u)
<1>4. coord - lo \in Int
  BY <1>1, <1>2
<1>5. /\ q \in Int
      /\ \A p \in Int : /\ coord - lo < p * u => q < p
                        /\ p * u <= coord - lo /\ coord - lo >= 0 => p <= q
  BY <1>1, <1>4, FloorClosed DEF ClosedIn
<1> HIDE DEF q
<1>6. ASSUME NEW z \in Int, z % u = 0 PROVE \E p \in Int : z = p * u
  <2>1. z \div u \in Int /\ z = (z \div u) * u + (z % u)
    BY <1>1, FloorFacts
  <2>2. z = (z \div u) * u
    <3> DEFINE t == (z \div u) * u
    <3>1. t \in Int /\ z = t + 0
      BY <1>1, <1>6, <2>1
    <3> HIDE DEF t
    <3>2. z = t
      BY <3>1
    <3>3. QED
      BY <3>2 DEF t
  <2>3. QED
    BY <2>1, <2>2
<1>7. a * u \in Int /\ b * u \in Int
  BY <1>1
<1>8. ol - lo = a * u
  <2> DEFINE z == ol - lo
  <2>0. z \in Int /\ z % u = 0
    BY <1>1, <1>2
  <2> HIDE DEF z
  <2>9. PICK p \in Int : z = p * u
    BY <1>6, <2>0
  <2>1. ol - lo = p * u
    BY <2>9 DEF z
  <2>2. a < p => a * u + u <= p * u
    BY <1>1, Mono
  <2>3. p < a => p * u + u <= a * u
    BY <1>1, Mono
  <2>4. p * u \in Int
    BY <1>1
  <2>5. p = a
    BY <1>1, <1>7, <2>1, <2>2, <2>3, <2>4
  <2>6. QED
    BY <2>1, <2>5
<1>9. oh - lo = b * u
  <2> DEFINE z == oh - lo
  <2>0. z \in Int /\ z % u = 0
    BY <1>1, <1>2
  <2> HIDE DEF z
  <2>9. PICK p \in Int : z = p * u
    BY <1>6, <2>0
  <2>1. oh - lo = p * u
    BY <2>9 DEF z
  <2>2. b < p => b * u + u <= p * u
    BY <1>1, Mono
  <2>3. p < b => p * u + u <= b * u
    BY <1>1, Mono
  <2>4. p * u \in Int
    BY <1>1
  <2>5. p = b
    BY <1>1, <1>7, <2>1, <2>2, <2>3, <2>4
  <2>6. QED
    BY <2>1, <2>5
<1>10. ASSUME coord < ol PROVE k \notin P .. s - P - 1
  <2>1. coord - lo < a * u
    BY <1>1, <1>2, <1>7, <1>8, <1>10
  <2>2. q < a
    BY <1>1, <1>5, <2>1
  <2>3. k < P
    BY <1>1, <1>3, <1>5, <2>2 DEF q
  <2>4. QED
    BY <1>1, <1>3, <2>3
<1>11. ASSUME oh <= coord PROVE k \notin P .. s - P - 1
  <2>1. b * u <= coord - lo /\ b * u >= 0
    <3>1. b * u \in Nat
      BY <1>1
    <3>2. QED
      BY <1>1, <1>2, <1>9, <1>11, <3>1
  <2>2. b <= q
    BY <1>1, <1>4, <1>5, <1>7, <2>1
  <2>3. k >= b + P - a
    BY <1>1, <1>3, <1>5, <2>2 DEF q
  <2>4. QED
    BY <1>1, <1>3, <2>3
<1>12. QED
  BY <1>3, <1>10, <1>11 DEF u, P, lo, ol, oh, coord, s, k

\* Where the parts end with cells, the ghosts are in no cell of the domain.
LEMMA GhostsOutside ==
  ASSUME VerletWellPosed, PartsOnCells, NEW b \in Boxes, NEW r \in Radii, NEW s \in Scenes,
         Belongs(b, s), NEW q \in 1 .. Len(s.pos), q > s.g_m
  PROVE  CellAt(SymDec(b, r), s, q) \notin DomainCells(SymDec(b, r))
<1> DEFINE d == SymDec(b, r)
           x == s.pos[q]
<1>1. \A i \in D : x[i] \in Int
  BY SceneParts DEF VerletWellPosed
<1>2. /\ ~InBox(b, x)
      /\ \A i \in D : b.lo[i] - GhostWidth <= x[i] /\ x[i] < b.hi[i] + GhostWidth
  <2>1. q \in DOMAIN s.pos /\ ~(q <= s.g_m)
    BY SceneParts DEF VerletWellPosed
  <2>2. QED
    BY <2>1 DEF Belongs
<1> HIDE DEF x
<1>3. ASSUME NEW i \in D
      PROVE  /\ ConvertToID(d, x, i) \in 0 .. d.gr2[i] - 1
             /\ x[i] < b.lo[i] \/ b.hi[i] <= x[i]
                  => ConvertToID(d, x, i) \notin d.off .. d.gr2[i] - d.off - 1
             /\ b.lo[i] \in Int /\ b.hi[i] \in Int /\ d.gr2[i] \in Nat /\ d.off \in Nat
  <2>1. /\ \E n, f, t \in Nat : Apt(d.off, d, b, i, n, f, t) /\ RoomIn(d, b, i, n, f, t)
        /\ d.off \in Nat \ {0} /\ d.unit[i] \in Nat \ {0}
        /\ GhostWidth < d.off * d.unit[i]
        /\ d.box.lo[i] = Domain.lo[i] /\ d.unit[i] = ParamCalculateSym(r).unit[i]
    BY SymRoomy
  <2>2. PICK n \in Nat, f \in Nat, t \in Nat : Apt(d.off, d, b, i, n, f, t) /\ RoomIn(d, b, i, n, f, t)
    BY <2>1
  <2>3. /\ (b.lo[i] - d.box.lo[i]) % d.unit[i] = 0
        /\ (b.hi[i] - d.box.lo[i]) % d.unit[i] = 0
    BY <2>1 DEF PartsOnCells
  <2> HIDE DEF d
  <2>4. b.lo[i] \in Int /\ b.hi[i] \in Int /\ GhostWidth \in Int
    BY DEF VerletWellPosed, PartOf
  <2>5. b.lo[i] - d.off * d.unit[i] < x[i] /\ x[i] < b.hi[i] + d.off * d.unit[i]
    <3> DEFINE z == d.off * d.unit[i]
    <3>1. z \in Int /\ GhostWidth < z
      BY <2>1
    <3> HIDE DEF z
    <3>2. x[i] \in Int /\ b.lo[i] - GhostWidth <= x[i] /\ x[i] < b.hi[i] + GhostWidth
      BY <1>1, <1>2
    <3>3. b.lo[i] - z < x[i] /\ x[i] < b.hi[i] + z
      BY <2>4, <3>1, <3>2
    <3>4. QED
      BY <3>3 DEF z
  <2>6. x[i] \in Int
    BY <1>1
  <2>7. /\ ConvertToID(d, x, i) \in 0 .. d.gr2[i] - 1
        /\ x[i] < b.lo[i] \/ b.hi[i] <= x[i]
             => ConvertToID(d, x, i) \notin d.off .. d.gr2[i] - d.off - 1
    BY <2>2, <2>3, <2>5, <2>6, BeyondSide
  <2>8. d.gr2[i] \in Nat
    <3>1. d.gr2[i] = t - f + 2 * d.off /\ f < t /\ d.off \in Nat
      BY <2>1, <2>2 DEF RoomIn, Room
    <3>2. QED
      BY <3>1
  <2>9. QED
    BY <2>1, <2>4, <2>7, <2>8
<1> HIDE DEF d
<1>4. PICK i \in D : x[i] < b.lo[i] \/ b.hi[i] <= x[i]
  <2>1. PICK i \in D : ~(b.lo[i] <= x[i] /\ x[i] < b.hi[i])
    BY <1>2 DEF InBox
  <2>2. b.lo[i] \in Int /\ b.hi[i] \in Int /\ x[i] \in Int
    BY <1>1, <1>3
  <2>3. QED
    BY <2>1, <2>2
<1>5. ConvertToID(d, x, i) \notin d.off .. d.gr2[i] - d.off - 1
  BY <1>3, <1>4
<1>6. GetCell(d, x) = LinId(d.gr2, <<ConvertToID(d, x, 1), ConvertToID(d, x, 2)>>)
  BY DEF GetCell, LinId, D
<1>7. 1 \in D /\ 2 \in D /\ (i = 1 \/ i = 2)
  BY DEF D
<1>8. GetCell(d, x) \notin DomainCells(d)
  <2>1. SUFFICES ASSUME GetCell(d, x) \in DomainCells(d) PROVE FALSE
    OBVIOUS
  <2> DEFINE k == ConvertToID(d, x, 1)
             l == ConvertToID(d, x, 2)
  <2>2. /\ k \in 0 .. d.gr2[1] - 1 /\ l \in 0 .. d.gr2[2] - 1
        /\ d.off \in Nat /\ d.gr2[1] \in Nat /\ d.gr2[2] \in Nat
    BY <1>3, <1>7
  <2>3. LinId(d.gr2, <<k, l>>) \in DomainCells(d)
    BY <1>6, <2>1
  <2>4. k \notin d.off .. d.gr2[1] - d.off - 1 \/ l \notin d.off .. d.gr2[2] - d.off - 1
    BY <1>5, <1>7
  <2> HIDE DEF k, l
  <2>5. QED
    BY <2>2, <2>3, <2>4, DomainCellKeys
<1>9. QED
  BY <1>8 DEF CellAt, d, x

-----------------------------------------------------------------------------
(* Verlet lists: what holds of every list. *)

\* The cell list inside is new or one of those a program makes.
CellsFit(cli) == cli = NoCells \/ MadeFor(cli.dec, cli.own)

\* What a list was built from.
MadeOK(m) ==
  /\ MadeFor(m.dec, m.own)
  /\ m.s \in Scenes /\ m.s2 \in Scenes /\ m.r \in Nat \ {0}
  /\ m.kind \in {"full", "radius", "sym", "crs"}
  /\ m.kind = "crs" => \E r \in Radii : m.dec = SymDec(m.own, r)

FullOK(ver, m) ==
  /\ DOMAIN ver = 1 .. m.s.g_m
  /\ \A p \in 1 .. m.s.g_m : ExactList(ver[p], m.s.pos[p], m.s2.pos, m.r)

HalfOK(ver, m) ==
  /\ m.s2 = m.s
  /\ DOMAIN ver = 1 .. End(m.kind, m.s)
  /\ \A p \in DOMAIN ver : ver[p] \in Seq(1 .. Len(m.s.pos))
  /\ \A p \in 1 .. m.s.g_m : HalfList(ver[p], m.dec, m.s, p, m.r)

\* The sequence names the particles of the processor, each once.
SequenceOK(dp, m) ==
  /\ dp \in Seq(1 .. Len(m.s.pos))
  /\ \A p \in 1 .. Len(m.s.pos) : IF p <= m.s.g_m THEN Once(dp, p) ELSE Absent(dp, p)

ListOK(w) ==
  /\ w = [ver |-> w.ver, dp |-> w.dp, cli |-> w.cli, made |-> w.made]
  /\ w.dp \in Seq(Nat)
  /\ CellsFit(w.cli)
  /\ \/ w.made = NotMade
     \/ /\ MadeOK(w.made)
        /\ w.made.kind \in {"full", "radius"} => FullOK(w.ver, w.made)
        /\ w.made.kind \in {"sym", "crs"} => HalfOK(w.ver, w.made)
        /\ w.made.kind = "crs" /\ PartsOnCells => SequenceOK(w.dp, w.made)

ListsInv == vl = [l \in Lists |-> vl[l]] /\ \A l \in Lists : ListOK(vl[l])

\* A list made by create is as it should be.
LEMMA CreatedOK ==
  ASSUME VerletWellPosed, NEW d, NEW own, MadeFor(d, own), NEW s \in Scenes, NEW s2 \in Scenes,
         Belongs(own, s), NEW r \in Nat \ {0}, NEW kind \in {"full", "radius", "sym"},
         kind = "sym" => s2 = s,
         IF kind = "radius" THEN d.gr = d.gr2 /\ \A i \in D : r <= d.off * d.unit[i]
                            ELSE \A i \in D : r <= d.unit[i],
         NEW cl, cl.dec = d, cl.own = own, Sorted(d, s2, cl.cells), NEW cli, CellsFit(cli)
  PROVE  ListOK([ver |-> Created(cl, s, s2, r, kind), dp |-> <<>>, cli |-> cli,
                 made |-> Made(kind, s, s2, r, cl)])
<1> DEFINE ver == Created(cl, s, s2, r, kind)
           m == Made(kind, s, s2, r, cl)
           w == [ver |-> ver, dp |-> <<>>, cli |-> cli, made |-> m]
<1>1. ScenesOK /\ Roomy(d, own)
  BY MadeRoomy DEF VerletWellPosed
<1>2. /\ m.dec = d /\ m.own = own /\ m.s = s /\ m.s2 = s2 /\ m.r = r /\ m.kind = kind
      /\ MadeOK(m)
  BY DEF Made, MadeOK
<1>3. /\ d.off \in Nat \ {0} /\ (\A i \in D : d.unit[i] \in Nat \ {0})
      /\ Cells(d) \subseteq Int /\ DomainCells(d) \subseteq Cells(d)
  BY <1>1, StencilTypes
<1>4. /\ s.g_m \in 0 .. Len(s.pos) /\ Len(s.pos) \in Nat /\ DOMAIN s2.pos = 1 .. Len(s2.pos)
      /\ \A p \in 1 .. Len(s.pos) : \A i \in D : s.pos[p][i] \in Int
  BY <1>1, SceneParts
<1>5. \A i \in D : r <= d.off * d.unit[i]
  <2>1. CASE kind = "radius"
    BY <2>1
  <2>2. CASE kind # "radius"
    <3> SUFFICES ASSUME NEW i \in D PROVE r <= d.off * d.unit[i]
      OBVIOUS
    <3> DEFINE u == d.unit[i]
    <3>1. u \in Nat \ {0} /\ r <= u /\ d.off \in Nat \ {0}
      BY <1>3, <2>2
    <3> HIDE DEF u
    <3>2. 1 * u <= d.off * u
      BY <3>1, Mono
    <3>3. d.off * u \in Int
      BY <3>1
    <3>4. r <= d.off * u
      BY <3>1, <3>2, <3>3
    <3>5. QED
      BY <3>4 DEF u
  <2>3. QED
    BY <2>1, <2>2
<1>6. ASSUME NEW p \in 1 .. s.g_m
      PROVE  /\ p \in 1 .. Len(s.pos) /\ GetCell(d, s.pos[p]) \in DomainCells(d)
             /\ GetCell(d, s.pos[p]) \in Int
             /\ \A i \in D : /\ s.pos[p][i] \in Int
                             /\ own.lo[i] <= s.pos[p][i] /\ s.pos[p][i] < own.hi[i]
  BY <1>1, <1>3, <1>4, OwnCell DEF CellAt
<1>7. ver = [p \in 1 .. s.g_m |-> ver[p]]
  BY DEF Created, End
<1>8. ASSUME kind \in {"full", "radius"} PROVE FullOK(ver, m)
  <2> DEFINE st == IF kind = "full" THEN NNcFull(d.gr2) ELSE NNcRad(d, r)
  <2>1. Complete(st, d, r)
    BY <1>1, <1>8, StencilsComplete
  <2>2. ASSUME NEW p \in 1 .. s.g_m
        PROVE  ver[p] = WithinCut(Walk(cl.cells, GetCell(d, s.pos[p]), st), s.pos[p], s2.pos, r)
    BY <1>8 DEF Created, End
  <2> HIDE DEF st, ver
  <2>3. ASSUME NEW p \in 1 .. s.g_m PROVE ExactList(ver[p], s.pos[p], s2.pos, r)
    <3> DEFINE x == s.pos[p]
    <3>1. GetCell(d, x) \in Int
      BY <1>6
    <3>2. \A i \in D : x[i] \in Int
      BY <1>6
    <3>3. \A i \in D : own.lo[i] <= x[i] /\ x[i] < own.hi[i]
      BY <1>6
    <3>4. ver[p] = WithinCut(Walk(cl.cells, GetCell(d, x), st), x, s2.pos, r)
      BY <2>2
    <3> HIDE DEF x
    <3>5. ExactList(WithinCut(Walk(cl.cells, GetCell(d, x), st), x, s2.pos, r), x, s2.pos, r)
      BY <1>1, <1>5, <2>1, <3>1, <3>2, <3>3, FullList
    <3>6. QED
      BY <3>4, <3>5 DEF x
  <2>4. DOMAIN ver = 1 .. s.g_m
    BY <1>7
  <2> HIDE DEF m
  <2>5. QED
    BY <1>2, <2>3, <2>4 DEF FullOK
<1>9. ASSUME kind = "sym" PROVE HalfOK(ver, m)
  <2> DEFINE L(p) == WithinCut(SymNear(cl.cells, CellAt(d, s, p), s.pos, p, NNcSym(d.gr2)),
                               s.pos[p], s.pos, r)
  <2>1. ASSUME NEW p \in 1 .. s.g_m PROVE ver[p] = L(p)
    BY <1>9 DEF Created, End, CellAt
  <2> HIDE DEF ver
  <2>2. \A p \in 1 .. s.g_m : HalfList(L(p), d, s, p, r)
    BY <1>1, <1>9, SymList
  <2> HIDE DEF L
  <2>3. DOMAIN ver = 1 .. s.g_m /\ End(m.kind, m.s) = s.g_m
    BY <1>2, <1>7, <1>9 DEF End
  <2>4. \A p \in 1 .. s.g_m : HalfList(ver[p], d, s, p, r) /\ ver[p] \in Seq(1 .. Len(s.pos))
    BY <2>1, <2>2 DEF HalfList
  <2> HIDE DEF m
  <2>5. QED
    BY <1>2, <1>9, <2>3, <2>4 DEF HalfOK
<1>10. <<>> \in Seq(Nat)
  OBVIOUS
<1>11. w = [ver |-> w.ver, dp |-> w.dp, cli |-> w.cli, made |-> w.made] /\ w.ver = ver
       /\ w.dp = <<>> /\ w.cli = cli /\ w.made = m
  OBVIOUS
<1> HIDE DEF w, m, ver
<1>12. ListOK(w)
  BY <1>2, <1>8, <1>9, <1>10, <1>11 DEF ListOK
<1>13. QED
  BY <1>12 DEF w, m, ver

\* A CRS list made by create is as it should be.
LEMMA CrsBuiltOK ==
  ASSUME VerletWellPosed, NEW own \in Boxes, NEW r0 \in Radii, NEW s \in Scenes, Belongs(own, s),
         NEW r \in Nat \ {0}, \A i \in D : r <= SymDec(own, r0).unit[i],
         NEW cl, cl.dec = SymDec(own, r0), cl.own = own, Sorted(cl.dec, s, cl.cells),
         2 \in 1 .. Cardinality(DomainCells(cl.dec))
  PROVE  ListOK(BuiltCrs(cl, s, r, CrsOrder(cl.dec, 2)))
<1> DEFINE d == SymDec(own, r0)
           order == CrsOrder(d, 2)
           ver == CreatedCrs(cl, s, r, order)
           dp == CrsSequence(cl.cells, order)
           m == Made("crs", s, s, r, cl)
           w == [ver |-> ver, dp |-> dp, cli |-> cl, made |-> m]
<1>1. ScenesOK /\ MadeFor(d, own) /\ Roomy(d, own)
  BY MadeRoomy DEF VerletWellPosed, MadeFor
<1>2. /\ m.dec = d /\ m.own = own /\ m.s = s /\ m.s2 = s /\ m.r = r /\ m.kind = "crs"
      /\ MadeOK(m)
  BY <1>1 DEF Made, MadeOK
<1>3. DomainCells(d) \subseteq Cells(d)
  BY <1>1, StencilTypes
<1>4. s.g_m \in 0 .. Len(s.pos) /\ Len(s.pos) \in Nat
  BY <1>1, SceneParts
<1>5. \A p \in 1 .. s.g_m : CellAt(d, s, p) \in DomainCells(d)
  BY <1>1, OwnCell
<1>6. ASSUME PartsOnCells, NEW p \in 1 .. Len(s.pos), p > s.g_m
      PROVE  CellAt(d, s, p) \notin DomainCells(d)
  BY <1>6, GhostsOutside
<1>7. cl.dec = d /\ (\A i \in D : r <= d.unit[i]) /\ Sorted(d, s, cl.cells)
  OBVIOUS
<1>8. CellsFit(cl)
  BY <1>1 DEF CellsFit
<1>9. BuiltCrs(cl, s, r, CrsOrder(cl.dec, 2)) = w
  BY DEF BuiltCrs
<1>10. OrderOK(d, order)
  BY <1>1, CrsOrderIs
<1> HIDE DEF d, order
<1>11. HalfOK(ver, m)
  <2>1. /\ DOMAIN ver = 1 .. Len(s.pos)
        /\ \A p \in 1 .. Len(s.pos) : ver[p] \in Seq(1 .. Len(s.pos))
        /\ \A p \in 1 .. s.g_m : HalfList(ver[p], d, s, p, r)
    BY <1>1, <1>7, <1>10, CrsLists
  <2> HIDE DEF ver
  <2>2. End(m.kind, m.s) = Len(s.pos)
    BY <1>2 DEF End
  <2> HIDE DEF m
  <2>3. QED
    BY <1>2, <2>1, <2>2 DEF HalfOK
<1>12. /\ dp \in Seq(1 .. Len(s.pos))
       /\ \A p \in 1 .. Len(s.pos) :
            IF CellAt(d, s, p) \in DomainCells(d) /\ CellAt(d, s, p) \in Cells(d)
            THEN Once(dp, p) ELSE Absent(dp, p)
  BY <1>7, <1>10, SequenceOnce
<1> HIDE DEF dp, m, ver
<1>13. dp \in Seq(Nat)
  <2>1. 1 .. Len(s.pos) \subseteq Nat
    BY <1>4
  <2>2. QED
    BY <1>12, <2>1
<1>14. PartsOnCells => SequenceOK(dp, m)
  BY <1>2, <1>3, <1>4, <1>5, <1>6, <1>12 DEF SequenceOK
<1>15. w = [ver |-> w.ver, dp |-> w.dp, cli |-> w.cli, made |-> w.made] /\ w.ver = ver
       /\ w.dp = dp /\ w.cli = cl /\ w.made = m
  OBVIOUS
<1> HIDE DEF w
<1>16. ListOK(w)
  BY <1>2, <1>8, <1>11, <1>13, <1>14, <1>15 DEF ListOK
<1>17. QED
  BY <1>9, <1>16

\* A list that is built is put among the others.
LEMMA BuiltInv ==
  ASSUME ListsInv, NEW l \in Lists, NEW w, ListOK(w), vl' = [vl EXCEPT ![l] = w]
  PROVE  ListsInv'
<1>1. /\ vl = [k \in Lists |-> vl[k]] /\ \A k \in Lists : ListOK(vl[k])
  BY DEF ListsInv
<1>2. \A k \in Lists : vl'[k] = IF k = l THEN w ELSE vl[k]
  BY <1>1
<1>3. vl' = [k \in Lists |-> vl'[k]]
  BY <1>1, <1>2
<1>4. \A k \in Lists : ListOK(vl'[k])
  BY <1>1, <1>2
<1>5. \A k \in Lists : ListOK(vl[k])'
  BY <1>4 DEF ListOK, CellsFit, MadeOK, FullOK, HalfOK, SequenceOK
<1>6. QED
  BY <1>3, <1>5 DEF ListsInv

\* What holds of a list that was built.
LEMMA MadeParts ==
  ASSUME ListsInv, NEW l \in Lists
  PROVE  /\ ListOK(vl[l])
         /\ vl[l].made # NotMade => MadeOK(vl[l].made)
         /\ vl[l].cli # NoCells => MadeFor(vl[l].cli.dec, vl[l].cli.own)
         /\ vl[l] = [ver |-> vl[l].ver, dp |-> vl[l].dp, cli |-> vl[l].cli, made |-> vl[l].made]
  BY DEF ListsInv, ListOK, CellsFit

-----------------------------------------------------------------------------
(* Verlet lists: every operation keeps it. *)

LEMMA ScenePartsOfList ==
  ASSUME VerletWellPosed
  PROVE  ScenesOK /\ Radii \subseteq Nat \ {0} /\ GridsOK
  BY DEF VerletWellPosed

LEMMA InitializeInv ==
  ASSUME VerletWellPosed, ListsInv, NEW l \in Lists, NEW b \in Boxes, NEW r \in Radii,
         NEW s \in Scenes, NEW kind \in {"full", "sym"}, Initialize(l, b, r, s, kind)
  PROVE  ListsInv'
<1> DEFINE d == ParamCalculate(b, r)
           cl == CellListOf(d, b, s, kind)
           w == [ver |-> Created(cl, s, s, r, kind), dp |-> <<>>, cli |-> cl,
                 made |-> Made(kind, s, s, r, cl)]
<1>1. Belongs(b, s) /\ vl' = [vl EXCEPT ![l] = w]
  BY DEF Initialize, Build
<1>2. ScenesOK /\ r \in Nat \ {0}
  BY ScenePartsOfList
<1>3. MadeFor(d, b) /\ Roomy(d, b) /\ \A i \in D : r <= d.unit[i]
  BY <1>2, CalculateRoomy DEF MadeFor
<1> HIDE DEF d
<1>4. Sorted(d, s, PopulateCellList(d, s, kind))
  BY <1>1, <1>2, <1>3, PopulateSorts
<1>5. cl.dec = d /\ cl.own = b /\ Sorted(d, s, cl.cells)
  BY <1>4 DEF CellListOf
<1> HIDE DEF cl
<1>6. CellsFit(cl)
  BY <1>3, <1>5 DEF CellsFit
<1>7. ListOK(w)
  BY <1>1, <1>2, <1>3, <1>5, <1>6, CreatedOK
<1> HIDE DEF w
<1>8. QED
  BY <1>1, <1>7, BuiltInv

LEMMA SymCellsFit ==
  ASSUME VerletWellPosed, NEW b \in Boxes, NEW r \in Radii, NEW s \in Scenes, Belongs(b, s)
  PROVE  LET cl == SymCells(b, r, s)
         IN  /\ cl.dec = SymDec(b, r) /\ cl.own = b /\ Sorted(cl.dec, s, cl.cells) /\ CellsFit(cl)
             /\ MadeFor(cl.dec, b) /\ \A i \in D : r <= cl.dec.unit[i]
<1> DEFINE d == SymDec(b, r)
           cl == SymCells(b, r, s)
<1>1. ScenesOK
  BY ScenePartsOfList
<1>2. MadeFor(d, b) /\ \A i \in D : r <= d.unit[i]
  BY SymRoomy DEF MadeFor
<1>3. Roomy(d, b)
  BY <1>2, MadeRoomy
<1>4. Sorted(d, s, PopulateCellList(d, s, "sym"))
  BY <1>1, <1>3, PopulateSorts
<1>5. cl.dec = d /\ cl.own = b /\ Sorted(d, s, cl.cells)
  BY <1>4 DEF SymCells, CellListOf
<1> HIDE DEF cl, d
<1>6. QED
  BY <1>2, <1>5 DEF CellsFit, cl, d

LEMMA InitializeSymInv ==
  ASSUME VerletWellPosed, ListsInv, NEW l \in Lists, NEW b \in Boxes, NEW r \in Radii,
         NEW s \in Scenes, InitializeSym(l, b, r, s)
  PROVE  ListsInv'
<1> DEFINE cl == SymCells(b, r, s)
           w == [ver |-> Created(cl, s, s, r, "sym"), dp |-> <<>>, cli |-> cl,
                 made |-> Made("sym", s, s, r, cl)]
<1>1. Belongs(b, s) /\ vl' = [vl EXCEPT ![l] = w]
  BY DEF InitializeSym, Build
<1>2. r \in Nat \ {0}
  BY ScenePartsOfList
<1>3. /\ cl.own = b /\ Sorted(cl.dec, s, cl.cells) /\ CellsFit(cl)
      /\ MadeFor(cl.dec, b) /\ \A i \in D : r <= cl.dec.unit[i]
  BY <1>1, SymCellsFit
<1> HIDE DEF cl
<1>4. ListOK(w)
  BY <1>1, <1>2, <1>3, CreatedOK
<1> HIDE DEF w
<1>5. QED
  BY <1>1, <1>4, BuiltInv

LEMMA InitializeCrsInv ==
  ASSUME VerletWellPosed, ListsInv, NEW l \in Lists, NEW b \in Boxes, NEW r \in Radii,
         NEW s \in Scenes, InitializeCrs(l, b, r, s)
  PROVE  ListsInv'
<1> DEFINE cl == SymCells(b, r, s)
           w == [ver |-> vl[l].ver, dp |-> vl[l].dp, cli |-> cl, made |-> vl[l].made]
<1>1. Belongs(b, s) /\ vl' = [vl EXCEPT ![l].cli = cl]
  BY DEF InitializeCrs
<1>2. CellsFit(cl)
  BY <1>1, SymCellsFit
<1>3. /\ ListOK(vl[l]) /\ vl = [k \in Lists |-> vl[k]]
      /\ vl[l] = [ver |-> vl[l].ver, dp |-> vl[l].dp, cli |-> vl[l].cli, made |-> vl[l].made]
  BY MadeParts DEF ListsInv
<1> HIDE DEF cl
<1>4. [vl[l] EXCEPT !.cli = cl] = w
  BY <1>3
<1>5. vl' = [vl EXCEPT ![l] = w]
  BY <1>1, <1>3, <1>4
<1>6. w = [ver |-> w.ver, dp |-> w.dp, cli |-> w.cli, made |-> w.made] /\ w.ver = vl[l].ver
       /\ w.dp = vl[l].dp /\ w.cli = cl /\ w.made = vl[l].made
  OBVIOUS
<1> HIDE DEF w
<1>7. ListOK(w)
  BY <1>2, <1>3, <1>6 DEF ListOK
<1>8. QED
  BY <1>5, <1>7, BuiltInv

LEMMA CreateVerletCrsInv ==
  ASSUME VerletWellPosed, ListsInv, NEW l \in Lists, NEW r \in Radii, NEW s \in Scenes,
         CreateVerletCrs(l, r, s, 2)
  PROVE  ListsInv'
<1> DEFINE cl == vl[l].cli
           b == cl.own
           w == BuiltCrs(cl, s, r, CrsOrder(cl.dec, 2))
<1>1. /\ cl # NoCells /\ Belongs(b, s) /\ cl = SymCells(b, r, s)
      /\ 2 \in 1 .. Cardinality(DomainCells(cl.dec)) /\ vl' = [vl EXCEPT ![l] = w]
  BY DEF CreateVerletCrs, CreateCrs
<1>2. b \in Boxes /\ r \in Nat \ {0}
  BY <1>1, MadeParts, ScenePartsOfList DEF MadeFor
<1>3. /\ cl.dec = SymDec(b, r) /\ Sorted(cl.dec, s, cl.cells)
      /\ \A i \in D : r <= cl.dec.unit[i]
  BY <1>1, <1>2, SymCellsFit
<1>4. cl.own = b
  OBVIOUS
<1> HIDE DEF b, cl
<1>5. ListOK(w)
  BY <1>1, <1>2, <1>3, <1>4, CrsBuiltOK
<1> HIDE DEF w
<1>6. QED
  BY <1>1, <1>5, BuiltInv

\* What an update starts from.
LEMMA MayUpdateIs ==
  ASSUME VerletWellPosed, ~OfAnother, ListsInv, NEW l \in Lists, NEW r \in Radii, NEW s \in Scenes,
         MayUpdate(l, r, s), NEW opt
  PROVE  LET d == vl[l].cli.dec
             own == vl[l].made.own
             cl == CellListOf(d, own, s, opt)
         IN  /\ d = vl[l].made.dec /\ MadeFor(d, own) /\ own \in Boxes /\ MadeOK(vl[l].made)
             /\ Belongs(own, s) /\ \A i \in D : r <= d.unit[i]
             /\ cl.dec = d /\ cl.own = own /\ Sorted(d, s, cl.cells) /\ CellsFit(cl)
             /\ r \in Nat \ {0}
<1> DEFINE d == vl[l].cli.dec
           own == vl[l].made.own
           cl == CellListOf(d, own, s, opt)
<1>1. /\ vl[l].made # NotMade /\ d = vl[l].made.dec /\ Belongs(own, s)
      /\ \A i \in D : r <= d.unit[i]
  BY DEF MayUpdate, OwnCells
<1>2. MadeOK(vl[l].made)
  BY <1>1, MadeParts
<1>3. MadeFor(d, own) /\ own \in Boxes
  BY <1>1, <1>2 DEF MadeOK, MadeFor
<1>4. ScenesOK /\ Roomy(d, own) /\ r \in Nat \ {0}
  BY <1>3, MadeRoomy, ScenePartsOfList
<1>5. Sorted(d, s, PopulateCellList(d, s, opt))
  BY <1>1, <1>4, PopulateSorts
<1>6. cl.dec = d /\ cl.own = own /\ Sorted(d, s, cl.cells)
  BY <1>5 DEF CellListOf
<1>7. CellsFit(cl)
  BY <1>3, <1>6 DEF CellsFit
<1> HIDE DEF cl, d, own
<1>8. QED
  BY <1>1, <1>2, <1>3, <1>4, <1>6, <1>7 DEF cl, d, own

LEMMA UpdateInv ==
  ASSUME VerletWellPosed, ~OfAnother, ListsInv, NEW l \in Lists, NEW r \in Radii, NEW s \in Scenes,
         NEW kind \in {"full", "sym"}, Update(l, r, s, kind)
  PROVE  ListsInv'
<1> DEFINE d == vl[l].cli.dec
           own == vl[l].made.own
           cl == CellListOf(d, own, s, kind)
           w == [ver |-> Created(cl, s, s, r, kind), dp |-> <<>>, cli |-> cl,
                 made |-> Made(kind, s, s, r, cl)]
<1>1. MayUpdate(l, r, s) /\ vl' = [vl EXCEPT ![l] = w]
  BY DEF Update, Build
<1>2. /\ MadeFor(d, own) /\ Belongs(own, s) /\ (\A i \in D : r <= d.unit[i])
      /\ cl.dec = d /\ cl.own = own /\ Sorted(d, s, cl.cells) /\ CellsFit(cl)
      /\ r \in Nat \ {0}
  BY <1>1, MayUpdateIs
<1> HIDE DEF cl, d, own
<1>3. ListOK(w)
  BY <1>2, CreatedOK
<1> HIDE DEF w
<1>4. QED
  BY <1>1, <1>3, BuiltInv

LEMMA UpdateCrsInv ==
  ASSUME VerletWellPosed, ~OfAnother, ListsInv, NEW l \in Lists, NEW r \in Radii, NEW s \in Scenes,
         UpdateCrs(l, r, s, 2)
  PROVE  ListsInv'
<1> DEFINE d == vl[l].cli.dec
           own == vl[l].made.own
           cl == CellListOf(d, own, s, "sym")
           w == BuiltCrs(cl, s, r, CrsOrder(cl.dec, 2))
<1>1. /\ MayUpdate(l, r, s) /\ vl[l].made.kind = "crs"
      /\ 2 \in 1 .. Cardinality(DomainCells(cl.dec)) /\ vl' = [vl EXCEPT ![l] = w]
  BY DEF UpdateCrs
<1>2. /\ d = vl[l].made.dec /\ own \in Boxes /\ MadeOK(vl[l].made)
      /\ Belongs(own, s) /\ (\A i \in D : r <= d.unit[i])
      /\ cl.dec = d /\ cl.own = own /\ Sorted(d, s, cl.cells)
      /\ r \in Nat \ {0}
  BY <1>1, MayUpdateIs
<1>3. PICK r0 \in Radii : d = SymDec(own, r0)
  BY <1>1, <1>2 DEF MadeOK
<1> HIDE DEF cl, d, own
<1>4. ListOK(w)
  BY <1>1, <1>2, <1>3, CrsBuiltOK
<1> HIDE DEF w
<1>5. QED
  BY <1>1, <1>4, BuiltInv

LEMMA InitializeExternalInv ==
  ASSUME VerletWellPosed, ListsInv, NEW l \in Lists, NEW e \in External, NEW s \in Scenes,
         NEW s2 \in Scenes, InitializeExternal(l, e, s, s2)
  PROVE  ListsInv'
<1> DEFINE d == Decomposed(e.box, e.div, e.pad)
           cl == CellListOf(d, e.box, s2, "full")
           kind == IF \A i \in D : e.r <= d.unit[i] THEN "full" ELSE "radius"
           w == [ver |-> Created(cl, s, s2, e.r, kind), dp |-> <<>>, cli |-> vl[l].cli,
                 made |-> Made(kind, s, s2, e.r, cl)]
<1>1. cl.dec = d /\ cl.own = e.box
  BY DEF CellListOf
<1>2. Belongs(e.box, s) /\ Belongs(e.box, s2) /\ vl' = [vl EXCEPT ![l] = w]
  BY <1>1 DEF InitializeExternal, Build
<1>3. /\ ScenesOK /\ e.box \in Boxes /\ e.r \in Nat \ {0}
      /\ \A i \in D : e.r <= e.pad * (Sides(e.box)[i] \div e.div[i])
  BY ScenePartsOfList DEF GridsOK
<1>4. MadeFor(d, e.box) /\ Roomy(d, e.box)
  BY <1>3, MadeRoomy DEF MadeFor
<1>5. d.gr = d.gr2 /\ \A i \in D : e.r <= d.off * d.unit[i]
  BY <1>3 DEF Decomposed, Sides
<1> HIDE DEF d
<1>6. Sorted(d, s2, PopulateCellList(d, s2, "full"))
  BY <1>2, <1>3, <1>4, PopulateSorts
<1>7. Sorted(d, s2, cl.cells)
  BY <1>6 DEF CellListOf
<1> HIDE DEF cl
<1>8. CellsFit(vl[l].cli)
  BY MadeParts DEF ListOK
<1>9. /\ kind \in {"full", "radius"}
      /\ IF kind = "radius" THEN d.gr = d.gr2 /\ \A i \in D : e.r <= d.off * d.unit[i]
                            ELSE \A i \in D : e.r <= d.unit[i]
  BY <1>5
<1> HIDE DEF kind
<1>10. ListOK(w)
  BY <1>1, <1>2, <1>3, <1>4, <1>7, <1>8, <1>9, CreatedOK
<1> HIDE DEF w
<1>11. QED
  BY <1>2, <1>10, BuiltInv

LEMMA NewOK == ListOK(New)
<1>1. <<>> \in Seq(Nat)
  OBVIOUS
<1>2. New = [ver |-> New.ver, dp |-> New.dp, cli |-> New.cli, made |-> New.made]
      /\ New.dp = <<>> /\ New.cli = NoCells /\ New.made = NotMade
  BY DEF New
<1>3. QED
  BY <1>1, <1>2 DEF ListOK, CellsFit

LEMMA CopyInv ==
  ASSUME ListsInv, NEW l \in Lists, NEW m \in Lists, Copy(l, m)
  PROVE  ListsInv'
<1>1. ListOK(vl[m]) /\ vl' = [vl EXCEPT ![l] = vl[m]]
  BY MadeParts DEF Copy
<1> DEFINE w == vl[m]
<1>2. ListOK(w) /\ vl' = [vl EXCEPT ![l] = w]
  BY <1>1
<1> HIDE DEF w
<1>3. QED
  BY <1>2, BuiltInv

\* Two lists are given.
LEMMA TwoGiven ==
  ASSUME ListsInv, NEW l \in Lists, NEW m \in Lists, NEW w, NEW z, ListOK(w), ListOK(z),
         vl' = [vl EXCEPT ![l] = w, ![m] = z]
  PROVE  ListsInv'
<1>1. /\ vl = [k \in Lists |-> vl[k]] /\ \A k \in Lists : ListOK(vl[k])
  BY DEF ListsInv
<1>2. \A k \in Lists : vl'[k] = IF k = m THEN z ELSE IF k = l THEN w ELSE vl[k]
  BY <1>1
<1>3. vl' = [k \in Lists |-> vl'[k]]
  BY <1>1, <1>2
<1>4. \A k \in Lists : ListOK(vl'[k])
  BY <1>1, <1>2
<1>5. \A k \in Lists : ListOK(vl[k])'
  BY <1>4 DEF ListOK, CellsFit, MadeOK, FullOK, HalfOK, SequenceOK
<1>6. QED
  BY <1>3, <1>5 DEF ListsInv

LEMMA TakeInv ==
  ASSUME ListsInv, NEW l \in Lists, NEW m \in Lists, Take(l, m)
  PROVE  ListsInv'
<1> DEFINE w == [ver |-> vl[m].ver, dp |-> vl[m].dp, cli |-> vl[l].cli, made |-> vl[m].made]
<1>1. /\ ListOK(vl[l]) /\ ListOK(vl[m])
      /\ vl[m] = [ver |-> vl[m].ver, dp |-> vl[m].dp, cli |-> vl[m].cli, made |-> vl[m].made]
  BY MadeParts
<1>2. [vl[m] EXCEPT !.cli = vl[l].cli] = w
  BY <1>1
<1>3. vl' = [vl EXCEPT ![l] = w, ![m] = New]
  BY <1>2 DEF Take
<1>4. w = [ver |-> w.ver, dp |-> w.dp, cli |-> w.cli, made |-> w.made] /\ w.ver = vl[m].ver
       /\ w.dp = vl[m].dp /\ w.cli = vl[l].cli /\ w.made = vl[m].made
  OBVIOUS
<1> HIDE DEF w
<1>5. ListOK(w)
  BY <1>1, <1>4 DEF ListOK
<1>6. QED
  BY <1>3, <1>5, NewOK, TwoGiven

LEMMA SwapInv ==
  ASSUME ListsInv, NEW l \in Lists, NEW m \in Lists, Swap(l, m)
  PROVE  ListsInv'
<1> DEFINE w == vl[m]
           z == vl[l]
<1>1. ListOK(w) /\ ListOK(z) /\ vl' = [vl EXCEPT ![l] = w, ![m] = z]
  BY MadeParts DEF Swap
<1> HIDE DEF w, z
<1>2. QED
  BY <1>1, TwoGiven

LEMMA ClearInv ==
  ASSUME ListsInv, NEW l \in Lists, Clear(l)
  PROVE  ListsInv'
<1> DEFINE e == [p \in DOMAIN vl[l].ver |-> <<>>]
           w == [ver |-> e, dp |-> vl[l].dp, cli |-> vl[l].cli, made |-> NotMade]
<1>1. /\ ListOK(vl[l]) /\ vl = [k \in Lists |-> vl[k]]
      /\ vl[l] = [ver |-> vl[l].ver, dp |-> vl[l].dp, cli |-> vl[l].cli, made |-> vl[l].made]
  BY MadeParts DEF ListsInv
<1>2. vl' = [vl EXCEPT ![l].ver = e, ![l].made = NotMade]
  BY DEF Clear
<1> HIDE DEF e
<1>3. vl' = [vl EXCEPT ![l] = w]
  <2> DEFINE w1 == [ver |-> e, dp |-> vl[l].dp, cli |-> vl[l].cli, made |-> vl[l].made]
  <2>0. [vl[l] EXCEPT !.ver = e] = w1
    BY <1>1
  <2>9. [w1 EXCEPT !.made = NotMade] = w
    OBVIOUS
  <2>1. [[vl[l] EXCEPT !.ver = e] EXCEPT !.made = NotMade] = w
    BY <2>0, <2>9
  <2>2. [vl EXCEPT ![l].ver = e, ![l].made = NotMade]
           = [vl EXCEPT ![l] = [[vl[l] EXCEPT !.ver = e] EXCEPT !.made = NotMade]]
    BY <1>1
  <2>3. QED
    BY <1>2, <2>1, <2>2
<1>4. w = [ver |-> w.ver, dp |-> w.dp, cli |-> w.cli, made |-> w.made] /\ w.ver = e
       /\ w.dp = vl[l].dp /\ w.cli = vl[l].cli /\ w.made = NotMade
  OBVIOUS
<1> HIDE DEF w
<1>5. ListOK(w)
  BY <1>1, <1>4 DEF ListOK
<1>6. QED
  BY <1>3, <1>5, BuiltInv

LEMMA ListsInitially == VerletInit => ListsInv
<1> SUFFICES ASSUME VerletInit PROVE ListsInv
  OBVIOUS
<1>1. \A l \in Lists : vl[l] = New
  BY DEF VerletInit
<1>2. vl = [l \in Lists |-> vl[l]]
  BY DEF VerletInit
<1> HIDE DEF ListOK
<1>3. QED
  BY <1>1, <1>2, NewOK DEF ListsInv

LEMMA ListsStep ==
  ASSUME VerletWellPosed, ~OfAnother, ListsInv, [VerletNext]_vl
  PROVE  ListsInv'
<1>1. CASE UNCHANGED vl
  BY <1>1 DEF ListsInv, ListOK, CellsFit, MadeOK, FullOK, HalfOK, SequenceOK
<1>2. ASSUME NEW l \in Lists, NEW r \in Radii, NEW s \in Scenes, NEW b \in Boxes,
             \/ \E kind \in {"full", "sym"} : Initialize(l, b, r, s, kind)
             \/ InitializeSym(l, b, r, s)
             \/ InitializeCrs(l, b, r, s)
      PROVE  ListsInv'
  BY <1>2, InitializeInv, InitializeSymInv, InitializeCrsInv
<1>3. ASSUME NEW l \in Lists, NEW r \in Radii, NEW s \in Scenes,
             \/ CreateVerletCrs(l, r, s, 2) \/ UpdateCrs(l, r, s, 2)
             \/ \E kind \in {"full", "sym"} : Update(l, r, s, kind)
      PROVE  ListsInv'
  BY <1>3, CreateVerletCrsInv, UpdateCrsInv, UpdateInv
<1>4. ASSUME NEW l \in Lists,
             NEW e \in External, NEW s \in Scenes, NEW s2 \in Scenes, InitializeExternal(l, e, s, s2)
      PROVE  ListsInv'
  BY <1>4, InitializeExternalInv
<1>5. ASSUME NEW l \in Lists, NEW m \in Lists, Copy(l, m) \/ Take(l, m) \/ Swap(l, m)
      PROVE  ListsInv'
  BY <1>5, CopyInv, TakeInv, SwapInv
<1>6. ASSUME NEW l \in Lists, Clear(l) PROVE ListsInv'
  BY <1>6, ClearInv
<1>7. CASE VerletNext
  BY <1>2, <1>3, <1>4, <1>5, <1>6, <1>7 DEF VerletNext
<1>8. QED
  BY <1>1, <1>7

LEMMA ListsAlways == VerletWellPosed /\ ~OfAnother => (VerletSpec => []ListsInv)
<1> SUFFICES ASSUME VerletWellPosed, ~OfAnother PROVE VerletSpec => []ListsInv
  OBVIOUS
<1>1. ListsInv /\ [VerletNext]_vl => ListsInv'
  BY ListsStep
<1>2. QED
  BY ListsInitially, <1>1, PTL DEF VerletSpec

-----------------------------------------------------------------------------
(* Verlet lists: what the lists are then. *)

LEMMA ListsTyped == VerletWellPosed /\ ListsInv => VerletTypeOK
<1> SUFFICES ASSUME VerletWellPosed, ListsInv, NEW l \in Lists
             PROVE  LET m == vl[l].made IN
                    /\ m.kind \in {"none", "full", "radius", "sym", "crs"}
                    /\ m.kind # "none" =>
                          DOMAIN vl[l].ver = 1 .. (IF m.kind = "crs" THEN Len(m.s.pos) ELSE m.s.g_m)
                    /\ m.kind # "none" =>
                          \A p \in DOMAIN vl[l].ver : vl[l].ver[p] \in Seq(DOMAIN m.s2.pos)
                    /\ vl[l].dp \in Seq(Nat)
  BY DEF VerletTypeOK
<1> DEFINE m == vl[l].made
           ver == vl[l].ver
<1>1. ListOK(vl[l])
  BY MadeParts
<1>2. CASE m = NotMade
  <2>1. m.kind = "none"
    BY <1>2 DEF NotMade, Made
  <2>2. QED
    BY <1>1, <2>1 DEF ListOK
<1>3. CASE m # NotMade
  <2>1. /\ MadeOK(m)
        /\ m.kind \in {"full", "radius"} => FullOK(ver, m)
        /\ m.kind \in {"sym", "crs"} => HalfOK(ver, m)
        /\ vl[l].dp \in Seq(Nat)
    BY <1>1, <1>3 DEF ListOK
  <2>2. m.s \in Scenes /\ m.s2 \in Scenes /\ m.kind \in {"full", "radius", "sym", "crs"}
    BY <2>1 DEF MadeOK
  <2>3. DOMAIN m.s.pos = 1 .. Len(m.s.pos) /\ DOMAIN m.s2.pos = 1 .. Len(m.s2.pos)
    BY <2>2, ScenePartsOfList, SceneParts
  <2> HIDE DEF m, ver
  <2>4. CASE m.kind \in {"full", "radius"}
    <3>1. /\ DOMAIN ver = 1 .. m.s.g_m
          /\ \A p \in 1 .. m.s.g_m : ver[p] \in Seq(DOMAIN m.s2.pos)
      BY <2>1, <2>4 DEF FullOK, ExactList
    <3>2. QED
      BY <2>1, <2>2, <2>4, <3>1 DEF m, ver
  <2>5. CASE m.kind \in {"sym", "crs"}
    <3>1. /\ DOMAIN ver = 1 .. (IF m.kind = "crs" THEN Len(m.s.pos) ELSE m.s.g_m)
          /\ \A p \in DOMAIN ver : ver[p] \in Seq(DOMAIN m.s2.pos)
      BY <2>1, <2>3, <2>5 DEF HalfOK, End
    <3>2. QED
      BY <2>1, <2>2, <2>5, <3>1 DEF m, ver
  <2>6. QED
    BY <2>2, <2>4, <2>5
<1>4. QED
  BY <1>2, <1>3

LEMMA ListsExact == VerletWellPosed /\ ListsInv => NeighboursExact
<1> SUFFICES ASSUME VerletWellPosed, ListsInv PROVE NeighboursExact
  OBVIOUS
<1>1. ASSUME NEW l \in Lists, Built(l, {"full", "radius"}),
             NEW p \in 1 .. vl[l].made.s.g_m, NEW q \in DOMAIN vl[l].made.s2.pos
      PROVE  Visits(vl[l].ver[p], q) =
               IF Distance2(vl[l].made.s.pos[p], vl[l].made.s2.pos[q]) < vl[l].made.r * vl[l].made.r
               THEN 1 ELSE 0
  <2> DEFINE m == vl[l].made
             t == vl[l].ver[p]
             ver == vl[l].ver
  <2>1. ListOK(vl[l]) /\ m.kind \in {"full", "radius"}
    BY <1>1, MadeParts DEF Built
  <2>2. m # NotMade
    BY <2>1 DEF NotMade, Made
  <2>3. FullOK(ver, m)
    BY <2>1, <2>2 DEF ListOK
  <2>4. p \in 1 .. m.s.g_m /\ q \in DOMAIN m.s2.pos /\ t = ver[p]
    BY <1>1
  <2> HIDE DEF m, ver
  <2>5. ExactList(t, m.s.pos[p], m.s2.pos, m.r)
    BY <2>3, <2>4 DEF FullOK
  <2> HIDE DEF t
  <2>6. t \in Seq(DOMAIN m.s2.pos)
    BY <2>5 DEF ExactList
  <2>7. IF Close(m.s.pos[p], m.s2.pos[q], m.r) THEN Once(t, q) ELSE Absent(t, q)
    BY <2>4, <2>5 DEF ExactList
  <2>8. Visits(t, q) = IF Distance2(m.s.pos[p], m.s2.pos[q]) < m.r * m.r THEN 1 ELSE 0
    BY <2>6, <2>7, VisitsOf DEF Close
  <2>9. QED
    BY <2>8 DEF m, t
<1>2. QED
  BY <1>1, ListsTyped DEF NeighboursExact

LEMMA CellNumber ==
  ASSUME NEW d, NEW own, Roomy(d, own), NEW x, \A i \in D : x[i] \in Int
  PROVE  GetCell(d, x) \in Int
<1>1. ASSUME NEW i \in D PROVE d.gr2[i] \in Int /\ ConvertToID(d, x, i) \in Int
  <2>1. PICK n, a, b \in Nat : RoomIn(d, own, i, n, a, b)
    BY DEF Roomy
  <2> DEFINE u == d.unit[i]
             y == x[i] - d.box.lo[i]
             q == FloorCell(y, u)
             g == d.gr[i]
  <2>2. /\ u \in Nat \ {0} /\ y \in Int /\ d.off \in Nat /\ g = n + 2 * d.off
        /\ d.gr2[i] = b - a + 2 * d.off /\ d.shift[i] = a
    BY <2>1 DEF RoomIn, Room
  <2>3. /\ ConvertToIDNs(d, x, i) = IF q + d.off \in 0 .. g - 1 THEN q + d.off ELSE g - 1
        /\ ConvertToID(d, x, i) = ConvertToIDNs(d, x, i) - d.shift[i]
    BY DEF ConvertToIDNs, ConvertToID
  <2> HIDE DEF u, y, g
  <2>4. q \in Int
    BY <2>2, FloorClosed DEF ClosedIn
  <2> HIDE DEF q
  <2>5. g \in Int
    BY <2>2
  <2>6. ConvertToIDNs(d, x, i) \in Int
    BY <2>2, <2>3, <2>4, <2>5
  <2>7. QED
    BY <2>2, <2>3, <2>6
<1>2. d.gr2[1] \in Int /\ ConvertToID(d, x, 1) \in Int /\ ConvertToID(d, x, 2) \in Int
  BY <1>1 DEF D
<1>3. GetCell(d, x) = ConvertToID(d, x, 1) + d.gr2[1] * ConvertToID(d, x, 2)
  BY DEF GetCell, LinId, D
<1>4. QED
  BY <1>2, <1>3

\* Of two particles one is ahead of the other, and not the other way round.
LEMMA AheadEither ==
  ASSUME ScenesOK, NEW s \in Scenes, NEW d, NEW p \in 1 .. Len(s.pos), NEW q \in 1 .. Len(s.pos),
         CellAt(d, s, p) \in Int, CellAt(d, s, q) \in Int
  PROVE  /\ Ahead(d, s, p, p)
         /\ p # q => (Ahead(d, s, p, q) <=> ~Ahead(d, s, q, p))
<1> DEFINE x == s.pos[p]
           y == s.pos[q]
           a == CellAt(d, s, p)
           b == CellAt(d, s, q)
<1>1. /\ x[1] \in Int /\ x[2] \in Int /\ y[1] \in Int /\ y[2] \in Int
      /\ x = <<x[1], x[2]>> /\ y = <<y[1], y[2]>> /\ p \in Int /\ q \in Int
  <2>1. /\ \A k \in 1 .. Len(s.pos) : /\ \A i \in D : s.pos[k][i] \in Int
                                        /\ s.pos[k] = <<s.pos[k][1], s.pos[k][2]>>
        /\ Len(s.pos) \in Nat
    BY SceneParts
  <2>2. 1 \in D /\ 2 \in D
    BY DEF D
  <2>3. QED
    BY <2>1, <2>2
<1>2. /\ StandsAfter(s.pos, p, p)
      /\ StandsAfter(s.pos, p, q) <=> IF x = y THEN q >= p ELSE NotBefore(y, x)
      /\ StandsAfter(s.pos, q, p) <=> IF x = y THEN p >= q ELSE NotBefore(x, y)
  BY <1>1 DEF StandsAfter
<1>3. /\ NotBefore(y, x) <=> x[2] < y[2] \/ (x[2] = y[2] /\ x[1] <= y[1])
      /\ NotBefore(x, y) <=> y[2] < x[2] \/ (y[2] = x[2] /\ y[1] <= x[1])
  BY DEF NotBefore
<1>4. x = y <=> x[1] = y[1] /\ x[2] = y[2]
  BY <1>1
<1>5. /\ Ahead(d, s, p, p) <=> (a - a > 0 \/ (a - a = 0 /\ StandsAfter(s.pos, p, p)))
      /\ Ahead(d, s, p, q) <=> (b - a > 0 \/ (b - a = 0 /\ StandsAfter(s.pos, p, q)))
      /\ Ahead(d, s, q, p) <=> (a - b > 0 \/ (a - b = 0 /\ StandsAfter(s.pos, q, p)))
  BY DEF Ahead
<1>6. a \in Int /\ b \in Int
  OBVIOUS
<1> HIDE DEF x, y, a, b
<1>7. p # q => (StandsAfter(s.pos, p, q) <=> ~StandsAfter(s.pos, q, p))
  <2>1. CASE x = y
    BY <1>1, <1>2, <2>1
  <2>2. CASE x # y
    <3>1. NotBefore(y, x) <=> ~NotBefore(x, y)
      BY <1>1, <1>3, <1>4, <2>2
    <3>2. QED
      BY <1>2, <2>2, <3>1
  <2>3. QED
    BY <2>1, <2>2
<1>8. QED
  BY <1>2, <1>5, <1>6, <1>7

LEMMA DistanceSymmetric ==
  ASSUME NEW x, NEW y, \A i \in D : x[i] \in Int /\ y[i] \in Int
  PROVE  Distance2(x, y) = Distance2(y, x) /\ Distance2(x, x) = 0
<1>1. \A a, b \in Int : (a - b) * (a - b) = (b - a) * (b - a) /\ (a - a) * (a - a) = 0
  OBVIOUS
<1>2. x[1] \in Int /\ x[2] \in Int /\ y[1] \in Int /\ y[2] \in Int
  BY DEF D
<1>3. QED
  BY <1>1, <1>2 DEF Distance2

LEMMA ListsHalf == VerletWellPosed /\ ListsInv => PairsOnce
<1> SUFFICES ASSUME VerletWellPosed, ListsInv, NEW l \in Lists, Built(l, {"sym", "crs"}),
                    NEW p \in 1 .. vl[l].made.s.g_m, NEW q \in DOMAIN vl[l].made.s.pos
             PROVE  LET m == vl[l].made
                        near == Distance2(m.s.pos[p], m.s.pos[q]) < m.r * m.r
                        times == Visits(vl[l].ver[p], q)
                    IN  IF p = q THEN times = 1
                        ELSE IF ~near THEN times = 0
                        ELSE IF q > m.s.g_m THEN times <= 1
                        ELSE times + Visits(vl[l].ver[q], p) = 1
  BY DEF PairsOnce
<1> DEFINE m == vl[l].made
           ver == vl[l].ver
           s == m.s
           d == m.dec
           r == m.r
<1>1. ListOK(vl[l]) /\ m.kind \in {"sym", "crs"}
  BY MadeParts DEF Built
<1>2. m # NotMade
  BY <1>1 DEF NotMade, Made
<1>3. HalfOK(ver, m) /\ MadeOK(m)
  BY <1>1, <1>2 DEF ListOK
<1> HIDE DEF m, ver
<1>4. s \in Scenes /\ r \in Nat \ {0} /\ ScenesOK
  BY <1>3, ScenePartsOfList DEF MadeOK
<1>5. \A k \in 1 .. s.g_m : HalfList(ver[k], d, s, k, r)
  BY <1>3 DEF HalfOK
<1>6. p \in 1 .. s.g_m /\ q \in DOMAIN s.pos
  BY DEF m
<1> HIDE DEF s, d, r
<1>7. /\ DOMAIN s.pos = 1 .. Len(s.pos) /\ Len(s.pos) \in Nat /\ s.g_m \in 0 .. Len(s.pos)
      /\ \A k \in 1 .. Len(s.pos) : \A i \in D : s.pos[k][i] \in Int
  BY <1>4, SceneParts
<1>8. p \in 1 .. Len(s.pos) /\ q \in 1 .. Len(s.pos)
  BY <1>6, <1>7
<1>9. ASSUME NEW f \in 1 .. s.g_m, NEW g \in 1 .. Len(s.pos)
      PROVE  Visits(ver[f], g) = IF Close(s.pos[f], s.pos[g], r) /\ Ahead(d, s, f, g) THEN 1 ELSE 0
  <2>1. /\ ver[f] \in Seq(1 .. Len(s.pos))
        /\ IF Close(s.pos[f], s.pos[g], r) /\ Ahead(d, s, f, g)
           THEN Once(ver[f], g) ELSE Absent(ver[f], g)
    BY <1>5 DEF HalfList
  <2>2. QED
    BY <2>1, VisitsOf
<1>10. ASSUME NEW k \in 1 .. Len(s.pos) PROVE CellAt(d, s, k) \in Int
  <2>1. MadeFor(d, m.own)
    BY <1>3 DEF MadeOK, d
  <2>2. Roomy(d, m.own)
    BY <2>1, MadeRoomy
  <2>3. QED
    BY <1>7, <2>2, CellNumber DEF CellAt
<1>11. /\ Ahead(d, s, p, p)
       /\ p # q => (Ahead(d, s, p, q) <=> ~Ahead(d, s, q, p))
  BY <1>4, <1>8, <1>10, AheadEither
<1>12. /\ Close(s.pos[p], s.pos[q], r) <=> Close(s.pos[q], s.pos[p], r)
       /\ Close(s.pos[p], s.pos[p], r)
  <2>1. 0 < r * r
    BY <1>4
  <2>2. QED
    BY <1>7, <1>8, <2>1, DistanceSymmetric DEF Close
<1>13. Close(s.pos[p], s.pos[q], r) <=> Distance2(s.pos[p], s.pos[q]) < r * r
  BY DEF Close
<1>14. Visits(ver[p], q) = IF Close(s.pos[p], s.pos[q], r) /\ Ahead(d, s, p, q) THEN 1 ELSE 0
  BY <1>6, <1>8, <1>9
<1>15. q <= s.g_m =>
         Visits(ver[q], p) = IF Close(s.pos[q], s.pos[p], r) /\ Ahead(d, s, q, p) THEN 1 ELSE 0
  BY <1>7, <1>8, <1>9
<1>16. IF p = q THEN Visits(ver[p], q) = 1
       ELSE IF ~(Distance2(s.pos[p], s.pos[q]) < r * r) THEN Visits(ver[p], q) = 0
       ELSE IF q > s.g_m THEN Visits(ver[p], q) <= 1
       ELSE Visits(ver[p], q) + Visits(ver[q], p) = 1
  <2>1. CASE p = q
    BY <1>11, <1>12, <1>14, <2>1
  <2>2. CASE p # q /\ q > s.g_m
    BY <1>13, <1>14, <2>2
  <2>3. CASE p # q /\ q <= s.g_m
    <3> DEFINE a == Visits(ver[p], q)
               b == Visits(ver[q], p)
               near == Close(s.pos[p], s.pos[q], r)
    <3>1. a = IF near /\ Ahead(d, s, p, q) THEN 1 ELSE 0
      BY <1>14
    <3>2. b = IF near /\ ~Ahead(d, s, p, q) THEN 1 ELSE 0
      BY <1>11, <1>12, <1>15, <2>3
    <3>3. near <=> Distance2(s.pos[p], s.pos[q]) < r * r
      BY <1>13
    <3> HIDE DEF a, b, near
    <3>4. (near => a + b = 1) /\ (~near => a = 0)
      BY <3>1, <3>2
    <3>5. ~(q > s.g_m)
      BY <1>7, <1>8, <2>3
    <3>6. QED
      BY <2>3, <3>3, <3>4, <3>5 DEF a, b
  <2>4. QED
    BY <1>7, <1>8, <2>1, <2>2, <2>3
<1>17. QED
  BY <1>16 DEF s, d, r, m, ver

\* A sequence that names each of the first n numbers once, and no others, has
\* n elements.
LEMMA NamesEach ==
  ASSUME NEW h \in Nat, NEW n \in Nat, n <= h, NEW t \in Seq(1 .. h),
         \A p \in 1 .. h : IF p <= n THEN Once(t, p) ELSE Absent(t, p)
  PROVE  Len(t) = n
<1>1. Len(t) \in Nat /\ DOMAIN t = 1 .. Len(t) /\ t = [k \in 1 .. Len(t) |-> t[k]]
  OBVIOUS
<1>2. ASSUME NEW k \in 1 .. Len(t) PROVE t[k] \in 1 .. n
  <2>1. t[k] \in 1 .. h
    OBVIOUS
  <2>2. ~Absent(t, t[k])
    BY DEF Absent
  <2>3. t[k] <= n
    BY <2>1, <2>2
  <2>4. QED
    BY <2>1, <2>3
<1>3. t \in Seq(1 .. n)
  <2>1. t \in [1 .. Len(t) -> 1 .. n]
    BY <1>1, <1>2
  <2>2. QED
    BY <1>1, <2>1
<1>4. \A x : Once(t, x) \/ Absent(t, x)
  <2>1. ASSUME NEW x, ~Absent(t, x) PROVE Once(t, x)
    <3>1. PICK k \in 1 .. Len(t) : t[k] = x
      BY <2>1 DEF Absent
    <3>2. x \in 1 .. h /\ x <= n
      BY <1>2, <3>1
    <3>3. QED
      BY <3>2
  <2>2. QED
    BY <2>1
<1>5. Len(t) <= n
  <2>1. \A i, j \in 1 .. Len(t) : t[i] = t[j] => i = j
    BY <1>3, <1>4, OnceApart
  <2>2. QED
    BY <1>3, <2>1, InjectiveLen
<1>6. n <= Len(t)
  <2> DEFINE place == [p \in 1 .. n |-> CHOOSE k \in 1 .. Len(t) : t[k] = p]
  <2>1. ASSUME NEW p \in 1 .. n PROVE place[p] \in 1 .. Len(t) /\ t[place[p]] = p
    <3>1. \E k \in 1 .. Len(t) : t[k] = p
      BY DEF Once
    <3>2. QED
      BY <3>1
  <2>2. place = [p \in 1 .. n |-> place[p]]
    OBVIOUS
  <2> HIDE DEF place
  <2>3. place \in Seq(1 .. Len(t)) /\ Len(place) = n
    <3>1. place \in [1 .. n -> 1 .. Len(t)]
      BY <2>1, <2>2
    <3>2. QED
      BY <3>1
  <2>4. \A i, j \in 1 .. Len(place) : place[i] = place[j] => i = j
    BY <2>1, <2>3
  <2> DEFINE len == Len(t)
  <2>5. len \in Nat /\ place \in Seq(1 .. len)
    BY <1>1, <2>3
  <2> HIDE DEF len
  <2>6. Len(place) <= len
    BY <2>4, <2>5, InjectiveLen
  <2>7. QED
    BY <2>3, <2>6 DEF len
<1>7. QED
  BY <1>1, <1>5, <1>6

LEMMA ListsSequence == VerletWellPosed /\ PartsOnCells /\ ListsInv => DomainSequence
<1> SUFFICES ASSUME VerletWellPosed, PartsOnCells, ListsInv, NEW l \in Lists, Built(l, {"crs"})
             PROVE  /\ Len(vl[l].dp) = vl[l].made.s.g_m
                    /\ \A p \in 1 .. vl[l].made.s.g_m : Visits(vl[l].dp, p) = 1
  BY DEF DomainSequence
<1> DEFINE m == vl[l].made
           dp == vl[l].dp
           s == m.s
           g == s.g_m
<1>1. ListOK(vl[l]) /\ m.kind = "crs"
  BY MadeParts DEF Built
<1>2. m # NotMade
  BY <1>1 DEF NotMade, Made
<1>3. SequenceOK(dp, m) /\ MadeOK(m)
  BY <1>1, <1>2 DEF ListOK
<1> HIDE DEF m, dp
<1>4. s \in Scenes /\ ScenesOK
  BY <1>3, ScenePartsOfList DEF MadeOK
<1>5. /\ dp \in Seq(1 .. Len(s.pos))
      /\ \A p \in 1 .. Len(s.pos) : IF p <= g THEN Once(dp, p) ELSE Absent(dp, p)
  BY <1>3 DEF SequenceOK
<1> HIDE DEF s
<1>6. g \in 0 .. Len(s.pos) /\ Len(s.pos) \in Nat
  BY <1>4, SceneParts
<1> HIDE DEF g
<1>7. \A p \in 1 .. g : Once(dp, p)
  BY <1>5, <1>6
<1>8. \A p \in 1 .. g : Visits(dp, p) = 1
  BY <1>5, <1>7, VisitsOf
<1>9. Len(dp) = g
  <2>1. g \in Nat /\ g <= Len(s.pos)
    BY <1>6
  <2>2. QED
    BY <1>5, <1>6, <2>1, NamesEach
<1>10. QED
  BY <1>8, <1>9 DEF g, s, m, dp

-----------------------------------------------------------------------------
(* Verlet lists: the theorems. *)

\* Every list has a neighbour list for each particle it was built for, which
\* names particles that are there, for any boxes, particles and radii that fit
\* the cells (ScenesOK and GridsOK), however the lists are built, updated,
\* copied, moved and exchanged.
THEOREM VerletTypes == VerletWellPosed /\ ~OfAnother => (VerletSpec => []VerletTypeOK)
<1> SUFFICES ASSUME VerletWellPosed, ~OfAnother PROVE VerletSpec => []VerletTypeOK
  OBVIOUS
<1>1. VerletSpec => []ListsInv
  BY ListsAlways
<1>2. ListsInv => VerletTypeOK
  BY ListsTyped
<1>3. QED
  BY <1>1, <1>2, PTL

\* A list made with all the cells around, or with those within a radius greater
\* than the cells, names for each particle those within the radius, each once
\* (create_ in VerletListFast.hpp, over getNNIterator and getNNIteratorRadius),
\* also after it was updated on the cells of an earlier call or taken over from
\* another list.
THEOREM VerletExact == VerletWellPosed /\ ~OfAnother => (VerletSpec => []NeighboursExact)
<1> SUFFICES ASSUME VerletWellPosed, ~OfAnother PROVE VerletSpec => []NeighboursExact
  OBVIOUS
<1>1. VerletSpec => []ListsInv
  BY ListsAlways
<1>2. ListsInv => NeighboursExact
  BY ListsExact
<1>3. QED
  BY <1>1, <1>2, PTL

\* A symmetric list (initializeSym, createVerletCrs, and update of either) has
\* each near pair of the domain in one of the two lists, a pair with a ghost at
\* most once, and each particle in its own list.
THEOREM VerletPairs == VerletWellPosed /\ ~OfAnother => (VerletSpec => []PairsOnce)
<1> SUFFICES ASSUME VerletWellPosed, ~OfAnother PROVE VerletSpec => []PairsOnce
  OBVIOUS
<1>1. VerletSpec => []ListsInv
  BY ListsAlways
<1>2. ListsInv => PairsOnce
  BY ListsHalf
<1>3. QED
  BY <1>1, <1>2, PTL

\* Where the parts of space end with cells of the domain, the particle sequence
\* of a CRS list names each particle of the domain once and no ghost.
THEOREM VerletSequence ==
  VerletWellPosed /\ ~OfAnother /\ PartsOnCells => (VerletSpec => []DomainSequence)
<1> SUFFICES ASSUME VerletWellPosed, ~OfAnother, PartsOnCells PROVE VerletSpec => []DomainSequence
  OBVIOUS
<1>1. VerletSpec => []ListsInv
  BY ListsAlways
<1>2. ListsInv => DomainSequence
  BY ListsSequence
<1>3. QED
  BY <1>1, <1>2, PTL

-----------------------------------------------------------------------------
(* Lists of several sets: the words and the cells they are in. *)

LEMMA WalkRoom ==
  ASSUME WalksWellPosed
  PROVE  /\ Roomy(WalkDec, Box)
         /\ \A i \in D : /\ RoomIn(WalkDec, Box, i, Div[i], 0, Div[i])
                         /\ WalkDec.unit[i] \in Nat \ {0} /\ CutOff <= WalkDec.unit[i]
                         /\ WalkDec.gr2[i] \in Nat /\ WalkDec.gr2[i] >= 3
         /\ WalkDec.off = 1 /\ CutOff \in Nat \ {0}
<1>1. Even(Box, Div) /\ CutOff \in Nat \ {0} /\ \A i \in D : CutOff <= WalkDec.unit[i]
  BY DEF WalksWellPosed
<1>2. 1 \in Nat \ {0}
  OBVIOUS
<1>3. WalkDec.off = 1
  BY DEF WalkDec, Decomposed
<1>4. ASSUME NEW i \in D
      PROVE  /\ Div[i] \in Nat /\ 0 \in Nat /\ RoomIn(WalkDec, Box, i, Div[i], 0, Div[i])
             /\ WalkDec.unit[i] \in Nat \ {0}
             /\ WalkDec.gr2[i] \in Nat /\ WalkDec.gr2[i] >= 3
  <2>1. Apt(1, WalkDec, Box, i, Div[i], 0, Div[i])
    BY <1>1, <1>2, DecomposedApt DEF WalkDec
  <2>2. Box.lo[i] = Box.lo[i] /\ Box.hi[i] \in Int /\ Box.hi[i] <= Box.hi[i]
    BY <1>1 DEF Even
  <2>3. Div[i] \in Nat /\ RoomIn(WalkDec, Box, i, Div[i], 0, Div[i])
    BY <1>3, <2>1, <2>2, AptRoom
  <2>4. /\ WalkDec.unit[i] \in Nat \ {0} /\ Div[i] \in Nat /\ 0 < Div[i]
        /\ WalkDec.gr2[i] = Div[i] - 0 + 2 * WalkDec.off
    BY <2>3 DEF RoomIn, Room
  <2>5. QED
    BY <1>3, <2>3, <2>4
<1>5. QED
  BY <1>1, <1>3, <1>4 DEF Roomy

\* What is known of a population.
LEMMA PeopleParts ==
  ASSUME WalksWellPosed, NEW s \in Populations, NEW a \in Sets(s)
  PROVE  /\ a \in Nat /\ a < HighWords
         /\ \E n \in 0 .. LowWords :
              /\ DOMAIN s.pos[a] = 0 .. n - 1 /\ s.g_m[a] \in 0 .. n
              /\ \A p \in 0 .. n - 1 : s.pos[a][p] \in Int \X Int
         /\ \A p \in DOMAIN s.pos[a] : \A i \in D :
              /\ Box.lo[i] - WalkDec.unit[i] < s.pos[a][p][i]
              /\ s.pos[a][p][i] < Box.hi[i] + WalkDec.unit[i]
<1>1. HighWords \in Nat \ {0} /\ LowWords \in Nat \ {0}
  BY WordAssumption
<1>2. a \in 0 .. HighWords - 1
  BY DEF WalksWellPosed, SetsFit, Sets
<1>3. PICK n \in 0 .. LowWords : s.pos[a] \in [0 .. n - 1 -> Int \X Int] /\ s.g_m[a] \in 0 .. n
  BY DEF WalksWellPosed, SetsFit, Sets
<1>4. DOMAIN s.pos[a] = 0 .. n - 1 /\ \A p \in 0 .. n - 1 : s.pos[a][p] \in Int \X Int
  BY <1>3
<1>5. \A p \in DOMAIN s.pos[a] : \A i \in D :
        /\ Box.lo[i] - WalkDec.unit[i] < s.pos[a][p][i]
        /\ s.pos[a][p][i] < Box.hi[i] + WalkDec.unit[i]
  BY DEF WalksWellPosed, SetsFit, Sets
<1>6. QED
  BY <1>1, <1>2, <1>3, <1>4, <1>5

\* What is packed into a word is what comes out.
LEMMA PackedIs ==
  ASSUME NEW p \in Nat, p < LowWords, NEW a \in Nat, a < HighWords
  PROVE  /\ Packed(p, a) = p + LowWords * a /\ Packed(p, a) \in Nat
         /\ GetP(Packed(p, a)) = p /\ GetV(Packed(p, a)) = a
<1>1. LowWords \in Nat \ {0} /\ HighWords \in Nat \ {0}
  BY WordAssumption
<1> DEFINE u == LowWords * HighWords
           y == a * LowWords
<1>2. y + LowWords <= HighWords * LowWords /\ y \in Nat
  BY <1>1, Mono
<1>3. u \in Nat \ {0} /\ y < u
  <2>1. HighWords * LowWords = u /\ u \in Nat
    BY <1>1
  <2> HIDE DEF u, y
  <2>2. QED
    BY <1>1, <1>2, <2>1
<1>4. LowWords * a = y
  BY <1>1
<1> HIDE DEF u, y
<1>5. y % u = y
  <2>1. y \div u \in Int /\ y % u \in 0 .. u - 1 /\ y = (y \div u) * u + (y % u)
    BY <1>2, <1>3, FloorFacts
  <2> DEFINE r == y % u
             q == y \div u
  <2>2. q \in Int /\ r \in 0 .. u - 1 /\ y = q * u + r
    BY <2>1
  <2> HIDE DEF r, q
  <2>3. y + u * 0 = r + u * q /\ y - r \in -(u - 1) .. u - 1
    BY <1>2, <1>3, <2>2
  <2>4. y = r
    BY <1>2, <1>3, <2>2, <2>3, StepOne
  <2>5. QED
    BY <2>4 DEF r
<1>6. Packed(p, a) = p + y
  BY <1>5 DEF Packed, y, u
<1> DEFINE e == p + y
           r == e % LowWords
           q == e \div LowWords
<1>7. e \in Nat /\ e = p + LowWords * a
  BY <1>2, <1>4
<1>8. q \in Int /\ r \in 0 .. LowWords - 1 /\ e = q * LowWords + r
  <2> HIDE DEF e
  <2>1. e \in Int
    BY <1>7
  <2>2. /\ e \div LowWords \in Int /\ e % LowWords \in 0 .. LowWords - 1
        /\ e = (e \div LowWords) * LowWords + (e % LowWords)
    BY <1>1, <2>1, FloorFacts
  <2>3. QED
    BY <2>2
<1> HIDE DEF e, r, q
<1>9. p + LowWords * a = r + LowWords * q /\ p - r \in -(LowWords - 1) .. LowWords - 1
  BY <1>1, <1>7, <1>8
<1>10. p = r /\ a = q
  BY <1>1, <1>8, <1>9, StepOne
<1>11. QED
  BY <1>6, <1>7, <1>10 DEF e, r, q, GetP, GetV

\* All the elements of a population, and the cell each belongs in.
AllWords(s) == WordsOf(s, Sets(s))
Seat(s, e) == GetCell(WalkDec, PlaceOf(s, e))

LEMMA WordOfIs ==
  ASSUME WalksWellPosed, NEW s \in Populations, NEW a \in Sets(s), NEW p \in DOMAIN s.pos[a]
  PROVE  /\ Packed(p, a) = p + LowWords * a /\ Packed(p, a) \in Nat /\ p \in Nat /\ a \in Nat
         /\ GetP(Packed(p, a)) = p /\ GetV(Packed(p, a)) = a
         /\ PlaceOf(s, Packed(p, a)) = s.pos[a][p] /\ s.pos[a][p] \in Int \X Int
         /\ Packed(p, a) \in AllWords(s)
<1>1. a \in Nat /\ a < HighWords
  BY PeopleParts
<1>2. PICK n \in 0 .. LowWords : /\ DOMAIN s.pos[a] = 0 .. n - 1
                                 /\ \A k \in 0 .. n - 1 : s.pos[a][k] \in Int \X Int
  BY PeopleParts
<1>3. p \in Nat /\ p < LowWords
  BY <1>2, WordAssumption
<1>4. /\ Packed(p, a) = p + LowWords * a /\ Packed(p, a) \in Nat
      /\ GetP(Packed(p, a)) = p /\ GetV(Packed(p, a)) = a
  BY <1>1, <1>3, PackedIs
<1>5. s.pos[a][p] \in Int \X Int
  BY <1>2
<1>6. Packed(p, a) \in AllWords(s)
  BY DEF AllWords, WordsOf, Sets
<1>7. QED
  BY <1>1, <1>3, <1>4, <1>5, <1>6 DEF PlaceOf

LEMMA WordParts ==
  ASSUME WalksWellPosed, NEW s \in Populations, NEW A \in SUBSET Sets(s), NEW e \in WordsOf(s, A)
  PROVE  /\ GetV(e) \in A /\ GetV(e) \in Sets(s) /\ GetP(e) \in DOMAIN s.pos[GetV(e)]
         /\ e = Packed(GetP(e), GetV(e)) /\ e \in AllWords(s) /\ e \in Nat
         /\ PlaceOf(s, e) \in Int \X Int
         /\ \A i \in D : /\ PlaceOf(s, e)[i] \in Int
                         /\ Box.lo[i] - WalkDec.unit[i] < PlaceOf(s, e)[i]
                         /\ PlaceOf(s, e)[i] < Box.hi[i] + WalkDec.unit[i]
<1>1. PICK a \in A : e \in {Packed(p, a) : p \in DOMAIN s.pos[a]}
  BY DEF WordsOf
<1>2. PICK p \in DOMAIN s.pos[a] : e = Packed(p, a)
  BY <1>1
<1>3. a \in Sets(s)
  OBVIOUS
<1>4. /\ GetP(e) = p /\ GetV(e) = a /\ PlaceOf(s, e) = s.pos[a][p] /\ s.pos[a][p] \in Int \X Int
      /\ e \in AllWords(s) /\ e \in Nat
  BY <1>2, <1>3, WordOfIs
<1>5. \A i \in D : /\ Box.lo[i] - WalkDec.unit[i] < s.pos[a][p][i]
                   /\ s.pos[a][p][i] < Box.hi[i] + WalkDec.unit[i]
  BY <1>3, PeopleParts
<1>6. \A z \in Int \X Int : \A i \in D : z[i] \in Int
  BY DEF D
<1>7. QED
  BY <1>2, <1>3, <1>4, <1>5, <1>6

LEMMA WordsOfIs ==
  ASSUME WalksWellPosed, NEW s \in Populations, NEW A \in SUBSET Sets(s), NEW e \in AllWords(s)
  PROVE  e \in WordsOf(s, A) <=> GetV(e) \in A
<1>1. e \in WordsOf(s, A) => GetV(e) \in A
  BY WordParts
<1>2. GetV(e) \in Sets(s) /\ GetP(e) \in DOMAIN s.pos[GetV(e)] /\ e = Packed(GetP(e), GetV(e))
  BY WordParts DEF AllWords
<1>3. ASSUME GetV(e) \in A PROVE e \in WordsOf(s, A)
  BY <1>2, <1>3 DEF WordsOf
<1>4. QED
  BY <1>1, <1>3

\* The cell of an element, in each dimension.
LEMMA SeatPlaced ==
  ASSUME WalksWellPosed, NEW s \in Populations, NEW e \in AllWords(s), NEW i \in D
  PROVE  LET y == PlaceOf(s, e)[i] - Box.lo[i]
             k == ConvertToID(WalkDec, PlaceOf(s, e), i)
         IN  /\ InCell(y, k - 1, WalkDec.unit[i]) /\ y \in Int
             /\ k \in 0 .. WalkDec.gr2[i] - 1
<1> DEFINE x == PlaceOf(s, e)
           u == WalkDec.unit[i]
           y == x[i] - Box.lo[i]
           q == FloorCell(y, u)
<1>1. /\ RoomIn(WalkDec, Box, i, Div[i], 0, Div[i]) /\ u \in Nat \ {0} /\ WalkDec.off = 1
  BY WalkRoom
<1>2. x[i] \in Int /\ Box.lo[i] - u < x[i] /\ x[i] < Box.hi[i] + u
  BY WordParts DEF AllWords
<1>3. WalkDec.box = Box /\ Box.lo[i] \in Int /\ Box.hi[i] \in Int
  BY DEF WalkDec, Decomposed, WalksWellPosed, Even
<1>4. 1 * u = u
  BY <1>1
<1>5. Box.lo[i] - WalkDec.off * WalkDec.unit[i] < x[i] /\ x[i] < Box.hi[i] + WalkDec.off * WalkDec.unit[i]
  BY <1>1, <1>2, <1>4
<1>6. /\ ConvertToID(WalkDec, x, i) = q + 1 - 0
      /\ ConvertToID(WalkDec, x, i) \in 0 .. WalkDec.gr2[i] - 1
  <2>1. LET z == x[i] - WalkDec.box.lo[i]
            p == FloorCell(z, WalkDec.unit[i])
        IN  /\ ConvertToID(WalkDec, x, i) = p + WalkDec.off - 0
            /\ ConvertToID(WalkDec, x, i) \in 0 .. WalkDec.gr2[i] - 1
    <3>1. RoomIn(WalkDec, Box, i, Div[i], 0, Div[i]) /\ x[i] \in Int
      BY <1>1, <1>2
    <3>2. ASSUME NEW z, z[i] \in Int, Box.lo[i] - WalkDec.off * WalkDec.unit[i] < z[i],
                 z[i] < Box.hi[i] + WalkDec.off * WalkDec.unit[i]
          PROVE  /\ ConvertToID(WalkDec, z, i)
                      = FloorCell(z[i] - WalkDec.box.lo[i], WalkDec.unit[i]) + WalkDec.off - 0
                 /\ ConvertToID(WalkDec, z, i) \in 0 .. WalkDec.gr2[i] - 1
      BY <3>1, <3>2, PointPlaced
    <3>3. QED
      BY <1>5, <3>1, <3>2
  <2>2. QED
    BY <1>1, <1>3, <2>1
<1>7. y \in Int /\ -u < y
  BY <1>1, <1>2, <1>3
<1> HIDE DEF y, u
<1>8. InCell(y, q, u)
  <2>1. /\ ClosedIn(y, q, u)
        /\ y >= 0 => InCell(y, q, u)
        /\ \A p \in Int : /\ y < p * u => q < p
                          /\ p * u < y => p <= q
    BY <1>1, <1>7, FloorClosed
  <2>2. CASE ~(y >= 0)
    <3>1. 0 * u = 0 /\ (-1) * u = -u /\ u \in Nat \ {0}
      BY <1>1
    <3>2. q \in Int /\ q < 0 /\ -1 <= q
      BY <1>7, <2>1, <2>2, <3>1 DEF ClosedIn
    <3>3. q = -1
      BY <3>2
    <3>4. QED
      BY <1>7, <2>2, <3>1, <3>3 DEF InCell
  <2>3. QED
    BY <2>1, <2>2
<1> HIDE DEF q
<1>9. q \in Int
  BY <1>8 DEF InCell
<1>10. ConvertToID(WalkDec, x, i) - 1 = q
  BY <1>6, <1>9
<1>11. QED
  BY <1>6, <1>7, <1>8, <1>10 DEF y, u

LEMMA SeatIs ==
  ASSUME WalksWellPosed, NEW s \in Populations, NEW e \in AllWords(s)
  PROVE  /\ Seat(s, e) \in Cells(WalkDec) /\ Seat(s, e) \in Int
         /\ Seat(s, e) = ConvertToID(WalkDec, PlaceOf(s, e), 1)
                           + WalkDec.gr2[1] * ConvertToID(WalkDec, PlaceOf(s, e), 2)
<1> DEFINE K == [i \in D |-> ConvertToID(WalkDec, PlaceOf(s, e), i)]
           g == WalkDec.gr2
<1>1. 1 \in D /\ 2 \in D
  BY DEF D
<1>2. /\ ConvertToID(WalkDec, PlaceOf(s, e), 1) \in 0 .. g[1] - 1
      /\ ConvertToID(WalkDec, PlaceOf(s, e), 2) \in 0 .. g[2] - 1
  BY <1>1, SeatPlaced
<1>3. /\ K[1] = ConvertToID(WalkDec, PlaceOf(s, e), 1) /\ K[2] = ConvertToID(WalkDec, PlaceOf(s, e), 2)
  BY <1>1
<1>4. g[1] \in Nat /\ g[2] \in Nat
  BY <1>1, WalkRoom
<1>5. Seat(s, e) = LinId(g, K)
  BY DEF Seat, GetCell
<1> HIDE DEF K, g
<1>6. LinId(g, K) \in 0 .. g[1] * g[2] - 1
  BY <1>2, <1>3, <1>4, LinIdIn
<1>7. LinId(g, K) = K[1] + g[1] * K[2] /\ g[1] * g[2] \in Int
  BY <1>4 DEF LinId
<1>8. QED
  BY <1>3, <1>5, <1>6, <1>7 DEF Cells, g

\* The stencils lead from the cell of an element to that of a near one, once.
LEMMA SeatsNear ==
  ASSUME WalksWellPosed, NEW s \in Populations, NEW e \in AllWords(s), NEW f \in AllWords(s),
         NearWords(s, e, f)
  PROVE  LET o == Seat(s, f) - Seat(s, e)
         IN  /\ o \in Int /\ Once(NNcFull(WalkDec.gr2), o)
             /\ IF o >= 0 THEN Once(NNcSym(WalkDec.gr2), o) ELSE Absent(NNcSym(WalkDec.gr2), o)
             /\ Absent(NNcSym(WalkDec.gr2), o) \/ o >= 0
<1> DEFINE x == PlaceOf(s, e)
           y == PlaceOf(s, f)
           g == WalkDec.gr2
           K(z, i) == ConvertToID(WalkDec, z, i)
<1>1. 1 \in D /\ 2 \in D
  BY DEF D
<1>2. /\ \A i \in D : x[i] \in Int /\ y[i] \in Int
      /\ CutOff \in Nat \ {0}
  BY WordParts, WalkRoom DEF AllWords
<1>3. Close(x, y, CutOff)
  BY DEF NearWords, Nearer, Close, Distance2
<1>4. \A i \in D : Abs(x[i] - y[i]) < CutOff
  BY <1>2, <1>3, LegsShort
<1>5. ASSUME NEW i \in D
      PROVE  K(y, i) - K(x, i) \in -1 .. 1 /\ K(x, i) \in Int /\ K(y, i) \in Int
  <2> DEFINE u == WalkDec.unit[i]
             a == x[i] - Box.lo[i]
             b == y[i] - Box.lo[i]
  <2>1. u \in Nat \ {0} /\ CutOff <= u
    BY WalkRoom
  <2>2. /\ InCell(a, K(x, i) - 1, u) /\ InCell(b, K(y, i) - 1, u) /\ a \in Int /\ b \in Int
        /\ K(x, i) \in 0 .. g[i] - 1 /\ K(y, i) \in 0 .. g[i] - 1
    BY SeatPlaced
  <2>3. x[i] - y[i] \in -Abs(x[i] - y[i]) .. Abs(x[i] - y[i]) /\ Abs(x[i] - y[i]) \in Nat
    BY <1>2, AbsOf
  <2>4. x[i] - y[i] \in -u .. u /\ x[i] \in Int /\ y[i] \in Int
    BY <1>2, <1>4, <2>1, <2>3
  <2>5. Box.lo[i] \in Int
    BY DEF WalksWellPosed, Even
  <2>6. b - a = y[i] - x[i]
    BY <2>4, <2>5
  <2>7. K(x, i) \in Int /\ K(y, i) \in Int
    BY <2>2
  <2> HIDE DEF a, b, u, x, y
  <2>8. b - a \in -u .. u
    BY <2>1, <2>4, <2>6
  <2>9. (K(y, i) - 1) - (K(x, i) - 1) \in -1 .. 1
    BY <2>1, <2>2, <2>8, CloseCells
  <2>10. QED
    BY <2>7, <2>9
<1>6. /\ Seat(s, e) = K(x, 1) + g[1] * K(x, 2)
      /\ Seat(s, f) = K(y, 1) + g[1] * K(y, 2)
      /\ Seat(s, e) \in Int /\ Seat(s, f) \in Int
  BY SeatIs
<1>7. g[1] \in Nat /\ g[1] >= 3
  BY <1>1, WalkRoom
<1> DEFINE i == K(y, 1) - K(x, 1)
           j == K(y, 2) - K(x, 2)
<1>8. i \in -1 .. 1 /\ j \in -1 .. 1
  BY <1>1, <1>5
<1>9. Seat(s, f) - Seat(s, e) = i + g[1] * j
  <2>1. K(x, 1) \in Int /\ K(x, 2) \in Int /\ K(y, 1) \in Int /\ K(y, 2) \in Int
    BY <1>1, <1>5
  <2> HIDE DEF K, g
  <2>2. QED
    BY <1>6, <1>7, <2>1
<1> HIDE DEF i, j, K
<1>10. Once(NNcFull(g), i + g[1] * j)
  BY <1>7, <1>8, NNcFullOnce
<1>11. /\ i + g[1] * j >= 0 => Once(NNcSym(g), i + g[1] * j)
       /\ i + g[1] * j < 0 => Absent(NNcSym(g), i + g[1] * j)
  BY <1>7, <1>8, NNcSymOnce
<1>12. Seat(s, f) - Seat(s, e) \in Int
  BY <1>6
<1>13. QED
  BY <1>9, <1>10, <1>11, <1>12

LEMMA NearBack ==
  ASSUME WalksWellPosed, NEW s \in Populations, NEW e \in AllWords(s), NEW f \in AllWords(s),
         NearWords(s, e, f)
  PROVE  NearWords(s, f, e)
<1> DEFINE x == PlaceOf(s, e)
           y == PlaceOf(s, f)
<1>1. \A i \in D : x[i] \in Int /\ y[i] \in Int
  BY WordParts DEF AllWords
<1>2. Distance2(x, y) = Distance2(y, x)
  BY <1>1, DistanceSymmetric
<1>3. QED
  BY <1>2 DEF NearWords, Nearer, Distance2

-----------------------------------------------------------------------------
(* Lists of several sets: what a list holds. *)

\* A list holds each element of its sets, once and in its cell.
Filling(s, w) ==
  /\ w.sets \in SUBSET Sets(s)
  /\ w.cells \in [Cells(WalkDec) -> Seq(WordsOf(s, w.sets))]
  /\ \A e \in AllWords(s) : \A c \in Cells(WalkDec) :
       IF GetV(e) \in w.sets /\ Seat(s, e) = c THEN Once(w.cells[c], e) ELSE Absent(w.cells[c], e)

LEMMA NewFilling == ASSUME NEW s PROVE Filling(s, NewList)
<1>1. <<>> \in Seq(WordsOf(s, {})) /\ Len(<<>>) = 0
  OBVIOUS
<1>2. \A e : Absent(<<>>, e)
  BY <1>1 DEF Absent
<1>3. NewList.sets = {} /\ NewList.cells = [c \in Cells(WalkDec) |-> <<>>]
  BY DEF NewList, Empty
<1>4. QED
  BY <1>1, <1>2, <1>3 DEF Filling

\* The particles of a set that are in one cell, as words.
LEMMA SetCell ==
  ASSUME WalksWellPosed, NEW s \in Populations, NEW a \in Sets(s), NEW c
  PROVE  LET all == [n \in 1 .. Cardinality(DOMAIN s.pos[a]) |-> n - 1]
             here == Chosen(all, {p \in DOMAIN s.pos[a] : GetCell(WalkDec, s.pos[a][p]) = c})
             words == [k \in DOMAIN here |-> Packed(here[k], a)]
         IN  /\ words \in Seq(WordsOf(s, {a}))
             /\ \A e \in AllWords(s) :
                  IF GetV(e) = a /\ Seat(s, e) = c THEN Once(words, e) ELSE Absent(words, e)
<1> DEFINE T == DOMAIN s.pos[a]
           all == [n \in 1 .. Cardinality(T) |-> n - 1]
           U == {p \in T : GetCell(WalkDec, s.pos[a][p]) = c}
           here == Chosen(all, U)
           words == [k \in DOMAIN here |-> Packed(here[k], a)]
<1>1. PICK n \in Nat : T = 0 .. n - 1
  <2>1. \E n \in 0 .. LowWords : DOMAIN s.pos[a] = 0 .. n - 1
    BY PeopleParts
  <2>2. QED
    BY <2>1, WordAssumption
<1>2. Cardinality(T) = n
  <2>1. 0 \in Int /\ n - 1 \in Int /\ (n - 1) - 0 + 1 = n
    BY <1>1
  <2>2. Cardinality(0 .. n - 1) = IF 0 > n - 1 THEN 0 ELSE (n - 1) - 0 + 1
    BY <2>1, FS_Interval
  <2>3. QED
    BY <1>1, <2>1, <2>2
<1> HIDE DEF T
<1>3. all \in Seq(T) /\ \A p \in T : Once(all, p)
  <2>1. all \in Seq(T) /\ Len(all) = n /\ \A m \in 1 .. n : all[m] = m - 1
    BY <1>1, <1>2
  <2> HIDE DEF all
  <2>2. ASSUME NEW p \in T PROVE Once(all, p)
    <3>1. p + 1 \in 1 .. n /\ p \in Nat
      BY <1>1
    <3>2. all[p + 1] = p /\ \A m \in 1 .. n : all[m] = p => m = p + 1
      BY <2>1, <3>1
    <3>3. QED
      BY <2>1, <3>1, <3>2 DEF Once
  <2>3. QED
    BY <2>1, <2>2
<1> HIDE DEF all, U
<1>4. \A p : /\ here \in Seq(T)
             /\ p \in T /\ p \in U => Once(here, p)
             /\ p \notin U => Absent(here, p)
  BY <1>3, ChosenOnce
<1> HIDE DEF here
<1>5. \A p \in T : /\ Packed(p, a) \in WordsOf(s, {a}) /\ GetP(Packed(p, a)) = p
                   /\ GetV(Packed(p, a)) = a /\ PlaceOf(s, Packed(p, a)) = s.pos[a][p]
  BY WordOfIs DEF T, WordsOf
<1>6. /\ words \in Seq(WordsOf(s, {a})) /\ Len(words) = Len(here) /\ Len(here) \in Nat
      /\ \A k \in 1 .. Len(here) : words[k] = Packed(here[k], a) /\ here[k] \in T
  <2>1. /\ here \in Seq(T) /\ DOMAIN here = 1 .. Len(here) /\ Len(here) \in Nat
        /\ \A k \in 1 .. Len(here) : here[k] \in T
    BY <1>4
  <2> DEFINE W(k) == Packed(here[k], a)
  <2>2. \A k \in 1 .. Len(here) : W(k) \in WordsOf(s, {a})
    BY <1>5, <2>1
  <2>3. words = [k \in 1 .. Len(here) |-> W(k)]
    BY <2>1
  <2> HIDE DEF W, words
  <2>4. /\ words \in Seq(WordsOf(s, {a})) /\ Len(words) = Len(here)
        /\ \A k \in 1 .. Len(here) : words[k] = W(k)
    <3> DEFINE V == WordsOf(s, {a})
               h == Len(here)
    <3>1. h \in Nat /\ words = [k \in 1 .. h |-> W(k)] /\ \A k \in 1 .. h : W(k) \in V
      BY <2>1, <2>2, <2>3
    <3> HIDE DEF V, h
    <3>2. words \in [1 .. h -> V]
      BY <3>1
    <3>3. words \in Seq(V) /\ Len(words) = h
      BY <3>1, <3>2
    <3>4. QED
      BY <3>1, <3>3 DEF V, h
  <2>5. QED
    BY <2>1, <2>4 DEF W
<1> HIDE DEF words
<1>7. ASSUME NEW e \in AllWords(s)
      PROVE  IF GetV(e) = a /\ Seat(s, e) = c THEN Once(words, e) ELSE Absent(words, e)
  <2> DEFINE p == GetP(e)
  <2>1. p \in DOMAIN s.pos[GetV(e)] /\ e = Packed(p, GetV(e))
    BY WordParts DEF AllWords
  <2>2. GetV(e) = a => (p \in T /\ (p \in U <=> Seat(s, e) = c))
    BY <2>1 DEF T, U, Seat, PlaceOf
  <2>3. \A k \in 1 .. Len(here) : words[k] = e <=> (GetV(e) = a /\ here[k] = p)
    BY <1>5, <1>6, <2>1
  <2> HIDE DEF p
  <2>4. CASE GetV(e) = a /\ Seat(s, e) = c
    <3>1. Once(here, p)
      BY <1>4, <2>2, <2>4
    <3>2. QED
      BY <1>6, <2>3, <2>4, <3>1 DEF Once
  <2>5. CASE GetV(e) = a /\ Seat(s, e) # c
    <3>1. Absent(here, p)
      BY <1>4, <2>2, <2>5
    <3>2. QED
      BY <1>6, <2>3, <2>5, <3>1 DEF Absent
  <2>6. CASE GetV(e) # a
    BY <1>6, <2>3, <2>6 DEF Absent
  <2>7. QED
    BY <2>4, <2>5, <2>6
<1>8. QED
  BY <1>6, <1>7 DEF words, here, U, all, T

\* A sequence of a set is one of a larger set.
LEMMA SeqWiden == ASSUME NEW S, NEW T, S \subseteq T, NEW t \in Seq(S) PROVE t \in Seq(T)
  OBVIOUS

LEMMA AddSetFilling ==
  ASSUME WalksWellPosed, people \in Populations, NEW l \in CellLists, Filling(people, lists[l]),
         NEW a \in Sets(people), AddSet(l, a), lists = [m \in CellLists |-> lists[m]]
  PROVE  /\ Filling(people, lists'[l]) /\ people' = people
         /\ lists' = [m \in CellLists |-> IF m = l THEN lists'[l] ELSE lists[m]]
<1> DEFINE s == people
           C == Cells(WalkDec)
           w == lists[l]
           all == [n \in 1 .. Cardinality(DOMAIN people.pos[a]) |-> n - 1]
           Here(c) == Chosen(all, {p \in DOMAIN people.pos[a] : GetCell(WalkDec, people.pos[a][p]) = c})
           words(c) == [k \in DOMAIN Here(c) |-> Packed(Here(c)[k], a)]
           z == [cells |-> [c \in C |-> w.cells[c] \o words(c)], sets |-> w.sets \union {a}]
<1>1. a \notin w.sets /\ people' = people
  BY DEF AddSet
<1>2. lists' = [lists EXCEPT ![l] = z]
  BY DEF AddSet
<1>3. \A c : /\ words(c) \in Seq(WordsOf(s, {a}))
             /\ \A e \in AllWords(s) :
                  IF GetV(e) = a /\ Seat(s, e) = c THEN Once(words(c), e) ELSE Absent(words(c), e)
  BY SetCell
<1> HIDE DEF words
<1>4. /\ w.sets \in SUBSET Sets(s) /\ w.cells \in [C -> Seq(WordsOf(s, w.sets))]
      /\ \A e \in AllWords(s) : \A c \in C :
           IF GetV(e) \in w.sets /\ Seat(s, e) = c THEN Once(w.cells[c], e) ELSE Absent(w.cells[c], e)
  BY DEF Filling
<1>5. z.sets = w.sets \union {a} /\ z.cells = [c \in C |-> w.cells[c] \o words(c)]
  OBVIOUS
<1> DEFINE V == WordsOf(s, z.sets)
<1>6. WordsOf(s, w.sets) \subseteq V /\ WordsOf(s, {a}) \subseteq V
  BY <1>5 DEF WordsOf
<1> HIDE DEF z, w, C, V
<1>7. ASSUME NEW c \in C
      PROVE  /\ z.cells[c] \in Seq(V)
             /\ \A e \in AllWords(s) :
                  IF GetV(e) \in z.sets /\ Seat(s, e) = c THEN Once(z.cells[c], e)
                                                          ELSE Absent(z.cells[c], e)
  <2> DEFINE t == w.cells[c]
             r == words(c)
  <2>1. t \in Seq(V) /\ r \in Seq(V)
    <3>1. t \in Seq(WordsOf(s, w.sets)) /\ r \in Seq(WordsOf(s, {a}))
      BY <1>3, <1>4
    <3> HIDE DEF t, r
    <3>2. QED
      BY <1>6, <3>1, SeqWiden
  <2>2. z.cells[c] = t \o r
    BY <1>5
  <2>3. \A e \in AllWords(s) :
          /\ IF GetV(e) \in w.sets /\ Seat(s, e) = c THEN Once(t, e) ELSE Absent(t, e)
          /\ IF GetV(e) = a /\ Seat(s, e) = c THEN Once(r, e) ELSE Absent(r, e)
    BY <1>3, <1>4
  <2> HIDE DEF t, r
  <2>4. \A e : /\ t \o r \in Seq(V)
               /\ Absent(t, e) /\ Absent(r, e) => Absent(t \o r, e)
               /\ Absent(t, e) /\ Once(r, e) => Once(t \o r, e)
               /\ Once(t, e) /\ Absent(r, e) => Once(t \o r, e)
    BY <2>1, ConcatOnce
  <2>5. QED
    BY <1>1, <1>5, <2>2, <2>3, <2>4
<1>8. z.cells \in [C -> Seq(V)]
  BY <1>5, <1>7
<1>9. z.sets \in SUBSET Sets(s)
  BY <1>4, <1>5
<1>10. Filling(s, z)
  BY <1>7, <1>8, <1>9 DEF Filling, C, V
<1>11. lists'[l] = z /\ lists' = [m \in CellLists |-> IF m = l THEN z ELSE lists[m]]
  BY <1>2
<1>12. QED
  BY <1>1, <1>10, <1>11

-----------------------------------------------------------------------------
(* Lists of several sets: the Verlet lists. *)

\* e's own cell and the ones after it are walked over in a symmetric list.
InFront(s, e, f) ==
  Seat(s, f) > Seat(s, e) \/ (Seat(s, f) = Seat(s, e) /\ MeetsInCell(s, e, f))

\* w is the list create makes of the particles of the set a.
KeepsOK(s, a, w) ==
  \/ w = NoVerlet
  \/ /\ w.kind \in {"full", "sym"} /\ w.from \in SUBSET Sets(s)
     /\ DOMAIN w.ver = 0 .. s.g_m[a] - 1
     /\ \A p \in 0 .. s.g_m[a] - 1 :
          /\ w.ver[p] \in Seq(WordsOf(s, w.from))
          /\ \A f \in WordsOf(s, w.from) :
               IF /\ NearWords(s, Packed(p, a), f)
                  /\ w.kind = "full" \/ InFront(s, Packed(p, a), f)
               THEN Once(w.ver[p], f) ELSE Absent(w.ver[p], f)

LEMMA OnceHere ==
  ASSUME NEW T, NEW t \in Seq(T), NEW x, Once(t, x)
  PROVE  x \in Seqs!ToSet(t)
<1>1. DOMAIN t = 1 .. Len(t)
  OBVIOUS
<1>2. QED
  BY <1>1 DEF Once, Seqs!ToSet

LEMMA KeptOnce ==
  ASSUME NEW T, NEW walk \in Seq(T), NEW s, NEW e
  PROVE  /\ Kept(s, e, walk) \in Seq(T)
         /\ \A f : /\ Absent(walk, f) \/ ~NearWords(s, e, f) => Absent(Kept(s, e, walk), f)
                   /\ Once(walk, f) /\ NearWords(s, e, f) => Once(Kept(s, e, walk), f)
<1> DEFINE U == {q \in Seqs!ToSet(walk) : Nearer(PlaceOf(s, e), PlaceOf(s, q))}
           kept == Kept(s, e, walk)
<1>1. kept = Chosen(walk, U)
  BY DEF Kept
<1>2. \A f : /\ f \in U => NearWords(s, e, f)
             /\ f \in Seqs!ToSet(walk) /\ NearWords(s, e, f) => f \in U
  BY DEF NearWords
<1> HIDE DEF U, kept
<1>3. \A f : /\ kept \in Seq(T)
             /\ Absent(walk, f) \/ f \notin U => Absent(kept, f)
             /\ Once(walk, f) /\ f \in U => Once(kept, f)
  BY <1>1, ChosenOnce
<1>4. \A f : Once(walk, f) => f \in Seqs!ToSet(walk)
  BY OnceHere
<1>5. QED
  BY <1>2, <1>3, <1>4 DEF kept

\* The cells of a list, as a walk sees them.
LEMMA FillingLayout ==
  ASSUME WalksWellPosed, NEW s \in Populations, NEW w, Filling(s, w)
  PROVE  LET T == WordsOf(s, w.sets)
             C == Cells(WalkDec)
         IN  /\ Layout(T, C, w.cells, NNcFull(WalkDec.gr2))
             /\ Layout(T, C, w.cells, NNcSym(WalkDec.gr2))
             /\ \A f \in T : /\ OnlyIn(w.cells, f, Seat(s, f)) /\ Seat(s, f) \in C /\ Seat(s, f) \in Int
                             /\ Once(w.cells[Seat(s, f)], f) /\ f \in AllWords(s)
<1> DEFINE T == WordsOf(s, w.sets)
           C == Cells(WalkDec)
<1>1. /\ NNcFull(WalkDec.gr2) \in Seq(Int) /\ NNcSym(WalkDec.gr2) \in Seq(Int) /\ C \subseteq Int
  BY WalkRoom, StencilTypes
<1>2. /\ w.sets \in SUBSET Sets(s) /\ w.cells \in [C -> Seq(T)]
      /\ \A e \in AllWords(s) : \A c \in C :
           IF GetV(e) \in w.sets /\ Seat(s, e) = c THEN Once(w.cells[c], e) ELSE Absent(w.cells[c], e)
  BY DEF Filling
<1>3. ASSUME NEW f \in T
      PROVE  /\ OnlyIn(w.cells, f, Seat(s, f)) /\ Seat(s, f) \in C /\ Seat(s, f) \in Int
             /\ Once(w.cells[Seat(s, f)], f) /\ f \in AllWords(s)
  <2>1. f \in AllWords(s) /\ GetV(f) \in w.sets
    BY <1>2, WordParts
  <2>2. Seat(s, f) \in C /\ Seat(s, f) \in Int
    BY <2>1, SeatIs
  <2>3. DOMAIN w.cells = C
    BY <1>2
  <2> HIDE DEF C, T
  <2>4. QED
    BY <1>2, <2>1, <2>2, <2>3 DEF OnlyIn
<1>4. QED
  BY <1>1, <1>2, <1>3 DEF Layout

LEMMA WalkTyped ==
  ASSUME NEW T \in SUBSET Nat, NEW C, NEW held, NEW st, Layout(T, C, held, st), NEW c \in Int
  PROVE  Walk(held, c, st) \in Seq(T)
<1> DEFINE none == -1
<1>1. DOMAIN held = C /\ \A a \in C : held[a] \in Seq(Nat)
  BY SeqWiden DEF Layout
<1>2. \A a \in C : \A n \in 1 .. Len(held[a]) : held[a][n] # none
  BY <1>1
<1> HIDE DEF none
<1>3. OnlyIn(held, none, 0)
  BY <1>1, <1>2 DEF OnlyIn, Absent
<1>4. 0 \in Int
  OBVIOUS
<1>5. QED
  BY <1>3, <1>4, WalkMeets

LEMMA FullKeeps ==
  ASSUME WalksWellPosed, NEW s \in Populations, NEW w, Filling(s, w), NEW e \in AllWords(s)
  PROVE  LET list == Kept(s, e, Walk(w.cells, Seat(s, e), NNcFull(WalkDec.gr2)))
         IN  /\ list \in Seq(WordsOf(s, w.sets))
             /\ \A f \in WordsOf(s, w.sets) :
                  IF NearWords(s, e, f) THEN Once(list, f) ELSE Absent(list, f)
<1> DEFINE T == WordsOf(s, w.sets)
           C == Cells(WalkDec)
           st == NNcFull(WalkDec.gr2)
           walk == Walk(w.cells, Seat(s, e), st)
<1>1. /\ Layout(T, C, w.cells, st)
      /\ \A f \in T : /\ OnlyIn(w.cells, f, Seat(s, f)) /\ Seat(s, f) \in C /\ Seat(s, f) \in Int
                      /\ Once(w.cells[Seat(s, f)], f) /\ f \in AllWords(s)
  BY FillingLayout
<1>2. Seat(s, e) \in Int
  BY SeatIs
<1>3. \A f \in T : NearWords(s, e, f) => Once(st, Seat(s, f) - Seat(s, e))
  BY <1>1, SeatsNear
<1> HIDE DEF T, C, st
<1>4. walk \in Seq(T)
  <2>1. T \in SUBSET Nat
    BY <1>1, WordParts DEF AllWords
  <2>2. QED
    BY <1>1, <1>2, <2>1, WalkTyped
<1>5. \A f \in T : NearWords(s, e, f) => Once(walk, f)
  BY <1>1, <1>2, <1>3, WalkMeets
<1> HIDE DEF walk
<1>6. /\ Kept(s, e, walk) \in Seq(T)
      /\ \A f : /\ ~NearWords(s, e, f) => Absent(Kept(s, e, walk), f)
                /\ Once(walk, f) /\ NearWords(s, e, f) => Once(Kept(s, e, walk), f)
  BY <1>4, KeptOnce
<1>7. QED
  BY <1>5, <1>6 DEF T, walk, st

LEMMA SymKeeps ==
  ASSUME WalksWellPosed, NEW s \in Populations, NEW w, Filling(s, w), NEW e \in AllWords(s)
  PROVE  LET c == Seat(s, e)
             list == Kept(s, e, Walk(SymCell(s, w.cells, c, e), c, NNcSym(WalkDec.gr2)))
         IN  /\ list \in Seq(WordsOf(s, w.sets))
             /\ \A f \in WordsOf(s, w.sets) :
                  IF NearWords(s, e, f) /\ InFront(s, e, f) THEN Once(list, f) ELSE Absent(list, f)
<1> DEFINE T == WordsOf(s, w.sets)
           C == Cells(WalkDec)
           st == NNcSym(WalkDec.gr2)
           c == Seat(s, e)
           own == w.cells[c]
           U == {q \in Seqs!ToSet(own) : MeetsInCell(s, e, q)}
           held == SymCell(s, w.cells, c, e)
           walk == Walk(held, c, st)
<1>1. /\ Layout(T, C, w.cells, st)
      /\ \A f \in T : /\ OnlyIn(w.cells, f, Seat(s, f)) /\ Seat(s, f) \in C /\ Seat(s, f) \in Int
                      /\ Once(w.cells[Seat(s, f)], f) /\ f \in AllWords(s)
  BY FillingLayout
<1>2. c \in Int /\ c \in C
  BY SeatIs
<1>3. \A f \in T : NearWords(s, e, f) =>
        /\ Seat(s, f) - c \in Int
        /\ Seat(s, f) - c >= 0 => Once(st, Seat(s, f) - c)
        /\ ~(Seat(s, f) - c >= 0) => Absent(st, Seat(s, f) - c)
  BY <1>1, SeatsNear
<1>4. \A f : f \in U <=> f \in Seqs!ToSet(own) /\ MeetsInCell(s, e, f)
  OBVIOUS
<1>5. held = [w.cells EXCEPT ![c] = Chosen(own, U)]
  BY DEF SymCell
<1>6. T \in SUBSET Nat
  BY <1>1, WordParts DEF AllWords
<1>7. w.cells \in [C -> Seq(T)] /\ C \subseteq Int /\ st \in Seq(Int) /\ own \in Seq(T)
  BY <1>1, <1>2 DEF Layout
<1> HIDE DEF T, C, st, U, held, own
<1>8. \A f : /\ Chosen(own, U) \in Seq(T)
             /\ Absent(own, f) \/ f \notin U => Absent(Chosen(own, U), f)
             /\ Once(own, f) /\ f \in U => Once(Chosen(own, U), f)
  BY <1>7, ChosenOnce
<1>9. \A f : Once(own, f) => f \in Seqs!ToSet(own)
  BY <1>7, OnceHere
<1>10. /\ held \in [C -> Seq(T)] /\ held[c] = Chosen(own, U)
       /\ \A a \in C : a # c => held[a] = w.cells[a]
  BY <1>2, <1>5, <1>7, <1>8
<1>11. Layout(T, C, held, st)
  BY <1>7, <1>10 DEF Layout
<1>12. walk \in Seq(T)
  BY <1>2, <1>6, <1>11, WalkTyped
<1>13. ASSUME NEW f \in T, NearWords(s, e, f)
       PROVE  IF InFront(s, e, f) THEN Once(walk, f) ELSE Absent(walk, f)
  <2> DEFINE b == Seat(s, f)
  <2>1. /\ OnlyIn(w.cells, f, b) /\ b \in C /\ b \in Int /\ Once(w.cells[b], f)
    BY <1>1
  <2>2. OnlyIn(held, f, b)
    <3>1. \A a \in C : a # b => Absent(w.cells[a], f)
      BY <1>7, <2>1 DEF OnlyIn
    <3>2. \A a \in C : a # b => Absent(held[a], f)
      BY <1>2, <1>8, <1>10, <3>1 DEF own
    <3>3. QED
      BY <1>10, <3>2 DEF OnlyIn
  <2>3. /\ b - c >= 0 => Once(st, b - c)
        /\ ~(b - c >= 0) => Absent(st, b - c)
    BY <1>3, <1>13
  <2>4. InFront(s, e, f) <=> b > c \/ (b = c /\ MeetsInCell(s, e, f))
    BY DEF InFront
  <2> HIDE DEF b, walk
  <2>5. /\ Once(held[b], f) /\ Once(st, b - c) => Once(walk, f)
        /\ Absent(held[b], f) \/ Absent(st, b - c) => Absent(walk, f)
    BY <1>2, <1>11, <2>1, <2>2, WalkMeets DEF walk
  <2>6. CASE b > c
    BY <1>2, <1>10, <2>1, <2>3, <2>4, <2>5, <2>6
  <2>7. CASE b < c
    BY <1>2, <2>1, <2>3, <2>4, <2>5, <2>7
  <2>8. CASE b = c
    <3>1. Once(own, f) /\ b - c >= 0
      BY <1>2, <2>1, <2>8 DEF own
    <3>2. f \in U <=> MeetsInCell(s, e, f)
      BY <1>4, <1>9, <3>1
    <3>3. QED
      BY <1>2, <1>8, <1>10, <2>3, <2>4, <2>5, <2>8, <3>1, <3>2
  <2>9. QED
    BY <1>2, <2>1, <2>6, <2>7, <2>8
<1> HIDE DEF walk
<1>14. /\ Kept(s, e, walk) \in Seq(T)
       /\ \A f : /\ Absent(walk, f) \/ ~NearWords(s, e, f) => Absent(Kept(s, e, walk), f)
                 /\ Once(walk, f) /\ NearWords(s, e, f) => Once(Kept(s, e, walk), f)
  BY <1>12, KeptOnce
<1>15. QED
  BY <1>13, <1>14 DEF T, walk, held, st

LEMMA InitializeKeeps ==
  ASSUME WalksWellPosed, people \in Populations, NEW l \in CellLists, Filling(people, lists[l]),
         NEW a \in Sets(people), NEW kind \in {"full", "sym"}, InitializeVerlet(a, l, kind),
         verlet = [b \in Sets(people) |-> verlet[b]]
  PROVE  /\ KeepsOK(people, a, verlet'[a])
         /\ verlet' = [b \in Sets(people) |-> IF b = a THEN verlet'[a] ELSE verlet[b]]
<1> DEFINE s == people
           w == lists[l]
           T == WordsOf(s, w.sets)
           P == 0 .. s.g_m[a] - 1
           AroundOf(e) ==
             LET c == GetCell(WalkDec, PlaceOf(people, e))
             IN  IF kind = "full" THEN Walk(lists[l].cells, c, NNcFull(WalkDec.gr2))
                 ELSE Walk(SymCell(people, lists[l].cells, c, e), c, NNcSym(WalkDec.gr2))
           z == [kind |-> kind, from |-> lists[l].sets,
                 ver |-> [p \in 0 .. people.g_m[a] - 1 |->
                            Kept(people, Packed(p, a), AroundOf(Packed(p, a)))]]
<1>1. verlet' = [verlet EXCEPT ![a] = z]
  BY DEF InitializeVerlet
<1>2. w.sets \in SUBSET Sets(s)
  BY DEF Filling
<1>3. ASSUME NEW p \in P PROVE Packed(p, a) \in AllWords(s)
  <2>1. PICK n \in 0 .. LowWords : DOMAIN s.pos[a] = 0 .. n - 1 /\ s.g_m[a] \in 0 .. n
    BY PeopleParts
  <2>2. LowWords \in Nat
    BY WordAssumption
  <2>3. p \in DOMAIN s.pos[a]
    BY <2>1, <2>2
  <2>4. QED
    BY <2>3, WordOfIs
<1>4. ASSUME NEW p \in P
      PROVE  LET e == Packed(p, a)
                 list == Kept(s, e, AroundOf(e))
             IN  /\ list \in Seq(T)
                 /\ \A f \in T : IF NearWords(s, e, f) /\ (kind = "full" \/ InFront(s, e, f))
                                 THEN Once(list, f) ELSE Absent(list, f)
  <2> DEFINE e == Packed(p, a)
  <2>1. e \in AllWords(s)
    BY <1>3
  <2> HIDE DEF e
  <2>2. CASE kind = "full"
    <3>1. AroundOf(e) = Walk(w.cells, Seat(s, e), NNcFull(WalkDec.gr2))
      BY <2>2 DEF Seat
    <3> HIDE DEF AroundOf
    <3>2. QED
      BY <2>1, <2>2, <3>1, FullKeeps DEF e
  <2>3. CASE kind # "full"
    <3>1. AroundOf(e) = Walk(SymCell(s, w.cells, Seat(s, e), e), Seat(s, e), NNcSym(WalkDec.gr2))
      BY <2>3 DEF Seat
    <3> HIDE DEF AroundOf
    <3>2. QED
      BY <2>1, <2>3, <3>1, SymKeeps DEF e
  <2>4. QED
    BY <2>2, <2>3
<1> HIDE DEF AroundOf
<1>5. z.kind = kind /\ z.from = w.sets /\ z.ver = [p \in P |-> Kept(s, Packed(p, a), AroundOf(Packed(p, a)))]
  OBVIOUS
<1> HIDE DEF z, P, T, w
<1>6. KeepsOK(s, a, z)
  <2>1. DOMAIN z.ver = P /\ \A p \in P : z.ver[p] = Kept(s, Packed(p, a), AroundOf(Packed(p, a)))
    BY <1>5
  <2>2. z.kind \in {"full", "sym"} /\ z.from \in SUBSET Sets(s)
    BY <1>2, <1>5
  <2>3. \A p \in P :
          /\ z.ver[p] \in Seq(T)
          /\ \A f \in T : IF NearWords(s, Packed(p, a), f) /\ (z.kind = "full" \/ InFront(s, Packed(p, a), f))
                          THEN Once(z.ver[p], f) ELSE Absent(z.ver[p], f)
    BY <1>4, <1>5, <2>1
  <2>4. T = WordsOf(s, z.from)
    BY <1>5 DEF T
  <2>5. QED
    BY <2>1, <2>2, <2>3, <2>4 DEF KeepsOK, P
<1>7. verlet'[a] = z /\ verlet' = [b \in Sets(s) |-> IF b = a THEN z ELSE verlet[b]]
  BY <1>1
<1>8. QED
  BY <1>6, <1>7

-----------------------------------------------------------------------------
(* Lists of several sets: the places of a loop. *)

\* What a loop is over.
Looping(s, w) ==
  /\ Filling(s, w.l) /\ OrderOK(WalkDec, w.order)
  /\ w.kind \in {"cells", "crs", "curve"}
  /\ w.kind # "crs" => w.l.sets = {0}

\* An element of a cell in the order.
IsPlace(w, x) == \E n \in 1 .. Len(w.order) : \E k \in 1 .. Len(w.l.cells[w.order[n]]) : x = <<n, k>>

LEMMA PlacesAre ==
  ASSUME WalksWellPosed, NEW s \in Populations, NEW w, Looping(s, w)
  PROVE  /\ Places(w) \in SUBSET (Nat \X Nat) /\ Len(w.order) \in Nat
         /\ \A x : x \in Places(w) <=> IsPlace(w, x)
         /\ \A n \in 1 .. Len(w.order) : /\ w.order[n] \in Cells(WalkDec)
                                         /\ w.l.cells[w.order[n]] \in Seq(WordsOf(s, w.l.sets))
<1> DEFINE T == WordsOf(s, w.l.sets)
           Row1(n) == w.l.cells[w.order[n]]
           h == Len(w.order)
           PlacesIn(n) == {<<n, k>> : k \in DOMAIN Row1(n)}
<1>1. /\ w.order \in Seq(Cells(WalkDec)) /\ h \in Nat /\ DOMAIN w.order = 1 .. h
      /\ \A n \in 1 .. h : w.order[n] \in Cells(WalkDec)
  BY DEF Looping, OrderOK
<1>2. w.l.cells \in [Cells(WalkDec) -> Seq(T)]
  BY DEF Looping, Filling
<1> HIDE DEF T
<1>3. \A n \in 1 .. h : Row1(n) \in Seq(T)
  BY <1>1, <1>2
<1> HIDE DEF Row1
<1>4. \A n \in 1 .. h : Len(Row1(n)) \in Nat /\ DOMAIN Row1(n) = 1 .. Len(Row1(n))
  BY <1>3
<1>5. Places(w) = UNION {PlacesIn(n) : n \in 1 .. h}
  BY <1>1 DEF Places, Row1
<1>6. \A n \in 1 .. h : \A x : x \in PlacesIn(n) <=> \E k \in 1 .. Len(Row1(n)) : x = <<n, k>>
  BY <1>4
<1> HIDE DEF PlacesIn
<1>7. \A x : x \in Places(w) <=> \E n \in 1 .. h : \E k \in 1 .. Len(Row1(n)) : x = <<n, k>>
  BY <1>5, <1>6
<1>8. Places(w) \in SUBSET (Nat \X Nat)
  <2>1. \A n \in 1 .. h : \A k \in 1 .. Len(Row1(n)) : <<n, k>> \in Nat \X Nat
    BY <1>1, <1>4
  <2>2. QED
    BY <1>7, <2>1
<1>9. \A x : x \in Places(w) <=> IsPlace(w, x)
  BY <1>7 DEF IsPlace, Row1, h
<1>10. QED
  BY <1>1, <1>3, <1>8, <1>9 DEF Row1, h, T

\* Places are in one order.
LEMMA BeforeIs ==
  ASSUME NEW x \in Nat \X Nat, NEW y \in Nat \X Nat
  PROVE  /\ x = y \/ Before(x, y) \/ Before(y, x)
         /\ ~Before(x, x)
         /\ ~(Before(x, y) /\ Before(y, x))
         /\ \A z \in Nat \X Nat : Before(x, y) /\ Before(y, z) => Before(x, z)
<1>1. /\ x = <<x[1], x[2]>> /\ y = <<y[1], y[2]>>
      /\ x[1] \in Nat /\ x[2] \in Nat /\ y[1] \in Nat /\ y[2] \in Nat
      /\ \A z \in Nat \X Nat : z[1] \in Nat /\ z[2] \in Nat
  OBVIOUS
<1>2. QED
  BY <1>1 DEF Before

\* The first place of a set.
LEMMA FirstIs ==
  ASSUME NEW w, NEW S \in SUBSET (Nat \X Nat)
  PROVE  /\ S = {} => FirstOf(w, S) = <<Len(w.order) + 1, 1>>
         /\ S # {} => /\ FirstOf(w, S) \in S
                      /\ \A y \in S : FirstOf(w, S) = y \/ Before(FirstOf(w, S), y)
<1>1. ASSUME S # {} PROVE \E x \in S : \A y \in S : x = y \/ Before(x, y)
  <2> DEFINE A == {x[1] : x \in S}
  <2>1. A \in SUBSET Nat /\ A # {}
    BY <1>1
  <2>2. PICK m \in A : \A k \in A : m <= k
    BY <2>1, LeastNat
  <2> DEFINE R == {x \in S : x[1] = m}
             B == {x[2] : x \in R}
  <2>3. B \in SUBSET Nat /\ B # {}
    BY <2>2
  <2>4. PICK h \in B : \A k \in B : h <= k
    BY <2>3, LeastNat
  <2>5. PICK x \in R : x[2] = h
    BY <2>4
  <2>6. ASSUME NEW y \in S PROVE x = y \/ Before(x, y)
    <3>1. /\ y = <<y[1], y[2]>> /\ x = <<x[1], x[2]>> /\ x[1] = m /\ x[2] = h
          /\ y[1] \in Nat /\ y[2] \in Nat /\ m \in Nat /\ h \in Nat
      BY <2>1, <2>3, <2>5
    <3>2. m <= y[1]
      BY <2>2
    <3>3. y[1] = m => h <= y[2]
      BY <2>4
    <3>4. QED
      BY <3>1, <3>2, <3>3 DEF Before
  <2>7. QED
    BY <2>5, <2>6
<1>2. CASE S = {}
  BY <1>2 DEF FirstOf
<1>3. CASE S # {}
  <2>1. FirstOf(w, S) = CHOOSE x \in S : \A y \in S : x = y \/ Before(x, y)
    BY <1>3 DEF FirstOf
  <2>2. QED
    BY <1>1, <1>3, <2>1
<1>4. QED
  BY <1>2, <1>3

\* Each element that is in a cell of the domain is at one place, and no other.
LEMMA PlaceOnce ==
  ASSUME WalksWellPosed, NEW s \in Populations, NEW w, Looping(s, w)
  PROVE  /\ \A x \in Places(w) : /\ Element(w, x) \in WordsOf(s, w.l.sets)
                                 /\ w.order[x[1]] = Seat(s, Element(w, x))
                                 /\ Seat(s, Element(w, x)) \in DomainCells(WalkDec)
         /\ \A x, y \in Places(w) : Element(w, x) = Element(w, y) => x = y
         /\ \A e \in WordsOf(s, w.l.sets) :
              Seat(s, e) \in DomainCells(WalkDec) => \E x \in Places(w) : Element(w, x) = e
<1> DEFINE T == WordsOf(s, w.l.sets)
           C == Cells(WalkDec)
           h == Len(w.order)
           Own1(c) == w.l.cells[c]
<1>1. /\ h \in Nat
      /\ \A x : x \in Places(w) <=> \E n \in 1 .. h : \E k \in 1 .. Len(Own1(w.order[n])) : x = <<n, k>>
      /\ \A n \in 1 .. h : w.order[n] \in C /\ Own1(w.order[n]) \in Seq(T)
  <2>1. /\ Len(w.order) \in Nat
        /\ \A x : x \in Places(w) <=> IsPlace(w, x)
        /\ \A n \in 1 .. Len(w.order) : /\ w.order[n] \in Cells(WalkDec)
                                        /\ w.l.cells[w.order[n]] \in Seq(WordsOf(s, w.l.sets))
    BY PlacesAre
  <2>2. QED
    BY <2>1 DEF IsPlace
<1>2. \A c \in C : IF c \in DomainCells(WalkDec) THEN Once(w.order, c) ELSE Absent(w.order, c)
  BY DEF Looping, OrderOK
<1>3. /\ \A e \in T : e \in AllWords(s) /\ GetV(e) \in w.l.sets
      /\ \A e \in AllWords(s) : \A c \in C :
           IF GetV(e) \in w.l.sets /\ Seat(s, e) = c THEN Once(Own1(c), e) ELSE Absent(Own1(c), e)
  <2>1. w.l.sets \in SUBSET Sets(s)
    BY DEF Looping, Filling
  <2>2. QED
    BY <2>1, WordParts DEF Looping, Filling
<1>4. \A e \in T : Seat(s, e) \in C
  BY <1>3, SeatIs
<1>5. \A n, k : Element(w, <<n, k>>) = Own1(w.order[n])[k]
  BY DEF Element
<1> HIDE DEF T, C, h, Own1
<1>6. ASSUME NEW n \in 1 .. h, NEW k \in 1 .. Len(Own1(w.order[n]))
      PROVE  LET e == Own1(w.order[n])[k]
             IN  /\ e \in T /\ w.order[n] = Seat(s, e) /\ Once(w.order, Seat(s, e))
                 /\ Once(Own1(Seat(s, e)), e) /\ Seat(s, e) \in DomainCells(WalkDec)
  <2> DEFINE c == w.order[n]
             e == Own1(c)[k]
  <2>1. c \in C /\ e \in T
    BY <1>1
  <2>2. ~Absent(Own1(c), e) /\ ~Absent(w.order, c)
    BY DEF Absent, h
  <2>3. Seat(s, e) = c /\ Once(Own1(c), e)
    BY <1>3, <2>1, <2>2
  <2>4. QED
    BY <1>2, <2>1, <2>2, <2>3
<1>7. ASSUME NEW x \in Places(w)
      PROVE  /\ Element(w, x) \in T /\ w.order[x[1]] = Seat(s, Element(w, x))
             /\ Seat(s, Element(w, x)) \in DomainCells(WalkDec)
  <2>1. PICK n \in 1 .. h : \E k \in 1 .. Len(Own1(w.order[n])) : x = <<n, k>>
    BY <1>1
  <2>2. PICK k \in 1 .. Len(Own1(w.order[n])) : x = <<n, k>>
    BY <2>1
  <2>3. QED
    BY <1>5, <1>6, <2>2
<1>8. ASSUME NEW x \in Places(w), NEW y \in Places(w), Element(w, x) = Element(w, y) PROVE x = y
  <2>1. PICK n \in 1 .. h : \E k \in 1 .. Len(Own1(w.order[n])) : x = <<n, k>>
    BY <1>1
  <2>2. PICK k \in 1 .. Len(Own1(w.order[n])) : x = <<n, k>>
    BY <2>1
  <2>3. PICK m \in 1 .. h : \E j \in 1 .. Len(Own1(w.order[m])) : y = <<m, j>>
    BY <1>1
  <2>4. PICK j \in 1 .. Len(Own1(w.order[m])) : y = <<m, j>>
    BY <2>3
  <2> DEFINE e == Own1(w.order[n])[k]
             c == Seat(s, e)
  <2>5. e = Own1(w.order[m])[j]
    BY <1>5, <1>8, <2>2, <2>4
  <2>6. w.order[n] = c /\ w.order[m] = c /\ Once(w.order, c) /\ Once(Own1(c), e)
    BY <1>6, <2>5
  <2> HIDE DEF c, e
  <2>7. n = m
    BY <2>6 DEF Once, h
  <2>8. k \in 1 .. Len(Own1(c)) /\ j \in 1 .. Len(Own1(c)) /\ Own1(c)[k] = e /\ Own1(c)[j] = e
    BY <2>5, <2>6 DEF e
  <2>9. k = j
    BY <2>6, <2>8 DEF Once
  <2>10. QED
    BY <2>2, <2>4, <2>7, <2>9
<1>9. ASSUME NEW e \in T, Seat(s, e) \in DomainCells(WalkDec)
      PROVE  \E x \in Places(w) : Element(w, x) = e
  <2> DEFINE c == Seat(s, e)
  <2>1. Once(w.order, c) /\ Once(Own1(c), e)
    BY <1>2, <1>3, <1>4, <1>9
  <2> HIDE DEF c
  <2>2. PICK n \in 1 .. h : w.order[n] = c
    BY <2>1 DEF Once, h
  <2>3. PICK k \in 1 .. Len(Own1(c)) : Own1(c)[k] = e
    BY <2>1 DEF Once
  <2>4. <<n, k>> \in Places(w) /\ Element(w, <<n, k>>) = e
    BY <1>1, <1>5, <2>2, <2>3
  <2>5. QED
    BY <2>4
<1>10. QED
  BY <1>7, <1>8, <1>9 DEF T

-----------------------------------------------------------------------------
(* Lists of several sets: what a loop has met. *)

LoopFields == {"kind", "l", "order", "at", "seen", "met"}
IsLoop(w) == w = [f \in LoopFields |-> w[f]]

LoopEnd(w) == <<Len(w.order) + 1, 1>>

\* The loop has been at e.
Gone(s, w, e) == \E x \in Places(w) : Element(w, x) = e /\ ~Skips(s, w, x) /\ Before(x, w.at)

SeenOK(s, w) ==
  /\ w.seen \in Seq(WordsOf(s, w.l.sets))
  /\ \A e \in WordsOf(s, w.l.sets) : IF Gone(s, w, e) THEN Once(w.seen, e) ELSE Absent(w.seen, e)

\* The pairs a CRS loop has met: those of an element it has been at and one in
\* another cell of the stencil.
MetOK(s, w) ==
  LET T == WordsOf(s, w.l.sets)
      st == NNcSym(WalkDec.gr2)
  IN  /\ w.met \in Seq(T \X T)
      /\ \A e, f \in T : e # f =>
           /\ Gone(s, w, e) /\ Once(st, Seat(s, f) - Seat(s, e)) => Once(w.met, <<e, f>>)
           /\ ~Gone(s, w, e) \/ Absent(st, Seat(s, f) - Seat(s, e)) => Absent(w.met, <<e, f>>)

\* Ghosts are passed over from the first place on.
Strict(w) == w.kind = "cells" => ~AnyFirst

LoopOK(s, w) ==
  \/ w = NoLoop
  \/ /\ IsLoop(w) /\ Looping(s, w)
     /\ w.at \in Places(w) \/ w.at = LoopEnd(w)
     /\ Strict(w) => /\ w.at \in Places(w) => ~Skips(s, w, w.at)
                     /\ SeenOK(s, w)
     /\ w.kind = "crs" /\ ~Crowded => /\ \A c \in Cells(WalkDec) : Len(w.l.cells[c]) <= 1
                                      /\ MetOK(s, w)

LEMMA SameLoop ==
  ASSUME NEW w, NEW r, r.kind = w.kind, r.l = w.l, r.order = w.order
  PROVE  /\ Places(r) = Places(w) /\ LoopEnd(r) = LoopEnd(w) /\ (Strict(r) <=> Strict(w))
         /\ \A x : Element(r, x) = Element(w, x)
         /\ \A s, x : Skips(s, r, x) <=> Skips(s, w, x)
         /\ \A s : Looping(s, r) <=> Looping(s, w)
<1>1. Places(r) = Places(w)
  BY DEF Places
<1>2. LoopEnd(r) = LoopEnd(w) /\ (Strict(r) <=> Strict(w)) /\ \A x : Element(r, x) = Element(w, x)
  BY DEF LoopEnd, Strict, Element
<1>3. \A s, x : Skips(s, r, x) <=> Skips(s, w, x)
  BY <1>2 DEF Skips
<1>4. \A s : Looping(s, r) <=> Looping(s, w)
  BY DEF Looping
<1>5. QED
  BY <1>1, <1>2, <1>3, <1>4

\* The end is past every place, and is none.
LEMMA EndIs ==
  ASSUME WalksWellPosed, NEW s \in Populations, NEW w, Looping(s, w)
  PROVE  /\ LoopEnd(w) \in Nat \X Nat /\ LoopEnd(w) \notin Places(w)
         /\ \A x \in Places(w) : Before(x, LoopEnd(w)) /\ x[1] \in 1 .. Len(w.order)
         /\ w.at = LoopEnd(w) => AtEnd(w)
         /\ w.at \in Places(w) => ~AtEnd(w)
<1> DEFINE h == Len(w.order)
<1>1. /\ h \in Nat
      /\ \A x : x \in Places(w) => \E n \in 1 .. h : \E k \in 1 .. Len(w.l.cells[w.order[n]]) : x = <<n, k>>
  BY PlacesAre DEF IsPlace
<1>2. \A x \in Places(w) : x[1] \in 1 .. h
  BY <1>1
<1>3. LoopEnd(w) = <<h + 1, 1>>
  BY DEF LoopEnd
<1> HIDE DEF h
<1>4. LoopEnd(w) \in Nat \X Nat /\ LoopEnd(w)[1] = h + 1
  BY <1>1, <1>3
<1>5. AtEnd(w) <=> w.at[1] > h
  BY DEF AtEnd, h
<1>6. LoopEnd(w) \notin Places(w) /\ \A x \in Places(w) : Before(x, LoopEnd(w))
  BY <1>1, <1>2, <1>4 DEF Before
<1>7. /\ w.at = LoopEnd(w) => AtEnd(w)
      /\ w.at \in Places(w) => ~AtEnd(w)
  BY <1>1, <1>2, <1>4, <1>5
<1>8. QED
  BY <1>2, <1>4, <1>6, <1>7 DEF h

\* The first of a set of places, or the end if there is none.
LEMMA FirstPlace ==
  ASSUME WalksWellPosed, NEW s \in Populations, NEW w, Looping(s, w), NEW S \in SUBSET Places(w)
  PROVE  LET a == FirstOf(w, S)
         IN  /\ a \in Nat \X Nat /\ (a \in S \/ (a = LoopEnd(w) /\ S = {}))
             /\ \A x \in S : ~Before(x, a)
             /\ \A x \in Places(w) : S = {} => Before(x, a)
<1> DEFINE a == FirstOf(w, S)
<1>1. S \in SUBSET (Nat \X Nat)
  BY PlacesAre
<1>2. /\ S = {} => a = LoopEnd(w)
      /\ S # {} => a \in S /\ \A y \in S : a = y \/ Before(a, y)
  BY <1>1, FirstIs DEF LoopEnd
<1> HIDE DEF a
<1>3. LoopEnd(w) \in Nat \X Nat /\ \A x \in Places(w) : Before(x, LoopEnd(w))
  BY EndIs
<1>4. a \in Nat \X Nat
  BY <1>1, <1>2, <1>3
<1>5. \A x \in S : ~Before(x, a)
  BY <1>1, <1>2, <1>4, BeforeIs
<1>6. QED
  BY <1>2, <1>3, <1>4, <1>5 DEF a

\* What a step of a loop passes.
LEMMA Passing ==
  ASSUME WalksWellPosed, NEW s \in Populations, NEW w, Looping(s, w), w.at \in Places(w),
         ~Skips(s, w, w.at), NEW r, r.kind = w.kind, r.l = w.l, r.order = w.order,
         r.at = FirstOf(w, {x \in Places(w) : Before(w.at, x) /\ ~Skips(s, w, x)})
  PROVE  /\ ~Gone(s, w, Element(w, w.at))
         /\ \A e : Gone(s, r, e) <=> Gone(s, w, e) \/ e = Element(w, w.at)
<1> DEFINE S == {x \in Places(w) : Before(w.at, x) /\ ~Skips(s, w, x)}
<1>1. Places(r) = Places(w) /\ \A x : /\ Element(r, x) = Element(w, x)
                                      /\ Skips(s, r, x) <=> Skips(s, w, x)
  BY SameLoop
<1>2. Places(w) \in SUBSET (Nat \X Nat)
  BY PlacesAre
<1>3. \A x, y \in Places(w) : Element(w, x) = Element(w, y) => x = y
  BY PlaceOnce
<1>4. ~Gone(s, w, Element(w, w.at))
  BY <1>2, <1>3, BeforeIs DEF Gone
<1>5. \A x : x \in S <=> x \in Places(w) /\ Before(w.at, x) /\ ~Skips(s, w, x)
  OBVIOUS
<1>6. r.at = FirstOf(w, S) /\ S \in SUBSET Places(w)
  OBVIOUS
<1> HIDE DEF S
<1>7. /\ r.at \in Nat \X Nat /\ (r.at \in S \/ (r.at = LoopEnd(w) /\ S = {}))
      /\ \A x \in S : ~Before(x, r.at)
      /\ \A x \in Places(w) : S = {} => Before(x, r.at)
  BY <1>6, FirstPlace
<1>8. ASSUME NEW x \in Places(w), ~Skips(s, w, x)
      PROVE  Before(x, r.at) <=> Before(x, w.at) \/ x = w.at
  <2>1. x \in Nat \X Nat /\ w.at \in Nat \X Nat
    BY <1>2
  <2>2. Before(w.at, r.at)
    BY <1>5, <1>7
  <2>3. CASE Before(x, w.at)
    BY <1>7, <2>1, <2>2, <2>3, BeforeIs
  <2>4. CASE x = w.at
    BY <2>2, <2>4
  <2>5. CASE Before(w.at, x)
    <3>1. x \in S
      BY <1>5, <1>8, <2>5
    <3>2. ~Before(x, w.at) /\ x # w.at
      BY <2>1, <2>5, BeforeIs
    <3>3. QED
      BY <1>7, <3>1, <3>2
  <2>6. QED
    BY <2>1, <2>3, <2>4, <2>5, BeforeIs
<1>9. QED
  BY <1>1, <1>4, <1>8 DEF Gone

LEMMA OneElement ==
  ASSUME NEW T, NEW t \in Seq(T), NEW x, Once(t, x), Len(t) <= 1
  PROVE  t = <<x>>
<1> DEFINE h == Len(t)
<1>1. h \in Nat /\ h <= 1
  OBVIOUS
<1>2. \E n \in 1 .. h : t[n] = x
  BY DEF Once
<1> HIDE DEF h
<1>3. h = 1 /\ t[1] = x
  BY <1>1, <1>2
<1>4. QED
  BY <1>3 DEF h

\* From an element that is alone in its cell a CRS walk meets the elements of the
\* cells its stencil leads to.
LEMMA CrsWalkMeets ==
  ASSUME WalksWellPosed, NEW s \in Populations, NEW w, Looping(s, w), w.at \in Places(w),
         \A c \in Cells(WalkDec) : Len(w.l.cells[c]) <= 1
  PROVE  LET T == WordsOf(s, w.l.sets)
             st == NNcSym(WalkDec.gr2)
             e == Element(w, w.at)
         IN  /\ CrsWalk(s, w) \in Seq(T)
             /\ \A f \in T : f # e =>
                  /\ Seat(s, f) # Seat(s, e)
                  /\ Once(st, Seat(s, f) - Seat(s, e)) => Once(CrsWalk(s, w), f)
                  /\ Absent(st, Seat(s, f) - Seat(s, e)) => Absent(CrsWalk(s, w), f)
<1> DEFINE T == WordsOf(s, w.l.sets)
           C == Cells(WalkDec)
           st == NNcSym(WalkDec.gr2)
           e == Element(w, w.at)
           c == w.order[w.at[1]]
           own == w.l.cells[c]
           first == <<Head(own)>> \o Chosen(Tail(own), {q \in Seqs!ToSet(own) : MeetsInCell(s, e, q)})
           held == [w.l.cells EXCEPT ![c] = first]
           walk == Walk(held, c, st)
<1>1. e \in T /\ c = Seat(s, e)
  BY PlaceOnce
<1>2. Filling(s, w.l)
  BY DEF Looping
<1>3. /\ Layout(T, C, w.l.cells, st)
      /\ \A f \in T : /\ OnlyIn(w.l.cells, f, Seat(s, f)) /\ Seat(s, f) \in C /\ Seat(s, f) \in Int
                      /\ Once(w.l.cells[Seat(s, f)], f) /\ f \in AllWords(s)
  BY <1>2, FillingLayout
<1>4. c \in C /\ c \in Int /\ Once(own, e) /\ Len(own) <= 1
  BY <1>1, <1>3
<1>5. CrsWalk(s, w) = walk
  BY DEF CrsWalk
<1>6. T \in SUBSET Nat
  BY <1>3, WordParts DEF AllWords
<1>7. w.l.cells \in [C -> Seq(T)] /\ C \subseteq Int /\ st \in Seq(Int)
  BY <1>3 DEF Layout
<1>8. own \in Seq(T)
  BY <1>4, <1>7
<1>9. own = <<e>>
  <2> HIDE DEF own, e, T
  <2>1. QED
    BY <1>4, <1>8, OneElement
<1>10. \A f \in T : f # e => Seat(s, f) # c
  <2>1. \A f : Once(<<e>>, f) => f = e
    <3> HIDE DEF e
    <3>1. QED
      BY DEF Once
  <2>2. QED
    BY <1>3, <1>9, <2>1
<1> DEFINE U == {q \in Seqs!ToSet(own) : MeetsInCell(s, e, q)}
<1>11. first = <<e>>
  <2>1. Head(own) = e /\ Tail(own) = <<>>
    <3> HIDE DEF own, e
    <3>1. QED
      BY <1>9
  <2>2. first = <<Head(own)>> \o Chosen(Tail(own), U)
    OBVIOUS
  <2> HIDE DEF U, own, e, first, T
  <2>3. Chosen(<<>>, U) = <<>>
    <3>1. <<>> \in Seq({}) /\ \A x : x \in {} => FALSE
      OBVIOUS
    <3>2. Chosen(<<>>, U) \in Seq({})
      BY <3>1, ChosenOnce
    <3>3. QED
      BY <3>2
  <2>4. \A x : <<x>> \o <<>> = <<x>>
    OBVIOUS
  <2>5. QED
    BY <2>1, <2>2, <2>3, <2>4
<1> HIDE DEF first, own, C, st, e, c
<1>12. /\ held \in [C -> Seq(T)] /\ \A a \in C : a # c => held[a] = w.l.cells[a]
       /\ held[c] = <<e>>
  <2>1. <<e>> \in Seq(T)
    BY <1>1 DEF e
  <2> HIDE DEF T
  <2>2. QED
    BY <1>4, <1>7, <1>11, <2>1
<1> HIDE DEF held
<1>13. Layout(T, C, held, st)
  BY <1>7, <1>12 DEF Layout
<1>14. walk \in Seq(T)
  BY <1>4, <1>6, <1>13, WalkTyped
<1>15. ASSUME NEW f \in T, f # e
       PROVE  /\ Once(st, Seat(s, f) - c) => Once(walk, f)
              /\ Absent(st, Seat(s, f) - c) => Absent(walk, f)
  <2> DEFINE b == Seat(s, f)
  <2>1. OnlyIn(w.l.cells, f, b) /\ b \in C /\ b \in Int /\ Once(w.l.cells[b], f) /\ b # c
    BY <1>3, <1>10, <1>15
  <2> HIDE DEF b, T
  <2>2. OnlyIn(held, f, b)
    <3>1. \A a \in C : a # b => Absent(w.l.cells[a], f)
      BY <1>7, <2>1 DEF OnlyIn
    <3>2. Absent(<<e>>, f)
      BY <1>15 DEF Absent
    <3>3. \A a \in C : a # b => Absent(held[a], f)
      BY <1>12, <3>1, <3>2
    <3>4. QED
      BY <1>12, <3>3 DEF OnlyIn
  <2>3. Once(held[b], f)
    BY <1>12, <2>1
  <2>4. /\ Once(st, b - c) => Once(walk, f)
        /\ Absent(st, b - c) => Absent(walk, f)
    BY <1>4, <1>13, <2>1, <2>2, <2>3, WalkMeets
  <2>5. QED
    BY <2>4 DEF b
<1> HIDE DEF walk
<1>16. QED
  BY <1>1, <1>5, <1>10, <1>14, <1>15 DEF T, e, c, st

LEMMA AdvanceLoop ==
  ASSUME WalksWellPosed, people \in Populations, LoopOK(people, loop), Advance
  PROVE  LoopOK(people, loop')
<1> DEFINE s == people
           w == loop
           r == loop'
           e == Element(w, w.at)
           T == WordsOf(s, w.l.sets)
           S == {x \in Places(w) : Before(w.at, x) /\ ~Skips(s, w, x)}
           near == CrsWalk(s, w)
<1>1. w # NoLoop /\ ~AtEnd(w)
  BY DEF Advance
<1>2. /\ IsLoop(w) /\ Looping(s, w)
      /\ w.at \in Places(w) \/ w.at = LoopEnd(w)
      /\ Strict(w) => /\ w.at \in Places(w) => ~Skips(s, w, w.at)
                      /\ SeenOK(s, w)
      /\ w.kind = "crs" /\ ~Crowded => /\ \A c \in Cells(WalkDec) : Len(w.l.cells[c]) <= 1
                                       /\ MetOK(s, w)
  BY <1>1 DEF LoopOK
<1>3. w.at \in Places(w)
  BY <1>1, <1>2, EndIs
<1>4. /\ r = [w EXCEPT !.seen = Append(w.seen, e),
                       !.met = IF w.kind # "crs" THEN w.met ELSE w.met \o MetIn(e, near),
                       !.at = FirstOf(w, S)]
  <2>1. {x \in {x \in Places(w) : Before(w.at, x)} : ~Skips(s, w, x)} = S
    OBVIOUS
  <2>2. QED
    BY <2>1 DEF Advance, MetIn
<1>5. /\ IsLoop(r) /\ r.kind = w.kind /\ r.l = w.l /\ r.order = w.order
      /\ r.seen = Append(w.seen, e) /\ r.at = FirstOf(w, S)
      /\ w.kind = "crs" => r.met = w.met \o MetIn(e, near)
  <2>1. w = [f \in LoopFields |-> w[f]]
    BY <1>2 DEF IsLoop
  <2> HIDE DEF w, r, e, S, near, s
  <2>2. QED
    BY <1>4, <2>1 DEF IsLoop, LoopFields
<1> HIDE DEF s, w, r, S, near, e
<1>6. /\ Places(r) = Places(w) /\ LoopEnd(r) = LoopEnd(w) /\ (Strict(r) <=> Strict(w))
      /\ \A x : Element(r, x) = Element(w, x)
      /\ \A x : Skips(s, r, x) <=> Skips(s, w, x)
      /\ Looping(s, r)
  BY <1>2, <1>5, SameLoop
<1>7. s \in Populations
  BY DEF s
<1>8. S \in SUBSET Places(w) /\ \A x \in S : ~Skips(s, w, x)
  BY DEF S
<1>9. r.at \in S \/ r.at = LoopEnd(w)
  BY <1>2, <1>5, <1>7, <1>8, FirstPlace
<1>10. r.at \in Places(r) \/ r.at = LoopEnd(r)
  BY <1>6, <1>8, <1>9
<1>11. r.at \in Places(r) => ~Skips(s, r, r.at)
  <2>1. LoopEnd(w) \notin Places(w)
    BY <1>2, <1>7, EndIs
  <2>2. QED
    BY <1>6, <1>8, <1>9, <2>1
<1>12. e \in T
  BY <1>2, <1>3, <1>7, PlaceOnce DEF e
<1>13. T = WordsOf(s, r.l.sets)
  BY <1>5
<1> HIDE DEF T
<1>14. ASSUME Strict(w)
       PROVE  /\ ~Gone(s, w, e)
              /\ \A f : Gone(s, r, f) <=> Gone(s, w, f) \/ f = e
  <2>1. ~Skips(s, w, w.at)
    BY <1>2, <1>3, <1>14
  <2>2. r.at = FirstOf(w, {x \in Places(w) : Before(w.at, x) /\ ~Skips(s, w, x)})
    BY <1>5 DEF S
  <2>3. QED
    BY <1>2, <1>3, <1>5, <1>7, <2>1, <2>2, Passing DEF e
<1>15. ASSUME Strict(w) PROVE SeenOK(s, r)
  <2>1. /\ w.seen \in Seq(T)
        /\ \A f \in T : IF Gone(s, w, f) THEN Once(w.seen, f) ELSE Absent(w.seen, f)
    BY <1>2, <1>15 DEF SeenOK, T
  <2>2. \A f : /\ Append(w.seen, e) \in Seq(T)
               /\ Absent(w.seen, f) /\ f # e => Absent(Append(w.seen, e), f)
               /\ Absent(w.seen, f) /\ f = e => Once(Append(w.seen, e), f)
               /\ Once(w.seen, f) /\ f # e => Once(Append(w.seen, e), f)
    BY <1>12, <2>1, AppendOnce
  <2>3. \A f \in T : IF Gone(s, r, f) THEN Once(r.seen, f) ELSE Absent(r.seen, f)
    BY <1>5, <1>14, <1>15, <2>1, <2>2
  <2>4. QED
    BY <1>5, <1>13, <2>2, <2>3 DEF SeenOK
<1>16. ASSUME w.kind = "crs", ~Crowded
       PROVE  /\ \A c \in Cells(WalkDec) : Len(r.l.cells[c]) <= 1
              /\ MetOK(s, r)
  <2> DEFINE st == NNcSym(WalkDec.gr2)
             To(f, g) == Seat(s, g) - Seat(s, f)
  <2>1. Strict(w) /\ \A c \in Cells(WalkDec) : Len(w.l.cells[c]) <= 1
    BY <1>2, <1>16 DEF Strict
  <2>2. /\ w.met \in Seq(T \X T)
        /\ \A f, g \in T : f # g =>
             /\ Gone(s, w, f) /\ Once(st, To(f, g)) => Once(w.met, <<f, g>>)
             /\ ~Gone(s, w, f) \/ Absent(st, To(f, g)) => Absent(w.met, <<f, g>>)
    BY <1>2, <1>16 DEF MetOK, T
  <2>3. /\ near \in Seq(T)
        /\ \A f \in T : f # e => /\ Once(st, To(e, f)) => Once(near, f)
                                 /\ Absent(st, To(e, f)) => Absent(near, f)
    BY <1>2, <1>3, <1>7, <2>1, CrsWalkMeets DEF near, e, T
  <2> HIDE DEF st, To
  <2> DEFINE new == MetIn(e, near)
  <2>4. /\ new \in Seq(T \X T)
        /\ \A f : /\ Once(near, f) => Once(new, <<e, f>>)
                  /\ Absent(near, f) => Absent(new, <<e, f>>)
                  /\ \A g : g # e => Absent(new, <<g, f>>)
    BY <1>12, <2>3, MetInOnce
  <2> HIDE DEF new
  <2>5. \A x : /\ w.met \o new \in Seq(T \X T)
               /\ Absent(w.met, x) /\ Absent(new, x) => Absent(w.met \o new, x)
               /\ Absent(w.met, x) /\ Once(new, x) => Once(w.met \o new, x)
               /\ Once(w.met, x) /\ Absent(new, x) => Once(w.met \o new, x)
    BY <2>2, <2>4, ConcatOnce
  <2>6. r.met = w.met \o new
    BY <1>5, <1>16 DEF new
  <2>7. ASSUME NEW f \in T, NEW g \in T, f # g
        PROVE  /\ Gone(s, r, f) /\ Once(st, To(f, g)) => Once(r.met, <<f, g>>)
               /\ ~Gone(s, r, f) \/ Absent(st, To(f, g)) => Absent(r.met, <<f, g>>)
    <3>1. CASE f = e
      <4>1. ~Gone(s, w, f) /\ Gone(s, r, f)
        BY <1>14, <2>1, <3>1
      <4>2. Absent(w.met, <<f, g>>)
        BY <2>2, <2>7, <4>1
      <4>3. QED
        BY <2>3, <2>4, <2>5, <2>6, <2>7, <3>1, <4>1, <4>2
    <3>2. CASE f # e
      <4>1. Gone(s, r, f) <=> Gone(s, w, f)
        BY <1>14, <2>1, <3>2
      <4>2. Absent(new, <<f, g>>)
        BY <2>4, <3>2
      <4>3. QED
        BY <2>2, <2>5, <2>6, <2>7, <4>1, <4>2
    <3>3. QED
      BY <3>1, <3>2
  <2>8. MetOK(s, r)
    BY <1>13, <2>5, <2>6, <2>7 DEF MetOK, st, To
  <2>9. QED
    BY <1>5, <2>1, <2>8
<1>17. QED
  BY <1>5, <1>6, <1>10, <1>11, <1>15, <1>16 DEF LoopOK, s, r

LEMMA CurveIs ==
  ASSUME WalksWellPosed, NEW n \in DOMAIN Curve
  PROVE  /\ OrderOK(WalkDec, Curve)
         /\ OrderOK(WalkDec, SubSeq(Curve, n, Len(Curve)) \o SubSeq(Curve, 1, n - 1))
<1> DEFINE C == Cells(WalkDec)
           E == DomainCells(WalkDec)
           t == SubSeq(Curve, n, Len(Curve)) \o SubSeq(Curve, 1, n - 1)
<1>1. E \subseteq C
  BY WalkRoom, StencilTypes
<1>2. /\ Curve \in Seq(E)
      /\ \A c \in E : \E k \in DOMAIN Curve : Curve[k] = c /\ \A m \in DOMAIN Curve : Curve[m] = c => m = k
  BY DEF WalksWellPosed, CurveFits
<1> HIDE DEF C, E
<1>3. DOMAIN Curve = 1 .. Len(Curve) /\ Len(Curve) \in Nat /\ \A k \in 1 .. Len(Curve) : Curve[k] \in E
  BY <1>2
<1>4. \A c : IF c \in E THEN Once(Curve, c) ELSE Absent(Curve, c)
  BY <1>2, <1>3 DEF Once, Absent
<1>5. Curve \in Seq(C)
  BY <1>1, <1>2, SeqWiden
<1>6. n \in 1 .. Len(Curve) + 1
  BY <1>3
<1>7. \A c : /\ t \in Seq(C)
             /\ Absent(Curve, c) => Absent(t, c)
             /\ Once(Curve, c) => Once(t, c)
  BY <1>5, <1>6, RotateOnce
<1> HIDE DEF t
<1>8. \A c : IF c \in E THEN Once(t, c) ELSE Absent(t, c)
  BY <1>4, <1>7
<1>9. QED
  BY <1>4, <1>5, <1>7, <1>8 DEF OrderOK, C, E, t

LEMMA StartLoop ==
  ASSUME WalksWellPosed, people \in Populations, NEW l \in CellLists, Filling(people, lists[l]),
         NEW kind \in {"cells", "crs", "curve"}, NEW n \in DOMAIN Curve, Start(l, kind, n)
  PROVE  LoopOK(people, loop')
<1> DEFINE s == people
           order == IF kind = "crs" THEN SubSeq(Curve, n, Len(Curve)) \o SubSeq(Curve, 1, n - 1) ELSE Curve
           w == [kind |-> kind, l |-> lists[l], order |-> order, at |-> <<0, 0>>, seen |-> <<>>, met |-> <<>>]
           valid == IF kind = "curve" THEN {x \in Places(w) : ~Skips(people, w, x)} ELSE Places(w)
           r == [w EXCEPT !.at = FirstOf(w, valid)]
<1>1. /\ kind \in {"cells", "curve"} => lists[l].sets = {0} /\ n = 1
      /\ kind = "cells" /\ ~AnyFirst /\ Places(w) # {} => ~Skips(s, w, FirstOf(w, Places(w)))
      /\ kind = "crs" /\ ~Crowded => \A c \in Cells(WalkDec) : Len(lists[l].cells[c]) <= 1
      /\ loop' = r
  BY DEF Start
<1>2. OrderOK(WalkDec, order)
  BY CurveIs
<1> HIDE DEF order
<1>3. w.kind = kind /\ w.l = lists[l] /\ w.order = order
  OBVIOUS
<1>4. /\ r.kind = w.kind /\ r.l = w.l /\ r.order = w.order /\ r.at = FirstOf(w, valid)
      /\ r.seen = <<>> /\ r.met = <<>> /\ IsLoop(r)
  BY DEF IsLoop, LoopFields
<1>5. valid \in SUBSET Places(w)
  OBVIOUS
<1>6. \A x \in Places(w) : x \in valid \/ Skips(s, w, x)
  OBVIOUS
<1>7. /\ kind = "curve" => \A x \in valid : ~Skips(s, w, x)
      /\ kind # "curve" => valid = Places(w)
  OBVIOUS
<1> HIDE DEF w, r, valid, s
<1>8. s \in Populations
  BY DEF s
<1>9. Looping(s, w)
  BY <1>1, <1>2, <1>3 DEF Looping, s
<1>10. /\ Places(r) = Places(w) /\ LoopEnd(r) = LoopEnd(w) /\ (Strict(r) <=> Strict(w))
       /\ \A x : Element(r, x) = Element(w, x)
       /\ \A x : Skips(s, r, x) <=> Skips(s, w, x)
       /\ Looping(s, r)
  BY <1>4, <1>9, SameLoop
<1>11. /\ r.at \in valid \/ (r.at = LoopEnd(w) /\ valid = {})
       /\ \A x \in valid : ~Before(x, r.at)
  BY <1>4, <1>5, <1>8, <1>9, FirstPlace
<1>12. r.at \in Places(r) \/ r.at = LoopEnd(r)
  BY <1>5, <1>10, <1>11
<1>13. LoopEnd(w) \notin Places(w)
  BY <1>8, <1>9, EndIs
<1>14. ASSUME Strict(r), r.at \in Places(r) PROVE ~Skips(s, r, r.at)
  <2>1. CASE kind = "cells"
    BY <1>1, <1>3, <1>4, <1>7, <1>10, <1>14, <2>1 DEF Strict
  <2>2. CASE kind = "crs"
    BY <1>3, <1>4, <2>2 DEF Skips
  <2>3. CASE kind = "curve"
    BY <1>7, <1>10, <1>11, <1>13, <1>14, <2>3
  <2>4. QED
    BY <2>1, <2>2, <2>3
<1>15. \A e : ~Gone(s, r, e)
  BY <1>6, <1>10, <1>11 DEF Gone
<1>16. \A x : Absent(<<>>, x)
  BY DEF Absent
<1>17. SeenOK(s, r)
  <2>1. <<>> \in Seq(WordsOf(s, r.l.sets))
    OBVIOUS
  <2>2. QED
    BY <1>4, <1>15, <1>16, <2>1 DEF SeenOK
<1>18. MetOK(s, r)
  <2>1. <<>> \in Seq(WordsOf(s, r.l.sets) \X WordsOf(s, r.l.sets))
    OBVIOUS
  <2>2. QED
    BY <1>4, <1>15, <1>16, <2>1 DEF MetOK
<1>19. LoopOK(s, r)
  BY <1>1, <1>3, <1>4, <1>10, <1>12, <1>14, <1>17, <1>18 DEF LoopOK
<1>20. QED
  BY <1>1, <1>19 DEF s

-----------------------------------------------------------------------------
(* Lists of several sets: the invariant. *)

WalksInv ==
  /\ people \in Populations
  /\ lists = [l \in CellLists |-> lists[l]] /\ \A l \in CellLists : Filling(people, lists[l])
  /\ verlet = [a \in Sets(people) |-> verlet[a]] /\ \A a \in Sets(people) : KeepsOK(people, a, verlet[a])
  /\ LoopOK(people, loop)

LEMMA WalksInitially == WalksInit => WalksInv
<1> SUFFICES ASSUME WalksInit PROVE WalksInv
  OBVIOUS
<1>1. \A l \in CellLists : Filling(people, NewList)
  BY NewFilling
<1>2. QED
  BY <1>1 DEF WalksInit, WalksInv, KeepsOK, LoopOK

LEMMA WalksStep == ASSUME WalksWellPosed, WalksInv, [WalksNext]_walks_vars PROVE WalksInv'
<1>1. /\ people \in Populations
      /\ lists = [l \in CellLists |-> lists[l]] /\ \A l \in CellLists : Filling(people, lists[l])
      /\ verlet = [a \in Sets(people) |-> verlet[a]]
      /\ \A a \in Sets(people) : KeepsOK(people, a, verlet[a])
      /\ LoopOK(people, loop)
  BY DEF WalksInv
<1>2. ASSUME people' = people, verlet' = verlet, loop' = loop,
             lists' = [l \in CellLists |-> lists'[l]], \A l \in CellLists : Filling(people, lists'[l])
      PROVE  WalksInv'
  BY <1>1, <1>2 DEF WalksInv
<1>3. ASSUME people' = people, lists' = lists, loop' = loop,
             verlet' = [a \in Sets(people) |-> verlet'[a]],
             \A a \in Sets(people) : KeepsOK(people, a, verlet'[a])
      PROVE  WalksInv'
  BY <1>1, <1>3 DEF WalksInv
<1>4. ASSUME people' = people, lists' = lists, verlet' = verlet, LoopOK(people, loop')
      PROVE  WalksInv'
  BY <1>1, <1>4 DEF WalksInv
<1>5. ASSUME NEW l \in CellLists, NEW a \in Sets(people), AddSet(l, a) PROVE WalksInv'
  <2>1. verlet' = verlet /\ loop' = loop /\ people' = people
    BY <1>5 DEF AddSet
  <2>2. /\ Filling(people, lists'[l])
        /\ lists' = [m \in CellLists |-> IF m = l THEN lists'[l] ELSE lists[m]]
    BY <1>1, <1>5, AddSetFilling
  <2>3. lists' = [m \in CellLists |-> lists'[m]] /\ \A m \in CellLists : Filling(people, lists'[m])
    BY <1>1, <2>2
  <2>4. QED
    BY <1>2, <2>1, <2>3
<1>6. ASSUME NEW l \in CellLists, NEW a \in Sets(people), NEW kind \in {"full", "sym"},
             InitializeVerlet(a, l, kind)
      PROVE  WalksInv'
  <2>1. lists' = lists /\ loop' = loop /\ people' = people
    BY <1>6 DEF InitializeVerlet
  <2>2. /\ KeepsOK(people, a, verlet'[a])
        /\ verlet' = [b \in Sets(people) |-> IF b = a THEN verlet'[a] ELSE verlet[b]]
    BY <1>1, <1>6, InitializeKeeps
  <2>3. verlet' = [b \in Sets(people) |-> verlet'[b]] /\ \A b \in Sets(people) : KeepsOK(people, b, verlet'[b])
    BY <1>1, <2>2
  <2>4. QED
    BY <1>3, <2>1, <2>3
<1>7. ASSUME NEW l \in CellLists, NEW m \in CellLists, CopyList(l, m) \/ TakeList(l, m) PROVE WalksInv'
  <2>1. verlet' = verlet /\ loop' = loop /\ people' = people
    BY <1>7 DEF CopyList, TakeList
  <2>2. lists' = [lists EXCEPT ![l] = lists[m]] \/ lists' = [lists EXCEPT ![l] = lists[m], ![m] = lists[l]]
    BY <1>7 DEF CopyList, TakeList
  <2>3. lists' = [k \in CellLists |-> lists'[k]] /\ \A k \in CellLists : lists'[k] \in {lists[k], lists[l], lists[m]}
    BY <1>1, <2>2
  <2>4. \A k \in CellLists : Filling(people, lists'[k])
    BY <1>1, <2>3
  <2>5. QED
    BY <1>2, <2>1, <2>3, <2>4
<1>8. ASSUME NEW l \in CellLists, ClearList(l) PROVE WalksInv'
  <2>1. verlet' = verlet /\ loop' = loop /\ people' = people /\ lists' = [lists EXCEPT ![l] = NewList]
    BY <1>8 DEF ClearList
  <2>2. lists' = [k \in CellLists |-> lists'[k]] /\ \A k \in CellLists : lists'[k] \in {lists[k], NewList}
    BY <1>1, <2>1
  <2>3. \A k \in CellLists : Filling(people, lists'[k])
    BY <1>1, <2>2, NewFilling
  <2>4. QED
    BY <1>2, <2>1, <2>2, <2>3
<1>9. ASSUME NEW l \in CellLists, NEW kind \in {"cells", "crs", "curve"}, NEW n \in DOMAIN Curve,
             Start(l, kind, n)
      PROVE  WalksInv'
  <2>1. people' = people /\ lists' = lists /\ verlet' = verlet
    BY <1>9 DEF Start
  <2>2. LoopOK(people, loop')
    BY <1>1, <1>9, StartLoop
  <2>3. QED
    BY <1>4, <2>1, <2>2
<1>10. CASE Advance
  <2>1. people' = people /\ lists' = lists /\ verlet' = verlet
    BY <1>10 DEF Advance
  <2>2. LoopOK(people, loop')
    BY <1>1, <1>10, AdvanceLoop
  <2>3. QED
    BY <1>4, <2>1, <2>2
<1>11. CASE Stop
  BY <1>4, <1>11 DEF Stop, LoopOK
<1>12. CASE UNCHANGED walks_vars
  BY <1>1, <1>12 DEF walks_vars, WalksInv
<1>13. QED
  BY <1>5, <1>6, <1>7, <1>8, <1>9, <1>10, <1>11, <1>12 DEF WalksNext

LEMMA WalksAlways == WalksWellPosed => (WalksSpec => []WalksInv)
<1> SUFFICES ASSUME WalksWellPosed PROVE WalksSpec => []WalksInv
  OBVIOUS
<1>1. WalksInv /\ [WalksNext]_walks_vars => WalksInv'
  BY WalksStep
<1>2. QED
  BY WalksInitially, <1>1, PTL DEF WalksSpec

-----------------------------------------------------------------------------
(* Lists of several sets: what the lists and loops are then. *)

\* The pairs of set and number that getV and getP read from words.
LEMMA NamesOnce ==
  ASSUME WalksWellPosed, NEW s \in Populations, NEW A \in SUBSET Sets(s),
         NEW here \in Seq(WordsOf(s, A)), NEW a \in Sets(s), NEW p \in DOMAIN s.pos[a]
  PROVE  LET names == [k \in DOMAIN here |-> <<GetV(here[k]), GetP(here[k])>>]
         IN  /\ \A k \in DOMAIN names : names[k][1] \in A /\ names[k][2] \in DOMAIN s.pos[names[k][1]]
             /\ Once(here, Packed(p, a)) => Visits(names, <<a, p>>) = 1
             /\ Absent(here, Packed(p, a)) => Visits(names, <<a, p>>) = 0
<1> DEFINE Name(e) == <<GetV(e), GetP(e)>>
           names == [k \in DOMAIN here |-> Name(here[k])]
           T == WordsOf(s, A)
           R == {Name(e) : e \in T}
           h == Len(here)
<1>1. h \in Nat /\ DOMAIN here = 1 .. h /\ \A k \in 1 .. h : here[k] \in T
  OBVIOUS
<1>2. \A e \in T : /\ GetV(e) \in A /\ GetP(e) \in DOMAIN s.pos[GetV(e)]
                   /\ e = Packed(GetP(e), GetV(e))
  BY WordParts
<1>3. GetP(Packed(p, a)) = p /\ GetV(Packed(p, a)) = a
  BY WordOfIs
<1>4. \A e \in T : /\ Name(e) \in R /\ Name(e)[1] = GetV(e) /\ Name(e)[2] = GetP(e)
                   /\ Name(e) = <<a, p>> <=> e = Packed(p, a)
  BY <1>2, <1>3
<1>5. names = [k \in 1 .. h |-> Name(here[k])]
  BY <1>1
<1> HIDE DEF names, R, T, Name
<1>6. names \in Seq(R) /\ Len(names) = h /\ DOMAIN names = 1 .. h
      /\ \A k \in 1 .. h : names[k] = Name(here[k])
  <2> HIDE DEF h
  <2>1. names \in [1 .. h -> R]
    BY <1>1, <1>4, <1>5
  <2>2. QED
    BY <1>1, <1>5, <2>1
<1>7. \A k \in DOMAIN names : names[k][1] \in A /\ names[k][2] \in DOMAIN s.pos[names[k][1]]
  BY <1>1, <1>2, <1>4, <1>6
<1>8. /\ Once(here, Packed(p, a)) => Once(names, <<a, p>>)
      /\ Absent(here, Packed(p, a)) => Absent(names, <<a, p>>)
  <2>1. \A k \in 1 .. h : names[k] = <<a, p>> <=> here[k] = Packed(p, a)
    BY <1>1, <1>4, <1>6
  <2>2. QED
    BY <1>6, <2>1 DEF Once, Absent
<1>9. /\ Once(names, <<a, p>>) => Visits(names, <<a, p>>) = 1
      /\ Absent(names, <<a, p>>) => Visits(names, <<a, p>>) = 0
  BY <1>6, VisitsOf
<1>10. QED
  BY <1>7, <1>8, <1>9 DEF names, Name

LEMMA WalksTyped == WalksWellPosed /\ WalksInv => WalksTypeOK
<1> SUFFICES ASSUME WalksWellPosed, WalksInv PROVE WalksTypeOK
  OBVIOUS
<1>1. people \in Populations
  BY DEF WalksInv
<1>2. ASSUME NEW l \in CellLists, NEW c \in Cells(WalkDec)
      PROVE  LET here == lists[l].cells[c]
                 names == [k \in DOMAIN here |-> <<GetV(here[k]), GetP(here[k])>>]
             IN  /\ \A a \in Sets(people) : \A p \in DOMAIN people.pos[a] :
                      Visits(names, <<a, p>>) =
                          IF a \in lists[l].sets /\ GetCell(WalkDec, people.pos[a][p]) = c THEN 1 ELSE 0
                 /\ \A k \in DOMAIN names :
                      names[k][1] \in lists[l].sets /\ names[k][2] \in DOMAIN people.pos[names[k][1]]
  <2> DEFINE here == lists[l].cells[c]
             A == lists[l].sets
             names == [k \in DOMAIN here |-> <<GetV(here[k]), GetP(here[k])>>]
  <2>1. Filling(people, lists[l])
    BY DEF WalksInv
  <2>2. /\ A \in SUBSET Sets(people) /\ here \in Seq(WordsOf(people, A))
        /\ \A e \in AllWords(people) :
             IF GetV(e) \in A /\ Seat(people, e) = c THEN Once(here, e) ELSE Absent(here, e)
    BY <2>1 DEF Filling
  <2> HIDE DEF here, A
  <2>3. ASSUME NEW a \in Sets(people), NEW p \in DOMAIN people.pos[a]
        PROVE  Visits(names, <<a, p>>) =
                  IF a \in A /\ GetCell(WalkDec, people.pos[a][p]) = c THEN 1 ELSE 0
    <3>1. /\ Packed(p, a) \in AllWords(people) /\ GetV(Packed(p, a)) = a
          /\ Seat(people, Packed(p, a)) = GetCell(WalkDec, people.pos[a][p])
      BY <1>1, WordOfIs DEF Seat
    <3>2. /\ Once(here, Packed(p, a)) => Visits(names, <<a, p>>) = 1
          /\ Absent(here, Packed(p, a)) => Visits(names, <<a, p>>) = 0
      BY <1>1, <2>2, NamesOnce
    <3> HIDE DEF names
    <3>3. QED
      BY <2>2, <3>1, <3>2
  <2>4. ASSUME NEW k \in DOMAIN names
        PROVE  names[k][1] \in A /\ names[k][2] \in DOMAIN people.pos[names[k][1]]
    <3>1. here[k] \in WordsOf(people, A) /\ names[k] = <<GetV(here[k]), GetP(here[k])>>
      BY <2>2
    <3>2. GetV(here[k]) \in A /\ GetP(here[k]) \in DOMAIN people.pos[GetV(here[k])]
      BY <1>1, <2>2, <3>1, WordParts
    <3>3. QED
      BY <3>1, <3>2
  <2>5. QED
    BY <2>3, <2>4 DEF here, A
<1>3. loop = NoLoop \/ AtEnd(loop) \/ loop.at \in Places(loop)
  <2>1. CASE loop # NoLoop
    <3>1. Looping(people, loop) /\ (loop.at \in Places(loop) \/ loop.at = LoopEnd(loop))
      BY <2>1 DEF WalksInv, LoopOK
    <3>2. QED
      BY <1>1, <3>1, EndIs
  <2>2. QED
    BY <2>1
<1>4. QED
  BY <1>1, <1>2, <1>3 DEF WalksTypeOK

LEMMA WalksExact == WalksWellPosed /\ WalksInv => NeighboursOfAllSets
<1> SUFFICES ASSUME WalksWellPosed, WalksInv, NEW a \in Sets(people), verlet[a].kind = "full",
                    NEW p \in DOMAIN verlet[a].ver, NEW q \in WordsOf(people, verlet[a].from)
             PROVE  Visits(verlet[a].ver[p], q) = IF NearWords(people, Packed(p, a), q) THEN 1 ELSE 0
  BY DEF NeighboursOfAllSets
<1> DEFINE w == verlet[a]
<1>1. w # NoVerlet
  BY DEF NoVerlet
<1>2. KeepsOK(people, a, w)
  BY DEF WalksInv
<1> HIDE DEF w
<1>3. p \in 0 .. people.g_m[a] - 1
  BY <1>1, <1>2 DEF KeepsOK, w
<1>4. /\ w.ver[p] \in Seq(WordsOf(people, w.from))
      /\ IF NearWords(people, Packed(p, a), q) THEN Once(w.ver[p], q) ELSE Absent(w.ver[p], q)
  BY <1>1, <1>2, <1>3 DEF KeepsOK, w
<1>5. /\ Once(w.ver[p], q) => Visits(w.ver[p], q) = 1
      /\ Absent(w.ver[p], q) => Visits(w.ver[p], q) = 0
  BY <1>4, VisitsOf
<1>6. QED
  BY <1>4, <1>5 DEF w

\* Of two near elements one is in front of the other.
LEMMA FrontEither ==
  ASSUME WalksWellPosed, SetsApart, NEW s \in Populations, NEW e \in AllWords(s), NEW f \in AllWords(s),
         e # f
  PROVE  InFront(s, e, f) <=> ~InFront(s, f, e)
<1> DEFINE x == PlaceOf(s, e)
           y == PlaceOf(s, f)
<1>1. /\ GetV(e) \in Sets(s) /\ GetP(e) \in DOMAIN s.pos[GetV(e)] /\ e = Packed(GetP(e), GetV(e))
      /\ GetV(f) \in Sets(s) /\ GetP(f) \in DOMAIN s.pos[GetV(f)] /\ f = Packed(GetP(f), GetV(f))
      /\ x \in Int \X Int /\ y \in Int \X Int
  BY WordParts DEF AllWords
<1>2. Seat(s, e) \in Int /\ Seat(s, f) \in Int
  BY SeatIs
<1>3. GetP(e) \in Nat /\ GetP(f) \in Nat
  BY <1>1, WordOfIs
<1>4. x = y => GetV(e) = GetV(f) /\ GetP(e) # GetP(f)
  BY <1>1 DEF SetsApart, PlaceOf, Sets
<1>5. /\ x = <<x[1], x[2]>> /\ y = <<y[1], y[2]>>
      /\ x[1] \in Int /\ x[2] \in Int /\ y[1] \in Int /\ y[2] \in Int
  BY <1>1
<1> HIDE DEF x, y
<1>6. x # y => (NotBefore(y, x) <=> ~NotBefore(x, y))
  BY <1>5 DEF NotBefore
<1>7. MeetsInCell(s, e, f) <=> ~MeetsInCell(s, f, e)
  <2>1. CASE x = y
    BY <1>3, <1>4, <2>1 DEF MeetsInCell, x, y
  <2>2. CASE x # y
    BY <1>6, <2>2 DEF MeetsInCell, x, y
  <2>3. QED
    BY <2>1, <2>2
<1>8. QED
  BY <1>2, <1>7 DEF InFront

\* The symmetric lists of two particles.
LEMMA ListsMeet ==
  ASSUME WalksWellPosed, SetsApart, WalksInv, NEW a \in Sets(people), NEW b \in Sets(people),
         verlet[a].kind = "sym", verlet[b].kind = "sym",
         {a, b} \subseteq verlet[a].from \intersect verlet[b].from,
         NEW p \in DOMAIN verlet[a].ver, NEW q \in DOMAIN verlet[b].ver,
         Packed(p, a) # Packed(q, b), NearWords(people, Packed(p, a), Packed(q, b))
  PROVE  Visits(verlet[a].ver[p], Packed(q, b)) + Visits(verlet[b].ver[q], Packed(p, a)) = 1
<1> DEFINE s == people
           e == Packed(p, a)
           f == Packed(q, b)
<1>1. s \in Populations /\ \A c \in Sets(s) : KeepsOK(s, c, verlet[c])
  BY DEF WalksInv
<1>2. ASSUME NEW c \in {a, b}, NEW k \in DOMAIN verlet[c].ver
      PROVE  /\ verlet[c].from \in SUBSET Sets(s) /\ verlet[c].kind = "sym"
             /\ Packed(k, c) \in AllWords(s) /\ GetV(Packed(k, c)) = c
             /\ verlet[c].ver[k] \in Seq(WordsOf(s, verlet[c].from))
             /\ \A g \in WordsOf(s, verlet[c].from) :
                  IF NearWords(s, Packed(k, c), g) /\ InFront(s, Packed(k, c), g)
                  THEN Once(verlet[c].ver[k], g) ELSE Absent(verlet[c].ver[k], g)
  <2>1. verlet[c].kind = "sym" /\ c \in Sets(s)
    OBVIOUS
  <2>2. verlet[c] # NoVerlet
    BY <2>1 DEF NoVerlet
  <2>3. KeepsOK(s, c, verlet[c])
    BY <1>1, <2>1
  <2>4. k \in 0 .. s.g_m[c] - 1 /\ verlet[c].from \in SUBSET Sets(s)
    BY <2>2, <2>3 DEF KeepsOK
  <2>5. /\ verlet[c].ver[k] \in Seq(WordsOf(s, verlet[c].from))
        /\ \A g \in WordsOf(s, verlet[c].from) :
             IF NearWords(s, Packed(k, c), g) /\ InFront(s, Packed(k, c), g)
             THEN Once(verlet[c].ver[k], g) ELSE Absent(verlet[c].ver[k], g)
    BY <2>1, <2>2, <2>3, <2>4 DEF KeepsOK
  <2>6. PICK n \in 0 .. LowWords : DOMAIN s.pos[c] = 0 .. n - 1 /\ s.g_m[c] \in 0 .. n
    BY <1>1, <2>1, PeopleParts
  <2>7. k \in DOMAIN s.pos[c]
    BY <2>4, <2>6, WordAssumption
  <2>8. Packed(k, c) \in AllWords(s) /\ GetV(Packed(k, c)) = c
    BY <1>1, <2>1, <2>7, WordOfIs
  <2>9. QED
    BY <2>1, <2>4, <2>5, <2>8
<1>3. e \in AllWords(s) /\ GetV(e) = a /\ f \in AllWords(s) /\ GetV(f) = b
  BY <1>2
<1>4. f \in WordsOf(s, verlet[a].from) /\ e \in WordsOf(s, verlet[b].from)
  BY <1>1, <1>2, <1>3, WordsOfIs
<1>5. NearWords(s, e, f) /\ NearWords(s, f, e)
  BY <1>1, <1>3, NearBack
<1>6. InFront(s, e, f) <=> ~InFront(s, f, e)
  BY <1>1, <1>3, FrontEither
<1>7. /\ verlet[a].ver[p] \in Seq(WordsOf(s, verlet[a].from))
      /\ IF InFront(s, e, f) THEN Once(verlet[a].ver[p], f) ELSE Absent(verlet[a].ver[p], f)
  BY <1>2, <1>4, <1>5
<1>8. /\ verlet[b].ver[q] \in Seq(WordsOf(s, verlet[b].from))
      /\ IF InFront(s, f, e) THEN Once(verlet[b].ver[q], e) ELSE Absent(verlet[b].ver[q], e)
  BY <1>2, <1>4, <1>5
<1>9. Visits(verlet[a].ver[p], f) = IF InFront(s, e, f) THEN 1 ELSE 0
  BY <1>7, VisitsOf
<1>10. Visits(verlet[b].ver[q], e) = IF InFront(s, f, e) THEN 1 ELSE 0
  BY <1>8, VisitsOf
<1>11. QED
  BY <1>6, <1>9, <1>10

\* A CRS loop past its last cell.
LEMMA LoopMeets ==
  ASSUME WalksWellPosed, ~Crowded, WalksInv, loop.kind = "crs",
         NEW e \in {loop.seen[n] : n \in DOMAIN loop.seen},
         NEW f \in {loop.seen[n] : n \in DOMAIN loop.seen}, e # f, NearWords(people, e, f)
  PROVE  Visits(loop.met, <<e, f>>) + Visits(loop.met, <<f, e>>) = 1
<1> DEFINE s == people
           w == loop
           T == WordsOf(s, w.l.sets)
           st == NNcSym(WalkDec.gr2)
           o(x, y) == Seat(s, y) - Seat(s, x)
<1>1. s \in Populations /\ LoopOK(s, w)
  BY DEF WalksInv
<1>2. w # NoLoop
  BY DEF NoLoop
<1>3. /\ Looping(s, w) /\ (Strict(w) => SeenOK(s, w))
      /\ (\A c \in Cells(WalkDec) : Len(w.l.cells[c]) <= 1) /\ MetOK(s, w)
  BY <1>1, <1>2 DEF LoopOK
<1>4. SeenOK(s, w)
  BY <1>3 DEF Strict
<1>5. w.seen \in Seq(T) /\ \A x \in T : Gone(s, w, x) \/ Absent(w.seen, x)
  BY <1>4 DEF SeenOK
<1>6. /\ w.met \in Seq(T \X T)
      /\ \A x, y \in T : x # y =>
           /\ Gone(s, w, x) /\ Once(st, o(x, y)) => Once(w.met, <<x, y>>)
           /\ Absent(st, o(x, y)) => Absent(w.met, <<x, y>>)
  BY <1>3 DEF MetOK
<1>7. Filling(s, w.l)
  BY <1>3 DEF Looping
<1>8. \A x \in T : /\ Seat(s, x) \in Cells(WalkDec) /\ Seat(s, x) \in Int
                   /\ Once(w.l.cells[Seat(s, x)], x) /\ x \in AllWords(s)
                   /\ w.l.cells \in [Cells(WalkDec) -> Seq(T)]
  BY <1>1, <1>7, FillingLayout DEF Filling
<1> HIDE DEF T
<1>9. ASSUME NEW x \in {w.seen[n] : n \in DOMAIN w.seen} PROVE x \in T /\ Gone(s, w, x)
  <2>1. PICK n \in 1 .. Len(w.seen) : x = w.seen[n]
    BY <1>5
  <2>2. x \in T /\ ~Absent(w.seen, x)
    BY <1>5, <2>1 DEF Absent
  <2>3. QED
    BY <1>5, <2>2
<1>10. e \in T /\ f \in T /\ Gone(s, w, e) /\ Gone(s, w, f)
  BY <1>9
<1>11. NearWords(s, f, e)
  BY <1>1, <1>8, <1>10, NearBack
<1>12. /\ IF o(e, f) >= 0 THEN Once(st, o(e, f)) ELSE Absent(st, o(e, f))
       /\ IF o(f, e) >= 0 THEN Once(st, o(f, e)) ELSE Absent(st, o(f, e))
  BY <1>1, <1>8, <1>10, <1>11, SeatsNear
<1>13. Seat(s, e) # Seat(s, f)
  <2>1. SUFFICES ASSUME Seat(s, e) = Seat(s, f) PROVE FALSE
    OBVIOUS
  <2> DEFINE t == w.l.cells[Seat(s, e)]
  <2>2. t \in Seq(T) /\ Len(t) <= 1 /\ Once(t, e) /\ Once(t, f)
    BY <1>3, <1>8, <1>10, <2>1
  <2> HIDE DEF t
  <2>3. t = <<e>> /\ t = <<f>>
    BY <2>2, OneElement
  <2>4. e = f
    BY <2>3
  <2>5. QED
    BY <2>4
<1>14. /\ o(e, f) = -o(f, e) /\ o(e, f) # 0 /\ o(e, f) \in Int /\ o(f, e) \in Int
  BY <1>8, <1>10, <1>13
<1> HIDE DEF o
<1>15. \/ Once(w.met, <<e, f>>) /\ Absent(w.met, <<f, e>>)
       \/ Once(w.met, <<f, e>>) /\ Absent(w.met, <<e, f>>)
  <2>1. CASE o(e, f) >= 0
    <3>1. ~(o(f, e) >= 0)
      BY <1>14, <2>1
    <3>2. QED
      BY <1>6, <1>10, <1>12, <2>1, <3>1
  <2>2. CASE ~(o(e, f) >= 0)
    <3>1. o(f, e) >= 0
      BY <1>14, <2>2
    <3>2. QED
      BY <1>6, <1>10, <1>12, <2>2, <3>1
  <2>3. QED
    BY <2>1, <2>2
<1>16. \A z : /\ Once(w.met, z) => Visits(w.met, z) = 1
              /\ Absent(w.met, z) => Visits(w.met, z) = 0
  BY <1>6, VisitsOf
<1>17. QED
  BY <1>15, <1>16

LEMMA WalksPairs == WalksWellPosed /\ SetsApart /\ ~Crowded /\ WalksInv => PairsOnceOverSets
<1> SUFFICES ASSUME WalksWellPosed, SetsApart, ~Crowded, WalksInv PROVE PairsOnceOverSets
  OBVIOUS
<1>1. ASSUME NEW a \in Sets(people), NEW b \in Sets(people),
             verlet[a].kind = "sym", verlet[b].kind = "sym",
             {a, b} \subseteq verlet[a].from \intersect verlet[b].from,
             NEW p \in DOMAIN verlet[a].ver, NEW q \in DOMAIN verlet[b].ver,
             Packed(p, a) # Packed(q, b), NearWords(people, Packed(p, a), Packed(q, b))
      PROVE  Visits(verlet[a].ver[p], Packed(q, b)) + Visits(verlet[b].ver[q], Packed(p, a)) = 1
  BY <1>1, ListsMeet
<1>2. ASSUME loop.kind = "crs",
             NEW e \in {loop.seen[n] : n \in DOMAIN loop.seen},
             NEW f \in {loop.seen[n] : n \in DOMAIN loop.seen}, e # f, NearWords(people, e, f)
      PROVE  Visits(loop.met, <<e, f>>) + Visits(loop.met, <<f, e>>) = 1
  BY <1>2, LoopMeets
<1>3. QED
  BY <1>1, <1>2 DEF PairsOnceOverSets

LEMMA WalksParticles == WalksWellPosed /\ ~AnyFirst /\ WalksInv => ParticlesOnce
<1> SUFFICES ASSUME WalksWellPosed, ~AnyFirst, WalksInv, loop # NoLoop, AtEnd(loop),
                    NEW e \in WordsOf(people, loop.l.sets)
             PROVE  Visits(loop.seen, e) =
                       IF /\ GetCell(WalkDec, PlaceOf(people, e)) \in DomainCells(WalkDec)
                          /\ loop.kind = "crs" \/ GetP(e) < people.g_m[0]
                       THEN 1 ELSE 0
  BY DEF ParticlesOnce
<1> DEFINE s == people
           w == loop
           T == WordsOf(s, w.l.sets)
           E == DomainCells(WalkDec)
<1>1. s \in Populations /\ LoopOK(s, w)
  BY DEF WalksInv
<1>2. /\ Looping(s, w) /\ (w.at \in Places(w) \/ w.at = LoopEnd(w))
      /\ Strict(w) => SeenOK(s, w)
  BY <1>1 DEF LoopOK
<1>3. SeenOK(s, w)
  BY <1>2 DEF Strict
<1>4. w.at = LoopEnd(w) /\ \A x \in Places(w) : Before(x, w.at)
  BY <1>1, <1>2, EndIs
<1>5. /\ \A x \in Places(w) : Seat(s, Element(w, x)) \in E
      /\ \A x, y \in Places(w) : Element(w, x) = Element(w, y) => x = y
      /\ \A f \in T : Seat(s, f) \in E => \E x \in Places(w) : Element(w, x) = f
  BY <1>1, <1>2, PlaceOnce
<1> HIDE DEF E
<1>6. \A x \in Places(w) : Element(w, x) = e =>
        (Skips(s, w, x) <=> ~(w.kind = "crs" \/ GetP(e) < s.g_m[0]))
  <2>1. CASE w.kind = "crs"
    BY <2>1 DEF Skips
  <2>2. CASE w.kind # "crs"
    <3>1. w.l.sets = {0} /\ w.l.sets \in SUBSET Sets(s)
      BY <1>2, <2>2 DEF Looping, Filling
    <3>2. /\ GetV(e) \in w.l.sets /\ GetP(e) \in DOMAIN s.pos[GetV(e)]
          /\ e = Packed(GetP(e), GetV(e))
      BY <1>1, <3>1, WordParts
    <3>3. 0 \in Sets(s) /\ GetV(e) = 0
      BY <3>1, <3>2
    <3>4. Packed(GetP(e), 0) = GetP(e) + LowWords * 0 /\ GetP(e) \in Nat
      BY <1>1, <3>2, <3>3, WordOfIs
    <3>5. e = GetP(e)
      BY <3>2, <3>3, <3>4, WordAssumption
    <3>6. PICK n \in 0 .. LowWords : s.g_m[0] \in 0 .. n
      BY <1>1, <3>3, PeopleParts
    <3>7. e >= s.g_m[0] <=> ~(GetP(e) < s.g_m[0])
      BY <3>4, <3>5, <3>6, WordAssumption
    <3>8. QED
      BY <2>2, <3>7 DEF Skips
  <2>3. QED
    BY <2>1, <2>2
<1>7. Gone(s, w, e) <=> Seat(s, e) \in E /\ (w.kind = "crs" \/ GetP(e) < s.g_m[0])
  BY <1>4, <1>5, <1>6 DEF Gone
<1>8. w.seen \in Seq(T) /\ IF Gone(s, w, e) THEN Once(w.seen, e) ELSE Absent(w.seen, e)
  BY <1>3 DEF SeenOK
<1>9. Visits(w.seen, e) = IF Gone(s, w, e) THEN 1 ELSE 0
  BY <1>8, VisitsOf
<1>10. QED
  BY <1>7, <1>9 DEF Seat, E

-----------------------------------------------------------------------------
(* Lists of several sets: the theorems. *)

\* Each word of a list names a particle of a set that was added, the one in the
\* cell it is at, and each particle of these sets is named once (addCell in
\* CellListM.hpp), for any particles and any width of the words that fit
\* (WalksWellPosed), however sets are added and lists cleared, copied and moved.
THEOREM WalksTypes == WalksWellPosed => (WalksSpec => []WalksTypeOK)
<1> SUFFICES ASSUME WalksWellPosed PROVE WalksSpec => []WalksTypeOK
  OBVIOUS
<1>1. WalksSpec => []WalksInv
  BY WalksAlways
<1>2. WalksInv => WalksTypeOK
  BY WalksTyped
<1>3. QED
  BY <1>1, <1>2, PTL

\* A Verlet list over several sets that was made with all the cells around names
\* for each particle the elements of all the sets within the radius, each once
\* (create_ in VerletListM.hpp).
THEOREM WalksNeighbours == WalksWellPosed => (WalksSpec => []NeighboursOfAllSets)
<1> SUFFICES ASSUME WalksWellPosed PROVE WalksSpec => []NeighboursOfAllSets
  OBVIOUS
<1>1. WalksSpec => []WalksInv
  BY WalksAlways
<1>2. WalksInv => NeighboursOfAllSets
  BY WalksExact
<1>3. QED
  BY <1>1, <1>2, PTL

\* Where no particles of two sets are at one place, each near pair is in one of
\* the two symmetric lists, and where no cell holds two elements a CRS loop meets
\* it once (CellNNIteratorSymM, of fixed and of run-time size).
THEOREM WalksPairsOnce ==
  WalksWellPosed /\ SetsApart /\ ~Crowded => (WalksSpec => []PairsOnceOverSets)
<1> SUFFICES ASSUME WalksWellPosed, SetsApart, ~Crowded PROVE WalksSpec => []PairsOnceOverSets
  OBVIOUS
<1>1. WalksSpec => []WalksInv
  BY WalksAlways
<1>2. WalksInv => PairsOnceOverSets
  BY WalksPairs
<1>3. QED
  BY <1>1, <1>2, PTL

\* Where a loop over cells does not start at a ghost, a loop that has come to its
\* end has met each particle of the domain once and, but for a CRS loop, no ghost
\* (ParticleIt_Cells, ParticleIt_CellP and ParticleItCRS_Cells), for any order
\* of the cells.
THEOREM WalksMeetOnce == WalksWellPosed /\ ~AnyFirst => (WalksSpec => []ParticlesOnce)
<1> SUFFICES ASSUME WalksWellPosed, ~AnyFirst PROVE WalksSpec => []ParticlesOnce
  OBVIOUS
<1>1. WalksSpec => []WalksInv
  BY WalksAlways
<1>2. WalksInv => ParticlesOnce
  BY WalksParticles
<1>3. QED
  BY <1>1, <1>2, PTL

=============================================================================
