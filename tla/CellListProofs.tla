--------------------------- MODULE CellListProofs ---------------------------
(***************************************************************************)
(* CellList for any number of lists, shapes, points and elements.          *)
(*                                                                         *)
(* WellPosed (CellList) says what a caller has to see to.  Under it the    *)
(* invariant Inv keeps four things of every list together: the decomposer  *)
(* is one it may be made with, every element is once in the list and in a  *)
(* cell it may be put in (Placed), NNc_full and NNc_sym are those of the   *)
(* grid that numbers these cells, and a stencil of a radius is that of the *)
(* grid it was made for (StencilOf), which may be another.  The properties *)
(* then follow from geometry: elements a cell apart are in cells that are  *)
(* one step of a stencil apart, and a stencil has a step once.             *)
(***************************************************************************)
EXTENDS CellList, CellDecomposerProofs, TLAPS

-----------------------------------------------------------------------------
(* The decomposers of the lists. *)

LEMMA MakingApt ==
  ASSUME EvenCells, NEW d, NEW own, <<d, own>> \in Makings
  PROVE  /\ d.off = Pad
         /\ \A i \in D : \E n, a, b \in Nat : Apt(Pad, d, own, i, n, a, b)
<1>1. Pad \in Nat \ {0}
  BY PadAssumption
<1>2. ASSUME NEW s \in Shapes, d = Decomposed(s.box, s.div, Pad), own = s.box
      PROVE  /\ d.off = Pad
             /\ \A i \in D : \E n, a, b \in Nat : Apt(Pad, d, own, i, n, a, b)
  <2>1. Even(s.box, s.div)
    BY DEF EvenCells
  <2>2. \A i \in D : s.div[i] \in Nat /\ Apt(Pad, d, own, i, s.div[i], 0, s.div[i])
    BY <1>1, <1>2, <2>1, DecomposedApt DEF Even
  <2>3. d.off = Pad
    BY <1>2 DEF Decomposed
  <2>4. QED
    BY <2>2, <2>3
<1>3. ASSUME NEW dom \in Subs, d = SetCellDecomposer(OuterDec, dom, Pad), own = dom
      PROVE  /\ d.off = Pad
             /\ \A i \in D : \E n, a, b \in Nat : Apt(Pad, d, own, i, n, a, b)
  <2>1. ASSUME NEW i \in D
        PROVE  \E n, a, b \in Nat : Apt(Pad, d, own, i, n, a, b)
    <3>1. Even(Outer.box, Outer.div) /\ Outer.pad = Pad /\ PartOf(dom, Outer.box)
      BY DEF EvenCells
    <3>2. Outer.div[i] \in Nat
      BY <3>1 DEF Even
    <3>3. OuterDec = Decomposed(Outer.box, Outer.div, Pad)
      BY <3>1 DEF OuterDec
    <3>4. \E a, b \in Nat : Apt(Pad, d, own, i, Outer.div[i], a, b)
      BY <1>1, <1>3, <3>1, <3>3, NestedApt
    <3>5. QED
      BY <3>2, <3>4
  <2>2. d.off = Pad
    BY <1>3 DEF SetCellDecomposer, Nested, Decomposed
  <2>3. QED
    BY <2>1, <2>2
<1>4. QED
  BY <1>2, <1>3 DEF Makings

\* k is where x is put in the dimension i: a point on the positive border of
\* the domain is also put in the last cell of the domain.
Loc(d, x, i, k) ==
  /\ k \in 0 .. d.gr2[i] - 1
  /\ \E q \in Int : /\ InCell(x[i] - d.box.lo[i], q, d.unit[i])
                    /\ \/ k = q + Pad - d.shift[i]
                       \/ x[i] = d.box.hi[i] /\ k = q - 1 + Pad - d.shift[i]

\* The cell c is one of those x may be put in.
PutIn(d, x, c) == \E k \in [D -> Int] : c = LinId(d.gr2, k) /\ \A i \in D : Loc(d, x, i, k[i])

LEMMA AptFacts ==
  ASSUME EvenCells, NEW d, NEW own, <<d, own>> \in Makings, NEW i \in D
  PROVE  /\ d.off = Pad /\ Pad \in Nat \ {0} /\ d.unit[i] \in Nat \ {0}
         /\ d.box.lo[i] \in Int /\ d.box.hi[i] \in Int /\ d.gr[i] \in Nat
         /\ d.gr2[i] \in Nat /\ d.gr2[i] >= 2 * Pad + 1 /\ d.shift[i] \in Nat
         /\ d.gr2[i] <= d.gr[i]
         /\ own.lo[i] \in Int /\ own.hi[i] \in Int
<1>1. d.off = Pad /\ \E n, a, b \in Nat : Apt(Pad, d, own, i, n, a, b)
  BY MakingApt
<1>2. PICK n \in Nat, a \in Nat, b \in Nat : Apt(Pad, d, own, i, n, a, b)
  BY <1>1
<1>3. Pad \in Nat \ {0}
  BY PadAssumption
<1>4. QED
  BY <1>1, <1>2, <1>3 DEF Apt, Fits

\* The cell of a point in the list's reach.
LEMMA IdOf ==
  ASSUME EvenCells, PointsOffCells, NEW d, NEW own, <<d, own>> \in Makings,
         NEW x \in Points, Reach(d, own, x), NEW i \in D
  PROVE  \E n, a, b \in Nat : \E q \in Int :
            /\ Apt(Pad, d, own, i, n, a, b)
            /\ InCell(x[i] - d.box.lo[i], q, d.unit[i])
            /\ ConvertToIDNs(d, x, i) = q + Pad
            /\ q + Pad \in 0 .. d.gr[i] - 1 /\ q + Pad - a \in 0 .. d.gr2[i] - 1
<1>1. PICK n \in Nat, a \in Nat, b \in Nat : Apt(Pad, d, own, i, n, a, b)
  BY MakingApt
<1> DEFINE u == d.unit[i]
           lo == d.box.lo[i]
           hi == d.box.hi[i]
           ol == own.lo[i]
           oh == own.hi[i]
           y == x[i]
           q == FloorCell(y - lo, u)
<1>2. /\ Fits(u, Pad, lo, hi, n, a, b, ol, oh)
      /\ d.gr[i] = n + 2 * Pad /\ d.gr2[i] = b - a + 2 * Pad /\ d.shift[i] = a
  BY <1>1 DEF Apt
<1>3. d.off = Pad /\ Pad \in Nat \ {0} /\ u \in Nat \ {0} /\ lo \in Int /\ a < b /\ b <= n
  BY <1>2, AptFacts DEF Fits
<1>4. y \in Int /\ (y < lo => (y - lo) % u # 0)
  BY DEF PointsOffCells
<1>5. ol - Pad * u <= y /\ y < oh + Pad * u
  BY <1>3 DEF Reach
<1>6. ConvertToIDNs(d, x, i) = IF q + Pad \in 0 .. d.gr[i] - 1 THEN q + Pad ELSE d.gr[i] - 1
  BY <1>3 DEF ConvertToIDNs
<1> HIDE DEF u, lo, hi, ol, oh, y
<1>7. y - lo \in Int /\ ~(y - lo < 0 /\ (y - lo) % u = 0)
  BY <1>3, <1>4
<1>8. InCell(y - lo, q, u) /\ q \in Int
  BY <1>3, <1>7, FloorCellIs DEF InCell
<1> HIDE DEF q
<1>9. a - Pad <= q /\ q < b + Pad
  BY <1>2, <1>4, <1>5, <1>8, Place
<1>10. q + Pad \in 0 .. d.gr[i] - 1 /\ q + Pad - a \in 0 .. d.gr2[i] - 1
  BY <1>2, <1>3, <1>8, <1>9
<1>11. QED
  BY <1>1, <1>6, <1>8, <1>10 DEF u, lo, y

LEMMA GetCellPuts ==
  ASSUME EvenCells, PointsOffCells, NEW d, NEW own, <<d, own>> \in Makings,
         NEW x \in Points, Reach(d, own, x)
  PROVE  PutIn(d, x, GetCell(d, x))
<1> DEFINE k == [i \in D |-> ConvertToID(d, x, i)]
<1>1. ASSUME NEW i \in D PROVE k[i] \in Int /\ Loc(d, x, i, k[i])
  <2>1. PICK n \in Nat, a \in Nat, b \in Nat : \E q \in Int :
            /\ Apt(Pad, d, own, i, n, a, b)
            /\ InCell(x[i] - d.box.lo[i], q, d.unit[i])
            /\ ConvertToIDNs(d, x, i) = q + Pad
            /\ q + Pad \in 0 .. d.gr[i] - 1 /\ q + Pad - a \in 0 .. d.gr2[i] - 1
    BY IdOf
  <2>2. PICK q \in Int :
            /\ Apt(Pad, d, own, i, n, a, b)
            /\ InCell(x[i] - d.box.lo[i], q, d.unit[i])
            /\ ConvertToIDNs(d, x, i) = q + Pad
            /\ q + Pad \in 0 .. d.gr[i] - 1 /\ q + Pad - a \in 0 .. d.gr2[i] - 1
    BY <2>1
  <2>3. k[i] = q + Pad - d.shift[i] /\ d.shift[i] = a
    <3>1. d.shift[i] = a
      BY <2>2 DEF Apt
    <3>2. k[i] = ConvertToIDNs(d, x, i) - d.shift[i]
      BY DEF ConvertToID
    <3> HIDE DEF k
    <3>3. QED
      BY <2>2, <3>1, <3>2, PadAssumption
  <2>4. QED
    BY <2>2, <2>3 DEF Loc
<1>2. k \in [D -> Int]
  BY <1>1
<1>3. GetCell(d, x) = LinId(d.gr2, k)
  BY DEF GetCell
<1>4. QED
  BY <1>1, <1>2, <1>3 DEF PutIn

LEMMA GetCellDomPuts ==
  ASSUME EvenCells, PointsOffCells, NEW d, NEW own, <<d, own>> \in Makings,
         NEW x \in Points, Domain(d, own, x)
  PROVE  PutIn(d, x, GetCellDom(d, x))
<1> DEFINE Dom(i) == LET id == ConvertToIDNs(d, x, i)
                     IN  CASE id = d.gr[i] - d.off -> d.gr[i] - d.off - 1
                           [] id = d.off - 1 -> d.off
                           [] OTHER -> id
           k == [i \in D |-> Dom(i) - d.shift[i]]
<1>1. Reach(d, own, x)
  <2>1. ASSUME NEW i \in D
        PROVE  /\ own.lo[i] - d.off * d.unit[i] <= x[i]
               /\ x[i] < own.hi[i] + d.off * d.unit[i]
    <3>1. /\ d.off \in Nat \ {0} /\ d.unit[i] \in Nat \ {0}
          /\ own.lo[i] \in Int /\ own.hi[i] \in Int
      BY AptFacts
    <3>2. x[i] \in Int
      BY DEF PointsOffCells
    <3>3. own.lo[i] <= x[i] /\ x[i] <= own.hi[i]
      BY <3>1, <3>2 DEF Domain
    <3>4. d.unit[i] <= d.off * d.unit[i] /\ d.off * d.unit[i] \in Nat
      <4>1. 0 < d.off => 0 * d.unit[i] + d.unit[i] <= d.off * d.unit[i]
        BY <3>1, Mono
      <4>2. QED
        BY <3>1, <4>1
    <3>5. QED
      BY <3>1, <3>2, <3>3, <3>4
  <2>2. QED
    BY <2>1 DEF Reach
<1>2. ASSUME NEW i \in D PROVE k[i] \in Int /\ Loc(d, x, i, k[i])
  <2>1. PICK n \in Nat, a \in Nat, b \in Nat : \E q \in Int :
            /\ Apt(Pad, d, own, i, n, a, b)
            /\ InCell(x[i] - d.box.lo[i], q, d.unit[i])
            /\ ConvertToIDNs(d, x, i) = q + Pad
            /\ q + Pad \in 0 .. d.gr[i] - 1 /\ q + Pad - a \in 0 .. d.gr2[i] - 1
    BY <1>1, IdOf
  <2>2. PICK q \in Int :
            /\ Apt(Pad, d, own, i, n, a, b)
            /\ InCell(x[i] - d.box.lo[i], q, d.unit[i])
            /\ ConvertToIDNs(d, x, i) = q + Pad
            /\ q + Pad \in 0 .. d.gr[i] - 1 /\ q + Pad - a \in 0 .. d.gr2[i] - 1
    BY <2>1
  <2>3. /\ d.off = Pad /\ Pad \in Nat \ {0} /\ d.gr[i] = n + 2 * Pad /\ d.gr2[i] = b - a + 2 * Pad
        /\ d.shift[i] = a /\ a < b /\ b <= n
    BY <2>2, AptFacts DEF Apt, Fits
  <2>4. /\ q + Pad = d.gr[i] - Pad /\ q + Pad # Pad - 1 => k[i] = d.gr[i] - Pad - 1 - a
        /\ q + Pad # d.gr[i] - Pad /\ q + Pad # Pad - 1 => k[i] = q + Pad - a
    <3>1. Dom(i) = CASE q + Pad = d.gr[i] - Pad -> d.gr[i] - Pad - 1
                     [] q + Pad = Pad - 1 -> Pad
                     [] OTHER -> q + Pad
      BY <2>2, <2>3
    <3>2. k[i] = Dom(i) - a
      BY <2>3
    <3> HIDE DEF Dom, k
    <3>3. QED
      BY <2>3, <3>1, <3>2
  <2> HIDE DEF k
  <2>5. /\ own.lo[i] <= x[i]
        /\ x[i] < own.hi[i] \/ (x[i] = own.hi[i] /\ x[i] = d.box.hi[i])
    BY DEF Domain
  <2>6. Fits(d.unit[i], Pad, d.box.lo[i], d.box.hi[i], n, a, b, own.lo[i], own.hi[i])
    BY <2>2 DEF Apt
  <2>7. /\ own.lo[i] <= x[i] => a <= q
        /\ x[i] < own.hi[i] => q < b
        /\ x[i] = d.box.hi[i] => q = n
    <3>1. x[i] \in Int
      BY DEF PointsOffCells
    <3>2. QED
      BY <2>2, <2>6, <3>1, Place
  <2>8. a <= q
    BY <2>5, <2>7
  <2>9. CASE x[i] < own.hi[i]
    <3>1. q + Pad # d.gr[i] - Pad /\ q + Pad # Pad - 1
      BY <2>3, <2>7, <2>8, <2>9
    <3>2. k[i] = q + Pad - a
      BY <2>4, <3>1
    <3>3. QED
      BY <2>2, <2>3, <3>2 DEF Loc
  <2>10. CASE ~(x[i] < own.hi[i])
    <3>1. x[i] = d.box.hi[i] /\ q = n
      BY <2>5, <2>7, <2>10
    <3>2. k[i] = q - 1 + Pad - a
      BY <2>3, <2>4, <3>1
    <3>3. k[i] \in 0 .. d.gr2[i] - 1
      BY <2>2, <2>3, <3>1, <3>2
    <3>4. QED
      BY <2>2, <2>3, <3>1, <3>2, <3>3 DEF Loc
  <2>11. QED
    BY <2>9, <2>10
<1>3. k \in [D -> Int]
  BY <1>2
<1>4. GetCellDom(d, x) = LinId(d.gr2, k)
  BY DEF GetCellDom
<1> HIDE DEF k
<1>5. QED
  BY <1>2, <1>3, <1>4 DEF PutIn

LEMMA LocClose ==
  ASSUME EvenCells, PointsOffCells, BorderSettled, NEW d, NEW own, <<d, own>> \in Makings,
         NEW x \in Points, NEW y \in Points, NEW i \in D, NEW k \in Int, NEW l \in Int,
         Loc(d, x, i, k), Loc(d, y, i, l), x[i] - y[i] \in -d.unit[i] .. d.unit[i]
  PROVE  l - k \in -1 .. 1
<1> DEFINE u == d.unit[i]
           lo == d.box.lo[i]
           hi == d.box.hi[i]
           s == d.shift[i]
           m == d.gr2[i]
<1>1. PICK n \in Nat, a \in Nat, b \in Nat : Apt(Pad, d, own, i, n, a, b)
  BY MakingApt
<1>2. /\ Fits(u, Pad, lo, hi, n, a, b, own.lo[i], own.hi[i])
      /\ m = b - a + 2 * Pad /\ s = a
  BY <1>1 DEF Apt
<1>3. u \in Nat \ {0} /\ Pad \in Nat \ {0} /\ lo \in Int /\ a < b /\ b <= n
  BY <1>2 DEF Fits
<1>4. x[i] \in Int /\ y[i] \in Int
  BY DEF PointsOffCells
<1>5. x[i] = hi \/ y[i] = hi => Pad = 1
  BY DEF BorderSettled
<1>6. PICK q \in Int : /\ InCell(x[i] - lo, q, u)
                       /\ k = q + Pad - s \/ (x[i] = hi /\ k = q - 1 + Pad - s)
  BY DEF Loc
<1>7. PICK p \in Int : /\ InCell(y[i] - lo, p, u)
                       /\ l = p + Pad - s \/ (y[i] = hi /\ l = p - 1 + Pad - s)
  BY DEF Loc
<1>8. k \in 0 .. m - 1 /\ l \in 0 .. m - 1
  BY DEF Loc
<1>9. (x[i] = hi => q = n) /\ (y[i] = hi => p = n)
  BY <1>2, <1>4, <1>6, <1>7, Place
<1> HIDE DEF u, lo, hi, s, m
<1>10. x[i] - y[i] \in -u .. u
  BY DEF u
<1>11. x[i] - lo \in Int /\ y[i] - lo \in Int /\ (x[i] - lo) - (y[i] - lo) \in -u .. u
  BY <1>3, <1>4, <1>10
<1>12. q - p \in -1 .. 1
  BY <1>3, <1>6, <1>7, <1>11, CloseCells
<1>13. CASE k = q + Pad - s /\ l = p + Pad - s
  BY <1>2, <1>3, <1>12, <1>13
<1>14. CASE x[i] = hi /\ k = q - 1 + Pad - s /\ l = p + Pad - s
  BY <1>2, <1>3, <1>5, <1>8, <1>9, <1>12, <1>14
<1>15. CASE k = q + Pad - s /\ y[i] = hi /\ l = p - 1 + Pad - s
  BY <1>2, <1>3, <1>5, <1>8, <1>9, <1>12, <1>15
<1>16. CASE x[i] = hi /\ k = q - 1 + Pad - s /\ y[i] = hi /\ l = p - 1 + Pad - s
  BY <1>2, <1>3, <1>9, <1>16
<1>17. QED
  BY <1>6, <1>7, <1>13, <1>14, <1>15, <1>16

-----------------------------------------------------------------------------
(* The record of a list. *)

FieldNames == {"dec", "own", "made", "cells", "NNc_full", "NNc_sym", "rcache", "cached",
               "nnc_rad", "summed", "radius", "from_cd", "n_dec"}
\* A record of a list.
Fields(r) == r = [f \in FieldNames |-> r[f]]

\* They keep the same stencils of radii.
SameStencils(q, r) ==
  /\ q.rcache = r.rcache /\ q.cached = r.cached
  /\ q.nnc_rad = r.nnc_rad /\ q.summed = r.summed /\ q.radius = r.radius

NewList(r, d, own, from, n) ==
  [[r EXCEPT !.dec = d, !.cells = [c \in Cells(d) |-> <<>>],
             !.NNc_full = NNcFull(d.gr2), !.NNc_sym = NNcSym(d.gr2)]
     EXCEPT !.from_cd = from, !.own = own, !.n_dec = n, !.made = n]

LEMMA NewListIs ==
  ASSUME NEW r, Fields(r), NEW d, NEW own, NEW from, NEW n
  PROVE  LET q == NewList(r, d, own, from, n)
         IN  /\ Fields(q) /\ q.dec = d /\ q.own = own /\ q.cells = [c \in Cells(d) |-> <<>>]
             /\ q.NNc_full = NNcFull(d.gr2) /\ q.NNc_sym = NNcSym(d.gr2)
             /\ SameStencils(q, r)
             /\ q.from_cd = from /\ q.n_dec = n /\ q.made = n
BY DEF NewList, Fields, FieldNames, SameStencils

FromList(r, s) ==
  [s EXCEPT !.rcache = r.rcache, !.cached = r.cached, !.nnc_rad = r.nnc_rad,
            !.summed = r.summed, !.radius = r.radius]

LEMMA FromListIs ==
  ASSUME NEW r, Fields(r), NEW s, Fields(s)
  PROVE  LET q == FromList(r, s)
         IN  /\ Fields(q) /\ q.dec = s.dec /\ q.own = s.own /\ q.cells = s.cells
             /\ q.NNc_full = s.NNc_full /\ q.NNc_sym = s.NNc_sym
             /\ SameStencils(q, r)
             /\ q.from_cd = s.from_cd /\ q.n_dec = s.n_dec /\ q.made = s.made
BY DEF FromList, Fields, FieldNames, SameStencils

LEMMA NewIs ==
  /\ Fields(New) /\ New.dec = NoDec /\ New.cells = <<>> /\ New.rcache = <<>>
  /\ New.cached = <<>> /\ New.nnc_rad = <<>> /\ New.summed = <<>> /\ New.radius = 0
BY DEF New, Fields, FieldNames, NoStencil

WithCells(r, cells) == [r EXCEPT !.cells = cells]
WithRadius(r, st, rad, grids) == [r EXCEPT !.nnc_rad = st, !.radius = rad, !.summed = grids]
WithCache(r, cache, grids) == [r EXCEPT !.rcache = cache, !.cached = grids]
WithDec(r, n, from) == [r EXCEPT !.n_dec = n, !.from_cd = from]

LEMMA WithCellsIs ==
  ASSUME NEW r, Fields(r), NEW v
  PROVE  LET q == WithCells(r, v)
         IN  /\ Fields(q) /\ q.cells = v
             /\ q.dec = r.dec /\ q.own = r.own /\ q.made = r.made
             /\ q.NNc_full = r.NNc_full /\ q.NNc_sym = r.NNc_sym
             /\ SameStencils(q, r) /\ q.from_cd = r.from_cd /\ q.n_dec = r.n_dec
BY DEF WithCells, Fields, FieldNames, SameStencils

LEMMA WithRadiusIs ==
  ASSUME NEW r, Fields(r), NEW v, NEW w, NEW g
  PROVE  LET q == WithRadius(r, v, w, g)
         IN  /\ Fields(q) /\ q.nnc_rad = v /\ q.radius = w /\ q.summed = g
             /\ q.rcache = r.rcache /\ q.cached = r.cached
             /\ q.dec = r.dec /\ q.own = r.own /\ q.made = r.made
             /\ q.cells = r.cells /\ q.NNc_full = r.NNc_full
             /\ q.NNc_sym = r.NNc_sym
             /\ q.from_cd = r.from_cd /\ q.n_dec = r.n_dec
BY DEF WithRadius, Fields, FieldNames

LEMMA WithCacheIs ==
  ASSUME NEW r, Fields(r), NEW v, NEW g
  PROVE  LET q == WithCache(r, v, g)
         IN  /\ Fields(q) /\ q.rcache = v /\ q.cached = g
             /\ q.nnc_rad = r.nnc_rad /\ q.summed = r.summed
             /\ q.dec = r.dec /\ q.own = r.own /\ q.made = r.made
             /\ q.cells = r.cells /\ q.NNc_full = r.NNc_full
             /\ q.NNc_sym = r.NNc_sym /\ q.radius = r.radius /\ q.from_cd = r.from_cd /\ q.n_dec = r.n_dec
BY DEF WithCache, Fields, FieldNames

LEMMA WithDecIs ==
  ASSUME NEW r, Fields(r), NEW v, NEW w
  PROVE  LET q == WithDec(r, v, w)
         IN  /\ Fields(q) /\ q.n_dec = v /\ q.from_cd = w
             /\ q.dec = r.dec /\ q.own = r.own /\ q.made = r.made
             /\ q.cells = r.cells /\ q.NNc_full = r.NNc_full
             /\ q.NNc_sym = r.NNc_sym /\ SameStencils(q, r)
BY DEF WithDec, Fields, FieldNames, SameStencils

-----------------------------------------------------------------------------
(* Elements in cells. *)

\* Every element is in one cell, once, and in one it may be put in.
Placed(d, cells) ==
  \A c \in DOMAIN cells : \A j \in 1 .. Len(cells[c]) :
    HeldIn(cells, cells[c][j], c) /\ PutIn(d, cells[c][j], c)

LEMMA PutInCells ==
  ASSUME EvenCells, NEW d, NEW own, <<d, own>> \in Makings, NEW x, NEW c, PutIn(d, x, c)
  PROVE  c \in Cells(d)
<1>1. PICK k \in [D -> Int] : c = LinId(d.gr2, k) /\ \A i \in D : Loc(d, x, i, k[i])
  BY DEF PutIn
<1>2. 1 \in D /\ 2 \in D
  BY DEF D
<1>3. d.gr2[1] \in Nat /\ d.gr2[2] \in Nat
  BY <1>2, AptFacts
<1>4. k[1] \in 0 .. d.gr2[1] - 1 /\ k[2] \in 0 .. d.gr2[2] - 1
  BY <1>1, <1>2 DEF Loc
<1>5. QED
  BY <1>1, <1>3, <1>4, LinIdIn DEF Cells

LEMMA PlacedNew ==
  ASSUME NEW d, NEW C, NEW cells, cells = [c \in C |-> <<>>]
  PROVE  Placed(d, cells)
BY DEF Placed

LEMMA PlacedAppend ==
  ASSUME NEW T, NEW C, NEW cells \in [C -> Seq(T)], NEW d, Placed(d, cells),
         NEW c \in C, NEW x \in T, \A a \in C : Absent(cells[a], x), PutIn(d, x, c)
  PROVE  /\ [cells EXCEPT ![c] = Append(cells[c], x)] \in [C -> Seq(T)]
         /\ Placed(d, [cells EXCEPT ![c] = Append(cells[c], x)])
<1> DEFINE new == [cells EXCEPT ![c] = Append(cells[c], x)]
<1>1. /\ new \in [C -> Seq(T)] /\ new[c] = Append(cells[c], x)
      /\ \A a \in C : a # c => new[a] = cells[a]
  OBVIOUS
<1> HIDE DEF new
<1>2. \A y : /\ Absent(cells[c], y) /\ y # x => Absent(new[c], y)
             /\ Absent(cells[c], y) /\ y = x => Once(new[c], y)
             /\ Once(cells[c], y) /\ y # x => Once(new[c], y)
  <2>1. cells[c] \in Seq(T)
    OBVIOUS
  <2>2. QED
    BY <1>1, <2>1, AppendOnce
<1>3. HeldIn(new, x, c)
  BY <1>1, <1>2 DEF HeldIn
<1>4. ASSUME NEW a \in C, NEW y, y # x, HeldIn(cells, y, a) PROVE HeldIn(new, y, a)
  BY <1>1, <1>2, <1>4 DEF HeldIn
<1>5. ASSUME NEW a \in C, NEW j \in 1 .. Len(new[a])
      PROVE  HeldIn(new, new[a][j], a) /\ PutIn(d, new[a][j], a)
  <2>1. CASE new[a][j] = x
    <3>1. a = c
      BY <1>1, <1>5, <2>1 DEF Absent
    <3>2. QED
      BY <1>3, <2>1, <3>1
  <2>2. CASE new[a][j] # x
    <3>1. j \in 1 .. Len(cells[a]) /\ new[a][j] = cells[a][j]
      <4>1. CASE a = c
        <5>1. cells[c] \in Seq(T) /\ new[c] = Append(cells[c], x)
          BY <1>1
        <5>2. Len(new[c]) = Len(cells[c]) + 1 /\ new[c][Len(cells[c]) + 1] = x
              /\ \A k \in 1 .. Len(cells[c]) : new[c][k] = cells[c][k]
          BY <5>1
        <5>3. j \in 1 .. Len(cells[c])
          BY <2>2, <4>1, <5>1, <5>2
        <5>4. QED
          BY <4>1, <5>2, <5>3
      <4>2. CASE a # c
        BY <1>1, <4>2
      <4>3. QED
        BY <4>1, <4>2
    <3>2. HeldIn(cells, cells[a][j], a) /\ PutIn(d, cells[a][j], a)
      BY <3>1 DEF Placed
    <3>3. QED
      BY <1>4, <2>2, <3>1, <3>2
  <2>3. QED
    BY <2>1, <2>2
<1>6. Placed(d, new)
  BY <1>1, <1>5 DEF Placed
<1>7. QED
  BY <1>1, <1>6 DEF new

LEMMA RemoveOnce ==
  ASSUME NEW T, NEW s \in Seq(T), NEW k \in 1 .. Len(s), NEW x
  PROVE  /\ Seqs!RemoveAt(s, k) \in Seq(T)
         /\ Absent(s, x) => Absent(Seqs!RemoveAt(s, k), x)
         /\ Once(s, x) /\ x # s[k] => Once(Seqs!RemoveAt(s, k), x)
         /\ Once(s, x) /\ x = s[k] => Absent(Seqs!RemoveAt(s, k), x)
<1> DEFINE r == Seqs!RemoveAt(s, k)
           n == Len(s)
<1>1. n \in Nat /\ k \in 1 .. n
  OBVIOUS
<1>2. /\ r \in Seq(T) /\ Len(r) = n - 1
      /\ \A m \in 1 .. n - 1 : r[m] = IF m < k THEN s[m] ELSE s[m + 1]
  <2> DEFINE p == SubSeq(s, 1, k - 1)
             q == SubSeq(s, k + 1, n)
  <2>1. /\ p \in Seq(T) /\ Len(p) = k - 1 /\ \A m \in 1 .. k - 1 : p[m] = s[m]
        /\ q \in Seq(T) /\ Len(q) = n - k /\ \A m \in 1 .. n - k : q[m] = s[k + m]
    <3>1. /\ p \in Seq(T) /\ Len(p) = k - 1 /\ \A m \in 1 .. k - 1 : p[m] = s[m]
      BY <1>1
    <3>2. /\ q \in Seq(T) /\ Len(q) = n - k
      BY <1>1
    <3>3. \A m \in 1 .. n - k : q[m] = s[k + m]
      BY <1>1
    <3>4. QED
      BY <3>1, <3>2, <3>3
  <2>2. r = p \o q
    BY DEF Seqs!RemoveAt
  <2> HIDE DEF p, q, r
  <2>3. /\ r \in Seq(T) /\ Len(r) = Len(p) + Len(q)
        /\ \A m \in 1 .. Len(p) : r[m] = p[m]
        /\ \A m \in 1 .. Len(q) : r[Len(p) + m] = q[m]
    <3>1. ASSUME NEW a \in Seq(T), NEW b \in Seq(T)
          PROVE  /\ a \o b \in Seq(T) /\ Len(a \o b) = Len(a) + Len(b)
                 /\ \A m \in 1 .. Len(a) : (a \o b)[m] = a[m]
                 /\ \A m \in 1 .. Len(b) : (a \o b)[Len(a) + m] = b[m]
      OBVIOUS
    <3>2. p \in Seq(T) /\ q \in Seq(T)
      BY <2>1
    <3>3. QED
      BY ONLY <2>2, <3>1, <3>2
  <2>4. ASSUME NEW m \in 1 .. n - 1, ~(m < k) PROVE r[m] = s[m + 1]
    <3>1. m - (k - 1) \in 1 .. n - k /\ (k - 1) + (m - (k - 1)) = m
          /\ k + (m - (k - 1)) = m + 1
      BY <1>1, <2>4
    <3>2. r[(k - 1) + (m - (k - 1))] = q[m - (k - 1)]
      BY <2>1, <2>3, <3>1
    <3>3. q[m - (k - 1)] = s[k + (m - (k - 1))]
      BY <2>1, <3>1
    <3>4. QED
      BY <3>1, <3>2, <3>3
  <2>5. ASSUME NEW m \in 1 .. n - 1, m < k PROVE r[m] = s[m]
    BY <1>1, <2>1, <2>3, <2>5
  <2>6. Len(r) = n - 1
    BY <1>1, <2>1, <2>3
  <2>7. QED
    BY <2>3, <2>4, <2>5, <2>6
<1> HIDE DEF r
<1>3. \A m \in 1 .. n - 1 : m \in 1 .. n /\ m + 1 \in 1 .. n
  BY <1>1
<1>4. Absent(s, x) => Absent(r, x)
  BY <1>2, <1>3 DEF Absent
<1>5. ASSUME Once(s, x) PROVE /\ x # s[k] => Once(r, x)
                              /\ x = s[k] => Absent(r, x)
  <2>1. PICK m \in 1 .. n : s[m] = x /\ \A j \in 1 .. n : s[j] = x => j = m
    BY <1>5 DEF Once
  <2>2. ASSUME x = s[k] PROVE Absent(r, x)
    <3>1. m = k
      BY <1>1, <2>1, <2>2
    <3>2. ASSUME NEW j \in 1 .. n - 1, r[j] = x PROVE FALSE
      BY <1>1, <1>2, <1>3, <2>1, <3>1, <3>2
    <3>3. QED
      BY <1>2, <3>2 DEF Absent
  <2>3. ASSUME x # s[k] PROVE Once(r, x)
    <3>1. m # k
      BY <2>1, <2>3
    <3>2. PICK i \in 1 .. n - 1 : IF i < k THEN m = i ELSE m = i + 1
      <4>1. CASE m < k
        <5>1. m \in 1 .. n - 1
          BY <1>1, <4>1
        <5>2. QED
          BY <4>1, <5>1
      <4>2. CASE ~(m < k)
        <5>1. m - 1 \in 1 .. n - 1 /\ ~(m - 1 < k) /\ m - 1 + 1 = m
          BY <1>1, <3>1, <4>2
        <5>2. QED
          BY <5>1
      <4>3. QED
        BY <4>1, <4>2
    <3>3. r[i] = x
      BY <1>2, <2>1, <3>2
    <3>4. ASSUME NEW j \in 1 .. n - 1, r[j] = x PROVE j = i
      <4>1. IF j < k THEN m = j ELSE m = j + 1
        BY <1>2, <1>3, <2>1, <3>4
      <4>2. QED
        BY <1>1, <3>2, <4>1
    <3>5. QED
      BY <1>2, <3>3, <3>4 DEF Once
  <2>4. QED
    BY <2>2, <2>3
<1>6. QED
  BY <1>2, <1>4, <1>5 DEF r

LEMMA PlacedRemove ==
  ASSUME NEW T, NEW C, NEW cells \in [C -> Seq(T)], NEW d, Placed(d, cells),
         NEW c \in C, NEW k \in 1 .. Len(cells[c])
  PROVE  /\ [cells EXCEPT ![c] = Seqs!RemoveAt(cells[c], k)] \in [C -> Seq(T)]
         /\ Placed(d, [cells EXCEPT ![c] = Seqs!RemoveAt(cells[c], k)])
<1> DEFINE rem == Seqs!RemoveAt(cells[c], k)
           new == [cells EXCEPT ![c] = rem]
           x == cells[c][k]
<1>1. cells[c] \in Seq(T)
  OBVIOUS
<1>2. \A y : /\ rem \in Seq(T)
             /\ Absent(cells[c], y) => Absent(rem, y)
             /\ Once(cells[c], y) /\ y # x => Once(rem, y)
             /\ Once(cells[c], y) /\ y = x => Absent(rem, y)
  BY <1>1, RemoveOnce
<1> HIDE DEF rem
<1>3. /\ new \in [C -> Seq(T)] /\ new[c] = rem
      /\ \A a \in C : a # c => new[a] = cells[a]
  BY <1>2
<1> HIDE DEF new
<1>4. HeldIn(cells, x, c)
  BY DEF Placed
<1>5. ASSUME NEW a \in C, NEW y, HeldIn(cells, y, a), ~Absent(new[a], y) PROVE HeldIn(new, y, a)
  <2>1. y # x \/ a # c
    BY <1>2, <1>3, <1>4, <1>5 DEF HeldIn
  <2>2. Once(new[a], y)
    BY <1>2, <1>3, <1>5, <2>1 DEF HeldIn
  <2>3. \A b \in C : b # a => Absent(new[b], y)
    BY <1>2, <1>3, <1>5 DEF HeldIn
  <2>4. QED
    BY <1>3, <2>2, <2>3 DEF HeldIn
<1>6. ASSUME NEW a \in C, NEW j \in 1 .. Len(new[a])
      PROVE  HeldIn(new, new[a][j], a) /\ PutIn(d, new[a][j], a)
  <2>1. ~Absent(new[a], new[a][j])
    BY DEF Absent
  <2>2. ~Absent(cells[a], new[a][j])
    BY <1>2, <1>3, <2>1
  <2>3. PICK m \in 1 .. Len(cells[a]) : cells[a][m] = new[a][j]
    BY <2>2 DEF Absent
  <2>4. HeldIn(cells, new[a][j], a) /\ PutIn(d, new[a][j], a)
    BY <2>3 DEF Placed
  <2>5. QED
    BY <1>5, <2>1, <2>4
<1>7. Placed(d, new)
  BY <1>3, <1>6 DEF Placed
<1>8. QED
  BY <1>3, <1>7 DEF new, rem

-----------------------------------------------------------------------------
(* The invariant. *)

\* What NNcRad reads of a decomposer, and what there may be of it.
GridOf(d) == [rows |-> d.gr[1], unit |-> d.unit]
Grids == {GridOf(m[1]) : m \in Makings}

\* The stencil for the radius q and the grid g, whose padding reaches as far.
StencilOf(stencil, g, q) ==
  /\ q \in Nat
  /\ \E m \in Makings : /\ g = GridOf(m[1]) /\ stencil = NNcRad(m[1], q)
                        /\ \A i \in D : q <= Pad * m[1].unit[i]

\* The stencils of radii that a list keeps.
CacheKept(r) ==
  /\ DOMAIN r.rcache \subseteq Radii /\ DOMAIN r.cached = DOMAIN r.rcache
  /\ \A q \in DOMAIN r.rcache :
       r.rcache[q] \in Seq(Int) /\ StencilOf(r.rcache[q], r.cached[q], q)

SumKept(r) ==
  /\ r.nnc_rad \in Seq(Int) /\ r.radius \in Radii \cup {0} /\ r.summed \in Seq(Grids)
  /\ r.summed = <<>> => r.nnc_rad = <<>>
  /\ \A g : r.summed = <<g>> => StencilOf(r.nnc_rad, g, r.radius)

Kept(r) == CacheKept(r) /\ SumKept(r)

LEMMA SameKept == ASSUME NEW q, NEW r, SameStencils(q, r), Kept(r) PROVE Kept(q)
BY DEF SameStencils, Kept, CacheKept, SumKept

Made(r) ==
  /\ Fields(r)
  /\ <<r.dec, r.own>> \in Makings
  /\ r.cells \in [Cells(r.dec) -> Seq(Points)] /\ Placed(r.dec, r.cells)
  /\ r.NNc_full = NNcFull(r.dec.gr2) /\ r.NNc_sym = NNcSym(r.dec.gr2)
  /\ r.from_cd \in BOOLEAN /\ r.n_dec \in Decs /\ r.made \in Decs
  /\ Kept(r)

Inv == cl = [l \in Lists |-> cl[l]] /\ \A l \in Lists : cl[l] = New \/ Made(cl[l])

LEMMA MadeUsable ==
  ASSUME WellPosed, NEW r, Made(r)
  PROVE  r.dec # NoDec /\ r # New
<1>1. r.dec.off = Pad /\ Pad \in Nat \ {0}
  <2>1. 1 \in D
    BY DEF D
  <2>2. QED
    BY <2>1, AptFacts DEF WellPosed, Made
<1>2. NoDec.off = 0 /\ New.dec = NoDec
  BY NewIs DEF NoDec
<1>3. QED
  BY <1>1, <1>2

LEMMA UsableMade ==
  ASSUME WellPosed, Inv, NEW l \in Lists
  PROVE  /\ Fields(cl[l]) /\ Kept(cl[l])
         /\ Usable(l) <=> Made(cl[l])
         /\ ~Usable(l) => cl[l] = New
<1>1. cl[l] = New \/ Made(cl[l])
  BY DEF Inv
<1>2. CASE cl[l] = New
  <2>1. Fields(New) /\ New.dec = NoDec
    BY NewIs
  <2>2. Kept(New)
    <3>1. /\ New.rcache = <<>> /\ New.cached = <<>> /\ New.nnc_rad = <<>>
          /\ New.summed = <<>> /\ New.radius = 0
      BY NewIs
    <3>2. DOMAIN New.rcache = {} /\ DOMAIN New.cached = {}
      BY <3>1
    <3>3. <<>> \in Seq(Int) /\ <<>> \in Seq(Grids) /\ \A g : <<>> # <<g>>
      OBVIOUS
    <3>4. QED
      BY <3>1, <3>2, <3>3 DEF Kept, CacheKept, SumKept
  <2>3. QED
    BY <1>2, <2>1, <2>2, MadeUsable DEF Usable
<1>3. CASE Made(cl[l])
  BY <1>3, MadeUsable DEF Usable, Made
<1>4. QED
  BY <1>1, <1>2, <1>3

LEMMA Changed ==
  ASSUME Inv, NEW l \in Lists, NEW q, q = New \/ Made(q), cl' = [cl EXCEPT ![l] = q]
  PROVE  Inv'
<1>1. cl' = [k \in Lists |-> IF k = l THEN q ELSE cl[k]]
  BY DEF Inv
<1>2. cl' = [k \in Lists |-> cl'[k]] /\ \A k \in Lists : cl'[k] = New \/ Made(cl'[k])
  <2>1. \A k \in Lists : cl'[k] = IF k = l THEN q ELSE cl[k]
    BY <1>1
  <2>2. \A k \in Lists : cl[k] = New \/ Made(cl[k])
    BY DEF Inv
  <2>3. \A k \in Lists : cl'[k] = New \/ Made(cl'[k])
    BY <2>1, <2>2
  <2>4. DOMAIN cl' = Lists
    BY <1>1
  <2>5. QED
    BY <1>1, <2>1, <2>3
<1>3. QED
  BY <1>2 DEF Inv

LEMMA NewListMade ==
  ASSUME WellPosed, Inv, NEW l \in Lists, NEW d, NEW own, <<d, own>> \in Makings,
         NEW from \in BOOLEAN, NEW n \in Decs
  PROVE  Made(NewList(cl[l], d, own, from, n))
<1> DEFINE r == cl[l]
           q == NewList(r, d, own, from, n)
<1>1. Fields(r) /\ Kept(r)
  BY UsableMade
<1>2. /\ Fields(q) /\ q.dec = d /\ q.own = own /\ q.cells = [c \in Cells(d) |-> <<>>]
      /\ q.NNc_full = NNcFull(d.gr2) /\ q.NNc_sym = NNcSym(d.gr2)
      /\ SameStencils(q, r)
      /\ q.from_cd = from /\ q.n_dec = n /\ q.made = n
  BY <1>1, NewListIs
<1> HIDE DEF q
<1>3. q.cells \in [Cells(d) -> Seq(Points)] /\ Placed(d, q.cells)
  <2>1. <<>> \in Seq(Points)
    OBVIOUS
  <2>2. QED
    BY <1>2, <2>1, PlacedNew
<1>4. Kept(q)
  BY <1>1, <1>2, SameKept
<1>5. QED
  BY <1>2, <1>3, <1>4 DEF Made, q

LEMMA FromListMade ==
  ASSUME WellPosed, Inv, NEW l \in Lists, NEW m \in Lists, Usable(m)
  PROVE  From(l, m) = FromList(cl[l], cl[m]) /\ Made(From(l, m)) /\ Fields(cl[m])
<1> DEFINE r == cl[l]
           s == cl[m]
           q == FromList(r, s)
<1>1. Fields(r) /\ Kept(r) /\ Made(s) /\ Fields(s)
  BY UsableMade
<1>2. From(l, m) = q
  BY DEF From, FromList
<1>3. /\ Fields(q) /\ q.dec = s.dec /\ q.own = s.own /\ q.cells = s.cells
      /\ q.NNc_full = s.NNc_full /\ q.NNc_sym = s.NNc_sym
      /\ SameStencils(q, r)
      /\ q.from_cd = s.from_cd /\ q.n_dec = s.n_dec /\ q.made = s.made
  BY <1>1, FromListIs
<1> HIDE DEF q
<1>4. Kept(q)
  BY <1>1, <1>3, SameKept
<1>5. Made(q)
  BY <1>1, <1>3, <1>4 DEF Made
<1>6. QED
  BY <1>1, <1>2, <1>5 DEF q

\* A list with other contents of the same cells.
LEMMA WithCellsMade ==
  ASSUME NEW r, Made(r), NEW cells \in [Cells(r.dec) -> Seq(Points)], Placed(r.dec, cells)
  PROVE  Made(WithCells(r, cells))
<1> DEFINE q == WithCells(r, cells)
<1>1. Fields(r)
  BY DEF Made
<1>2. /\ Fields(q) /\ q.cells = cells /\ q.dec = r.dec /\ q.own = r.own
      /\ q.NNc_full = r.NNc_full /\ q.NNc_sym = r.NNc_sym
      /\ SameStencils(q, r)
      /\ q.from_cd = r.from_cd /\ q.n_dec = r.n_dec /\ q.made = r.made
  BY <1>1, WithCellsIs
<1> HIDE DEF q
<1>3. Kept(q)
  BY <1>2, SameKept DEF Made
<1>4. QED
  BY <1>2, <1>3 DEF Made, q

-----------------------------------------------------------------------------
(* Steps. *)

LEMMA InitOK == Init => Inv
BY DEF Init, Inv

LEMMA InitializeOK ==
  ASSUME WellPosed, Inv, NEW l \in Lists, NEW s \in Shapes, NEW n \in Decs, Initialize(l, s, n)
  PROVE  Inv'
<1> DEFINE d == Decomposed(s.box, s.div, Pad)
           q == NewList(cl[l], d, s.box, FALSE, n)
<1>1. cl' = [cl EXCEPT ![l] = q]
  BY DEF Initialize, InitializeStructures, NewList
<1>2. <<d, s.box>> \in Makings
  BY DEF Makings
<1> HIDE DEF d
<1>3. Made(q)
  BY <1>1, <1>2, NewListMade
<1> HIDE DEF q
<1>4. QED
  BY <1>1, <1>3, Changed

LEMMA InitializeFromOK ==
  ASSUME WellPosed, Inv, NEW l \in Lists, NEW dom \in Subs, NEW n \in Decs,
         InitializeFrom(l, dom, n)
  PROVE  Inv'
<1> DEFINE d == SetCellDecomposer(OuterDec, dom, Pad)
           q == NewList(cl[l], d, dom, TRUE, n)
<1>1. cl' = [cl EXCEPT ![l] = q]
  BY DEF InitializeFrom, InitializeStructures, NewList
<1>2. <<d, dom>> \in Makings
  BY DEF Makings
<1> HIDE DEF d
<1>3. Made(q)
  BY <1>1, <1>2, NewListMade
<1> HIDE DEF q
<1>4. QED
  BY <1>1, <1>3, Changed

\* An element that is new is put in a cell that it may be put in.
LEMMA AddCellOK ==
  ASSUME WellPosed, Inv, NEW l \in Lists, NEW x \in Points, NewParticle(l, x),
         NEW c, PutIn(cl[l].dec, x, c), AddCell(l, c, x)
  PROVE  Inv'
<1> DEFINE r == cl[l]
           cells == [r.cells EXCEPT ![c] = Append(r.cells[c], x)]
           q == WithCells(r, cells)
<1>1. Made(r) /\ Fields(r)
  BY UsableMade DEF NewParticle
<1>2. /\ <<r.dec, r.own>> \in Makings
      /\ r.cells \in [Cells(r.dec) -> Seq(Points)] /\ Placed(r.dec, r.cells)
  BY <1>1 DEF Made
<1>3. c \in Cells(r.dec)
  BY <1>2, PutInCells DEF WellPosed
<1>4. \A a \in Cells(r.dec) : Absent(r.cells[a], x)
  <2>1. DOMAIN r.cells = Cells(r.dec)
    BY <1>2
  <2>2. ASSUME NEW a \in Cells(r.dec), NEW k \in 1 .. Len(r.cells[a]) PROVE r.cells[a][k] # x
    <3>1. r.cells[a] \in Seq(Points)
      BY <1>2
    <3>2. k \in DOMAIN r.cells[a]
      BY <3>1
    <3>3. r.cells[a][k] \in Stored(l)
      BY <2>1, <3>2 DEF Stored
    <3>4. QED
      BY <3>3 DEF NewParticle
  <2>3. QED
    BY <2>2 DEF Absent
<1>5. cells \in [Cells(r.dec) -> Seq(Points)] /\ Placed(r.dec, cells)
  BY <1>2, <1>3, <1>4, PlacedAppend
<1>6. cl' = [cl EXCEPT ![l] = q]
  BY DEF AddCell, WithCells
<1> HIDE DEF cells
<1>7. Made(q)
  BY <1>1, <1>5, WithCellsMade
<1> HIDE DEF q
<1>8. QED
  BY <1>6, <1>7, Changed

LEMMA AddOK ==
  ASSUME WellPosed, Inv, NEW l \in Lists, NEW x \in Points,
         Add(l, x) \/ AddDom(l, x) \/ AddPad(l, x) \/ AddPadCoordinates(l, x)
  PROVE  Inv'
<1> DEFINE d == cl[l].dec
           own == cl[l].own
<1>1. NewParticle(l, x)
  BY DEF Add, AddDom, AddPad, AddPadCoordinates
<1>2. <<d, own>> \in Makings
  BY <1>1, UsableMade DEF NewParticle, Made
<1>3. /\ InReach(l, x) <=> Reach(d, own, x)
      /\ InDomain(l, x) <=> Domain(d, own, x)
  BY DEF InReach, InDomain, Reach, Domain
<1>4. EvenCells /\ PointsOffCells
  BY DEF WellPosed
<1>5. CASE Add(l, x) \/ AddPad(l, x)
  <2>1. AddCell(l, GetCell(d, x), x) /\ Reach(d, own, x)
    BY <1>3, <1>5 DEF Add, AddPad
  <2>2. PutIn(d, x, GetCell(d, x))
    BY <1>2, <1>4, <2>1, GetCellPuts
  <2>3. QED
    BY <1>1, <2>1, <2>2, AddCellOK
<1>6. CASE AddDom(l, x)
  <2>1. AddCell(l, GetCellDom(d, x), x) /\ Domain(d, own, x)
    BY <1>3, <1>6 DEF AddDom
  <2>2. PutIn(d, x, GetCellDom(d, x))
    BY <1>2, <1>4, <2>1, GetCellDomPuts
  <2>3. QED
    BY <1>1, <2>1, <2>2, AddCellOK
<1>7. CASE AddPadCoordinates(l, x)
  <2>1. /\ AddCell(l, GetCellPad(d, x), x) /\ Reach(d, own, x) /\ x \in Coordinates
        /\ ~Domain(d, own, x) \/ x \in Ghosts
    BY <1>3, <1>7 DEF AddPadCoordinates
  <2>2. GetCellPad(d, x) = GetCell(d, x)
    <3>1. \A m \in Makings : Reach(m[1], m[2], x) /\ (~Domain(m[1], m[2], x) \/ x \in Ghosts)
            => GetCellPad(m[1], x) = GetCell(m[1], x)
      BY <2>1 DEF WellPosed, CornersStay
    <3>2. <<d, own>>[1] = d /\ <<d, own>>[2] = own
      OBVIOUS
    <3>3. QED
      BY <1>2, <2>1, <3>1, <3>2
  <2>3. PutIn(d, x, GetCell(d, x))
    BY <1>2, <1>4, <2>1, GetCellPuts
  <2>4. QED
    BY <1>1, <2>1, <2>2, <2>3, AddCellOK
<1>8. QED
  BY <1>5, <1>6, <1>7

LEMMA RemoveOK ==
  ASSUME WellPosed, Inv, NEW l \in Lists, NEW c \in DOMAIN cl[l].cells, Remove(l, c)
  PROVE  Inv'
<1> DEFINE r == cl[l]
<1>1. Made(r)
  BY UsableMade DEF Remove
<1>2. r.cells \in [Cells(r.dec) -> Seq(Points)] /\ Placed(r.dec, r.cells)
  BY <1>1 DEF Made
<1>3. PICK k \in DOMAIN r.cells[c] : cl' = [cl EXCEPT ![l].cells[c] = Seqs!RemoveAt(@, k)]
  BY DEF Remove
<1> DEFINE cells == [r.cells EXCEPT ![c] = Seqs!RemoveAt(r.cells[c], k)]
           q == WithCells(r, cells)
<1>4. c \in Cells(r.dec) /\ k \in 1 .. Len(r.cells[c])
  <2>1. c \in Cells(r.dec)
    BY <1>2
  <2>2. r.cells[c] \in Seq(Points)
    BY <1>2, <2>1
  <2>3. QED
    BY <2>1, <2>2
<1>5. cells \in [Cells(r.dec) -> Seq(Points)] /\ Placed(r.dec, cells)
  BY <1>2, <1>4, PlacedRemove
<1>6. cl' = [cl EXCEPT ![l] = q]
  BY <1>3 DEF WithCells
<1> HIDE DEF cells
<1>7. Made(q)
  BY <1>1, <1>5, WithCellsMade
<1> HIDE DEF q
<1>8. QED
  BY <1>6, <1>7, Changed

LEMMA ClearOK ==
  ASSUME WellPosed, Inv, NEW l \in Lists, Clear(l)
  PROVE  Inv'
<1> DEFINE r == cl[l]
           cells == [c \in DOMAIN r.cells |-> <<>>]
           q == WithCells(r, cells)
<1>1. Made(r)
  BY UsableMade DEF Clear
<1>2. DOMAIN r.cells = Cells(r.dec)
  BY <1>1 DEF Made
<1>3. cells \in [Cells(r.dec) -> Seq(Points)] /\ Placed(r.dec, cells)
  BY <1>2, PlacedNew
<1>4. cl' = [cl EXCEPT ![l] = q]
  BY DEF Clear, WithCells
<1> HIDE DEF cells
<1>5. Made(q)
  BY <1>1, <1>3, WithCellsMade
<1> HIDE DEF q
<1>6. QED
  BY <1>4, <1>5, Changed

LEMMA CopyOK ==
  ASSUME WellPosed, Inv, NEW l \in Lists, NEW m \in Lists, Copy(l, m)
  PROVE  Inv'
<1>1. Usable(m) /\ cl' = [cl EXCEPT ![l] = From(l, m)]
  BY DEF Copy
<1>2. Made(From(l, m))
  BY <1>1, FromListMade
<1>3. QED
  BY <1>1, <1>2, Changed

LEMMA TakeOK ==
  ASSUME WellPosed, Inv, NEW l \in Lists, NEW m \in Lists, Take(l, m)
  PROVE  Inv'
<1> DEFINE q == From(l, m)
<1>1. Usable(m) /\ l # m /\ cl' = [cl EXCEPT ![l] = q, ![m] = New]
  BY DEF Take
<1>2. Made(q)
  BY <1>1, FromListMade
<1> HIDE DEF q
<1>3. cl' = [k \in Lists |-> IF k = m THEN New ELSE IF k = l THEN q ELSE cl[k]]
  BY <1>1 DEF Inv
<1>4. \A k \in Lists : cl'[k] = New \/ Made(cl'[k])
  <2>1. \A k \in Lists : cl'[k] = IF k = m THEN New ELSE IF k = l THEN q ELSE cl[k]
    BY <1>3
  <2>2. QED
    BY <1>2, <2>1 DEF Inv
<1>5. cl' = [k \in Lists |-> cl'[k]]
  BY <1>3
<1>6. QED
  BY <1>4, <1>5 DEF Inv

LEMMA SwapOK ==
  ASSUME WellPosed, Inv, NEW l \in Lists, NEW m \in Lists, Swap(l, m)
  PROVE  Inv'
<1> DEFINE q == From(l, m)
           p == From(m, l)
           s == WithDec(p, cl[m].n_dec, cl[m].from_cd)
<1>1. /\ Usable(l) /\ Usable(m)
      /\ cl' = [cl EXCEPT ![l] = q, ![m] = IF l = m THEN @ ELSE s]
  BY DEF Swap, WithDec
<1>2. Made(q) /\ Made(p) /\ Made(cl[m])
  BY <1>1, FromListMade, UsableMade
<1>3. Made(s)
  <2> HIDE DEF q, p
  <2>1. Fields(p)
    BY <1>2 DEF Made
  <2>2. /\ Fields(s) /\ s.n_dec = cl[m].n_dec /\ s.from_cd = cl[m].from_cd
        /\ s.dec = p.dec /\ s.own = p.own /\ s.made = p.made /\ s.cells = p.cells
        /\ s.NNc_full = p.NNc_full /\ s.NNc_sym = p.NNc_sym /\ SameStencils(s, p)
    BY <2>1, WithDecIs
  <2> HIDE DEF s
  <2>3. Kept(s)
    BY <1>2, <2>2, SameKept DEF Made
  <2>4. s.n_dec \in Decs /\ s.from_cd \in BOOLEAN
    BY <1>2, <2>2 DEF Made
  <2>5. QED
    BY <1>2, <2>2, <2>3, <2>4 DEF Made
<1> HIDE DEF q, s
<1>4. cl' = [k \in Lists |-> IF k = m /\ l # m THEN s ELSE IF k = l THEN q ELSE cl[k]]
  BY <1>1 DEF Inv
<1>5. \A k \in Lists : cl'[k] = New \/ Made(cl'[k])
  <2>1. \A k \in Lists : cl'[k] = IF k = m /\ l # m THEN s ELSE IF k = l THEN q ELSE cl[k]
    BY <1>4
  <2>2. QED
    BY <1>2, <1>3, <2>1 DEF Inv
<1>6. cl' = [k \in Lists |-> cl'[k]]
  BY <1>4
<1>7. QED
  BY <1>5, <1>6 DEF Inv

\* The stencil that a list makes for a radius.
LEMMA StencilMade ==
  ASSUME WellPosed, Inv, NEW l \in Lists, NEW r \in Radii, Usable(l), Reached(l, r)
  PROVE  /\ StencilGrid(l) \in Grids /\ NNcRad(cl[l].dec, r) \in Seq(Int)
         /\ StencilOf(NNcRad(cl[l].dec, r), StencilGrid(l), r)
<1> DEFINE d == cl[l].dec
           own == cl[l].own
<1>1. <<d, own>> \in Makings
  BY UsableMade DEF Made
<1>2. EvenCells /\ r \in Nat /\ 1 \in D
  BY DEF WellPosed, D
<1>3. /\ d.off = Pad /\ \A i \in D : d.unit[i] \in Nat \ {0}
      /\ d.gr[1] \in Nat
  BY <1>1, <1>2, AptFacts
<1>4. NNcRad(d, r) \in Seq(Int)
  BY <1>2, <1>3, NNcRadType
<1>5. \A i \in D : r <= Pad * d.unit[i]
  BY <1>3 DEF Reached
<1>6. StencilGrid(l) = GridOf(d)
  BY DEF StencilGrid, GridOf
<1> HIDE DEF d, own
<1>7. <<d, own>>[1] = d
  OBVIOUS
<1>8. GridOf(d) \in Grids
  BY <1>1, <1>7 DEF Grids
<1>9. StencilOf(NNcRad(d, r), GridOf(d), r)
  BY <1>1, <1>2, <1>5, <1>7 DEF StencilOf
<1>10. QED
  BY <1>4, <1>6, <1>8, <1>9 DEF d

LEMMA SetRadiusOK ==
  ASSUME WellPosed, Inv, NEW l \in Lists, NEW rad \in Radii, SetRadius(l, rad)
  PROVE  Inv'
<1> DEFINE r == cl[l]
           st == NNcRad(r.dec, rad)
           grid == StencilGrid(l)
           new == r.nnc_rad \o st
           grids == Append(r.summed, grid)
           q == WithRadius(r, new, rad, grids)
<1>1. Usable(l) /\ Reached(l, rad) /\ cl' = [cl EXCEPT ![l] = q]
  BY DEF SetRadius, WithRadius
<1>2. Made(r) /\ Fields(r) /\ Kept(r)
  BY <1>1, UsableMade
<1>3. grid \in Grids /\ st \in Seq(Int) /\ StencilOf(st, grid, rad)
  BY <1>1, StencilMade
<1>4. /\ r.nnc_rad \in Seq(Int) /\ r.summed \in Seq(Grids)
      /\ r.summed = <<>> => r.nnc_rad = <<>>
  BY <1>2 DEF Kept, SumKept
<1> HIDE DEF st, grid
<1>5. /\ new \in Seq(Int) /\ grids \in Seq(Grids) /\ Len(grids) = Len(r.summed) + 1
      /\ <<>> \o st = st
  BY <1>3, <1>4
<1>6. ASSUME NEW g, grids = <<g>> PROVE StencilOf(new, g, rad)
  <2>1. Len(r.summed) = 0
    BY <1>4, <1>5, <1>6
  <2>2. r.summed = <<>>
    BY <1>4, <2>1
  <2>3. g = grid
    <3>1. grids[1] = grid
      BY <2>2
    <3>2. QED
      BY <1>6, <3>1
  <2>4. new = st
    BY <1>4, <1>5, <2>2
  <2>5. QED
    BY <1>3, <2>3, <2>4
<1> HIDE DEF new, grids
<1>7. /\ Fields(q) /\ q.nnc_rad = new /\ q.radius = rad /\ q.summed = grids
      /\ q.rcache = r.rcache /\ q.cached = r.cached
      /\ q.dec = r.dec /\ q.own = r.own /\ q.made = r.made /\ q.cells = r.cells
      /\ q.NNc_full = r.NNc_full /\ q.NNc_sym = r.NNc_sym
      /\ q.from_cd = r.from_cd /\ q.n_dec = r.n_dec
  BY <1>2, WithRadiusIs
<1> HIDE DEF q
<1>8. CacheKept(q)
  BY <1>2, <1>7 DEF Kept, CacheKept
<1>9. SumKept(q)
  <2>1. grids # <<>>
    BY <1>4, <1>5
  <2>2. QED
    BY <1>5, <1>6, <1>7, <2>1 DEF SumKept
<1>10. Made(q)
  BY <1>2, <1>7, <1>8, <1>9 DEF Made, Kept
<1>11. QED
  BY <1>1, <1>10, Changed

LEMMA GetNNIteratorRadiusOK ==
  ASSUME WellPosed, Inv, NEW l \in Lists, NEW rad \in Radii, GetNNIteratorRadius(l, rad)
  PROVE  Inv'
<1> DEFINE r == cl[l]
           st == NNcRad(r.dec, rad)
           grid == StencilGrid(l)
           new == With(r.rcache, rad, st)
           grids == With(r.cached, rad, grid)
           q == WithCache(r, new, grids)
<1>1. CASE UNCHANGED cl
  BY <1>1 DEF Inv
<1>2. CASE rad \notin DOMAIN r.rcache /\ cl' = [cl EXCEPT ![l] = q]
  <2>1. Usable(l) /\ Reached(l, rad)
    BY DEF GetNNIteratorRadius
  <2>2. Made(r) /\ Fields(r) /\ Kept(r)
    BY <2>1, UsableMade
  <2>3. st \in Seq(Int) /\ StencilOf(st, grid, rad)
    BY <2>1, StencilMade
  <2>4. CacheKept(r) /\ SumKept(r) /\ DOMAIN r.cached = DOMAIN r.rcache
    BY <2>2 DEF Kept, CacheKept
  <2>5. /\ DOMAIN new = DOMAIN r.rcache \cup {rad} /\ new[rad] = st
        /\ DOMAIN grids = DOMAIN r.rcache \cup {rad} /\ grids[rad] = grid
        /\ \A k \in DOMAIN r.rcache : k # rad => new[k] = r.rcache[k] /\ grids[k] = r.cached[k]
    <3> HIDE DEF st, grid
    <3>1. new = [k \in DOMAIN r.rcache \cup {rad} |-> IF k = rad THEN st ELSE r.rcache[k]]
      BY DEF With
    <3>2. grids = [k \in DOMAIN r.cached \cup {rad} |-> IF k = rad THEN grid ELSE r.cached[k]]
      BY DEF With
    <3> HIDE DEF new, grids
    <3>3. QED
      BY <2>4, <3>1, <3>2
  <2> HIDE DEF st, grid, new, grids
  <2>6. /\ Fields(q) /\ q.rcache = new /\ q.cached = grids
        /\ q.nnc_rad = r.nnc_rad /\ q.summed = r.summed /\ q.radius = r.radius
        /\ q.dec = r.dec /\ q.own = r.own /\ q.made = r.made /\ q.cells = r.cells
        /\ q.NNc_full = r.NNc_full /\ q.NNc_sym = r.NNc_sym
        /\ q.from_cd = r.from_cd /\ q.n_dec = r.n_dec
    BY <2>2, WithCacheIs
  <2> HIDE DEF q
  <2>7. CacheKept(q)
    <3>1. ASSUME NEW k \in DOMAIN new
          PROVE  new[k] \in Seq(Int) /\ StencilOf(new[k], grids[k], k)
      BY <2>3, <2>4, <2>5 DEF CacheKept
    <3>2. DOMAIN new \subseteq Radii /\ DOMAIN grids = DOMAIN new
      BY <2>4, <2>5 DEF CacheKept
    <3>3. QED
      BY <2>6, <3>1, <3>2 DEF CacheKept
  <2>8. SumKept(q)
    BY <2>4, <2>6 DEF SumKept
  <2>9. Made(q)
    BY <2>2, <2>6, <2>7, <2>8 DEF Made, Kept
  <2>10. QED
    BY <1>2, <2>9, Changed
<1>3. QED
  BY <1>1, <1>2 DEF GetNNIteratorRadius, WithCache

LEMMA NextOK == ASSUME WellPosed, Inv, [Next]_cl PROVE Inv'
<1>1. CASE cl' = cl
  BY <1>1 DEF Inv
<1>2. CASE Next
  <2>1. PICK l \in Lists :
        \/ \E n \in Decs :
             \/ \E s \in Shapes : Initialize(l, s, n)
             \/ \E dom \in Subs : InitializeFrom(l, dom, n)
        \/ \E x \in Points : Add(l, x) \/ AddDom(l, x) \/ AddPad(l, x)
                                 \/ AddPadCoordinates(l, x)
        \/ \E c \in DOMAIN cl[l].cells : Remove(l, c)
        \/ Clear(l)
        \/ \E m \in Lists : Copy(l, m) \/ Swap(l, m) \/ Take(l, m)
        \/ \E r \in Radii : SetRadius(l, r) \/ GetNNIteratorRadius(l, r)
    BY <1>2 DEF Next
  <2>2. ASSUME NEW n \in Decs, NEW s \in Shapes, Initialize(l, s, n) PROVE Inv'
    BY <2>2, InitializeOK
  <2>3. ASSUME NEW n \in Decs, NEW dom \in Subs, InitializeFrom(l, dom, n) PROVE Inv'
    BY <2>3, InitializeFromOK
  <2>4. ASSUME NEW x \in Points,
               Add(l, x) \/ AddDom(l, x) \/ AddPad(l, x) \/ AddPadCoordinates(l, x)
        PROVE  Inv'
    BY <2>4, AddOK
  <2>5. ASSUME NEW c \in DOMAIN cl[l].cells, Remove(l, c) PROVE Inv'
    BY <2>5, RemoveOK
  <2>6. CASE Clear(l)
    BY <2>6, ClearOK
  <2>7. ASSUME NEW m \in Lists, Copy(l, m) \/ Swap(l, m) \/ Take(l, m) PROVE Inv'
    BY <2>7, CopyOK, SwapOK, TakeOK
  <2>8. ASSUME NEW r \in Radii, SetRadius(l, r) \/ GetNNIteratorRadius(l, r) PROVE Inv'
    BY <2>8, SetRadiusOK, GetNNIteratorRadiusOK
  <2>9. QED
    BY ONLY <2>1, <2>2, <2>3, <2>4, <2>5, <2>6, <2>7, <2>8
<1>3. QED
  BY <1>1, <1>2

-----------------------------------------------------------------------------
(* Properties. *)

LEMMA InvType == ASSUME WellPosed, Inv PROVE TypeOK
<1>1. ASSUME NEW l \in Lists PROVE IF Usable(l) THEN ListOK(cl[l]) ELSE cl[l].cells = <<>>
  <2>1. CASE ~Usable(l)
    BY <2>1, UsableMade, NewIs
  <2>2. CASE Usable(l)
    <3> DEFINE r == cl[l]
    <3>1. Made(r)
      BY <2>2, UsableMade
    <3>2. 1 \in D /\ EvenCells
      BY DEF D, WellPosed
    <3>3. r.dec.gr2[1] \in Nat /\ r.dec.gr2[1] >= 3
      BY <3>1, <3>2, AptFacts DEF Made
    <3>4. NNcFull(r.dec.gr2) \in Seq(Int)
      BY <3>3, NNcFullIs
    <3>5. NNcSym(r.dec.gr2) \in Seq(Int)
      BY <3>4, ChosenOnce DEF NNcSym
    <3>6. ListOK(r)
      BY <3>1, <3>4, <3>5 DEF ListOK, Stencils, Made, Kept, CacheKept, SumKept
    <3>7. QED
      BY <2>2, <3>6
  <2>3. QED
    BY <2>1, <2>2
<1>2. QED
  BY <1>1 DEF TypeOK

LEMMA InvOwn == ASSUME WellPosed, Inv PROVE OwnInDomainCells
<1>1. SUFFICES ASSUME NEW l \in Lists, Usable(l),
                      NEW c \in DOMAIN cl[l].cells, NEW j \in DOMAIN cl[l].cells[c],
                      \A i \in D : /\ cl[l].own.lo[i] <= cl[l].cells[c][j][i]
                                   /\ cl[l].cells[c][j][i] < cl[l].own.hi[i]
               PROVE  c \in DomainCells(cl[l].dec)
  BY DEF OwnInDomainCells
<1> DEFINE r == cl[l]
           d == r.dec
           own == r.own
           x == r.cells[c][j]
<1>2. /\ Made(r) /\ EvenCells /\ PointsOffCells
      /\ \A i \in D : own.lo[i] <= x[i] /\ x[i] < own.hi[i]
  BY <1>1, UsableMade DEF WellPosed
<1>3. /\ <<d, own>> \in Makings
      /\ r.cells \in [Cells(d) -> Seq(Points)] /\ Placed(d, r.cells)
  BY <1>2 DEF Made
<1>4. c \in Cells(d) /\ j \in 1 .. Len(r.cells[c]) /\ x \in Points
  <2>1. c \in Cells(d)
    BY <1>3
  <2>2. r.cells[c] \in Seq(Points)
    BY <1>3, <2>1
  <2>3. QED
    BY <2>1, <2>2
<1>5. PutIn(d, x, c)
  BY <1>3, <1>4 DEF Placed
<1> HIDE DEF r, d, own, x
<1>6. PICK k \in [D -> Int] : c = LinId(d.gr2, k) /\ \A i \in D : Loc(d, x, i, k[i])
  BY <1>5 DEF PutIn
<1>7. ASSUME NEW i \in D PROVE k[i] \in d.off .. d.gr2[i] - d.off - 1
  <2>1. PICK n \in Nat, a \in Nat, b \in Nat : Apt(Pad, d, own, i, n, a, b)
    BY <1>2, <1>3, MakingApt
  <2>2. /\ Fits(d.unit[i], Pad, d.box.lo[i], d.box.hi[i], n, a, b, own.lo[i], own.hi[i])
        /\ d.gr2[i] = b - a + 2 * Pad /\ d.shift[i] = a
    BY <2>1 DEF Apt
  <2>3. d.off = Pad /\ Pad \in Nat \ {0} /\ x[i] \in Int /\ own.hi[i] \in Int /\ d.box.hi[i] \in Int
    BY <1>2, <1>3, <1>4, AptFacts DEF PointsOffCells
  <2>4. PICK q \in Int : /\ InCell(x[i] - d.box.lo[i], q, d.unit[i])
                         /\ \/ k[i] = q + Pad - d.shift[i]
                            \/ x[i] = d.box.hi[i] /\ k[i] = q - 1 + Pad - d.shift[i]
    BY <1>6 DEF Loc
  <2>5. own.lo[i] <= x[i] /\ x[i] < own.hi[i]
    BY <1>2
  <2>6. a <= q /\ q < b /\ own.hi[i] <= d.box.hi[i]
    BY <2>2, <2>3, <2>4, <2>5, Place
  <2>7. k[i] = q + Pad - a
    BY <2>2, <2>3, <2>4, <2>5, <2>6
  <2>8. QED
    BY <2>2, <2>3, <2>6, <2>7
<1>8. 1 \in D /\ 2 \in D
  BY DEF D
<1>9. c = LinId(d.gr2, <<k[1], k[2]>>)
  BY <1>6 DEF LinId
<1>10. c \in DomainCells(d)
  BY <1>7, <1>8, <1>9 DEF DomainCells
<1>11. QED
  BY <1>10 DEF d, r

\* An element of the domain and one that is stored: their cells.
LEMMA HeldStored ==
  ASSUME WellPosed, Inv, NEW l \in Lists, Usable(l)
  PROVE  /\ \A f \in Stored(l) : f \in Points /\ \E b \in Cells(cl[l].dec) :
              HeldIn(cl[l].cells, f, b) /\ PutIn(cl[l].dec, f, b)
         /\ \A p \in Centres(l) : /\ p = <<p[1], p[2]>> /\ p[1] \in Cells(cl[l].dec)
                                  /\ p[2] \in Points /\ p[2] \in Stored(l)
                                  /\ HeldIn(cl[l].cells, p[2], p[1])
                                  /\ PutIn(cl[l].dec, p[2], p[1])
<1> DEFINE cells == cl[l].cells
           d == cl[l].dec
<1>1. cells \in [Cells(d) -> Seq(Points)] /\ Placed(d, cells)
  BY UsableMade DEF Made
<1>2. ASSUME NEW c \in Cells(d), NEW k \in DOMAIN cells[c]
      PROVE  cells[c][k] \in Points /\ HeldIn(cells, cells[c][k], c) /\ PutIn(d, cells[c][k], c)
  <2>1. cells[c] \in Seq(Points)
    BY <1>1
  <2>2. k \in 1 .. Len(cells[c]) /\ cells[c][k] \in Points
    BY <2>1
  <2>3. QED
    BY <1>1, <2>2 DEF Placed
<1>3. \A f \in Stored(l) : \E c \in Cells(d) : \E k \in DOMAIN cells[c] : f = cells[c][k]
  BY <1>1 DEF Stored
<1>4. \A c \in Cells(d) : \A k \in DOMAIN cells[c] : cells[c][k] \in Stored(l)
  BY <1>1 DEF Stored
<1>5. DomainCells(d) \subseteq Cells(d)
  <2>1. ASSUME NEW a \in d.off .. d.gr2[1] - d.off - 1, NEW b \in d.off .. d.gr2[2] - d.off - 1
        PROVE  LinId(d.gr2, <<a, b>>) \in Cells(d)
    <3>1. <<d, cl[l].own>> \in Makings /\ EvenCells /\ 1 \in D /\ 2 \in D
      BY UsableMade DEF Made, D, WellPosed
    <3>2. d.off \in Nat /\ d.gr2[1] \in Nat /\ d.gr2[2] \in Nat
      BY <3>1, AptFacts
    <3> DEFINE k == <<a, b>>
    <3>3. k[1] \in 0 .. d.gr2[1] - 1 /\ k[2] \in 0 .. d.gr2[2] - 1
      BY <3>2
    <3> HIDE DEF k
    <3>4. LinId(d.gr2, k) \in 0 .. d.gr2[1] * d.gr2[2] - 1
      BY <3>2, <3>3, LinIdIn
    <3>5. QED
      BY <3>4 DEF k, Cells
  <2>2. ASSUME NEW e \in DomainCells(d) PROVE e \in Cells(d)
    <3> DEFINE S == d.off .. d.gr2[1] - d.off - 1
               T == d.off .. d.gr2[2] - d.off - 1
    <3>1. e \in {LinId(d.gr2, <<a, b>>) : a \in S, b \in T}
      BY DEF DomainCells
    <3>2. \A a \in S : \A b \in T : LinId(d.gr2, <<a, b>>) \in Cells(d)
      BY <2>1
    <3> DEFINE L(a, b) == LinId(d.gr2, <<a, b>>)
    <3>3. e \in {L(a, b) : a \in S, b \in T} /\ \A a \in S : \A b \in T : L(a, b) \in Cells(d)
      BY <3>1, <3>2
    <3> HIDE DEF S, T, L
    <3>4. \E a \in S : \E b \in T : e = L(a, b)
      BY <3>3
    <3>5. QED
      BY <3>3, <3>4
  <2>3. QED
    BY <2>2
<1>6. \A p \in Centres(l) : \E c \in Cells(d) : \E k \in DOMAIN cells[c] : p = <<c, cells[c][k]>>
  BY <1>5 DEF Centres
<1> HIDE DEF cells, d
<1>7. \A f \in Stored(l) : f \in Points /\ \E b \in Cells(d) : HeldIn(cells, f, b) /\ PutIn(d, f, b)
  BY <1>2, <1>3
<1>8. \A p \in Centres(l) : /\ p = <<p[1], p[2]>> /\ p[1] \in Cells(d)
                            /\ p[2] \in Points /\ p[2] \in Stored(l)
                            /\ HeldIn(cells, p[2], p[1]) /\ PutIn(d, p[2], p[1])
  <2>1. ASSUME NEW p \in Centres(l)
        PROVE  /\ p = <<p[1], p[2]>> /\ p[1] \in Cells(d)
               /\ p[2] \in Points /\ p[2] \in Stored(l)
               /\ HeldIn(cells, p[2], p[1]) /\ PutIn(d, p[2], p[1])
    <3>1. PICK c \in Cells(d) : \E k \in DOMAIN cells[c] : p = <<c, cells[c][k]>>
      BY <1>6
    <3>2. PICK k \in DOMAIN cells[c] : p = <<c, cells[c][k]>>
      BY <3>1
    <3>3. p[1] = c /\ p[2] = cells[c][k]
      BY <3>2
    <3>4. QED
      BY <1>2, <1>4, <3>2, <3>3
  <2>2. QED
    BY <2>1
<1>9. QED
  BY <1>7, <1>8 DEF cells, d

\* The cells of two near elements are one step of the stencils apart.
LEMMA Adjacent ==
  ASSUME WellPosed, NEW d, NEW own, <<d, own>> \in Makings,
         NEW x \in Points, NEW y \in Points, NEW c, NEW b, PutIn(d, x, c), PutIn(d, y, b),
         \A i \in D : x[i] - y[i] \in -d.unit[i] .. d.unit[i]
  PROVE  \E i, j \in -1 .. 1 : b - c = i + d.gr2[1] * j
<1>1. PICK k \in [D -> Int] : c = LinId(d.gr2, k) /\ \A i \in D : Loc(d, x, i, k[i])
  BY DEF PutIn
<1>2. PICK l \in [D -> Int] : b = LinId(d.gr2, l) /\ \A i \in D : Loc(d, y, i, l[i])
  BY DEF PutIn
<1>3. EvenCells /\ PointsOffCells /\ BorderSettled /\ 1 \in D /\ 2 \in D
  BY DEF WellPosed, D
<1>4. \A i \in D : l[i] - k[i] \in -1 .. 1
  BY <1>1, <1>2, <1>3, LocClose
<1> DEFINE g == d.gr2[1]
           i == l[1] - k[1]
           j == l[2] - k[2]
<1>5. g \in Nat /\ l[1] \in Int /\ l[2] \in Int /\ k[1] \in Int /\ k[2] \in Int
  BY <1>3, AptFacts
<1>6. i \in -1 .. 1 /\ j \in -1 .. 1
  BY <1>3, <1>4
<1>7. b - c = i + g * j
  <2>1. b = l[1] + g * l[2] /\ c = k[1] + g * k[2]
    BY <1>1, <1>2 DEF LinId
  <2> HIDE DEF g
  <2>2. g * (l[2] - k[2]) = g * l[2] - g * k[2] /\ g * l[2] \in Int /\ g * k[2] \in Int
    BY <1>5
  <2>3. QED
    BY <1>5, <2>1, <2>2
<1> HIDE DEF i, j
<1>8. QED
  BY <1>6, <1>7

LEMMA CellsFacts ==
  ASSUME WellPosed, Inv, NEW l \in Lists, Usable(l)
  PROVE  LET r == cl[l]
         IN  /\ <<r.dec, r.own>> \in Makings
             /\ Cells(r.dec) \subseteq Int /\ r.cells \in [Cells(r.dec) -> Seq(Points)]
             /\ r.dec.gr2[1] \in Nat /\ r.dec.gr2[1] >= 3
             /\ r.NNc_full = NNcFull(r.dec.gr2) /\ r.NNc_sym = NNcSym(r.dec.gr2)
             /\ Layout(Points, Cells(r.dec), r.cells, r.NNc_full)
             /\ Layout(Points, Cells(r.dec), r.cells, r.NNc_sym)
<1> DEFINE r == cl[l]
           d == r.dec
<1>1. Made(r)
  BY UsableMade
<1>2. /\ <<d, r.own>> \in Makings /\ r.cells \in [Cells(d) -> Seq(Points)]
      /\ r.NNc_full = NNcFull(d.gr2) /\ r.NNc_sym = NNcSym(d.gr2)
  BY <1>1 DEF Made
<1>3. 1 \in D /\ 2 \in D /\ EvenCells
  BY DEF D, WellPosed
<1>4. d.gr2[1] \in Nat /\ d.gr2[1] >= 3
  BY <1>2, <1>3, AptFacts
<1>5. Cells(d) \subseteq Int
  BY DEF Cells
<1>6. NNcFull(d.gr2) \in Seq(Int)
  BY <1>4, NNcFullIs
<1>7. NNcSym(d.gr2) \in Seq(Int)
  BY <1>6, ChosenOnce DEF NNcSym
<1>8. QED
  BY <1>2, <1>4, <1>5, <1>6, <1>7 DEF Layout

LEMMA InvNeighbours == ASSUME WellPosed, Inv PROVE NoNeighbourMissed
<1>1. SUFFICES ASSUME NEW l \in Lists, Usable(l), NEW p \in Centres(l), NEW f \in Stored(l),
                      Near(l, p[2], f)
               PROVE  Visits(Walk(cl[l].cells, p[1], cl[l].NNc_full), f) = 1
  BY DEF NoNeighbourMissed
<1> DEFINE r == cl[l]
           d == r.dec
           c == p[1]
           st == r.NNc_full
<1>2. /\ <<d, r.own>> \in Makings /\ d.gr2[1] \in Nat /\ d.gr2[1] >= 3
      /\ st = NNcFull(d.gr2) /\ Layout(Points, Cells(d), r.cells, st)
      /\ Cells(d) \subseteq Int /\ DOMAIN r.cells = Cells(d)
  BY <1>1, CellsFacts
<1>3. c \in Cells(d) /\ p[2] \in Points /\ PutIn(d, p[2], c)
  BY <1>1, HeldStored
<1>4. f \in Points
  BY <1>1, HeldStored
<1>5. PICK b \in Cells(d) : HeldIn(r.cells, f, b) /\ PutIn(d, f, b)
  BY <1>1, HeldStored
<1>6. \A i \in D : p[2][i] - f[i] \in -d.unit[i] .. d.unit[i]
  BY <1>1 DEF Near
<1> HIDE DEF r, d, c, st
<1>7. PICK i \in -1 .. 1, j \in -1 .. 1 : b - c = i + d.gr2[1] * j
  BY <1>2, <1>3, <1>4, <1>5, <1>6, Adjacent
<1>8. Once(st, b - c)
  BY <1>2, <1>7, NNcFullOnce
<1>9. OnlyIn(r.cells, f, b) /\ Once(r.cells[b], f)
  BY <1>5 DEF HeldIn, OnlyIn
<1>10. b \in Int /\ c \in Int
  BY <1>2, <1>3
<1>11. Visits(Walk(r.cells, c, st), f) = 1
  BY <1>2, <1>8, <1>9, <1>10, WalkOnce
<1>12. QED
  BY <1>11 DEF r, c, st

LEMMA InvPairs == ASSUME WellPosed, Inv PROVE PairOnce
<1>1. SUFFICES ASSUME NEW l \in Lists, Usable(l), NEW p \in Centres(l), NEW q \in Centres(l),
                      p[2] # q[2], Near(l, p[2], q[2])
               PROVE  Visits(SymWalk(cl[l].cells, p[1], cl[l].NNc_sym, p[2]), q[2])
                        + Visits(SymWalk(cl[l].cells, q[1], cl[l].NNc_sym, q[2]), p[2]) = 1
  BY DEF PairOnce
<1> DEFINE r == cl[l]
           d == r.dec
           c == p[1]
           b == q[1]
           x == p[2]
           y == q[2]
           st == r.NNc_sym
           g == d.gr2[1]
<1>2. /\ <<d, r.own>> \in Makings /\ g \in Nat /\ g >= 3
      /\ st = NNcSym(d.gr2) /\ Layout(Points, Cells(d), r.cells, st)
      /\ Cells(d) \subseteq Int /\ DOMAIN r.cells = Cells(d)
  BY <1>1, CellsFacts
<1>3. /\ c \in Cells(d) /\ x \in Points /\ PutIn(d, x, c) /\ HeldIn(r.cells, x, c)
      /\ b \in Cells(d) /\ y \in Points /\ PutIn(d, y, b) /\ HeldIn(r.cells, y, b)
  BY <1>1, HeldStored
<1>4. \A i \in D : x[i] - y[i] \in -d.unit[i] .. d.unit[i]
  BY <1>1 DEF Near
<1>5. x # y
  BY <1>1
<1>6. st = NNcSym(d.gr2) /\ g = d.gr2[1]
  BY <1>2
<1> HIDE DEF r, d, c, b, x, y, st, g
<1>7. PICK i \in -1 .. 1, j \in -1 .. 1 : b - c = i + g * j
  BY <1>2, <1>3, <1>4, <1>6, Adjacent
<1>8. c \in Int /\ b \in Int /\ -i \in -1 .. 1 /\ -j \in -1 .. 1 /\ c - b = (-i) + g * (-j)
  <2>1. c \in Int /\ b \in Int
    BY <1>2, <1>3
  <2>2. g * (-j) = -(g * j) /\ g * j \in Int
    BY <1>2
  <2>3. QED
    BY <1>7, <2>1, <2>2
<1>9. /\ b - c >= 0 => Once(st, b - c)
      /\ b - c < 0 => Absent(st, b - c)
      /\ c - b >= 0 => Once(st, c - b)
      /\ c - b < 0 => Absent(st, c - b)
  <2>1. \A s, t \in -1 .. 1 : /\ s + g * t >= 0 => Once(st, s + g * t)
                              /\ s + g * t < 0 => Absent(st, s + g * t)
    BY <1>2, <1>6, NNcSymOnce
  <2>2. /\ b - c >= 0 => Once(st, b - c)
        /\ b - c < 0 => Absent(st, b - c)
    BY <1>7, <2>1
  <2>3. /\ c - b >= 0 => Once(st, c - b)
        /\ c - b < 0 => Absent(st, c - b)
    <3> DEFINE u == -i
               v == -j
    <3>1. u \in -1 .. 1 /\ v \in -1 .. 1 /\ c - b = u + g * v
      BY <1>8
    <3> HIDE DEF u, v
    <3>2. QED
      BY <2>1, <3>1
  <2>4. QED
    BY <2>2, <2>3
<1> DEFINE there == Visits(SymWalk(r.cells, c, st, x), y)
           back == Visits(SymWalk(r.cells, b, st, y), x)
<1>10. /\ Once(st, b - c) /\ (b = c => NotBefore(y, x)) => there = 1
       /\ Absent(st, b - c) \/ (b = c /\ ~NotBefore(y, x)) => there = 0
  BY <1>2, <1>3, SymWalkOnce
<1>11. /\ Once(st, c - b) /\ (c = b => NotBefore(x, y)) => back = 1
       /\ Absent(st, c - b) \/ (c = b /\ ~NotBefore(x, y)) => back = 0
  BY <1>2, <1>3, SymWalkOnce
<1>12. NotBefore(x, y) <=> ~NotBefore(y, x)
  <2>1. \A z \in Points : z[1] \in Int /\ z[2] \in Int /\ z = <<z[1], z[2]>>
    BY DEF WellPosed
  <2>2. x[1] # y[1] \/ x[2] # y[2]
    BY <1>3, <1>5, <2>1
  <2>3. QED
    BY <1>3, <2>1, <2>2 DEF NotBefore
<1> HIDE DEF there, back
<1>13. there + back = 1
  <2>1. CASE b = c
    BY <1>8, <1>9, <1>10, <1>11, <1>12, <2>1
  <2>2. CASE b - c > 0
    BY <1>8, <1>9, <1>10, <1>11, <2>2
  <2>3. CASE b - c < 0
    BY <1>8, <1>9, <1>10, <1>11, <2>3
  <2>4. QED
    BY <1>8, <2>1, <2>2, <2>3
<1>14. QED
  BY <1>13 DEF there, back, r, c, b, x, y, st

LEMMA FarCells ==
  ASSUME NEW u \in Nat \ {0}, NEW y \in Int, NEW z \in Int, NEW q, NEW p,
         InCell(y, q, u), InCell(z, p, u), NEW a \in Nat, y - z \in -a .. a,
         NEW w \in Nat \ {0}, a <= w * u
  PROVE  p - q \in -w .. w /\ Gap(p - q) \in Nat /\ Gap(p - q) * u <= a
<1>1. q \in Int /\ p \in Int /\ q * u \in Int /\ p * u \in Int
      /\ q * u <= y /\ y < q * u + u /\ p * u <= z /\ z < p * u + u
  BY DEF InCell
<1>2. ASSUME NEW s \in Nat, s * u < a PROVE s < w
  <2>1. w <= s => w * u <= s * u
    <3>1. w < s => w * u + u <= s * u
      BY Mono
    <3>2. w * u \in Int /\ s * u \in Int
      OBVIOUS
    <3>3. QED
      BY <3>1, <3>2
  <2>2. w * u \in Int /\ s * u \in Int
    OBVIOUS
  <2>3. QED
    BY <1>2, <2>1, <2>2
<1>3. CASE p = q
  <2>1. p - q = 0 /\ Gap(0) = 0 /\ 0 * u = 0
    BY <1>1, <1>3 DEF Gap
  <2>2. QED
    BY <2>1
<1>4. CASE q < p
  <2> DEFINE s == p - q - 1
  <2>1. s \in Nat /\ Gap(p - q) = s /\ p - q = s + 1
    BY <1>1, <1>4 DEF Gap
  <2>2. s * u = p * u - q * u - u
    BY <1>1
  <2> HIDE DEF s
  <2>3. s * u < a
    BY <1>1, <2>2
  <2>4. s < w
    BY <1>2, <2>1, <2>3
  <2>5. s * u \in Int
    BY <2>1
  <2>6. QED
    BY <2>1, <2>3, <2>4, <2>5
<1>5. CASE p < q
  <2> DEFINE s == q - p - 1
  <2>1. s \in Nat /\ Gap(p - q) = s /\ q - p = s + 1
    BY <1>1, <1>5 DEF Gap
  <2>2. s * u = q * u - p * u - u
    BY <1>1
  <2> HIDE DEF s
  <2>3. s * u < a
    BY <1>1, <2>2
  <2>4. s < w
    BY <1>2, <2>1, <2>3
  <2>5. s * u \in Int
    BY <2>1
  <2>6. p - q = -(s + 1)
    BY <1>1, <2>1
  <2>7. QED
    BY <2>1, <2>3, <2>4, <2>5, <2>6
<1>6. QED
  BY <1>1, <1>3, <1>4, <1>5

LEMMA LocWithin ==
  ASSUME EvenCells, PointsOffCells, BorderSettled, NEW d, NEW own, <<d, own>> \in Makings,
         NEW x \in Points, NEW y \in Points, NEW i \in D, NEW k \in Int, NEW l \in Int,
         Loc(d, x, i, k), Loc(d, y, i, l), NEW a \in Nat, x[i] - y[i] \in -a .. a,
         NEW w \in Nat \ {0}, a <= w * d.unit[i]
  PROVE  l - k \in -w .. w /\ Gap(l - k) \in Nat /\ Gap(l - k) * d.unit[i] <= a
<1> DEFINE u == d.unit[i]
           lo == d.box.lo[i]
           hi == d.box.hi[i]
           s == d.shift[i]
           m == d.gr2[i]
<1>1. PICK n \in Nat, f \in Nat, b \in Nat : Apt(Pad, d, own, i, n, f, b)
  BY MakingApt
<1>2. /\ Fits(u, Pad, lo, hi, n, f, b, own.lo[i], own.hi[i])
      /\ m = b - f + 2 * Pad /\ s = f
  BY <1>1 DEF Apt
<1>3. u \in Nat \ {0} /\ Pad \in Nat \ {0} /\ lo \in Int /\ f < b /\ b <= n
  BY <1>2 DEF Fits
<1>4. x[i] \in Int /\ y[i] \in Int
  BY DEF PointsOffCells
<1>5. x[i] = hi \/ y[i] = hi => Pad = 1
  BY DEF BorderSettled
<1>6. PICK q \in Int : /\ InCell(x[i] - lo, q, u)
                       /\ k = q + Pad - s \/ (x[i] = hi /\ k = q - 1 + Pad - s)
  BY DEF Loc
<1>7. PICK p \in Int : /\ InCell(y[i] - lo, p, u)
                       /\ l = p + Pad - s \/ (y[i] = hi /\ l = p - 1 + Pad - s)
  BY DEF Loc
<1>8. k \in 0 .. m - 1 /\ l \in 0 .. m - 1
  BY DEF Loc
<1>9. (x[i] = hi => q = n) /\ (y[i] = hi => p = n)
  BY <1>2, <1>4, <1>6, <1>7, Place
<1>10. a <= w * u
  OBVIOUS
<1> HIDE DEF u, lo, hi, s, m
<1>11. x[i] - lo \in Int /\ y[i] - lo \in Int /\ (x[i] - lo) - (y[i] - lo) \in -a .. a
  BY <1>3, <1>4
<1>12. p - q \in -w .. w /\ Gap(p - q) \in Nat /\ Gap(p - q) * u <= a
  <2> DEFINE Y == x[i] - lo
             Z == y[i] - lo
  <2>1. /\ Y \in Int /\ Z \in Int /\ Y - Z \in -a .. a /\ u \in Nat \ {0}
        /\ InCell(Y, q, u) /\ InCell(Z, p, u)
    BY <1>3, <1>6, <1>7, <1>11
  <2> HIDE DEF Y, Z
  <2>2. QED
    BY <1>10, <2>1, FarCells
\* Cells that are nearer than those.
<1>13. ASSUME NEW g \in Nat, g <= Gap(p - q) PROVE g * u <= a
  <2>1. g < Gap(p - q) => g * u + u <= Gap(p - q) * u
    BY <1>3, <1>12, Mono
  <2>2. g * u \in Int /\ Gap(p - q) * u \in Int
    BY <1>3, <1>12
  <2>3. QED
    BY <1>3, <1>12, <1>13, <2>1, <2>2
<1>14. CASE k = q + Pad - s /\ l = p + Pad - s
  <2>1. l - k = p - q
    BY <1>2, <1>3, <1>14
  <2>2. QED
    BY <1>12, <2>1 DEF u
<1>15. ASSUME NEW t \in Int, l - k = t, t \in -w .. w, Gap(t) \in Nat, Gap(t) <= Gap(p - q)
       PROVE  l - k \in -w .. w /\ Gap(l - k) \in Nat /\ Gap(l - k) * d.unit[i] <= a
  BY <1>13, <1>15 DEF u
<1>16. Gap(0) = 0 /\ 0 \in -w .. w
  <2>1. w \in Nat
    OBVIOUS
  <2>2. QED
    BY <2>1 DEF Gap
<1>17. CASE x[i] = hi /\ k = q - 1 + Pad - s /\ l = p + Pad - s
  <2>1. l - k = p - q + 1 /\ p - q + 1 <= 1
    BY <1>2, <1>3, <1>5, <1>8, <1>9, <1>17
  <2> DEFINE t == p - q + 1
  <2>2. t \in -w .. w /\ Gap(t) \in Nat /\ Gap(t) <= Gap(p - q)
    BY <1>12, <2>1 DEF Gap
  <2>3. QED
    BY <1>15, <2>1, <2>2
<1>18. CASE k = q + Pad - s /\ y[i] = hi /\ l = p - 1 + Pad - s
  <2>1. l - k = p - q - 1 /\ p - q - 1 >= -1
    BY <1>2, <1>3, <1>5, <1>8, <1>9, <1>18
  <2> DEFINE t == p - q - 1
  <2>2. t \in -w .. w /\ Gap(t) \in Nat /\ Gap(t) <= Gap(p - q)
    BY <1>12, <2>1 DEF Gap
  <2>3. QED
    BY <1>15, <2>1, <2>2
<1>19. CASE x[i] = hi /\ k = q - 1 + Pad - s /\ y[i] = hi /\ l = p - 1 + Pad - s
  <2>1. l - k = 0
    BY <1>2, <1>3, <1>9, <1>19
  <2>2. QED
    BY <1>12, <1>15, <1>16, <2>1
<1>20. QED
  BY <1>6, <1>7, <1>14, <1>17, <1>18, <1>19

-----------------------------------------------------------------------------
(* Walks within a radius. *)

\* The cells of two elements within r are one step of the stencil of r apart.
LEMMA StencilThere ==
  ASSUME WellPosed, NEW d, NEW own, <<d, own>> \in Makings,
         NEW m, m.gr[1] = d.gr2[1], m.unit = d.unit, NEW r \in Nat,
         \A i \in D : r <= Pad * d.unit[i],
         NEW x \in Points, NEW y \in Points, x # y, InRadius(x, y, r),
         NEW c, NEW b, PutIn(d, x, c), PutIn(d, y, b)
  PROVE  Once(NNcRad(m, r), b - c)
<1> DEFINE w == Radius(m, r)
           A == [i \in D |-> Abs(x[i] - y[i])]
<1>1. EvenCells /\ PointsOffCells /\ BorderSettled /\ 1 \in D /\ 2 \in D /\ \A i \in D : i = 1 \/ i = 2
  BY DEF WellPosed, D
<1>2. /\ \A i \in D : d.unit[i] \in Nat \ {0} /\ d.gr2[i] \in Nat /\ d.gr2[i] >= 2 * Pad + 1
      /\ Pad \in Nat \ {0}
  BY <1>1, AptFacts
<1>3. /\ x[1] \in Int /\ x[2] \in Int /\ y[1] \in Int /\ y[2] \in Int
      /\ x[1] # y[1] \/ x[2] # y[2]
  <2>1. \A z \in Points : z[1] \in Int /\ z[2] \in Int /\ z = <<z[1], z[2]>>
    BY DEF WellPosed
  <2>2. QED
    BY <2>1
\* The sides of the triangle.
<1>4. /\ \A i \in D : A[i] \in Nat /\ x[i] - y[i] \in -A[i] .. A[i]
      /\ A[1] * A[1] + A[2] * A[2] <= r * r
      /\ A[1] # 0 \/ A[2] # 0
  <2>1. A[1] = Abs(x[1] - y[1]) /\ A[2] = Abs(x[2] - y[2])
    BY <1>1
  <2>2. /\ A[1] \in Nat /\ x[1] - y[1] \in -A[1] .. A[1]
        /\ A[1] * A[1] = (x[1] - y[1]) * (x[1] - y[1])
    BY <1>3, <2>1, AbsOf
  <2>3. /\ A[2] \in Nat /\ x[2] - y[2] \in -A[2] .. A[2]
        /\ A[2] * A[2] = (x[2] - y[2]) * (x[2] - y[2])
    BY <1>3, <2>1, AbsOf
  <2>4. A[1] * A[1] + A[2] * A[2] <= r * r
    BY <2>2, <2>3 DEF InRadius
  <2>5. A[1] # 0 \/ A[2] # 0
    <3>1. x[1] - y[1] # 0 \/ x[2] - y[2] # 0
      BY <1>3
    <3>2. \A z \in Int : z # 0 => Abs(z) # 0
      BY DEF Abs
    <3>3. x[1] - y[1] \in Int /\ x[2] - y[2] \in Int
      BY <1>3
    <3>4. QED
      BY <2>1, <3>1, <3>2, <3>3
  <2>6. QED
    BY <1>1, <2>2, <2>3, <2>4, <2>5
<1> HIDE DEF A
<1>5. A[1] <= r /\ A[2] <= r /\ r >= 1
  <2>1. A[1] \in Nat /\ A[2] \in Nat /\ A[1] * A[1] \in Nat /\ A[2] * A[2] \in Nat
    BY <1>1, <1>4
  <2>2. A[1] <= r /\ A[2] <= r
    <3>1. A[2] * A[2] + A[1] * A[1] <= r * r
      BY <1>4, <2>1
    <3>2. QED
      BY <1>4, <2>1, <3>1, LegWithin
  <2>3. QED
    BY <1>4, <2>1, <2>2
<1>6. /\ \A i \in D : w[i] \in Nat \ {0} /\ r <= w[i] * d.unit[i]
      /\ w[1] <= Pad
  <2>1. ASSUME NEW i \in D PROVE w[i] \in Nat \ {0} /\ r <= w[i] * d.unit[i]
    <3>1. w[i] \in Nat /\ r <= w[i] * d.unit[i]
      BY <1>2, RadiusOf
    <3>2. 0 * d.unit[i] = 0
      BY <1>2
    <3> HIDE DEF w
    <3>3. w[i] # 0
      BY <1>5, <3>1, <3>2
    <3>4. QED
      BY <3>1, <3>3
  <2>2. w[1] <= Pad
    BY <1>1, <1>2, RadiusOf
  <2>3. QED
    BY <2>1, <2>2
<1>7. PICK k \in [D -> Int] : c = LinId(d.gr2, k) /\ \A i \in D : Loc(d, x, i, k[i])
  BY DEF PutIn
<1>8. PICK l \in [D -> Int] : b = LinId(d.gr2, l) /\ \A i \in D : Loc(d, y, i, l[i])
  BY DEF PutIn
<1> DEFINE e == [i \in D |-> l[i] - k[i]]
<1> HIDE DEF w
<1>9. ASSUME NEW i \in D
      PROVE  e[i] \in -w[i] .. w[i] /\ Gap(e[i]) \in Nat /\ Gap(e[i]) * d.unit[i] <= A[i]
  <2> DEFINE a == A[i]
             v == w[i]
             p == k[i]
             q == l[i]
  <2>1. /\ p \in Int /\ q \in Int /\ Loc(d, x, i, p) /\ Loc(d, y, i, q)
        /\ a \in Nat /\ x[i] - y[i] \in -a .. a
        /\ v \in Nat \ {0}
    BY <1>4, <1>6, <1>7, <1>8
  <2>2. a <= v * d.unit[i]
    <3>1. a <= r /\ r <= v * d.unit[i] /\ v * d.unit[i] \in Int
      BY <1>1, <1>2, <1>5, <1>6
    <3>2. QED
      BY <2>1, <3>1
  <2> HIDE DEF a, v, p, q
  <2>3. q - p \in -v .. v /\ Gap(q - p) \in Nat /\ Gap(q - p) * d.unit[i] <= a
    BY <1>1, <2>1, <2>2, LocWithin
  <2>4. e[i] = q - p
    BY DEF p, q
  <2>5. QED
    BY <2>3, <2>4 DEF a, v
<1>10. e \in Around(w)
  BY <1>7, <1>8, <1>9 DEF Around
<1>11. b - c = LinId(m.gr, e)
  <2> DEFINE g == d.gr2[1]
  <2>1. b = l[1] + g * l[2] /\ c = k[1] + g * k[2]
    BY <1>7, <1>8 DEF LinId
  <2>2. g \in Nat /\ l[1] \in Int /\ l[2] \in Int /\ k[1] \in Int /\ k[2] \in Int
    BY <1>1, <1>2
  <2> HIDE DEF g
  <2>3. g * (l[2] - k[2]) = g * l[2] - g * k[2] /\ g * l[2] \in Int /\ g * k[2] \in Int
    BY <2>2
  <2>4. b - c = (l[1] - k[1]) + g * (l[2] - k[2])
    BY <2>1, <2>2, <2>3
  <2>5. e[1] = l[1] - k[1] /\ e[2] = l[2] - k[2]
    BY <1>1
  <2>6. QED
    BY <2>4, <2>5 DEF LinId, g
<1>12. CellDistance2(m, e) <= r * r
  <2> DEFINE s == Gap(e[1]) * d.unit[1]
             t == Gap(e[2]) * d.unit[2]
  <2>1. CellDistance2(m, e) = s * s + t * t
    BY DEF CellDistance2, Gap
  <2>2. s \in Nat /\ s <= A[1] /\ t \in Nat /\ t <= A[2]
    BY <1>1, <1>2, <1>9
  <2> HIDE DEF s, t, e
  <2>3. A[1] \in Nat /\ A[2] \in Nat
    BY <1>1, <1>4
  <2>4. s * s <= A[1] * A[1] /\ s * s \in Nat
    BY <2>2, <2>3, SquareMono
  <2>5. t * t <= A[2] * A[2] /\ t * t \in Nat
    BY <2>2, <2>3, SquareMono
  <2>6. A[1] * A[1] \in Nat /\ A[2] * A[2] \in Nat /\ r * r \in Nat
    BY <2>3
  <2>7. QED
    BY <1>4, <2>1, <2>4, <2>5, <2>6
<1> HIDE DEF e
<1>13. m.gr[1] \in Nat /\ 2 * w[1] + 1 <= m.gr[1]
  BY <1>1, <1>2, <1>6
<1>14. Once(NNcRad(m, r), LinId(m.gr, e))
  BY <1>2, <1>10, <1>12, <1>13, NNcRadOnce DEF w
<1>15. QED
  BY <1>11, <1>14

LEMMA RadialComplete ==
  ASSUME WellPosed, Inv, NEW l \in Lists, Usable(l), NEW st, NEW r,
         StencilOf(st, CellGrid(l), r)
  PROVE  Complete(l, st, r)
<1>1. SUFFICES ASSUME NEW p \in Centres(l), NEW f \in Stored(l), InRadius(p[2], f, r)
               PROVE  Visits(Walk(cl[l].cells, p[1], st), f) = 1
  BY DEF Complete
<1> DEFINE R == cl[l]
           d == R.dec
           c == p[1]
           x == p[2]
<1>2. /\ <<d, R.own>> \in Makings /\ R.cells \in [Cells(d) -> Seq(Points)]
      /\ Cells(d) \subseteq Int /\ DOMAIN R.cells = Cells(d)
  BY <1>1, CellsFacts
<1>3. c \in Cells(d) /\ x \in Points /\ PutIn(d, x, c) /\ HeldIn(R.cells, x, c)
  BY <1>1, HeldStored
<1>4. f \in Points
  BY <1>1, HeldStored
<1>5. PICK b \in Cells(d) : HeldIn(R.cells, f, b) /\ PutIn(d, f, b)
  BY <1>1, HeldStored
<1>6. PICK m : /\ r \in Nat /\ st = NNcRad(m, r) /\ m.gr[1] = d.gr2[1] /\ m.unit = d.unit
               /\ \A i \in D : r <= Pad * d.unit[i]
  BY DEF StencilOf, GridOf, CellGrid
<1>7. InRadius(x, f, r)
  BY <1>1
<1> HIDE DEF R, d, c, x
<1>8. /\ \A i \in D : d.unit[i] \in Nat \ {0} /\ d.gr2[i] \in Nat /\ d.gr2[i] >= 2 * Pad + 1
      /\ Pad \in Nat \ {0} /\ 1 \in D
  <2>1. EvenCells /\ 1 \in D
    BY DEF WellPosed, D
  <2>2. QED
    BY <1>2, <2>1, AptFacts
<1>9. Layout(Points, Cells(d), R.cells, st)
  BY <1>2, <1>6, <1>8, NNcRadType DEF Layout
<1>10. Once(st, b - c)
  <2>1. CASE x = f
    <3>1. b = c
      <4>1. Once(R.cells[b], f) /\ Once(R.cells[c], x)
        BY <1>3, <1>5 DEF HeldIn
      <4>2. b # c => Absent(R.cells[c], f)
        BY <1>2, <1>3, <1>5 DEF HeldIn
      <4>3. QED
        BY <2>1, <4>1, <4>2 DEF Once, Absent
    <3>2. b - c = 0
      BY <1>2, <1>3, <3>1
    <3>3. Radius(m, r)[1] \in Nat /\ Radius(m, r)[1] <= Pad
      BY <1>6, <1>8, RadiusOf
    <3>4. m.gr[1] \in Nat /\ 2 * Radius(m, r)[1] + 1 <= m.gr[1]
      BY <1>6, <1>8, <3>3
    <3>5. QED
      BY <1>6, <1>8, <3>2, <3>4, StencilHere
  <2>2. CASE x # f
    BY <1>2, <1>3, <1>4, <1>5, <1>6, <1>7, <2>2, StencilThere
  <2>3. QED
    BY <2>1, <2>2
<1>11. OnlyIn(R.cells, f, b) /\ Once(R.cells[b], f)
  BY <1>5 DEF HeldIn, OnlyIn
<1>12. b \in Int /\ c \in Int
  BY <1>2, <1>3
<1>13. Visits(Walk(R.cells, c, st), f) = 1
  BY <1>9, <1>10, <1>11, <1>12, WalkOnce
<1>14. QED
  BY <1>13 DEF R, c

LEMMA InvRadius == ASSUME WellPosed, Inv PROVE RadiusNeighbours
<1>1. ASSUME NEW l \in Lists, Usable(l)
      PROVE  /\ \A r \in DOMAIN cl[l].rcache :
                  cl[l].cached[r] = CellGrid(l) => Complete(l, cl[l].rcache[r], r)
             /\ cl[l].summed = <<CellGrid(l)>> => Complete(l, cl[l].nnc_rad, cl[l].radius)
  <2>1. Kept(cl[l])
    BY UsableMade
  <2>2. ASSUME NEW r \in DOMAIN cl[l].rcache, cl[l].cached[r] = CellGrid(l)
        PROVE  Complete(l, cl[l].rcache[r], r)
    <3>1. StencilOf(cl[l].rcache[r], CellGrid(l), r)
      BY <2>1, <2>2 DEF Kept, CacheKept
    <3>2. QED
      BY <1>1, <3>1, RadialComplete
  <2>3. ASSUME cl[l].summed = <<CellGrid(l)>>
        PROVE  Complete(l, cl[l].nnc_rad, cl[l].radius)
    <3>1. StencilOf(cl[l].nnc_rad, CellGrid(l), cl[l].radius)
      BY <2>1, <2>3 DEF Kept, SumKept
    <3>2. QED
      BY <1>1, <3>1, RadialComplete
  <2>4. QED
    BY <2>2, <2>3
<1>2. QED
  BY <1>1 DEF RadiusNeighbours

-----------------------------------------------------------------------------
(* The theorems. *)

\* A list in use has a cell of its memory for every cell of its decomposer, and
\* stencils: after any sequence of initializations, additions, removals, copies,
\* exchanges and moves of any number of lists (Initialize, operator=, swap).
THEOREM ListsTyped == WellPosed => (Spec => []TypeOK)
<1> SUFFICES ASSUME WellPosed PROVE Spec => []TypeOK
  OBVIOUS
<1>1. Init => Inv
  BY InitOK
<1>2. Inv /\ [Next]_cl => Inv'
  BY NextOK
<1>3. Inv => TypeOK
  BY InvType
<1>4. QED
  BY <1>1, <1>2, <1>3, PTL DEF Spec

\* What stands in the part of space a list was made for is in its domain cells
\* and not in its padding, whether the list was initialised with a box or with
\* the decomposer of the whole domain (setCellDecomposer, getCell, getCellDom).
THEOREM ListsOwn == WellPosed => (Spec => []OwnInDomainCells)
<1> SUFFICES ASSUME WellPosed PROVE Spec => []OwnInDomainCells
  OBVIOUS
<1>1. Init => Inv
  BY InitOK
<1>2. Inv /\ [Next]_cl => Inv'
  BY NextOK
<1>3. Inv => OwnInDomainCells
  BY InvOwn
<1>4. QED
  BY <1>1, <1>2, <1>3, PTL DEF Spec

\* From the cell of an element, getNNIterator visits every element no more than
\* a cell away, once, whatever was done to the list and to those it was assigned
\* from or exchanged with: NNc_full always counts the rows of its cells.
THEOREM ListsNeighbours == WellPosed => (Spec => []NoNeighbourMissed)
<1> SUFFICES ASSUME WellPosed PROVE Spec => []NoNeighbourMissed
  OBVIOUS
<1>1. Init => Inv
  BY InitOK
<1>2. Inv /\ [Next]_cl => Inv'
  BY NextOK
<1>3. Inv => NoNeighbourMissed
  BY InvNeighbours
<1>4. QED
  BY <1>1, <1>2, <1>3, PTL DEF Spec

\* Of two near elements of the domain exactly one meets the other with
\* getNNIteratorSym, whose half stencil is kept with the cells as the full one.
THEOREM ListsPairs == WellPosed => (Spec => []PairOnce)
<1> SUFFICES ASSUME WellPosed PROVE Spec => []PairOnce
  OBVIOUS
<1>1. Init => Inv
  BY InitOK
<1>2. Inv /\ [Next]_cl => Inv'
  BY NextOK
<1>3. Inv => PairOnce
  BY InvPairs
<1>4. QED
  BY <1>1, <1>2, <1>3, PTL DEF Spec

\* The stencils of radii that a list keeps (rcache of getNNIteratorRadius, and
\* nnc_rad of setRadius where it is one call's) lead to all that is within their
\* radius, once, whenever the cells of the list have the rows and the sides they
\* had when the stencil was made: after any re-initializations, assignments,
\* exchanges and other stencils since, to boxes or to parts of another
\* decomposer.  For other cells the code does not renew a stencil, and none of
\* it is claimed.
THEOREM ListsRadius == WellPosed => (Spec => []RadiusNeighbours)
<1> SUFFICES ASSUME WellPosed PROVE Spec => []RadiusNeighbours
  OBVIOUS
<1>1. Init => Inv
  BY InitOK
<1>2. Inv /\ [Next]_cl => Inv'
  BY NextOK
<1>3. Inv => RadiusNeighbours
  BY InvRadius
<1>4. QED
  BY <1>1, <1>2, <1>3, PTL DEF Spec
=============================================================================
