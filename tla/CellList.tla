------------------------------ MODULE CellList ------------------------------
(***************************************************************************)
(* CellList (NN/CellList/CellList.hpp): a decomposer, the memory of its    *)
(* cells and the stencils that make the two a neighbourhood structure.     *)
(* Every operation keeps the parts separately, and the walks over the near *)
(* cells are right only while they agree: NNc_full and NNc_sym count the   *)
(* rows of the grid the cells are numbered by, rcache and nnc_rad keep the *)
(* stencils of earlier calls.                                              *)
(*                                                                         *)
(* The memory is a vector of vectors: what CellStore promises and Mem_fast,*)
(* Mem_bal and Mem_mw implement.  An element is the point it stands at, so *)
(* two elements of a list are at two points.                               *)
(*                                                                         *)
(* The record of a list also has four fields that are not in the program:  *)
(*   own     the part of space its caller gave it, and                     *)
(*   made    the decomposition its cells were made for,                    *)
(* which move with the decomposer, and                                     *)
(*   cached  the grid each stencil of rcache was made for, and             *)
(*   summed  the grids of the stencils that nnc_rad is put together from,  *)
(* which stay with these.  Only the properties, the bounds and the guards  *)
(* that stand for what a caller may ask read them.                         *)
(*                                                                         *)
(* The definitions under "Fault:" are wrong variants of the one that       *)
(* follows them; no specification uses them.                               *)
(***************************************************************************)
EXTENDS CellDecomposer, FiniteSets

CONSTANTS
    Lists,          \* the cell lists of the program
    Shapes,         \* the [box, div] a list is initialised with
    Outer,          \* [box, div, pad] of the decomposer of the whole domain
    Subs,           \* the parts of its box a list is made for
    Pad,            \* the padding of the lists
    Points,         \* where the elements stand
    Radii,          \* the radii of the walks
    Decs,           \* the numbers of decompositions
    MaxEle,         \* bound: an element is added while all lists hold fewer
    Askers,         \* bound: the lists that are asked for walks within a radius
    MaxKept,        \* bound: the stencils of radii a list keeps
    Coordinates,    \* the ghosts that are added with the addPad of coordinates
    Ghosts          \* points that are ghosts, whatever cell they fall in

ASSUME PadAssumption == Pad \in Nat \ {0} /\ Outer.pad \in Nat
ASSUME GhostsAssumption == Ghosts \union Coordinates \subseteq Points

VARIABLE cl     \* the lists

-----------------------------------------------------------------------------

NoStencil == <<>>

\* The decomposer of a list that was never initialised.
NoBox == [lo |-> <<0, 0>>, hi |-> <<0, 0>>]
NoDec == [box |-> NoBox, off |-> 0, gr |-> <<0, 0>>, gr2 |-> <<0, 0>>,
          shift |-> <<0, 0>>, unit |-> <<1, 1>>]

New == [dec |-> NoDec, own |-> NoBox, made |-> 0, cells |-> <<>>,
        NNc_full |-> NoStencil, NNc_sym |-> NoStencil,
        rcache |-> <<>>, cached |-> <<>>,
        nnc_rad |-> NoStencil, summed |-> <<>>, radius |-> 0,
        from_cd |-> FALSE, n_dec |-> 0]

\* tot_n_cell is not 0.
Usable(l) == cl[l].dec # NoDec

\* The decomposer of the whole domain.
OuterDec == Decomposed(Outer.box, Outer.div, Outer.pad)

\* What the list holds.
Stored(l) == UNION {{cl[l].cells[c][k] : k \in DOMAIN cl[l].cells[c]} : c \in DOMAIN cl[l].cells}

\* The points a caller may add to a list with the decomposer d for the part own
\* of space: those of this part and of its padding.
Reach(d, own, x) ==
    \A i \in D : /\ own.lo[i] - d.off * d.unit[i] <= x[i]
                 /\ x[i] < own.hi[i] + d.off * d.unit[i]

InReach(l, x) == Reach(cl[l].dec, cl[l].own, x)

\* The points of the domain: its positive border is one of its points.
Domain(d, own, x) ==
    \A i \in D : /\ own.lo[i] <= x[i]
                 /\ \/ x[i] < own.hi[i]
                    \/ x[i] = own.hi[i] /\ x[i] = d.box.hi[i]

InDomain(l, x) == Domain(cl[l].dec, cl[l].own, x)

Init == cl = [l \in Lists |-> New]

-----------------------------------------------------------------------------
(* Initialize. *)

\* Fault: the memory of the outer grid.
OuterCells(l, dec) ==
    [cl[l] EXCEPT !.dec = dec,
                  !.cells = [c \in 0 .. dec.gr[1] * dec.gr[2] - 1 |-> <<>>],
                  !.NNc_full = NNcFull(dec.gr2), !.NNc_sym = NNcSym(dec.gr2)]

\* InitializeStructures: empty cells and the stencils of their grid.  The
\* stencils of the radii stay.
InitializeStructures(l, dec) ==
    [cl[l] EXCEPT !.dec = dec, !.cells = [c \in Cells(dec) |-> <<>>],
                  !.NNc_full = NNcFull(dec.gr2), !.NNc_sym = NNcSym(dec.gr2)]

\* Initialize with a box and its divisions.  The caller records the
\* decomposition it made the list for (set_ndec).
Initialize(l, s, n) ==
    cl' = [cl EXCEPT ![l] =
            [InitializeStructures(l, Decomposed(s.box, s.div, Pad))
                EXCEPT !.from_cd = FALSE, !.own = s.box, !.n_dec = n, !.made = n]]

\* Initialize with the decomposer of the domain and a part of it.
InitializeFrom(l, dom, n) ==
    cl' = [cl EXCEPT ![l] =
            [InitializeStructures(l, SetCellDecomposer(OuterDec, dom, Pad))
                EXCEPT !.from_cd = TRUE, !.own = dom, !.n_dec = n, !.made = n]]

-----------------------------------------------------------------------------
(* Elements. *)

AddCell(l, c, x) == cl' = [cl EXCEPT ![l].cells[c] = Append(@, x)]

\* The caller adds a particle once.
NewParticle(l, x) ==
    /\ Usable(l)
    /\ x \notin Stored(l)
    /\ Cardinality(UNION {{m} \X Stored(m) : m \in Lists}) < MaxEle

\* add.
Add(l, x) ==
    /\ NewParticle(l, x)
    /\ InReach(l, x)
    /\ x \notin Ghosts
    /\ AddCell(l, GetCell(cl[l].dec, x), x)

\* addDom.
AddDom(l, x) ==
    /\ NewParticle(l, x)
    /\ InDomain(l, x)
    /\ x \notin Ghosts
    /\ AddCell(l, GetCellDom(cl[l].dec, x), x)

\* addPad of a Point, which calls getCell: ghosts, among them those that
\* rounding brought onto the border of the domain.
AddPad(l, x) ==
    /\ NewParticle(l, x)
    /\ InReach(l, x)
    /\ ~InDomain(l, x) \/ x \in Ghosts
    /\ AddCell(l, GetCell(cl[l].dec, x), x)

\* addPad of coordinates, which calls getCellPad.
AddPadCoordinates(l, x) ==
    /\ NewParticle(l, x)
    /\ InReach(l, x)
    /\ x \in Coordinates
    /\ ~InDomain(l, x) \/ x \in Ghosts
    /\ AddCell(l, GetCellPad(cl[l].dec, x), x)

\* remove: one element leaves its cell.
Remove(l, c) ==
    /\ Usable(l)
    /\ \E k \in DOMAIN cl[l].cells[c] :
         cl' = [cl EXCEPT ![l].cells[c] = Seqs!RemoveAt(@, k)]

\* clear.
Clear(l) ==
    /\ Usable(l)
    /\ cl' = [cl EXCEPT ![l].cells = [c \in DOMAIN @ |-> <<>>]]

-----------------------------------------------------------------------------
(* Copies and exchanges. *)

\* What is assigned or exchanged: all but the stencils of the radii.
From(l, m) ==
    [cl[m] EXCEPT !.rcache = cl[l].rcache, !.cached = cl[l].cached,
                  !.nnc_rad = cl[l].nnc_rad, !.summed = cl[l].summed,
                  !.radius = cl[l].radius]

\* Fault: the stencils stay.
CopyNoStencils(l, m) ==
    /\ Usable(m)
    /\ cl' = [cl EXCEPT ![l] = [From(l, m) EXCEPT !.NNc_full = IF Usable(l) THEN cl[l].NNc_full ELSE @]]

\* operator= of a const list.
Copy(l, m) ==
    /\ Usable(m)
    /\ cl' = [cl EXCEPT ![l] = From(l, m)]

\* Fault: the stencils of both stay.
SwapNoStencils(l, m) ==
    /\ Usable(l) /\ Usable(m)
    /\ cl' = [cl EXCEPT
                ![l] = [From(l, m) EXCEPT !.NNc_sym = cl[l].NNc_sym],
                ![m] = [From(m, l) EXCEPT !.NNc_sym = cl[m].NNc_sym]]

\* swap: n_dec and from_cd are copied from cl and not given to it.
Swap(l, m) ==
    /\ Usable(l) /\ Usable(m)
    /\ cl' = [cl EXCEPT
                ![l] = From(l, m),
                ![m] = IF l = m THEN @
                       ELSE [From(m, l) EXCEPT !.n_dec = cl[m].n_dec,
                                               !.from_cd = cl[m].from_cd]]

\* operator= of a temporary: the stencils are copied, the memory and the
\* decomposer exchanged; the temporary is then destroyed.
Take(l, m) ==
    /\ l # m
    /\ Usable(m)
    /\ cl' = [cl EXCEPT ![l] = From(l, m), ![m] = New]

-----------------------------------------------------------------------------
(* Walks within a radius. *)

\* The grid a stencil is made for: getGrid is gr_cell, of which NNcalc_rad uses
\* the rows, and the sides of the cells.
StencilGrid(l) == [rows |-> cl[l].dec.gr[1], unit |-> cl[l].dec.unit]

\* The grid the cells are numbered by, on which the stencils are used: a list
\* made from a part of another decomposer has rows of its own.
CellGrid(l) == [rows |-> cl[l].dec.gr2[1], unit |-> cl[l].dec.unit]

\* The domain cells have neighbours as far as their padding goes.
Reached(l, r) == \A i \in D : r <= cl[l].dec.off * cl[l].dec.unit[i]

\* The bound leaves the list another stencil.
KeepsMore(l) ==
    l \in Askers /\ Cardinality(DOMAIN cl[l].rcache) + Len(cl[l].summed) < MaxKept

\* setRadius: the stencil is added to nnc_rad, whatever is there.
SetRadius(l, r) ==
    /\ Usable(l)
    /\ Reached(l, r)
    /\ KeepsMore(l)
    /\ cl' = [cl EXCEPT ![l].nnc_rad = @ \o NNcRad(cl[l].dec, r), ![l].radius = r,
                        ![l].summed = Append(@, StencilGrid(l))]

\* The map f with the value v at r.
With(f, r, v) == [q \in DOMAIN f \union {r} |-> IF q = r THEN v ELSE f[q]]

\* getNNIteratorRadius with a radius: the stencil of an earlier call with this
\* radius is used again, whatever the list was given since.
GetNNIteratorRadius(l, r) ==
    /\ Usable(l)
    /\ Reached(l, r)
    /\ \/ r \in DOMAIN cl[l].rcache /\ UNCHANGED cl
       \/ /\ r \notin DOMAIN cl[l].rcache
          /\ KeepsMore(l)
          /\ cl' = [cl EXCEPT
                ![l].rcache = With(@, r, NNcRad(cl[l].dec, r)),
                ![l].cached = With(@, r, StencilGrid(l))]

-----------------------------------------------------------------------------

Next ==
    \E l \in Lists :
        \/ \E n \in Decs :
             \/ \E s \in Shapes : Initialize(l, s, n)
             \/ \E dom \in Subs : InitializeFrom(l, dom, n)
        \/ \E x \in Points : Add(l, x) \/ AddDom(l, x) \/ AddPad(l, x)
                                 \/ AddPadCoordinates(l, x)
        \/ \E c \in DOMAIN cl[l].cells : Remove(l, c)
        \/ Clear(l)
        \/ \E m \in Lists : Copy(l, m) \/ Swap(l, m) \/ Take(l, m)
        \/ \E r \in Radii : SetRadius(l, r) \/ GetNNIteratorRadius(l, r)

Spec == Init /\ [][Next]_cl

-----------------------------------------------------------------------------
(* What a caller has to see to, for the properties to hold for any boxes,   *)
(* points and radii.  The code asks for none of it.                         *)

EvenCells ==
    /\ \A s \in Shapes : Even(s.box, s.div)
    /\ Even(Outer.box, Outer.div) /\ Outer.pad = Pad
    /\ \A dom \in Subs : PartOf(dom, Outer.box)

\* The decomposers a list is made with, and the part of space each is for.
Makings ==
    {<<Decomposed(s.box, s.div, Pad), s.box>> : s \in Shapes}
      \union {<<SetCellDecomposer(OuterDec, dom, Pad), dom>> : dom \in Subs}

\* No point is a whole number of cells before the first one: size_t_floor puts
\* it a cell too low (FloorCell).
PointsOffCells ==
    \A m \in Makings : \A x \in Points : \A i \in D :
        /\ x[i] \in Int
        /\ x[i] < m[1].box.lo[i] => (x[i] - m[1].box.lo[i]) % m[1].unit[i] # 0

\* Lists with more than one cell of padding hold no point of the positive
\* border of their domain: addDom puts it a cell below the one add puts it in,
\* which is two cells below a ghost that is a cell away.
BorderSettled ==
    Pad = 1 \/ \A m \in Makings : \A x \in Points : \A i \in D : x[i] # m[1].box.hi[i]

\* The addPad of coordinates is used where it leaves a ghost in its cell.
CornersStay ==
    \A m \in Makings : \A x \in Coordinates :
        Reach(m[1], m[2], x) /\ (~Domain(m[1], m[2], x) \/ x \in Ghosts)
          => GetCellPad(m[1], x) = GetCell(m[1], x)

WellPosed ==
    /\ EvenCells /\ PointsOffCells /\ BorderSettled /\ CornersStay
    /\ Points \subseteq Int \X Int /\ Radii \subseteq Nat

-----------------------------------------------------------------------------
(* Properties. *)

Stencils == Seq(Int)

ListOK(r) ==
    /\ r.cells \in [Cells(r.dec) -> Seq(Points)]
    /\ r.NNc_full \in Stencils /\ r.NNc_sym \in Stencils /\ r.nnc_rad \in Stencils
    /\ DOMAIN r.rcache \subseteq Radii /\ DOMAIN r.cached = DOMAIN r.rcache
    /\ \A q \in DOMAIN r.rcache : r.rcache[q] \in Stencils
    /\ r.from_cd \in BOOLEAN
    /\ {r.n_dec, r.made} \subseteq Decs
    /\ r.radius \in Radii \union {0}

\* A list in use has a cell of the memory for every cell of its decomposer,
\* after whatever it was initialised, assigned or exchanged with: nothing in
\* the code compares the two.
TypeOK == \A l \in Lists : IF Usable(l) THEN ListOK(cl[l]) ELSE cl[l].cells = <<>>

\* The elements of the cells of the domain, with their cells.
Centres(l) ==
    UNION {{<<c, cl[l].cells[c][k]>> : k \in DOMAIN cl[l].cells[c]} : c \in DomainCells(cl[l].dec)}

\* No two coordinates are more than a cell apart.
Near(l, e, f) == \A i \in D : e[i] - f[i] \in -cl[l].dec.unit[i] .. cl[l].dec.unit[i]

InRadius(e, f, r) ==
    (e[1] - f[1]) * (e[1] - f[1]) + (e[2] - f[2]) * (e[2] - f[2]) <= r * r

\* "the Cell-list maintain the Cells defined by this Cell-decomposer
\* consistently" (CellList.hpp:454-455): what stands in the list's part of space
\* is in its cells and not in their padding, whatever box and decomposer the
\* numbering came from.
OwnInDomainCells ==
    \A l \in Lists : Usable(l) =>
        \A c \in DOMAIN cl[l].cells : \A k \in DOMAIN cl[l].cells[c] :
            (\A i \in D : /\ cl[l].own.lo[i] <= cl[l].cells[c][k][i]
                         /\ cl[l].cells[c][k][i] < cl[l].own.hi[i])
              => c \in DomainCells(cl[l].dec)

\* What a cell list is for: from the cell of an element, getNNIterator visits
\* every element that is not more than a cell away, once.
NoNeighbourMissed ==
    \A l \in Lists : Usable(l) =>
        \A p \in Centres(l) :
            LET walk == Walk(cl[l].cells, p[1], cl[l].NNc_full)
            IN  \A f \in Stored(l) : Near(l, p[2], f) => Visits(walk, f) = 1

\* Of two near elements of the domain exactly one meets the other with
\* getNNIteratorSym, so that a sum over pairs has each pair once.
PairOnce ==
    \A l \in Lists : Usable(l) =>
        \A p, q \in Centres(l) :
            p[2] # q[2] /\ Near(l, p[2], q[2]) =>
                Visits(SymWalk(cl[l].cells, p[1], cl[l].NNc_sym, p[2]), q[2])
                  + Visits(SymWalk(cl[l].cells, q[1], cl[l].NNc_sym, q[2]), p[2]) = 1

\* The stencil visits, from the cell of an element, all that is within r, once.
Complete(l, stencil, r) ==
    \A p \in Centres(l) :
        LET walk == Walk(cl[l].cells, p[1], stencil)
        IN  \A f \in Stored(l) : InRadius(p[2], f, r) => Visits(walk, f) = 1

\* The stencils of radii: a stencil that an earlier call left, of a radius given
\* with the call (rcache) or with setRadius (nnc_rad, where it is alone), leads
\* to all that is within the radius, once, whenever the list has cells of the
\* grid it was made for, whatever other cells and stencils the list was given
\* in between; the code never asks which grid that was.
RadiusNeighbours ==
    \A l \in Lists : Usable(l) =>
        /\ \A r \in DOMAIN cl[l].rcache :
             cl[l].cached[r] = CellGrid(l) => Complete(l, cl[l].rcache[r], r)
        /\ cl[l].summed = <<CellGrid(l)>> => Complete(l, cl[l].nnc_rad, cl[l].radius)

\* "It iterate across all the element of the selected cell and the near cells
\* up to some selected radius" (CellList.hpp:970): the same of every stencil and
\* cells.
EveryRadiusNeighbours ==
    \A l \in Lists : Usable(l) =>
        /\ \A r \in DOMAIN cl[l].rcache : Complete(l, cl[l].rcache[r], r)
        /\ cl[l].nnc_rad # NoStencil => Complete(l, cl[l].nnc_rad, cl[l].radius)

\* "used to understand if the cell-list) has been constructed from an old
\* decomposition" (CellList.hpp:382-383): n_dec is the decomposition the cells
\* of the list were made for.
NdecOfCells == \A l \in Lists : Usable(l) => cl[l].n_dec = cl[l].made

\* "Add an element in the cell list forcing to be in the padding cells"
\* (CellList.hpp:804): a ghost is in a padding cell.
GhostsInPadding ==
    \A l \in Lists : Usable(l) => \A p \in Centres(l) : p[2] \notin Ghosts

=============================================================================
