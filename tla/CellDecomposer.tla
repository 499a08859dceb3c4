--------------------------- MODULE CellDecomposer ---------------------------
(***************************************************************************)
(* CellDecomposer_sm (NN/CellList/CellDecomposer.hpp) and the stencils of  *)
(* neighbour cells (NNc_array.hpp, NNcalc_rad of CellList.hpp): how a      *)
(* point becomes the number of a cell and which numbers are near it.       *)
(*                                                                         *)
(* Space has two dimensions and integer coordinates: the code's divisions  *)
(* are exact, and its only rounding is the one of size_t_floor.  A         *)
(* decomposer is a record:                                                 *)
(*   box    the domain (box.P1 is also the shift of the transformation)    *)
(*   unit   box_unit: the sides of a cell                                  *)
(*   off    the padding cells on every side                                *)
(*   gr     gr_cell: the cells of the domain and its padding               *)
(*   gr2    gr_cell2: the cells of this list and its padding, whose rows   *)
(*          the cell numbers count                                         *)
(*   shift  cell_shift: the cell of gr the first cell of gr2 is            *)
(*                                                                         *)
(* The definitions under "Fault:" are wrong variants of the one that       *)
(* follows them; no specification uses them.                               *)
(***************************************************************************)
EXTENDS Integers, Sequences, FiniteSets

Seqs == INSTANCE SequencesExt

\* The dimensions.
D == 1 .. 2

\* The elements of s that are in T, in their order.  (SelectSeq, with a set for
\* the test: proofs cannot instantiate an operator.)
Chosen(s, T) ==
    LET chosen[i \in 0 .. Len(s)] ==
          IF i = 0 THEN <<>>
          ELSE IF s[i] \in T THEN Append(chosen[i - 1], s[i]) ELSE chosen[i - 1]
    IN  chosen[Len(s)]

-----------------------------------------------------------------------------
(* Arithmetic. *)

\* size_t_floor of x / u.  The truncated quotient is held in a size_t, so a
\* negative one compares as a huge number, greater than x: an exact negative
\* quotient is decremented too.
FloorCell(x, u) ==
    IF x < 0 /\ x % u = 0 THEN x \div u - 1 ELSE x \div u

\* std::ceil of x / u.
CeilCell(x, u) == -((-x) \div u)

\* The number of the cell with coordinates k in a grid with sides g: the first
\* coordinate runs fastest.
LinId(g, k) == k[1] + g[1] * k[2]

\* The coordinates of the cell number n.
CellKey(g, n) == <<n % g[1], n \div g[1]>>

-----------------------------------------------------------------------------
(* Construction. *)

\* Initialize: div cells across the box, pad more on each side.
Decomposed(box, div, pad) ==
    LET gr == [i \in D |-> div[i] + 2 * pad]
    IN  [box |-> box, off |-> pad, gr |-> gr, gr2 |-> gr, shift |-> <<0, 0>>,
         unit |-> [i \in D |-> (box.hi[i] - box.lo[i]) \div div[i]]]

\* setDimensions with div2 and cell_shift: the cells of the box, of which this
\* decomposer numbers div2 from the cell first on, and their padding.
Nested(box, div, div2, pad, first) ==
    [Decomposed(box, div, pad) EXCEPT
        !.gr2 = [i \in D |-> div2[i] + 2 * pad],
        !.shift = [i \in D |-> first[i] - pad]]

\* convertDomainSpaceIntoCellUnits, not periodic: the cells a box of the domain
\* touches, from lo to before hi.  A side on a border of the domain is a border
\* of the cells without any arithmetic.
CellUnits(d, b) ==
    [lo |-> [i \in D |->
        CASE b.lo[i] = d.box.lo[i] -> d.off
          [] b.lo[i] = d.box.hi[i] -> d.gr[i] - d.off
          [] OTHER -> ((b.lo[i] - d.box.lo[i]) \div d.unit[i]) + d.off],
     hi |-> [i \in D |->
        CASE b.hi[i] = d.box.lo[i] -> d.off
          [] b.hi[i] = d.box.hi[i] -> d.gr[i] - d.off
          [] OTHER -> CeilCell(b.hi[i] - d.box.lo[i], d.unit[i]) + d.off]]

\* Fault: the first cell is the one of the decomposer, without its padding.
SetCellDecomposerUnpadded(cd, dom, pad) ==
    LET bx == CellUnits(cd, dom)
    IN  Nested(cd.box, [i \in D |-> cd.gr[i] - 2 * cd.off],
               [i \in D |-> bx.hi[i] - bx.lo[i]], pad, [i \in D |-> bx.lo[i] - cd.off])

\* setCellDecomposer: the cells of cd that a sub-domain touches, numbered on
\* their own.
SetCellDecomposer(cd, dom, pad) ==
    LET bx == CellUnits(cd, dom)
    IN  Nested(cd.box, [i \in D |-> cd.gr[i] - 2 * cd.off],
               [i \in D |-> bx.hi[i] - bx.lo[i]], pad, bx.lo)

-----------------------------------------------------------------------------
(* What a caller has to see to, for the properties of the lists to hold for *)
(* any boxes.  The code does not ask for it.                                *)

\* The cells divide the sides of a box evenly.  (The code's cells always do: its
\* coordinates are floating point numbers, and those of a point integers.)
Even(box, div) ==
    \A i \in D : /\ box.lo[i] \in Int /\ box.hi[i] \in Int /\ box.lo[i] < box.hi[i]
                 /\ div[i] \in Nat \ {0} /\ (box.hi[i] - box.lo[i]) % div[i] = 0

\* dom is a part of the box.
PartOf(dom, box) ==
    \A i \in D : /\ dom.lo[i] \in Int /\ dom.hi[i] \in Int /\ dom.lo[i] < dom.hi[i]
                 /\ box.lo[i] <= dom.lo[i] /\ dom.hi[i] <= box.hi[i]

-----------------------------------------------------------------------------
(* From a point to a cell. *)

\* ConvertToID_ns.  The number is unsigned: before the first cell it is huge,
\* and ends, like one past the last cell, in the last cell.
ConvertToIDNs(d, x, i) ==
    LET id == FloorCell(x[i] - d.box.lo[i], d.unit[i]) + d.off
    IN  IF id \in 0 .. d.gr[i] - 1 THEN id ELSE d.gr[i] - 1

\* ConvertToID: in the numbering of this list.
ConvertToID(d, x, i) == ConvertToIDNs(d, x, i) - d.shift[i]

\* getCell.
GetCell(d, x) == LinId(d.gr2, [i \in D |-> ConvertToID(d, x, i)])

\* getCellDom: in each dimension the padding cell next to the domain is
\* replaced by the cell of the domain next to it.
GetCellDom(d, x) ==
    LET Dom(i) == LET id == ConvertToIDNs(d, x, i)
                  IN  CASE id = d.gr[i] - d.off -> d.gr[i] - d.off - 1
                        [] id = d.off - 1 -> d.off
                        [] OTHER -> id
    IN  LinId(d.gr2, [i \in D |-> Dom(i) - d.shift[i]])

\* getCellPad: in each dimension the first and the last cell of the domain are
\* replaced by the padding cell next to them.
GetCellPad(d, x) ==
    LET Moved(id) == IF id = d.off THEN d.off - 1 ELSE id
        Padding(i) == LET id == Moved(ConvertToIDNs(d, x, i))
                      IN  IF id = d.gr[i] - d.off - 1 THEN d.gr[i] - d.off ELSE id
    IN  LinId(d.gr2, [i \in D |-> Padding(i) - d.shift[i]])

\* The cells of a list, and those that are not padding.
Cells(d) == 0 .. d.gr2[1] * d.gr2[2] - 1

DomainCells(d) ==
    {LinId(d.gr2, <<a, b>>) : a \in d.off .. d.gr2[1] - d.off - 1,
                              b \in d.off .. d.gr2[2] - d.off - 1}

-----------------------------------------------------------------------------
(* Stencils: what is added to the number of a cell to get a near one. *)

\* NNc_array::init_full: the 3 x 3 cells around a cell of a grid with sides g.
NNcFull(g) ==
    [n \in 1 .. 9 |-> LinId(g, CellKey(<<3, 3>>, n - 1)) - LinId(g, <<1, 1>>)]

\* NNc_array::init_sym: of them, the cell itself and the ones after it.
NNcSym(g) == Chosen(NNcFull(g), Nat)

\* The distance between two cells k apart, squared, and the one of points.
CellDistance2(d, k) ==
    LET Apart(i) == (IF k[i] = 0 THEN 0 ELSE (IF k[i] < 0 THEN -k[i] ELSE k[i]) - 1)
                      * d.unit[i]
    IN  Apart(1) * Apart(1) + Apart(2) * Apart(2)

\* The cells of a box of cells around a cell that may hold a point within r of
\* one of its points; w cells on each side.
Within(d, r, w) ==
    LET n == [i \in D |-> 2 * w[i] + 1]
        keys == [j \in 1 .. n[1] * n[2] |->
                    [i \in D |-> CellKey(n, j - 1)[i] - w[i]]]
    IN  Chosen(keys, {k \in Seqs!ToSet(keys) : CellDistance2(d, k) <= r * r})

\* Fault: the box is a cell short on each side.
NNcRadShort(d, r) ==
    LET near == Within(d, r, [i \in D |-> CeilCell(r, d.unit[i]) - 1])
    IN  [j \in DOMAIN near |-> LinId(d.gr, near[j])]

\* NNcalc_rad, with the grid its callers pass it: getGrid(), which is gr_cell.
NNcRad(d, r) ==
    LET near == Within(d, r, [i \in D |-> CeilCell(r, d.unit[i])])
    IN  [j \in DOMAIN near |-> LinId(d.gr, near[j])]

-----------------------------------------------------------------------------
(* Walks over the elements of cells. *)

\* CellNNIterator and CellNNIteratorRadius from a cell: the elements of the
\* cells of the stencil, one cell after the other; empty cells are skipped.
\* A cell outside the list reads as empty, the mildest outcome of a read out
\* of bounds.
Walk(cells, c, stencil) ==
    LET At(o) == IF c + o \in DOMAIN cells THEN cells[c + o] ELSE <<>>
    IN  Seqs!FlattenSeq([j \in DOMAIN stencil |-> At(stencil[j])])

\* The order of two elements of a cell: the last coordinate decides first, and
\* an element is after itself.
NotBefore(f, e) == e[2] < f[2] \/ (e[2] = f[2] /\ e[1] <= f[1])

\* CellNNIteratorSym from the element e of a cell: of its own cell only the
\* elements not before e.
SymWalk(cells, c, stencil, e) ==
    LET Own == [cells EXCEPT ![c] = Chosen(@, {f \in Seqs!ToSet(@) : NotBefore(f, e)})]
    IN  Walk(Own, c, stencil)

\* How often a walk visits e.
Visits(walk, e) == Cardinality({n \in DOMAIN walk : walk[n] = e})

=============================================================================
