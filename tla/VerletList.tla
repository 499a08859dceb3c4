----------------------------- MODULE VerletList -----------------------------
(***************************************************************************)
(* VerletList (NN/VerletList/VerletListFast.hpp): for each particle the    *)
(* particles within a radius, found once with a cell list and then read    *)
(* many times.  A list is built from positions that change afterwards,     *)
(* with the cell list inside it (Initialize, InitializeSym, InitializeCrs, *)
(* and update on the cells of an earlier call) or one of the caller's; it  *)
(* is copied, moved and exchanged, and the cell list inside it should come *)
(* along.                                                                  *)
(*                                                                         *)
(* The memory of the lists is a vector of vectors, what CellStore promises *)
(* and Mem_fast implements.  Particles are numbered from 1.  The record of *)
(* a list has a field that is not in the program, made: what the list was  *)
(* last built from.  Only properties and guards read it.                   *)
(*                                                                         *)
(* The definitions under "Fault:" are wrong variants of the one that       *)
(* follows them; no specification uses them.                               *)
(***************************************************************************)
EXTENDS CellDecomposer, FiniteSets

CONSTANTS
    Lists,      \* the Verlet lists of the program
    Boxes,      \* the parts of space they are built for
    Domain,     \* the whole of space
    GhostWidth, \* how far beyond its part a processor has ghosts
    Scenes,     \* what the particles may be: [pos, g_m], own ones then ghosts
    Radii,      \* the cut-off radii
    External,   \* [box, div, pad, r] of the cell lists of the caller and the radius
    OfAnother   \* a list whose cell list is not its own may be updated

VARIABLE vl     \* the lists

-----------------------------------------------------------------------------
(* The parameters of the cell lists. *)

Sides(b) == [i \in D |-> b.hi[i] - b.lo[i]]

\* cl_param_calculate: cells of the size of the radius, one more than go into
\* the box, which grows.
ParamCalculate(b, r) ==
    LET div == [i \in D |-> Sides(b)[i] \div r + 1]
    IN  Decomposed([lo |-> b.lo, hi |-> [i \in D |-> b.lo[i] + div[i] * r]], div, 1)

\* cl_param_calculateSym: cells that fill the domain and are not smaller than
\* the radius, and the padding the ghosts need.
ParamCalculateSym(r) ==
    Decomposed(Domain, [i \in D |-> Sides(Domain)[i] \div r], CeilCell(GhostWidth * 1013, r * 1000))

-----------------------------------------------------------------------------
(* The cell list inside. *)

\* The cell populate_cell_list puts a particle in, with the option initCl makes
\* of the Verlet list's.
CellOf(dec, s, opt, i) ==
    IF opt # "full" /\ i <= s.g_m THEN GetCellDom(dec, s.pos[i]) ELSE GetCell(dec, s.pos[i])

\* populate_cell_list.
PopulateCellList(dec, s, opt) ==
    LET at == [i \in DOMAIN s.pos |-> CellOf(dec, s, opt, i)]
    IN  [c \in Cells(dec) |->
            Chosen([i \in DOMAIN s.pos |-> i], {i \in DOMAIN s.pos : at[i] = c})]

CellListOf(dec, own, s, opt) == [dec |-> dec, own |-> own, cells |-> PopulateCellList(dec, s, opt)]

\* The cell list of a list that was never initialised.
NoBox == [lo |-> <<0, 0>>, hi |-> <<0, 0>>]
NoDec == [box |-> NoBox, off |-> 0, gr |-> <<0, 0>>, gr2 |-> <<0, 0>>,
          shift |-> <<0, 0>>, unit |-> <<1, 1>>]
NoCells == [dec |-> NoDec, own |-> NoBox, cells |-> <<>>]

\* Fault: only the last coordinate is compared.
StandsAfterInHeight(pos, p, q) == pos[p][2] <= pos[q][2]

\* CellNNIteratorSym: of a cell the elements that come after p, or are p.
StandsAfter(pos, p, q) ==
    IF pos[p] = pos[q] THEN q >= p ELSE NotBefore(pos[q], pos[p])

\* The near elements of p in a symmetric list, from the cell c.
SymNear(cells, c, pos, p, stencil) ==
    LET own == IF c \in DOMAIN cells
               THEN [cells EXCEPT ![c] =
                        Chosen(@, {q \in Seqs!ToSet(@) : StandsAfter(pos, p, q)})]
               ELSE cells
    IN  Walk(own, c, stencil)

-----------------------------------------------------------------------------
(* create. *)

Distance2(x, y) == (x[1] - y[1]) * (x[1] - y[1]) + (x[2] - y[2]) * (x[2] - y[2])

\* The elements of a walk around x that are kept.
WithinCut(walk, x, pos, r) == Chosen(walk, {q \in DOMAIN pos : Distance2(x, pos[q]) < r * r})

\* ParticleItCRS_Cells: the particles of the cells of dom and then of anom, with
\* the cell each is met in.
CrsParticles(cells, order) ==
    Seqs!FlattenSeq([n \in DOMAIN order |->
        [k \in DOMAIN cells[order[n]] |-> <<order[n], cells[order[n]][k]>>]])

CrsSequence(cells, order) ==
    LET seq == CrsParticles(cells, order) IN [n \in DOMAIN seq |-> seq[n][2]]

\* PartItNN: how many particles get a list.
End(kind, s) == IF kind = "crs" THEN Len(s.pos) ELSE s.g_m

\* create_ for the particles of s, their neighbours among s2.
Created(cl, s, s2, r, kind) ==
    LET full == NNcFull(cl.dec.gr2)
        sym == NNcSym(cl.dec.gr2)
        Near(p) ==
            LET c == GetCell(cl.dec, s.pos[p])
            IN  CASE kind = "full" -> Walk(cl.cells, c, full)
                  [] kind = "radius" -> Walk(cl.cells, c, NNcRad(cl.dec, r))
                  [] kind = "sym" -> SymNear(cl.cells, c, s.pos, p, sym)
    IN  [p \in 1 .. End(kind, s) |-> WithinCut(Near(p), s.pos[p], s2.pos, r)]

\* create_ with the CRS scheme: the stencil starts from the cell of the iterator.
CreatedCrs(cl, s, r, order) ==
    LET seq == CrsParticles(cl.cells, order)
        sym == NNcSym(cl.dec.gr2)
        Of(p) == {n \in DOMAIN seq : seq[n][2] = p}
        Near(n) == SymNear(cl.cells, seq[n][1], s.pos, seq[n][2], sym)
    IN  [p \in 1 .. End("crs", s) |->
            Seqs!FlattenSeq([n \in 1 .. Len(seq) |->
                IF n \in Of(p) THEN WithinCut(Near(n), s.pos[p], s.pos, r) ELSE <<>>])]

Made(kind, s, s2, r, cl) ==
    [kind |-> kind, s |-> s, s2 |-> s2, r |-> r, dec |-> cl.dec, own |-> cl.own]

NotMade == Made("none", [pos |-> <<>>, g_m |-> 0], [pos |-> <<>>, g_m |-> 0], 0, NoCells)

New == [ver |-> <<>>, dp |-> <<>>, cli |-> NoCells, made |-> NotMade]

VerletInit == vl = [l \in Lists |-> New]

\* A list built on the cell list cl, which it keeps if it is its own.
Build(l, cl, cli, s, s2, r, kind) ==
    vl' = [vl EXCEPT ![l] =
        [ver |-> Created(cl, s, s2, r, kind), dp |-> <<>>, cli |-> cli,
         made |-> Made(kind, s, s2, r, cl)]]

-----------------------------------------------------------------------------
(* What a caller may pass. *)

InBox(b, x) == \A i \in D : b.lo[i] <= x[i] /\ x[i] < b.hi[i]

\* Its particles are in its part of space, the ghosts around it.
Belongs(b, s) ==
    /\ \A p \in DOMAIN s.pos : p <= s.g_m <=> InBox(b, s.pos[p])
    /\ \A p \in DOMAIN s.pos : \A i \in D :
          b.lo[i] - GhostWidth <= s.pos[p][i] /\ s.pos[p][i] < b.hi[i] + GhostWidth

\* The cells and their padding reach as far.
Reaches(dec, b, s) ==
    \A p \in DOMAIN s.pos : \A i \in D :
        /\ b.lo[i] - dec.off * dec.unit[i] <= s.pos[p][i]
        /\ s.pos[p][i] < b.hi[i] + dec.off * dec.unit[i]

\* Bound: the first list.
First(l) == \A m \in Lists \ {l} : vl[m] = New

\* Bound: a list is built or cleared while the others are new or like it.
Alone(l) == \A m \in Lists : vl[m] \in {New, vl[l]}

\* A list that is updated on the cells it was made with.
OwnCells(l) == OfAnother \/ vl[l].cli.dec = vl[l].made.dec

-----------------------------------------------------------------------------
(* Building. *)

\* Initialize with the part of space and an option.
Initialize(l, b, r, s, kind) ==
    LET dec == ParamCalculate(b, r)
        cl == CellListOf(dec, b, s, kind)
    IN  /\ Alone(l)
        /\ Belongs(b, s) /\ Reaches(dec, b, s)
        /\ Build(l, cl, cl, s, s, r, kind)

\* The symmetric cell list over a part of the domain.
SymDec(b, r) == SetCellDecomposer(ParamCalculateSym(r), b, ParamCalculateSym(r).off)
SymCells(b, r, s) == CellListOf(SymDec(b, r), b, s, "sym")

InitializeSym(l, b, r, s) ==
    /\ First(l)
    /\ Belongs(b, s)
    /\ Build(l, SymCells(b, r, s), SymCells(b, r, s), s, s, r, "sym")

\* InitializeCrs makes the cells and no list; the one there was, if it is
\* not a CRS list, is cleared first (bound).
InitializeCrs(l, b, r, s) ==
    /\ First(l)
    /\ vl[l].made.kind \in {"none", "crs"}
    /\ Belongs(b, s)
    /\ vl' = [vl EXCEPT ![l].cli = SymCells(b, r, s)]

\* create with VL_CRS_SYMMETRIC, which also notes the particles in their order.
BuiltCrs(cl, s, r, order) ==
    [ver |-> CreatedCrs(cl, s, r, order), dp |-> CrsSequence(cl.cells, order),
     cli |-> cl, made |-> Made("crs", s, s, r, cl)]

\* Fault: the sequence of the particles is added to the one before.
CreateCrsOnTop(l, r, s, order) ==
    LET built == BuiltCrs(vl[l].cli, s, r, order)
    IN  vl' = [vl EXCEPT ![l] = [built EXCEPT !.dp = vl[l].dp \o @]]

CreateCrs(l, r, s, order) == vl' = [vl EXCEPT ![l] = BuiltCrs(vl[l].cli, s, r, order)]

\* The domain cells with the usual neighbours, then those the caller treats
\* apart: here the ones from place n on.
CrsOrder(dec, n) ==
    LET all == Chosen([k \in 1 .. dec.gr2[1] * dec.gr2[2] |-> k - 1], DomainCells(dec))
    IN  SubSeq(all, n, Len(all)) \o SubSeq(all, 1, n - 1)

\* createVerletCrs, on the cells as they are: the positions are those of
\* InitializeCrs or of the build before.
CreateVerletCrs(l, r, s, n) ==
    /\ First(l)
    /\ vl[l].cli # NoCells
    /\ Belongs(vl[l].cli.own, s)
    /\ vl[l].cli = SymCells(vl[l].cli.own, r, s)
    /\ n \in 1 .. Cardinality(DomainCells(vl[l].cli.dec))
    /\ CreateCrs(l, r, s, CrsOrder(vl[l].cli.dec, n))

\* An update: the caller's particles are still those of the part of space the
\* list was made for, the radius is not greater than its cells.
MayUpdate(l, r, s) ==
    /\ Alone(l)
    /\ vl[l].cli # NoCells /\ vl[l].made # NotMade
    /\ OwnCells(l)
    /\ \A i \in D : r <= vl[l].made.dec.unit[i]
    /\ Belongs(vl[l].made.own, s) /\ Reaches(vl[l].made.dec, vl[l].made.own, s)

\* Fault: the cells are not filled anew.
UpdateStale(l, r, s, kind) ==
    /\ MayUpdate(l, r, s)
    /\ Build(l, vl[l].cli, vl[l].cli, s, s, r, kind)

Update(l, r, s, kind) ==
    LET cl == CellListOf(vl[l].cli.dec, vl[l].made.own, s, kind)
    IN  /\ MayUpdate(l, r, s)
        /\ Build(l, cl, cl, s, s, r, kind)

UpdateCrs(l, r, s, n) ==
    LET cl == CellListOf(vl[l].cli.dec, vl[l].made.own, s, "sym")
    IN  /\ MayUpdate(l, r, s)
        /\ vl[l].made.kind = "crs"
        /\ n \in 1 .. Cardinality(DomainCells(cl.dec))
        /\ vl' = [vl EXCEPT ![l] = BuiltCrs(cl, s, r, CrsOrder(cl.dec, n))]

\* Initialize with a cell list of the caller, filled with the particles s2 that
\* are looked for; the cell list inside is not touched.
InitializeExternal(l, e, s, s2) ==
    LET cl == CellListOf(Decomposed(e.box, e.div, e.pad), e.box, s2, "full")
        wr == \A i \in D : e.r <= cl.dec.unit[i]
    IN  /\ First(l)
        /\ Belongs(e.box, s) /\ Belongs(e.box, s2)
        /\ Reaches(cl.dec, e.box, s) /\ Reaches(cl.dec, e.box, s2)
        /\ Build(l, cl, vl[l].cli, s, s2, e.r, IF wr THEN "full" ELSE "radius")

-----------------------------------------------------------------------------
(* Copies and exchanges. *)

\* operator= of a const list.
Copy(l, m) == vl' = [vl EXCEPT ![l] = vl[m]]

\* operator= of a temporary: the memory is copied, the sequence exchanged, the
\* cell list stays; the temporary is then destroyed.
Take(l, m) ==
    /\ l # m
    /\ vl' = [vl EXCEPT ![l] = [vl[m] EXCEPT !.cli = vl[l].cli], ![m] = New]

Swap(l, m) == vl' = [vl EXCEPT ![l] = vl[m], ![m] = vl[l]]

\* clear empties the lists.
Clear(l) ==
    /\ Alone(l)
    /\ vl[l].made # NotMade
    /\ vl' = [vl EXCEPT ![l].ver = [p \in DOMAIN @ |-> <<>>], ![l].made = NotMade]

-----------------------------------------------------------------------------

VerletNext ==
    \E l \in Lists :
        \/ \E r \in Radii, s \in Scenes :
             \/ \E b \in Boxes : \/ \E kind \in {"full", "sym"} : Initialize(l, b, r, s, kind)
                                 \/ InitializeSym(l, b, r, s)
                                 \/ InitializeCrs(l, b, r, s)
             \/ CreateVerletCrs(l, r, s, 2) \/ UpdateCrs(l, r, s, 2)
             \/ \E kind \in {"full", "sym"} : Update(l, r, s, kind)
        \/ \E e \in External, s, s2 \in Scenes : InitializeExternal(l, e, s, s2)
        \/ \E m \in Lists : Copy(l, m) \/ Take(l, m) \/ Swap(l, m)
        \/ Clear(l)

VerletSpec == VerletInit /\ [][VerletNext]_vl

-----------------------------------------------------------------------------
(* What a caller has to see to, for the properties to hold for any boxes,   *)
(* particles and radii.  The code asks for none of it.                      *)

\* The particles of a scene, the processor's own first.
ScenesOK ==
    \A s \in Scenes : s.pos \in Seq(Int \X Int) /\ s.g_m \in 0 .. Len(s.pos)

\* The cells divide the domain, and the boxes of the caller's lists, evenly, and
\* the padding of these is as deep as the radius.
GridsOK ==
    /\ \A r \in Radii : Even(Domain, [i \in D |-> Sides(Domain)[i] \div r])
    /\ \A e \in External :
         /\ e.box \in Boxes /\ Even(e.box, e.div)
         /\ e.pad \in Nat \ {0} /\ e.r \in Nat \ {0}
         /\ \A i \in D : e.r <= e.pad * (Sides(e.box)[i] \div e.div[i])

\* There are ghosts: without them a symmetric list has no padding, and its walks
\* leave the cells.
VerletWellPosed ==
    /\ GhostWidth \in Nat \ {0} /\ Radii \subseteq Nat \ {0}
    /\ \A b \in Boxes : PartOf(b, Domain)
    /\ ScenesOK /\ GridsOK

\* The parts of space end where cells of the domain do: no cell has particles of
\* two processors.
PartsOnCells ==
    \A b \in Boxes, r \in Radii : \A i \in D :
        LET u == ParamCalculateSym(r).unit[i]
        IN  (b.lo[i] - Domain.lo[i]) % u = 0 /\ (b.hi[i] - Domain.lo[i]) % u = 0

-----------------------------------------------------------------------------
(* Properties. *)

Built(l, kinds) == vl[l].made.kind \in kinds

\* A list has a neighbour list for each particle it was built for and names
\* particles that are there.
VerletTypeOK ==
    \A l \in Lists :
        LET m == vl[l].made IN
        /\ m.kind \in {"none", "full", "radius", "sym", "crs"}
        /\ m.kind # "none" =>
              DOMAIN vl[l].ver = 1 .. (IF m.kind = "crs" THEN Len(m.s.pos) ELSE m.s.g_m)
        /\ m.kind # "none" => \A p \in DOMAIN vl[l].ver : vl[l].ver[p] \in Seq(DOMAIN m.s2.pos)
        /\ vl[l].dp \in Seq(Nat)

\* What a Verlet list is for (VerletList_test.hpp compares it with the
\* distances): the list of a particle names the particles within the radius,
\* each once and no others, also when it was rebuilt on the cells of an earlier
\* call, came from another list or from a cell list smaller than the radius.
NeighboursExact ==
    /\ VerletTypeOK
    /\ \A l \in Lists : Built(l, {"full", "radius"}) =>
        \A p \in 1 .. vl[l].made.s.g_m : \A q \in DOMAIN vl[l].made.s2.pos :
            Visits(vl[l].ver[p], q) =
                IF Distance2(vl[l].made.s.pos[p], vl[l].made.s2.pos[q]) < vl[l].made.r * vl[l].made.r
                THEN 1 ELSE 0

\* A symmetric list has each pair of the domain in one of the two lists and a
\* pair with a ghost at most once, and no pair that is further apart.
PairsOnce ==
    \A l \in Lists : Built(l, {"sym", "crs"}) =>
        LET m == vl[l].made IN
        \A p \in 1 .. m.s.g_m, q \in DOMAIN m.s.pos :
            LET near == Distance2(m.s.pos[p], m.s.pos[q]) < m.r * m.r
                met == Visits(vl[l].ver[p], q)
            IN  IF p = q THEN met = 1
                ELSE IF ~near THEN met = 0
                ELSE IF q > m.s.g_m THEN met <= 1
                ELSE met + Visits(vl[l].ver[q], p) = 1

\* The sequence of a CRS list names each particle of the domain once, so that a
\* loop over it is a loop over the domain ("Return the domain particle
\* sequence", VerletListFast.hpp:947).
DomainSequence ==
    \A l \in Lists : Built(l, {"crs"}) =>
        /\ Len(vl[l].dp) = vl[l].made.s.g_m
        /\ \A p \in 1 .. vl[l].made.s.g_m : Visits(vl[l].dp, p) = 1

=============================================================================
