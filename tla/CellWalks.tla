----------------------------- MODULE CellWalks ------------------------------
(***************************************************************************)
(* Lists of several sets of particles, and the loops over the particles of *)
(* a list.  CellListM (CellListM.hpp) stores the number of a particle and  *)
(* the number of its set in one word; CellNNIteratorM and CellNNIterator-  *)
(* SymM (CellNNIteratorM.hpp, CellNNIteratorRuntimeM.hpp) walk over the    *)
(* near elements and VerletListM (VerletListM.hpp) keeps them, a list for  *)
(* each set, so that a pair of two sets is in one of two lists.  The       *)
(* particles themselves are met cell by cell: ParticleIt_Cells,            *)
(* ParticleItCRS_Cells and ParticleIt_CellP (CellListIterator.hpp).        *)
(*                                                                         *)
(* The memory of the cells is a vector of vectors, what CellStore promises.*)
(* Sets and particles are numbered from 0, as in the words.                *)
(*                                                                         *)
(* The definitions under "Fault:" are wrong variants of the one that       *)
(* follows them; no specification uses them.                               *)
(***************************************************************************)
EXTENDS CellDecomposer, FiniteSets

CONSTANTS
    CellLists,  \* the cell lists of the program
    LowWords,   \* 2^(64 - sh_byte): how many numbers the low bits of a word hold
    HighWords,  \* 2^sh_byte: how many the high ones do, for the set
    Box, Div,   \* what the lists are initialised with
    Populations,\* [pos, g_m]: where the particles of each set are, own ones first
    CutOff,     \* the cut-off radius, which is not greater than a cell
    Curve,      \* the domain cells in the order of the space-filling curve
    AnyFirst,   \* ParticleIt_Cells may start at a ghost
    Crowded     \* the CRS walk is used where cells hold several elements

ASSUME WordAssumption == LowWords \in Nat \ {0} /\ HighWords \in Nat \ {0}

VARIABLES
    people,     \* what the particles are
    lists,      \* the lists: their cells, and their sets, the ones added
    verlet,     \* per set of particles a Verlet list
    loop        \* the loop over particles under way

walks_vars == <<people, lists, verlet, loop>>

-----------------------------------------------------------------------------
(* Words.  A mask of low bits is a remainder, a shift a product or quotient. *)

\* Fault: the shift of another width.
PackedShort(p, v) == p + ((v * (LowWords \div 2)) % (LowWords * HighWords))

\* add: ele | (v_id << (64 - sh_byte)).  The two have no bit in common while the
\* number of the particle is less than LowWords (SetsFit).
Packed(p, v) == p + ((v * LowWords) % (LowWords * HighWords))

GetP(e) == e % LowWords
GetV(e) == e \div LowWords

-----------------------------------------------------------------------------

WalkDec == Decomposed(Box, Div, 1)
Sets(s) == DOMAIN s.pos
PlaceOf(s, e) == s.pos[GetV(e)][GetP(e)]

Empty == [c \in Cells(WalkDec) |-> <<>>]
NewList == [cells |-> Empty, sets |-> {}]
NoVerlet == [kind |-> "none", from |-> {}, ver |-> <<>>]
NoLoop == [kind |-> "none", l |-> NewList, order |-> <<>>, at |-> <<0, 0>>, seen |-> <<>>, met |-> <<>>]

WalksInit ==
    /\ people \in Populations
    /\ lists = [l \in CellLists |-> NewList]
    /\ verlet = [v \in Sets(people) |-> NoVerlet]
    /\ loop = NoLoop

\* The caller adds the particles of a set, one after the other.
AddSet(l, v) ==
    LET all == [n \in 1 .. Cardinality(DOMAIN people.pos[v]) |-> n - 1]
        Here(c) == Chosen(all, {p \in DOMAIN people.pos[v] : GetCell(WalkDec, people.pos[v][p]) = c})
    IN  /\ loop = NoLoop
        /\ v \notin lists[l].sets
        /\ lists' = [lists EXCEPT ![l] =
             [cells |-> [c \in Cells(WalkDec) |->
                            @.cells[c] \o [k \in DOMAIN Here(c) |-> Packed(Here(c)[k], v)]],
              sets |-> @.sets \union {v}]]
        /\ UNCHANGED <<people, verlet, loop>>

\* clear.
ClearList(l) ==
    /\ loop = NoLoop
    /\ lists' = [lists EXCEPT ![l] = NewList]
    /\ UNCHANGED <<people, verlet, loop>>

\* operator= of a const list.
CopyList(l, m) ==
    /\ loop = NoLoop
    /\ lists' = [lists EXCEPT ![l] = lists[m]]
    /\ UNCHANGED <<people, verlet, loop>>

\* operator= of a temporary: the base lists are exchanged.
TakeList(l, m) ==
    /\ loop = NoLoop
    /\ lists' = [lists EXCEPT ![l] = lists[m], ![m] = lists[l]]
    /\ UNCHANGED <<people, verlet, loop>>

-----------------------------------------------------------------------------
(* VerletListM. *)

\* Fault: the sets are looked at before the positions.
MeetsOtherSet(s, p, q) ==
    GetV(q) # GetV(p) \/ (IF PlaceOf(s, p) = PlaceOf(s, q) THEN GetP(q) >= GetP(p)
                           ELSE NotBefore(PlaceOf(s, q), PlaceOf(s, p)))

\* CellNNIteratorSymM: whether p meets q in its own cell.  Elements of two sets at
\* one place meet each other.
MeetsInCell(s, p, q) ==
    IF PlaceOf(s, p) = PlaceOf(s, q) THEN GetV(q) # GetV(p) \/ GetP(q) >= GetP(p)
    ELSE NotBefore(PlaceOf(s, q), PlaceOf(s, p))

SymCell(s, cells, c, p) ==
    [cells EXCEPT ![c] = Chosen(@, {q \in Seqs!ToSet(@) : MeetsInCell(s, p, q)})]

Nearer(x, y) == (x[1] - y[1]) * (x[1] - y[1]) + (x[2] - y[2]) * (x[2] - y[2]) < CutOff * CutOff

\* Fault: the position is looked up in the particle's own set.
KeptBySet(s, p, walk) ==
    Chosen(walk, {q \in Seqs!ToSet(walk) :
        Nearer(PlaceOf(s, p), s.pos[GetV(p)][GetP(q) % Cardinality(DOMAIN s.pos[GetV(p)])])})

\* create_: of a walk the elements within the radius.
Kept(s, p, walk) ==
    Chosen(walk, {q \in Seqs!ToSet(walk) : Nearer(PlaceOf(s, p), PlaceOf(s, q))})

\* Initialize with the particles of the set v up to its marker.
InitializeVerlet(v, l, kind) ==
    LET Around(p) ==
            LET c == GetCell(WalkDec, PlaceOf(people, p))
            IN  IF kind = "full" THEN Walk(lists[l].cells, c, NNcFull(WalkDec.gr2))
                ELSE Walk(SymCell(people, lists[l].cells, c, p), c, NNcSym(WalkDec.gr2))
    IN  /\ loop = NoLoop
        /\ lists[l].sets # {}
        /\ kind = "full" \/ v \in lists[l].sets
        /\ verlet' = [verlet EXCEPT ![v] =
             [kind |-> kind, from |-> lists[l].sets,
              ver |-> [p \in 0 .. people.g_m[v] - 1 |->
                         Kept(people, Packed(p, v), Around(Packed(p, v)))]]]
        /\ UNCHANGED <<people, lists, loop>>

-----------------------------------------------------------------------------
(* Loops over the particles of a list, cell by cell. *)

\* The element at a place, <<number of the cell in the order, of the element>>.
Element(w, at) == w.l.cells[w.order[at[1]]][at[2]]

Places(w) ==
    UNION {{<<n, k>> : k \in DOMAIN w.l.cells[w.order[n]]} : n \in DOMAIN w.order}

Before(x, y) == x[1] < y[1] \/ (x[1] = y[1] /\ x[2] < y[2])

\* Past the last cell.
AtEnd(w) == w.at[1] > Len(w.order)

\* selectValid: the first place of a set, none of them is the end.
FirstOf(w, S) ==
    IF S = {} THEN <<Len(w.order) + 1, 1>>
    ELSE CHOOSE x \in S : \A y \in S : x = y \/ Before(x, y)

\* Ghosts are passed over, by their number: for the lists of one set.
Skips(s, w, at) == w.kind # "crs" /\ Element(w, at) >= s.g_m[0]

\* CellNNIteratorSymM of RUNTIME size: its constructor does not select, and the
\* first element of the cell is met whether it comes after the particle or not.
CrsWalk(s, w) ==
    LET p == Element(w, w.at)
        c == w.order[w.at[1]]
        own == w.l.cells[c]
        first == <<Head(own)>> \o Chosen(Tail(own), {q \in Seqs!ToSet(own) : MeetsInCell(s, p, q)})
    IN  Walk([w.l.cells EXCEPT ![c] = first], c, NNcSym(WalkDec.gr2))

\* The constructors: ParticleIt_Cells does not pass over ghosts at the first place.
Start(l, kind, n) ==
    LET all == Curve
        order == IF kind = "crs" THEN SubSeq(all, n, Len(all)) \o SubSeq(all, 1, n - 1) ELSE all
        w == [kind |-> kind, l |-> lists[l], order |-> order, at |-> <<0, 0>>, seen |-> <<>>, met |-> <<>>]
        valid == IF kind = "curve" THEN {x \in Places(w) : ~Skips(people, w, x)} ELSE Places(w)
    IN  /\ loop = NoLoop
        /\ kind \in {"cells", "curve"} => lists[l].sets = {0} /\ n = 1
        /\ kind = "cells" /\ ~AnyFirst /\ Places(w) # {} => ~Skips(people, w, FirstOf(w, Places(w)))
        /\ kind = "crs" /\ ~Crowded => \A c \in Cells(WalkDec) : Len(lists[l].cells[c]) <= 1
        /\ loop' = [w EXCEPT !.at = FirstOf(w, valid)]
        /\ UNCHANGED <<people, lists, verlet>>

\* Fault: ghosts are not passed over.
AdvanceToAny ==
    /\ loop # NoLoop /\ ~AtEnd(loop)
    /\ loop' = [loop EXCEPT
         !.seen = Append(@, Element(loop, loop.at)),
         !.met = IF loop.kind # "crs" THEN @
                 ELSE @ \o [n \in DOMAIN CrsWalk(people, loop) |-> <<Element(loop, loop.at), CrsWalk(people, loop)[n]>>],
         !.at = FirstOf(loop, {x \in Places(loop) : Before(loop.at, x)})]
    /\ UNCHANGED <<people, lists, verlet>>

\* The body of the loop, then ++.  ParticleIt_Cells looks for a particle that is
\* not a ghost also past the last cell, in memory that is not its cells'; the
\* mildest outcome is the end.
Advance ==
    LET later == {x \in Places(loop) : Before(loop.at, x)}
    IN  /\ loop # NoLoop /\ ~AtEnd(loop)
        /\ loop' = [loop EXCEPT
             !.seen = Append(@, Element(loop, loop.at)),
             !.met = IF loop.kind # "crs" THEN @
                     ELSE @ \o [n \in DOMAIN CrsWalk(people, loop) |-> <<Element(loop, loop.at), CrsWalk(people, loop)[n]>>],
             !.at = FirstOf(loop, {x \in later : ~Skips(people, loop, x)})]
        /\ UNCHANGED <<people, lists, verlet>>

Stop ==
    /\ loop # NoLoop /\ AtEnd(loop)
    /\ loop' = NoLoop
    /\ UNCHANGED <<people, lists, verlet>>

-----------------------------------------------------------------------------

WalksNext ==
    \/ \E l \in CellLists :
         \/ \E v \in Sets(people) : \/ AddSet(l, v)
                                   \/ \E kind \in {"full", "sym"} : InitializeVerlet(v, l, kind)
         \/ \E m \in CellLists : CopyList(l, m) \/ TakeList(l, m)
         \/ ClearList(l)
         \/ \E kind \in {"cells", "crs", "curve"}, n \in DOMAIN Curve : Start(l, kind, n)
    \/ Advance
    \/ Stop

WalksSpec == WalksInit /\ [][WalksNext]_walks_vars

-----------------------------------------------------------------------------
(* What a caller has to see to, for the properties to hold for any particles. *)

\* A word holds each particle and its set, and the cells and their padding reach
\* as far as the particles.
SetsFit ==
    \A s \in Populations :
        /\ DOMAIN s.pos \subseteq 0 .. HighWords - 1
        /\ \A v \in DOMAIN s.pos :
             /\ \E n \in 0 .. LowWords :
                  s.pos[v] \in [0 .. n - 1 -> Int \X Int] /\ s.g_m[v] \in 0 .. n
             /\ \A p \in DOMAIN s.pos[v] : \A i \in D :
                  /\ Box.lo[i] - WalkDec.unit[i] < s.pos[v][p][i]
                  /\ s.pos[v][p][i] < Box.hi[i] + WalkDec.unit[i]

\* The curve is once in each cell of the domain.
CurveFits ==
    /\ Curve \in Seq(DomainCells(WalkDec))
    /\ \A c \in DomainCells(WalkDec) : \E n \in DOMAIN Curve :
         Curve[n] = c /\ \A k \in DOMAIN Curve : Curve[k] = c => k = n

WalksWellPosed ==
    /\ Even(Box, Div) /\ CutOff \in Nat \ {0} /\ \A i \in D : CutOff <= WalkDec.unit[i]
    /\ SetsFit /\ CurveFits

\* No two particles of two sets are at one place: those are in both lists.
SetsApart ==
    \A s \in Populations : \A v, u \in DOMAIN s.pos :
        \A p \in DOMAIN s.pos[v], q \in DOMAIN s.pos[u] : v # u => s.pos[v][p] # s.pos[u][q]

-----------------------------------------------------------------------------
(* Properties. *)

\* The elements of sets of particles.
WordsOf(s, V) == UNION {{Packed(p, v) : p \in DOMAIN s.pos[v]} : v \in V}

\* What getP and getV give for each element is a particle, the one that was
\* added, and it is in the cell it is at: a word holds a set and a number
\* without one reaching into the other ("(long int)(v1 - v2),1" for equal
\* numbers, CellList_test.hpp:303).
WalksTypeOK ==
    /\ people \in Populations
    /\ \A l \in CellLists : \A c \in Cells(WalkDec) :
        LET here == lists[l].cells[c]
            names == [k \in DOMAIN here |-> <<GetV(here[k]), GetP(here[k])>>]
        IN  /\ \A v \in Sets(people) : \A p \in DOMAIN people.pos[v] :
                  Visits(names, <<v, p>>) =
                      IF v \in lists[l].sets /\ GetCell(WalkDec, people.pos[v][p]) = c THEN 1 ELSE 0
            /\ \A k \in DOMAIN names :
                  names[k][1] \in lists[l].sets /\ names[k][2] \in DOMAIN people.pos[names[k][1]]
    /\ loop = NoLoop \/ AtEnd(loop) \/ loop.at \in Places(loop)

NearWords(s, e, f) == Nearer(PlaceOf(s, e), PlaceOf(s, f))

\* The list of a particle of one set names, of all the sets in the cell list,
\* the elements within the radius, each once (VerletList_test.hpp counts them).
NeighboursOfAllSets ==
    \A v \in Sets(people) : verlet[v].kind = "full" =>
        \A p \in DOMAIN verlet[v].ver : \A q \in WordsOf(people, verlet[v].from) :
            Visits(verlet[v].ver[p], q) = IF NearWords(people, Packed(p, v), q) THEN 1 ELSE 0

\* "if we query the neighborhood of p and q is the neighborhood of p when we
\* will query the neighborhood of q p is not present" (CellNNIteratorRuntimeM
\* .hpp:77): a pair of the domain, of one set or of two, is in one of the two
\* symmetric lists, and in a loop with the CRS walk it is met once.
PairsOnceOverSets ==
    /\ \A v, u \in Sets(people) :
        verlet[v].kind = "sym" /\ verlet[u].kind = "sym" /\ {v, u} \subseteq verlet[v].from \intersect verlet[u].from =>
            \A p \in DOMAIN verlet[v].ver, q \in DOMAIN verlet[u].ver :
                LET e == Packed(p, v)
                    f == Packed(q, u)
                IN  e # f /\ NearWords(people, e, f) => Visits(verlet[v].ver[p], f) + Visits(verlet[u].ver[q], e) = 1
    /\ loop.kind = "crs" /\ AtEnd(loop) =>
        \A e, f \in {loop.seen[n] : n \in DOMAIN loop.seen} :
            e # f /\ NearWords(people, e, f) => Visits(loop.met, <<e, f>>) + Visits(loop.met, <<f, e>>) = 1

\* A loop meets each particle of the cells of the domain that is not a ghost
\* once, and no ghost (the particles up to the marker,
\* CellListIterator_test.hpp:459-469); the CRS loop meets the ghosts in these
\* cells too.
ParticlesOnce ==
    loop # NoLoop /\ AtEnd(loop) =>
        \A e \in WordsOf(people, loop.l.sets) :
            Visits(loop.seen, e) =
                IF /\ GetCell(WalkDec, PlaceOf(people, e)) \in DomainCells(WalkDec)
                   /\ loop.kind = "crs" \/ GetP(e) < people.g_m[0]
                THEN 1 ELSE 0

=============================================================================
