----------------------------- MODULE CellListSym -----------------------------
(***************************************************************************)
(* The symmetric cell list: two processors share a domain, each has a cell *)
(* list over its own part made from one decomposer of the whole            *)
(* (CellList::Initialize with a CellDecomposer), fills it with its own     *)
(* particles and the ghosts of the other's (populate_cell_list_sym,        *)
(* CellList_util.hpp), and for each of its own particles walks over the    *)
(* near ones with CellNNIteratorSym (CellNNIterator.hpp).  The walks are   *)
(* local, no processor knows what the other visits, and yet over both of   *)
(* them a pair must be met once: in different cells the order of the cells *)
(* decides who meets whom, in one cell the positions do, and the particle  *)
(* numbers, which differ from processor to processor, only break ties.     *)
(*                                                                         *)
(* A walk is a machine with the iterator's state: the place n in the       *)
(* stencil, the cell c there, the element k of it.  The processors have    *)
(* nothing in common but the initial positions, so that the order of their *)
(* steps says nothing: the second one starts when the first has finished.  *)
(*                                                                         *)
(* The definitions under "Fault:" are wrong variants of the one that       *)
(* follows them; no specification uses them.                               *)
(***************************************************************************)
EXTENDS CellDecomposer, FiniteSets

CONSTANTS
    N,          \* particles 1 .. N
    Points,     \* where they may be
    Outer,      \* [box, div] of the decomposer of the domain
    Splits,     \* where the domain may be cut along the first dimension
    Pad,        \* the padding of decomposer and lists
    Ghost       \* how far beyond its part a processor has ghosts

ASSUME SymAssumption ==
    /\ N \in Nat
    /\ Splits \subseteq Outer.box.lo[1] + 1 .. Outer.box.hi[1] - 1
    /\ Pad \in Nat \ {0}

Procs == 1 .. 2
Particles == 1 .. N

VARIABLES
    split,      \* where it is cut
    pos,        \* the position of each particle
    v,          \* per processor, its vector of particles: its own, then the ghosts
    g_m,        \* per processor, the ghost marker: how many are its own
    cells,      \* per processor, the cells: the indices into its vector
    it,         \* the walk under way: [proc, p, n, c, k]
    met         \* how often each pair was met, over both processors

input == <<split, pos, v, g_m>>
vars == <<input, cells, it, met>>

-----------------------------------------------------------------------------

OuterDec == Decomposed(Outer.box, Outer.div, Pad)

\* The part of the domain of a processor when it is cut at x.
Part(P, x) ==
    IF P = 1 THEN [lo |-> Outer.box.lo, hi |-> <<x, Outer.box.hi[2]>>]
             ELSE [lo |-> <<x, Outer.box.lo[2]>>, hi |-> Outer.box.hi]

\* The decomposers of the lists for every cut, and their stencils.
Decs == [x \in Splits |-> [P \in Procs |-> SetCellDecomposer(OuterDec, Part(P, x), Pad)]]
Stencils == [x \in Splits |-> [P \in Procs |-> NNcSym(Decs[x][P].gr2)]]

Dec == Decs[split]
Stencil == Stencils[split]

\* The domain includes its positive border.
Owner(x) == IF x[1] < split THEN 1 ELSE 2

\* The particles of the other processor that P has ghosts of.
InGhost(P, x) ==
    /\ Owner(x) # P
    /\ IF P = 1 THEN x[1] < split + Ghost ELSE x[1] >= split - Ghost

\* The particles of a set, in order.
InOrder(S) == Chosen([p \in Particles |-> p], S)

Own(P) == InOrder({p \in Particles : Owner(pos[p]) = P})

Idle(P) == [proc |-> P, p |-> 0, n |-> 0, c |-> 0, k |-> 0]

Init ==
    /\ split \in Splits
    /\ pos \in [Particles -> Points]
    /\ v = [P \in Procs |-> Own(P) \o InOrder({p \in Particles : InGhost(P, pos[p])})]
    /\ g_m = [P \in Procs |-> Len(Own(P))]
    /\ cells = [P \in Procs |-> <<>>]
    /\ it = Idle(1)
    /\ met = [pair \in {{p, q} : p, q \in Particles} |-> 0]

\* The position of the element i of the vector of P.
At(P, i) == pos[v[P][i]]

-----------------------------------------------------------------------------
(* populate_cell_list_sym: clear, addDom up to the marker, addPad after it.  *)

Populated(P) ==
    [c \in Cells(Dec[P]) |->
        Chosen([i \in DOMAIN v[P] |-> i],
               {i \in DOMAIN v[P] : c = IF i <= g_m[P] THEN GetCellDom(Dec[P], At(P, i))
                                                      ELSE GetCell(Dec[P], At(P, i))})]

Populate ==
    /\ cells[it.proc] = <<>>
    /\ cells' = [cells EXCEPT ![it.proc] = Populated(it.proc)]
    /\ UNCHANGED <<input, it, met>>

-----------------------------------------------------------------------------
(* CellNNIteratorSym. *)

Exhausted(w) == w.n > Len(Stencil[w.proc])

Cell(P, c) == IF c \in DOMAIN cells[P] THEN cells[P][c] ELSE <<>>

\* selectValid of CellNNIterator: from the end of a cell to the first element
\* of the next that has one.
SelectNonEmpty(w, centre) ==
    LET st == Stencil[w.proc]
        later == {m \in w.n + 1 .. Len(st) : Cell(w.proc, centre + st[m]) # <<>>}
        m == CHOOSE m \in later : \A o \in later : m <= o
    IN  IF w.k <= Len(Cell(w.proc, w.c)) THEN w
        ELSE IF later = {} THEN [w EXCEPT !.n = Len(st) + 1]
        ELSE [w EXCEPT !.n = m, !.c = centre + st[m], !.k = 1]

\* Fault: particle numbers alone decide.
ComesAfterByNumber(P, p, q) == q >= p

\* Of two elements of a cell the one with the greater last coordinate comes
\* after; then the first coordinate decides, then the number.
ComesAfter(P, p, q) ==
    LET x == At(P, p)
        y == At(P, q)
    IN  IF x = y THEN q >= p ELSE NotBefore(x, y)

\* selectValid of CellNNIteratorSym: in the cell of p, elements before p are
\* passed over.  Past the last cell the code still reads an entry of the stencil,
\* NNc[NNc_size]; nothing is left to visit whatever it holds.
SelectValid(w, centre) ==
    LET own == Cell(w.proc, w.c)
        good == {j \in w.k .. Len(own) : ComesAfter(w.proc, w.p, own[j])}
    IN  IF Exhausted(w) \/ Stencil[w.proc][w.n] # 0 THEN SelectNonEmpty(w, centre)
        ELSE IF good # {} THEN [w EXCEPT !.k = CHOOSE j \in good : \A o \in good : j <= o]
        ELSE SelectNonEmpty([w EXCEPT !.k = Len(own) + 1], centre)

Centre(w) == GetCell(Dec[w.proc], At(w.proc, w.p))

\* getNNIteratorSym for the next particle of the processor; both constructors
\* select.
NextParticle ==
    /\ cells[it.proc] # <<>>
    /\ it.p = 0 \/ Exhausted(it)
    /\ it.p < g_m[it.proc]
    /\ LET first == [it EXCEPT !.p = it.p + 1, !.n = 1, !.k = 1,
                               !.c = GetCell(Dec[it.proc], At(it.proc, it.p + 1))]
       IN  it' = SelectValid(SelectNonEmpty(first, first.c), first.c)
    /\ UNCHANGED <<input, cells, met>>

\* Fault: the walk does not leave the particle it started from.
MeetNoStep ==
    /\ cells[it.proc] # <<>>
    /\ it.p # 0 /\ ~Exhausted(it)
    /\ LET q == Cell(it.proc, it.c)[it.k]
       IN  /\ met' = [met EXCEPT ![{v[it.proc][it.p], v[it.proc][q]}] = 1]
           /\ it' = IF q = it.p THEN SelectValid(it, Centre(it))
                    ELSE SelectValid([it EXCEPT !.k = @ + 1], Centre(it))
    /\ UNCHANGED <<input, cells>>

\* The body of the caller's loop: get and ++.
Meet ==
    /\ cells[it.proc] # <<>>
    /\ it.p # 0 /\ ~Exhausted(it)
    /\ LET q == Cell(it.proc, it.c)[it.k]
       IN  met' = [met EXCEPT ![{v[it.proc][it.p], v[it.proc][q]}] = @ + 1]
    /\ it' = SelectValid([it EXCEPT !.k = @ + 1], Centre(it))
    /\ UNCHANGED <<input, cells>>

Finished ==
    /\ cells[it.proc] # <<>>
    /\ it.p = 0 \/ Exhausted(it)
    /\ it.p = g_m[it.proc]

OtherProcessor ==
    /\ Finished
    /\ it.proc = 1
    /\ it' = Idle(2)
    /\ UNCHANGED <<input, cells, met>>

Done == Finished /\ it.proc = 2

Next == Populate \/ NextParticle \/ Meet \/ OtherProcessor

\* The loops of a sequential program are not left half way.
Spec == Init /\ [][Next]_vars /\ WF_vars(Next)

-----------------------------------------------------------------------------
(* What the callers have to see to, for the properties to hold for any      *)
(* domain, cut and particles.  The code asks for none of it.                *)

\* No particle is on the positive border of the domain: addDom and getCell put
\* it in different cells, the one on its processor, the other on the one that
\* has a ghost of it.
PointsInside ==
    \A x \in Points : \A i \in D : Outer.box.lo[i] <= x[i] /\ x[i] < Outer.box.hi[i]

\* A ghost is not more than a cell beyond the part of its processor.
GhostsInPadding == Ghost \in Nat /\ \A i \in D : Ghost <= OuterDec.unit[i]

WellPosed ==
    /\ Even(Outer.box, Outer.div)
    /\ Points \subseteq Int \X Int
    /\ PointsInside /\ GhostsInPadding

-----------------------------------------------------------------------------
(* Properties. *)

\* The walks start from the processor's own particles and stand on cells of its
\* list, the vectors hold what is theirs.
TypeOK ==
    /\ split \in Splits
    /\ pos \in [Particles -> Points]
    /\ \A P \in Procs :
        /\ v[P] \in Seq(Particles)
        /\ g_m[P] \in 0 .. Len(v[P])
        /\ cells[P] # <<>> => cells[P] \in [Cells(Dec[P]) -> Seq(DOMAIN v[P])]
    /\ it \in [proc : Procs, p : 0 .. N, n : 0 .. 6, k : 0 .. N + 1,
                c : Cells(Dec[it.proc])]
    /\ it.p <= g_m[it.proc]
    /\ met \in [DOMAIN met -> Nat]

\* Two particles that interact.
Interact(x, y) ==
    (x[1] - y[1]) * (x[1] - y[1]) + (x[2] - y[2]) * (x[2] - y[2]) <= Ghost * Ghost

\* "if we query the neighborhood of p and q is the neighborhood of p when we
\* will query the neighborhood of q p is not present" (CellNNIterator.hpp:156):
\* no pair is met twice, by one processor or by both, and in the end every pair
\* that interacts was met.
EachPairOnce ==
    \A p, q \in Particles :
        /\ met[{p, q}] <= 1
        /\ Done /\ Interact(pos[p], pos[q]) => met[{p, q}] = 1

\* The walks stand on cells of their list, and none leaves it: the padding is as
\* deep as the stencil.
WalkInCells ==
    /\ TypeOK
    /\ it.p # 0 =>
        \A o \in {Stencil[it.proc][j] : j \in DOMAIN Stencil[it.proc]} :
            Centre(it) + o \in Cells(Dec[it.proc])

\* Both processors come to the end of their particles.
Terminates == <>[]Done

=============================================================================
