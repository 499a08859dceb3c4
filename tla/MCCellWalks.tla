---------------------------- MODULE MCCellWalks -----------------------------
EXTENDS CellWalks

MCBox == [lo |-> <<0, 0>>, hi |-> <<8, 8>>]
MCDiv == <<2, 2>>

\* The first domain cell is 5, then 6, 9 and 10; along the curve 10 is met
\* before 6.
MCCurve == <<5, 9, 10, 6>>

\* Two sets of particles, v0 and v1, and how many of each are the processor's own.
Population(v0, v1, g0, g1) ==
    [pos |-> [v \in {0, 1} |-> LET ps == IF v = 0 THEN v0 ELSE v1
                              IN  [p \in 0 .. Len(ps) - 1 |-> ps[p + 1]]],
     g_m |-> [v \in {0, 1} |-> IF v = 0 THEN g0 ELSE g1]]

\* Several in one cell, at one place in one set, on both sides of borders, with a
\* number of all ones; ghosts in cells of the domain and in the padding; one
\* element in a cell; a ghost in the first cell.
MCPopulations == {
    Population(<< <<3, 3>>, <<3, 3>>, <<5, 6>>, <<6, 3>> >>, << <<3, 2>>, <<2, 3>>, <<5, 3>> >>, 3, 2),
    Population(<< <<5, 5>>, <<3, 3>>, <<3, -1>>, <<1, 1>> >>, << <<3, 5>>, <<5, 2>> >>, 2, 2),
    Population(<< <<4, 4>>, <<3, 3>> >>, << <<3, 5>>, <<5, 3>> >>, 1, 2)}

ASSUME WalksWellPosed /\ SetsApart
=============================================================================
