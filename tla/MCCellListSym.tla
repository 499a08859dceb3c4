---------------------------- MODULE MCCellListSym ----------------------------
EXTENDS CellListSym

\* The domain has 3 x 2 cells of 4 x 4.
MCOuter == [box |-> [lo |-> <<0, 0>>, hi |-> <<12, 8>>], div |-> <<3, 2>>]

\* Around the corner of four cells: on a border between cells and on both
\* sides of it, on both sides of the cuts and on them (4 and 6).
MCPoints == {3, 4, 6, 8} \X {2, 3, 4}

\* A cut inside a cell and one between two cells.
MCSplits == {4, 6}

\* The positive border.
MCBorderPoints == {<<11, 3>>, <<11, 6>>, <<12, 2>>}

\* What the theorems ask for holds of these values.
ASSUME MCWellPosed == Points = MCPoints => WellPosed
=============================================================================
