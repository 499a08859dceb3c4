----------------------------- MODULE MCCellList -----------------------------
EXTENDS CellList

Rect(x1, y1, x2, y2) == [lo |-> <<x1, y1>>, hi |-> <<x2, y2>>]

\* A square of 2 x 2 cells, one of 3 x 2 that starts elsewhere, and one of 4 x 2
\* cells where the first has 2 x 2.
MCShapes == {[box |-> Rect(0, 0, 8, 8), div |-> <<2, 2>>],
             [box |-> Rect(4, 0, 16, 8), div |-> <<3, 2>>]}
MCReshapes == {[box |-> Rect(0, 0, 8, 8), div |-> <<2, 2>>],
               [box |-> Rect(0, 0, 8, 8), div |-> <<4, 2>>]}
MCOneShape == {[box |-> Rect(0, 0, 8, 8), div |-> <<2, 2>>]}

\* The domain has 3 x 2 cells of 4 x 4; a part of it ends between two cells.
MCOuter == [box |-> Rect(0, 0, 12, 8), div |-> <<3, 2>>, pad |-> 1]
MCSubs == {Rect(0, 0, 6, 8), Rect(6, 0, 12, 8)}

\* Points near in space and on different sides of borders; <<-1, 5>> is a ghost
\* of the first square, <<-1, 9>> one of a corner of it and of the first part of
\* the domain.
MCPoints == {<<3, 5>>, <<5, 3>>, <<-1, 5>>, <<7, 9>>, <<8, 4>>, <<-1, 9>>}
MCCorner == {<<-1, 9>>}
MCRadiusPoints == {<<3, 3>>, <<3, 5>>, <<5, 3>>, <<5, 5>>, <<7, 7>>, <<9, 9>>}
MCFloorPoints == {<<0, 1>>, <<-4, 1>>}

\* The run is about a program that does what the theorems of CellListProofs ask.
ASSUME MCWellPosed == Points = MCPoints => WellPosed
=============================================================================
