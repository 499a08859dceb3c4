---------------------------- MODULE MCVerletList ----------------------------
EXTENDS VerletList, TLC

Rect(x1, y1, x2, y2) == [lo |-> <<x1, y1>>, hi |-> <<x2, y2>>]

\* Space is 8 x 8; a processor has all of it or its left half.
MCDomain == Rect(0, 0, 8, 8)
Left == Rect(0, 0, 4, 8)
MCBoxes == {MCDomain, Left}

\* Around the corner of four cells, two at one place, ghosts on one side and on
\* both; with a radius of 2 and of 4 other pairs are near.
MCScenes == {[pos |-> << <<3, 3>>, <<2, 4>>, <<3, 3>>, <<4, 4>> >>, g_m |-> 3],
             [pos |-> << <<1, 3>>, <<3, 4>>, <<-2, 3>>, <<4, 3>> >>, g_m |-> 2],
             [pos |-> << <<3, 3>>, <<4, 4>>, <<5, 5>>, <<7, 7>> >>, g_m |-> 4]}

\* Over the left half, cells as large as the radius, and of half its size with
\* more padding.
MCExternal == {[box |-> Left, div |-> <<1, 2>>, pad |-> 1, r |-> 4],
               [box |-> Left, div |-> <<2, 4>>, pad |-> 2, r |-> 3]}

\* The lists differ in nothing but their names.
ListNames == Permutations(Lists)

\* A part that ends inside a cell, and a ghost on the other side in that cell.
Cut == Rect(0, 0, 3, 8)
MCCutBoxes == {Cut}
MCCutScenes == {[pos |-> << <<1, 3>>, <<3, 4>> >>, g_m |-> 1]}

\* The instance is one the theorems are about.
ASSUME InstanceAssumption == VerletWellPosed
=============================================================================
