SPECIFICATION MCSpec
CONSTANTS
  NCells = 2
  MaxPart = 3
  Markers = {0, 2}
  MaxTogether = 4
  Garbage = Garbage
INVARIANT NoWriteConflict
INVARIANT Grouped
INVARIANT MapsInverse
INVARIANT DomainFirst
INVARIANT DeterministicOrder
