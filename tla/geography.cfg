SPECIFICATION GeographySpec
CONSTANTS
  Places = {1, 2, 3}
  Roads <- MCRoads
  LocMax = 2
  ConnMax = 2
  Chunk = 1
  Callers = {tick, api}
  Many = 1
INVARIANTS CompleteUnlessCut
SYMMETRY Symmetry
