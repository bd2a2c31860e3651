CONSTANTS
  r1 = r1
  r2 = r2
  Readers <- MCReaders
  MaxCalls = 3
  MaxCrashes = 2
  MaxTime = 2
SPECIFICATION Spec
SYMMETRY Symmetry
INVARIANTS LagIsBreak LogAheadByCrashes OwnVersions TimeFindsCurrent VersionsArePlacesMC
CHECK_DEADLOCK FALSE
