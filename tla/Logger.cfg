SPECIFICATION Spec
CONSTANTS
  t1 = t1
  t2 = t2
  Threads <- MCThreads
  Zones <- MCZones
  LogLevels <- MCLogLevels
  MaxLines = 2
  MaxTime = 3
  MaxSet = 2
SYMMETRY
  ThreadSymmetry
INVARIANTS
  StampsAreRight
  FatalLineIsOut
