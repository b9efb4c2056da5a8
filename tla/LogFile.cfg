SPECIFICATION Spec
CONSTANTS
  RollSize = 3
  FlushInterval = 1
  CheckEveryN = 2
  RollPerSeconds = 4
  Lengths <- MCLengths
  WriteCanFail = TRUE
  ClockCanGoBack = TRUE
  MaxLines = 4
  MaxTime = 4
INVARIANTS
  DistinctNames
  OversizeOnlyWithinItsSecond
  StrayLinesBounded
  FlushedInTime
PROPERTY
  ImplementsSink
