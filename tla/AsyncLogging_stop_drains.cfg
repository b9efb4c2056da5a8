SPECIFICATION Spec
CONSTANTS
  BufferSize = 3
  LineLengths <- MCLineLengths
  BacklogLimit = 3
  MaxLines = 2
  Null = Null
INVARIANT
  StopDrains
