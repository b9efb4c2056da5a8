SPECIFICATION FairSpec
CONSTANTS
  BufferSize = 3
  LineLengths <- MCLineLengths
  BacklogLimit = 3
  MaxLines = 6
  Null = Null
INVARIANTS
  TypeOK
  BufferSupply
  NoLostWakeup
  InOrder
  NoSilentLoss
  FlushedBetweenRounds
PROPERTIES
  NothingAfterStop
  ImplementsPipeline
  LinesReachDisk
  StopReturns
