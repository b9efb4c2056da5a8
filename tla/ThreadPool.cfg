SPECIFICATION FairSpec
CONSTANTS
  c1 = c1
  c2 = c2
  NumThreads = 2
  Clients <- MCClients
  MaxQueueSize = 2
  NestedTasks <- MCAllTasks
  Unlucky <- MCSecondWorker
  MaxTasks = 4
INVARIANTS
  TypeOK
  OnePlace
  FirstComeFirstServed
  NobodyForgotten
  StopIsPrompt
PROPERTIES
  NothingRunsAfterStop
  
  RunReturnsOnceCallsEnd
  StopAlwaysReturns
