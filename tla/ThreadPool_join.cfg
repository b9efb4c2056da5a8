SPECIFICATION Spec
CONSTANTS
  c1 = c1
  c2 = c2
  NumThreads = 2
  Clients <- MCOneClient
  MaxQueueSize = 1
  NestedTasks <- MCNone
  Unlucky <- MCFirstWorker
  MaxTasks = 1
INVARIANT
  JoinsStartedThreads
