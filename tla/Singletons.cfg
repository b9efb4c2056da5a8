SPECIFICATION Spec
CONSTANTS
  t1 = t1
  t2 = t2
  a = a
  b = b
  c = c
  Threads <- MCThreads
  Keys <- MCKeys
  Singles <- MCSingles
  Asks <- MCAsks
  Rounds = 4
INVARIANTS
  OneInstance
  LocalsAreReclaimed
