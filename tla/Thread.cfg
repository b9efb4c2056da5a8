SPECIFICATION FairSpec
CONSTANTS
  t1 = t1
  t2 = t2
  Owner = Owner
  Nobody = Nobody
  ready = ready
  begin = begin
  Threads <- MCThreads
  Callers <- MCCallers
  Latches <- MCLatches
  Unlucky <- MCUnlucky
  MayDetach = TRUE
  MaxSpurious = 2
INVARIANTS
  HolderIsRight
  NobodyPassesEarly
  NothingDeadIsTouched
PROPERTY
  WaitersAreReleased
