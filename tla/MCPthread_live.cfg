CONSTANTS
  main = main
  t1 = t1
  t2 = t2
  t3 = t3
  Null = Null
  Main = main
  Threads <- ThreeThreads
  MaxMutex = 4
  MaxCount = 4
  MainTids = {0}
  Joiners = {main}
  Liberties = {}
SPECIFICATION FairSpec
PROPERTIES
  JoinReturns
  LockGranted
CHECK_DEADLOCK FALSE
