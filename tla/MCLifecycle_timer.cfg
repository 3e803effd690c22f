CONSTANTS
  main = main
  t1 = t1
  t2 = t2
  t3 = t3
  Main = main
  Null = Null
  Threads <- ThreeThreads
  MaxMutex = 3
  Joiners = {main, t2}
SPECIFICATION Spec
INVARIANTS
  HandlerIsSafe
  ThreadsConserved
  WaitsForLive
  JoinedIsGone
PROPERTIES
  ReadyRuns
  JoinReturns
CHECK_DEADLOCK FALSE
