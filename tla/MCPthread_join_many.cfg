CONSTANTS
  main = main
  t1 = t1
  t2 = t2
  t3 = t3
  Null = Null
  Main = main
  Threads <- FourThreads
  MaxMutex = 4
  MaxCount = 4
  MainTids = {0}
  Joiners = {main, t1}
  Liberties = {"join_many"}
SPECIFICATION Spec
INVARIANT WaitsForSomeone
CHECK_DEADLOCK FALSE
