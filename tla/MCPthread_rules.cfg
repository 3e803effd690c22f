CONSTANTS
  main = main
  t1 = t1
  t2 = t2
  t3 = t3
  Null = Null
  Main = main
  Threads <- ThreeThreads
  MaxMutex = 5
  MaxCount = 4
  MainTids = {0}
  Joiners = {main}
  Liberties = {"main_exit"}
SPECIFICATION Spec
INVARIANTS
  TypeOK
  ThreadsConserved
  MutualExclusion
  CountIsClaims
  WaitsForSomeone
  OneOwner
  NobodyStranded
PROPERTIES
  JoinedIsGone
  ImplementsService
SYMMETRY Workers
CHECK_DEADLOCK FALSE
