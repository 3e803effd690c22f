CONSTANTS
  t1 = t1
  t2 = t2
  t3 = t3
  Threads <- ThreeThreads
  First = t1
  Null = Null
  MaxMutex = 2
  Premade = {}
  Initialisers = {t1, t2}
  TimerAt = "anywhere"
  MaxTorn = 0
SPECIFICATION Spec
INVARIANTS
  CountExact
  ThreadsConserved
CHECK_DEADLOCK FALSE
