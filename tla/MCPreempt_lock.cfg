CONSTANTS
  t1 = t1
  t2 = t2
  t3 = t3
  Threads <- TwoThreads
  First = t1
  Null = Null
  MaxMutex = 2
  Premade = {1}
  Initialisers = {}
  TimerAt = "anywhere"
  MaxTorn = 0
SPECIFICATION Spec
INVARIANT
  MutualExclusion
CHECK_DEADLOCK FALSE
