CONSTANTS
  t1 = t1
  t2 = t2
  t3 = t3
  Threads <- ThreeThreads
  First = t1
  Null = Null
  MaxMutex = 4
  Premade = {1, 2}
  Initialisers = {t1, t2}
  TimerAt = "user"
  MaxTorn = 0
SPECIFICATION Spec
PROPERTY
  ImplementsService
CHECK_DEADLOCK FALSE
