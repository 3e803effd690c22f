CONSTANTS
  main = main
  t1 = t1
  t2 = t2
  Main = main
  Unmapped = Unmapped
  Threads <- TwoThreads
  NPages = 3
  NFrames = 2
  NSlots = 2
  Values = {0, 1}
  Zero = 0
  Preemptible = FALSE
SPECIFICATION Spec
INVARIANTS
  TypeOK
  FramesExist
  FramesExclusive
  SlotsExclusive
  CountsAgree
  WindowFollowsTable
PROPERTIES
  SlotsLeakOnlyAtExit
  ImplementsPrivateMemory
CHECK_DEADLOCK FALSE
