CONSTANTS
  main = main
  t1 = t1
  t2 = t2
  Main = main
  Null = Null
  Threads <- ThreeThreads
  MaxMutex = 3
  Capacity <- OneOfTwo
  MainTids = {0}
SPECIFICATION Spec
INVARIANTS
  MarksAreBlocks
  CountsMatch
PROPERTY
  ImplementsAllocator
SYMMETRY Symmetry
CHECK_DEADLOCK FALSE
