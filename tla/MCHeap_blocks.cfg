CONSTANTS
  p1 = p1
  p2 = p2
  p3 = p3
  p4 = p4
  p5 = p5
  p6 = p6
  Pointers <- SixPointers
  Requests = {0, 1, 2}
  SlotSize <- TwoSizes
  PageSize = 12
  MetaSize = 4
  NPages = 4
  MaxTrunks = 4
  IsMain = TRUE
SPECIFICATION Spec
INVARIANTS
  MarkedIsHeld
  MetadataApart
  BlocksBacked
PROPERTIES
  GrowsWhenFull
  ImplementsAllocator
SYMMETRY Symmetry
CHECK_DEADLOCK FALSE
