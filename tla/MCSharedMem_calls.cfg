CONSTANTS
  c1 = c1
  c2 = c2
  c3 = c3
  Nobody = Nobody
  Callers <- ThreeCallers
  NPages = 3
  PageSize = 4
  Sizes <- MixedSizes
  MaxLost = 0
SPECIFICATION Spec
INVARIANTS
  TypeOK
  CountCovers
  ScanInBounds
SYMMETRY Symmetry
CHECK_DEADLOCK FALSE
