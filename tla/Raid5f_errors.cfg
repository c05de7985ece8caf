SPECIFICATION Spec
CONSTANTS
  None = None
  NumBaseBdevs = 3
  Stripes = {1}
  IOs = {i1, i2}
  WriteReqs = {w1}
  ReconReqs = {r1}
  Contents <- AnyData
  ReadIdx = {0, 1}
  Segments = 2
  WithMd = TRUE
  Removable = {1}
  Faults <- Errors
INVARIANTS
  RequestOwnership
  RemainingIsExact
PROPERTIES
  LostAtDirectRead
SYMMETRY Symmetry
CHECK_DEADLOCK FALSE
