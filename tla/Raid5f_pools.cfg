SPECIFICATION FairSpec
CONSTANTS
  None = None
  NumBaseBdevs = 3
  Stripes = {1}
  IOs = {i1, i2, i3}
  WriteReqs = {w1}
  ReconReqs = {r1, r2, r3}
  Contents <- OneData
  ReadIdx = {0}
  Segments = 1
  WithMd = FALSE
  Removable = {}
  Faults <- Refusals
INVARIANTS
  TypeOK
PROPERTIES
  
  EveryIoCompletes
CHECK_DEADLOCK FALSE
