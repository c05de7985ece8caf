SPECIFICATION Spec
CONSTANTS
  None = None
  NumBaseBdevs = 3
  Stripes = {1}
  IOs = {i1, i2, i3}
  WriteReqs = {w1}
  ReconReqs = {r1, r2, r3}
  Contents <- AnyData
  ReadIdx = {0, 1}
  Segments = 1
  WithMd = FALSE
  Removable = {0, 2}
  Faults = {"bdev_io"}
INVARIANTS
  StripeIsWritten
PROPERTIES
  Implements
SYMMETRY Symmetry
CHECK_DEADLOCK FALSE
