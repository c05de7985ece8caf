SPECIFICATION Spec
CONSTANTS
  Levels <- AllLevels
  NumBaseBdevs = 3
  StripSize = 2
  DataOffset = 3
  Sizes <- Strided
INVARIANTS
  BlocksHaveHomes
  RequestsAreContiguous
  SplitIsExact
PROPERTIES
  ResizeKeepsBlocks
CHECK_DEADLOCK FALSE
