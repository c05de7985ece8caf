SPECIFICATION FairSpec
CONSTANTS
  Levels <- AllLevels
  NumBaseBdevs = 3
  IOs = {i1, i2}
  Types <- IoTypes
  MaxBlocks = 2
  Removable = {0, 1}
  Faults <- Expected
INVARIANTS
  MirrorsAgree
  CountersAreExact
  RemainingIsExact
PROPERTIES
  Implements
  EveryIoCompletes
CHECK_DEADLOCK FALSE
