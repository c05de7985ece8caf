SPECIFICATION FairSpec
CONSTANTS
  MaxChunks = 3
  Workloads <- Both
  Faults <- AllFaults
INVARIANTS
  OutputIsInput
PROPERTIES
  NothingAfterClose
  Ends
CHECK_DEADLOCK FALSE
