SPECIFICATION FairSpec
CONSTANTS
  IOs = {t1, t2}
  Threads = {t1, t2}
  ThreadOf <- OwnThread
  Places = {p1}
  Types <- AllTypes
  Values <- SomeData
  Faults <- AllFaults
INVARIANTS
  CompressedOnce
PROPERTIES
  ReadsReturnWrites
  EveryIoCompletes
CHECK_DEADLOCK FALSE
