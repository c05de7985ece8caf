SPECIFICATION Spec
CONSTANTS
  None = None
  Slots = {s1, s2, s3}
  Levels <- AllLevels
  Threads = {t1}
  DeleteRpcs = {d1}
  RemoveRpcs = {r1, r2}
  Small = {s3}
  Env <- Concurrency
INVARIANTS
  DiscoveredCountsOpen
  OnlineIsAssembled
  QuiescedForRemoval
PROPERTIES
  AnsweredOnce
  StateOrder
SYMMETRY Symmetry
CHECK_DEADLOCK FALSE
