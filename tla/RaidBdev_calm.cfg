SPECIFICATION FairSpec
CONSTANTS
  None = None
  Slots = {s1, s2, s3}
  Levels <- AllLevels
  Threads = {t1, t2}
  DeleteRpcs = {d1, d2}
  RemoveRpcs = {r1}
  Small = {}
  Env <- Troubles
INVARIANTS
  TypeOK
  Survives
  OnlineIsOperational
  FreedIsForgotten
PROPERTIES
  DeleteReleases
  TeardownEnds
  RemovalEnds
CHECK_DEADLOCK FALSE
