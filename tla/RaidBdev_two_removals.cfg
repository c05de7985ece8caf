SPECIFICATION Spec
CONSTANTS
  None = None
  Slots = {s1, s2, s3}
  Levels = {"raid5f"}
  Threads = {t1}
  DeleteRpcs = {d1}
  RemoveRpcs = {r1}
  Small = {}
  Env = {"overlap"}
INVARIANTS
  KeepsOperational
SYMMETRY Symmetry
CHECK_DEADLOCK FALSE
