SPECIFICATION FairSpec
CONSTANTS
  None = None
  Names = {v1, v2}
  Bases = {b1, b2}
  NameOf <- SecondLife
  Deletes = {d1, d2}
  Faults <- AllFaults
INVARIANTS
  ClaimIsOwned
  DeletedStaysAway
PROPERTIES
  RemovalEnds
CHECK_DEADLOCK FALSE
