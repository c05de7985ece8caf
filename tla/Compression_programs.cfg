SPECIFICATION Spec
CONSTANTS
  Programs <- Both
  Faults <- AllFaults
INVARIANTS
  OutputIsInput
  ContextReleasedOnce
CHECK_DEADLOCK FALSE
