SPECIFICATION Spec
CONSTANTS
  Runs <- FinallyRuns
  Faults = FALSE
INVARIANT FinallyRegardless
CHECK_DEADLOCK FALSE
