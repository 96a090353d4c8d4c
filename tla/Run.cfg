SPECIFICATION RunSpec
CONSTANTS
  Handlers <- TwoHandlers
  MaxStatus = 3
CHECK_DEADLOCK FALSE
INVARIANTS RunTypeOK AllShown DisplayIsLast
PROPERTY RunEnds
