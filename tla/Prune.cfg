SPECIFICATION PruneSpec
CONSTANT MaxRecords = 12
CHECK_DEADLOCK FALSE
INVARIANTS PruneTypeOK AllButTheLast
PROPERTY PruneReturns
