SPECIFICATION CacheSpec
CONSTANTS
  Builds <- Three
  RunOf <- NearRuns
  Meta <- NearNames
CHECK_DEADLOCK FALSE
INVARIANTS CacheTypeOK NoForeignData
