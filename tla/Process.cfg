SPECIFICATION ProcessSpec
CONSTANTS
  Processes <- MCProcesses
  Configs <- MCConfigs
  Secrets <- MCSecrets
  MaxClock = 5
CHECK_DEADLOCK FALSE
INVARIANTS ProcessTypeOK LastSourceCounts OutcomeIsDeclared OwnRules
PROPERTY BoundedEnds
