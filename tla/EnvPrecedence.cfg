SPECIFICATION ProcessSpec
CONSTANTS
  Processes <- DuplicateKey
  Configs <- MCConfigs
  Secrets <- MCSecrets
  MaxClock = 5
INVARIANT EnvTakesPrecedence
CHECK_DEADLOCK FALSE
