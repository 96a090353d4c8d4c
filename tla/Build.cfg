SPECIFICATION FairSpec
CONSTANTS
  Runs <- BuildRuns
  Faults = TRUE
INVARIANTS
  TranslatorTypeOK
  TranslatesSupported
  BuildsDeclaredGraph
  TypeOK
  BuildInv
  RunAfterOrder
  FinallyLast
  StepsInOrder
  ResultsComplete
  SuccessIsComplete
  OnlyStopAndFailFails
PROPERTIES
  ImplementsTektonPipeline
  TimeoutsEndTheBuild
CHECK_DEADLOCK FALSE
