SPECIFICATION TaskRunBuildSpec
CONSTANTS
  TaskRuns <- AllTaskRuns
  Faults = TRUE
INVARIANTS
  TaskRunTypeOK
  TaskRunsTranslate
  TaskRunStepsInOrder
PROPERTY ImplementsOneTask
CHECK_DEADLOCK FALSE
