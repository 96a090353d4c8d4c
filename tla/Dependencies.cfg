SPECIFICATION TranslatorSpec
CONSTANTS
  Runs <- DependencyRuns
INVARIANT NeverPanics
CHECK_DEADLOCK FALSE
