SPECIFICATION ContainerSpec
CONSTANTS
  c1 = c1
  c2 = c2
  c3 = c3
  Clients <- Three
  Populations <- AllPopulations
  Versions <- TwoVersions
  MaxAttempts = 2
  MaxFaults = 2
CHECK_DEADLOCK FALSE
INVARIANTS
  ContainerTypeOK
  RunsInTheEnd
  AloneIsServed
PROPERTY WantedVersionAnswers
