SPECIFICATION Spec
CONSTANTS
  r1 = r1
  Command <- Commands
  Reader <- OneReader
  MaxCommands = 2
  MaxFaults = 2
CHECK_DEADLOCK FALSE
INVARIANTS
  ToldIsStored
  ProjectionIsOneInstant
  DeltaAgreesWithExit
PROPERTIES
  RunsAreImmutable
