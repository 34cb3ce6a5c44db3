SPECIFICATION EvalSpec
CONSTANTS
  MaxRuns = 3
  MaxFailures = 3
INVARIANTS
  PairIsOneRun
  AllOrNothing
  AttemptsAreTold
