SPECIFICATION Spec
CONSTANTS
  p1 = p1
  p2 = p2
  Proc <- OneProcess
  Platform = "linux"
  Planned = 2
  ErrorLimit = 2
  Ceiling = 10
  Pricings <- AffordablePlan
  MaxStarts = 1
INVARIANTS
  ClaimAccounted
