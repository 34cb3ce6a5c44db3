SPECIFICATION Spec
CONSTANTS
  p1 = p1
  p2 = p2
  Proc <- TwoProcesses
  Platform = "linux"
  Planned = 2
  ErrorLimit = 2
  Ceiling = 10
  Pricings <- TwoPlans
  MaxStarts = 3
SYMMETRY ProcessSymmetry
INVARIANTS
  TypeOK
  WireFollowsPlan
  StaleClaimNotSent
  EvidenceBacked
PROPERTIES
  CommittedFilesStay
  PlanIsOneShot
