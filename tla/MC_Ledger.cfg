SPECIFICATION FairSpec
CONSTANTS
  j1 = j1
  j2 = j2
  j3 = j3
  Job <- ThreeJobs
  Identity = {1, 2}
  Approvals <- OrderedApprovals
  Platform = "linux"
  MaxAttempts = 2
INVARIANTS
  TypeOK
  QuarantineHolds
PROPERTIES
  LaneIsOneShot
  EveryJobEnds
