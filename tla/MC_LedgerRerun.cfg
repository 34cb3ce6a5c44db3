SPECIFICATION Spec
CONSTANTS
  j1 = j1
  j2 = j2
  j3 = j3
  Job <- TwoJobs
  Identity = {1, 2}
  Approvals <- SharedApprovals
  Platform = "linux"
  MaxAttempts = 2
INVARIANTS
  ClaimsAreFirstAttempts
