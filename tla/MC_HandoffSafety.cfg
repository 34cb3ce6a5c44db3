SPECIFICATION Spec
CONSTANTS
  p1 = p1
  p2 = p2
  s1 = s1
  s2 = s2
  Proc <- TwoProcesses
  Session <- TwoSessions
  Mode = "live"
  MaxChallenges = 2
  MaxOutputs = 2
  MaxFaults = 2
SYMMETRY HandoffSymmetry
CHECK_DEADLOCK FALSE
INVARIANTS
  GateMeansProof
  
