SPECIFICATION Spec
CONSTANTS
  i1 = i1
  i2 = i2
  Invocation <- TwoInvocations
  Planned = 3
  MaxFaults = 3
SYMMETRY ReplaySymmetry
INVARIANTS
  JournalIsTruth
  PassIsComplete
  OneRun
