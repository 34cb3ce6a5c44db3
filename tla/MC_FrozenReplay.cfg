SPECIFICATION MCSpec
CONSTANTS
  i1 = i1
  i2 = i2
  Invocation <- TwoInvocations
  MaxCalls = 2
  MaxFaults = 2
  Roster <- MCRoster
  Forged = Forged
  Specs <- MCSpecs
  Facts <- MCFacts
  Entrants <- MCEntrants
  MaxEvents = 3
  MaxClock = 2
  MaxReceipts = 2
SYMMETRY ReplaySymmetry
INVARIANTS
  LabelsFollowCommits
  CompleteMeansWholePlan
  QueriesAreTold
  OutcomesTellSearches
  NoVerdictAfterFault
  RetriesPerRequest
PROPERTIES
  RunIsOneShot
CHECK_DEADLOCK FALSE
