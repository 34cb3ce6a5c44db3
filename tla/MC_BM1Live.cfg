SPECIFICATION FairLiveSpec
CONSTANTS
  p1 = p1
  Proc <- OneProcess
  Platform = "win32"
  Planned = 3
  ErrorLimit = 2
  Ceiling = 10
  Pricings <- MixedPlans
  MaxStarts = 1
  Heads = {"h1", "h2"}
  Credentials <- MCCredentials
  ApprovalTTL = 0
  ReceiptTTL = 1
  ReviewTTL = 0
  MaxTime = 2
  MaxReceipts = 2
  MaxRuns = 2
INVARIANTS
  SpendWithinCeiling
  StopIsFinal
  SummaryMatchesWire
  SentAsApproved
PROPERTIES
  Termination
