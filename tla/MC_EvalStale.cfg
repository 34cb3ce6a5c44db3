SPECIFICATION EvalSpec
CONSTANTS
  MaxRuns = 2
  MaxFailures = 1
INVARIANTS
  PassReceiptHasRaw
