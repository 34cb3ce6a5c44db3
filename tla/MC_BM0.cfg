SPECIFICATION MCSpec
CONSTANTS
  m1 = m1
  m2 = m2
  p1 = p1
  p2 = p2
  tie = tie
  outsider = outsider
  core = core
  drifted = drifted
  None = None
  SystemScope = SystemScope
  Expected = core
  MaxEdits = 2
  MaxChanges = 4
  Lineage <- MCLineage
  Original <- MCOriginal
  Edits <- MCEdits
  MaxGrid = 5
  MaxOddGrid = 3
  ClassOf <- MCClassOf
  Drafts <- MCDrafts
  Outcomes <- MCOutcomes
  OddOutcomes <- MCOddOutcomes
  Subjects <- MCSubjects
  Items <- MCItems
  Adjudicators <- MCAdjudicators
CHECK_DEADLOCK FALSE
INVARIANTS
  OnlyAnswersAreScored
  PairsAgreeWithRates
  TwoHumansPerLabel
  ClaimsRestOnOneRevision
PROPERTIES
  EstimatesAreFinal
  LabelIsFinal
