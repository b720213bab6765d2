SPECIFICATION FairWizardSpec
CONSTANTS
  None = None
  Starts <- MCStarts
  MaxQuestions = 1
CHECK_DEADLOCK FALSE
INVARIANTS ReportsTheRun NothingUnwatched
PROPERTIES RunEnds
