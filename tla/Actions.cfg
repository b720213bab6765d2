SPECIFICATION FairSpec
CONSTANTS
  NumActions = 3
  Policy <- MCPolicy
  Exes = {old, new}
  None = None
INVARIANT CommitMeansDone
PROPERTY Converges
