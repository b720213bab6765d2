SPECIFICATION LoaderSpec
CONSTANTS
  l1 = l1 l2 = l2
  f1 = f1 f2 = f2
  Launches = {l1, l2}
  Files = {f1, f2}
  Taken <- MCTaken
  MaxAttempts = 3
  Helpers = 1
  Nothing = Nothing
CHECK_DEADLOCK FALSE
SYMMETRY Symmetric
INVARIANTS RunsWhatItVerified FailsAlone LeavesNothing
