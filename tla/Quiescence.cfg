SPECIFICATION Spec
CONSTANTS
  v1 = v1 v2 = v2 e1 = e1 e2 = e2 h1 = h1 h2 = h2 r1 = r1
  Versions = {v1, v2}
  Entries = {e1, e2}
  Hashes = {h1, h2}
  Nothing = Nothing
  Stop <- MCStop
  Resume <- MCResume
  ReadErrors = FALSE
  Apps = {e1, e2}
  RunOn <- MCRunOn
  Resumes <- Both
  Continues = {e2}
  Holders = {r1}
  Restartable = {r1}
  StopErrors = TRUE
INVARIANTS OwnedIsStored SettledAtEnd NoneLeftSilently ResumedUnlessLost
PROPERTIES ImplementsStore
