SPECIFICATION Spec
CONSTANTS
  Processes = {p1}
  None = None
  hint = hint  new = new  old = old  other = other  foreign = foreign
  embedded = embedded  forged = forged
  Installers = {hint, new, old, other, embedded, forged}
  NumDeps = 2
  Publications = {1, 2}
  PublishedAt <- MCPublishedAt
  Rows <- MCRows
  Forged <- MCForged
  Lists <- MCLists
  Manifests <- MCManifests
  Attempts = 3
  Dep <- MCDep
  Gives <- MCGives
  FileName <- MCFileName
  Scope = "machine"
  OptionSets <- MCChoices
  Manners <- MCManners
  ExitCodes = {0, 1, 3010}
  Now = 9
  Margin = 2
  MaxIndexAge = 5
  Versions = {11, 12}
  MaxRuns = 2
  MaxMeddles = 1
CHECK_DEADLOCK FALSE
INVARIANTS RunsOnlyVerified RequirementsHold AsksAndTells HistoryIsTrue
