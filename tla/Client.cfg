SPECIFICATION Spec
CONSTANTS
  l1 = l1 l2 = l2
  Launches = {l1, l2}
  None = None
  Commands <- MCCommands
  Policy = "continue"
  Offered <- MCOffered
  Installed <- MCInstalled
  Legacies <- MCLegacies
  MaxKills = 1
SYMMETRY Symmetric
CHECK_DEADLOCK FALSE
INVARIANTS AnswersForTheRun LeavesNothing InstalledIsUsable
