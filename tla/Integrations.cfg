SPECIFICATION Spec
CONSTANTS
  v1 = v1  v2 = v2  d1 = d1  d2 = d2  u = u
  changes = changes  drops = drops  dropsEntry = dropsEntry
  Products = {changes, drops, dropsEntry}
  Versions = {v1, v2}
  Wants <- MCWants
  WantsEntry <- MCWantsEntry
  UserData = {u}
  Absent = Absent
  None = None
  GroupBatches = 2
  LateEdits = FALSE
INVARIANTS DataKept LeftAsFound RollbackRestores
PROPERTIES TakesItsOwn
