SPECIFICATION Spec
CONSTANTS
  NumFiles = 3
  v1 = v1  v2 = v2
  a1 = a1  a2 = a2  b1 = b1  c2 = c2  u = u
  Versions = {v1, v2}
  UserBytes = {u}
  Absent = Absent
  Partial = Partial
  None = None
  Bytes = {a1, a2, b1, c2, u}
  Tree <- MCTree
  BatchOf <- MCBatchOf
  GroupBatches = 1
  SameVolume = TRUE
  LateError = FALSE
  ExposedFiles = {}
  Locked = {1}
INVARIANTS Restorable OwnedIsOnDisk LeftoversAreHeld
PROPERTY IsAtomic
