SPECIFICATION FairSpec
CONSTANTS
  NumFiles = 2
  v1 = v1  v2 = v2
  a1 = a1  a2 = a2  b1 = b1  c2 = c2  u = u
  Versions = {v1, v2}
  UserBytes = {u}
  Absent = Absent
  Partial = Partial
  None = None
  Bytes = {a1, a2, b1, c2, u}
  Tree <- MCSmallTree
  BatchOf <- MCSmallBatchOf
  GroupBatches = 1
  SameVolume = FALSE
  LateError = FALSE
  ExposedFiles = {2}
  Locked = {}
INVARIANT AppliedIsOnDisk
PROPERTIES Converges
