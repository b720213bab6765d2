SPECIFICATION Spec
CONSTANTS
  i1 = i1  i2 = i2  v1 = v1  v2 = v2  u1 = u1
  Installations = {i1, i2}
  Versions = {v1, v2}
  None = None
  Kinds = {"profile", "shared", "shortcut", "firewall", "environment"}
  Firsts <- MCFirsts
  Texts = {u1}
  NewLine = NewLine
  Stranger = Stranger
  Edited = Edited
  Damaged = Damaged
  Unreadable = Unreadable
  MaxEvents = 4
  Unended = FALSE
SYMMETRY Symmetry
INVARIANT LeftAsFound
PROPERTIES StrangersKept UndoneAsBefore
CHECK_DEADLOCK FALSE
