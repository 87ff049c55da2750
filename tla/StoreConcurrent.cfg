SPECIFICATION Spec
CONSTANTS
  b1 = b1
  k1 = k1
  k2 = k2
  d1 = d1
  d2 = d2
  Buckets = {b1}
  Keys = {k1, k2}
  Dirs = {d1, d2}
  ROOT = ROOT
  Parent <- MCNestedParent
  Above <- MCNestedAbove
  Trimmed <- MCPlainNames
  Values = {v1}
  Requests = {r1, r2, r3}
  Ops = {"put", "copy", "delete", "cleanup"}
  Serialised = {}
  Faults = {"unlink"}
  ABSENT = ABSENT
  EMPTY = EMPTY
  MANGLED = MANGLED
  NONE = NONE
SYMMETRY ValueSymmetry
INVARIANTS NoStrayDirs AnsweredPutStays
PROPERTY SweepFollowsDelete
CHECK_DEADLOCK FALSE
