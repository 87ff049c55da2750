SPECIFICATION Spec
CONSTANTS
  b1 = b1
  k1 = k1
  k2 = k2
  d1 = d1
  d2 = d2
  Buckets = {b1}
  Keys = {k1, k2}
  Dirs = {d1}
  ROOT = ROOT
  Parent <- MCParent
  Above <- MCAbove
  Trimmed <- MCPlainNames
  Values = {v1, v2}
  Requests = {r1, r2, r3}
  Ops = {"put", "get", "head", "delete", "copy", "create_bucket", "delete_bucket"}
  Serialised = {"put", "get", "head", "delete", "copy", "create_bucket", "delete_bucket"}
  Faults = {}
  ABSENT = ABSENT
  EMPTY = EMPTY
  MANGLED = MANGLED
  NONE = NONE
SYMMETRY ValueSymmetry
PROPERTY ImplementsAtomicStore
CHECK_DEADLOCK FALSE
