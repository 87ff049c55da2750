SPECIFICATION Spec
CONSTANTS
  k1 = k1
  Uploads = {u1}
  Target <- MCTarget
  Keys = {k1}
  Values = {v1, v2}
  Numbers = {1, 2}
  Tasks = {r1, r2}
  Faults = {}
  NONE = NONE
  ABSENT = ABSENT
  EMPTY = EMPTY
  MANGLED = MANGLED
INVARIANT ETagOfCompleted
CHECK_DEADLOCK FALSE
