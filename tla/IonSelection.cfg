\* Two updates of an identifier, one after the other or overlapping.
CONSTANTS
  Callers = {c1, c2}
  MaxKeys = 6
SPECIFICATION Spec
INVARIANTS UpdateKeyIsSelectable
CHECK_DEADLOCK FALSE
