SPECIFICATION Spec
CONSTANTS
  Keys = {k1, k2}
  Width = 1
  Values = {v1}
  Citing = {}
  Submits = {s1, s2}
  Forgets = {}
  MaxRejected = 1
  None = None
INVARIANTS
  SurfaceFresh
CHECK_DEADLOCK FALSE
