SPECIFICATION Spec
CONSTANTS
  Keys = {k1}
  Width = 2
  Values = {v1, v2}
  Citing = {v2}
  Submits = {s1, s2, s3}
  Forgets = {}
  MaxRejected = 1
  None = None
INVARIANTS
  OneBuildPerKey
  RefusedOnce
  VerdictsCoherent
SYMMETRY RequestSymmetry
CHECK_DEADLOCK FALSE
