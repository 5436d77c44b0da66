SPECIFICATION FairSpec
CONSTANTS
  Keys = {k1}
  Width = 1
  Values = {v1, v2}
  Citing = {v2}
  Submits = {s1, s2}
  Forgets = {f1}
  MaxRejected = 1
  None = None
INVARIANTS
  AcceptedIsServed
  CacheNeverCites
  SurfaceFreshAlone
PROPERTIES
  EveryRequestAnswered
CHECK_DEADLOCK FALSE
