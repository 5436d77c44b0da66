SPECIFICATION FairSpec
CONSTANTS
  Applies = {a1, a2}
  Restarts = {r1}
  Probers = {p1}
  Calls = {c1}
  MaxVersion = 2
  MaxLaunches = 3
  MiaouOnly = {1}
  Broken = {2}
INVARIANTS
  OneUpdateAtATime
  NoExitDuringUpdate
  NoSilentUpdate
  NewcomerHintedUnlessCut
PROPERTIES
  NeverBackwards
  UpdateRuns
CHECK_DEADLOCK FALSE
