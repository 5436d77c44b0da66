SPECIFICATION FairSpec
CONSTANTS
  Restarters = {r1}
  Requests = {q1}
  Unguarded = {q1}
  MaxStarts = 2
PROPERTIES
  EveryRequestGuarded
CHECK_DEADLOCK FALSE
