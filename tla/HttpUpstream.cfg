SPECIFICATION FairSpec
CONSTANTS
  Restarters = {r1, r2}
  Requests = {q1}
  Unguarded = {}
  MaxStarts = 2
INVARIANTS
  OneService
  NoOrphanService
  SessionServed
PROPERTIES
  NotStranded
  StartWoken
  StopReachesService
  ImplementsSession
CHECK_DEADLOCK FALSE
