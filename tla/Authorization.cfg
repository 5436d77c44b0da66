SPECIFICATION FairSpec
CONSTANTS
  Runs = {r1, r2}
  Calls = {c1}
  Renewals = {b1}
  Requests = 1
  None = None
INVARIANTS
  LinkAwaited
  WaiterReachable
  RouteWoken
  NeverLeftInteractive
PROPERTIES
  DueLoweredByToken
  EveryRequestServed
  ImplementsConsent
CHECK_DEADLOCK FALSE
