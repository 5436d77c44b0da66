SPECIFICATION FairSpec
CONSTANTS
  web = web
  pipe = pipe
  vault = vault
  Order <- MCOrder
  Http = {web}
  Stdio = {pipe}
  Secret = {vault}
  OAuth = {web}
  Requests = {r1, r2}
  MaxOffer = 2
  MaxPages = 2
INVARIANTS
  GatewayTypeOK
  NothingOutlives
  NothingHidden
PROPERTIES
  CatalogNeverBackwards
  EveryRequestEnds
