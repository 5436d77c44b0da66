SPECIFICATION Spec
CONSTANTS
  web = web
  pipe = pipe
  vault = vault
  Order <- MCOrder
  Http = {web}
  Stdio = {pipe}
  Secret = {vault}
  OAuth = {web}
  Requests = {r1}
  MaxOffer = 2
  MaxPages = 2
PROPERTIES
  PendingSkillsKept
