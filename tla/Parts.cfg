SPECIFICATION PartsSpec
CONSTANTS
  Requests = {q1, q2}
  brave = brave
  ddg = ddg
  Chain <- MCChain
  Spaced = {ddg}
  Picturing = {brave}
  Searches = {s1, s2, s3}
  Budget = 4
  MinAttempt = 1
  MinFetch = 1
  MaxWait = 2
  Interval = 2
  Cooldowns = {3, 9}
  Forever = 9
  MaxClock = 7
  Urls = {page, moved}
  Nowhere = nowhere
  Visits = {v1, v2, v3}
  Ttl = 1
  MaxTicks = 3
  Contents = {c0, c1, c2, c3}
  Reference = c0
  Refusable = {c1, c2}
  Moving = {c2, c3}
  Checks = {k1, k2, k3}
  CacheMax = 2
  MaxEdits = 3
  Keys = {a, comment}
  Comment = comment
  Scalars = {x, y}
  NullValue = null
  Depth = 3
  Sessions = {s}
  Refs = {d1, d2, d3}
  DocCalls = {o1, o2, o3}
  Quota = 1
  DocTtl = 1
  MaxDocTicks = 2
  Lives = {4, 12, 30}
  MarginCap = 15
  PollCap = 5
  BackOffCap = 4
  MaxTokens = 3
  MaxTime = 13
INVARIANTS
  SubprocessLeaves
  EntryCoherent
  RestartSound
  MigrationKeepsConfig
PROPERTIES
  ImplementsSession
  EnginesSpared
  SessionsKept
  TokenSound
CHECK_DEADLOCK FALSE
