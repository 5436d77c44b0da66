SPECIFICATION CacheSpec
CONSTANTS
  Urls = {page, moved}
  Nowhere = nowhere
  Visits = {v1, v2, v3}
  Ttl = 1
  MaxTicks = 3
INVARIANTS
  StructureOfPage
CHECK_DEADLOCK FALSE
