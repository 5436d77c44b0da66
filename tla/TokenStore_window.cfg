SPECIFICATION TokenSpec
CONSTANTS
  Lives = {4, 30}
  MarginCap = 15
  PollCap = 5
  BackOffCap = 4
  MaxTokens = 3
  MaxTime = 13
PROPERTIES
  WindowSampled
CHECK_DEADLOCK FALSE
