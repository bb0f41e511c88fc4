SPECIFICATION FairSpec
CONSTANTS
  MaxCalls = 3
  MaxSessions = 1
  MaxMessages = 1
  NativeFails = TRUE
  Disciplined = FALSE
PROPERTY CallsComplete
CHECK_DEADLOCK FALSE
