SPECIFICATION Spec
CONSTANTS
  MaxCalls = 5
  MaxSessions = 3
  MaxMessages = 0
  NativeFails = FALSE
  Disciplined = FALSE
INVARIANT SingleWorker
CHECK_DEADLOCK FALSE
