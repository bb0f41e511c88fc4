SPECIFICATION FairSpec
CONSTANTS
  MaxCalls = 4
  MaxSessions = 2
  MaxMessages = 2
  NativeFails = TRUE
  Disciplined = TRUE
INVARIANT AsyncTypeOK
INVARIANT NoOrphan
INVARIANT CommandsInOrder
INVARIANT MessagesConserved
INVARIANT NobodyForgotten
PROPERTY ErrorEndsReading
PROPERTY FailureReported
PROPERTY CallsCompleteUnlessStranded
CHECK_DEADLOCK FALSE
