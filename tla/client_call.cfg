CONSTANTS
  Requests <- AllCalls
  ErrorCodes <- SomeCodes
  MaxChunks = 2
  MaxSent = 2
SPECIFICATION FairSpec
CHECK_DEADLOCK FALSE
INVARIANT
  SuccessReadAll
PROPERTIES
  DeadlineReported
  CleanReturn
  DeadlineBounds
  StreamReleased
  LiveRequestReleased
