CONSTANTS
  MaxOut = 3
  HighWater = 2
SPECIFICATION FairSpec
CHECK_DEADLOCK FALSE
INVARIANTS
  TypeOK
  ResponseFaithful
  ContextScope
  NoUncaughtError
PROPERTIES
  ImplReleased
  ResponseEnds
