CONSTANTS
  m1 = m1
  m2 = m2
  Services <- OneService
  Streaming <- SecondStreams
  MaxCalls = 2
SPECIFICATION Spec
CHECK_DEADLOCK FALSE
INVARIANT
  DisabledIsOff
