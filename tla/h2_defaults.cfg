CONSTANTS
  Caller = {w1, w2}
  Conn = {1, 2, 3}
  Keepalive = FALSE
  PingIdle = FALSE
  MaxDoublings = 2
  MaxPings = 1
  NodeMajor = 16
  Events <- WithoutAbort
SPECIFICATION Spec
CHECK_DEADLOCK FALSE
INVARIANTS
  WaitedDialIsHeard
  OpenStreamsTracked
