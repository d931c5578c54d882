CONSTANTS
  Caller = {w1}
  Conn = {1, 2}
  Keepalive = FALSE
  PingIdle = FALSE
  MaxDoublings = 2
  MaxPings = 1
  NodeMajor = 18
  Events <- OnlyAbort
SPECIFICATION Spec
CHECK_DEADLOCK FALSE
INVARIANT
  NeverSpins
