CONSTANTS
  Caller = {w1, w2}
  Conn = {1, 2}
  Keepalive = FALSE
  PingIdle = FALSE
  MaxDoublings = 2
  MaxPings = 1
  NodeMajor = 18
  Events <- Ending
SPECIFICATION FairSpec
CHECK_DEADLOCK FALSE
PROPERTIES
  RequestSettles
  IdleConnectionCloses
