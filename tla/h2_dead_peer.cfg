CONSTANTS
  Caller = {w1, w2}
  Conn = {1, 2}
  Keepalive = TRUE
  PingIdle = FALSE
  MaxDoublings = 1
  MaxPings = 1
  NodeMajor = 18
  Events <- OnlySilence
SPECIFICATION RequestsSpec
CHECK_DEADLOCK FALSE
PROPERTY
  DeadPeerClosesStreams
