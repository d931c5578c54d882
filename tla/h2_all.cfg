CONSTANTS
  Caller = {w1, w2, w3}
  Conn = {1, 2}
  Keepalive = TRUE
  PingIdle = TRUE
  MaxDoublings = 2
  MaxPings = 1
  NodeMajor = 18
  Events <- Everything
SPECIFICATION Spec
CHECK_DEADLOCK FALSE
INVARIANTS
  TypeOK
  HookIsCurrent
  StreamCountExact
  ClosuresConsistent
  NoLostCaller
  OpenStreamsWatched
PROPERTY
  OnlyIdleConnectionsClose
