CONSTANTS
  Write = {a, b, c}
  Done = done
  MaxReads = 5
  Eager = {TRUE, FALSE}
SPECIFICATION FairSpec
INVARIANTS
  ResolvedWasDelivered
  AcknowledgedInTime
PROPERTIES
  FifoDelivery
  WritesSettle
