CONSTANTS
  SignBit = 4
  writeMaxBytes = 6
  readMaxBytes = 5
  compressMinBytes = 3
  MaxChunk = 6
  Streams <- AllStreams
  Hints <- AllHints
SPECIFICATION Spec
CHECK_DEADLOCK FALSE
INVARIANTS
  ReadAsWritten
  BufferBounded
