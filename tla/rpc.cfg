CONSTANTS
  ImplErrors <- Failures
  ImplTrailers <- Trailers
  MaxOut = 2
  MaxIn = 2
  Calls <- TheCalls
  OtherHeaders <- Headers
  OtherEnvelopes <- InEnvelopes
  OtherHeads <- ResponseHeads
  Replies <- OutEnvelopes
  OtherTrailers <- GrpcTrailers
  OtherErrors <- ErrorBodies
  MaxEnvelopes = 3
SPECIFICATION FairSpec
CHECK_DEADLOCK FALSE
INVARIANTS
  InputsInOrder
  ResponseWellFormed
  OneInput
  EarlyErrorsFirst
  SuccessIsComplete
  ErrorsAreRaised
PROPERTIES
  KeepsContract
  CallSettles
  HandlerStops
