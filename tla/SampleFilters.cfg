\* Two modules, so that one may answer before the other is called, and a body in
\* two pieces.  A streaming response takes three calls; two streaming samples
\* make ten.
CONSTANTS
  N = 2
  MaxChunks = 2
  MaxCalls = 10
  MaxOwn = 3
SPECIFICATION SSpec
INVARIANTS
  TypeOK
  CallbackOrder
  LocalStopsChain
  AnsweredOnce
  LsapiOneResponse
  EchoComplete
CHECK_DEADLOCK FALSE
