\* Headers of up to three bytes (one more than the limit), two-byte recv()s
\* that may carry body bytes behind the headers, a body of up to two bytes
\* read in one-byte chunks (so read_chunk_ may hold more than is asked for),
\* a surplus byte, and a two-byte response in one or two writes.
CONSTANTS
  MaxHeader = 2
  RecvSize = 2
  ChunkSize = 1
  MaxBody = 2
  MaxSurplus = 1
  MaxResponse = 2
SPECIFICATION SafeSpec
INVARIANTS
  TypeOK
  BodyIntact
  NoFalseAbort
  ViewStable
  ResponseDelivered
  NoLostWakeup
  RecvOnlyForBody
CHECK_DEADLOCK FALSE
