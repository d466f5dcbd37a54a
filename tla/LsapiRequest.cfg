\* Two requests on one connection or on two, each with a body of up to three
\* bytes, one of which may come with the request packet; a read takes two, from
\* the buffer and the stream.  The answer to a first request without a body may
\* take seven bytes, which in one write are three packets, one more than there
\* are packet headers before a flush.
CONSTANTS
  PktHdr = 2
  ReqLen = 3
  ReqBufSize = 4
  ChunkSize = 2
  RespHdr = 2
  RespBufSize = 2
  MaxPacket = 3
  PktHeaders = 3
  IovecSize = 7
  MaxRequests = 2
  MaxBody = 3
  MaxHeaders = 1
  MaxResponse = 2
  MaxLong = 7
SPECIFICATION SafeSpec
INVARIANTS
  TypeOK
  ResponseInOrder
  TotalIsLength
  Framed
  InStep
  BodyInOrder
CHECK_DEADLOCK FALSE
