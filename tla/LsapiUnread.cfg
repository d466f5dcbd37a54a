\* Two requests, the first with a body that may be left unread.
CONSTANTS
  PktHdr = 2
  ReqLen = 3
  ReqBufSize = 4
  ChunkSize = 1
  RespHdr = 2
  RespBufSize = 2
  MaxPacket = 3
  PktHeaders = 3
  IovecSize = 7
  MaxRequests = 2
  MaxBody = 2
  MaxHeaders = 1
  MaxResponse = 0
  MaxLong = 0
SPECIFICATION SafeSpec
INVARIANT NextRequestFollows
CHECK_DEADLOCK FALSE
