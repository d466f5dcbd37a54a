\* recv() may return as much as the header limit, as in the code (64 KB each).
CONSTANTS
  MaxHeader = 2
  RecvSize = 2
  ChunkSize = 1
  MaxBody = 2
  MaxSurplus = 0
  MaxResponse = 0
SPECIFICATION SafeSpec
INVARIANT OnlyOversizedRejected
CHECK_DEADLOCK FALSE
