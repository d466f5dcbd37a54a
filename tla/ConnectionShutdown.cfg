\* A response of one byte, no body.
CONSTANTS
  MaxHeader = 1
  RecvSize = 1
  ChunkSize = 1
  MaxBody = 0
  MaxSurplus = 0
  MaxResponse = 1
SPECIFICATION SafeSpec
INVARIANT InFlightFinish
CHECK_DEADLOCK FALSE
