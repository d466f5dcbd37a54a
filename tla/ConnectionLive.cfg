\* As small as possible with a body that has to be waited for and a second
\* write that has to wait for the first.
CONSTANTS
  MaxHeader = 1
  RecvSize = 1
  ChunkSize = 1
  MaxBody = 1
  MaxSurplus = 0
  MaxResponse = 2
SPECIFICATION Spec
PROPERTIES
  RequestEnds
  ShutdownReleases
CHECK_DEADLOCK FALSE
