\* Two clients, one or two descriptors for them, one worker; one of the requests
\* has a body, and the other client may stop reading in the middle of its
\* response.
CONSTANTS
  Clients = {c1, c2}
  WithBody = {c1}
  MaxFd = 2
  NumWorkers = 1
  MaxMeddle = 2
  Slow = {c2}
  MaxStalls = 1
  NoClient = NoClient
SPECIFICATION Spec
INVARIANTS
  TypeOK
  TableAgrees
  NothingForgotten
  SocketFile
PROPERTIES
  ClosedForCause
  StopsOnSignal
  ServedEventually
CHECK_DEADLOCK FALSE
