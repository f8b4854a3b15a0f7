\* Two clients, two lines of up to two segments, sockets that hold one message
\* in either direction, so that server and client can block each other.
CONSTANTS
  Clients = {c1, c2}
  NULL = NULL
  Sends = {"part", "chat", "connected"}
  MaxSegments = 4
  BufCap = 2
  SockCap = 1
  InCap = 1
  Sigint = FALSE
SPECIFICATION FairSysSpec
INVARIANT NeverThrownOut
PROPERTY LinesServed
\* All lines may have been typed, and server and clients wait for each other.
CHECK_DEADLOCK FALSE
