\* Three connections and three segments, Ctrl-C at any moment: fragments, several
\* messages in one read, a buffer that overflows, peers that reset before, at
\* and behind the client the server is sending to.
CONSTANTS
  Clients = {c1, c2, c3}
  NULL = NULL
  Sends = {"part", "chat", "connected"}
  MaxSegments = 3
  BufCap = 2
  SockCap = 1
  Sigint = TRUE
SPECIFICATION Spec
SYMMETRY ClientSymmetry
INVARIANTS TypeOK FdsMatchList NamesOK NothingStuck FramingExact NoGaps
\* The peers may have sent all they send, and the server then sleeps in select().
CHECK_DEADLOCK FALSE
