\* Expected to fail: start-server on a port that is in use.
CONSTANTS
  Shell = sh
  Pids = {sh, p1, p2}
  Ports = {n1}
  Zero = Zero
  None = None
SPECIFICATION Spec

INVARIANT ChildRunsServer
\* All processes may have ended.
CHECK_DEADLOCK FALSE
