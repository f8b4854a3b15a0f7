\* The shell and two processes it forks, two ports; no symmetry (liveness).
CONSTANTS
  Shell = sh
  Pids = {sh, p1, p2}
  Ports = {n1, n2}
  Zero = Zero
  None = None
SPECIFICATION FairSpec
INVARIANT TypeOK
PROPERTIES  SignalStopsServer
\* All processes may have ended.
CHECK_DEADLOCK FALSE
