\* Two slots and three pids: the table fills up, and a third job is refused.
\* No symmetry (liveness).
CONSTANTS
  MaxProcess = 2
  Pids = {p1, p2, p3}
  NoPid = NoPid
  Signals = {"fatal", "int", "benign"}
  Commands = {"cmd", "empty"}
SPECIFICATION Spec
INVARIANTS TypeOK OccupiedPrefix ListedAreChildren PsListsEveryJob DoneMeansDone
PROPERTIES JobKeepsSlot EventuallyReaped
\* The shell may exit, and then nothing but its orphans is left.
CHECK_DEADLOCK FALSE
