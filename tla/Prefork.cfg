SPECIFICATION FairSpec
CONSTANTS
  N = 2  Pids = {p1, p2, p3}  NoPid = NoPid  MaxRestarts = 1
INVARIANTS TypeOK PoolExact NoOrphan
PROPERTIES DownIsReplaced CallEnds
CHECK_DEADLOCK FALSE
