CONSTANTS
  t1 = t1
  t2 = t2
  Worker = {t1, t2}
  Unclaimed = Unclaimed
  Name <- Names
  Kind = {"cv", "fifo", "fast_fifo"}
  Attr <- Attrs
  Shared = TRUE
  MAX_GRAPHS = 1
  MAX_NODES = 3
  MAX_EDGES = 5
  MAX_DEGREE = 3
SPECIFICATION PlannedSpec
INVARIANTS CountersMatch  ExclusiveOwnership OpenEndsOwned
CHECK_DEADLOCK FALSE
