CONSTANTS
  Worker = {}
  Unclaimed = Unclaimed
  Name <- NodeName
  Kind = {"cv"}
  Attr <- Attrs
  Shared = FALSE
  MAX_GRAPHS = 1
  MAX_NODES = 5
  MAX_EDGES = 5
  MAX_DEGREE = 2
  App <- LimitApps
  Rate <- Rates
  MaxEdges = 3
SPECIFICATION GraphSpec
INVARIANTS DepthIsLongestPath
CHECK_DEADLOCK FALSE
