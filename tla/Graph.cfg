CONSTANTS
  Worker = {}
  Unclaimed = Unclaimed
  Name <- NodeName
  Kind = {"cv"}
  Attr <- Attrs
  Shared = FALSE
  MAX_GRAPHS = 1
  MAX_NODES = 5
  MAX_EDGES = 5
  MAX_DEGREE = 5
  App <- Apps
  Rate <- Rates
  MaxEdges = 3
SPECIFICATION GraphSpec
INVARIANTS ReachabilityExact NeighboursAgree DepthIsLongestPath RatesBalanced
PROPERTIES RatesTerminate
CHECK_DEADLOCK FALSE
