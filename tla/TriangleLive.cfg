CONSTANTS
  src = src
  mid = mid
  join = join
  NoOne = NoOne
  Node <- TriangleNode
  Edge <- TriangleEdge
  producer <- TriangleProducer
  consumer <- TriangleConsumer
  nr_produce <- TriangleProduce
  nr_consume <- TriangleConsume
  nr_threshold <- TriangleConsume
  nr_init <- Triangle0
  init_skips <- Triangle0
  BackEdge = {}
  RingEdge = {}
  nmemb <- Triangle1
  MaxJobs = 1
SPECIFICATION Spec
CHECK_DEADLOCK FALSE
PROPERTIES EveryNodeTerminates
