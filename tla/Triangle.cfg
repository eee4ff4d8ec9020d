CONSTANTS
  src = src
  mid = mid
  join = join
  NoOne = NoOne
  Node <- TriangleNode
  Edge <- TriangleEdge
  producer <- TriangleProducer
  consumer <- TriangleConsumer
  nr_produce <- TriangleProduce
  nr_consume <- TriangleConsume
  nr_threshold <- TriangleThreshold
  nr_init <- Triangle0
  init_skips <- Triangle0
  BackEdge = {}
  RingEdge = {}
  nmemb <- Triangle1
  MaxJobs = 2
SPECIFICATION Spec
CHECK_DEADLOCK FALSE
INVARIANTS FiresOnlyWhenReady NoLostWakeup TerminatesAfterProducers OneLockPerThread
PROPERTIES SlowPathIsExhausted ImplementsDataflow
