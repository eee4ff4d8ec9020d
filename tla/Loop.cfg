CONSTANTS
  src = src
  mid = mid
  join = join
  NoOne = NoOne
  Node <- LoopNode
  Edge <- LoopEdge
  producer <- LoopProducer
  consumer <- LoopConsumer
  nr_produce <- Loop1
  nr_consume <- Loop1
  nr_threshold <- Loop1
  nr_init <- Loop0
  init_skips <- LoopSkips
  BackEdge = {2}
  RingEdge = {1}
  nmemb <- Loop4
  MaxJobs = 6
SPECIFICATION Spec
CHECK_DEADLOCK FALSE
INVARIANTS TypeOK FiresOnlyWhenReady RingHasRoom TokensImplyData RingsDrained
PROPERTIES ImplementsDataflow EveryNodeTerminates
