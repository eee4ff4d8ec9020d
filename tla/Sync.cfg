CONSTANTS
  Thread = {t1, t2, t3}
  Waiters = {{t1}, {t1, t2}}
  Tickets = 4
  NULL = NULL
  Seqs = 8
  MaxSignals = 2
SPECIFICATION Spec
INVARIANTS NoLostSignal
PROPERTIES ImplementsFifoLock EveryWaiterEnters AllWorkIsDone
CHECK_DEADLOCK FALSE
