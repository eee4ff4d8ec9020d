CONSTANTS
  Writer = {w1, w2}
  Bits = 4
  min_count = 3
  MaxWrites = 18
SPECIFICATION Spec
INVARIANTS SlotExclusive
PROPERTIES ImplementsFifo AllDelivered
CHECK_DEADLOCK FALSE
