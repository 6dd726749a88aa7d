CONSTANTS
  Observers = {o1}
  MaxSeq = 2
SPECIFICATION Spec
INVARIANT LiveDeltaDelivered
CHECK_DEADLOCK FALSE
