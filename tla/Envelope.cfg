CONSTANTS
  Observers = {o1, o2, o3}
  MaxSeq = 2
SPECIFICATION Spec
INVARIANT CompletesWithEndFrame
PROPERTY EndIsStored
CHECK_DEADLOCK FALSE
SYMMETRY Symmetry
