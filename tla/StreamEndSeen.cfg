CONSTANTS
  Null = Null
  Streams = {s1}
  Keys = {k1}
  KeyOf <- MCKeyOf
  Callers <- MCCallers
  Cancels = {c1}
  Observers = {o1}
  Expirable = {}
  MaxDeltas = 1
  MaxFaults = 0
  MaxCrashes = 0
  Overtaking = FALSE
SPECIFICATION Spec
INVARIANT ObserverToldOfEnd
CHECK_DEADLOCK FALSE
