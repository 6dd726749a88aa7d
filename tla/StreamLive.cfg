CONSTANTS
  Null = Null
  Streams = {s1}
  Keys = {k1}
  KeyOf <- MCKeyOf
  Callers <- MCCallers
  Cancels = {}
  Observers = {o1}
  Expirable = {s1}
  MaxDeltas = 1
  MaxFaults = 0
  MaxCrashes = 1
  Overtaking = TRUE
SPECIFICATION FairSpec
PROPERTY ObserverReleased
PROPERTY SettlesAsPromised
CHECK_DEADLOCK FALSE
