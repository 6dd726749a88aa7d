CONSTANTS
  Null = Null
  Streams = {s1}
  Keys = {k1}
  KeyOf <- MCKeyOf
  Callers <- MCCallers
  Cancels = {c1}
  Observers = {}
  Expirable = {s1}
  MaxDeltas = 2
  MaxFaults = 1
  MaxCrashes = 1
  Overtaking = TRUE
SPECIFICATION Spec
INVARIANT TypeInv
INVARIANT CompletedInv
INVARIANT ReplyFaithful
INVARIANT OutputKept
INVARIANT SnapshotIsReply
INVARIANT PointerResolves
PROPERTY TextGrows
PROPERTY SeqNeverGoesBack
PROPERTY KeepsPromise
CONSTRAINT OneMishap
CHECK_DEADLOCK FALSE
