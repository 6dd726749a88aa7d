CONSTANTS
  Users = {u, admin}
  u = u
  admin = admin
  Admins = {admin}
  Owners = {u}
  Expirable = {1}
  Requests = {r1, r2}
  Null = Null
  NewRows <- MCNewRows
  Searches <- MCSearches
  MemoryLimit = 1
  Proposals = 1
  MaxMemories = 2
  MaxFaults = 1
SPECIFICATION Spec
SYMMETRY Symmetry
CHECK_DEADLOCK FALSE
INVARIANT TypeOK
INVARIANT ForgottenIsUnindexed
INVARIANT LiveIsIndexed
PROPERTY NothingHiddenFound
PROPERTY SearchFinds
