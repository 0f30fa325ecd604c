SPECIFICATION Spec
CONSTANTS
  Call = {c1, c2}
  Kid = {k}
  MaxGen = 2
  Chains <- MCChains
  Docs <- MCDocs
  Served <- MCServed
  Claims <- MCClaims
  Interval = 2
  TTL = 2
  Lease = 1
  Timeout = 1
  ClientLimit = 1
  MaxTime = 3
  None = None
INVARIANTS NothingStale RefusedRightly BuiltRight
PROPERTY CallsEnd
CHECK_DEADLOCK FALSE
