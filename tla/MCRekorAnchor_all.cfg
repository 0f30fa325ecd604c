SPECIFICATION Spec
CONSTANTS
  Thread <- MCThread
  Replica <- MCReplica
  Deployments <- MCDeployments
  Sizes = {1, 2, 3}
  Odd <- MCOdd
  MaxCrashes = 1
  MaxHops = 3
  None = None
INVARIANTS StoreTrusted BundlesJudged
PROPERTIES NoRollback VerifyEnds
CHECK_DEADLOCK FALSE
