SPECIFICATION Spec
CONSTANTS
  Callers = {c1, c2}
  Chain <- MCChain
  Vendors <- MCVendors
  Deployments <- MCDeployments
  KnobLists <- MCKnobLists
  Sites <- MCSites
  Inside <- MCInside
  MaxAttempts = 2
  Threshold = 1
  Images = 1
  Showing = {c1}
  MaxOpenings = 2
  MaxCalls = 2
  MaxTexts = 1
  None = None
INVARIANTS FailsRightly ChunksFaithful ImagesRight
PROPERTY CallsEnd
CHECK_DEADLOCK FALSE
