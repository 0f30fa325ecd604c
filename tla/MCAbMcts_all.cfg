SPECIFICATION Spec
CONSTANTS
  Kinds = {"rollout"}
  MaxSteps = 2
  Pool <- MCPool
  RouterKinds = {"onnx", "foreign"}
  Prompts = {"both"}
  Logits <- MCLogits
  NoNumber <- MCNaN
  Streaming = {"s"}
  RoleOrder <- MCRoleOrder
  RoleProvider <- MCRoleProvider
  CallIds <- MCCallIds
  MaxText = 1
  None = None
  MaxIterations = 3
  BranchingFactor = 2
  One = 2
  Confident = 2
  NaN <- MCNaN
  Raw <- MCRaw
  EventBuffer = 1
INVARIANTS TreeTells RolloutsHeard
PROPERTIES SearchImplementsStream SearchEnds
CHECK_DEADLOCK FALSE
