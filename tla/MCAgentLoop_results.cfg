SPECIFICATION LoopSpec
CONSTANTS
  Kinds = {"single"}
  MaxSteps = 2
  Pool <- MCPool
  RouterKinds = {"none"}
  Prompts = {"both", "plain"}
  Logits <- MCLogits
  NoNumber <- MCNoNumber
  Streaming = {"s"}
  RoleOrder <- MCRoleOrder
  RoleProvider <- MCRoleProvider
  CallIds <- MCCallIds
  MaxText = 1
  None = None
INVARIANTS ResultsDelivered
CHECK_DEADLOCK FALSE
