SPECIFICATION LoopSpec
CONSTANTS
  Kinds = {"single", "trinity"}
  MaxSteps = 3
  Pool <- MCPool
  RouterKinds = {"none", "regex", "onnx", "foreign"}
  Prompts = {"both", "plain"}
  Logits <- MCLogits
  NoNumber <- MCNoNumber
  Streaming = {"s"}
  RoleOrder <- MCRoleOrder
  RoleProvider <- MCRoleProvider
  CallIds <- MCCallIds
  MaxText = 2
  None = None
INVARIANTS AnsweredBeforeSent AnswerTakenOver SentRight
PROPERTIES ImplementsStream LoopEnds
CHECK_DEADLOCK FALSE
