SPECIFICATION ServeSpec
CONSTANTS
  MaxDepth <- MCMaxDepth
  Guard <- MCGuard
  MinConfidence = 1
  One = 1
  MinChars = 2
  JudgeMinChars = 2
  JudgeEveryN = 2
  MaxText = 3
  MaxSteps = 2
  CallIds = {c1}
  NoCall = NoCall
  MaxTools = 1
INVARIANT SeenOnce
PROPERTIES OneEnd Ends
CHECK_DEADLOCK FALSE
