SPECIFICATION Spec
CONSTANTS
  c1 = c1
  c2 = c2
  Callers <- MCOneConnection
  PromptSizes <- MCPromptSizes
  TokenLimits <- MCTokenLimits
  NCtx = 2
  NBatch = 2
  StubSize = 2
  PeersMayLeave = FALSE
CHECK_DEADLOCK FALSE
PROPERTY CtrlCStops
