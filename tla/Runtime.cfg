SPECIFICATION Spec
CONSTANTS
  c1 = c1
  c2 = c2
  Callers <- MCTwoConnections
  PromptSizes <- MCPromptSizes
  TokenLimits <- MCTokenLimits
  NCtx = 1
  NBatch = 2
  StubSize = 2
  PeersMayLeave = TRUE
INVARIANTS RuntimeTypeOK AtMostOneLateAccept ServerStopsFirst ExitReleases CrashOnlyUnderRequest
CHECK_DEADLOCK FALSE
PROPERTY ImplementsContract
SYMMETRY MCSymmetry
