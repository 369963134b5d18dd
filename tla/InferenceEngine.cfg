SPECIFICATION EngineSpec
CONSTANTS
  c1 = c1
  Callers <- MCOneCaller
  PromptSizes <- MCPromptSizes
  TokenLimits <- MCBothLimits
  NCtx = 3
  NBatch = 2
  StubSize = 2
INVARIANTS EngineTypeOK ReadyMeansLoaded StoppedMeansReleased AloneNeverFaults AloneOwnContext AloneOwnDecoder
PROPERTIES WorkerIsJoined CallsReturn
CHECK_DEADLOCK FALSE
