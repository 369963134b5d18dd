SPECIFICATION EngineSpec
CONSTANTS
  c1 = c1
  Callers <- MCOneCaller
  PromptSizes <- MCPromptSizes
  TokenLimits <- MCBothLimits
  NCtx = 3
  NBatch = 2
  StubSize = 2
PROPERTY TokensOnlyWhileGenerating
CHECK_DEADLOCK FALSE
