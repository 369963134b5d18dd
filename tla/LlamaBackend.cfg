SPECIFICATION SerialSpec
CONSTANTS
  c1 = c1
  c2 = c2
  Callers <- MCTwoCallers
  PromptSizes <- MCPromptSizes
  TokenLimits <- MCTokenLimits
  NCtx = 4
  NBatch = 2
INVARIANTS BackendTypeOK PointersAgree OwnContext NoFault
PROPERTY GenerateReturns
