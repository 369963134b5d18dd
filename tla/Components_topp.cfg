SPECIFICATION Spec
CONSTANTS
  Words = {"-h", "-m", "--port", "--no-nats", "--verbose", "9", "x", ""}
  Numbers = {"9"}
  MaxArgs = 3
  Environments <- MCEnvironments
  DeviceCount = 2
  FreeMemory <- MCFreeMemory
  GpuDevices <- MCGpuDevices
  PoolSize = 8
  Align = 4
  Width = 32
  Requests <- MCSizes
  Objects <- MCObjects
  Bodies <- MCBodies
  Numerals = {"100", "0.7"}
  VocabFiles <- MCVocabFiles
  Texts <- MCTexts
  AddedTokens <- MCAddedTokens
  NVocab = 3
  Weights <- MCWeights
  PSteps = 4
  Tools <- MCTools
  OtherTools = {"shell"}
  Answers <- MCAnswers
  MaxToolCalls = 2
  MaxStarts = 2
  RequestIds = {"r1", "r2"}
  MaxWire = 4
INVARIANT SampledInNucleus
CHECK_DEADLOCK FALSE
