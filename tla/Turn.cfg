SPECIFICATION FairSpec
CONSTANTS
  Turns <- MCTurns
  Inputs <- MCInputs
  Kind <- MCWithFinish
  BoundTo <- MCBoundTo
  MaxMishaps = 1
  Calls = {"read", "write"}
  Responses <- MCResponses
  Parallel = {"read"}
  Size <- MCSize
  Budget = 10
  CompactAt = 9
  PromptSize = 2
  KeepTokens = 3
  Moments = {"top", "compacting", "sample"}
  MaxSteps = 2
INVARIANTS
  PairedContext
  ProjectionFollowsFile
  StepsMirrorCalls
  InputsShownOnce
  TokensAreCounted
PROPERTIES
  ImplementsToolCalls
  TurnsEnd
CHECK_DEADLOCK FALSE
