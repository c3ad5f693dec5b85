SPECIFICATION FairSpec
CHECK_DEADLOCK FALSE
CONSTANTS
  Effects <- WaitEffects
  Kind <- WaitKind
  Needs <- WaitNeeds
  Budget <- OneCrash
PROPERTIES
  DeadlinesWake
