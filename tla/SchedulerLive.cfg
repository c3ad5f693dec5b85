SPECIFICATION FairSpec
CHECK_DEADLOCK FALSE
CONSTANTS
  Effects <- PollEffects
  Kind <- PollKind
  Needs <- PollNeeds
  Budget <- Interrupted
INVARIANTS
  AttentionTracksRequests
PROPERTIES
  ClosingFinishes
  AnswersAreNoticed
  SessionsEnd
