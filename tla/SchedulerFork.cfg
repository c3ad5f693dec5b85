SPECIFICATION Spec
CHECK_DEADLOCK FALSE
CONSTANTS
  Effects <- ForkEffects
  Kind <- ForkKind
  Needs <- ForkNeeds
  Budget <- Everything
INVARIANTS
  TerminalResolvesRequests
  CompletedMeansAllDone
  SuspendingEffectsWereDue
  NoLostWakeup
PROPERTIES
  PauseEndsDeliberately
  CancelledOnRequest
  ImplementsLifecycle
