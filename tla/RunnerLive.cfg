SPECIFICATION FairSpec
CHECK_DEADLOCK FALSE
CONSTANTS
  Actions <- PairActions
  AgentOf <- PairAgentOf
  Parent <- Family
  NoAgent = "nobody"
  Delegated <- PairTasks
  Budget <- Guided
INVARIANTS
  WorkIsAccounted
PROPERTIES
  ActionsSettle
