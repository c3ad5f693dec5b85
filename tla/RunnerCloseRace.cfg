SPECIFICATION FairSpec
CHECK_DEADLOCK FALSE
CONSTANTS
  Actions <- OneAction
  AgentOf <- OneAgentOf
  Parent <- Family
  NoAgent = "nobody"
  Delegated <- NoTasks
  Budget <- Calm
PROPERTIES
  ClosingEnds
