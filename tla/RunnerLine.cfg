SPECIFICATION Spec
CHECK_DEADLOCK FALSE
CONSTANTS
  Actions <- LineActions
  AgentOf <- LineAgentOf
  Parent <- Family
  NoAgent = "nobody"
  Delegated <- LineTasks
  Budget <- Human
INVARIANTS
  ResultsAreKept
  EndedIsSettled
PROPERTIES
  ImplementsQueue
