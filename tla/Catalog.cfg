SPECIFICATION FairSpec
CHECK_DEADLOCK FALSE
CONSTANTS
  Projects <- MCProjects
  Present <- MCPresent
  Requests <- MCRequests
  Kind <- MCKind
  Project <- MCProject
  Target <- MCTarget
  Asked <- MCAsked
  Workspaces <- MCWorkspaces
  Above <- MCAbove
  Managed = {"data"}
  QueueCapacity = 2
  MaxMishaps = 2
INVARIANTS
  WorkspacesDisjoint
  EntriesAreLive
PROPERTIES
  BusyProjectsStay
  RequestsEnd
