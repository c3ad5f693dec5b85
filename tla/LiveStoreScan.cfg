SPECIFICATION Spec
CHECK_DEADLOCK FALSE
CONSTANTS
  Creations = {1}
  MaxRecords = 3
  MaxScans = 1
INVARIANT OneLiveWriter
