SPECIFICATION FairSpec
CHECK_DEADLOCK FALSE
CONSTANTS
  Sessions <- MCSessions
  NoSession = "nobody"
  Program <- MCProgram
  Works <- MCWorks
  Readers <- MCReaders
  Excludes <- MCExcludes
  Bodies <- MCBodies
  Length <- MCLength
  Details <- MCDetails
  Binary <- MCBinary
  Records <- MCRecords
  Owner <- MCOwner
  RecordSize <- MCRecordSize
  BatchLimit = 2
  PageRoom = 4
  MaxTouches = 1
  MaxMishaps = 2
INVARIANTS
  DiskMatchesRows
  PublishedOnce
  OnlyOvertakenWorkIsDisowned
  ReadersMissNothing
PROPERTIES
  ReadersCatchUp
