\* Every spelling of the database, every form of hostPort, one or two fields
\* missing, and the native types of each database with sizes around the limit.
SPECIFICATION Spec
CONSTANTS
  MaxInt32 = 9
  Value <- MCValue
  Files <- MCFiles
  Natives <- MCNatives
INVARIANTS
  TypeOK
  KnownEverywhere
  TestedIsAccepted
  HostPortResolves
  ServerAddressed
  SizesAccepted
  ModifiersKeepType
\* Nothing is left to do once ingest has exited.
CHECK_DEADLOCK FALSE
