SPECIFICATION Spec
CONSTANTS
  Event = {"a", "b"}
  EventLen <- MCEventLen
  DictLen = 1
  DictEvents = 1
  HasSchemas = TRUE
  Word = {0, 1}
  BufCap = 4
  max_record_events = 2
  max_record_bytes = 3
  Batch <- MCBatch
  FaultKinds = {"flush"}
  MaxFaults = 2
  MaxRecords = 2
INVARIANTS
  TypeOK
  IndexMatchesStream
  HeaderNamesTrailer
  BuilderWithinLimits
  FinishedReadsBack
  SalvageFindsWholeRecords
  OpenReadsAPrefix
PROPERTIES
  WritesAnEventLog
  RecordsNeverOverwritten
CHECK_DEADLOCK FALSE
