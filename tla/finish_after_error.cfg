SPECIFICATION Spec
CONSTANTS
  Event = {"a", "b"}
  EventLen <- MCEventLen
  DictLen = 1
  DictEvents = 1
  HasSchemas = TRUE
  Word = {0, 1}
  BufCap = 4
  max_record_events = 2
  max_record_bytes = 3
  Batch <- MCBatch
  FaultKinds = {"direct"}
  MaxFaults = 1
  MaxRecords = 1
INVARIANT FinishCompletesTheFile
CHECK_DEADLOCK FALSE
