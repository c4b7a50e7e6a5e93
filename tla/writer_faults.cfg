SPECIFICATION Spec
CONSTANTS
  Event = {"a"}
  EventLen <- MCEventLen
  DictLen = 1
  DictEvents = 1
  HasSchemas = TRUE
  Word = {0}
  BufCap = 4
  max_record_events = 2
  max_record_bytes = 3
  Batch = {}
  FaultKinds = {"flush", "direct", "patch"}
  MaxFaults = 2
  MaxRecords = 1
PROPERTIES
  FinalizeEnds
CHECK_DEADLOCK FALSE
