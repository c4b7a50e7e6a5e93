SPECIFICATION Spec
CONSTANTS
  MaxSchemas = 4
  Inputs <- MCInputs
  Calls <- MCCalls
INVARIANTS
  TypeOK
  BulkIsEventByEvent
  EventsMatchScans
  UnionDecodesAsDeclared
CHECK_DEADLOCK FALSE
