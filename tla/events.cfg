SPECIFICATION Spec
CONSTANTS
  Files <- MCFiles
  Filters = {{}, {1}, {2, 3}}
  MaxHeld = 4
INVARIANTS
  TypeOK
  HeldEventsIntact
  OneBufferSteadyState
PROPERTIES
  HandsOutInOrder
  NextReturns
CHECK_DEADLOCK FALSE
