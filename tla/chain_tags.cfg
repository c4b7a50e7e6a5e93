SPECIFICATION Spec
CONSTANTS
  Files <- MCFiles
  Thread = {r, s}
  Tag = {0, 1}
  Updates <- MCUpdates
  MaxCalls = 3
  MaxFaults = 1
INVARIANTS
  TypeOK
  EventIsTheOneAsked
  BatchAppliesInOrder
PROPERTY OnlyValidBatchesWrite
CHECK_DEADLOCK FALSE
