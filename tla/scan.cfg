SPECIFICATION Spec
CONSTANTS
  Files <- MCFiles
  Request <- MCRequest
  MaxThreads = 2
INVARIANTS
  TypeOK
  ChunksInOrder
  CountersAgree
PROPERTIES
  VisitsEachEventOnce
  ScanEnds
CHECK_DEADLOCK FALSE
