SPECIFICATION Spec
CONSTANTS
  MaxSchemas = 4
  Inputs <- MCInputs
  OwnDicts <- MCOwnDicts
  Asks <- MCAsks
  Programs <- MCPrograms
  Schemas <- MCSchemas
  Values <- MCValues
  Tags = {1}
  MaxData = 5
  MaxRows = 2
  MaxBanks = 2
  MaxEvents = 2
  AddedBank = 9
  MaxBatch = 2
  MaxGiven = 3
  MaxFailures = 2
  MaxCloses = 2
INVARIANTS
  TypeOK
  EventsAsAssembled
  HandleAnswersAfresh
  CopiesHoldTheSource
  ClosesWhatWasExtended
CHECK_DEADLOCK FALSE
