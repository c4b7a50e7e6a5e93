SPECIFICATION Spec
CONSTANTS
  Dict <- MCDict
  Inputs <- MCInputs
  Layouts = {"by_bank", "per_column"}
  Threads = {"a", "b"}
  MaxReads = 2
  MaxUsize = 10000
  DecompressSlack = 3
INVARIANTS
  TypeOK
  AcceptedAsWritten
  ReadsAreTheEvents
  DamageKeepsTheShape
  ChecksumCatchesDamage
  BorrowsStayValid
  InflatesOnlyWhatIsRead
CHECK_DEADLOCK FALSE
