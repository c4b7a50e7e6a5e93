SPECIFICATION Spec
CONSTANTS
  Files <- BadHeader
  Request <- MCRequest
  MaxThreads = 2
INVARIANT NeverShort
CHECK_DEADLOCK FALSE
