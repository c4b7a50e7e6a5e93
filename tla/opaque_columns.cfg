SPECIFICATION Spec
CONSTANTS
  MaxSchemas = 4
  Inputs <- MCInputs
  Calls <- MCCalls
INVARIANT UniformAcrossLayouts
CHECK_DEADLOCK FALSE
