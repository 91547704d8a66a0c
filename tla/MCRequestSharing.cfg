SPECIFICATION Spec
CONSTANTS
  Nil = Nil
  MaxCalls = 2
  Backend <- MCBackend
  Endpoints <- MCEndpoints
CHECK_DEADLOCK FALSE
INVARIANT
  ClonesApart
