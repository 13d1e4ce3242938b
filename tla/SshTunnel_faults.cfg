SPECIFICATION Spec
CONSTANTS
  N = 2
  Users = {}
  PipeCap = 2
  MaxRetries = 3
  Faults = TRUE
  AcceptFaults = TRUE
INVARIANT TypeOK
INVARIANT SessionsBounded
INVARIANT StaleCodesRunOut
PROPERTY DropIsGenuine
