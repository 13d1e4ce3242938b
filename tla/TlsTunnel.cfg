SPECIFICATION FairSpec
CONSTANTS
  Users = {"u1", "u2"}
  Probe = "probe"
  ErrCap = 2
  Faults = TRUE
  AcceptFaults = TRUE
INVARIANT TypeOK
INVARIANT LoopRests
INVARIANT HandledOnce
PROPERTY EveryoneServed
PROPERTY StopQuietsLoop
