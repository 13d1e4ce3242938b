SPECIFICATION Spec
CONSTANTS
  Space <- MixedSpace
  Requests <- SmallRequests
  Programs <- SomePrograms
  Base = 7080
  Interference = TRUE
INVARIANT RewrittenReachTunnel
