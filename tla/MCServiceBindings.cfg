SPECIFICATION Spec
CONSTANTS
  Space <- MixedSpace
  Requests <- SmallRequests
  Programs <- SomePrograms
  Base = 7080
  Interference = TRUE
INVARIANT TypeOK
INVARIANT PortsDistinct
INVARIANT PortsAsPlanned
INVARIANT OutcomeCorrect
INVARIANT CredentialsReachTunnel
INVARIANT OthersUntouched
INVARIANT DeployedHaveAddress
INVARIANT ProgramReachesOneService
