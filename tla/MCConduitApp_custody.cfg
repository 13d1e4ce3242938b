SPECIFICATION Spec
CONSTANTS
  p1 = p1
  p2 = p2
  other = other
  NoName = NoName
  NoApp = NoApp
  Free = Free
  Procs <- TwoProcs
  OtherApps <- OneOther
  OtherName <- OthersName
  RandomNames <- OneName
  Options <- MixedOptions
  MaxPollRetries = 1
  Faults = TRUE
  TokenExpires = FALSE
  CliTokenNewline = FALSE
SYMMETRY Symmetry
INVARIANT TypeOK
INVARIANT NoSilentOrphan
INVARIANT CredentialsRemoved
INVARIANT ReadyHoldsPorts
INVARIANT PortsReleased
PROPERTY OnlyCreatorDeletes
PROPERTY KeepsCustody
