SPECIFICATION FairSpec
CONSTANTS
  p1 = p1
  p2 = p2
  other = other
  NoName = NoName
  NoApp = NoApp
  Free = Free
  Procs <- TwoProcs
  OtherApps <- OneOther
  OtherName <- OthersName
  RandomNames <- OneName
  Options <- PlainOptions
  MaxPollRetries = 1
  Faults = FALSE
  TokenExpires = TRUE
  CliTokenNewline = FALSE
INVARIANT AppDeletedWhenClosed
PROPERTY ShutdownExits
