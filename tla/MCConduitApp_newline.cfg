SPECIFICATION Spec
CONSTANTS
  p1 = p1
  p2 = p2
  other = other
  NoName = NoName
  NoApp = NoApp
  Free = Free
  Procs <- TwoProcs
  OtherApps <- OneOther
  OtherName <- OthersName
  RandomNames <- OneName
  Options <- PlainOptions
  MaxPollRetries = 0
  Faults = FALSE
  TokenExpires = TRUE
  CliTokenNewline = TRUE
SYMMETRY Symmetry
INVARIANT AppDeletedWhenClosed
