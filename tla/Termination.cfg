SPECIFICATION FairSpec
CONSTANTS
  c1 = c1
  c2 = c2
  c3 = c3
  s1 = s1
  s2 = s2
  main = main
  Main = Main
  b1 = b1
  b2 = b2
  NoName = NoName
  NoCall = NoCall
  Session = {s1, s2}
  Call = {c1, c2, c3}
  SessionOf <- Contended
  Name = {main, b1}
  Default = main
  Resolve <- Aliases
  MaxDay = 1
  Expand <- FixedPattern
  HasPlaceholders = FALSE
  Conforming = {b1}
  MaxBranchRetries = 1
  Foreign = {}
  Ops = {"switch"}
  Faults = TRUE
PROPERTIES
  CallTerminates
