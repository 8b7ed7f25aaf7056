SPECIFICATION FairSpec
CONSTANTS
  c1 = c1
  c2 = c2
  c3 = c3
  s1 = s1
  s2 = s2
  main = main
  Main = Main
  b1 = b1
  b2 = b2
  NoName = NoName
  NoCall = NoCall
  Session = {s1}
  Call = {c1, c2}
  SessionOf <- OneSession
  Name = {main, b1, b2}
  Default = main
  Resolve <- Aliases
  MaxDay = 1
  Expand <- HexPattern
  HasPlaceholders = TRUE
  Conforming = {b1, b2}
  MaxBranchRetries = 2
  Foreign = {}
  Ops = {"write"}
  Faults = FALSE
PROPERTIES
  CallTerminates
  MergedBranchLeft
