SPECIFICATION Spec
CONSTANTS
  real1 = real1
  file1 = file1
  file2 = file2
  caller = caller
  Blank = Blank
  Unset = Unset
  NoClient = NoClient
  NoProvider = NoProvider
  Caller <- Sent
  Value <- V
  RealEnv <- Nothing
  DotEnv <- TokenFile
  Settings <- BasicMode
INVARIANTS
  EnvTokenIgnored
