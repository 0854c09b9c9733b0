SPECIFICATION Spec
CONSTANTS
  r1 = r1
  r2 = r2
  s1 = s1
  p1 = p1
  NoRequest = NoRequest
  Runs <- TwoRuns
  Stops <- OneStop
  Probes <- Nobody
  Chunks = 2
  StdinReaders <- OneReader
  MaxCrashes = 1
  MaxDeaths = 1
  MaxTorn = 1
INVARIANTS
  OnlyWholeScriptsRun
  NobodyWaitsInVain
PROPERTIES
  ImplementsRPC
CHECK_DEADLOCK FALSE
