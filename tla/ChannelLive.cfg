SPECIFICATION FairSpec
CONSTANTS
  r1 = r1
  r2 = r2
  s1 = s1
  p1 = p1
  NoRequest = NoRequest
  Runs <- TwoRuns
  Stops <- Nobody
  Probes <- OneProbe
  Chunks = 1
  StdinReaders <- Nobody
  MaxCrashes = 0
  MaxDeaths = 1
  MaxTorn = 0
PROPERTIES
  EveryCallIsAnswered
CHECK_DEADLOCK FALSE
