SPECIFICATION OrderedFairSpec
CONSTANTS
  p1 = p1
  p2 = p2
  p3 = p3
  p4 = p4
  p5 = p5
  NoPid = NoPid
  Pids <- ThreePids
  MaxSessions = 2
  MaxAlive = 2
  MaxCrashes = 1
  Reuse <- Never
PROPERTIES
  SessionsEnd
CHECK_DEADLOCK FALSE
