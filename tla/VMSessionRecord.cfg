SPECIFICATION Spec
CONSTANTS
  p1 = p1
  p2 = p2
  p3 = p3
  p4 = p4
  p5 = p5
  NoPid = NoPid
  Pids <- FivePids
  MaxSessions = 4
  MaxAlive = 1
  MaxCrashes = 2
  Reuse <- Either
SYMMETRY AnyFive
INVARIANTS
  VMIsOnRecord
  ImagesAreFree
  WorkingVMIsOwned
  OnlyAbandonedVMsAreEnded
CHECK_DEADLOCK FALSE
