SPECIFICATION Spec
CONSTANTS
  IdleTimeout = 2
  MaxOutput = 2
  MaxLines = 2
INVARIANTS
  EverythingIsLogged
  ShutdownIsSuccess
PROPERTIES
  SilenceEnds
CHECK_DEADLOCK FALSE
