SPECIFICATION Spec
CONSTANTS
  None = None
  Garbage = Garbage
  Rejected = Rejected
  Builds = {"sonata"}
  Received <- MCReceived
  Systems <- MCSystems
  Elapsed = {17, 18}
  Late = {0, 1, 3}
  MaxFailures = 1
  LongNumbers = TRUE
CHECK_DEADLOCK FALSE
INVARIANTS
  NumbersFit
