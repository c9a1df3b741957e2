SPECIFICATION Spec
CONSTANTS
  None = None
  Garbage = Garbage
  Rejected = Rejected
  Builds = {"sonata", "stub", "ibex"}
  Received <- MCReceived
  Systems <- MCSystems
  Elapsed = {17, 18}
  Late = {0, 1, 3}
  MaxFailures = 1
  LongNumbers = FALSE
CHECK_DEADLOCK FALSE
INVARIANTS
  Shown
  Authorised
  GoodMessagesTaken
  AlwaysRegistered
  ScriptAsExpected
