SPECIFICATION FairSpec
CONSTANTS
  NumSwitches = 3
  IdSwitches = 2
  MaxMoves = 3
  MaxFailures = 2
  Unset = Unset
INVARIANTS
  
  IdMatches
PROPERTIES
  SwitchesSettle
  IdSettlesReliably
