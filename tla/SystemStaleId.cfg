SPECIFICATION FairSpec
CONSTANTS
  NumSwitches = 3
  IdSwitches = 2
  MaxMoves = 3
  MaxFailures = 1
  Unset = Unset
PROPERTIES
  IdSettles
