SPECIFICATION MCFairSpec
CONSTANTS
  suffix1 = suffix1
  suffix2 = suffix2
  key1 = key1
  key2 = key2
  red = red
  blue = blue
  ZeroKey = ZeroKey
  Partial = Partial
  None = None
  Suffixes = {suffix1, suffix2}
  Colours = {red, blue}
  Keys <- MCKeys
  OtherLamp <- MCOtherLamp
  MaxFailures = 1
  MaxPresses = 1
  MaxMessages = 2
  Failures = 2
  Presses = 1
  Deliveries = 2
INVARIANTS
  TypeOK
  
  OneConnection
  CodeAgrees
  OnlyChosen
  ShowsLast
  PairsMatch
  FirstOK
PROPERTIES
  ComesBack
