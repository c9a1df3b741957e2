SPECIFICATION FairSpec
CONSTANTS
  Ids = {id0, id1}
  Settings = {up, down}
  MaxVersion = 3
  MaxLosses = 0
  MaxFailures = 1
  None = None
PROPERTIES
  Retried
