SPECIFICATION FairSpec
CONSTANTS
  Ids = {id0, id1}
  Settings = {up, down}
  MaxVersion = 3
  MaxLosses = 2
  MaxFailures = 2
  None = None
INVARIANTS
  OneSubscription
  NoStaleStatus
PROPERTIES
  FollowsReliably
