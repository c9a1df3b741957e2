SPECIFICATION FairSpec
CONSTANTS
  writer = writer
  client = client
  setup = setup
  other = other
  rgb = rgb
  user = user
  good = good
  bad = bad
  on = on
  Rejected = Rejected
  Blank = Blank
  None = None
  Threads <- MCThreads
  Names <- MCNames
  Payloads <- MCPayloads
  Values <- MCValues
  Parsed <- MCParsed
  Interval <- MCInterval
  Held <- MCHeld
  Budgets <- MCBudgets
  MaxObjects = 3
  MaxTick = 2
  Hangs = {user}
INVARIANTS
  UniqueNames
  PublishedParsed
  HeapBound
  Accounted
  FreedImpliesNewer
PROPERTIES
  RateLimited
  ImplementsStore
  OthersServed
