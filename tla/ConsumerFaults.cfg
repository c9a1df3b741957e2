SPECIFICATION BootSpec
CONSTANTS
  writer1 = writer1
  consumer1 = consumer1
  setup = setup
  logger = logger
  led = led
  good = good
  on = on
  Rejected = Rejected
  Blank = Blank
  None = None
  Threads <- BootThreads
  Names <- TwoNames
  Payloads <- MCPayloads
  Values <- MCValues
  Parsed <- MCParsed
  Interval <- TwoInterval
  Held <- BootHeld
  Budgets <- FaultsBudgets
  MaxObjects = 2
  MaxTick = 1
  Hangs = {}
  Consumers <- MCConsumers
  Watches <- TwoWatches
  Keeps = {logger}
  MaxTimeouts = 2
  Multiwaiters = 1
  Crashes = 1
  ConsumerFails = TRUE
INVARIANTS
  NoUseAfterFree
