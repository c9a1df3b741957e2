SPECIFICATION FairSpec
CONSTANTS
  None = None
  Vms = {vm1, vm2, vm3}
  Buffers = {b1, b2}
  Scripts <- MCScripts
  MaxTroubles = 1
CHECK_DEADLOCK FALSE
INVARIANTS
  
  MemoryKept
PROPERTIES
  StaysAvailable
  LoadedRuns
