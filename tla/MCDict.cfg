CONSTANTS
  t1 = t1
  t2 = t2
  ev = ev
  k1 = k1
  k2 = k2
  k3 = k3
  k4 = k4
  None = None
  Threads <- MCThreads
  Keys <- MCKeys
  Shards = 3
  shardFor <- MCShardFor
  Operations <- MCOperations
  MaxOps <- MCMaxOps
  MaxFlushes = 1
  Target = 1
  VolatileOnly = FALSE
SPECIFICATION Spec
INVARIANTS IndexConsistent ListedWhenFull UsedExact
PROPERTY MemoryReclaimed
CHECK_DEADLOCK FALSE
