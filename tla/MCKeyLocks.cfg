SPECIFICATION FairSpec
CONSTANTS
  Clients = {c1, c2}
  k1 = k1
  k2 = k2
  k3 = k3
  Keys <- ThreeKeys
  KeySets <- AllKeySets
  Shards <- TwoShards
  shardIndex <- Hash
  None = None
INVARIANTS
  MutualExclusion
  OrderedWaits
PROPERTIES ImplementsPromise CommandsFinish
