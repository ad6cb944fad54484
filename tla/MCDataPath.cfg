SPECIFICATION Spec
CONSTANTS
  c1 = c1
  c2 = c2
  k1 = k1
  k2 = k2
  a = a
  b = b
  Absent = Absent
  Clients = {c1, c2}
  Unlocked = {}
  Keys <- OneKey
  Frags <- TwoFrags
  InlineVals <- Small
  InitRecords <- Records
  Commands <- OneKeyCommands
  MaxTime = 3
  ActiveExpire = FALSE
  ExpireBatch = 1
  EvictionMode = "persist"
  EvictTarget = 0
  LoadMode = "lazy"
  MaxCrashes = 0
SYMMETRY ClientSymmetry
INVARIANTS CacheCoherent Reapable NoStaleIndex
PROPERTIES Linearizable
