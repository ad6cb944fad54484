SPECIFICATION FairSpec
CONSTANTS
  c1 = c1
  c2 = c2
  k1 = k1
  k2 = k2
  a = a
  b = b
  Absent = Absent
  Clients = {c1, c2}
  Unlocked = {}
  Keys <- TwoKeys
  Frags <- TwoFrags
  InlineVals <- Small
  InitRecords <- DatedRecords
  Commands <- ReadAndDelete
  MaxTime = 2
  ActiveExpire = TRUE
  ExpireBatch = 1
  EvictionMode = "persist"
  EvictTarget = 2
  LoadMode = "lazy"
  MaxCrashes = 0
PROPERTIES  ExpiredAreReaped
