SPECIFICATION Spec
CONSTANTS
  c1 = c1
  c2 = c2
  k1 = k1
  k2 = k2
  a = a
  b = b
  Absent = Absent
  Clients = {c1, c2}
  Unlocked = {}
  Keys <- TwoKeys
  Frags <- TwoFrags
  InlineVals <- Small
  InitRecords <- Records
  Commands <- RenameCommands
  MaxTime = 2
  ActiveExpire = FALSE
  ExpireBatch = 1
  EvictionMode = "persist"
  EvictTarget = 1
  LoadMode = "lazy"
  MaxCrashes = 0
SYMMETRY ClientSymmetry
PROPERTIES Linearizable
