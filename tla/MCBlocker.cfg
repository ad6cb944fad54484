SPECIFICATION FairSpec
CONSTANTS
  c1 = c1
  c2 = c2
  c3 = c3
  k1 = k1
  k2 = k2
  None = None
  Clients = {c1, c2, c3}
  Keys = {k1, k2}
  Pushers = {c3}
  PushKeys = {k1}
  Pops <- SharedLists
  MaxPushes = 2
INVARIANTS NoLostWakeUp NoLeakedChannel
PROPERTIES SleepersWake
CHECK_DEADLOCK FALSE
