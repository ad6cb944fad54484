CONSTANTS
  a = a
  b = b
  key1 = key1
  None = None
  Text = Text
  Exact = 4
  MaxInt = 7
  Clients <- MCClients
  Keys <- MCKeys
  Commands <- MCCommands
  Budget <- MCBudget
  MaxQueue = 2
  MaxEvictions = 1
SPECIFICATION Spec
INVARIANTS IncrementsKept
PROPERTIES WatchDetects WatchPrecise PoisonedNeverRuns
CHECK_DEADLOCK FALSE
