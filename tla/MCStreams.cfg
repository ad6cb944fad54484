CONSTANTS
  p = p
  r1 = r1
  r2 = r2
  x = x
  y = y
  None = None
  Refused = Refused
  MaxWord = 3
  Clients <- MCClients
  Commands <- MCCommands
  Quiet = TRUE
  MayTakeTop = FALSE
  MaxAdds = 2
  Times <- MCTimes
  MaxCrashes = 1
SPECIFICATION Spec
INVARIANTS NothingSkipped HandedOutOnce NoLostWakeUp
PROPERTIES IdsIncrease PendingLeaves
