\* A ledger read page by page while a process with an earlier clock writes to it.
SPECIFICATION Spec
CONSTANTS
  c1 = c1  s1 = s1  s2 = s2  k1 = k1
  Creations = {c1}
  Settlements = {s1, s2}
  Reconcilers = {}
  Walkers = {k1}
  Owner <- OneOwner
  Opening <- OpenedWith1
  Changes <- BetAndWin
  Apart = TRUE
  MaxBalance = 2
  MaxEntries = 1
  Limit = 1
  Skews = {0, 3}
  MaxClock = 2
  MaxTampers = 0
  MaxCrashes = 0
CHECK_DEADLOCK FALSE
INVARIANTS
  NothingLostBetweenPages
