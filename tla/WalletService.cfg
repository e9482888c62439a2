\* Two creations of one wallet, then settlements, a reconciliation and a client that
\* reads page by page, entries that share a millisecond, a balance changed by hand and
\* a crash.
SPECIFICATION Spec
CONSTANTS
  c1 = c1  c2 = c2  s1 = s1  s2 = s2  r1 = r1  k1 = k1
  Creations = {c1, c2}
  Settlements = {s1, s2}
  Reconcilers = {r1}
  Walkers = {k1}
  Owner <- OneOwner
  Opening <- OpenedWith1
  Changes <- BetAndWin
  Apart = FALSE
  MaxBalance = 2
  MaxEntries = 2
  Limit = 1
  Skews = {0}
  MaxClock = 1
  MaxTampers = 1
  MaxCrashes = 1
SYMMETRY ServiceSymmetry
CHECK_DEADLOCK FALSE
INVARIANTS
  TypeOK
  OneWalletPerOwner
  WalkShowsWhatWasThere
  ObservedBalanceIsRecent
PROPERTIES
  ReconciliationIsExact
