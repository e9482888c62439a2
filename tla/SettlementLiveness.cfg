\* Answers and expiry under fair scheduling, with a crash.
SPECIFICATION FairSpec
CONSTANTS
  d1 = d1  d2 = d2  d3 = d3  u1 = u1
  Deliveries = {d1, d2, d3}
  Workers = {u1}
  Wallets <- TwoWallets
  Submissions <- LivenessSubmissions
  WalletPlayer <- MCWalletPlayer
  WalletCurrency <- MCWalletCurrency
  InitialBalance <- OpenedWith3
  MaxAttempts = 1
  MaxNumeric = 100
  MaxCrashes = 1
  NoActor = NoActor
  NoTx = NoTx
  OpeningTx = OpeningTx
  NoSubmission = NoSubmission
  NoMessage = NoMessage
PROPERTIES
  EveryDeliveryEnds
  EveryPendingRowSettles
