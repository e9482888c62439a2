\* A replay whose balance is not the one of the original answer.
SPECIFICATION Spec
CONSTANTS
  d1 = d1  d2 = d2  d3 = d3  u1 = u1
  Deliveries = {d1, d2, d3}
  Workers = {u1}
  Wallets <- OneWallet
  Submissions <- RefundSubmissions
  WalletPlayer <- MCWalletPlayer
  WalletCurrency <- MCWalletCurrency
  InitialBalance <- OpenedWith3
  MaxAttempts = 1
  MaxNumeric = 100
  MaxCrashes = 0
  NoActor = NoActor
  NoTx = NoTx
  OpeningTx = OpeningTx
  NoSubmission = NoSubmission
  NoMessage = NoMessage
SYMMETRY DeliverySymmetry
INVARIANTS
  ReplayReturnsOriginal
