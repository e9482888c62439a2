\* A key accepted with two payloads.
SPECIFICATION Spec
CONSTANTS
  d1 = d1  d2 = d2  d3 = d3
  Deliveries = {d1, d2, d3}
  Workers = {}
  Wallets <- TwoWallets
  Submissions <- KeySubmissions
  WalletPlayer <- MCWalletPlayer
  WalletCurrency <- MCWalletCurrency
  InitialBalance <- OpenedWith3
  MaxAttempts = 1
  MaxNumeric = 100
  MaxCrashes = 0
  NoActor = NoActor
  NoTx = NoTx
  OpeningTx = OpeningTx
  NoSubmission = NoSubmission
  NoMessage = NoMessage
SYMMETRY DeliverySymmetry
INVARIANTS
  KeyBindsOnePayload
