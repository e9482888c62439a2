\* Reversals of a bet in every order of arrival, with the retry worker.
SPECIFICATION Spec
CONSTANTS
  d1 = d1  d2 = d2  d3 = d3  d4 = d4  u1 = u1
  Deliveries = {d1, d2, d3, d4}
  Workers = {u1}
  Wallets <- OneWallet
  Submissions <- ReversalSubmissions
  WalletPlayer <- MCWalletPlayer
  WalletCurrency <- MCWalletCurrency
  InitialBalance <- OpenedWith3
  MaxAttempts = 1
  MaxNumeric = 100
  MaxCrashes = 0
  NoActor = NoActor
  NoTx = NoTx
  OpeningTx = OpeningTx
  NoSubmission = NoSubmission
  NoMessage = NoMessage
SYMMETRY DeliverySymmetry
INVARIANTS
  ReversalUndoesOneMovement
  NoStrandedReversal
  SafetyNetNeverFires
  OutboxTellsTheStory
  ReplaysRepeatTheEvents
