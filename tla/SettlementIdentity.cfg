\* Duplicate and conflicting submissions over two channels and two wallets, a win and
\* reversals, two retry workers with stale batches, with a crash.
SPECIFICATION Spec
CONSTANTS
  d1 = d1  d2 = d2  d3 = d3  u1 = u1  u2 = u2
  Deliveries = {d1, d2, d3}
  Workers = {u1, u2}
  Wallets <- TwoWallets
  Submissions <- IdentitySubmissions
  WalletPlayer <- MCWalletPlayer
  WalletCurrency <- MCWalletCurrency
  InitialBalance <- OnlyFirstFunded
  MaxAttempts = 1
  MaxNumeric = 6
  MaxCrashes = 1
  NoActor = NoActor
  NoTx = NoTx
  OpeningTx = OpeningTx
  NoSubmission = NoSubmission
  NoMessage = NoMessage
SYMMETRY MCSymmetry
INVARIANTS
  TypeOK
  OneMovementPerSubmission
  InboxFollowsEffect
  LedgerExplainsBalance
PROPERTIES
  SettledIsFinal
  ContractKept
