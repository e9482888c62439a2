# A formal model of the wallet and wager backend

The program settles wager transactions of game providers (BET, WIN, LOSS,
REFUND, ROLLBACK) against player wallets. Providers reach it over HTTP and over
an SQS queue, deliver at least once, and may deliver a reversal before the
transaction it reverses. The state is in PostgreSQL; several instances of the
program run against one database. This directory holds TLA+ modules of it, the
TLC configurations that check them on small instances, and theorems that TLAPS
proves for every instance. Paths are relative to the repository.

## 1. Inventory

| part | state | operations | talks to |
|---|---|---|---|
| Wager rules: `domain/wager`, `domain/wager-transaction`, `domain/wallet`, `domain/ledger` | none of its own (works on loaded objects) | `applyWagerTransaction`, `Wallet.debit/credit`, transitions of a transaction | called by the settlement service |
| Settlement service: `wagering/wager-transaction.service.ts` | tables `wallet`, `wager_transaction`, `wallet_ledger_entry`, `outbox_message`, `inbox_message` | `submit`, `reprocessPendingReferences`, two reads | called by the controller, the SQS consumer and the scheduler |
| Pending-reference scheduler: `wagering/pending-reference.scheduler.ts`, `pending-reference-retry.ts` | `attempt_count`, `next_attempt_at` of pending rows; a flag against overlapping ticks | a timer | calls `reprocessPendingReferences` |
| Outbox publisher: `outbox/*` | `attempts`, `next_attempt_at`, `published_at` of `outbox_message` | `publishDue`, claim with a lease, retry, mark published | reads what settlements committed, sends to a queue |
| SQS consumer: `sqs/*` | messages in flight, their receive counts, the dead-letter queue | receive, acknowledge, retry, move to the DLQ, shut down | calls `submit` with an inbox context |
| Wallets: `wallets/*` | `wallet`, its OPENING transaction and entry | `create`, `reconcile`, paged `ledger` | same tables |
| Schema: `db/entities`, `migrations` | constraints | unique keys, checks, `numeric(20,2)` | the last line of defence of all of the above |
| Money: `domain/money` | none | decimal arithmetic with two decimals | the rules |
| HTTP, metrics, logging, correlation, health, configuration | none that the wallet depends on | | |

What is hard here: transactions of several instances interleave at READ
COMMITTED; each serialises on one wallet row, but keys, external ids and
references belong to a provider and cross wallets; settling a transaction
settles the ones that wait for it, and those that wait for these, in the same
database transaction; a worker retries with a batch it read before the lock;
messages are redelivered, also after a crash whose commit the caller never saw;
replays must report a past balance. `PROJECT.json` lists each hazard at its
line with the properties that watch it.

What makes each part correct:

- *settlement*: a submission moves money at most once; balance, version, ledger
  and outbox tell one story; a reversal undoes one movement of its wallet; no
  reversal is stranded; replays repeat what was announced; every call ends and
  every pending row settles;
- *publisher*: each committed event is published in the end, a row is marked only
  when the queue has its event, only the latest claim of a row decides about it;
- *consumer*: a message is deleted only after its effect is committed, and goes
  to the DLQ only when it cannot take effect or has run out of receives;
- *wallets*: one wallet per player and currency, with its opening entry or none;
  the reconciliation agrees with the ledger; a page walk shows every entry once.

## 2. Modules

| module | models | state and actions |
|---|---|---|
| `WagerRules` | `applyWagerTransaction` and the domain objects it calls | operators only: `Verdict` and its parts |
| `WagerSettlement` | `WagerTransactionService` on PostgreSQL | below |
| `MCWagerSettlement` | the submissions of each TLC run | definitions for constants |
| `WagerSettlementProofs` | theorems about `WagerSettlement`: locks, drafts, the ledger | lemmas and proofs |
| `WagerBooksProofs` | theorems about `WagerSettlement`: rows, keys, reversals and their entries | lemmas and proofs |
| `WagerAnswersProofs` | theorems about `WagerSettlement`: inbox, replays and outbox | lemmas and proofs |
| `WagerContractProofs` | the refinement of `WagerContract` | lemmas and proofs |
| `WagerContract` | what providers and players are promised, without a mechanism | one action that settles, one that tells |
| `SettlementRefinesContract` | `WagerSettlement` as an implementation of it | the refinement mapping |
| `OutboxPublisher` | `OutboxPublisherService` and its gateway, several instances | below |
| `MCOutboxPublisher` | constants of its runs | |
| `OutboxPublisherProofs` | theorems about `OutboxPublisher` | lemmas and proofs |
| `SqsConsumer` | `WagerSqsConsumerService`, its gateway and SQS | below |
| `MCSqsConsumer` | constants of its run | |
| `SqsConsumerProofs` | theorems about `SqsConsumer` | lemmas and proofs |
| `PendingReferenceRetry` | `PendingReferenceScheduler`, the time side of `reprocessPendingReferences` | below |
| `MCPendingReferenceRetry` | constants of its run | |
| `PendingReferenceRetryProofs` | theorems about `PendingReferenceRetry` | lemmas and proofs |
| `WalletService` | `create`, `reconcile`, `ledger` and `balanceObservedAt` next to settlements | below |
| `MCWalletService` | constants of its runs | |
| `WalletServiceProofs` | theorems about `WalletService` | lemmas and proofs |

The modules meet at four interfaces. `Commit` of `WagerSettlement` is where
`OutboxPublisher` starts: `Enqueue`. `Settle` of `SqsConsumer` is a whole delivery
of `WagerSettlement`: a message that is redelivered, or handled by two consumers
at once, is two deliveries there, which `OneMovementPerSubmission` is about.
`PickDue` of `WagerSettlement` takes any pending row at any time;
`PendingReferenceRetry` says when that is, and `Expire` and `Reschedule` there are
`GiveUp` and `Reschedule` here. `Begin` to `CommitSettlement` of `WalletService` is
a settlement of `WagerSettlement` reduced to what it does to a balance and a
ledger, with the time stamps and ids that `WagerSettlement` leaves out.

### WagerRules

A verdict is what `applyWagerTransaction` decides: the status, the failure code
and the direction of the movement, if any. `Verdict` follows its early returns;
`ReversalVerdict` takes the first failed check of the sequence `ReversalChecks`
as `applyReversal` does. Amounts are natural numbers of cents.

### WagerSettlement

*Actors.* A delivery is one call of `submit`; it starts with any of the
`Submissions` and names the row it would insert. A redelivery, over either
channel, is another delivery of an equal submission; `message` is the SQS
message id, which comes from the producer's envelope, so that the same id with
another payload is possible. A worker is a pass of the scheduler of some
instance over one due row at a time.

*Tables.* `wallet`, `row`, `ledger` (per wallet, in order of insertion),
`outbox` (per wallet), `inbox`, and `lock`, the holder of each row lock.

*Transactions.* Each actor runs one database transaction at a time. What it
wrote and did not commit is its `draft`; `Visible` lays the draft over the
table, as the flushes of MikroORM before each query do inside the transaction.
`Commit` publishes the draft and releases the lock in one step; `Close` ends a
transaction without a trace. The unique keys are checked at `Commit`: in
PostgreSQL the INSERT waits for the other inserter's end, which leaves the same
winners. `Crash` ends a transaction at any point: a dead process, a lost
connection, a cancelled deadlock.

| code | actions |
|---|---|
| `submit`, `process` before the lock | `Submit`, `AnswerKnown`, `RequestLock` |
| `SELECT ... FOR UPDATE` on the wallet | `AcquireLock`, `WalletNotFound` |
| `process` under the lock | `AnswerAfterLock`, `WrongPlayer`, `Process` |
| `persistSettlement`, `resolveDependents` | inside `Process`/`Reprocess`, then `SettleDependent`, `NextReference` |
| COMMIT and its errors | `Commit`, `CommitClash`, `CommitRefused` |
| `resolveExisting`, `markInboxProcessed` | `ResolveExisting`, `MarkInboxProcessed` |
| `reprocessPendingReferences`, `reprocessOne` | `PickDue`, `SkipRow`, `Reprocess`, `Reschedule`, `Expire` |

*Abstractions.* The payload hash is equality of the fields it covers, with
`gameId` folded into the others. `createdAt` is not modelled: where the code looks
something up by it, the model takes any outcome that clocks of several instances, ties
and random ids allow. So a replay of a transaction without a ledger entry finds any
balance the wallet's ledger has held, or 0 (`ObservedBalances`; `WalletService` has the
clocks and says how far off that balance is), and dependents of one reference are
visited in any order. Due times and the time to live are nondeterministic: a
pending row may be due at any moment and may expire at any attempt. PENDING and
FAILED never reach a table. The error of `resolveExisting` for a missing row has
no step, because rows are never deleted. A normalised submission is the input:
what `normalizeWagerSubmit` refuses never gets further. REFUND and ROLLBACK of
one BET may both be processed: the code and its documents count reversals per
kind.

### WagerContract and SettlementRefinesContract

`WagerContract` is the promise: a transaction has a name (provider and external
id), a fate and terms; a wallet has a statement of movements. One step (`Settle`)
gives some transactions of one wallet their fate and adds exactly the lines that
the processed ones call for; `Tell` tells fates. A fate that is final stays. Callers
may be told fates that the transaction has or had (`past`): a replay that found the
row waiting may return after the row was settled.

| `WagerContract` | read from `WagerSettlement` as |
|---|---|
| `accepted`, `fate` | payload and status of the one row stored under the name |
| `statement` | the wallet's ledger without the opening entry, signed |
| `past` | the status a row was first answered with, and its present one |
| `told` | name and status of every view that `submit` returned |

`Commit` of a settlement with its cascade, a retry or an expiry is a `Settle`,
everything up to it stutters, and an answer is a `Tell`. `ContractKept` is
`Contract!Spec` under this mapping.

### OutboxPublisher

*State.* The columns `attempts`, `next_attempt_at`, `published_at` of the rows that
were committed (`stored`); `copies`, what the events queue holds of each; and per
publisher the rest of its batch, the time the batch started, the attempt it
claimed the row in hand with, and the ticks its send has taken.

| code | actions |
|---|---|
| INSERT of the rows by a settlement | `Enqueue` |
| `tick`, the SELECT of `publishDue` | `FetchDue` |
| `claim` | `Claim`, `Skip` |
| `gateway.publish` | `Send`, `SendFails` (the queue may have taken it) |
| `markPublished`, `scheduleRetry` | `MarkPublished`, `ScheduleRetry`, both with the `attempts` guard |
| an error that leaves `publishDue`, death of the process | `Abort` |
| `new Date()` | `Tick` |

*Time.* `publishDue` takes `now` once and uses it for the whole batch: leases and
retries count from it, which matters as soon as sends take time. To keep the
states finite the present is always 0, `Tick` moves every stored time one back,
and times further back than `LongAgo` are not told apart (NULL is one of them).
Only sends take time, at most `MaxSend` ticks each; statements of the database
take none. The clocks of the instances agree.

*The events queue* is a FIFO queue with deduplication by content: it drops an equal
body within five minutes. `Accept` leaves open whether that time has passed.

### SqsConsumer

*State.* `queued`, `visible` and `receives` are the queue, `dead` the dead-letter
queue, `settled` the messages whose effect `submit` committed; per consumer a `pc`
and the handles of the rest of its batch, each with the receive count it came with
(the `ApproximateReceiveCount` that `consumeActionForFailure` reads), which may be
behind the queue's own.

| code | actions |
|---|---|
| `onTimer`, `gateway.receive` | `Receive` |
| `parseWagerQueueMessage`, `submit` | `Settle`, `FailPermanently`, `FailTransiently` (its effect may be committed) |
| `gateway.ack` inside the same `try` as `submit` | `Ack`, `AckFails` |
| `routeFailure`, `gateway.moveToDlq` (send, then delete) | `MoveToDlq`, `DeleteMoved`, `MoveFails` |
| `close`, its grace period | `Close`, `Stop` |
| SQS: visibility timeout, redrive policy | `BecomeVisible`, `Redrive` |

*Abstractions.* A message is a name; `Permanent` says which ones are malformed,
invalid or in conflict with their key. A deletion that the queue refuses because
the handle is old, and one that fails for any other reason, are one step
(`AckFails`, `MoveFails`). Time is not counted: a message that is in hand may become
visible at any moment, so that two consumers may handle it at once. Batches come in
any order, which includes the order of the groups of a FIFO queue. A receive whose
answer is lost is `Receive` and then `Crash`.

### PendingReferenceRetry

*State.* Per row its status, `attempt_count`, `next_attempt_at` and age; per
instance the flag `running`, the rest of the batch, the age of the `now` the pass
started with, and the ticks until its interval fires.

| code | actions |
|---|---|
| `submit` of a reversal without its reference | `Park` |
| the cascade of the reference's settlement | `Resolve` |
| a reference stored in another wallet | `ReferenceElsewhere` |
| `tick`, `running`, the SELECT of `reprocessPendingReferences` | `Fire` |
| `reprocessOne`: not due any more | `SkipRow` |
| ... the reference is there | `Settle` |
| ... it is missing | `Reschedule`, `GiveUp` |
| an error of the pass, death of the process | `Fail`, `Restart` |
| time | `Tick` |

*Time.* As in the publisher the present is 0 and times move. A pass compares with
the `now` it started with, which is in the past by the time it comes to the later
rows. Clocks of the instances agree; intervals fire on time; a pass takes at
most `MaxPass` ticks; `now` and the SELECT after it are one step. `DelaySum` is the
sum of the delays up to an attempt, given as a constant with its recurrence
as an assumption so that theorems can speak of it.

*Abstractions.* `row` numbers are the order of `createdAt`; rows are parked in
this order. Nothing of wallets, locks and money: what a retry settles is in
`WagerSettlement`. `Settle` is the rejection of a reference that is in another
wallet: a reference in the row's own wallet would have resolved it.

### WalletService

*State.* Per wallet its balance, its ledger in the order of `(createdAt, id)`, the
holders of its row lock; per call where it stands; per walker the entries it was
shown; the clock and how far ahead of it each process is.

| code | actions |
|---|---|
| `create`: the SELECT, then the INSERTs, COMMIT | `LookUp`, `Insert`, `CommitCreation` |
| a settlement: lock, entries, COMMIT or a refusal | `Begin`, `Apply`, `CommitSettlement`, `Refuse` |
| `reconcile`: `FOR SHARE`, then the SUM | `ReadStored`, `ReadLedger` |
| `ledger`: one page | `Page` |
| `balanceObservedAt` (of the settlement service) | `ObservedAt` |
| a balance changed by hand, as tests of reconciliation do | `Tamper` |
| a dead process, a lost connection | `Crash` |

*Abstractions.* A wallet is named by the call that creates it. An INSERT that
would violate the unique index waits for the other one's end, as PostgreSQL's
does. The id of an entry is random: `Insertions` lists the places it may take
among entries with equal `createdAt`. A cursor is the entry it names. The kinds
of transactions and their events are not here. `Apart = TRUE` keeps two transactions
on one wallet out of the same millisecond, so that a run about skew, or about one
cascade, does not find what ties alone do.

## 3. Runs

| run | bounds | question |
|---|---|---|
| `SettlementIdentity` | 3 deliveries and 2 workers (symmetric), 10 submissions, 2 wallets, columns up to 6, 1 crash | `OneMovementPerSubmission`, `InboxFollowsEffect`, `LedgerExplainsBalance`, `SettledIsFinal`, `TypeOK`, and `ContractKept`: the refinement |
| `SettlementReversals` | 4 deliveries, 5 submissions, 1 wallet, 1 worker | `ReversalUndoesOneMovement`, `NoStrandedReversal`, `SafetyNetNeverFires`, `OutboxTellsTheStory`, `ReplaysRepeatTheEvents` |
| `SettlementLiveness` | 3 deliveries, 1 worker, 2 wallets, 1 crash, weak fairness | `EveryDeliveryEnds`, `EveryPendingRowSettles` |
| `OutboxPublisher` | 2 publishers, 3 events, batches of 2, lease 2, sends up to 1 tick, 2 faults | `LatestClaimDecides`, `PublishedWasSent`, `OneSendPerClaim`, `EveryEventPublished`, `TypeOK` |
| `SqsConsumer` | 2 consumers (one may stop), 2 messages, batches of 2, 3 receives, faults unbounded | `NoMessageLost`, `DeadLettersAreLastResort`, `EveryMessageLeaves`, `TypeOK` |
| `PendingReferenceRetry` | 2 instances (symmetric), 2 rows, 3 attempts with delays 1, 2, 2, time to live 6, interval 2, passes up to 1 tick, 2 faults | `WaitsOutTheWindow`, `GivenUpInTime`, `TypeOK` |
| `WalletService` | 2 creations of one owner, 2 settlements of up to 2 entries, 1 reconciliation, 1 walker with pages of 1, 2 milliseconds, 1 change by hand, 1 crash | `OneWalletPerOwner`, `WalkShowsWhatWasThere`, `ObservedBalanceIsRecent`, `ReconciliationIsExact`, `TypeOK` |
| `ReplayBalance`, `KeyReuse` | 2-3 submissions each | statements of the documents that the code does not keep (section 6) |
| `OutboxLease` | as `OutboxPublisher`, without faults | the same |
| `LedgerWalk`, `RefusedReplay` | 1 wallet, 2 settlements, clocks apart by 3 or not at all | the same |

*Bounds.* Two deliveries race, a third observes or replays; the fourth of
`SettlementReversals` is what a chain of three with a competing reversal needs,
and what a replay after another movement of the wallet needs.
`MaxAttempts` is 1: one reschedule and one expiry by attempts (expiry by time
needs none; `PendingReferenceRetry` counts both). `MaxCrashes` bounds crashes,
`MaxNumeric` stands for the range of `numeric(20,2)`; it is small in
`SettlementIdentity`, where a win on top of the rest makes a COMMIT fail, and out
of reach elsewhere. Deliveries and workers
are interchangeable and are symmetry sets in the safety runs; the liveness run
uses none.

In `OutboxPublisher` three events and batches of two make publishers read
overlapping and stale batches; the second row of a batch is claimed a tick late;
a lease of two ends during a batch; two faults let a row fail for one publisher
and be aborted by the other. In `SqsConsumer` one message can be settled and one
cannot; three receives give a message one try that fails, one that overlaps with
another consumer, and a last one.

In `PendingReferenceRetry` the sum of the delays (5) and the time to live (6) are
close, so that either may end the retries first; the delay reaches its
cap; two instances hold the same row in batches of different age; two faults can
hit both passes of one interval. `GivenUpInTime` holds where a pass has room for
every waiting row (`RowCount <= Limit`): with more, rows that fail or that are
older go first and nothing bounds the wait of the rest.

In `WalletService` two creations race for one owner; a settlement with two
entries of one millisecond, and one that is refused in the same or the next, are
what the order of ties and the replay of a refusal need; a page of one entry
leaves a cursor after each; the reconciliation overlaps with both settlements.

*Deadlock* is checked in every run except those of `WalletService`, whose calls are
finitely many and end. In `OutboxPublisher` and `PendingReferenceRetry` time can
always pass. In `WagerSettlement`, `Quiescent` is the only stuttering step, and it is
enabled just when every delivery is done and no row is pending.

*Fairness.* `FairSpec` asks for weak fairness of each delivery that has been
handed over and of each worker. A running transaction goes on because Node's
event loop and PostgreSQL do; the scheduler's `setInterval` keeps ticking and
its `finally` clears `running`. Weak fairness is enough for the row lock since
PostgreSQL queues its waiters and a bounded number of transactions compete.
Nothing forces clients to submit or crashes to happen.
`OutboxPublisher!FairSpec` asks for weak fairness of each publisher and of time:
`setInterval` keeps calling `tick`, whose `finally` clears the flag that guards it,
and calls return or throw. Faults are bounded, which says that the gateway works in
the end, and sends are shorter than a lease; with sends that take longer than a
lease two publishers can take the row from each other forever, and the code has
no limit on attempts that would end it. `SqsConsumer!FairSpec` asks for weak
fairness of each consumer, of visibility timeouts and of the redrive policy; a
consumer is fair also when all its calls fail and every process dies, and one
instance is never shut down. `EveryMessageLeaves` needs the redrive policy of the
queue for messages whose handling dies each time.
`PendingReferenceRetry` states its promise about time as safety: `Tick` waits for
intervals that are due and passes that are at their limit, which is the assumption
that timers fire and passes take a bounded time, and `GivenUpInTime` bounds an age.

Every property of a passing run has a mutant in `PROJECT.json`: an operator of
the model changed as a plausible bug would change the code, which makes TLC
report that property.

## 4. Proofs

`WagerSettlementProofs` proves for all constants that satisfy the named
assumptions (`ActorAssumption`, `SubmissionAssumption`, `WalletAssumption`,
`BoundAssumption`):

- `SettlementInvariant`: `Spec => []SettlementInv`;
- `TypeCorrect`: `Spec => []TypeOK`;
- `LedgerCorrect`: `Spec => []LedgerExplainsBalance`.

In three more modules, on top of these and for the same constants:

- `BooksInvariant`: `Spec => []BooksInv`; from it `OneMovementEach`,
  `ReversalsAreExact`, `NothingStranded`, `SafetyNetIsSpare` and `SettledStaysSettled`
  (`WagerBooksProofs`);
- `AnswersInvariant`: `Spec => []AnswersInv`; from it `InboxIsExact` and
  (with `StoryInvariant`) `ReplaysAlwaysRepeatTheEvents`; `StoryInvariant`: `Spec => []StoryInv`; from it
  `OutboxIsExact` (`WagerAnswersProofs`);
- `ContractInvariant`: `Spec => []ContractInv`; from it `SettlementKeepsContract`:
  `Spec => ContractKept`, the refinement (`WagerContractProofs`).

`LedgerExplainsBalance` is not inductive: `Commit` appends what a transaction
drafted from a wallet it read many steps earlier. `SettlementInv` adds that an
actor between its `SELECT ... FOR UPDATE` and its end holds the wallet's lock
(`LocksHeld`), that its draft continues the ledger *as stored*
(`DraftsContinueLedger`), and that rows sit in wallets that exist
(`RowsWellPlaced`). Since a lock has one holder, no other commit can move the
ledger under a draft. The actions are classified by what they do to this
invariant: they end a transaction (`Ends`), move an actor outside a lock
(`Moves`), extend a holder's draft (`Writes`), or are `AcquireLock`, `Commit` or
`Submit`; one lemma proves each class and every action is shown to belong to
one. Below are the lemmas on the rules (`VerdictIsSound`: a processed debit never
exceeds the balance) and on chains of entries (`ChainedConcat`).

`BooksInv` relates the rows of a wallet to its ledger. `OneMovementPerSubmission` and
`ReversalUndoesOneMovement` hold of what is committed because they hold, at every
step of a cascade, of what the holder of the lock sees; so the invariant keeps the
`Books` of a wallet twice (`BooksKept`): of the tables as committed, and of each
holder's `Visible` rows and `LedgerAfter`. A settlement changes the second by one
verdict (`BooksWithSettled`), `Commit` makes the second the first, and all else
leaves both. `NoStrandedReversal` needs `Awaited`: what a waiting row waits for is
settled or in the holder's queue, and the queue is empty at `Commit`. `UniqueNames`
and `StoredOnce` are the unique indexes; `DraftsOfWaiting` says that a draft only
holds rows that wait and the actor's own, which is why a terminal row never changes.

`AnswersInv` adds what an actor that found a row may count on later: that the row
stays, that a message it will mark has its effect, and that a replay of a terminal row
told the status the row still has and, if the row has a ledger entry, the balance that
entry left (`ReplayedTruly`); the entry of a row never changes (`OwnEntryStays`). Of a
row without an entry it claims no balance. `ReplaysAlwaysRepeatTheEvents` combines it
with `StoryInv`: the balance event of a row is that of its entry (`AnnouncedEntry`).

`StoryInv` keeps the outbox of a wallet twice, like `Books`: `WellTold` relates it to
rows and ledger as committed and as each holder of the lock is about to leave them.
That a transaction was parked before it settled is not in its row any more; `ParkedIn`
takes it from what its caller was told. A settlement adds the verdict's own part of
the story (`VerdictTold`), whose events all come after those the row already has
(`TellsConcat`), and one balance event when the verdict has an entry
(`AnnouncesConcat`): its version is the wallet's, which `SettlementInv` ties to the
length of the ledger. A step that only passes over rows tells nothing, and `Commit`
makes the second copy the first.

*The refinement.* `InitRefines` and `NextRefines` show that an initial state maps to
one and that each step is `Contract!Settle` of a wallet or `Contract!Tell`.
`Commit` is the only action that settles: the lines it adds to the statement are the
entries of the draft, each of one row of the draft (from `Books` before and after),
and the rows it changes follow the contract's `Follow`. Every other step leaves rows
and ledgers alone (`StepsAside`) and tells at most a fate the row has or had
(`RepliesAreOfRows`). The attempt to prove this showed that the contract first
written was not met: it let callers be told the present fate only, and counted a
replay as told when it was found, before `markInboxProcessed` returned. TLC confirmed
it once `SettlementIdentity` had a parked reversal with two deliveries; contract,
mapping and run were corrected.

`OutboxPublisherProofs` proves for all instances, events, limits, leases and
delays (`OutboxAssumption`):

- `PublisherInvariant`: `Spec => []PublisherInv`;
- `PublisherTypeCorrect`, `LatestClaimDecidesAlways`, `PublishedWasSentAlways`,
  `OneSendPerClaimAlways`: its parts.

`LatestClaimDecides` is its own strengthening: it numbers the claims of a row, so
that the `attempts` guard of `markPublished` and `scheduleRetry` lets only the
latest through. `PublishedWasSent` needs `SentBeforeMark`, what is known between the
send and the mark. `OneSendPerClaim` counts the publishers that send a row
(finite sets: their number changes by at most one per step). `BatchAge` bounds how
long ago a batch started; it is what keeps the finite representation of
time (`LongAgo`) inside its range, and makes `TypeOK` provable. The lemmas
treat a step as a step of one publisher on one row and show that every other
publisher and row keeps its part.

`SqsConsumerProofs` proves for all messages, consumers, batch sizes and receive
limits (`ConsumerAssumption`):

- `ConsumerInvariant`: `Spec => []ConsumerInv`;
- `ConsumerTypeCorrect`, `NoMessageIsLost`, `DeadLettersComeLast`: its parts.

`NoMessageLost` is not inductive: a deletion looks only at a handle.
`DecidedBeforeDelete` adds that a consumer about to delete has made the message safe,
and one about to give it up holds its last receive; `BatchesReceived` that the
count a handle came with is not ahead of the queue's. The proof splits the
invariant into a part per consumer and a part of the queues (`PartsOK`); a step of one
consumer leaves the others alone because the shared sets and counts only grow
(`Bystander`).

`PendingReferenceRetryProofs` proves for any rows, instances, attempts and delays
(`RetryAssumption`, `DelayAssumption`):

- `RetryInvariant`: `Spec => []RetryInv`;
- `RetryTypeCorrect` and `WindowIsWaitedOut`: `TypeOK` and `WaitsOutTheWindow`;
- `RowsStayTimely`: `Spec => []TimelyInv`; from it `GivingUpIsInTime`:
  `Spec => []GivenUpInTime`.

That a row which is given up after its attempts is old enough relates its age to the
history of its delays. `RowsWaited` keeps that history in one inequality: age plus
time to the next attempt is at least the sum of the delays so far. `Reschedule`
adds a delay to it because the row was due at the `now` of the pass; for the first
attempt, because it was parked before that `now` (`BatchesParked`). `Tick` moves
both sides alike, up to the limits of the finite times.

`GivenUpInTime` bounds from above, and only holds because somebody runs the scheduler
(`RetryAssumption` now says so). Its strengthening is `Timely`: a row comes due no later
than its delays so far, each attempt late by at most `Lateness`, or one delay after its
time to live; and once it is due there is an instance that will have tried it
(`UntilTried`) by then. That instance has the row before itself in its pass, or
rests until its interval fires and then takes every row that is due
(`EveryDueRowIsTaken`, where `RowCount <= Limit` is used), or first ends a pass that
does not have it. `Reschedule` keeps this: the next delay starts with the pass, so
what the pass was late is paid once per attempt (`RescheduledRow`). A fault takes the
pass of one instance and pays for it with `FaultDelay`. That delays only add up is an
induction over attempts (`DelaysAddUp`), done by the least counterexample.

`WalletServiceProofs` proves for any calls and owners (`WalletServiceAssumption`):

- `WalletInvariant`: `Spec => []WalletInv`;
- `OneWalletPerOwnerAlways`: `OneWalletPerOwner`;
- `ServiceInvariant`: `Spec => []ServiceInv`; from it `ServiceTypeCorrect`, `TypeOK`,
  and `ReconciliationIsExactAlways`, the action property `ReconciliationIsExact`;
- `WalkInvariant`: `Spec => []WalkInv`; from it `WalksShowWhatWasThere`,
  `WalkShowsWhatWasThere`;
- `ClockInvariant`: `Spec => []ClockInv`; from it `ObservedBalanceIsRecentAlways`,
  `ObservedBalanceIsRecent`.

The race of two creations is decided between INSERT and COMMIT: `ClaimsExclude`
says that an uncommitted wallet excludes another claim and another wallet of its
owner; `RowsAreCommitted` that a wallet and its entries exist exactly after their
COMMIT, whatever settlements write (`DraftsOnWallets`).

`ServiceInv` says of every ledger that it is in order, that its entries are numbered
without gaps as they were committed, and that its sum is the stored balance without
what was changed by hand (`LedgerOK`). What keeps this is the lock: who holds a row
works on it (`LocksOK`), so the draft of a settlement still follows the ledger when it
commits (`SettlementOK`), and what a reconciliation has read is still the balance when
it adds up the ledger (`ReconcilerOK`). A step is proved for the actor that takes it;
the others keep their part because the wallets they hold do not change
(`StepKeepsService`). The place of a new entry is open among those of its millisecond,
so the sum must not depend on it: `TotalOfInserted`, and `MergesMerge` for all
entries of a draft. Both are inductions over the length of a sequence, done by the
least counterexample (`SetInduction`).

`WalkInv` says that what a client has seen is a walk in the ledger as it is now. A
ledger only grows and keeps the order of its entries (`LedgersGrow`), so a walk stays
one (`WalkInGrowing`), and a page continues it behind the cursor (`WalkInPage`).

`ClockInv` holds where the clocks agree. There the numbers of entries and their times
have one order, because a draft is stamped while its wallet is held and nothing is
stamped in the future (`InTime`). So the time of a refusal lies between the entries
its ledger had and all later ones (`Between`), and `balanceObservedAt` finds none that
is older than the last of the former.

TLC checked `SettlementInv`, `BooksInv`, `AnswersInv`, `StoryInv`, `ContractInv`,
`PublisherInv`, `ConsumerInv`, `RetryInv`, `TimelyInv`, `ServiceInv`, `ClockInv` and
`WalkInv` as invariants first. Every safety property that a passing run checks is now
a theorem. Only model-checked: the liveness properties, under fairness (ENABLED and
liveness are out of the prover's reach).

## 5. Plan

Done: every component that keeps state of the wallet, the contract and its
refinement, and the theorems above. No safety property that a run
checks is left without a theorem; next come further properties, where a hazard in
`PROJECT.json` has none yet. The library's induction theorems cannot be used in their
proofs (they take an operator), but a set of natural numbers without a least member is
empty (`LeastMember`), which is enough for induction over the length of a sequence.

Not modelled, and why:

- parsing and formatting of money and payloads beyond their outcome (`Money` is
  natural numbers of cents; what `Money.from`, `normalizeWagerSubmit` or
  `parseWagerQueueMessage` refuse gets no further, and the one refusal inside a
  computation, a negative sum in `reconcile`, is modelled);
- HTTP controllers and the error filter: they pass values to the services and map
  errors to status codes, and keep nothing;
- metrics, logs, correlation ids, health checks, configuration: no state of the wallet
  depends on them;
- the order of the inbox INSERT and the key INSERT inside one transaction, whose only
  effect is a deadlock that PostgreSQL cancels (`Crash`);
- a row that fails in every pass of the retry worker and takes the rest of its batch
  with it: nothing in the code bounds how long it starves the others
  (`PendingReferenceRetry` allows a bounded number of failures and widens the deadline
  by each);
- unequal clocks in `PendingReferenceRetry` and `OutboxPublisher`: the code assumes
  them equal up to delays of seconds; in `WalletService`, where milliseconds count,
  they differ.

## 6. Where code and documents differ

- *`ReplayBalance`*. SPECS.MD:385 wants a replay to return the original result
  with the balance observed then. If reversals were waiting, the first answer
  carries the balance after the cascade and the replay the balance after the
  transaction's own entry. Replays of a transaction that moved money agree with each
  other and with its balance event (`ReplaysRepeatTheEvents`); those of one that moved
  none need not agree in their balance, because an entry that commits later may carry
  an earlier or equal time (see `RefusedReplay`).
- *`KeyReuse`*. SPECS.MD:506 wants a conflict for a key with another payload.
  After a violation of the external-id index the row found by external id may
  answer for a key that another row already binds.
- *`OutboxLease`*. ARCHITECTURE_SUGGESTIONS.md:477 says that publishers never send a
  row twice at once and that the lease covers the interval in flight. The lease
  counts from the start of the batch: after slow rows it is short or over when a
  row is claimed, and another instance sends the same row meanwhile. The events
  queue and the inboxes of its consumers absorb the duplicate; `LatestClaimDecides`
  shows that the row itself stays consistent.
- *`LedgerWalk`*. src/README.md:210 and ARCHITECTURE_SUGGESTIONS.md:327 call the order
  of the ledger stable under writes. An entry committed by a process with an earlier
  clock sorts before a cursor that was handed out, and no later page shows it. What
  was stored when the walk began is shown (`WalkShowsWhatWasThere`).
- *`RefusedReplay`*. SPECS.MD:385 again: the entries of one cascade share a millisecond and
  have random ids, so that the replay of a transaction refused afterwards may
  report the balance from the middle of the cascade. For equal clocks it is never older
  than that (`ObservedBalanceIsRecent`); this is about transactions refused at once. One
  that was parked and then rejected was never told a balance, its replay looks for the
  one of the time it was parked, and no document says which one it owes.

Observed without a run of its own: an amount of zero is accepted, written and announced
with `WalletBalanceChanged`, which SPECS.MD:602 wants only when the balance changes;
field limits bound the characters of an amount and not the sum in
`numeric(20,2)`, whose overflow fails the COMMIT (`CommitRefused`); a ledger whose sum
is negative makes `reconcile` throw instead of reporting (`ReadLedger`).

## 7. Running

    tlc -workers 2 -config SettlementIdentity.cfg MCWagerSettlement
    tlapm WagerSettlementProofs.tla

and likewise for the other runs (`MCOutboxPublisher`, `MCSqsConsumer`,
`MCPendingReferenceRetry`, `MCWalletService`) and proofs.

The longest runs, `SettlementReversals` and `WalletService`, visit 1.2 and 2.5 million
states in about two minutes each; `SettlementIdentity`, which also checks the
refinement, takes two and a half.
