-------------------------- MODULE WagerSettlement --------------------------
(***************************************************************************)
(* Settlement of wager transactions: WagerTransactionService.submit and    *)
(* .reprocessPendingReferences against PostgreSQL at READ COMMITTED.       *)
(*                                                                         *)
(* Deliveries are calls of submit (an HTTP request or an SQS message; a    *)
(* redelivery is another delivery of an equal submission).  Workers are    *)
(* passes of the pending-reference scheduler, of any number of instances.  *)
(* Each actor runs one database transaction at a time.  What it has        *)
(* written and not committed lives in its draft; Commit publishes the      *)
(* draft, a crash or an error drops it.  All the writes of a transaction   *)
(* concern one wallet, whose row it locked with SELECT ... FOR UPDATE.     *)
(***************************************************************************)
EXTENDS WagerRules, FiniteSets

CONSTANTS
  Deliveries,      \* calls of submit; a delivery also names the row it inserts
  Workers,         \* retry passes of the pending-reference scheduler
  Wallets,         \* wallet ids that exist
  Submissions,     \* normalized submissions clients may send
  WalletPlayer,    \* owner of each wallet
  WalletCurrency,  \* currency of each wallet
  InitialBalance,  \* balance each wallet was opened with
  MaxAttempts,     \* retries after which a pending reference expires
  MaxNumeric,      \* largest amount the numeric(20,2) columns store
  MaxCrashes,      \* bound on the crashes explored
  NoActor, NoTx, OpeningTx, NoSubmission, NoMessage   \* sentinels

Actors == Deliveries \cup Workers

ASSUME ActorAssumption ==
  /\ Deliveries \cap Workers = {}
  /\ NoActor \notin Actors
  /\ {NoTx, OpeningTx} \cap Deliveries = {}
  /\ NoSubmission \notin Submissions

ASSUME SubmissionAssumption ==
  \A s \in Submissions :
    /\ s.kind \in Kinds
    /\ s.amount \in Nat

ASSUME WalletAssumption ==
  /\ InitialBalance \in [Wallets -> Nat]
  /\ DOMAIN WalletPlayer = Wallets
  /\ DOMAIN WalletCurrency = Wallets

ASSUME BoundAssumption ==
  /\ MaxAttempts \in Nat
  /\ MaxNumeric \in Nat
  /\ MaxCrashes \in Nat

VARIABLES
  sub,       \* what each delivery submitted
  wallet,    \* table wallet: balance and version
  row,       \* table wager_transaction, by inserting delivery
  ledger,    \* table wallet_ledger_entry, per wallet in insertion order
  outbox,    \* table outbox_message, per wallet of the transaction
  inbox,     \* message ids of table inbox_message
  lock,      \* holder of each wallet's row lock
  pc,        \* where each actor stands
  job,       \* the pending row a worker picked, with its attempts at that time
  draft,     \* uncommitted writes of each actor
  resp,      \* what submit returned to each delivery
  crashes    \* crashes so far

vars == <<sub, wallet, row, ledger, outbox, inbox, lock, pc, job, draft, resp, crashes>>
committed == <<wallet, row, ledger, outbox>>

-----------------------------------------------------------------------------
(* Records *)

NoBalance == 0 - 1     \* a response or an event without a balance

NoRow == [status |-> "ABSENT", failure |-> NoFailure, refTx |-> NoTx, attempts |-> 0]
NoJob == [tx |-> NoTx, attempts |-> 0]
NoAnswer == [outcome |-> "NONE", tx |-> NoTx, status |-> "ABSENT", balance |-> NoBalance]

Rows == [ status : StoredStatuses \cup {"ABSENT"}, failure : FailureCodes \cup {NoFailure},
          refTx : Deliveries \cup {NoTx}, attempts : Nat ]
WalletRows == [balance : Int, version : Nat]
Entries == [ tx : Deliveries \cup {OpeningTx}, direction : Directions, amount : Nat,
             before : Int, after : Int ]
EventTypes == { "WagerTransactionProcessed", "WagerTransactionRejected",
                "WagerTransactionPendingReference", "WalletBalanceChanged" }
Events == [type : EventTypes, tx : Deliveries, balance : Int, version : Nat]
Jobs == [tx : Deliveries \cup {NoTx}, attempts : Nat]
Outcomes == { "NONE", "settled", "replay", "conflict", "invalid_payload",
              "wallet_not_found", "failed", "lost" }
Answers == [ outcome : Outcomes, tx : Deliveries \cup {NoTx},
             status : StoredStatuses \cup {"ABSENT"}, balance : Int ]

\* rows: the rows the transaction wrote, the others ABSENT.
\* queue: settled references whose waiting transactions are still to be visited.
EmptyDraft == [ wallet |-> [balance |-> 0, version |-> 0], rows |-> [d \in Deliveries |-> NoRow],
                entries |-> <<>>, events |-> <<>>, queue |-> <<>> ]
Drafts == [ wallet : WalletRows, rows : [Deliveries -> Rows],
            entries : Seq(Entries), events : Seq(Events), queue : Seq(Deliveries) ]

-----------------------------------------------------------------------------
(* Queries *)

TxOf(a) == IF a \in Deliveries THEN a ELSE job[a].tx
WalletOf(a) == sub[TxOf(a)].wallet

Stored(rows) == { e \in Deliveries : rows[e].status # "ABSENT" }

\* The table as the transaction with draft dr reads it: its own writes on top.
Visible(dr) == [e \in Deliveries |-> IF e \in Stored(dr.rows) THEN dr.rows[e] ELSE row[e]]

\* findByIdempotency
ByKey(s) == { e \in Stored(row) : sub[e].provider = s.provider /\ sub[e].key = s.key }

\* Mutant: the schema without uq_wager_provider_external.
Clashing_KeyOnly(s) == ByKey(s)

\* The rows that violate uq_wager_provider_idempotency or uq_wager_provider_external.
Clashing(s) == { e \in Stored(row) : /\ sub[e].provider = s.provider
                                     /\ sub[e].key = s.key \/ sub[e].ext = s.ext }

\* Everything the payload hash covers: not the key, not the transport's message.
SamePayload(s, u) ==
  \A f \in {"provider", "ext", "wallet", "player", "round", "kind", "amount", "currency", "ref"} :
    s[f] = u[f]

\* resolveReference: the row with the referenced external id, in any wallet.
ReferenceOf(rows, t) ==
  IF RequiresReference(t.kind)
  THEN LET found == { e \in Stored(rows) : sub[e].provider = t.provider /\ sub[e].ext = t.ref }
       IN  IF found = {} THEN NoTx ELSE CHOOSE e \in found : TRUE
  ELSE NoTx

AlreadyReversed(rows, ref, kind) ==
  \E e \in Stored(rows) : /\ rows[e].status = "PROCESSED"
                          /\ rows[e].refTx = ref
                          /\ sub[e].kind = kind

\* Mutant: the replay reads the wallet instead of the ledger.
ObservedBalances_Current(e) == { wallet[sub[e].wallet].balance }

\* The balances a replay may report: the one after the row's own ledger entry.  A
\* row without one is looked up by its time, among the entries whose time is not
\* later: clocks of several instances, ties and random ids may make any of them
\* the last, or leave none.
ObservedBalances(e) ==
  LET entries == ledger[sub[e].wallet]
      own == { i \in DOMAIN entries : entries[i].tx = e }
  IN  IF own # {} THEN { entries[i].after : i \in own }
      ELSE {0} \cup { entries[i].after : i \in DOMAIN entries }

Replay(e, balance) ==
  [outcome |-> "replay", tx |-> e, status |-> row[e].status, balance |-> balance]

ReplaysOf(e) ==
  { Replay(e, balance) : balance \in
      IF row[e].status = "PENDING_REFERENCE" THEN {NoBalance} ELSE ObservedBalances(e) }

\* Mutant: a replay is answered without comparing the payload hash.
ViewsForExisting_AnyPayload(s, e) == ReplaysOf(e)

\* viewForExisting, with every balance it may find.
ViewsForExisting(s, e) ==
  IF SamePayload(s, sub[e]) THEN ReplaysOf(e) ELSE { [NoAnswer EXCEPT !.outcome = "conflict"] }

\* Mutant: an inbox row for every submission, whatever the channel.
RecordInbox_Always(s) == inbox \cup {s.message}

\* recordInbox: insert ... on conflict do nothing
RecordInbox(s) == IF s.message = NoMessage THEN inbox ELSE inbox \cup {s.message}

-----------------------------------------------------------------------------
(* Applying one transaction inside an open database transaction *)

\* Mutant: a transaction settled after waiting does not announce its balance.
SettlementEvents_NoLateBalance(tx, before, v, wal) ==
  LET event(type, version) ==
        [ type |-> type, tx |-> tx, version |-> version,
          balance |-> IF v.direction = NoDirection THEN NoBalance ELSE wal.balance ]
      moved == IF v.direction = NoDirection \/ before # "PENDING" THEN <<>>
               ELSE << event("WalletBalanceChanged", wal.version) >>
  IN  IF v.status = "PROCESSED" THEN << event("WagerTransactionProcessed", 0) >> \o moved
      ELSE IF v.status = "REJECTED" THEN << event("WagerTransactionRejected", 0) >>
      ELSE << event("WagerTransactionPendingReference", 0) >>

\* settlementEvents; wal is the wallet after the change.  The version is that of
\* the wallet in a WalletBalanceChanged, 0 in the others.
SettlementEvents(tx, before, v, wal) ==
  LET event(type, version) ==
        [ type |-> type, tx |-> tx, version |-> version,
          balance |-> IF v.direction = NoDirection THEN NoBalance ELSE wal.balance ]
      moved == IF v.direction = NoDirection THEN <<>>
               ELSE << event("WalletBalanceChanged", wal.version) >>
  IN  IF v.status = "PROCESSED" THEN << event("WagerTransactionProcessed", 0) >> \o moved
      ELSE IF v.status = "REJECTED" THEN << event("WagerTransactionRejected", 0) >>
      ELSE IF before = "PENDING" THEN << event("WagerTransactionPendingReference", 0) >>
      ELSE <<>>

\* Mutant: reversals settled in the same database transaction are not seen.
VerdictOn_CommittedOnly(dr, tx, ref) ==
  Verdict(sub[tx], WalletCurrency[sub[tx].wallet], dr.wallet.balance, sub[ref],
          IF ref = NoTx THEN "ABSENT" ELSE Visible(dr)[ref].status,
          AlreadyReversed(row, ref, sub[tx].kind))

\* The verdict on tx, whose reference is row ref (NoTx: none found).
VerdictOn(dr, tx, ref) ==
  LET seen == Visible(dr)
  IN  Verdict(sub[tx], WalletCurrency[sub[tx].wallet], dr.wallet.balance, sub[ref],
              IF ref = NoTx THEN "ABSENT" ELSE seen[ref].status,
              AlreadyReversed(seen, ref, sub[tx].kind))

\* The wallet after verdict v on t: Wallet.debit, Wallet.credit and applyChange.
WalletAfter(wal, t, v) ==
  IF v.direction = NoDirection THEN wal
  ELSE [balance |-> wal.balance + Signed(v.direction, t.amount), version |-> wal.version + 1]

EntriesFor(wal, tx, v) ==
  IF v.direction = NoDirection THEN <<>>
  ELSE << [ tx |-> tx, direction |-> v.direction, amount |-> sub[tx].amount,
            before |-> wal.balance, after |-> WalletAfter(wal, sub[tx], v).balance ] >>

RowAfter(dr, tx, ref, v) ==
  [ status   |-> v.status,
    failure  |-> v.failure,
    refTx    |-> IF v.status = "PROCESSED" THEN ref ELSE NoTx,
    attempts |-> Visible(dr)[tx].attempts ]

\* Writes of one settled or parked transaction: the row, and with it the wallet,
\* the ledger entry and the outbox events of its verdict v.
Applied(dr, tx, ref, before, v) ==
  LET wal == WalletAfter(dr.wallet, sub[tx], v)
  IN  [ dr EXCEPT !.wallet = wal,
                  !.rows[tx] = RowAfter(dr, tx, ref, v),
                  !.entries = @ \o EntriesFor(dr.wallet, tx, v),
                  !.events  = @ \o SettlementEvents(tx, before, v, wal) ]

\* persistSettlement visits the dependents of a referenceable transaction that
\* reached a terminal status ...
QueueAfter(tx, v) ==
  IF Terminal(v.status) /\ Referenceable(sub[tx].kind) THEN <<tx>> ELSE <<>>

\* Mutant: dependents of dependents are left to the retry worker.
QueueAfterDependent_NoChain(queue, tx, v) == queue

\* ... and resolveDependents goes on with those it processed itself.
QueueAfterDependent(queue, tx, v) ==
  IF v.status = "PROCESSED" /\ Referenceable(sub[tx].kind) THEN Append(queue, tx) ELSE queue

\* The transactions that wait for row ref, as resolveDependents selects them.
Dependents(dr, ref) ==
  { e \in Deliveries : /\ Visible(dr)[e].status = "PENDING_REFERENCE"
                       /\ sub[e].provider = sub[ref].provider
                       /\ sub[e].wallet = sub[ref].wallet
                       /\ sub[e].ref = sub[ref].ext }

-----------------------------------------------------------------------------
(* Ends of a database transaction *)

\* Mutant: the lock survives the handling of a unique violation.
Close_KeepsLock(a, next) ==
  /\ pc' = [pc EXCEPT ![a] = next]
  /\ lock' = [w \in Wallets |-> IF lock[w] = a /\ next # "resolve" THEN NoActor ELSE lock[w]]
  /\ draft' = [draft EXCEPT ![a] = EmptyDraft]
  /\ job' = IF a \in Workers THEN [job EXCEPT ![a] = NoJob] ELSE job

\* The transaction of a is over: its lock is released and its draft is gone.
Close(a, next) ==
  /\ pc' = [pc EXCEPT ![a] = next]
  /\ lock' = [w \in Wallets |-> IF lock[w] = a THEN NoActor ELSE lock[w]]
  /\ draft' = [draft EXCEPT ![a] = EmptyDraft]
  /\ job' = IF a \in Workers THEN [job EXCEPT ![a] = NoJob] ELSE job

\* Mutant: the inbox row is written before the payload is compared.
Answer_InboxFirst(d, answer) ==
  /\ Close(d, "done")
  /\ resp' = [resp EXCEPT ![d] = answer]
  /\ inbox' = RecordInbox(sub[d])
  /\ UNCHANGED <<sub, committed, crashes>>

\* submit answers d and the transaction ends without having written anything
\* but, for a replay, the inbox.
Answer(d, answer) ==
  /\ Close(d, "done")
  /\ resp' = [resp EXCEPT ![d] = answer]
  /\ inbox' = IF answer.outcome = "replay" THEN RecordInbox(sub[d]) ELSE inbox
  /\ UNCHANGED <<sub, committed, crashes>>

-----------------------------------------------------------------------------
(* submit *)

\* A client or a queue hands over a submission (normalizeWagerSubmit passed).
Submit(d, s) ==
  /\ pc[d] = "idle"
  /\ sub' = [sub EXCEPT ![d] = s]
  /\ pc' = [pc EXCEPT ![d] = "lookup"]
  /\ UNCHANGED <<committed, inbox, lock, job, draft, resp, crashes>>

\* process, before the wallet lock: the key is already bound to a row.
AnswerKnown(d) ==
  /\ pc[d] = "lookup"
  /\ \E e \in ByKey(sub[d]) : \E answer \in ViewsForExisting(sub[d], e) : Answer(d, answer)

\* The key is free as far as this transaction sees; it asks for the wallet.
RequestLock(d) ==
  /\ pc[d] = "lookup"
  /\ ByKey(sub[d]) = {}
  /\ pc' = [pc EXCEPT ![d] = "lock"]
  /\ UNCHANGED <<sub, committed, inbox, lock, job, draft, resp, crashes>>

WalletNotFound(d) ==
  /\ pc[d] = "lock"
  /\ WalletOf(d) \notin Wallets
  /\ Answer(d, [NoAnswer EXCEPT !.outcome = "wallet_not_found"])

\* Mutant: a plain SELECT, which does not wait for the holder.
AcquireLock_PlainRead(a) ==
  /\ pc[a] = "lock"
  /\ WalletOf(a) \in Wallets
  /\ lock' = [lock EXCEPT ![WalletOf(a)] = a]
  /\ draft' = [draft EXCEPT ![a].wallet = wallet[WalletOf(a)]]
  /\ pc' = [pc EXCEPT ![a] = "decide"]
  /\ UNCHANGED <<sub, committed, inbox, job, resp, crashes>>

\* SELECT ... FOR UPDATE of the wallet row: waits for the holder, then reads the
\* version the holder committed.
AcquireLock(a) ==
  /\ pc[a] = "lock"
  /\ WalletOf(a) \in Wallets
  /\ lock[WalletOf(a)] = NoActor
  /\ lock' = [lock EXCEPT ![WalletOf(a)] = a]
  /\ draft' = [draft EXCEPT ![a].wallet = wallet[WalletOf(a)]]
  /\ pc' = [pc EXCEPT ![a] = "decide"]
  /\ UNCHANGED <<sub, committed, inbox, job, resp, crashes>>

\* process, after the lock: another delivery of the key won in the meantime.
AnswerAfterLock(d) ==
  /\ pc[d] = "decide"
  /\ \E e \in ByKey(sub[d]) : \E answer \in ViewsForExisting(sub[d], e) : Answer(d, answer)

WrongPlayer(d) ==
  /\ pc[d] = "decide"
  /\ ByKey(sub[d]) = {}
  /\ sub[d].player # WalletPlayer[WalletOf(d)]
  /\ Answer(d, [NoAnswer EXCEPT !.outcome = "invalid_payload"])

\* The transaction of a goes on with tx applied: to its dependents or to COMMIT.
Apply(a, tx, ref, before, v) ==
  /\ draft' = [draft EXCEPT ![a] = [Applied(draft[a], tx, ref, before, v)
                                      EXCEPT !.queue = QueueAfter(tx, v)]]
  /\ pc' = [pc EXCEPT ![a] = IF QueueAfter(tx, v) = <<>> THEN "commit" ELSE "cascade"]
  /\ UNCHANGED <<sub, committed, inbox, lock, job, resp, crashes>>

\* process: create the transaction, resolve its reference, apply and persist it.
Process(d) ==
  /\ pc[d] = "decide"
  /\ ByKey(sub[d]) = {}
  /\ sub[d].player = WalletPlayer[WalletOf(d)]
  /\ LET ref == ReferenceOf(Visible(draft[d]), sub[d])
     IN  Apply(d, d, ref, "PENDING", VerdictOn(draft[d], d, ref))

\* resolveDependents, one dependent of the reference at the head of the queue.
\* They are ordered by createdAt, which clocks of several instances and ties
\* within a millisecond leave open: any order.
SettleDependent(a) ==
  /\ pc[a] = "cascade"
  /\ LET dr == draft[a]
         ref == Head(dr.queue)
     IN  \E e \in Dependents(dr, ref) :
           LET v == VerdictOn(dr, e, ref)
           IN  draft' = [draft EXCEPT ![a] =
                           [Applied(dr, e, ref, "PENDING_REFERENCE", v)
                              EXCEPT !.queue = QueueAfterDependent(dr.queue, e, v)]]
  /\ UNCHANGED <<sub, committed, inbox, lock, pc, job, resp, crashes>>

NextReference(a) ==
  /\ pc[a] = "cascade"
  /\ Dependents(draft[a], Head(draft[a].queue)) = {}
  /\ draft' = [draft EXCEPT ![a].queue = Tail(@)]
  /\ pc' = [pc EXCEPT ![a] = IF Len(draft[a].queue) = 1 THEN "commit" ELSE "cascade"]
  /\ UNCHANGED <<sub, committed, inbox, lock, job, resp, crashes>>

-----------------------------------------------------------------------------
(* COMMIT and the constraints of the schema *)

LedgerAfter(a) == ledger[WalletOf(a)] \o draft[a].entries

\* A constraint other than the two idempotency keys would refuse the writes of a:
\* uq_wager_single_reversal, uq_ledger_transaction, ck_wallet_balance_non_negative.
BreaksSafetyNet(a) ==
  \/ \E e \in Stored(draft[a].rows), f \in Deliveries :
       LET seen == Visible(draft[a])
       IN  /\ e # f
           /\ seen[e].status = "PROCESSED" /\ seen[f].status = "PROCESSED"
           /\ seen[e].refTx # NoTx /\ seen[e].refTx = seen[f].refTx
           /\ sub[e].kind = sub[f].kind
  \/ \E i, j \in DOMAIN LedgerAfter(a) : i # j /\ LedgerAfter(a)[i].tx = LedgerAfter(a)[j].tx
  \/ draft[a].wallet.balance < 0

\* A numeric(20,2) column would overflow.
Overflows(a) ==
  \/ \E e \in Stored(draft[a].rows) : sub[e].amount > MaxNumeric
  \/ \E i \in DOMAIN draft[a].entries : draft[a].entries[i].after > MaxNumeric

\* The row d inserts; a worker inserts none.
Clashes(a) == a \in Deliveries /\ Clashing(sub[a]) # {}

Commit(a) ==
  /\ pc[a] = "commit"
  /\ ~Clashes(a) /\ ~BreaksSafetyNet(a) /\ ~Overflows(a)
  /\ wallet' = [wallet EXCEPT ![WalletOf(a)] = draft[a].wallet]
  /\ row' = Visible(draft[a])
  /\ ledger' = [ledger EXCEPT ![WalletOf(a)] = @ \o draft[a].entries]
  /\ outbox' = [outbox EXCEPT ![WalletOf(a)] = @ \o draft[a].events]
  /\ IF a \in Deliveries
     THEN /\ inbox' = RecordInbox(sub[a])
          /\ resp' = [resp EXCEPT ![a] =
               [ outcome |-> "settled", tx |-> a, status |-> draft[a].rows[a].status,
                 balance |-> IF draft[a].rows[a].status = "PENDING_REFERENCE" THEN NoBalance
                             ELSE draft[a].wallet.balance ]]
     ELSE UNCHANGED <<inbox, resp>>
  /\ Close(a, IF a \in Deliveries THEN "done" ELSE "idle")
  /\ UNCHANGED <<sub, crashes>>

\* A unique violation on the key or the external id: submitNormalized catches it.
CommitClash(d) ==
  /\ pc[d] = "commit"
  /\ Clashes(d)
  /\ Close(d, "resolve")
  /\ UNCHANGED <<sub, committed, inbox, resp, crashes>>

\* Any other error of the database propagates to the caller.
CommitRefused(a) ==
  /\ pc[a] = "commit"
  /\ ~Clashes(a)
  /\ BreaksSafetyNet(a) \/ Overflows(a)
  /\ Close(a, IF a \in Deliveries THEN "done" ELSE "idle")
  /\ resp' = IF a \in Deliveries THEN [resp EXCEPT ![a].outcome = "failed"] ELSE resp
  /\ UNCHANGED <<sub, committed, inbox, crashes>>

\* resolveExisting: one row that matches the key or the external id, in no
\* particular order, is taken for the original.  Its error for "no such row" has
\* no step here: rows are never deleted, so one is always found.
ResolveExisting(d) ==
  /\ pc[d] = "resolve"
  /\ \E e \in Clashing(sub[d]) : \E answer \in ViewsForExisting(sub[d], e) :
       /\ resp' = [resp EXCEPT ![d] = answer]
       /\ pc' = [pc EXCEPT ![d] = IF answer.outcome = "replay" THEN "mark" ELSE "done"]
  /\ UNCHANGED <<sub, committed, inbox, lock, job, draft, crashes>>

\* markInboxProcessed, in a transaction of its own, before submit returns.
MarkInboxProcessed(d) ==
  /\ pc[d] = "mark"
  /\ inbox' = RecordInbox(sub[d])
  /\ pc' = [pc EXCEPT ![d] = "done"]
  /\ UNCHANGED <<sub, committed, lock, job, draft, resp, crashes>>

-----------------------------------------------------------------------------
(* reprocessPendingReferences *)

\* A due row of the batch comes up.  The clock that sets its due time is not
\* modelled: a pending row may be due at any moment.
PickDue(a) ==
  /\ pc[a] = "idle"
  /\ \E e \in Deliveries :
       /\ row[e].status = "PENDING_REFERENCE"
       /\ job' = [job EXCEPT ![a] = [tx |-> e, attempts |-> row[e].attempts]]
  /\ pc' = [pc EXCEPT ![a] = "lock"]
  /\ UNCHANGED <<sub, committed, inbox, lock, draft, resp, crashes>>

\* reprocessOne finds, under the lock, that the row was settled meanwhile or
\* rescheduled past the time the batch was read.
SkipRow(a) ==
  /\ pc[a] = "decide"
  /\ \/ row[job[a].tx].status # "PENDING_REFERENCE"
     \/ row[job[a].tx].attempts # job[a].attempts
  /\ Close(a, "idle")
  /\ UNCHANGED <<sub, committed, inbox, resp, crashes>>

\* The reference of a worker's row, as its transaction reads it.
JobReference(a) == ReferenceOf(Visible(draft[a]), sub[job[a].tx])
JobVerdict(a) == VerdictOn(draft[a], job[a].tx, JobReference(a))

\* The reference arrived: the row is settled like a new one.
Reprocess(a) ==
  /\ pc[a] = "decide"
  /\ row[job[a].tx].status = "PENDING_REFERENCE"
  /\ JobVerdict(a) # Awaiting
  /\ Apply(a, job[a].tx, JobReference(a), "PENDING_REFERENCE", JobVerdict(a))

\* Mutant: a retry that does not count.
Reschedule_Uncounted(a) ==
  /\ pc[a] = "decide"
  /\ row[job[a].tx].status = "PENDING_REFERENCE"
  /\ JobVerdict(a) = Awaiting
  /\ row[job[a].tx].attempts < MaxAttempts
  /\ draft' = [draft EXCEPT ![a].rows[job[a].tx] = row[job[a].tx]]
  /\ pc' = [pc EXCEPT ![a] = "commit"]
  /\ UNCHANGED <<sub, committed, inbox, lock, job, resp, crashes>>

\* Mutant: the status read with the batch is trusted under the lock.
Reschedule_Unchecked(a) ==
  /\ pc[a] = "decide"
  /\ JobVerdict(a) = Awaiting
  /\ row[job[a].tx].attempts < MaxAttempts
  /\ draft' = [draft EXCEPT ![a].rows[job[a].tx] =
                 [row[job[a].tx] EXCEPT !.attempts = @ + 1]]
  /\ pc' = [pc EXCEPT ![a] = "commit"]
  /\ UNCHANGED <<sub, committed, inbox, lock, job, resp, crashes>>

\* Still missing, retries and time to live not exhausted: one more attempt.
Reschedule(a) ==
  /\ pc[a] = "decide"
  /\ row[job[a].tx].status = "PENDING_REFERENCE"
  /\ JobVerdict(a) = Awaiting
  /\ row[job[a].tx].attempts < MaxAttempts
  /\ draft' = [draft EXCEPT ![a].rows[job[a].tx] =
                 [row[job[a].tx] EXCEPT !.attempts = @ + 1]]
  /\ pc' = [pc EXCEPT ![a] = "commit"]
  /\ UNCHANGED <<sub, committed, inbox, lock, job, resp, crashes>>

\* Still missing and expired: by attempts, or by the time to live, which may run
\* out at any attempt.
Expire(a) ==
  /\ pc[a] = "decide"
  /\ row[job[a].tx].status = "PENDING_REFERENCE"
  /\ JobVerdict(a) = Awaiting
  /\ draft' = [draft EXCEPT ![a] = Applied(@, job[a].tx, NoTx, "PENDING_REFERENCE",
                                           Rejected("UNRESOLVED_REFERENCE"))]
  /\ pc' = [pc EXCEPT ![a] = "commit"]
  /\ UNCHANGED <<sub, committed, inbox, lock, job, resp, crashes>>

-----------------------------------------------------------------------------
(* Failure and the specification *)

\* The process dies or loses its connection: PostgreSQL rolls back.  The caller
\* of submit gets no answer.
Crash(a) ==
  /\ crashes < MaxCrashes
  /\ pc[a] \notin {"idle", "done"}
  /\ crashes' = crashes + 1
  /\ Close(a, IF a \in Deliveries THEN "done" ELSE "idle")
  /\ resp' = IF a \in Deliveries THEN [resp EXCEPT ![a] = [NoAnswer EXCEPT !.outcome = "lost"]]
             ELSE resp
  /\ UNCHANGED <<sub, committed, inbox>>

\* Every delivery answered and nothing pending: the system rests.
Quiescent ==
  /\ \A d \in Deliveries : pc[d] = "done" /\ row[d].status # "PENDING_REFERENCE"
  /\ \A a \in Workers : pc[a] = "idle"
  /\ UNCHANGED vars

OpeningEntries(w) ==
  IF InitialBalance[w] = 0 THEN <<>>
  ELSE << [ tx |-> OpeningTx, direction |-> "CREDIT", amount |-> InitialBalance[w],
            before |-> 0, after |-> InitialBalance[w] ] >>

Init ==
  /\ sub = [d \in Deliveries |-> NoSubmission]
  /\ wallet = [w \in Wallets |-> [balance |-> InitialBalance[w], version |-> 1]]
  /\ row = [d \in Deliveries |-> NoRow]
  /\ ledger = [w \in Wallets |-> OpeningEntries(w)]
  /\ outbox = [w \in Wallets |-> <<>>]
  /\ inbox = {}
  /\ lock = [w \in Wallets |-> NoActor]
  /\ pc = [a \in Actors |-> "idle"]
  /\ job = [a \in Workers |-> NoJob]
  /\ draft = [a \in Actors |-> EmptyDraft]
  /\ resp = [d \in Deliveries |-> NoAnswer]
  /\ crashes = 0

DeliveryStep(d) ==
  \/ AnswerKnown(d) \/ RequestLock(d) \/ WalletNotFound(d) \/ AnswerAfterLock(d)
  \/ WrongPlayer(d) \/ Process(d) \/ CommitClash(d) \/ ResolveExisting(d)
  \/ MarkInboxProcessed(d)

WorkerStep(a) ==
  PickDue(a) \/ SkipRow(a) \/ Reprocess(a) \/ Reschedule(a) \/ Expire(a)

TransactionStep(a) ==
  \/ AcquireLock(a) \/ SettleDependent(a) \/ NextReference(a)
  \/ Commit(a) \/ CommitRefused(a)

Next ==
  \/ \E d \in Deliveries : DeliveryStep(d) \/ \E s \in Submissions : Submit(d, s)
  \/ \E a \in Workers : WorkerStep(a)
  \/ \E a \in Actors : TransactionStep(a) \/ Crash(a)
  \/ Quiescent

Spec == Init /\ [][Next]_vars

\* A running transaction goes on, and the scheduler's timer keeps firing.  Weak
\* fairness is enough for the lock too: PostgreSQL queues its waiters, and only
\* finitely many transactions compete for it.  Clients need not submit.
Fairness ==
  /\ \A d \in Deliveries : WF_vars(DeliveryStep(d) \/ TransactionStep(d))
  /\ \A a \in Workers : WF_vars(WorkerStep(a) \/ TransactionStep(a))

FairSpec == Spec /\ Fairness

-----------------------------------------------------------------------------
(* Properties *)

PCs == { "idle", "lookup", "lock", "decide", "cascade", "commit", "resolve", "mark", "done" }

\* Every variable has the shape the tables and the in-flight transactions have.
TypeOK ==
  /\ sub \in [Deliveries -> Submissions \cup {NoSubmission}]
  /\ wallet \in [Wallets -> WalletRows]
  /\ row \in [Deliveries -> Rows]
  /\ ledger \in [Wallets -> Seq(Entries)]
  /\ outbox \in [Wallets -> Seq(Events)]
  /\ inbox \subseteq { s.message : s \in Submissions } \ {NoMessage}
  /\ lock \in [Wallets -> Actors \cup {NoActor}]
  /\ pc \in [Actors -> PCs]
  /\ job \in [Workers -> Jobs]
  /\ draft \in [Actors -> Drafts]
  /\ resp \in [Deliveries -> Answers]
  /\ crashes \in Nat

\* entries continue a balance of start: each begins where the one before it
\* ended, adds its signed amount and does not end below zero.
Chained(entries, start) ==
  \A i \in DOMAIN entries :
    /\ entries[i].before = IF i = 1 THEN start ELSE entries[i - 1].after
    /\ entries[i].after = entries[i].before + Signed(entries[i].direction, entries[i].amount)
    /\ entries[i].after >= 0

EndBalance(entries, start) == IF entries = <<>> THEN start ELSE entries[Len(entries)].after

\* The stored balance is explained by the ledger: the entries of a wallet form an
\* unbroken chain from zero that never goes negative, the wallet holds its last
\* balance and has one version per entry.  Two settlements of one wallet that
\* overlapped would lose an update and break the chain.
LedgerExplainsBalance ==
  \A w \in Wallets :
    /\ Chained(ledger[w], 0)
    /\ wallet[w].balance = EndBalance(ledger[w], 0)
    /\ wallet[w].version = 1 + Len(ledger[w]) - Len(OpeningEntries(w))

\* A submission moves money at most once however often, over whichever channel
\* and across whichever crash it is delivered: a processed row other than a LOSS
\* has exactly one ledger entry, in its own wallet and of its own amount, any other
\* row has none, and no two rows share a payload.
OneMovementPerSubmission ==
  /\ \A d \in Deliveries, w \in Wallets :
       LET own == { i \in DOMAIN ledger[w] : ledger[w][i].tx = d }
       IN  /\ Cardinality(own) = IF /\ row[d].status = "PROCESSED"
                                   /\ sub[d].kind # "LOSS" /\ sub[d].wallet = w
                                THEN 1 ELSE 0
           /\ \A i \in own : ledger[w][i].amount = sub[d].amount
  /\ \A d, e \in Stored(row) : d # e => ~SamePayload(sub[d], sub[e])

\* A processed REFUND or ROLLBACK undoes exactly one processed movement of its
\* wallet: opposite direction, same amount, once per kind of reversal.
ReversalUndoesOneMovement ==
  \A d \in Stored(row) :
    row[d].status = "PROCESSED" /\ RequiresReference(sub[d].kind) =>
      LET ref == row[d].refTx
          w == sub[d].wallet
      IN  /\ ref \in Stored(row)
          /\ row[ref].status = "PROCESSED"
          /\ sub[ref].wallet = w
          /\ \E i, j \in DOMAIN ledger[w] :
               /\ ledger[w][i].tx = ref /\ ledger[w][j].tx = d /\ i < j
               /\ ledger[w][j].direction = Invert(ledger[w][i].direction)
               /\ ledger[w][j].amount = ledger[w][i].amount
          /\ \A e \in Stored(row) \ {d} : row[e].status = "PROCESSED" /\ row[e].refTx = ref
                                         => sub[e].kind # sub[d].kind

\* The schema's other constraints are a safety net: the service itself never
\* reaches COMMIT with writes one of them would refuse.
SafetyNetNeverFires ==
  \A a \in Actors : pc[a] = "commit" => ~BreaksSafetyNet(a)

\* No reversal waits for a transaction that has already been processed: whoever
\* of the two commits second settles the pair, in either order of arrival, so
\* that the retry worker never has money to move.
NoStrandedReversal ==
  \A d, r \in Stored(row) :
    ~ /\ row[d].status = "PENDING_REFERENCE"
      /\ row[r].status = "PROCESSED" /\ Referenceable(sub[r].kind)
      /\ sub[r].provider = sub[d].provider /\ sub[r].wallet = sub[d].wallet
      /\ sub[r].ext = sub[d].ref

\* The events of one transaction come in this order.
Place(type) ==
  CASE type = "WagerTransactionPendingReference" -> 1
    [] type = "WalletBalanceChanged" -> 3
    [] OTHER -> 2

\* The events a transaction of kind has by the time it has status.
Story(kind, parked, status) ==
  LET when(condition, type) == IF condition THEN {type} ELSE {}
  IN  UNION { when(parked, "WagerTransactionPendingReference"),
              when(status = "REJECTED", "WagerTransactionRejected"),
              when(status = "PROCESSED", "WagerTransactionProcessed"),
              when(status = "PROCESSED" /\ kind # "LOSS", "WalletBalanceChanged") }

\* events has exactly the types of d's story, each once and in their order.
Tells(events, d, types) ==
  LET told == { i \in DOMAIN events : events[i].tx = d }
  IN  /\ { events[i].type : i \in told } = types
      /\ \A i, j \in told : i < j => Place(events[i].type) < Place(events[j].type)

\* events announces each entry after the first skip once, in their order, with the
\* balance after it and the version that it gave the wallet.
Announces(events, entries, skip) ==
  LET changes == { i \in DOMAIN events : events[i].type = "WalletBalanceChanged" }
      entryOf(i) == events[i].version - 1 + skip
  IN  /\ { entryOf(i) : i \in changes } = (skip + 1)..Len(entries)
      /\ \A i, j \in changes : i < j => entryOf(i) < entryOf(j)
      /\ \A i \in changes : /\ events[i].tx = entries[entryOf(i)].tx
                            /\ events[i].balance = entries[entryOf(i)].after

\* The outbox tells each transaction's story exactly once: parked at most once
\* and before its terminal event, one terminal event that agrees with the row,
\* and per wallet one balance event per ledger entry, in version order, with the
\* balance after that entry.
OutboxTellsTheStory ==
  /\ \A d \in Stored(row) :
       Tells(outbox[sub[d].wallet], d,
             Story(sub[d].kind, resp[d].status = "PENDING_REFERENCE", row[d].status))
  /\ \A w \in Wallets : Announces(outbox[w], ledger[w], Len(OpeningEntries(w)))

\* A message is in the inbox only when a row carries its effect, and a delivery
\* that settled or replayed a message leaves it there, committed together with
\* the effect; a conflict or an invalid payload leaves it out.
InboxFollowsEffect ==
  /\ \A m \in inbox : \E d \in Deliveries, e \in Stored(row) :
       /\ sub[d] # NoSubmission /\ sub[d].message = m
       /\ SamePayload(sub[d], sub[e])
  /\ \A d \in Deliveries :
       /\ sub[d] # NoSubmission /\ sub[d].message # NoMessage
       /\ d \in Stored(row) \/ (pc[d] = "done" /\ resp[d].outcome = "replay")
       => sub[d].message \in inbox

\* A replay repeats what was published: once its row is terminal it reports the
\* status of the row's terminal event and, when the row moved money, the balance
\* of its WalletBalanceChanged, however much the wallet moved in between and
\* whichever of submit, the cascade and the worker settled the row.  Replays of
\* such a row so agree with each other.  Of a row that moved none (refused, LOSS)
\* the status repeats; the balance is the one ObservedBalances leaves open.
ReplaysRepeatTheEvents ==
  \A d \in Deliveries :
    resp[d].outcome = "replay" /\ Terminal(resp[d].status) =>
      LET events == outbox[sub[resp[d].tx].wallet]
          told == { i \in DOMAIN events : events[i].tx = resp[d].tx }
      IN  /\ \E i \in told :
               events[i].type = IF resp[d].status = "PROCESSED" THEN "WagerTransactionProcessed"
                                ELSE "WagerTransactionRejected"
          /\ \A i \in told :
               events[i].type = "WalletBalanceChanged" => events[i].balance = resp[d].balance

\* What is settled stays settled: a terminal row never changes again, a pending
\* row never loses attempts, the ledger and the outbox only grow at their end.
SettledIsFinal ==
  [][ /\ \A d \in Deliveries :
           /\ Terminal(row[d].status) => row'[d] = row[d]
           /\ row'[d].attempts >= row[d].attempts
           /\ d \in Stored(row) => row'[d].status # "ABSENT"
      /\ \A w \in Wallets :
           /\ SubSeq(ledger'[w], 1, Len(ledger[w])) = ledger[w]
           /\ SubSeq(outbox'[w], 1, Len(outbox[w])) = outbox[w] ]_vars

\* Every submission handed over is answered or its caller lost: no wallet lock is
\* kept and no actor waits forever.
EveryDeliveryEnds ==
  \A d \in Deliveries : pc[d] # "idle" ~> pc[d] = "done"

\* No reversal waits forever for its reference.
EveryPendingRowSettles ==
  \A d \in Deliveries : row[d].status = "PENDING_REFERENCE" ~> Terminal(row[d].status)

-----------------------------------------------------------------------------
(* The inductive invariant behind TypeOK and LedgerExplainsBalance *)

Holding(a) == pc[a] \in {"decide", "cascade", "commit"}

\* Row e of rows belongs to a submission that was handed over, for an existing
\* wallet.
WellPlaced(rows, e) ==
  rows[e].status # "ABSENT" => /\ pc[e] # "idle"
                               /\ sub[e].wallet \in Wallets

RowsWellPlaced ==
  /\ \A d \in Deliveries : pc[d] # "idle" => sub[d] \in Submissions
  /\ \A e \in Deliveries : WellPlaced(row, e)
  /\ \A a \in Actors, e \in Deliveries : WellPlaced(draft[a].rows, e)

\* A worker under way has a stored row, and an actor between its SELECT ... FOR
\* UPDATE and the end of its transaction holds the lock of its wallet.
LocksHeld ==
  /\ \A a \in Workers : pc[a] # "idle" => job[a].tx \in Stored(row)
  /\ \A a \in Actors : Holding(a) => WalletOf(a) \in Wallets /\ lock[WalletOf(a)] = a
  /\ \A a \in Actors : pc[a] = "cascade" => draft[a].queue # <<>>

\* What an actor is about to commit continues the ledger of its wallet as stored.
DraftsContinueLedger ==
  \A a \in Actors :
    /\ ~Holding(a) => draft[a].entries = <<>>
    /\ Holding(a) =>
         LET w == wallet[WalletOf(a)]
             dr == draft[a]
         IN  /\ Chained(dr.entries, w.balance)
             /\ dr.wallet.balance = EndBalance(dr.entries, w.balance)
             /\ dr.wallet.version = w.version + Len(dr.entries)
             /\ dr.wallet.balance >= 0

SettlementInv ==
  /\ TypeOK
  /\ RowsWellPlaced
  /\ LocksHeld
  /\ LedgerExplainsBalance
  /\ DraftsContinueLedger

-----------------------------------------------------------------------------
(* Statements of the documents that the code does not keep *)

\* A replay of a transaction that moved money repeats the result of the original
\* call, balance included.
ReplayReturnsOriginal ==
  \A d \in Deliveries :
    /\ resp[d].outcome = "replay"
    /\ resp[resp[d].tx].status = "PROCESSED" /\ sub[resp[d].tx].kind # "LOSS"
    => resp[d].balance = resp[resp[d].tx].balance

\* A key that was accepted with one payload is never accepted with another.
KeyBindsOnePayload ==
  \A d, e \in Deliveries :
    /\ {resp[d].outcome, resp[e].outcome} \subseteq {"settled", "replay"}
    /\ sub[d].provider = sub[e].provider /\ sub[d].key = sub[e].key
    => SamePayload(sub[d], sub[e])
=============================================================================
