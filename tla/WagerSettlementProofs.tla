----------------------- MODULE WagerSettlementProofs -----------------------
(* Theorems about WagerSettlement for every value of its constants. *)
EXTENDS WagerSettlement, TLAPS

-----------------------------------------------------------------------------
(* The rules *)

\* Of the checks a reversal fails one comes first.
LEMMA FirstFailedCheck ==
  ASSUME NEW S \in SUBSET (DOMAIN ReversalChecks), S # {}
  PROVE  \E i \in S : \A j \in S : i <= j
<1>1. S \subseteq 1..6
  BY DEF ReversalChecks
<1>2. \A i \in S : i = 1 \/ i = 2 \/ i = 3 \/ i = 4 \/ i = 5 \/ i = 6
  BY <1>1
<1> QED
  BY <1>1, <1>2

\* The verdict on a movement is well formed and never overdraws.
LEMMA MovementVerdict ==
  ASSUME NEW t, NEW direction \in Directions, NEW balance \in Int, t.amount \in Nat
  PROVE  LET v == Movement(t, direction, balance)
         IN  /\ v \in Verdicts
             /\ v.direction # NoDirection => v.status = "PROCESSED"
             /\ v.direction = "DEBIT" => t.amount <= balance
  BY DEF Movement, Rejected, Processed, Verdicts, StoredStatuses, FailureCodes,
         Directions, NoDirection, NoFailure

\* Every verdict of the applier is well formed; only a processed transaction
\* moves money, and a debit never takes more than the balance.
LEMMA VerdictIsSound ==
  ASSUME NEW t, t.kind \in Kinds, t.amount \in Nat, NEW currency, NEW balance \in Int,
         NEW r, NEW status, NEW reversed \in BOOLEAN
  PROVE  LET v == Verdict(t, currency, balance, r, status, reversed)
         IN  /\ v \in Verdicts
             /\ v.direction # NoDirection => v.status = "PROCESSED"
             /\ v.direction = "DEBIT" => t.amount <= balance
<1> DEFINE Sound(v) == /\ v \in Verdicts
                       /\ v.direction # NoDirection => v.status = "PROCESSED"
                       /\ v.direction = "DEBIT" => t.amount <= balance
<1>1. \A x : DirectionFor(t, x) \in Directions
  BY DEF DirectionFor, Invert, OwnDirection, Directions
<1>1a. OwnDirection(t.kind) \in Directions
  BY DEF OwnDirection, Directions
<1>2a. Sound(Movement(t, OwnDirection(t.kind), balance))
  BY <1>1a, MovementVerdict
<1>2. \A x : Sound(Movement(t, DirectionFor(t, x), balance))
  BY <1>1, MovementVerdict
<1>3. \A c \in FailureCodes : Sound(Rejected(c))
  BY DEF Rejected, Verdicts, StoredStatuses, NoDirection, Directions
<1>4. Sound(Awaiting) /\ Sound(Processed(NoDirection))
  BY DEF Awaiting, Processed, Verdicts, StoredStatuses, NoDirection, NoFailure, Directions
<1>5. Sound(ReversalVerdict(t, r, status, reversed, balance))
  <2> DEFINE failed == { i \in DOMAIN ReversalChecks :
                           FailsCheck(ReversalChecks[i], t, r, status, reversed) }
             first == CHOOSE i \in failed : \A j \in failed : i <= j
  <2>1. CASE status \in {"ABSENT", "PENDING_REFERENCE"}
    BY <2>1, <1>4 DEF ReversalVerdict
  <2>2. CASE status \notin {"ABSENT", "PENDING_REFERENCE"} /\ failed = {}
    BY <2>2, <1>2 DEF ReversalVerdict
  <2>3. CASE status \notin {"ABSENT", "PENDING_REFERENCE"} /\ failed # {}
    <3>1. failed \in SUBSET (DOMAIN ReversalChecks)
      OBVIOUS
    <3>2. \E i \in failed : \A j \in failed : i <= j
      <4> HIDE DEF failed
      <4> QED BY <2>3, <3>1, FirstFailedCheck
    <3>3. first \in failed
      <4> HIDE DEF failed
      <4> QED BY <3>2
    <3>4. ReversalChecks[first] \in FailureCodes
      <4>1. first \in DOMAIN ReversalChecks
        BY <3>1, <3>3
      <4> HIDE DEF first
      <4> QED BY <4>1 DEF FailureCodes
    <3>5. ReversalVerdict(t, r, status, reversed, balance) = Rejected(ReversalChecks[first])
      BY <2>3 DEF ReversalVerdict
    <3> QED BY <3>4, <3>5, <1>3
  <2> QED BY <2>1, <2>2, <2>3
<1>6. "OPENING_NOT_ALLOWED" \in FailureCodes /\ "CURRENCY_MISMATCH" \in FailureCodes
  BY DEF FailureCodes
<1>7. CASE t.kind = "OPENING"
  BY <1>7, <1>3, <1>6 DEF Verdict, RequiresReference
<1>8. CASE t.kind # "OPENING" /\ t.currency # currency
  BY <1>8, <1>3, <1>6 DEF Verdict
<1>9. CASE t.currency = currency /\ t.kind \in {"REFUND", "ROLLBACK"}
  BY <1>9, <1>5 DEF Verdict, RequiresReference
<1>10. CASE t.currency = currency /\ t.kind = "LOSS"
  BY <1>10, <1>4 DEF Verdict, RequiresReference
<1>11. CASE t.currency = currency /\ t.kind \in {"BET", "WIN"}
  BY <1>11, <1>2a DEF Verdict, RequiresReference
<1> QED
  BY <1>7, <1>8, <1>9, <1>10, <1>11 DEF Kinds

-----------------------------------------------------------------------------
(* Chains of ledger entries *)

\* A chain followed by a chain that starts where it ends is a chain.
LEMMA ChainedConcat ==
  ASSUME NEW s \in Seq(Entries), NEW t \in Seq(Entries), NEW x \in Int,
         Chained(s, x), Chained(t, EndBalance(s, x))
  PROVE  /\ Chained(s \o t, x)
         /\ EndBalance(s \o t, x) = EndBalance(t, EndBalance(s, x))
<1> DEFINE u == s \o t
<1>1. /\ u \in Seq(Entries) /\ Len(u) = Len(s) + Len(t)
      /\ \A i \in 1..Len(s) : u[i] = s[i]
      /\ \A i \in 1..Len(t) : u[Len(s) + i] = t[i]
      /\ DOMAIN u = 1..Len(u) /\ DOMAIN s = 1..Len(s) /\ DOMAIN t = 1..Len(t)
      /\ Len(s) \in Nat /\ Len(t) \in Nat
  OBVIOUS
<1>2. (s = <<>> <=> Len(s) = 0) /\ (t = <<>> <=> Len(t) = 0) /\ (u = <<>> <=> Len(u) = 0)
  BY <1>1
<1> HIDE DEF u
<1>3. ASSUME NEW i \in DOMAIN u
      PROVE  /\ u[i].before = IF i = 1 THEN x ELSE u[i - 1].after
             /\ u[i].after = u[i].before + Signed(u[i].direction, u[i].amount)
             /\ u[i].after >= 0
  <2>1. CASE i <= Len(s)
    <3>1. i \in DOMAIN s /\ u[i] = s[i] /\ (i # 1 => u[i - 1] = s[i - 1])
      BY <1>1, <2>1
    <3> QED BY <3>1 DEF Chained
  <2>2. CASE i > Len(s)
    <3> DEFINE j == i - Len(s)
    <3>1. j \in DOMAIN t /\ u[i] = t[j]
      BY <1>1, <2>2
    <3>2. CASE j = 1
      <4>1. t[j].before = EndBalance(s, x)
        BY <3>1, <3>2 DEF Chained
      <4>2. CASE Len(s) = 0
        BY <1>1, <1>2, <3>1, <3>2, <4>1, <4>2 DEF Chained, EndBalance
      <4>3. CASE Len(s) # 0
        <5>1. i # 1 /\ u[i - 1] = s[Len(s)]
          BY <1>1, <3>2, <4>3
        <5> QED BY <1>2, <3>1, <4>1, <4>3, <5>1 DEF Chained, EndBalance
      <4> QED BY <4>2, <4>3
    <3>3. CASE j # 1
      <4>1. i # 1 /\ j - 1 \in 1..Len(t) /\ i - 1 = Len(s) + (j - 1)
        BY <1>1, <2>2, <3>1, <3>3
      <4>2. u[i - 1] = t[j - 1]
        BY <1>1, <4>1
      <4> QED BY <1>1, <3>1, <3>3, <4>1, <4>2 DEF Chained
    <3> QED BY <3>2, <3>3
  <2> QED BY <1>1, <2>1, <2>2
<1>4. Chained(u, x)
  BY <1>3 DEF Chained
<1>5. EndBalance(u, x) = EndBalance(t, EndBalance(s, x))
  <2>1. CASE Len(t) = 0
    BY <1>1, <1>2, <2>1 DEF EndBalance
  <2>2. CASE Len(t) # 0
    BY <1>1, <1>2, <2>2 DEF EndBalance
  <2> QED BY <2>1, <2>2
<1> QED
  BY <1>4, <1>5 DEF u

\* A chain from a non-negative balance ends at a non-negative balance.
LEMMA EndNotNegative ==
  ASSUME NEW s \in Seq(Entries), NEW x \in Int, x >= 0, Chained(s, x)
  PROVE  EndBalance(s, x) \in Int /\ EndBalance(s, x) >= 0
<1>1. CASE s = <<>>
  BY <1>1 DEF EndBalance
<1>2. CASE s # <<>>
  <2>1. Len(s) \in DOMAIN s /\ s[Len(s)] \in Entries
    BY <1>2
  <2> QED BY <1>2, <2>1 DEF EndBalance, Chained, Entries
<1> QED BY <1>1, <1>2

-----------------------------------------------------------------------------
(* Applying a transaction *)

\* What settles tx writes in a wallet and in the ledger: a chain of at most one
\* entry from the old balance to the new one, which is not negative.
LEMMA EntryContinuesWallet ==
  ASSUME NEW wal \in WalletRows, wal.balance >= 0, NEW tx \in Deliveries,
         NEW v \in Verdicts, sub[tx].amount \in Nat,
         v.direction = "DEBIT" => sub[tx].amount <= wal.balance
  PROVE  LET es == EntriesFor(wal, tx, v)
             new == WalletAfter(wal, sub[tx], v)
         IN  /\ es \in Seq(Entries) /\ new \in WalletRows /\ new.balance >= 0
             /\ Chained(es, wal.balance)
             /\ new.balance = EndBalance(es, wal.balance)
             /\ new.version = wal.version + Len(es)
<1>1. CASE v.direction = NoDirection
  BY <1>1 DEF EntriesFor, WalletAfter, Chained, EndBalance, WalletRows
<1>2. CASE v.direction # NoDirection
  <2> DEFINE e == [ tx |-> tx, direction |-> v.direction, amount |-> sub[tx].amount,
                    before |-> wal.balance, after |-> WalletAfter(wal, sub[tx], v).balance ]
  <2>1. EntriesFor(wal, tx, v) = << e >>
    BY <1>2 DEF EntriesFor
  <2>2. v.direction \in Directions
    BY <1>2 DEF Verdicts
  <2>3. /\ Signed(v.direction, sub[tx].amount) \in Int
        /\ wal.balance + Signed(v.direction, sub[tx].amount) >= 0
    BY <2>2 DEF Signed, Directions, WalletRows
  <2>4. WalletAfter(wal, sub[tx], v) =
          [ balance |-> wal.balance + Signed(v.direction, sub[tx].amount),
            version |-> wal.version + 1 ]
    BY <1>2 DEF WalletAfter
  <2>5. e \in Entries
    BY <2>2, <2>3, <2>4 DEF Entries, WalletRows
  <2>6. /\ e.before = wal.balance
        /\ e.after = e.before + Signed(e.direction, e.amount)
        /\ e.after >= 0
        /\ e.after = WalletAfter(wal, sub[tx], v).balance
    BY <2>3, <2>4
  <2> HIDE DEF e
  <2>7. Chained(<< e >>, wal.balance) /\ EndBalance(<< e >>, wal.balance) = e.after
    BY <2>6 DEF Chained, EndBalance
  <2>8. << e >> \in Seq(Entries) /\ Len(<< e >>) = 1
    BY <2>5
  <2>9. WalletAfter(wal, sub[tx], v) \in WalletRows
    BY <2>3, <2>4 DEF WalletRows
  <2> QED
    BY <2>1, <2>3, <2>4, <2>6, <2>7, <2>8, <2>9
<1> QED BY <1>1, <1>2

\* What a settlement announces is a sequence of events.
LEMMA SettlementEventsType ==
  ASSUME NEW tx \in Deliveries, NEW before, NEW v, NEW wal \in WalletRows
  PROVE  SettlementEvents(tx, before, v, wal) \in Seq(Events)
<1> DEFINE balance == IF v.direction = NoDirection THEN NoBalance ELSE wal.balance
           event(type, version) ==
             [type |-> type, tx |-> tx, version |-> version, balance |-> balance]
<1>0. balance \in Int /\ wal.version \in Nat
  BY DEF NoBalance, WalletRows
<1>1. \A type \in EventTypes : << event(type, 0) >> \in Seq(Events)
  BY <1>0 DEF Events
<1>2. << event("WalletBalanceChanged", wal.version) >> \in Seq(Events)
  BY <1>0 DEF Events, EventTypes
<1>3. << event("WagerTransactionProcessed", 0) >> \in Seq(Events)
      /\ << event("WagerTransactionRejected", 0) >> \in Seq(Events)
      /\ << event("WagerTransactionPendingReference", 0) >> \in Seq(Events)
  BY <1>1 DEF EventTypes
<1>4. \A p, q \in Seq(Events) : p \o q \in Seq(Events)
  OBVIOUS
<1>5. << >> \in Seq(Events)
  OBVIOUS
<1> QED
  BY <1>2, <1>3, <1>4, <1>5 DEF SettlementEvents

\* A transaction sees a row, or none, for every delivery.
LEMMA VisibleType ==
  ASSUME TypeOK, NEW dr \in Drafts
  PROVE  Visible(dr) \in [Deliveries -> Rows]
  BY DEF TypeOK, Visible, Drafts

\* The verdict reached inside a transaction is well formed and, seen from the
\* balance the transaction has drafted, never overdraws.
LEMMA VerdictOnIsSound ==
  ASSUME TypeOK, NEW dr \in Drafts, NEW tx \in Deliveries, sub[tx] \in Submissions, NEW ref
  PROVE  LET v == VerdictOn(dr, tx, ref)
         IN  /\ v \in Verdicts
             /\ v.direction # NoDirection => v.status = "PROCESSED"
             /\ v.direction = "DEBIT" => sub[tx].amount <= dr.wallet.balance
<1>1. sub[tx].kind \in Kinds /\ sub[tx].amount \in Nat
  BY SubmissionAssumption
<1>2. dr.wallet.balance \in Int
  BY DEF Drafts, WalletRows
<1>3. AlreadyReversed(Visible(dr), ref, sub[tx].kind) \in BOOLEAN
  BY DEF AlreadyReversed
<1> QED
  BY <1>1, <1>2, <1>3, VerdictIsSound DEF VerdictOn

\* new is dr with one row, and with the wallet and the entries of one verdict.
ExtendedBy(dr, tx, v, r, new) ==
  /\ new \in Drafts
  /\ new.wallet = WalletAfter(dr.wallet, sub[tx], v)
  /\ new.entries = dr.entries \o EntriesFor(dr.wallet, tx, v)
  /\ \A e \in Deliveries : new.rows[e] = IF e = tx THEN r ELSE dr.rows[e]
  /\ new.queue = dr.queue

\* Applied writes one row, and extends the entries by those of its verdict.
LEMMA AppliedDraft ==
  ASSUME TypeOK, NEW dr \in Drafts, dr.wallet.balance >= 0,
         NEW tx \in Deliveries, sub[tx].amount \in Nat, sub[tx].wallet \in Wallets,
         NEW ref \in Deliveries \cup {NoTx}, NEW before, NEW v \in Verdicts,
         v.direction = "DEBIT" => sub[tx].amount <= dr.wallet.balance
  PROVE  ExtendedBy(dr, tx, v, RowAfter(dr, tx, ref, v), Applied(dr, tx, ref, before, v))
<1> DEFINE new == Applied(dr, tx, ref, before, v)
           r == RowAfter(dr, tx, ref, v)
           es == EntriesFor(dr.wallet, tx, v)
           wal == WalletAfter(dr.wallet, sub[tx], v)
           evs == SettlementEvents(tx, before, v, wal)
<1>1. /\ dr.wallet \in WalletRows /\ dr.rows \in [Deliveries -> Rows]
      /\ dr.entries \in Seq(Entries) /\ dr.events \in Seq(Events) /\ dr.queue \in Seq(Deliveries)
      /\ dr = [ wallet |-> dr.wallet, rows |-> dr.rows, entries |-> dr.entries,
                events |-> dr.events, queue |-> dr.queue ]
  BY DEF Drafts
<1>2. es \in Seq(Entries) /\ wal \in WalletRows
  BY <1>1, EntryContinuesWallet
<1>3. evs \in Seq(Events)
  BY <1>2, SettlementEventsType
<1>4. r \in Rows
  <2>1. Visible(dr)[tx] \in Rows
    BY VisibleType
  <2> QED BY <2>1 DEF RowAfter, Rows, Verdicts
<1>5. new = [ wallet |-> wal, rows |-> [dr.rows EXCEPT ![tx] = r], entries |-> dr.entries \o es,
              events |-> dr.events \o evs, queue |-> dr.queue ]
  <2> HIDE DEF wal, evs, es, r
  <2>1. new = [dr EXCEPT !.wallet = wal, !.rows[tx] = r, !.entries = dr.entries \o es,
                         !.events = dr.events \o evs]
    BY DEF Applied, wal, evs, es, r
  <2> HIDE DEF new
  <2> QED BY <1>1, <2>1
<1>6. /\ dr.entries \o es \in Seq(Entries) /\ dr.events \o evs \in Seq(Events)
      /\ [dr.rows EXCEPT ![tx] = r] \in [Deliveries -> Rows]
  <2> HIDE DEF evs, es, r
  <2> QED BY <1>1, <1>2, <1>3, <1>4
<1> HIDE DEF new, r, es, wal, evs
<1>7. new \in Drafts
  BY <1>1, <1>2, <1>5, <1>6 DEF Drafts
<1>8. /\ new.wallet = wal /\ new.entries = dr.entries \o es
      /\ new.rows = [dr.rows EXCEPT ![tx] = r] /\ new.queue = dr.queue
  BY <1>5
<1>9. \A e \in Deliveries : new.rows[e] = IF e = tx THEN r ELSE dr.rows[e]
  BY <1>1, <1>8
<1> QED
  BY <1>7, <1>8, <1>9 DEF ExtendedBy, new, r, es, wal

\* What viewForExisting may answer about a stored row.
LEMMA ViewType ==
  ASSUME TypeOK, RowsWellPlaced, NEW s, NEW e \in Stored(row), NEW answer \in ViewsForExisting(s, e)
  PROVE  answer \in Answers /\ answer.outcome \in {"replay", "conflict"}
<1>1. e \in Deliveries /\ row[e].status \in StoredStatuses \cup {"ABSENT"} /\ row[e].status # "ABSENT"
  BY DEF Stored, TypeOK, Rows
<1>2. ledger[sub[e].wallet] \in Seq(Entries)
  BY <1>1 DEF RowsWellPlaced, WellPlaced, TypeOK
<1>3. ObservedBalances(e) \subseteq Int
  <2> DEFINE entries == ledger[sub[e].wallet]
  <2>1. \A i \in DOMAIN entries : entries[i] \in Entries
    BY <1>2
  <2>2. \A i \in DOMAIN entries : entries[i].after \in Int
    BY <2>1 DEF Entries
  <2> QED BY <2>2 DEF ObservedBalances
<1>4. NoAnswer \in Answers /\ NoBalance \in Int
  BY DEF NoAnswer, Answers, Outcomes, NoBalance
<1>5. CASE SamePayload(s, sub[e])
  <2>1. PICK balance \in Int : answer = Replay(e, balance)
    BY <1>3, <1>4, <1>5 DEF ViewsForExisting, ReplaysOf
  <2> QED BY <1>1, <2>1 DEF Replay, Answers, Outcomes
<1>6. CASE ~SamePayload(s, sub[e])
  BY <1>4, <1>6 DEF ViewsForExisting, NoAnswer, Answers, Outcomes
<1> QED
  BY <1>5, <1>6

-----------------------------------------------------------------------------
(* The four ways an actor moves, as far as the invariant is concerned *)

\* What the caller and the inbox learn is well formed.
OutputsTyped ==
  /\ inbox' \subseteq { s.message : s \in Submissions } \ {NoMessage}
  /\ resp' \in [Deliveries -> Answers]
  /\ crashes' \in Nat

\* The transaction of a ends, and nothing it wrote is stored.
Ends(a, next) ==
  /\ pc[a] # "idle"
  /\ Close(a, next)
  /\ next \in IF a \in Deliveries THEN {"done", "resolve"} ELSE {"idle"}
  /\ UNCHANGED <<sub, committed>>
  /\ OutputsTyped

\* a moves between points at which it holds no lock.
Moves(a, next) ==
  /\ ~Holding(a)
  /\ pc' = [pc EXCEPT ![a] = next]
  /\ IF a \in Deliveries
     THEN pc[a] # "idle" /\ next \in {"lock", "mark", "done"} /\ job' = job
     ELSE /\ next = "lock"
          /\ \E j \in Jobs : j.tx \in Stored(row) /\ job' = [job EXCEPT ![a] = j]
  /\ UNCHANGED <<sub, committed, lock, draft>>
  /\ OutputsTyped

\* a, which holds its lock, replaces its draft by one that extends it.
Writes(a, next, new) ==
  /\ Holding(a)
  /\ next \in {"cascade", "commit"}
  /\ pc' = [pc EXCEPT ![a] = next]
  /\ draft' = [draft EXCEPT ![a] = new]
  /\ UNCHANGED <<sub, committed, inbox, lock, job, resp, crashes>>
  /\ new \in Drafts
  /\ next = "cascade" => new.queue # <<>>
  /\ \A e \in Deliveries : WellPlaced(new.rows, e)
  /\ \E es \in Seq(Entries) :
       /\ new.entries = draft[a].entries \o es
       /\ Chained(es, draft[a].wallet.balance)
       /\ new.wallet.balance = EndBalance(es, draft[a].wallet.balance)
       /\ new.wallet.version = draft[a].wallet.version + Len(es)
       /\ new.wallet.balance >= 0

\* A draft without writes is well formed, and nothing is appended to it.
LEMMA EmptyDraftFacts ==
  /\ EmptyDraft \in Drafts
  /\ EmptyDraft.entries = <<>>
  /\ \A e \in Deliveries : EmptyDraft.rows[e].status = "ABSENT"
<1>1. NoRow \in Rows /\ NoRow.status = "ABSENT"
  BY DEF NoRow, Rows
<1> QED
  BY <1>1 DEF EmptyDraft, Drafts, WalletRows

\* A worker without work has a well formed job.
LEMMA NoJobType == NoJob \in Jobs
  BY DEF NoJob, Jobs

\* sub and the pc of started deliveries decide where a row belongs.
LEMMA StartedStays ==
  ASSUME RowsWellPlaced, NEW rows, NEW e \in Deliveries, WellPlaced(rows, e),
         \A d \in Deliveries : pc[d] # "idle" => pc'[d] # "idle" /\ sub'[d] = sub[d]
  PROVE  rows[e].status # "ABSENT" => pc'[e] # "idle" /\ sub'[e].wallet \in Wallets
  BY DEF WellPlaced

\* A transaction that ends without storing anything keeps the invariant: it gives
\* back its lock and its draft, and leaves the tables alone.
LEMMA EndsInv ==
  ASSUME SettlementInv, NEW a \in Actors, NEW next, Ends(a, next)
  PROVE  SettlementInv'
<1> USE DEF SettlementInv
<1>1. /\ pc' = [pc EXCEPT ![a] = next]
      /\ draft' = [draft EXCEPT ![a] = EmptyDraft]
      /\ lock' = [w \in Wallets |-> IF lock[w] = a THEN NoActor ELSE lock[w]]
      /\ UNCHANGED <<sub, wallet, row, ledger, outbox>>
      /\ next \in {"done", "resolve", "idle"} /\ (a \in Deliveries => next # "idle")
      /\ (a \in Workers => next = "idle")
  BY ActorAssumption DEF Ends, Close, committed, Actors
<1>2. job' \in [Workers -> Jobs] /\ (\A b \in Workers : b # a => job'[b] = job[b])
  BY NoJobType DEF Ends, Close, TypeOK
<1>3. TypeOK'
  BY <1>1, <1>2, EmptyDraftFacts DEF TypeOK, Ends, OutputsTyped, PCs
<1>4. \A b \in Actors : /\ b # a => pc'[b] = pc[b] /\ draft'[b] = draft[b]
                        /\ pc'[a] = next /\ draft'[a] = EmptyDraft
  BY <1>1 DEF TypeOK
<1>5. \A d \in Deliveries : pc[d] # "idle" => pc'[d] # "idle" /\ sub'[d] = sub[d]
  BY <1>1, <1>4 DEF Actors
<1>6. RowsWellPlaced'
  <2>1. \A d \in Deliveries : pc'[d] # "idle" => sub'[d] \in Submissions
    BY <1>1, <1>4 DEF RowsWellPlaced, Ends, Actors
  <2>2. \A e \in Deliveries : WellPlaced(row, e)'
    BY <1>1, <1>5, StartedStays DEF RowsWellPlaced, WellPlaced
  <2>3. \A b \in Actors, e \in Deliveries : WellPlaced(draft[b].rows, e)'
    BY <1>1, <1>4, <1>5, StartedStays, EmptyDraftFacts DEF RowsWellPlaced, WellPlaced
  <2> QED BY <2>1, <2>2, <2>3 DEF RowsWellPlaced
<1>7. LocksHeld'
  <2>1. \A b \in Workers : pc'[b] # "idle" => job'[b].tx \in Stored(row')
    BY <1>1, <1>2, <1>4 DEF LocksHeld, Actors
  <2>2. \A b \in Actors : Holding(b)' => WalletOf(b)' \in Wallets /\ lock'[WalletOf(b)'] = b
    BY <1>1, <1>2, <1>4 DEF LocksHeld, Holding, WalletOf, TxOf, Actors
  <2>3. \A b \in Actors : pc'[b] = "cascade" => draft'[b].queue # <<>>
    BY <1>1, <1>4 DEF LocksHeld
  <2> QED BY <2>1, <2>2, <2>3 DEF LocksHeld
<1>8. LedgerExplainsBalance'
  BY <1>1 DEF LedgerExplainsBalance, Chained, EndBalance, OpeningEntries
<1>9. DraftsContinueLedger'
  <2> SUFFICES ASSUME NEW b \in Actors
               PROVE  /\ ~Holding(b)' => draft'[b].entries = <<>>
                      /\ Holding(b)' =>
                           LET w == wallet'[WalletOf(b)']
                               dr == draft'[b]
                           IN  /\ Chained(dr.entries, w.balance)
                               /\ dr.wallet.balance = EndBalance(dr.entries, w.balance)
                               /\ dr.wallet.version = w.version + Len(dr.entries)
                               /\ dr.wallet.balance >= 0
    BY DEF DraftsContinueLedger, Chained, EndBalance
  <2>1. CASE b = a
    BY <1>1, <1>4, <2>1, EmptyDraftFacts DEF Holding
  <2>2. CASE b # a
    <3>1. /\ Holding(b)' = Holding(b) /\ draft'[b] = draft[b] /\ wallet' = wallet
          /\ WalletOf(b)' = WalletOf(b)
      BY <1>1, <1>2, <1>4, <2>2 DEF Holding, WalletOf, TxOf, Actors
    <3> QED BY <3>1 DEF DraftsContinueLedger
  <2> QED BY <2>1, <2>2
<1> QED
  BY <1>3, <1>6, <1>7, <1>8, <1>9

\* A step outside any lock that only moves an actor on keeps the invariant.
LEMMA MovesInv ==
  ASSUME SettlementInv, NEW a \in Actors, NEW next, Moves(a, next)
  PROVE  SettlementInv'
<1> USE DEF SettlementInv
<1>1. /\ pc' = [pc EXCEPT ![a] = next] /\ ~Holding(a)
      /\ UNCHANGED <<sub, wallet, row, ledger, outbox, lock, draft>>
      /\ next \in {"lock", "mark", "done"}
      /\ (a \in Deliveries => pc[a] # "idle" /\ job' = job)
  BY DEF Moves, committed
<1>2. /\ job' \in [Workers -> Jobs] /\ (\A b \in Workers : b # a => job'[b] = job[b])
      /\ (a \in Workers => job'[a].tx \in Stored(row))
  <2>1. CASE a \in Deliveries
    BY <1>1, <2>1, ActorAssumption DEF TypeOK
  <2>2. CASE a \notin Deliveries
    <3>1. PICK j \in Jobs : j.tx \in Stored(row) /\ job' = [job EXCEPT ![a] = j]
      BY <2>2 DEF Moves
    <3> QED BY <3>1, <2>2 DEF TypeOK, Actors
  <2> QED BY <2>1, <2>2
<1>3. TypeOK'
  BY <1>1, <1>2 DEF TypeOK, Moves, OutputsTyped, PCs
<1>4. \A b \in Actors : (b # a => pc'[b] = pc[b]) /\ pc'[a] = next
  BY <1>1 DEF TypeOK
<1>5. \A d \in Deliveries : pc[d] # "idle" => pc'[d] # "idle" /\ sub'[d] = sub[d]
  BY <1>1, <1>4 DEF Actors
<1>6. RowsWellPlaced'
  <2>1. \A d \in Deliveries : pc'[d] # "idle" => sub'[d] \in Submissions
    BY <1>1, <1>4 DEF RowsWellPlaced, Actors
  <2>2. \A e \in Deliveries : WellPlaced(row, e)'
    BY <1>1, <1>5, StartedStays DEF RowsWellPlaced, WellPlaced
  <2>3. \A b \in Actors, e \in Deliveries : WellPlaced(draft[b].rows, e)'
    BY <1>1, <1>5, StartedStays DEF RowsWellPlaced, WellPlaced
  <2> QED BY <2>1, <2>2, <2>3 DEF RowsWellPlaced
<1>7. \A b \in Actors : Holding(b)' = Holding(b) /\ (Holding(b) => WalletOf(b)' = WalletOf(b))
  BY <1>1, <1>2, <1>4 DEF Holding, WalletOf, TxOf, Actors
<1>8. LocksHeld'
  <2>1. \A b \in Workers : pc'[b] # "idle" => job'[b].tx \in Stored(row')
    BY <1>1, <1>2, <1>4 DEF LocksHeld, Actors
  <2>2. \A b \in Actors : Holding(b)' => WalletOf(b)' \in Wallets /\ lock'[WalletOf(b)'] = b
    BY <1>1, <1>7 DEF LocksHeld
  <2>3. \A b \in Actors : pc'[b] = "cascade" => draft'[b].queue # <<>>
    BY <1>1, <1>4 DEF LocksHeld
  <2> QED BY <2>1, <2>2, <2>3 DEF LocksHeld
<1>9. LedgerExplainsBalance'
  BY <1>1 DEF LedgerExplainsBalance, Chained, EndBalance, OpeningEntries
<1>10. DraftsContinueLedger'
  BY <1>1, <1>7 DEF DraftsContinueLedger, Chained, EndBalance
<1> QED
  BY <1>3, <1>6, <1>8, <1>9, <1>10

\* A step of a lock holder that only extends its draft keeps the invariant, if the
\* entries it adds continue the drafted wallet.
LEMMA WritesInv ==
  ASSUME SettlementInv, NEW a \in Actors, NEW next, NEW new, Writes(a, next, new)
  PROVE  SettlementInv'
<1> USE DEF SettlementInv
<1>1. /\ pc' = [pc EXCEPT ![a] = next] /\ Holding(a) /\ next \in {"cascade", "commit"}
      /\ draft' = [draft EXCEPT ![a] = new] /\ new \in Drafts
      /\ UNCHANGED <<sub, wallet, row, ledger, outbox, inbox, lock, job, resp, crashes>>
  BY DEF Writes, committed
<1>2. TypeOK'
  BY <1>1 DEF TypeOK, PCs
<1>3. \A b \in Actors : /\ b # a => pc'[b] = pc[b] /\ draft'[b] = draft[b]
                        /\ pc'[a] = next /\ draft'[a] = new
  BY <1>1 DEF TypeOK
<1>4. \A d \in Deliveries : pc[d] # "idle" => pc'[d] # "idle" /\ sub'[d] = sub[d]
  BY <1>1, <1>3 DEF Actors
<1>5. RowsWellPlaced'
  <2>1. \A d \in Deliveries : pc'[d] # "idle" => sub'[d] \in Submissions
    BY <1>1, <1>3 DEF RowsWellPlaced, Actors, Holding
  <2>2. \A e \in Deliveries : WellPlaced(row, e)'
    BY <1>1, <1>4, StartedStays DEF RowsWellPlaced, WellPlaced
  <2>3. \A e \in Deliveries : WellPlaced(new.rows, e)
    BY DEF Writes
  <2>4. \A b \in Actors, e \in Deliveries : WellPlaced(draft[b].rows, e)'
    BY <1>1, <1>3, <1>4, <2>3, StartedStays DEF RowsWellPlaced, WellPlaced
  <2> QED BY <2>1, <2>2, <2>4 DEF RowsWellPlaced
<1>6. \A b \in Actors : Holding(b)' = Holding(b) /\ WalletOf(b)' = WalletOf(b)
  BY <1>1, <1>3 DEF Holding, WalletOf, TxOf
<1>7. LocksHeld'
  <2>1. \A b \in Workers : pc'[b] # "idle" => job'[b].tx \in Stored(row')
    BY <1>1, <1>3 DEF LocksHeld, Actors, Holding
  <2>2. \A b \in Actors : Holding(b)' => WalletOf(b)' \in Wallets /\ lock'[WalletOf(b)'] = b
    BY <1>1, <1>6 DEF LocksHeld
  <2>3. \A b \in Actors : pc'[b] = "cascade" => draft'[b].queue # <<>>
    BY <1>1, <1>3 DEF LocksHeld, Writes
  <2> QED BY <2>1, <2>2, <2>3 DEF LocksHeld
<1>8. LedgerExplainsBalance'
  BY <1>1 DEF LedgerExplainsBalance, Chained, EndBalance, OpeningEntries
<1>9. LET w == wallet[WalletOf(a)]
      IN  /\ Chained(new.entries, w.balance)
          /\ new.wallet.balance = EndBalance(new.entries, w.balance)
          /\ new.wallet.version = w.version + Len(new.entries)
          /\ new.wallet.balance >= 0
  <2> DEFINE w == wallet[WalletOf(a)]
             old == draft[a].entries
  <2>1. PICK es \in Seq(Entries) :
          /\ new.entries = old \o es
          /\ Chained(es, draft[a].wallet.balance)
          /\ new.wallet.balance = EndBalance(es, draft[a].wallet.balance)
          /\ new.wallet.version = draft[a].wallet.version + Len(es)
          /\ new.wallet.balance >= 0
    BY DEF Writes
  <2>2. /\ Chained(old, w.balance)
        /\ draft[a].wallet.balance = EndBalance(old, w.balance)
        /\ draft[a].wallet.version = w.version + Len(old)
    BY <1>1 DEF DraftsContinueLedger
  <2>3. WalletOf(a) \in Wallets
    BY <1>1 DEF LocksHeld
  <2>4. w \in WalletRows
    BY <2>3 DEF TypeOK
  <2>5. w.balance \in Int /\ w.version \in Nat /\ old \in Seq(Entries)
    BY <2>4 DEF WalletRows, TypeOK, Drafts
  <2> HIDE DEF w, old
  <2>6. /\ Chained(old \o es, w.balance)
        /\ EndBalance(old \o es, w.balance) = EndBalance(es, EndBalance(old, w.balance))
    BY <2>1, <2>2, <2>5, ChainedConcat
  <2>7. Len(old \o es) = Len(old) + Len(es) /\ Len(old) \in Nat /\ Len(es) \in Nat
    BY <2>5
  <2> QED BY <2>1, <2>2, <2>5, <2>6, <2>7 DEF w
<1>10. DraftsContinueLedger'
  <2> SUFFICES ASSUME NEW b \in Actors
               PROVE  /\ ~Holding(b)' => draft'[b].entries = <<>>
                      /\ Holding(b)' =>
                           LET w == wallet'[WalletOf(b)']
                               dr == draft'[b]
                           IN  /\ Chained(dr.entries, w.balance)
                               /\ dr.wallet.balance = EndBalance(dr.entries, w.balance)
                               /\ dr.wallet.version = w.version + Len(dr.entries)
                               /\ dr.wallet.balance >= 0
    BY DEF DraftsContinueLedger, Chained, EndBalance
  <2>1. CASE b = a
    BY <1>1, <1>3, <1>6, <1>9, <2>1
  <2>2. CASE b # a
    BY <1>1, <1>3, <1>6, <2>2 DEF DraftsContinueLedger
  <2> QED BY <2>1, <2>2
<1> QED
  BY <1>2, <1>5, <1>7, <1>8, <1>10

\* Taking the lock keeps the invariant: the draft starts from the committed wallet.
LEMMA AcquireInv ==
  ASSUME SettlementInv, NEW a \in Actors, AcquireLock(a)
  PROVE  SettlementInv'
<1> USE DEF SettlementInv
<1> DEFINE w == WalletOf(a)
           new == [draft[a] EXCEPT !.wallet = wallet[w]]
<1>1. /\ pc[a] = "lock" /\ w \in Wallets /\ lock[w] = NoActor
      /\ lock' = [lock EXCEPT ![w] = a]
      /\ draft' = [draft EXCEPT ![a] = new]
      /\ pc' = [pc EXCEPT ![a] = "decide"]
      /\ UNCHANGED <<sub, wallet, row, ledger, outbox, inbox, job, resp, crashes>>
  BY DEF AcquireLock, committed
<1>2. wallet[w] \in WalletRows /\ draft[a] \in Drafts
  BY <1>1 DEF TypeOK
<1>3. /\ new \in Drafts /\ new.wallet = wallet[w] /\ new.entries = draft[a].entries
      /\ new.rows = draft[a].rows
  <2> DEFINE wal == wallet[w]
  <2> HIDE DEF wal
  <2>1. wal \in WalletRows
    BY <1>2 DEF wal
  <2>2. LET n == [draft[a] EXCEPT !.wallet = wal]
        IN  n \in Drafts /\ n.wallet = wal /\ n.entries = draft[a].entries /\ n.rows = draft[a].rows
    BY <1>2, <2>1 DEF Drafts
  <2> QED BY <2>2 DEF wal
<1>4. TypeOK'
  <2> HIDE DEF new, w
  <2> QED BY <1>1, <1>3 DEF TypeOK, PCs
<1>5. \A b \in Actors : /\ b # a => pc'[b] = pc[b] /\ draft'[b] = draft[b]
                        /\ pc'[a] = "decide" /\ draft'[a] = new
  <2> HIDE DEF new
  <2> QED BY <1>1 DEF TypeOK
<1>6. \A d \in Deliveries : pc[d] # "idle" => pc'[d] # "idle" /\ sub'[d] = sub[d]
  BY <1>1, <1>5 DEF Actors
<1>7. RowsWellPlaced'
  <2>1. \A d \in Deliveries : pc'[d] # "idle" => sub'[d] \in Submissions
    BY <1>1, <1>5 DEF RowsWellPlaced, Actors
  <2>2. \A e \in Deliveries : WellPlaced(row, e)'
    BY <1>1, <1>6, StartedStays DEF RowsWellPlaced, WellPlaced
  <2>3. \A b \in Actors, e \in Deliveries : WellPlaced(draft[b].rows, e)'
    <3> HIDE DEF new
    <3> QED BY <1>1, <1>3, <1>5, <1>6, StartedStays DEF RowsWellPlaced, WellPlaced
  <2> QED BY <2>1, <2>2, <2>3 DEF RowsWellPlaced
<1>8. \A b \in Actors : /\ WalletOf(b)' = WalletOf(b)
                        /\ b # a => Holding(b)' = Holding(b)
                        /\ Holding(a)' /\ ~Holding(a)
  BY <1>1, <1>5 DEF Holding, WalletOf, TxOf
<1>9. LocksHeld'
  <2>1. \A b \in Workers : pc'[b] # "idle" => job'[b].tx \in Stored(row')
    BY <1>1, <1>5 DEF LocksHeld, Actors
  <2>2. ASSUME NEW b \in Actors, Holding(b)'
        PROVE  WalletOf(b)' \in Wallets /\ lock'[WalletOf(b)'] = b
    <3>1. CASE b = a
      BY <1>1, <1>8, <3>1 DEF TypeOK
    <3>2. CASE b # a
      <4>1. lock[WalletOf(b)] = b /\ WalletOf(b) \in Wallets
        BY <1>8, <2>2, <3>2 DEF LocksHeld
      <4>2. WalletOf(b) # w
        BY <1>1, <4>1, ActorAssumption
      <4> QED BY <1>1, <1>8, <4>1, <4>2 DEF TypeOK
    <3> QED BY <3>1, <3>2
  <2>3. \A b \in Actors : pc'[b] = "cascade" => draft'[b].queue # <<>>
    BY <1>1, <1>5 DEF LocksHeld
  <2> QED BY <2>1, <2>2, <2>3 DEF LocksHeld
<1>10. LedgerExplainsBalance'
  BY <1>1 DEF LedgerExplainsBalance, Chained, EndBalance, OpeningEntries
<1>11. DraftsContinueLedger'
  <2> SUFFICES ASSUME NEW b \in Actors
               PROVE  /\ ~Holding(b)' => draft'[b].entries = <<>>
                      /\ Holding(b)' =>
                           LET x == wallet'[WalletOf(b)']
                               dr == draft'[b]
                           IN  /\ Chained(dr.entries, x.balance)
                               /\ dr.wallet.balance = EndBalance(dr.entries, x.balance)
                               /\ dr.wallet.version = x.version + Len(dr.entries)
                               /\ dr.wallet.balance >= 0
    BY DEF DraftsContinueLedger, Chained, EndBalance
  <2>1. CASE b = a
    <3>1. new.entries = <<>>
      BY <1>3, <1>8 DEF DraftsContinueLedger
    <3>2. wallet[w].balance >= 0
      <4>1. ledger[w] \in Seq(Entries)
        BY <1>1 DEF TypeOK
      <4>2. Chained(ledger[w], 0) /\ wallet[w].balance = EndBalance(ledger[w], 0)
        BY <1>1 DEF LedgerExplainsBalance
      <4> QED BY <4>1, <4>2, EndNotNegative
    <3>3. Chained(<<>>, wallet[w].balance) /\ EndBalance(<<>>, wallet[w].balance) = wallet[w].balance
      BY DEF Chained, EndBalance
    <3>4. wallet[w].version \in Nat
      BY <1>2 DEF WalletRows
    <3>5. draft'[b] = new /\ wallet'[WalletOf(b)'] = wallet[w] /\ Holding(b)'
      BY <1>1, <1>5, <1>8, <2>1
    <3> HIDE DEF new, w
    <3> QED BY <1>3, <3>1, <3>2, <3>3, <3>4, <3>5
  <2>2. CASE b # a
    BY <1>1, <1>5, <1>8, <2>2 DEF DraftsContinueLedger
  <2> QED BY <2>1, <2>2
<1> QED
  BY <1>4, <1>7, <1>9, <1>10, <1>11

\* A new submission keeps the invariant: no row or entry is about it yet.
LEMMA SubmitInv ==
  ASSUME SettlementInv, NEW d \in Deliveries, NEW s \in Submissions, Submit(d, s)
  PROVE  SettlementInv'
<1> USE DEF SettlementInv
<1>1. /\ pc[d] = "idle" /\ sub' = [sub EXCEPT ![d] = s] /\ pc' = [pc EXCEPT ![d] = "lookup"]
      /\ UNCHANGED <<wallet, row, ledger, outbox, inbox, lock, job, draft, resp, crashes>>
  BY DEF Submit, committed
<1>2. TypeOK'
  BY <1>1 DEF TypeOK, PCs
<1>3. /\ \A b \in Actors : b # d => pc'[b] = pc[b]
      /\ \A e \in Deliveries : e # d => sub'[e] = sub[e]
      /\ pc'[d] = "lookup" /\ sub'[d] = s
  BY <1>1 DEF TypeOK, Actors
<1>4. \A e \in Deliveries : pc[e] # "idle" => pc'[e] # "idle" /\ sub'[e] = sub[e]
  BY <1>1, <1>3 DEF Actors
<1>5. RowsWellPlaced'
  <2>1. \A e \in Deliveries : pc'[e] # "idle" => sub'[e] \in Submissions
    BY <1>1, <1>3 DEF RowsWellPlaced, Actors
  <2>2. \A e \in Deliveries : WellPlaced(row, e)'
    BY <1>1, <1>4, StartedStays DEF RowsWellPlaced, WellPlaced
  <2>3. \A b \in Actors, e \in Deliveries : WellPlaced(draft[b].rows, e)'
    BY <1>1, <1>4, StartedStays DEF RowsWellPlaced, WellPlaced
  <2> QED BY <2>1, <2>2, <2>3 DEF RowsWellPlaced
<1>6. \A b \in Actors : Holding(b)' = Holding(b) /\ (Holding(b) => WalletOf(b)' = WalletOf(b))
  <2> SUFFICES ASSUME NEW b \in Actors
               PROVE  Holding(b)' = Holding(b) /\ (Holding(b) => WalletOf(b)' = WalletOf(b))
    OBVIOUS
  <2>1. Holding(b)' = Holding(b)
    BY <1>1, <1>3 DEF Holding
  <2>2. CASE Holding(b) /\ b \in Deliveries
    <3>1. b # d
      BY <1>1, <2>2 DEF Holding
    <3> QED BY <1>3, <2>1, <2>2, <3>1 DEF WalletOf, TxOf
  <2>3. CASE Holding(b) /\ b \notin Deliveries
    <3>1. job[b].tx \in Stored(row)
      BY <2>3 DEF LocksHeld, Holding, Actors
    <3>2. job[b].tx \in Deliveries /\ pc[job[b].tx] # "idle"
      BY <3>1 DEF Stored, RowsWellPlaced, WellPlaced
    <3> QED BY <1>1, <1>3, <2>1, <2>3, <3>2 DEF WalletOf, TxOf
  <2> QED BY <2>1, <2>2, <2>3
<1>7. LocksHeld'
  <2>1. \A b \in Workers : pc'[b] # "idle" => job'[b].tx \in Stored(row')
    BY <1>1, <1>3, ActorAssumption DEF LocksHeld, Actors
  <2>2. \A b \in Actors : Holding(b)' => WalletOf(b)' \in Wallets /\ lock'[WalletOf(b)'] = b
    BY <1>1, <1>6 DEF LocksHeld
  <2>3. \A b \in Actors : pc'[b] = "cascade" => draft'[b].queue # <<>>
    BY <1>1, <1>3 DEF LocksHeld
  <2> QED BY <2>1, <2>2, <2>3 DEF LocksHeld
<1>8. LedgerExplainsBalance'
  BY <1>1 DEF LedgerExplainsBalance, Chained, EndBalance, OpeningEntries
<1>9. DraftsContinueLedger'
  BY <1>1, <1>6 DEF DraftsContinueLedger, Chained, EndBalance
<1> QED
  BY <1>2, <1>5, <1>7, <1>8, <1>9

\* RecordInbox adds at most the message of a submission.
LEMMA RecordInboxType ==
  ASSUME TypeOK, NEW s \in Submissions
  PROVE  RecordInbox(s) \subseteq { x.message : x \in Submissions } \ {NoMessage}
  BY DEF TypeOK, RecordInbox

\* A commit keeps the invariant: the entries it appends continue the ledger of the
\* wallet it holds, because nobody else has written to it since the lock was taken.
LEMMA CommitInv ==
  ASSUME SettlementInv, NEW a \in Actors, Commit(a)
  PROVE  SettlementInv'
<1> USE DEF SettlementInv
<1> DEFINE w == WalletOf(a)
           dr == draft[a]
           next == IF a \in Deliveries THEN "done" ELSE "idle"
<1>1. /\ pc[a] = "commit"
      /\ wallet' = [wallet EXCEPT ![w] = dr.wallet]
      /\ row' = Visible(dr)
      /\ ledger' = [ledger EXCEPT ![w] = ledger[w] \o dr.entries]
      /\ outbox' = [outbox EXCEPT ![w] = outbox[w] \o dr.events]
      /\ sub' = sub /\ crashes' = crashes
      /\ pc' = [pc EXCEPT ![a] = next]
      /\ draft' = [draft EXCEPT ![a] = EmptyDraft]
      /\ lock' = [x \in Wallets |-> IF lock[x] = a THEN NoActor ELSE lock[x]]
  BY DEF Commit, Close
<1>2. Holding(a) /\ w \in Wallets /\ lock[w] = a
  BY <1>1 DEF Holding, LocksHeld
<1>3. /\ dr \in Drafts /\ dr.wallet \in WalletRows /\ dr.entries \in Seq(Entries)
      /\ dr.events \in Seq(Events) /\ dr.rows \in [Deliveries -> Rows]
  BY DEF TypeOK, Drafts
<1>4. /\ ledger[w] \in Seq(Entries) /\ outbox[w] \in Seq(Events) /\ wallet[w] \in WalletRows
      /\ ledger[w] \o dr.entries \in Seq(Entries) /\ outbox[w] \o dr.events \in Seq(Events)
      /\ Len(ledger[w] \o dr.entries) = Len(ledger[w]) + Len(dr.entries)
      /\ Len(ledger[w]) \in Nat /\ Len(dr.entries) \in Nat
  <2>1. ledger[w] \in Seq(Entries) /\ outbox[w] \in Seq(Events) /\ wallet[w] \in WalletRows
    BY <1>2 DEF TypeOK
  <2> HIDE DEF w, dr
  <2> QED BY <1>3, <2>1
<1>5. job' \in [Workers -> Jobs] /\ (\A b \in Workers : b # a => job'[b] = job[b])
  BY NoJobType DEF Commit, Close, TypeOK
<1>6. inbox' \subseteq { s.message : s \in Submissions } \ {NoMessage} /\ resp' \in [Deliveries -> Answers]
  <2>1. CASE a \in Deliveries
    <3>1. sub[a] \in Submissions
      BY <1>1, <2>1 DEF RowsWellPlaced
    <3>2. inbox' = RecordInbox(sub[a])
      BY <2>1 DEF Commit
    <3>3. PICK answer : resp' = [resp EXCEPT ![a] = answer] /\ answer \in Answers
      <4> DEFINE st == dr.rows[a].status
                 answer == [ outcome |-> "settled", tx |-> a, status |-> st,
                             balance |-> IF st = "PENDING_REFERENCE" THEN NoBalance
                                         ELSE dr.wallet.balance ]
      <4>1. resp' = [resp EXCEPT ![a] = answer]
        BY <2>1 DEF Commit
      <4>2. st \in StoredStatuses \cup {"ABSENT"}
        BY <1>3, <2>1 DEF Rows
      <4>3. answer \in Answers
        BY <1>3, <2>1, <4>2 DEF Answers, Outcomes, WalletRows, NoBalance
      <4> HIDE DEF answer
      <4> QED BY <4>1, <4>3
    <3> QED BY <2>1, <3>1, <3>2, <3>3, RecordInboxType DEF TypeOK
  <2>2. CASE a \notin Deliveries
    BY <2>2 DEF Commit, TypeOK
  <2> QED BY <2>1, <2>2
<1>7. TypeOK'
  <2>1. row' \in [Deliveries -> Rows]
    BY <1>1, <1>3, VisibleType
  <2>2. next \in PCs
    BY DEF PCs
  <2> HIDE DEF w, dr, next
  <2> QED BY <1>1, <1>3, <1>4, <1>5, <1>6, <2>1, <2>2, EmptyDraftFacts DEF TypeOK
<1>8. \A b \in Actors : /\ b # a => pc'[b] = pc[b] /\ draft'[b] = draft[b]
                        /\ pc'[a] = next /\ draft'[a] = EmptyDraft
  BY <1>1 DEF TypeOK
<1>9. \A d \in Deliveries : pc[d] # "idle" => pc'[d] # "idle" /\ sub'[d] = sub[d]
  BY <1>1, <1>8 DEF Actors
<1>10. ASSUME NEW rows, NEW e \in Deliveries, WellPlaced(rows, e), rows[e].status # "ABSENT"
       PROVE  pc'[e] # "idle" /\ sub'[e].wallet \in Wallets
  BY <1>9, <1>10 DEF WellPlaced
<1>11. RowsWellPlaced'
  <2>1. \A d \in Deliveries : pc'[d] # "idle" => sub'[d] \in Submissions
    BY <1>1, <1>8 DEF RowsWellPlaced, Actors
  <2>2. ASSUME NEW e \in Deliveries PROVE WellPlaced(row, e)'
    <3>1. row \in [Deliveries -> Rows] /\ WellPlaced(row, e) /\ WellPlaced(dr.rows, e)
      BY DEF RowsWellPlaced, TypeOK
    <3>2. row'[e] = row[e] \/ row'[e] = dr.rows[e]
      BY <1>1 DEF Visible
    <3> HIDE DEF dr
    <3> QED BY <1>3, <1>10, <3>1, <3>2 DEF WellPlaced
  <2>3. ASSUME NEW b \in Actors, NEW e \in Deliveries PROVE WellPlaced(draft[b].rows, e)'
    <3>1. CASE b = a
      BY <1>8, <3>1, EmptyDraftFacts DEF WellPlaced
    <3>2. CASE b # a
      <4>1. draft'[b].rows = draft[b].rows /\ draft[b].rows \in [Deliveries -> Rows]
            /\ WellPlaced(draft[b].rows, e)
        BY <1>8, <3>2 DEF RowsWellPlaced, TypeOK, Drafts
      <4> QED BY <1>10, <4>1 DEF WellPlaced
    <3> QED BY <3>1, <3>2
  <2> QED BY <2>1, <2>2, <2>3 DEF RowsWellPlaced
<1>12. \A b \in Actors : b # a => /\ Holding(b)' = Holding(b)
                                  /\ WalletOf(b)' = WalletOf(b)
                                  /\ Holding(b) => WalletOf(b) # w
  <2> SUFFICES ASSUME NEW b \in Actors, b # a
               PROVE  /\ Holding(b)' = Holding(b)
                      /\ WalletOf(b)' = WalletOf(b)
                      /\ Holding(b) => WalletOf(b) # w
    OBVIOUS
  <2>1. Holding(b)' = Holding(b)
    BY <1>8 DEF Holding
  <2>2. WalletOf(b)' = WalletOf(b)
    BY <1>1, <1>5 DEF WalletOf, TxOf, Actors
  <2>3. Holding(b) => WalletOf(b) # w
    BY <1>2 DEF LocksHeld
  <2> QED BY <2>1, <2>2, <2>3
<1>13. ~Holding(a)'
  BY <1>8 DEF Holding
<1>14. LocksHeld'
  <2>1. \A e \in Deliveries : e \in Stored(row) => e \in Stored(row')
    BY <1>1 DEF Stored, Visible
  <2>2. ASSUME NEW b \in Workers, pc'[b] # "idle" PROVE job'[b].tx \in Stored(row')
    <3>1. b # a
      BY <1>8, <2>2, ActorAssumption DEF Actors
    <3>2. job'[b].tx \in Stored(row)
      BY <1>5, <1>8, <2>2, <3>1 DEF LocksHeld, Actors
    <3> QED BY <2>1, <3>2 DEF Stored
  <2>3. ASSUME NEW b \in Actors, Holding(b)'
        PROVE  WalletOf(b)' \in Wallets /\ lock'[WalletOf(b)'] = b
    <3>1. b # a /\ Holding(b)
      BY <1>12, <1>13, <2>3
    <3>2. WalletOf(b) \in Wallets /\ lock[WalletOf(b)] = b
      BY <3>1 DEF LocksHeld
    <3> QED BY <1>1, <1>12, <3>1, <3>2
  <2>4. \A b \in Actors : pc'[b] = "cascade" => draft'[b].queue # <<>>
    BY <1>8 DEF LocksHeld
  <2> QED BY <2>2, <2>3, <2>4 DEF LocksHeld
<1>15. LedgerExplainsBalance'
  <2> SUFFICES ASSUME NEW x \in Wallets
               PROVE  /\ Chained(ledger'[x], 0)
                      /\ wallet'[x].balance = EndBalance(ledger'[x], 0)
                      /\ wallet'[x].version = 1 + Len(ledger'[x]) - Len(OpeningEntries(x))
    BY DEF LedgerExplainsBalance, Chained, EndBalance, OpeningEntries
  <2>1. /\ Chained(ledger[x], 0) /\ wallet[x].balance = EndBalance(ledger[x], 0)
        /\ wallet[x].version = 1 + Len(ledger[x]) - Len(OpeningEntries(x))
    BY DEF LedgerExplainsBalance
  <2>2. CASE x # w
    <3>1. ledger'[x] = ledger[x] /\ wallet'[x] = wallet[x]
      BY <1>1, <2>2 DEF TypeOK
    <3> QED BY <2>1, <3>1
  <2>3. CASE x = w
    <3> DEFINE before == ledger[x]
               new == dr.entries
               bal == wallet[x].balance
    <3>1. /\ Chained(new, bal)
          /\ dr.wallet.balance = EndBalance(new, bal)
          /\ dr.wallet.version = wallet[x].version + Len(new)
      BY <1>2, <2>3 DEF DraftsContinueLedger
    <3>2. ledger'[x] = before \o new /\ wallet'[x] = dr.wallet
      BY <1>1, <1>2, <2>3 DEF TypeOK
    <3>3. Len(OpeningEntries(x)) \in Nat
      BY DEF OpeningEntries
    <3>4. wallet[x].version \in Nat /\ bal \in Int
      BY <1>4, <2>3 DEF WalletRows
    <3>5. before \in Seq(Entries) /\ new \in Seq(Entries)
      BY <1>3, <1>4, <2>3
    <3>6. Chained(before, 0) /\ bal = EndBalance(before, 0)
      BY <2>1
    <3>7. wallet[x].version = 1 + Len(before) - Len(OpeningEntries(x))
      BY <2>1
    <3> HIDE DEF before, new, bal
    <3>8. Chained(before \o new, 0) /\ EndBalance(before \o new, 0) = EndBalance(new, bal)
      BY <3>1, <3>5, <3>6, ChainedConcat
    <3>9. Len(before \o new) = Len(before) + Len(new) /\ Len(before) \in Nat /\ Len(new) \in Nat
      BY <3>5
    <3>10. dr.wallet.version = 1 + Len(before \o new) - Len(OpeningEntries(x))
      BY <3>1, <3>3, <3>4, <3>7, <3>9
    <3> QED BY <3>1, <3>2, <3>8, <3>10
  <2> QED BY <2>2, <2>3
<1>16. DraftsContinueLedger'
  <2> SUFFICES ASSUME NEW b \in Actors
               PROVE  /\ ~Holding(b)' => draft'[b].entries = <<>>
                      /\ Holding(b)' =>
                           LET x == wallet'[WalletOf(b)']
                               d == draft'[b]
                           IN  /\ Chained(d.entries, x.balance)
                               /\ d.wallet.balance = EndBalance(d.entries, x.balance)
                               /\ d.wallet.version = x.version + Len(d.entries)
                               /\ d.wallet.balance >= 0
    BY DEF DraftsContinueLedger, Chained, EndBalance
  <2>1. CASE b = a
    BY <1>8, <1>13, <2>1, EmptyDraftFacts
  <2>2. CASE b # a
    <3>1. Holding(b) => wallet'[WalletOf(b)'] = wallet[WalletOf(b)]
      BY <1>1, <1>12, <2>2 DEF TypeOK, LocksHeld
    <3> QED BY <1>8, <1>12, <2>2, <3>1 DEF DraftsContinueLedger
  <2> QED BY <2>1, <2>2
<1> QED
  BY <1>7, <1>11, <1>14, <1>15, <1>16

-----------------------------------------------------------------------------
(* The steps of a transaction that writes *)

\* The reference of a transaction is a row or none.
LEMMA ReferenceType ==
  ASSUME NEW rows, NEW t
  PROVE  ReferenceOf(rows, t) \in Deliveries \cup {NoTx}
  BY DEF ReferenceOf, Stored

\* A row that a transaction sees is well placed.
LEMMA VisibleWellPlaced ==
  ASSUME SettlementInv, NEW a \in Actors, NEW e \in Deliveries,
         Visible(draft[a])[e].status # "ABSENT"
  PROVE  /\ pc[e] # "idle" /\ sub[e] \in Submissions /\ sub[e].wallet \in Wallets
<1>1. Visible(draft[a])[e] = row[e] \/ Visible(draft[a])[e] = draft[a].rows[e]
  BY DEF Visible
<1>2. WellPlaced(row, e) /\ WellPlaced(draft[a].rows, e)
  BY DEF SettlementInv, RowsWellPlaced
<1>3. pc[e] # "idle" /\ sub[e].wallet \in Wallets
  BY <1>1, <1>2 DEF WellPlaced
<1> QED
  BY <1>3 DEF SettlementInv, RowsWellPlaced

\* Applying a sound verdict under the lock keeps the invariant.
LEMMA AppliedInv ==
  ASSUME SettlementInv, NEW a \in Actors, Holding(a),
         NEW tx \in Deliveries, pc[tx] # "idle", sub[tx].wallet \in Wallets,
         NEW ref \in Deliveries \cup {NoTx}, NEW before, NEW v \in Verdicts,
         v.direction = "DEBIT" => sub[tx].amount <= draft[a].wallet.balance,
         NEW q \in Seq(Deliveries),
         NEW next \in {"cascade", "commit"}, next = "cascade" => q # <<>>,
         pc' = [pc EXCEPT ![a] = next],
         draft' = [draft EXCEPT ![a] = [Applied(draft[a], tx, ref, before, v) EXCEPT !.queue = q]],
         UNCHANGED <<sub, committed, inbox, lock, job, resp, crashes>>
  PROVE  SettlementInv'
<1> DEFINE dr == draft[a]
           app == Applied(dr, tx, ref, before, v)
           new == [app EXCEPT !.queue = q]
           es == EntriesFor(dr.wallet, tx, v)
<1>1. TypeOK /\ dr \in Drafts /\ dr.wallet \in WalletRows /\ dr.rows \in [Deliveries -> Rows]
  BY DEF SettlementInv, TypeOK, Drafts
<1>2. sub[tx] \in Submissions /\ sub[tx].amount \in Nat
  BY SubmissionAssumption DEF SettlementInv, RowsWellPlaced
<1>3. dr.wallet.balance >= 0
  BY DEF SettlementInv, DraftsContinueLedger
<1>4. /\ app \in Drafts
      /\ app.wallet = WalletAfter(dr.wallet, sub[tx], v)
      /\ app.entries = dr.entries \o es
      /\ \A e \in Deliveries :
           app.rows[e] = IF e = tx THEN RowAfter(dr, tx, ref, v) ELSE dr.rows[e]
  <2>1. ExtendedBy(dr, tx, v, RowAfter(dr, tx, ref, v), Applied(dr, tx, ref, before, v))
    BY <1>1, <1>2, <1>3, AppliedDraft
  <2> QED BY <2>1 DEF ExtendedBy
<1>5. /\ es \in Seq(Entries) /\ app.wallet.balance >= 0
      /\ Chained(es, dr.wallet.balance)
      /\ app.wallet.balance = EndBalance(es, dr.wallet.balance)
      /\ app.wallet.version = dr.wallet.version + Len(es)
  BY <1>1, <1>2, <1>3, <1>4, EntryContinuesWallet
<1>6. /\ new \in Drafts /\ new.wallet = app.wallet /\ new.entries = app.entries
      /\ new.rows = app.rows /\ new.queue = q
  <2> HIDE DEF app
  <2> QED BY <1>4 DEF Drafts
<1>7. ASSUME NEW e \in Deliveries PROVE WellPlaced(new.rows, e)
  <2>1. WellPlaced(dr.rows, e)
    BY DEF SettlementInv, RowsWellPlaced
  <2>2. CASE e # tx
    <3>1. new.rows[e] = dr.rows[e]
      BY <1>1, <1>4, <1>6, <2>2
    <3> QED BY <2>1, <3>1 DEF WellPlaced
  <2>3. CASE e = tx
    BY <2>3 DEF WellPlaced
  <2> QED BY <2>2, <2>3
<1>8. Writes(a, next, new)
  <2>1. pc' = [pc EXCEPT ![a] = next] /\ draft' = [draft EXCEPT ![a] = new]
    OBVIOUS
  <2> HIDE DEF new, app, es
  <2> QED BY <1>4, <1>5, <1>6, <1>7, <2>1 DEF Writes
<1> QED
  BY <1>8, WritesInv

\* A draft that gains rows or loses references, and no money, keeps the invariant.
LEMMA DraftWithoutMoneyInv ==
  ASSUME SettlementInv, NEW a \in Actors, Holding(a), NEW new \in Drafts,
         new.wallet = draft[a].wallet, new.entries = draft[a].entries,
         \A e \in Deliveries : WellPlaced(new.rows, e),
         NEW next \in {"cascade", "commit"}, next = "cascade" => new.queue # <<>>,
         pc' = [pc EXCEPT ![a] = next], draft' = [draft EXCEPT ![a] = new],
         UNCHANGED <<sub, committed, inbox, lock, job, resp, crashes>>
  PROVE  SettlementInv'
<1>1. draft[a] \in Drafts
  BY DEF SettlementInv, TypeOK
<1>2. draft[a].entries \in Seq(Entries) /\ draft[a].wallet \in WalletRows
  BY <1>1 DEF Drafts
<1>3. draft[a].wallet.version \in Nat /\ draft[a].wallet.balance >= 0
  BY <1>2 DEF WalletRows, SettlementInv, DraftsContinueLedger
<1>4. <<>> \in Seq(Entries) /\ draft[a].entries = draft[a].entries \o <<>> /\ Len(<<>>) = 0
  BY <1>2
<1>5. Chained(<<>>, draft[a].wallet.balance)
      /\ EndBalance(<<>>, draft[a].wallet.balance) = draft[a].wallet.balance
  BY DEF Chained, EndBalance
<1>6. \E es \in Seq(Entries) :
        /\ new.entries = draft[a].entries \o es
        /\ Chained(es, draft[a].wallet.balance)
        /\ new.wallet.balance = EndBalance(es, draft[a].wallet.balance)
        /\ new.wallet.version = draft[a].wallet.version + Len(es)
        /\ new.wallet.balance >= 0
  <2> WITNESS <<>> \in Seq(Entries)
  <2> QED BY <1>3, <1>4, <1>5
<1>7. Writes(a, next, new)
  BY <1>6 DEF Writes
<1> QED
  BY <1>7, WritesInv

\* A delivery's own row, when it is created.
LEMMA ProcessInv ==
  ASSUME SettlementInv, NEW d \in Deliveries, Process(d)
  PROVE  SettlementInv'
<1> DEFINE ref == ReferenceOf(Visible(draft[d]), sub[d])
           v == VerdictOn(draft[d], d, ref)
           q == QueueAfter(d, v)
           next == IF q = <<>> THEN "commit" ELSE "cascade"
<1>1. /\ pc[d] = "decide" /\ d \in Actors
      /\ draft' = [draft EXCEPT ![d] = [Applied(draft[d], d, ref, "PENDING", v) EXCEPT !.queue = q]]
      /\ pc' = [pc EXCEPT ![d] = next]
      /\ UNCHANGED <<sub, committed, inbox, lock, job, resp, crashes>>
  BY DEF Process, Apply, Actors
<1>2. Holding(d) /\ sub[d] \in Submissions /\ sub[d].wallet \in Wallets
  BY <1>1 DEF Holding, SettlementInv, LocksHeld, RowsWellPlaced, WalletOf, TxOf
<1>3. ref \in Deliveries \cup {NoTx}
  BY ReferenceType
<1>4. TypeOK /\ draft[d] \in Drafts
  BY <1>1 DEF SettlementInv, TypeOK
<1>5. v \in Verdicts /\ (v.direction = "DEBIT" => sub[d].amount <= draft[d].wallet.balance)
  BY <1>2, <1>4, VerdictOnIsSound
<1>6. q \in Seq(Deliveries)
  BY DEF QueueAfter
<1>7. next \in {"cascade", "commit"} /\ (next = "cascade" => q # <<>>)
  OBVIOUS
<1> HIDE DEF ref, v, q, next
<1> QED
  BY <1>1, <1>2, <1>3, <1>5, <1>6, <1>7, AppliedInv

\* A worker under way has a row that is stored, hence submitted, and its wallet.
LEMMA JobFacts ==
  ASSUME SettlementInv, NEW a \in Workers, pc[a] = "decide"
  PROVE  /\ Holding(a) /\ a \in Actors
         /\ job[a].tx \in Deliveries /\ row[job[a].tx] \in Rows
         /\ pc[job[a].tx] # "idle" /\ sub[job[a].tx] \in Submissions
         /\ sub[job[a].tx].wallet \in Wallets
         /\ Visible(draft[a])[job[a].tx].status # "ABSENT"
         /\ WellPlaced(row, job[a].tx) /\ row[job[a].tx].status # "ABSENT"
<1>1. Holding(a) /\ a \in Actors
  BY DEF Holding, Actors
<1>2. job[a].tx \in Stored(row)
  BY DEF SettlementInv, LocksHeld
<1>3. job[a].tx \in Deliveries /\ row[job[a].tx].status # "ABSENT"
  BY <1>2 DEF Stored
<1>4. row[job[a].tx] \in Rows /\ WellPlaced(row, job[a].tx)
  BY <1>3 DEF SettlementInv, TypeOK, RowsWellPlaced
<1>5. Visible(draft[a])[job[a].tx].status # "ABSENT"
  BY <1>3 DEF Visible, Stored
<1>6. /\ pc[job[a].tx] # "idle" /\ sub[job[a].tx] \in Submissions
      /\ sub[job[a].tx].wallet \in Wallets
  BY <1>1, <1>3, <1>5, VisibleWellPlaced
<1> QED
  BY <1>1, <1>3, <1>4, <1>5, <1>6

\* A pending row that a worker settles.
LEMMA ReprocessInv ==
  ASSUME SettlementInv, NEW a \in Workers, Reprocess(a)
  PROVE  SettlementInv'
<1> DEFINE tx == job[a].tx
           ref == JobReference(a)
           v == JobVerdict(a)
           q == QueueAfter(tx, v)
           next == IF q = <<>> THEN "commit" ELSE "cascade"
<1>1. /\ pc[a] = "decide"
      /\ draft' = [draft EXCEPT ![a] =
                      [Applied(draft[a], tx, ref, "PENDING_REFERENCE", v) EXCEPT !.queue = q]]
      /\ pc' = [pc EXCEPT ![a] = next]
      /\ UNCHANGED <<sub, committed, inbox, lock, job, resp, crashes>>
  BY DEF Reprocess, Apply
<1>2. /\ Holding(a) /\ a \in Actors /\ tx \in Deliveries
      /\ pc[tx] # "idle" /\ sub[tx] \in Submissions /\ sub[tx].wallet \in Wallets
      /\ Visible(draft[a])[tx].status # "ABSENT"
  BY <1>1, JobFacts
<1>3. ref \in Deliveries \cup {NoTx}
  BY ReferenceType DEF JobReference
<1>4. TypeOK /\ draft[a] \in Drafts
  BY <1>2 DEF SettlementInv, TypeOK
<1>5. v \in Verdicts /\ (v.direction = "DEBIT" => sub[tx].amount <= draft[a].wallet.balance)
  BY <1>2, <1>4, VerdictOnIsSound DEF JobVerdict
<1>6. q \in Seq(Deliveries)
  BY <1>2 DEF QueueAfter
<1>7. next \in {"cascade", "commit"} /\ (next = "cascade" => q # <<>>)
  OBVIOUS
<1> HIDE DEF tx, ref, v, q, next
<1> QED
  BY <1>1, <1>2, <1>3, <1>5, <1>6, <1>7, AppliedInv

\* A dependent that is settled with its reference.
LEMMA SettleDependentInv ==
  ASSUME SettlementInv, NEW a \in Actors, SettleDependent(a)
  PROVE  SettlementInv'
<1> DEFINE dr == draft[a]
           ref == Head(dr.queue)
<1>1. pc[a] = "cascade" /\ Holding(a) /\ UNCHANGED <<sub, committed, inbox, lock, pc, job, resp, crashes>>
  BY DEF SettleDependent, Holding
<1>2. TypeOK /\ dr \in Drafts /\ dr.queue \in Seq(Deliveries) /\ dr.queue # <<>>
  BY <1>1 DEF SettlementInv, TypeOK, LocksHeld, Drafts
<1>3. ref \in Deliveries
  BY <1>2
<1>4. PICK e \in Dependents(dr, ref) :
        draft' = [draft EXCEPT ![a] =
                    [Applied(dr, e, ref, "PENDING_REFERENCE", VerdictOn(dr, e, ref)) EXCEPT
                       !.queue = QueueAfterDependent(dr.queue, e, VerdictOn(dr, e, ref))]]
  BY DEF SettleDependent
<1> DEFINE v == VerdictOn(dr, e, ref)
           q == QueueAfterDependent(dr.queue, e, v)
<1>5. e \in Deliveries /\ Visible(dr)[e].status # "ABSENT"
  BY <1>4 DEF Dependents
<1>6. pc[e] # "idle" /\ sub[e] \in Submissions /\ sub[e].wallet \in Wallets
  BY <1>5, VisibleWellPlaced
<1>7. v \in Verdicts /\ (v.direction = "DEBIT" => sub[e].amount <= dr.wallet.balance)
  BY <1>2, <1>5, <1>6, VerdictOnIsSound
<1>8. draft' = [draft EXCEPT ![a] = [Applied(dr, e, ref, "PENDING_REFERENCE", v) EXCEPT !.queue = q]]
  BY <1>4
<1>9. q \in Seq(Deliveries) /\ q # <<>>
  <2> DEFINE old == dr.queue
  <2> HIDE DEF old, v
  <2>1. \A x \in Seq(Deliveries) : Append(x, e) \in Seq(Deliveries) /\ Append(x, e) # <<>>
    BY <1>5
  <2> QED BY <1>2, <2>1 DEF QueueAfterDependent, old
<1>10. pc' = [pc EXCEPT ![a] = "cascade"]
  BY <1>1, <1>2 DEF TypeOK
<1> HIDE DEF v, q, ref
<1> QED
  BY <1>1, <1>3, <1>5, <1>6, <1>7, <1>8, <1>9, <1>10, AppliedInv

\* A reference whose dependents are all settled.
LEMMA NextReferenceInv ==
  ASSUME SettlementInv, NEW a \in Actors, NextReference(a)
  PROVE  SettlementInv'
<1> DEFINE dr == draft[a]
           new == [dr EXCEPT !.queue = Tail(dr.queue)]
           next == IF Len(dr.queue) = 1 THEN "commit" ELSE "cascade"
<1>1. /\ pc[a] = "cascade" /\ Holding(a)
      /\ draft' = [draft EXCEPT ![a] = new] /\ pc' = [pc EXCEPT ![a] = next]
      /\ UNCHANGED <<sub, committed, inbox, lock, job, resp, crashes>>
  BY DEF NextReference, Holding, SettlementInv, TypeOK
<1>2. dr \in Drafts /\ dr.queue \in Seq(Deliveries) /\ dr.queue # <<>>
  BY <1>1 DEF SettlementInv, TypeOK, LocksHeld, Drafts
<1>3. Tail(dr.queue) \in Seq(Deliveries) /\ (Len(dr.queue) # 1 => Tail(dr.queue) # <<>>)
  <2> DEFINE q == dr.queue
  <2>1. q \in Seq(Deliveries) /\ q # <<>>
    BY <1>2
  <2> HIDE DEF q
  <2>2. Tail(q) \in Seq(Deliveries) /\ Len(Tail(q)) = Len(q) - 1 /\ Len(q) \in Nat
    BY <2>1
  <2>3. Len(q) # 1 => Tail(q) # <<>>
    BY <2>2
  <2> QED BY <2>2, <2>3 DEF q
<1>4. /\ new \in Drafts /\ new.wallet = dr.wallet /\ new.entries = dr.entries
      /\ new.rows = dr.rows /\ new.queue = Tail(dr.queue)
  BY <1>2, <1>3 DEF Drafts
<1>5. \A e \in Deliveries : WellPlaced(new.rows, e)
  BY <1>4 DEF SettlementInv, RowsWellPlaced, WellPlaced
<1>6. next \in {"cascade", "commit"} /\ (next = "cascade" => new.queue # <<>>)
  BY <1>3, <1>4
<1> HIDE DEF new, next
<1> QED
  BY <1>1, <1>4, <1>5, <1>6, DraftWithoutMoneyInv

\* A pending row that waits on.
LEMMA RescheduleInv ==
  ASSUME SettlementInv, NEW a \in Workers, Reschedule(a)
  PROVE  SettlementInv'
<1> DEFINE tx == job[a].tx
           dr == draft[a]
           r == [row[tx] EXCEPT !.attempts = @ + 1]
           new == [dr EXCEPT !.rows[tx] = r]
<1>1. /\ pc[a] = "decide"
      /\ draft' = [draft EXCEPT ![a] = new] /\ pc' = [pc EXCEPT ![a] = "commit"]
      /\ UNCHANGED <<sub, committed, inbox, lock, job, resp, crashes>>
  BY DEF Reschedule, SettlementInv, TypeOK
<1>2. /\ Holding(a) /\ a \in Actors /\ tx \in Deliveries /\ row[tx] \in Rows
      /\ WellPlaced(row, tx) /\ row[tx].status # "ABSENT"
  BY <1>1, JobFacts
<1>3. dr \in Drafts
  BY <1>2 DEF SettlementInv, TypeOK
<1>4. r \in Rows /\ r.status = row[tx].status
  BY <1>2 DEF Rows
<1> HIDE DEF r
<1>5. /\ new \in Drafts /\ new.wallet = dr.wallet /\ new.entries = dr.entries
      /\ \A e \in Deliveries : new.rows[e] = IF e = tx THEN r ELSE dr.rows[e]
  BY <1>2, <1>3, <1>4 DEF Drafts
<1>6. \A e \in Deliveries : WellPlaced(new.rows, e)
  BY <1>2, <1>4, <1>5 DEF SettlementInv, RowsWellPlaced, WellPlaced
<1> HIDE DEF new
<1> QED
  BY <1>1, <1>2, <1>5, <1>6, DraftWithoutMoneyInv

\* A pending row that is given up.
LEMMA ExpireInv ==
  ASSUME SettlementInv, NEW a \in Workers, Expire(a)
  PROVE  SettlementInv'
<1> DEFINE tx == job[a].tx
           dr == draft[a]
           v == Rejected("UNRESOLVED_REFERENCE")
           app == Applied(dr, tx, NoTx, "PENDING_REFERENCE", v)
<1>1. /\ pc[a] = "decide"
      /\ draft' = [draft EXCEPT ![a] = app] /\ pc' = [pc EXCEPT ![a] = "commit"]
      /\ UNCHANGED <<sub, committed, inbox, lock, job, resp, crashes>>
  BY DEF Expire, SettlementInv, TypeOK
<1>2. /\ Holding(a) /\ a \in Actors /\ tx \in Deliveries
      /\ pc[tx] # "idle" /\ sub[tx] \in Submissions /\ sub[tx].wallet \in Wallets
      /\ Visible(dr)[tx].status # "ABSENT"
  BY <1>1, JobFacts
<1>3. TypeOK /\ dr \in Drafts /\ dr.queue \in Seq(Deliveries)
  BY <1>2 DEF SettlementInv, TypeOK, Drafts
<1>4. v \in Verdicts /\ v.direction # "DEBIT"
  BY DEF Rejected, Verdicts, StoredStatuses, FailureCodes, NoDirection
<1>5. sub[tx].amount \in Nat /\ dr.wallet.balance >= 0
  BY <1>2, SubmissionAssumption DEF SettlementInv, DraftsContinueLedger
<1> HIDE DEF v
<1>6. app \in Drafts /\ app.queue = dr.queue
  <2> HIDE DEF dr, tx
  <2>1. ExtendedBy(dr, tx, v, RowAfter(dr, tx, NoTx, v), app)
    BY <1>2, <1>3, <1>4, <1>5, AppliedDraft
  <2> QED BY <2>1 DEF ExtendedBy
<1>7. [app EXCEPT !.queue = dr.queue] = app
  <2> HIDE DEF app
  <2> QED BY <1>6 DEF Drafts
<1>8. draft' = [draft EXCEPT ![a] = [app EXCEPT !.queue = dr.queue]]
  BY <1>1, <1>7
<1> DEFINE q == dr.queue
           next == "commit"
           ref == NoTx
<1>9. next \in {"cascade", "commit"} /\ (next = "cascade" => q # <<>>)
  OBVIOUS
<1>10. ref \in Deliveries \cup {NoTx} /\ q \in Seq(Deliveries)
  BY <1>3
<1>11. /\ draft' = [draft EXCEPT ![a] = [Applied(draft[a], tx, ref, "PENDING_REFERENCE", v)
                                          EXCEPT !.queue = q]]
       /\ pc' = [pc EXCEPT ![a] = next]
  BY <1>1, <1>8
<1>12. v.direction = "DEBIT" => sub[tx].amount <= draft[a].wallet.balance
  BY <1>4
<1>13. UNCHANGED <<sub, committed, inbox, lock, job, resp, crashes>>
  BY <1>1
<1> HIDE DEF tx, q, next, ref
<1> QED
  BY <1>2, <1>4, <1>9, <1>10, <1>11, <1>12, <1>13, AppliedInv

-----------------------------------------------------------------------------
(* The steps that write nothing *)

\* A delivery that is answered without a new row.
LEMMA AnswerInv ==
  ASSUME SettlementInv, NEW d \in Deliveries, pc[d] # "idle",
         NEW answer \in Answers, Answer(d, answer)
  PROVE  SettlementInv'
<1>1. sub[d] \in Submissions /\ d \in Actors /\ TypeOK
  BY DEF SettlementInv, RowsWellPlaced, Actors
<1>2. OutputsTyped
  <2>1. inbox' \subseteq { s.message : s \in Submissions } \ {NoMessage}
    BY <1>1, RecordInboxType DEF Answer, TypeOK
  <2>2. resp' \in [Deliveries -> Answers] /\ crashes' \in Nat
    BY <1>1 DEF Answer, TypeOK
  <2> QED BY <2>1, <2>2 DEF OutputsTyped
<1>3. Ends(d, "done")
  BY <1>2 DEF Answer, Ends
<1> QED
  BY <1>1, <1>3, EndsInv

\* Answers without a balance.
LEMMA NoAnswerType ==
  \A o \in Outcomes : [NoAnswer EXCEPT !.outcome = o] \in Answers
  BY DEF NoAnswer, Answers, NoBalance

\* A delivery whose key is already bound.
LEMMA AnswerKnownInv ==
  ASSUME SettlementInv, NEW d \in Deliveries, AnswerKnown(d) \/ AnswerAfterLock(d)
  PROVE  SettlementInv'
<1>1. PICK e \in ByKey(sub[d]) : \E answer \in ViewsForExisting(sub[d], e) : Answer(d, answer)
  BY DEF AnswerKnown, AnswerAfterLock
<1>2. e \in Stored(row) /\ pc[d] # "idle"
  BY DEF ByKey, AnswerKnown, AnswerAfterLock
<1>3. PICK answer \in Answers : Answer(d, answer)
  BY <1>1, <1>2, ViewType DEF SettlementInv
<1> QED
  BY <1>2, <1>3, AnswerInv

\* A delivery that names no wallet, or the wallet of another player.
LEMMA RefusedInv ==
  ASSUME SettlementInv, NEW d \in Deliveries, WalletNotFound(d) \/ WrongPlayer(d)
  PROVE  SettlementInv'
<1>1. "wallet_not_found" \in Outcomes /\ "invalid_payload" \in Outcomes
  BY DEF Outcomes
<1>2. PICK o \in Outcomes : Answer(d, [NoAnswer EXCEPT !.outcome = o])
  BY <1>1 DEF WalletNotFound, WrongPlayer
<1>3. pc[d] # "idle"
  BY DEF WalletNotFound, WrongPlayer
<1> QED
  BY <1>2, <1>3, NoAnswerType, AnswerInv

\* A transaction that is rolled back or has nothing to do.
LEMMA RolledBackInv ==
  ASSUME SettlementInv, NEW a \in Actors,
         \/ a \in Workers /\ SkipRow(a)
         \/ a \in Deliveries /\ CommitClash(a)
         \/ CommitRefused(a)
         \/ Crash(a)
  PROVE  SettlementInv'
<1>1. TypeOK
  BY DEF SettlementInv
<1>2. CASE a \in Workers /\ SkipRow(a)
  <2>1. Ends(a, "idle")
    BY <1>1, <1>2, ActorAssumption DEF SkipRow, Ends, OutputsTyped, TypeOK
  <2> QED BY <2>1, EndsInv
<1>3. CASE a \in Deliveries /\ CommitClash(a)
  <2>1. Ends(a, "resolve")
    BY <1>1, <1>3 DEF CommitClash, Ends, OutputsTyped, TypeOK
  <2> QED BY <2>1, EndsInv
<1> DEFINE next == IF a \in Deliveries THEN "done" ELSE "idle"
<1>4. next \in IF a \in Deliveries THEN {"done", "resolve"} ELSE {"idle"}
  OBVIOUS
<1>5. \A o \in Outcomes : \A r \in Answers : [r EXCEPT !.outcome = o] \in Answers
  BY DEF Answers
<1>6. CASE CommitRefused(a)
  <2>1. resp' \in [Deliveries -> Answers]
    <3>1. CASE a \in Deliveries
      <4>1. resp' = [resp EXCEPT ![a] = [resp[a] EXCEPT !.outcome = "failed"]]
        BY <1>1, <1>6, <3>1 DEF CommitRefused, TypeOK
      <4>2. resp[a] \in Answers /\ "failed" \in Outcomes
        BY <1>1, <3>1 DEF TypeOK, Outcomes
      <4>3. [resp[a] EXCEPT !.outcome = "failed"] \in Answers
        BY <1>5, <4>2
      <4> QED BY <1>1, <4>1, <4>3 DEF TypeOK
    <3>2. CASE a \notin Deliveries
      BY <1>1, <1>6, <3>2 DEF CommitRefused, TypeOK
    <3> QED BY <3>1, <3>2
  <2>2. OutputsTyped
    BY <1>1, <1>6, <2>1 DEF CommitRefused, OutputsTyped, TypeOK
  <2>3. Ends(a, next)
    BY <1>4, <1>6, <2>2 DEF CommitRefused, Ends
  <2> QED BY <2>3, EndsInv
<1>7. CASE Crash(a)
  <2>1. "lost" \in Outcomes
    BY DEF Outcomes
  <2>2. resp' \in [Deliveries -> Answers]
    BY <1>1, <1>7, <2>1, NoAnswerType DEF Crash, TypeOK
  <2>3. crashes' \in Nat /\ inbox' = inbox
    BY <1>1, <1>7 DEF Crash, TypeOK
  <2>4. OutputsTyped
    BY <1>1, <2>2, <2>3 DEF OutputsTyped, TypeOK
  <2>5. Ends(a, next)
    BY <1>4, <1>7, <2>4 DEF Crash, Ends
  <2> QED BY <2>5, EndsInv
<1> QED
  BY <1>2, <1>3, <1>6, <1>7

\* A step between transactions.
LEMMA BetweenInv ==
  ASSUME SettlementInv, NEW a \in Actors,
         \/ a \in Deliveries /\ (RequestLock(a) \/ ResolveExisting(a) \/ MarkInboxProcessed(a))
         \/ a \in Workers /\ PickDue(a)
  PROVE  SettlementInv'
<1>1. TypeOK
  BY DEF SettlementInv
<1>2. CASE a \in Deliveries /\ RequestLock(a)
  <2>1. Moves(a, "lock")
    BY <1>1, <1>2 DEF RequestLock, Moves, Holding, OutputsTyped, TypeOK
  <2> QED BY <2>1, MovesInv
<1>3. CASE a \in Deliveries /\ ResolveExisting(a)
  <2>0. PICK e \in Clashing(sub[a]) : \E answer \in ViewsForExisting(sub[a], e) :
          /\ resp' = [resp EXCEPT ![a] = answer]
          /\ pc' = [pc EXCEPT ![a] = IF answer.outcome = "replay" THEN "mark" ELSE "done"]
    BY <1>3 DEF ResolveExisting
  <2>1. PICK answer \in ViewsForExisting(sub[a], e) :
          /\ resp' = [resp EXCEPT ![a] = answer]
          /\ pc' = [pc EXCEPT ![a] = IF answer.outcome = "replay" THEN "mark" ELSE "done"]
    BY <2>0
  <2>2. answer \in Answers
    BY ViewType DEF Clashing, SettlementInv
  <2> DEFINE next == IF answer.outcome = "replay" THEN "mark" ELSE "done"
  <2>3. pc[a] = "resolve" /\ UNCHANGED <<sub, committed, inbox, lock, job, draft, crashes>>
    BY <1>3 DEF ResolveExisting
  <2>4. OutputsTyped
    BY <1>1, <2>1, <2>2, <2>3 DEF OutputsTyped, TypeOK
  <2>5. pc' = [pc EXCEPT ![a] = next] /\ next \in {"lock", "mark", "done"}
    BY <2>1
  <2>6. Moves(a, next)
    <3> HIDE DEF next
    <3> QED BY <1>3, <2>3, <2>4, <2>5 DEF Moves, Holding
  <2> QED BY <2>6, MovesInv
<1>4. CASE a \in Deliveries /\ MarkInboxProcessed(a)
  <2>1. sub[a] \in Submissions
    BY <1>4 DEF MarkInboxProcessed, SettlementInv, RowsWellPlaced
  <2>2. OutputsTyped
    BY <1>1, <1>4, <2>1, RecordInboxType DEF MarkInboxProcessed, OutputsTyped, TypeOK
  <2>3. Moves(a, "done")
    BY <1>4, <2>2 DEF MarkInboxProcessed, Moves, Holding
  <2> QED BY <2>3, MovesInv
<1>5. CASE a \in Workers /\ PickDue(a)
  <2>1. PICK e \in Deliveries : /\ row[e].status = "PENDING_REFERENCE"
                               /\ job' = [job EXCEPT ![a] = [tx |-> e, attempts |-> row[e].attempts]]
    BY <1>5 DEF PickDue
  <2> DEFINE j == [tx |-> e, attempts |-> row[e].attempts]
  <2>2. j \in Jobs /\ j.tx \in Stored(row)
    BY <1>1, <2>1 DEF Jobs, Stored, TypeOK, Rows
  <2>3. \E i \in Jobs : i.tx \in Stored(row) /\ job' = [job EXCEPT ![a] = i]
    BY <2>1, <2>2
  <2>4. Moves(a, "lock")
    BY <1>1, <1>5, <2>3, ActorAssumption DEF PickDue, Moves, Holding, OutputsTyped, TypeOK
  <2> QED BY <2>4, MovesInv
<1> QED
  BY <1>2, <1>3, <1>4, <1>5

-----------------------------------------------------------------------------
(* The theorems *)

\* The invariant holds of a freshly opened system.
LEMMA InitInv == Init => SettlementInv
<1> SUFFICES ASSUME Init PROVE SettlementInv
  OBVIOUS
<1> USE DEF Init
<1>1. \A w \in Wallets : /\ OpeningEntries(w) \in Seq(Entries)
                          /\ Chained(OpeningEntries(w), 0)
                          /\ EndBalance(OpeningEntries(w), 0) = InitialBalance[w]
                          /\ Len(OpeningEntries(w)) \in Nat
  <2> SUFFICES ASSUME NEW w \in Wallets
               PROVE  /\ OpeningEntries(w) \in Seq(Entries)
                      /\ Chained(OpeningEntries(w), 0)
                      /\ EndBalance(OpeningEntries(w), 0) = InitialBalance[w]
                      /\ Len(OpeningEntries(w)) \in Nat
    OBVIOUS
  <2>1. InitialBalance[w] \in Nat
    BY WalletAssumption
  <2>2. CASE InitialBalance[w] = 0
    BY <2>2 DEF OpeningEntries, Chained, EndBalance
  <2>3. CASE InitialBalance[w] # 0
    <3> DEFINE e == [ tx |-> OpeningTx, direction |-> "CREDIT", amount |-> InitialBalance[w],
                      before |-> 0, after |-> InitialBalance[w] ]
    <3>1. e \in Entries
      BY <2>1 DEF Entries, Directions
    <3>2. e.before = 0 /\ e.after = InitialBalance[w] /\ e.amount = InitialBalance[w]
          /\ e.direction = "CREDIT"
      OBVIOUS
    <3>3. OpeningEntries(w) = << e >>
      BY <2>3 DEF OpeningEntries
    <3> HIDE DEF e
    <3>4. Chained(<< e >>, 0) /\ EndBalance(<< e >>, 0) = InitialBalance[w]
      BY <2>1, <3>2 DEF Chained, EndBalance, Signed
    <3>5. << e >> \in Seq(Entries) /\ Len(<< e >>) = 1
      BY <3>1
    <3> QED BY <3>3, <3>4, <3>5
  <2> QED BY <2>2, <2>3
<1>2. TypeOK
  <2>1. NoRow \in Rows /\ NoAnswer \in Answers
    BY DEF NoRow, Rows, NoAnswer, Answers, Outcomes, NoBalance
  <2> QED BY <1>1, <2>1, EmptyDraftFacts, NoJobType, WalletAssumption DEF TypeOK, WalletRows, PCs
<1>3. RowsWellPlaced
  BY EmptyDraftFacts DEF RowsWellPlaced, WellPlaced, NoRow, Actors
<1>4. LocksHeld
  BY DEF LocksHeld, Holding, Actors
<1>5. LedgerExplainsBalance
  BY <1>1 DEF LedgerExplainsBalance
<1>6. DraftsContinueLedger
  BY EmptyDraftFacts DEF DraftsContinueLedger, Holding
<1> QED
  BY <1>2, <1>3, <1>4, <1>5, <1>6 DEF SettlementInv

\* Every step of the specification keeps the invariant.
LEMMA NextInv ==
  SettlementInv /\ [Next]_vars => SettlementInv'
<1> SUFFICES ASSUME SettlementInv, [Next]_vars
             PROVE  SettlementInv'
  OBVIOUS
<1>1. ASSUME NEW d \in Deliveries, NEW s \in Submissions, Submit(d, s)
      PROVE  SettlementInv'
  BY <1>1, SubmitInv
<1>2. ASSUME NEW d \in Deliveries, DeliveryStep(d)
      PROVE  SettlementInv'
  <2>1. d \in Actors
    BY DEF Actors
  <2> QED BY <1>2, <2>1, AnswerKnownInv, RefusedInv, ProcessInv, RolledBackInv, BetweenInv
          DEF DeliveryStep
<1>3. ASSUME NEW a \in Workers, WorkerStep(a)
      PROVE  SettlementInv'
  <2>1. a \in Actors
    BY DEF Actors
  <2> QED BY <1>3, <2>1, BetweenInv, RolledBackInv, ReprocessInv, RescheduleInv, ExpireInv
          DEF WorkerStep
<1>4. ASSUME NEW a \in Actors, TransactionStep(a)
      PROVE  SettlementInv'
  BY <1>4, AcquireInv, SettleDependentInv, NextReferenceInv, CommitInv, RolledBackInv
     DEF TransactionStep
<1>5. ASSUME NEW a \in Actors, Crash(a)
      PROVE  SettlementInv'
  BY <1>5, RolledBackInv
<1>6. CASE UNCHANGED vars
  <2>1. UNCHANGED <<sub, wallet, row, ledger, outbox, inbox, lock, pc, job, draft, resp, crashes>>
    BY <1>6 DEF vars
  <2>2. TypeOK'
    BY <2>1 DEF SettlementInv, TypeOK
  <2>3. RowsWellPlaced'
    BY <2>1 DEF SettlementInv, RowsWellPlaced, WellPlaced
  <2>4. LocksHeld'
    BY <2>1 DEF SettlementInv, LocksHeld, Holding, WalletOf, TxOf, Stored
  <2>5. LedgerExplainsBalance'
    BY <2>1 DEF SettlementInv, LedgerExplainsBalance, Chained, EndBalance, OpeningEntries
  <2>6. DraftsContinueLedger'
    BY <2>1 DEF SettlementInv, DraftsContinueLedger, Chained, EndBalance, Holding, WalletOf, TxOf
  <2> QED BY <2>2, <2>3, <2>4, <2>5, <2>6 DEF SettlementInv
<1>7. CASE Quiescent
  BY <1>6, <1>7 DEF Quiescent
<1> QED
  BY <1>1, <1>2, <1>3, <1>4, <1>5, <1>6, <1>7 DEF Next

\* The inductive invariant holds throughout every behaviour.
THEOREM SettlementInvariant == Spec => []SettlementInv
  BY InitInv, NextInv, PTL DEF Spec

\* Every variable keeps the shape of its table or transaction.
THEOREM TypeCorrect == Spec => []TypeOK
<1>1. SettlementInv => TypeOK
  BY DEF SettlementInv
<1> QED
  BY <1>1, SettlementInvariant, PTL

\* However submissions, retries, crashes and database errors interleave, the
\* balance of every wallet is the end of an unbroken chain of ledger entries that
\* starts at zero and never goes below it.
THEOREM LedgerCorrect == Spec => []LedgerExplainsBalance
<1>1. SettlementInv => LedgerExplainsBalance
  BY DEF SettlementInv
<1> QED
  BY <1>1, SettlementInvariant, PTL
=============================================================================
