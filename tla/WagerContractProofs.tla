------------------------ MODULE WagerContractProofs ------------------------
(***************************************************************************)
(* WagerSettlement implements WagerContract, for every value of the        *)
(* constants.  Only COMMIT changes what a contract knows of fates and      *)
(* statements; the other steps tell somebody something or nothing at all.  *)
(***************************************************************************)
EXTENDS WagerAnswersProofs, SettlementRefinesContract

-----------------------------------------------------------------------------
(* The invariant *)

\* The ledger of a wallet begins with its opening entry, where it has one.
Opened ==
  \A w \in Wallets : \A i \in 1..Len(OpeningEntries(w)) :
    i \in DOMAIN ledger[w] /\ ledger[w][i] = OpeningEntries(w)[i]

\* Who was told that a row waits stored it as waiting; who settled one stored it.
AnsweredOnce ==
  \A d \in Deliveries :
    /\ row[d].status = "PENDING_REFERENCE" => resp[d].status = "PENDING_REFERENCE"
    /\ resp[d].outcome = "settled" => d \in Stored(row)

\* Delivery d replays a row of its payload: as it is, or as it was first answered.
Replays(d) ==
  \E e \in Stored(row) : /\ SamePayload(sub[d], sub[e])
                         /\ resp[d].status \in {row[e].status, resp[e].status}

RepliesAreOfRows ==
  \A d \in Deliveries : resp[d].outcome = "replay" => pc[d] # "idle" /\ Replays(d)

ContractInv ==
  /\ AnswersInv
  /\ Opened
  /\ AnsweredOnce
  /\ RepliesAreOfRows

-----------------------------------------------------------------------------
(* The steps other than COMMIT *)

\* What a step of a does that stores nothing: others stay as they are, and a, if it
\* is a delivery, ends with an answer, with a replay of a stored row, or goes on.
Aside(a) ==
  /\ UNCHANGED <<row, ledger>>
  /\ \A b \in Deliveries \ {a} : pc'[b] = pc[b] /\ resp'[b] = resp[b] /\ sub'[b] = sub[b]
  /\ a \in Deliveries =>
       /\ pc[a] # "done" /\ pc'[a] # "idle"
       /\ \/ resp'[a].outcome \notin {"settled", "replay"}
          \/ pc[a] # "idle" /\ sub'[a] = sub[a] /\ resp'[a] = resp[a]
          \/ /\ pc[a] # "idle" /\ sub'[a] = sub[a] /\ resp'[a].outcome = "replay"
             /\ \E e \in Stored(row) : /\ SamePayload(sub[a], sub[e])
                                       /\ resp'[a].status = row[e].status

\* A view is a replay of its row, or no replay at all.
LEMMA ViewReplays ==
  ASSUME NEW s, NEW e \in Stored(row), NEW answer \in ViewsForExisting(s, e)
  PROVE  \/ answer.outcome \notin {"settled", "replay"}
         \/ /\ answer.outcome = "replay" /\ answer.status = row[e].status
            /\ SamePayload(s, sub[e])
<1>1. CASE SamePayload(s, sub[e])
  BY <1>1 DEF ViewsForExisting, ReplaysOf, Replay
<1>2. CASE ~SamePayload(s, sub[e])
  BY <1>2 DEF ViewsForExisting, NoAnswer
<1> QED
  BY <1>1, <1>2

\* A delivery that is answered without a new row.
LEMMA AnsweredAside ==
  ASSUME ContractInv, NEW d \in Deliveries,
         AnswerKnown(d) \/ AnswerAfterLock(d) \/ WalletNotFound(d) \/ WrongPlayer(d)
  PROVE  Aside(d)
<1>1. TypeOK /\ d \in Actors /\ pc[d] \notin {"idle", "done"}
  BY DEF ContractInv, AnswersInv, BooksInv, SettlementInv, Actors, AnswerKnown, AnswerAfterLock,
         WalletNotFound, WrongPlayer
<1>2. PICK answer :
        /\ Answer(d, answer)
        /\ \/ answer.outcome \notin {"settled", "replay"}
           \/ /\ answer.outcome = "replay"
              /\ \E e \in Stored(row) : SamePayload(sub[d], sub[e]) /\ answer.status = row[e].status
  <2>1. CASE AnswerKnown(d) \/ AnswerAfterLock(d)
    <3>1. PICK e \in ByKey(sub[d]) : \E answer \in ViewsForExisting(sub[d], e) : Answer(d, answer)
      BY <2>1 DEF AnswerKnown, AnswerAfterLock
    <3>2. PICK answer \in ViewsForExisting(sub[d], e) : Answer(d, answer)
      BY <3>1
    <3>3. e \in Stored(row)
      BY DEF ByKey
    <3> QED BY <3>2, <3>3, ViewReplays
  <2>2. CASE WalletNotFound(d) \/ WrongPlayer(d)
    <3>1. \E o \in {"wallet_not_found", "invalid_payload"} :
            Answer(d, [NoAnswer EXCEPT !.outcome = o])
      BY <2>2 DEF WalletNotFound, WrongPlayer
    <3>2. \A o : [NoAnswer EXCEPT !.outcome = o].outcome = o
      BY DEF NoAnswer
    <3> QED BY <3>1, <3>2
  <2> QED BY <2>1, <2>2
<1>3. /\ pc'[d] = "done" /\ resp'[d] = answer
      /\ UNCHANGED <<sub, row, ledger>>
      /\ \A b \in Deliveries \ {d} : pc'[b] = pc[b] /\ resp'[b] = resp[b]
  BY <1>1, <1>2 DEF Answer, Close, committed, TypeOK, Actors
<1> QED
  BY <1>1, <1>2, <1>3 DEF Aside

\* A transaction that is rolled back or has nothing to do.
LEMMA RolledBackAside ==
  ASSUME ContractInv, NEW a \in Actors,
         \/ a \in Workers /\ SkipRow(a)
         \/ a \in Deliveries /\ CommitClash(a)
         \/ CommitRefused(a)
         \/ Crash(a)
  PROVE  Aside(a)
<1>1. TypeOK
  BY DEF ContractInv, AnswersInv, BooksInv, SettlementInv
<1>2. /\ UNCHANGED <<sub, row, ledger>>
      /\ \A b \in Deliveries \ {a} : pc'[b] = pc[b] /\ resp'[b] = resp[b]
      /\ a \in Deliveries => pc[a] \notin {"idle", "done"}
  BY <1>1 DEF SkipRow, CommitClash, CommitRefused, Crash, Close, committed, TypeOK, Actors
<1>3. ASSUME a \in Deliveries
      PROVE  /\ pc'[a] # "idle"
             /\ resp'[a].outcome \in {"failed", "lost"} \/ resp'[a] = resp[a]
  <2>1. CASE CommitClash(a)
    BY <1>1, <1>3, <2>1 DEF CommitClash, Close, TypeOK
  <2>2. CASE CommitRefused(a) \/ Crash(a)
    BY <1>1, <1>3, <2>2 DEF CommitRefused, Crash, Close, TypeOK, NoAnswer, Answers
  <2> QED BY <1>3, <2>1, <2>2, ActorAssumption
<1> QED
  BY <1>2, <1>3 DEF Aside

\* A delivery that lost the race for its key.
LEMMA ResolvedAside ==
  ASSUME ContractInv, NEW d \in Deliveries, ResolveExisting(d) \/ MarkInboxProcessed(d)
  PROVE  Aside(d)
<1>1. /\ TypeOK /\ d \in Actors /\ pc[d] \in {"resolve", "mark"}
      /\ UNCHANGED <<sub, row, ledger>>
  BY DEF ContractInv, AnswersInv, BooksInv, SettlementInv, Actors, ResolveExisting,
         MarkInboxProcessed, committed
<1>2. \A b \in Deliveries \ {d} : pc'[b] = pc[b] /\ resp'[b] = resp[b]
  BY <1>1 DEF ResolveExisting, MarkInboxProcessed, TypeOK, Actors
<1>3. CASE ResolveExisting(d)
  <2>0. PICK e \in Clashing(sub[d]) : \E answer \in ViewsForExisting(sub[d], e) :
          /\ resp' = [resp EXCEPT ![d] = answer]
          /\ pc' = [pc EXCEPT ![d] = IF answer.outcome = "replay" THEN "mark" ELSE "done"]
    BY <1>3 DEF ResolveExisting
  <2>1. PICK answer \in ViewsForExisting(sub[d], e) :
          /\ resp' = [resp EXCEPT ![d] = answer]
          /\ pc' = [pc EXCEPT ![d] = IF answer.outcome = "replay" THEN "mark" ELSE "done"]
    BY <2>0
  <2>2. e \in Stored(row)
    BY DEF Clashing
  <2>3. \/ answer.outcome \notin {"settled", "replay"}
        \/ /\ answer.outcome = "replay" /\ answer.status = row[e].status
           /\ SamePayload(sub[d], sub[e])
    BY <2>2, ViewReplays
  <2>4. resp'[d] = answer /\ pc'[d] \in {"mark", "done"}
    BY <1>1, <2>1 DEF TypeOK
  <2> QED BY <1>1, <1>2, <2>2, <2>3, <2>4 DEF Aside
<1>4. CASE MarkInboxProcessed(d)
  <2>1. pc'[d] = "done" /\ resp' = resp
    BY <1>1, <1>4 DEF MarkInboxProcessed, TypeOK
  <2> QED BY <1>1, <1>2, <2>1 DEF Aside
<1> QED
  BY <1>3, <1>4

\* The steps of a transaction before its COMMIT, and the pick of a due row.
LEMMA UnderWayAside ==
  ASSUME ContractInv, NEW a \in Actors,
         \/ a \in Deliveries /\ (RequestLock(a) \/ Process(a))
         \/ a \in Workers /\ (PickDue(a) \/ Reprocess(a) \/ Reschedule(a) \/ Expire(a))
         \/ AcquireLock(a) \/ SettleDependent(a) \/ NextReference(a)
  PROVE  Aside(a)
<1>1. /\ TypeOK /\ UNCHANGED <<sub, row, ledger, resp>>
      /\ a \in Deliveries => pc[a] \notin {"idle", "done"}
  BY ActorAssumption
     DEF RequestLock, Process, PickDue, Reprocess, Reschedule, Expire, AcquireLock, SettleDependent,
         NextReference, Apply, committed, ContractInv, AnswersInv, BooksInv, SettlementInv
<1>2. \/ pc' = pc
      \/ \E next \in {"lock", "decide", "cascade", "commit"} : pc' = [pc EXCEPT ![a] = next]
  BY DEF RequestLock, Process, PickDue, Reprocess, Reschedule, Expire, AcquireLock,
         SettleDependent, NextReference, Apply
<1>3. /\ \A b \in Deliveries \ {a} : pc'[b] = pc[b]
      /\ a \in Deliveries => pc'[a] # "idle"
  BY <1>1, <1>2 DEF TypeOK, Actors
<1> QED
  BY <1>1, <1>3 DEF Aside

\* A new submission has no answer yet.
LEMMA SubmitAside ==
  ASSUME ContractInv, NEW d \in Deliveries, NEW s \in Submissions, Submit(d, s)
  PROVE  Aside(d)
<1>1. /\ TypeOK /\ d \in Actors /\ pc[d] = "idle" /\ d \notin Stored(row)
      /\ UNCHANGED <<row, ledger, resp>>
      /\ sub' = [sub EXCEPT ![d] = s] /\ pc' = [pc EXCEPT ![d] = "lookup"]
  BY DEF ContractInv, AnswersInv, BooksInv, StoredOnce, Stored, SettlementInv, Actors, Submit,
         committed
<1>2. resp[d].outcome \notin {"settled", "replay"}
  BY <1>1 DEF ContractInv, AnsweredOnce, RepliesAreOfRows
<1>3. /\ pc'[d] = "lookup"
      /\ \A b \in Deliveries \ {d} : pc'[b] = pc[b] /\ sub'[b] = sub[b]
  BY <1>1 DEF TypeOK, Actors
<1> QED
  BY <1>1, <1>2, <1>3 DEF Aside

\* Every step is a COMMIT, stores nothing, or changes nothing.
LEMMA StepsAside ==
  ASSUME ContractInv, [Next]_vars
  PROVE  (\E a \in Actors : Commit(a) \/ Aside(a)) \/ UNCHANGED vars
<1>1. ASSUME NEW d \in Deliveries, NEW s \in Submissions, Submit(d, s)
      PROVE  \E a \in Actors : Aside(a)
  BY <1>1, SubmitAside DEF Actors
<1>2. ASSUME NEW d \in Deliveries, DeliveryStep(d)
      PROVE  \E a \in Actors : Aside(a)
  <2>1. d \in Actors
    BY DEF Actors
  <2> QED BY <1>2, <2>1, AnsweredAside, UnderWayAside, RolledBackAside, ResolvedAside
          DEF DeliveryStep
<1>3. ASSUME NEW a \in Workers, WorkerStep(a)
      PROVE  \E b \in Actors : Aside(b)
  <2>1. a \in Actors
    BY DEF Actors
  <2> QED BY <1>3, <2>1, UnderWayAside, RolledBackAside DEF WorkerStep
<1>4. ASSUME NEW a \in Actors, TransactionStep(a)
      PROVE  Commit(a) \/ Aside(a)
  BY <1>4, UnderWayAside, RolledBackAside DEF TransactionStep
<1>5. ASSUME NEW a \in Actors, Crash(a)
      PROVE  Aside(a)
  BY <1>5, RolledBackAside
<1>6. Quiescent => UNCHANGED vars
  BY DEF Quiescent
<1> QED
  BY <1>1, <1>2, <1>3, <1>4, <1>5, <1>6 DEF Next

-----------------------------------------------------------------------------
(* The invariant holds *)

\* A row that was stored is done with, so that its step is another's.
LEMMA AsideContract ==
  ASSUME ContractInv, AnswersInv', NEW a \in Actors, Aside(a)
  PROVE  ContractInv'
<1>1. /\ \A e \in Stored(row) : e \in Deliveries /\ pc[e] = "done"
      /\ row' = row /\ ledger' = ledger /\ Stored(row)' = Stored(row)
  BY DEF ContractInv, AnswersInv, BooksInv, StoredOnce, Stored, Aside
<1>2. \A e \in Stored(row) : sub'[e] = sub[e] /\ resp'[e] = resp[e]
  BY <1>1 DEF Aside
<1>3. Opened'
  BY <1>1 DEF ContractInv, Opened, OpeningEntries
<1>4. AnsweredOnce'
  <2>1. ASSUME NEW d \in Deliveries, row[d].status = "PENDING_REFERENCE"
        PROVE  resp'[d].status = "PENDING_REFERENCE"
    <3>1. d \in Stored(row)
      BY <2>1 DEF Stored
    <3> QED BY <1>2, <2>1, <3>1 DEF ContractInv, AnsweredOnce
  <2>2. ASSUME NEW d \in Deliveries, resp'[d].outcome = "settled"
        PROVE  d \in Stored(row)
    <3>1. resp'[d] = resp[d]
      BY <2>2 DEF Aside
    <3> QED BY <2>2, <3>1 DEF ContractInv, AnsweredOnce
  <2> QED BY <1>1, <2>1, <2>2 DEF AnsweredOnce
<1>5. RepliesAreOfRows'
  <2> SUFFICES ASSUME NEW d \in Deliveries, resp'[d].outcome = "replay"
               PROVE  /\ pc'[d] # "idle"
                      /\ \E e \in Stored(row) :
                           /\ SamePayload(sub'[d], sub'[e])
                           /\ resp'[d].status \in {row[e].status, resp'[e].status}
    BY <1>1 DEF RepliesAreOfRows, Replays
  <2>1. CASE resp'[d] = resp[d] /\ sub'[d] = sub[d] /\ pc'[d] # "idle"
    BY <1>2, <2>1 DEF ContractInv, RepliesAreOfRows, Replays
  <2>2. CASE d # a
    <3>1. resp'[d] = resp[d] /\ sub'[d] = sub[d] /\ pc'[d] = pc[d]
      BY <2>2 DEF Aside
    <3> QED BY <2>1, <3>1 DEF ContractInv, RepliesAreOfRows
  <2>3. CASE d = a /\ resp'[d] # resp[d]
    <3>1. PICK e \in Stored(row) : SamePayload(sub[d], sub[e]) /\ resp'[d].status = row[e].status
      BY <2>3 DEF Aside
    <3>2. sub'[d] = sub[d] /\ pc'[d] # "idle"
      BY <2>3 DEF Aside
    <3> QED BY <1>2, <3>1, <3>2
  <2>4. CASE d = a /\ resp'[d] = resp[d]
    <3>1. sub'[d] = sub[d] /\ pc'[d] # "idle"
      <4>1. pc[d] # "idle" /\ sub'[d] = sub[d]
        BY <2>4 DEF Aside
      <4> QED BY <2>4, <4>1 DEF Aside
    <3> QED BY <2>1, <2>4, <3>1
  <2> QED BY <2>2, <2>3, <2>4
<1> QED
  BY <1>3, <1>4, <1>5 DEF ContractInv

\* COMMIT stores the row it answers for, and settles only rows that were told to wait.
LEMMA CommitContract ==
  ASSUME ContractInv, AnswersInv', NEW a \in Actors, Commit(a)
  PROVE  ContractInv'
<1> DEFINE dr == draft[a]
           w == WalletOf(a)
<1>1. /\ BooksInv /\ SettlementInv /\ TypeOK /\ DraftInOrder(a) /\ pc[a] = "commit"
      /\ Opened /\ AnsweredOnce /\ RepliesAreOfRows /\ UNCHANGED sub
  BY BooksInvParts DEF ContractInv, AnswersInv, SettlementInv, Commit
<1>2. /\ w \in Wallets /\ dr \in Drafts /\ ledger'[w] = LedgerAfter(a)
      /\ \A x \in Wallets \ {w} : ledger'[x] = ledger[x]
      /\ \A e \in Stored(dr.rows) :
           /\ row'[e] = dr.rows[e]
           /\ row[e].status = "PENDING_REFERENCE" \/ (e = a /\ row[e].status = "ABSENT")
      /\ \A e \in Deliveries \ Stored(dr.rows) : row'[e] = row[e]
      /\ pc'[a] = IF a \in Deliveries THEN "done" ELSE "idle"
      /\ \A b \in Actors \ {a} : pc'[b] = pc[b]
  BY <1>1, CommitFacts
<1>3. /\ Stored(row) \subseteq Stored(row') /\ Stored(row)' = Stored(row')
      /\ a \in Deliveries => a \in Stored(dr.rows) /\ a \in Stored(row') /\ a \notin Stored(row)
  <2>1. a \in Deliveries => a \in Stored(dr.rows) /\ a \notin Stored(row)
    BY <1>1 DEF DraftInOrder, Writing, TxOf, BooksInv, StoredOnce, Stored
  <2> QED BY <1>2, <2>1 DEF Stored
<1>4. /\ \A b \in Deliveries \ {a} : resp'[b] = resp[b]
      /\ a \in Deliveries => resp'[a].outcome = "settled" /\ resp'[a].status = dr.rows[a].status
  BY <1>1 DEF Commit, TypeOK
<1>5. Opened'
  <2> SUFFICES ASSUME NEW x \in Wallets, NEW i \in 1..Len(OpeningEntries(x))
               PROVE  i \in DOMAIN ledger'[x] /\ ledger'[x][i] = OpeningEntries(x)[i]
    BY DEF Opened, OpeningEntries
  <2>1. i \in DOMAIN ledger[x] /\ ledger[x][i] = OpeningEntries(x)[i]
    BY <1>1 DEF Opened
  <2>2. CASE x = w
    <3> DEFINE es == ledger[w]
               all == ledger'[w]
    <3>1. es \in Seq(Entries) /\ dr.entries \in Seq(Entries)
      BY <1>1, <1>2 DEF TypeOK, Drafts
    <3>2. all = es \o dr.entries
      BY <1>2 DEF LedgerAfter
    <3> HIDE DEF es, all, dr
    <3>3. \A k \in DOMAIN es : k \in DOMAIN all /\ all[k] = es[k]
      BY <3>1, <3>2
    <3> QED BY <2>1, <2>2, <3>3 DEF es, all
  <2> QED BY <1>2, <2>1, <2>2
<1> HIDE DEF dr, w
<1>6. AnsweredOnce'
  <2>1. ASSUME NEW d \in Deliveries, row'[d].status = "PENDING_REFERENCE"
        PROVE  resp'[d].status = "PENDING_REFERENCE"
    <3>1. CASE d = a
      BY <1>2, <1>3, <1>4, <2>1, <3>1
    <3>2. CASE d # a
      <4>1. row[d].status = "PENDING_REFERENCE"
        BY <1>2, <2>1, <3>2
      <4> QED BY <1>1, <1>4, <3>2, <4>1 DEF AnsweredOnce
    <3> QED BY <3>1, <3>2
  <2>2. ASSUME NEW d \in Deliveries, resp'[d].outcome = "settled"
        PROVE  d \in Stored(row')
    BY <1>1, <1>3, <1>4, <2>2 DEF AnsweredOnce
  <2> QED BY <1>3, <2>1, <2>2 DEF AnsweredOnce
<1>7. RepliesAreOfRows'
  <2> SUFFICES ASSUME NEW d \in Deliveries, resp'[d].outcome = "replay"
               PROVE  /\ pc'[d] # "idle"
                      /\ \E e \in Stored(row') :
                           /\ SamePayload(sub[d], sub[e])
                           /\ resp'[d].status \in {row'[e].status, resp'[e].status}
    BY <1>1, <1>3 DEF RepliesAreOfRows, Replays
  <2>1. d # a /\ resp'[d] = resp[d] /\ pc'[d] = pc[d]
    BY <1>2, <1>4 DEF Actors
  <2>2. PICK e \in Stored(row) : /\ SamePayload(sub[d], sub[e])
                                 /\ resp[d].status \in {row[e].status, resp[e].status}
    BY <1>1, <2>1 DEF RepliesAreOfRows, Replays
  <2>3. e # a /\ resp'[e] = resp[e] /\ e \in Stored(row')
    BY <1>3, <1>4 DEF Stored
  <2>4. row'[e] = row[e] \/ row[e].status = "PENDING_REFERENCE"
    BY <1>2, <2>3 DEF Stored
  <2>5. row[e].status = "PENDING_REFERENCE" => resp[e].status = "PENDING_REFERENCE"
    BY <1>1 DEF AnsweredOnce, Stored
  <2>6. pc'[d] # "idle"
    BY <1>1, <2>1 DEF RepliesAreOfRows
  <2> QED BY <2>1, <2>2, <2>3, <2>4, <2>5, <2>6
<1> QED
  BY <1>5, <1>6, <1>7 DEF ContractInv

\* At first every ledger is its opening entry and nobody was told anything.
LEMMA InitContract == Init => ContractInv
<1> SUFFICES ASSUME Init PROVE ContractInv
  OBVIOUS
<1>1. AnswersInv
  BY InitAnswers
<1>2. \A d \in Deliveries : row[d].status = "ABSENT" /\ resp[d].outcome = "NONE"
  BY DEF Init, NoAnswer, NoRow
<1>3. Opened
  <2> SUFFICES ASSUME NEW w \in Wallets, NEW i \in 1..Len(OpeningEntries(w))
               PROVE  i \in DOMAIN OpeningEntries(w)
    BY DEF Opened, Init
  <2>1. CASE InitialBalance[w] = 0
    BY <2>1 DEF OpeningEntries
  <2>2. CASE InitialBalance[w] # 0
    BY <2>2 DEF OpeningEntries
  <2> QED BY <2>1, <2>2
<1> QED
  BY <1>1, <1>2, <1>3 DEF ContractInv, AnsweredOnce, RepliesAreOfRows

LEMMA NextContract ==
  ContractInv /\ [Next]_vars => ContractInv'
<1> SUFFICES ASSUME ContractInv, [Next]_vars
             PROVE  ContractInv'
  OBVIOUS
<1>1. AnswersInv'
  BY NextAnswers DEF ContractInv
<1>2. CASE \E a \in Actors : Commit(a) \/ Aside(a)
  BY <1>1, <1>2, CommitContract, AsideContract
<1>3. CASE UNCHANGED vars
  <2>1. UNCHANGED <<sub, row, ledger, pc, resp>>
    BY <1>3 DEF vars
  <2> QED BY <1>1, <2>1 DEF ContractInv, Opened, OpeningEntries, AnsweredOnce, RepliesAreOfRows,
                            Replays, Stored
<1> QED
  BY <1>2, <1>3, StepsAside

\* The inductive invariant holds throughout every behaviour.
THEOREM ContractInvariant == Spec => []ContractInv
  BY InitContract, NextContract, PTL DEF Spec

-----------------------------------------------------------------------------
(* What the contract sees in a state *)

\* The transaction behind line i of the statement of wallet w.
Behind(w, i) == ledger[w][i + Len(OpeningEntries(w))].tx

\* Line i of a statement is the movement of a processed row of the wallet, by its
\* terms, on top of the line before it.
LineExplained(w, i) ==
  LET line == StatementOf(w)[i]
      d == Behind(w, i)
  IN  /\ d \in Stored(row) /\ sub[d].wallet = w /\ Moved(sub, row, d)
      /\ line.name = NameOf(d)
      /\ line.change \in Contract!Changes(TermsOf(sub[d]))
      /\ line.balance >= 0
      /\ line.balance = line.change + IF i = 1 THEN InitialBalance[w]
                                      ELSE StatementOf(w)[i - 1].balance

StatementExplained(w) ==
  LET n == Len(ledger[w]) - Len(OpeningEntries(w))
  IN  /\ n \in Nat /\ StatementOf(w) = [i \in 1..n |-> Line(ledger[w][i + Len(OpeningEntries(w))])]
      /\ \A i \in 1..n : LineExplained(w, i)
      /\ \A d \in Stored(row) : sub[d].wallet = w /\ Moved(sub, row, d)
                                  => \E i \in 1..n : Behind(w, i) = d
      /\ \A i, j \in 1..n : Behind(w, i) = Behind(w, j) => i = j

StatementsExplained == \A w \in Wallets : StatementExplained(w)

\* A stored row is the only one of its name.
NamesKnown ==
  \A d \in Stored(row) : /\ d \in Deliveries /\ sub[d] \in Submissions
                         /\ NameOf(d) \in TransactionNames
                         /\ RowsNamed(NameOf(d)) = {d}

\* What the contract reads of the transaction that is stored as row d ...
Read(d) ==
  /\ AcceptedTerms[NameOf(d)] = TermsOf(sub[d])
  /\ Fates[NameOf(d)] = row[d].status
  /\ PastFates[NameOf(d)] = {row[d].status, resp[d].status}

\* ... and of a name under which nothing is stored.
Blank(n) ==
  AcceptedTerms[n] = NoSubmission /\ Fates[n] = "UNKNOWN" /\ PastFates[n] = {}

NamesRead ==
  /\ \A d \in Stored(row) : Read(d)
  /\ \A n \in TransactionNames : RowsNamed(n) = {} => Blank(n)

\* Who was told a fate was told one that the transaction has or had.
ToldTruly ==
  \A d \in Deliveries : Told(d) => /\ NameOf(d) \in TransactionNames
                                   /\ resp[d].status \in PastFates[NameOf(d)]

LEMMA StatementsAreExplained ==
  ASSUME ContractInv, NEW w \in Wallets
  PROVE  StatementExplained(w)
<1> DEFINE opening == OpeningEntries(w)
           skip == Len(opening)
           es == ledger[w]
           n == Len(es) - skip
           lines == StatementOf(w)
<1>1. /\ TypeOK /\ Books(sub, w, row, es) /\ Chained(es, 0)
      /\ \A i \in 1..skip : i \in DOMAIN es /\ es[i] = opening[i]
  BY DEF ContractInv, Opened, AnswersInv, BooksInv, BooksKept, SettlementInv, LedgerExplainsBalance
<1>2. es \in Seq(Entries) /\ InitialBalance[w] \in Nat
  BY <1>1, WalletAssumption DEF TypeOK
<1>3. \/ skip = 0 /\ InitialBalance[w] = 0
      \/ skip = 1 /\ opening[1].after = InitialBalance[w]
  <2>1. CASE InitialBalance[w] = 0
    BY <2>1 DEF OpeningEntries
  <2>2. CASE InitialBalance[w] # 0
    BY <2>2 DEF OpeningEntries
  <2> QED BY <2>1, <2>2
<1>4. lines = [i \in 1..n |-> Line(es[i + skip])]
  BY DEF StatementOf
<1>5. \A i : Behind(w, i) = es[i + skip].tx
  BY DEF Behind
<1> HIDE DEF es, opening, lines
<1>6. Len(es) \in Nat /\ DOMAIN es = 1..Len(es) /\ skip \in {0, 1}
  BY <1>2, <1>3
<1> HIDE DEF skip
<1>7. n \in Nat /\ \A i \in 1..n : i + skip \in DOMAIN es /\ i + skip > skip /\ i + skip \in Nat
  <2>1. skip <= Len(es)
    BY <1>1, <1>6
  <2> QED BY <1>6, <2>1
<1>8. ASSUME NEW i \in 1..n PROVE LineExplained(w, i)
  <2> DEFINE k == i + skip
             entry == es[k]
             d == entry.tx
  <2>1. /\ k \in DOMAIN es /\ k > skip /\ d = Behind(w, i)
        /\ entry \in Entries
    BY <1>2, <1>5, <1>7
  <2>2. /\ d \in RowsOf(sub, w, row) /\ Moved(sub, row, d)
        /\ entry.amount = sub[d].amount
        /\ entry.direction = DirectionFor(sub[d], sub[row[d].refTx])
    <3>1. ~(entry.tx = OpeningTx /\ k <= Len(OpeningEntries(w)))
      BY <1>6, <1>7, <2>1 DEF skip, opening
    <3> HIDE DEF k
    <3> QED BY <1>1, <2>1, <3>1 DEF Books, EntriesHaveRows
  <2>3. /\ entry.after >= 0 /\ entry.before = IF k = 1 THEN 0 ELSE es[k - 1].after
        /\ entry.after = entry.before + Signed(entry.direction, entry.amount)
    <3> HIDE DEF k
    <3> QED BY <1>1, <2>1 DEF Chained
  <2>4. lines[i] = [ name |-> NameOf(d), change |-> Signed(entry.direction, entry.amount),
                     balance |-> entry.after ]
    BY <1>4 DEF Line
  <2>5. d \in Stored(row) /\ sub[d].wallet = w
    BY <2>2 DEF RowsOf, Stored
  <2>6. Signed(entry.direction, entry.amount) \in Contract!Changes(TermsOf(sub[d]))
    <3>1. Signed(entry.direction, sub[d].amount) \in Contract!Changes(TermsOf(sub[d]))
      BY <2>2 DEF Contract!Changes, TermsOf, Signed, DirectionFor, OwnDirection, Invert
    <3> QED BY <2>2, <3>1
  <2>7. entry.before = IF i = 1 THEN InitialBalance[w] ELSE lines[i - 1].balance
    <3>1. CASE i = 1
      BY <1>1, <1>3, <1>6, <2>3, <3>1 DEF skip
    <3>2. CASE i # 1
      <4>1. i - 1 \in 1..n /\ k # 1 /\ (i - 1) + skip = k - 1
        BY <1>6, <1>7, <3>2
      <4>2. lines[i - 1].balance = es[k - 1].after
        BY <1>4, <4>1 DEF Line
      <4> QED BY <2>3, <3>2, <4>1, <4>2
    <3> QED BY <3>1, <3>2
  <2>8. /\ entry.before \in Int /\ Signed(entry.direction, entry.amount) \in Int
    BY <2>1 DEF Entries, Signed
  <2>9. entry.after = Signed(entry.direction, entry.amount) + entry.before
    BY <2>3, <2>8
  <2> HIDE DEF entry
  <2> QED BY <2>1, <2>2, <2>3, <2>4, <2>5, <2>6, <2>7, <2>9 DEF LineExplained, lines
<1>9. ASSUME NEW d \in Stored(row), sub[d].wallet = w, Moved(sub, row, d)
      PROVE  \E i \in 1..n : Behind(w, i) = d
  <2>1. d \in RowsOf(sub, w, row) /\ d \in Deliveries
    BY <1>9 DEF RowsOf, Stored
  <2>2. PICK k \in DOMAIN es : es[k].tx = d
    BY <1>1, <1>9, <2>1 DEF Books, RowsHaveEntries
  <2>3. k > skip
    <3> SUFFICES ASSUME k \in 1..skip PROVE FALSE
      BY <1>6
    <3>1. es[k] = opening[k] /\ k = 1 /\ skip = 1
      BY <1>1, <1>6
    <3>2. opening[1].tx = OpeningTx
      BY <3>1 DEF opening, OpeningEntries, skip
    <3> QED BY <2>1, <2>2, <3>1, <3>2, ActorAssumption
  <2>4. k - skip \in 1..n /\ (k - skip) + skip = k
    BY <1>6, <2>3
  <2> QED BY <1>5, <2>2, <2>4
<1>10. ASSUME NEW i \in 1..n, NEW j \in 1..n, Behind(w, i) = Behind(w, j) PROVE i = j
  <2>1. i + skip = j + skip
    BY <1>1, <1>5, <1>7, <1>10 DEF Books, RowsHaveEntries
  <2> QED BY <1>6, <2>1
<1> HIDE DEF n
<1> QED
  BY <1>4, <1>7, <1>8, <1>9, <1>10 DEF StatementExplained, lines, es, n, skip, opening

LEMMA NamesAreKnown ==
  ASSUME ContractInv
  PROVE  NamesKnown
<1> SUFFICES ASSUME NEW d \in Stored(row)
             PROVE  /\ d \in Deliveries /\ sub[d] \in Submissions
                    /\ NameOf(d) \in TransactionNames
                    /\ RowsNamed(NameOf(d)) = {d}
  BY DEF NamesKnown
<1>1. d \in Deliveries /\ sub[d] \in Submissions
  BY DEF Stored, ContractInv, AnswersInv, BooksInv, SettlementInv, RowsWellPlaced, WellPlaced
<1>2. NameOf(d) \in TransactionNames
  BY <1>1 DEF NameOf, TransactionNames
<1>3. \A e \in Stored(row) : NameOf(e) = NameOf(d) => e = d
  BY DEF ContractInv, AnswersInv, BooksInv, UniqueNames, NameOf
<1> QED
  BY <1>1, <1>2, <1>3 DEF RowsNamed

\* A stored row is what the contract reads under its name.
LEMMA NamesAreRead ==
  ASSUME NamesKnown
  PROVE  NamesRead
<1>1. ASSUME NEW d \in Stored(row) PROVE Read(d)
  <2> DEFINE n == NameOf(d)
  <2>1. n \in TransactionNames /\ RowsNamed(n) = {d}
    BY DEF NamesKnown
  <2>2. RowNamed(n) = d
    BY <2>1 DEF RowNamed
  <2> HIDE DEF n
  <2>3. AcceptedTerms[n] = TermsOf(sub[d]) /\ Fates[n] = row[d].status
    BY <2>1, <2>2 DEF AcceptedTerms, Fates
  <2>4. PastFates[n] = UNION { {row[e].status, resp[e].status} : e \in {d} }
    BY <2>1 DEF PastFates
  <2> QED BY <2>3, <2>4 DEF n, Read
<1>2. \A n \in TransactionNames : RowsNamed(n) = {} => Blank(n)
  BY DEF Blank, AcceptedTerms, Fates, PastFates
<1> QED
  BY <1>1, <1>2 DEF NamesRead

LEMMA TellsAreTrue ==
  ASSUME ContractInv
  PROVE  ToldTruly
<1>1. NamesKnown
  BY NamesAreKnown
<1> SUFFICES ASSUME NEW d \in Deliveries, Told(d)
             PROVE  /\ NameOf(d) \in TransactionNames
                    /\ resp[d].status \in PastFates[NameOf(d)]
  BY DEF ToldTruly
<1>2. CASE resp[d].outcome = "settled"
  <2>1. d \in Stored(row)
    BY <1>2 DEF ContractInv, AnsweredOnce
  <2> QED BY <1>1, <2>1, NamesAreRead DEF NamesKnown, NamesRead, Read
<1>3. CASE resp[d].outcome = "replay"
  <2>1. PICK e \in Stored(row) : /\ SamePayload(sub[d], sub[e])
                                 /\ resp[d].status \in {row[e].status, resp[e].status}
    BY <1>3 DEF ContractInv, RepliesAreOfRows, Replays
  <2>2. NameOf(d) = NameOf(e)
    BY <2>1 DEF NameOf, SamePayload
  <2> QED BY <1>1, <2>1, <2>2, NamesAreRead DEF NamesKnown, NamesRead, Read
<1> QED
  BY <1>2, <1>3 DEF Told

LEMMA ContractFacts ==
  ContractInv => NamesKnown /\ NamesRead /\ ToldTruly /\ StatementsExplained
  BY NamesAreKnown, NamesAreRead, TellsAreTrue, StatementsAreExplained DEF StatementsExplained

-----------------------------------------------------------------------------
(* Steps that tell *)

\* Whoever was answered keeps the answer, and new answers are true.
LEMMA AnswersTell ==
  ASSUME ContractInv',
         \A d \in Deliveries : pc[d] = "done" => /\ pc'[d] = "done" /\ resp'[d] = resp[d]
                                                 /\ sub'[d] = sub[d]
  PROVE  Contract!TellOnlyFates
<1>1. ToldTruly'
  BY ContractFacts, PTL
<1>2. ToldFates \subseteq ToldFates'
  <2> SUFFICES ASSUME NEW d \in Deliveries, Told(d)
               PROVE  <<NameOf(d), resp[d].status>> \in ToldFates'
    BY DEF ToldFates
  <2>1. Told(d)' /\ NameOf(d)' = NameOf(d) /\ resp'[d] = resp[d]
    BY DEF Told, NameOf
  <2> QED BY <2>1 DEF ToldFates
<1>3. ASSUME NEW p \in ToldFates'
      PROVE  p[1] \in TransactionNames /\ p[2] \in PastFates'[p[1]]
  <2>1. PICK d \in Deliveries : Told(d)' /\ p = <<NameOf(d), resp[d].status>>'
    BY DEF ToldFates
  <2> QED BY <1>1, <2>1 DEF ToldTruly
<1> QED
  BY <1>2, <1>3 DEF Contract!TellOnlyFates

\* Without a new row, names, fates and statements are what they were.
LEMMA AsideTells ==
  ASSUME ContractInv, ContractInv',
         (\E a \in Actors : Aside(a)) \/ UNCHANGED vars
  PROVE  Contract!Tell
<1>1. /\ \A d \in Deliveries : pc[d] = "done" => /\ pc'[d] = "done" /\ resp'[d] = resp[d]
                                                 /\ sub'[d] = sub[d]
      /\ UNCHANGED <<row, ledger>>
  <2>1. ASSUME NEW a \in Actors, Aside(a), NEW d \in Deliveries, pc[d] = "done"
        PROVE  pc'[d] = "done" /\ resp'[d] = resp[d] /\ sub'[d] = sub[d]
    <3>1. d # a
      BY <2>1 DEF Aside
    <3> QED BY <2>1, <3>1 DEF Aside
  <2> QED BY <2>1 DEF Aside, vars
<1>2. /\ Stored(row)' = Stored(row)
      /\ \A d \in Stored(row) : d \in Deliveries /\ sub'[d] = sub[d] /\ resp'[d] = resp[d]
  BY <1>1 DEF ContractInv, AnswersInv, BooksInv, StoredOnce, Stored
<1>3. NamesKnown /\ NamesRead /\ \A w \in Wallets : StatementExplained(w)
  BY ContractFacts DEF StatementsExplained
<1>4. NamesRead'
  BY ContractFacts, PTL
<1>5. ASSUME NEW n \in TransactionNames
      PROVE  /\ AcceptedTerms'[n] = AcceptedTerms[n] /\ Fates'[n] = Fates[n]
             /\ PastFates'[n] = PastFates[n]
  <2>1. \A d \in Stored(row) : NameOf(d)' = NameOf(d) /\ TermsOf(sub[d])' = TermsOf(sub[d])
    BY <1>2 DEF NameOf, TermsOf
  <2>2. RowsNamed(n)' = RowsNamed(n)
    BY <1>2, <2>1 DEF RowsNamed
  <2>3. CASE RowsNamed(n) = {}
    <3>1. Blank(n) /\ Blank(n)'
      BY <1>3, <1>4, <2>2, <2>3 DEF NamesRead
    <3> QED BY <3>1 DEF Blank
  <2>4. CASE RowsNamed(n) # {}
    <3>1. PICK d \in Stored(row) : NameOf(d) = n
      BY <2>4 DEF RowsNamed
    <3>2. Read(d) /\ Read(d)'
      BY <1>2, <1>3, <1>4 DEF NamesRead
    <3>3. NameOf(d)' = n /\ TermsOf(sub[d])' = TermsOf(sub[d]) /\ row'[d] = row[d] /\ resp'[d] = resp[d]
      BY <1>1, <1>2, <2>1, <3>1
    <3> QED BY <3>1, <3>2, <3>3 DEF Read
  <2> QED BY <2>3, <2>4
<1>6. UNCHANGED <<AcceptedTerms, Fates, PastFates>>
  BY <1>5 DEF AcceptedTerms, Fates, PastFates
<1>7. ASSUME NEW w \in Wallets PROVE StatementOf(w)' = StatementOf(w)
  <2> DEFINE skip == Len(OpeningEntries(w))
             n == Len(ledger[w]) - skip
  <2>1. /\ StatementOf(w) = [i \in 1..n |-> Line(ledger[w][i + skip])]
        /\ \A i \in 1..n : Behind(w, i) \in Stored(row)
    BY <1>3 DEF StatementExplained, LineExplained
  <2>2. StatementOf(w)' = [i \in 1..n |-> Line(ledger[w][i + skip])']
    BY <1>1 DEF StatementOf, OpeningEntries
  <2>3. ASSUME NEW i \in 1..n PROVE Line(ledger[w][i + skip])' = Line(ledger[w][i + skip])
    <3>1. ledger[w][i + skip].tx \in Stored(row)
      BY <2>1 DEF Behind
    <3>2. NameOf(ledger[w][i + skip].tx)' = NameOf(ledger[w][i + skip].tx)
      BY <1>1, <1>2, <3>1 DEF NameOf, OpeningEntries
    <3> QED BY <1>1, <3>2 DEF Line, OpeningEntries
  <2> HIDE DEF n, skip
  <2> QED BY <2>1, <2>2, <2>3
<1>8. UNCHANGED Statements
  BY <1>7 DEF Statements
<1>9. Contract!TellOnlyFates
  BY <1>1, AnswersTell
<1> QED
  BY <1>6, <1>8, <1>9 DEF Contract!Tell

-----------------------------------------------------------------------------
(* COMMIT settles *)

\* Sequence p is the first m of the n elements of q, which are in S.
Begins(S, p, m, q, n) ==
  /\ m \in Nat /\ n \in Nat /\ m <= n
  /\ q \in [1..n -> S] /\ p \in [1..m -> S]
  /\ \A i \in 1..m : p[i] = q[i]

\* q is p and the rest of q, and so is every beginning of q that is longer than p.
Continues(p, m, q, n) ==
  LET fresh == SubSeq(q, m + 1, n)
  IN  /\ Len(p) = m /\ Len(q) = n /\ q = p \o fresh
      /\ DOMAIN fresh = 1..(n - m) /\ \A j \in 1..(n - m) : fresh[j] = q[m + j]
      /\ \A j \in 1..(n - m) :
           LET before == p \o SubSeq(fresh, 1, j - 1)
           IN  IF m + j = 1 THEN before = <<>>
               ELSE before # <<>> /\ before[Len(before)] = q[(m + j) - 1]

\* A sequence that begins like a longer one is continued by the rest of that one.
LEMMA Continuation ==
  ASSUME NEW S, NEW p, NEW m, NEW q, NEW n, Begins(S, p, m, q, n)
  PROVE  Continues(p, m, q, n)
<1>0. /\ m \in Nat /\ n \in Nat /\ m <= n
      /\ q \in [1..n -> S] /\ p \in [1..m -> S]
      /\ \A i \in 1..m : p[i] = q[i]
  BY DEF Begins
<1> DEFINE fresh == SubSeq(q, m + 1, n)
<1>1. /\ p \in Seq(S) /\ Len(p) = m
      /\ q \in Seq(S) /\ Len(q) = n
  BY <1>0, SeqDef, LenProperties
<1>2. /\ fresh \in Seq(S) /\ Len(fresh) = n - m
      /\ \A j \in 1..(n - m) : fresh[j] = q[m + j]
  <2>1. \A i \in (m + 1)..n : q[i] \in S
    BY <1>0
  <2>2. /\ fresh \in Seq(S)
        /\ Len(fresh) = IF m + 1 <= n THEN n - (m + 1) + 1 ELSE 0
        /\ \A j \in 1..(n - (m + 1) + 1) : fresh[j] = q[(m + 1) + j - 1]
    BY <1>0, <2>1, SubSeqProperties
  <2> HIDE DEF fresh
  <2>3. /\ Len(fresh) = n - m
        /\ \A j \in 1..(n - m) : (m + 1) + j - 1 = m + j /\ j \in 1..(n - (m + 1) + 1)
    BY <1>0, <2>2
  <2> QED BY <1>0, <2>2, <2>3
<1> HIDE DEF fresh
<1>3. DOMAIN fresh = 1..(n - m)
  BY <1>0, <1>2
<1>4. q = p \o fresh
  <2> DEFINE all == p \o fresh
  <2>1. /\ all \in Seq(S) /\ Len(all) = n
        /\ \A i \in 1..m : all[i] = p[i]
        /\ \A i \in (m + 1)..n : all[i] = fresh[i - m]
    BY <1>0, <1>1, <1>2
  <2> HIDE DEF all
  <2>2. \A i \in 1..n : all[i] = q[i]
    <3>1. ASSUME NEW i \in 1..n, i > m PROVE all[i] = q[i]
      <4>1. i - m \in 1..(n - m) /\ m + (i - m) = i
        BY <1>0, <3>1
      <4> QED BY <1>0, <1>2, <2>1, <3>1, <4>1
    <3>2. ASSUME NEW i \in 1..n, i <= m PROVE all[i] = q[i]
      BY <1>0, <2>1, <3>2
    <3> QED BY <1>0, <3>1, <3>2
  <2>3. q = all
    <3>1. all \in [1..n -> S]
      BY <1>0, <2>1, LenProperties
    <3> QED BY <1>0, <2>2, <3>1
  <2> QED BY <1>0, <2>3 DEF all
<1>5. ASSUME NEW j \in 1..(n - m)
      PROVE  LET before == p \o SubSeq(fresh, 1, j - 1)
             IN  IF m + j = 1 THEN before = <<>>
                 ELSE before # <<>> /\ before[Len(before)] = q[(m + j) - 1]
  <2> DEFINE part == SubSeq(fresh, 1, j - 1)
             before == p \o part
  <2> SUFFICES IF m + j = 1 THEN before = <<>>
               ELSE before # <<>> /\ before[Len(before)] = q[(m + j) - 1]
    OBVIOUS
  <2>1. /\ part \in Seq(S) /\ Len(part) = j - 1
        /\ \A i \in 1..(j - 1) : part[i] = fresh[i]
    <3>1. \A i \in 1..(j - 1) : fresh[i] \in S
      BY <1>0, <1>2, <1>3
    <3>2. /\ part \in Seq(S)
          /\ Len(part) = IF 1 <= j - 1 THEN (j - 1) - 1 + 1 ELSE 0
          /\ \A i \in 1..((j - 1) - 1 + 1) : part[i] = fresh[1 + i - 1]
      BY <1>0, <3>1, SubSeqProperties
    <3> HIDE DEF part
    <3> QED BY <1>0, <3>2
  <2> HIDE DEF part
  <2>2. /\ before \in Seq(S) /\ Len(before) = (m + j) - 1
        /\ \A i \in 1..m : before[i] = p[i]
        /\ \A i \in 1..(j - 1) : before[m + i] = part[i]
    BY <1>1, <2>1
  <2> HIDE DEF before
  <2>3. CASE m + j = 1
    BY <1>0, <2>2, <2>3
  <2>4. CASE m + j # 1
    <3>1. before # <<>>
      BY <1>0, <2>2, <2>4
    <3>2. CASE j = 1
      BY <1>0, <2>2, <2>4, <3>1, <3>2
    <3>3. CASE j # 1
      <4>1. j - 1 \in 1..(j - 1) /\ j - 1 \in 1..(n - m) /\ m + (j - 1) = (m + j) - 1
        BY <1>0, <3>3
      <4>2. before[(m + j) - 1] = q[(m + j) - 1]
        <5> DEFINE k == j - 1
        <5>1. k \in 1..(j - 1) /\ k \in 1..(n - m) /\ m + k = (m + j) - 1
          BY <1>0, <4>1
        <5> HIDE DEF k
        <5>2. before[m + k] = part[k] /\ part[k] = fresh[k] /\ fresh[k] = q[m + k]
          BY <1>0, <1>2, <2>1, <2>2, <5>1
        <5> QED BY <1>0, <5>1, <5>2
      <4>3. Len(before) = (m + j) - 1
        BY <1>0, <2>2
      <4> QED BY <1>0, <2>4, <3>1, <4>2, <4>3
    <3> QED BY <1>0, <2>4, <3>2, <3>3
  <2> QED BY <1>0, <2>3, <2>4
<1> QED
  BY <1>1, <1>2, <1>3, <1>4, <1>5 DEF Continues, fresh

\* What a step that settles in wallet w does to what the contract reads of a name:
\* nothing, or it gives row d of the wallet its next fate.
NameKept(n) ==
  /\ AcceptedTerms'[n] = AcceptedTerms[n] /\ Fates'[n] = Fates[n] /\ PastFates'[n] = PastFates[n]

NameSettled(n, w) ==
  \E d \in Stored(row') :
    /\ NameOf(d) = n /\ sub[d].wallet = w /\ sub[d] \in Submissions
    /\ AcceptedTerms'[n] = TermsOf(sub[d]) /\ Fates'[n] = row'[d].status
    /\ \/ /\ Fates[n] = "UNKNOWN" /\ Fates'[n] \in StoredStatuses
          /\ PastFates[n] = {} /\ PastFates'[n] = {Fates'[n]}
       \/ /\ Fates[n] = "PENDING_REFERENCE" /\ Terminal(Fates'[n])
          /\ AcceptedTerms[n] = AcceptedTerms'[n]
          /\ PastFates[n] = {"PENDING_REFERENCE"}
          /\ PastFates'[n] = {"PENDING_REFERENCE", Fates'[n]}

\* COMMIT gives fates to the rows it writes, and to no other.
LEMMA CommitNames ==
  ASSUME ContractInv, ContractInv', NEW a \in Actors, Commit(a), NEW n \in TransactionNames
  PROVE  NameKept(n) \/ NameSettled(n, WalletOf(a))
<1> DEFINE dr == draft[a]
           w == WalletOf(a)
<1>1. /\ BooksInv /\ TypeOK /\ DraftInOrder(a) /\ pc[a] = "commit"
      /\ AnsweredOnce /\ UNCHANGED sub
  BY BooksInvParts DEF ContractInv, AnswersInv, SettlementInv, Commit
<1>2. /\ dr \in Drafts
      /\ \A e \in Stored(dr.rows) :
           /\ row'[e] = dr.rows[e] /\ sub[e].wallet = w
           /\ row[e].status = "PENDING_REFERENCE" \/ (e = a /\ row[e].status = "ABSENT")
      /\ \A e \in Deliveries \ Stored(dr.rows) : row'[e] = row[e]
  BY <1>1, CommitFacts
<1>3. a \in Deliveries => /\ a \in Stored(dr.rows) /\ a \notin Stored(row)
                          /\ resp'[a].status = dr.rows[a].status
                          /\ \A b \in Deliveries \ {a} : resp'[b] = resp[b]
  BY <1>1 DEF DraftInOrder, Writing, TxOf, BooksInv, StoredOnce, Stored, Commit, TypeOK
<1>4. a \notin Deliveries => resp' = resp
  BY DEF Commit
<1>5. NamesKnown /\ NamesRead
  BY ContractFacts
<1>6. NamesKnown' /\ NamesRead'
  BY ContractFacts, PTL
<1>7. \A d : NameOf(d)' = NameOf(d) /\ TermsOf(sub[d])' = TermsOf(sub[d])
  BY <1>1 DEF NameOf, TermsOf
<1>8. Stored(row) \subseteq Stored(row') /\ Stored(row)' = Stored(row')
  BY <1>2 DEF Stored
<1> HIDE DEF dr, w
<1>9. CASE RowsNamed(n)' = {}
  <2>1. RowsNamed(n) = {}
    BY <1>7, <1>8, <1>9 DEF RowsNamed
  <2>2. Blank(n) /\ Blank(n)'
    BY <1>5, <1>6, <1>9, <2>1 DEF NamesRead
  <2> QED BY <2>2 DEF Blank, NameKept
<1>10. CASE RowsNamed(n)' # {}
  <2>1. PICK d \in Stored(row') : NameOf(d) = n
    BY <1>7, <1>8, <1>10 DEF RowsNamed
  <2>2. /\ d \in Deliveries /\ sub[d] \in Submissions /\ RowsNamed(n)' = {d}
        /\ AcceptedTerms'[n] = TermsOf(sub[d]) /\ Fates'[n] = row'[d].status
        /\ PastFates'[n] = {row'[d].status, resp'[d].status}
    <3>1. /\ d \in Deliveries /\ sub'[d] \in Submissions /\ RowsNamed(NameOf(d))' = {d}
          /\ Read(d)'
      BY <1>6, <1>8, <2>1 DEF NamesKnown, NamesRead
    <3>2. RowsNamed(NameOf(d))' = RowsNamed(n)'
      BY <1>7, <2>1 DEF RowsNamed
    <3> QED BY <1>1, <1>7, <2>1, <3>1, <3>2 DEF Read
  <2>3. d \in Stored(row) => /\ AcceptedTerms[n] = TermsOf(sub[d]) /\ Fates[n] = row[d].status
                             /\ PastFates[n] = {row[d].status, resp[d].status}
                             /\ resp'[d] = resp[d]
    BY <1>3, <1>4, <1>5, <2>1, <2>2 DEF NamesRead, Read
  <2>4. d \notin Stored(row) => Blank(n)
    <3>1. d \notin Stored(row) => RowsNamed(n) = {}
      BY <1>7, <1>8, <2>2 DEF RowsNamed
    <3> QED BY <1>5, <3>1 DEF NamesRead
  <2>5. CASE d \notin Stored(dr.rows)
    <3>1. row'[d] = row[d] /\ d \in Stored(row)
      BY <1>2, <2>1, <2>2, <2>5 DEF Stored
    <3> QED BY <2>2, <2>3, <3>1 DEF NameKept
  <2>6. CASE d \in Stored(dr.rows) /\ row[d].status = "PENDING_REFERENCE"
    <3>1. d \in Stored(row) /\ resp[d].status = "PENDING_REFERENCE"
      BY <1>1, <2>2, <2>6 DEF Stored, AnsweredOnce
    <3>2. row'[d].status \in StoredStatuses /\ sub[d].wallet = w
      BY <1>2, <2>6 DEF Drafts, Rows, Stored
    <3>3. CASE row'[d].status = "PENDING_REFERENCE"
      BY <2>2, <2>3, <2>6, <3>1, <3>3 DEF NameKept
    <3>4. CASE Terminal(row'[d].status)
      <4>1. NameSettled(n, w)
        BY <2>1, <2>2, <2>3, <2>6, <3>1, <3>2, <3>4 DEF NameSettled
      <4> QED BY <4>1 DEF w
    <3> QED BY <3>2, <3>3, <3>4 DEF StoredStatuses, Terminal
  <2>7. CASE d \in Stored(dr.rows) /\ row[d].status # "PENDING_REFERENCE"
    <3>1. d = a /\ d \notin Stored(row)
      BY <1>2, <2>7 DEF Stored
    <3>2. row'[d].status \in StoredStatuses /\ sub[d].wallet = w /\ resp'[d].status = row'[d].status
      BY <1>2, <1>3, <2>2, <2>7, <3>1 DEF Drafts, Rows, Stored
    <3>3. NameSettled(n, w)
      BY <2>1, <2>2, <2>4, <3>1, <3>2 DEF NameSettled, Blank
    <3> QED BY <3>3 DEF w
  <2> QED BY <2>5, <2>6, <2>7
<1> QED
  BY <1>9, <1>10

\* What is read of a name under which a processed row is stored.
LEMMA ProcessedRead ==
  ASSUME ContractInv, ContractInv', NEW a \in Actors, Commit(a),
         NEW d \in Stored(row'), row'[d].status = "PROCESSED"
  PROVE  /\ NameOf(d) \in TransactionNames
         /\ Fates'[NameOf(d)] = "PROCESSED" /\ AcceptedTerms'[NameOf(d)] = TermsOf(sub[d])
         /\ d \in Stored(row) => Fates[NameOf(d)] = row[d].status
         /\ d \notin Stored(row) => Fates[NameOf(d)] = "UNKNOWN"
<1>1. UNCHANGED sub /\ Stored(row)' = Stored(row') /\ Stored(row) \subseteq Stored(row')
  <2>1. /\ \A e \in Stored(draft[a].rows) : row'[e] = draft[a].rows[e]
        /\ \A e \in Deliveries \ Stored(draft[a].rows) : row'[e] = row[e]
    BY CommitFacts DEF ContractInv, AnswersInv
  <2> QED BY <2>1 DEF Stored, Commit
<1>2. NamesKnown /\ NamesRead
  BY ContractFacts
<1>3. NamesKnown' /\ NamesRead'
  BY ContractFacts, PTL
<1>4. \A e : NameOf(e)' = NameOf(e) /\ TermsOf(sub[e])' = TermsOf(sub[e])
  BY <1>1 DEF NameOf, TermsOf
<1>5. NameOf(d)' \in TransactionNames /\ RowsNamed(NameOf(d))' = {d} /\ Read(d)'
  BY <1>1, <1>3 DEF NamesKnown, NamesRead
<1>6. d \in Stored(row) => Read(d)
  BY <1>2 DEF NamesRead
<1>7. d \notin Stored(row) => Blank(NameOf(d))
  <2>1. RowsNamed(NameOf(d)) \subseteq RowsNamed(NameOf(d))'
    BY <1>1, <1>4 DEF RowsNamed
  <2>2. d \notin Stored(row) => RowsNamed(NameOf(d)) = {}
    BY <1>5, <2>1 DEF RowsNamed
  <2> QED BY <1>2, <1>4, <1>5, <2>2 DEF NamesRead
<1> QED
  BY <1>4, <1>5, <1>6, <1>7 DEF Read, Blank

\* The lines that COMMIT adds to the statement of its wallet are explained, and no
\* other statement changes.
LEMMA CommitLines ==
  ASSUME ContractInv, ContractInv', NEW a \in Actors, Commit(a),
         NEW w \in Wallets, w = WalletOf(a)
  PROVE  LET lines == Statements[w]
             fresh == SubSeq(Statements'[w], Len(lines) + 1, Len(Statements'[w]))
             paid == { n \in TransactionNames : /\ Fates'[n] # Fates[n] /\ Fates'[n] = "PROCESSED"
                                                /\ Contract!Moves(AcceptedTerms'[n]) }
         IN  /\ Statements' = [Statements EXCEPT ![w] = @ \o fresh]
             /\ Contract!Explained(w, lines, fresh, paid, AcceptedTerms')
<1> DEFINE skip == Len(OpeningEntries(w))
           es == ledger[w]
           all == ledger'[w]
           m == Len(es) - skip
           n == Len(all) - skip
           p == StatementOf(w)
           q == StatementOf(w)'
           fresh == SubSeq(q, m + 1, n)
           paid == { x \in TransactionNames : /\ Fates'[x] # Fates[x] /\ Fates'[x] = "PROCESSED"
                                              /\ Contract!Moves(AcceptedTerms'[x]) }
<1>1. /\ BooksInv /\ TypeOK /\ UNCHANGED sub
  BY DEF ContractInv, AnswersInv, BooksInv, SettlementInv, Commit
<1>2. /\ draft[a] \in Drafts /\ all = es \o draft[a].entries
      /\ \A x \in Wallets \ {w} : ledger'[x] = ledger[x]
      /\ \A e \in Stored(draft[a].rows) :
           /\ row'[e] = draft[a].rows[e] /\ sub[e].wallet = w
           /\ row[e].status = "PENDING_REFERENCE" \/ (e = a /\ row[e].status = "ABSENT")
      /\ \A e \in Deliveries \ Stored(draft[a].rows) : row'[e] = row[e]
  <2>1. ledger'[w] = LedgerAfter(a)
    BY <1>1, CommitFacts
  <2>2. ledger'[w] = ledger[w] \o draft[a].entries
    BY <2>1 DEF LedgerAfter
  <2>3. /\ draft[a] \in Drafts
        /\ \A x \in Wallets \ {w} : ledger'[x] = ledger[x]
        /\ \A e \in Stored(draft[a].rows) :
             /\ row'[e] = draft[a].rows[e] /\ sub[e].wallet = w
             /\ row[e].status = "PENDING_REFERENCE" \/ (e = a /\ row[e].status = "ABSENT")
        /\ \A e \in Deliveries \ Stored(draft[a].rows) : row'[e] = row[e]
    BY <1>1, CommitFacts
  <2> QED BY <2>2, <2>3
<1>3. /\ \A x : NameOf(x)' = NameOf(x) /\ TermsOf(sub[x])' = TermsOf(sub[x])
      /\ \A entry : Line(entry)' = Line(entry)
      /\ \A x : OpeningEntries(x)' = OpeningEntries(x)
  BY <1>1 DEF OpeningEntries, NameOf, TermsOf, Line
<1>4. es \in Seq(Entries) /\ draft[a].entries \in Seq(Entries)
  BY <1>1, <1>2 DEF TypeOK, Drafts
<1>5. StatementExplained(w)
  BY ContractFacts DEF StatementsExplained
<1>6. StatementExplained(w)'
  <2>1. StatementsExplained'
    BY ContractFacts, PTL
  <2> QED BY <2>1 DEF StatementsExplained
<1>7. /\ m \in Nat /\ p = [i \in 1..m |-> Line(es[i + skip])]
      /\ \A d \in Stored(row) : sub[d].wallet = w /\ Moved(sub, row, d) => \E i \in 1..m : Behind(w, i) = d
      /\ \A i \in 1..m : LineExplained(w, i) /\ i + skip \in DOMAIN es
      /\ \A i : Behind(w, i) = es[i + skip].tx
  <2>1. skip \in Nat /\ Len(es) \in Nat /\ DOMAIN es = 1..Len(es)
    BY <1>4 DEF OpeningEntries
  <2> QED BY <1>5, <2>1 DEF StatementExplained, Behind
<1>8. /\ n \in Nat /\ q = [i \in 1..n |-> Line(all[i + skip])]
      /\ \A d \in Stored(row') : sub[d].wallet = w /\ Moved(sub, row', d)
                                   => \E i \in 1..n : Behind(w, i)' = d
      /\ \A i \in 1..n : LineExplained(w, i)'
      /\ \A i, j \in 1..n : Behind(w, i)' = Behind(w, j)' => i = j
      /\ \A i : Behind(w, i)' = all[i + skip].tx
  <2>1. Stored(row)' = Stored(row') /\ \A d : Moved(sub, row, d)' = Moved(sub, row', d)
    BY <1>1 DEF Stored, Moved
  <2>2. StatementExplained(w)'
    BY <1>6
  <2>3. /\ n \in Nat /\ \A i \in 1..n : LineExplained(w, i)'
        /\ \A i, j \in 1..n : Behind(w, i)' = Behind(w, j)' => i = j
    BY <1>3, <2>2 DEF StatementExplained
  <2>4. \A d \in Stored(row') : sub[d].wallet = w /\ Moved(sub, row', d)
                                  => \E i \in 1..n : Behind(w, i)' = d
    BY <1>1, <1>3, <2>1, <2>2 DEF StatementExplained
  <2>5. q = [i \in 1..n |-> Line(all[i + skip])]
    BY <1>1 DEF StatementOf, OpeningEntries, Line, NameOf
  <2>6. \A i : Behind(w, i)' = all[i + skip].tx
    BY <1>3 DEF Behind
  <2> QED BY <2>3, <2>4, <2>5, <2>6
<1> HIDE DEF es, all, skip, p, q
<1>9. /\ m \in Nat /\ n \in Nat /\ m <= n /\ skip \in Nat
      /\ \A i \in 1..m : Behind(w, i)' = Behind(w, i) /\ p[i] = q[i]
  <2>1. /\ Len(es) \in Nat /\ Len(all) \in Nat /\ Len(es) <= Len(all)
        /\ \A k \in DOMAIN es : all[k] = es[k]
    BY <1>2, <1>4
  <2>2. skip \in Nat
    BY DEF skip, OpeningEntries
  <2>3. m <= n
    BY <2>1, <2>2
  <2>4. ASSUME NEW i \in 1..m PROVE Behind(w, i)' = Behind(w, i) /\ p[i] = q[i]
    <3> HIDE DEF m, n
    <3>1. i \in 1..n /\ all[i + skip] = es[i + skip]
      BY <1>7, <1>8, <2>1, <2>3
    <3>2. p[i] = Line(es[i + skip]) /\ q[i] = Line(all[i + skip])
      BY <1>7, <1>8, <3>1
    <3>3. Behind(w, i)' = all[i + skip].tx /\ Behind(w, i) = es[i + skip].tx
      BY <1>7, <1>8
    <3> QED BY <3>1, <3>2, <3>3
  <2>5. m \in Nat /\ n \in Nat
    BY <1>7, <1>8
  <2> HIDE DEF m, n
  <2> QED BY <2>2, <2>3, <2>4, <2>5
<1> HIDE DEF m, n
<1> DEFINE S == { q[i] : i \in 1..n }
<1>10. Begins(S, p, m, q, n)
  <2>1. q \in [1..n -> S]
    BY <1>8
  <2>2. \A i \in 1..m : p[i] \in S
    BY <1>9
  <2>3. p \in [1..m -> S]
    BY <1>7, <2>2
  <2> HIDE DEF S
  <2> QED BY <1>9, <2>1, <2>3 DEF Begins
<1> HIDE DEF S
<1>11. Continues(p, m, q, n)
  BY <1>10, Continuation
<1> HIDE DEF fresh
<1>12. /\ Len(p) = m /\ Len(q) = n /\ q = p \o fresh
       /\ DOMAIN fresh = 1..(n - m) /\ \A j \in 1..(n - m) : fresh[j] = q[m + j]
       /\ \A j \in 1..(n - m) :
            LET before == p \o SubSeq(fresh, 1, j - 1)
            IN  IF m + j = 1 THEN before = <<>>
                ELSE before # <<>> /\ before[Len(before)] = q[(m + j) - 1]
  BY <1>11 DEF Continues, fresh
<1>13. \A x \in Wallets \ {w} : StatementOf(x)' = StatementOf(x)
  BY <1>1, <1>2, <1>3 DEF StatementOf
<1>14. Statements' = [Statements EXCEPT ![w] = @ \o fresh]
  <2>1. Statements[w] = p /\ Statements'[w] = q
    BY DEF Statements, p, q
  <2>2. \A x \in Wallets \ {w} : Statements'[x] = Statements[x]
    BY <1>13 DEF Statements
  <2>3. Statements' = [x \in Wallets |-> Statements'[x]] /\ Statements = [x \in Wallets |-> Statements[x]]
    BY DEF Statements
  <2> QED BY <1>12, <2>1, <2>2, <2>3
<1> DEFINE From(j) == all[(m + j) + skip].tx
\* The movements that are new are those of rows that were not processed before.
<1>15. ASSUME NEW j \in 1..(n - m)
       PROVE  LET d == From(j)
              IN  /\ d \in Stored(row') /\ sub[d].wallet = w /\ Moved(sub, row', d)
                  /\ row[d].status # "PROCESSED"
                  /\ fresh[j].name = NameOf(d)
                  /\ fresh[j].change \in Contract!Changes(TermsOf(sub[d]))
                  /\ fresh[j].balance >= 0
                  /\ fresh[j].balance = fresh[j].change + IF m + j = 1 THEN InitialBalance[w]
                                                          ELSE q[(m + j) - 1].balance
  <2> DEFINE d == From(j)
  <2>1. PICK k \in 1..n : k = m + j
    BY <1>9
  <2>0. k \notin 1..m /\ fresh[j] = q[k] /\ d = Behind(w, k)'
    <3>1. k \notin 1..m
      BY <1>9, <2>1
    <3>2. fresh[j] = q[k]
      BY <1>12, <2>1
    <3>3. d = Behind(w, k)'
      BY <1>8, <2>1
    <3> QED BY <3>1, <3>2, <3>3
  <2>2. LineExplained(w, k)'
    BY <1>8, <2>1
  <2>3. /\ d \in Stored(row') /\ sub[d].wallet = w /\ Moved(sub, row', d)
        /\ q[k].name = NameOf(d) /\ q[k].change \in Contract!Changes(TermsOf(sub[d]))
        /\ q[k].balance >= 0
        /\ q[k].balance = q[k].change + IF k = 1 THEN InitialBalance[w] ELSE q[k - 1].balance
    <3> DEFINE e == Behind(w, k)'
    <3>1. /\ e \in Stored(row') /\ sub[e].wallet = w /\ Moved(sub, row', e)
          /\ q[k].name = NameOf(e) /\ q[k].change \in Contract!Changes(TermsOf(sub[e]))
          /\ q[k].balance >= 0
          /\ q[k].balance = q[k].change + IF k = 1 THEN InitialBalance[w] ELSE q[k - 1].balance
      BY <1>1, <1>3, <2>2 DEF LineExplained, Stored, Moved, q, NameOf, TermsOf
    <3> QED BY <2>0, <3>1
  <2>4. row[d].status # "PROCESSED"
    <3> SUFFICES ASSUME row[d].status = "PROCESSED" PROVE FALSE
      OBVIOUS
    <3>1. d \in Stored(row) /\ Moved(sub, row, d)
      BY <2>3 DEF Stored, Moved
    <3>2. PICK i \in 1..m : Behind(w, i) = d
      BY <1>7, <2>3, <3>1
    <3>3. i \in 1..n /\ Behind(w, i)' = d
      BY <1>9, <3>2
    <3> QED BY <1>8, <2>0, <2>1, <3>2, <3>3
  <2> HIDE DEF d
  <2> QED BY <2>0, <2>1, <2>3, <2>4 DEF d
<1> HIDE DEF From
<1>16. ASSUME NEW d \in Stored(row'), Moved(sub, row', d), row[d].status # "PROCESSED"
       PROVE  NameOf(d) \in paid /\ AcceptedTerms'[NameOf(d)] = TermsOf(sub[d])
  <2>1. /\ NameOf(d) \in TransactionNames
        /\ Fates'[NameOf(d)] = "PROCESSED" /\ AcceptedTerms'[NameOf(d)] = TermsOf(sub[d])
        /\ Fates[NameOf(d)] \in {row[d].status, "UNKNOWN"}
    BY <1>16, ProcessedRead DEF Moved
  <2>2. Contract!Moves(TermsOf(sub[d]))
    BY <1>16 DEF Contract!Moves, TermsOf, Moved
  <2> QED BY <1>16, <2>1, <2>2
<1>17. ASSUME NEW x \in paid PROVE \E j \in 1..(n - m) : fresh[j].name = x
  <2>1. NameKept(x) \/ NameSettled(x, w)
    BY CommitNames
  <2>2. PICK d \in Stored(row') :
          /\ NameOf(d) = x /\ sub[d].wallet = w
          /\ AcceptedTerms'[x] = TermsOf(sub[d]) /\ Fates'[x] = row'[d].status
          /\ Fates[x] \in {"UNKNOWN", "PENDING_REFERENCE"}
    BY <2>1 DEF NameKept, NameSettled
  <2>3. Moved(sub, row', d)
    BY <2>2 DEF Moved, Contract!Moves, TermsOf
  <2>4. PICK i \in 1..n : Behind(w, i)' = d
    BY <1>8, <2>2, <2>3
  <2>5. i \notin 1..m
    <3> SUFFICES ASSUME i \in 1..m PROVE FALSE
      OBVIOUS
    <3>1. d \in Stored(row) /\ Moved(sub, row, d)
      BY <1>7, <1>9, <2>4 DEF LineExplained
    <3>2. Fates[x] = row[d].status
      BY <2>2, <2>3, <3>1, ProcessedRead DEF Moved
    <3> QED BY <2>2, <3>1, <3>2 DEF Moved
  <2>6. i - m \in 1..(n - m) /\ m + (i - m) = i
    BY <1>9, <2>5
  <2>7. From(i - m) = d
    BY <1>8, <2>4, <2>6 DEF From
  <2> QED BY <1>15, <2>2, <2>6, <2>7
<1>18. { fresh[j].name : j \in DOMAIN fresh } = paid
  <2> HIDE DEF paid
  <2>1. ASSUME NEW j \in 1..(n - m) PROVE fresh[j].name \in paid
    <3>1. /\ From(j) \in Stored(row') /\ Moved(sub, row', From(j)) /\ row[From(j)].status # "PROCESSED"
          /\ fresh[j].name = NameOf(From(j))
      BY <1>15
    <3> QED BY <1>16, <3>1
  <2>2. { fresh[j].name : j \in DOMAIN fresh } \subseteq paid
    BY <1>12, <2>1
  <2>3. ASSUME NEW x \in paid PROVE x \in { fresh[j].name : j \in DOMAIN fresh }
    <3>1. PICK j \in 1..(n - m) : fresh[j].name = x
      BY <1>17
    <3> QED BY <1>12, <3>1
  <2> QED BY <2>2, <2>3
<1>19. ASSUME NEW i \in DOMAIN fresh, NEW j \in DOMAIN fresh, fresh[i].name = fresh[j].name
       PROVE  i = j
  <2>1. From(i) = From(j)
    <3>1. From(i) \in Stored(row') /\ From(j) \in Stored(row') /\ NameOf(From(i)) = NameOf(From(j))
      BY <1>12, <1>15, <1>19
    <3>2. UniqueNames'
      BY DEF ContractInv, AnswersInv, BooksInv
    <3>3. \A d, e \in Stored(row') :
            d # e /\ sub[d].provider = sub[e].provider => sub[d].ext # sub[e].ext
      BY <1>1, <3>2 DEF UniqueNames, Stored
    <3> QED BY <3>1, <3>3 DEF NameOf
  <2>2. m + i = m + j
    <3>1. PICK k \in 1..n, l \in 1..n : k = m + i /\ l = m + j
      BY <1>9, <1>12
    <3>2. Behind(w, k)' = Behind(w, l)'
      BY <1>8, <2>1, <3>1 DEF From
    <3> QED BY <1>8, <3>1, <3>2
  <2> QED BY <1>9, <1>12, <2>2
<1>20. ASSUME NEW j \in DOMAIN fresh
       PROVE  /\ fresh[j].change \in Contract!Changes(AcceptedTerms'[fresh[j].name])
              /\ fresh[j].balance >= 0
              /\ fresh[j].balance =
                   fresh[j].change + Contract!Balance(w, p \o SubSeq(fresh, 1, j - 1))
  <2>1. j \in 1..(n - m)
    BY <1>12
  <2>2. /\ fresh[j].change \in Contract!Changes(AcceptedTerms'[fresh[j].name])
        /\ fresh[j].balance >= 0
    BY <1>15, <1>16, <2>1
  <2>3. Contract!Balance(w, p \o SubSeq(fresh, 1, j - 1)) =
          IF m + j = 1 THEN InitialBalance[w] ELSE q[(m + j) - 1].balance
    BY <1>12, <2>1 DEF Contract!Balance
  <2> QED BY <1>15, <2>1, <2>2, <2>3
<1>21. Contract!Explained(w, p, fresh, paid, AcceptedTerms')
  <2> HIDE DEF paid
  <2> QED BY <1>18, <1>19, <1>20 DEF Contract!Explained
<1>22. Statements[w] = p /\ Statements'[w] = q
  BY DEF Statements, p, q
<1> QED
  BY <1>11, <1>14, <1>21, <1>22 DEF Continues, fresh

\* COMMIT is a settlement in its wallet: the fates of rows, the movements and what
\* callers are told change together.
LEMMA CommitSettles ==
  ASSUME ContractInv, ContractInv', NEW a \in Actors, Commit(a),
         NEW w \in Wallets, w = WalletOf(a)
  PROVE  Contract!Settle(w)
<1> DEFINE settled == { n \in TransactionNames : Fates'[n] # Fates[n] }
           lines == Statements[w]
           fresh == SubSeq(Statements'[w], Len(lines) + 1, Len(Statements'[w]))
<1>1. \A n \in TransactionNames : NameKept(n) \/ NameSettled(n, w)
  BY CommitNames
<1>2. ASSUME NEW n \in settled
      PROVE  /\ Fates'[n] \in Contract!Follow(Fates[n])
             /\ AcceptedTerms'[n] \in { TermsOf(s) : s \in Submissions }
             /\ AcceptedTerms'[n].wallet = w
             /\ Fates[n] # "UNKNOWN" => AcceptedTerms'[n] = AcceptedTerms[n]
             /\ PastFates'[n] = PastFates[n] \cup {Fates'[n]}
  <2>1. NameSettled(n, w)
    BY <1>1 DEF NameKept
  <2>2. PICK d \in Stored(row') :
          /\ sub[d].wallet = w /\ sub[d] \in Submissions
          /\ AcceptedTerms'[n] = TermsOf(sub[d])
    BY <2>1 DEF NameSettled
  <2>3. AcceptedTerms'[n].wallet = w
    BY <2>2 DEF TermsOf
  <2>4. \/ /\ Fates[n] = "UNKNOWN" /\ Fates'[n] \in StoredStatuses
           /\ PastFates[n] = {} /\ PastFates'[n] = {Fates'[n]}
        \/ /\ Fates[n] = "PENDING_REFERENCE" /\ Terminal(Fates'[n])
           /\ AcceptedTerms[n] = AcceptedTerms'[n]
           /\ PastFates[n] = {"PENDING_REFERENCE"}
           /\ PastFates'[n] = {"PENDING_REFERENCE", Fates'[n]}
    BY <2>1 DEF NameSettled
  <2>5. /\ Fates'[n] \in Contract!Follow(Fates[n])
        /\ Fates[n] # "UNKNOWN" => AcceptedTerms'[n] = AcceptedTerms[n]
        /\ PastFates'[n] = PastFates[n] \cup {Fates'[n]}
    BY <2>4 DEF Contract!Follow, StoredStatuses, Terminal
  <2> QED BY <2>2, <2>3, <2>5
<1>3. ASSUME NEW n \in TransactionNames \ settled
      PROVE  AcceptedTerms'[n] = AcceptedTerms[n] /\ PastFates'[n] = PastFates[n]
  <2>1. Fates'[n] = Fates[n]
    OBVIOUS
  <2>2. ~NameSettled(n, w)
    BY <2>1 DEF NameSettled, StoredStatuses, Terminal
  <2> QED BY <1>1, <2>2 DEF NameKept
<1>4. PastFates' = [n \in TransactionNames |-> PastFates[n] \cup IF n \in settled THEN {Fates'[n]} ELSE {}]
  <2>1. \A n \in TransactionNames :
          PastFates'[n] = PastFates[n] \cup IF n \in settled THEN {Fates'[n]} ELSE {}
    BY <1>2, <1>3
  <2>2. PastFates' = [n \in TransactionNames |-> PastFates'[n]]
    BY DEF PastFates
  <2> HIDE DEF settled
  <2> QED BY <2>1, <2>2
<1>5. /\ Statements' = [Statements EXCEPT ![w] = @ \o fresh]
      /\ Contract!Explained(w, lines, fresh,
           { n \in TransactionNames : /\ Fates'[n] # Fates[n] /\ Fates'[n] = "PROCESSED"
                                      /\ Contract!Moves(AcceptedTerms'[n]) },
           AcceptedTerms')
  BY CommitLines
<1>6. { n \in TransactionNames : /\ Fates'[n] # Fates[n] /\ Fates'[n] = "PROCESSED"
                                 /\ Contract!Moves(AcceptedTerms'[n]) }
        = { n \in settled : Fates'[n] = "PROCESSED" /\ Contract!Moves(AcceptedTerms'[n]) }
  OBVIOUS
<1>7. Contract!TellOnlyFates
  <2>1. ASSUME NEW d \in Deliveries, pc[d] = "done"
        PROVE  pc'[d] = "done" /\ resp'[d] = resp[d] /\ sub'[d] = sub[d]
    <3>1. d # a /\ TypeOK
      BY <2>1 DEF Commit, ContractInv, AnswersInv, BooksInv, SettlementInv
    <3> QED BY <2>1, <3>1 DEF Commit, Close, TypeOK, Actors
  <2> QED BY <2>1, AnswersTell
<1> HIDE DEF fresh, lines
<1>8. Contract!Explained(w, lines, fresh,
        { n \in settled : Fates'[n] = "PROCESSED" /\ Contract!Moves(AcceptedTerms'[n]) }, AcceptedTerms')
  BY <1>5, <1>6
<1> HIDE DEF settled
<1> QED
  BY <1>2, <1>3, <1>4, <1>5, <1>7, <1>8 DEF Contract!Settle, settled, fresh, lines

-----------------------------------------------------------------------------
(* The refinement *)

\* At first nothing is known, stated or told.
LEMMA InitRefines == Init => Contract!Init
<1> SUFFICES ASSUME Init PROVE Contract!Init
  OBVIOUS
<1>1. Stored(row) = {} /\ \A d \in Deliveries : pc[d] = "idle"
  BY DEF Init, Stored, NoRow, Actors
<1>2. \A n : RowsNamed(n) = {}
  BY <1>1 DEF RowsNamed
<1>3. /\ AcceptedTerms = [n \in TransactionNames |-> NoSubmission]
      /\ Fates = [n \in TransactionNames |-> "UNKNOWN"]
      /\ PastFates = [n \in TransactionNames |-> {}]
  BY <1>2 DEF AcceptedTerms, Fates, PastFates
<1>4. ToldFates = {}
  BY <1>1 DEF ToldFates, Told
<1>5. ASSUME NEW w \in Wallets PROVE StatementOf(w) = <<>>
  <2>1. ledger[w] = OpeningEntries(w) /\ Len(OpeningEntries(w)) \in Nat
    BY <1>5 DEF Init, OpeningEntries
  <2>2. StatementOf(w) = [i \in 1..0 |-> Line(ledger[w][i + Len(OpeningEntries(w))])]
    BY <2>1 DEF StatementOf
  <2> QED BY <2>2
<1>6. Statements = [w \in Wallets |-> <<>>]
  BY <1>5 DEF Statements
<1> QED
  BY <1>3, <1>4, <1>6 DEF Contract!Init

\* Every step is a settlement of one wallet, or tells somebody something, or nothing.
LEMMA NextRefines ==
  ContractInv /\ ContractInv' /\ [Next]_vars => [Contract!Next]_(Contract!cvars)
<1> SUFFICES ASSUME ContractInv, ContractInv', [Next]_vars
             PROVE  Contract!Next
  OBVIOUS
<1>1. ASSUME NEW a \in Actors, Commit(a) PROVE Contract!Next
  <2>1. PICK w \in Wallets : w = WalletOf(a)
    BY <1>1, CommitFacts DEF ContractInv, AnswersInv
  <2>2. Contract!Settle(w)
    BY <1>1, <2>1, CommitSettles
  <2> QED BY <2>2 DEF Contract!Next
<1>2. CASE (\E a \in Actors : Aside(a)) \/ UNCHANGED vars
  BY <1>2, AsideTells DEF Contract!Next
<1> QED
  BY <1>1, <1>2, StepsAside

\* Settlement implements the contract, for any submissions, wallets, deliveries and
\* workers: through duplicates, races, cascades, retries and crashes a transaction
\* has one fate, its movement is made in the same step and once, no balance goes
\* below zero, and what callers are told is a fate that the transaction has or had.
THEOREM SettlementKeepsContract == Spec => ContractKept
  BY InitRefines, NextRefines, ContractInvariant, PTL DEF Spec, ContractKept, Contract!Spec
=============================================================================
