------------------------- MODULE WagerAnswersProofs -------------------------
(***************************************************************************)
(* What callers, the inbox and the outbox are told, for every value of the *)
(* constants of WagerSettlement: the inbox follows the effect of a         *)
(* message, the outbox tells the story of each transaction and entry        *)
(* exactly once, and replays repeat what the outbox tells.                 *)
(***************************************************************************)
EXTENDS WagerBooksProofs

-----------------------------------------------------------------------------
(* The invariant *)

IdleIsEmpty == \A d \in Deliveries : pc[d] = "idle" => sub[d] = NoSubmission

\* Between resolveExisting and markInboxProcessed: the message's effect is stored.
MarksEffect ==
  \A d \in Deliveries : pc[d] = "mark" => \E e \in Stored(row) : SamePayload(sub[d], sub[e])

\* balance is the one after e's own entry, if e has one in entries.
FromOwnEntry(balance, e, entries) ==
  \A i \in DOMAIN entries : entries[i].tx = e => balance = entries[i].after

\* A replay of a terminal row reports the status that the row still has and, when
\* the row moved money, the balance of its entry in the ledger as it is now.
ReplayedTruly(answer) ==
  answer.outcome = "replay" /\ Terminal(answer.status) =>
    /\ answer.tx \in Stored(row) /\ answer.status = row[answer.tx].status
    /\ FromOwnEntry(answer.balance, answer.tx, ledger[sub[answer.tx].wallet])

AnswersInv ==
  /\ BooksInv
  /\ IdleIsEmpty
  /\ InboxFollowsEffect
  /\ MarksEffect
  /\ \A d \in Deliveries : ReplayedTruly(resp[d])

-----------------------------------------------------------------------------
(* What a replay reports does not change *)

\* A terminal row gets no entry any more: what was reported from its own entry, or
\* without one, is true of the ledger that has grown at its end.
LEMMA OwnEntryStays ==
  ASSUME BooksInv, BooksInv', NEW e \in Stored(row),
         row'[e] = row[e], UNCHANGED sub, NEW balance,
         NEW fresh \in Seq(Entries), ledger'[sub[e].wallet] = ledger[sub[e].wallet] \o fresh,
         FromOwnEntry(balance, e, ledger[sub[e].wallet])
  PROVE  FromOwnEntry(balance, e, ledger'[sub[e].wallet])
<1> DEFINE w == sub[e].wallet
           es == ledger[w]
           all == ledger'[w]
<1>1. TypeOK /\ w \in Wallets /\ e \in Deliveries
  BY DEF BooksInv, SettlementInv, RowsWellPlaced, WellPlaced, Stored
<1>2. es \in Seq(Entries) /\ all = es \o fresh
  BY <1>1 DEF TypeOK
<1> HIDE DEF es, all
<1>3. \A i \in DOMAIN es : i \in DOMAIN all /\ all[i] = es[i]
  BY <1>2
<1>4. Books(sub, w, row, es) /\ Books(sub, w, row', all)
  BY <1>1 DEF BooksInv, BooksKept, es, all
<1>5. \A i, j \in DOMAIN all : all[i].tx = all[j].tx => i = j
  BY <1>4 DEF Books, RowsHaveEntries
<1>6. ASSUME NEW i \in DOMAIN all, all[i].tx = e PROVE balance = all[i].after
  <2>1. e # OpeningTx
    BY ActorAssumption, <1>1
  <2>2. e \in RowsOf(sub, w, row') /\ Moved(sub, row', e)
    BY <1>4, <1>6, <2>1 DEF Books, EntriesHaveRows
  <2>3. e \in RowsOf(sub, w, row) /\ Moved(sub, row, e)
    BY <2>2 DEF RowsOf, Moved
  <2>4. PICK j \in DOMAIN es : es[j].tx = e
    BY <1>4, <2>3 DEF Books, RowsHaveEntries
  <2>5. i = j
    BY <1>3, <1>5, <1>6, <2>4
  <2> QED BY <1>3, <2>4, <2>5 DEF FromOwnEntry, es, w
<1> QED
  BY <1>6 DEF FromOwnEntry, all, w

-----------------------------------------------------------------------------
(* The steps that store nothing *)

\* What a delivery may be left with when nothing is stored.
LeftWith(d) ==
  /\ pc[d] \notin {"idle", "done"} /\ pc'[d] # "idle"
  /\ pc'[d] = "mark" => \E e \in Stored(row) : SamePayload(sub[d], sub[e])
  /\ ReplayedTruly(resp'[d])
  /\ pc'[d] = "done" /\ resp'[d].outcome = "replay" /\ sub[d].message # NoMessage
       => sub[d].message \in inbox'

\* The inbox as the step of a may leave it.
InboxKept(a) ==
  \/ inbox' = inbox
  \/ /\ a \in Deliveries /\ inbox' = RecordInbox(sub[a])
     /\ \E e \in Stored(row) : SamePayload(sub[a], sub[e])

\* A step of a that stores nothing.
LEMMA AsideAnswers ==
  ASSUME AnswersInv, BooksInv', NEW a \in Actors, UNCHANGED <<sub, row, ledger>>,
         \A b \in Deliveries \ {a} : pc'[b] = pc[b] /\ resp'[b] = resp[b],
         a \in Deliveries => LeftWith(a),
         InboxKept(a)
  PROVE  AnswersInv'
<1>1. /\ BooksInv /\ SettlementInv /\ TypeOK /\ IdleIsEmpty /\ InboxFollowsEffect /\ MarksEffect
      /\ \A d \in Deliveries : ReplayedTruly(resp[d])
  BY DEF AnswersInv, BooksInv, SettlementInv
<1>2. Stored(row)' = Stored(row) /\ \A x : ReplayedTruly(x)' <=> ReplayedTruly(x)
  BY DEF ReplayedTruly, Stored
<1>3. \A d \in Deliveries : ReplayedTruly(resp[d])'
  <2>1. \A d \in Deliveries : ReplayedTruly(resp'[d])
    BY <1>1 DEF LeftWith
  <2> QED BY <1>2, <2>1
<1>4. IdleIsEmpty'
  BY <1>1 DEF IdleIsEmpty, LeftWith
<1>5. MarksEffect'
  BY <1>1, <1>2 DEF MarksEffect, LeftWith
<1>6. a \in Deliveries => sub[a] # NoSubmission /\ a \notin Stored(row)
  BY <1>1, ActorAssumption
     DEF LeftWith, SettlementInv, RowsWellPlaced, BooksInv, StoredOnce, Stored
<1>7. inbox \subseteq inbox' /\ \A m \in inbox' \ inbox :
        a \in Deliveries /\ sub[a].message = m /\ \E e \in Stored(row) : SamePayload(sub[a], sub[e])
  BY DEF InboxKept, RecordInbox
<1>8. InboxFollowsEffect'
  <2>1. ASSUME NEW m \in inbox'
        PROVE  \E d \in Deliveries, e \in Stored(row) :
                 /\ sub[d] # NoSubmission /\ sub[d].message = m
                 /\ SamePayload(sub[d], sub[e])
    BY <1>1, <1>6, <1>7, <2>1 DEF InboxFollowsEffect
  <2>2. ASSUME NEW d \in Deliveries, sub[d] # NoSubmission, sub[d].message # NoMessage,
               d \in Stored(row) \/ (pc'[d] = "done" /\ resp'[d].outcome = "replay")
        PROVE  sub[d].message \in inbox'
    <3>1. CASE d = a
      BY <1>6, <2>2, <3>1 DEF LeftWith
    <3>2. CASE d # a
      BY <1>1, <1>7, <2>2, <3>2 DEF InboxFollowsEffect
    <3> QED BY <3>1, <3>2
  <2> QED BY <1>2, <2>1, <2>2 DEF InboxFollowsEffect
<1> QED
  BY <1>3, <1>4, <1>5, <1>8 DEF AnswersInv

\* An actor that goes on without having told anybody anything.
LEMMA SilentAnswers ==
  ASSUME AnswersInv, BooksInv', NEW a \in Actors, UNCHANGED <<sub, row, ledger, inbox, resp>>,
         NEW next, pc' = [pc EXCEPT ![a] = next],
         a \in Deliveries => pc[a] \notin {"idle", "done"} /\ next \notin {"idle", "mark", "done"}
  PROVE  AnswersInv'
<1>1. TypeOK /\ \A d \in Deliveries : ReplayedTruly(resp[d])
  BY DEF AnswersInv, BooksInv, SettlementInv
<1>2. a \in Deliveries => LeftWith(a)
  BY <1>1 DEF LeftWith, TypeOK
<1>3. \A b \in Deliveries \ {a} : pc'[b] = pc[b] /\ resp'[b] = resp[b]
  BY <1>1 DEF TypeOK, Actors
<1> QED
  BY <1>2, <1>3, AsideAnswers DEF InboxKept

\* A view of a stored row reports it, and is a replay of the same payload only.
LEMMA ViewIsTrue ==
  ASSUME BooksInv, NEW s, NEW e \in Stored(row), NEW answer \in ViewsForExisting(s, e)
  PROVE  /\ ReplayedTruly(answer)
         /\ answer.outcome = "replay" => SamePayload(s, sub[e])
<1> DEFINE es == ledger[sub[e].wallet]
<1>1. \A i, j \in DOMAIN es : es[i].tx = es[j].tx => i = j
  <2>1. sub[e].wallet \in Wallets
    BY DEF BooksInv, SettlementInv, RowsWellPlaced, WellPlaced, Stored
  <2> QED BY <2>1 DEF BooksInv, BooksKept, Books, RowsHaveEntries
<1>2. \A balance \in ObservedBalances(e) : FromOwnEntry(balance, e, es)
  BY <1>1 DEF ObservedBalances, FromOwnEntry
<1>3. CASE SamePayload(s, sub[e])
  <2>1. PICK balance : /\ answer = Replay(e, balance)
                       /\ row[e].status # "PENDING_REFERENCE" => balance \in ObservedBalances(e)
    BY <1>3 DEF ViewsForExisting, ReplaysOf
  <2>2. /\ answer.outcome = "replay" /\ answer.tx = e /\ answer.status = row[e].status
        /\ answer.balance = balance
    BY <2>1 DEF Replay
  <2> QED BY <1>2, <1>3, <2>1, <2>2 DEF ReplayedTruly, Terminal
<1>4. CASE ~SamePayload(s, sub[e])
  BY <1>4 DEF ViewsForExisting, ReplayedTruly, NoAnswer
<1> QED
  BY <1>3, <1>4

\* A delivery that is answered without a new row.
LEMMA AnsweredAnswers ==
  ASSUME AnswersInv, BooksInv', NEW d \in Deliveries,
         AnswerKnown(d) \/ AnswerAfterLock(d) \/ WalletNotFound(d) \/ WrongPlayer(d)
  PROVE  AnswersInv'
<1>1. TypeOK /\ d \in Actors /\ pc[d] \notin {"idle", "done"}
  BY DEF AnswersInv, BooksInv, SettlementInv, Actors, AnswerKnown, AnswerAfterLock,
         WalletNotFound, WrongPlayer
<1>2. PICK answer :
        /\ Answer(d, answer) /\ ReplayedTruly(answer)
        /\ answer.outcome = "replay" => \E e \in Stored(row) : SamePayload(sub[d], sub[e])
  <2>1. CASE AnswerKnown(d) \/ AnswerAfterLock(d)
    <3>1. PICK e \in ByKey(sub[d]) : \E answer \in ViewsForExisting(sub[d], e) : Answer(d, answer)
      BY <2>1 DEF AnswerKnown, AnswerAfterLock
    <3>2. PICK answer \in ViewsForExisting(sub[d], e) : Answer(d, answer)
      BY <3>1
    <3>3. e \in Stored(row) /\ BooksInv
      BY DEF ByKey, AnswersInv
    <3> QED BY <3>2, <3>3, ViewIsTrue
  <2>2. CASE WalletNotFound(d) \/ WrongPlayer(d)
    <3>1. \E o \in {"wallet_not_found", "invalid_payload"} :
            Answer(d, [NoAnswer EXCEPT !.outcome = o])
      BY <2>2 DEF WalletNotFound, WrongPlayer
    <3>2. \A o : [NoAnswer EXCEPT !.outcome = o].outcome = o
      BY DEF NoAnswer
    <3> QED BY <3>1, <3>2 DEF ReplayedTruly
  <2> QED BY <2>1, <2>2
<1>3. /\ pc'[d] = "done" /\ resp'[d] = answer
      /\ inbox' = IF answer.outcome = "replay" THEN RecordInbox(sub[d]) ELSE inbox
      /\ UNCHANGED <<sub, row, ledger>>
      /\ \A b \in Deliveries \ {d} : pc'[b] = pc[b] /\ resp'[b] = resp[b]
  BY <1>1, <1>2 DEF Answer, Close, committed, TypeOK, Actors
<1>4. LeftWith(d)
  BY <1>1, <1>2, <1>3 DEF LeftWith, RecordInbox
<1>5. InboxKept(d)
  BY <1>2, <1>3 DEF InboxKept
<1> QED
  BY <1>1, <1>3, <1>4, <1>5, AsideAnswers

\* A transaction that is rolled back or has nothing to do.
LEMMA RolledBackAnswers ==
  ASSUME AnswersInv, BooksInv', NEW a \in Actors,
         \/ a \in Workers /\ SkipRow(a)
         \/ a \in Deliveries /\ CommitClash(a)
         \/ CommitRefused(a)
         \/ Crash(a)
  PROVE  AnswersInv'
<1>1. TypeOK /\ \A d \in Deliveries : ReplayedTruly(resp[d])
  BY DEF AnswersInv, BooksInv, SettlementInv
<1>2. /\ UNCHANGED <<sub, row, ledger, inbox>>
      /\ \A b \in Deliveries \ {a} : pc'[b] = pc[b] /\ resp'[b] = resp[b]
      /\ a \in Deliveries => pc[a] \notin {"idle", "done"}
  BY <1>1 DEF SkipRow, CommitClash, CommitRefused, Crash, Close, committed, TypeOK, Actors
<1>3. ASSUME a \in Deliveries PROVE LeftWith(a)
  <2>1. CASE CommitClash(a)
    BY <1>1, <1>2, <1>3, <2>1 DEF LeftWith, CommitClash, Close, TypeOK
  <2>2. CASE CommitRefused(a) \/ Crash(a)
    <3>1. pc'[a] = "done" /\ resp'[a].outcome \in {"failed", "lost"}
      BY <1>1, <1>3, <2>2 DEF CommitRefused, Crash, Close, TypeOK, NoAnswer, Answers
    <3> QED BY <1>2, <1>3, <3>1 DEF LeftWith, ReplayedTruly
  <2> QED BY <1>3, <2>1, <2>2, ActorAssumption
<1> QED
  BY <1>2, <1>3, AsideAnswers DEF InboxKept

\* A delivery that lost the race for its key: it is answered with the winner's row,
\* and a replay is marked in the inbox in a transaction of its own.
LEMMA ResolvedAnswers ==
  ASSUME AnswersInv, BooksInv', NEW d \in Deliveries, ResolveExisting(d) \/ MarkInboxProcessed(d)
  PROVE  AnswersInv'
<1>1. /\ TypeOK /\ d \in Actors /\ MarksEffect /\ pc[d] \in {"resolve", "mark"}
      /\ \A b \in Deliveries : ReplayedTruly(resp[b])
  BY DEF AnswersInv, BooksInv, SettlementInv, Actors, ResolveExisting, MarkInboxProcessed
<1>2. UNCHANGED <<sub, row, ledger>>
  BY DEF ResolveExisting, MarkInboxProcessed, committed
<1>3. \A b \in Deliveries \ {d} : pc'[b] = pc[b] /\ resp'[b] = resp[b]
  BY <1>1 DEF ResolveExisting, MarkInboxProcessed, TypeOK, Actors
<1>4. CASE ResolveExisting(d)
  <2>0. PICK e \in Clashing(sub[d]) : \E answer \in ViewsForExisting(sub[d], e) :
          /\ resp' = [resp EXCEPT ![d] = answer]
          /\ pc' = [pc EXCEPT ![d] = IF answer.outcome = "replay" THEN "mark" ELSE "done"]
    BY <1>4 DEF ResolveExisting
  <2>1. PICK answer \in ViewsForExisting(sub[d], e) :
          /\ resp' = [resp EXCEPT ![d] = answer]
          /\ pc' = [pc EXCEPT ![d] = IF answer.outcome = "replay" THEN "mark" ELSE "done"]
    BY <2>0
  <2>2. e \in Stored(row) /\ BooksInv
    BY DEF Clashing, AnswersInv
  <2>3. ReplayedTruly(answer) /\ (answer.outcome = "replay" => SamePayload(sub[d], sub[e]))
    BY <2>2, ViewIsTrue
  <2>4. resp'[d] = answer /\ pc'[d] = IF answer.outcome = "replay" THEN "mark" ELSE "done"
    BY <1>1, <2>1 DEF TypeOK
  <2>5. LeftWith(d)
    BY <1>1, <2>2, <2>3, <2>4 DEF LeftWith
  <2>6. inbox' = inbox
    BY <1>4 DEF ResolveExisting
  <2> QED BY <1>1, <1>2, <1>3, <2>5, <2>6, AsideAnswers DEF InboxKept
<1>5. CASE MarkInboxProcessed(d)
  <2>1. pc[d] = "mark" /\ pc'[d] = "done" /\ resp' = resp /\ inbox' = RecordInbox(sub[d])
    BY <1>1, <1>5 DEF MarkInboxProcessed, TypeOK
  <2>2. \E e \in Stored(row) : SamePayload(sub[d], sub[e])
    BY <1>1, <2>1 DEF MarksEffect
  <2>3. LeftWith(d)
    BY <1>1, <2>1 DEF LeftWith, RecordInbox
  <2> QED BY <1>1, <1>2, <1>3, <2>1, <2>2, <2>3, AsideAnswers DEF InboxKept
<1> QED
  BY <1>4, <1>5

\* The steps of a transaction before its COMMIT, and the pick of a due row.
LEMMA UnderWayAnswers ==
  ASSUME AnswersInv, BooksInv', NEW a \in Actors,
         \/ a \in Deliveries /\ (RequestLock(a) \/ Process(a))
         \/ a \in Workers /\ (PickDue(a) \/ Reprocess(a) \/ Reschedule(a) \/ Expire(a))
         \/ AcquireLock(a) \/ SettleDependent(a) \/ NextReference(a)
  PROVE  AnswersInv'
<1>1. UNCHANGED <<sub, row, ledger, inbox, resp>> /\ (a \in Deliveries => pc[a] \notin {"idle", "done"})
  BY ActorAssumption
     DEF RequestLock, Process, PickDue, Reprocess, Reschedule, Expire, AcquireLock, SettleDependent,
         NextReference, Apply, committed
<1>2. \E next \in {"lock", "decide", "cascade", "commit"} : pc' = [pc EXCEPT ![a] = next]
  <2>1. CASE SettleDependent(a)
    <3>1. pc' = pc /\ pc[a] = "cascade" /\ TypeOK
      BY <2>1 DEF SettleDependent, AnswersInv, BooksInv, SettlementInv
    <3>2. pc' = [pc EXCEPT ![a] = "cascade"]
      BY <3>1 DEF TypeOK
    <3> QED BY <3>2
  <2>2. CASE ~SettleDependent(a)
    BY <2>2 DEF RequestLock, Process, PickDue, Reprocess, Reschedule, Expire, AcquireLock,
                NextReference, Apply
  <2> QED BY <2>1, <2>2
<1> QED
  BY <1>1, <1>2, SilentAnswers

-----------------------------------------------------------------------------
(* New submissions and COMMIT *)

\* A new submission was in nobody's way: its delivery had submitted nothing.
LEMMA SubmitAnswers ==
  ASSUME AnswersInv, BooksInv', NEW d \in Deliveries, NEW s \in Submissions, Submit(d, s)
  PROVE  AnswersInv'
<1>1. /\ BooksInv /\ SettlementInv /\ TypeOK /\ d \in Actors /\ pc[d] = "idle"
      /\ IdleIsEmpty /\ InboxFollowsEffect /\ MarksEffect
      /\ \A b \in Deliveries : ReplayedTruly(resp[b])
      /\ UNCHANGED <<row, ledger, inbox, resp>>
      /\ sub' = [sub EXCEPT ![d] = s] /\ pc' = [pc EXCEPT ![d] = "lookup"]
  BY DEF AnswersInv, BooksInv, SettlementInv, Actors, Submit, committed
<1>2. /\ pc'[d] = "lookup" /\ \A b \in Deliveries \ {d} : pc'[b] = pc[b]
      /\ \A e \in Deliveries \ {d} : sub'[e] = sub[e]
  BY <1>1 DEF TypeOK, Actors
<1>3. sub[d] = NoSubmission /\ d \notin Stored(row) /\ Stored(row)' = Stored(row)
  BY <1>1 DEF IdleIsEmpty, SettlementInv, RowsWellPlaced, WellPlaced, Stored
<1>4. \A e \in Stored(row) : sub'[e] = sub[e]
  BY <1>2, <1>3 DEF Stored
<1>5. \A b \in Deliveries : ReplayedTruly(resp[b])'
  BY <1>1, <1>3, <1>4 DEF ReplayedTruly
<1>6. IdleIsEmpty'
  BY <1>1, <1>2 DEF IdleIsEmpty
<1>7. MarksEffect'
  BY <1>1, <1>2, <1>3, <1>4 DEF MarksEffect
<1>8. InboxFollowsEffect'
  <2>1. ASSUME NEW m \in inbox
        PROVE  \E b \in Deliveries, e \in Stored(row) :
                 /\ sub'[b] # NoSubmission /\ sub'[b].message = m
                 /\ SamePayload(sub'[b], sub'[e])
    <3>1. PICK b \in Deliveries, e \in Stored(row) :
            /\ sub[b] # NoSubmission /\ sub[b].message = m
            /\ SamePayload(sub[b], sub[e])
      BY <1>1 DEF InboxFollowsEffect
    <3>2. sub'[b] = sub[b] /\ sub'[e] = sub[e]
      BY <1>2, <1>3, <1>4, <3>1
    <3> QED BY <3>1, <3>2
  <2>2. ASSUME NEW b \in Deliveries, sub'[b] # NoSubmission, sub'[b].message # NoMessage,
               b \in Stored(row) \/ (pc'[b] = "done" /\ resp[b].outcome = "replay")
        PROVE  sub'[b].message \in inbox
    BY <1>1, <1>2, <1>3, <2>2 DEF InboxFollowsEffect
  <2> QED BY <1>1, <1>3, <2>1, <2>2 DEF InboxFollowsEffect
<1> QED
  BY <1>5, <1>6, <1>7, <1>8 DEF AnswersInv

\* COMMIT stores the effect and the inbox row together.
LEMMA CommitAnswers ==
  ASSUME AnswersInv, BooksInv', NEW a \in Actors, Commit(a)
  PROVE  AnswersInv'
<1> DEFINE dr == draft[a]
           w == WalletOf(a)
<1>1. /\ BooksInv /\ SettlementInv /\ TypeOK /\ DraftInOrder(a) /\ pc[a] = "commit"
      /\ IdleIsEmpty /\ InboxFollowsEffect /\ MarksEffect
      /\ \A b \in Deliveries : ReplayedTruly(resp[b])
      /\ UNCHANGED sub
  BY BooksInvParts DEF AnswersInv, SettlementInv, Commit
<1>2. /\ w \in Wallets /\ dr \in Drafts /\ ledger'[w] = LedgerAfter(a)
      /\ \A x \in Wallets \ {w} : ledger'[x] = ledger[x]
      /\ \A e \in Stored(dr.rows) :
           /\ row'[e] = dr.rows[e]
           /\ row[e].status = "PENDING_REFERENCE" \/ (e = a /\ row[e].status = "ABSENT")
      /\ \A e \in Deliveries \ Stored(dr.rows) : row'[e] = row[e]
      /\ pc'[a] = IF a \in Deliveries THEN "done" ELSE "idle"
      /\ \A b \in Actors \ {a} : pc'[b] = pc[b]
  BY <1>1, CommitFacts
<1>3. Stored(row) \subseteq Stored(row') /\ Stored(row') \subseteq Stored(row) \cup ({a} \cap Deliveries)
  BY <1>2 DEF Stored
<1>4. a \in Deliveries => /\ a \in Stored(row') /\ sub[a] # NoSubmission /\ a \notin Stored(row)
                          /\ inbox' = RecordInbox(sub[a]) /\ resp'[a].outcome = "settled"
                          /\ \A b \in Deliveries \ {a} : resp'[b] = resp[b]
  <2> SUFFICES ASSUME a \in Deliveries
               PROVE  /\ a \in Stored(row') /\ sub[a] # NoSubmission /\ a \notin Stored(row)
                      /\ inbox' = RecordInbox(sub[a]) /\ resp'[a].outcome = "settled"
                      /\ \A b \in Deliveries \ {a} : resp'[b] = resp[b]
    OBVIOUS
  <2>1. a \in Stored(dr.rows)
    BY <1>1 DEF DraftInOrder, Writing, TxOf
  <2>2. a \in Stored(row')
    BY <1>2, <2>1 DEF Stored
  <2>3. sub[a] # NoSubmission
    BY <1>1, ActorAssumption DEF SettlementInv, RowsWellPlaced
  <2>4. inbox' = RecordInbox(sub[a]) /\ resp'[a].outcome = "settled"
        /\ \A b \in Deliveries \ {a} : resp'[b] = resp[b]
    BY <1>1 DEF Commit, TypeOK
  <2>5. a \notin Stored(row)
    BY <1>1 DEF BooksInv, StoredOnce, Stored
  <2> QED BY <2>2, <2>3, <2>4, <2>5
<1>5. a \notin Deliveries => inbox' = inbox /\ resp' = resp
  BY DEF Commit
<1>6. inbox \subseteq inbox'
  BY <1>4, <1>5 DEF RecordInbox
<1> HIDE DEF dr, w
<1>7. ASSUME NEW b \in Deliveries PROVE ReplayedTruly(resp[b])'
  <2> SUFFICES ASSUME NEW answer, answer = resp'[b],
                      answer.outcome = "replay", Terminal(answer.status)
               PROVE  ReplayedTruly(answer)'
    <3>1. \A x : x = resp'[b] => ReplayedTruly(x)'
      BY DEF ReplayedTruly
    <3> QED BY <3>1
  <2>1. answer = resp[b]
    BY <1>4, <1>5
  <2>2. PICK e \in Stored(row) : e = answer.tx
    BY <1>1, <2>1 DEF ReplayedTruly
  <2>3. /\ answer.status = row[e].status /\ row'[e] = row[e]
        /\ FromOwnEntry(answer.balance, e, ledger[sub[e].wallet])
    <3>1. /\ answer.status = row[e].status
          /\ FromOwnEntry(answer.balance, e, ledger[sub[e].wallet])
      BY <1>1, <2>1, <2>2 DEF ReplayedTruly
    <3> QED BY <1>2, <3>1 DEF Terminal, Stored
  <2>4. \E fresh \in Seq(Entries) : ledger'[sub[e].wallet] = ledger[sub[e].wallet] \o fresh
    <3> DEFINE x == sub[e].wallet
    <3>1. x \in Wallets
      BY <1>1, <2>2 DEF SettlementInv, RowsWellPlaced, WellPlaced, Stored
    <3>2. CASE x = w
      <4>1. ledger'[x] = ledger[x] \o dr.entries /\ dr.entries \in Seq(Entries)
        BY <1>2, <3>2 DEF LedgerAfter, dr, w, Drafts
      <4> QED BY <4>1
    <3>3. CASE x # w
      <4>1. ledger'[x] = ledger[x] /\ ledger[x] \in Seq(Entries)
        BY <1>1, <1>2, <3>1, <3>3 DEF TypeOK
      <4>2. ledger[x] \o <<>> = ledger[x] /\ <<>> \in Seq(Entries)
        BY <4>1
      <4> QED BY <4>1, <4>2
    <3> QED BY <3>2, <3>3
  <2>5. FromOwnEntry(answer.balance, e, ledger'[sub[e].wallet])
    BY <1>1, <2>3, <2>4, OwnEntryStays
  <2>6. e \in Stored(row)'
    BY <2>3 DEF Stored
  <2> QED BY <1>1, <2>2, <2>3, <2>5, <2>6 DEF ReplayedTruly
<1>8. IdleIsEmpty'
  BY <1>1, <1>2 DEF IdleIsEmpty, Actors
<1>9. MarksEffect'
  <2>1. \A d \in Deliveries : pc'[d] = "mark" => pc[d] = "mark"
    BY <1>2 DEF Actors
  <2>2. Stored(row)' = Stored(row')
    BY DEF Stored
  <2> QED BY <1>1, <1>3, <2>1, <2>2 DEF MarksEffect
<1>10. InboxFollowsEffect'
  <2>1. ASSUME NEW m \in inbox'
        PROVE  \E b \in Deliveries, e \in Stored(row') :
                 /\ sub[b] # NoSubmission /\ sub[b].message = m
                 /\ SamePayload(sub[b], sub[e])
    <3>1. CASE m \in inbox
      BY <1>1, <1>3, <3>1 DEF InboxFollowsEffect
    <3>2. CASE m \notin inbox
      <4>1. a \in Deliveries /\ sub[a].message = m
        BY <1>4, <1>5, <2>1, <3>2 DEF RecordInbox
      <4> QED BY <1>4, <4>1 DEF SamePayload
    <3> QED BY <3>1, <3>2
  <2>2. ASSUME NEW b \in Deliveries, sub[b] # NoSubmission, sub[b].message # NoMessage,
               b \in Stored(row') \/ (pc'[b] = "done" /\ resp'[b].outcome = "replay")
        PROVE  sub[b].message \in inbox'
    <3>1. CASE b = a
      BY <1>4, <2>2, <3>1 DEF RecordInbox
    <3>2. CASE b # a
      <4>1. pc'[b] = pc[b] /\ resp'[b] = resp[b]
        BY <1>2, <1>4, <1>5, <3>2 DEF Actors
      <4>2. b \in Stored(row') => b \in Stored(row)
        BY <1>3, <3>2
      <4> QED BY <1>1, <1>6, <2>2, <4>1, <4>2 DEF InboxFollowsEffect
    <3> QED BY <3>1, <3>2
  <2>3. Stored(row)' = Stored(row')
    BY DEF Stored
  <2> QED BY <1>1, <2>1, <2>2, <2>3 DEF InboxFollowsEffect
<1> QED
  BY <1>7, <1>8, <1>9, <1>10 DEF AnswersInv

-----------------------------------------------------------------------------
(* The theorems *)

\* At first nobody has submitted or been told anything.
LEMMA InitAnswers == Init => AnswersInv
<1> SUFFICES ASSUME Init PROVE AnswersInv
  OBVIOUS
<1>1. BooksInv
  BY InitBooks
<1>2. /\ \A d \in Deliveries : /\ sub[d] = NoSubmission /\ pc[d] = "idle"
                               /\ resp[d].outcome = "NONE"
      /\ inbox = {}
  BY DEF Init, NoAnswer, Actors
<1> QED
  BY <1>1, <1>2 DEF AnswersInv, IdleIsEmpty, InboxFollowsEffect, MarksEffect, ReplayedTruly

\* Every step of the specification keeps the invariant.
LEMMA NextAnswers ==
  AnswersInv /\ [Next]_vars => AnswersInv'
<1> SUFFICES ASSUME AnswersInv, [Next]_vars
             PROVE  AnswersInv'
  OBVIOUS
<1>0. BooksInv'
  BY NextBooks DEF AnswersInv
<1>1. ASSUME NEW d \in Deliveries, NEW s \in Submissions, Submit(d, s)
      PROVE  AnswersInv'
  BY <1>0, <1>1, SubmitAnswers
<1>2. ASSUME NEW d \in Deliveries, DeliveryStep(d)
      PROVE  AnswersInv'
  <2>1. d \in Actors
    BY DEF Actors
  <2> QED BY <1>0, <1>2, <2>1, AnsweredAnswers, UnderWayAnswers, RolledBackAnswers, ResolvedAnswers
          DEF DeliveryStep
<1>3. ASSUME NEW a \in Workers, WorkerStep(a)
      PROVE  AnswersInv'
  <2>1. a \in Actors
    BY DEF Actors
  <2> QED BY <1>0, <1>3, <2>1, UnderWayAnswers, RolledBackAnswers DEF WorkerStep
<1>4. ASSUME NEW a \in Actors, TransactionStep(a)
      PROVE  AnswersInv'
  BY <1>0, <1>4, UnderWayAnswers, CommitAnswers, RolledBackAnswers DEF TransactionStep
<1>5. ASSUME NEW a \in Actors, Crash(a)
      PROVE  AnswersInv'
  BY <1>0, <1>5, RolledBackAnswers
<1>6. CASE UNCHANGED vars
  <2>1. UNCHANGED <<sub, row, ledger, inbox, pc, resp>>
    BY <1>6 DEF vars
  <2>2. \A b \in Deliveries : ReplayedTruly(resp[b])'
    <3>1. \A x : ReplayedTruly(x)' <=> ReplayedTruly(x)
      BY <2>1 DEF ReplayedTruly, Stored
    <3>2. \A b \in Deliveries : ReplayedTruly(resp'[b])
      BY <2>1 DEF AnswersInv
    <3> QED BY <3>1, <3>2
  <2>3. IdleIsEmpty' /\ MarksEffect' /\ InboxFollowsEffect'
    BY <2>1 DEF AnswersInv, IdleIsEmpty, MarksEffect, InboxFollowsEffect, Stored
  <2> QED BY <1>0, <2>2, <2>3 DEF AnswersInv
<1>7. CASE Quiescent
  BY <1>6, <1>7 DEF Quiescent
<1> QED
  BY <1>1, <1>2, <1>3, <1>4, <1>5, <1>6, <1>7 DEF Next

\* The inductive invariant holds throughout every behaviour.
THEOREM AnswersInvariant == Spec => []AnswersInv
  BY InitAnswers, NextAnswers, PTL DEF Spec

\* A message is in the inbox only when a row carries its effect, and a delivery
\* that settled or replayed a message leaves it there, across crashes, lost races
\* and the separate transaction that marks a replay.
THEOREM InboxIsExact == Spec => []InboxFollowsEffect
<1>1. AnswersInv => InboxFollowsEffect
  BY DEF AnswersInv
<1> QED
  BY <1>1, AnswersInvariant, PTL

-----------------------------------------------------------------------------
(* The outbox                                                              *)
(*                                                                         *)
(* Like the books: events is a sequence of events of wallet w, parked the  *)
(* transactions that were announced as waiting.  Both are kept as they are *)
(* committed and as the holder of the wallet's lock is about to leave them.*)

\* Every event is of a row of the wallet, and every row has had its story told.
StoriesTold(s, w, rows, parked, events) ==
  /\ \A i \in DOMAIN events : events[i].tx \in RowsOf(s, w, rows)
  /\ \A d \in RowsOf(s, w, rows) : Tells(events, d, Story(s[d].kind, d \in parked, rows[d].status))

\* The rows that were announced as waiting: of those that the table tab stores, the
\* ones whose caller was told so; of the others, the ones that wait.
ParkedIn(tab, answers, rows) ==
  { d \in Stored(rows) : IF d \in Stored(tab) THEN answers[d].status = "PENDING_REFERENCE"
                         ELSE rows[d].status = "PENDING_REFERENCE" }

Skip(w) == Len(OpeningEntries(w))

\* events tells the stories of the rows and announces the entries of wallet w.
WellTold(s, w, rows, parked, events, entries) ==
  /\ StoriesTold(s, w, rows, parked, events)
  /\ Announces(events, entries, Skip(w))
  /\ Skip(w) <= Len(entries)

StoryInOutbox(w) == WellTold(sub, w, row, ParkedIn(row, resp, row), outbox[w], ledger[w])

StoryInHand(a) ==
  LET seen == Visible(draft[a])
  IN  WellTold(sub, WalletOf(a), seen, ParkedIn(row, resp, seen),
               outbox[WalletOf(a)] \o draft[a].events, LedgerAfter(a))

\* A transaction without a lock has nothing to announce, and one that visits the
\* dependents of a row has settled its own.
EventsInOrder(a) ==
  /\ ~Holding(a) => draft[a].events = <<>>
  /\ pc[a] = "cascade" => Terminal(draft[a].rows[TxOf(a)].status)

StoryInv ==
  /\ BooksInv
  /\ \A w \in Wallets : StoryInOutbox(w)
  /\ \A a \in Actors : EventsInOrder(a) /\ (Holding(a) => StoryInHand(a))

\* Two sequences of events after each other tell a transaction's two half stories.
LEMMA TellsConcat ==
  ASSUME NEW old \in Seq(Events), NEW new \in Seq(Events), NEW d, NEW A, NEW B,
         Tells(old, d, A), Tells(new, d, B),
         \A i \in DOMAIN old, j \in DOMAIN new :
           old[i].tx = d /\ new[j].tx = d => Place(old[i].type) < Place(new[j].type)
  PROVE  Tells(old \o new, d, A \cup B)
<1> DEFINE all == old \o new
           n == Len(old)
           told == { i \in DOMAIN all : all[i].tx = d }
<1>1. /\ n \in Nat /\ DOMAIN old = 1..n
      /\ \A i \in DOMAIN old : i \in DOMAIN all /\ all[i] = old[i]
      /\ \A j \in DOMAIN new : n + j \in DOMAIN all /\ all[n + j] = new[j]
      /\ \A i \in DOMAIN all : i \in Int /\ (i \in DOMAIN old \/ (i > n /\ i - n \in DOMAIN new))
      /\ \A j \in DOMAIN new : j \in Int
  OBVIOUS
<1> HIDE DEF all, n
<1>2. \A i \in DOMAIN all \ DOMAIN old : i - n \in DOMAIN new /\ all[i] = new[i - n] /\ i > n
  <2> SUFFICES ASSUME NEW i \in DOMAIN all \ DOMAIN old
               PROVE  i - n \in DOMAIN new /\ all[i] = new[i - n] /\ i > n
    OBVIOUS
  <2>1. i - n \in DOMAIN new /\ i \in Int /\ i > n
    BY <1>1
  <2>2. n + (i - n) = i
    BY <1>1, <2>1
  <2> QED BY <1>1, <2>1, <2>2
<1>3. { all[i].type : i \in told } = A \cup B
  <2>1. ASSUME NEW i \in told PROVE all[i].type \in A \cup B
    <3>1. CASE i \in DOMAIN old
      BY <1>1, <3>1 DEF Tells
    <3>2. CASE i \notin DOMAIN old
      BY <1>2, <3>2 DEF Tells
    <3> QED BY <3>1, <3>2
  <2>2. ASSUME NEW x \in A PROVE \E i \in told : all[i].type = x
    <3>1. PICK i \in DOMAIN old : old[i].tx = d /\ old[i].type = x
      BY DEF Tells
    <3> QED BY <1>1, <3>1
  <2>3. ASSUME NEW x \in B PROVE \E i \in told : all[i].type = x
    <3>1. PICK i \in DOMAIN new : new[i].tx = d /\ new[i].type = x
      BY DEF Tells
    <3> QED BY <1>1, <3>1
  <2> QED BY <2>1, <2>2, <2>3
<1>4. ASSUME NEW i \in told, NEW j \in told, i < j
      PROVE  Place(all[i].type) < Place(all[j].type)
  <2>1. CASE j \in DOMAIN old
    <3>1. i \in DOMAIN old
      BY <1>1, <1>2, <1>4, <2>1
    <3>2. Place(old[i].type) < Place(old[j].type)
      BY <1>1, <1>4, <2>1, <3>1 DEF Tells
    <3> QED BY <1>1, <2>1, <3>1, <3>2
  <2>2. CASE i \in DOMAIN old /\ j \notin DOMAIN old
    <3>1. j - n \in DOMAIN new /\ all[j] = new[j - n] /\ all[i] = old[i]
      BY <1>1, <1>2, <2>2
    <3> QED BY <1>4, <2>2, <3>1
  <2>3. CASE i \notin DOMAIN old /\ j \notin DOMAIN old
    <3>1. /\ i - n \in DOMAIN new /\ all[i] = new[i - n]
          /\ j - n \in DOMAIN new /\ all[j] = new[j - n] /\ i - n < j - n
      BY <1>1, <1>2, <1>4, <2>3
    <3> QED BY <1>4, <3>1 DEF Tells
  <2> QED BY <2>1, <2>2, <2>3
<1> QED
  BY <1>3, <1>4 DEF Tells, all

\* The story depends on the rows of the wallet only.
LEMMA StoriesOfSameRows ==
  ASSUME NEW s, NEW t, NEW w, NEW rows, NEW tab, NEW p, NEW q, NEW events,
         StoriesTold(s, w, rows, p, events), SameRows(s, t, w, rows, tab),
         \A e \in RowsOf(s, w, rows) : e \in q <=> e \in p
  PROVE  StoriesTold(t, w, tab, q, events)
<1>1. RowsOf(t, w, tab) = RowsOf(s, w, rows)
  BY DEF SameRows
<1>2. ASSUME NEW d \in RowsOf(s, w, rows)
      PROVE  Tells(events, d, Story(t[d].kind, d \in q, tab[d].status))
  <2>1. t[d] = s[d] /\ tab[d].status = rows[d].status /\ (d \in q <=> d \in p)
    BY DEF SameRows
  <2>2. Story(t[d].kind, d \in q, tab[d].status) = Story(s[d].kind, d \in p, rows[d].status)
    BY <2>1 DEF Story
  <2> QED BY <2>2 DEF StoriesTold
<1> QED
  BY <1>1, <1>2 DEF StoriesTold

\* new tells the part of tx's story that verdict v adds, and the new balance of wallet
\* row wal in its second event if there is one.
VerdictTold(new, tx, kind, before, v, wal) ==
  /\ new \in Seq(Events)
  /\ \A i \in DOMAIN new : new[i].tx = tx
  /\ Tells(new, tx, Story(kind, before = "PENDING" /\ v.status = "PENDING_REFERENCE", v.status))
  /\ \A i \in DOMAIN new : before = "PENDING" \/ Place(new[i].type) > 1
  /\ \A i \in DOMAIN new : new[i].type = "WalletBalanceChanged" <=> i = 2 /\ v.direction # NoDirection
  /\ v.direction # NoDirection => /\ 2 \in DOMAIN new /\ new[2].balance = wal.balance
                                  /\ new[2].version = wal.version

\* Two one-element sequences after each other.
LEMMA PairOfSequences ==
  ASSUME NEW S, NEW s \in Seq(S), NEW t \in Seq(S), Len(s) = 1, Len(t) = 1
  PROVE  DOMAIN (s \o t) = {1, 2} /\ (s \o t)[1] = s[1] /\ (s \o t)[2] = t[1]
<1>1. s \o t \in Seq(S) /\ Len(s \o t) = 2
  OBVIOUS
<1>2. DOMAIN (s \o t) = 1..2 /\ 1..2 = {1, 2}
  BY <1>1
<1> QED
  BY <1>2

\* What settling or parking tx announces does so.
LEMMA SettlementEventsTell ==
  ASSUME NEW tx \in Deliveries, NEW before \in {"PENDING", "PENDING_REFERENCE"}, NEW v \in Verdicts,
         NEW kind, v.direction # NoDirection <=> v.status = "PROCESSED" /\ kind # "LOSS",
         NEW wal \in WalletRows
  PROVE  VerdictTold(SettlementEvents(tx, before, v, wal), tx, kind, before, v, wal)
<1> DEFINE new == SettlementEvents(tx, before, v, wal)
           balance == IF v.direction = NoDirection THEN NoBalance ELSE wal.balance
           event(type, version) ==
             [type |-> type, tx |-> tx, version |-> version, balance |-> balance]
           parked == before = "PENDING" /\ v.status = "PENDING_REFERENCE"
           types == Story(kind, parked, v.status)
<1> SUFFICES VerdictTold(new, tx, kind, before, v, wal)
  OBVIOUS
<1>1. new \in Seq(Events)
  BY SettlementEventsType
<1>2. v.status \in StoredStatuses
  BY DEF Verdicts
<1>3. CASE v.status = "PROCESSED" /\ v.direction # NoDirection
  <2> DEFINE e == event("WagerTransactionProcessed", 0)
             f == event("WalletBalanceChanged", wal.version)
  <2>1. new = << e >> \o << f >>
    BY <1>3 DEF SettlementEvents
  <2>2. /\ e.type = "WagerTransactionProcessed" /\ e.tx = tx
        /\ f.type = "WalletBalanceChanged" /\ f.tx = tx
        /\ f.balance = wal.balance /\ f.version = wal.version
    BY <1>3
  <2> DEFINE s == << e >>
             t == << f >>
  <2> HIDE DEF e, f
  <2>3. s \in Seq({e, f}) /\ Len(s) = 1 /\ s[1] = e /\ t \in Seq({e, f}) /\ Len(t) = 1 /\ t[1] = f
    OBVIOUS
  <2>4. new = s \o t
    BY <2>1
  <2> HIDE DEF s, t, new
  <2>5. DOMAIN new = {1, 2} /\ new[1] = e /\ new[2] = f
    BY <2>3, <2>4, PairOfSequences
  <2>6. types = {"WagerTransactionProcessed", "WalletBalanceChanged"}
    BY <1>3 DEF Story
  <2>7. Place(e.type) = 2 /\ Place(f.type) = 3
    BY <2>2 DEF Place
  <2> HIDE DEF new, types
  <2>8. Tells(new, tx, types)
    BY <2>2, <2>5, <2>6, <2>7 DEF Tells
  <2> QED BY <1>1, <1>3, <2>2, <2>5, <2>7, <2>8 DEF types, VerdictTold
<1>4. ASSUME NEW type \in {"WagerTransactionProcessed", "WagerTransactionRejected",
                            "WagerTransactionPendingReference"},
             new = << event(type, 0) >>, v.direction = NoDirection, types = {type},
             before = "PENDING" \/ type # "WagerTransactionPendingReference"
      PROVE  /\ \A i \in DOMAIN new : new[i].tx = tx
             /\ Tells(new, tx, types)
             /\ \A i \in DOMAIN new : before = "PENDING" \/ Place(new[i].type) > 1
             /\ \A i \in DOMAIN new : new[i].type # "WalletBalanceChanged"
  <2> DEFINE e == event(type, 0)
  <2>1. e.type = type /\ e.tx = tx
    OBVIOUS
  <2> HIDE DEF e
  <2>2. DOMAIN << e >> = {1} /\ << e >>[1] = e
    OBVIOUS
  <2>3. DOMAIN new = {1} /\ new[1] = e
    BY <1>4, <2>2 DEF e
  <2>4. before = "PENDING" \/ Place(e.type) > 1
    BY <1>4, <2>1 DEF Place
  <2> HIDE DEF new, types
  <2>5. Tells(new, tx, types)
    BY <1>4, <2>1, <2>3 DEF Tells
  <2> QED BY <1>4, <2>1, <2>3, <2>4, <2>5
<1>5. CASE v.status = "PROCESSED" /\ v.direction = NoDirection
  <2>1. new = << event("WagerTransactionProcessed", 0) >> \o <<>>
    BY <1>5 DEF SettlementEvents
  <2>2. new = << event("WagerTransactionProcessed", 0) >>
    BY <2>1
  <2>3. types = {"WagerTransactionProcessed"}
    BY <1>5 DEF Story
  <2> HIDE DEF new, types, event
  <2>4. new = << event("WagerTransactionProcessed", 0) >> /\ types = {"WagerTransactionProcessed"}
    BY <2>2, <2>3
  <2> QED BY <1>1, <1>4, <1>5, <2>4 DEF types, VerdictTold
<1>6. CASE v.status = "REJECTED"
  <2>1. new = << event("WagerTransactionRejected", 0) >>
    BY <1>6 DEF SettlementEvents
  <2>2. types = {"WagerTransactionRejected"}
    BY <1>6 DEF Story
  <2> HIDE DEF new, types, event
  <2> QED BY <1>1, <1>4, <1>6, <2>1, <2>2 DEF types, VerdictTold
<1>7. CASE v.status = "PENDING_REFERENCE" /\ before = "PENDING"
  <2>1. new = << event("WagerTransactionPendingReference", 0) >>
    BY <1>7 DEF SettlementEvents
  <2>2. types = {"WagerTransactionPendingReference"}
    BY <1>7 DEF Story
  <2> HIDE DEF new, types, event
  <2> QED BY <1>1, <1>4, <1>7, <2>1, <2>2 DEF types, VerdictTold
<1>8. CASE v.status = "PENDING_REFERENCE" /\ before # "PENDING"
  <2>1. new = <<>> /\ v.direction = NoDirection
    BY <1>8 DEF SettlementEvents
  <2>2. types = {}
    BY <1>8 DEF Story
  <2>3. DOMAIN new = {}
    BY <2>1
  <2> HIDE DEF new, types
  <2>4. Tells(new, tx, types)
    BY <2>2, <2>3 DEF Tells
  <2> QED BY <1>1, <2>1, <2>3, <2>4 DEF types, VerdictTold
<1> QED
  BY <1>2, <1>3, <1>5, <1>6, <1>7, <1>8 DEF StoredStatuses

\* It also tells the stories of whatever has the same rows and parked the same ones.
LEMMA WellToldOfSameRows ==
  ASSUME NEW s, NEW t, NEW w, NEW rows, NEW tab, NEW p, NEW q, NEW events, NEW entries,
         WellTold(s, w, rows, p, events, entries), SameRows(s, t, w, rows, tab),
         \A e \in RowsOf(s, w, rows) : e \in q <=> e \in p
  PROVE  WellTold(t, w, tab, q, events, entries)
  BY StoriesOfSameRows DEF WellTold

\* Row tx of the wallet is settled or parked with verdict v: r in place of what it
\* was, and q the rows announced as waiting, p before.
SettlesRow(rows, tx, before, v, r, p, q) ==
  /\ before \in {"PENDING", "PENDING_REFERENCE"}
  /\ rows[tx].status = IF before = "PENDING" THEN "ABSENT" ELSE "PENDING_REFERENCE"
  /\ r.status = v.status
  /\ \A e \in Deliveries \ {tx} : e \in q <=> e \in p
  /\ tx \in q <=> IF before = "PENDING" THEN v.status = "PENDING_REFERENCE" ELSE tx \in p

\* What is announced with it completes the stories.
LEMMA StoriesWithSettled ==
  ASSUME NEW s, NEW w, NEW rows \in [Deliveries -> Rows], NEW p, NEW q,
         NEW events \in Seq(Events), StoriesTold(s, w, rows, p, events),
         NEW tx \in Deliveries, s[tx].wallet = w,
         NEW before, NEW v \in Verdicts, NEW r \in Rows,
         SettlesRow(rows, tx, before, v, r, p, q),
         v.direction # NoDirection <=> v.status = "PROCESSED" /\ s[tx].kind # "LOSS",
         NEW wal \in WalletRows
  PROVE  StoriesTold(s, w, [rows EXCEPT ![tx] = r], q,
                     events \o SettlementEvents(tx, before, v, wal))
<1> DEFINE new == SettlementEvents(tx, before, v, wal)
           all == events \o new
           tab == [rows EXCEPT ![tx] = r]
           R == RowsOf(s, w, rows)
           T == RowsOf(s, w, tab)
           kind == s[tx].kind
           fresh == before = "PENDING" /\ v.status = "PENDING_REFERENCE"
<1>1. /\ tab[tx] = r
      /\ \A e \in Deliveries : e # tx => tab[e] = rows[e]
  OBVIOUS
<1>2. before \in {"PENDING", "PENDING_REFERENCE"} /\ v.status \in StoredStatuses /\ r.status = v.status
  BY DEF SettlesRow, Verdicts
<1>3. /\ new \in Seq(Events)
      /\ \A i \in DOMAIN new : new[i].tx = tx
      /\ Tells(new, tx, Story(kind, fresh, v.status))
      /\ \A i \in DOMAIN new : before = "PENDING" \/ Place(new[i].type) > 1
  <2>1. v.direction # NoDirection <=> v.status = "PROCESSED" /\ kind # "LOSS"
    OBVIOUS
  <2> HIDE DEF kind
  <2>2. VerdictTold(new, tx, kind, before, v, wal)
    BY <1>2, <2>1, SettlementEventsTell
  <2> HIDE DEF new
  <2> QED BY <2>2 DEF VerdictTold
<1> HIDE DEF new, tab, R, T, kind, fresh
<1>4. /\ \A i \in DOMAIN events : i \in DOMAIN all /\ all[i] = events[i]
      /\ \A i \in DOMAIN all : \/ i \in DOMAIN events /\ all[i] = events[i]
                               \/ \E j \in DOMAIN new : all[i] = new[j]
  BY <1>3
<1> HIDE DEF all
<1>5. T = R \cup {tx} /\ R \subseteq Deliveries
  BY <1>1, <1>2 DEF RowsOf, StoredStatuses, R, T
<1>6. \A i \in DOMAIN events : events[i].tx \in R
  BY DEF StoriesTold, R
<1>7. \A i \in DOMAIN all : all[i].tx \in T
  BY <1>3, <1>4, <1>5, <1>6
<1>8. ASSUME NEW d \in T, d # tx
      PROVE  Tells(all, d, Story(s[d].kind, d \in q, tab[d].status))
  <2>1. d \in R /\ tab[d] = rows[d] /\ (d \in q <=> d \in p)
    BY <1>1, <1>5, <1>8 DEF SettlesRow
  <2>2. Tells(events, d, Story(s[d].kind, d \in p, rows[d].status))
    BY <2>1 DEF StoriesTold, R
  <2>3. Story(s[d].kind, d \in q, tab[d].status) = Story(s[d].kind, d \in p, rows[d].status)
    BY <2>1 DEF Story
  <2>4. \A i \in DOMAIN new : new[i].tx # d
    BY <1>3, <1>8
  <2>5. Tells(new, d, {})
    BY <2>4 DEF Tells
  <2> DEFINE types == Story(s[d].kind, d \in p, rows[d].status)
  <2> HIDE DEF types
  <2>6. Tells(events \o new, d, types \cup {})
    BY <1>3, <2>2, <2>4, <2>5, TellsConcat DEF types
  <2> QED BY <2>3, <2>6 DEF types, all
<1>9. Tells(all, tx, Story(kind, tx \in q, tab[tx].status))
  <2>1. CASE before = "PENDING"
    <3>1. tx \notin R /\ (tx \in q <=> fresh)
      BY <2>1 DEF SettlesRow, R, RowsOf, fresh
    <3>2. \A i \in DOMAIN events : events[i].tx # tx
      BY <1>6, <3>1
    <3>3. Tells(events, tx, {})
      BY <3>2 DEF Tells
    <3> DEFINE types == Story(kind, fresh, v.status)
    <3>4. Story(kind, tx \in q, tab[tx].status) = types
      BY <1>1, <1>2, <3>1 DEF Story
    <3> HIDE DEF types
    <3>5. Tells(events \o new, tx, {} \cup types)
      BY <1>3, <3>2, <3>3, TellsConcat DEF types
    <3> QED BY <3>4, <3>5 DEF all
  <2>2. CASE before = "PENDING_REFERENCE"
    <3>1. tx \in R /\ (tx \in q <=> tx \in p) /\ ~fresh /\ rows[tx].status = "PENDING_REFERENCE"
      BY <2>2 DEF SettlesRow, R, RowsOf, fresh
    <3> DEFINE old == Story(kind, tx \in p, "PENDING_REFERENCE")
               types == Story(kind, fresh, v.status)
    <3>2. Tells(events, tx, old)
      BY <3>1 DEF StoriesTold, R, kind
    <3>3. old \subseteq {"WagerTransactionPendingReference"}
      BY DEF Story
    <3>4. Story(kind, tx \in q, tab[tx].status) = old \cup types
      BY <1>1, <1>2, <3>1 DEF Story
    <3> HIDE DEF old, types
    <3>5. \A i \in DOMAIN events : events[i].tx = tx => Place(events[i].type) = 1
      BY <3>2, <3>3 DEF Tells, Place
    <3>6. \A i \in DOMAIN new : Place(new[i].type) > 1
      BY <1>3, <2>2
    <3>7. Tells(events \o new, tx, old \cup types)
      BY <1>3, <3>2, <3>5, <3>6, TellsConcat DEF types
    <3> QED BY <3>4, <3>7 DEF all
  <2> QED BY <1>2, <2>1, <2>2
<1> QED
  BY <1>7, <1>8, <1>9 DEF StoriesTold, all, new, tab, T, kind

\* One more entry is announced by one more event, or none by none.
LEMMA AnnouncesConcat ==
  ASSUME NEW events \in Seq(Events), NEW new \in Seq(Events),
         NEW es \in Seq(Entries), NEW fresh \in Seq(Entries),
         NEW skip \in Nat, skip <= Len(es), Announces(events, es, skip),
         \/ fresh = <<>> /\ \A i \in DOMAIN new : new[i].type # "WalletBalanceChanged"
         \/ \E e \in Entries, k \in DOMAIN new :
              /\ fresh = <<e>>
              /\ \A i \in DOMAIN new : new[i].type = "WalletBalanceChanged" <=> i = k
              /\ new[k].tx = e.tx /\ new[k].balance = e.after
              /\ new[k].version = 2 + Len(es) - skip
  PROVE  Announces(events \o new, es \o fresh, skip) /\ skip <= Len(es \o fresh)
<1> DEFINE all == events \o new
           now == es \o fresh
           n == Len(events)
           m == Len(es)
           Change(x) == x.type = "WalletBalanceChanged"
           entryOf(x) == x.version - 1 + skip
<1>1. /\ n \in Nat /\ DOMAIN events = 1..n
      /\ \A i \in DOMAIN events : i \in DOMAIN all /\ all[i] = events[i] /\ events[i].version \in Nat
      /\ \A j \in DOMAIN new : n + j \in DOMAIN all /\ all[n + j] = new[j]
      /\ \A i \in DOMAIN all : i \in Int /\ (i \in DOMAIN events \/ (i > n /\ i - n \in DOMAIN new))
      /\ \A j \in DOMAIN new : j \in Int /\ j > 0
  <2>1. \A i \in DOMAIN events : events[i] \in Events
    OBVIOUS
  <2>2. \A i \in DOMAIN events : events[i].version \in Nat
    BY <2>1 DEF Events
  <2> QED BY <2>2
<1>2. m \in Nat /\ \A i \in 1..m : now[i] = es[i]
  OBVIOUS
<1>3. /\ { entryOf(events[i]) : i \in { i \in DOMAIN events : Change(events[i]) } } = (skip + 1)..m
      /\ \A i, j \in DOMAIN events :
           Change(events[i]) /\ Change(events[j]) /\ i < j => entryOf(events[i]) < entryOf(events[j])
      /\ \A i \in DOMAIN events : Change(events[i]) =>
           /\ events[i].tx = es[entryOf(events[i])].tx
           /\ events[i].balance = es[entryOf(events[i])].after
  BY DEF Announces
<1>4. \A i \in DOMAIN events : Change(events[i]) => entryOf(events[i]) \in 1..m
  <2>1. \A i \in DOMAIN events : Change(events[i]) => entryOf(events[i]) \in (skip + 1)..m
    BY <1>3
  <2> QED BY <1>2, <2>1
<1>5. SUFFICES /\ { entryOf(all[i]) : i \in { i \in DOMAIN all : Change(all[i]) } }
                    = (skip + 1)..Len(now)
               /\ \A i, j \in DOMAIN all :
                    Change(all[i]) /\ Change(all[j]) /\ i < j => entryOf(all[i]) < entryOf(all[j])
               /\ \A i \in DOMAIN all : Change(all[i]) =>
                    /\ all[i].tx = now[entryOf(all[i])].tx
                    /\ all[i].balance = now[entryOf(all[i])].after
               /\ skip <= Len(now)
  BY DEF Announces
<1>6. CASE fresh = <<>> /\ \A i \in DOMAIN new : ~Change(new[i])
  <2>1. now = es
    BY <1>6
  <2> HIDE DEF all, now, n
  <2>2. \A i \in DOMAIN all : Change(all[i]) => i \in DOMAIN events /\ all[i] = events[i]
    <3> SUFFICES ASSUME NEW i \in DOMAIN all, Change(all[i]) PROVE i \in DOMAIN events
      BY <1>1
    <3>1. ASSUME i > n, i - n \in DOMAIN new PROVE FALSE
      <4>1. n + (i - n) = i
        BY <1>1
      <4>2. all[i] = new[i - n]
        BY <1>1, <3>1, <4>1
      <4> QED BY <1>6, <3>1, <4>2
    <3> QED BY <1>1, <3>1
  <2> HIDE DEF Change, entryOf, m
  <2>3. { entryOf(all[i]) : i \in { i \in DOMAIN all : Change(all[i]) } }
          = { entryOf(events[i]) : i \in { i \in DOMAIN events : Change(events[i]) } }
    BY <1>1, <2>2
  <2> QED BY <1>3, <2>1, <2>2, <2>3 DEF m
<1>7. ASSUME NEW e \in Entries, NEW k \in DOMAIN new,
             fresh = <<e>>, \A i \in DOMAIN new : Change(new[i]) <=> i = k,
             new[k].tx = e.tx, new[k].balance = e.after, new[k].version = 2 + m - skip
      PROVE  /\ { entryOf(all[i]) : i \in { i \in DOMAIN all : Change(all[i]) } }
                  = (skip + 1)..Len(now)
             /\ \A i, j \in DOMAIN all :
                  Change(all[i]) /\ Change(all[j]) /\ i < j => entryOf(all[i]) < entryOf(all[j])
             /\ \A i \in DOMAIN all : Change(all[i]) =>
                  /\ all[i].tx = now[entryOf(all[i])].tx
                  /\ all[i].balance = now[entryOf(all[i])].after
             /\ skip <= Len(now)
  <2>1. Len(now) = m + 1 /\ now[m + 1] = e
    BY <1>7
  <2> HIDE DEF all, now, n, m
  <2> DEFINE last == n + k
  <2>2. /\ last \in DOMAIN all /\ all[last] = new[k] /\ Change(all[last]) /\ last > n
        /\ entryOf(all[last]) = m + 1
    BY <1>1, <1>2, <1>7
  <2>3. ASSUME NEW i \in DOMAIN all, Change(all[i])
        PROVE  i = last \/ (i \in DOMAIN events /\ all[i] = events[i] /\ i <= n)
    <3>1. CASE i \in DOMAIN events
      BY <1>1, <3>1
    <3>2. CASE i > n /\ i - n \in DOMAIN new
      <4>1. n + (i - n) = i
        BY <1>1
      <4>2. all[i] = new[i - n]
        BY <1>1, <3>2, <4>1
      <4>3. i - n = k
        BY <1>7, <2>3, <3>2, <4>2
      <4> QED BY <4>1, <4>3
    <3> QED BY <1>1, <3>1, <3>2
  <2> HIDE DEF last
  <2>4. \A i \in DOMAIN events : Change(events[i]) => entryOf(all[i]) \in 1..m /\ i <= n /\ i \in Int
    <3> SUFFICES ASSUME NEW i \in DOMAIN events, Change(events[i])
                 PROVE  entryOf(all[i]) \in 1..m /\ i <= n /\ i \in Int
      OBVIOUS
    <3>1. all[i] = events[i] /\ i <= n /\ i \in Int
      BY <1>1
    <3> HIDE DEF Change, entryOf
    <3> QED BY <1>4, <3>1
  <2>5. { entryOf(all[i]) : i \in { i \in DOMAIN all : Change(all[i]) } } = (skip + 1)..(m + 1)
    <3> DEFINE old == { entryOf(events[i]) : i \in { i \in DOMAIN events : Change(events[i]) } }
               changed == { entryOf(all[i]) : i \in { i \in DOMAIN all : Change(all[i]) } }
    <3>1. old = (skip + 1)..m
      BY <1>3
    <3> HIDE DEF Change, entryOf
    <3>2. changed \subseteq old \cup {m + 1}
      <4> SUFFICES ASSUME NEW i \in DOMAIN all, Change(all[i]) PROVE entryOf(all[i]) \in old \cup {m + 1}
        OBVIOUS
      <4>1. CASE i = last
        BY <2>2, <4>1
      <4>2. CASE i \in DOMAIN events /\ all[i] = events[i]
        BY <4>2
      <4> QED BY <2>3, <4>1, <4>2
    <3>3. old \subseteq changed
      <4> SUFFICES ASSUME NEW i \in DOMAIN events, Change(events[i]) PROVE entryOf(events[i]) \in changed
        OBVIOUS
      <4>1. i \in DOMAIN all /\ all[i] = events[i]
        BY <1>1
      <4> QED BY <4>1
    <3>4. m + 1 \in changed
      BY <2>2
    <3> HIDE DEF old, changed
    <3>5. changed = (skip + 1)..(m + 1)
      <4>1. m \in Nat /\ skip <= m
        BY <1>2 DEF m
      <4>2. (skip + 1)..(m + 1) = ((skip + 1)..m) \cup {m + 1}
        BY <4>1
      <4> QED BY <3>1, <3>2, <3>3, <3>4, <4>2
    <3> QED BY <3>5 DEF changed
  <2>6. ASSUME NEW i \in DOMAIN all, NEW j \in DOMAIN all, Change(all[i]), Change(all[j]), i < j
        PROVE  entryOf(all[i]) < entryOf(all[j])
    <3>1. CASE j = last
      <4> HIDE DEF Change
      <4>0. i # last
        BY <1>1, <2>6, <3>1
      <4>1. i # last /\ i \in DOMAIN events /\ Change(events[i])
        BY <2>3, <2>6, <4>0
      <4>2. entryOf(all[i]) \in 1..m
        BY <2>4, <4>1
      <4> HIDE DEF entryOf
      <4> QED BY <1>2, <2>2, <3>1, <4>2
    <3>2. CASE j # last
      <4>1. i \in DOMAIN events /\ j \in DOMAIN events /\ Change(events[i]) /\ Change(events[j])
            /\ all[i] = events[i] /\ all[j] = events[j]
        <5> HIDE DEF Change
        <5>1. j \in DOMAIN events /\ all[j] = events[j] /\ j <= n
          BY <2>3, <2>6, <3>2
        <5>2. i # last
          BY <1>1, <2>2, <2>6, <5>1
        <5> QED BY <2>3, <2>6, <5>1, <5>2
      <4> QED BY <1>3, <2>6, <4>1
    <3> QED BY <3>1, <3>2
  <2>7. ASSUME NEW i \in DOMAIN all, Change(all[i])
        PROVE  /\ all[i].tx = now[entryOf(all[i])].tx
               /\ all[i].balance = now[entryOf(all[i])].after
    <3>1. CASE i = last
      BY <1>7, <2>1, <2>2, <3>1
    <3>2. CASE i # last
      <4>1. i \in DOMAIN events /\ all[i] = events[i] /\ entryOf(events[i]) \in 1..m
        BY <1>4, <2>3, <2>7, <3>2
      <4>2. now[entryOf(events[i])] = es[entryOf(events[i])]
        BY <1>2, <4>1
      <4> QED BY <1>3, <2>7, <4>1, <4>2
    <3> QED BY <3>1, <3>2
  <2> QED BY <1>2, <2>1, <2>5, <2>6, <2>7 DEF m
<1> QED
  BY <1>6, <1>7 DEF m

-----------------------------------------------------------------------------
(* The steps of the outbox *)

LEMMA StoryInvParts ==
  ASSUME StoryInv
  PROVE  /\ BooksInv /\ SettlementInv /\ TypeOK /\ StoredOnce
         /\ \A w \in Wallets : StoryInOutbox(w)
         /\ \A a \in Actors : EventsInOrder(a) /\ DraftInOrder(a) /\ (Holding(a) => StoryInHand(a))
  BY BooksInvParts DEF StoryInv, BooksInv, SettlementInv

\* Rows of started deliveries are the same rows when only others submit something.
LEMMA SameRowsOfStarted ==
  ASSUME \A e \in Deliveries : pc[e] # "idle" => sub'[e] = sub[e],
         NEW rows, \A e \in Deliveries : rows[e].status # "ABSENT" => pc[e] # "idle",
         NEW w
  PROVE  SameRows(sub, sub', w, rows, rows)
  BY DEF SameRows, RowsOf

\* A step of a that stores nothing and after which a has drafted nothing.
LEMMA AsideStory ==
  ASSUME StoryInv, BooksInv', NEW a \in Actors, pc[a] # "done",
         UNCHANGED <<row, ledger, outbox>>,
         \A e \in Deliveries : pc[e] # "idle" => sub'[e] = sub[e],
         \A b \in Actors \ {a} : /\ pc'[b] = pc[b] /\ draft'[b] = draft[b]
                                 /\ b \in Workers => job'[b] = job[b]
                                 /\ b \in Deliveries => resp'[b] = resp[b],
         pc'[a] \notin {"cascade", "commit"},
         Stored(draft'[a].rows) = {}, draft'[a].entries = <<>>, draft'[a].events = <<>>
  PROVE  StoryInv'
<1>1. /\ BooksInv /\ SettlementInv /\ TypeOK /\ StoredOnce
      /\ \A w \in Wallets : StoryInOutbox(w)
      /\ \A b \in Actors : EventsInOrder(b) /\ (Holding(b) => StoryInHand(b))
  BY StoryInvParts
<1>2. TypeOK'
  BY DEF BooksInv, SettlementInv
<1>3. ASSUME NEW rows PROVE ParkedIn(row, resp', rows) = ParkedIn(row, resp, rows)
  <2>1. \A d \in Stored(row) : resp'[d] = resp[d]
    BY <1>1 DEF StoredOnce, Stored, Actors
  <2> QED BY <2>1 DEF ParkedIn
<1>4. \A e \in Deliveries : /\ row[e].status # "ABSENT" => pc[e] # "idle"
                            /\ \A b \in Actors : draft[b].rows[e].status # "ABSENT" => pc[e] # "idle"
  BY <1>1 DEF SettlementInv, RowsWellPlaced, WellPlaced
<1>5. ASSUME NEW w \in Wallets
      PROVE  WellTold(sub', w, row, ParkedIn(row, resp', row), outbox[w], ledger[w])
  <2>1. WellTold(sub, w, row, ParkedIn(row, resp, row), outbox[w], ledger[w])
    BY <1>1 DEF StoryInOutbox
  <2>2. SameRows(sub, sub', w, row, row)
    BY <1>4, SameRowsOfStarted
  <2> QED BY <1>3, <2>1, <2>2, WellToldOfSameRows
<1>6. \A w \in Wallets : StoryInOutbox(w)'
  BY <1>5 DEF StoryInOutbox
<1>7. ASSUME NEW b \in Actors PROVE EventsInOrder(b)' /\ (Holding(b)' => StoryInHand(b)')
  <2>1. CASE b = a
    <3>1. EventsInOrder(a)'
      BY DEF EventsInOrder
    <3>2. ASSUME Holding(a)' PROVE StoryInHand(a)'
      <4> DEFINE w == WalletOf(a)'
      <4>1. w \in Wallets
        BY <3>2 DEF BooksInv, SettlementInv, LocksHeld
      <4>2. Visible(draft[a])' = row
        BY <1>2 DEF Visible, Stored, TypeOK
      <4>3. LedgerAfter(a)' = ledger[w] /\ outbox[w] \o <<>> = outbox[w]
        <5>1. ledger[w] \in Seq(Entries) /\ outbox[w] \in Seq(Events)
          BY <1>1, <4>1 DEF TypeOK
        <5>2. LedgerAfter(a)' = ledger[w] \o <<>>
          BY DEF LedgerAfter
        <5> HIDE DEF w
        <5> QED BY <5>1, <5>2
      <4>4. WellTold(sub', w, row, ParkedIn(row, resp', row), outbox[w], ledger[w])
        BY <1>5, <4>1
      <4> QED BY <4>2, <4>3, <4>4 DEF StoryInHand
    <3> QED BY <2>1, <3>1, <3>2
  <2>2. CASE b # a
    <3>1. TxOf(b)' = TxOf(b) /\ pc'[b] = pc[b] /\ draft'[b] = draft[b] /\ (Holding(b)' <=> Holding(b))
      BY <2>2 DEF TxOf, Actors, Holding
    <3>2. EventsInOrder(b)'
      BY <1>1, <3>1 DEF EventsInOrder
    <3>3. ASSUME Holding(b) PROVE StoryInHand(b)'
      <4> DEFINE w == WalletOf(b)
                 seen == Visible(draft[b])
                 events == outbox[w] \o draft[b].events
      <4>1. WalletOf(b)' = w
        <5>1. TxOf(b) \in Deliveries /\ pc[TxOf(b)] # "idle"
          BY <1>1, <3>3, HolderFacts
        <5> QED BY <3>1, <5>1 DEF WalletOf
      <4>2. Visible(draft[b])' = seen /\ LedgerAfter(b)' = LedgerAfter(b)
        BY <3>1, <4>1 DEF Visible, Stored, LedgerAfter
      <4>3. \A e \in Deliveries : seen[e].status # "ABSENT" => pc[e] # "idle"
        BY <1>4 DEF Visible, Stored
      <4>4. WellTold(sub, w, seen, ParkedIn(row, resp, seen), events, LedgerAfter(b))
        BY <1>1, <3>3 DEF StoryInHand
      <4>5. outbox'[WalletOf(b)'] \o draft'[b].events = events
        BY <3>1, <4>1
      <4> HIDE DEF w, seen, events
      <4>6. SameRows(sub, sub', w, seen, seen)
        BY <4>3, SameRowsOfStarted
      <4>7. WellTold(sub', w, seen, ParkedIn(row, resp', seen), events, LedgerAfter(b))
        BY <1>3, <4>4, <4>6, WellToldOfSameRows
      <4> QED BY <4>1, <4>2, <4>5, <4>7 DEF StoryInHand
    <3> QED BY <3>1, <3>2, <3>3
  <2> QED BY <2>1, <2>2
<1> QED
  BY <1>6, <1>7 DEF StoryInv

\* a, which holds its lock, replaces its draft by one that tells its stories.
LEMMA WritesStory ==
  ASSUME StoryInv, BooksInv', NEW a \in Actors, Holding(a), NEW next, NEW new,
         pc' = [pc EXCEPT ![a] = next], next \in {"cascade", "commit"},
         draft' = [draft EXCEPT ![a] = new],
         UNCHANGED <<sub, row, ledger, outbox, job, resp>>,
         next = "cascade" => Terminal(new.rows[TxOf(a)].status),
         WellTold(sub, WalletOf(a), Visible(new), ParkedIn(row, resp, Visible(new)),
                  outbox[WalletOf(a)] \o new.events, ledger[WalletOf(a)] \o new.entries)
  PROVE  StoryInv'
<1>1. /\ TypeOK
      /\ \A w \in Wallets : StoryInOutbox(w)
      /\ \A b \in Actors : EventsInOrder(b) /\ (Holding(b) => StoryInHand(b))
  BY StoryInvParts
<1>2. /\ pc'[a] = next /\ draft'[a] = new
      /\ \A b \in Actors : b # a => pc'[b] = pc[b] /\ draft'[b] = draft[b]
  BY <1>1 DEF TypeOK
<1>3. \A w \in Wallets : StoryInOutbox(w)'
  BY <1>1 DEF StoryInOutbox
<1>4. ASSUME NEW b \in Actors PROVE EventsInOrder(b)' /\ (Holding(b)' => StoryInHand(b)')
  <2>1. TxOf(b)' = TxOf(b) /\ WalletOf(b)' = WalletOf(b)
    BY DEF TxOf, WalletOf
  <2>2. CASE b = a
    <3>1. EventsInOrder(a)'
      BY <1>2, <2>1, <2>2 DEF EventsInOrder, Holding
    <3>2. StoryInHand(a)'
      <4>1. Visible(draft[a])' = Visible(new)
        BY <1>2 DEF Visible, Stored
      <4>2. LedgerAfter(a)' = ledger[WalletOf(a)] \o new.entries
            /\ outbox'[WalletOf(a)'] \o draft'[a].events = outbox[WalletOf(a)] \o new.events
        BY <1>2, <2>1, <2>2 DEF LedgerAfter
      <4>3. WellTold(sub', WalletOf(a)', Visible(draft[a])', ParkedIn(row', resp', Visible(draft[a])'),
                     outbox'[WalletOf(a)'] \o draft'[a].events, LedgerAfter(a)')
        BY <2>1, <2>2, <4>1, <4>2
      <4> QED BY <4>3 DEF StoryInHand
    <3> QED BY <2>2, <3>1, <3>2
  <2>3. CASE b # a
    <3>1. pc'[b] = pc[b] /\ draft'[b] = draft[b] /\ Visible(draft[b])' = Visible(draft[b])
          /\ LedgerAfter(b)' = LedgerAfter(b)
      <4>1. pc'[b] = pc[b] /\ draft'[b] = draft[b]
        BY <1>2, <2>3
      <4>2. Visible(draft[b])' = Visible(draft[b])
        BY <4>1 DEF Visible, Stored
      <4>3. LedgerAfter(b)' = LedgerAfter(b)
        BY <2>1, <4>1 DEF LedgerAfter
      <4> QED BY <4>1, <4>2, <4>3
    <3> QED BY <1>1, <2>1, <3>1 DEF EventsInOrder, StoryInHand, Holding
  <2> QED BY <2>2, <2>3
<1> QED
  BY <1>3, <1>4 DEF StoryInv

\* a settles or parks row tx of its wallet with verdict v.
SettlesInStory(a, tx, before, v, next) ==
  /\ Holding(a) /\ tx \in Deliveries /\ v \in Verdicts
  /\ sub[tx] \in Submissions /\ sub[tx].wallet = WalletOf(a)
  /\ \/ before = "PENDING" /\ row[tx].status = "ABSENT" /\ Visible(draft[a])[tx].status = "ABSENT"
     \/ /\ before = "PENDING_REFERENCE" /\ row[tx].status # "ABSENT"
        /\ Visible(draft[a])[tx].status = "PENDING_REFERENCE"
  /\ v.direction = "DEBIT" => sub[tx].amount <= draft[a].wallet.balance
  /\ v.direction # NoDirection <=> v.status = "PROCESSED" /\ sub[tx].kind # "LOSS"
  /\ next \in {"cascade", "commit"}
  /\ next = "cascade" => IF tx = TxOf(a) THEN Terminal(v.status)
                         ELSE Terminal(draft[a].rows[TxOf(a)].status)

\* A draft with a verdict applied extends the events by those of the verdict.
LEMMA AppliedEvents ==
  ASSUME NEW dr \in Drafts, NEW tx, NEW ref, NEW before, NEW v
  PROVE  Applied(dr, tx, ref, before, v).events =
           dr.events \o SettlementEvents(tx, before, v, WalletAfter(dr.wallet, sub[tx], v))
<1> DEFINE wal == WalletAfter(dr.wallet, sub[tx], v)
           r == RowAfter(dr, tx, ref, v)
           es == dr.entries \o EntriesFor(dr.wallet, tx, v)
           evs == dr.events \o SettlementEvents(tx, before, v, wal)
<1>1. Applied(dr, tx, ref, before, v)
        = [dr EXCEPT !.wallet = wal, !.rows[tx] = r, !.entries = es, !.events = evs]
  BY DEF Applied
<1> HIDE DEF wal, r, es, evs
<1>2. [dr EXCEPT !.wallet = wal, !.rows[tx] = r, !.entries = es, !.events = evs].events = evs
  BY DEF Drafts
<1> QED
  BY <1>1, <1>2 DEF evs, wal

\* The step tells the rest of tx's story.
LEMMA AppliedStory ==
  ASSUME StoryInv, BooksInv', NEW a \in Actors, NEW tx, NEW before, NEW v, NEW next,
         SettlesInStory(a, tx, before, v, next),
         NEW ref \in Deliveries \cup {NoTx}, NEW q \in Seq(Deliveries),
         pc' = [pc EXCEPT ![a] = next],
         draft' = [draft EXCEPT ![a] = [Applied(draft[a], tx, ref, before, v) EXCEPT !.queue = q]],
         UNCHANGED <<sub, row, ledger, outbox, job, resp>>
  PROVE  StoryInv'
<1> DEFINE dr == draft[a]
           app == Applied(dr, tx, ref, before, v)
           new == [app EXCEPT !.queue = q]
           es == EntriesFor(dr.wallet, tx, v)
           r == RowAfter(dr, tx, ref, v)
           wal == WalletAfter(dr.wallet, sub[tx], v)
           evs == SettlementEvents(tx, before, v, wal)
           w == WalletOf(a)
           seen == Visible(dr)
           now == Visible(new)
           p == ParkedIn(row, resp, seen)
           parked == ParkedIn(row, resp, now)
           told == outbox[w] \o dr.events
           entries == LedgerAfter(a)
<1>1. /\ TypeOK /\ SettlementInv /\ DraftInOrder(a) /\ StoryInHand(a) /\ Holding(a)
      /\ tx \in Deliveries /\ v \in Verdicts /\ sub[tx].wallet = w
      /\ v.direction = "DEBIT" => sub[tx].amount <= dr.wallet.balance
      /\ v.direction # NoDirection <=> v.status = "PROCESSED" /\ sub[tx].kind # "LOSS"
  BY StoryInvParts DEF SettlesInStory
<1>2. /\ dr \in Drafts /\ dr.wallet \in WalletRows /\ dr.rows \in [Deliveries -> Rows]
      /\ dr.entries \in Seq(Entries) /\ dr.events \in Seq(Events)
  BY <1>1 DEF TypeOK, Drafts
<1>3. sub[tx].amount \in Nat /\ dr.wallet.balance >= 0 /\ w \in Wallets
  BY <1>1, SubmissionAssumption, HolderFacts
     DEF SettlementInv, DraftsContinueLedger, SettlesInStory
<1>4. ExtendedBy(dr, tx, v, r, app)
  BY <1>1, <1>2, <1>3, AppliedDraft
<1>5. /\ app \in Drafts /\ app.entries = dr.entries \o es /\ app.events = dr.events \o evs
      /\ \A e \in Deliveries : app.rows[e] = IF e = tx THEN r ELSE dr.rows[e]
  <2>1. app.events = dr.events \o evs
    <3>1. dr \in Drafts
      BY <1>2
    <3> HIDE DEF dr
    <3> QED BY <3>1, AppliedEvents
  <2> HIDE DEF app, es, r, evs, dr
  <2> QED BY <1>4, <2>1 DEF ExtendedBy, es
<1>6. /\ new \in Drafts /\ new.entries = dr.entries \o es /\ new.events = dr.events \o evs
      /\ \A e \in Deliveries : new.rows[e] = IF e = tx THEN r ELSE dr.rows[e]
  <2> HIDE DEF app, es, r, evs
  <2> QED BY <1>5 DEF Drafts
<1>7. es \in Seq(Entries) /\ wal \in WalletRows /\ wal.version = dr.wallet.version + Len(es)
  BY <1>1, <1>2, <1>3, EntryContinuesWallet
<1>8. evs \in Seq(Events)
  BY <1>1, <1>7, SettlementEventsType
<1>9. r \in Rows /\ r.status = v.status /\ v.status \in StoredStatuses
  <2>1. r.status = v.status
    BY DEF RowAfter
  <2> HIDE DEF r, new
  <2> QED BY <1>1, <1>6, <2>1 DEF Drafts, Verdicts
<1>10. seen \in [Deliveries -> Rows] /\ now \in [Deliveries -> Rows]
  <2> HIDE DEF new
  <2> QED BY <1>1, <1>2, <1>6, VisibleType
<1>11. \A e \in Deliveries : now[e] = IF e = tx THEN r ELSE seen[e]
  <2> HIDE DEF new, r
  <2>1. Stored(new.rows) = Stored(dr.rows) \cup {tx}
    BY <1>1, <1>6, <1>9 DEF Stored, StoredStatuses
  <2> QED BY <1>1, <1>6, <2>1 DEF Visible
<1>12. /\ ledger[w] \o new.entries = entries \o es /\ entries \in Seq(Entries)
       /\ outbox[w] \o new.events = told \o evs /\ told \in Seq(Events)
  <2> DEFINE l == ledger[w]
             o == outbox[w]
             f == dr.entries
             g == dr.events
  <2>1. l \in Seq(Entries) /\ o \in Seq(Events) /\ entries = l \o f
    BY <1>1, <1>3 DEF TypeOK, LedgerAfter
  <2> HIDE DEF l, o, f, g, entries, new, es, evs
  <2>2. f \in Seq(Entries) /\ g \in Seq(Events)
    BY <1>2 DEF f, g
  <2>3. l \o (f \o es) = (l \o f) \o es /\ l \o f \in Seq(Entries)
    BY <1>7, <2>1, <2>2
  <2>4. o \o (g \o evs) = (o \o g) \o evs /\ o \o g \in Seq(Events)
    BY <1>8, <2>1, <2>2
  <2> QED BY <1>6, <2>1, <2>3, <2>4 DEF l, o, f, g
<1>13. wal.version = 1 + Len(entries) + Len(es) - Skip(w)
  <2> DEFINE l == ledger[w]
             f == dr.entries
  <2>1. /\ dr.wallet.version = wallet[w].version + Len(f)
        /\ wallet[w].version = 1 + Len(l) - Skip(w)
    BY <1>1, <1>3 DEF SettlementInv, DraftsContinueLedger, LedgerExplainsBalance, Skip
  <2>2. l \in Seq(Entries) /\ f \in Seq(Entries) /\ entries = l \o f
    BY <1>1, <1>2, <1>3 DEF TypeOK, LedgerAfter
  <2>3. wallet[w].version \in Nat
    BY <1>1, <1>3 DEF TypeOK, WalletRows
  <2>4. Skip(w) \in Nat
    BY DEF Skip, OpeningEntries
  <2> HIDE DEF l, f, entries, wal, es
  <2>5. Len(entries) = Len(l) + Len(f) /\ Len(l) \in Nat /\ Len(f) \in Nat /\ Len(es) \in Nat
    BY <1>7, <2>2
  <2> QED BY <1>7, <2>1, <2>3, <2>4, <2>5
<1>14. /\ StoriesTold(sub, w, seen, p, told)
       /\ Announces(told, entries, Skip(w)) /\ Skip(w) <= Len(entries)
  BY <1>1 DEF StoryInHand, WellTold
<1>15. before \in {"PENDING", "PENDING_REFERENCE"} /\ SettlesRow(seen, tx, before, v, r, p, parked)
  <2>1. \A e \in Deliveries \ {tx} : e \in parked <=> e \in p
    BY <1>11 DEF ParkedIn, Stored
  <2> HIDE DEF r, now, seen
  <2>2. tx \in parked <=> IF before = "PENDING" THEN v.status = "PENDING_REFERENCE" ELSE tx \in p
    <3>1. now[tx].status = v.status /\ v.status # "ABSENT"
      BY <1>1, <1>9, <1>11 DEF StoredStatuses
    <3> QED BY <1>1, <3>1 DEF SettlesInStory, ParkedIn, Stored, seen
  <2> QED BY <1>1, <1>9, <2>1, <2>2 DEF SettlesInStory, SettlesRow, seen
<1>16. now = [seen EXCEPT ![tx] = r]
  <2> HIDE DEF now, seen, r
  <2> QED BY <1>1, <1>9, <1>10, <1>11
<1>17. StoriesTold(sub, w, now, parked, told \o evs)
  <2> HIDE DEF now, seen, p, parked, told, r, wal, w, dr, evs
  <2> QED BY <1>1, <1>7, <1>9, <1>10, <1>12, <1>14, <1>15, <1>16, StoriesWithSettled DEF evs
<1>18. Skip(w) \in Nat
  BY DEF Skip, OpeningEntries
<1>19. \/ es = <<>> /\ \A i \in DOMAIN evs : evs[i].type # "WalletBalanceChanged"
       \/ \E e \in Entries, k \in DOMAIN evs :
            /\ es = <<e>>
            /\ \A i \in DOMAIN evs : evs[i].type = "WalletBalanceChanged" <=> i = k
            /\ evs[k].tx = e.tx /\ evs[k].balance = e.after
            /\ evs[k].version = 2 + Len(entries) - Skip(w)
  <2>1. /\ \A i \in DOMAIN evs : evs[i].tx = tx
        /\ \A i \in DOMAIN evs : evs[i].type = "WalletBalanceChanged"
                                   <=> i = 2 /\ v.direction # NoDirection
        /\ v.direction # NoDirection => /\ 2 \in DOMAIN evs /\ evs[2].balance = wal.balance
                                        /\ evs[2].version = wal.version
    <3> DEFINE kind == sub[tx].kind
    <3>1. v.direction # NoDirection <=> v.status = "PROCESSED" /\ kind # "LOSS"
      BY <1>1
    <3> HIDE DEF wal, kind
    <3>2. VerdictTold(evs, tx, kind, before, v, wal)
      BY <1>1, <1>7, <1>15, <3>1, SettlementEventsTell
    <3> HIDE DEF evs
    <3> QED BY <3>2 DEF VerdictTold
  <2>2. CASE v.direction = NoDirection
    <3>1. es = <<>>
      BY <2>2 DEF EntriesFor
    <3> HIDE DEF evs, es
    <3> QED BY <2>1, <2>2, <3>1
  <2>3. CASE v.direction # NoDirection
    <3> DEFINE e == [ tx |-> tx, direction |-> v.direction, amount |-> sub[tx].amount,
                      before |-> dr.wallet.balance, after |-> wal.balance ]
    <3>1. es = <<e>> /\ e.tx = tx /\ e.after = wal.balance
      BY <2>3 DEF EntriesFor
    <3> HIDE DEF e, es, evs, wal, entries
    <3>2. e \in Entries /\ Len(es) = 1
      BY <1>7, <3>1
    <3>3. Len(entries) \in Nat
      BY <1>12
    <3>4. wal.version = 2 + Len(entries) - Skip(w)
      BY <1>13, <1>18, <3>2, <3>3
    <3> QED BY <2>1, <2>3, <3>1, <3>2, <3>4
  <2> QED BY <2>2, <2>3
<1>20. Announces(told \o evs, entries \o es, Skip(w)) /\ Skip(w) <= Len(entries \o es)
  <2> HIDE DEF told, entries, evs, es, w
  <2> QED BY <1>7, <1>8, <1>12, <1>14, <1>18, <1>19, AnnouncesConcat
<1>21. WellTold(sub, w, now, parked, outbox[w] \o new.events, ledger[w] \o new.entries)
  <2> HIDE DEF told, entries, evs, es, w, now, parked, new
  <2> QED BY <1>12, <1>17, <1>20 DEF WellTold
<1>22. next \in {"cascade", "commit"} /\ (next = "cascade" => Terminal(new.rows[TxOf(a)].status))
  <2> HIDE DEF new, r
  <2>1. TxOf(a) \in Deliveries
    BY <1>1, HolderFacts
  <2> QED BY <1>1, <1>6, <1>9, <2>1 DEF SettlesInStory
<1>23. draft' = [draft EXCEPT ![a] = new]
  OBVIOUS
<1> HIDE DEF new
<1> QED
  BY <1>1, <1>21, <1>22, <1>23, WritesStory DEF now, parked, w

\* A transaction that has just got its lock settles or parks its own row.
LEMMA FirstSettledStory ==
  ASSUME StoryInv, BooksInv', NEW a \in Actors, pc[a] = "decide", NEW tx, tx = TxOf(a),
         NEW before,
         \/ before = "PENDING" /\ row[tx].status = "ABSENT"
         \/ before = "PENDING_REFERENCE" /\ row[tx].status = "PENDING_REFERENCE",
         LET ref == ReferenceOf(Visible(draft[a]), sub[tx])
         IN  Apply(a, tx, ref, before, VerdictOn(draft[a], tx, ref))
  PROVE  StoryInv'
<1> DEFINE dr == draft[a]
           ref == ReferenceOf(Visible(dr), sub[tx])
           v == VerdictOn(dr, tx, ref)
           q == QueueAfter(tx, v)
           next == IF q = <<>> THEN "commit" ELSE "cascade"
<1>1. /\ draft' = [draft EXCEPT ![a] = [Applied(draft[a], tx, ref, before, v) EXCEPT !.queue = q]]
      /\ pc' = [pc EXCEPT ![a] = next]
      /\ UNCHANGED <<sub, row, ledger, outbox, job, resp>>
  BY DEF Apply, committed
<1>2. Holding(a) /\ BooksInv /\ SettlementInv /\ TypeOK /\ dr \in Drafts
  BY StoryInvParts DEF Holding, TypeOK
<1>3. tx \in Deliveries /\ sub[tx] \in Submissions /\ sub[tx].wallet = WalletOf(a)
  BY <1>2, HolderFacts DEF WalletOf
<1>4. Visible(dr) = row
  BY <1>2, AtDecide
<1>5. ref \in Deliveries \cup {NoTx} /\ (RequiresReference(sub[tx].kind) \/ ref = NoTx)
  BY ReferenceType DEF ReferenceOf
<1>6. v \in Verdicts /\ (v.direction = "DEBIT" => sub[tx].amount <= dr.wallet.balance)
  BY <1>2, <1>3, VerdictOnIsSound
<1>7. v.direction # NoDirection <=> v.status = "PROCESSED" /\ sub[tx].kind # "LOSS"
  <2>1. Justified(sub, sub[tx].wallet, Visible(dr), tx, ref, v)
    BY <1>2, <1>3, <1>5, VerdictJustified
  <2> HIDE DEF v, ref
  <2> QED BY <2>1 DEF Justified
<1>8. q \in Seq(Deliveries) /\ (next = "cascade" => Terminal(v.status))
  BY <1>3 DEF QueueAfter
<1>9. SettlesInStory(a, tx, before, v, next)
  <2>1. next \in {"cascade", "commit"}
    OBVIOUS
  <2> HIDE DEF v, ref, q, next
  <2> QED BY <1>2, <1>3, <1>4, <1>6, <1>7, <1>8, <2>1 DEF SettlesInStory
<1> HIDE DEF v, ref, q, next
<1> QED
  BY <1>1, <1>5, <1>8, <1>9, AppliedStory

\* A delivery's own row, and a pending row that a worker settles.
LEMMA ProcessStory ==
  ASSUME StoryInv, BooksInv', NEW a \in Actors,
         (a \in Deliveries /\ Process(a)) \/ (a \in Workers /\ Reprocess(a))
  PROVE  StoryInv'
<1>1. CASE a \in Deliveries /\ Process(a)
  <2>1. TxOf(a) = a /\ pc[a] = "decide" /\ row[a].status = "ABSENT"
    BY <1>1, StoryInvParts DEF TxOf, Process, StoredOnce
  <2>2. LET ref == ReferenceOf(Visible(draft[a]), sub[a])
        IN  Apply(a, a, ref, "PENDING", VerdictOn(draft[a], a, ref))
    BY <1>1 DEF Process
  <2> QED BY <2>1, <2>2, FirstSettledStory
<1>2. CASE a \in Workers /\ Reprocess(a)
  <2>1. TxOf(a) = job[a].tx /\ pc[a] = "decide" /\ row[job[a].tx].status = "PENDING_REFERENCE"
    BY <1>2, ActorAssumption DEF TxOf, Reprocess
  <2>2. LET ref == ReferenceOf(Visible(draft[a]), sub[job[a].tx])
        IN  Apply(a, job[a].tx, ref, "PENDING_REFERENCE", VerdictOn(draft[a], job[a].tx, ref))
    BY <1>2 DEF Reprocess, JobReference, JobVerdict
  <2> QED BY <2>1, <2>2, FirstSettledStory
<1> QED
  BY <1>1, <1>2

\* A dependent that is settled with its reference.
LEMMA SettleDependentStory ==
  ASSUME StoryInv, BooksInv', NEW a \in Actors, SettleDependent(a)
  PROVE  StoryInv'
<1> DEFINE dr == draft[a]
           ref == Head(dr.queue)
<1>1. /\ pc[a] = "cascade" /\ Holding(a) /\ Writing(a)
      /\ UNCHANGED <<sub, row, ledger, outbox, job, pc, resp>>
  BY DEF SettleDependent, Holding, Writing, committed
<1>2. /\ BooksInv /\ SettlementInv /\ TypeOK /\ DraftInOrder(a) /\ BooksInHand(a) /\ EventsInOrder(a)
  BY StoryInvParts, BooksInvParts
<1>3. dr \in Drafts /\ dr.queue \in Seq(Deliveries) /\ dr.queue # <<>>
  BY <1>1, <1>2 DEF SettlementInv, TypeOK, LocksHeld, Drafts
<1>4. ref \in Deliveries /\ 1 \in DOMAIN dr.queue /\ ref = dr.queue[1]
  BY <1>3
<1>5. PICK e \in Dependents(dr, ref) :
        draft' = [draft EXCEPT ![a] =
                    [Applied(dr, e, ref, "PENDING_REFERENCE", VerdictOn(dr, e, ref)) EXCEPT
                       !.queue = QueueAfterDependent(dr.queue, e, VerdictOn(dr, e, ref))]]
  BY DEF SettleDependent
<1> DEFINE v == VerdictOn(dr, e, ref)
           q == QueueAfterDependent(dr.queue, e, v)
<1>6. ref \in Stored(dr.rows) /\ sub[ref].wallet = WalletOf(a)
  BY <1>2, <1>4 DEF Stored, Terminal, DraftInOrder, Drafted
<1>7. e \in Deliveries /\ Visible(dr)[e].status = "PENDING_REFERENCE" /\ sub[e].wallet = WalletOf(a)
  BY <1>5, <1>6 DEF Dependents
<1>8. sub[e] \in Submissions
  BY <1>2, <1>7, VisibleWellPlaced
<1>9. v \in Verdicts /\ (v.direction = "DEBIT" => sub[e].amount <= dr.wallet.balance)
  BY <1>2, <1>3, <1>7, <1>8, VerdictOnIsSound
<1>10. RequiresReference(sub[e].kind)
  BY <1>1, <1>2, <1>7 DEF BooksInHand, Books, ReversalsRefer, RowsOf
<1>11. v.direction # NoDirection <=> v.status = "PROCESSED" /\ sub[e].kind # "LOSS"
  <2>1. Justified(sub, sub[e].wallet, Visible(dr), e, ref, v)
    BY <1>2, <1>3, <1>4, <1>7, <1>8, <1>10, VerdictJustified
  <2> HIDE DEF v, ref
  <2> QED BY <2>1 DEF Justified
<1>12. q \in Seq(Deliveries)
  <2> HIDE DEF v
  <2> QED BY <1>3, <1>7 DEF QueueAfterDependent
<1>13. Terminal(dr.rows[TxOf(a)].status) /\ e # TxOf(a)
  <2>1. Terminal(dr.rows[TxOf(a)].status)
    BY <1>1, <1>2 DEF EventsInOrder
  <2> QED BY <1>7, <2>1 DEF Visible, Stored, Terminal
<1>14. row[e].status # "ABSENT"
  <2>1. row[e].status = "PENDING_REFERENCE" \/ (e = a /\ row[e].status = "ABSENT")
    BY <1>2, <1>7, WaitingIsStored
  <2> QED BY <1>7, <1>13, <2>1 DEF TxOf
<1>15. pc' = [pc EXCEPT ![a] = "cascade"]
  BY <1>1, <1>2 DEF TypeOK
<1>16. SettlesInStory(a, e, "PENDING_REFERENCE", v, "cascade")
  <2> HIDE DEF v, ref, q
  <2> QED BY <1>1, <1>7, <1>8, <1>9, <1>11, <1>13, <1>14 DEF SettlesInStory
<1>17. draft' = [draft EXCEPT ![a] = [Applied(draft[a], e, ref, "PENDING_REFERENCE", v)
                                       EXCEPT !.queue = q]]
  BY <1>5
<1> HIDE DEF v, q, ref
<1> QED
  BY <1>1, <1>4, <1>12, <1>15, <1>16, <1>17, AppliedStory

\* A pending row that is given up.
LEMMA ExpireStory ==
  ASSUME StoryInv, BooksInv', NEW a \in Workers, Expire(a)
  PROVE  StoryInv'
<1> DEFINE tx == job[a].tx
           dr == draft[a]
           v == Rejected("UNRESOLVED_REFERENCE")
           app == Applied(dr, tx, NoTx, "PENDING_REFERENCE", v)
           q == <<>>
<1>1. /\ pc[a] = "decide" /\ row[tx].status = "PENDING_REFERENCE"
      /\ draft' = [draft EXCEPT ![a] = app] /\ pc' = [pc EXCEPT ![a] = "commit"]
      /\ UNCHANGED <<sub, row, ledger, outbox, job, resp>>
  BY StoryInvParts DEF Expire, TypeOK, committed
<1>2. /\ Holding(a) /\ a \in Actors /\ tx \in Deliveries /\ BooksInv /\ SettlementInv /\ TypeOK
      /\ sub[tx] \in Submissions /\ sub[tx].wallet \in Wallets
      /\ TxOf(a) = tx /\ sub[tx].wallet = WalletOf(a)
  BY <1>1, StoryInvParts, JobFacts, ActorAssumption DEF TxOf, WalletOf
<1>3. dr \in Drafts /\ Visible(dr) = row /\ dr.queue = <<>>
  BY <1>1, <1>2, AtDecide DEF TypeOK
<1>4. /\ v \in Verdicts /\ v.status = "REJECTED" /\ v.direction = NoDirection
      /\ v.direction # "DEBIT"
  BY DEF Rejected, Verdicts, StoredStatuses, FailureCodes, NoDirection
<1>5. sub[tx].amount \in Nat /\ dr.wallet.balance >= 0
  BY <1>2, SubmissionAssumption DEF SettlementInv, DraftsContinueLedger
<1> HIDE DEF v
<1>6. app \in Drafts /\ app.queue = <<>>
  <2> HIDE DEF dr, tx
  <2>1. ExtendedBy(dr, tx, v, RowAfter(dr, tx, NoTx, v), app)
    BY <1>2, <1>3, <1>4, <1>5, AppliedDraft
  <2> QED BY <1>3, <2>1 DEF ExtendedBy
<1>7. [app EXCEPT !.queue = q] = app
  <2> HIDE DEF app
  <2> QED BY <1>6 DEF Drafts
<1>8. draft' = [draft EXCEPT ![a] = [Applied(draft[a], tx, NoTx, "PENDING_REFERENCE", v)
                                       EXCEPT !.queue = q]]
  BY <1>1, <1>7
<1>9. q \in Seq(Deliveries)
  OBVIOUS
<1>10. SettlesInStory(a, tx, "PENDING_REFERENCE", v, "commit")
  BY <1>1, <1>2, <1>3, <1>4 DEF SettlesInStory
<1> DEFINE ref == NoTx
           before == "PENDING_REFERENCE"
           next == "commit"
<1>11. /\ draft' = [draft EXCEPT ![a] = [Applied(draft[a], tx, ref, before, v) EXCEPT !.queue = q]]
       /\ SettlesInStory(a, tx, before, v, next) /\ pc' = [pc EXCEPT ![a] = next]
       /\ ref \in Deliveries \cup {NoTx}
  BY <1>1, <1>8, <1>10
<1> HIDE DEF tx, q, app, dr, ref, before, next
<1> QED
  <2>1. /\ a \in Actors /\ SettlesInStory(a, tx, before, v, next)
        /\ ref \in Deliveries \cup {NoTx} /\ q \in Seq(Deliveries)
        /\ pc' = [pc EXCEPT ![a] = next]
        /\ draft' = [draft EXCEPT ![a] = [Applied(draft[a], tx, ref, before, v) EXCEPT !.queue = q]]
        /\ UNCHANGED <<sub, row, ledger, outbox, job, resp>>
    BY <1>1, <1>2, <1>9, <1>11
  <2> QED BY <2>1, AppliedStory

\* A reference whose dependents are all settled: nothing is told.
LEMMA NextReferenceStory ==
  ASSUME StoryInv, BooksInv', NEW a \in Actors, NextReference(a)
  PROVE  StoryInv'
<1> DEFINE dr == draft[a]
           new == [dr EXCEPT !.queue = Tail(dr.queue)]
           next == IF Len(dr.queue) = 1 THEN "commit" ELSE "cascade"
<1>1. /\ pc[a] = "cascade" /\ Holding(a) /\ TypeOK
      /\ draft' = [draft EXCEPT ![a] = new] /\ pc' = [pc EXCEPT ![a] = next]
      /\ next \in {"cascade", "commit"}
      /\ UNCHANGED <<sub, row, ledger, outbox, job, resp>>
  BY StoryInvParts DEF NextReference, Holding, TypeOK, committed
<1>2. StoryInHand(a) /\ EventsInOrder(a) /\ dr \in Drafts
  BY <1>1, StoryInvParts DEF TypeOK
<1>3. new.entries = dr.entries /\ new.rows = dr.rows /\ new.events = dr.events
  BY <1>2 DEF Drafts
<1> HIDE DEF new, next
<1>4. Visible(new) = Visible(dr)
  BY <1>3 DEF Visible
<1>5. WellTold(sub, WalletOf(a), Visible(new), ParkedIn(row, resp, Visible(new)),
               outbox[WalletOf(a)] \o new.events, ledger[WalletOf(a)] \o new.entries)
  BY <1>2, <1>3, <1>4 DEF StoryInHand, LedgerAfter
<1>6. Terminal(new.rows[TxOf(a)].status)
  BY <1>1, <1>2, <1>3 DEF EventsInOrder
<1> QED
  BY <1>1, <1>5, <1>6, WritesStory

\* A pending row that waits on: nothing is told either.
LEMMA RescheduleStory ==
  ASSUME StoryInv, BooksInv', NEW a \in Workers, Reschedule(a)
  PROVE  StoryInv'
<1> DEFINE tx == job[a].tx
           dr == draft[a]
           r == [row[tx] EXCEPT !.attempts = @ + 1]
           new == [dr EXCEPT !.rows[tx] = r]
           w == WalletOf(a)
<1>1. /\ pc[a] = "decide" /\ row[tx].status = "PENDING_REFERENCE"
      /\ draft' = [draft EXCEPT ![a] = new] /\ pc' = [pc EXCEPT ![a] = "commit"]
      /\ UNCHANGED <<sub, row, ledger, outbox, job, resp>>
  BY StoryInvParts DEF Reschedule, TypeOK, committed
<1>2. /\ Holding(a) /\ a \in Actors /\ tx \in Deliveries /\ row[tx] \in Rows
      /\ BooksInv /\ TypeOK /\ TxOf(a) = tx
  BY <1>1, StoryInvParts, JobFacts, ActorAssumption DEF TxOf
<1>3. StoryInHand(a) /\ dr \in Drafts /\ Visible(dr) = row
  BY <1>1, <1>2, StoryInvParts, AtDecide DEF TypeOK
<1>4. r.status = row[tx].status
  BY <1>2 DEF Rows
<1> HIDE DEF r
<1>5. /\ new.entries = dr.entries /\ new.events = dr.events
      /\ \A e \in Deliveries : new.rows[e] = IF e = tx THEN r ELSE dr.rows[e]
  BY <1>2, <1>3 DEF Drafts
<1> HIDE DEF new
<1>6. \A e \in Deliveries : \/ Visible(new)[e] = Visible(dr)[e]
                            \/ e = tx /\ Visible(new)[e] = r
  <2>1. Stored(dr.rows) = {}
    BY <1>1, <1>2, StoryInvParts DEF DraftInOrder, Writing
  <2>2. Stored(new.rows) = {tx}
    BY <1>1, <1>2, <1>4, <1>5, <2>1 DEF Stored
  <2> QED BY <1>2, <1>5, <2>1, <2>2 DEF Visible
<1>7. \A e \in Deliveries : Visible(new)[e].status = row[e].status
  BY <1>3, <1>4, <1>6
<1>8. \A e \in Deliveries : /\ Visible(new)[e].status = Visible(dr)[e].status
                            /\ e \in ParkedIn(row, resp, Visible(new))
                                 <=> e \in ParkedIn(row, resp, Visible(dr))
  BY <1>3, <1>7 DEF ParkedIn, Stored
<1>9. WellTold(sub, w, Visible(new), ParkedIn(row, resp, Visible(new)),
               outbox[w] \o new.events, ledger[w] \o new.entries)
  <2>1. WellTold(sub, w, Visible(dr), ParkedIn(row, resp, Visible(dr)),
                 outbox[w] \o new.events, ledger[w] \o new.entries)
    BY <1>3, <1>5 DEF StoryInHand, LedgerAfter
  <2>2. RowsOf(sub, w, Visible(new)) = RowsOf(sub, w, Visible(dr))
        /\ RowsOf(sub, w, Visible(dr)) \subseteq Deliveries
    BY <1>8 DEF RowsOf
  <2> DEFINE was == Visible(dr)
             now == Visible(new)
             p == ParkedIn(row, resp, was)
             q == ParkedIn(row, resp, now)
  <2> HIDE DEF w, was, now, p, q
  <2>3. \A d : d \in RowsOf(sub, w, was) => (d \in q <=> d \in p) /\ now[d].status = was[d].status
    BY <1>8, <2>2 DEF was, now, p, q
  <2>4. \A d \in RowsOf(sub, w, now) : Story(sub[d].kind, d \in q, now[d].status)
                                         = Story(sub[d].kind, d \in p, was[d].status)
    BY <2>2, <2>3 DEF Story, was, now
  <2> QED BY <2>1, <2>2, <2>4 DEF WellTold, StoriesTold, was, now, p, q
<1>10. draft' = [draft EXCEPT ![a] = new]
  BY <1>1 DEF new, r
<1> QED
  BY <1>1, <1>2, <1>9, <1>10, WritesStory DEF w

\* The transaction of a is over and has stored nothing: it is answered, rolled back
\* or has nothing to do.
LEMMA EndedStory ==
  ASSUME StoryInv, BooksInv', NEW a \in Actors,
         \/ a \in Deliveries /\ (AnswerKnown(a) \/ AnswerAfterLock(a) \/ WalletNotFound(a)
                                   \/ WrongPlayer(a) \/ CommitClash(a))
         \/ a \in Workers /\ SkipRow(a)
         \/ CommitRefused(a)
         \/ Crash(a)
  PROVE  StoryInv'
<1>1. TypeOK
  BY StoryInvParts
<1>2. /\ pc[a] # "done" /\ UNCHANGED <<sub, row, ledger, outbox>>
      /\ \A b \in Deliveries \ {a} : resp'[b] = resp[b]
  BY <1>1 DEF AnswerKnown, AnswerAfterLock, WalletNotFound, WrongPlayer, CommitClash, SkipRow,
     CommitRefused, Crash, Answer, committed, TypeOK
<1>3. \E next \in {"idle", "done", "resolve"} : Close(a, next)
  BY DEF AnswerKnown, AnswerAfterLock, WalletNotFound, WrongPlayer, CommitClash, SkipRow,
     CommitRefused, Crash, Answer
<1>4. /\ pc'[a] \in {"idle", "done", "resolve"} /\ draft'[a] = EmptyDraft
      /\ \A b \in Actors \ {a} : /\ pc'[b] = pc[b] /\ draft'[b] = draft[b]
                                 /\ b \in Workers => job'[b] = job[b]
  BY <1>1, <1>3 DEF Close, TypeOK
<1>5. Stored(EmptyDraft.rows) = {} /\ EmptyDraft.entries = <<>> /\ EmptyDraft.events = <<>>
  BY DEF EmptyDraft, Stored, NoRow
<1> QED
  BY <1>2, <1>4, <1>5, AsideStory

\* A step between transactions, a new submission and the SELECT ... FOR UPDATE.
LEMMA BetweenStory ==
  ASSUME StoryInv, BooksInv', NEW a \in Actors,
         \/ /\ a \in Deliveries
            /\ \/ RequestLock(a) \/ ResolveExisting(a) \/ MarkInboxProcessed(a)
               \/ \E s \in Submissions : Submit(a, s)
         \/ a \in Workers /\ PickDue(a)
         \/ AcquireLock(a)
  PROVE  StoryInv'
<1>1. /\ TypeOK /\ SettlementInv /\ DraftInOrder(a) /\ EventsInOrder(a)
  BY StoryInvParts
<1>2. pc[a] # "done" /\ ~Holding(a) /\ UNCHANGED <<row, ledger, outbox>>
  BY DEF RequestLock, ResolveExisting, MarkInboxProcessed, Submit, PickDue, AcquireLock, Holding,
         committed
<1>3. \A e \in Deliveries : pc[e] # "idle" => sub'[e] = sub[e]
  BY <1>1 DEF RequestLock, ResolveExisting, MarkInboxProcessed, Submit, PickDue, AcquireLock, TypeOK
<1>4. \A b \in Deliveries \ {a} : resp'[b] = resp[b]
  BY <1>1 DEF RequestLock, ResolveExisting, MarkInboxProcessed, Submit, PickDue, AcquireLock, TypeOK
<1>5. \A b \in Workers \ {a} : job'[b] = job[b]
  BY <1>1 DEF RequestLock, ResolveExisting, MarkInboxProcessed, Submit, PickDue, AcquireLock, TypeOK
<1>6. \E next \in PCs \ {"cascade", "commit"} : pc' = [pc EXCEPT ![a] = next]
  BY DEF RequestLock, ResolveExisting, MarkInboxProcessed, Submit, PickDue, AcquireLock, PCs
<1>7. draft' = [draft EXCEPT ![a] = [@ EXCEPT !.wallet = wallet[WalletOf(a)]]] \/ UNCHANGED draft
  BY DEF RequestLock, ResolveExisting, MarkInboxProcessed, Submit, PickDue, AcquireLock
<1>8. /\ pc'[a] \notin {"cascade", "commit"}
      /\ \A b \in Actors \ {a} : pc'[b] = pc[b] /\ draft'[b] = draft[b]
      /\ draft'[a].rows = draft[a].rows /\ draft'[a].entries = draft[a].entries
      /\ draft'[a].events = draft[a].events
  BY <1>1, <1>6, <1>7 DEF TypeOK, Drafts
<1>9. Stored(draft[a].rows) = {} /\ draft[a].entries = <<>> /\ draft[a].events = <<>>
  BY <1>1, <1>2 DEF DraftInOrder, SettlementInv, DraftsContinueLedger, EventsInOrder, Writing, Holding
<1> QED
  BY <1>2, <1>3, <1>4, <1>5, <1>8, <1>9, AsideStory

\* COMMIT makes the story in hand the story in the outbox.
LEMMA CommitStory ==
  ASSUME StoryInv, BooksInv', NEW a \in Actors, Commit(a)
  PROVE  StoryInv'
<1> DEFINE dr == draft[a]
           w == WalletOf(a)
<1>1. /\ BooksInv /\ TypeOK /\ StoredOnce /\ SettlementInv
      /\ \A x \in Wallets : StoryInOutbox(x)
      /\ \A b \in Actors : EventsInOrder(b) /\ DraftInOrder(b) /\ (Holding(b) => StoryInHand(b))
  BY StoryInvParts
<1>2. /\ w \in Wallets /\ dr \in Drafts /\ row' = Visible(dr)
      /\ ledger'[w] = LedgerAfter(a)
      /\ \A x \in Wallets \ {w} : ledger'[x] = ledger[x]
      /\ pc'[a] = IF a \in Deliveries THEN "done" ELSE "idle"
      /\ draft'[a] = EmptyDraft
  BY <1>1, CommitFacts
<1>3. \A e \in Stored(dr.rows) :
        /\ row'[e] = dr.rows[e] /\ sub[e].wallet = w
        /\ row[e].status = "PENDING_REFERENCE" \/ (e = a /\ row[e].status = "ABSENT")
  BY <1>1, CommitFacts
<1>4. \A e \in Deliveries \ Stored(dr.rows) : row'[e] = row[e]
  BY <1>1, CommitFacts
<1>5. \A b \in Actors \ {a} : /\ pc'[b] = pc[b] /\ draft'[b] = draft[b]
                              /\ TxOf(b)' = TxOf(b) /\ WalletOf(b)' = WalletOf(b)
                              /\ Holding(b) => WalletOf(b) # w
  BY <1>1, CommitFacts
<1>6. /\ pc[a] = "commit" /\ Holding(a) /\ UNCHANGED sub
      /\ outbox' = [outbox EXCEPT ![w] = @ \o dr.events]
      /\ resp' = IF a \in Deliveries
                 THEN [resp EXCEPT ![a] =
                         [ outcome |-> "settled", tx |-> a, status |-> dr.rows[a].status,
                           balance |-> IF dr.rows[a].status = "PENDING_REFERENCE" THEN NoBalance
                                       ELSE dr.wallet.balance ]]
                 ELSE resp
  BY DEF Commit, Holding
<1>7. outbox'[w] = outbox[w] \o dr.events /\ \A x \in Wallets \ {w} : outbox'[x] = outbox[x]
  BY <1>1, <1>2, <1>6 DEF TypeOK
<1>8. /\ \A d \in Stored(row) : resp'[d] = resp[d] /\ row'[d].status # "ABSENT"
      /\ a \in Deliveries => resp'[a].status = row'[a].status /\ row'[a].status # "ABSENT"
  <2>1. \A d \in Stored(row) : d # a
    BY <1>1, <1>6 DEF StoredOnce, Stored
  <2>2. a \in Deliveries => a \in Stored(dr.rows)
    BY <1>1, <1>6 DEF DraftInOrder, Writing, TxOf
  <2>3. \A d \in Stored(row) : row'[d].status # "ABSENT"
    BY <1>3, <1>4 DEF Stored
  <2> HIDE DEF dr
  <2>4. a \in Deliveries => resp'[a].status = row'[a].status /\ row'[a].status # "ABSENT"
    BY <1>1, <1>3, <1>6, <2>2 DEF TypeOK, Stored
  <2>5. \A d \in Stored(row) : resp'[d] = resp[d]
    BY <1>1, <1>6, <2>1 DEF TypeOK, Stored
  <2> QED BY <2>3, <2>4, <2>5
<1>9. \A e \in Deliveries : row'[e].status # "ABSENT" => e \in Stored(row) \/ e = a
  BY <1>3, <1>4 DEF Stored
<1> HIDE DEF dr, w
<1>10. ParkedIn(row', resp', row') = ParkedIn(row, resp, row')
  BY <1>8, <1>9 DEF ParkedIn, Stored
<1>11. ASSUME NEW x \in Wallets
       PROVE  WellTold(sub, x, row', ParkedIn(row', resp', row'), outbox'[x], ledger'[x])
  <2>1. CASE x = w
    <3>1. WellTold(sub, w, Visible(dr), ParkedIn(row, resp, Visible(dr)),
                   outbox[w] \o dr.events, LedgerAfter(a))
      BY <1>1, <1>6 DEF StoryInHand, dr, w
    <3> QED BY <1>2, <1>7, <1>10, <2>1, <3>1
  <2>2. CASE x # w
    <3>1. \A e \in Deliveries : sub[e].wallet = x => row'[e] = row[e]
      BY <1>3, <1>4, <2>2
    <3>2. SameRows(sub, sub, x, row, row')
      BY <3>1 DEF SameRows, RowsOf
    <3>3. \A e \in RowsOf(sub, x, row) :
            e \in ParkedIn(row', resp', row') <=> e \in ParkedIn(row, resp, row)
      BY <1>10, <3>1 DEF RowsOf, ParkedIn, Stored
    <3>4. WellTold(sub, x, row, ParkedIn(row, resp, row), outbox[x], ledger[x])
      BY <1>1 DEF StoryInOutbox
    <3>5. WellTold(sub, x, row', ParkedIn(row', resp', row'), outbox[x], ledger[x])
      BY <3>2, <3>3, <3>4, WellToldOfSameRows
    <3> QED BY <1>2, <1>7, <2>2, <3>5
  <2> QED BY <2>1, <2>2
<1>12. \A x \in Wallets : StoryInOutbox(x)'
  BY <1>6, <1>11 DEF StoryInOutbox
<1>13. ASSUME NEW b \in Actors PROVE EventsInOrder(b)' /\ (Holding(b)' => StoryInHand(b)')
  <2>1. CASE b = a
    <3>1. EmptyDraft.events = <<>> /\ ~Holding(a)' /\ pc'[a] # "cascade"
      BY <1>2 DEF EmptyDraft, Holding
    <3> QED BY <1>2, <2>1, <3>1 DEF EventsInOrder
  <2>2. CASE b # a
    <3>1. /\ pc'[b] = pc[b] /\ draft'[b] = draft[b]
          /\ TxOf(b)' = TxOf(b) /\ WalletOf(b)' = WalletOf(b)
          /\ Holding(b) => WalletOf(b) # w
      BY <1>5, <2>2
    <3>2. EventsInOrder(b)'
      BY <1>1, <3>1 DEF EventsInOrder, Holding
    <3>3. ASSUME Holding(b)' PROVE StoryInHand(b)'
      <4> DEFINE x == WalletOf(b)
                 old == Visible(draft[b])
                 new == Visible(draft[b])'
                 events == outbox[x] \o draft[b].events
      <4>1. Holding(b) /\ x # w /\ x \in Wallets
        BY <1>1, <3>1, <3>3, HolderFacts DEF Holding
      <4>2. \A e \in Deliveries : sub[e].wallet = x => row'[e] = row[e]
        BY <1>3, <1>4, <4>1
      <4>3. \A e \in Deliveries : sub[e].wallet = x => new[e] = old[e]
        BY <3>1, <4>2 DEF Visible, Stored
      <4>4. LedgerAfter(b)' = LedgerAfter(b) /\ outbox'[WalletOf(b)'] \o draft'[b].events = events
        BY <1>2, <1>7, <3>1, <4>1 DEF LedgerAfter
      <4>5. WellTold(sub, x, old, ParkedIn(row, resp, old), events, LedgerAfter(b))
        BY <1>1, <4>1 DEF StoryInHand
      <4> HIDE DEF x, old, new, events
      <4>6. SameRows(sub, sub, x, old, new)
        BY <4>3 DEF SameRows, RowsOf
      <4>7. \A e \in RowsOf(sub, x, old) :
              e \in ParkedIn(row', resp', new) <=> e \in ParkedIn(row, resp, old)
        BY <1>8, <4>2, <4>3 DEF RowsOf, ParkedIn, Stored
      <4>8. WellTold(sub, x, new, ParkedIn(row', resp', new), events, LedgerAfter(b))
        BY <4>5, <4>6, <4>7, WellToldOfSameRows
      <4> QED BY <1>6, <3>1, <4>4, <4>8 DEF StoryInHand, x, new
    <3> QED BY <3>2, <3>3
  <2> QED BY <2>1, <2>2
<1> QED
  BY <1>12, <1>13 DEF StoryInv

\* There is nothing to tell of a freshly opened wallet.
LEMMA InitStory == Init => StoryInv
<1> SUFFICES ASSUME Init PROVE StoryInv
  OBVIOUS
<1>1. BooksInv
  BY InitBooks
<1>2. ASSUME NEW w \in Wallets PROVE StoryInOutbox(w)
  <2>1. RowsOf(sub, w, row) = {}
    BY DEF Init, NoRow, RowsOf
  <2>2. outbox[w] = <<>> /\ ledger[w] = OpeningEntries(w) /\ Skip(w) = Len(ledger[w])
    BY DEF Init, Skip
  <2>3. Len(ledger[w]) \in Nat
    BY <2>2 DEF OpeningEntries
  <2>4. DOMAIN <<>> = {}
    OBVIOUS
  <2>5. StoriesTold(sub, w, row, ParkedIn(row, resp, row), <<>>)
    BY <2>1, <2>4 DEF StoriesTold
  <2>6. Announces(<<>>, ledger[w], Len(ledger[w]))
    <3>1. (Len(ledger[w]) + 1)..Len(ledger[w]) = {}
      BY <2>3
    <3> QED BY <2>4, <3>1 DEF Announces
  <2> QED BY <2>2, <2>3, <2>5, <2>6 DEF StoryInOutbox, WellTold
<1>3. ASSUME NEW a \in Actors PROVE EventsInOrder(a) /\ ~Holding(a)
  BY DEF Init, EmptyDraft, EventsInOrder, Holding
<1> QED
  BY <1>1, <1>2, <1>3 DEF StoryInv

\* Every step of the specification keeps the stories.
LEMMA NextStory ==
  StoryInv /\ [Next]_vars => StoryInv'
<1> SUFFICES ASSUME StoryInv, [Next]_vars
             PROVE  StoryInv'
  OBVIOUS
<1>0. BooksInv'
  BY NextBooks DEF StoryInv
<1>1. ASSUME NEW d \in Deliveries, DeliveryStep(d) \/ \E s \in Submissions : Submit(d, s)
      PROVE  StoryInv'
  <2>1. d \in Actors
    BY DEF Actors
  <2> QED BY <1>0, <1>1, <2>1, EndedStory, BetweenStory, ProcessStory DEF DeliveryStep
<1>2. ASSUME NEW a \in Workers, WorkerStep(a)
      PROVE  StoryInv'
  <2>1. a \in Actors
    BY DEF Actors
  <2> QED BY <1>0, <1>2, <2>1, EndedStory, BetweenStory, ProcessStory, RescheduleStory, ExpireStory
          DEF WorkerStep
<1>3. ASSUME NEW a \in Actors, TransactionStep(a) \/ Crash(a)
      PROVE  StoryInv'
  BY <1>0, <1>3, EndedStory, BetweenStory, SettleDependentStory, NextReferenceStory, CommitStory
     DEF TransactionStep
<1>4. CASE UNCHANGED vars
  <2>1. UNCHANGED <<sub, row, ledger, outbox, pc, job, draft, resp>>
    BY <1>4 DEF vars
  <2>2. \A a \in Actors : /\ TxOf(a)' = TxOf(a) /\ WalletOf(a)' = WalletOf(a)
                          /\ Visible(draft[a])' = Visible(draft[a])
                          /\ LedgerAfter(a)' = LedgerAfter(a)
    BY <2>1 DEF TxOf, WalletOf, Visible, Stored, LedgerAfter
  <2>3. \A w \in Wallets : StoryInOutbox(w)'
    BY <2>1 DEF StoryInv, StoryInOutbox
  <2>4. \A a \in Actors : EventsInOrder(a)' /\ (Holding(a)' => StoryInHand(a)')
    BY <2>1, <2>2 DEF StoryInv, EventsInOrder, StoryInHand, Holding
  <2> QED BY <1>0, <2>3, <2>4 DEF StoryInv
<1>5. CASE Quiescent
  BY <1>4, <1>5 DEF Quiescent
<1> QED
  BY <1>1, <1>2, <1>3, <1>4, <1>5 DEF Next

\* A WalletBalanceChanged is that of one entry of the ledger.
LEMMA AnnouncedEntry ==
  ASSUME NEW w \in Wallets, NEW entries, NEW events, Announces(events, entries, Len(OpeningEntries(w))),
         entries \in Seq(Entries),
         NEW i \in DOMAIN events, events[i].type = "WalletBalanceChanged"
  PROVE  \E n \in DOMAIN entries : /\ events[i].tx = entries[n].tx
                                   /\ events[i].balance = entries[n].after
<1> DEFINE skip == Len(OpeningEntries(w))
           n == events[i].version - 1 + skip
<1>1. skip \in Nat
  BY DEF OpeningEntries
<1>2. /\ n \in (skip + 1)..Len(entries)
      /\ events[i].tx = entries[n].tx /\ events[i].balance = entries[n].after
  BY DEF Announces
<1> HIDE DEF skip, n
<1>3. n \in DOMAIN entries
  BY <1>1, <1>2
<1> QED
  BY <1>2, <1>3

\* The inductive invariant holds throughout every behaviour.
THEOREM StoryInvariant == Spec => []StoryInv
  BY InitStory, NextStory, PTL DEF Spec

\* The outbox tells each transaction's story exactly once and in order, whichever of
\* submit, the cascade and the retry worker settles it, and announces each movement
\* of a wallet once, in version order, with the balance after it.
THEOREM OutboxIsExact == Spec => []OutboxTellsTheStory
<1>1. StoryInv => OutboxTellsTheStory
  <2> SUFFICES ASSUME StoryInv PROVE OutboxTellsTheStory
    OBVIOUS
  <2>1. SettlementInv /\ \A w \in Wallets : StoryInOutbox(w)
    BY StoryInvParts
  <2>2. ASSUME NEW d \in Stored(row)
        PROVE  Tells(outbox[sub[d].wallet], d,
                     Story(sub[d].kind, resp[d].status = "PENDING_REFERENCE", row[d].status))
    <3> DEFINE w == sub[d].wallet
    <3>1. w \in Wallets /\ d \in RowsOf(sub, w, row)
      BY <2>1 DEF SettlementInv, RowsWellPlaced, WellPlaced, RowsOf, Stored
    <3> HIDE DEF w
    <3>2. Tells(outbox[w], d, Story(sub[d].kind, d \in ParkedIn(row, resp, row), row[d].status))
      BY <2>1, <3>1 DEF StoryInOutbox, WellTold, StoriesTold
    <3>3. d \in ParkedIn(row, resp, row) <=> resp[d].status = "PENDING_REFERENCE"
      BY DEF ParkedIn
    <3>4. Story(sub[d].kind, d \in ParkedIn(row, resp, row), row[d].status)
            = Story(sub[d].kind, resp[d].status = "PENDING_REFERENCE", row[d].status)
      BY <3>3 DEF Story
    <3> QED BY <3>2, <3>4 DEF w
  <2>3. \A w \in Wallets : Announces(outbox[w], ledger[w], Len(OpeningEntries(w)))
    BY <2>1 DEF StoryInOutbox, WellTold, Skip
  <2> QED BY <2>2, <2>3 DEF OutboxTellsTheStory
<1> QED
  BY <1>1, StoryInvariant, PTL

\* A replay of a terminal transaction reports the status of its terminal event and,
\* when it moved money, the balance its WalletBalanceChanged announced, however the
\* wallet moved before and after: the event and every replay come from one entry.
THEOREM ReplaysAlwaysRepeatTheEvents == Spec => []ReplaysRepeatTheEvents
<1>1. AnswersInv /\ StoryInv /\ OutboxTellsTheStory => ReplaysRepeatTheEvents
  <2> SUFFICES ASSUME AnswersInv, StoryInv, OutboxTellsTheStory,
                      NEW d \in Deliveries, resp[d].outcome = "replay", Terminal(resp[d].status)
               PROVE  LET events == outbox[sub[resp[d].tx].wallet]
                          told == { i \in DOMAIN events : events[i].tx = resp[d].tx }
                      IN  /\ \E i \in told :
                               events[i].type = IF resp[d].status = "PROCESSED"
                                                THEN "WagerTransactionProcessed"
                                                ELSE "WagerTransactionRejected"
                          /\ \A i \in told : events[i].type = "WalletBalanceChanged"
                                               => events[i].balance = resp[d].balance
    BY DEF ReplaysRepeatTheEvents
  <2> DEFINE r == resp[d].tx
             w == sub[r].wallet
             events == outbox[w]
             entries == ledger[w]
             told == { i \in DOMAIN events : events[i].tx = r }
  <2>1. /\ r \in Stored(row) /\ resp[d].status = row[r].status
        /\ FromOwnEntry(resp[d].balance, r, entries)
    BY DEF AnswersInv, ReplayedTruly
  <2>2. w \in Wallets /\ entries \in Seq(Entries)
    <3>1. w \in Wallets
      BY <2>1, StoryInvParts DEF SettlementInv, RowsWellPlaced, WellPlaced, Stored
    <3> QED BY <3>1, StoryInvParts DEF TypeOK
  <2>3. { events[i].type : i \in told }
          = Story(sub[r].kind, resp[r].status = "PENDING_REFERENCE", row[r].status)
    BY <2>1 DEF OutboxTellsTheStory, Tells
  <2>4. Announces(events, entries, Len(OpeningEntries(w)))
    BY <2>2 DEF OutboxTellsTheStory
  <2> HIDE DEF w, r, events, entries
  <2>5. \E i \in told : events[i].type = IF resp[d].status = "PROCESSED"
                                         THEN "WagerTransactionProcessed"
                                         ELSE "WagerTransactionRejected"
    <3>1. (IF resp[d].status = "PROCESSED" THEN "WagerTransactionProcessed"
           ELSE "WagerTransactionRejected")
            \in Story(sub[r].kind, resp[r].status = "PENDING_REFERENCE", row[r].status)
      BY <2>1 DEF Story, Terminal
    <3> QED BY <2>3, <3>1
  <2>6. ASSUME NEW i \in told, events[i].type = "WalletBalanceChanged"
        PROVE  events[i].balance = resp[d].balance
    <3>1. PICK n \in DOMAIN entries : /\ events[i].tx = entries[n].tx
                                      /\ events[i].balance = entries[n].after
      BY <2>2, <2>3, <2>4, <2>6, AnnouncedEntry
    <3> QED BY <2>1, <2>6, <3>1 DEF FromOwnEntry
  <2> QED BY <2>5, <2>6 DEF r, w, events
<1> QED
  BY <1>1, AnswersInvariant, StoryInvariant, OutboxIsExact, PTL

=============================================================================
