-------------------------- MODULE WagerBooksProofs --------------------------
(***************************************************************************)
(* What the rows of a wallet and its ledger say about each other, for      *)
(* every value of the constants of WagerSettlement: one movement per       *)
(* submission, the right one, and one undoing per kind of reversal.        *)
(*                                                                         *)
(* The invariant keeps "books" of a wallet twice: as committed, and as the *)
(* transaction that holds the wallet's lock sees them.  A settlement only  *)
(* changes the second, a COMMIT makes the second the first, and nobody     *)
(* else can touch either while the lock is held.                           *)
(***************************************************************************)
EXTENDS WagerSettlementProofs, FiniteSetTheorems, SequenceTheorems

-----------------------------------------------------------------------------
(* The books of one wallet                                                 *)
(*                                                                         *)
(* s is what each delivery submitted, rows a table of rows by delivery, es *)
(* a sequence of ledger entries of wallet w.                               *)

RowsOf(s, w, rows) == { e \in Deliveries : rows[e].status # "ABSENT" /\ s[e].wallet = w }

Moved(s, rows, e) == rows[e].status = "PROCESSED" /\ s[e].kind # "LOSS"

\* Every entry but the opening one is the movement of a row of the wallet.
EntriesHaveRows(s, w, rows, es) ==
  \A i \in DOMAIN es :
    \/ es[i].tx = OpeningTx /\ i <= Len(OpeningEntries(w))
    \/ LET d == es[i].tx
       IN  /\ d \in RowsOf(s, w, rows) /\ Moved(s, rows, d)
           /\ es[i].amount = s[d].amount
           /\ es[i].direction = DirectionFor(s[d], s[rows[d].refTx])

\* Every row that moved money has its entry, and no transaction has two.
RowsHaveEntries(s, w, rows, es) ==
  /\ \A d \in RowsOf(s, w, rows) : Moved(s, rows, d) => \E i \in DOMAIN es : es[i].tx = d
  /\ \A i, j \in DOMAIN es : es[i].tx = es[j].tx => i = j

\* Only reversals wait, and only reversals refer to a row.
ReversalsRefer(s, w, rows) ==
  \A d \in RowsOf(s, w, rows) :
    \/ rows[d].status = "PENDING_REFERENCE"
    \/ rows[d].status = "PROCESSED" /\ rows[d].refTx # NoTx
    => RequiresReference(s[d].kind)

\* Row d undoes row r: of the same wallet and amount, entered before it, and undone
\* by no other row of d's kind.
Undoes(s, w, rows, es, d, r) ==
  /\ r \in RowsOf(s, w, rows) /\ rows[r].status = "PROCESSED"
  /\ s[r].kind \in IF s[d].kind = "REFUND" THEN {"BET"} ELSE {"BET", "WIN", "REFUND"}
  /\ s[r].amount = s[d].amount
  /\ \A i, j \in DOMAIN es : es[i].tx = r /\ es[j].tx = d => i < j
  /\ \A e \in RowsOf(s, w, rows) \ {d} :
       rows[e].status = "PROCESSED" /\ rows[e].refTx = r => s[e].kind # s[d].kind

ReversalsUndo(s, w, rows, es) ==
  \A d \in RowsOf(s, w, rows) :
    rows[d].status = "PROCESSED" /\ RequiresReference(s[d].kind)
      => Undoes(s, w, rows, es, d, rows[d].refTx)

Books(s, w, rows, es) ==
  /\ EntriesHaveRows(s, w, rows, es)
  /\ RowsHaveEntries(s, w, rows, es)
  /\ ReversalsRefer(s, w, rows)
  /\ ReversalsUndo(s, w, rows, es)

\* Reversal d waits for r.
WaitsFor(s, rows, d, r) ==
  /\ rows[d].status = "PENDING_REFERENCE"
  /\ s[r].provider = s[d].provider /\ s[r].ext = s[d].ref

\* Whatever a waiting row of the wallet waits for and has been processed is queued.
Awaited(s, w, rows, queue) ==
  \A d, r \in RowsOf(s, w, rows) :
    /\ WaitsFor(s, rows, d, r)
    /\ rows[r].status = "PROCESSED" /\ Referenceable(s[r].kind)
    => \E i \in DOMAIN queue : queue[i] = r

-----------------------------------------------------------------------------
(* The invariant *)

Writing(a) == pc[a] \in {"cascade", "commit"}

\* A row is stored by the delivery that ended by storing it.
StoredOnce ==
  \A d \in Deliveries : /\ row[d].status # "ABSENT" => pc[d] = "done"
                        /\ row[d].status = "ABSENT" => row[d].attempts = 0

\* The two unique indexes.
UniqueNames ==
  \A d, e \in Stored(row) :
    d # e /\ sub[d].provider = sub[e].provider => sub[d].key # sub[e].key /\ sub[d].ext # sub[e].ext

\* A transaction writes rows of its wallet only: its own new row, and rows that wait.
Drafted(a, e) ==
  /\ sub[e].wallet = WalletOf(a)
  /\ row[e].status = "PENDING_REFERENCE" \/ (e = a /\ row[e].status = "ABSENT")
  /\ draft[a].rows[e].attempts >= row[e].attempts

DraftsOfWaiting ==
  \A a \in Actors :
    /\ ~Writing(a) => Stored(draft[a].rows) = {}
    /\ Writing(a) => TxOf(a) \in Stored(draft[a].rows)
    /\ \A e \in Stored(draft[a].rows) : Drafted(a, e)
    /\ pc[a] # "cascade" => draft[a].queue = <<>>
    /\ \A i \in DOMAIN draft[a].queue : Terminal(draft[a].rows[draft[a].queue[i]].status)

BooksKept ==
  /\ \A w \in Wallets : Books(sub, w, row, ledger[w]) /\ Awaited(sub, w, row, <<>>)
  /\ \A a \in Actors : Holding(a) =>
       /\ Books(sub, WalletOf(a), Visible(draft[a]), LedgerAfter(a))
       /\ Awaited(sub, WalletOf(a), Visible(draft[a]), draft[a].queue)

BooksInv ==
  /\ SettlementInv
  /\ StoredOnce
  /\ UniqueNames
  /\ DraftsOfWaiting
  /\ BooksKept

-----------------------------------------------------------------------------
(* Books that stay as they are *)

\* The same rows of wallet w, of the same submissions and with the same outcome.
SameRows(s, t, w, rows, tab) ==
  /\ RowsOf(t, w, tab) = RowsOf(s, w, rows)
  /\ \A e \in RowsOf(s, w, rows) :
       t[e] = s[e] /\ tab[e].status = rows[e].status /\ tab[e].refTx = rows[e].refTx

\* The books of a wallet depend on the rows of the wallet only.
LEMMA BooksOfSameRows ==
  ASSUME NEW s, NEW t, NEW w, NEW rows, NEW tab, NEW es,
         Books(s, w, rows, es), SameRows(s, t, w, rows, tab)
  PROVE  Books(t, w, tab, es)
<1> DEFINE R == RowsOf(s, w, rows)
<1>1. /\ RowsOf(t, w, tab) = R
      /\ \A e \in R : t[e] = s[e] /\ tab[e].status = rows[e].status /\ tab[e].refTx = rows[e].refTx
  BY DEF SameRows
<1>2. \A e \in R : Moved(t, tab, e) = Moved(s, rows, e)
  BY <1>1 DEF Moved
<1>3. \A d \in R : \/ s[d].kind # "ROLLBACK"
                   \/ rows[d].status # "PROCESSED"
                   \/ rows[d].refTx \in R
  BY DEF Books, ReversalsUndo, Undoes, RequiresReference
<1>4. ASSUME NEW d \in R, Moved(s, rows, d)
      PROVE  DirectionFor(t[d], t[tab[d].refTx]) = DirectionFor(s[d], s[rows[d].refTx])
  BY <1>1, <1>3, <1>4 DEF DirectionFor, Moved
<1> HIDE DEF R
<1>5. EntriesHaveRows(t, w, tab, es)
  <2> SUFFICES ASSUME NEW i \in DOMAIN es, ~(es[i].tx = OpeningTx /\ i <= Len(OpeningEntries(w)))
               PROVE  LET d == es[i].tx
                      IN  /\ d \in R /\ Moved(t, tab, d)
                          /\ es[i].amount = t[d].amount
                          /\ es[i].direction = DirectionFor(t[d], t[tab[d].refTx])
    BY <1>1 DEF EntriesHaveRows
  <2> DEFINE d == es[i].tx
  <2>1. /\ d \in R /\ Moved(s, rows, d)
        /\ es[i].amount = s[d].amount
        /\ es[i].direction = DirectionFor(s[d], s[rows[d].refTx])
    BY DEF Books, EntriesHaveRows, R
  <2> HIDE DEF d
  <2>2. t[d].amount = s[d].amount /\ Moved(t, tab, d)
    BY <1>1, <1>2, <2>1
  <2>3. DirectionFor(t[d], t[tab[d].refTx]) = DirectionFor(s[d], s[rows[d].refTx])
    BY <1>4, <2>1
  <2> QED BY <2>1, <2>2, <2>3 DEF d
<1>6. RowsHaveEntries(t, w, tab, es)
  BY <1>1, <1>2 DEF Books, RowsHaveEntries, R
<1>7. ReversalsRefer(t, w, tab)
  BY <1>1 DEF Books, ReversalsRefer, R
<1>8. ReversalsUndo(t, w, tab, es)
  <2> SUFFICES ASSUME NEW d \in R, tab[d].status = "PROCESSED", RequiresReference(t[d].kind)
               PROVE  Undoes(t, w, tab, es, d, tab[d].refTx)
    BY <1>1 DEF ReversalsUndo
  <2> DEFINE r == rows[d].refTx
  <2>1. Undoes(s, w, rows, es, d, r) /\ tab[d].refTx = r
    BY <1>1 DEF Books, ReversalsUndo, R
  <2>2. r \in R
    BY <2>1 DEF Undoes, R
  <2> HIDE DEF r
  <2> QED BY <1>1, <2>1, <2>2 DEF Undoes, R
<1> QED
  BY <1>5, <1>6, <1>7, <1>8 DEF Books

\* So does what waits there for what is queued.
LEMMA AwaitedOfSameRows ==
  ASSUME NEW s, NEW t, NEW w, NEW rows, NEW tab, NEW queue,
         Awaited(s, w, rows, queue), SameRows(s, t, w, rows, tab)
  PROVE  Awaited(t, w, tab, queue)
  BY DEF Awaited, SameRows, WaitsFor

-----------------------------------------------------------------------------
(* Books with one more settlement *)

\* What the applier has made sure of when it reaches verdict v on tx with row ref.
Justified(s, w, rows, tx, ref, v) ==
  /\ v.direction # NoDirection <=> v.status = "PROCESSED" /\ s[tx].kind # "LOSS"
  /\ v.direction # NoDirection => v.direction = DirectionFor(s[tx], s[ref])
  /\ v.status = "PENDING_REFERENCE" \/ (v.status = "PROCESSED" /\ ref # NoTx)
       => RequiresReference(s[tx].kind)
  /\ v.status = "PROCESSED" /\ RequiresReference(s[tx].kind) =>
       /\ ref \in RowsOf(s, w, rows) /\ rows[ref].status = "PROCESSED"
       /\ s[ref].kind \in IF s[tx].kind = "REFUND" THEN {"BET"} ELSE {"BET", "WIN", "REFUND"}
       /\ s[ref].amount = s[tx].amount
       /\ \A e \in RowsOf(s, w, rows) :
            rows[e].status = "PROCESSED" /\ rows[e].refTx = ref => s[e].kind # s[tx].kind

\* The entries that verdict v on tx adds: one movement or none.
MovesBy(s, tx, v, fresh) ==
  IF v.direction = NoDirection THEN fresh = <<>>
  ELSE \E e \in Entries : /\ fresh = <<e>>
                          /\ e.tx = tx /\ e.amount = s[tx].amount /\ e.direction = v.direction

\* A justified settlement of a new or waiting row leaves books in order.
LEMMA BooksWithSettled ==
  ASSUME NEW s, NEW w, NEW rows \in [Deliveries -> Rows], NEW es \in Seq(Entries),
         Books(s, w, rows, es),
         NEW tx \in Deliveries, s[tx].wallet = w, rows[tx].status \in {"ABSENT", "PENDING_REFERENCE"},
         NEW ref, NEW v \in Verdicts, Justified(s, w, rows, tx, ref, v),
         NEW r \in Rows, r.status = v.status,
         r.refTx = IF v.status = "PROCESSED" THEN ref ELSE NoTx,
         NEW fresh \in Seq(Entries), MovesBy(s, tx, v, fresh)
  PROVE  Books(s, w, [rows EXCEPT ![tx] = r], es \o fresh)
<1> DEFINE tab == [rows EXCEPT ![tx] = r]
           all == es \o fresh
           R == RowsOf(s, w, rows)
           T == RowsOf(s, w, tab)
<1>1. /\ tab[tx] = r
      /\ \A e \in Deliveries : e # tx => tab[e] = rows[e]
  OBVIOUS
<1>2. v.status \in StoredStatuses
  BY DEF Verdicts
<1>3. T = R \cup {tx} /\ R \subseteq Deliveries
  BY <1>1, <1>2 DEF RowsOf, StoredStatuses
<1>4. /\ \A i \in DOMAIN es : i \in DOMAIN all /\ all[i] = es[i]
      /\ \A i \in DOMAIN all \ DOMAIN es :
           /\ v.direction # NoDirection /\ i = Len(es) + 1
           /\ all[i].tx = tx /\ all[i].amount = s[tx].amount /\ all[i].direction = v.direction
      /\ v.direction # NoDirection => \E i \in DOMAIN all : all[i].tx = tx
      /\ DOMAIN es = 1..Len(es) /\ Len(es) \in Nat
  <2>1. CASE v.direction = NoDirection
    <3>1. fresh = <<>>
      BY <2>1 DEF MovesBy
    <3> QED BY <2>1, <3>1
  <2>2. CASE v.direction # NoDirection
    <3>1. PICK e \in Entries : /\ fresh = <<e>> /\ e.tx = tx
                              /\ e.amount = s[tx].amount /\ e.direction = v.direction
      BY <2>2 DEF MovesBy
    <3>2. /\ DOMAIN all = 1..(Len(es) + 1) /\ all[Len(es) + 1] = e
          /\ \A i \in 1..Len(es) : all[i] = es[i]
          /\ DOMAIN es = 1..Len(es) /\ Len(es) \in Nat
      BY <3>1
    <3> HIDE DEF all
    <3> QED BY <2>2, <3>1, <3>2
  <2> QED BY <2>1, <2>2
<1> HIDE DEF tab, all, R, T
<1>5. \A i \in DOMAIN es : es[i].tx # tx
  BY ActorAssumption DEF Books, EntriesHaveRows, Moved
<1>6. EntriesHaveRows(s, w, tab, all)
  <2> SUFFICES ASSUME NEW i \in DOMAIN all, ~(all[i].tx = OpeningTx /\ i <= Len(OpeningEntries(w)))
               PROVE  LET d == all[i].tx
                      IN  /\ d \in T /\ Moved(s, tab, d)
                          /\ all[i].amount = s[d].amount
                          /\ all[i].direction = DirectionFor(s[d], s[tab[d].refTx])
    BY DEF EntriesHaveRows, T
  <2>1. CASE i \in DOMAIN es
    <3> DEFINE d == es[i].tx
    <3>1. /\ d \in R /\ Moved(s, rows, d)
          /\ es[i].amount = s[d].amount
          /\ es[i].direction = DirectionFor(s[d], s[rows[d].refTx])
      BY <1>4, <2>1 DEF Books, EntriesHaveRows, R
    <3>2. d # tx
      BY <1>5, <2>1
    <3> HIDE DEF d
    <3>3. d \in T /\ tab[d] = rows[d]
      BY <1>1, <1>3, <3>1, <3>2
    <3>4. all[i] = es[i]
      BY <1>4, <2>1
    <3> QED BY <3>1, <3>3, <3>4 DEF Moved, d
  <2>2. CASE i \notin DOMAIN es
    <3>1. /\ v.direction # NoDirection /\ all[i].tx = tx /\ all[i].amount = s[tx].amount
          /\ all[i].direction = v.direction
      BY <1>4, <2>2
    <3>2. Moved(s, tab, tx) /\ tab[tx].refTx = ref
      BY <1>1, <3>1 DEF Justified, Moved
    <3>3. all[i].direction = DirectionFor(s[tx], s[tab[tx].refTx])
      BY <3>1, <3>2 DEF Justified
    <3> QED BY <1>3, <3>1, <3>2, <3>3
  <2> QED BY <2>1, <2>2
<1>7. RowsHaveEntries(s, w, tab, all)
  <2>1. ASSUME NEW d \in T, Moved(s, tab, d) PROVE \E i \in DOMAIN all : all[i].tx = d
    <3>1. CASE d = tx
      BY <1>1, <1>4, <2>1, <3>1 DEF Justified, Moved
    <3>2. CASE d # tx
      <4>1. d \in R /\ Moved(s, rows, d)
        BY <1>1, <1>3, <2>1, <3>2 DEF Moved
      <4>2. \E i \in DOMAIN es : es[i].tx = d
        BY <4>1 DEF Books, RowsHaveEntries, R
      <4> QED BY <1>4, <4>2
    <3> QED BY <3>1, <3>2
  <2>2. ASSUME NEW i \in DOMAIN all, NEW j \in DOMAIN all, all[i].tx = all[j].tx PROVE i = j
    <3>1. i \in DOMAIN es <=> j \in DOMAIN es
      BY <1>4, <1>5, <2>2
    <3>2. CASE i \in DOMAIN es
      BY <1>4, <2>2, <3>1, <3>2 DEF Books, RowsHaveEntries
    <3>3. CASE i \notin DOMAIN es
      BY <1>4, <3>1, <3>3
    <3> QED BY <3>2, <3>3
  <2> QED BY <2>1, <2>2 DEF RowsHaveEntries, T
<1>8. ReversalsRefer(s, w, tab)
  BY <1>1, <1>3 DEF Books, ReversalsRefer, Justified, R, T
<1>9. ReversalsUndo(s, w, tab, all)
  <2> SUFFICES ASSUME NEW d \in T, tab[d].status = "PROCESSED", RequiresReference(s[d].kind)
               PROVE  Undoes(s, w, tab, all, d, tab[d].refTx)
    BY DEF ReversalsUndo, T
  <2>1. CASE d = tx
    <3>1. /\ v.status = "PROCESSED" /\ tab[d].refTx = ref
          /\ ref \in R /\ rows[ref].status = "PROCESSED"
          /\ s[ref].kind \in IF s[tx].kind = "REFUND" THEN {"BET"} ELSE {"BET", "WIN", "REFUND"}
          /\ s[ref].amount = s[tx].amount
          /\ \A e \in R : rows[e].status = "PROCESSED" /\ rows[e].refTx = ref => s[e].kind # s[tx].kind
      BY <1>1, <2>1 DEF Justified, R
    <3>2. ref # tx /\ ref \in T /\ tab[ref].status = "PROCESSED"
      BY <1>1, <1>3, <3>1
    <3>3. ASSUME NEW i \in DOMAIN all, NEW j \in DOMAIN all, all[i].tx = ref, all[j].tx = tx
          PROVE  i < j
      <4>1. i \in DOMAIN es /\ j \notin DOMAIN es
        BY <1>4, <1>5, <3>2, <3>3
      <4> QED BY <1>4, <4>1
    <3>4. \A e \in T \ {tx} : tab[e].status = "PROCESSED" /\ tab[e].refTx = ref => s[e].kind # s[tx].kind
      BY <1>1, <1>3, <3>1
    <3> QED BY <2>1, <3>1, <3>2, <3>3, <3>4 DEF Undoes, T
  <2>2. CASE d # tx
    <3> DEFINE q == rows[d].refTx
    <3>1. d \in R /\ tab[d] = rows[d]
      BY <1>1, <1>3, <2>2
    <3>2. Undoes(s, w, rows, es, d, q)
      BY <3>1 DEF Books, ReversalsUndo, R
    <3>3. tab[d].refTx = q
      BY <3>1
    <3> HIDE DEF q
    <3>4. q \in R /\ rows[q].status = "PROCESSED"
      BY <3>2 DEF Undoes, R
    <3>5. q # tx /\ q \in T /\ tab[q].status = "PROCESSED"
      BY <1>1, <1>3, <3>4
    <3>6. \A i, j \in DOMAIN all : all[i].tx = q /\ all[j].tx = d => i < j
      <4>1. \A i \in DOMAIN all : all[i].tx # tx => i \in DOMAIN es /\ all[i] = es[i]
        BY <1>4
      <4> QED BY <2>2, <3>2, <3>5, <4>1 DEF Undoes
    <3>7. ASSUME NEW e \in T \ {d}, tab[e].status = "PROCESSED", tab[e].refTx = q
          PROVE  s[e].kind # s[d].kind
      <4>1. CASE e = tx
        <5>1. v.status = "PROCESSED" /\ ref = q
          BY <1>1, <3>7, <4>1
        <5>2. ref # NoTx
          BY <1>3, <3>4, <5>1, ActorAssumption
        <5>3. s[d].kind # s[tx].kind
          BY <3>1, <3>3, <5>1, <5>2 DEF Justified, R
        <5> QED BY <4>1, <5>3
      <4>2. CASE e # tx
        BY <1>1, <1>3, <3>2, <3>7, <4>2 DEF Undoes, R
      <4> QED BY <4>1, <4>2
    <3> QED BY <3>2, <3>3, <3>5, <3>6, <3>7 DEF Undoes, T
  <2> QED BY <2>1, <2>2
<1> QED
  BY <1>6, <1>7, <1>8, <1>9 DEF Books, tab, all

-----------------------------------------------------------------------------
(* What a verdict makes sure of *)

\* A reversal that no check refuses refers to a processed transaction of its own
\* scope and amount, of a kind that it can undo, which nobody of its kind undid.
LEMMA ChecksPassed ==
  ASSUME NEW t, NEW r, NEW status, NEW reversed,
         \A i \in DOMAIN ReversalChecks : ~FailsCheck(ReversalChecks[i], t, r, status, reversed)
  PROVE  /\ status = "PROCESSED" /\ SharesScope(t, r) /\ ~reversed
         /\ t.kind = "REFUND" => r.kind = "BET"
         /\ t.kind = "ROLLBACK" => r.kind \in {"BET", "WIN", "REFUND"}
         /\ t.amount = r.amount
<1>1. /\ 1 \in DOMAIN ReversalChecks /\ ReversalChecks[1] = "REFERENCE_NOT_PROCESSED"
      /\ 2 \in DOMAIN ReversalChecks /\ ReversalChecks[2] = "REFERENCE_SCOPE_MISMATCH"
      /\ 3 \in DOMAIN ReversalChecks /\ ReversalChecks[3] = "REFERENCE_ALREADY_REVERSED"
      /\ 4 \in DOMAIN ReversalChecks /\ ReversalChecks[4] = "REFUND_OF_NON_BET"
      /\ 5 \in DOMAIN ReversalChecks /\ ReversalChecks[5] = "UNSUPPORTED_REVERSAL_REFERENCE"
      /\ 6 \in DOMAIN ReversalChecks /\ ReversalChecks[6] = "REFERENCE_AMOUNT_MISMATCH"
  BY DEF ReversalChecks
<1> QED
  BY <1>1 DEF FailsCheck

\* A movement has the direction asked for, and no other effect.
LEMMA MovementChecked ==
  ASSUME NEW t, NEW direction \in Directions, NEW balance
  PROVE  LET v == Movement(t, direction, balance)
         IN  /\ v.status \in {"PROCESSED", "REJECTED"}
             /\ v.direction # NoDirection <=> v.status = "PROCESSED"
             /\ v.direction # NoDirection => v.direction = direction
  BY DEF Movement, Processed, Rejected, Directions, NoDirection

\* What the status and the direction of a verdict say about the transaction and
\* its reference r, stored with status.
LEMMA VerdictChecked ==
  ASSUME NEW t, t.kind \in Kinds, NEW currency, NEW balance, NEW r, NEW status, NEW reversed
  PROVE  LET v == Verdict(t, currency, balance, r, status, reversed)
         IN  /\ v.direction # NoDirection <=> v.status = "PROCESSED" /\ t.kind # "LOSS"
             /\ v.direction # NoDirection => v.direction = DirectionFor(t, r)
             /\ v.status = "PENDING_REFERENCE" =>
                  RequiresReference(t.kind) /\ status \in {"ABSENT", "PENDING_REFERENCE"}
             /\ v.status = "PROCESSED" /\ RequiresReference(t.kind) =>
                  /\ status = "PROCESSED" /\ SharesScope(t, r) /\ ~reversed
                  /\ t.kind = "REFUND" => r.kind = "BET"
                  /\ t.kind = "ROLLBACK" => r.kind \in {"BET", "WIN", "REFUND"}
                  /\ t.amount = r.amount
<1> DEFINE v == Verdict(t, currency, balance, r, status, reversed)
           Refused(x) == x.status = "REJECTED" /\ x.direction = NoDirection
           Checked(x) ==
             /\ x.direction # NoDirection <=> x.status = "PROCESSED" /\ t.kind # "LOSS"
             /\ x.direction # NoDirection => x.direction = DirectionFor(t, r)
             /\ x.status = "PENDING_REFERENCE" =>
                  RequiresReference(t.kind) /\ status \in {"ABSENT", "PENDING_REFERENCE"}
             /\ x.status = "PROCESSED" /\ RequiresReference(t.kind) =>
                  /\ status = "PROCESSED" /\ SharesScope(t, r) /\ ~reversed
                  /\ t.kind = "REFUND" => r.kind = "BET"
                  /\ t.kind = "ROLLBACK" => r.kind \in {"BET", "WIN", "REFUND"}
                  /\ t.amount = r.amount
<1>1. \A c : Refused(Rejected(c))
  BY DEF Rejected
<1>2. ASSUME t.kind = "OPENING" \/ t.currency # currency
      PROVE  Checked(v)
  <2>1. Refused(v)
    BY <1>1, <1>2 DEF Verdict
  <2> HIDE DEF v
  <2> QED BY <2>1
<1>3. ASSUME t.currency = currency /\ t.kind = "LOSS"
      PROVE  Checked(v)
  <2>1. v = Processed(NoDirection) /\ ~RequiresReference(t.kind)
    BY <1>3 DEF Verdict, RequiresReference
  <2> HIDE DEF v
  <2> QED BY <1>3, <2>1 DEF Processed
<1>4. ASSUME t.currency = currency /\ t.kind \in {"BET", "WIN"}
      PROVE  Checked(v)
  <2>1. v = Movement(t, OwnDirection(t.kind), balance) /\ ~RequiresReference(t.kind)
    BY <1>4 DEF Verdict, RequiresReference
  <2>2. OwnDirection(t.kind) \in Directions /\ DirectionFor(t, r) = OwnDirection(t.kind)
    BY <1>4 DEF OwnDirection, Directions, DirectionFor
  <2> HIDE DEF v
  <2> QED BY <1>4, <2>1, <2>2, MovementChecked
<1>5. ASSUME t.currency = currency /\ t.kind \in {"REFUND", "ROLLBACK"}
      PROVE  Checked(v)
  <2>1. v = ReversalVerdict(t, r, status, reversed, balance) /\ RequiresReference(t.kind)
    BY <1>5 DEF Verdict, RequiresReference
  <2>2. DirectionFor(t, r) \in Directions
    BY DEF DirectionFor, OwnDirection, Invert, Directions
  <2> DEFINE failed == { i \in DOMAIN ReversalChecks :
                           FailsCheck(ReversalChecks[i], t, r, status, reversed) }
  <2> HIDE DEF v
  <2>3. CASE status \in {"ABSENT", "PENDING_REFERENCE"}
    <3>1. v = Awaiting
      BY <2>1, <2>3 DEF ReversalVerdict
    <3> QED BY <2>1, <2>3, <3>1 DEF Awaiting
  <2>4. CASE status \notin {"ABSENT", "PENDING_REFERENCE"} /\ failed # {}
    <3>1. Refused(v)
      BY <1>1, <2>1, <2>4 DEF ReversalVerdict
    <3> QED BY <3>1
  <2>5. CASE status \notin {"ABSENT", "PENDING_REFERENCE"} /\ failed = {}
    <3>1. v = Movement(t, DirectionFor(t, r), balance)
      BY <2>1, <2>5 DEF ReversalVerdict
    <3>2. \A i \in DOMAIN ReversalChecks : ~FailsCheck(ReversalChecks[i], t, r, status, reversed)
      BY <2>5
    <3>3. /\ status = "PROCESSED" /\ SharesScope(t, r) /\ ~reversed
          /\ t.kind = "REFUND" => r.kind = "BET"
          /\ t.kind = "ROLLBACK" => r.kind \in {"BET", "WIN", "REFUND"}
          /\ t.amount = r.amount
      BY <3>2, ChecksPassed
    <3>4. /\ v.status \in {"PROCESSED", "REJECTED"}
          /\ v.direction # NoDirection <=> v.status = "PROCESSED"
          /\ v.direction # NoDirection => v.direction = DirectionFor(t, r)
      BY <2>2, <3>1, MovementChecked
    <3> QED BY <1>5, <3>3, <3>4
  <2> QED BY <2>3, <2>4, <2>5
<1>6. Checked(v)
  <2> HIDE DEF v, Checked
  <2> QED BY <1>2, <1>3, <1>4, <1>5 DEF Kinds
<1> QED
  BY <1>6

\* A verdict reached inside a transaction is justified by the rows it sees.
LEMMA VerdictJustified ==
  ASSUME TypeOK, NEW dr \in Drafts, NEW tx \in Deliveries, sub[tx] \in Submissions,
         NEW ref \in Deliveries \cup {NoTx}, RequiresReference(sub[tx].kind) \/ ref = NoTx
  PROVE  LET v == VerdictOn(dr, tx, ref)
         IN  /\ Justified(sub, sub[tx].wallet, Visible(dr), tx, ref, v)
             /\ v.status = "PENDING_REFERENCE" =>
                  ref = NoTx \/ Visible(dr)[ref].status \in {"ABSENT", "PENDING_REFERENCE"}
<1> DEFINE seen == Visible(dr)
           t == sub[tx]
           status == IF ref = NoTx THEN "ABSENT" ELSE seen[ref].status
           reversed == AlreadyReversed(seen, ref, t.kind)
           v == VerdictOn(dr, tx, ref)
           w == t.wallet
<1>1. t.kind \in Kinds
  BY SubmissionAssumption
<1>2. v = Verdict(t, WalletCurrency[w], dr.wallet.balance, sub[ref], status, reversed)
  BY DEF VerdictOn
<1>3. seen \in [Deliveries -> Rows]
  BY VisibleType
<1> HIDE DEF v, status, reversed, seen
<1>4. /\ v.direction # NoDirection <=> v.status = "PROCESSED" /\ t.kind # "LOSS"
      /\ v.direction # NoDirection => v.direction = DirectionFor(t, sub[ref])
      /\ v.status = "PENDING_REFERENCE" =>
           RequiresReference(t.kind) /\ status \in {"ABSENT", "PENDING_REFERENCE"}
      /\ v.status = "PROCESSED" /\ RequiresReference(t.kind) =>
           /\ status = "PROCESSED" /\ SharesScope(t, sub[ref]) /\ ~reversed
           /\ t.kind = "REFUND" => sub[ref].kind = "BET"
           /\ t.kind = "ROLLBACK" => sub[ref].kind \in {"BET", "WIN", "REFUND"}
           /\ t.amount = sub[ref].amount
  BY <1>1, <1>2, VerdictChecked
<1>5. ASSUME v.status = "PROCESSED", RequiresReference(t.kind)
      PROVE  /\ ref \in RowsOf(sub, w, seen) /\ seen[ref].status = "PROCESSED"
             /\ sub[ref].kind \in IF t.kind = "REFUND" THEN {"BET"} ELSE {"BET", "WIN", "REFUND"}
             /\ sub[ref].amount = t.amount
             /\ \A e \in RowsOf(sub, w, seen) :
                  seen[e].status = "PROCESSED" /\ seen[e].refTx = ref => sub[e].kind # t.kind
  <2>1. ref \in Deliveries /\ seen[ref].status = "PROCESSED"
    BY <1>4, <1>5 DEF status
  <2>2. sub[ref].wallet = w
    BY <1>4, <1>5 DEF SharesScope
  <2>3. \A e \in RowsOf(sub, w, seen) :
          seen[e].status = "PROCESSED" /\ seen[e].refTx = ref => sub[e].kind # t.kind
    BY <1>4, <1>5 DEF reversed, AlreadyReversed, RowsOf, Stored
  <2> QED BY <1>4, <1>5, <2>1, <2>2, <2>3 DEF RowsOf, RequiresReference
<1>6. Justified(sub, w, seen, tx, ref, v)
  <2> HIDE DEF w
  <2> QED BY <1>4, <1>5 DEF Justified
<1> QED
  BY <1>4, <1>6 DEF v, seen, status

-----------------------------------------------------------------------------
(* The ways a step can leave the books in order *)

\* The part of BooksInv about one actor's draft.
DraftInOrder(a) ==
  /\ ~Writing(a) => Stored(draft[a].rows) = {}
  /\ Writing(a) => TxOf(a) \in Stored(draft[a].rows)
  /\ \A e \in Stored(draft[a].rows) : Drafted(a, e)
  /\ pc[a] # "cascade" => draft[a].queue = <<>>
  /\ \A i \in DOMAIN draft[a].queue : Terminal(draft[a].rows[draft[a].queue[i]].status)

BooksInHand(a) ==
  Holding(a) => /\ Books(sub, WalletOf(a), Visible(draft[a]), LedgerAfter(a))
                /\ Awaited(sub, WalletOf(a), Visible(draft[a]), draft[a].queue)

\* BooksInv, actor by actor and wallet by wallet.
LEMMA BooksInvParts ==
  BooksInv <=>
    /\ SettlementInv /\ StoredOnce /\ UniqueNames
    /\ \A a \in Actors : DraftInOrder(a) /\ BooksInHand(a)
    /\ \A w \in Wallets : Books(sub, w, row, ledger[w]) /\ Awaited(sub, w, row, <<>>)
  BY DEF BooksInv, DraftsOfWaiting, BooksKept, DraftInOrder, BooksInHand

\* An actor that holds a lock is about a delivery that was handed over.
LEMMA HolderFacts ==
  ASSUME SettlementInv, NEW a \in Actors, Holding(a)
  PROVE  /\ TxOf(a) \in Deliveries /\ pc[TxOf(a)] # "idle" /\ sub[TxOf(a)] \in Submissions
         /\ WalletOf(a) \in Wallets /\ lock[WalletOf(a)] = a
         /\ a \notin Deliveries => row[TxOf(a)].status # "ABSENT"
<1>1. CASE a \in Deliveries
  BY <1>1 DEF TxOf, Holding, SettlementInv, LocksHeld, RowsWellPlaced
<1>2. CASE a \notin Deliveries
  <2>1. job[a].tx \in Stored(row)
    BY <1>2 DEF SettlementInv, LocksHeld, Holding, Actors
  <2> QED BY <1>2, <2>1 DEF TxOf, Stored, SettlementInv, LocksHeld, RowsWellPlaced, WellPlaced
<1> QED
  BY <1>1, <1>2

\* A step of a that stores nothing and after which a has drafted nothing.
LEMMA AsideBooks ==
  ASSUME BooksInv, SettlementInv', NEW a \in Actors, pc[a] # "done",
         UNCHANGED <<sub, row, ledger>>,
         \A b \in Actors \ {a} : /\ pc'[b] = pc[b] /\ draft'[b] = draft[b]
                                 /\ b \in Workers => job'[b] = job[b],
         pc'[a] \notin {"cascade", "commit"},
         Stored(draft'[a].rows) = {}, draft'[a].entries = <<>>, draft'[a].queue = <<>>
  PROVE  BooksInv'
<1>1. StoredOnce' /\ UniqueNames'
  BY DEF BooksInv, StoredOnce, UniqueNames, Stored, Actors
<1>2. \A w \in Wallets : Books(sub, w, row, ledger[w])' /\ Awaited(sub, w, row, <<>>)'
  BY DEF BooksInv, BooksKept
<1>3. ASSUME NEW b \in Actors PROVE DraftInOrder(b)' /\ BooksInHand(b)'
  <2>1. CASE b = a
    <3>1. DraftInOrder(a)'
      BY DEF DraftInOrder, Writing, Stored
    <3>2. ASSUME Holding(a)' PROVE BooksInHand(a)'
      <4>1. TypeOK' /\ WalletOf(a)' \in Wallets
        BY <3>2 DEF SettlementInv, LocksHeld
      <4>2. Visible(draft[a])' = row' /\ LedgerAfter(a)' = ledger'[WalletOf(a)']
        <5>1. Visible(draft[a])' = row'
          BY <4>1 DEF Visible, Stored, TypeOK
        <5>2. ledger'[WalletOf(a)'] \in Seq(Entries)
          BY <4>1 DEF TypeOK
        <5> QED BY <5>1, <5>2 DEF LedgerAfter
      <4>3. Books(sub', WalletOf(a)', row', ledger'[WalletOf(a)'])
            /\ Awaited(sub', WalletOf(a)', row', <<>>)
        BY <1>2, <4>1
      <4> QED BY <4>2, <4>3 DEF BooksInHand
    <3> QED BY <2>1, <3>1, <3>2 DEF BooksInHand
  <2>2. CASE b # a
    <3>1. TxOf(b)' = TxOf(b) /\ WalletOf(b)' = WalletOf(b)
      BY <2>2 DEF TxOf, WalletOf, Actors
    <3>2. pc'[b] = pc[b] /\ draft'[b] = draft[b] /\ Visible(draft[b])' = Visible(draft[b])
          /\ LedgerAfter(b)' = LedgerAfter(b)
      BY <2>2, <3>1 DEF Visible, Stored, LedgerAfter
    <3>3. DraftInOrder(b) /\ BooksInHand(b)
      BY BooksInvParts
    <3>4. DraftInOrder(b)'
      BY <3>1, <3>2, <3>3 DEF DraftInOrder, Writing, Stored, Drafted
    <3>5. BooksInHand(b)'
      BY <3>1, <3>2, <3>3 DEF BooksInHand, Holding
    <3> QED BY <3>4, <3>5
  <2> QED BY <2>1, <2>2
<1> QED
  BY <1>1, <1>2, <1>3 DEF BooksInv, DraftsOfWaiting, BooksKept, DraftInOrder, BooksInHand

\* a, which holds its lock, replaces its draft by one whose rows, queue and books
\* are in order.
WritesInOrder(a, next, new) ==
  /\ Holding(a) /\ next \in {"cascade", "commit"} /\ new \in Drafts
  /\ pc' = [pc EXCEPT ![a] = next]
  /\ draft' = [draft EXCEPT ![a] = new]
  /\ UNCHANGED <<sub, row, ledger, job>>
  /\ TxOf(a) \in Stored(new.rows)
  /\ \A e \in Stored(new.rows) :
       /\ sub[e].wallet = WalletOf(a)
       /\ row[e].status = "PENDING_REFERENCE" \/ (e = a /\ row[e].status = "ABSENT")
       /\ new.rows[e].attempts >= row[e].attempts
  /\ next # "cascade" => new.queue = <<>>
  /\ \A i \in DOMAIN new.queue : Terminal(new.rows[new.queue[i]].status)
  /\ Books(sub, WalletOf(a), Visible(new), ledger[WalletOf(a)] \o new.entries)
  /\ Awaited(sub, WalletOf(a), Visible(new), new.queue)

\* Such a step keeps the invariant.
LEMMA WritesBooks ==
  ASSUME BooksInv, SettlementInv', NEW a \in Actors, NEW next, NEW new,
         WritesInOrder(a, next, new)
  PROVE  BooksInv'
<1> USE DEF WritesInOrder
<1>1. TypeOK
  BY DEF BooksInv, SettlementInv
<1>2. /\ pc'[a] = next /\ draft'[a] = new
      /\ \A b \in Actors : b # a => pc'[b] = pc[b] /\ draft'[b] = draft[b]
  BY <1>1 DEF TypeOK
<1>3. StoredOnce' /\ UniqueNames'
  <2>1. UniqueNames'
    BY DEF BooksInv, UniqueNames, Stored
  <2>2. pc[a] # "done"
    BY DEF Holding
  <2>3. StoredOnce'
    BY <1>2, <2>2 DEF BooksInv, StoredOnce, Actors
  <2> QED BY <2>1, <2>3
<1>4. \A w \in Wallets : Books(sub, w, row, ledger[w])' /\ Awaited(sub, w, row, <<>>)'
  BY DEF BooksInv, BooksKept
<1>5. ASSUME NEW b \in Actors PROVE DraftInOrder(b)' /\ BooksInHand(b)'
  <2>1. TxOf(b)' = TxOf(b) /\ WalletOf(b)' = WalletOf(b)
    BY DEF TxOf, WalletOf
  <2>2. CASE b = a
    <3>1. DraftInOrder(a)'
      BY <1>2, <2>1, <2>2 DEF DraftInOrder, Writing, Stored, Drafted
    <3>2. Visible(draft[a])' = Visible(new) /\ LedgerAfter(a)' = ledger[WalletOf(a)] \o new.entries
      <4>1. Visible(draft[a])' = Visible(new)
        BY <1>2 DEF Visible, Stored
      <4>2. LedgerAfter(a)' = ledger[WalletOf(a)] \o new.entries
        BY <1>2, <2>1, <2>2 DEF LedgerAfter
      <4> QED BY <4>1, <4>2
    <3>3. BooksInHand(a)'
      BY <1>2, <2>1, <2>2, <3>2 DEF BooksInHand
    <3> QED BY <2>2, <3>1, <3>3
  <2>3. CASE b # a
    <3>1. pc'[b] = pc[b] /\ draft'[b] = draft[b] /\ Visible(draft[b])' = Visible(draft[b])
          /\ LedgerAfter(b)' = LedgerAfter(b)
      <4>1. pc'[b] = pc[b] /\ draft'[b] = draft[b]
        BY <1>2, <2>3
      <4>2. Visible(draft[b])' = Visible(draft[b])
        BY <4>1 DEF Visible, Stored
      <4>3. LedgerAfter(b)' = LedgerAfter(b)
        BY <2>1, <4>1 DEF LedgerAfter
      <4> QED BY <4>1, <4>2, <4>3
    <3>2. DraftInOrder(b) /\ BooksInHand(b)
      BY BooksInvParts
    <3>3. DraftInOrder(b)'
      BY <2>1, <3>1, <3>2 DEF DraftInOrder, Writing, Stored, Drafted
    <3>4. BooksInHand(b)'
      BY <2>1, <3>1, <3>2 DEF BooksInHand, Holding
    <3> QED BY <3>3, <3>4
  <2> QED BY <2>2, <2>3
<1> QED
  BY <1>3, <1>4, <1>5 DEF BooksInv, DraftsOfWaiting, BooksKept, DraftInOrder, BooksInHand

\* q queues what old did, and tx when it was settled and others may wait for it.
QueuesSettled(q, old, tx, v) ==
  /\ \A i \in DOMAIN old : \E j \in DOMAIN q : q[j] = old[i]
  /\ \A j \in DOMAIN q : (q[j] = tx /\ Terminal(v.status)) \/ \E i \in DOMAIN old : q[j] = old[i]
  /\ v.status = "PROCESSED" /\ Referenceable(sub[tx].kind) => \E j \in DOMAIN q : q[j] = tx

\* Nothing that tx waits for has been processed.
NothingToWaitFor(rows, tx) ==
  \A r \in RowsOf(sub, sub[tx].wallet, rows) :
    sub[r].provider = sub[tx].provider /\ sub[r].ext = sub[tx].ref => rows[r].status # "PROCESSED"

\* A transaction settles or parks a row of its wallet.
LEMMA AppliedBooks ==
  ASSUME BooksInv, SettlementInv', NEW a \in Actors, Holding(a),
         NEW tx \in Deliveries, tx = TxOf(a) \/ Writing(a),
         sub[tx] \in Submissions, sub[tx].wallet = WalletOf(a),
         row[tx].status = "PENDING_REFERENCE" \/ (tx = a /\ row[tx].status = "ABSENT"),
         Visible(draft[a])[tx].status \in {"ABSENT", "PENDING_REFERENCE"},
         NEW ref \in Deliveries \cup {NoTx}, NEW before, NEW v \in Verdicts,
         v.direction = "DEBIT" => sub[tx].amount <= draft[a].wallet.balance,
         Justified(sub, WalletOf(a), Visible(draft[a]), tx, ref, v),
         v.status = "PENDING_REFERENCE" => NothingToWaitFor(Visible(draft[a]), tx),
         NEW q \in Seq(Deliveries), QueuesSettled(q, draft[a].queue, tx, v),
         NEW next \in {"cascade", "commit"}, next # "cascade" => q = <<>>,
         pc' = [pc EXCEPT ![a] = next],
         draft' = [draft EXCEPT ![a] = [Applied(draft[a], tx, ref, before, v) EXCEPT !.queue = q]],
         UNCHANGED <<sub, row, ledger, job>>
  PROVE  BooksInv'
<1> DEFINE dr == draft[a]
           app == Applied(dr, tx, ref, before, v)
           new == [app EXCEPT !.queue = q]
           es == EntriesFor(dr.wallet, tx, v)
           r == RowAfter(dr, tx, ref, v)
           w == WalletOf(a)
           seen == Visible(dr)
           now == Visible(new)
<1>1. /\ TypeOK /\ dr \in Drafts /\ dr.wallet \in WalletRows /\ dr.rows \in [Deliveries -> Rows]
      /\ dr.entries \in Seq(Entries) /\ dr.queue \in Seq(Deliveries)
  BY DEF BooksInv, SettlementInv, TypeOK, Drafts
<1>2. sub[tx].amount \in Nat /\ dr.wallet.balance >= 0 /\ w \in Wallets
  BY SubmissionAssumption, HolderFacts DEF BooksInv, SettlementInv, DraftsContinueLedger
<1>3. ExtendedBy(dr, tx, v, r, app)
  BY <1>1, <1>2, AppliedDraft
<1>4. /\ app \in Drafts /\ app.entries = dr.entries \o es
      /\ \A e \in Deliveries : app.rows[e] = IF e = tx THEN r ELSE dr.rows[e]
  BY <1>3 DEF ExtendedBy
<1>5. /\ new \in Drafts /\ new.entries = dr.entries \o es /\ new.queue = q
      /\ \A e \in Deliveries : new.rows[e] = IF e = tx THEN r ELSE dr.rows[e]
  <2> HIDE DEF app, es, r
  <2> QED BY <1>4 DEF Drafts
<1>6. es \in Seq(Entries)
  BY <1>1, <1>2, EntryContinuesWallet
<1>7. seen \in [Deliveries -> Rows] /\ now \in [Deliveries -> Rows]
  <2> HIDE DEF new
  <2> QED BY <1>1, <1>5, VisibleType
<1>8. /\ r.status = v.status /\ r.attempts = seen[tx].attempts
      /\ r.refTx = IF v.status = "PROCESSED" THEN ref ELSE NoTx
  BY DEF RowAfter
<1>9. v.status \in StoredStatuses /\ v.status # "ABSENT"
  BY DEF Verdicts, StoredStatuses
<1>10. DraftInOrder(a) /\ BooksInHand(a)
  BY BooksInvParts
<1>11. MovesBy(sub, tx, v, es)
  <2>1. CASE v.direction = NoDirection
    BY <2>1 DEF MovesBy, EntriesFor
  <2>2. CASE v.direction # NoDirection
    <3> DEFINE e == [ tx |-> tx, direction |-> v.direction, amount |-> sub[tx].amount,
                      before |-> dr.wallet.balance, after |-> WalletAfter(dr.wallet, sub[tx], v).balance ]
    <3>1. es = <<e>> /\ e.tx = tx /\ e.amount = sub[tx].amount /\ e.direction = v.direction
      BY <2>2 DEF EntriesFor
    <3> HIDE DEF e, es
    <3>2. e \in Entries
      BY <1>6, <3>1
    <3> QED BY <2>2, <3>1, <3>2 DEF MovesBy
  <2> QED BY <2>1, <2>2
<1> HIDE DEF new, es, r, app
<1>12. Stored(new.rows) = Stored(dr.rows) \cup {tx}
  BY <1>5, <1>8, <1>9 DEF Stored
<1>13. now = [seen EXCEPT ![tx] = r]
  <2>1. now \in [Deliveries -> Rows] /\ [seen EXCEPT ![tx] = r] \in [Deliveries -> Rows]
    <3>1. r \in Rows
      BY <1>5 DEF Drafts
    <3> QED BY <1>7, <3>1
  <2>2. \A e \in Deliveries : now[e] = [seen EXCEPT ![tx] = r][e]
    <3>1. \A e \in Deliveries : now[e] = IF e = tx THEN r ELSE seen[e]
      BY <1>5, <1>12 DEF Visible
    <3> QED BY <1>7, <3>1
  <2> HIDE DEF now, seen
  <2> QED BY <2>1, <2>2
<1>14. r \in Rows
  BY <1>5 DEF Drafts
<1>15. ledger[w] \in Seq(Entries)
  BY <1>1, <1>2 DEF TypeOK
<1>16. ledger[w] \o new.entries = LedgerAfter(a) \o es /\ LedgerAfter(a) \in Seq(Entries)
  <2> DEFINE l == ledger[w]
             old == dr.entries
  <2>1. LedgerAfter(a) = l \o old /\ l \in Seq(Entries) /\ old \in Seq(Entries)
    BY <1>1, <1>15 DEF LedgerAfter
  <2> HIDE DEF l, old
  <2>2. l \o (old \o es) = (l \o old) \o es /\ l \o old \in Seq(Entries)
    BY <1>6, <2>1
  <2> QED BY <1>5, <2>1, <2>2 DEF l, old
<1>17. Books(sub, w, now, ledger[w] \o new.entries)
  <2>1. Books(sub, w, seen, LedgerAfter(a))
    BY <1>10 DEF BooksInHand
  <2> HIDE DEF seen, now, w, dr
  <2> QED BY <1>6, <1>7, <1>8, <1>11, <1>13, <1>14, <1>16, <2>1, BooksWithSettled DEF seen, w, dr
<1>18. Awaited(sub, w, now, new.queue)
  <2> SUFFICES ASSUME NEW d \in RowsOf(sub, w, now), NEW e \in RowsOf(sub, w, now),
                      WaitsFor(sub, now, d, e), now[e].status = "PROCESSED",
                      Referenceable(sub[e].kind)
               PROVE  \E i \in DOMAIN q : q[i] = e
    BY <1>5 DEF Awaited
  <2>1. d \in Deliveries /\ e \in Deliveries /\ sub[e].wallet = w
    BY DEF RowsOf
  <2>2. now[tx] = r /\ \A x \in Deliveries : x # tx => now[x] = seen[x]
    BY <1>7, <1>13
  <2>3. CASE e = tx
    BY <1>8, <2>2, <2>3 DEF QueuesSettled
  <2>4. CASE e # tx /\ d = tx
    <3>1. v.status = "PENDING_REFERENCE"
      BY <1>8, <2>2, <2>4 DEF WaitsFor
    <3>2. e \in RowsOf(sub, sub[tx].wallet, seen) /\ seen[e].status = "PROCESSED"
      BY <2>1, <2>2, <2>4 DEF RowsOf
    <3> QED BY <2>4, <3>1, <3>2 DEF NothingToWaitFor, WaitsFor
  <2>5. CASE e # tx /\ d # tx
    <3>1. d \in RowsOf(sub, w, seen) /\ e \in RowsOf(sub, w, seen) /\ WaitsFor(sub, seen, d, e)
          /\ seen[e].status = "PROCESSED"
      BY <2>1, <2>2, <2>5 DEF RowsOf, WaitsFor
    <3>2. Awaited(sub, w, seen, dr.queue)
      BY <1>10 DEF BooksInHand
    <3>3. \E i \in DOMAIN dr.queue : dr.queue[i] = e
      BY <3>1, <3>2 DEF Awaited
    <3> QED BY <3>3 DEF QueuesSettled
  <2> QED BY <2>3, <2>4, <2>5
<1>19. TxOf(a) \in Stored(new.rows)
  BY <1>10, <1>12 DEF DraftInOrder
<1>20. \A e \in Stored(new.rows) : /\ sub[e].wallet = WalletOf(a)
                                   /\ row[e].status = "PENDING_REFERENCE"
                                        \/ (e = a /\ row[e].status = "ABSENT")
                                   /\ new.rows[e].attempts >= row[e].attempts
  <2> SUFFICES ASSUME NEW e \in Stored(new.rows)
               PROVE  /\ sub[e].wallet = WalletOf(a)
                      /\ row[e].status = "PENDING_REFERENCE" \/ (e = a /\ row[e].status = "ABSENT")
                      /\ new.rows[e].attempts >= row[e].attempts
    OBVIOUS
  <2>1. e \in Stored(dr.rows) => Drafted(a, e)
    BY <1>10 DEF DraftInOrder
  <2>2. CASE e # tx
    BY <1>5, <1>12, <2>1, <2>2 DEF Drafted, Stored
  <2>3. CASE e = tx
    <3>1. seen[tx].attempts >= row[tx].attempts
      <4>1. row[tx].attempts \in Nat
        BY <1>1 DEF TypeOK, Rows
      <4> QED BY <2>1, <2>3, <4>1 DEF Visible, Drafted
    <3> QED BY <1>5, <1>8, <2>3, <3>1
  <2> QED BY <2>2, <2>3
<1>21. \A i \in DOMAIN new.queue : Terminal(new.rows[new.queue[i]].status)
  <2> SUFFICES ASSUME NEW j \in DOMAIN q PROVE Terminal(new.rows[q[j]].status)
    BY <1>5
  <2>1. CASE q[j] = tx /\ Terminal(v.status)
    BY <1>5, <1>8, <2>1
  <2>2. CASE \E i \in DOMAIN dr.queue : q[j] = dr.queue[i]
    <3>1. Terminal(dr.rows[q[j]].status) /\ q[j] \in Deliveries
      BY <1>10, <2>2 DEF DraftInOrder
    <3>2. q[j] # tx
      BY <3>1 DEF Visible, Stored, Terminal
    <3> QED BY <1>5, <3>1, <3>2
  <2> QED BY <2>1, <2>2 DEF QueuesSettled
<1>22. pc' = [pc EXCEPT ![a] = next] /\ draft' = [draft EXCEPT ![a] = new]
  BY DEF new, app
<1> HIDE DEF now, w, seen, dr
<1>23. next # "cascade" => new.queue = <<>>
  BY <1>5
<1>24. /\ Books(sub, WalletOf(a), Visible(new), ledger[WalletOf(a)] \o new.entries)
       /\ Awaited(sub, WalletOf(a), Visible(new), new.queue)
  BY <1>17, <1>18 DEF now, w
<1>25. WritesInOrder(a, next, new)
  BY <1>5, <1>19, <1>20, <1>21, <1>22, <1>23, <1>24 DEF WritesInOrder
<1> QED
  BY <1>25, WritesBooks

-----------------------------------------------------------------------------
(* The steps of a transaction that writes *)

\* Before it has written, a transaction under the lock sees the committed rows.
LEMMA AtDecide ==
  ASSUME BooksInv, NEW a \in Actors, pc[a] = "decide"
  PROVE  Visible(draft[a]) = row /\ draft[a].queue = <<>>
<1>1. DraftInOrder(a) /\ TypeOK /\ ~Writing(a)
  BY BooksInvParts DEF SettlementInv, Writing
<1>2. Stored(draft[a].rows) = {} /\ draft[a].queue = <<>>
  BY <1>1 DEF DraftInOrder
<1> QED
  BY <1>1, <1>2 DEF Visible, TypeOK

\* A transaction whose reference is missing or waits itself finds nothing processed
\* that it should have waited for: at most one row has the name it refers to.
LEMMA NothingProcessedAwaits ==
  ASSUME TypeOK, UniqueNames, NEW tx \in Deliveries, RequiresReference(sub[tx].kind),
         LET ref == ReferenceOf(row, sub[tx])
         IN  ref = NoTx \/ row[ref].status \in {"ABSENT", "PENDING_REFERENCE"}
  PROVE  NothingToWaitFor(row, tx)
<1> DEFINE t == sub[tx]
           found == { e \in Stored(row) : sub[e].provider = t.provider /\ sub[e].ext = t.ref }
           ref == ReferenceOf(row, t)
<1> SUFFICES ASSUME NEW r \in RowsOf(sub, t.wallet, row),
                    sub[r].provider = t.provider, sub[r].ext = t.ref
             PROVE  row[r].status # "PROCESSED"
  BY DEF NothingToWaitFor
<1>1. r \in found
  BY DEF RowsOf, Stored
<1>2. ref = CHOOSE e \in found : TRUE
  BY <1>1 DEF ReferenceOf
<1>3. ref \in found
  BY <1>1, <1>2
<1>4. ref = r
  BY <1>1, <1>3 DEF UniqueNames
<1>5. ref # NoTx
  BY <1>3, ActorAssumption DEF Stored
<1> QED
  BY <1>4, <1>5

\* The queue after the transaction of a settles its first row.
LEMMA FirstQueue ==
  ASSUME NEW tx, NEW v
  PROVE  QueuesSettled(QueueAfter(tx, v), <<>>, tx, v)
<1>1. CASE Terminal(v.status) /\ Referenceable(sub[tx].kind)
  <2>1. QueueAfter(tx, v) = <<tx>>
    BY <1>1 DEF QueueAfter
  <2>2. DOMAIN <<tx>> = {1} /\ <<tx>>[1] = tx
    OBVIOUS
  <2> QED BY <1>1, <2>1, <2>2 DEF QueuesSettled
<1>2. CASE ~(Terminal(v.status) /\ Referenceable(sub[tx].kind))
  <2>1. QueueAfter(tx, v) = <<>>
    BY <1>2 DEF QueueAfter
  <2> QED BY <1>2, <2>1 DEF QueuesSettled, Terminal
<1> QED
  BY <1>1, <1>2

\* A transaction that has just got its lock settles or parks its own row.
LEMMA FirstSettledBooks ==
  ASSUME BooksInv, SettlementInv', NEW a \in Actors, pc[a] = "decide",
         NEW tx, tx = TxOf(a),
         row[tx].status = "PENDING_REFERENCE" \/ (tx = a /\ row[tx].status = "ABSENT"),
         NEW before,
         LET ref == ReferenceOf(Visible(draft[a]), sub[tx])
         IN  Apply(a, tx, ref, before, VerdictOn(draft[a], tx, ref))
  PROVE  BooksInv'
<1> DEFINE dr == draft[a]
           ref == ReferenceOf(Visible(dr), sub[tx])
           v == VerdictOn(dr, tx, ref)
           q == QueueAfter(tx, v)
           next == IF q = <<>> THEN "commit" ELSE "cascade"
<1>1. /\ draft' = [draft EXCEPT ![a] = [Applied(draft[a], tx, ref, before, v) EXCEPT !.queue = q]]
      /\ pc' = [pc EXCEPT ![a] = next]
      /\ UNCHANGED <<sub, row, ledger, job>>
  BY DEF Apply, committed
<1>2. Holding(a) /\ SettlementInv /\ UniqueNames
  BY DEF Holding, BooksInv
<1>3. TypeOK /\ dr \in Drafts
  BY <1>2 DEF SettlementInv, TypeOK
<1>4. tx \in Deliveries /\ sub[tx] \in Submissions /\ sub[tx].wallet = WalletOf(a)
  BY <1>2, HolderFacts DEF WalletOf
<1>5. Visible(dr) = row /\ dr.queue = <<>>
  BY AtDecide
<1>6. ref \in Deliveries \cup {NoTx} /\ (RequiresReference(sub[tx].kind) \/ ref = NoTx)
  BY ReferenceType DEF ReferenceOf
<1>7. v \in Verdicts /\ (v.direction = "DEBIT" => sub[tx].amount <= dr.wallet.balance)
  BY <1>3, <1>4, VerdictOnIsSound
<1>8. /\ Justified(sub, sub[tx].wallet, Visible(dr), tx, ref, v)
      /\ v.status = "PENDING_REFERENCE" =>
           ref = NoTx \/ Visible(dr)[ref].status \in {"ABSENT", "PENDING_REFERENCE"}
  BY <1>3, <1>4, <1>6, VerdictJustified
<1>9. v.status = "PENDING_REFERENCE" => NothingToWaitFor(Visible(dr), tx)
  <2> SUFFICES ASSUME v.status = "PENDING_REFERENCE" PROVE NothingToWaitFor(row, tx)
    BY <1>5
  <2>1. RequiresReference(sub[tx].kind)
    BY <1>8 DEF Justified
  <2>2. ReferenceOf(row, sub[tx]) = ref /\ (ref = NoTx \/ row[ref].status \in {"ABSENT", "PENDING_REFERENCE"})
    BY <1>5, <1>8
  <2> HIDE DEF ref
  <2> QED BY <1>2, <1>3, <1>4, <2>1, <2>2, NothingProcessedAwaits
<1>10. q \in Seq(Deliveries) /\ QueuesSettled(q, dr.queue, tx, v)
  <2>1. q \in Seq(Deliveries)
    BY <1>4 DEF QueueAfter
  <2>2. QueuesSettled(q, <<>>, tx, v)
    BY FirstQueue
  <2> HIDE DEF q, v
  <2> QED BY <1>5, <2>1, <2>2
<1>11. next \in {"cascade", "commit"} /\ (next # "cascade" => q = <<>>)
  OBVIOUS
<1>12. Visible(draft[a])[tx].status \in {"ABSENT", "PENDING_REFERENCE"}
  BY <1>5
<1> HIDE DEF ref, v, q, next
<1> QED
  BY <1>1, <1>2, <1>4, <1>6, <1>7, <1>8, <1>9, <1>10, <1>11, <1>12, AppliedBooks

\* A delivery's own row, when it is created.
LEMMA ProcessBooks ==
  ASSUME BooksInv, SettlementInv', NEW d \in Deliveries, Process(d)
  PROVE  BooksInv'
<1>1. d \in Actors /\ TxOf(d) = d /\ pc[d] = "decide"
  BY DEF Actors, TxOf, Process
<1>2. row[d].status = "ABSENT"
  BY <1>1 DEF BooksInv, StoredOnce
<1>3. LET ref == ReferenceOf(Visible(draft[d]), sub[d])
      IN  Apply(d, d, ref, "PENDING", VerdictOn(draft[d], d, ref))
  BY DEF Process
<1> QED
  BY <1>1, <1>2, <1>3, FirstSettledBooks

\* A pending row that a worker settles.
LEMMA ReprocessBooks ==
  ASSUME BooksInv, SettlementInv', NEW a \in Workers, Reprocess(a)
  PROVE  BooksInv'
<1>1. a \in Actors /\ TxOf(a) = job[a].tx /\ pc[a] = "decide"
  BY ActorAssumption DEF Actors, TxOf, Reprocess
<1>2. row[job[a].tx].status = "PENDING_REFERENCE"
  BY DEF Reprocess
<1>3. LET ref == ReferenceOf(Visible(draft[a]), sub[job[a].tx])
      IN  Apply(a, job[a].tx, ref, "PENDING_REFERENCE", VerdictOn(draft[a], job[a].tx, ref))
  BY DEF Reprocess, JobReference, JobVerdict
<1> QED
  BY <1>1, <1>2, <1>3, FirstSettledBooks

\* A waiting row that is not there or not waiting any more in the draft is one that
\* the transaction wrote.
LEMMA WaitingIsStored ==
  ASSUME BooksInv, NEW a \in Actors, NEW e \in Deliveries,
         Visible(draft[a])[e].status = "PENDING_REFERENCE", sub[e].wallet = WalletOf(a)
  PROVE  row[e].status = "PENDING_REFERENCE" \/ (e = a /\ row[e].status = "ABSENT")
<1>1. DraftInOrder(a)
  BY BooksInvParts
<1>2. CASE e \in Stored(draft[a].rows)
  BY <1>1, <1>2 DEF DraftInOrder, Drafted
<1>3. CASE e \notin Stored(draft[a].rows)
  BY <1>3 DEF Visible
<1> QED
  BY <1>2, <1>3

\* A dependent that is settled with its reference.
LEMMA SettleDependentBooks ==
  ASSUME BooksInv, SettlementInv', NEW a \in Actors, SettleDependent(a)
  PROVE  BooksInv'
<1> DEFINE dr == draft[a]
           ref == Head(dr.queue)
           w == WalletOf(a)
<1>1. pc[a] = "cascade" /\ Holding(a) /\ Writing(a) /\ UNCHANGED <<sub, row, ledger, job, pc>>
  BY DEF SettleDependent, Holding, Writing, committed
<1>2. SettlementInv /\ DraftInOrder(a) /\ BooksInHand(a)
  BY BooksInvParts
<1>3. TypeOK /\ dr \in Drafts /\ dr.queue \in Seq(Deliveries) /\ dr.queue # <<>>
  BY <1>1, <1>2 DEF SettlementInv, TypeOK, LocksHeld, Drafts
<1>4. ref \in Deliveries /\ 1 \in DOMAIN dr.queue /\ ref = dr.queue[1]
  BY <1>3
<1>5. PICK e \in Dependents(dr, ref) :
        draft' = [draft EXCEPT ![a] =
                    [Applied(dr, e, ref, "PENDING_REFERENCE", VerdictOn(dr, e, ref)) EXCEPT
                       !.queue = QueueAfterDependent(dr.queue, e, VerdictOn(dr, e, ref))]]
  BY DEF SettleDependent
<1> DEFINE v == VerdictOn(dr, e, ref)
           q == QueueAfterDependent(dr.queue, e, v)
<1>6. Terminal(dr.rows[ref].status)
  BY <1>2, <1>4 DEF DraftInOrder
<1>7. ref \in Stored(dr.rows) /\ Visible(dr)[ref] = dr.rows[ref] /\ sub[ref].wallet = w
  BY <1>2, <1>4, <1>6 DEF Stored, Visible, Terminal, DraftInOrder, Drafted
<1>8. e \in Deliveries /\ Visible(dr)[e].status = "PENDING_REFERENCE" /\ sub[e].wallet = w
  BY <1>5, <1>7 DEF Dependents
<1>9. sub[e] \in Submissions
  BY <1>2, <1>8, VisibleWellPlaced
<1>10. v \in Verdicts /\ (v.direction = "DEBIT" => sub[e].amount <= dr.wallet.balance)
  BY <1>3, <1>8, <1>9, VerdictOnIsSound
<1>11. RequiresReference(sub[e].kind)
  BY <1>1, <1>2, <1>8 DEF BooksInHand, Books, ReversalsRefer, RowsOf
<1>12. /\ Justified(sub, sub[e].wallet, Visible(dr), e, ref, v)
       /\ v.status = "PENDING_REFERENCE" =>
            ref = NoTx \/ Visible(dr)[ref].status \in {"ABSENT", "PENDING_REFERENCE"}
  BY <1>3, <1>4, <1>8, <1>9, <1>11, VerdictJustified
<1>13. v.status # "PENDING_REFERENCE"
  BY <1>4, <1>6, <1>7, <1>12, ActorAssumption DEF Terminal
<1>14. v.status \in {"PROCESSED", "REJECTED"}
  BY <1>10, <1>13 DEF Verdicts, StoredStatuses
<1>15. q \in Seq(Deliveries) /\ q # <<>> /\ QueuesSettled(q, dr.queue, e, v)
  <2> DEFINE old == dr.queue
  <2>1. old \in Seq(Deliveries) /\ old # <<>>
    BY <1>3
  <2> HIDE DEF old, v
  <2>2. /\ Append(old, e) \in Seq(Deliveries) /\ Append(old, e) # <<>>
        /\ \A i \in DOMAIN old : i \in DOMAIN Append(old, e) /\ Append(old, e)[i] = old[i]
        /\ Len(old) + 1 \in DOMAIN Append(old, e) /\ Append(old, e)[Len(old) + 1] = e
        /\ \A j \in DOMAIN Append(old, e) : Append(old, e)[j] = e
                                            \/ (j \in DOMAIN old /\ Append(old, e)[j] = old[j])
    BY <1>8, <2>1
  <2>3. CASE v.status = "PROCESSED" /\ Referenceable(sub[e].kind)
    <3>1. q = Append(old, e)
      BY <2>3 DEF QueueAfterDependent, old
    <3> HIDE DEF q
    <3>2. \A j \in DOMAIN q : (q[j] = e /\ Terminal(v.status)) \/ \E i \in DOMAIN old : q[j] = old[i]
      BY <2>2, <2>3, <3>1 DEF Terminal
    <3> QED BY <2>2, <2>3, <3>1, <3>2 DEF QueuesSettled, old
  <2>4. CASE ~(v.status = "PROCESSED" /\ Referenceable(sub[e].kind))
    <3>1. q = old
      BY <2>4 DEF QueueAfterDependent, old
    <3> QED BY <2>1, <2>4, <3>1 DEF QueuesSettled, old
  <2> QED BY <2>3, <2>4
<1>16. pc' = [pc EXCEPT ![a] = "cascade"]
  BY <1>1, <1>3 DEF TypeOK
<1>17. row[e].status = "PENDING_REFERENCE" \/ (e = a /\ row[e].status = "ABSENT")
  BY <1>8, WaitingIsStored
<1>18. draft' = [draft EXCEPT ![a] = [Applied(draft[a], e, ref, "PENDING_REFERENCE", v)
                                       EXCEPT !.queue = q]]
  BY <1>5
<1>19. sub[e].wallet = WalletOf(a) /\ Justified(sub, WalletOf(a), Visible(draft[a]), e, ref, v)
  BY <1>8, <1>12
<1> HIDE DEF v, q, ref, w
<1> QED
  BY <1>1, <1>4, <1>8, <1>9, <1>10, <1>13, <1>15, <1>16, <1>17, <1>18, <1>19, AppliedBooks

\* A reference whose dependents are all settled.
LEMMA NextReferenceBooks ==
  ASSUME BooksInv, SettlementInv', NEW a \in Actors, NextReference(a)
  PROVE  BooksInv'
<1> DEFINE dr == draft[a]
           old == dr.queue
           new == [dr EXCEPT !.queue = Tail(old)]
           next == IF Len(old) = 1 THEN "commit" ELSE "cascade"
           w == WalletOf(a)
<1>1. /\ pc[a] = "cascade" /\ Holding(a) /\ Writing(a) /\ TypeOK
      /\ Dependents(dr, Head(old)) = {}
      /\ draft' = [draft EXCEPT ![a] = new] /\ pc' = [pc EXCEPT ![a] = next]
      /\ UNCHANGED <<sub, row, ledger, job>>
  BY DEF NextReference, Holding, Writing, BooksInv, SettlementInv, TypeOK, committed
<1>2. DraftInOrder(a) /\ BooksInHand(a) /\ SettlementInv
  BY BooksInvParts
<1>3. dr \in Drafts /\ old \in Seq(Deliveries) /\ old # <<>>
  BY <1>1, <1>2 DEF SettlementInv, TypeOK, LocksHeld, Drafts
<1> HIDE DEF old
<1>4. /\ Tail(old) \in Seq(Deliveries) /\ Head(old) = old[1] /\ 1 \in DOMAIN old
      /\ DOMAIN Tail(old) = 1..(Len(old) - 1)
      /\ \A i \in DOMAIN Tail(old) : i + 1 \in DOMAIN old /\ Tail(old)[i] = old[i + 1]
      /\ \A i \in DOMAIN old \ {1} : i - 1 \in DOMAIN Tail(old) /\ Tail(old)[i - 1] = old[i]
      /\ Len(old) = 1 => Tail(old) = <<>>
  <2>1. /\ Tail(old) \in Seq(Deliveries) /\ Head(old) = old[1] /\ 1 \in DOMAIN old
        /\ Len(old) \in Nat /\ DOMAIN old = 1..Len(old)
        /\ Len(Tail(old)) = Len(old) - 1
        /\ DOMAIN Tail(old) = 1..(Len(old) - 1)
        /\ \A i \in 1..(Len(old) - 1) : Tail(old)[i] = old[i + 1]
    BY <1>3
  <2>2. Len(old) = 1 => Tail(old) = <<>>
    BY <2>1
  <2>3. \A i \in DOMAIN Tail(old) : i + 1 \in DOMAIN old /\ Tail(old)[i] = old[i + 1]
    BY <2>1
  <2>4. \A i \in DOMAIN old \ {1} : i - 1 \in DOMAIN Tail(old) /\ Tail(old)[i - 1] = old[i]
    BY <2>1
  <2> QED BY <2>1, <2>2, <2>3, <2>4
<1>5. /\ new \in Drafts /\ new.entries = dr.entries
      /\ new.rows = dr.rows /\ new.queue = Tail(old)
  BY <1>3, <1>4 DEF Drafts
<1> HIDE DEF new
<1>6. Visible(new) = Visible(dr)
  BY <1>5 DEF Visible
<1>7. old[1] \in Deliveries /\ sub[old[1]].wallet = w
  <2>1. old[1] \in Stored(dr.rows)
    BY <1>2, <1>3, <1>4 DEF DraftInOrder, Stored, Terminal, old
  <2> QED BY <1>2, <2>1 DEF DraftInOrder, Drafted, Stored
<1>8. Awaited(sub, w, Visible(dr), Tail(old))
  <2> SUFFICES ASSUME NEW d \in RowsOf(sub, w, Visible(dr)), NEW r \in RowsOf(sub, w, Visible(dr)),
                      WaitsFor(sub, Visible(dr), d, r), Visible(dr)[r].status = "PROCESSED",
                      Referenceable(sub[r].kind)
               PROVE  \E i \in DOMAIN Tail(old) : Tail(old)[i] = r
    BY DEF Awaited
  <2>1. PICK i \in DOMAIN old : old[i] = r
    BY <1>1, <1>2 DEF BooksInHand, Awaited, old
  <2>2. CASE i = 1
    <3>1. d \in Dependents(dr, Head(old))
      BY <1>4, <1>7, <2>1, <2>2 DEF Dependents, WaitsFor, RowsOf
    <3> QED BY <1>1, <3>1 DEF old
  <2>3. CASE i # 1
    BY <1>4, <2>1, <2>3
  <2> QED BY <2>2, <2>3
<1>9. /\ Books(sub, WalletOf(a), Visible(new), ledger[WalletOf(a)] \o new.entries)
      /\ Awaited(sub, WalletOf(a), Visible(new), new.queue)
  BY <1>1, <1>2, <1>5, <1>6, <1>8 DEF BooksInHand, LedgerAfter
<1>10. \A i \in DOMAIN new.queue : Terminal(new.rows[new.queue[i]].status)
  BY <1>2, <1>4, <1>5 DEF DraftInOrder, old
<1>11. /\ TxOf(a) \in Stored(new.rows)
       /\ \A e \in Stored(new.rows) :
            /\ sub[e].wallet = WalletOf(a)
            /\ row[e].status = "PENDING_REFERENCE" \/ (e = a /\ row[e].status = "ABSENT")
            /\ new.rows[e].attempts >= row[e].attempts
  BY <1>1, <1>2, <1>5 DEF DraftInOrder, Drafted
<1>12. next \in {"cascade", "commit"} /\ (next # "cascade" => new.queue = <<>>)
  BY <1>4, <1>5
<1>13. draft' = [draft EXCEPT ![a] = new] /\ pc' = [pc EXCEPT ![a] = next]
  BY <1>1
<1> HIDE DEF next, dr, w
<1>14. WritesInOrder(a, next, new)
  BY <1>1, <1>5, <1>9, <1>10, <1>11, <1>12, <1>13 DEF WritesInOrder
<1> QED
  BY <1>14, WritesBooks

\* A pending row that waits on: the books only have one more attempt.
LEMMA RescheduleBooks ==
  ASSUME BooksInv, SettlementInv', NEW a \in Workers, Reschedule(a)
  PROVE  BooksInv'
<1> DEFINE tx == job[a].tx
           dr == draft[a]
           r == [row[tx] EXCEPT !.attempts = @ + 1]
           new == [dr EXCEPT !.rows[tx] = r]
           w == WalletOf(a)
<1>1. /\ pc[a] = "decide" /\ row[tx].status = "PENDING_REFERENCE"
      /\ draft' = [draft EXCEPT ![a] = new] /\ pc' = [pc EXCEPT ![a] = "commit"]
      /\ UNCHANGED <<sub, row, ledger, job>>
  BY DEF Reschedule, BooksInv, SettlementInv, TypeOK, committed
<1>2. /\ Holding(a) /\ ~Writing(a) /\ a \in Actors /\ tx \in Deliveries /\ row[tx] \in Rows
      /\ TxOf(a) = tx /\ sub[tx].wallet = w
  BY <1>1, JobFacts, ActorAssumption DEF BooksInv, Writing, TxOf, WalletOf
<1>3. DraftInOrder(a) /\ BooksInHand(a) /\ TypeOK
  BY <1>2, BooksInvParts DEF SettlementInv
<1>4. dr \in Drafts
  BY <1>2, <1>3 DEF TypeOK
<1>5. Visible(dr) = row /\ dr.queue = <<>> /\ Stored(dr.rows) = {}
  BY <1>1, <1>2, <1>3, AtDecide DEF DraftInOrder
<1>6. /\ r \in Rows /\ r.status = row[tx].status /\ r.refTx = row[tx].refTx
      /\ r.attempts >= row[tx].attempts
  BY <1>2 DEF Rows
<1> HIDE DEF r
<1>7. /\ new \in Drafts /\ new.entries = dr.entries /\ new.queue = dr.queue
      /\ \A e \in Deliveries : new.rows[e] = IF e = tx THEN r ELSE dr.rows[e]
  BY <1>2, <1>4, <1>6 DEF Drafts
<1> HIDE DEF new
<1>8. Stored(new.rows) = {tx}
  BY <1>1, <1>2, <1>5, <1>6, <1>7 DEF Stored
<1>9. \A e \in Deliveries : /\ Visible(new)[e].status = row[e].status
                            /\ Visible(new)[e].refTx = row[e].refTx
  BY <1>6, <1>7, <1>8 DEF Visible
<1>10. SameRows(sub, sub, w, Visible(dr), Visible(new))
  BY <1>5, <1>9 DEF SameRows, RowsOf
<1>11. /\ Books(sub, WalletOf(a), Visible(new), ledger[WalletOf(a)] \o new.entries)
       /\ Awaited(sub, WalletOf(a), Visible(new), new.queue)
  <2>1. /\ Books(sub, w, Visible(dr), ledger[w] \o new.entries)
        /\ Awaited(sub, w, Visible(dr), new.queue)
    BY <1>2, <1>3, <1>7 DEF BooksInHand, LedgerAfter
  <2> HIDE DEF w, dr
  <2> QED BY <1>10, <2>1, BooksOfSameRows, AwaitedOfSameRows DEF w
<1>12. \A e \in Stored(new.rows) :
         /\ sub[e].wallet = WalletOf(a)
         /\ row[e].status = "PENDING_REFERENCE" \/ (e = a /\ row[e].status = "ABSENT")
         /\ new.rows[e].attempts >= row[e].attempts
  BY <1>1, <1>2, <1>6, <1>7, <1>8
<1>13. new.queue = <<>> /\ \A i \in DOMAIN new.queue : Terminal(new.rows[new.queue[i]].status)
  <2>1. new.queue = <<>>
    BY <1>5, <1>7
  <2> QED BY <2>1
<1>14. TxOf(a) \in Stored(new.rows) /\ "commit" \in {"cascade", "commit"}
  BY <1>2, <1>8
<1>15. draft' = [draft EXCEPT ![a] = new]
  BY <1>1 DEF new, r
<1> HIDE DEF tx, dr, w
<1>16. WritesInOrder(a, "commit", new)
  BY <1>1, <1>2, <1>7, <1>11, <1>12, <1>13, <1>14, <1>15 DEF WritesInOrder
<1> QED
  BY <1>2, <1>16, WritesBooks

\* A pending row that is given up.
LEMMA ExpireBooks ==
  ASSUME BooksInv, SettlementInv', NEW a \in Workers, Expire(a)
  PROVE  BooksInv'
<1> DEFINE tx == job[a].tx
           dr == draft[a]
           v == Rejected("UNRESOLVED_REFERENCE")
           app == Applied(dr, tx, NoTx, "PENDING_REFERENCE", v)
           q == <<>>
           next == "commit"
           ref == NoTx
<1>1. /\ pc[a] = "decide" /\ row[tx].status = "PENDING_REFERENCE"
      /\ draft' = [draft EXCEPT ![a] = app] /\ pc' = [pc EXCEPT ![a] = next]
      /\ UNCHANGED <<sub, row, ledger, job>>
  BY DEF Expire, BooksInv, SettlementInv, TypeOK, committed
<1>2. /\ Holding(a) /\ a \in Actors /\ tx \in Deliveries /\ SettlementInv
      /\ sub[tx] \in Submissions /\ sub[tx].wallet \in Wallets
      /\ TxOf(a) = tx /\ sub[tx].wallet = WalletOf(a)
  BY <1>1, JobFacts, ActorAssumption DEF BooksInv, TxOf, WalletOf
<1>3. TypeOK /\ dr \in Drafts /\ Visible(dr) = row /\ dr.queue = <<>>
  BY <1>1, <1>2, AtDecide DEF SettlementInv, TypeOK
<1>4. /\ v \in Verdicts /\ v.status = "REJECTED" /\ v.direction = NoDirection
      /\ v.direction # "DEBIT"
  BY DEF Rejected, Verdicts, StoredStatuses, FailureCodes, NoDirection
<1>5. sub[tx].amount \in Nat /\ dr.wallet.balance >= 0
  BY <1>2, SubmissionAssumption DEF SettlementInv, DraftsContinueLedger
<1> HIDE DEF v
<1>6. app \in Drafts /\ app.queue = <<>>
  <2> HIDE DEF dr, tx
  <2>1. ExtendedBy(dr, tx, v, RowAfter(dr, tx, NoTx, v), app)
    BY <1>2, <1>3, <1>4, <1>5, AppliedDraft
  <2> QED BY <1>3, <2>1 DEF ExtendedBy
<1>7. [app EXCEPT !.queue = q] = app
  <2> HIDE DEF app
  <2> QED BY <1>6 DEF Drafts
<1>8. draft' = [draft EXCEPT ![a] = [Applied(draft[a], tx, ref, "PENDING_REFERENCE", v)
                                       EXCEPT !.queue = q]]
  BY <1>1, <1>7
<1>9. Justified(sub, WalletOf(a), Visible(draft[a]), tx, ref, v)
  BY <1>4 DEF Justified
<1>10. q \in Seq(Deliveries) /\ QueuesSettled(q, draft[a].queue, tx, v)
  BY <1>3, <1>4 DEF QueuesSettled
<1>11. next \in {"cascade", "commit"} /\ (next # "cascade" => q = <<>>)
  OBVIOUS
<1>12. Visible(draft[a])[tx].status \in {"ABSENT", "PENDING_REFERENCE"}
  BY <1>1, <1>3
<1>13. /\ pc' = [pc EXCEPT ![a] = next] /\ UNCHANGED <<sub, row, ledger, job>>
       /\ row[tx].status = "PENDING_REFERENCE" \/ (tx = a /\ row[tx].status = "ABSENT")
  BY <1>1
<1>14. /\ v.direction = "DEBIT" => sub[tx].amount <= draft[a].wallet.balance
       /\ v.status # "PENDING_REFERENCE"
       /\ ref \in Deliveries \cup {NoTx}
  BY <1>4
<1> HIDE DEF tx, q, next, ref, app, dr
<1> QED
  BY <1>2, <1>4, <1>8, <1>9, <1>10, <1>11, <1>12, <1>13, <1>14, AppliedBooks

-----------------------------------------------------------------------------
(* The steps that store and draft nothing *)

\* The transaction of a is over and has stored nothing.
LEMMA ClosedBooks ==
  ASSUME BooksInv, SettlementInv', NEW a \in Actors, pc[a] # "done",
         NEW next, next \notin {"cascade", "commit"}, Close(a, next),
         UNCHANGED <<sub, row, ledger>>
  PROVE  BooksInv'
<1>1. TypeOK
  BY DEF BooksInv, SettlementInv
<1>2. /\ pc'[a] = next /\ draft'[a] = EmptyDraft
      /\ \A b \in Actors \ {a} : /\ pc'[b] = pc[b] /\ draft'[b] = draft[b]
                                 /\ b \in Workers => job'[b] = job[b]
  BY <1>1 DEF Close, TypeOK
<1>3. Stored(EmptyDraft.rows) = {} /\ EmptyDraft.entries = <<>> /\ EmptyDraft.queue = <<>>
  BY DEF EmptyDraft, Stored, NoRow
<1> QED
  BY <1>2, <1>3, AsideBooks

\* An actor without a lock goes on and drafts nothing.
LEMMA WaitedBooks ==
  ASSUME BooksInv, SettlementInv', NEW a \in Actors, pc[a] # "done", ~Holding(a),
         NEW next, next \notin {"cascade", "commit"},
         pc' = [pc EXCEPT ![a] = next],
         NEW wal, draft' = [draft EXCEPT ![a] = [@ EXCEPT !.wallet = wal]] \/ UNCHANGED draft,
         \A b \in Workers \ {a} : job'[b] = job[b],
         UNCHANGED <<sub, row, ledger>>
  PROVE  BooksInv'
<1>1. TypeOK /\ DraftInOrder(a) /\ SettlementInv /\ ~Writing(a) /\ pc[a] # "cascade"
  BY BooksInvParts DEF SettlementInv, Holding, Writing
<1>2. Stored(draft[a].rows) = {} /\ draft[a].entries = <<>> /\ draft[a].queue = <<>>
  BY <1>1 DEF DraftInOrder, SettlementInv, DraftsContinueLedger
<1>3. /\ pc'[a] = next
      /\ \A b \in Actors \ {a} : pc'[b] = pc[b] /\ draft'[b] = draft[b]
      /\ draft'[a].rows = draft[a].rows /\ draft'[a].entries = draft[a].entries
      /\ draft'[a].queue = draft[a].queue
  BY <1>1 DEF TypeOK, Drafts
<1> QED
  BY <1>2, <1>3, AsideBooks

\* A delivery that is answered without a new row.
LEMMA AnswerBooks ==
  ASSUME BooksInv, SettlementInv', NEW d \in Deliveries,
         AnswerKnown(d) \/ AnswerAfterLock(d) \/ WalletNotFound(d) \/ WrongPlayer(d)
  PROVE  BooksInv'
<1>1. d \in Actors /\ pc[d] # "done"
  BY DEF Actors, AnswerKnown, AnswerAfterLock, WalletNotFound, WrongPlayer
<1>2. \E answer : Answer(d, answer)
  BY DEF AnswerKnown, AnswerAfterLock, WalletNotFound, WrongPlayer
<1>3. Close(d, "done") /\ UNCHANGED <<sub, row, ledger>>
  BY <1>2 DEF Answer, committed
<1> QED
  BY <1>1, <1>3, ClosedBooks

\* A transaction that is rolled back or has nothing to do.
LEMMA RolledBackBooks ==
  ASSUME BooksInv, SettlementInv', NEW a \in Actors,
         \/ a \in Workers /\ SkipRow(a)
         \/ a \in Deliveries /\ CommitClash(a)
         \/ CommitRefused(a)
         \/ Crash(a)
  PROVE  BooksInv'
<1>1. pc[a] # "done" /\ UNCHANGED <<sub, row, ledger>>
  BY DEF SkipRow, CommitClash, CommitRefused, Crash, committed
<1>2. \E next \in {"idle", "done", "resolve"} : Close(a, next)
  BY DEF SkipRow, CommitClash, CommitRefused, Crash
<1> QED
  BY <1>1, <1>2, ClosedBooks

\* A step between transactions, and the SELECT ... FOR UPDATE.
LEMMA BetweenBooks ==
  ASSUME BooksInv, SettlementInv', NEW a \in Actors,
         \/ a \in Deliveries /\ (RequestLock(a) \/ ResolveExisting(a) \/ MarkInboxProcessed(a))
         \/ a \in Workers /\ PickDue(a)
         \/ AcquireLock(a)
  PROVE  BooksInv'
<1>1. TypeOK
  BY DEF BooksInv, SettlementInv
<1>2. pc[a] # "done" /\ ~Holding(a) /\ UNCHANGED <<sub, row, ledger>>
  BY DEF RequestLock, ResolveExisting, MarkInboxProcessed, PickDue, AcquireLock, Holding, committed
<1>3. \A b \in Workers \ {a} : job'[b] = job[b]
  BY <1>1 DEF RequestLock, ResolveExisting, MarkInboxProcessed, PickDue, AcquireLock, TypeOK
<1>4. \E next \in PCs \ {"cascade", "commit"} : pc' = [pc EXCEPT ![a] = next]
  BY DEF RequestLock, ResolveExisting, MarkInboxProcessed, PickDue, AcquireLock, PCs
<1>5. draft' = [draft EXCEPT ![a] = [@ EXCEPT !.wallet = wallet[WalletOf(a)]]] \/ UNCHANGED draft
  BY DEF RequestLock, ResolveExisting, MarkInboxProcessed, PickDue, AcquireLock
<1> QED
  BY <1>2, <1>3, <1>4, <1>5, WaitedBooks

-----------------------------------------------------------------------------
(* COMMIT and new submissions *)

\* What a COMMIT of a does to the tables: rows of a's wallet that waited, a's own
\* new row, and the entries of that wallet's ledger.
LEMMA CommitFacts ==
  ASSUME BooksInv, NEW a \in Actors, Commit(a)
  PROVE  LET dr == draft[a]
             w == WalletOf(a)
         IN  /\ w \in Wallets /\ dr \in Drafts
             /\ row' = Visible(dr) /\ Stored(row') \subseteq Stored(row) \cup Stored(dr.rows)
             /\ \A e \in Stored(dr.rows) :
                  /\ row'[e] = dr.rows[e] /\ sub[e].wallet = w
                  /\ row[e].status = "PENDING_REFERENCE" \/ (e = a /\ row[e].status = "ABSENT")
                  /\ dr.rows[e].attempts >= row[e].attempts
             /\ \A e \in Deliveries \ Stored(dr.rows) : row'[e] = row[e]
             /\ ledger'[w] = LedgerAfter(a)
             /\ \A x \in Wallets \ {w} : ledger'[x] = ledger[x]
             /\ pc'[a] = IF a \in Deliveries THEN "done" ELSE "idle"
             /\ draft'[a] = EmptyDraft
             /\ \A b \in Actors \ {a} : /\ pc'[b] = pc[b] /\ draft'[b] = draft[b]
                                        /\ TxOf(b)' = TxOf(b) /\ WalletOf(b)' = WalletOf(b)
                                        /\ Holding(b) => WalletOf(b) # w
<1> DEFINE dr == draft[a]
           w == WalletOf(a)
<1>1. /\ pc[a] = "commit" /\ Holding(a) /\ SettlementInv /\ TypeOK /\ DraftInOrder(a)
      /\ UNCHANGED sub
  BY BooksInvParts DEF Commit, Holding, SettlementInv
<1>2. w \in Wallets /\ lock[w] = a /\ dr \in Drafts
  BY <1>1, HolderFacts DEF TypeOK
<1>3. row' = Visible(dr)
  BY DEF Commit
<1>4. /\ \A e \in Stored(dr.rows) : row'[e] = dr.rows[e]
      /\ \A e \in Deliveries \ Stored(dr.rows) : row'[e] = row[e]
  BY <1>3 DEF Visible, Stored
<1>5. Stored(row') \subseteq Stored(row) \cup Stored(dr.rows)
  BY <1>4 DEF Stored
<1>6. ledger' = [ledger EXCEPT ![w] = @ \o dr.entries]
  BY DEF Commit
<1>7. ledger'[w] = LedgerAfter(a) /\ \A x \in Wallets \ {w} : ledger'[x] = ledger[x]
  BY <1>1, <1>2, <1>6 DEF LedgerAfter, TypeOK
<1>8. Close(a, IF a \in Deliveries THEN "done" ELSE "idle")
  BY DEF Commit
<1>9. /\ pc'[a] = IF a \in Deliveries THEN "done" ELSE "idle"
      /\ draft'[a] = EmptyDraft
  BY <1>1, <1>8 DEF Close, TypeOK
<1>10. ASSUME NEW b \in Actors \ {a}
       PROVE  /\ pc'[b] = pc[b] /\ draft'[b] = draft[b]
              /\ TxOf(b)' = TxOf(b) /\ WalletOf(b)' = WalletOf(b)
              /\ Holding(b) => WalletOf(b) # w
  <2>1. pc'[b] = pc[b] /\ draft'[b] = draft[b] /\ (b \in Workers => job'[b] = job[b])
    BY <1>1, <1>8 DEF Close, TypeOK
  <2>2. TxOf(b)' = TxOf(b) /\ WalletOf(b)' = WalletOf(b)
    BY <1>1, <2>1 DEF TxOf, WalletOf, Actors
  <2>3. Holding(b) => WalletOf(b) # w
    BY <1>1, <1>2, HolderFacts
  <2> QED BY <2>1, <2>2, <2>3
<1>11. \A e \in Stored(dr.rows) :
         /\ sub[e].wallet = w
         /\ row[e].status = "PENDING_REFERENCE" \/ (e = a /\ row[e].status = "ABSENT")
         /\ dr.rows[e].attempts >= row[e].attempts
  BY <1>1 DEF DraftInOrder, Drafted
<1> HIDE DEF w, dr
<1> QED
  BY <1>2, <1>3, <1>4, <1>5, <1>7, <1>9, <1>10, <1>11 DEF w, dr

\* COMMIT makes the books in hand the books of the wallet.
LEMMA CommitBooks ==
  ASSUME BooksInv, SettlementInv', NEW a \in Actors, Commit(a)
  PROVE  BooksInv'
<1> DEFINE dr == draft[a]
           w == WalletOf(a)
<1>1. /\ w \in Wallets /\ dr \in Drafts
      /\ row' = Visible(dr) /\ Stored(row') \subseteq Stored(row) \cup Stored(dr.rows)
      /\ ledger'[w] = LedgerAfter(a)
      /\ \A x \in Wallets \ {w} : ledger'[x] = ledger[x]
      /\ pc'[a] = IF a \in Deliveries THEN "done" ELSE "idle"
      /\ draft'[a] = EmptyDraft
  BY CommitFacts
<1>2. \A e \in Stored(dr.rows) :
        /\ row'[e] = dr.rows[e] /\ sub[e].wallet = w
        /\ row[e].status = "PENDING_REFERENCE" \/ (e = a /\ row[e].status = "ABSENT")
        /\ dr.rows[e].attempts >= row[e].attempts
  BY CommitFacts
<1>3. \A e \in Deliveries \ Stored(dr.rows) : row'[e] = row[e]
  BY CommitFacts
<1>4. \A b \in Actors \ {a} : /\ pc'[b] = pc[b] /\ draft'[b] = draft[b]
                              /\ TxOf(b)' = TxOf(b) /\ WalletOf(b)' = WalletOf(b)
                              /\ Holding(b) => WalletOf(b) # w
  BY CommitFacts
<1>5. /\ pc[a] = "commit" /\ ~Clashes(a) /\ UNCHANGED sub
      /\ DraftInOrder(a) /\ BooksInHand(a) /\ Holding(a) /\ TypeOK
  BY BooksInvParts DEF Commit, Holding, SettlementInv
<1>6. \A e \in Stored(row') : e \in Stored(row) \/ (e = a /\ a \in Deliveries)
  BY <1>1, <1>2 DEF Stored
<1> HIDE DEF w, dr
<1>7. StoredOnce'
  <2>1. ASSUME NEW d \in Deliveries, row'[d].status # "ABSENT" PROVE pc'[d] = "done"
    <3>1. d \in Stored(row')
      BY <2>1 DEF Stored
    <3>2. CASE d \in Stored(row)
      <4>1. pc[d] = "done" /\ d # a
        BY <1>5, <3>2 DEF BooksInv, StoredOnce, Stored
      <4> QED BY <1>4, <4>1 DEF Actors
    <3>3. CASE d \notin Stored(row)
      BY <1>1, <1>6, <3>1, <3>3
    <3> QED BY <3>2, <3>3
  <2>2. ASSUME NEW d \in Deliveries, row'[d].status = "ABSENT" PROVE row'[d].attempts = 0
    <3>1. d \notin Stored(dr.rows)
      BY <1>2, <2>2 DEF Stored
    <3> QED BY <1>3, <2>2, <3>1 DEF BooksInv, StoredOnce
  <2> QED BY <2>1, <2>2 DEF StoredOnce
<1>8. UniqueNames'
  <2> SUFFICES ASSUME NEW d \in Stored(row'), NEW e \in Stored(row'),
                      d # e, sub[d].provider = sub[e].provider
               PROVE  sub[d].key # sub[e].key /\ sub[d].ext # sub[e].ext
    BY <1>5 DEF UniqueNames, Stored
  <2>1. CASE d \in Stored(row) /\ e \in Stored(row)
    BY <2>1 DEF BooksInv, UniqueNames
  <2>2. CASE d = a /\ a \in Deliveries /\ e \in Stored(row)
    BY <1>5, <2>2 DEF Clashes, Clashing
  <2>3. CASE e = a /\ a \in Deliveries /\ d \in Stored(row)
    BY <1>5, <2>3 DEF Clashes, Clashing
  <2> QED BY <1>6, <2>1, <2>2, <2>3
<1>9. ASSUME NEW x \in Wallets
      PROVE  Books(sub, x, row, ledger[x])' /\ Awaited(sub, x, row, <<>>)'
  <2>1. CASE x = w
    <3>1. Books(sub, w, Visible(dr), LedgerAfter(a)) /\ Awaited(sub, w, Visible(dr), dr.queue)
      BY <1>5 DEF BooksInHand, w, dr
    <3>2. dr.queue = <<>>
      BY <1>5 DEF DraftInOrder, dr
    <3> QED BY <1>1, <1>5, <2>1, <3>1, <3>2
  <2>2. CASE x # w
    <3>1. \A e \in Deliveries : sub[e].wallet = x => row'[e] = row[e]
      BY <1>2, <1>3, <2>2
    <3>2. SameRows(sub, sub, x, row, row')
      BY <3>1 DEF SameRows, RowsOf
    <3>3. Books(sub, x, row, ledger[x]) /\ Awaited(sub, x, row, <<>>)
      BY DEF BooksInv, BooksKept
    <3>4. Books(sub, x, row', ledger[x]) /\ Awaited(sub, x, row', <<>>)
      BY <3>2, <3>3, BooksOfSameRows, AwaitedOfSameRows
    <3> QED BY <1>1, <1>5, <2>2, <3>4
  <2> QED BY <2>1, <2>2
<1>10. ASSUME NEW b \in Actors PROVE DraftInOrder(b)' /\ BooksInHand(b)'
  <2>1. CASE b = a
    <3>1. Stored(EmptyDraft.rows) = {} /\ EmptyDraft.queue = <<>>
      BY DEF EmptyDraft, Stored, NoRow
    <3>2. pc'[a] \notin {"decide", "cascade", "commit"}
      BY <1>1
    <3>3. DraftInOrder(a)'
      BY <1>1, <3>1, <3>2 DEF DraftInOrder, Writing, Stored
    <3>4. BooksInHand(a)'
      BY <3>2 DEF BooksInHand, Holding
    <3> QED BY <2>1, <3>3, <3>4
  <2>2. CASE b # a
    <3>1. /\ pc'[b] = pc[b] /\ draft'[b] = draft[b]
          /\ TxOf(b)' = TxOf(b) /\ WalletOf(b)' = WalletOf(b)
          /\ Holding(b) => WalletOf(b) # w
      BY <1>4, <2>2
    <3>2. DraftInOrder(b) /\ BooksInHand(b)
      BY BooksInvParts
    <3>3. Holding(b) => \A e \in Deliveries : sub[e].wallet = WalletOf(b) => row'[e] = row[e]
      BY <1>2, <1>3, <3>1
    <3>4. DraftInOrder(b)'
      <4>1. \A e \in Stored(draft[b].rows) : Holding(b) /\ sub[e].wallet = WalletOf(b)
        BY <3>2 DEF DraftInOrder, Drafted, Writing, Holding
      <4>2. \A e \in Stored(draft[b].rows) : row'[e] = row[e]
        BY <3>3, <4>1 DEF Stored
      <4> QED BY <1>5, <3>1, <3>2, <4>2 DEF DraftInOrder, Writing, Stored, Drafted
    <3>5. ASSUME Holding(b)' PROVE BooksInHand(b)'
      <4> DEFINE x == WalletOf(b)
                 old == Visible(draft[b])
                 new == Visible(draft[b])'
      <4>1. Holding(b) /\ x # w /\ x \in Wallets
        BY <1>5, <3>1, <3>5, HolderFacts DEF Holding, BooksInv
      <4>2. \A e \in Deliveries : sub[e].wallet = x => new[e] = old[e]
        BY <3>1, <3>3, <4>1 DEF Visible, Stored
      <4>3. LedgerAfter(b)' = LedgerAfter(b)
        BY <1>1, <3>1, <4>1 DEF LedgerAfter
      <4>4. Books(sub, x, old, LedgerAfter(b)) /\ Awaited(sub, x, old, draft[b].queue)
        BY <3>2, <4>1 DEF BooksInHand
      <4> HIDE DEF x, old, new
      <4>5. SameRows(sub, sub, x, old, new)
        BY <4>2 DEF SameRows, RowsOf
      <4>6. Books(sub, x, new, LedgerAfter(b)) /\ Awaited(sub, x, new, draft[b].queue)
        BY <4>4, <4>5, BooksOfSameRows, AwaitedOfSameRows
      <4> QED BY <1>5, <3>1, <4>3, <4>6 DEF BooksInHand, x, new
    <3> QED BY <3>4, <3>5 DEF BooksInHand
  <2> QED BY <2>1, <2>2
<1> QED
  BY <1>7, <1>8, <1>9, <1>10 DEF BooksInv, DraftsOfWaiting, BooksKept, DraftInOrder, BooksInHand

\* A new submission is of a delivery that nothing is stored or drafted for yet.
LEMMA SubmitBooks ==
  ASSUME BooksInv, SettlementInv', NEW d \in Deliveries, NEW s \in Submissions, Submit(d, s)
  PROVE  BooksInv'
<1>1. /\ pc[d] = "idle" /\ d \in Actors /\ SettlementInv /\ TypeOK
      /\ UNCHANGED <<row, ledger, job, draft>>
      /\ sub' = [sub EXCEPT ![d] = s] /\ pc' = [pc EXCEPT ![d] = "lookup"]
  BY DEF Submit, Actors, BooksInv, SettlementInv, committed
<1>2. /\ pc'[d] = "lookup" /\ \A b \in Actors \ {d} : pc'[b] = pc[b]
      /\ \A e \in Deliveries \ {d} : sub'[e] = sub[e]
  BY <1>1 DEF TypeOK
<1>3. row[d].status = "ABSENT" /\ \A b \in Actors : draft[b].rows[d].status = "ABSENT"
  BY <1>1 DEF SettlementInv, RowsWellPlaced, WellPlaced
<1>4. ASSUME NEW x, NEW rows, rows[d].status = "ABSENT"
      PROVE  SameRows(sub, sub', x, rows, rows)
  BY <1>2, <1>4 DEF SameRows, RowsOf
<1>5. StoredOnce'
  BY <1>1, <1>2, <1>3 DEF BooksInv, StoredOnce, Actors
<1>6. UniqueNames'
  BY <1>1, <1>2, <1>3 DEF BooksInv, UniqueNames, Stored
<1>7. ASSUME NEW x \in Wallets
      PROVE  Books(sub, x, row, ledger[x])' /\ Awaited(sub, x, row, <<>>)'
  <2>1. Books(sub, x, row, ledger[x]) /\ Awaited(sub, x, row, <<>>)
    BY DEF BooksInv, BooksKept
  <2>2. SameRows(sub, sub', x, row, row)
    BY <1>3, <1>4
  <2>3. Books(sub', x, row, ledger[x]) /\ Awaited(sub', x, row, <<>>)
    BY <2>1, <2>2, BooksOfSameRows, AwaitedOfSameRows
  <2> QED BY <1>1, <2>3
<1>8. ASSUME NEW b \in Actors PROVE DraftInOrder(b)' /\ BooksInHand(b)'
  <2>1. DraftInOrder(b) /\ BooksInHand(b)
    BY BooksInvParts
  <2>2. /\ draft'[b] = draft[b] /\ TxOf(b)' = TxOf(b) /\ (Holding(b)' <=> Holding(b))
        /\ (Writing(b)' <=> Writing(b)) /\ (pc'[b] = "cascade" <=> pc[b] = "cascade")
    BY <1>1, <1>2 DEF TxOf, Holding, Writing
  <2>3. Holding(b) => WalletOf(b)' = WalletOf(b)
    <3>1. Holding(b) => TxOf(b) \in Deliveries /\ TxOf(b) # d
      BY <1>1, HolderFacts
    <3> QED BY <1>2, <2>2, <3>1 DEF WalletOf
  <2>4. DraftInOrder(b)'
    <3>1. \A e \in Stored(draft[b].rows) : Holding(b) /\ e # d
      BY <1>3, <2>1 DEF DraftInOrder, Writing, Holding, Stored
    <3>2. \A e \in Stored(draft[b].rows) : sub'[e] = sub[e] /\ WalletOf(b)' = WalletOf(b)
      BY <1>2, <2>3, <3>1 DEF Stored
    <3> QED BY <1>1, <2>1, <2>2, <3>2 DEF DraftInOrder, Stored, Drafted
  <2>5. ASSUME Holding(b) PROVE BooksInHand(b)'
    <3> DEFINE x == WalletOf(b)
               seen == Visible(draft[b])
    <3>1. Books(sub, x, seen, LedgerAfter(b)) /\ Awaited(sub, x, seen, draft[b].queue)
      BY <2>1, <2>5 DEF BooksInHand
    <3>2. seen[d].status = "ABSENT"
      BY <1>3 DEF Visible
    <3>3. Visible(draft[b])' = seen
      BY <1>1 DEF Visible, Stored
    <3>4. LedgerAfter(b)' = LedgerAfter(b)
      BY <1>1, <2>3, <2>5 DEF LedgerAfter
    <3> HIDE DEF seen, x
    <3>5. SameRows(sub, sub', x, seen, seen)
      BY <1>4, <3>2
    <3>6. Books(sub', x, seen, LedgerAfter(b)) /\ Awaited(sub', x, seen, draft[b].queue)
      BY <3>1, <3>5, BooksOfSameRows, AwaitedOfSameRows
    <3> QED BY <2>2, <2>3, <2>5, <3>3, <3>4, <3>6 DEF BooksInHand, x
  <2> QED BY <2>2, <2>4, <2>5 DEF BooksInHand
<1> QED
  BY <1>5, <1>6, <1>7, <1>8 DEF BooksInv, DraftsOfWaiting, BooksKept, DraftInOrder, BooksInHand

-----------------------------------------------------------------------------
(* The theorems *)

\* The books of a freshly opened wallet have at most the opening entry.
LEMMA InitBooks == Init => BooksInv
<1> SUFFICES ASSUME Init PROVE BooksInv
  OBVIOUS
<1>1. SettlementInv
  BY InitInv
<1>2. \A d \in Deliveries : row[d].status = "ABSENT" /\ row[d].attempts = 0
  BY DEF Init, NoRow
<1>3. StoredOnce /\ UniqueNames
  BY <1>2 DEF StoredOnce, UniqueNames, Stored
<1>4. \A a \in Actors : /\ pc[a] = "idle" /\ draft[a].queue = <<>>
                        /\ Stored(draft[a].rows) = {}
  BY DEF Init, EmptyDraft, NoRow, Stored
<1>5. DraftsOfWaiting
  <2>1. \A a \in Actors : ~Writing(a) /\ DOMAIN draft[a].queue = {}
    BY <1>4 DEF Writing
  <2> QED BY <1>4, <2>1 DEF DraftsOfWaiting
<1>6. ASSUME NEW w \in Wallets
      PROVE  Books(sub, w, row, ledger[w]) /\ Awaited(sub, w, row, <<>>)
  <2>1. RowsOf(sub, w, row) = {}
    BY <1>2 DEF RowsOf
  <2>2. ledger[w] = OpeningEntries(w)
    BY DEF Init
  <2>3. \A i \in DOMAIN ledger[w] : /\ ledger[w][i].tx = OpeningTx /\ i <= Len(OpeningEntries(w))
                                    /\ i = 1
    <3>1. CASE InitialBalance[w] = 0
      BY <2>2, <3>1 DEF OpeningEntries
    <3>2. CASE InitialBalance[w] # 0
      <4> DEFINE e == [ tx |-> OpeningTx, direction |-> "CREDIT", amount |-> InitialBalance[w],
                        before |-> 0, after |-> InitialBalance[w] ]
      <4>1. ledger[w] = << e >> /\ OpeningEntries(w) = << e >> /\ e.tx = OpeningTx
        BY <2>2, <3>2 DEF OpeningEntries
      <4> HIDE DEF e
      <4>2. DOMAIN << e >> = {1} /\ << e >>[1] = e /\ Len(<< e >>) = 1
        OBVIOUS
      <4> QED BY <4>1, <4>2
    <3> QED BY <3>1, <3>2
  <2>4. EntriesHaveRows(sub, w, row, ledger[w])
    BY <2>3 DEF EntriesHaveRows
  <2> QED BY <2>1, <2>3, <2>4
          DEF Books, RowsHaveEntries, ReversalsRefer, ReversalsUndo, Awaited
<1>7. BooksKept
  BY <1>4, <1>6 DEF BooksKept, Holding
<1> QED
  BY <1>1, <1>3, <1>5, <1>7 DEF BooksInv

\* Every step of the specification keeps the books.
LEMMA NextBooks ==
  BooksInv /\ [Next]_vars => BooksInv'
<1> SUFFICES ASSUME BooksInv, [Next]_vars
             PROVE  BooksInv'
  OBVIOUS
<1>0. SettlementInv'
  BY NextInv DEF BooksInv
<1>1. ASSUME NEW d \in Deliveries, NEW s \in Submissions, Submit(d, s)
      PROVE  BooksInv'
  BY <1>0, <1>1, SubmitBooks
<1>2. ASSUME NEW d \in Deliveries, DeliveryStep(d)
      PROVE  BooksInv'
  <2>1. d \in Actors
    BY DEF Actors
  <2> QED BY <1>0, <1>2, <2>1, AnswerBooks, ProcessBooks, RolledBackBooks, BetweenBooks
          DEF DeliveryStep
<1>3. ASSUME NEW a \in Workers, WorkerStep(a)
      PROVE  BooksInv'
  <2>1. a \in Actors
    BY DEF Actors
  <2> QED BY <1>0, <1>3, <2>1, BetweenBooks, RolledBackBooks, ReprocessBooks, RescheduleBooks,
             ExpireBooks DEF WorkerStep
<1>4. ASSUME NEW a \in Actors, TransactionStep(a)
      PROVE  BooksInv'
  BY <1>0, <1>4, BetweenBooks, SettleDependentBooks, NextReferenceBooks, CommitBooks,
     RolledBackBooks DEF TransactionStep
<1>5. ASSUME NEW a \in Actors, Crash(a)
      PROVE  BooksInv'
  BY <1>0, <1>5, RolledBackBooks
<1>6. CASE UNCHANGED vars
  <2>1. UNCHANGED <<sub, row, ledger, pc, job, draft>>
    BY <1>6 DEF vars
  <2>2. \A a \in Actors : /\ TxOf(a)' = TxOf(a) /\ WalletOf(a)' = WalletOf(a)
                          /\ Visible(draft[a])' = Visible(draft[a])
                          /\ LedgerAfter(a)' = LedgerAfter(a)
    BY <2>1 DEF TxOf, WalletOf, Visible, Stored, LedgerAfter
  <2>3. StoredOnce' /\ UniqueNames'
    BY <2>1 DEF BooksInv, StoredOnce, UniqueNames, Stored
  <2>4. DraftsOfWaiting'
    BY <2>1, <2>2 DEF BooksInv, DraftsOfWaiting, Writing, Drafted, Stored
  <2>5. BooksKept'
    BY <2>1, <2>2 DEF BooksInv, BooksKept, Holding
  <2> QED BY <1>0, <2>3, <2>4, <2>5 DEF BooksInv
<1>7. CASE Quiescent
  BY <1>6, <1>7 DEF Quiescent
<1> QED
  BY <1>1, <1>2, <1>3, <1>4, <1>5, <1>6, <1>7 DEF Next

\* The inductive invariant holds throughout every behaviour.
THEOREM BooksInvariant == Spec => []BooksInv
  BY InitBooks, NextBooks, PTL DEF Spec

\* A submission moves money at most once, over whichever channel and however often
\* it is delivered: one ledger entry of its own amount in its own wallet when it is
\* processed, none otherwise.
THEOREM OneMovementEach == Spec => []OneMovementPerSubmission
<1>1. BooksInv => OneMovementPerSubmission
  <2> SUFFICES ASSUME BooksInv PROVE OneMovementPerSubmission
    OBVIOUS
  <2>1. ASSUME NEW d \in Deliveries, NEW w \in Wallets
        PROVE  LET own == { i \in DOMAIN ledger[w] : ledger[w][i].tx = d }
               IN  /\ Cardinality(own) = IF /\ row[d].status = "PROCESSED"
                                           /\ sub[d].kind # "LOSS" /\ sub[d].wallet = w
                                        THEN 1 ELSE 0
                   /\ \A i \in own : ledger[w][i].amount = sub[d].amount
    <3> DEFINE es == ledger[w]
               own == { i \in DOMAIN es : es[i].tx = d }
    <3>1. Books(sub, w, row, es)
      BY DEF BooksInv, BooksKept
    <3>2. d # OpeningTx
      BY ActorAssumption
    <3> HIDE DEF es
    <3>3. \A i \in DOMAIN es : es[i].tx = d =>
            d \in RowsOf(sub, w, row) /\ Moved(sub, row, d) /\ es[i].amount = sub[d].amount
      BY <3>1, <3>2 DEF Books, EntriesHaveRows
    <3>4. CASE row[d].status = "PROCESSED" /\ sub[d].kind # "LOSS" /\ sub[d].wallet = w
      <4>1. d \in RowsOf(sub, w, row) /\ Moved(sub, row, d)
        BY <3>4 DEF RowsOf, Moved
      <4>2. PICK i \in DOMAIN es : es[i].tx = d
        BY <3>1, <4>1 DEF Books, RowsHaveEntries
      <4>3. own = {i}
        BY <3>1, <3>3, <4>2 DEF Books, RowsHaveEntries
      <4>4. Cardinality(own) = 1
        BY <4>3, FS_Singleton
      <4> QED BY <3>3, <3>4, <4>4 DEF es
    <3>5. CASE ~(row[d].status = "PROCESSED" /\ sub[d].kind # "LOSS" /\ sub[d].wallet = w)
      <4>1. own = {}
        BY <3>3, <3>5 DEF RowsOf, Moved
      <4>2. Cardinality(own) = 0
        BY <4>1, FS_EmptySet
      <4> QED BY <3>3, <3>5, <4>2 DEF es
    <3> QED BY <3>4, <3>5
  <2>2. ASSUME NEW d \in Stored(row), NEW e \in Stored(row), d # e
        PROVE  ~SamePayload(sub[d], sub[e])
    BY <2>2 DEF BooksInv, UniqueNames, SamePayload
  <2> QED BY <2>1, <2>2 DEF OneMovementPerSubmission
<1> QED
  BY <1>1, BooksInvariant, PTL

\* A row that refers to another undoes it in its own wallet.
LEMMA ReferrerUndoes ==
  ASSUME NEW s, NEW w, NEW rows, NEW es, Books(s, w, rows, es),
         NEW d \in RowsOf(s, w, rows), rows[d].status = "PROCESSED", rows[d].refTx # NoTx
  PROVE  RequiresReference(s[d].kind) /\ Undoes(s, w, rows, es, d, rows[d].refTx)
  BY DEF Books, ReversalsRefer, ReversalsUndo

\* A processed REFUND or ROLLBACK undoes exactly one processed movement of its
\* wallet, in the opposite direction and for the same amount, once per kind.
THEOREM ReversalsAreExact == Spec => []ReversalUndoesOneMovement
<1>1. BooksInv => ReversalUndoesOneMovement
  <2> SUFFICES ASSUME BooksInv,
                      NEW d \in Stored(row),
                      row[d].status = "PROCESSED", RequiresReference(sub[d].kind)
               PROVE  LET ref == row[d].refTx
                          w == sub[d].wallet
                      IN  /\ ref \in Stored(row)
                          /\ row[ref].status = "PROCESSED"
                          /\ sub[ref].wallet = w
                          /\ \E i, j \in DOMAIN ledger[w] :
                               /\ ledger[w][i].tx = ref /\ ledger[w][j].tx = d /\ i < j
                               /\ ledger[w][j].direction = Invert(ledger[w][i].direction)
                               /\ ledger[w][j].amount = ledger[w][i].amount
                          /\ \A e \in Stored(row) \ {d} :
                               row[e].status = "PROCESSED" /\ row[e].refTx = ref
                                 => sub[e].kind # sub[d].kind
    BY DEF ReversalUndoesOneMovement
  <2> DEFINE ref == row[d].refTx
             w == sub[d].wallet
             es == ledger[w]
  <2>1. \A x \in Wallets : Books(sub, x, row, ledger[x])
    BY DEF BooksInv, BooksKept
  <2>2. \A e \in Stored(row) : sub[e].wallet \in Wallets /\ e \in RowsOf(sub, sub[e].wallet, row)
    BY DEF BooksInv, SettlementInv, RowsWellPlaced, WellPlaced, Stored, RowsOf
  <2>3. w \in Wallets /\ d \in RowsOf(sub, w, row) /\ Books(sub, w, row, es)
    BY <2>1, <2>2
  <2>4. Undoes(sub, w, row, es, d, ref)
    BY <2>3 DEF Books, ReversalsUndo
  <2> HIDE DEF ref, w, es
  <2>5. ref \in Stored(row) /\ row[ref].status = "PROCESSED" /\ sub[ref].wallet = w
    BY <2>4 DEF Undoes, RowsOf, Stored
  <2>6. sub[ref].kind \in {"BET", "WIN", "REFUND"} /\ (sub[d].kind = "REFUND" => sub[ref].kind = "BET")
    BY <2>4 DEF Undoes
  <2>7. ref # OpeningTx /\ d # OpeningTx /\ ref # NoTx /\ ref \in RowsOf(sub, w, row)
    BY <2>4, <2>5, ActorAssumption DEF Stored, Undoes
  <2>8. PICK i \in DOMAIN es : es[i].tx = ref
    BY <2>3, <2>5, <2>6, <2>7 DEF Books, RowsHaveEntries, Moved
  <2>9. PICK j \in DOMAIN es : es[j].tx = d
    BY <2>3 DEF Books, RowsHaveEntries, Moved, RequiresReference
  <2>10. i < j
    BY <2>4, <2>8, <2>9 DEF Undoes
  <2>11. /\ es[i].amount = sub[ref].amount
         /\ es[i].direction = DirectionFor(sub[ref], sub[row[ref].refTx])
    BY <2>3, <2>7, <2>8 DEF Books, EntriesHaveRows
  <2>12. es[j].amount = sub[d].amount /\ es[j].direction = DirectionFor(sub[d], sub[ref])
    BY <2>3, <2>7, <2>9 DEF Books, EntriesHaveRows, ref
  <2>13. es[j].direction = Invert(es[i].direction)
    BY <2>6, <2>11, <2>12 DEF DirectionFor, OwnDirection, Invert, RequiresReference
  <2>14. es[j].amount = es[i].amount
    BY <2>4, <2>11, <2>12 DEF Undoes
  <2>15. ASSUME NEW e \in Stored(row) \ {d}, row[e].status = "PROCESSED", row[e].refTx = ref
         PROVE  sub[e].kind # sub[d].kind
    <3> DEFINE x == sub[e].wallet
    <3>1. x \in Wallets /\ e \in RowsOf(sub, x, row) /\ Books(sub, x, row, ledger[x])
      BY <2>1, <2>2, <2>15
    <3> HIDE DEF x
    <3>2. Undoes(sub, x, row, ledger[x], e, ref)
      BY <2>7, <2>15, <3>1, ReferrerUndoes
    <3>3. x = w
      BY <2>5, <3>2 DEF Undoes, RowsOf
    <3> QED BY <2>4, <2>15, <3>1, <3>3 DEF Undoes
  <2> QED BY <2>5, <2>8, <2>9, <2>10, <2>13, <2>14, <2>15 DEF ref, w, es
<1> QED
  BY <1>1, BooksInvariant, PTL

\* Whoever of a reversal and its reference commits second settles the pair: no row
\* waits for one that has been processed, in either order of arrival.
THEOREM NothingStranded == Spec => []NoStrandedReversal
<1>1. BooksInv => NoStrandedReversal
  <2> SUFFICES ASSUME BooksInv, NEW d \in Stored(row), NEW r \in Stored(row),
                      row[d].status = "PENDING_REFERENCE",
                      row[r].status = "PROCESSED", Referenceable(sub[r].kind),
                      sub[r].provider = sub[d].provider, sub[r].wallet = sub[d].wallet,
                      sub[r].ext = sub[d].ref
               PROVE  FALSE
    BY DEF NoStrandedReversal
  <2> DEFINE w == sub[d].wallet
  <2>1. w \in Wallets
    BY DEF BooksInv, SettlementInv, RowsWellPlaced, WellPlaced, Stored
  <2>2. d \in RowsOf(sub, w, row) /\ r \in RowsOf(sub, w, row) /\ WaitsFor(sub, row, d, r)
    BY DEF RowsOf, Stored, WaitsFor
  <2>3. Awaited(sub, w, row, <<>>)
    BY <2>1 DEF BooksInv, BooksKept
  <2> HIDE DEF w
  <2>4. \E i \in DOMAIN <<>> : <<>>[i] = r
    BY <2>2, <2>3 DEF Awaited
  <2> QED BY <2>4
<1> QED
  BY <1>1, BooksInvariant, PTL

\* The service never comes to COMMIT with a second reversal of a kind, a second
\* ledger entry of a transaction or a negative balance: the constraints of the
\* schema refuse nothing that the service writes.
THEOREM SafetyNetIsSpare == Spec => []SafetyNetNeverFires
<1>1. BooksInv => SafetyNetNeverFires
  <2> SUFFICES ASSUME BooksInv, NEW a \in Actors, pc[a] = "commit", BreaksSafetyNet(a)
               PROVE  FALSE
    BY DEF SafetyNetNeverFires
  <2> DEFINE seen == Visible(draft[a])
             w == WalletOf(a)
             es == LedgerAfter(a)
  <2>1. Holding(a) /\ DraftInOrder(a) /\ SettlementInv /\ Books(sub, w, seen, es)
    BY BooksInvParts DEF Holding, BooksInHand
  <2>2. /\ \A i, j \in DOMAIN es : es[i].tx = es[j].tx => i = j
        /\ ~(draft[a].wallet.balance < 0)
    <3>1. draft[a].wallet.balance >= 0 /\ draft[a].wallet.balance \in Int
      BY <2>1 DEF SettlementInv, DraftsContinueLedger, TypeOK, Drafts, WalletRows
    <3> QED BY <2>1, <3>1 DEF Books, RowsHaveEntries
  <2>3. PICK e \in Stored(draft[a].rows), f \in Deliveries :
          /\ e # f /\ seen[e].status = "PROCESSED" /\ seen[f].status = "PROCESSED"
          /\ seen[e].refTx # NoTx /\ seen[e].refTx = seen[f].refTx
          /\ sub[e].kind = sub[f].kind
    BY <2>2 DEF BreaksSafetyNet
  <2> DEFINE ref == seen[e].refTx
  <2>4. \A x \in Stored(draft[a].rows) : sub[x].wallet = w /\ x \in Deliveries
    BY <2>1 DEF DraftInOrder, Drafted, Stored
  <2>5. sub[f].wallet = w
    <3>1. CASE f \in Stored(draft[a].rows)
      BY <2>4, <3>1
    <3>2. CASE f \notin Stored(draft[a].rows)
      <4> DEFINE x == sub[f].wallet
      <4>1. row[f] = seen[f] /\ f \in RowsOf(sub, x, row) /\ row[f].refTx # NoTx
        BY <2>3, <3>2 DEF Visible, RowsOf
      <4>2. x \in Wallets
        BY <2>1, <4>1 DEF SettlementInv, RowsWellPlaced, WellPlaced, RowsOf
      <4>3. Books(sub, x, row, ledger[x])
        BY <4>2 DEF BooksInv, BooksKept
      <4> HIDE DEF x, seen, w, es
      <4>4. Undoes(sub, x, row, ledger[x], f, row[f].refTx)
        BY <2>3, <4>1, <4>3, ReferrerUndoes
      <4>5. e \in RowsOf(sub, w, seen)
        BY <2>3, <2>4 DEF RowsOf
      <4>6. Undoes(sub, w, seen, es, e, ref)
        BY <2>1, <2>3, <4>5, ReferrerUndoes
      <4>7. sub[ref].wallet = x /\ sub[ref].wallet = w
        BY <2>3, <4>1, <4>4, <4>6 DEF Undoes, RowsOf
      <4> QED BY <4>7 DEF x
    <3> QED BY <3>1, <3>2
  <2> HIDE DEF seen, w, es
  <2>6. e \in RowsOf(sub, w, seen) /\ f \in RowsOf(sub, w, seen)
    BY <2>3, <2>4, <2>5 DEF RowsOf
  <2>7. Undoes(sub, w, seen, es, e, ref)
    BY <2>1, <2>3, <2>6, ReferrerUndoes
  <2> QED BY <2>3, <2>6, <2>7 DEF Undoes
<1> QED
  BY <1>1, BooksInvariant, PTL

\* A sequence is the beginning of whatever extends it.
LEMMA PrefixOfConcat ==
  ASSUME NEW S, NEW s \in Seq(S), NEW t \in Seq(S)
  PROVE  SubSeq(s \o t, 1, Len(s)) = s
<1> DEFINE all == s \o t
           sub1 == SubSeq(all, 1, Len(s))
<1>1. /\ Len(s) \in Nat /\ \A i \in 1..Len(s) : all[i] = s[i] /\ s[i] \in S
  OBVIOUS
<1> HIDE DEF all
<1>2. /\ sub1 \in Seq(S) /\ Len(sub1) = Len(s)
      /\ \A i \in 1..Len(s) : sub1[i] = s[i]
  BY <1>1, SubSeqProperties
<1> HIDE DEF sub1
<1>3. sub1 = s
  BY <1>1, <1>2
<1> QED
  BY <1>3 DEF sub1, all

\* What is settled stays settled: a terminal row never changes, a pending row never
\* loses attempts, and the ledger and the outbox only grow at their end.
THEOREM SettledStaysSettled == Spec => SettledIsFinal
<1> DEFINE Final ==
      /\ \A d \in Deliveries :
           /\ Terminal(row[d].status) => row'[d] = row[d]
           /\ row'[d].attempts >= row[d].attempts
           /\ d \in Stored(row) => row'[d].status # "ABSENT"
      /\ \A w \in Wallets :
           /\ SubSeq(ledger'[w], 1, Len(ledger[w])) = ledger[w]
           /\ SubSeq(outbox'[w], 1, Len(outbox[w])) = outbox[w]
<1>1. ASSUME BooksInv, UNCHANGED <<row, ledger, outbox>> PROVE Final
  <2>1. TypeOK
    BY <1>1 DEF BooksInv, SettlementInv
  <2>2. \A w \in Wallets : /\ SubSeq(ledger[w], 1, Len(ledger[w])) = ledger[w]
                           /\ SubSeq(outbox[w], 1, Len(outbox[w])) = outbox[w]
    BY <2>1, SubSeqFull DEF TypeOK
  <2>3. \A d \in Deliveries : row[d].attempts >= row[d].attempts
    BY <2>1 DEF TypeOK, Rows
  <2> QED BY <1>1, <2>2, <2>3 DEF Stored
<1>2. ASSUME BooksInv, NEW a \in Actors, Commit(a) PROVE Final
  <2> DEFINE dr == draft[a]
             x == WalletOf(a)
  <2>1. /\ x \in Wallets /\ dr \in Drafts /\ ledger'[x] = LedgerAfter(a)
        /\ \A w \in Wallets \ {x} : ledger'[w] = ledger[w]
        /\ \A e \in Stored(dr.rows) :
             /\ row'[e] = dr.rows[e]
             /\ row[e].status = "PENDING_REFERENCE" \/ (e = a /\ row[e].status = "ABSENT")
             /\ dr.rows[e].attempts >= row[e].attempts
        /\ \A e \in Deliveries \ Stored(dr.rows) : row'[e] = row[e]
    BY <1>2, CommitFacts
  <2>2. TypeOK
    BY <1>2 DEF BooksInv, SettlementInv
  <2>3. outbox' = [outbox EXCEPT ![x] = @ \o dr.events]
    BY <1>2 DEF Commit
  <2>4. ASSUME NEW d \in Deliveries
        PROVE  /\ Terminal(row[d].status) => row'[d] = row[d]
               /\ row'[d].attempts >= row[d].attempts
               /\ d \in Stored(row) => row'[d].status # "ABSENT"
    <3>1. CASE d \in Stored(dr.rows)
      BY <2>1, <3>1 DEF Terminal, Stored
    <3>2. CASE d \notin Stored(dr.rows)
      <4>1. row'[d] = row[d] /\ row[d].attempts \in Nat
        BY <2>1, <2>2, <3>2 DEF TypeOK, Rows
      <4> QED BY <4>1 DEF Stored
    <3> QED BY <3>1, <3>2
  <2>5. ASSUME NEW w \in Wallets
        PROVE  /\ SubSeq(ledger'[w], 1, Len(ledger[w])) = ledger[w]
               /\ SubSeq(outbox'[w], 1, Len(outbox[w])) = outbox[w]
    <3>1. ledger[w] \in Seq(Entries) /\ outbox[w] \in Seq(Events)
      BY <2>2 DEF TypeOK
    <3>2. CASE w = x
      <4>1. dr.entries \in Seq(Entries) /\ dr.events \in Seq(Events)
        BY <2>1 DEF Drafts
      <4>2. ledger'[w] = ledger[w] \o dr.entries /\ outbox'[w] = outbox[w] \o dr.events
        BY <2>1, <2>2, <2>3, <3>2 DEF LedgerAfter, TypeOK
      <4>3. SubSeq(ledger[w] \o dr.entries, 1, Len(ledger[w])) = ledger[w]
        BY <3>1, <4>1, PrefixOfConcat
      <4>4. SubSeq(outbox[w] \o dr.events, 1, Len(outbox[w])) = outbox[w]
        BY <3>1, <4>1, PrefixOfConcat
      <4> QED BY <4>2, <4>3, <4>4
    <3>3. CASE w # x
      <4>1. ledger'[w] = ledger[w] /\ outbox'[w] = outbox[w]
        BY <2>1, <2>2, <2>3, <3>3 DEF TypeOK
      <4> QED BY <3>1, <4>1, SubSeqFull
    <3> QED BY <3>2, <3>3
  <2> QED BY <2>4, <2>5
<1>3. ASSUME BooksInv, [Next]_vars PROVE Final
  <2>1. (\E a \in Actors : Commit(a)) \/ UNCHANGED <<row, ledger, outbox>>
    BY <1>3 DEF Next, DeliveryStep, WorkerStep, TransactionStep, Submit, AnswerKnown, RequestLock,
       WalletNotFound, AnswerAfterLock, WrongPlayer, Process, CommitClash, ResolveExisting,
       MarkInboxProcessed, PickDue, SkipRow, Reprocess, Reschedule, Expire, AcquireLock,
       SettleDependent, NextReference, CommitRefused, Crash, Quiescent, Answer, Apply,
       committed, vars
  <2> QED BY <1>1, <1>2, <1>3, <2>1
<1>4. BooksInv /\ [Next]_vars => [Final]_vars
  <2> HIDE DEF Final
  <2> QED BY <1>3
<1> QED
  BY <1>4, BooksInvariant, PTL DEF Spec, SettledIsFinal
=============================================================================
