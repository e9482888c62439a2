--------------------------- MODULE WalletService ---------------------------
(***************************************************************************)
(* WalletService: creation of wallets, reconciliation and the pages of the *)
(* ledger, against PostgreSQL at READ COMMITTED, next to settlements that  *)
(* write the same wallets.                                                 *)
(*                                                                         *)
(* An entry is ordered by (createdAt, id).  createdAt is the clock of the  *)
(* process that wrote it, in milliseconds, and the id is random, so a new  *)
(* entry may fall anywhere among those of its own millisecond.  A cursor   *)
(* names the last entry shown.                                             *)
(***************************************************************************)
EXTENDS Integers, FiniteSets, Sequences

CONSTANTS
  Creations,    \* calls of create; a call also names the wallet it creates
  Owner,        \* player and currency of each call
  Opening,      \* initial balance of each call
  Settlements,  \* submissions that settle on a wallet, or are refused
  Changes,      \* what one entry adds to a balance
  Apart,        \* TRUE: no two transactions on one wallet share a millisecond
  MaxBalance,   \* bound on the balances settlements reach
  MaxEntries,   \* bound on the entries of one settlement with its cascade
  Reconcilers,  \* calls of reconcile
  Walkers,      \* clients that read a ledger page by page
  Limit,        \* entries of one page
  Skews,        \* how far ahead the clock of a process may be
  MaxClock,     \* bound on the milliseconds explored
  MaxTampers,   \* bound on the changes of a balance made by hand
  MaxCrashes    \* bound on the crashes explored

Writers == Creations \cup Settlements
Actors == Writers \cup Reconcilers
Owners == { Owner[c] : c \in Creations }

NoWallet == "none"

ASSUME WalletServiceAssumption ==
  /\ NoWallet \notin Creations
  /\ Creations \cap Settlements = {}
  /\ Writers \cap Reconcilers = {}
  /\ DOMAIN Owner = Creations
  /\ Opening \in [Creations -> Nat]
  /\ Changes \subseteq Int \ {0}
  /\ Limit \in Nat \ {0}
  /\ Skews \subseteq Nat
  /\ Apart \in BOOLEAN
  /\ {MaxBalance, MaxEntries, MaxClock, MaxTampers, MaxCrashes} \subseteq Nat

VARIABLES
  balance,   \* column balance_amount of each wallet; Absent: there is no row
  listing,   \* the ledger of each wallet, ordered by (createdAt, id)
  locks,     \* actors that hold each wallet row, FOR UPDATE or FOR SHARE
  claims,    \* creations that inserted a wallet and have not committed
  pc,        \* where each actor stands
  on,        \* the wallet an actor works on
  draft,     \* entries a writer has not committed
  refusal,   \* of each refused settlement: its createdAt, the balance told,
             \* and the entries the ledger had
  report,    \* the balance each reconciliation has read, then what it found
  walk,      \* of each walker: its wallet, entries shown, those stored when it
             \* began, whether it has the last page, those it never saw
  skew,      \* how far ahead the clock of each writer is
  clock,     \* the present
  since,     \* when each wallet was last written, where that matters
  drift,     \* what was added to each balance by hand
  tampers,   \* changes by hand so far
  crashes    \* crashes so far

tables == <<balance, listing>>
session == <<locks, claims, pc, on, draft>>
answers == <<refusal, report, walk>>
world == <<skew, clock, since, drift, tampers, crashes>>
vars == <<tables, session, answers, world>>

-----------------------------------------------------------------------------
(* Helpers *)

Absent == 0 - 1
NoRefusal == [at |-> 0, told |-> Absent, count |-> 0]
NoReport == [stored |-> 0, difference |-> 0, outcome |-> "none"]
NoWalk == [of |-> NoWallet, seen |-> <<>>, start |-> {}, done |-> FALSE, missed |-> {}]

Exists(w) == balance[w] # Absent
Wallets == { w \in Creations : Exists(w) }

Stamp(a) == clock + skew[a]

\* The sum of the changes of a ledger.
Total(entries) ==
  LET sum[i \in 0..Len(entries)] == IF i = 0 THEN 0 ELSE sum[i - 1] + entries[i].change
  IN  sum[Len(entries)]

Range(s) == { s[i] : i \in DOMAIN s }
Numbers(entries) == { entries[i].n : i \in DOMAIN entries }

\* The orders by (createdAt, id) that entries may have with e among them: the
\* random id of e leaves its place open among entries of the same millisecond.
Insertions(entries, e) ==
  { SubSeq(entries, 1, k) \o <<e>> \o SubSeq(entries, k + 1, Len(entries)) :
      k \in { i \in 0..Len(entries) :
                /\ \A j \in 1..i : entries[j].at <= e.at
                /\ \A j \in (i + 1)..Len(entries) : entries[j].at >= e.at } }

\* The same for a sequence of new entries.
Merges(entries, new) ==
  LET merge[i \in 0..Len(new)] ==
        IF i = 0 THEN {entries}
        ELSE UNION { Insertions(ordered, new[i]) : ordered \in merge[i - 1] }
  IN  merge[Len(new)]

\* Mutant: entries of the same millisecond are left out.
ObservedAt_Before(w, at) ==
  LET past == { i \in DOMAIN listing[w] : listing[w][i].at < at }
  IN  IF past = {} THEN [n |-> 0, at |-> 0, after |-> 0]
      ELSE LET e == listing[w][CHOOSE i \in past : \A j \in past : j <= i]
           IN  [n |-> e.n, at |-> e.at, after |-> e.after]

\* balanceObservedAt: the last entry, by (createdAt, id), up to time at.
ObservedAt(w, at) ==
  LET past == { i \in DOMAIN listing[w] : listing[w][i].at <= at }
  IN  IF past = {} THEN [n |-> 0, at |-> 0, after |-> 0]
      ELSE LET e == listing[w][CHOOSE i \in past : \A j \in past : j <= i]
           IN  [n |-> e.n, at |-> e.at, after |-> e.after]

\* The transaction of a is over: its locks, its claim and its draft are gone.  The
\* wallet of a refused settlement is in its row.
Close(a, next) ==
  /\ pc' = [pc EXCEPT ![a] = next]
  /\ locks' = [w \in Creations |-> locks[w] \ {a}]
  /\ claims' = claims \ {a}
  /\ draft' = [draft EXCEPT ![a] = <<>>]
  /\ on' = [on EXCEPT ![a] = IF next = "refused" THEN @ ELSE NoWallet]

\* A transaction on w has ended.
Written(w) == since' = IF Apart THEN [since EXCEPT ![w] = clock] ELSE since

-----------------------------------------------------------------------------
(* create *)

\* create looks for a wallet of the player and currency, then opens one.
LookUp(c) ==
  /\ pc[c] = "idle"
  /\ IF \E w \in Wallets : Owner[w] = Owner[c]
     THEN Close(c, "exists")
     ELSE /\ pc' = [pc EXCEPT ![c] = "insert"]
          /\ draft' = [draft EXCEPT ![c] =
               IF Opening[c] = 0 THEN <<>>
               ELSE << [n |-> 1, at |-> Stamp(c), change |-> Opening[c], after |-> Opening[c]] >>]
          /\ UNCHANGED <<locks, claims, on>>
  /\ UNCHANGED <<tables, answers, world>>

\* Mutant: the schema without uq_wallet_player_currency.
Insert_NotUnique(c) ==
  /\ pc[c] = "insert"
  /\ claims' = claims \cup {c}
  /\ pc' = [pc EXCEPT ![c] = "commit"]
  /\ UNCHANGED <<locks, on, draft>>
  /\ UNCHANGED <<tables, answers, world>>

\* The INSERT of the wallet waits for another one of the same owner, and fails
\* on uq_wallet_player_currency when that one committed.
Insert(c) ==
  /\ pc[c] = "insert"
  /\ \A d \in claims : Owner[d] # Owner[c]
  /\ IF \E w \in Wallets : Owner[w] = Owner[c]
     THEN Close(c, "exists")
     ELSE /\ claims' = claims \cup {c}
          /\ pc' = [pc EXCEPT ![c] = "commit"]
          /\ UNCHANGED <<locks, on, draft>>
  /\ UNCHANGED <<tables, answers, world>>

\* The wallet is there, with the entry of persistOpening if it has a balance.
CommitCreation(c) ==
  /\ c \in Creations
  /\ pc[c] = "commit"
  /\ balance' = [balance EXCEPT ![c] = Opening[c]]
  /\ listing' = [listing EXCEPT ![c] = draft[c]]
  /\ Close(c, "created")
  /\ Written(c)
  /\ UNCHANGED <<answers, skew, clock, drift, tampers, crashes>>

-----------------------------------------------------------------------------
(* Settlements, as far as they touch a wallet and its ledger *)

\* Mutant: a lock that does not wait for readers.
Begin_NextToReaders(s, w) ==
  /\ pc[s] = "idle"
  /\ Exists(w)
  /\ locks[w] \subseteq Reconcilers
  /\ Apart => clock > since[w]
  /\ locks' = [locks EXCEPT ![w] = @ \cup {s}]
  /\ on' = [on EXCEPT ![s] = w]
  /\ pc' = [pc EXCEPT ![s] = "apply"]
  /\ UNCHANGED <<claims, draft>>
  /\ UNCHANGED <<tables, answers, world>>

\* SELECT ... FOR UPDATE.
Begin(s, w) ==
  /\ pc[s] = "idle"
  /\ Exists(w)
  /\ locks[w] = {}
  /\ Apart => clock > since[w]
  /\ locks' = [locks EXCEPT ![w] = {s}]
  /\ on' = [on EXCEPT ![s] = w]
  /\ pc' = [pc EXCEPT ![s] = "apply"]
  /\ UNCHANGED <<claims, draft>>
  /\ UNCHANGED <<tables, answers, world>>

BalanceOf(s) == IF draft[s] = <<>> THEN balance[on[s]] ELSE draft[s][Len(draft[s])].after

\* applyChange: an entry, stamped with the clock of this moment.
Apply(s) ==
  /\ pc[s] = "apply"
  /\ Len(draft[s]) < MaxEntries
  /\ \E change \in Changes :
       /\ BalanceOf(s) + change \in 0..MaxBalance
       /\ draft' = [draft EXCEPT ![s] =
            Append(@, [ n |-> Len(listing[on[s]]) + Len(@) + 1, at |-> Stamp(s),
                        change |-> change, after |-> BalanceOf(s) + change ])]
  /\ UNCHANGED <<locks, claims, pc, on>>
  /\ UNCHANGED <<tables, answers, world>>

CommitSettlement(s) ==
  /\ pc[s] = "apply"
  /\ draft[s] # <<>>
  /\ balance' = [balance EXCEPT ![on[s]] = BalanceOf(s)]
  /\ \E entries \in Merges(listing[on[s]], draft[s]) :
       listing' = [listing EXCEPT ![on[s]] = entries]
  /\ Close(s, "settled")
  /\ Written(on[s])
  /\ UNCHANGED <<answers, skew, clock, drift, tampers, crashes>>

\* A transaction is created with the clock of this moment and refused; the caller
\* is told the balance.
Refuse(s) ==
  /\ pc[s] = "apply"
  /\ draft[s] = <<>>
  /\ refusal' = [refusal EXCEPT ![s] =
       [at |-> Stamp(s), told |-> balance[on[s]], count |-> Len(listing[on[s]])]]
  /\ Close(s, "refused")
  /\ Written(on[s])
  /\ UNCHANGED <<tables, report, walk, skew, clock, drift, tampers, crashes>>

-----------------------------------------------------------------------------
(* reconcile *)

\* Mutant: reconcile without its transaction and its lock.
ReadStored_Unlocked(r, w) ==
  /\ pc[r] = "idle"
  /\ Exists(w)
  /\ on' = [on EXCEPT ![r] = w]
  /\ report' = [report EXCEPT ![r].stored = balance[w]]
  /\ pc' = [pc EXCEPT ![r] = "sum"]
  /\ UNCHANGED <<locks, claims, draft>>
  /\ UNCHANGED <<tables, refusal, walk, world>>

\* SELECT ... FOR SHARE of the wallet: waits for a writer, not for another reader.
ReadStored(r, w) ==
  /\ pc[r] = "idle"
  /\ Exists(w)
  /\ locks[w] \subseteq Reconcilers
  /\ locks' = [locks EXCEPT ![w] = @ \cup {r}]
  /\ on' = [on EXCEPT ![r] = w]
  /\ report' = [report EXCEPT ![r].stored = balance[w]]
  /\ pc' = [pc EXCEPT ![r] = "sum"]
  /\ UNCHANGED <<claims, draft>>
  /\ UNCHANGED <<tables, refusal, walk, world>>

\* The sum of the ledger, and the view: Money.from does not take a negative sum,
\* and reconcile throws instead of reporting.
ReadLedger(r) ==
  /\ pc[r] = "sum"
  /\ LET total == Total(listing[on[r]])
     IN  report' = [report EXCEPT ![r] =
           IF total < 0 THEN [NoReport EXCEPT !.outcome = "failed"]
           ELSE [stored |-> 0, difference |-> report[r].stored - total, outcome |-> "reported"]]
  /\ Close(r, "done")
  /\ UNCHANGED <<tables, refusal, walk, world>>

-----------------------------------------------------------------------------
(* ledger *)

\* How many entries are behind the cursor of walker k, in ledger w.
Passed(k, w) ==
  IF walk[k].seen = <<>> THEN 0
  ELSE CHOOSE i \in DOMAIN listing[w] : listing[w][i].n = walk[k].seen[Len(walk[k].seen)]

\* Mutant: the first page is asked for again with an OFFSET, not with the cursor.
Rest_Offset(k, w) == SubSeq(listing[w], Len(walk[k].seen) + 1, Len(listing[w]))

\* The entries after the cursor.
Rest(k, w) == SubSeq(listing[w], Passed(k, w) + 1, Len(listing[w]))

\* One page: limit + 1 entries are read, the last of them only to know of it.
Page(k, w) ==
  LET rest == Rest(k, w)
      more == Len(rest) > Limit
      page == IF more THEN SubSeq(rest, 1, Limit) ELSE rest
      seen == walk[k].seen \o [i \in DOMAIN page |-> page[i].n]
  IN  /\ Exists(w)
      /\ walk[k].of \in {NoWallet, w}
      /\ ~walk[k].done
      /\ walk' = [walk EXCEPT ![k] =
           [ of |-> w,
             seen |-> seen,
             start |-> IF walk[k].seen = <<>> THEN Numbers(listing[w]) ELSE walk[k].start,
             done |-> ~more,
             missed |-> IF more THEN {} ELSE Numbers(listing[w]) \ Range(seen) ]]
      /\ UNCHANGED <<tables, session, refusal, report, world>>

-----------------------------------------------------------------------------
(* The world *)

\* Somebody changes a balance by hand, as the tests of reconciliation do.
Tamper(w) ==
  /\ Exists(w)
  /\ locks[w] = {}
  /\ tampers < MaxTampers
  /\ tampers' = tampers + 1
  /\ balance' = [balance EXCEPT ![w] = @ + 1]
  /\ drift' = [drift EXCEPT ![w] = @ + 1]
  /\ UNCHANGED <<listing, session, answers, skew, clock, since, crashes>>

\* A process dies or loses its connection: PostgreSQL rolls back.
Crash(a) ==
  /\ crashes < MaxCrashes
  /\ pc[a] \in {"insert", "commit", "apply", "sum"}
  /\ crashes' = crashes + 1
  /\ Close(a, "lost")
  /\ report' = [r \in Reconcilers |-> IF r = a THEN NoReport ELSE report[r]]
  /\ UNCHANGED <<tables, refusal, walk, skew, clock, since, drift, tampers>>

Tick ==
  /\ clock < MaxClock
  /\ clock' = clock + 1
  /\ UNCHANGED <<tables, session, answers, skew, since, drift, tampers, crashes>>

Init ==
  /\ balance = [w \in Creations |-> Absent]
  /\ listing = [w \in Creations |-> <<>>]
  /\ locks = [w \in Creations |-> {}]
  /\ claims = {}
  /\ pc = [a \in Actors |-> "idle"]
  /\ on = [a \in Actors |-> NoWallet]
  /\ draft = [a \in Actors |-> <<>>]
  /\ refusal = [s \in Settlements |-> NoRefusal]
  /\ report = [r \in Reconcilers |-> NoReport]
  /\ walk = [k \in Walkers |-> NoWalk]
  /\ skew \in [Writers -> Skews]
  /\ clock = 0
  /\ since = [w \in Creations |-> 0]
  /\ drift = [w \in Creations |-> 0]
  /\ tampers = 0
  /\ crashes = 0

Next ==
  \/ \E c \in Creations : LookUp(c) \/ Insert(c) \/ CommitCreation(c)
  \/ \E s \in Settlements : \/ \E w \in Creations : Begin(s, w)
                            \/ Apply(s) \/ CommitSettlement(s) \/ Refuse(s)
  \/ \E r \in Reconcilers : ReadLedger(r) \/ \E w \in Creations : ReadStored(r, w)
  \/ \E k \in Walkers, w \in Creations : Page(k, w)
  \/ \E w \in Creations : Tamper(w)
  \/ \E a \in Actors : Crash(a)
  \/ Tick

Spec == Init /\ [][Next]_vars

-----------------------------------------------------------------------------
(* Properties *)

EntriesOf == [n : Nat, at : Nat, change : Int, after : Nat]

\* Rows, calls and answers have their shapes; a row is locked by one writer or by
\* any number of readers, and a ledger is ordered by createdAt.
TypeOK ==
  /\ balance \in [Creations -> Nat \cup {Absent}]
  /\ \A w \in Creations : Range(listing[w]) \subseteq EntriesOf
  /\ \A w \in Creations : \A i, j \in DOMAIN listing[w] :
       i < j => listing[w][i].at <= listing[w][j].at
  /\ \A w \in Creations : locks[w] \subseteq Reconcilers \/ \E s \in Settlements : locks[w] = {s}
  /\ claims \subseteq Creations
  /\ \A a \in Actors : pc[a] \in { "idle", "insert", "commit", "created", "exists", "apply",
                                   "settled", "refused", "sum", "done", "lost" }
  /\ \A a \in Actors : on[a] \in Creations \cup {NoWallet}
  /\ \A a \in Actors : Range(draft[a]) \subseteq EntriesOf
  /\ \A r \in Reconcilers : report[r].outcome \in {"none", "reported", "failed"}
  /\ clock \in 0..MaxClock
  /\ tampers \in 0..MaxTampers
  /\ crashes \in 0..MaxCrashes

\* A player has at most one wallet in a currency however many calls race to
\* create it, a call is told that it exists only when it does, and a call that
\* lost, for a wallet or with its process, left no row and no entry.
OneWalletPerOwner ==
  /\ \A v, w \in Wallets : Owner[v] = Owner[w] => v = w
  /\ \A c \in Creations :
       /\ pc[c] = "exists" => \E w \in Wallets : Owner[w] = Owner[c]
       /\ pc[c] # "created" => ~Exists(c) /\ listing[c] = <<>>

\* A reconciliation that reports does so exactly, while settlements go on: the
\* difference between the stored and the calculated balance is what was changed
\* by hand, no more and no less.
ReconciliationIsExact ==
  [][ \A r \in Reconcilers :
        pc[r] = "sum" /\ report'[r].outcome = "reported"
          => report'[r].difference = drift[on[r]] ]_vars

\* The position of entry n in the ledger of wallet w.
Place(w, n) == CHOOSE i \in DOMAIN listing[w] : listing[w][i].n = n

\* Paging shows entries in the order of the ledger, each once, and none is
\* skipped that was there when the first page was read, whatever is inserted
\* between the pages.
WalkShowsWhatWasThere ==
  \A k \in Walkers :
    LET w == walk[k].of
        seen == walk[k].seen
    IN  seen # <<>> =>
          /\ \A i, j \in DOMAIN seen : i < j => Place(w, seen[i]) < Place(w, seen[j])
          /\ \A n \in walk[k].start :
               walk[k].done \/ Place(w, n) <= Place(w, seen[Len(seen)]) => n \in Range(seen)

Refused == { s \in Settlements : pc[s] = "refused" }

\* The stamp of the last entry that was stored before settlement s was refused.
StampBefore(s) ==
  IF refusal[s].count = 0 THEN 0 ELSE listing[on[s]][Place(on[s], refusal[s].count)].at

\* Where the clocks agree, a replay of a refused transaction reports a balance
\* that the wallet had in the millisecond of the refusal, or in that of the last
\* movement before it: never an older one.
ObservedBalanceIsRecent ==
  (\A a, b \in Writers : skew[a] = skew[b]) =>
    \A s \in Refused :
      LET seen == ObservedAt(on[s], refusal[s].at)
      IN  IF seen.n = 0 THEN refusal[s].count = 0
          ELSE seen.at \in {refusal[s].at, StampBefore(s)}

-----------------------------------------------------------------------------
(* Statements of the documents that the code does not keep *)

\* Reading a ledger page by page to its end loses no entry.
NothingLostBetweenPages == \A k \in Walkers : walk[k].missed = {}

\* A replay repeats the result of the original call, balance included: here of a
\* call that was refused.
RefusalReplaysItsBalance ==
  \A s \in Refused : ObservedAt(on[s], refusal[s].at).after = refusal[s].told
=============================================================================
