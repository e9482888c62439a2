------------------------- MODULE WalletServiceProofs -------------------------
(***************************************************************************)
(* Theorems about WalletService, for any number of calls and owners, next  *)
(* to any settlements.  In order: wallets and owners; sums of ledgers and  *)
(* insertions into them; ledgers, locks and drafts, with the exactness of  *)
(* reconciliation; pages; times of entries and refusals.                   *)
(***************************************************************************)
EXTENDS WalletService, WellFoundedInduction, TLAPS

-----------------------------------------------------------------------------
(* The inductive invariant *)

States == { "idle", "insert", "commit", "created", "exists", "apply", "settled", "refused",
            "sum", "done", "lost" }

Shapes ==
  /\ balance \in [Creations -> Nat \cup {Absent}]
  /\ DOMAIN listing = Creations
  /\ claims \subseteq Creations
  /\ pc \in [Actors -> States]
  /\ DOMAIN on = Actors
  /\ DOMAIN draft = Actors

\* A wallet and its entries are there only after the COMMIT of the call that opens it.
RowsAreCommitted ==
  \A c \in Creations : /\ Exists(c) => pc[c] = "created"
                       /\ pc[c] = "created" => Exists(c)
                       /\ ~Exists(c) => listing[c] = <<>>

\* Between its INSERT and its COMMIT a creation has its owner for itself.
ClaimsExclude ==
  /\ \A c \in Creations : c \in claims => pc[c] = "commit"
  /\ \A c \in Creations : pc[c] = "commit" => c \in claims
  /\ \A c, d \in claims : Owner[c] = Owner[d] => c = d
  /\ \A c \in claims : \A w \in Wallets : Owner[w] # Owner[c]

OwnersAreUnique ==
  /\ \A v, w \in Wallets : Owner[v] = Owner[w] => v = w
  /\ \A c \in Creations : pc[c] = "exists" => \E w \in Wallets : Owner[w] = Owner[c]

\* A settlement works on a wallet that exists, and drafts natural balances.
DraftsOnWallets ==
  \A s \in Settlements :
    /\ pc[s] = "apply" => on[s] \in Wallets
    /\ draft[s] \in Seq(Range(draft[s]))
    /\ draft[s] # <<>> => draft[s][Len(draft[s])].after \in Nat

WalletInv == Shapes /\ RowsAreCommitted /\ ClaimsExclude /\ OwnersAreUnique /\ DraftsOnWallets

-----------------------------------------------------------------------------
(* Lemmas *)

\* A sequence is one over its own elements.
LEMMA OverItsRange ==
  ASSUME NEW T, NEW s \in Seq(T)
  PROVE  s \in Seq(Range(s))
<1>1. s \in [1..Len(s) -> T] /\ DOMAIN s = 1..Len(s) /\ Len(s) \in Nat
  OBVIOUS
<1>2. s \in [1..Len(s) -> Range(s)]
  BY <1>1 DEF Range
<1> QED
  BY <1>1, <1>2

LEMMA Appended ==
  ASSUME NEW s, s \in Seq(Range(s)), NEW e
  PROVE  /\ Append(s, e) \in Seq(Range(Append(s, e)))
         /\ Append(s, e)[Len(Append(s, e))] = e
<1>1. /\ s \in Seq(Range(s) \cup {e})
      /\ e \in Range(s) \cup {e}
  <2> DEFINE T == Range(s)
  <2> HIDE DEF T
  <2>1. \A x \in Seq(T) : x \in Seq(T \cup {e})
    OBVIOUS
  <2> QED
    BY <2>1 DEF T
<1> DEFINE U == Range(s) \cup {e}
<1> HIDE DEF U
<1>2. s \in Seq(U) /\ e \in U
  BY <1>1 DEF U
<1>3. /\ Append(s, e) \in Seq(U)
      /\ Append(s, e)[Len(Append(s, e))] = e
  BY <1>2
<1> QED
  BY <1>3, OverItsRange

\* Settlements, creations and reconciliations are different calls.
LEMMA ActorsAreDistinct ==
  /\ Creations \subseteq Actors /\ Settlements \subseteq Actors /\ Reconcilers \subseteq Actors
  /\ \A c \in Creations : c \notin Settlements /\ c \notin Reconcilers
  /\ \A s \in Settlements : s \notin Reconcilers
BY WalletServiceAssumption DEF Actors, Writers

LEMMA InitWalletInv == ASSUME Init PROVE WalletInv
<1>1. Wallets = {}
  BY DEF Init, Wallets, Exists
<1>2. <<>> \in Seq(Range(<<>>))
  OBVIOUS
<1>3. Shapes
  BY DEF Init, Shapes, States
<1>4. RowsAreCommitted /\ ClaimsExclude /\ OwnersAreUnique
  BY <1>1, ActorsAreDistinct DEF Init, RowsAreCommitted, ClaimsExclude, OwnersAreUnique, Exists
<1>5. DraftsOnWallets
  BY <1>2, ActorsAreDistinct DEF Init, DraftsOnWallets
<1> QED
  BY <1>3, <1>4, <1>5 DEF WalletInv

-----------------------------------------------------------------------------
(* Steps that leave balances and ledgers alone *)

\* A call ends without having written anything.
LEMMA CloseKeeps ==
  ASSUME WalletInv, UNCHANGED tables, NEW a \in Actors, NEW next \in States, Close(a, next),
         next \notin {"created", "commit", "apply"},
         pc[a] # "created",
         next = "exists" /\ a \in Creations => \E w \in Wallets : Owner[w] = Owner[a]
  PROVE  WalletInv'
<1>1. /\ UNCHANGED <<balance, listing, Wallets>>
      /\ \A c \in Creations : Exists(c)' <=> Exists(c)
  BY DEF tables, Wallets, Exists
<1>2. Shapes'
  BY <1>1 DEF WalletInv, Shapes, Close
<1>3. RowsAreCommitted'
  BY <1>1, ActorsAreDistinct DEF WalletInv, RowsAreCommitted, Shapes, Close
<1>4. ClaimsExclude'
  BY <1>1, ActorsAreDistinct DEF WalletInv, ClaimsExclude, Shapes, Close
<1>5. OwnersAreUnique'
  BY <1>1, ActorsAreDistinct DEF WalletInv, OwnersAreUnique, Shapes, Close
<1>6. DraftsOnWallets'
  <2>1. <<>> \in Seq(Range(<<>>))
    OBVIOUS
  <2> QED
    BY <1>1, <2>1, ActorsAreDistinct DEF WalletInv, DraftsOnWallets, Shapes, Close
<1> QED
  BY <1>2, <1>3, <1>4, <1>5, <1>6 DEF WalletInv

LEMMA LookUpKeeps ==
  ASSUME WalletInv, NEW c \in Creations, LookUp(c)
  PROVE  WalletInv'
<1>1. UNCHANGED tables /\ pc[c] = "idle" /\ c \in Actors
  BY ActorsAreDistinct DEF LookUp
<1>2. CASE \E w \in Wallets : Owner[w] = Owner[c]
  <2>1. Close(c, "exists") /\ "exists" \in States
    BY <1>2 DEF LookUp, States
  <2> QED
    BY <1>1, <1>2, <2>1, CloseKeeps
<1>3. CASE ~\E w \in Wallets : Owner[w] = Owner[c]
  <2>1. /\ pc' = [pc EXCEPT ![c] = "insert"]
        /\ UNCHANGED <<claims, on, balance, listing, Wallets>>
        /\ \A d \in Creations : Exists(d)' <=> Exists(d)
        /\ DOMAIN draft' = DOMAIN draft
        /\ \A s \in Settlements : draft'[s] = draft[s]
    BY <1>3, ActorsAreDistinct DEF LookUp, tables, Wallets, Exists, WalletInv, Shapes
  <2>2. Shapes'
    BY <2>1 DEF WalletInv, Shapes, States
  <2>3. RowsAreCommitted' /\ ClaimsExclude' /\ OwnersAreUnique'
    BY <1>1, <2>1 DEF WalletInv, Shapes, RowsAreCommitted, ClaimsExclude, OwnersAreUnique
  <2>4. DraftsOnWallets'
    BY <2>1, ActorsAreDistinct DEF WalletInv, Shapes, DraftsOnWallets
  <2> QED
    BY <2>2, <2>3, <2>4 DEF WalletInv
<1> QED
  BY <1>2, <1>3

\* The INSERT claims the owner when no other claim and no wallet has it.
LEMMA InsertKeeps ==
  ASSUME WalletInv, NEW c \in Creations, Insert(c)
  PROVE  WalletInv'
<1>1. UNCHANGED tables /\ pc[c] = "insert" /\ c \in Actors
  BY ActorsAreDistinct DEF Insert
<1>2. CASE \E w \in Wallets : Owner[w] = Owner[c]
  <2>1. Close(c, "exists") /\ "exists" \in States
    BY <1>2 DEF Insert, States
  <2> QED
    BY <1>1, <1>2, <2>1, CloseKeeps
<1>3. CASE ~\E w \in Wallets : Owner[w] = Owner[c]
  <2>1. /\ claims' = claims \cup {c}
        /\ \A d \in claims : Owner[d] # Owner[c]
        /\ pc' = [pc EXCEPT ![c] = "commit"]
        /\ UNCHANGED <<on, draft, balance, listing, Wallets>>
        /\ \A d \in Creations : Exists(d)' <=> Exists(d)
    BY <1>3 DEF Insert, tables, Wallets, Exists
  <2>2. Shapes'
    BY <2>1 DEF WalletInv, Shapes, States
  <2>3. RowsAreCommitted' /\ OwnersAreUnique'
    BY <1>1, <2>1 DEF WalletInv, Shapes, RowsAreCommitted, OwnersAreUnique
  <2>4. ClaimsExclude'
    BY <1>1, <1>3, <2>1 DEF WalletInv, Shapes, ClaimsExclude
  <2>5. DraftsOnWallets'
    BY <2>1, ActorsAreDistinct DEF WalletInv, Shapes, DraftsOnWallets
  <2> QED
    BY <2>2, <2>3, <2>4, <2>5 DEF WalletInv
<1> QED
  BY <1>2, <1>3

\* Settlements and reconciliations begin, and settlements draft entries.
LEMMA OtherCallsKeep ==
  ASSUME WalletInv, UNCHANGED <<tables, claims>>,
         NEW a \in Settlements \cup Reconcilers, NEW next \in States,
         pc' = [pc EXCEPT ![a] = next], next \notin {"commit", "created"},
         DOMAIN on' = Actors, DOMAIN draft' = Actors,
         DraftsOnWallets'
  PROVE  WalletInv'
<1>1. /\ UNCHANGED <<balance, listing, claims, Wallets>>
      /\ \A d \in Creations : Exists(d)' <=> Exists(d)
      /\ a \in Actors /\ a \notin Creations
  BY ActorsAreDistinct DEF tables, Wallets, Exists
<1>2. Shapes'
  BY <1>1 DEF WalletInv, Shapes
<1>3. \A d \in Creations : pc'[d] = pc[d]
  BY <1>1, ActorsAreDistinct DEF WalletInv, Shapes
<1>4. RowsAreCommitted' /\ ClaimsExclude' /\ OwnersAreUnique'
  BY <1>1, <1>3 DEF WalletInv, Shapes, RowsAreCommitted, ClaimsExclude, OwnersAreUnique
<1> QED
  BY <1>2, <1>4 DEF WalletInv

LEMMA BeginKeeps ==
  ASSUME WalletInv, NEW s \in Settlements, NEW w \in Creations, Begin(s, w)
  PROVE  WalletInv'
<1>1. /\ UNCHANGED <<tables, claims, draft, Wallets>>
      /\ w \in Wallets
      /\ on' = [on EXCEPT ![s] = w]
      /\ pc' = [pc EXCEPT ![s] = "apply"]
      /\ "apply" \in States
  BY DEF Begin, tables, Wallets, Exists, States
<1>2. DraftsOnWallets'
  BY <1>1, ActorsAreDistinct DEF WalletInv, Shapes, DraftsOnWallets
<1> QED
  BY <1>1, <1>2, OtherCallsKeep DEF WalletInv, Shapes

LEMMA ReadStoredKeeps ==
  ASSUME WalletInv, NEW r \in Reconcilers, NEW w \in Creations, ReadStored(r, w)
  PROVE  WalletInv'
<1>1. /\ UNCHANGED <<tables, claims, draft, Wallets>>
      /\ on' = [on EXCEPT ![r] = w]
      /\ pc' = [pc EXCEPT ![r] = "sum"]
      /\ "sum" \in States
  BY DEF ReadStored, tables, Wallets, Exists, States
<1>2. DraftsOnWallets'
  BY <1>1, ActorsAreDistinct DEF WalletInv, Shapes, DraftsOnWallets
<1> QED
  BY <1>1, <1>2, OtherCallsKeep DEF WalletInv, Shapes

LEMMA ApplyKeeps ==
  ASSUME WalletInv, NEW s \in Settlements, Apply(s)
  PROVE  WalletInv'
<1>1. PICK change \in Changes :
        /\ BalanceOf(s) + change \in 0..MaxBalance
        /\ draft' = [draft EXCEPT ![s] =
             Append(@, [ n |-> Len(listing[on[s]]) + Len(@) + 1, at |-> Stamp(s),
                         change |-> change, after |-> BalanceOf(s) + change ])]
  BY DEF Apply
<1> DEFINE e == [ n |-> Len(listing[on[s]]) + Len(draft[s]) + 1, at |-> Stamp(s),
                  change |-> change, after |-> BalanceOf(s) + change ]
<1>2. /\ UNCHANGED <<tables, claims, pc, on, Wallets>>
      /\ pc[s] = "apply"
  BY DEF Apply, tables, Wallets, Exists
<1>3. e.after \in Nat
  BY <1>1, WalletServiceAssumption
<1>4. draft' = [draft EXCEPT ![s] = Append(draft[s], e)]
  BY <1>1, ActorsAreDistinct DEF WalletInv, Shapes
<1> HIDE DEF e
<1>5. /\ draft'[s] = Append(draft[s], e)
      /\ \A t \in Settlements \ {s} : draft'[t] = draft[t]
      /\ DOMAIN draft' = Actors
  BY <1>4, ActorsAreDistinct DEF WalletInv, Shapes
<1>6. /\ draft'[s] \in Seq(Range(draft'[s]))
      /\ draft'[s][Len(draft'[s])] = e
  BY <1>5, Appended DEF WalletInv, DraftsOnWallets
<1>7. DraftsOnWallets'
  <2> SUFFICES ASSUME NEW t \in Settlements
               PROVE  /\ pc[t] = "apply" => on[t] \in Wallets
                      /\ draft'[t] \in Seq(Range(draft'[t]))
                      /\ draft'[t] # <<>> => draft'[t][Len(draft'[t])].after \in Nat
    BY <1>2 DEF DraftsOnWallets
  <2>1. CASE t = s
    BY <2>1, <1>3, <1>6 DEF WalletInv, DraftsOnWallets
  <2>2. CASE t # s
    BY <2>2, <1>5 DEF WalletInv, DraftsOnWallets
  <2> QED
    BY <2>1, <2>2
<1>8. pc' = [pc EXCEPT ![s] = "apply"] /\ "apply" \in States
  BY <1>2, ActorsAreDistinct DEF WalletInv, Shapes, States
<1> QED
  BY <1>2, <1>5, <1>7, <1>8, OtherCallsKeep DEF WalletInv, Shapes

-----------------------------------------------------------------------------
(* Steps that write balances and ledgers *)

\* The claim becomes the wallet.
LEMMA CommitCreationKeeps ==
  ASSUME WalletInv, NEW c \in Creations, CommitCreation(c)
  PROVE  WalletInv'
<1>1. /\ pc[c] = "commit" /\ c \in Actors
      /\ balance' = [balance EXCEPT ![c] = Opening[c]]
      /\ listing' = [listing EXCEPT ![c] = draft[c]]
      /\ pc' = [pc EXCEPT ![c] = "created"]
      /\ claims' = claims \ {c}
      /\ draft' = [draft EXCEPT ![c] = <<>>]
      /\ on' = [on EXCEPT ![c] = NoWallet]
  BY ActorsAreDistinct DEF CommitCreation, Close
<1>2. Opening[c] \in Nat /\ Opening[c] # Absent
  BY WalletServiceAssumption DEF Absent
<1>3. /\ Exists(c)'
      /\ \A d \in Creations \ {c} : Exists(d)' <=> Exists(d)
      /\ Wallets' = Wallets \cup {c}
  BY <1>1, <1>2 DEF WalletInv, Shapes, Exists, Wallets
<1>4. Shapes'
  BY <1>1, <1>2 DEF WalletInv, Shapes, States
<1>5. RowsAreCommitted'
  BY <1>1, <1>3 DEF WalletInv, Shapes, RowsAreCommitted
<1>6. c \in claims
  BY <1>1 DEF WalletInv, ClaimsExclude
<1>7. ClaimsExclude'
  BY <1>1, <1>3, <1>6 DEF WalletInv, Shapes, ClaimsExclude
<1>8. OwnersAreUnique'
  BY <1>1, <1>3, <1>6 DEF WalletInv, Shapes, ClaimsExclude, OwnersAreUnique
<1>9. DraftsOnWallets'
  BY <1>1, <1>3, ActorsAreDistinct DEF WalletInv, Shapes, DraftsOnWallets
<1> QED
  BY <1>4, <1>5, <1>7, <1>8, <1>9 DEF WalletInv

\* A balance and a ledger change only where there is a wallet already.
LEMMA WritesToWalletsKeep ==
  ASSUME WalletInv, NEW w \in Wallets, NEW b \in Nat,
         balance' = [balance EXCEPT ![w] = b],
         DOMAIN listing' = Creations,
         \A v \in Creations \ {w} : listing'[v] = listing[v]
  PROVE  /\ Wallets' = Wallets
         /\ \A c \in Creations : Exists(c)' <=> Exists(c)
         /\ \A c \in Creations : ~Exists(c) => listing'[c] = <<>>
         /\ balance' \in [Creations -> Nat \cup {Absent}]
<1>1. w \in Creations /\ Exists(w) /\ b # Absent
  BY DEF Wallets, Absent
<1> QED
  BY <1>1 DEF WalletInv, Shapes, RowsAreCommitted, Exists, Wallets

LEMMA CommitSettlementKeeps ==
  ASSUME WalletInv, NEW s \in Settlements, CommitSettlement(s)
  PROVE  WalletInv'
<1>1. PICK entries \in Merges(listing[on[s]], draft[s]) :
        listing' = [listing EXCEPT ![on[s]] = entries]
  BY DEF CommitSettlement
<1>2. /\ pc[s] = "apply" /\ s \in Actors /\ s \notin Creations
      /\ balance' = [balance EXCEPT ![on[s]] = BalanceOf(s)]
      /\ pc' = [pc EXCEPT ![s] = "settled"]
      /\ claims' = claims \ {s}
      /\ draft' = [draft EXCEPT ![s] = <<>>]
      /\ on' = [on EXCEPT ![s] = NoWallet]
  BY ActorsAreDistinct DEF CommitSettlement, Close
<1>3. on[s] \in Wallets /\ BalanceOf(s) \in Nat
  BY <1>2 DEF CommitSettlement, BalanceOf, WalletInv, DraftsOnWallets
<1>4. /\ Wallets' = Wallets
      /\ \A c \in Creations : Exists(c)' <=> Exists(c)
      /\ \A c \in Creations : ~Exists(c) => listing'[c] = <<>>
      /\ balance' \in [Creations -> Nat \cup {Absent}]
  <2>1. DOMAIN listing' = Creations /\ \A v \in Creations \ {on[s]} : listing'[v] = listing[v]
    BY <1>1 DEF WalletInv, Shapes
  <2> QED
    BY <1>2, <1>3, <2>1, WritesToWalletsKeep
<1>5. \A c \in Creations : pc'[c] = pc[c]
  BY <1>2 DEF WalletInv, Shapes
<1>6. claims' = claims
  BY <1>2 DEF WalletInv, Shapes
<1>7. Shapes'
  BY <1>1, <1>2, <1>4 DEF WalletInv, Shapes, States
<1>8. RowsAreCommitted' /\ ClaimsExclude' /\ OwnersAreUnique'
  BY <1>4, <1>5, <1>6 DEF WalletInv, RowsAreCommitted, ClaimsExclude, OwnersAreUnique
<1>9. DraftsOnWallets'
  <2>1. <<>> \in Seq(Range(<<>>))
    OBVIOUS
  <2> QED
    BY <1>2, <1>4, <2>1, ActorsAreDistinct DEF WalletInv, Shapes, DraftsOnWallets
<1> QED
  BY <1>7, <1>8, <1>9 DEF WalletInv

LEMMA TamperKeeps ==
  ASSUME WalletInv, NEW w \in Creations, Tamper(w)
  PROVE  WalletInv'
<1>1. /\ Exists(w) /\ w \in Wallets
      /\ balance' = [balance EXCEPT ![w] = balance[w] + 1]
      /\ UNCHANGED <<listing, claims, pc, on, draft>>
  BY DEF Tamper, session, Wallets
<1>2. balance[w] + 1 \in Nat
  BY <1>1 DEF WalletInv, Shapes, Exists
<1>3. /\ Wallets' = Wallets
      /\ \A c \in Creations : Exists(c)' <=> Exists(c)
      /\ balance' \in [Creations -> Nat \cup {Absent}]
  BY <1>1, <1>2, WritesToWalletsKeep DEF WalletInv, Shapes
<1> QED
  BY <1>1, <1>3 DEF WalletInv, Shapes, RowsAreCommitted, ClaimsExclude, OwnersAreUnique,
                    DraftsOnWallets

\* A page, the clock, and stuttering change nothing the invariant is about.
LEMMA BystandersKeep ==
  ASSUME WalletInv, UNCHANGED <<tables, session>>
  PROVE  WalletInv'
<1>1. /\ UNCHANGED <<balance, listing, claims, pc, on, draft, Wallets>>
      /\ \A c \in Creations : Exists(c)' <=> Exists(c)
  BY DEF tables, session, Wallets, Exists
<1> QED
  BY <1>1 DEF WalletInv, Shapes, RowsAreCommitted, ClaimsExclude, OwnersAreUnique,
              DraftsOnWallets

-----------------------------------------------------------------------------
(* Theorems *)

LEMMA NextKeepsWallets == ASSUME WalletInv, Next PROVE WalletInv'
<1>1. ASSUME NEW c \in Creations, LookUp(c) \/ Insert(c) \/ CommitCreation(c) PROVE WalletInv'
  BY <1>1, LookUpKeeps, InsertKeeps, CommitCreationKeeps
<1>2. ASSUME NEW s \in Settlements, NEW w \in Creations, Begin(s, w) PROVE WalletInv'
  BY <1>2, BeginKeeps
<1>3. ASSUME NEW s \in Settlements, Apply(s) \/ CommitSettlement(s) PROVE WalletInv'
  BY <1>3, ApplyKeeps, CommitSettlementKeeps
<1>4. ASSUME NEW s \in Settlements, Refuse(s) PROVE WalletInv'
  <2>1. UNCHANGED tables /\ Close(s, "refused") /\ pc[s] = "apply"
    BY <1>4 DEF Refuse
  <2>2. "refused" \in States /\ s \in Actors
    BY ActorsAreDistinct DEF States
  <2> QED
    BY <2>1, <2>2, CloseKeeps
<1>5. ASSUME NEW r \in Reconcilers, NEW w \in Creations, ReadStored(r, w) PROVE WalletInv'
  BY <1>5, ReadStoredKeeps
<1>6. ASSUME NEW r \in Reconcilers, ReadLedger(r) PROVE WalletInv'
  <2>1. UNCHANGED tables /\ Close(r, "done") /\ pc[r] = "sum"
    BY <1>6 DEF ReadLedger
  <2>2. "done" \in States /\ r \in Actors
    BY ActorsAreDistinct DEF States
  <2> QED
    BY <2>1, <2>2, CloseKeeps
<1>7. ASSUME NEW k \in Walkers, NEW w \in Creations, Page(k, w) PROVE WalletInv'
  <2>1. UNCHANGED <<tables, session>>
    BY <1>7 DEF Page
  <2> QED
    BY <2>1, BystandersKeep
<1>8. ASSUME NEW w \in Creations, Tamper(w) PROVE WalletInv'
  BY <1>8, TamperKeeps
<1>9. ASSUME NEW a \in Actors, Crash(a) PROVE WalletInv'
  <2>1. UNCHANGED tables /\ Close(a, "lost") /\ pc[a] # "created" /\ "lost" \in States
    BY <1>9 DEF Crash, States, tables
  <2> QED
    BY <2>1, CloseKeeps
<1>10. CASE Tick
  <2>1. UNCHANGED <<tables, session>>
    BY <1>10 DEF Tick
  <2> QED
    BY <2>1, BystandersKeep
<1> QED
  BY <1>1, <1>2, <1>3, <1>4, <1>5, <1>6, <1>7, <1>8, <1>9, <1>10 DEF Next

\* Every reachable state of the wallet service satisfies the inductive invariant.
THEOREM WalletInvariant == Spec => []WalletInv
<1>1. Init => WalletInv
  BY InitWalletInv
<1>2. WalletInv /\ [Next]_vars => WalletInv'
  <2>1. ASSUME WalletInv, UNCHANGED vars PROVE WalletInv'
    <3>1. UNCHANGED <<tables, session>>
      BY <2>1 DEF vars
    <3> QED
      BY <2>1, <3>1, BystandersKeep
  <2> QED
    BY <2>1, NextKeepsWallets
<1> QED
  BY <1>1, <1>2, PTL DEF Spec

\* A player has at most one wallet in a currency, and the calls that did not open it
\* left nothing, however many create it at once and wherever they stop.
THEOREM OneWalletPerOwnerAlways == Spec => []OneWalletPerOwner
<1>1. WalletInv => OneWalletPerOwner
  BY DEF WalletInv, OneWalletPerOwner, OwnersAreUnique, RowsAreCommitted
<1> QED
  BY <1>1, WalletInvariant, PTL

-----------------------------------------------------------------------------
(* Least members and induction *)

\* A nonempty set of naturals has a least member.
LEMMA LeastMember ==
  ASSUME NEW T, T \subseteq Nat, T # {}
  PROVE  \E n \in T : \A m \in T : n <= m
<1> DEFINE R == OpToRel(<, Nat)
<1>1. IsWellFoundedOn(R, Nat)
  BY NatLessThanWellFounded
<1>2. \A m, n \in Nat : m < n => <<m, n>> \in R
  BY DEF OpToRel
<1> HIDE DEF R
<1>3. PICK n \in T : \A m \in T : <<m, n>> \notin R
  BY <1>1, WFMin
<1>4. \A m \in T : ~(m < n)
  BY <1>2, <1>3
<1> QED
  BY <1>4

\* Induction up to k, for the members of a set.
LEMMA SetInduction ==
  ASSUME NEW k \in Nat, NEW S, 0 \in S, \A n \in 0..(k - 1) : n \in S => n + 1 \in S
  PROVE  0..k \subseteq S
<1> SUFFICES ASSUME ~(0..k \subseteq S) PROVE FALSE
  OBVIOUS
<1> DEFINE T == { n \in 0..k : n \notin S }
<1>1. T \subseteq Nat /\ T # {}
  OBVIOUS
<1>2. PICK n \in T : \A m \in T : n <= m
  <2> HIDE DEF T
  <2> QED BY <1>1, LeastMember
<1>3. n # 0 /\ n - 1 \in 0..(k - 1) /\ n - 1 \notin T
  BY <1>1, <1>2
<1>4. n - 1 \in S /\ (n - 1) + 1 = n
  BY <1>3
<1> QED
  BY <1>2, <1>3, <1>4

-----------------------------------------------------------------------------
(* The sum of a ledger *)

\* f gives the sums of the first entries of a ledger.
Sums(entries, f) ==
  f = [i \in 0..Len(entries) |-> IF i = 0 THEN 0 ELSE f[i - 1] + entries[i].change]

LEMMA SumsExist ==
  ASSUME NEW entries \in Seq(EntriesOf)
  PROVE  \E f : Sums(entries, f)
<1> DEFINE upTo(j, f) ==
             f = [i \in 0..j |-> IF i = 0 THEN 0 ELSE f[i - 1] + entries[i].change]
           S == { j \in Nat : \E f : upTo(j, f) }
<1>1. Len(entries) \in Nat
  OBVIOUS
<1>2. 0 \in S
  <2> DEFINE f == [i \in 0..0 |-> 0]
  <2>1. upTo(0, f)
    OBVIOUS
  <2> QED BY <2>1
<1>3. ASSUME NEW n \in 0..(Len(entries) - 1), n \in S PROVE n + 1 \in S
  <2>1. PICK f : upTo(n, f)
    BY <1>3
  <2> DEFINE g == [i \in 0..(n + 1) |-> IF i <= n THEN f[i] ELSE f[n] + entries[n + 1].change]
  <2>2. ASSUME NEW i \in 0..(n + 1)
        PROVE  g[i] = IF i = 0 THEN 0 ELSE g[i - 1] + entries[i].change
    <3>1. CASE i <= n
      <4>1. f[i] = IF i = 0 THEN 0 ELSE f[i - 1] + entries[i].change
        BY <2>1, <3>1
      <4>2. g[i] = f[i] /\ (i # 0 => g[i - 1] = f[i - 1])
        BY <3>1
      <4> QED BY <4>1, <4>2
    <3>2. CASE i = n + 1
      BY <3>2
    <3> QED BY <3>1, <3>2
  <2>3. upTo(n + 1, g)
    BY <2>2
  <2> HIDE DEF g
  <2> QED BY <2>3
<1> HIDE DEF S
<1>4. 0..Len(entries) \subseteq S
  BY <1>1, <1>2, <1>3, SetInduction
<1>5. Len(entries) \in S
  BY <1>1, <1>4
<1> QED
  BY <1>5 DEF S, Sums

LEMMA SumsAreUnique ==
  ASSUME NEW entries \in Seq(EntriesOf), NEW f, Sums(entries, f)
  PROVE  Total(entries) = f[Len(entries)] /\ \A i \in 0..Len(entries) : f[i] \in Int
<1>1. \A i \in DOMAIN entries : entries[i].change \in Int
  <2>1. \A i \in DOMAIN entries : entries[i] \in EntriesOf
    OBVIOUS
  <2> QED BY <2>1 DEF EntriesOf
<1>2. Len(entries) \in Nat /\ DOMAIN entries = 1..Len(entries)
  OBVIOUS
<1> DEFINE g == CHOOSE g : Sums(entries, g)
<1>3. Sums(entries, g)
  OBVIOUS
<1>4. Total(entries) = g[Len(entries)]
  BY DEF Total, Sums
<1> HIDE DEF g
<1> DEFINE S == { i \in 0..Len(entries) : f[i] = g[i] /\ f[i] \in Int }
<1>5. 0 \in S
  BY <1>2, <1>3 DEF Sums
<1>6. ASSUME NEW n \in 0..(Len(entries) - 1), n \in S PROVE n + 1 \in S
  <2>1. n + 1 \in 0..Len(entries) /\ n + 1 # 0 /\ (n + 1) - 1 = n /\ n + 1 \in DOMAIN entries
    BY <1>2
  <2>2. f[n + 1] = f[n] + entries[n + 1].change /\ g[n + 1] = g[n] + entries[n + 1].change
    BY <1>3, <2>1 DEF Sums
  <2> QED BY <1>1, <1>6, <2>1, <2>2
<1> HIDE DEF S
<1>7. 0..Len(entries) \subseteq S
  BY <1>2, <1>5, <1>6, SetInduction
<1> QED
  BY <1>2, <1>4, <1>7 DEF S

-----------------------------------------------------------------------------
(* Merging entries *)

\* x is s followed by t.
HasBoth(x, S, s, t) ==
  /\ x \in Seq(S) /\ Len(x) = Len(s) + Len(t)
  /\ \A i \in 1..Len(s) : x[i] = s[i]
  /\ \A i \in 1..Len(t) : x[Len(s) + i] = t[i]

LEMMA Concat ==
  ASSUME NEW S, NEW s \in Seq(S), NEW t \in Seq(S)
  PROVE  HasBoth(s \o t, S, s, t)
BY DEF HasBoth

Inserted(entries, k, e) == SubSeq(entries, 1, k) \o <<e>> \o SubSeq(entries, k + 1, Len(entries))

\* x is a sequence of members of S: that of entries with e after the first k.
HasInserted(x, S, entries, k, e) ==
  /\ x \in Seq(S) /\ Len(x) = Len(entries) + 1
  /\ \A i \in 1..k : x[i] = entries[i]
  /\ x[k + 1] = e
  /\ \A i \in (k + 2)..(Len(entries) + 1) : x[i] = entries[i - 1]

LEMMA InsertedShape ==
  ASSUME NEW S, NEW entries \in Seq(S), NEW e \in S, NEW k \in 0..Len(entries)
  PROVE  HasInserted(Inserted(entries, k, e), S, entries, k, e)
<1> DEFINE n == Len(entries)
           s == SubSeq(entries, 1, k)
           t == SubSeq(entries, k + 1, n)
<1>1. n \in Nat /\ k \in Nat /\ k <= n
  OBVIOUS
<1>2. /\ s \in Seq(S) /\ Len(s) = k /\ \A i \in 1..k : s[i] = entries[i]
  BY <1>1
<1>3. /\ t \in Seq(S) /\ Len(t) = n - k /\ \A i \in 1..(n - k) : t[i] = entries[i + k]
  BY <1>1
<1> DEFINE u == <<e>>
<1>4. u \in Seq(S) /\ Len(u) = 1 /\ u[1] = e
  OBVIOUS
<1>5. Inserted(entries, k, e) = (s \o u) \o t
  BY DEF Inserted
<1> HIDE DEF n, s, t, u
<1> DEFINE v == s \o u
<1>6. /\ v \in Seq(S) /\ Len(v) = k + 1
      /\ \A i \in 1..k : v[i] = s[i]
      /\ \A i \in 1..1 : v[k + i] = u[i]
  <2>1. HasBoth(v, S, s, u)
    BY <1>2, <1>4, Concat
  <2> HIDE DEF v
  <2> QED BY <1>1, <1>2, <1>4, <2>1 DEF HasBoth
<1> HIDE DEF v
<1>7. v[k + 1] = e /\ \A i \in 1..k : v[i] = entries[i]
  BY <1>2, <1>4, <1>6
<1> DEFINE x == v \o t
<1>8. /\ x \in Seq(S) /\ Len(x) = (k + 1) + (n - k)
      /\ \A i \in 1..(k + 1) : x[i] = v[i]
      /\ \A i \in 1..(n - k) : x[(k + 1) + i] = t[i]
  <2>1. HasBoth(x, S, v, t)
    BY <1>3, <1>6, Concat
  <2> HIDE DEF x
  <2> QED BY <1>1, <1>3, <1>6, <2>1 DEF HasBoth
<1> HIDE DEF x
<1>9. ASSUME NEW i \in (k + 2)..(n + 1) PROVE x[i] = entries[i - 1]
  <2> DEFINE j == i - (k + 1)
  <2>1. j \in 1..(n - k) /\ j + k = i - 1 /\ (k + 1) + j = i
    BY <1>1
  <2> HIDE DEF j
  <2>2. x[(k + 1) + j] = t[j] /\ t[j] = entries[j + k]
    BY <1>3, <1>8, <2>1
  <2> QED BY <2>1, <2>2
<1>10. /\ Len(x) = n + 1 /\ x[k + 1] = e
       /\ \A i \in 1..k : x[i] = entries[i]
  BY <1>1, <1>7, <1>8
<1>11. Inserted(entries, k, e) = x
  BY <1>5 DEF v, x
<1>12. /\ x \in Seq(S) /\ Len(x) = Len(entries) + 1 /\ x[k + 1] = e
       /\ \A i \in 1..k : x[i] = entries[i]
       /\ \A i \in (k + 2)..(Len(entries) + 1) : x[i] = entries[i - 1]
  BY <1>8, <1>9, <1>10 DEF n
<1> HIDE DEF x, n
<1> QED
  BY <1>11, <1>12 DEF HasInserted

\* An entry among others adds its change to their sum.
LEMMA TotalOfInserted ==
  ASSUME NEW entries \in Seq(EntriesOf), NEW e \in EntriesOf, NEW k \in 0..Len(entries)
  PROVE  Total(Inserted(entries, k, e)) = Total(entries) + e.change /\ Total(entries) \in Int
<1> DEFINE s == Inserted(entries, k, e)
           n == Len(entries)
<1>1. PICK f : Sums(entries, f)
  BY SumsExist
<1>2. Total(entries) = f[n] /\ \A i \in 0..n : f[i] \in Int
  BY <1>1, SumsAreUnique
<1>3. n \in Nat /\ k \in Nat /\ k <= n /\ e.change \in Int
  BY DEF EntriesOf
<1>4. /\ s \in Seq(EntriesOf) /\ Len(s) = n + 1
      /\ \A i \in 1..k : s[i] = entries[i]
      /\ s[k + 1] = e
      /\ \A i \in (k + 2)..(n + 1) : s[i] = entries[i - 1]
  <2> HIDE DEF s
  <2>1. HasInserted(s, EntriesOf, entries, k, e)
    BY InsertedShape DEF s
  <2> QED BY <2>1 DEF HasInserted
<1>5. \A i \in 1..n : entries[i].change \in Int /\ f[i] = f[i - 1] + entries[i].change
  <2>1. \A i \in 1..n : entries[i] \in EntriesOf
    OBVIOUS
  <2>2. \A i \in 1..n : f[i] = f[i - 1] + entries[i].change
    BY <1>1, <1>3 DEF Sums
  <2> QED BY <2>1, <2>2 DEF EntriesOf
<1> HIDE DEF s, n
<1> DEFINE g == [i \in 0..(n + 1) |-> IF i <= k THEN f[i] ELSE f[i - 1] + e.change]
<1>6. ASSUME NEW i \in 0..(n + 1)
      PROVE  g[i] = IF i = 0 THEN 0 ELSE g[i - 1] + s[i].change
  <2>1. CASE i = 0
    BY <1>1, <1>3, <2>1 DEF Sums, n
  <2>2. CASE i \in 1..k
    <3>1. i \in 1..n /\ i # 0 /\ i <= k /\ i - 1 <= k
      BY <1>3, <2>2
    <3>2. g[i] = f[i] /\ g[i - 1] = f[i - 1] /\ s[i] = entries[i]
      BY <1>3, <1>4, <2>2, <3>1
    <3> HIDE DEF g
    <3> QED BY <1>5, <3>1, <3>2
  <2>3. CASE i = k + 1
    BY <1>3, <1>4, <2>3
  <2>4. CASE i \in (k + 2)..(n + 1)
    <3>1. i - 1 \in 1..n /\ i - 1 \in (k + 1)..n /\ ~(i <= k) /\ ~(i - 1 <= k)
      BY <1>3, <2>4
    <3>2. f[i - 1] = f[(i - 1) - 1] + entries[i - 1].change /\ f[(i - 1) - 1] \in Int
      <4>1. PICK j \in 1..n : j = i - 1
        BY <3>1
      <4>2. f[j] = f[j - 1] + entries[j].change
        BY <1>5
      <4>3. j - 1 \in 0..n
        BY <1>3
      <4> HIDE DEF g
      <4>4. f[j - 1] \in Int
        BY <1>2, <4>3
      <4> QED BY <4>1, <4>2, <4>4
    <3>3. g[i] = f[i - 1] + e.change /\ g[i - 1] = f[(i - 1) - 1] + e.change
      BY <1>3, <3>1
    <3>4. s[i].change = entries[i - 1].change /\ entries[i - 1].change \in Int
      BY <1>4, <1>5, <2>4, <3>1
    <3> HIDE DEF g
    <3> QED BY <1>3, <2>4, <3>2, <3>3, <3>4
  <2> QED BY <1>3, <2>1, <2>2, <2>3, <2>4
<1>7. Sums(s, g)
  BY <1>4, <1>6 DEF Sums
<1>8. g[n + 1] = f[n] + e.change
  BY <1>3
<1> HIDE DEF g
<1>9. Total(s) = g[n + 1]
  BY <1>4, <1>7, SumsAreUnique
<1> QED
  BY <1>2, <1>3, <1>8, <1>9 DEF s, n

LEMMA TotalOfNone == Total(<<>>) = 0
<1>1. <<>> \in Seq(EntriesOf) /\ Len(<<>>) = 0
  OBVIOUS
<1>2. PICK f : Sums(<<>>, f)
  BY <1>1, SumsExist
<1>3. f[0] = 0
  BY <1>1, <1>2 DEF Sums
<1> QED
  BY <1>1, <1>2, <1>3, SumsAreUnique

Ordered(entries) == \A i, j \in DOMAIN entries : i < j => entries[i].at <= entries[j].at

\* The entries of a ledger are numbered as they were committed.
Numbered(entries) ==
  /\ \A i \in DOMAIN entries : entries[i].n \in 1..Len(entries)
  /\ \A n \in 1..Len(entries) : \E i \in DOMAIN entries : entries[i].n = n
  /\ \A i, j \in DOMAIN entries : entries[i].n = entries[j].n => i = j

\* The entries of a ledger appear in a later one in the same order.
Keeps(old, now) ==
  /\ \A i \in DOMAIN old : \E p \in DOMAIN now : now[p] = old[i]
  /\ \A i, j \in DOMAIN old :
       i < j => \E p, q \in DOMAIN now : p < q /\ now[p] = old[i] /\ now[q] = old[j]

LEMMA KeepsTransitive ==
  ASSUME NEW r, NEW s, NEW t, Keeps(r, s), Keeps(s, t)
  PROVE  Keeps(r, t)
BY DEF Keeps

\* now is old with one more entry e.
Grows(old, now, e) ==
  /\ now \in Seq(EntriesOf) /\ Len(now) = Len(old) + 1
  /\ Ordered(old) => Ordered(now)
  /\ Keeps(old, now)
  /\ \A p \in DOMAIN now : now[p] = e \/ \E i \in DOMAIN old : now[p] = old[i]
  /\ Numbered(old) /\ e.n = Len(old) + 1 => Numbered(now)
  /\ Total(now) = Total(old) + e.change /\ Total(old) \in Int

LEMMA InsertionsGrow ==
  ASSUME NEW old \in Seq(EntriesOf), NEW e \in EntriesOf, NEW now \in Insertions(old, e)
  PROVE  Grows(old, now, e)
<1>1. PICK k \in 0..Len(old) :
        /\ now = Inserted(old, k, e)
        /\ \A j \in 1..k : old[j].at <= e.at
        /\ \A j \in (k + 1)..Len(old) : old[j].at >= e.at
  BY DEF Insertions, Inserted
<1> DEFINE n == Len(old)
<1>2. n \in Nat /\ k \in Nat /\ k <= n /\ DOMAIN old = 1..n
  OBVIOUS
<1>3. HasInserted(now, EntriesOf, old, k, e)
  BY <1>1, InsertedShape
<1>4. Total(now) = Total(old) + e.change /\ Total(old) \in Int
  BY <1>1, TotalOfInserted
<1>5. /\ now \in Seq(EntriesOf) /\ Len(now) = n + 1 /\ DOMAIN now = 1..(n + 1)
      /\ \A i \in 1..k : now[i] = old[i]
      /\ now[k + 1] = e
      /\ \A i \in (k + 1)..n : now[i + 1] = old[i]
  <2>1. \A i \in (k + 1)..n : i + 1 \in (k + 2)..(n + 1) /\ (i + 1) - 1 = i
    BY <1>2
  <2>2. now \in Seq(EntriesOf) /\ Len(now) = n + 1
    BY <1>3 DEF HasInserted
  <2>3. DOMAIN now = 1..(n + 1)
    BY <2>2
  <2>4. /\ \A i \in 1..k : now[i] = old[i]
        /\ now[k + 1] = e
        /\ \A i \in (k + 2)..(n + 1) : now[i] = old[i - 1]
    BY <1>3 DEF HasInserted
  <2> HIDE DEF n
  <2>5. ASSUME NEW i \in (k + 1)..n PROVE now[i + 1] = old[i]
    BY <2>1, <2>4
  <2> QED BY <2>2, <2>3, <2>4, <2>5
<1> HIDE DEF n
<1>6. /\ \A i \in 1..n : \E p \in 1..(n + 1) :
              now[p] = old[i] /\ p # k + 1 /\ p = IF i <= k THEN i ELSE i + 1
      /\ \A p \in 1..(n + 1) : p # k + 1 =>
              \E i \in 1..n : now[p] = old[i] /\ p = IF i <= k THEN i ELSE i + 1
  <2>1. ASSUME NEW i \in 1..n
        PROVE  \E p \in 1..(n + 1) :
                 now[p] = old[i] /\ p # k + 1 /\ p = IF i <= k THEN i ELSE i + 1
    <3>1. CASE i <= k
      <4>1. i \in 1..(n + 1) /\ now[i] = old[i] /\ i # k + 1
        BY <1>2, <1>5, <3>1
      <4> QED BY <3>1, <4>1
    <3>2. CASE ~(i <= k)
      <4>1. i + 1 \in 1..(n + 1) /\ now[i + 1] = old[i] /\ i + 1 # k + 1
        BY <1>2, <1>5, <3>2
      <4> QED BY <3>2, <4>1
    <3> QED BY <3>1, <3>2
  <2>2. ASSUME NEW p \in 1..(n + 1), p # k + 1
        PROVE  \E i \in 1..n : now[p] = old[i] /\ p = IF i <= k THEN i ELSE i + 1
    <3>1. CASE p <= k
      <4>1. p \in 1..n /\ now[p] = old[p]
        BY <1>2, <1>5, <3>1
      <4> QED BY <3>1, <4>1
    <3>2. CASE ~(p <= k)
      <4>1. p - 1 \in (k + 1)..n /\ (p - 1) + 1 = p
        BY <1>2, <2>2, <3>2
      <4>2. now[(p - 1) + 1] = old[p - 1] /\ p - 1 \in 1..n /\ ~(p - 1 <= k)
        BY <1>2, <1>5, <4>1
      <4> DEFINE i == p - 1
      <4>3. i \in 1..n /\ now[p] = old[i] /\ ~(i <= k) /\ p = i + 1
        BY <4>1, <4>2
      <4> HIDE DEF i
      <4> QED BY <4>3
    <3> QED BY <3>1, <3>2
  <2> QED BY <2>1, <2>2
<1>9. \A p \in DOMAIN now : now[p] = e \/ \E i \in DOMAIN old : now[p] = old[i]
  BY <1>2, <1>5, <1>6
<1>10. Keeps(old, now)
  <2>1. ASSUME NEW i \in DOMAIN old, NEW j \in DOMAIN old, i < j
        PROVE  \E p, q \in DOMAIN now : p < q /\ now[p] = old[i] /\ now[q] = old[j]
    <3>0. i \in 1..n /\ j \in 1..n
      BY <1>2
    <3>1. PICK p \in 1..(n + 1) : now[p] = old[i] /\ p = IF i <= k THEN i ELSE i + 1
      BY <1>6, <3>0
    <3>2. PICK q \in 1..(n + 1) : now[q] = old[j] /\ q = IF j <= k THEN j ELSE j + 1
      BY <1>6, <3>0
    <3>3. p < q
      BY <1>2, <2>1, <3>0, <3>1, <3>2
    <3> QED BY <1>5, <3>1, <3>2, <3>3
  <2>2. \A i \in DOMAIN old : \E p \in DOMAIN now : now[p] = old[i]
    BY <1>2, <1>5, <1>6
  <2> QED BY <2>1, <2>2 DEF Keeps
<1>11. ASSUME Ordered(old) PROVE Ordered(now)
  <2> SUFFICES ASSUME NEW p \in 1..(n + 1), NEW q \in 1..(n + 1), p < q
               PROVE  now[p].at <= now[q].at
    BY <1>5 DEF Ordered
  <2>1. \A i, j \in 1..n : i < j => old[i].at <= old[j].at
    BY <1>2, <1>11 DEF Ordered
  <2>2. CASE p # k + 1 /\ q # k + 1
    <3>1. PICK i \in 1..n : now[p] = old[i] /\ p = IF i <= k THEN i ELSE i + 1
      BY <1>6, <2>2
    <3>2. PICK j \in 1..n : now[q] = old[j] /\ q = IF j <= k THEN j ELSE j + 1
      BY <1>6, <2>2
    <3>3. i < j
      BY <1>2, <3>1, <3>2
    <3>4. old[i].at <= old[j].at
      BY <2>1, <3>3
    <3> QED BY <3>1, <3>2, <3>4
  <2>3. CASE p = k + 1
    <3>1. q - 1 \in (k + 1)..n /\ (q - 1) + 1 = q
      BY <1>2, <2>3
    <3>2. now[q] = old[q - 1] /\ now[p] = e
      BY <1>5, <2>3, <3>1
    <3>3. old[q - 1].at >= e.at /\ old[q - 1] \in EntriesOf
      BY <1>1, <1>2, <3>1 DEF n
    <3> QED BY <3>2, <3>3 DEF EntriesOf
  <2>4. CASE q = k + 1
    <3>1. p \in 1..k
      BY <1>2, <2>4
    <3>2. now[p] = old[p] /\ now[q] = e
      BY <1>5, <2>4, <3>1
    <3>3. old[p].at <= e.at
      BY <1>1, <3>1
    <3> QED BY <3>2, <3>3
  <2> QED BY <2>2, <2>3, <2>4
<1>12. ASSUME Numbered(old), e.n = n + 1 PROVE Numbered(now)
  <2>1. /\ \A i \in 1..n : old[i].n \in 1..n
        /\ \A x \in 1..n : \E i \in 1..n : old[i].n = x
        /\ \A i, j \in 1..n : old[i].n = old[j].n => i = j
    BY <1>2, <1>12 DEF Numbered, n
  <2>2. ASSUME NEW p \in 1..(n + 1)
        PROVE  /\ now[p].n \in 1..(n + 1)
               /\ p # k + 1 => now[p].n \in 1..n
    <3>1. CASE p = k + 1
      BY <1>2, <1>5, <1>12, <3>1
    <3>2. CASE p # k + 1
      <4>1. PICK i \in 1..n : now[p] = old[i]
        BY <1>6, <3>2
      <4>2. old[i].n \in 1..n
        BY <2>1
      <4> QED BY <1>2, <4>1, <4>2
    <3> QED BY <3>1, <3>2
  <2>3. ASSUME NEW x \in 1..(n + 1) PROVE \E p \in 1..(n + 1) : now[p].n = x
    <3>1. CASE x = n + 1
      <4>1. k + 1 \in 1..(n + 1) /\ now[k + 1].n = x
        BY <1>2, <1>5, <1>12, <3>1
      <4> QED BY <4>1
    <3>2. CASE x \in 1..n
      <4>1. PICK i \in 1..n : old[i].n = x
        BY <2>1, <3>2
      <4>2. PICK p \in 1..(n + 1) : now[p] = old[i]
        BY <1>6
      <4> QED BY <4>1, <4>2
    <3> QED BY <1>2, <3>1, <3>2
  <2>4. ASSUME NEW p \in 1..(n + 1), NEW q \in 1..(n + 1), now[p].n = now[q].n PROVE p = q
    <3>1. CASE p = k + 1
      <4>1. now[p].n = n + 1 /\ (q # k + 1 => now[q].n \in 1..n)
        BY <1>5, <1>12, <2>2, <3>1
      <4> QED BY <1>2, <2>4, <3>1, <4>1
    <3>2. CASE q = k + 1
      <4>1. now[q].n = n + 1 /\ (p # k + 1 => now[p].n \in 1..n)
        BY <1>5, <1>12, <2>2, <3>2
      <4> QED BY <1>2, <2>4, <3>2, <4>1
    <3>3. CASE p # k + 1 /\ q # k + 1
      <4>1. PICK i \in 1..n : now[p] = old[i] /\ p = IF i <= k THEN i ELSE i + 1
        BY <1>6, <3>3
      <4>2. PICK j \in 1..n : now[q] = old[j] /\ q = IF j <= k THEN j ELSE j + 1
        BY <1>6, <3>3
      <4>3. old[i].n = old[j].n
        BY <2>4, <4>1, <4>2
      <4>4. i = j
        BY <2>1, <4>3
      <4> QED BY <4>1, <4>2, <4>4
    <3> QED BY <3>1, <3>2, <3>3
  <2> QED BY <1>5, <2>2, <2>3, <2>4 DEF Numbered
<1> QED
  BY <1>4, <1>5, <1>9, <1>10, <1>11, <1>12 DEF Grows, n

\* m gives the orders that entries may have with the first i of new among them.
MergesUpTo(entries, new, k, m) ==
  m = [i \in 0..k |-> IF i = 0 THEN {entries}
                      ELSE UNION { Insertions(ordered, new[i]) : ordered \in m[i - 1] }]

LEMMA MergesExist ==
  ASSUME NEW entries, NEW new \in Seq(EntriesOf)
  PROVE  \E m : MergesUpTo(entries, new, Len(new), m)
<1> DEFINE S == { j \in Nat : \E m : MergesUpTo(entries, new, j, m) }
<1>1. Len(new) \in Nat
  OBVIOUS
<1>2. 0 \in S
  <2> DEFINE m == [i \in 0..0 |-> {entries}]
  <2>1. MergesUpTo(entries, new, 0, m)
    BY DEF MergesUpTo
  <2> QED BY <2>1
<1>3. ASSUME NEW n \in 0..(Len(new) - 1), n \in S PROVE n + 1 \in S
  <2>1. PICK m : MergesUpTo(entries, new, n, m)
    BY <1>3
  <2> DEFINE last == UNION { Insertions(ordered, new[n + 1]) : ordered \in m[n] }
             g == [i \in 0..(n + 1) |-> IF i <= n THEN m[i] ELSE last]
  <2>2. ASSUME NEW i \in 0..(n + 1)
        PROVE  g[i] = IF i = 0 THEN {entries}
                      ELSE UNION { Insertions(ordered, new[i]) : ordered \in g[i - 1] }
    <3>1. CASE i <= n
      <4>1. m[i] = IF i = 0 THEN {entries}
                   ELSE UNION { Insertions(ordered, new[i]) : ordered \in m[i - 1] }
        BY <2>1, <3>1 DEF MergesUpTo
      <4>2. g[i] = m[i] /\ (i # 0 => g[i - 1] = m[i - 1])
        BY <3>1
      <4> QED BY <4>1, <4>2
    <3>2. CASE i = n + 1
      <4>1. i # 0 /\ i - 1 = n /\ g[n] = m[n] /\ g[i] = last
        BY <3>2
      <4> HIDE DEF g
      <4> QED BY <3>2, <4>1
    <3> QED BY <3>1, <3>2
  <2>3. MergesUpTo(entries, new, n + 1, g)
    <3> DEFINE h == [i \in 0..(n + 1) |-> IF i = 0 THEN {entries}
                      ELSE UNION { Insertions(ordered, new[i]) : ordered \in g[i - 1] }]
    <3>1. g = h
      BY <2>2
    <3> QED BY <3>1 DEF MergesUpTo
  <2> HIDE DEF g
  <2> QED BY <2>3
<1> HIDE DEF S
<1>4. 0..Len(new) \subseteq S
  BY <1>1, <1>2, <1>3, SetInduction
<1>5. Len(new) \in S
  BY <1>1, <1>4
<1> QED
  BY <1>5 DEF S

\* new continues a ledger of count entries whose balance is b.
Follows(new, count, b) ==
  /\ new \in Seq(EntriesOf)
  /\ \A i \in 1..Len(new) :
       /\ new[i].n = count + i
       /\ new[i].after = (IF i = 1 THEN b ELSE new[i - 1].after) + new[i].change

\* What now is when it is old with the first i entries of new among its entries.
Merged(old, now, new, i, b) ==
  /\ now \in Seq(EntriesOf) /\ Len(now) = Len(old) + i
  /\ Ordered(now)
  /\ Keeps(old, now)
  /\ \A p \in DOMAIN now : \/ \E j \in DOMAIN old : now[p] = old[j]
                           \/ \E j \in 1..i : now[p] = new[j]
  /\ Numbered(now)
  /\ Total(now) = Total(old) + (IF i = 0 THEN 0 ELSE new[i].after - b)

\* One more entry.
LEMMA MergedStep ==
  ASSUME NEW old \in Seq(EntriesOf), NEW b \in Int, NEW new, Follows(new, Len(old), b),
         NEW i \in 0..(Len(new) - 1), NEW s, Merged(old, s, new, i, b),
         Total(old) \in Int,
         NEW now \in Insertions(s, new[i + 1])
  PROVE  Merged(old, now, new, i + 1, b)
<1> DEFINE e == new[i + 1]
<1>1. /\ i + 1 \in 1..Len(new) /\ i \in Nat /\ Len(old) \in Nat
      /\ new \in Seq(EntriesOf)
  BY DEF Follows
<1>2. e \in EntriesOf /\ s \in Seq(EntriesOf)
  BY <1>1 DEF Merged
<1>3. /\ e.n = Len(old) + (i + 1) /\ e.change \in Int /\ e.after \in Int
      /\ e.after = (IF i + 1 = 1 THEN b ELSE new[(i + 1) - 1].after) + e.change
  <2>1. e.change \in Int /\ e.after \in Int
    <3> HIDE DEF e
    <3> QED BY <1>2 DEF EntriesOf
  <2>2. \A j \in 1..Len(new) :
          /\ new[j].n = Len(old) + j
          /\ new[j].after = (IF j = 1 THEN b ELSE new[j - 1].after) + new[j].change
    BY DEF Follows
  <2> QED BY <1>1, <2>1, <2>2
<1> HIDE DEF e
<1>4. Grows(s, now, e)
  BY <1>2, InsertionsGrow DEF e
<1>5. now \in Seq(EntriesOf) /\ Len(now) = Len(old) + (i + 1) /\ Ordered(now)
  BY <1>1, <1>4 DEF Grows, Merged
<1>6. Keeps(old, now)
  BY <1>4, KeepsTransitive DEF Grows, Merged
<1>7. ASSUME NEW p \in DOMAIN now
      PROVE  \/ \E j \in DOMAIN old : now[p] = old[j]
             \/ \E j \in 1..(i + 1) : now[p] = new[j]
  <2>1. CASE now[p] = e
    BY <1>1, <2>1 DEF e
  <2>2. CASE \E q \in DOMAIN s : now[p] = s[q]
    <3>1. PICK q \in DOMAIN s : now[p] = s[q]
      BY <2>2
    <3>2. 1..i \subseteq 1..(i + 1)
      BY <1>1
    <3>3. \/ \E j \in DOMAIN old : s[q] = old[j]
          \/ \E j \in 1..i : s[q] = new[j]
      BY DEF Merged
    <3> QED BY <3>1, <3>2, <3>3
  <2> QED BY <1>4, <2>1, <2>2 DEF Grows
<1>8. Numbered(now)
  <2>1. e.n = Len(s) + 1
    BY <1>1, <1>3 DEF Merged
  <2> QED BY <1>4, <2>1 DEF Grows, Merged
<1>9. Total(now) = Total(old) + (IF i + 1 = 0 THEN 0 ELSE e.after - b)
  <2>1. /\ Total(now) = Total(s) + e.change
        /\ Total(s) = Total(old) + (IF i = 0 THEN 0 ELSE new[i].after - b)
    BY <1>4 DEF Grows, Merged
  <2>2. CASE i = 0
    BY <1>3, <2>1, <2>2
  <2>3. CASE i # 0
    <3>1. i \in 1..Len(new) /\ (i + 1) - 1 = i /\ i + 1 # 1 /\ i + 1 # 0
      BY <1>1, <2>3
    <3>2. new[i] \in EntriesOf
      BY <1>1, <3>1
    <3>3. new[i].after \in Int /\ e.after = new[i].after + e.change
      BY <1>3, <3>1, <3>2 DEF EntriesOf
    <3>4. Total(s) = Total(old) + (new[i].after - b)
      BY <2>1, <2>3
    <3> DEFINE x == new[i].after
               t == Total(old)
               u == Total(s)
               v == Total(now)
    <3>5. /\ x \in Int /\ t \in Int /\ e.after = x + e.change /\ u = t + (x - b)
          /\ v = u + e.change
      BY <2>1, <3>3, <3>4
    <3>6. e.change \in Int /\ b \in Int
      BY <1>3
    <3> HIDE DEF x, t, u, v
    <3>7. v = t + (e.after - b)
      BY <3>5, <3>6
    <3> QED BY <3>1, <3>7 DEF v, t
  <2> QED BY <2>2, <2>3
<1> QED
  BY <1>5, <1>6, <1>7, <1>8, <1>9 DEF Merged, e

\* What COMMIT leaves is the old ledger with all new entries in some order.
LEMMA MergesMerge ==
  ASSUME NEW old \in Seq(EntriesOf), NEW b \in Int, NEW new, Follows(new, Len(old), b),
         Ordered(old), Numbered(old), NEW now \in Merges(old, new)
  PROVE  Merged(old, now, new, Len(new), b)
<1>1. Len(new) \in Nat /\ new \in Seq(EntriesOf) /\ Len(old) \in Nat
  BY DEF Follows
<1>2. Total(old) \in Int
  <2>1. PICK f : Sums(old, f)
    BY SumsExist
  <2>2. Total(old) = f[Len(old)] /\ f[Len(old)] \in Int
    BY <1>1, <2>1, SumsAreUnique
  <2> QED BY <2>2
<1> DEFINE m == CHOOSE m : MergesUpTo(old, new, Len(new), m)
<1>3. MergesUpTo(old, new, Len(new), m)
  BY <1>1, MergesExist
<1>4. Merges(old, new) = m[Len(new)]
  BY DEF Merges, MergesUpTo
<1> HIDE DEF m
<1> DEFINE S == { i \in 0..Len(new) : \A x \in m[i] : Merged(old, x, new, i, b) }
<1>5. 0 \in S
  <2>1. m[0] = {old} /\ 0 \in 0..Len(new)
    BY <1>1, <1>3 DEF MergesUpTo
  <2>2. Keeps(old, old)
    BY DEF Keeps
  <2>3. Merged(old, old, new, 0, b)
    BY <1>1, <1>2, <2>2 DEF Merged
  <2> QED BY <2>1, <2>3
<1>6. ASSUME NEW n \in 0..(Len(new) - 1), n \in S PROVE n + 1 \in S
  <2>1. n + 1 \in 0..Len(new) /\ n + 1 # 0 /\ (n + 1) - 1 = n
    BY <1>1
  <2>2. m[n + 1] = UNION { Insertions(ordered, new[n + 1]) : ordered \in m[n] }
    BY <1>3, <2>1 DEF MergesUpTo
  <2>3. ASSUME NEW x \in m[n + 1] PROVE Merged(old, x, new, n + 1, b)
    <3>1. PICK s \in m[n] : x \in Insertions(s, new[n + 1])
      BY <2>2
    <3>2. Merged(old, s, new, n, b)
      BY <1>6
    <3> QED BY <1>2, <3>1, <3>2, MergedStep
  <2> QED BY <2>1, <2>3
<1> HIDE DEF S
<1>7. 0..Len(new) \subseteq S
  BY <1>1, <1>5, <1>6, SetInduction
<1>8. Len(new) \in S
  BY <1>1, <1>7
<1> QED
  BY <1>4, <1>8 DEF S

-----------------------------------------------------------------------------
(* The inductive invariant of settlements and reconciliations *)

World ==
  /\ clock \in 0..MaxClock /\ tampers \in 0..MaxTampers /\ crashes \in 0..MaxCrashes
  /\ skew \in [Writers -> Skews]
  /\ drift \in [Creations -> Int]
  /\ locks \in [Creations -> SUBSET Actors]
  /\ on \in [Actors -> Creations \cup {NoWallet}]
  /\ DOMAIN report = Reconcilers

\* The ledger of a wallet is in order, and its sum is the stored balance without
\* what was changed by hand.
LedgerOK(w) ==
  /\ listing[w] \in Seq(EntriesOf)
  /\ Ordered(listing[w])
  /\ Numbered(listing[w])
  /\ IF Exists(w) THEN balance[w] = Total(listing[w]) + drift[w] ELSE drift[w] = 0

\* Only an actor at work on a wallet holds its row.
Holds(a, w) ==
  /\ on[a] = w
  /\ \/ a \in Settlements /\ pc[a] = "apply" /\ locks[w] = {a}
     \/ a \in Reconcilers /\ pc[a] = "sum" /\ locks[w] \subseteq Reconcilers

LocksOK == \A w \in Creations : \A a \in locks[w] : Holds(a, w)

\* A settlement at work holds its wallet, and its draft continues the ledger.
SettlementOK(s) ==
  IF pc[s] = "apply"
  THEN /\ on[s] \in Creations /\ s \in locks[on[s]]
       /\ Follows(draft[s], Len(listing[on[s]]), balance[on[s]])
  ELSE draft[s] = <<>>

\* A creation at work has drafted its opening entry, or has nothing to open with.
Opens(entries, amount) ==
  IF amount = 0 THEN entries = <<>>
  ELSE /\ entries \in Seq(EntriesOf) /\ Len(entries) = 1
       /\ entries[1].n = 1 /\ entries[1].change = amount /\ entries[1].after = amount

CreationOK(c) ==
  IF pc[c] \in {"insert", "commit"} THEN Opens(draft[c], Opening[c]) ELSE draft[c] = <<>>

\* A reconciliation that has read the balance holds the wallet, so the balance is
\* what it has read.
ReconcilerOK(r) ==
  /\ draft[r] = <<>>
  /\ report[r].outcome \in {"none", "reported", "failed"}
  /\ pc[r] = "idle" => report[r] = NoReport
  /\ pc[r] = "sum" => report[r].outcome = "none"
  /\ pc[r] = "sum" =>
       /\ on[r] \in Wallets /\ r \in locks[on[r]]
       /\ report[r].stored = balance[on[r]]

ActorOK(a) ==
  /\ a \in Settlements => SettlementOK(a)
  /\ a \in Creations => CreationOK(a)
  /\ a \in Reconcilers => ReconcilerOK(a)

ServiceInv ==
  /\ World
  /\ \A w \in Creations : LedgerOK(w)
  /\ LocksOK
  /\ \A a \in Actors : ActorOK(a)

\* What a step of the actors in A leaves to the others: where they stand, and the
\* wallets they hold.
Aside(A) ==
  /\ \A b \in Actors \ A : pc'[b] = pc[b] /\ on'[b] = on[b] /\ draft'[b] = draft[b]
  /\ \A r \in Reconcilers \ A : report'[r] = report[r]
  /\ Wallets \subseteq Wallets'
  /\ \A w \in Creations : locks'[w] \ A \subseteq locks[w]
  /\ \A w \in Creations : \A b \in locks[w] \ A :
       /\ balance'[w] = balance[w] /\ listing'[w] = listing[w]
       /\ b \in locks'[w]
       /\ locks[w] = {b} /\ b \in Settlements => locks'[w] = {b}
       /\ locks[w] \subseteq Reconcilers => locks'[w] \subseteq Reconcilers

\* The others keep their part of the invariant.
LEMMA OthersKeep ==
  ASSUME ServiceInv, NEW A, Aside(A), NEW b \in Actors \ A
  PROVE  /\ ActorOK(b)'
         /\ \A w \in Creations : b \in locks'[w] => Holds(b, w)'
<1>1. pc'[b] = pc[b] /\ on'[b] = on[b] /\ draft'[b] = draft[b]
  BY DEF Aside
<1>2. ActorOK(b) /\ LocksOK /\ World
  BY DEF ServiceInv
<1>3. ASSUME NEW w \in Creations, b \in locks'[w] PROVE Holds(b, w)'
  <2>1. b \in locks[w] \ A
    BY <1>3 DEF Aside
  <2>2. Holds(b, w)
    BY <1>2, <2>1 DEF LocksOK
  <2>3. /\ locks[w] = {b} /\ b \in Settlements => locks'[w] = {b}
        /\ locks[w] \subseteq Reconcilers => locks'[w] \subseteq Reconcilers
    BY <2>1 DEF Aside
  <2> QED
    BY <1>1, <2>2, <2>3 DEF Holds
<1>4. ASSUME b \in Settlements PROVE SettlementOK(b)'
  <2>1. CASE pc[b] = "apply"
    <3>1. /\ on[b] \in Creations /\ b \in locks[on[b]]
          /\ Follows(draft[b], Len(listing[on[b]]), balance[on[b]])
      BY <1>2, <1>4, <2>1 DEF ActorOK, SettlementOK
    <3>3. b \in locks[on[b]] \ A
      BY <3>1
    <3>4. /\ balance'[on[b]] = balance[on[b]] /\ listing'[on[b]] = listing[on[b]]
          /\ b \in locks'[on[b]]
      BY <3>1, <3>3 DEF Aside
    <3> QED
      BY <1>1, <2>1, <3>1, <3>4 DEF SettlementOK
  <2>2. CASE pc[b] # "apply"
    BY <1>1, <1>2, <1>4, <2>2 DEF ActorOK, SettlementOK
  <2> QED
    BY <2>1, <2>2
<1>5. ASSUME b \in Creations PROVE CreationOK(b)'
  BY <1>1, <1>2, <1>5 DEF ActorOK, CreationOK
<1>6. ASSUME b \in Reconcilers PROVE ReconcilerOK(b)'
  <2>1. ReconcilerOK(b) /\ report'[b] = report[b]
    BY <1>2, <1>6 DEF ActorOK, Aside
  <2>2. ASSUME pc[b] = "sum"
        PROVE  /\ on[b] \in Wallets' /\ b \in locks'[on[b]]
               /\ balance'[on[b]] = balance[on[b]]
    <3>1. on[b] \in Wallets /\ b \in locks[on[b]] \ A /\ on[b] \in Creations
      BY <2>1, <2>2 DEF ReconcilerOK, Wallets
    <3> QED
      BY <3>1 DEF Aside
  <2> QED
    BY <1>1, <2>1, <2>2 DEF ReconcilerOK
<1> QED
  BY <1>3, <1>4, <1>5, <1>6 DEF ActorOK

\* So a step keeps the invariant when it keeps the part of those who take it.
LEMMA StepKeepsService ==
  ASSUME ServiceInv, NEW A, Aside(A), World', \A w \in Creations : LedgerOK(w)',
         \A a \in A : ActorOK(a)' /\ \A w \in Creations : a \in locks'[w] => Holds(a, w)'
  PROVE  ServiceInv'
<1>1. ASSUME NEW b \in Actors PROVE ActorOK(b)'
  BY OthersKeep
<1>2. ASSUME NEW w \in Creations, NEW b \in locks'[w] PROVE Holds(b, w)'
  <2>1. b \in Actors
    BY DEF World
  <2> QED
    BY <2>1, OthersKeep
<1>3. LocksOK'
  BY <1>2 DEF LocksOK
<1> QED
  BY <1>1, <1>3 DEF ServiceInv

LEMMA LedgerStays ==
  ASSUME NEW w, LedgerOK(w), listing'[w] = listing[w], balance'[w] = balance[w],
         drift'[w] = drift[w]
  PROVE  LedgerOK(w)'
BY DEF LedgerOK, Exists

LEMMA StampType ==
  ASSUME World, NEW a \in Writers
  PROVE  Stamp(a) \in Nat
<1>1. Skews \subseteq Nat /\ MaxClock \in Nat
  BY WalletServiceAssumption
<1>2. skew[a] \in Skews /\ clock \in 0..MaxClock
  BY DEF World
<1>3. skew[a] \in Nat
  BY <1>1, <1>2
<1>4. clock \in Nat
  BY <1>1, <1>2
<1> QED
  BY <1>3, <1>4 DEF Stamp

\* A transaction that ends without having written anything.
LEMMA CloseKeepsService ==
  ASSUME WalletInv, ServiceInv, World', UNCHANGED <<tables, drift>>,
         NEW a \in Actors, NEW next \in States, Close(a, next),
         next \notin {"idle", "apply", "insert", "commit", "sum"},
         \A r \in Reconcilers \ {a} : report'[r] = report[r],
         a \in Reconcilers => report'[a].outcome \in {"none", "reported", "failed"}
  PROVE  ServiceInv'
<1>1. /\ balance' = balance /\ listing' = listing /\ drift' = drift
      /\ Wallets' = Wallets
  BY DEF tables, Wallets, Exists
<1>2. /\ pc'[a] = next /\ draft'[a] = <<>>
      /\ \A b \in Actors \ {a} : pc'[b] = pc[b] /\ on'[b] = on[b] /\ draft'[b] = draft[b]
      /\ \A w \in Creations : locks'[w] = locks[w] \ {a}
  BY DEF Close, WalletInv, Shapes
<1>3. Aside({a})
  BY <1>1, <1>2 DEF Aside
<1>4. \A w \in Creations : LedgerOK(w)'
  BY <1>1, LedgerStays DEF ServiceInv
<1>5. ActorOK(a)'
  BY <1>2 DEF ActorOK, SettlementOK, CreationOK, ReconcilerOK
<1>6. \A w \in Creations : a \notin locks'[w]
  BY <1>2
<1> QED
  BY <1>3, <1>4, <1>5, <1>6, StepKeepsService

LEMMA LookUpKeepsService ==
  ASSUME WalletInv, ServiceInv, NEW c \in Creations, LookUp(c)
  PROVE  ServiceInv'
<1>1. /\ c \in Actors /\ c \notin Settlements /\ c \notin Reconcilers
      /\ UNCHANGED <<tables, answers, world>> /\ pc[c] = "idle"
  BY ActorsAreDistinct DEF LookUp
<1>2. CASE \E w \in Wallets : Owner[w] = Owner[c]
  <2>1. Close(c, "exists") /\ "exists" \in States
    BY <1>2 DEF LookUp, States
  <2>2. World'
    BY <1>1, <2>1, WalletServiceAssumption
       DEF ServiceInv, World, Close, WalletInv, Shapes, world, answers
  <2> QED
    BY <1>1, <2>1, <2>2, CloseKeepsService DEF world, answers
<1>3. CASE ~\E w \in Wallets : Owner[w] = Owner[c]
  <2>1. /\ pc' = [pc EXCEPT ![c] = "insert"]
        /\ UNCHANGED <<locks, claims, on>>
        /\ draft' = [draft EXCEPT ![c] =
             IF Opening[c] = 0 THEN <<>>
             ELSE << [n |-> 1, at |-> Stamp(c), change |-> Opening[c], after |-> Opening[c]] >>]
    BY <1>3 DEF LookUp
  <2>2. World'
    BY <1>1, <2>1 DEF ServiceInv, World, world, answers
  <2>3. Wallets' = Wallets /\ balance' = balance /\ listing' = listing /\ report' = report
    BY <1>1 DEF tables, answers, Wallets, Exists
  <2>4. Aside({c})
    BY <1>1, <2>1, <2>3 DEF Aside, WalletInv, Shapes
  <2>5. \A w \in Creations : LedgerOK(w)'
    BY <1>1, <2>3, LedgerStays DEF ServiceInv, world
  <2>6. Opens(draft'[c], Opening[c])
    <3>1. /\ draft'[c] = IF Opening[c] = 0 THEN <<>>
             ELSE << [n |-> 1, at |-> Stamp(c), change |-> Opening[c], after |-> Opening[c]] >>
      BY <1>1, <2>1 DEF WalletInv, Shapes
    <3>2. Stamp(c) \in Nat /\ Opening[c] \in Nat
      BY StampType, WalletServiceAssumption DEF ServiceInv, Writers
    <3> DEFINE e == [n |-> 1, at |-> Stamp(c), change |-> Opening[c], after |-> Opening[c]]
    <3>3. e \in EntriesOf /\ e.n = 1 /\ e.change = Opening[c] /\ e.after = Opening[c]
      BY <3>2 DEF EntriesOf
    <3>4. Opening[c] # 0 => draft'[c] = <<e>>
      BY <3>1
    <3> HIDE DEF e
    <3>5. <<e>> \in Seq(EntriesOf) /\ Len(<<e>>) = 1 /\ <<e>>[1] = e
      BY <3>3
    <3>6. Opening[c] = 0 => draft'[c] = <<>>
      BY <3>1
    <3> QED
      BY <3>3, <3>4, <3>5, <3>6 DEF Opens
  <2>7. ActorOK(c)'
    BY <1>1, <2>1, <2>6 DEF ActorOK, CreationOK, WalletInv, Shapes
  <2>8. \A w \in Creations : c \notin locks'[w]
    BY <1>1, <2>1 DEF ServiceInv, LocksOK, Holds
  <2> QED
    BY <2>2, <2>4, <2>5, <2>7, <2>8, StepKeepsService
<1> QED
  BY <1>2, <1>3

LEMMA InsertKeepsService ==
  ASSUME WalletInv, ServiceInv, NEW c \in Creations, Insert(c)
  PROVE  ServiceInv'
<1>1. /\ c \in Actors /\ c \notin Settlements /\ c \notin Reconcilers
      /\ UNCHANGED <<tables, answers, world>> /\ pc[c] = "insert"
  BY ActorsAreDistinct DEF Insert
<1>2. CASE \E w \in Wallets : Owner[w] = Owner[c]
  <2>1. Close(c, "exists") /\ "exists" \in States
    BY <1>2 DEF Insert, States
  <2>2. World'
    BY <1>1, <2>1, WalletServiceAssumption
       DEF ServiceInv, World, Close, WalletInv, Shapes, world, answers
  <2> QED
    BY <1>1, <2>1, <2>2, CloseKeepsService DEF world, answers
<1>3. CASE ~\E w \in Wallets : Owner[w] = Owner[c]
  <2>1. /\ pc' = [pc EXCEPT ![c] = "commit"]
        /\ UNCHANGED <<locks, on, draft>>
    BY <1>3 DEF Insert
  <2>2. World'
    BY <1>1, <2>1 DEF ServiceInv, World, world, answers
  <2>3. Wallets' = Wallets /\ balance' = balance /\ listing' = listing /\ report' = report
    BY <1>1 DEF tables, answers, Wallets, Exists
  <2>4. Aside({c})
    BY <1>1, <2>1, <2>3 DEF Aside, WalletInv, Shapes
  <2>5. \A w \in Creations : LedgerOK(w)'
    BY <1>1, <2>3, LedgerStays DEF ServiceInv, world
  <2>6. ActorOK(c)'
    BY <1>1, <2>1 DEF ServiceInv, ActorOK, CreationOK, WalletInv, Shapes
  <2>7. \A w \in Creations : c \notin locks'[w]
    BY <1>1, <2>1 DEF ServiceInv, LocksOK, Holds
  <2> QED
    BY <2>2, <2>4, <2>5, <2>6, <2>7, StepKeepsService
<1> QED
  BY <1>2, <1>3

\* One opening entry is a ledger.
LEMMA OpeningLedger ==
  ASSUME NEW entries, NEW amount \in Nat, Opens(entries, amount)
  PROVE  /\ entries \in Seq(EntriesOf)
         /\ Ordered(entries)
         /\ Numbered(entries)
         /\ Total(entries) = amount
<1>1. CASE amount = 0
  <2>1. entries = <<>>
    BY <1>1 DEF Opens
  <2>2. <<>> \in Seq(EntriesOf) /\ DOMAIN <<>> = {} /\ Len(<<>>) = 0
    OBVIOUS
  <2> QED
    BY <1>1, <2>1, <2>2, TotalOfNone DEF Ordered, Numbered
<1>2. CASE amount # 0
  <2>1. /\ entries \in Seq(EntriesOf) /\ Len(entries) = 1
        /\ entries[1].n = 1 /\ entries[1].change = amount
    BY <1>2 DEF Opens
  <2>2. DOMAIN entries = 1..1
    BY <2>1
  <2>3. Ordered(entries) /\ Numbered(entries)
    BY <2>1, <2>2 DEF Ordered, Numbered
  <2>4. PICK f : Sums(entries, f)
    BY <2>1, SumsExist
  <2>5. f[0] = 0 /\ f[1] = f[0] + entries[1].change
    BY <2>1, <2>4 DEF Sums
  <2>6. Total(entries) = f[1]
    BY <2>1, <2>4, SumsAreUnique
  <2> QED
    BY <2>1, <2>3, <2>5, <2>6
<1> QED
  BY <1>1, <1>2

\* The wallet is new: nobody holds it.
LEMMA CommitCreationKeepsService ==
  ASSUME WalletInv, ServiceInv, NEW c \in Creations, CommitCreation(c)
  PROVE  ServiceInv'
<1>1. /\ c \in Actors /\ c \notin Settlements /\ c \notin Reconcilers
      /\ UNCHANGED <<answers, skew, clock, drift, tampers, crashes>> /\ pc[c] = "commit"
      /\ balance' = [balance EXCEPT ![c] = Opening[c]]
      /\ listing' = [listing EXCEPT ![c] = draft[c]]
      /\ pc' = [pc EXCEPT ![c] = "created"]
      /\ locks' = [w \in Creations |-> locks[w] \ {c}]
      /\ draft' = [draft EXCEPT ![c] = <<>>]
      /\ on' = [on EXCEPT ![c] = NoWallet]
  BY ActorsAreDistinct DEF CommitCreation, Close
<1>2. \A w \in Creations : c \notin locks[w]
  BY <1>1 DEF ServiceInv, LocksOK, Holds
<1>3. locks' = locks
  BY <1>1, <1>2 DEF ServiceInv, World
<1>4. ~Exists(c)
  BY <1>1 DEF WalletInv, RowsAreCommitted
<1>5. locks[c] = {}
  <2>1. ASSUME NEW a \in locks[c] PROVE FALSE
    <3>1. Holds(a, c) /\ a \in Actors /\ ActorOK(a)
      BY DEF ServiceInv, LocksOK, World
    <3>2. on[a] = c /\ c \in Wallets
      BY <3>1 DEF Holds, ActorOK, ReconcilerOK, WalletInv, DraftsOnWallets
    <3> QED
      BY <1>4, <3>2 DEF Wallets
  <2> QED
    BY <2>1
<1>6. World'
  BY <1>1, <1>3 DEF ServiceInv, World, answers
<1>7. Opening[c] \in Nat /\ Opens(draft[c], Opening[c])
  BY <1>1, WalletServiceAssumption DEF ServiceInv, ActorOK, CreationOK
<1>8. /\ balance'[c] = Opening[c] /\ listing'[c] = draft[c] /\ Exists(c)'
      /\ \A w \in Creations \ {c} : balance'[w] = balance[w] /\ listing'[w] = listing[w]
      /\ \A w \in Creations \ {c} : Exists(w)' <=> Exists(w)
      /\ Wallets \subseteq Wallets'
  BY <1>1, <1>7 DEF WalletInv, Shapes, Exists, Wallets, Absent
<1>9. ASSUME NEW w \in Creations PROVE LedgerOK(w)'
  <2>1. CASE w = c
    <3>1. drift[c] = 0 /\ drift' = drift
      BY <1>1, <1>4 DEF ServiceInv, LedgerOK
    <3>2. /\ draft[c] \in Seq(EntriesOf) /\ Ordered(draft[c]) /\ Numbered(draft[c])
          /\ Total(draft[c]) = Opening[c]
      BY <1>7, OpeningLedger
    <3>3. balance'[c] = Total(listing'[c]) + drift'[c]
      BY <1>7, <1>8, <3>1, <3>2
    <3> QED
      BY <1>8, <2>1, <3>2, <3>3 DEF LedgerOK
  <2>2. CASE w # c
    BY <1>1, <1>8, <2>2, LedgerStays DEF ServiceInv
  <2> QED
    BY <2>1, <2>2
<1>10. Aside({c})
  BY <1>1, <1>3, <1>5, <1>8 DEF Aside, WalletInv, Shapes, answers
<1>11. ActorOK(c)'
  BY <1>1 DEF ActorOK, CreationOK, WalletInv, Shapes
<1> QED
  BY <1>2, <1>3, <1>6, <1>9, <1>10, <1>11, StepKeepsService

\* The lock is the settlement's alone.
LEMMA BeginKeepsService ==
  ASSUME WalletInv, ServiceInv, NEW s \in Settlements, NEW w \in Creations, Begin(s, w)
  PROVE  ServiceInv'
<1>1. /\ s \in Actors /\ s \notin Creations /\ s \notin Reconcilers
      /\ UNCHANGED <<tables, answers, world, draft>> /\ pc[s] = "idle"
      /\ locks[w] = {}
      /\ locks' = [locks EXCEPT ![w] = {s}]
      /\ on' = [on EXCEPT ![s] = w]
      /\ pc' = [pc EXCEPT ![s] = "apply"]
      /\ Exists(w)
  BY ActorsAreDistinct DEF Begin
<1>2. World'
  BY <1>1 DEF ServiceInv, World, world, answers
<1>3. Wallets' = Wallets /\ balance' = balance /\ listing' = listing /\ report' = report
  BY <1>1 DEF tables, answers, Wallets, Exists
<1>4. Aside({s})
  BY <1>1, <1>3 DEF Aside, WalletInv, Shapes, ServiceInv, World
<1>5. \A v \in Creations : LedgerOK(v)'
  BY <1>1, <1>3, LedgerStays DEF ServiceInv, world
<1>6. /\ on'[s] = w /\ pc'[s] = "apply" /\ locks'[w] = {s} /\ draft'[s] = <<>>
  <2>1. draft[s] = <<>>
    BY <1>1 DEF ServiceInv, ActorOK, SettlementOK
  <2> QED
    BY <1>1, <2>1 DEF ServiceInv, World, WalletInv, Shapes
<1>7. ActorOK(s)'
  <2>1. Follows(<<>>, Len(listing[w]), balance[w])
    <3>1. <<>> \in Seq(EntriesOf) /\ Len(<<>>) = 0 /\ 1..0 = {}
      OBVIOUS
    <3> QED
      BY <3>1 DEF Follows
  <2> QED
    BY <1>1, <1>3, <1>6, <2>1 DEF ActorOK, SettlementOK
<1>8. \A v \in Creations : s \in locks'[v] => Holds(s, v)'
  <2>1. \A v \in Creations : s \notin locks[v]
    BY <1>1 DEF ServiceInv, LocksOK, Holds
  <2> QED
    BY <1>1, <1>6, <2>1 DEF Holds, ServiceInv, World
<1> QED
  BY <1>2, <1>4, <1>5, <1>7, <1>8, StepKeepsService

\* The next entry of a draft follows the last.
LEMMA FollowsOn ==
  ASSUME NEW new, NEW count, NEW b, Follows(new, count, b), NEW e \in EntriesOf,
         e.n = count + Len(new) + 1,
         count \in Nat,
         e.after = (IF new = <<>> THEN b ELSE new[Len(new)].after) + e.change
  PROVE  Follows(Append(new, e), count, b)
<1> DEFINE next == Append(new, e)
           n == Len(new)
<1>1. new \in Seq(EntriesOf) /\ n \in Nat
  BY DEF Follows
<1>2. /\ next \in Seq(EntriesOf) /\ Len(next) = n + 1
      /\ next[n + 1] = e
      /\ \A i \in 1..n : next[i] = new[i]
  BY <1>1
<1>3. new = <<>> <=> n = 0
  BY <1>1
<1>4. \A i \in 1..n : /\ new[i].n = count + i
                      /\ new[i].after = (IF i = 1 THEN b ELSE new[i - 1].after) + new[i].change
  BY DEF Follows
<1> HIDE DEF next, n
<1>5. ASSUME NEW i \in 1..(n + 1)
      PROVE  /\ next[i].n = count + i
             /\ next[i].after = (IF i = 1 THEN b ELSE next[i - 1].after) + next[i].change
  <2>1. CASE i \in 1..n
    <3>1. i = 1 \/ i - 1 \in 1..n
      BY <1>1, <2>1
    <3>2. next[i] = new[i] /\ (i # 1 => next[i - 1] = new[i - 1])
      BY <1>2, <2>1, <3>1
    <3> QED
      BY <1>4, <2>1, <3>2
  <2>2. CASE i = n + 1
    <3>1. next[i] = e /\ i - 1 = n /\ (i = 1 <=> n = 0)
      BY <1>1, <1>2, <2>2
    <3>2. i # 1 => next[i - 1] = new[n]
      BY <1>1, <1>2, <3>1
    <3>3. e.n = count + i
      BY <1>1, <2>2 DEF n
    <3>4. e.after = (IF n = 0 THEN b ELSE new[n].after) + e.change
      BY <1>3 DEF n
    <3> QED
      BY <3>1, <3>2, <3>3, <3>4
  <2> QED
    BY <1>1, <2>1, <2>2
<1>6. next \in Seq(EntriesOf) /\ Len(next) = n + 1
  BY <1>2
<1>7. Follows(next, count, b)
  BY <1>5, <1>6 DEF Follows
<1> QED
  BY <1>7 DEF next

LEMMA IsEntry ==
  ASSUME NEW n \in Nat, NEW at \in Nat, NEW change \in Int, NEW after \in Nat
  PROVE  [n |-> n, at |-> at, change |-> change, after |-> after] \in EntriesOf
BY DEF EntriesOf

LEMMA ApplyKeepsService ==
  ASSUME WalletInv, ServiceInv, NEW s \in Settlements, Apply(s)
  PROVE  ServiceInv'
<1>1. /\ s \in Actors /\ s \notin Creations /\ s \notin Reconcilers
      /\ UNCHANGED <<tables, answers, world, locks, pc, on>> /\ pc[s] = "apply"
  BY ActorsAreDistinct DEF Apply
<1>2. PICK change \in Changes :
        /\ BalanceOf(s) + change \in 0..MaxBalance
        /\ draft' = [draft EXCEPT ![s] =
             Append(@, [ n |-> Len(listing[on[s]]) + Len(@) + 1, at |-> Stamp(s),
                         change |-> change, after |-> BalanceOf(s) + change ])]
  BY DEF Apply
<1> DEFINE e == [ n |-> Len(listing[on[s]]) + Len(draft[s]) + 1, at |-> Stamp(s),
                  change |-> change, after |-> BalanceOf(s) + change ]
<1>3. /\ on[s] \in Creations /\ s \in locks[on[s]]
      /\ Follows(draft[s], Len(listing[on[s]]), balance[on[s]])
      /\ listing[on[s]] \in Seq(EntriesOf)
  BY <1>1 DEF ServiceInv, ActorOK, SettlementOK, LedgerOK
<1>4. draft'[s] = Append(draft[s], e)
  BY <1>1, <1>2 DEF WalletInv, Shapes
<1>5. e \in EntriesOf
  <2>1. change \in Int /\ BalanceOf(s) + change \in Nat
    BY <1>2, WalletServiceAssumption
  <2>2. Len(listing[on[s]]) \in Nat
    BY <1>3
  <2>3. Len(draft[s]) \in Nat
    BY <1>3 DEF Follows
  <2>4. Stamp(s) \in Nat
    BY StampType DEF ServiceInv, Writers
  <2>5. \A i, j \in Nat : i + j + 1 \in Nat
    OBVIOUS
  <2> QED
    BY <2>1, <2>2, <2>3, <2>4, <2>5, IsEntry
<1>6. /\ e.n = Len(listing[on[s]]) + Len(draft[s]) + 1
      /\ e.change = change
      /\ e.after = BalanceOf(s) + e.change
  OBVIOUS
<1> HIDE DEF e
<1>7. Follows(draft'[s], Len(listing[on[s]]), balance[on[s]])
  <2>1. Len(listing[on[s]]) \in Nat
    BY <1>3
  <2>2. e.after = (IF draft[s] = <<>> THEN balance[on[s]] ELSE draft[s][Len(draft[s])].after)
                    + e.change
    BY <1>6 DEF BalanceOf
  <2> QED
    BY <1>3, <1>4, <1>5, <1>6, <2>1, <2>2, FollowsOn
<1>8. World'
  BY <1>1 DEF ServiceInv, World, world, answers
<1>9. Wallets' = Wallets /\ balance' = balance /\ listing' = listing /\ report' = report
  BY <1>1 DEF tables, answers, Wallets, Exists
<1>10. \A b \in Actors \ {s} : draft'[b] = draft[b]
  BY <1>2 DEF WalletInv, Shapes
<1>11. Aside({s})
  BY <1>1, <1>9, <1>10 DEF Aside
<1>12. \A v \in Creations : LedgerOK(v)'
  BY <1>1, <1>9, LedgerStays DEF ServiceInv, world
<1>13. ActorOK(s)'
  BY <1>1, <1>3, <1>7, <1>9 DEF ActorOK, SettlementOK
<1>14. \A v \in Creations : s \in locks'[v] => Holds(s, v)'
  BY <1>1 DEF ServiceInv, LocksOK, Holds
<1> QED
  BY <1>8, <1>11, <1>12, <1>13, <1>14, StepKeepsService

\* COMMIT adds the entries of the draft to the ledger, and their sum to the balance.
LEMMA CommitSettlementKeepsService ==
  ASSUME WalletInv, ServiceInv, NEW s \in Settlements, CommitSettlement(s)
  PROVE  ServiceInv'
<1>0. PICK w : w = on[s]
  OBVIOUS
<1> DEFINE d == draft[s]
           b == balance[w]
<1>1. /\ s \in Actors /\ s \notin Creations /\ s \notin Reconcilers
      /\ UNCHANGED <<answers, skew, clock, drift, tampers, crashes>> /\ pc[s] = "apply"
      /\ d # <<>>
      /\ balance' = [balance EXCEPT ![w] = BalanceOf(s)]
      /\ pc' = [pc EXCEPT ![s] = "settled"]
      /\ locks' = [v \in Creations |-> locks[v] \ {s}]
      /\ draft' = [draft EXCEPT ![s] = <<>>]
      /\ on' = [on EXCEPT ![s] = NoWallet]
  BY <1>0, ActorsAreDistinct DEF CommitSettlement, Close
<1>2. PICK now \in Merges(listing[w], d) : listing' = [listing EXCEPT ![w] = now]
  BY <1>0 DEF CommitSettlement
<1>3. /\ w \in Creations /\ w \in Wallets /\ s \in locks[w]
      /\ Follows(d, Len(listing[w]), b)
      /\ LedgerOK(w) /\ Exists(w)
  BY <1>0, <1>1 DEF ServiceInv, ActorOK, SettlementOK, WalletInv, DraftsOnWallets, Wallets
<1>4. locks[w] = {s}
  BY <1>1, <1>3 DEF ServiceInv, LocksOK, Holds
<1>5. b \in Nat /\ drift[w] \in Int
  BY <1>3 DEF WalletInv, Shapes, Exists, ServiceInv, World
<1>6. Merged(listing[w], now, d, Len(d), b)
  <2>1. /\ listing[w] \in Seq(EntriesOf) /\ Ordered(listing[w]) /\ Numbered(listing[w])
        /\ b \in Int
    BY <1>3, <1>5 DEF LedgerOK
  <2> HIDE DEF d, b
  <2> QED
    BY <1>2, <1>3, <2>1, MergesMerge
<1>7. /\ Len(d) \in Nat /\ Len(d) # 0 /\ BalanceOf(s) = d[Len(d)].after
      /\ d[Len(d)].after \in Nat
  <2>1. d \in Seq(EntriesOf)
    BY <1>3 DEF Follows
  <2> HIDE DEF d
  <2>2. Len(d) \in Nat /\ Len(d) # 0 /\ d[Len(d)] \in EntriesOf
    BY <1>1, <2>1
  <2> QED
    BY <1>1, <2>2 DEF EntriesOf, BalanceOf, d
<1>8. /\ balance'[w] = d[Len(d)].after /\ listing'[w] = now
      /\ \A v \in Creations \ {w} : balance'[v] = balance[v] /\ listing'[v] = listing[v]
      /\ Exists(w)'
      /\ Wallets \subseteq Wallets'
      /\ drift' = drift
  <2>1. /\ balance'[w] = d[Len(d)].after /\ listing'[w] = now
        /\ \A v \in Creations \ {w} : balance'[v] = balance[v] /\ listing'[v] = listing[v]
    <3> HIDE DEF d
    <3> QED
      BY <1>1, <1>2, <1>3, <1>7 DEF WalletInv, Shapes
  <2>2. Exists(w)'
    BY <1>7, <2>1 DEF Exists, Absent
  <2>3. ASSUME NEW v \in Wallets PROVE v \in Wallets'
    BY <2>1, <2>2 DEF Wallets, Exists
  <2> QED
    BY <1>1, <2>1, <2>2, <2>3
<1>9. LedgerOK(w)'
  <2>1. Total(now) = Total(listing[w]) + (d[Len(d)].after - b)
    BY <1>6, <1>7 DEF Merged
  <2>2. b = Total(listing[w]) + drift[w]
    BY <1>3 DEF LedgerOK
  <2>3. Total(listing[w]) \in Int
    <3>1. listing[w] \in Seq(EntriesOf)
      BY <1>3 DEF LedgerOK
    <3>2. PICK f : Sums(listing[w], f)
      BY <3>1, SumsExist
    <3> QED
      BY <3>1, <3>2, SumsAreUnique
  <2>4. d[Len(d)].after = Total(now) + drift[w]
    BY <1>5, <1>7, <2>1, <2>2, <2>3
  <2>5. now \in Seq(EntriesOf) /\ Ordered(now) /\ Numbered(now)
    BY <1>6 DEF Merged
  <2>6. balance'[w] = Total(listing'[w]) + drift'[w]
    BY <1>8, <2>4
  <2>7. Ordered(listing'[w]) /\ Numbered(listing'[w]) /\ listing'[w] \in Seq(EntriesOf)
    BY <1>8, <2>5
  <2>8. balance'[w] # Absent
    BY <1>8 DEF Exists
  <2> QED
    BY <2>6, <2>7, <2>8 DEF LedgerOK, Exists
<1>10. ASSUME NEW v \in Creations PROVE LedgerOK(v)'
  <2>1. CASE v = w
    BY <1>9, <2>1
  <2>2. CASE v # w
    <3>1. LedgerOK(v) /\ listing'[v] = listing[v] /\ balance'[v] = balance[v] /\ drift'[v] = drift[v]
      BY <1>8, <2>2 DEF ServiceInv
    <3> QED
      BY <3>1, LedgerStays
  <2> QED
    BY <2>1, <2>2
<1>11. World'
  BY <1>1 DEF ServiceInv, World, answers
<1>12. Aside({s})
  <2>1. \A v \in Creations : \A a \in locks[v] \ {s} : v # w
    BY <1>4
  <2> QED
    BY <1>1, <1>8, <2>1 DEF Aside, WalletInv, Shapes, answers
<1>13. ActorOK(s)'
  BY <1>1 DEF ActorOK, SettlementOK, WalletInv, Shapes
<1> QED
  BY <1>1, <1>10, <1>11, <1>12, <1>13, StepKeepsService

\* A refusal writes no entry.
LEMMA RefuseKeepsService ==
  ASSUME WalletInv, ServiceInv, NEW s \in Settlements, Refuse(s)
  PROVE  ServiceInv'
<1>1. /\ s \in Actors /\ s \notin Reconcilers
      /\ UNCHANGED <<tables, report, walk, skew, clock, drift, tampers, crashes>>
      /\ pc[s] = "apply" /\ Close(s, "refused") /\ "refused" \in States
  BY ActorsAreDistinct DEF Refuse, States
<1>2. World'
  BY <1>1 DEF ServiceInv, World, Close
<1> QED
  BY <1>1, <1>2, CloseKeepsService

LEMMA CrashKeepsService ==
  ASSUME WalletInv, ServiceInv, NEW a \in Actors, Crash(a)
  PROVE  ServiceInv'
<1>1. /\ UNCHANGED <<tables, skew, clock, drift, tampers>>
      /\ crashes' = crashes + 1 /\ crashes < MaxCrashes
      /\ Close(a, "lost") /\ "lost" \in States
      /\ report' = [r \in Reconcilers |-> IF r = a THEN NoReport ELSE report[r]]
  BY DEF Crash, States
<1>2. crashes' \in 0..MaxCrashes
  <2>1. crashes \in 0..MaxCrashes /\ MaxCrashes \in Nat
    BY WalletServiceAssumption DEF ServiceInv, World
  <2> QED
    BY <1>1, <2>1
<1>3. World'
  BY <1>1, <1>2 DEF ServiceInv, World, Close
<1>4. /\ \A r \in Reconcilers \ {a} : report'[r] = report[r]
      /\ a \in Reconcilers => report'[a].outcome \in {"none", "reported", "failed"}
  BY <1>1 DEF NoReport
<1> QED
  BY <1>1, <1>3, <1>4, CloseKeepsService

\* The lock is shared with readers only.
LEMMA ReadStoredKeepsService ==
  ASSUME WalletInv, ServiceInv, NEW r \in Reconcilers, NEW w \in Creations, ReadStored(r, w)
  PROVE  ServiceInv'
<1>1. /\ r \in Actors /\ r \notin Settlements /\ r \notin Creations
      /\ UNCHANGED <<tables, refusal, walk, world, draft>>
      /\ pc[r] = "idle" /\ Exists(w) /\ locks[w] \subseteq Reconcilers
      /\ locks' = [locks EXCEPT ![w] = locks[w] \cup {r}]
      /\ on' = [on EXCEPT ![r] = w]
      /\ report' = [report EXCEPT ![r].stored = balance[w]]
      /\ pc' = [pc EXCEPT ![r] = "sum"]
  BY ActorsAreDistinct DEF ReadStored, ServiceInv, World
<1>2. World'
  BY <1>1 DEF ServiceInv, World, world
<1>3. Wallets' = Wallets /\ balance' = balance /\ listing' = listing /\ drift' = drift
  BY <1>1 DEF tables, world, Wallets, Exists
<1>4. \A s \in Settlements : s \notin locks[w]
  BY <1>1, ActorsAreDistinct
<1>5. Aside({r})
  <2>1. \A b \in Actors \ {r} : pc'[b] = pc[b] /\ on'[b] = on[b] /\ draft'[b] = draft[b]
    BY <1>1 DEF WalletInv, Shapes
  <2>2. \A q \in Reconcilers \ {r} : report'[q] = report[q]
    BY <1>1 DEF ServiceInv, World
  <2>3. \A v \in Creations : locks'[v] = IF v = w THEN locks[v] \cup {r} ELSE locks[v]
    BY <1>1 DEF ServiceInv, World
  <2> QED
    BY <1>1, <1>3, <1>4, <2>1, <2>2, <2>3 DEF Aside
<1>6. \A v \in Creations : LedgerOK(v)'
  BY <1>3, LedgerStays DEF ServiceInv
<1>7. /\ on'[r] = w /\ pc'[r] = "sum" /\ draft'[r] = <<>>
      /\ locks'[w] = locks[w] \cup {r}
      /\ report'[r].stored = balance[w] /\ report'[r].outcome = "none"
  <2>1. draft[r] = <<>> /\ report[r] = NoReport /\ r \in DOMAIN report
    BY <1>1 DEF ServiceInv, ActorOK, ReconcilerOK, World
  <2>2. report'[r] = [NoReport EXCEPT !.stored = balance[w]]
    BY <1>1, <2>1
  <2>3. report'[r].outcome = "none"
    BY <2>2 DEF NoReport
  <2>4. on'[r] = w /\ pc'[r] = "sum" /\ draft'[r] = <<>> /\ locks'[w] = locks[w] \cup {r}
    BY <1>1, <2>1 DEF ServiceInv, World, WalletInv, Shapes
  <2>5. report'[r].stored = balance[w]
    BY <2>2 DEF NoReport
  <2> QED
    BY <2>3, <2>4, <2>5
<1>8. ActorOK(r)'
  <2>1. w \in Wallets'
    BY <1>1, <1>3 DEF Wallets
  <2> QED
    BY <1>1, <1>3, <1>7, <2>1 DEF ActorOK, ReconcilerOK
<1>9. \A v \in Creations : r \in locks'[v] => Holds(r, v)'
  <2>1. \A v \in Creations : r \notin locks[v]
    BY <1>1 DEF ServiceInv, LocksOK, Holds
  <2>2. \A v \in Creations \ {w} : locks'[v] = locks[v]
    BY <1>1 DEF ServiceInv, World
  <2> QED
    BY <1>1, <1>7, <2>1, <2>2 DEF Holds
<1> QED
  BY <1>2, <1>5, <1>6, <1>8, <1>9, StepKeepsService

LEMMA ReadLedgerKeepsService ==
  ASSUME WalletInv, ServiceInv, NEW r \in Reconcilers, ReadLedger(r)
  PROVE  ServiceInv'
<1>1. PICK total : total = Total(listing[on[r]])
  OBVIOUS
<1>2. /\ r \in Actors /\ UNCHANGED <<tables, refusal, walk, world>>
      /\ Close(r, "done") /\ "done" \in States
      /\ report' = [report EXCEPT ![r] =
           IF total < 0 THEN [NoReport EXCEPT !.outcome = "failed"]
           ELSE [stored |-> 0, difference |-> report[r].stored - total, outcome |-> "reported"]]
  BY <1>1, ActorsAreDistinct DEF ReadLedger, States
<1>3. World'
  BY <1>2 DEF ServiceInv, World, Close, world
<1>4. /\ \A q \in Reconcilers \ {r} : report'[q] = report[q]
      /\ report'[r].outcome \in {"none", "reported", "failed"}
  <2>1. [NoReport EXCEPT !.outcome = "failed"].outcome = "failed"
    BY DEF NoReport
  <2> QED
    BY <1>2, <2>1 DEF ServiceInv, World
<1> QED
  BY <1>2, <1>3, <1>4, CloseKeepsService DEF world

\* A change by hand waits for the lock too.
LEMMA TamperKeepsService ==
  ASSUME WalletInv, ServiceInv, NEW w \in Creations, Tamper(w)
  PROVE  ServiceInv'
<1>1. /\ UNCHANGED <<listing, session, answers, skew, clock, crashes>>
      /\ Exists(w) /\ locks[w] = {}
      /\ tampers < MaxTampers /\ tampers' = tampers + 1
      /\ balance' = [balance EXCEPT ![w] = balance[w] + 1]
      /\ drift' = [drift EXCEPT ![w] = drift[w] + 1]
  BY DEF Tamper, WalletInv, Shapes, ServiceInv, World
<1>2. /\ balance[w] \in Nat /\ drift[w] \in Int
      /\ balance'[w] = balance[w] + 1 /\ drift'[w] = drift[w] + 1
      /\ \A v \in Creations \ {w} : balance'[v] = balance[v] /\ drift'[v] = drift[v]
  BY <1>1 DEF WalletInv, Shapes, ServiceInv, World, Exists
<1>3. Exists(w)' /\ Wallets' = Wallets
  BY <1>1, <1>2 DEF Exists, Absent, Wallets
<1>4. World'
  <2>1. tampers' \in 0..MaxTampers
    <3>1. tampers \in 0..MaxTampers /\ MaxTampers \in Nat
      BY WalletServiceAssumption DEF ServiceInv, World
    <3> QED
      BY <1>1, <3>1
  <2>2. drift' \in [Creations -> Int]
    BY <1>1, <1>2 DEF ServiceInv, World
  <2> QED
    BY <1>1, <2>1, <2>2 DEF ServiceInv, World, session, answers
<1>5. Aside({})
  BY <1>1, <1>2, <1>3 DEF Aside, session, answers
<1>6. LedgerOK(w)'
  <2>1. /\ listing[w] \in Seq(EntriesOf) /\ Ordered(listing[w]) /\ Numbered(listing[w])
        /\ balance[w] = Total(listing[w]) + drift[w]
    BY <1>1 DEF ServiceInv, LedgerOK
  <2>2. PICK f : Sums(listing[w], f)
    BY <2>1, SumsExist
  <2>3. Total(listing[w]) \in Int
    BY <2>1, <2>2, SumsAreUnique
  <2>4. balance'[w] = Total(listing[w]) + drift'[w]
    BY <1>2, <2>1, <2>3
  <2> QED
    BY <1>1, <1>3, <2>1, <2>4 DEF LedgerOK
<1>7. ASSUME NEW v \in Creations PROVE LedgerOK(v)'
  <2>1. CASE v = w
    BY <1>6, <2>1
  <2>2. CASE v # w
    BY <1>1, <1>2, <2>2, LedgerStays DEF ServiceInv
  <2> QED
    BY <2>1, <2>2
<1> QED
  BY <1>4, <1>5, <1>7, StepKeepsService

\* Pages, time and stuttering.
LEMMA BystandersKeepService ==
  ASSUME ServiceInv,
         \/ UNCHANGED vars
         \/ Tick
         \/ \E k \in Walkers, w \in Creations : Page(k, w)
  PROVE  ServiceInv'
<1>1. /\ UNCHANGED <<tables, session, report, skew, drift, tampers, crashes>>
      /\ clock' \in 0..MaxClock
  <2>1. CASE UNCHANGED vars
    BY <2>1 DEF vars, answers, world, ServiceInv, World
  <2>2. CASE Tick
    <3>1. clock \in 0..MaxClock /\ MaxClock \in Nat
      BY WalletServiceAssumption DEF ServiceInv, World
    <3>2. clock' \in 0..MaxClock
      BY <2>2, <3>1 DEF Tick
    <3> QED
      BY <2>2, <3>2 DEF Tick, answers
  <2>3. ASSUME NEW k \in Walkers, NEW w \in Creations, Page(k, w)
        PROVE  /\ UNCHANGED <<tables, session, report, skew, drift, tampers, crashes>>
               /\ clock' \in 0..MaxClock
    BY <2>3 DEF Page, world, ServiceInv, World
  <2> QED
    BY <2>1, <2>2, <2>3
<1>2. World'
  BY <1>1 DEF ServiceInv, World, session
<1>3. Aside({})
  BY <1>1 DEF Aside, tables, session, Wallets, Exists
<1>4. \A w \in Creations : LedgerOK(w)'
  BY <1>1, LedgerStays DEF ServiceInv, tables
<1> QED
  BY <1>2, <1>3, <1>4, StepKeepsService

LEMMA InitService == ASSUME Init PROVE ServiceInv
<1>1. World
  <2>1. /\ 0 \in 0..MaxClock /\ 0 \in 0..MaxTampers /\ 0 \in 0..MaxCrashes
    BY WalletServiceAssumption
  <2> QED
    BY <2>1 DEF Init, World
<1>2. ASSUME NEW w \in Creations PROVE LedgerOK(w)
  <2>1. <<>> \in Seq(EntriesOf) /\ DOMAIN <<>> = {} /\ Len(<<>>) = 0
    OBVIOUS
  <2>2. listing[w] = <<>> /\ drift[w] = 0 /\ ~Exists(w)
    BY DEF Init, Exists
  <2> QED
    BY <2>1, <2>2 DEF LedgerOK, Ordered, Numbered
<1>3. LocksOK
  BY DEF Init, LocksOK
<1>4. \A a \in Actors : ActorOK(a)
  BY ActorsAreDistinct DEF Init, ActorOK, SettlementOK, CreationOK, ReconcilerOK, NoReport
<1> QED
  BY <1>1, <1>2, <1>3, <1>4 DEF ServiceInv

LEMMA NextKeepsService == ASSUME WalletInv, ServiceInv, Next PROVE ServiceInv'
<1>1. ASSUME NEW c \in Creations, LookUp(c) \/ Insert(c) \/ CommitCreation(c) PROVE ServiceInv'
  BY <1>1, LookUpKeepsService, InsertKeepsService, CommitCreationKeepsService
<1>2. ASSUME NEW s \in Settlements, NEW w \in Creations, Begin(s, w) PROVE ServiceInv'
  BY <1>2, BeginKeepsService
<1>3. ASSUME NEW s \in Settlements, Apply(s) \/ CommitSettlement(s) \/ Refuse(s)
      PROVE  ServiceInv'
  BY <1>3, ApplyKeepsService, CommitSettlementKeepsService, RefuseKeepsService
<1>4. ASSUME NEW r \in Reconcilers, ReadLedger(r) PROVE ServiceInv'
  BY <1>4, ReadLedgerKeepsService
<1>5. ASSUME NEW r \in Reconcilers, NEW w \in Creations, ReadStored(r, w) PROVE ServiceInv'
  BY <1>5, ReadStoredKeepsService
<1>6. ASSUME NEW k \in Walkers, NEW w \in Creations, Page(k, w) PROVE ServiceInv'
  BY <1>6, BystandersKeepService
<1>7. ASSUME NEW w \in Creations, Tamper(w) PROVE ServiceInv'
  BY <1>7, TamperKeepsService
<1>8. ASSUME NEW a \in Actors, Crash(a) PROVE ServiceInv'
  BY <1>8, CrashKeepsService
<1>9. CASE Tick
  BY <1>9, BystandersKeepService
<1> QED
  BY <1>1, <1>2, <1>3, <1>4, <1>5, <1>6, <1>7, <1>8, <1>9 DEF Next

\* Every reachable state satisfies the invariant of ledgers, locks and drafts.
THEOREM ServiceInvariant == Spec => []ServiceInv
<1>1. Init => ServiceInv
  BY InitService
<1>2. WalletInv /\ ServiceInv /\ [Next]_vars => ServiceInv'
  BY NextKeepsService, BystandersKeepService
<1> QED
  BY <1>1, <1>2, WalletInvariant, PTL DEF Spec

\* The members of a sequence are of its type.
LEMMA RangeOfSeq ==
  ASSUME NEW S, NEW s \in Seq(S)
  PROVE  Range(s) \subseteq S
BY DEF Range

\* Rows, calls and answers have their shapes, and every ledger is in order.
THEOREM ServiceTypeCorrect == Spec => []TypeOK
<1>1. ASSUME WalletInv, ServiceInv PROVE TypeOK
  <2>1. \A w \in Creations : LedgerOK(w)
    BY <1>1 DEF ServiceInv
  <2>2. \A w \in Creations : Range(listing[w]) \subseteq EntriesOf
    BY <2>1, RangeOfSeq DEF LedgerOK
  <2>3. \A w \in Creations : \A i, j \in DOMAIN listing[w] :
          i < j => listing[w][i].at <= listing[w][j].at
    BY <2>1 DEF LedgerOK, Ordered
  <2>4. \A w \in Creations : locks[w] \subseteq Reconcilers \/ \E s \in Settlements : locks[w] = {s}
    BY <1>1 DEF ServiceInv, LocksOK, Holds
  <2>5. ASSUME NEW a \in Actors PROVE Range(draft[a]) \subseteq EntriesOf
    <3>1. draft[a] \in Seq(EntriesOf)
      <4>1. <<>> \in Seq(EntriesOf)
        OBVIOUS
      <4>2. ActorOK(a)
        BY <1>1 DEF ServiceInv
      <4>3. a \in Creations \/ a \in Settlements \/ a \in Reconcilers
        BY DEF Actors, Writers
      <4> QED
        BY <4>1, <4>2, <4>3
           DEF ActorOK, SettlementOK, CreationOK, ReconcilerOK, Follows, Opens
    <3> QED
      BY <3>1, RangeOfSeq
  <2>6. \A r \in Reconcilers : report[r].outcome \in {"none", "reported", "failed"}
    BY <1>1, ActorsAreDistinct DEF ServiceInv, ActorOK, ReconcilerOK
  <2>7. \A a \in Actors : pc[a] \in States
    BY <1>1 DEF WalletInv, Shapes
  <2> QED
    BY <1>1, <2>2, <2>3, <2>4, <2>5, <2>6, <2>7
       DEF TypeOK, WalletInv, Shapes, ServiceInv, World, States
<1> QED
  BY <1>1, WalletInvariant, ServiceInvariant, PTL

\* The balance a reconciliation has read is still the stored one when it adds up the
\* ledger, and a ledger adds up to the balance without what was changed by hand.
THEOREM ReconciliationIsExactAlways == Spec => ReconciliationIsExact
<1> DEFINE Exact == \A r \in Reconcilers :
             pc[r] = "sum" /\ report'[r].outcome = "reported"
               => report'[r].difference = drift[on[r]]
<1>1. ASSUME WalletInv, ServiceInv, Next PROVE Exact
  <2> SUFFICES ASSUME NEW r \in Reconcilers, pc[r] = "sum", report'[r].outcome = "reported"
               PROVE  report'[r].difference = drift[on[r]]
    OBVIOUS
  <2>1. /\ report[r].outcome = "none" /\ on[r] \in Wallets
        /\ report[r].stored = balance[on[r]] /\ r \in DOMAIN report
    BY <1>1, ActorsAreDistinct DEF ServiceInv, ActorOK, ReconcilerOK, World
  <2>2. ReadLedger(r)
    <3>1. report'[r] # report[r]
      BY <2>1
    <3>2. ASSUME NEW q \in Reconcilers, NEW w \in Creations, ReadStored(q, w) PROVE FALSE
      <4>1. q # r
        BY <3>2 DEF ReadStored
      <4> QED
        BY <2>1, <3>1, <3>2, <4>1 DEF ReadStored
    <3>3. ASSUME NEW q \in Reconcilers, ReadLedger(q) PROVE q = r
      BY <2>1, <3>1, <3>3 DEF ReadLedger
    <3>4. ASSUME NEW a \in Actors, Crash(a) PROVE FALSE
      BY <3>1, <3>4 DEF Crash, NoReport
    <3> QED
      BY <1>1, <3>1, <3>2, <3>3, <3>4
         DEF Next, LookUp, Insert, CommitCreation, Begin, Apply, CommitSettlement, Refuse, Page,
             Tamper, Tick, answers
  <2>3. PICK w \in Wallets : w = on[r]
    BY <2>1
  <2>4. /\ listing[w] \in Seq(EntriesOf) /\ balance[w] = Total(listing[w]) + drift[w]
        /\ drift[w] \in Int
    BY <1>1 DEF ServiceInv, LedgerOK, World, Wallets
  <2>5. PICK f : Sums(listing[w], f)
    BY <2>4, SumsExist
  <2>6. Total(listing[w]) \in Int
    BY <2>4, <2>5, SumsAreUnique
  <2>7. PICK total : total = Total(listing[w])
    OBVIOUS
  <2>8. report'[r] =
           IF total < 0 THEN [NoReport EXCEPT !.outcome = "failed"]
           ELSE [stored |-> 0, difference |-> report[r].stored - total, outcome |-> "reported"]
    BY <2>1, <2>2, <2>3, <2>7 DEF ReadLedger
  <2>9. [NoReport EXCEPT !.outcome = "failed"].outcome = "failed"
    BY DEF NoReport
  <2>10. report'[r].difference = report[r].stored - total
    BY <2>8, <2>9
  <2> QED
    BY <2>1, <2>3, <2>4, <2>6, <2>7, <2>10
<1>2. WalletInv /\ ServiceInv /\ [Next]_vars => [Exact]_vars
  BY <1>1
<1> QED
  BY <1>2, WalletInvariant, ServiceInvariant, PTL DEF Spec, ReconciliationIsExact

-----------------------------------------------------------------------------
(* Pages *)

PlaceIn(entries, n) == CHOOSE i \in DOMAIN entries : entries[i].n = n

\* An entry of a ledger has one place.
LEMMA PlaceIsThere ==
  ASSUME NEW entries, NEW n \in Numbers(entries)
  PROVE  PlaceIn(entries, n) \in DOMAIN entries /\ entries[PlaceIn(entries, n)].n = n
<1>1. \E i \in DOMAIN entries : entries[i].n = n
  BY DEF Numbers
<1> QED
  BY <1>1 DEF PlaceIn

LEMMA PlaceIsUnique ==
  ASSUME NEW entries, Numbered(entries), NEW i \in DOMAIN entries
  PROVE  entries[i].n \in Numbers(entries) /\ PlaceIn(entries, entries[i].n) = i
<1>1. entries[i].n \in Numbers(entries)
  BY DEF Numbers
<1>2. PlaceIn(entries, entries[i].n) \in DOMAIN entries
      /\ entries[PlaceIn(entries, entries[i].n)].n = entries[i].n
  BY <1>1, PlaceIsThere
<1>3. \A j \in DOMAIN entries : entries[j].n = entries[i].n => j = i
  BY DEF Numbered
<1> QED
  BY <1>1, <1>2, <1>3

\* Entries keep their order when others are inserted.
LEMMA PlacesKept ==
  ASSUME NEW old \in Seq(EntriesOf), NEW now \in Seq(EntriesOf),
         Keeps(old, now), Numbered(old), Numbered(now),
         NEW m \in Numbers(old), NEW n \in Numbers(old)
  PROVE  /\ m \in Numbers(now)
         /\ PlaceIn(old, m) < PlaceIn(old, n) => PlaceIn(now, m) < PlaceIn(now, n)
         /\ PlaceIn(now, m) <= PlaceIn(now, n) => PlaceIn(old, m) <= PlaceIn(old, n)
<1> DEFINE i == PlaceIn(old, m)
           j == PlaceIn(old, n)
<1>1. i \in DOMAIN old /\ old[i].n = m /\ j \in DOMAIN old /\ old[j].n = n
  BY PlaceIsThere
<1>2. i \in Int /\ j \in Int /\ \A p \in DOMAIN now : p \in Int
  BY <1>1
<1> HIDE DEF i, j
<1>3. PICK p \in DOMAIN now : now[p] = old[i]
  BY <1>1 DEF Keeps
<1>4. m \in Numbers(now) /\ PlaceIn(now, m) = p
  BY <1>1, <1>3, PlaceIsUnique
<1>5. PICK q \in DOMAIN now : now[q] = old[j]
  BY <1>1 DEF Keeps
<1>6. PlaceIn(now, n) = q
  BY <1>1, <1>5, PlaceIsUnique
<1>7. ASSUME i < j PROVE p < q
  <2>1. PICK x \in DOMAIN now, y \in DOMAIN now : x < y /\ now[x] = old[i] /\ now[y] = old[j]
    BY <1>1, <1>7 DEF Keeps
  <2>2. now[x].n = now[p].n /\ now[y].n = now[q].n
    BY <1>3, <1>5, <2>1
  <2>3. x = p /\ y = q
    BY <2>2 DEF Numbered
  <2> QED
    BY <2>1, <2>3
<1>8. ASSUME j < i PROVE q < p
  <2>1. PICK x \in DOMAIN now, y \in DOMAIN now : x < y /\ now[x] = old[j] /\ now[y] = old[i]
    BY <1>1, <1>8 DEF Keeps
  <2>2. now[x].n = now[q].n /\ now[y].n = now[p].n
    BY <1>3, <1>5, <2>1
  <2>3. x = q /\ y = p
    BY <2>2 DEF Numbered
  <2> QED
    BY <2>1, <2>3
<1>9. p <= q => i <= j
  BY <1>2, <1>8
<1> QED
  BY <1>4, <1>6, <1>7, <1>9 DEF i, j

\* What a client has seen of a ledger: entries in order, and all of those to start with
\* up to the last, or all when it is done.
WalkIn(entries, seen, start, done) ==
  /\ Range(seen) \subseteq Numbers(entries)
  /\ start \subseteq Numbers(entries)
  /\ \A i, j \in DOMAIN seen : i < j => PlaceIn(entries, seen[i]) < PlaceIn(entries, seen[j])
  /\ \A n \in start :
       done \/ PlaceIn(entries, n) <= PlaceIn(entries, seen[Len(seen)]) => n \in Range(seen)

LEMMA WalkInGrowing ==
  ASSUME NEW old \in Seq(EntriesOf), NEW now \in Seq(EntriesOf),
         Keeps(old, now), Numbered(old), Numbered(now),
         NEW seen \in Seq(Nat), seen # <<>>, NEW start, NEW done, WalkIn(old, seen, start, done)
  PROVE  WalkIn(now, seen, start, done)
<1>1. \A m \in Numbers(old) : m \in Numbers(now)
  BY PlacesKept
<1>2. Range(seen) \subseteq Numbers(old) /\ start \subseteq Numbers(old)
  BY DEF WalkIn
<1>3. \A i \in DOMAIN seen : seen[i] \in Numbers(old)
  BY <1>2 DEF Range
<1>4. ASSUME NEW i \in DOMAIN seen, NEW j \in DOMAIN seen, i < j
      PROVE  PlaceIn(now, seen[i]) < PlaceIn(now, seen[j])
  <2>1. PlaceIn(old, seen[i]) < PlaceIn(old, seen[j])
    BY <1>4 DEF WalkIn
  <2> QED
    BY <1>3, <2>1, PlacesKept
<1>5. Len(seen) \in DOMAIN seen
  BY DEF WalkIn
<1>6. ASSUME NEW n \in start, done \/ PlaceIn(now, n) <= PlaceIn(now, seen[Len(seen)])
      PROVE  n \in Range(seen)
  <2>1. n \in Numbers(old) /\ seen[Len(seen)] \in Numbers(old)
    BY <1>2, <1>3, <1>5
  <2>2. done \/ PlaceIn(old, n) <= PlaceIn(old, seen[Len(seen)])
    BY <1>6, <2>1, PlacesKept
  <2> QED
    BY <2>2 DEF WalkIn
<1> QED
  BY <1>1, <1>2, <1>4, <1>6 DEF WalkIn

\* One page more: the next m entries after the cursor, or all the rest.
LEMMA WalkInPage ==
  ASSUME NEW entries \in Seq(EntriesOf), Numbered(entries),
         NEW seen \in Seq(Nat), NEW start, NEW was,
         seen # <<>> => WalkIn(entries, seen, start, was),
         NEW p \in Nat,
         p = IF seen = <<>> THEN 0 ELSE PlaceIn(entries, seen[Len(seen)]),
         NEW m \in Nat, p + m <= Len(entries),
         NEW done, done => p + m = Len(entries),
         NEW page \in [1..m -> Nat], \A i \in 1..m : page[i] = entries[p + i].n,
         NEW from, from = IF seen = <<>> THEN Numbers(entries) ELSE start
  PROVE  /\ seen \o page \in Seq(Nat)
         /\ seen \o page # <<>> => WalkIn(entries, seen \o page, from, done)
<1> DEFINE n == Len(seen)
           all == seen \o page
<1>1. /\ page \in Seq(Nat) /\ Len(page) = m /\ n \in Nat
      /\ all \in Seq(Nat) /\ Len(all) = n + m
      /\ \A i \in 1..n : all[i] = seen[i]
      /\ \A i \in 1..m : all[n + i] = page[i]
  <2>1. page \in Seq(Nat) /\ Len(page) = m /\ n \in Nat
    OBVIOUS
  <2>2. HasBoth(all, Nat, seen, page)
    BY <2>1, Concat
  <2> HIDE DEF all, n
  <2> QED
    BY <2>1, <2>2 DEF HasBoth, n
<1>2. DOMAIN seen = 1..n /\ DOMAIN entries = 1..Len(entries) /\ Len(entries) \in Nat
      /\ (seen = <<>> <=> n = 0)
  OBVIOUS
<1> HIDE DEF all
<1>3. DOMAIN all = 1..(n + m) /\ (all = <<>> <=> n + m = 0)
  BY <1>1
<1> SUFFICES ASSUME all # <<>> PROVE WalkIn(entries, all, from, done)
  BY <1>1 DEF all
<1> HIDE DEF n
<1>4. \A i \in 1..m : p + i \in DOMAIN entries /\ PlaceIn(entries, page[i]) = p + i
                      /\ page[i] \in Numbers(entries)
  <2> SUFFICES ASSUME NEW i \in 1..m
               PROVE  p + i \in DOMAIN entries /\ PlaceIn(entries, page[i]) = p + i
                      /\ page[i] \in Numbers(entries)
    OBVIOUS
  <2>1. p + i \in DOMAIN entries
    BY <1>2
  <2> QED
    BY <2>1, PlaceIsUnique
<1>5. \A i \in 1..n : /\ seen[i] \in Numbers(entries)
                      /\ PlaceIn(entries, seen[i]) \in Int
                      /\ PlaceIn(entries, seen[i]) <= p
  <2> SUFFICES ASSUME NEW i \in 1..n
               PROVE  /\ seen[i] \in Numbers(entries) /\ PlaceIn(entries, seen[i]) \in Int
                      /\ PlaceIn(entries, seen[i]) <= p
    OBVIOUS
  <2>1. n # 0 /\ seen # <<>> /\ n \in 1..n
    <3>1. n \in Nat /\ i \in Int /\ 1 <= i /\ i <= n
      BY <1>1
    <3>2. n # 0 /\ n \in 1..n
      BY <3>1
    <3> QED
      BY <1>2, <3>2
  <2>2. seen[i] \in Range(seen)
    BY <1>2 DEF Range
  <2>3. seen[i] \in Numbers(entries)
    BY <2>1, <2>2 DEF WalkIn
  <2>4. PlaceIn(entries, seen[i]) \in Int
    <3>1. PlaceIn(entries, seen[i]) \in DOMAIN entries
      BY <2>3, PlaceIsThere
    <3>2. \A x \in DOMAIN entries : x \in Int
      OBVIOUS
    <3> QED
      BY <3>1, <3>2
  <2>5. p = PlaceIn(entries, seen[n])
    BY <2>1 DEF n
  <2>6. i = n \/ PlaceIn(entries, seen[i]) < PlaceIn(entries, seen[n])
    <3>1. \A x, y \in DOMAIN seen : x < y => PlaceIn(entries, seen[x]) < PlaceIn(entries, seen[y])
      BY <2>1 DEF WalkIn
    <3>2. i \in DOMAIN seen /\ n \in DOMAIN seen /\ (i = n \/ i < n)
      BY <1>1, <1>2, <2>1
    <3> QED
      BY <3>1, <3>2
  <2> QED
    BY <2>3, <2>4, <2>5, <2>6
<1>6. ASSUME NEW i \in 1..(n + m)
      PROVE  \/ i \in 1..n /\ all[i] = seen[i]
             \/ \E j \in 1..m : i = n + j /\ all[i] = page[j]
  <2>1. CASE i <= n
    BY <1>1, <2>1
  <2>2. CASE ~(i <= n)
    <3> DEFINE j == i - n
    <3>1. j \in 1..m /\ i = n + j
      BY <1>1, <2>2
    <3> HIDE DEF j
    <3> QED
      BY <1>1, <3>1
  <2> QED
    BY <2>1, <2>2
<1>7. Range(all) \subseteq Numbers(entries)
  <2> SUFFICES ASSUME NEW i \in 1..(n + m) PROVE all[i] \in Numbers(entries)
    BY <1>3 DEF Range
  <2> QED
    BY <1>4, <1>5, <1>6
<1>8. from \subseteq Numbers(entries)
  BY DEF WalkIn
<1>9. ASSUME NEW i \in 1..(n + m), NEW j \in 1..(n + m), i < j
      PROVE  PlaceIn(entries, all[i]) < PlaceIn(entries, all[j])
  <2>1. CASE i \in 1..n /\ j \in 1..n
    <3>1. all[i] = seen[i] /\ all[j] = seen[j]
      BY <1>1, <2>1
    <3>2. n # 0
      BY <1>1, <2>1
    <3>3. seen # <<>>
      BY <1>2, <3>2
    <3> QED
      BY <1>2, <1>9, <2>1, <3>1, <3>3 DEF WalkIn
  <2>2. CASE i \in 1..n /\ j \notin 1..n
    <3>1. PICK y \in 1..m : j = n + y /\ all[j] = page[y]
      BY <1>6, <2>2
    <3>2. PlaceIn(entries, all[j]) = p + y /\ all[i] = seen[i]
      BY <1>1, <1>4, <2>2, <3>1
    <3>3. PlaceIn(entries, seen[i]) \in Int /\ PlaceIn(entries, seen[i]) <= p
      BY <1>5, <2>2
    <3>4. PlaceIn(entries, seen[i]) < p + y
      BY <3>3
    <3> QED
      BY <3>2, <3>4
  <2>3. CASE i \notin 1..n
    <3>1. PICK x \in 1..m : i = n + x /\ all[i] = page[x]
      BY <1>6, <2>3
    <3>2. j \notin 1..n
      BY <1>1, <1>9, <2>3
    <3>3. PICK y \in 1..m : j = n + y /\ all[j] = page[y]
      BY <1>6, <3>2
    <3>4. x < y
      BY <1>1, <1>9, <3>1, <3>3
    <3> QED
      BY <1>4, <3>1, <3>3, <3>4
  <2> QED
    BY <2>1, <2>2, <2>3
<1>10. n + m \in DOMAIN all /\ PlaceIn(entries, all[n + m]) = p + m
  <2>1. n + m \in 1..(n + m)
    BY <1>1, <1>3
  <2>2. CASE m = 0
    <3>1. n \in 1..n /\ seen # <<>> /\ all[n + m] = seen[n]
      BY <1>1, <1>2, <2>1, <2>2
    <3>2. p = PlaceIn(entries, seen[n])
      BY <3>1 DEF n
    <3> QED
      BY <1>3, <2>1, <2>2, <3>1, <3>2
  <2>3. CASE m # 0
    <3>1. m \in 1..m /\ all[n + m] = page[m]
      BY <1>1, <2>3
    <3> QED
      BY <1>3, <1>4, <2>1, <3>1
  <2> QED
    BY <2>2, <2>3
<1>11. ASSUME NEW x \in from, done \/ PlaceIn(entries, x) <= p + m PROVE x \in Range(all)
  <2> DEFINE q == PlaceIn(entries, x)
  <2>1. x \in Numbers(entries) /\ q \in 1..Len(entries) /\ entries[q].n = x
    BY <1>2, <1>8, PlaceIsThere
  <2> HIDE DEF q
  <2>2. q <= p + m
    BY <1>2, <1>11, <2>1 DEF q
  <2>3. CASE q > p
    <3> DEFINE j == q - p
    <3>1. j \in 1..m /\ p + j = q
      BY <2>1, <2>2, <2>3
    <3> HIDE DEF j
    <3>2. n + j \in 1..(n + m) /\ all[n + j] = page[j]
      BY <1>1, <3>1
    <3>3. page[j] = entries[p + j].n
      BY <3>1
    <3>4. all[n + j] = x
      BY <2>1, <3>1, <3>2, <3>3
    <3> QED
      BY <1>3, <3>2, <3>4 DEF Range
  <2>4. CASE q <= p
    <3>1. seen # <<>>
      BY <2>1, <2>4
    <3>2. x \in start /\ PlaceIn(entries, x) <= PlaceIn(entries, seen[Len(seen)])
      BY <2>4, <3>1 DEF q
    <3>3. x \in Range(seen)
      BY <3>1, <3>2 DEF WalkIn
    <3>4. PICK i \in 1..n : seen[i] = x
      BY <1>2, <3>3 DEF Range
    <3>5. i \in 1..(n + m) /\ all[i] = x
      BY <1>1, <3>4
    <3> QED
      BY <1>3, <3>5 DEF Range
  <2> QED
    BY <2>1, <2>3, <2>4
<1>12. Len(all) = n + m /\ DOMAIN all = 1..(n + m)
  BY <1>1, <1>3
<1>13. \A x \in from :
         done \/ PlaceIn(entries, x) <= PlaceIn(entries, all[Len(all)]) => x \in Range(all)
  BY <1>10, <1>11, <1>12
<1> QED
  BY <1>7, <1>8, <1>9, <1>12, <1>13 DEF WalkIn

-----------------------------------------------------------------------------
(* Ledgers only grow *)

\* COMMIT of a settlement: its entries are among those of its wallet.
LEMMA SettledEntries ==
  ASSUME WalletInv, ServiceInv, NEW s \in Settlements, CommitSettlement(s), NEW w, w = on[s]
  PROVE  /\ w \in Creations /\ pc[s] = "apply" /\ LedgerOK(w)
         /\ Merged(listing[w], listing'[w], draft[s], Len(draft[s]), balance[w])
         /\ \A v \in Creations \ {w} : listing'[v] = listing[v]
<1>1. pc[s] = "apply"
  BY DEF CommitSettlement
<1>2. /\ w \in Creations /\ w \in Wallets
      /\ Follows(draft[s], Len(listing[w]), balance[w]) /\ LedgerOK(w)
  BY <1>1, ActorsAreDistinct
     DEF ServiceInv, ActorOK, SettlementOK, WalletInv, DraftsOnWallets, Wallets
<1>3. balance[w] \in Nat
  BY <1>2 DEF WalletInv, Shapes, Wallets, Exists
<1>4. PICK now \in Merges(listing[w], draft[s]) : listing' = [listing EXCEPT ![w] = now]
  BY DEF CommitSettlement
<1>5. /\ listing[w] \in Seq(EntriesOf) /\ Ordered(listing[w]) /\ Numbered(listing[w])
      /\ balance[w] \in Int
  BY <1>2, <1>3 DEF LedgerOK
<1>6. Merged(listing[w], now, draft[s], Len(draft[s]), balance[w])
  BY <1>2, <1>4, <1>5, MergesMerge
<1>7. listing'[w] = now /\ \A v \in Creations \ {w} : listing'[v] = listing[v]
  BY <1>2, <1>4 DEF WalletInv, Shapes
<1> QED
  BY <1>1, <1>2, <1>6, <1>7

\* COMMIT of a creation: the ledger was empty, and nobody works on it.
LEMMA OpenedLedger ==
  ASSUME WalletInv, ServiceInv, NEW c \in Creations, CommitCreation(c)
  PROVE  /\ pc[c] = "commit" /\ listing[c] = <<>> /\ listing'[c] = draft[c]
         /\ Opens(draft[c], Opening[c])
         /\ \A v \in Creations \ {c} : listing'[v] = listing[v]
         /\ \A s \in Settlements : pc[s] = "apply" => on[s] # c
<1>1. pc[c] = "commit" /\ listing' = [listing EXCEPT ![c] = draft[c]]
  BY DEF CommitCreation
<1>2. ~Exists(c) /\ listing[c] = <<>>
  BY <1>1 DEF WalletInv, RowsAreCommitted
<1>3. \A s \in Settlements : pc[s] = "apply" => on[s] # c
  BY <1>2 DEF WalletInv, DraftsOnWallets, Wallets
<1>4. Opens(draft[c], Opening[c])
  BY <1>1, ActorsAreDistinct DEF ServiceInv, ActorOK, CreationOK
<1> QED
  BY <1>1, <1>2, <1>3, <1>4 DEF WalletInv, Shapes

\* Every other step leaves the ledgers alone.
LEMMA LedgersRest ==
  ASSUME [Next]_vars,
         \A c \in Creations : ~CommitCreation(c),
         \A s \in Settlements : ~CommitSettlement(s)
  PROVE  listing' = listing
BY DEF Next, LookUp, Insert, Begin, Apply, Refuse, ReadStored, ReadLedger, Page, Tamper, Crash,
       Tick, vars, tables

LEMMA LedgersGrow ==
  ASSUME WalletInv, ServiceInv, [Next]_vars, NEW w \in Creations
  PROVE  Keeps(listing[w], listing'[w])
<1>1. ASSUME listing'[w] = listing[w] PROVE Keeps(listing[w], listing'[w])
  BY <1>1 DEF Keeps
<1>2. ASSUME NEW c \in Creations, CommitCreation(c) PROVE Keeps(listing[w], listing'[w])
  <2>1. c = w => listing[w] = <<>>
    BY <1>2, OpenedLedger
  <2>2. c = w => Keeps(listing[w], listing'[w])
    <3>1. DOMAIN <<>> = {}
      OBVIOUS
    <3> QED
      BY <2>1, <3>1 DEF Keeps
  <2>3. c # w => listing'[w] = listing[w]
    BY <1>2, OpenedLedger
  <2> QED
    BY <1>1, <2>2, <2>3
<1>3. ASSUME NEW s \in Settlements, CommitSettlement(s) PROVE Keeps(listing[w], listing'[w])
  <2>1. PICK v : v = on[s]
    OBVIOUS
  <2>2. v = w => Keeps(listing[w], listing'[w])
    BY <1>3, <2>1, SettledEntries DEF Merged
  <2>3. v # w => listing'[w] = listing[w]
    BY <1>3, <2>1, SettledEntries
  <2> QED
    BY <1>1, <2>2, <2>3
<1>4. listing' = listing \/ (\E c \in Creations : CommitCreation(c))
      \/ (\E s \in Settlements : CommitSettlement(s))
  BY LedgersRest
<1> QED
  BY <1>1, <1>2, <1>3, <1>4

-----------------------------------------------------------------------------
(* The inductive invariant of the walks *)

\* What a walker has seen is a walk in the ledger as it is now.
WalkOK(k) ==
  /\ walk[k].seen \in Seq(Nat)
  /\ walk[k].seen # <<>> =>
       /\ walk[k].of \in Creations
       /\ WalkIn(listing[walk[k].of], walk[k].seen, walk[k].start, walk[k].done)

WalkInv == DOMAIN walk = Walkers /\ \A k \in Walkers : WalkOK(k)

\* A walk stays one while the ledger grows.
LEMMA WalkLasts ==
  ASSUME WalletInv, ServiceInv, ServiceInv', [Next]_vars,
         NEW k \in Walkers, WalkOK(k), walk'[k] = walk[k]
  PROVE  WalkOK(k)'
<1> SUFFICES ASSUME walk[k].seen # <<>>
             PROVE  WalkIn(listing'[walk[k].of], walk[k].seen, walk[k].start, walk[k].done)
  BY DEF WalkOK
<1>1. PICK w \in Creations : w = walk[k].of
  BY DEF WalkOK
<1>2. /\ walk[k].seen \in Seq(Nat)
      /\ WalkIn(listing[w], walk[k].seen, walk[k].start, walk[k].done)
  BY <1>1 DEF WalkOK
<1>3. listing[w] \in Seq(EntriesOf) /\ Numbered(listing[w])
  BY DEF ServiceInv, LedgerOK
<1>4. listing'[w] \in Seq(EntriesOf) /\ Numbered(listing'[w])
  BY DEF ServiceInv, LedgerOK
<1>5. Keeps(listing[w], listing'[w])
  BY LedgersGrow
<1> QED
  BY <1>1, <1>2, <1>3, <1>4, <1>5, WalkInGrowing

Behind(entries, p) == SubSeq(entries, p + 1, Len(entries))
FirstOf(rest, limit) == IF Len(rest) > limit THEN SubSeq(rest, 1, limit) ELSE rest

\* A page of a ledger: entries behind place p.
PageAfter(entries, p, page) ==
  /\ Len(page) \in Nat /\ DOMAIN page = 1..Len(page) /\ p + Len(page) <= Len(entries)
  /\ \A i \in 1..Len(page) : page[i] = entries[p + i] /\ page[i].n \in Nat

\* The first entries of what is behind a place.
LEMMA PageOfRest ==
  ASSUME NEW entries \in Seq(EntriesOf), NEW p \in 0..Len(entries), NEW limit \in Nat
  PROVE  /\ PageAfter(entries, p, FirstOf(Behind(entries, p), limit))
         /\ Len(Behind(entries, p)) <= limit
              => p + Len(FirstOf(Behind(entries, p), limit)) = Len(entries)
<1> DEFINE rest == Behind(entries, p)
           page == FirstOf(rest, limit)
<1>1. Len(entries) \in Nat /\ p \in Nat /\ p <= Len(entries)
  OBVIOUS
<1>2. /\ rest \in Seq(EntriesOf) /\ Len(rest) = Len(entries) - p
      /\ \A i \in 1..Len(rest) : rest[i] = entries[p + i]
  BY <1>1 DEF Behind
<1> HIDE DEF rest
<1>3. /\ page \in Seq(EntriesOf) /\ Len(page) = (IF Len(rest) > limit THEN limit ELSE Len(rest))
      /\ \A i \in 1..Len(page) : page[i] = rest[i]
  <2>1. CASE Len(rest) > limit
    BY <1>2, <2>1 DEF FirstOf
  <2>2. CASE ~(Len(rest) > limit)
    BY <1>2, <2>2 DEF FirstOf
  <2> QED
    BY <2>1, <2>2
<1> HIDE DEF page
<1>4. Len(page) \in Nat /\ DOMAIN page = 1..Len(page)
  BY <1>3
<1>5. Len(page) <= Len(rest)
  BY <1>2, <1>3
<1>6. ASSUME NEW i \in 1..Len(page) PROVE page[i] = entries[p + i] /\ page[i].n \in Nat
  <2>1. page[i] \in EntriesOf
    BY <1>3, <1>4
  <2>2. page[i].n \in Nat
    BY <2>1 DEF EntriesOf
  <2>3. i \in 1..Len(rest)
    BY <1>1, <1>2, <1>4, <1>5
  <2> QED
    BY <1>2, <1>3, <2>2, <2>3
<1>7. p + Len(page) <= Len(entries) /\ (Len(rest) <= limit => p + Len(page) = Len(entries))
  <2>1. /\ Len(rest) = Len(entries) - p /\ Len(page) <= Len(rest)
        /\ Len(rest) <= limit => Len(page) = Len(rest)
    BY <1>1, <1>2, <1>3, <1>5
  <2> QED
    BY <1>1, <1>4, <2>1
<1> QED
  BY <1>4, <1>6, <1>7 DEF PageAfter, rest, page

\* One page continues a walk.
LEMMA PageKeepsWalk ==
  ASSUME WalletInv, ServiceInv, WalkInv, NEW k \in Walkers, NEW w \in Creations, Page(k, w)
  PROVE  WalkOK(k)'
<1> DEFINE entries == listing[w]
           seen == walk[k].seen
           rest == Rest(k, w)
           page == IF Len(rest) > Limit THEN SubSeq(rest, 1, Limit) ELSE rest
           numbers == [i \in DOMAIN page |-> page[i].n]
           p == Passed(k, w)
           from == IF seen = <<>> THEN Numbers(entries) ELSE walk[k].start
<1>1. /\ walk' = [walk EXCEPT ![k] =
           [ of |-> w, seen |-> seen \o numbers, start |-> from, done |-> ~(Len(rest) > Limit),
             missed |-> IF Len(rest) > Limit THEN {} ELSE Numbers(entries) \ Range(seen \o numbers) ]]
      /\ walk[k].of \in {NoWallet, w}
      /\ listing' = listing
  BY DEF Page, tables
<1>2. entries \in Seq(EntriesOf) /\ Numbered(entries)
  BY DEF ServiceInv, LedgerOK
<1>3. seen \in Seq(Nat) /\ (seen # <<>> => WalkIn(entries, seen, walk[k].start, walk[k].done))
  <2>1. NoWallet \notin Creations
    BY WalletServiceAssumption
  <2> QED
    BY <1>1, <2>1 DEF WalkInv, WalkOK
<1>4. p = IF seen = <<>> THEN 0 ELSE PlaceIn(entries, seen[Len(seen)])
  BY DEF Passed, PlaceIn
<1>5. p \in 0..Len(entries)
  <2>1. Len(entries) \in Nat /\ DOMAIN entries = 1..Len(entries)
    BY <1>2
  <2>2. CASE seen = <<>>
    BY <1>4, <2>1, <2>2
  <2>3. CASE seen # <<>>
    <3>1. Len(seen) \in DOMAIN seen
      BY <1>3, <2>3
    <3>2. seen[Len(seen)] \in Numbers(entries)
      BY <1>3, <2>3, <3>1 DEF WalkIn, Range
    <3>3. p \in DOMAIN entries
      BY <1>4, <2>3, <3>2, PlaceIsThere
    <3> HIDE DEF p, seen
    <3> QED
      BY <2>1, <3>3
  <2> QED
    BY <2>2, <2>3
<1>6. rest = SubSeq(entries, p + 1, Len(entries))
  BY DEF Rest
<1>7. Limit \in Nat
  BY WalletServiceAssumption
<1>8. DOMAIN walk = Walkers
  BY DEF WalkInv
<1> HIDE DEF entries, seen, rest, p, from
<1>9. /\ PageAfter(entries, p, page)
      /\ Len(rest) <= Limit => p + Len(page) = Len(entries)
  <2>1. rest = Behind(entries, p) /\ page = FirstOf(rest, Limit)
    BY <1>6 DEF Behind, FirstOf
  <2> HIDE DEF page, numbers
  <2> QED
    BY <1>2, <1>5, <1>7, <2>1, PageOfRest
<1>10. Len(rest) \in Nat
  <2>1. Len(entries) \in Nat /\ p \in Nat /\ p <= Len(entries)
    BY <1>2, <1>5
  <2>2. rest \in Seq(EntriesOf)
    BY <1>2, <1>6, <2>1
  <2> QED
    BY <2>2
<1> HIDE DEF page
<1>11. /\ numbers \in [1..Len(page) -> Nat]
       /\ \A i \in 1..Len(page) : numbers[i] = entries[p + i].n
  BY <1>9 DEF PageAfter
<1> HIDE DEF numbers
<1>12. from = IF seen = <<>> THEN Numbers(entries) ELSE walk[k].start
  BY DEF from
<1>13. PICK done \in BOOLEAN : done <=> ~(Len(rest) > Limit)
  OBVIOUS
<1>14. done => p + Len(page) = Len(entries)
  BY <1>7, <1>9, <1>10, <1>13
<1>15. p \in Nat /\ Len(page) \in Nat /\ p + Len(page) <= Len(entries)
  BY <1>5, <1>9 DEF PageAfter
<1>16. /\ seen \o numbers \in Seq(Nat)
       /\ seen \o numbers # <<>> => WalkIn(entries, seen \o numbers, from, done)
  BY <1>2, <1>3, <1>4, <1>11, <1>12, <1>14, <1>15, WalkInPage
<1>17. /\ walk'[k].of = w /\ walk'[k].seen = seen \o numbers
       /\ walk'[k].start = from /\ walk'[k].done = done
  BY <1>1, <1>8, <1>13
<1>18. listing'[w] = entries
  BY <1>1 DEF entries
<1> QED
  BY <1>16, <1>17, <1>18 DEF WalkOK

LEMMA WalksKeep ==
  ASSUME WalletInv, ServiceInv, ServiceInv', WalkInv, [Next]_vars
  PROVE  WalkInv'
<1>1. ASSUME NEW k \in Walkers, NEW w \in Creations, Page(k, w) PROVE WalkInv'
  <2>1. DOMAIN walk' = Walkers /\ \A j \in Walkers \ {k} : walk'[j] = walk[j]
    BY <1>1 DEF Page, WalkInv
  <2>2. WalkOK(k)'
    BY <1>1, PageKeepsWalk
  <2>3. \A j \in Walkers \ {k} : WalkOK(j)'
    BY <2>1, WalkLasts DEF WalkInv
  <2> QED
    BY <2>1, <2>2, <2>3 DEF WalkInv
<1>2. ASSUME \A k \in Walkers, w \in Creations : ~Page(k, w) PROVE walk' = walk
  BY <1>2 DEF Next, LookUp, Insert, CommitCreation, Begin, Apply, CommitSettlement, Refuse,
              ReadStored, ReadLedger, Tamper, Crash, Tick, vars, answers
<1>3. ASSUME walk' = walk PROVE WalkInv'
  BY <1>3, WalkLasts DEF WalkInv
<1> QED
  BY <1>1, <1>2, <1>3

\* What every client has seen is a walk in the ledger, at every moment.
THEOREM WalkInvariant == Spec => []WalkInv
<1>1. ASSUME Init PROVE WalkInv
  <2>1. <<>> \in Seq(Nat)
    OBVIOUS
  <2> QED
    BY <1>1, <2>1 DEF Init, WalkInv, WalkOK, NoWalk
<1>2. WalletInv /\ ServiceInv /\ ServiceInv' /\ WalkInv /\ [Next]_vars => WalkInv'
  BY WalksKeep
<1> QED
  BY <1>1, <1>2, WalletInvariant, ServiceInvariant, PTL DEF Spec

\* Paging shows entries in the order of the ledger, each once, and skips none that was
\* there when the first page was read, whatever is inserted between the pages.
THEOREM WalksShowWhatWasThere == Spec => []WalkShowsWhatWasThere
<1>1. ASSUME WalkInv PROVE WalkShowsWhatWasThere
  <2> SUFFICES ASSUME NEW k \in Walkers, walk[k].seen # <<>>,
                      NEW w, w = walk[k].of, NEW seen, seen = walk[k].seen
               PROVE  /\ \A i, j \in DOMAIN seen : i < j => Place(w, seen[i]) < Place(w, seen[j])
                      /\ \A n \in walk[k].start :
                           walk[k].done \/ Place(w, n) <= Place(w, seen[Len(seen)])
                             => n \in Range(seen)
    BY DEF WalkShowsWhatWasThere
  <2>1. WalkIn(listing[w], seen, walk[k].start, walk[k].done)
    BY <1>1 DEF WalkInv, WalkOK
  <2>2. \A n : Place(w, n) = PlaceIn(listing[w], n)
    BY DEF Place, PlaceIn
  <2> QED
    BY <2>1, <2>2 DEF WalkIn
<1> QED
  BY <1>1, WalkInvariant, PTL

-----------------------------------------------------------------------------
(* The inductive invariant of clocks that agree *)

ClocksAgree == \A a, b \in Writers : skew[a] = skew[b]

\* Entries are numbered in the order of their times, and none is from the future.
LedgerInTime(w) ==
  /\ \A i, j \in DOMAIN listing[w] :
       listing[w][i].n < listing[w][j].n => listing[w][i].at <= listing[w][j].at
  /\ \A i \in DOMAIN listing[w] : \A a \in Writers : listing[w][i].at <= Stamp(a)

\* Neither is a drafted one, and it is not older than what it will be committed to.
DraftInTime(a) ==
  /\ \A i \in DOMAIN draft[a] : \A b \in Writers : draft[a][i].at <= Stamp(b)
  /\ \A i, j \in DOMAIN draft[a] : i < j => draft[a][i].at <= draft[a][j].at
  /\ a \in Settlements /\ pc[a] = "apply" =>
       \A i \in DOMAIN draft[a] : \A j \in DOMAIN listing[on[a]] :
         listing[on[a]][j].at <= draft[a][i].at

\* Time at lies between the first count entries of wallet w and all later ones.
Between(w, at, count) ==
  /\ count <= Len(listing[w])
  /\ \A a \in Writers : at <= Stamp(a)
  /\ \A i \in DOMAIN listing[w] : listing[w][i].n <= count => listing[w][i].at <= at
  /\ \A i \in DOMAIN listing[w] : listing[w][i].n > count => at <= listing[w][i].at
  /\ \A t \in Settlements : pc[t] = "apply" /\ on[t] = w =>
       \A i \in DOMAIN draft[t] : at <= draft[t][i].at

RefusalInTime(s) ==
  \E w \in Wallets, at \in Nat, count \in Nat :
    /\ on[s] = w /\ refusal[s].at = at /\ refusal[s].count = count
    /\ Between(w, at, count)

InTime ==
  /\ \A w \in Creations : LedgerInTime(w)
  /\ \A a \in Writers : DraftInTime(a)
  /\ \A s \in Refused : RefusalInTime(s)

ClockInv == DOMAIN refusal = Settlements /\ (ClocksAgree => InTime)

LEMMA DraftIsOfEntries ==
  ASSUME ServiceInv, NEW a \in Actors
  PROVE  draft[a] \in Seq(EntriesOf)
<1>1. <<>> \in Seq(EntriesOf)
  OBVIOUS
<1>2. ActorOK(a)
  BY DEF ServiceInv
<1>3. a \in Creations \/ a \in Settlements \/ a \in Reconcilers
  BY DEF Actors, Writers
<1> QED
  BY <1>1, <1>2, <1>3 DEF ActorOK, SettlementOK, CreationOK, ReconcilerOK, Follows, Opens

LEMMA DraftIsOfEntriesNext ==
  ASSUME ServiceInv', NEW a \in Actors
  PROVE  draft'[a] \in Seq(EntriesOf)
<1>1. <<>> \in Seq(EntriesOf)
  OBVIOUS
<1>2. ActorOK(a)'
  BY DEF ServiceInv
<1>3. a \in Creations \/ a \in Settlements \/ a \in Reconcilers
  BY DEF Actors, Writers
<1> QED
  BY <1>1, <1>2, <1>3 DEF ActorOK, SettlementOK, CreationOK, ReconcilerOK, Follows, Opens

LEMMA TimesAreNatural ==
  ASSUME ServiceInv
  PROVE  /\ \A w \in Creations : \A i \in DOMAIN listing[w] :
              listing[w][i].at \in Nat /\ listing[w][i].n \in Nat
         /\ \A a \in Actors : \A i \in DOMAIN draft[a] : draft[a][i].at \in Nat
         /\ \A a \in Writers : Stamp(a) \in Nat
<1>1. \A t \in Seq(EntriesOf) : \A i \in DOMAIN t : t[i].at \in Nat /\ t[i].n \in Nat
  <2>1. \A e \in EntriesOf : e.at \in Nat /\ e.n \in Nat
    BY DEF EntriesOf
  <2>2. \A t \in Seq(EntriesOf) : \A i \in DOMAIN t : t[i] \in EntriesOf
    OBVIOUS
  <2> QED
    BY <2>1, <2>2
<1>2. \A w \in Creations : listing[w] \in Seq(EntriesOf)
  BY DEF ServiceInv, LedgerOK
<1>3. \A a \in Actors : draft[a] \in Seq(EntriesOf)
  BY DraftIsOfEntries
<1>4. \A a \in Writers : Stamp(a) \in Nat
  BY StampType DEF ServiceInv
<1> QED
  BY <1>1, <1>2, <1>3, <1>4

\* What a step does to a draft: entries stay, or one with the present time is the last.
DraftStep(a) ==
  \A i \in DOMAIN draft'[a] :
    \/ /\ i \in DOMAIN draft[a] /\ draft'[a][i] = draft[a][i]
       /\ a \in Settlements /\ pc'[a] = "apply" => pc[a] = "apply" /\ on'[a] = on[a]
    \/ draft'[a][i].at = Stamp(a) /\ \A j \in DOMAIN draft'[a] : j <= i

LEMMA AgreedStamp ==
  ASSUME ClocksAgree, NEW a \in Writers, NEW b \in Writers
  PROVE  Stamp(a) = Stamp(b)
<1>1. skew[a] = skew[b]
  BY DEF ClocksAgree
<1> QED
  BY <1>1 DEF Stamp

LEMMA DraftsKeepTime ==
  ASSUME ServiceInv, ServiceInv', ClocksAgree, InTime, listing' = listing,
         \A b \in Writers : Stamp(b)' \in Nat /\ Stamp(b) <= Stamp(b)',
         NEW a \in Writers, DraftStep(a)
  PROVE  DraftInTime(a)'
<1>0. a \in Actors
  BY DEF Actors
<1>1. DraftInTime(a) /\ Stamp(a) \in Nat /\ \A i \in DOMAIN draft[a] : draft[a][i].at \in Nat
  BY <1>0, TimesAreNatural DEF InTime
<1>2. \A i \in DOMAIN draft'[a] : draft'[a][i].at \in Nat
  BY <1>1 DEF DraftStep
<1>3. ASSUME NEW i \in DOMAIN draft'[a], NEW b \in Writers PROVE draft'[a][i].at <= Stamp(b)'
  <2>1. Stamp(a) = Stamp(b) /\ Stamp(b) <= Stamp(b)' /\ Stamp(b)' \in Nat
    BY AgreedStamp
  <2>2. draft'[a][i].at <= Stamp(b)
    BY <1>1, <2>1 DEF DraftStep, DraftInTime
  <2> QED
    BY <1>1, <1>2, <2>1, <2>2
<1>4. ASSUME NEW i \in DOMAIN draft'[a], NEW j \in DOMAIN draft'[a], i \in Nat, j \in Nat, i < j
      PROVE  draft'[a][i].at <= draft'[a][j].at
  <2>1. ~(j <= i)
    BY <1>4
  <2>2. i \in DOMAIN draft[a] /\ draft'[a][i] = draft[a][i]
    BY <2>1 DEF DraftStep
  <2>3. CASE draft'[a][j].at = Stamp(a)
    BY <1>1, <2>2, <2>3 DEF DraftInTime
  <2>4. CASE j \in DOMAIN draft[a] /\ draft'[a][j] = draft[a][j]
    BY <1>1, <1>4, <2>2, <2>4 DEF DraftInTime
  <2> QED
    BY <2>3, <2>4 DEF DraftStep
<1>5. ASSUME a \in Settlements, pc'[a] = "apply", NEW i \in DOMAIN draft'[a], NEW w \in Creations,
             w = on'[a], NEW j \in DOMAIN listing[w]
      PROVE  listing[w][j].at <= draft'[a][i].at
  <2>1. CASE draft'[a][i].at = Stamp(a)
    BY <2>1 DEF InTime, LedgerInTime
  <2>2. CASE draft'[a][i].at # Stamp(a)
    <3>1. /\ i \in DOMAIN draft[a] /\ draft'[a][i] = draft[a][i]
          /\ pc[a] = "apply" /\ on[a] = w
      BY <1>5, <2>2 DEF DraftStep
    <3> QED
      BY <1>1, <1>5, <3>1 DEF DraftInTime
  <2> QED
    BY <2>1, <2>2
<1>6. \A i, j \in DOMAIN draft'[a] : i \in Nat /\ j \in Nat
  <2>1. draft'[a] \in Seq(EntriesOf)
    BY <1>0, DraftIsOfEntriesNext
  <2> QED
    BY <2>1
<1>7. a \in Settlements /\ pc'[a] = "apply" => on'[a] \in Creations
  BY <1>0 DEF ServiceInv, ActorOK, SettlementOK
<1>8. a \in Settlements /\ pc'[a] = "apply" =>
        \A i \in DOMAIN draft'[a] : \A j \in DOMAIN listing'[on'[a]] :
          listing'[on'[a]][j].at <= draft'[a][i].at
  <2> SUFFICES ASSUME a \in Settlements, pc'[a] = "apply", NEW i \in DOMAIN draft'[a],
                      NEW w \in Creations, w = on'[a], NEW j \in DOMAIN listing[w]
               PROVE  listing[w][j].at <= draft'[a][i].at
    BY <1>7
  <2> QED
    BY <1>5
<1> QED
  BY <1>3, <1>4, <1>6, <1>8 DEF DraftInTime

\* A refusal stays between the entries before and after it.
LEMMA BetweenLasts ==
  ASSUME ServiceInv, InTime, listing' = listing,
         \A b \in Writers : Stamp(b)' \in Nat /\ Stamp(b) <= Stamp(b)' /\ DraftStep(b),
         NEW w \in Creations, NEW at \in Nat, NEW count \in Nat, Between(w, at, count)
  PROVE  Between(w, at, count)'
<1>1. \A a \in Writers : at <= Stamp(a)'
  <2> SUFFICES ASSUME NEW a \in Writers PROVE at <= Stamp(a)'
    OBVIOUS
  <2>1. at <= Stamp(a) /\ Stamp(a) <= Stamp(a)' /\ Stamp(a) \in Nat /\ Stamp(a)' \in Nat
    BY TimesAreNatural DEF Between
  <2> QED
    BY <2>1
<1>2. ASSUME NEW t \in Settlements, pc'[t] = "apply", on'[t] = w, NEW i \in DOMAIN draft'[t]
      PROVE  at <= draft'[t][i].at
  <2>1. t \in Writers /\ DraftStep(t)
    BY DEF Writers
  <2>2. CASE draft'[t][i].at = Stamp(t)
    BY <2>1, <2>2 DEF Between
  <2>3. CASE draft'[t][i].at # Stamp(t)
    BY <1>2, <2>1, <2>3 DEF DraftStep, Between
  <2> QED
    BY <2>2, <2>3
<1> QED
  BY <1>1, <1>2 DEF Between

\* A step that leaves the ledgers alone.
LEMMA QuietStep ==
  ASSUME ServiceInv, ServiceInv', ClocksAgree, InTime, listing' = listing, Wallets \subseteq Wallets',
         \A b \in Writers : Stamp(b)' \in Nat /\ Stamp(b) <= Stamp(b)' /\ DraftStep(b),
         \A s \in Settlements : pc'[s] = "refused" =>
           \/ pc[s] = "refused" /\ on'[s] = on[s] /\ refusal'[s] = refusal[s]
           \/ RefusalInTime(s)'
  PROVE  InTime'
<1>1. ASSUME NEW w \in Creations PROVE LedgerInTime(w)'
  <2>1. LedgerInTime(w)
    BY DEF InTime
  <2>2. ASSUME NEW i \in DOMAIN listing[w], NEW a \in Writers PROVE listing[w][i].at <= Stamp(a)'
    <3>1. /\ listing[w][i].at <= Stamp(a) /\ Stamp(a) <= Stamp(a)'
          /\ Stamp(a) \in Nat /\ Stamp(a)' \in Nat /\ listing[w][i].at \in Nat
      BY <2>1, TimesAreNatural DEF LedgerInTime
    <3> QED
      BY <3>1
  <2> QED
    BY <2>1, <2>2 DEF LedgerInTime
<1>2. \A a \in Writers : DraftInTime(a)'
  BY DraftsKeepTime
<1>3. ASSUME NEW s \in Refused' PROVE RefusalInTime(s)'
  <2>1. s \in Settlements /\ pc'[s] = "refused"
    BY DEF Refused
  <2>2. CASE pc[s] = "refused" /\ on'[s] = on[s] /\ refusal'[s] = refusal[s]
    <3>1. RefusalInTime(s)
      BY <2>1, <2>2 DEF InTime, Refused
    <3>2. PICK w \in Wallets, at \in Nat, count \in Nat :
            /\ on[s] = w /\ refusal[s].at = at /\ refusal[s].count = count
            /\ Between(w, at, count)
      BY <3>1 DEF RefusalInTime
    <3>3. w \in Wallets' /\ w \in Creations
      BY DEF Wallets
    <3>4. Between(w, at, count)'
      BY <3>2, <3>3, BetweenLasts
    <3> QED
      BY <2>2, <3>2, <3>3, <3>4 DEF RefusalInTime
  <2> QED
    BY <2>1, <2>2
<1> QED
  BY <1>1, <1>2, <1>3 DEF InTime
\* Entries of a draft are numbered after those of the ledger.
LEMMA SettledInOrder ==
  ASSUME WalletInv, ServiceInv, InTime, NEW s \in Settlements, NEW w \in Creations,
         w = on[s], pc[s] = "apply"
  PROVE  /\ \A i \in DOMAIN listing[w] : listing[w][i].n \in 1..Len(listing[w])
         /\ \A i \in DOMAIN draft[s] : draft[s][i].n = Len(listing[w]) + i /\ i \in Nat \ {0}
         /\ \A i \in DOMAIN draft[s] : \A j \in DOMAIN listing[w] :
              listing[w][j].at <= draft[s][i].at
         /\ \A i, j \in DOMAIN draft[s] : i < j => draft[s][i].at <= draft[s][j].at
<1>1. Numbered(listing[w]) /\ Follows(draft[s], Len(listing[w]), balance[w])
  BY ActorsAreDistinct DEF ServiceInv, LedgerOK, ActorOK, SettlementOK
<1>2. DraftInTime(s)
  BY DEF InTime, Writers
<1>3. DOMAIN draft[s] = 1..Len(draft[s]) /\ Len(draft[s]) \in Nat
  BY <1>1 DEF Follows
<1>4. \A i \in DOMAIN draft[s] : draft[s][i].n = Len(listing[w]) + i /\ i \in Nat \ {0}
  BY <1>1, <1>3 DEF Follows
<1> QED
  BY <1>1, <1>2, <1>4 DEF Numbered, DraftInTime

\* COMMIT of a settlement keeps the order of times.
LEMMA SettledLedgerInTime ==
  ASSUME WalletInv, ServiceInv, InTime, NEW s \in Settlements, CommitSettlement(s),
         NEW w \in Creations, w = on[s]
  PROVE  LedgerInTime(w)'
<1>1. /\ pc[s] = "apply" /\ s \in Writers /\ s \in Actors
      /\ Merged(listing[w], listing'[w], draft[s], Len(draft[s]), balance[w])
      /\ UNCHANGED <<clock, skew>>
  BY SettledEntries, ActorsAreDistinct DEF CommitSettlement, Writers
<1>2. LedgerInTime(w) /\ DraftInTime(s)
  BY <1>1 DEF InTime
<1>3. /\ \A i \in DOMAIN listing[w] : listing[w][i].n \in 1..Len(listing[w])
      /\ \A i \in DOMAIN draft[s] : draft[s][i].n = Len(listing[w]) + i /\ i \in Nat \ {0}
      /\ \A i \in DOMAIN draft[s] : \A j \in DOMAIN listing[w] :
           listing[w][j].at <= draft[s][i].at
      /\ \A i, j \in DOMAIN draft[s] : i < j => draft[s][i].at <= draft[s][j].at
  BY <1>1, SettledInOrder
<1>4. Len(listing[w]) \in Nat /\ DOMAIN draft[s] = 1..Len(draft[s])
  <2>1. listing[w] \in Seq(EntriesOf) /\ draft[s] \in Seq(EntriesOf)
    BY <1>1, DraftIsOfEntries DEF ServiceInv, LedgerOK
  <2> QED
    BY <2>1
<1>5. ASSUME NEW p \in DOMAIN listing'[w]
      PROVE  \/ \E j \in DOMAIN listing[w] : listing'[w][p] = listing[w][j]
             \/ \E j \in DOMAIN draft[s] : listing'[w][p] = draft[s][j]
  BY <1>1, <1>4 DEF Merged
<1>6. ASSUME NEW p \in DOMAIN listing'[w], NEW q \in DOMAIN listing'[w],
             listing'[w][p].n < listing'[w][q].n
      PROVE  listing'[w][p].at <= listing'[w][q].at
  <2>1. ASSUME NEW i \in DOMAIN listing[w], listing'[w][p] = listing[w][i]
        PROVE  listing'[w][p].at <= listing'[w][q].at
    <3>1. ASSUME NEW j \in DOMAIN listing[w], listing'[w][q] = listing[w][j]
          PROVE  listing'[w][p].at <= listing'[w][q].at
      BY <1>2, <1>6, <2>1, <3>1 DEF LedgerInTime
    <3>2. ASSUME NEW j \in DOMAIN draft[s], listing'[w][q] = draft[s][j]
          PROVE  listing'[w][p].at <= listing'[w][q].at
      BY <1>3, <2>1, <3>2
    <3> QED
      BY <1>5, <3>1, <3>2
  <2>2. ASSUME NEW i \in DOMAIN draft[s], listing'[w][p] = draft[s][i]
        PROVE  listing'[w][p].at <= listing'[w][q].at
    <3>1. ASSUME NEW j \in DOMAIN listing[w], listing'[w][q] = listing[w][j] PROVE FALSE
      <4>1. Len(listing[w]) + i < listing[w][j].n
        BY <1>3, <1>6, <2>2, <3>1
      <4>2. listing[w][j].n \in 1..Len(listing[w]) /\ i \in Nat \ {0}
        BY <1>3
      <4> QED
        BY <1>4, <4>1, <4>2
    <3>2. ASSUME NEW j \in DOMAIN draft[s], listing'[w][q] = draft[s][j]
          PROVE  listing'[w][p].at <= listing'[w][q].at
      <4>1. Len(listing[w]) + i < Len(listing[w]) + j /\ i \in Nat /\ j \in Nat
        BY <1>3, <1>6, <2>2, <3>2
      <4>2. i < j
        BY <1>4, <4>1
      <4> QED
        BY <1>3, <2>2, <3>2, <4>2
    <3> QED
      BY <1>5, <3>1, <3>2
  <2> QED
    BY <1>5, <2>1, <2>2
<1>7. ASSUME NEW p \in DOMAIN listing'[w], NEW a \in Writers
      PROVE  listing'[w][p].at <= Stamp(a)'
  <2>1. Stamp(a)' = Stamp(a)
    BY <1>1 DEF Stamp
  <2>2. listing'[w][p].at <= Stamp(a)
    BY <1>2, <1>5 DEF LedgerInTime, DraftInTime
  <2> QED
    BY <2>1, <2>2
<1> QED
  BY <1>6, <1>7 DEF LedgerInTime

\* The entries of a settlement come after the refusals before it.
LEMMA SettledAfterRefusals ==
  ASSUME WalletInv, ServiceInv, InTime, NEW s \in Settlements, CommitSettlement(s),
         NEW w \in Creations, w = on[s], NEW at \in Nat, NEW count \in Nat, Between(w, at, count)
  PROVE  Between(w, at, count)'
<1>1. /\ pc[s] = "apply" /\ s \in Writers /\ s \in Actors
      /\ Merged(listing[w], listing'[w], draft[s], Len(draft[s]), balance[w])
      /\ UNCHANGED <<clock, skew>>
      /\ pc' = [pc EXCEPT ![s] = "settled"]
      /\ draft' = [draft EXCEPT ![s] = <<>>]
      /\ on' = [on EXCEPT ![s] = NoWallet]
  BY SettledEntries, ActorsAreDistinct DEF CommitSettlement, Close, Writers
<1>2. /\ \A i \in DOMAIN listing[w] : listing[w][i].n \in 1..Len(listing[w])
      /\ \A i \in DOMAIN draft[s] : draft[s][i].n = Len(listing[w]) + i /\ i \in Nat \ {0}
  BY <1>1, SettledInOrder
<1>3. /\ Len(listing[w]) \in Nat /\ DOMAIN draft[s] = 1..Len(draft[s])
      /\ Len(draft[s]) \in Nat /\ Len(listing'[w]) = Len(listing[w]) + Len(draft[s])
  <2>1. listing[w] \in Seq(EntriesOf) /\ draft[s] \in Seq(EntriesOf)
    BY <1>1, DraftIsOfEntries DEF ServiceInv, LedgerOK
  <2>2. Len(listing'[w]) = Len(listing[w]) + Len(draft[s])
    BY <1>1 DEF Merged
  <2> QED
    BY <2>1, <2>2
<1>4. count <= Len(listing'[w])
  <2>1. count <= Len(listing[w])
    BY DEF Between
  <2>2. \A i, j \in Nat : count <= i => count <= i + j
    OBVIOUS
  <2> QED
    BY <1>3, <2>1, <2>2
<1>5. ASSUME NEW p \in DOMAIN listing'[w]
      PROVE  /\ listing'[w][p].n <= count => listing'[w][p].at <= at
             /\ listing'[w][p].n > count => at <= listing'[w][p].at
  <2>1. ASSUME NEW j \in DOMAIN listing[w], listing'[w][p] = listing[w][j]
        PROVE  /\ listing'[w][p].n <= count => listing'[w][p].at <= at
               /\ listing'[w][p].n > count => at <= listing'[w][p].at
    BY <2>1 DEF Between
  <2>2. ASSUME NEW j \in DOMAIN draft[s], listing'[w][p] = draft[s][j]
        PROVE  /\ listing'[w][p].n <= count => listing'[w][p].at <= at
               /\ listing'[w][p].n > count => at <= listing'[w][p].at
    <3>1. at <= draft[s][j].at
      BY <1>1 DEF Between
    <3>2. draft[s][j].n = Len(listing[w]) + j /\ j \in Nat \ {0} /\ count <= Len(listing[w])
      BY <1>2 DEF Between
    <3>3. ~(draft[s][j].n <= count)
      BY <1>3, <3>2
    <3> QED
      BY <2>2, <3>1, <3>3
  <2> QED
    BY <1>1, <1>3, <2>1, <2>2 DEF Merged
<1>6. ASSUME NEW t \in Settlements, pc'[t] = "apply", on'[t] = w, NEW i \in DOMAIN draft'[t]
      PROVE  at <= draft'[t][i].at
  <2>1. t # s
    BY <1>1, <1>6 DEF WalletInv, Shapes
  <2>2. pc[t] = "apply" /\ on[t] = w /\ draft'[t] = draft[t]
    BY <1>1, <1>6, <2>1 DEF WalletInv, Shapes
  <2> QED
    BY <1>6, <2>2 DEF Between
<1>7. \A a \in Writers : at <= Stamp(a)'
  BY <1>1 DEF Between, Stamp
<1> QED
  BY <1>4, <1>5, <1>6, <1>7 DEF Between

LEMMA CommitSettlementKeepsTime ==
  ASSUME WalletInv, ServiceInv, InTime, NEW s \in Settlements, CommitSettlement(s),
         Wallets \subseteq Wallets'
  PROVE  InTime'
<1>0. PICK w : w = on[s]
  OBVIOUS
<1>1. /\ w \in Creations /\ pc[s] = "apply" /\ s \in Actors
      /\ \A v \in Creations \ {w} : listing'[v] = listing[v]
      /\ UNCHANGED <<clock, skew, refusal>>
      /\ pc' = [pc EXCEPT ![s] = "settled"]
      /\ draft' = [draft EXCEPT ![s] = <<>>]
      /\ on' = [on EXCEPT ![s] = NoWallet]
  BY <1>0, SettledEntries, ActorsAreDistinct DEF CommitSettlement, Close, answers
<1>2. /\ pc'[s] = "settled" /\ draft'[s] = <<>>
      /\ \A a \in Actors \ {s} : pc'[a] = pc[a] /\ on'[a] = on[a] /\ draft'[a] = draft[a]
      /\ \A a \in Writers : Stamp(a)' = Stamp(a)
  BY <1>1 DEF WalletInv, Shapes, Stamp
<1>3. ASSUME NEW v \in Creations PROVE LedgerInTime(v)'
  <2>1. CASE v = w
    BY <1>0, <2>1, SettledLedgerInTime
  <2>2. CASE v # w
    BY <1>1, <1>2, <2>2 DEF InTime, LedgerInTime
  <2> QED
    BY <2>1, <2>2
<1>4. ASSUME NEW a \in Writers PROVE DraftInTime(a)'
  <2>1. CASE a = s
    <3>1. DOMAIN <<>> = {}
      OBVIOUS
    <3> QED
      BY <1>2, <2>1, <3>1 DEF DraftInTime
  <2>2. CASE a # s
    <3>1. a \in Actors /\ pc'[a] = pc[a] /\ on'[a] = on[a] /\ draft'[a] = draft[a]
      BY <1>2, <2>2 DEF Actors
    <3>2. ASSUME a \in Settlements, pc[a] = "apply"
          PROVE  listing'[on[a]] = listing[on[a]]
      <4>1. /\ on[a] \in Creations /\ a \in locks[on[a]]
            /\ s \in locks[w]
        BY <1>0, <1>1, <3>1, <3>2 DEF ServiceInv, ActorOK, SettlementOK
      <4>2. locks[w] = {s}
        BY <1>1, <4>1, ActorsAreDistinct DEF ServiceInv, LocksOK, Holds
      <4> QED
        BY <1>1, <2>2, <4>1, <4>2
    <3>3. DraftInTime(a)
      BY DEF InTime
    <3> QED
      BY <1>2, <3>1, <3>2, <3>3 DEF DraftInTime
  <2> QED
    BY <2>1, <2>2
<1>5. ASSUME NEW r \in Refused' PROVE RefusalInTime(r)'
  <2>1. r \in Settlements /\ pc'[r] = "refused" /\ r # s /\ r \in Actors
    BY <1>2, ActorsAreDistinct DEF Refused
  <2>2. r \in Refused /\ on'[r] = on[r] /\ refusal'[r] = refusal[r]
    BY <1>1, <1>2, <2>1 DEF Refused
  <2>3. PICK v \in Wallets, at \in Nat, count \in Nat :
          /\ on[r] = v /\ refusal[r].at = at /\ refusal[r].count = count
          /\ Between(v, at, count)
    BY <2>2 DEF InTime, RefusalInTime
  <2>4. v \in Wallets' /\ v \in Creations
    BY DEF Wallets
  <2>5. Between(v, at, count)'
    <3>1. CASE v = w
      BY <1>0, <2>3, <2>4, <3>1, SettledAfterRefusals
    <3>2. CASE v # w
      <4>1. listing'[v] = listing[v]
        BY <1>1, <2>4, <3>2
      <4>2. \A t \in Settlements : pc'[t] = "apply" /\ on'[t] = v =>
              pc[t] = "apply" /\ on[t] = v /\ draft'[t] = draft[t]
        BY <1>2, ActorsAreDistinct
      <4> QED
        BY <1>2, <2>3, <4>1, <4>2 DEF Between
    <3> QED
      BY <3>1, <3>2
  <2> QED
    BY <2>2, <2>3, <2>4, <2>5 DEF RefusalInTime
<1> QED
  BY <1>3, <1>4, <1>5 DEF InTime
\* COMMIT of a creation: a ledger with the opening entry, or none.
LEMMA CommitCreationKeepsTime ==
  ASSUME WalletInv, ServiceInv, InTime, NEW c \in Creations, CommitCreation(c),
         Wallets \subseteq Wallets'
  PROVE  InTime'
<1>1. /\ listing[c] = <<>> /\ listing'[c] = draft[c]
      /\ Opens(draft[c], Opening[c])
      /\ \A v \in Creations \ {c} : listing'[v] = listing[v]
      /\ \A s \in Settlements : pc[s] = "apply" => on[s] # c
  BY OpenedLedger
<1>2. /\ UNCHANGED <<clock, skew, refusal>>
      /\ pc' = [pc EXCEPT ![c] = "created"]
      /\ draft' = [draft EXCEPT ![c] = <<>>]
      /\ on' = [on EXCEPT ![c] = NoWallet]
      /\ c \in Actors /\ c \in Writers /\ c \notin Settlements
  BY ActorsAreDistinct DEF CommitCreation, Close, answers, Writers
<1>3. /\ pc'[c] = "created" /\ draft'[c] = <<>>
      /\ \A a \in Actors \ {c} : pc'[a] = pc[a] /\ on'[a] = on[a] /\ draft'[a] = draft[a]
      /\ \A a \in Writers : Stamp(a)' = Stamp(a)
  BY <1>2 DEF WalletInv, Shapes, Stamp
<1>4. ASSUME NEW v \in Creations PROVE LedgerInTime(v)'
  <2>1. CASE v = c
    <3>1. \A i, j \in DOMAIN draft[c] : i = j
      <4>1. DOMAIN <<>> = {}
        OBVIOUS
      <4>2. ASSUME Opening[c] # 0 PROVE DOMAIN draft[c] = {1}
        <5>1. draft[c] \in Seq(EntriesOf) /\ Len(draft[c]) = 1
          BY <1>1, <4>2 DEF Opens
        <5> QED
          BY <5>1
      <4> QED
        BY <1>1, <4>1, <4>2 DEF Opens
    <3>2. \A i, j \in DOMAIN draft[c] : ~(draft[c][i].n < draft[c][j].n)
      <4>1. \A i \in DOMAIN draft[c] : draft[c][i].n \in Nat
        <5>1. draft[c] \in Seq(EntriesOf) /\ \A e \in EntriesOf : e.n \in Nat
          BY <1>2, DraftIsOfEntries DEF EntriesOf
        <5> QED
          BY <5>1
      <4>2. \A x \in Nat : ~(x < x)
        OBVIOUS
      <4> QED
        BY <3>1, <4>1, <4>2
    <3>3. \A i \in DOMAIN draft[c] : \A a \in Writers : draft[c][i].at <= Stamp(a)
      BY <1>2 DEF InTime, DraftInTime
    <3> QED
      BY <1>1, <1>3, <2>1, <3>2, <3>3 DEF LedgerInTime
  <2>2. CASE v # c
    BY <1>1, <1>3, <2>2 DEF InTime, LedgerInTime
  <2> QED
    BY <2>1, <2>2
<1>5. ASSUME NEW a \in Writers PROVE DraftInTime(a)'
  <2>1. CASE a = c
    <3>1. DOMAIN <<>> = {}
      OBVIOUS
    <3> QED
      BY <1>3, <2>1, <3>1 DEF DraftInTime
  <2>2. CASE a # c
    <3>1. a \in Actors /\ pc'[a] = pc[a] /\ on'[a] = on[a] /\ draft'[a] = draft[a]
      BY <1>3, <2>2 DEF Actors
    <3>2. ASSUME a \in Settlements, pc[a] = "apply"
          PROVE  listing'[on[a]] = listing[on[a]]
      <4>1. on[a] \in Creations /\ on[a] # c
        BY <1>1, <3>1, <3>2 DEF ServiceInv, ActorOK, SettlementOK
      <4> QED
        BY <1>1, <4>1
    <3>3. DraftInTime(a)
      BY DEF InTime
    <3> QED
      BY <1>3, <3>1, <3>2, <3>3 DEF DraftInTime
  <2> QED
    BY <2>1, <2>2
<1>6. ASSUME NEW r \in Refused' PROVE RefusalInTime(r)'
  <2>1. r \in Settlements /\ pc'[r] = "refused" /\ r # c /\ r \in Actors
    BY <1>2, ActorsAreDistinct DEF Refused
  <2>2. r \in Refused /\ on'[r] = on[r] /\ refusal'[r] = refusal[r]
    BY <1>2, <1>3, <2>1 DEF Refused
  <2>3. PICK v \in Wallets, at \in Nat, count \in Nat :
          /\ on[r] = v /\ refusal[r].at = at /\ refusal[r].count = count
          /\ Between(v, at, count)
    BY <2>2 DEF InTime, RefusalInTime
  <2>4. v \in Wallets' /\ v \in Creations /\ v # c
    <3>1. ~Exists(c)
      BY DEF CommitCreation, WalletInv, RowsAreCommitted
    <3> QED
      BY <3>1 DEF Wallets
  <2>5. Between(v, at, count)'
    <3>1. listing'[v] = listing[v]
      BY <1>1, <2>4
    <3>2. \A t \in Settlements : pc'[t] = "apply" /\ on'[t] = v =>
            pc[t] = "apply" /\ on[t] = v /\ draft'[t] = draft[t]
      BY <1>2, <1>3, ActorsAreDistinct
    <3> QED
      BY <1>3, <2>3, <3>1, <3>2 DEF Between
  <2> QED
    BY <2>2, <2>3, <2>4, <2>5 DEF RefusalInTime
<1> QED
  BY <1>4, <1>5, <1>6 DEF InTime

\* A draft that is dropped, or left alone by its writer.
LEMMA DroppedOrKept ==
  ASSUME NEW a, \/ draft'[a] = <<>>
                \/ draft'[a] = draft[a] /\ pc'[a] = pc[a] /\ on'[a] = on[a]
  PROVE  DraftStep(a)
<1>1. DOMAIN <<>> = {}
  OBVIOUS
<1> QED
  BY <1>1 DEF DraftStep

\* A transaction that ends without having written anything, unless it is a refusal.
LEMMA ClosingIsQuiet ==
  ASSUME WalletInv, NEW a \in Actors, NEW next, Close(a, next), next # "refused",
         pc[a] # "refused"
  PROVE  /\ \A b \in Writers : DraftStep(b)
         /\ \A s \in Settlements : pc'[s] = "refused" => pc[s] = "refused" /\ on'[s] = on[s]
<1>1. /\ pc'[a] = next /\ draft'[a] = <<>>
      /\ \A b \in Actors \ {a} : pc'[b] = pc[b] /\ on'[b] = on[b] /\ draft'[b] = draft[b]
  BY DEF Close, WalletInv, Shapes
<1>2. ASSUME NEW b \in Writers PROVE DraftStep(b)
  <2>1. b \in Actors
    BY DEF Actors
  <2> QED
    BY <1>1, <2>1, DroppedOrKept
<1> QED
  BY <1>1, <1>2, ActorsAreDistinct

\* The opening entry is stamped with the time of this moment.
LEMMA LookUpIsQuiet ==
  ASSUME WalletInv, ServiceInv, NEW c \in Creations, LookUp(c)
  PROVE  /\ \A b \in Writers : DraftStep(b)
         /\ \A s \in Settlements : pc'[s] = "refused" => pc[s] = "refused" /\ on'[s] = on[s]
<1>1. c \in Actors /\ pc[c] = "idle" /\ c \notin Settlements
  BY ActorsAreDistinct DEF LookUp
<1>2. CASE \E w \in Wallets : Owner[w] = Owner[c]
  <2>1. Close(c, "exists")
    BY <1>2 DEF LookUp
  <2> QED
    BY <1>1, <2>1, ClosingIsQuiet
<1>3. CASE ~\E w \in Wallets : Owner[w] = Owner[c]
  <2>1. PICK x : x = Stamp(c)
    OBVIOUS
  <2>2. /\ pc' = [pc EXCEPT ![c] = "insert"] /\ on' = on
        /\ draft' = [draft EXCEPT ![c] =
             IF Opening[c] = 0 THEN <<>>
             ELSE << [n |-> 1, at |-> x, change |-> Opening[c], after |-> Opening[c]] >>]
    BY <1>3, <2>1 DEF LookUp
  <2>3. /\ \A b \in Actors \ {c} : pc'[b] = pc[b] /\ on'[b] = on[b] /\ draft'[b] = draft[b]
        /\ draft'[c] = IF Opening[c] = 0 THEN <<>>
             ELSE << [n |-> 1, at |-> x, change |-> Opening[c], after |-> Opening[c]] >>
    BY <1>1, <2>2 DEF WalletInv, Shapes
  <2>4. DraftStep(c)
    <3>1. CASE Opening[c] = 0
      BY <2>3, <3>1, DroppedOrKept
    <3>2. CASE Opening[c] # 0
      <4>1. draft'[c] = << [n |-> 1, at |-> x, change |-> Opening[c], after |-> Opening[c]] >>
        BY <2>3, <3>2
      <4>2. DOMAIN draft'[c] = {1} /\ draft'[c][1].at = x
        BY <4>1
      <4> QED
        BY <2>1, <4>2 DEF DraftStep
    <3> QED
      BY <3>1, <3>2
  <2>5. ASSUME NEW b \in Writers, b # c PROVE DraftStep(b)
    <3>1. b \in Actors
      BY DEF Actors
    <3> QED
      BY <2>3, <2>5, <3>1, DroppedOrKept
  <2> QED
    BY <1>1, <2>3, <2>4, <2>5, ActorsAreDistinct
<1> QED
  BY <1>2, <1>3

\* So is every entry of a settlement.
LEMMA ApplyIsQuiet ==
  ASSUME WalletInv, ServiceInv, NEW s \in Settlements, Apply(s)
  PROVE  \A b \in Writers : DraftStep(b)
<1>1. PICK x : x = Stamp(s)
  OBVIOUS
<1>2. PICK change \in Changes :
        draft' = [draft EXCEPT ![s] =
            Append(draft[s], [ n |-> Len(listing[on[s]]) + Len(draft[s]) + 1, at |-> x,
                               change |-> change, after |-> BalanceOf(s) + change ])]
  BY <1>1 DEF Apply
<1>3. PICK e : e = [ n |-> Len(listing[on[s]]) + Len(draft[s]) + 1, at |-> x,
                     change |-> change, after |-> BalanceOf(s) + change ]
  OBVIOUS
<1>4. s \in Actors /\ pc' = pc /\ on' = on
  BY ActorsAreDistinct DEF Apply
<1>5. /\ draft'[s] = Append(draft[s], e) /\ e.at = x
      /\ \A b \in Actors \ {s} : draft'[b] = draft[b]
  BY <1>2, <1>3, <1>4 DEF WalletInv, Shapes
<1>6. DraftStep(s)
  <2>1. draft[s] \in Seq(EntriesOf)
    BY <1>4, DraftIsOfEntries
  <2>2. DOMAIN draft[s] = 1..Len(draft[s]) /\ Len(draft[s]) \in Nat
    BY <2>1
  <2>3. DOMAIN Append(draft[s], e) = 1..(Len(draft[s]) + 1)
        /\ Append(draft[s], e)[Len(draft[s]) + 1] = e
        /\ \A i \in 1..Len(draft[s]) : Append(draft[s], e)[i] = draft[s][i]
    <3>1. \A u \in Seq(EntriesOf) : /\ DOMAIN Append(u, e) = 1..(Len(u) + 1)
                                    /\ Append(u, e)[Len(u) + 1] = e
                                    /\ \A i \in 1..Len(u) : Append(u, e)[i] = u[i]
      OBVIOUS
    <3> QED
      BY <2>1, <3>1
  <2>4. ASSUME NEW i \in DOMAIN draft'[s]
        PROVE  \/ i \in DOMAIN draft[s] /\ draft'[s][i] = draft[s][i]
               \/ draft'[s][i].at = x /\ \A j \in DOMAIN draft'[s] : j <= i
    <3>1. i \in 1..(Len(draft[s]) + 1) /\ DOMAIN draft'[s] = 1..(Len(draft[s]) + 1)
      BY <1>5, <2>3
    <3>2. CASE i = Len(draft[s]) + 1
      BY <1>5, <2>2, <2>3, <3>1, <3>2
    <3>3. CASE i # Len(draft[s]) + 1
      <4>1. i \in 1..Len(draft[s])
        BY <2>2, <3>1, <3>3
      <4> QED
        BY <1>5, <2>2, <2>3, <4>1
    <3> QED
      BY <3>2, <3>3
  <2> QED
    BY <1>1, <1>4, <2>4 DEF DraftStep
<1>7. ASSUME NEW b \in Writers, b # s PROVE DraftStep(b)
  <2>1. b \in Actors
    BY DEF Actors
  <2> QED
    BY <1>4, <1>5, <1>7, <2>1, DroppedOrKept
<1> QED
  BY <1>6, <1>7
\* A refusal is stamped while its wallet is held: nothing is being committed there.
LEMMA RefusalIsInTime ==
  ASSUME WalletInv, ServiceInv, ClocksAgree, InTime, DOMAIN refusal = Settlements,
         NEW s \in Settlements, Refuse(s)
  PROVE  RefusalInTime(s)'
<1>1. PICK w : w = on[s]
  OBVIOUS
<1>2. PICK at : at = Stamp(s)
  OBVIOUS
<1>3. PICK count : count = Len(listing[w])
  OBVIOUS
<1>4. /\ pc[s] = "apply" /\ draft[s] = <<>> /\ s \in Actors /\ s \in Writers
      /\ refusal' = [refusal EXCEPT ![s] =
           [at |-> at, told |-> balance[w], count |-> count]]
      /\ pc' = [pc EXCEPT ![s] = "refused"]
      /\ draft' = [draft EXCEPT ![s] = <<>>]
      /\ on' = [on EXCEPT ![s] = on[s]]
      /\ listing' = listing /\ balance' = balance /\ clock' = clock /\ skew' = skew
  BY <1>1, <1>2, <1>3, ActorsAreDistinct DEF Refuse, Close, tables, Writers
<1>5. /\ on'[s] = w /\ refusal'[s].at = at /\ refusal'[s].count = count
      /\ pc'[s] = "refused"
      /\ \A a \in Actors \ {s} : pc'[a] = pc[a] /\ on'[a] = on[a]
  BY <1>1, <1>4 DEF WalletInv, Shapes
<1>6. w \in Wallets /\ w \in Creations /\ w \in Wallets'
  BY <1>1, <1>4 DEF WalletInv, DraftsOnWallets, Wallets, Exists
<1>7. at \in Nat
  BY <1>2, <1>4, StampType DEF ServiceInv
<1>8. Numbered(listing[w]) /\ count \in Nat
  <2>1. listing[w] \in Seq(EntriesOf) /\ Numbered(listing[w])
    BY <1>6 DEF ServiceInv, LedgerOK
  <2> QED
    BY <1>3, <2>1
<1>9. \A a \in Writers : at <= Stamp(a)'
  <2> SUFFICES ASSUME NEW a \in Writers PROVE at <= Stamp(a)'
    OBVIOUS
  <2>1. Stamp(a) = at /\ Stamp(a)' = Stamp(a)
    BY <1>2, <1>4, AgreedStamp DEF Stamp
  <2> QED
    BY <1>7, <2>1
<1>10. ASSUME NEW i \in DOMAIN listing[w]
       PROVE  ~(listing[w][i].n > count) /\ listing[w][i].at <= at
  <2>1. listing[w][i].n \in 1..count
    BY <1>3, <1>8 DEF Numbered
  <2>2. listing[w][i].at <= at
    BY <1>2, <1>4, <1>6 DEF InTime, LedgerInTime
  <2> QED
    BY <1>8, <2>1, <2>2
<1>11. ASSUME NEW t \in Settlements, pc'[t] = "apply", on'[t] = w PROVE FALSE
  <2>1. t # s /\ pc[t] = "apply" /\ on[t] = w /\ t \in Actors
    BY <1>4, <1>5, <1>11, ActorsAreDistinct
  <2>2. s \in locks[w] /\ t \in locks[w]
    BY <1>1, <1>4, <2>1 DEF ServiceInv, ActorOK, SettlementOK
  <2>3. locks[w] = {s}
    BY <1>6, <2>2, ActorsAreDistinct DEF ServiceInv, LocksOK, Holds
  <2> QED
    BY <2>1, <2>2, <2>3
<1>12. count <= Len(listing[w])
  BY <1>3, <1>8
<1>13. Between(w, at, count)'
  BY <1>4, <1>9, <1>10, <1>11, <1>12 DEF Between
<1> QED
  BY <1>5, <1>6, <1>7, <1>8, <1>13 DEF RefusalInTime

\* The drafts of a refused settlement.
LEMMA RefuseIsQuiet ==
  ASSUME WalletInv, NEW s \in Settlements, Refuse(s), DOMAIN refusal = Settlements
  PROVE  /\ \A b \in Writers : DraftStep(b)
         /\ \A t \in Settlements \ {s} : pc'[t] = "refused" =>
              pc[t] = "refused" /\ on'[t] = on[t] /\ refusal'[t] = refusal[t]
<1>1. /\ s \in Actors /\ Close(s, "refused") /\ \A t \in Settlements \ {s} : refusal'[t] = refusal[t]
  BY ActorsAreDistinct DEF Refuse
<1>2. /\ draft'[s] = <<>>
      /\ \A b \in Actors \ {s} : pc'[b] = pc[b] /\ on'[b] = on[b] /\ draft'[b] = draft[b]
  BY <1>1 DEF Close, WalletInv, Shapes
<1>3. ASSUME NEW b \in Writers PROVE DraftStep(b)
  <2>1. b \in Actors
    BY DEF Actors
  <2> QED
    BY <1>2, <2>1, DroppedOrKept
<1> QED
  BY <1>1, <1>2, <1>3, ActorsAreDistinct

\* What the steps that leave the ledgers alone do to drafts and refusals.
Quiet ==
  /\ \A b \in Writers : DraftStep(b)
  /\ \A s \in Settlements : pc'[s] = "refused" => pc[s] = "refused" /\ on'[s] = on[s]

LEMMA NextIsQuiet ==
  ASSUME WalletInv, ServiceInv, [Next]_vars,
         \A c \in Creations : ~CommitCreation(c),
         \A s \in Settlements : ~CommitSettlement(s) /\ ~Refuse(s)
  PROVE  Quiet
<1>1. ASSUME UNCHANGED <<pc, on, draft>> PROVE Quiet
  BY <1>1, DroppedOrKept DEF Quiet
<1>2. ASSUME NEW c \in Creations, LookUp(c) PROVE Quiet
  BY <1>2, LookUpIsQuiet DEF Quiet
<1>3. ASSUME NEW a \in Actors, NEW next, Close(a, next), next # "refused", pc[a] # "refused"
      PROVE  Quiet
  BY <1>3, ClosingIsQuiet DEF Quiet
<1>4. ASSUME NEW c \in Creations, Insert(c) PROVE Quiet
  <2>1. CASE Close(c, "exists")
    BY <1>3, <1>4, <2>1, ActorsAreDistinct DEF Insert
  <2>2. CASE ~Close(c, "exists")
    <3>1. pc' = [pc EXCEPT ![c] = "commit"] /\ UNCHANGED <<on, draft>>
      BY <1>4, <2>2 DEF Insert
    <3>2. \A b \in Writers : DraftStep(b)
      <4>1. \A a \in Actors \ {c} : pc'[a] = pc[a]
        BY <3>1 DEF WalletInv, Shapes
      <4>2. c \notin Settlements
        BY ActorsAreDistinct
      <4> QED
        BY <3>1, <4>1, <4>2 DEF DraftStep, Writers, Actors
    <3> QED
      BY <3>1, <3>2, ActorsAreDistinct DEF Quiet, WalletInv, Shapes
  <2> QED
    BY <2>1, <2>2
<1>5. ASSUME NEW s \in Settlements, NEW w \in Creations, Begin(s, w) PROVE Quiet
  <2>1. /\ pc[s] = "idle" /\ pc' = [pc EXCEPT ![s] = "apply"] /\ on' = [on EXCEPT ![s] = w]
        /\ draft' = draft /\ s \in Actors
    BY <1>5, ActorsAreDistinct DEF Begin
  <2>2. draft[s] = <<>>
    BY <2>1 DEF ServiceInv, ActorOK, SettlementOK
  <2>3. /\ pc'[s] = "apply"
        /\ \A a \in Actors \ {s} : pc'[a] = pc[a] /\ on'[a] = on[a]
    BY <2>1 DEF WalletInv, Shapes
  <2>4. ASSUME NEW b \in Writers PROVE DraftStep(b)
    <3>1. b \in Actors
      BY DEF Actors
    <3> QED
      BY <2>1, <2>2, <2>3, <3>1, DroppedOrKept
  <2> QED
    BY <2>3, <2>4, ActorsAreDistinct DEF Quiet
<1>6. ASSUME NEW s \in Settlements, Apply(s) PROVE Quiet
  <2>1. pc' = pc /\ on' = on
    BY <1>6 DEF Apply
  <2> QED
    BY <1>6, <2>1, ApplyIsQuiet DEF Quiet
<1>7. ASSUME NEW r \in Reconcilers, ReadLedger(r) PROVE Quiet
  BY <1>3, <1>7, ActorsAreDistinct DEF ReadLedger
<1>8. ASSUME NEW r \in Reconcilers, NEW w \in Creations, ReadStored(r, w) PROVE Quiet
  <2>1. /\ pc' = [pc EXCEPT ![r] = "sum"] /\ on' = [on EXCEPT ![r] = w] /\ draft' = draft
        /\ r \in Actors
    BY <1>8, ActorsAreDistinct DEF ReadStored
  <2>2. \A a \in Actors \ {r} : pc'[a] = pc[a] /\ on'[a] = on[a]
    BY <2>1 DEF WalletInv, Shapes
  <2>3. r \notin Writers /\ r \notin Settlements
    BY WalletServiceAssumption, ActorsAreDistinct
  <2>4. ASSUME NEW b \in Writers PROVE DraftStep(b)
    <3>1. b \in Actors /\ b # r
      BY <2>3 DEF Actors
    <3> QED
      BY <2>1, <2>2, <3>1, DroppedOrKept
  <2> QED
    BY <2>2, <2>3, <2>4, ActorsAreDistinct DEF Quiet
<1>9. ASSUME NEW a \in Actors, Crash(a) PROVE Quiet
  BY <1>3, <1>9 DEF Crash
<1>10. ASSUME \/ Tick \/ UNCHANGED vars
              \/ \E k \in Walkers, w \in Creations : Page(k, w)
              \/ \E w \in Creations : Tamper(w)
       PROVE  Quiet
  BY <1>1, <1>10 DEF Tick, vars, session, Page, Tamper
<1> QED
  BY <1>2, <1>4, <1>5, <1>6, <1>7, <1>8, <1>9, <1>10 DEF Next

\* Clocks never go back, and keep their distance.
LEMMA ClocksGoOn ==
  ASSUME ServiceInv, ServiceInv', [Next]_vars
  PROVE  /\ skew' = skew
         /\ \A a \in Writers : Stamp(a)' \in Nat /\ Stamp(a) <= Stamp(a)'
<1>1. skew' = skew /\ (clock' = clock \/ clock' = clock + 1)
  BY DEF Next, LookUp, Insert, CommitCreation, Begin, Apply, CommitSettlement, Refuse,
         ReadStored, ReadLedger, Page, Tamper, Crash, Tick, vars, world
<1>2. ASSUME NEW a \in Writers PROVE Stamp(a)' \in Nat /\ Stamp(a) <= Stamp(a)'
  <2>1. skew[a] \in Nat /\ clock \in Nat
    <3>1. skew[a] \in Skews /\ clock \in 0..MaxClock /\ Skews \subseteq Nat /\ MaxClock \in Nat
      BY WalletServiceAssumption DEF ServiceInv, World
    <3>2. skew[a] \in Nat
      BY <3>1
    <3>3. clock \in Nat
      BY <3>1
    <3> QED
      BY <3>2, <3>3
  <2>2. Stamp(a) = clock + skew[a] /\ Stamp(a)' = clock' + skew[a]
    BY <1>1 DEF Stamp
  <2> QED
    BY <1>1, <2>1, <2>2
<1> QED
  BY <1>1, <1>2

LEMMA WalletsStay ==
  ASSUME WalletInv, WalletInv', [Next]_vars
  PROVE  Wallets \subseteq Wallets'
<1> SUFFICES ASSUME NEW c \in Wallets PROVE c \in Wallets'
  OBVIOUS
<1>1. c \in Creations /\ c \in Actors /\ pc[c] = "created"
  BY ActorsAreDistinct DEF Wallets, WalletInv, RowsAreCommitted
<1>2. pc'[c] = "created"
  <2>1. ASSUME NEW a \in Actors, NEW next, pc' = [pc EXCEPT ![a] = next], pc[a] # "created"
        PROVE  pc'[c] = "created"
    BY <1>1, <2>1 DEF WalletInv, Shapes
  <2>2. ASSUME NEW d \in Creations, LookUp(d) \/ Insert(d) \/ CommitCreation(d)
        PROVE  pc'[c] = "created"
    BY <2>1, <2>2, ActorsAreDistinct DEF LookUp, Insert, CommitCreation, Close
  <2>3. ASSUME NEW s \in Settlements, NEW w \in Creations, Begin(s, w)
        PROVE  pc'[c] = "created"
    BY <2>1, <2>3, ActorsAreDistinct DEF Begin
  <2>4. ASSUME NEW s \in Settlements, CommitSettlement(s) \/ Refuse(s)
        PROVE  pc'[c] = "created"
    BY <2>1, <2>4, ActorsAreDistinct DEF CommitSettlement, Refuse, Close
  <2>5. ASSUME NEW r \in Reconcilers, ReadLedger(r) \/ \E w \in Creations : ReadStored(r, w)
        PROVE  pc'[c] = "created"
    BY <2>1, <2>5, ActorsAreDistinct DEF ReadLedger, ReadStored, Close
  <2>6. ASSUME NEW a \in Actors, Crash(a) PROVE pc'[c] = "created"
    BY <2>1, <2>6 DEF Crash, Close
  <2>7. CASE pc' = pc
    BY <1>1, <2>7
  <2> QED
    BY <2>2, <2>3, <2>4, <2>5, <2>6, <2>7 DEF Next, Apply, Page, Tamper, Tick, vars, session
<1> QED
  BY <1>1, <1>2 DEF Wallets, WalletInv, RowsAreCommitted

LEMMA NextKeepsTime ==
  ASSUME WalletInv, WalletInv', ServiceInv, ServiceInv', ClocksAgree, InTime,
         DOMAIN refusal = Settlements, [Next]_vars
  PROVE  InTime'
<1>1. Wallets \subseteq Wallets' /\ \A a \in Writers : Stamp(a)' \in Nat /\ Stamp(a) <= Stamp(a)'
  BY ClocksGoOn, WalletsStay
<1>2. ASSUME NEW c \in Creations, CommitCreation(c) PROVE InTime'
  BY <1>1, <1>2, CommitCreationKeepsTime
<1>3. ASSUME NEW s \in Settlements, CommitSettlement(s) PROVE InTime'
  BY <1>1, <1>3, CommitSettlementKeepsTime
<1>4. ASSUME NEW s \in Settlements, Refuse(s) PROVE InTime'
  <2>1. listing' = listing
    BY <1>4 DEF Refuse, tables
  <2>2. /\ \A b \in Writers : DraftStep(b)
        /\ \A t \in Settlements \ {s} : pc'[t] = "refused" =>
             pc[t] = "refused" /\ on'[t] = on[t] /\ refusal'[t] = refusal[t]
    BY <1>4, RefuseIsQuiet
  <2>3. RefusalInTime(s)'
    BY <1>4, RefusalIsInTime
  <2> QED
    BY <1>1, <2>1, <2>2, <2>3, QuietStep
<1>5. ASSUME \A c \in Creations : ~CommitCreation(c),
             \A s \in Settlements : ~CommitSettlement(s) /\ ~Refuse(s)
      PROVE  InTime'
  <2>1. listing' = listing
    BY <1>5, LedgersRest
  <2>2. Quiet
    BY <1>5, NextIsQuiet
  <2>3. refusal' = refusal
    BY <1>5 DEF Next, LookUp, Insert, Begin, Apply, ReadStored, ReadLedger, Page, Tamper, Crash,
                Tick, vars, answers
  <2> QED
    BY <1>1, <2>1, <2>2, <2>3, QuietStep DEF Quiet
<1> QED
  BY <1>2, <1>3, <1>4, <1>5

\* Where clocks agree, entries, drafts and refusals are in the order of their times.
THEOREM ClockInvariant == Spec => []ClockInv
<1>1. ASSUME Init PROVE ClockInv
  <2>1. DOMAIN <<>> = {}
    OBVIOUS
  <2> QED
    BY <1>1, <2>1, ActorsAreDistinct
       DEF Init, ClockInv, InTime, LedgerInTime, DraftInTime, Refused, Writers, Actors
<1>2. ASSUME WalletInv, WalletInv', ServiceInv, ServiceInv', ClockInv, [Next]_vars
      PROVE  ClockInv'
  <2>1. DOMAIN refusal' = Settlements
    BY <1>2 DEF ClockInv, Next, LookUp, Insert, CommitCreation, Begin, Apply, CommitSettlement,
         Refuse, ReadStored, ReadLedger, Page, Tamper, Crash, Tick, vars, answers
  <2>2. skew' = skew
    BY <1>2, ClocksGoOn
  <2>3. ClocksAgree' => ClocksAgree
    BY <2>2 DEF ClocksAgree
  <2> QED
    BY <1>2, <2>1, <2>3, NextKeepsTime DEF ClockInv
<1> QED
  BY <1>1, <1>2, WalletInvariant, ServiceInvariant, PTL DEF Spec

\* A nonempty set of places in a ledger has a last one.
LEMMA LastPlace ==
  ASSUME NEW n \in Nat, NEW past, past \subseteq 1..n, past # {}
  PROVE  \E i \in past : \A j \in past : j <= i
<1> DEFINE T == { n - i : i \in past }
<1>1. T \subseteq Nat /\ T # {}
  <2>1. ASSUME NEW i \in past PROVE n - i \in Nat
    <3>1. i \in 1..n
      OBVIOUS
    <3> QED
      BY <3>1
  <2> QED
    BY <2>1
<1>2. PICK x \in T : \A y \in T : x <= y
  <2> HIDE DEF T
  <2> QED
    BY <1>1, LeastMember
<1>3. PICK i \in past : x = n - i
  BY <1>2
<1>4. ASSUME NEW j \in past PROVE j <= i
  <2>1. n - i <= n - j
    BY <1>2, <1>3
  <2>2. i \in 1..n /\ j \in 1..n
    OBVIOUS
  <2> QED
    BY <2>1, <2>2
<1> QED
  BY <1>4

\* Where the clocks agree, the balance a replay reports is not older than the last
\* movement before the refusal.
THEOREM ObservedBalanceIsRecentAlways == Spec => []ObservedBalanceIsRecent
<1>1. ASSUME ServiceInv, ClockInv PROVE ObservedBalanceIsRecent
  <2> SUFFICES ASSUME ClocksAgree, NEW s \in Refused, NEW seen,
                      seen = ObservedAt(on[s], refusal[s].at)
               PROVE  IF seen.n = 0 THEN refusal[s].count = 0
                      ELSE seen.at \in {refusal[s].at, StampBefore(s)}
    BY DEF ObservedBalanceIsRecent, ClocksAgree
  <2>1. PICK w \in Wallets, at \in Nat, count \in Nat :
          /\ on[s] = w /\ refusal[s].at = at /\ refusal[s].count = count
          /\ Between(w, at, count)
    BY <1>1 DEF ClockInv, InTime, RefusalInTime
  <2>2. PICK ledger : ledger = listing[w]
    OBVIOUS
  <2>3. /\ ledger \in Seq(EntriesOf) /\ Ordered(ledger) /\ Numbered(ledger)
        /\ \A i, j \in DOMAIN ledger : ledger[i].n < ledger[j].n => ledger[i].at <= ledger[j].at
        /\ \A i \in DOMAIN ledger : ledger[i].at \in Nat /\ ledger[i].n \in Nat
    BY <1>1, <2>1, <2>2, TimesAreNatural
       DEF Wallets, ServiceInv, LedgerOK, ClockInv, InTime, LedgerInTime
  <2>4. /\ count <= Len(ledger) /\ Len(ledger) \in Nat /\ DOMAIN ledger = 1..Len(ledger)
        /\ \A i \in DOMAIN ledger : ledger[i].n <= count => ledger[i].at <= at
        /\ \A i \in DOMAIN ledger : ledger[i].n > count => at <= ledger[i].at
    BY <2>1, <2>2, <2>3 DEF Between
  <2> DEFINE past == { i \in DOMAIN ledger : ledger[i].at <= at }
  <2>5. ASSUME count # 0
        PROVE  \E b \in past : ledger[b].n = count /\ StampBefore(s) = ledger[b].at
    <3>1. count \in 1..Len(ledger)
      BY <2>4, <2>5
    <3>2. count \in Numbers(ledger)
      BY <2>3, <3>1 DEF Numbered, Numbers
    <3>3. PICK b : b = PlaceIn(ledger, count)
      OBVIOUS
    <3>4. b \in DOMAIN ledger /\ ledger[b].n = count
      BY <3>2, <3>3, PlaceIsThere
    <3>5. StampBefore(s) = ledger[b].at
      BY <2>1, <2>2, <2>5, <3>3 DEF StampBefore, Place, PlaceIn
    <3>6. ledger[b].at <= at
      BY <2>4, <3>4
    <3> QED
      BY <3>4, <3>5, <3>6
  <2>6. CASE past = {}
    <3>1. seen = [n |-> 0, at |-> 0, after |-> 0]
      BY <2>1, <2>2, <2>6 DEF ObservedAt
    <3>2. count = 0
      BY <2>5, <2>6
    <3> QED
      BY <2>1, <3>1, <3>2
  <2>7. CASE past # {}
    <3>1. PICK m \in past : /\ \A j \in past : j <= m
                            /\ m = CHOOSE i \in past : \A j \in past : j <= i
      <4>1. \E i \in past : \A j \in past : j <= i
        <5>1. past \subseteq 1..Len(ledger)
          BY <2>4
        <5> HIDE DEF past
        <5> QED
          BY <2>4, <2>7, <5>1, LastPlace
      <4> HIDE DEF past
      <4> QED
        BY <4>1
    <3>2. seen.n = ledger[m].n /\ seen.at = ledger[m].at
      BY <2>1, <2>2, <2>7, <3>1 DEF ObservedAt
    <3>3. m \in DOMAIN ledger /\ ledger[m].at <= at
      OBVIOUS
    <3>4. ledger[m].n # 0
      BY <2>3, <3>3 DEF Numbered
    <3>5. CASE ledger[m].n > count
      BY <2>1, <2>3, <2>4, <3>2, <3>3, <3>4, <3>5
    <3>6. CASE ~(ledger[m].n > count)
      <4>1. count # 0
        BY <2>3, <3>3, <3>4, <3>6
      <4>2. PICK b \in past : ledger[b].n = count /\ StampBefore(s) = ledger[b].at
        BY <2>5, <4>1
      <4>3. b <= m /\ b \in DOMAIN ledger
        BY <3>1
      <4>4. ledger[b].at <= ledger[m].at
        BY <2>3, <2>4, <3>3, <4>3 DEF Ordered
      <4>5. ledger[m].n = count \/ ledger[m].n < count
        BY <2>3, <3>3, <3>6
      <4>6. ledger[m].at <= ledger[b].at
        BY <2>3, <3>3, <4>2, <4>3, <4>5 DEF Numbered
      <4>7. ledger[m].at = StampBefore(s)
        BY <2>3, <3>3, <4>2, <4>3, <4>4, <4>6
      <4> QED
        BY <2>1, <3>2, <3>4, <4>7
    <3> QED
      BY <3>5, <3>6
  <2> QED
    BY <2>6, <2>7
<1> QED
  BY <1>1, ServiceInvariant, ClockInvariant, PTL
=============================================================================
