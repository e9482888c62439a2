--------------------- MODULE SettlementRefinesContract ---------------------
(***************************************************************************)
(* WagerSettlement implements WagerContract.  The mapping forgets who      *)
(* delivered a transaction: a name has the fate of the one row stored      *)
(* under it, and the statement of a wallet is its ledger without the       *)
(* opening entry.                                                          *)
(***************************************************************************)
EXTENDS WagerSettlement

TransactionNames == { <<s.provider, s.ext>> : s \in Submissions }

NameOf(d) == <<sub[d].provider, sub[d].ext>>

TermsOf(s) == [kind |-> s.kind, amount |-> s.amount, wallet |-> s.wallet]

RowsNamed(n) == { d \in Stored(row) : NameOf(d) = n }
RowNamed(n) == CHOOSE d \in RowsNamed(n) : TRUE

AcceptedTerms ==
  [n \in TransactionNames |-> IF RowsNamed(n) = {} THEN NoSubmission ELSE TermsOf(sub[RowNamed(n)])]

Fates ==
  [n \in TransactionNames |-> IF RowsNamed(n) = {} THEN "UNKNOWN" ELSE row[RowNamed(n)].status]

\* A row that was parked was answered with that, and keeps it as what it was.
PastFates ==
  [n \in TransactionNames |-> UNION { {row[d].status, resp[d].status} : d \in RowsNamed(n) }]

Line(entry) == [ name |-> NameOf(entry.tx), change |-> Signed(entry.direction, entry.amount),
                 balance |-> entry.after ]

StatementOf(w) ==
  LET skip == Len(OpeningEntries(w))
  IN  [i \in 1..(Len(ledger[w]) - skip) |-> Line(ledger[w][i + skip])]

Statements == [w \in Wallets |-> StatementOf(w)]

\* A caller was told a fate when submit returned a view (not while the replay it
\* found waits for markInboxProcessed, which a crash may still prevent); it takes
\* the answer to be about the transaction it submitted.
Told(d) == pc[d] = "done" /\ resp[d].outcome \in {"settled", "replay"}

ToldFates == { <<NameOf(d), resp[d].status>> : d \in { e \in Deliveries : Told(e) } }

Contract == INSTANCE WagerContract WITH
  Names <- TransactionNames,
  Terms <- { TermsOf(s) : s \in Submissions },
  NoTerms <- NoSubmission,
  Opening <- InitialBalance,
  accepted <- AcceptedTerms,
  fate <- Fates,
  past <- PastFates,
  statement <- Statements,
  told <- ToldFates

\* Settlement keeps the contract: through duplicates, races, cascades, retries and
\* crashes a transaction has one fate that never changes once it is final, its
\* money moves in the same step and once, balances never go below zero, and every
\* answer, first or replayed, names a fate of the transaction it was asked about,
\* the present one or, while the answer was under way, the one before.
ContractKept == Contract!Spec
=============================================================================
