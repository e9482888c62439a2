----------------------------- MODULE WagerRules -----------------------------
(***************************************************************************)
(* The domain rules of a wager transaction, as pure operators: which kinds *)
(* exist, which way they move a balance, and the verdict the applier       *)
(* reaches on one transaction.  Translated from src/src/domain.            *)
(*                                                                         *)
(* A "term" t or r is a normalized submission: a record with (at least)    *)
(* the fields provider, ext, wallet, player, round, kind, amount,          *)
(* currency and ref.  Amounts are integers in the smallest currency unit.  *)
(***************************************************************************)
EXTENDS Integers, Sequences

-----------------------------------------------------------------------------
(* Vocabulary *)

Kinds == {"BET", "WIN", "LOSS", "REFUND", "ROLLBACK", "OPENING"}

\* Statuses a row of wager_transaction is stored with.  PENDING exists only in
\* memory, between create() and apply; FAILED is declared by the code and never
\* assigned.
StoredStatuses == {"PENDING_REFERENCE", "PROCESSED", "REJECTED"}
Terminal(status) == status \in {"PROCESSED", "REJECTED"}

Directions == {"DEBIT", "CREDIT"}
NoDirection == "NONE"
NoFailure == "NONE"

\* The checks a reversal passes before it moves money, in the order of the code.
ReversalChecks ==
  << "REFERENCE_NOT_PROCESSED", "REFERENCE_SCOPE_MISMATCH",
     "REFERENCE_ALREADY_REVERSED", "REFUND_OF_NON_BET",
     "UNSUPPORTED_REVERSAL_REFERENCE", "REFERENCE_AMOUNT_MISMATCH" >>

FailureCodes ==
  { "OPENING_NOT_ALLOWED", "CURRENCY_MISMATCH", "INSUFFICIENT_FUNDS",
    "REVERSAL_WOULD_OVERDRAW", "UNRESOLVED_REFERENCE" }
    \cup { ReversalChecks[i] : i \in DOMAIN ReversalChecks }

Verdicts == [ status    : StoredStatuses,
              failure   : FailureCodes \cup {NoFailure},
              direction : Directions \cup {NoDirection} ]

-----------------------------------------------------------------------------
(* Kinds *)

RequiresReference(kind) == kind \in {"REFUND", "ROLLBACK"}

\* Kinds whose settlement releases the transactions that wait for them.
Referenceable(kind) == kind \in {"BET", "WIN", "REFUND"}

Invert(direction) == IF direction = "DEBIT" THEN "CREDIT" ELSE "DEBIT"

OwnDirection(kind) == IF kind = "BET" THEN "DEBIT" ELSE "CREDIT"

\* Mutant: a rollback moves the balance the way its reference did.
DirectionFor_NotInverted(t, r) ==
  IF t.kind = "ROLLBACK" THEN OwnDirection(r.kind) ELSE OwnDirection(t.kind)

\* The ledger direction of t; r is the transaction a ROLLBACK undoes.
DirectionFor(t, r) ==
  IF t.kind = "ROLLBACK" THEN Invert(OwnDirection(r.kind)) ELSE OwnDirection(t.kind)

Signed(direction, amount) == IF direction = "DEBIT" THEN 0 - amount ELSE amount

SharesScope(t, r) ==
  \A f \in {"provider", "player", "wallet", "round", "currency"} : t[f] = r[f]

-----------------------------------------------------------------------------
(* Verdicts *)

Rejected(code) == [status |-> "REJECTED", failure |-> code, direction |-> NoDirection]
Processed(direction) == [status |-> "PROCESSED", failure |-> NoFailure, direction |-> direction]
Awaiting == [status |-> "PENDING_REFERENCE", failure |-> NoFailure, direction |-> NoDirection]

\* A debit never takes more than the balance.
Movement(t, direction, balance) ==
  IF direction = "DEBIT" /\ balance < t.amount
  THEN Rejected(IF t.kind = "ROLLBACK" THEN "REVERSAL_WOULD_OVERDRAW"
                                       ELSE "INSUFFICIENT_FUNDS")
  ELSE Processed(direction)

\* Reversal t of r, stored with status, fails check: reversed says that r was
\* already undone by a processed transaction of t's kind.
FailsCheck(check, t, r, status, reversed) ==
  \/ check = "REFERENCE_NOT_PROCESSED" /\ status # "PROCESSED"
  \/ check = "REFERENCE_SCOPE_MISMATCH" /\ ~SharesScope(t, r)
  \/ check = "REFERENCE_ALREADY_REVERSED" /\ reversed
  \/ check = "REFUND_OF_NON_BET" /\ t.kind = "REFUND" /\ r.kind # "BET"
  \/ check = "UNSUPPORTED_REVERSAL_REFERENCE"
       /\ t.kind = "ROLLBACK" /\ r.kind \notin {"BET", "WIN", "REFUND"}
  \/ check = "REFERENCE_AMOUNT_MISMATCH"
       /\ \/ t.amount # r.amount
          \/ t.currency # r.currency

\* status is "ABSENT" when no row carries the referenced external id.
ReversalVerdict(t, r, status, reversed, balance) ==
  IF status \in {"ABSENT", "PENDING_REFERENCE"} THEN Awaiting
  ELSE LET failed == { i \in DOMAIN ReversalChecks :
                         FailsCheck(ReversalChecks[i], t, r, status, reversed) }
       IN  IF failed = {} THEN Movement(t, DirectionFor(t, r), balance)
           ELSE Rejected(ReversalChecks[CHOOSE i \in failed : \A j \in failed : i <= j])

\* What the applier decides for t against a wallet of that currency and balance.
Verdict(t, currency, balance, r, status, reversed) ==
  IF t.kind = "OPENING" THEN Rejected("OPENING_NOT_ALLOWED")
  ELSE IF t.currency # currency THEN Rejected("CURRENCY_MISMATCH")
  ELSE IF RequiresReference(t.kind) THEN ReversalVerdict(t, r, status, reversed, balance)
  ELSE IF t.kind = "LOSS" THEN Processed(NoDirection)
  ELSE Movement(t, OwnDirection(t.kind), balance)
=============================================================================
