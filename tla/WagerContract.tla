--------------------------- MODULE WagerContract ---------------------------
(***************************************************************************)
(* What a provider and a player are promised, and nothing of how it is     *)
(* kept: every transaction has one name and one fate, the fate of a        *)
(* transaction and the statement of its wallet change together, and what   *)
(* anybody is told is a fate the transaction has, or had when the answer   *)
(* was read.  There are no deliveries, keys, locks, retries or crashes     *)
(* here; a settlement with all the reversals it releases is one step.      *)
(***************************************************************************)
EXTENDS Integers, Sequences

CONSTANTS
  Names,      \* names of transactions: provider and external id
  Wallets,    \* wallets that exist
  Terms,      \* what a transaction can be: a kind, an amount and a wallet
  NoTerms,    \* nothing accepted under a name
  Opening     \* balance each wallet starts with

VARIABLES
  accepted,   \* the terms each name was accepted with
  fate,       \* what became of each name
  past,       \* the fates each name has had, the present one included
  statement,  \* per wallet, the movements in their order
  told        \* fates that callers were told, with the name they asked about

cvars == <<accepted, fate, past, statement, told>>

-----------------------------------------------------------------------------

\* The fates that may follow a fate: a waiting transaction ends, an end is final.
Follow(f) ==
  CASE f = "UNKNOWN" -> {"PENDING_REFERENCE", "PROCESSED", "REJECTED"}
    [] f = "PENDING_REFERENCE" -> {"PROCESSED", "REJECTED"}
    [] OTHER -> {}

Moves(t) == t.kind # "LOSS"

\* The changes of balance that terms t allow.
Changes(t) ==
  CASE t.kind = "BET" -> {0 - t.amount}
    [] t.kind = "ROLLBACK" -> {t.amount, 0 - t.amount}
    [] OTHER -> {t.amount}

Balance(w, lines) == IF lines = <<>> THEN Opening[w] ELSE lines[Len(lines)].balance

-----------------------------------------------------------------------------

\* Callers may be told the fates there have been up to the end of the step: an
\* answer may be on its way while a waiting transaction is settled.
TellOnlyFates ==
  LET had == past'
      new == told' \ told
  IN  /\ told \subseteq told'
      /\ \A p \in new : p[1] \in Names /\ p[2] \in had[p[1]]

\* The lines that wallet w got: one for each transaction that was processed in
\* this step and moves money, by the amount of its terms, and no other.
Explained(w, lines, fresh, paid, terms) ==
  /\ { fresh[i].name : i \in DOMAIN fresh } = paid
  /\ \A i, j \in DOMAIN fresh : fresh[i].name = fresh[j].name => i = j
  /\ \A i \in DOMAIN fresh :
       /\ fresh[i].change \in Changes(terms[fresh[i].name])
       /\ fresh[i].balance >= 0
       /\ fresh[i].balance =
            fresh[i].change + Balance(w, lines \o SubSeq(fresh, 1, i - 1))

\* Some transactions of wallet w reach a fate, all at once with their movements.
Settle(w) ==
  LET before == fate
      after == fate'
      terms == accepted'
      known == accepted
      settled == { n \in Names : after[n] # before[n] }
      lines == statement[w]
      fresh == SubSeq(statement'[w], Len(lines) + 1, Len(statement'[w]))
  IN  /\ \A n \in settled :
           /\ after[n] \in Follow(before[n])
           /\ terms[n] \in Terms
           /\ terms[n].wallet = w
           /\ before[n] # "UNKNOWN" => terms[n] = known[n]
      /\ \A n \in Names \ settled : terms[n] = known[n]
      /\ past' = [n \in Names |-> past[n] \cup IF n \in settled THEN {after[n]} ELSE {}]
      /\ statement' = [statement EXCEPT ![w] = @ \o fresh]
      /\ Explained(w, lines, fresh, { n \in settled : after[n] = "PROCESSED" /\ Moves(terms[n]) },
                   terms)
      /\ TellOnlyFates

\* Somebody asks again.
Tell ==
  /\ UNCHANGED <<accepted, fate, past, statement>>
  /\ TellOnlyFates

Init ==
  /\ accepted = [n \in Names |-> NoTerms]
  /\ fate = [n \in Names |-> "UNKNOWN"]
  /\ past = [n \in Names |-> {}]
  /\ statement = [w \in Wallets |-> <<>>]
  /\ told = {}

Next == Tell \/ \E w \in Wallets : Settle(w)

Spec == Init /\ [][Next]_cvars
=============================================================================
