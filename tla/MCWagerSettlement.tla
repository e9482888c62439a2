------------------------- MODULE MCWagerSettlement -------------------------
(* Constants of WagerSettlement for TLC: what clients may send in each run. *)
EXTENDS SettlementRefinesContract, TLC

Owner == "player"

\* A submission of player Owner and provider "p" over HTTP, in round 1.
Http(kind, key, ext, w, amount, ref) ==
  [ provider |-> "p", key |-> key, ext |-> ext, wallet |-> w, player |-> Owner, round |-> 1,
    kind |-> kind, amount |-> amount, currency |-> "BRL", ref |-> ref, message |-> NoMessage ]

\* The same submission as message m of the queue.
Queued(s, m) == [s EXCEPT !.message = m]

OneWallet == {"w1"}
TwoWallets == {"w1", "w2"}
MCWalletPlayer == [w \in Wallets |-> Owner]
MCWalletCurrency == [w \in Wallets |-> "BRL"]
OpenedWith3 == [w \in Wallets |-> 3]
OnlyFirstFunded == [w \in Wallets |-> IF w = "w1" THEN 3 ELSE 0]

DeliverySymmetry == Permutations(Deliveries)
MCSymmetry == Permutations(Deliveries) \cup Permutations(Workers)

Bet1 == Http("BET", "k1", "e1", "w1", 2, "none")

\* Duplicates over both channels, the key with another payload, in the same wallet
\* and another, and the refusals of process; with them the refund of the bet under two
\* keys, and a win, stored only after the bet, with its rollback.
IdentitySubmissions ==
  { Bet1, Queued(Bet1, "m1"), [Queued(Bet1, "m1") EXCEPT !.wallet = "w2"],
    [Http("LOSS", "k1", "e2", "w2", 1, "none") EXCEPT !.message = "m2"],
    [Http("BET", "k3", "e3", "w1", 1, "none") EXCEPT !.player = "other"],
    Http("BET", "k4", "e4", "missing", 1, "none"),
    Http("REFUND", "k5", "e5", "w1", 2, "e1"),
    Http("WIN", "k6", "e6", "w1", 4, "none"),
    Http("ROLLBACK", "k7", "e7", "w1", 4, "e6"),
    Http("REFUND", "k8", "e5", "w1", 2, "e1") }

\* A bet, two refunds and a rollback that reverse it, and a rollback of the first
\* refund: every order of arrival, every subset, with repetitions.
ReversalSubmissions ==
  { Bet1,
    Http("REFUND", "k2", "e2", "w1", 2, "e1"),
    Http("REFUND", "k3", "e3", "w1", 2, "e1"),
    Http("ROLLBACK", "k4", "e4", "w1", 2, "e2"),
    Http("ROLLBACK", "k5", "e5", "w1", 2, "e1") }

\* Enough for waiting on the lock, a replay, a unique violation and a retry.
LivenessSubmissions ==
  { Queued(Bet1, "m1"), [Bet1 EXCEPT !.key = "k2", !.wallet = "w2"],
    Http("REFUND", "k3", "e3", "w1", 2, "e1") }

\* A bet and the refund that may have been waiting for it.
RefundSubmissions == { Bet1, Http("REFUND", "k2", "e2", "w1", 2, "e1") }

\* Two transactions, the second of them also under the key of the first.
KeySubmissions ==
  { Bet1, Http("BET", "k2", "e2", "w2", 1, "none"), Http("BET", "k1", "e2", "w2", 1, "none") }
=============================================================================
