-------------------------- MODULE MCWalletService --------------------------
(* Constants of WalletService for TLC: all creations are of one owner. *)
EXTENDS WalletService, TLC

OneOwner == [c \in Creations |-> "player"]
OpenedWith1 == [c \in Creations |-> 1]

BetAndWin == {0 - 1, 1}

ServiceSymmetry == Permutations(Creations) \cup Permutations(Settlements)
=============================================================================
