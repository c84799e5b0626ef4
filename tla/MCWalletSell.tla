---------------------------- MODULE MCWalletSell ----------------------------
(* A small instance of the sales of a linked phone. *)
EXTENDS WalletSell, TLC

CONSTANTS j1, j2, u1, u2, c1, c2

\* Both requests to take down name the first sale.
OfFirst == [u \in Unsell |-> j1]

\* Lots are alike, and so are the requests to take down.
Alike == Permutations(Coin) \union Permutations(Unsell)
=============================================================================
