--------------------------- MODULE MCPayoutGuard ---------------------------
(* Small instances of one payout lane. *)
EXTENDS PayoutGuard, TLC

Symmetry == Permutations(Proc) \union Permutations(Id)
              \union Permutations(Intent) \union Permutations(TxId)
============================================================================
