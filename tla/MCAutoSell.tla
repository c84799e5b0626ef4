----------------------------- MODULE MCAutoSell -----------------------------
(* Small instances of unattended selling. *)
EXTENDS AutoSell

CONSTANTS o1, o2

TwoEach == [o \in Claim |-> 2]

Paid == {p \in Deposit : pays[p] # Nothing}

\* Two orders that are paid, and nothing goes wrong but the rounds' own races...
TwoOrders == Paid = {<<o1, 1>>, <<o2, 1>>} /\ payments = MaxPayments
               /\ mishaps = MaxMishaps /\ crashes = MaxCrashes
\* ...or one buyer who pays, or does not quite, and everything that may go wrong.
OneOrder == Paid = {} /\ payments + 1 = MaxPayments /\ mishaps = 0 /\ crashes = 0

MCInit == AutoInit /\ (TwoOrders \/ OneOrder)
MCSpec == MCInit /\ [][AutoNext]_autoVars /\ AutoFairness
=============================================================================
