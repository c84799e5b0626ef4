--------------------------- MODULE MCStaffRefund ---------------------------
(* Small instances of the refunds of staff. *)
EXTENDS StaffRefund, TLC

\* Every sale cost two units, paid with two RVN at the rate of that time.
Cost == [s \in Sale |-> 2]

\* The price of RVN has not changed since, or has halved.
Rates == {[usd |-> 1, sats |-> 1], [usd |-> 1, sats |-> 2]}

Symmetry == Permutations(Id) \union Permutations(Sale)
=============================================================================
