------------------------------ MODULE MCDevFee ------------------------------
(* A small instance of the developer's share. *)
EXTENDS DevFee

CONSTANT o1

\* One sale is as large as two of the others.
Shares == [o \in Sale |-> IF o = o1 THEN 2 ELSE 1]
=============================================================================
