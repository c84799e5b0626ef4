--------------------------- MODULE MCRemoteSales ---------------------------
(* A small instance of the delivery of web orders. *)
EXTENDS RemoteSales

CONSTANTS a, b, u, v, x, y

O(i, p, c) == [id |-> i, out |-> p, content |-> c]

\* Both order ids claim payment u; a comes with two payments, b with two contents.
Orders == {O(a, u, x), O(b, u, x), O(a, v, x), O(b, v, x), O(b, v, y)}

\* The owner may sell either payment by hand, as ordered or not.
Typed  == {O(a, u, x), O(a, v, x), O(a, v, y)}
=============================================================================
