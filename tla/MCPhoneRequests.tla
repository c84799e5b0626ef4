-------------------------- MODULE MCPhoneRequests --------------------------
(* Small instances of the requests of phones. *)
EXTENDS PhoneRequests, TLC

CONSTANTS p1

OnePhone == [r \in Req |-> p1]
OneEach  == [r \in Req |-> 1]

\* The owner confirms on the desktop, or lets the phone send one request a day.
Permissions == {[money |-> "desktop", limit |-> 0], [money |-> "phone", limit |-> 1]}

Symmetry == Permutations(Req)
=============================================================================
