---------------------------- MODULE MCWalletLink ----------------------------
(* A small instance of the link to a phone. *)
EXTENDS WalletLink, TLC

CONSTANTS l1, q1, q2

OneLink  == [r \in Req |-> l1]
OneEach  == [r \in Req |-> 1]
\* One of the two requests reaches the desktop in two wraps.
FirstTwice == [r \in Req |-> IF r = q1 THEN 2 ELSE 1]
=============================================================================
