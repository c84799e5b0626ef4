------------------------------ MODULE PayOnce ------------------------------
(***************************************************************************)
(* What a payout lane promises to the shop: a ledger of real payments in   *)
(* which a request identifier is paid at most once, and callers that are   *)
(* only ever told of payments that really happened, for exactly the        *)
(* contents they asked about.                                              *)
(***************************************************************************)
CONSTANTS Id,       \* request identifiers
          Intent,   \* contents of a request: kind, asset, amount, address
          TxId      \* transaction identifiers of the node

VARIABLES sends,    \* payments the node has made, on the chain for good
          told      \* payments a caller has been told of

vars == <<sends, told>>

Payment == [id : Id, intent : Intent, txid : TxId]

Init == sends = {} /\ told = {}

Pay(s) == /\ \A t \in sends : t.id # s.id /\ t.txid # s.txid
          /\ sends' = sends \union {s}
          /\ UNCHANGED told

Tell(s) == /\ s \in sends
           /\ told' = told \union {s}
           /\ UNCHANGED sends

Next == \E s \in Payment : Pay(s) \/ Tell(s)

Spec == Init /\ [][Next]_vars
============================================================================
