---------------------------- MODULE RemoteSales ----------------------------
(***************************************************************************)
(* Delivery of web orders (remote_sales.rs) over the "sale" lane of the    *)
(* payout journal (vending.rs fulfil_sale, payout_guard.rs).               *)
(*                                                                         *)
(* The outbox task is whoever holds GATE and the "orders" ProcessLock: one *)
(* deliver or one retry_remote_completions at a time.  The screen task is  *)
(* the owner who sells the same payment by hand through fulfil_sale, with  *)
(* no gate at all.  The lane is the one PayoutGuard details: begin and     *)
(* each half of complete are one step here, and any step may be the last   *)
(* before the process dies.                                                *)
(***************************************************************************)
CONSTANTS
  OrderId, Outpoint,  \* web order ids, outputs of payments on the chain
  Content,            \* pay address, amount, asset, quantity, recipient
  TxId, None,
  Asked, ByHand       \* orders the site hands over, sales the owner may type in

Order   == [id : OrderId, out : Outpoint, content : Content]
Record  == [order : Order, state : {"prepared", "completion_pending", "completed"},
            txid : TxId \union {None}]
Request == [id : Outpoint, intent : Content]
Payment == [id : Outpoint, intent : Content, txid : TxId]

ASSUME OrdersAssumption == Asked \subseteq Order /\ ByHand \subseteq Order
ASSUME NoneAssumption == None \notin Record \union OrderId \union Request \union TxId \union Order

VARIABLES
  records,   \* remote-sales/<hash of id>.json
  bindings,  \* remote-sales/outpoints/<txid>-<vout>.binding
  marker, receipts,       \* the sale lane's pending marker and done files
  wire, sends,            \* transfers the node still holds, and has made
  told,      \* payments a caller was given the transaction of
  reported,  \* completions the web site has taken in
  pc, work,  \* where each task is, and the order it works on
  fresh,     \* this call of deliver created the record
  todo, posting           \* records a retry has left, and the one being posted

disk == <<records, bindings>>
lane == <<marker, receipts, wire, sends, told>>
run  == <<pc, work, fresh, todo, posting>>
vars == <<disk, lane, reported, run>>

Task == {"outbox", "screen"}

TypeOK ==
  /\ records \in [OrderId -> Record \union {None}]
  /\ \A i \in OrderId : records[i] # None =>
       /\ records[i].order.id = i
       /\ records[i].state = "prepared" <=> records[i].txid = None
  /\ bindings \in [Outpoint -> OrderId \union {None}]
  /\ marker \in Request \union {None} /\ wire \subseteq Request
  /\ receipts \subseteq Payment /\ sends \subseteq Payment /\ told \subseteq Payment
  /\ reported \subseteq [id : OrderId, txid : TxId]
  /\ pc \in [Task -> {"idle", "verify", "bind", "record", "recover", "sell", "call",
                      "unmark", "save", "flush", "post"}]
  /\ work \in [Task -> Order \union {None}] /\ fresh \in BOOLEAN
  /\ todo \subseteq OrderId /\ posting \in OrderId \union {None}

Init == /\ records = [i \in OrderId |-> None] /\ bindings = [u \in Outpoint |-> None]
        /\ marker = None /\ receipts = {} /\ wire = {} /\ sends = {} /\ told = {}
        /\ reported = {}
        /\ pc = [k \in Task |-> "idle"] /\ work = [k \in Task |-> None]
        /\ fresh = FALSE /\ todo = {} /\ posting = None

Goto(k, label) == pc' = [pc EXCEPT ![k] = label]
Quit(k) == /\ Goto(k, "idle") /\ work' = [work EXCEPT ![k] = None]
           /\ IF k = "outbox" THEN fresh' = FALSE /\ todo' = {} /\ posting' = None
                              ELSE UNCHANGED <<fresh, todo, posting>>

\* An error or an early return that changes nothing else.
Fail(k) == Quit(k) /\ UNCHANGED <<disk, lane, reported>>

----------------------------------------------------------------------------
(* The receipt of an order in the sale lane *)

HasReceipt(o) == \E r \in receipts : r.id = o.out

\* Mutant: the receipt of the payment counts, whatever was sold for it.
MatchingById(o) == {r \in receipts : r.id = o.out}

Matching(o) == {r \in receipts : r.id = o.out /\ r.intent = o.content}

\* receipt: the lane's file for this payment holds other contents.
Mismatch(o) == HasReceipt(o) /\ Matching(o) = {}

----------------------------------------------------------------------------
(* deliver, up to the sale *)

Deliver(o) == /\ pc["outbox"] = "idle"
              /\ Goto("outbox", IF records[o.id] = None THEN "verify" ELSE "bind")
              /\ work' = [work EXCEPT !["outbox"] = o]
              /\ UNCHANGED <<disk, lane, reported, fresh, todo, posting>>

\* verify_recipient: the node confirms the payment and who paid it, or not.
Verify == /\ pc["outbox"] = "verify"
          /\ \/ Goto("outbox", "bind") /\ UNCHANGED <<disk, lane, reported, work, fresh, todo, posting>>
             \/ Fail("outbox")

\* bind: a known order must be the same in every field; a payment belongs to
\* the order that was bound to it first.
Bind == LET o == work["outbox"] IN
  /\ pc["outbox"] = "bind"
  /\ \/ /\ records[o.id] # None /\ records[o.id].order = o
        /\ Goto("outbox", "recover")
        /\ UNCHANGED <<disk, lane, reported, work, fresh, todo, posting>>
     \/ /\ records[o.id] = None /\ bindings[o.out] \in {None, o.id}
        /\ bindings' = [bindings EXCEPT ![o.out] = o.id]
        /\ Goto("outbox", "record")
        /\ UNCHANGED <<records, lane, reported, work, fresh, todo, posting>>
     \/ Fail("outbox")

SaveRecord == LET o == work["outbox"] IN
  /\ pc["outbox"] = "record"
  /\ \/ /\ records' = [records EXCEPT ![o.id] = [order |-> o, state |-> "prepared", txid |-> None]]
        /\ fresh' = TRUE
        /\ Goto("outbox", "recover")
        /\ UNCHANGED <<bindings, lane, reported, work, todo, posting>>
     \/ Fail("outbox")

\* The record once recover has looked at the lane.
Settle(i, t) == records' = [records EXCEPT ![i].txid = t, ![i].state = "completion_pending"]
Tell(o, t)   == told' = told \union {[id |-> o.out, intent |-> o.content, txid |-> t]}

\* Mutant: recover does not look at the txid it already has.
RecoverAgain == LET o == work["outbox"] IN
  /\ pc["outbox"] = "recover"
  /\ \/ /\ \E p \in Matching(o) : Settle(o.id, p.txid) /\ Tell(o, p.txid)
        /\ Quit("outbox") /\ UNCHANGED <<bindings, marker, receipts, wire, sends, reported>>
     \/ /\ ~HasReceipt(o) /\ fresh /\ Goto("outbox", "sell")
        /\ UNCHANGED <<disk, lane, reported, work, fresh, todo, posting>>
     \/ Fail("outbox")

\* recover, and what deliver makes of it: answer from the record, refuse, or sell.
Recover == LET o == work["outbox"]
               r == records[o.id] IN
  /\ pc["outbox"] = "recover"
  /\ \/ /\ r.txid # None /\ Tell(o, r.txid) /\ Quit("outbox")
        /\ UNCHANGED <<disk, marker, receipts, wire, sends, reported>>
     \/ /\ r.txid = None
        /\ \E p \in Matching(o) : Settle(o.id, p.txid) /\ Tell(o, p.txid)
        /\ Quit("outbox") /\ UNCHANGED <<bindings, marker, receipts, wire, sends, reported>>
     \/ /\ r.txid = None /\ ~HasReceipt(o) /\ fresh
        /\ Goto("outbox", "sell")
        /\ UNCHANGED <<disk, lane, reported, work, fresh, todo, posting>>
     \/ /\ r.txid = None   \* unresolved, mismatching, or the record was not saved
        /\ (HasReceipt(o) \/ ~fresh)
        /\ Fail("outbox")

----------------------------------------------------------------------------
(* fulfil_sale, by the outbox or from the screen *)

SellByHand(o) == /\ pc["screen"] = "idle"
                 /\ Goto("screen", "sell")
                 /\ work' = [work EXCEPT !["screen"] = o]
                 /\ UNCHANGED <<disk, lane, reported, fresh, todo, posting>>

\* The sale is over: deliver still has its record to save.
Sold(k) == IF k = "outbox" THEN Goto(k, "save") /\ UNCHANGED <<work, fresh, todo, posting>>
                           ELSE Quit(k)

\* Mutant: begin looks for the marker only.
SellBlind(k) == LET o == work[k] IN
  /\ pc[k] = "sell" /\ marker = None
  /\ marker' = [id |-> o.out, intent |-> o.content] /\ wire' = wire \union {marker'}
  /\ Goto(k, "call")
  /\ UNCHANGED <<disk, receipts, sends, told, reported, work, fresh, todo, posting>>

\* The checks of fulfil_sale, begin on the lane, and the transfer.
Sell(k) == LET o == work[k] IN
  /\ pc[k] = "sell"
  /\ \/ /\ \E r \in Matching(o) : Tell(o, r.txid)
        /\ Sold(k)
        /\ UNCHANGED <<disk, marker, receipts, wire, sends, reported>>
     \/ /\ ~HasReceipt(o) /\ marker = None
        /\ marker' = [id |-> o.out, intent |-> o.content]
        /\ wire' = wire \union {marker'}
        /\ Goto(k, "call")
        /\ UNCHANGED <<disk, receipts, sends, told, reported, work, fresh, todo, posting>>
     \/ \* the node cannot check, a wrong passphrase, another intent, a blocked lane
        Fail(k)

NodeTransfers(q) == /\ wire' = wire \ {q}
                    /\ \E t \in TxId : /\ \A s \in sends : s.txid # t
                                       /\ sends' = sends \union
                                            {[id |-> q.id, intent |-> q.intent, txid |-> t]}
                    /\ UNCHANGED <<disk, marker, receipts, told, reported, run>>

NodeDrops(q) == wire' = wire \ {q} /\ UNCHANGED <<disk, marker, receipts, sends, told, reported, run>>

\* The answer carries a txid: complete writes the receipt.
Complete(k) == LET o == work[k] IN
  /\ pc[k] = "call"
  /\ \/ /\ \E s \in sends : /\ s.id = o.out /\ s.intent = o.content
                            /\ receipts' = receipts \union {s}
        /\ Goto(k, "unmark")
        /\ UNCHANGED <<disk, marker, wire, sends, told, reported, work, fresh, todo, posting>>
     \/ \* refused, unanswered, or the receipt was not written: the marker stays
        Fail(k)

RemoveMarker(k) == LET o == work[k] IN
  /\ pc[k] = "unmark"
  /\ \/ /\ marker' = None
        /\ \E r \in Matching(o) : Tell(o, r.txid)
        /\ Sold(k)
        /\ UNCHANGED <<disk, receipts, wire, sends, reported>>
     \/ Fail(k)

\* deliver writes the txid it was given into the order's record.
SaveTxid == LET o == work["outbox"] IN
  /\ pc["outbox"] = "save"
  /\ \/ /\ \E r \in Matching(o) : Settle(o.id, r.txid)
        /\ Quit("outbox") /\ UNCHANGED <<bindings, lane, reported>>
     \/ Fail("outbox")

----------------------------------------------------------------------------
(* retry_remote_completions *)

Retry == /\ pc["outbox"] = "idle"
         /\ {i \in OrderId : records[i] # None} # {}
         /\ todo' = {i \in OrderId : records[i] # None}
         /\ Goto("outbox", "flush")
         /\ UNCHANGED <<disk, lane, reported, work, fresh, posting>>

\* Mutant: the retry posts what has a txid and never asks the lane.
FlushUnrecovered(i) ==
  /\ pc["outbox"] = "flush" /\ i \in todo
  /\ IF records[i].state = "completion_pending"
       THEN posting' = i /\ Goto("outbox", "post") /\ UNCHANGED todo
       ELSE todo' = todo \ {i} /\ UNCHANGED <<posting, pc>>
  /\ UNCHANGED <<disk, lane, reported, work, fresh>>

\* One entry of the folder: recovered from the lane, then skipped or posted.
FlushNext(i) == LET r == records[i] IN
  /\ pc["outbox"] = "flush" /\ i \in todo
  /\ \/ /\ r.txid = None
        /\ \E p \in Matching(r.order) : Settle(i, p.txid)
        /\ posting' = i /\ Goto("outbox", "post")
        /\ UNCHANGED <<bindings, lane, reported, work, fresh, todo>>
     \/ /\ r.state = "completed" \/ (r.txid = None /\ ~HasReceipt(r.order))
        /\ todo' = todo \ {i}
        /\ UNCHANGED <<disk, lane, reported, pc, work, fresh, posting>>
     \/ /\ r.txid # None /\ r.state # "completed"
        /\ posting' = i /\ Goto("outbox", "post")
        /\ UNCHANGED <<disk, lane, reported, work, fresh, todo>>

\* A receipt of other contents, or one that cannot be read or copied into the
\* record, ends the whole retry.
FlushAborts(i) == /\ pc["outbox"] = "flush" /\ i \in todo
                  /\ records[i].txid = None /\ HasReceipt(records[i].order)
                  /\ Fail("outbox")

Posted == /\ todo' = todo \ {posting} /\ posting' = None /\ Goto("outbox", "flush")
          /\ UNCHANGED <<work, fresh>>

Report == reported' = reported \union {[id |-> posting, txid |-> records[posting].txid]}

\* The site takes the completion in and says so.
PostAccepted ==
  /\ pc["outbox"] = "post"
  /\ Report
  /\ records' = [records EXCEPT ![posting].state = "completed"]
  /\ Posted /\ UNCHANGED <<bindings, lane>>

\* The site is not reached, or takes it in and its answer is lost.
PostUnanswered == /\ pc["outbox"] = "post"
                  /\ Report \/ UNCHANGED reported
                  /\ Posted /\ UNCHANGED <<disk, lane>>

\* The completion was taken in but the record was not saved.
PostUnsaved == /\ pc["outbox"] = "post"
               /\ Report /\ Quit("outbox") /\ UNCHANGED <<disk, lane>>

EndRetry == pc["outbox"] = "flush" /\ todo = {} /\ Fail("outbox")

\* The process dies; the files stay, and so does a transfer the node holds.
Crash == /\ \E k \in Task : pc[k] # "idle"
         /\ pc' = [k \in Task |-> "idle"] /\ work' = [k \in Task |-> None]
         /\ fresh' = FALSE /\ todo' = {} /\ posting' = None
         /\ UNCHANGED <<disk, lane, reported>>

----------------------------------------------------------------------------
OutboxStep == \/ Verify \/ Bind \/ SaveRecord \/ Recover \/ SaveTxid
              \/ (\E i \in OrderId : FlushNext(i) \/ FlushAborts(i))
              \/ PostAccepted \/ PostUnanswered \/ PostUnsaved \/ EndRetry

SaleStep(k) == Sell(k) \/ Complete(k) \/ RemoveMarker(k)

Next == \/ \E o \in Asked : Deliver(o)
        \/ \E o \in ByHand : SellByHand(o)
        \/ Retry \/ OutboxStep
        \/ \E k \in Task : SaleStep(k)
        \/ \E q \in wire : NodeTransfers(q) \/ NodeDrops(q)
        \/ Crash

Spec == Init /\ [][Next]_vars

\* The retry gets its turn at GATE (a fair queue) again and again, every call
\* ends, and the site answers sooner or later; a run is not cut short for ever.
Fairness == /\ SF_vars(Retry)
            /\ \A i \in OrderId : SF_vars(FlushNext(i))
            /\ SF_vars(PostAccepted)
            /\ WF_vars(OutboxStep) /\ \A k \in Task : WF_vars(SaleStep(k))
FairSpec == Spec /\ Fairness

----------------------------------------------------------------------------
(* Properties *)

\* A payment buys once: through whichever order id it is delivered, and if it is
\* also sold by hand, one transfer leaves for it and callers hear of that one.
Ledger == INSTANCE PayOnce WITH Id <- Outpoint, Intent <- Content
PaymentBuysOnce == Ledger!Spec

\* The site is only told an order is done with the transaction that really sent
\* this order's asset, quantity and recipient, and the record agrees.
CompletionsAreTrue == \A c \in reported :
  /\ records[c.id] # None /\ records[c.id].txid = c.txid
  /\ \E s \in sends : /\ s.txid = c.txid
                      /\ s.id = records[c.id].order.out
                      /\ s.intent = records[c.id].order.content

\* What is pinned stays: a record's order and its txid never change, and its
\* state only moves forward.
Pinned(i) == /\ records[i] # None => /\ records'[i] # None
                                     /\ records'[i].order = records[i].order
             /\ records[i] # None /\ records[i].txid # None => records'[i].txid = records[i].txid
             /\ records[i] # None /\ records[i].state = "completed" => records'[i].state = "completed"
RecordsArePinned == [][\A i \in OrderId : Pinned(i)]_vars

\* A delivery that left is reported to the site in the end, unless the receipt of
\* some recorded order is that of a sale of other contents: the retry stops there.
Paid(i) == records[i] # None /\ Matching(records[i].order) # {}
Stuck == \E i \in OrderId : records[i] # None /\ records[i].txid = None /\ Mismatch(records[i].order)
EveryDeliveryIsReported ==
  \A i \in OrderId : Paid(i) ~> (Stuck \/ (records[i] # None /\ records[i].state = "completed"))
----------------------------------------------------------------------------
(***************************************************************************)
(* The inductive invariant behind these properties (see SalesProofs).      *)
(***************************************************************************)

Sale(o) == [id |-> o.out, intent |-> o.content]

\* Where a task works on an order, and which record it has pinned by then.
Working == {"verify", "bind", "record", "recover", "sell", "call", "unmark", "save"}
TasksAreKnown ==
  /\ pc["screen"] \in {"idle", "sell", "call", "unmark"}
  /\ \A k \in Task : pc[k] \in Working => work[k] \in Order
  /\ todo \subseteq {i \in OrderId : records[i] # None}
  /\ pc["outbox"] = "post" => posting \in OrderId /\ records[posting] # None
                              /\ records[posting].txid # None
  /\ pc["outbox"] = "record" => records[work["outbox"].id] = None
  /\ pc["outbox"] \in {"recover", "sell", "call", "unmark", "save"} =>
       LET o == work["outbox"] IN
       /\ records[o.id] # None /\ records[o.id].order = o
       /\ pc["outbox"] # "recover" => records[o.id].txid = None

\* A transaction of a record, a receipt or an answer is one the node made for it.
RecordsAreTrue ==
  \A i \in OrderId : records[i] # None /\ records[i].txid # None =>
    [id |-> records[i].order.out, intent |-> records[i].order.content,
     txid |-> records[i].txid] \in sends
AnswersAreTrue == receipts \subseteq sends /\ told \subseteq sends

\* A payment buys once: what is on the wire has the marker and has not been sent,
\* and what has been sent has a receipt or the marker.
SentOnce == \A s, t \in sends : s.id = t.id \/ s.txid = t.txid => s = t
WireIsMarked == \A q \in wire : marker = q /\ \A s \in sends : s.id # q.id
SendsAreKept == \A s \in sends : s \in receipts \/ (marker # None /\ marker.id = s.id)

\* The marker is that of the one task whose sale is under way.
MarkerHasOwner ==
  /\ \A k \in Task : pc[k] \in {"call", "unmark"} => marker = Sale(work[k])
  /\ \A k \in Task : pc[k] = "unmark" => Matching(work[k]) # {}
  /\ ~ \A k \in Task : pc[k] \in {"call", "unmark"}

CompletionsMatch == \A c \in reported : records[c.id] # None /\ records[c.id].txid = c.txid

IInv == /\ TypeOK /\ TasksAreKnown /\ RecordsAreTrue /\ AnswersAreTrue /\ SentOnce
        /\ WireIsMarked /\ SendsAreKept /\ MarkerHasOwner /\ CompletionsMatch
=============================================================================
