----------------------------- MODULE SalesProofs -----------------------------
(* Proofs about the two ways an asset is sold without a person, which have no   *)
(* state in common.  Of web orders, for any order ids, payments, contents and   *)
(* transaction ids, wherever the process dies: what a payment buys, what the    *)
(* site is told and what is pinned.  Of the rounds of the timer, for any        *)
(* orders, payments, rounds, errors and crashes: what is sent and to whom.      *)
EXTENDS RemoteSales, AutoSell, TLAPS

----------------------------------------------------------------------------
(* Records *)

RecordType == /\ records \in [OrderId -> Record \union {None}]
              /\ \A i \in OrderId : records[i] # None =>
                   /\ records[i].order.id = i
                   /\ records[i].state = "prepared" <=> records[i].txid = None

LEMMA NoneIsNoRecord ==
  /\ \A x \in Record : x # None /\ x.order \in Order /\ x.txid \in TxId \union {None}
                       /\ x.state \in {"prepared", "completion_pending", "completed"}
  /\ \A t \in TxId : t # None
  /\ \A o \in Order : o.id \in OrderId /\ o.out \in Outpoint /\ o.content \in Content
  BY NoneAssumption DEF Record, Order

LEMMA SettleFields ==
  ASSUME RecordType, NEW i \in OrderId, records[i] # None, NEW t \in TxId, Settle(i, t)
  PROVE  /\ RecordType'
         /\ records'[i] # None /\ records'[i].order = records[i].order
         /\ records'[i].txid = t /\ records'[i].state = "completion_pending"
         /\ \A j \in OrderId \ {i} : records'[j] = records[j]
  <1> DEFINE r == [records[i] EXCEPT !.txid = t, !.state = "completion_pending"]
  <1>1. records[i] \in Record
    BY DEF RecordType
  <1>2. /\ r \in Record /\ r.order = records[i].order /\ r.txid = t
        /\ r.state = "completion_pending"
    BY <1>1 DEF Record
  <1>3. records' = [records EXCEPT ![i] = r]
    BY DEF Settle, RecordType
  <1> HIDE DEF r
  <1>4. records' \in [OrderId -> Record \union {None}] /\ records'[i] = r
        /\ \A j \in OrderId \ {i} : records'[j] = records[j]
    BY <1>2, <1>3 DEF RecordType
  <1>5. r # None /\ t # None
    BY <1>2, NoneIsNoRecord
  <1>6. ASSUME NEW j \in OrderId, records'[j] # None
        PROVE  /\ records'[j].order.id = j
               /\ records'[j].state = "prepared" <=> records'[j].txid = None
    BY <1>2, <1>4, <1>5, <1>6 DEF RecordType
  <1> QED
    BY <1>2, <1>4, <1>5, <1>6 DEF RecordType

LEMMA PreparedFields ==
  ASSUME RecordType, NEW o \in Order,
         records' = [records EXCEPT ![o.id] = [order |-> o, state |-> "prepared", txid |-> None]]
  PROVE  /\ RecordType'
         /\ records'[o.id] # None /\ records'[o.id].order = o /\ records'[o.id].txid = None
         /\ \A j \in OrderId \ {o.id} : records'[j] = records[j]
  <1> DEFINE r == [order |-> o, state |-> "prepared", txid |-> None]
  <1>1. r \in Record /\ r # None /\ r.order = o /\ r.state = "prepared" /\ r.txid = None
    BY NoneAssumption DEF Record
  <1>2. o.id \in OrderId
    BY NoneIsNoRecord
  <1> HIDE DEF r
  <1>3. records' \in [OrderId -> Record \union {None}] /\ records'[o.id] = r
        /\ \A j \in OrderId \ {o.id} : records'[j] = records[j]
    BY <1>1, <1>2 DEF RecordType, r
  <1> QED
    BY <1>1, <1>3 DEF RecordType

LEMMA CompletedFields ==
  ASSUME RecordType, NEW i \in OrderId, records[i] # None, records[i].txid # None,
         records' = [records EXCEPT ![i].state = "completed"]
  PROVE  /\ RecordType'
         /\ records'[i] # None /\ records'[i].order = records[i].order
         /\ records'[i].txid = records[i].txid /\ records'[i].state = "completed"
         /\ \A j \in OrderId \ {i} : records'[j] = records[j]
  <1> DEFINE r == [records[i] EXCEPT !.state = "completed"]
  <1>1. records[i] \in Record
    BY DEF RecordType
  <1>2. /\ r \in Record /\ r.order = records[i].order /\ r.txid = records[i].txid
        /\ r.state = "completed"
    BY <1>1 DEF Record
  <1>3. records' = [records EXCEPT ![i] = r]
    BY DEF RecordType
  <1> HIDE DEF r
  <1>4. records' \in [OrderId -> Record \union {None}] /\ records'[i] = r
        /\ \A j \in OrderId \ {i} : records'[j] = records[j]
    BY <1>2, <1>3 DEF RecordType
  <1>5. r # None
    BY <1>2, NoneIsNoRecord
  <1> QED
    BY <1>2, <1>4, <1>5 DEF RecordType

----------------------------------------------------------------------------
(* What a step may do to the records and to the lane *)

Settled(i, p) == /\ i \in OrderId /\ records[i] # None /\ records[i].txid = None
                 /\ p \in Matching(records[i].order) /\ Settle(i, p.txid)
Prepared(o)   == /\ o \in Order /\ records[o.id] = None
                 /\ records' = [records EXCEPT ![o.id] = [order |-> o, state |-> "prepared",
                                                          txid |-> None]]
Completed(i)  == /\ i \in OrderId /\ records[i] # None /\ records[i].txid # None
                 /\ records' = [records EXCEPT ![i].state = "completed"]

RecordStep == \/ records' = records
              \/ \E o \in Order : Prepared(o)
              \/ \E i \in OrderId, p \in receipts : Settled(i, p)
              \/ \E i \in OrderId : Completed(i)

ReportStep == \/ reported' = reported
              \/ \E i \in OrderId : /\ records[i] # None /\ records[i].txid # None
                                    /\ reported' = reported \union {[id |-> i, txid |-> records[i].txid]}

\* The answer to a caller is a payment of the receipts or of a record.
Answered(p) == /\ told' = told \union {p}
               /\ \/ p \in receipts
                  \/ \E i \in OrderId :
                       /\ records[i] # None /\ records[i].txid # None
                       /\ p = [id |-> records[i].order.out, intent |-> records[i].order.content,
                               txid |-> records[i].txid]

LEMMA MatchingType ==
  ASSUME receipts \subseteq Payment, NEW o, NEW p \in Matching(o)
  PROVE  /\ p \in receipts /\ p \in Payment /\ p.txid \in TxId
         /\ p = [id |-> o.out, intent |-> o.content, txid |-> p.txid]
  BY DEF Matching, Payment

LEMMA RecordSteps ==
  ASSUME TypeOK, TasksAreKnown, Next
  PROVE  RecordStep /\ ReportStep
  <1> USE DEF RecordStep, ReportStep
  <1>0. receipts \subseteq Payment /\ RecordType
    BY DEF TypeOK, RecordType
  <1>1. CASE UNCHANGED <<records, reported>>
    BY <1>1
  <1>2. CASE SaveRecord
    <2> DEFINE o == work["outbox"]
    <2>1. o \in Order /\ records[o.id] = None
      BY <1>2 DEF SaveRecord, TasksAreKnown, Working, Task
    <2>2. reported' = reported /\ (records' = records \/ Prepared(o))
      BY <1>2, <2>1 DEF SaveRecord, Fail, disk, Prepared
    <2> QED
      BY <2>1, <2>2
  <1>3. CASE Recover \/ SaveTxid
    <2> DEFINE o == work["outbox"]
    <2>1. o \in Order /\ o.id \in OrderId /\ records[o.id] # None /\ records[o.id].order = o
      BY <1>3, NoneIsNoRecord DEF Recover, SaveTxid, TasksAreKnown, Working, Task
    <2>2. /\ reported' = reported
          /\ records' = records \/ \E p \in Matching(o) : records[o.id].txid = None /\ Settle(o.id, p.txid)
      BY <1>3 DEF Recover, SaveTxid, Fail, disk, TasksAreKnown
    <2>3. \A p \in Matching(o) : p \in receipts
      BY DEF Matching
    <2> HIDE DEF o
    <2> QED
      BY <2>1, <2>2, <2>3 DEF Settled
  <1>4. ASSUME NEW i \in OrderId, FlushNext(i) PROVE RecordStep /\ ReportStep
    <2>1. i \in todo /\ records[i] # None
      BY <1>4 DEF FlushNext, TasksAreKnown
    <2>2. /\ reported' = reported
          /\ \/ records' = records
             \/ \E p \in Matching(records[i].order) : records[i].txid = None /\ Settle(i, p.txid)
      BY <1>4 DEF FlushNext, disk
    <2>3. \A p \in Matching(records[i].order) : p \in receipts
      BY DEF Matching
    <2> QED
      BY <2>1, <2>2, <2>3 DEF Settled
  <1>5. CASE PostAccepted \/ PostUnanswered \/ PostUnsaved
    <2>1. posting \in OrderId /\ records[posting] # None /\ records[posting].txid # None
      BY <1>5 DEF PostAccepted, PostUnanswered, PostUnsaved, TasksAreKnown
    <2>2. ReportStep
      BY <1>5, <2>1 DEF PostAccepted, PostUnanswered, PostUnsaved, Report
    <2>3. RecordStep
      BY <1>5, <2>1 DEF PostAccepted, PostUnanswered, PostUnsaved, disk, Completed
    <2> QED
      BY <2>2, <2>3
  <1>6. CASE \/ \E o \in Asked : Deliver(o)
             \/ \E o \in ByHand : SellByHand(o)
             \/ Retry \/ Verify \/ Bind \/ EndRetry \/ Crash
             \/ \E i \in OrderId : FlushAborts(i)
             \/ \E k \in Task : SaleStep(k)
             \/ \E q \in wire : NodeTransfers(q) \/ NodeDrops(q)
    <2>1. UNCHANGED <<records, reported>>
      BY <1>6 DEF Deliver, SellByHand, Retry, Verify, Bind, EndRetry, Crash, FlushAborts, SaleStep,
                  Sell, Complete, RemoveMarker, NodeTransfers, NodeDrops, Fail, disk
    <2> QED
      BY <1>1, <2>1
  <1> QED
    BY <1>2, <1>3, <1>4, <1>5, <1>6 DEF Next, OutboxStep

----------------------------------------------------------------------------
(* Types, and what the tasks know *)

LaneType == /\ bindings \in [Outpoint -> OrderId \union {None}]
            /\ marker \in Request \union {None} /\ wire \subseteq Request
            /\ receipts \subseteq Payment /\ sends \subseteq Payment /\ told \subseteq Payment
            /\ reported \subseteq [id : OrderId, txid : TxId]
Labels == {"idle", "verify", "bind", "record", "recover", "sell", "call",
           "unmark", "save", "flush", "post"}
RunType == /\ pc \in [Task -> Labels]
           /\ work \in [Task -> Order \union {None}] /\ fresh \in BOOLEAN
           /\ todo \subseteq OrderId /\ posting \in OrderId \union {None}

LEMMA TypeParts == /\ TypeOK <=> RecordType /\ LaneType /\ RunType
                   /\ TypeOK' <=> RecordType' /\ LaneType' /\ RunType'
  BY DEF TypeOK, RecordType, LaneType, RunType, Labels

LEMMA InputsAreOrders == Asked \subseteq Order /\ ByHand \subseteq Order
  BY OrdersAssumption

LEMMA SaleType == \A o \in Order : Sale(o) \in Request
  BY NoneIsNoRecord DEF Sale, Request

LEMMA AnsweredType ==
  ASSUME TypeOK, NEW p, Answered(p)
  PROVE  p \in Payment /\ told' \subseteq Payment
  <1>1. ASSUME NEW i \in OrderId, records[i] # None, records[i].txid # None
        PROVE  [id |-> records[i].order.out, intent |-> records[i].order.content,
                txid |-> records[i].txid] \in Payment
    <2>1. records[i] \in Record
      BY <1>1 DEF TypeOK
    <2> QED
      BY <1>1, <2>1, NoneIsNoRecord DEF Payment
  <1> QED
    BY <1>1 DEF Answered, TypeOK

\* A step of one task leaves the other where it is.
LEMMA GotoType ==
  ASSUME RunType, NEW k \in Task, NEW x \in Labels, Goto(k, x)
  PROVE  /\ pc' \in [Task -> Labels] /\ pc'[k] = x
         /\ \A j \in Task \ {k} : pc'[j] = pc[j]
  BY DEF RunType, Goto

LEMMA QuitType ==
  ASSUME RunType, NEW k \in Task, Quit(k)
  PROVE  /\ RunType' /\ pc'[k] = "idle"
         /\ \A j \in Task \ {k} : pc'[j] = pc[j] /\ work'[j] = work[j]
         /\ IF k = "outbox" THEN todo' = {} ELSE UNCHANGED <<fresh, todo, posting>>
  BY GotoType DEF Quit, RunType, Labels

\* Whoever is in the middle of a sale after the step was there before it.
Rests(j) == pc'[j] \in {"call", "unmark"} => pc[j] = pc'[j] /\ work'[j] = work[j]

Told   == /\ \E p \in Payment : Answered(p)
          /\ UNCHANGED <<marker, receipts, wire, sends>> /\ \A j \in Task : Rests(j)
Begun(k) == /\ pc[k] = "sell" /\ work[k] \in Order /\ marker = None /\ ~HasReceipt(work[k])
            /\ marker' = Sale(work[k]) /\ wire' = wire \union {Sale(work[k])}
            /\ UNCHANGED <<receipts, sends, told, work>>
            /\ pc'[k] = "call" /\ \A j \in Task \ {k} : Rests(j)
Made(q, t) == /\ wire' = wire \ {q} /\ \A s \in sends : s.txid # t
              /\ sends' = sends \union {[id |-> q.id, intent |-> q.intent, txid |-> t]}
              /\ UNCHANGED <<marker, receipts, told>> /\ \A j \in Task : Rests(j)
Dropped(q) == /\ wire' = wire \ {q} /\ UNCHANGED <<marker, receipts, sends, told>>
              /\ \A j \in Task : Rests(j)
Receipted(k, s) == /\ pc[k] = "call" /\ s.id = work[k].out /\ s.intent = work[k].content
                   /\ receipts' = receipts \union {s} /\ UNCHANGED <<marker, wire, sends, told, work>>
                   /\ pc'[k] = "unmark" /\ \A j \in Task \ {k} : Rests(j)
Unmarked(k) == /\ pc[k] = "unmark" /\ marker' = None /\ \E p \in Payment : Answered(p)
               /\ UNCHANGED <<receipts, wire, sends>>
               /\ pc'[k] \notin {"call", "unmark"} /\ \A j \in Task : Rests(j)

LaneStep == \/ UNCHANGED lane /\ \A j \in Task : Rests(j)
            \/ Told
            \/ \E k \in Task : Begun(k)
            \/ \E q \in wire, t \in TxId : Made(q, t)
            \/ \E q \in wire : Dropped(q)
            \/ \E k \in Task, s \in sends : Receipted(k, s)
            \/ \E k \in Task : Unmarked(k)

\* A task that goes on outside a sale, and one that ends.
LEMMA RestsElsewhere ==
  ASSUME RunType, NEW k \in Task, NEW x \in Labels \ {"call", "unmark"}, Goto(k, x),
         \A j \in Task \ {k} : work'[j] = work[j]
  PROVE  pc'[k] \notin {"call", "unmark"} /\ \A j \in Task : Rests(j)
  BY GotoType DEF Rests

LEMMA RestsQuit ==
  ASSUME RunType, NEW k \in Task, Quit(k)
  PROVE  pc'[k] \notin {"call", "unmark"} /\ \A j \in Task : Rests(j)
  BY QuitType DEF Rests

LEMMA SaleSteps ==
  ASSUME TypeOK, TasksAreKnown, NEW k \in Task, SaleStep(k)
  PROVE  LaneStep
  <1> DEFINE o == work[k]
  <1>0. receipts \subseteq Payment /\ RunType
    BY TypeParts DEF TypeOK
  <1>1. o \in Order /\ pc[k] \in {"sell", "call", "unmark"}
    BY DEF SaleStep, Sell, Complete, RemoveMarker, TasksAreKnown, Working
  <1>2. ASSUME NEW p \in Matching(o), Tell(o, p.txid)
        PROVE  p \in Payment /\ Answered(p)
    BY <1>0, <1>2, MatchingType DEF Tell, Answered
  <1>3. ASSUME Fail(k) PROVE LaneStep
    BY <1>0, <1>3, RestsQuit DEF Fail, LaneStep
  <1>4. ASSUME Sold(k) PROVE pc'[k] \notin {"call", "unmark"} /\ \A j \in Task : Rests(j)
    BY <1>0, <1>4, RestsQuit, RestsElsewhere DEF Sold, Labels
  <1>5. CASE Sell(k)
    <2>1. CASE /\ \E r \in Matching(o) : Tell(o, r.txid)
               /\ Sold(k)
               /\ UNCHANGED <<disk, marker, receipts, wire, sends, reported>>
      BY <1>2, <1>4, <2>1 DEF LaneStep, Told
    <2>2. CASE /\ pc[k] = "sell" /\ ~HasReceipt(o) /\ marker = None
               /\ marker' = [id |-> o.out, intent |-> o.content]
               /\ wire' = wire \union {marker'}
               /\ Goto(k, "call")
               /\ UNCHANGED <<disk, receipts, sends, told, reported, work, fresh, todo, posting>>
      <3>1. pc'[k] = "call" /\ \A j \in Task \ {k} : Rests(j)
        BY <1>0, <2>2, GotoType DEF Rests, Labels
      <3>2. Begun(k)
        BY <1>1, <2>2, <3>1 DEF Begun, Sale
      <3> QED
        BY <3>2 DEF LaneStep
    <2> QED
      BY <1>3, <1>5, <2>1, <2>2 DEF Sell
  <1>6. CASE Complete(k)
    <2>1. CASE /\ pc[k] = "call"
               /\ \E s \in sends : /\ s.id = o.out /\ s.intent = o.content
                                   /\ receipts' = receipts \union {s}
               /\ Goto(k, "unmark")
               /\ UNCHANGED <<disk, marker, wire, sends, told, reported, work, fresh, todo, posting>>
      <3>1. pc'[k] = "unmark" /\ \A j \in Task \ {k} : Rests(j)
        BY <1>0, <2>1, GotoType DEF Rests, Labels
      <3>2. \E s \in sends : Receipted(k, s)
        BY <2>1, <3>1 DEF Receipted
      <3> QED
        BY <3>2 DEF LaneStep
    <2> QED
      BY <1>3, <1>6, <2>1 DEF Complete
  <1>7. CASE RemoveMarker(k)
    <2>1. CASE /\ pc[k] = "unmark" /\ marker' = None
               /\ \E r \in Matching(o) : Tell(o, r.txid)
               /\ Sold(k)
               /\ UNCHANGED <<disk, receipts, wire, sends, reported>>
      <3>1. Unmarked(k)
        BY <1>2, <1>4, <2>1 DEF Unmarked
      <3> QED
        BY <3>1 DEF LaneStep
    <2> QED
      BY <1>3, <1>7, <2>1 DEF RemoveMarker
  <1> QED
    BY <1>5, <1>6, <1>7 DEF SaleStep

LEMMA LaneSteps == ASSUME TypeOK, TasksAreKnown, Next PROVE LaneStep
  <1>0. receipts \subseteq Payment /\ RunType /\ "outbox" \in Task /\ "screen" \in Task
    BY TypeParts DEF TypeOK, Task
  <1>1. ASSUME UNCHANGED lane, Quit("outbox") PROVE LaneStep
    BY <1>0, <1>1, RestsQuit DEF LaneStep
  <1>2. ASSUME UNCHANGED lane, NEW k \in Task, NEW x \in Labels \ {"call", "unmark"}, Goto(k, x),
               \A j \in Task \ {k} : work'[j] = work[j]
        PROVE  LaneStep
    BY <1>0, <1>2, RestsElsewhere DEF LaneStep
  <1>3. CASE Recover
    <2> DEFINE o == work["outbox"]
    <2>1. /\ o \in Order /\ o.id \in OrderId /\ records[o.id] # None /\ records[o.id].order = o
          /\ pc["outbox"] = "recover"
      BY <1>3, NoneIsNoRecord DEF Recover, TasksAreKnown, Working, Task
    <2>2. \/ UNCHANGED lane /\ (Quit("outbox") \/ (Goto("outbox", "sell") /\ UNCHANGED work))
          \/ /\ UNCHANGED <<marker, receipts, wire, sends>> /\ Quit("outbox")
             /\ \/ records[o.id].txid # None /\ Tell(o, records[o.id].txid)
                \/ \E p \in Matching(o) : Tell(o, p.txid)
      BY <1>3 DEF Recover, Fail, lane
    <2>3. ASSUME records[o.id].txid # None, Tell(o, records[o.id].txid)
          PROVE  \E p \in Payment : Answered(p)
      <3> DEFINE p == [id |-> o.out, intent |-> o.content, txid |-> records[o.id].txid]
      <3>1. Answered(p)
        BY <2>1, <2>3 DEF Answered, Tell
      <3> HIDE DEF p
      <3> QED
        BY <3>1, AnsweredType
    <2>4. ASSUME NEW p \in Matching(o), Tell(o, p.txid) PROVE p \in Payment /\ Answered(p)
      BY <1>0, <2>4, MatchingType DEF Tell, Answered
    <2> HIDE DEF o
    <2>5. CASE UNCHANGED lane
      BY <1>0, <1>1, <1>2, <2>2, <2>5 DEF Labels
    <2>6. CASE /\ UNCHANGED <<marker, receipts, wire, sends>> /\ Quit("outbox")
               /\ \/ records[o.id].txid # None /\ Tell(o, records[o.id].txid)
                  \/ \E p \in Matching(o) : Tell(o, p.txid)
      BY <1>0, <2>3, <2>4, <2>6, RestsQuit DEF LaneStep, Told
    <2> QED
      BY <2>2, <2>5, <2>6
  <1>4. ASSUME NEW q \in wire, NodeTransfers(q) \/ NodeDrops(q) PROVE LaneStep
    <2>1. \A j \in Task : Rests(j)
      BY <1>4 DEF NodeTransfers, NodeDrops, Rests, run
    <2>2. (\E t \in TxId : Made(q, t)) \/ Dropped(q)
      BY <1>4, <2>1 DEF NodeTransfers, NodeDrops, Made, Dropped
    <2> QED
      BY <2>2 DEF LaneStep
  <1>5. CASE Crash
    <2>1. \A j \in Task : pc'[j] = "idle"
      BY <1>5 DEF Crash
    <2> QED
      BY <1>5, <2>1 DEF Crash, LaneStep, Rests
  <1>6. ASSUME NEW o \in Order, Deliver(o) \/ SellByHand(o) PROVE LaneStep
    <2>1. PICK k \in Task : /\ \E x \in Labels \ {"call", "unmark"} : Goto(k, x)
                            /\ work' = [work EXCEPT ![k] = o] /\ UNCHANGED lane
      BY <1>0, <1>6 DEF Deliver, SellByHand, Labels
    <2>2. \A j \in Task \ {k} : work'[j] = work[j]
      BY <1>0, <2>1 DEF RunType
    <2> QED
      BY <1>2, <2>1, <2>2
  <1>7. CASE Verify \/ Bind \/ SaveRecord \/ SaveTxid \/ EndRetry \/ Retry
             \/ (\E i \in OrderId : FlushNext(i) \/ FlushAborts(i))
             \/ PostAccepted \/ PostUnanswered \/ PostUnsaved
    <2>1. /\ UNCHANGED lane
          /\ \/ Quit("outbox")
             \/ /\ UNCHANGED work
                /\ pc' = pc \/ \E x \in Labels \ {"call", "unmark"} : Goto("outbox", x)
      BY <1>7 DEF Verify, Bind, SaveRecord, SaveTxid, EndRetry, Retry, FlushNext, FlushAborts,
                  PostAccepted, PostUnanswered, PostUnsaved, Fail, Posted, Labels
    <2>2. CASE pc' = pc /\ UNCHANGED work
      BY <2>1, <2>2 DEF LaneStep, Rests
    <2> QED
      BY <1>0, <1>1, <1>2, <2>1, <2>2
  <1> QED
    BY <1>3, <1>4, <1>5, <1>6, <1>7, SaleSteps, InputsAreOrders DEF Next, OutboxStep

\* Records only come, and keep their order: what a task knows of one is not lost.
LEMMA RecordsRemain ==
  ASSUME RecordType, RecordStep, receipts \subseteq Payment
  PROVE  /\ RecordType'
         /\ \A i \in OrderId : records[i] # None =>
              /\ records'[i] # None /\ records'[i].order = records[i].order
              /\ records[i].txid # None => records'[i].txid = records[i].txid
              /\ records[i].state = "completed" => records'[i].state = "completed"
  <1>1. CASE records' = records
    BY <1>1 DEF RecordType
  <1>2. ASSUME NEW o \in Order, Prepared(o)
        PROVE  /\ RecordType'
               /\ \A i \in OrderId : records[i] # None => records'[i] = records[i]
    <2>1. /\ RecordType' /\ records[o.id] = None
          /\ \A j \in OrderId \ {o.id} : records'[j] = records[j]
      BY <1>2, PreparedFields DEF Prepared
    <2> QED
      BY <2>1
  <1>3. ASSUME NEW i \in OrderId, NEW p \in receipts, Settled(i, p)
        PROVE  /\ RecordType' /\ records[i].txid = None /\ records[i].state # "completed"
               /\ records'[i] # None /\ records'[i].order = records[i].order
               /\ \A j \in OrderId \ {i} : records'[j] = records[j]
    <2>1. records[i].state # "completed"
      BY <1>3 DEF Settled, RecordType
    <2> QED
      BY <1>3, <2>1, SettleFields, MatchingType DEF Settled
  <1>4. ASSUME NEW i \in OrderId, Completed(i)
        PROVE  /\ RecordType'
               /\ records'[i] # None /\ records'[i].order = records[i].order
               /\ records'[i].txid = records[i].txid /\ records'[i].state = "completed"
               /\ \A j \in OrderId \ {i} : records'[j] = records[j]
    BY <1>4, CompletedFields DEF Completed
  <1> QED
    BY <1>1, <1>2, <1>3, <1>4 DEF RecordStep

LEMMA LaneTypes == ASSUME TypeOK, TasksAreKnown, Next PROVE LaneType'
  <1>0. LaneType /\ RecordType /\ LaneStep /\ RecordStep /\ ReportStep
    BY TypeParts, LaneSteps, RecordSteps
  <1>1. reported' \subseteq [id : OrderId, txid : TxId]
    <2>1. \A i \in OrderId : records[i] # None /\ records[i].txid # None => records[i].txid \in TxId
      BY <1>0, NoneIsNoRecord DEF RecordType
    <2> QED
      BY <1>0, <2>1 DEF ReportStep, LaneType
  <1>2. bindings' \in [Outpoint -> OrderId \union {None}]
    <2>1. CASE Bind
      <3>1. work["outbox"] \in Order
        BY <2>1 DEF Bind, TasksAreKnown, Working, Task
      <3> QED
        BY <1>0, <2>1, <3>1, NoneIsNoRecord DEF Bind, Fail, disk, LaneType
    <2>2. CASE ~ Bind
      <3>1. bindings' = bindings
        BY <2>2 DEF Next, OutboxStep, SaleStep, Deliver, SellByHand, Retry, Verify, SaveRecord,
                    Recover, SaveTxid, FlushNext, FlushAborts, PostAccepted, PostUnanswered,
                    PostUnsaved, EndRetry, Sell, Complete, RemoveMarker, NodeTransfers, NodeDrops,
                    Crash, Fail, disk
      <3> QED
        BY <1>0, <3>1 DEF LaneType
    <2> QED
      BY <2>1, <2>2
  <1>3. ASSUME NEW p \in Payment, Answered(p) PROVE told' \subseteq Payment
    BY <1>3, AnsweredType
  <1>4. ASSUME NEW k \in Task, Begun(k) PROVE LaneType'
    BY <1>0, <1>1, <1>2, <1>4, SaleType DEF Begun, LaneType
  <1>5. ASSUME NEW q \in wire, NEW t \in TxId, Made(q, t) PROVE LaneType'
    <2>1. [id |-> q.id, intent |-> q.intent, txid |-> t] \in Payment
      BY <1>0 DEF LaneType, Request, Payment
    <2> QED
      BY <1>0, <1>1, <1>2, <1>5, <2>1 DEF Made, LaneType
  <1>6. CASE \/ UNCHANGED lane \/ Told \/ (\E q \in wire : Dropped(q))
             \/ (\E k \in Task, s \in sends : Receipted(k, s)) \/ (\E k \in Task : Unmarked(k))
    BY <1>0, <1>1, <1>2, <1>3, <1>6 DEF lane, Told, Dropped, Receipted, Unmarked, LaneType
  <1> QED
    BY <1>0, <1>4, <1>5, <1>6 DEF LaneStep

\* What the tasks know survives what another task, or nobody, does.
Knows == /\ pc["screen"] \in {"idle", "sell", "call", "unmark"}
         /\ \A k \in Task : pc[k] \in Working => work[k] \in Order
         /\ todo \subseteq {i \in OrderId : records[i] # None}

LEMMA RunTypes == ASSUME TypeOK, TasksAreKnown, Next PROVE RunType' /\ Knows'
  <1>0. /\ RunType /\ RecordType /\ Knows /\ "outbox" \in Task /\ "screen" \in Task
        /\ Task = {"outbox", "screen"}
        /\ \A i \in OrderId : records[i] # None => records'[i] # None
    BY TypeParts, RecordSteps, RecordsRemain DEF TypeOK, Task, TasksAreKnown, Knows
  <1>1. ASSUME NEW k \in Task, Quit(k) PROVE RunType' /\ Knows'
    <2>1. /\ RunType' /\ pc'[k] = "idle"
          /\ \A j \in Task \ {k} : pc'[j] = pc[j] /\ work'[j] = work[j]
          /\ IF k = "outbox" THEN todo' = {} ELSE UNCHANGED <<fresh, todo, posting>>
      BY <1>0, <1>1, QuitType
    <2>2. pc'["screen"] \in {"idle", "sell", "call", "unmark"}
      BY <1>0, <2>1 DEF Knows
    <2>3. \A j \in Task : pc'[j] \in Working => work'[j] \in Order
      BY <1>0, <2>1 DEF Knows, Working
    <2>4. todo' \subseteq {i \in OrderId : records'[i] # None}
      BY <1>0, <2>1 DEF Knows
    <2> QED
      BY <2>1, <2>2, <2>3, <2>4 DEF Knows
  <1>2. ASSUME NEW x \in Labels, NEW k \in Task, Goto(k, x),
               k = "screen" => x \in {"sell", "call", "unmark"},
               work' \in [Task -> Order \union {None}],
               \A j \in Task \ {k} : work'[j] = work[j],
               x \in Working => work'[k] \in Order,
               fresh' \in BOOLEAN, posting' \in OrderId \union {None},
               todo' \subseteq todo \/ todo' = {i \in OrderId : records'[i] # None}
        PROVE  RunType' /\ Knows'
    <2>1. /\ pc' \in [Task -> Labels] /\ pc'[k] = x /\ \A j \in Task \ {k} : pc'[j] = pc[j]
      BY <1>0, <1>2, GotoType
    <2>2. todo' \subseteq {i \in OrderId : records'[i] # None}
      BY <1>0, <1>2 DEF Knows
    <2>3. RunType'
      BY <1>2, <2>1, <2>2 DEF RunType
    <2>4. pc'["screen"] \in {"idle", "sell", "call", "unmark"}
      BY <1>0, <1>2, <2>1 DEF Knows
    <2>5. \A j \in Task : pc'[j] \in Working => work'[j] \in Order
      BY <1>0, <1>2, <2>1 DEF Knows
    <2> QED
      BY <2>2, <2>3, <2>4, <2>5 DEF Knows
  <1>3. ASSUME NEW k \in Task, SaleStep(k) PROVE RunType' /\ Knows'
    <2>1. work[k] \in Order
      BY <1>0, <1>3 DEF SaleStep, Sell, Complete, RemoveMarker, Knows, Working
    <2>2. \/ Quit(k)
          \/ /\ UNCHANGED <<work, fresh, todo, posting>>
             /\ \E x \in {"call", "unmark", "save"} :
                  Goto(k, x) /\ (x = "save" => k = "outbox")
      BY <1>3 DEF SaleStep, Sell, Complete, RemoveMarker, Sold, Fail
    <2> QED
      BY <1>0, <1>1, <1>2, <2>1, <2>2 DEF RunType, Labels, Working
  <1>4. ASSUME NEW o \in Order, Deliver(o) \/ SellByHand(o) PROVE RunType' /\ Knows'
    <2>1. PICK k \in Task : \E x \in {"verify", "bind", "sell"} :
            /\ Goto(k, x) /\ (k = "screen" => x = "sell")
            /\ work' = [work EXCEPT ![k] = o] /\ UNCHANGED <<fresh, todo, posting>>
      BY <1>0, <1>4 DEF Deliver, SellByHand
    <2>2. work' \in [Task -> Order \union {None}] /\ work'[k] = o
          /\ \A j \in Task \ {k} : work'[j] = work[j]
      BY <1>0, <2>1 DEF RunType
    <2> QED
      BY <1>0, <1>2, <2>1, <2>2 DEF RunType, Labels
  <1>5. CASE Retry
    <2>1. records' = records
      BY <1>5 DEF Retry, disk
    <2> QED
      BY <1>0, <1>2, <1>5, <2>1 DEF Retry, RunType, Labels, Working
  <1>6. CASE Verify \/ Bind \/ SaveRecord \/ Recover \/ SaveTxid \/ EndRetry
             \/ (\E i \in OrderId : FlushAborts(i)) \/ PostUnsaved
    <2>1. \/ Quit("outbox")
          \/ /\ UNCHANGED <<work, todo, posting>> /\ fresh' \in BOOLEAN
             /\ \E x \in {"bind", "record", "recover", "sell"} : Goto("outbox", x)
             /\ pc["outbox"] \in Working
      BY <1>0, <1>6 DEF Verify, Bind, SaveRecord, Recover, SaveTxid, EndRetry, FlushAborts,
                        PostUnsaved, Fail, RunType, Working
    <2> QED
      BY <1>0, <1>1, <1>2, <2>1 DEF RunType, Labels, Working, Knows
  <1>7. ASSUME NEW i \in OrderId, FlushNext(i) PROVE RunType' /\ Knows'
    <2>1. /\ UNCHANGED <<work, fresh>> /\ todo' \subseteq todo
          /\ \/ posting' = i /\ Goto("outbox", "post")
             \/ UNCHANGED <<posting, pc>>
      BY <1>7 DEF FlushNext
    <2>2. CASE Goto("outbox", "post") /\ posting' = i
      BY <1>0, <1>2, <2>1, <2>2 DEF RunType, Labels, Working
    <2>3. CASE UNCHANGED <<posting, pc>>
      BY <1>0, <2>1, <2>3 DEF RunType, Knows
    <2> QED
      BY <2>1, <2>2, <2>3
  <1>8. CASE PostAccepted \/ PostUnanswered
    <2>1. Posted
      BY <1>8 DEF PostAccepted, PostUnanswered
    <2> QED
      BY <1>0, <1>2, <2>1 DEF Posted, RunType, Labels, Working
  <1>9. ASSUME NEW q \in wire, NodeTransfers(q) \/ NodeDrops(q) PROVE RunType' /\ Knows'
    BY <1>0, <1>9 DEF NodeTransfers, NodeDrops, run, RunType, Knows
  <1>10. CASE Crash
    BY <1>0, <1>10 DEF Crash, RunType, Knows, Labels, Working
  <1> QED
    BY <1>3, <1>4, <1>5, <1>6, <1>7, <1>8, <1>9, <1>10, InputsAreOrders DEF Next, OutboxStep

\* What the outbox knows of the record it works on.
Pins == /\ pc["outbox"] = "post" => posting \in OrderId /\ records[posting] # None
                                    /\ records[posting].txid # None
        /\ pc["outbox"] = "record" => records[work["outbox"].id] = None
        /\ pc["outbox"] \in {"recover", "sell", "call", "unmark", "save"} =>
             LET o == work["outbox"] IN
             /\ records[o.id] # None /\ records[o.id].order = o
             /\ pc["outbox"] # "recover" => records[o.id].txid = None

LEMMA KnownParts == TasksAreKnown <=> Knows /\ Pins
  BY DEF TasksAreKnown, Knows, Pins

LEMMA PinsKept == ASSUME TypeOK, TasksAreKnown, Next PROVE Pins'
  <1>0. /\ RunType /\ RecordType /\ Knows /\ Pins /\ "outbox" \in Task /\ "screen" \in Task
        /\ \A i \in OrderId : records[i] # None => records'[i] # None
        /\ receipts \subseteq Payment
    BY TypeParts, KnownParts, RecordSteps, RecordsRemain DEF TypeOK, Task
  \* The outbox is left where it was, or is not where it knows of a record.
  <1>1. ASSUME UNCHANGED records, pc'["outbox"] = pc["outbox"], work'["outbox"] = work["outbox"],
               posting' = posting
        PROVE  Pins'
    BY <1>0, <1>1 DEF Pins
  <1>2. ASSUME pc'["outbox"] \in {"idle", "verify", "bind", "flush"} PROVE Pins'
    BY <1>2 DEF Pins
  <1>3. ASSUME Quit("outbox") PROVE Pins'
    BY <1>0, <1>2, <1>3, QuitType
  <1>4. ASSUME NEW x \in Labels, Goto("outbox", x) PROVE pc'["outbox"] = x
    BY <1>0, <1>4, GotoType
  <1>5. CASE (\E o \in Asked : Deliver(o)) \/ Verify \/ Retry \/ EndRetry \/ Crash
             \/ (\E i \in OrderId : FlushAborts(i)) \/ PostAccepted \/ PostUnanswered \/ PostUnsaved
             \/ SaveTxid
    <2>1. Quit("outbox") \/ pc'["outbox"] = "idle"
            \/ \E x \in {"verify", "bind", "flush"} : Goto("outbox", x)
      BY <1>0, <1>5 DEF Deliver, Verify, Retry, EndRetry, Crash, FlushAborts, PostAccepted,
                        PostUnanswered, PostUnsaved, SaveTxid, Posted, Fail
    <2> QED
      BY <1>2, <1>3, <1>4, <2>1 DEF Labels
  <1>6. CASE (\E o \in ByHand : SellByHand(o)) \/ SaleStep("screen")
             \/ (\E q \in wire : NodeTransfers(q) \/ NodeDrops(q))
    <2>1. UNCHANGED <<records, posting>> /\ pc'["outbox"] = pc["outbox"] /\ work'["outbox"] = work["outbox"]
      <3>1. CASE \E o \in ByHand : SellByHand(o)
        BY <1>0, <3>1 DEF SellByHand, Goto, RunType, disk
      <3>2. CASE SaleStep("screen")
        <4>1. Quit("screen") \/ (UNCHANGED <<work, posting>> /\ \E x \in Labels : Goto("screen", x))
          BY <3>2 DEF SaleStep, Sell, Complete, RemoveMarker, Sold, Fail, Labels
        <4>2. UNCHANGED records
          BY <3>2 DEF SaleStep, Sell, Complete, RemoveMarker, Fail, disk
        <4> QED
          BY <1>0, <4>1, <4>2, GotoType, QuitType
      <3>3. CASE \E q \in wire : NodeTransfers(q) \/ NodeDrops(q)
        BY <3>3 DEF NodeTransfers, NodeDrops, disk, run
      <3> QED
        BY <1>6, <3>1, <3>2, <3>3
    <2> QED
      BY <1>1, <2>1
  <1>7. CASE Bind
    <2> DEFINE o == work["outbox"]
    <2>1. CASE /\ pc["outbox"] = "bind" /\ records[o.id] # None /\ records[o.id].order = o
               /\ Goto("outbox", "recover") /\ UNCHANGED <<disk, work>>
      BY <1>4, <2>1 DEF Labels, Pins, disk
    <2>2. CASE /\ records[o.id] = None /\ Goto("outbox", "record") /\ UNCHANGED <<records, work>>
      BY <1>4, <2>2 DEF Labels, Pins
    <2> QED
      BY <1>3, <1>7, <2>1, <2>2 DEF Bind, Fail
  <1>8. CASE SaveRecord
    <2> DEFINE o == work["outbox"]
    <2>1. o \in Order
      BY <1>0, <1>8 DEF SaveRecord, Knows, Working
    <2>2. CASE /\ records' = [records EXCEPT ![o.id] = [order |-> o, state |-> "prepared",
                                                        txid |-> None]]
               /\ Goto("outbox", "recover") /\ UNCHANGED work
      <3>1. pc'["outbox"] = "recover" /\ records'[o.id] # None /\ records'[o.id].order = o
        BY <1>0, <1>4, <2>1, <2>2, PreparedFields DEF Labels
      <3> QED
        BY <2>2, <3>1 DEF Pins
    <2> QED
      BY <1>3, <1>8, <2>2 DEF SaveRecord, Fail
  <1>9. CASE Recover
    <2>1. \/ Quit("outbox")
          \/ /\ pc["outbox"] = "recover" /\ records[work["outbox"].id].txid = None
             /\ Goto("outbox", "sell") /\ UNCHANGED <<records, work>>
      BY <1>9 DEF Recover, Fail, disk
    <2> QED
      BY <1>0, <1>3, <1>4, <2>1 DEF Labels, Pins
  <1>10. CASE SaleStep("outbox")
    <2>1. \/ Quit("outbox")
          \/ /\ pc["outbox"] \in {"sell", "call", "unmark"} /\ UNCHANGED <<records, work>>
             /\ \E x \in {"call", "unmark", "save"} : Goto("outbox", x)
      BY <1>10 DEF SaleStep, Sell, Complete, RemoveMarker, Sold, Fail, disk
    <2> QED
      BY <1>0, <1>3, <1>4, <2>1 DEF Labels, Pins
  <1>11. ASSUME NEW i \in OrderId, FlushNext(i) PROVE Pins'
    <2>0. i \in todo /\ records[i] # None /\ pc["outbox"] = "flush"
      BY <1>0, <1>11 DEF FlushNext, Knows
    <2>1. CASE /\ \E p \in Matching(records[i].order) : Settle(i, p.txid)
               /\ posting' = i /\ Goto("outbox", "post")
      <3>1. PICK p \in Matching(records[i].order) : Settle(i, p.txid)
        BY <2>1
      <3>2. p.txid \in TxId /\ p.txid # None
        BY <1>0, MatchingType, NoneIsNoRecord
      <3>3. records'[i] # None /\ records'[i].txid # None
        BY <1>0, <2>0, <3>1, <3>2, SettleFields
      <3> QED
        BY <1>4, <2>1, <3>3 DEF Labels, Pins
    <2>2. CASE UNCHANGED <<disk, pc, work, posting>>
      BY <1>1, <2>2 DEF disk
    <2>3. CASE records[i].txid # None /\ posting' = i /\ Goto("outbox", "post") /\ UNCHANGED disk
      BY <1>4, <2>0, <2>3 DEF Labels, Pins, disk
    <2> QED
      BY <1>11, <2>1, <2>2, <2>3 DEF FlushNext
  <1> QED
    BY <1>5, <1>6, <1>7, <1>8, <1>9, <1>10, <1>11 DEF Next, OutboxStep, Task

----------------------------------------------------------------------------
(* The lane and the records *)

LEMMA RecordsStayTrue ==
  ASSUME TypeOK, TasksAreKnown, RecordsAreTrue, AnswersAreTrue, CompletionsMatch, Next
  PROVE  RecordsAreTrue' /\ CompletionsMatch' /\ sends \subseteq sends'
  <1>0. /\ RecordType /\ RecordStep /\ ReportStep /\ LaneStep /\ receipts \subseteq Payment
        /\ reported \subseteq [id : OrderId, txid : TxId] /\ \A t \in TxId : t # None
    BY TypeParts, RecordSteps, LaneSteps, NoneIsNoRecord DEF TypeOK
  <1>1. /\ RecordType'
        /\ \A i \in OrderId : records[i] # None =>
             /\ records'[i] # None /\ records'[i].order = records[i].order
             /\ records[i].txid # None => records'[i].txid = records[i].txid
    BY <1>0, RecordsRemain
  <1>2. sends \subseteq sends'
    BY <1>0 DEF LaneStep, lane, Told, Begun, Made, Dropped, Receipted, Unmarked
  <1>3. ASSUME NEW i \in OrderId, records'[i] # None, records'[i].txid # None
        PROVE  [id |-> records'[i].order.out, intent |-> records'[i].order.content,
                txid |-> records'[i].txid] \in sends
    <2>1. CASE records[i] # None /\ records[i].txid # None
      BY <1>1, <2>1 DEF RecordsAreTrue
    <2>2. CASE ~(records[i] # None /\ records[i].txid # None)
      <3>1. PICK p \in receipts : Settled(i, p)
        <4>1. records' # records
          BY <1>3, <2>2
        <4>2. ASSUME NEW o \in Order, Prepared(o) PROVE FALSE
          BY <1>0, <1>3, <2>2, <4>2, PreparedFields DEF Prepared
        <4>3. ASSUME NEW j \in OrderId, Completed(j) PROVE FALSE
          BY <1>0, <1>3, <2>2, <4>3, CompletedFields DEF Completed
        <4>4. ASSUME NEW j \in OrderId, NEW p \in receipts, Settled(j, p) PROVE j = i
          <5>1. \A k \in OrderId \ {j} : records'[k] = records[k]
            BY <1>0, <4>4, MatchingType, SettleFields DEF Settled
          <5> QED
            BY <1>3, <2>2, <5>1
        <4> QED
          BY <1>0, <4>1, <4>2, <4>3, <4>4 DEF RecordStep
      <3>2. records'[i].order = records[i].order /\ records'[i].txid = p.txid
        BY <1>0, <3>1, MatchingType, SettleFields DEF Settled
      <3>3. p = [id |-> records[i].order.out, intent |-> records[i].order.content, txid |-> p.txid]
        BY <1>0, <3>1, MatchingType DEF Settled
      <3> QED
        BY <3>1, <3>2, <3>3 DEF AnswersAreTrue
    <2> QED
      BY <2>1, <2>2
  <1>4. RecordsAreTrue'
    BY <1>2, <1>3 DEF RecordsAreTrue
  <1>5. CompletionsMatch'
    <2>1. ASSUME NEW c \in reported
          PROVE  records'[c.id] # None /\ records'[c.id].txid = c.txid
      <3>1. c.id \in OrderId /\ c.txid # None
        BY <1>0
      <3> QED
        BY <1>1, <3>1 DEF CompletionsMatch
    <2>2. ASSUME NEW i \in OrderId, records[i] # None, records[i].txid # None
          PROVE  records'[i] # None /\ records'[i].txid = records[i].txid
      BY <1>1, <2>2
    <2> QED
      BY <1>0, <2>1, <2>2 DEF ReportStep, CompletionsMatch
  <1> QED
    BY <1>2, <1>4, <1>5

Lane == AnswersAreTrue /\ SentOnce /\ WireIsMarked /\ SendsAreKept /\ MarkerHasOwner

LEMMA LaneStays ==
  ASSUME TypeOK, TasksAreKnown, RecordsAreTrue, Lane, LaneStep
  PROVE  Lane'
  <1> USE DEF Lane
  <1>0. /\ sends \subseteq Payment /\ receipts \subseteq Payment /\ wire \subseteq Request
        /\ marker \in Request \union {None}
        /\ \A k \in Task : pc[k] \in Working => work[k] \in Order
    BY DEF TypeOK, TasksAreKnown
  <1>1. ASSUME NEW p, Answered(p) PROVE p \in sends
    BY <1>1 DEF Answered, AnswersAreTrue, RecordsAreTrue
  \* Steps that leave the marker to whom it was, and no receipt less.
  <1>2. ASSUME \A j \in Task : Rests(j), UNCHANGED marker, receipts \subseteq receipts'
        PROVE  MarkerHasOwner'
    <2>1. ASSUME NEW j \in Task, pc'[j] = "unmark"
          PROVE  \E r \in receipts' : r.id = work'[j].out /\ r.intent = work'[j].content
      <3>1. pc[j] = "unmark" /\ work'[j] = work[j]
        BY <1>2, <2>1 DEF Rests
      <3>2. \E r \in receipts : r.id = work[j].out /\ r.intent = work[j].content
        BY <3>1 DEF MarkerHasOwner, Matching
      <3> QED
        BY <1>2, <3>1, <3>2
    <2>2. \A j \in Task : pc'[j] = "unmark" => Matching(work[j])' # {}
      BY <2>1 DEF Matching
    <2>3. \A j \in Task : pc'[j] \in {"call", "unmark"} =>
                            pc[j] \in {"call", "unmark"} /\ work'[j] = work[j]
      BY <1>2 DEF Rests
    <2>4. \A j \in Task : pc'[j] \in {"call", "unmark"} => marker' = Sale(work[j])'
      BY <1>2, <2>3 DEF MarkerHasOwner, Sale
    <2> QED
      BY <2>2, <2>3, <2>4 DEF MarkerHasOwner
  <1>3. CASE UNCHANGED lane /\ \A j \in Task : Rests(j)
    BY <1>2, <1>3 DEF lane, AnswersAreTrue, SentOnce, WireIsMarked, SendsAreKept
  \* An answer gives away nothing that was not sent.
  <1>10. ASSUME NEW p, Answered(p) PROVE told' \subseteq sends
    BY <1>1, <1>10 DEF Answered, AnswersAreTrue
  <1>4. CASE Told
    <2>1. told' \subseteq sends /\ UNCHANGED <<marker, receipts, wire, sends>>
      BY <1>4, <1>10 DEF Told
    <2>2. AnswersAreTrue' /\ SentOnce' /\ WireIsMarked' /\ SendsAreKept'
      BY <2>1 DEF AnswersAreTrue, SentOnce, WireIsMarked, SendsAreKept
    <2> QED
      BY <1>2, <1>4, <2>1, <2>2 DEF Told
  <1>5. ASSUME NEW k \in Task, Begun(k) PROVE Lane'
    <2>1. ASSUME NEW s \in sends PROVE s.id # work[k].out /\ s \in receipts
      BY <1>5 DEF Begun, SendsAreKept, HasReceipt
    <2>2. wire = {} /\ \A j \in Task : pc[j] \notin {"call", "unmark"}
      <3>1. \A j \in Task : pc[j] \in {"call", "unmark"} => Sale(work[j]) = None
        BY <1>5 DEF Begun, MarkerHasOwner
      <3>2. \A j \in Task : pc[j] \in {"call", "unmark"} => Sale(work[j]) \in Request
        BY <1>0, SaleType DEF Working
      <3>3. None \notin Request
        BY NoneAssumption
      <3> QED
        BY <1>0, <1>5, <3>1, <3>2, <3>3 DEF Begun, WireIsMarked
    <2>3. WireIsMarked' /\ SendsAreKept' /\ AnswersAreTrue' /\ SentOnce'
      BY <1>5, <2>1, <2>2
      DEF Begun, WireIsMarked, SendsAreKept, AnswersAreTrue, SentOnce, Sale
    <2>4. MarkerHasOwner'
      BY <1>5, <2>2 DEF Begun, Rests, MarkerHasOwner, Sale, Task
    <2> QED
      BY <2>3, <2>4
  <1>6. ASSUME NEW q \in wire, NEW t \in TxId, Made(q, t) PROVE Lane'
    <2> DEFINE new == [id |-> q.id, intent |-> q.intent, txid |-> t]
    <2>1. marker = q /\ \A s \in sends : s.id # new.id /\ s.txid # new.txid
      BY <1>6 DEF Made, WireIsMarked
    <2>2. sends' = sends \union {new} /\ new.id = q.id
      BY <1>6 DEF Made
    <2> HIDE DEF new
    <2>3. q # None
      BY <1>0, NoneAssumption
    <2>4. AnswersAreTrue' /\ SentOnce' /\ SendsAreKept'
      BY <1>6, <2>1, <2>2, <2>3 DEF Made, AnswersAreTrue, SentOnce, SendsAreKept
    <2>5. wire' = {}
      BY <1>6, <2>1 DEF Made, WireIsMarked
    <2>6. WireIsMarked' /\ MarkerHasOwner'
      BY <1>2, <1>6, <2>5 DEF Made, WireIsMarked
    <2> QED
      BY <2>4, <2>6
  <1>7. ASSUME NEW q \in wire, Dropped(q) PROVE Lane'
    BY <1>2, <1>7 DEF Dropped, AnswersAreTrue, SentOnce, WireIsMarked, SendsAreKept
  <1>8. ASSUME NEW k \in Task, NEW s \in sends, Receipted(k, s) PROVE Lane'
    <2>1. AnswersAreTrue' /\ SentOnce' /\ WireIsMarked' /\ SendsAreKept'
      BY <1>8 DEF Receipted, AnswersAreTrue, SentOnce, WireIsMarked, SendsAreKept
    <2>2. marker = Sale(work[k]) /\ \A j \in Task \ {k} : pc[j] \notin {"call", "unmark"}
      BY <1>8 DEF Receipted, MarkerHasOwner, Task
    <2>3. \A j \in Task \ {k} : pc'[j] \notin {"call", "unmark"}
      BY <1>8, <2>2 DEF Receipted, Rests
    <2>4. s \in Matching(work[k])'
      BY <1>8 DEF Receipted, Matching
    <2>5. MarkerHasOwner'
      <3>1. \A j \in Task : pc'[j] \in {"call", "unmark"} => j = k
        BY <2>3
      <3>2. work' = work /\ marker' = marker /\ Task \ {k} # {}
        BY <1>8 DEF Receipted, Task
      <3>3. Sale(work[k])' = Sale(work[k])
        BY <3>2 DEF Sale
      <3> QED
        BY <2>2, <2>4, <3>1, <3>2, <3>3 DEF MarkerHasOwner, Sale
    <2> QED
      BY <2>1, <2>5
  <1>9. ASSUME NEW k \in Task, Unmarked(k) PROVE Lane'
    <2>1. PICK r \in receipts : r.id = work[k].out
      BY <1>9 DEF Unmarked, MarkerHasOwner, Matching
    <2>2. marker = Sale(work[k]) /\ marker.id = work[k].out /\ r \in sends
      BY <1>9, <2>1 DEF Unmarked, MarkerHasOwner, AnswersAreTrue, Sale
    <2>3. wire = {}
      BY <2>1, <2>2 DEF WireIsMarked
    <2>4. sends \subseteq receipts
      BY <2>1, <2>2 DEF SendsAreKept, SentOnce
    <2>5. \A j \in Task : pc'[j] \notin {"call", "unmark"}
      BY <1>9 DEF Unmarked, Rests, MarkerHasOwner, Task
    <2>6. AnswersAreTrue' /\ SentOnce' /\ WireIsMarked' /\ SendsAreKept'
      <3>1. told' \subseteq sends /\ UNCHANGED <<receipts, wire, sends>>
        BY <1>9, <1>10 DEF Unmarked
      <3> QED
        BY <2>3, <2>4, <3>1 DEF AnswersAreTrue, SentOnce, WireIsMarked, SendsAreKept
    <2>7. MarkerHasOwner'
      BY <2>5 DEF MarkerHasOwner, Task
    <2> QED
      BY <2>6, <2>7
  <1> QED
    BY <1>3, <1>4, <1>5, <1>6, <1>7, <1>8, <1>9 DEF LaneStep

----------------------------------------------------------------------------
(* The inductive invariant *)

LEMMA PinsPrimed == TasksAreKnown' <=> Knows' /\ Pins'
  BY DEF TasksAreKnown, Knows, Pins

LEMMA LaneParts == /\ IInv <=> /\ TypeOK /\ TasksAreKnown /\ RecordsAreTrue /\ Lane
                               /\ CompletionsMatch
                   /\ IInv' <=> /\ TypeOK' /\ TasksAreKnown' /\ RecordsAreTrue' /\ Lane'
                                /\ CompletionsMatch'
  BY DEF IInv, Lane

LEMMA InitHolds == Init => IInv
  <1> SUFFICES ASSUME Init PROVE IInv
    OBVIOUS
  <1>1. TypeOK
    BY DEF Init, TypeOK
  <1>2. TasksAreKnown
    BY DEF Init, TasksAreKnown, Task, Working
  <1>3. RecordsAreTrue /\ CompletionsMatch
    BY DEF Init, RecordsAreTrue, CompletionsMatch
  <1>4. AnswersAreTrue /\ SentOnce /\ WireIsMarked /\ SendsAreKept
    BY DEF Init, AnswersAreTrue, SentOnce, WireIsMarked, SendsAreKept
  <1>5. MarkerHasOwner
    BY DEF Init, MarkerHasOwner, Task
  <1> QED
    BY <1>1, <1>2, <1>3, <1>4, <1>5 DEF IInv

\* The bookkeeping of the model's own variables: a step that changes none of them.
LEMMA StutterHolds == IInv /\ UNCHANGED vars => IInv'
  <1> SUFFICES ASSUME IInv, UNCHANGED vars PROVE IInv'
    OBVIOUS
  <1> USE DEF vars, disk, lane, run
  <1>1. TypeOK' /\ TasksAreKnown'
    BY DEF IInv, TypeOK, TasksAreKnown
  <1>2. RecordsAreTrue' /\ CompletionsMatch' /\ AnswersAreTrue' /\ SentOnce'
    BY DEF IInv, RecordsAreTrue, CompletionsMatch, AnswersAreTrue, SentOnce
  <1>3. WireIsMarked' /\ SendsAreKept' /\ MarkerHasOwner'
    BY DEF IInv, WireIsMarked, SendsAreKept, MarkerHasOwner, Matching, Sale
  <1> QED
    BY <1>1, <1>2, <1>3 DEF IInv

LEMMA StepHolds == IInv /\ Next => IInv'
  <1> SUFFICES ASSUME IInv, Next PROVE IInv'
    OBVIOUS
  <1>0. TypeOK /\ TasksAreKnown /\ RecordsAreTrue /\ Lane /\ CompletionsMatch
    BY LaneParts
  <1>1. RecordType'
    BY <1>0, RecordSteps, RecordsRemain, TypeParts DEF TypeOK
  <1>2. LaneType' /\ RunType' /\ Knows'
    BY <1>0, LaneTypes, RunTypes
  <1>3. Pins'
    BY <1>0, PinsKept
  <1>4. RecordsAreTrue' /\ CompletionsMatch'
    BY <1>0, RecordsStayTrue DEF Lane
  <1>5. Lane'
    BY <1>0, LaneSteps, LaneStays
  <1> QED
    BY <1>1, <1>2, <1>3, <1>4, <1>5, LaneParts, PinsPrimed, TypeParts

LEMMA Invariance == Spec => []IInv
  BY InitHolds, StutterHolds, StepHolds, PTL DEF Spec

----------------------------------------------------------------------------
(* What the delivery of web orders promises *)

(* The files, the lane and the tasks keep their shape: a record is filed under  *)
(* its order's id and has a transaction unless it is only prepared.             *)
THEOREM TypeCorrect == Spec => []TypeOK
  <1>1. IInv => TypeOK
    BY DEF IInv
  <1> QED
    BY <1>1, Invariance, PTL

(* retry_remote_completions tells the site of an order only with the transaction *)
(* that sent this order's own contents, and the order's record holds that one.   *)
THEOREM CompletionsHold == Spec => []CompletionsAreTrue
  <1>1. ASSUME IInv PROVE CompletionsAreTrue
    <2>1. ASSUME NEW c \in reported
          PROVE  /\ records[c.id] # None /\ records[c.id].txid = c.txid
                 /\ \E s \in sends : /\ s.txid = c.txid
                                     /\ s.id = records[c.id].order.out
                                     /\ s.intent = records[c.id].order.content
      <3>1. c.id \in OrderId /\ c.txid \in TxId /\ c.txid # None
        BY <1>1, NoneIsNoRecord DEF IInv, TypeOK
      <3>2. records[c.id] # None /\ records[c.id].txid = c.txid
        BY <1>1 DEF IInv, CompletionsMatch
      <3>3. [id |-> records[c.id].order.out, intent |-> records[c.id].order.content,
             txid |-> records[c.id].txid] \in sends
        BY <1>1, <3>1, <3>2 DEF IInv, RecordsAreTrue
      <3> QED
        BY <3>2, <3>3
    <2> QED
      BY <2>1 DEF CompletionsAreTrue
  <1> QED
    BY <1>1, Invariance, PTL

(* No call and no crash changes the order of a record or the transaction it has, *)
(* and what is completed stays completed.                                        *)
THEOREM PinnedStays == Spec => RecordsArePinned
  <1>1. ASSUME IInv, [Next]_vars PROVE \A i \in OrderId : Pinned(i)
    <2>1. CASE Next
      <3>1. RecordType /\ RecordStep /\ receipts \subseteq Payment
        BY <1>1, <2>1, RecordSteps, TypeParts DEF IInv, TypeOK
      <3> QED
        BY <3>1, RecordsRemain DEF Pinned
    <2>2. CASE UNCHANGED vars
      BY <2>2 DEF vars, disk, Pinned
    <2> QED
      BY <1>1, <2>1, <2>2
  <1> QED
    BY <1>1, Invariance, PTL DEF Spec, RecordsArePinned

(* A step of the lane is one of the ledger's: an answer is of a payment that was *)
(* made, and the node pays only for what was never paid.                         *)
LEMMA LaneStepPays ==
  ASSUME TypeOK, RecordsAreTrue, Lane, LaneStep
  PROVE  [Ledger!Next]_(Ledger!vars)
  <1>1. ASSUME NEW p \in Payment, Answered(p), UNCHANGED sends PROVE Ledger!Next
    <2>1. p \in sends
      BY <1>1 DEF Answered, Lane, AnswersAreTrue, RecordsAreTrue
    <2>2. Ledger!Tell(p) /\ p \in Ledger!Payment
      BY <1>1, <2>1 DEF Ledger!Tell, Ledger!Payment, Payment, Answered
    <2> QED
      BY <2>2 DEF Ledger!Next
  <1>2. ASSUME NEW q \in wire, NEW t \in TxId, Made(q, t) PROVE Ledger!Next
    <2> DEFINE new == [id |-> q.id, intent |-> q.intent, txid |-> t]
    <2>1. new \in Ledger!Payment
      BY DEF TypeOK, Request, Ledger!Payment
    <2>2. \A s \in sends : s.id # q.id /\ s.txid # t
      BY <1>2 DEF Made, Lane, WireIsMarked
    <2>3. Ledger!Pay(new)
      BY <1>2, <2>2 DEF Made, Ledger!Pay
    <2> QED
      BY <2>1, <2>3 DEF Ledger!Next
  <1>3. CASE UNCHANGED lane \/ (\E k \in Task : Begun(k)) \/ (\E q \in wire : Dropped(q))
             \/ (\E k \in Task, s \in sends : Receipted(k, s))
    BY <1>3 DEF lane, Begun, Dropped, Receipted, Ledger!vars
  <1> QED
    BY <1>1, <1>2, <1>3 DEF LaneStep, Told, Unmarked

(* The sale lane implements the ledger that pays once: whichever order id brings *)
(* a payment in, and if it is sold by hand as well, one transfer leaves for it.  *)
THEOREM ImplementsLedger == Spec => PaymentBuysOnce
  <1>1. Init => Ledger!Init
    BY DEF Init, Ledger!Init
  <1>2. ASSUME IInv, [Next]_vars PROVE [Ledger!Next]_(Ledger!vars)
    <2>1. CASE Next
      BY <1>2, <2>1, LaneParts, LaneSteps, LaneStepPays
    <2>2. CASE UNCHANGED vars
      BY <2>2 DEF vars, lane, Ledger!vars
    <2> QED
      BY <1>2, <2>1, <2>2
  <1> QED
    BY <1>1, <1>2, Invariance, PTL DEF Spec, PaymentBuysOnce, Ledger!Spec

----------------------------------------------------------------------------
(* Unattended selling *)

LEMMA SellingConstants ==
  /\ \A t \in Transfer : t # Nothing /\ t.order \in Claim /\ t.call \in 0 .. MaxTransfers
  /\ \A o \in Claim, n \in 0 .. MaxTransfers : [call |-> n, order |-> o] \in Transfer
  /\ \A d \in WalletRow : d # Nothing
  /\ \A p \in Deposit : p[1] \in Claim
  /\ \A o \in Claim : Qty[o] \in Nat
  /\ Cap \in Nat /\ MaxTransfers \in Nat /\ MaxMishaps \in Nat /\ MaxCrashes \in Nat
  /\ MaxPayments \in Nat /\ Deepest \in Depth
  BY SellingAssumption, NoTransferAssumption DEF Deposit, Transfer

\* A scan picks payments that have come and are confirmed.
LEMMA PickedAreSettled ==
  ASSUME NEW r \in Round, NEW p \in Seen(r), Fillable(p)
  PROVE  p \in Deposit /\ SettledIn(p)
  <1>1. RequiredConfirmations(0).need = 1
    BY DEF RequiredConfirmations
  <1> QED
    BY <1>1 DEF Fillable, ClaimKrw, SettledIn, Seen

\* What becomes of the wallet's rows: they come, get deeper, leave the window, and
\* only go while unconfirmed.
RowMoves(p) == Pay(p) \/ Confirm(p) \/ Replace(p) \/ Scroll(p)

LEMMA PaysStep ==
  ASSUME AutoTypeOK, NEW p \in Deposit, RowMoves(p)
  PROVE  /\ pays' \in [Deposit -> WalletRow \union {Nothing}]
         /\ \A q \in Deposit : SettledIn(q) => SettledIn(q)'
         /\ payments' \in 0 .. MaxPayments /\ mishaps' \in 0 .. MaxMishaps
  <1>1. /\ pays \in [Deposit -> WalletRow \union {Nothing}]
        /\ payments \in 0 .. MaxPayments /\ mishaps \in 0 .. MaxMishaps
    BY DEF AutoTypeOK
  <1>2. \A q \in Deposit \ {p} : pays'[q] = pays[q]
    BY <1>1 DEF RowMoves, Pay, Confirm, Replace, Scroll, Row
  <1>3. CASE Pay(p)
    <2>1. PICK enough \in BOOLEAN :
            pays' = [pays EXCEPT ![p] = [enough |-> enough, depth |-> 0, recent |-> TRUE]]
      BY <1>3 DEF Pay, Row
    <2>2. [enough |-> enough, depth |-> 0, recent |-> TRUE] \in WalletRow
      BY DEF Depth, WalletRow
    <2>3. payments' \in 0 .. MaxPayments
      BY <1>1, <1>3, SellingConstants DEF Pay
    <2> QED
      BY <1>1, <1>2, <1>3, <2>1, <2>2, <2>3 DEF Pay, SettledIn
  <1>4. CASE Confirm(p)
    <2> DEFINE d == [pays[p] EXCEPT !.depth = @ + 1]
    <2>1. pays[p] \in WalletRow /\ pays[p].depth < Deepest
      BY <1>1, <1>4 DEF Confirm
    <2>2. pays[p].depth + 1 \in Depth
      BY <2>1, SellingConstants DEF Depth, WalletRow
    <2>3. /\ d \in WalletRow /\ d.enough = pays[p].enough
          /\ d.depth = pays[p].depth + 1 /\ pays' = [pays EXCEPT ![p] = d]
      BY <1>1, <1>4, <2>1, <2>2 DEF Confirm, Row, WalletRow
    <2> HIDE DEF d
    <2>4. pays'[p] = d /\ d # Nothing /\ d.depth >= 1
      BY <1>1, <2>1, <2>3, SellingConstants DEF Depth, WalletRow
    <2> QED
      BY <1>1, <1>2, <1>4, <2>3, <2>4 DEF SettledIn, Confirm
  <1>5. CASE Replace(p)
    <2>1. ~SettledIn(p)
      BY <1>5 DEF Replace, SettledIn
    <2> QED
      BY <1>1, <1>2, <1>5, <2>1 DEF Replace, Row, SettledIn
  <1>6. CASE Scroll(p)
    <2> DEFINE d == [pays[p] EXCEPT !.recent = FALSE]
    <2>1. pays[p] \in WalletRow
      BY <1>1, <1>6 DEF Scroll
    <2>2. /\ d \in WalletRow /\ d.enough = pays[p].enough /\ d.depth = pays[p].depth
          /\ pays' = [pays EXCEPT ![p] = d]
      BY <1>1, <1>6, <2>1 DEF Scroll, Row, WalletRow
    <2> HIDE DEF d
    <2>3. pays'[p] = d /\ d # Nothing
      BY <1>1, <2>2, SellingConstants
    <2>4. mishaps' \in 0 .. MaxMishaps
      BY <1>1, <1>6, SellingConstants DEF Scroll
    <2> QED
      BY <1>1, <1>2, <1>6, <2>2, <2>3, <2>4 DEF SettledIn, Scroll
  <1> QED
    BY <1>3, <1>4, <1>5, <1>6 DEF RowMoves

----------------------------------------------------------------------------
(* Its types *)

MarksType == /\ {filled, fillsFile, sent, doubt, again, lost, revived, stopped} \subseteq SUBSET Claim
             /\ listed \in BOOLEAN /\ loaded \in BOOLEAN /\ sentToday \in Nat
CallsType == /\ held \subseteq Transfer /\ carried \subseteq Transfer
             /\ calls \in 0 .. MaxTransfers /\ mishaps \in 0 .. MaxMishaps
             /\ crashes \in 0 .. MaxCrashes
RoundsType ==
  /\ at \in [Round -> {"idle", "list", "loading", "wallet", "send"} \union Filling \union Telling]
  /\ offers \in [Round -> SUBSET Claim]
  /\ queue \in [Round -> SUBSET Deposit]
  /\ current \in [Round -> Transfer \union {Nothing}]
  /\ \A r \in Round : at[r] \in Filling \union Telling <=> current[r] # Nothing
  /\ copy \in [Round -> SUBSET Claim] /\ done \in [Round -> SUBSET Claim]
AutoParts == MarksType /\ CallsType /\ RoundsType

\* The order a round has in hand is a claim.
LEMMA HandIsClaim ==
  ASSUME RoundsType, NEW r \in Round, at[r] \in Filling \union Telling
  PROVE  current[r] \in Transfer /\ OrderOf(r) \in Claim
  BY SellingConstants DEF RoundsType, OrderOf

LEMMA SaveTypes ==
  ASSUME AutoParts, NEW r \in Round, at[r] \in Filling \union Telling, SaveCopy(r)
  PROVE  /\ {fillsFile', lost', doubt'} \subseteq SUBSET Claim
         /\ mishaps' \in 0 .. MaxMishaps
  <1>1. OrderOf(r) \in Claim /\ copy[r] \subseteq Claim
    BY HandIsClaim DEF AutoParts, RoundsType
  <1>2. fillsFile' \in {copy[r], fillsFile, {}} /\ mishaps' \in {mishaps, mishaps + 1}
        /\ (mishaps' # mishaps => mishaps < MaxMishaps)
    BY DEF SaveCopy, SaveFails
  <1> QED
    BY <1>1, <1>2, SellingConstants DEF SaveCopy, AutoParts, MarksType, CallsType

LEMMA WriteTypes ==
  ASSUME AutoParts, NEW r \in Round, NEW own, WriteBack(r, own)
  PROVE  /\ {filled', lost', revived'} \subseteq SUBSET Claim
         /\ UNCHANGED <<wallet, shop, fillsFile, held, doubt, again, stopped, counts>>
  BY DEF WriteBack, AutoParts, MarksType, RoundsType

\* A round that has nothing in hand moves on: its marks and its transfers stay.
LEMMA PlainTypes ==
  ASSUME AutoParts, NEW r \in Round,
         \/ StartRound(r) \/ Load(r) \/ Scan(r) \/ Unlock(r) \/ EndEarly(r) \/ Finish(r)
  PROVE  AutoParts'
  <1>0. MarksType /\ CallsType /\ RoundsType
    BY DEF AutoParts
  <1>1. MarksType' /\ CallsType'
    BY <1>0
    DEF MarksType, CallsType, StartRound, Load, Scan, Unlock, EndEarly, Finish, wallet, shop, memory,
        ghosts, counts
  <1>2. PendingClaims \subseteq Claim /\ fillsFile \subseteq Claim
    BY <1>0 DEF PendingClaims, MarksType
  <1>3. CASE StartRound(r)
    BY <1>0, <1>1, <1>2, <1>3 DEF StartRound, RoundsType, AutoParts, Filling, Telling, Marking, Freeing
  <1>4. CASE Load(r)
    BY <1>0, <1>1, <1>2, <1>4 DEF Load, Copy, RoundsType, AutoParts, Filling, Telling, Marking, Freeing
  <1>5. CASE Scan(r)
    <2> DEFINE found == {p \in Seen(r) : Fillable(p)}
    <2>1. found \subseteq Deposit
      BY DEF Seen
    <2>2. /\ queue' = [queue EXCEPT ![r] = found]
          /\ at' = [at EXCEPT ![r] = IF found = {} THEN "idle" ELSE "wallet"]
          /\ offers' = [offers EXCEPT ![r] = {}]
          /\ UNCHANGED <<current, copy, done>> /\ at[r] = "list"
      BY <1>5 DEF Scan
    <2> HIDE DEF found
    <2> QED
      BY <1>0, <1>1, <2>1, <2>2 DEF RoundsType, AutoParts, Filling, Telling, Marking, Freeing
  <1>6. CASE Unlock(r) \/ EndEarly(r) \/ Finish(r)
    BY <1>0, <1>1, <1>6
    DEF Unlock, EndEarly, Finish, RoundsType, AutoParts, Filling, Telling, Marking, Freeing
  <1> QED
    BY <1>3, <1>4, <1>5, <1>6

LEMMA HandTypes ==
  ASSUME AutoParts, NEW r \in Round,
         Loaded(r) \/ Send(r) \/ Write(r) \/ SaveAndAsk(r) \/ Transferred(r)
  PROVE  AutoParts'
  <1>0. MarksType /\ CallsType /\ RoundsType
    BY DEF AutoParts
  <1>1. CASE Loaded(r)
    <2>1. MarksType' /\ CallsType'
      BY <1>0, <1>1, WriteTypes
      DEF Loaded, MarksType, CallsType, wallet, shop, memory, counts
    <2>2. RoundsType'
      BY <1>0, <1>1 DEF Loaded, Copy, RoundsType, Filling, Telling, Marking, Freeing
    <2> QED
      BY <2>1, <2>2 DEF AutoParts
  <1>2. CASE Send(r)
    <2>1. PICK p \in queue[r] :
            /\ Take(r, p)
            /\ again' = again \union {o \in {p[1]} :
                 o \in filled \/ \E s \in Round : at[s] \in Filling /\ OrderOf(s) = o}
      BY <1>2 DEF Send
    <2>2. p \in Deposit /\ p[1] \in Claim
      BY <1>0, SellingConstants DEF RoundsType
    <2>3. [call |-> 0, order |-> p[1]] \in Transfer /\ [call |-> 0, order |-> p[1]] # Nothing
      BY <1>0, <2>2, SellingConstants DEF CallsType
    <2>4. MarksType' /\ CallsType'
      BY <1>0, <1>2, <2>1, <2>2 DEF Send, MarksType, CallsType, wallet, shop, memory, counts
    <2>5. RoundsType'
      BY <1>0, <1>2, <2>1, <2>2, <2>3
      DEF Send, Take, Copy, RoundsType, MarksType, Filling, Telling, Marking, Freeing
    <2> QED
      BY <2>4, <2>5 DEF AutoParts
  <1>3. CASE Write(r)
    <2>1. MarksType' /\ CallsType'
      BY <1>0, <1>3, WriteTypes DEF Write, MarksType, CallsType, wallet, shop, counts
    <2>2. /\ at[r] \in {"mark", "free", "tell"}
          /\ at' = [at EXCEPT ![r] = CASE @ = "mark" -> "marked" [] @ = "free" -> "freed"
                                         [] @ = "tell" -> "told"]
          /\ UNCHANGED <<offers, queue, current, copy, done>>
      BY <1>3 DEF Write
    <2>3. RoundsType'
      BY <1>0, <2>2 DEF RoundsType, Filling, Telling, Marking, Freeing
    <2> QED
      BY <2>1, <2>3 DEF AutoParts
  <1>4. CASE SaveAndAsk(r)
    <2> DEFINE c == [call |-> calls + 1, order |-> OrderOf(r)]
    <2>1. OrderOf(r) \in Claim /\ calls + 1 \in 0 .. MaxTransfers
      BY <1>0, <1>4, HandIsClaim, SellingConstants DEF SaveAndAsk, CallsType, Filling, Marking
    <2>2. c \in Transfer /\ c # Nothing
      BY <2>1, SellingConstants
    <2>3. /\ {fillsFile', lost', doubt'} \subseteq SUBSET Claim
          /\ mishaps' \in 0 .. MaxMishaps
      BY <1>4, SaveTypes DEF SaveAndAsk, Filling, Marking
    <2>4. /\ calls' = calls + 1 /\ held' = held \union {c} /\ current' = [current EXCEPT ![r] = c]
          /\ copy' = [copy EXCEPT ![r] = {}] /\ at' = [at EXCEPT ![r] = "call"] /\ at[r] = "marked"
          /\ UNCHANGED <<wallet, shop, memory, offers, queue, done, again, revived, stopped, crashes>>
      BY <1>4 DEF SaveAndAsk, Ask, Copy
    <2> HIDE DEF c
    <2>5. MarksType' /\ CallsType'
      BY <1>0, <2>1, <2>2, <2>3, <2>4 DEF MarksType, CallsType, wallet, shop, memory
    <2>6. RoundsType'
      BY <1>0, <2>2, <2>4 DEF RoundsType, Filling, Telling, Marking, Freeing
    <2> QED
      BY <2>5, <2>6 DEF AutoParts
  <1>5. CASE Transferred(r)
    <2>1. OrderOf(r) \in Claim
      BY <1>0, <1>5, HandIsClaim DEF Transferred, Filling
    <2>2. sentToday + Qty[OrderOf(r)] \in Nat
      BY <1>0, <2>1, SellingConstants DEF MarksType
    <2>3. MarksType' /\ CallsType'
      BY <1>0, <1>5, <2>2 DEF Transferred, MarksType, CallsType, wallet, memory, ghosts, counts
    <2>4. RoundsType'
      BY <1>0, <1>5, <2>1 DEF Transferred, LetGo, RoundsType, Filling, Telling, Marking, Freeing
    <2> QED
      BY <2>3, <2>4 DEF AutoParts
  <1> QED
    BY <1>1, <1>2, <1>3, <1>4, <1>5

LEMMA AnswerTypes ==
  ASSUME AutoParts, NEW r \in Round,
         Refused(r) \/ Unanswered(r) \/ SaveFreed(r) \/ MarkSent(r) \/ SaveTold(r)
  PROVE  AutoParts'
  <1>0. MarksType /\ CallsType /\ RoundsType
    BY DEF AutoParts
  <1>1. CASE Refused(r) \/ Unanswered(r)
    <2>1. OrderOf(r) \in Claim
      BY <1>0, <1>1, HandIsClaim DEF Refused, Unanswered, TransferFails, Filling
    <2>2. MarksType' /\ CallsType'
      BY <1>0, <1>1, <2>1, SellingConstants
      DEF Refused, Unanswered, TransferFails, MarksType, CallsType, wallet, shop, memory
    <2>3. RoundsType'
      BY <1>0, <1>1
      DEF Refused, Unanswered, TransferFails, Copy, MarksType, RoundsType, Filling, Telling, Marking, Freeing
    <2> QED
      BY <2>2, <2>3 DEF AutoParts
  <1>2. CASE SaveFreed(r)
    <2>1. {fillsFile', lost', doubt'} \subseteq SUBSET Claim /\ mishaps' \in 0 .. MaxMishaps
      BY <1>2, SaveTypes DEF SaveFreed, Filling, Freeing
    <2>2. MarksType' /\ CallsType'
      BY <1>0, <1>2, <2>1 DEF SaveFreed, MarksType, CallsType, wallet, shop, memory
    <2>3. RoundsType'
      BY <1>0, <1>2 DEF SaveFreed, LetGo, RoundsType, Filling, Telling, Marking, Freeing
    <2> QED
      BY <2>2, <2>3 DEF AutoParts
  <1>3. CASE MarkSent(r)
    <2>1. PICK o \in done[r] : /\ current' = [current EXCEPT ![r] = [call |-> 0, order |-> o]]
                               /\ Copy(r, filled \union {o}, "tell")
      BY <1>3 DEF MarkSent
    <2>2. o \in Claim
      BY <1>0 DEF RoundsType
    <2>3. [call |-> 0, order |-> o] \in Transfer /\ [call |-> 0, order |-> o] # Nothing
      BY <1>0, <2>2, SellingConstants DEF CallsType
    <2>4. MarksType' /\ CallsType'
      BY <1>0, <1>3 DEF MarkSent, MarksType, CallsType, wallet, shop, memory, ghosts, counts
    <2>5. RoundsType'
      BY <1>0, <1>3, <2>1, <2>2, <2>3
      DEF MarkSent, Copy, MarksType, RoundsType, Filling, Telling, Marking, Freeing
    <2> QED
      BY <2>4, <2>5 DEF AutoParts
  <1>4. CASE SaveTold(r)
    <2>1. OrderOf(r) \in Claim /\ {fillsFile', lost', doubt'} \subseteq SUBSET Claim /\ mishaps' \in 0 .. MaxMishaps
      BY <1>0, <1>4, HandIsClaim, SaveTypes DEF SaveTold, Telling
    <2>2. MarksType' /\ CallsType'
      BY <1>0, <1>4, <2>1 DEF SaveTold, MarksType, CallsType, wallet, memory
    <2>3. /\ done' = [done EXCEPT ![r] = @ \ {OrderOf(r)}]
          /\ current' = [current EXCEPT ![r] = Nothing] /\ copy' = [copy EXCEPT ![r] = {}]
          /\ at' = [at EXCEPT ![r] = IF done'[r] = {} THEN "idle" ELSE "send"]
          /\ UNCHANGED <<offers, queue>>
      BY <1>4 DEF SaveTold, LetGo
    <2>4. RoundsType'
      BY <1>0, <2>3 DEF RoundsType, Filling, Telling, Marking, Freeing
    <2> QED
      BY <2>2, <2>4 DEF AutoParts
  <1> QED
    BY <1>1, <1>2, <1>3, <1>4

LEMMA OutsideTypes ==
  ASSUME AutoParts,
         \/ \E p \in Deposit : RowMoves(p)
         \/ \E c \in held : NodeSends(c)
         \/ NewDay \/ Publish \/ Restart \/ UNCHANGED autoVars
  PROVE  AutoParts'
  <1>0. MarksType /\ CallsType /\ RoundsType
    BY DEF AutoParts
  <1>1. CASE \E p \in Deposit : RowMoves(p)
    BY <1>0, <1>1, SellingConstants
    DEF RowMoves, Pay, Confirm, Replace, Scroll, Row, AutoParts, MarksType, CallsType, RoundsType, shop,
        memory, rounds, ghosts
  <1>2. CASE \E c \in held : NodeSends(c)
    BY <1>0, <1>2
    DEF NodeSends, AutoParts, MarksType, CallsType, RoundsType, shop, memory, rounds, ghosts, counts
  <1>3. CASE NewDay \/ Publish
    <2>1. RoundsType' /\ CallsType'
      BY <1>0, <1>3 DEF NewDay, Publish, CallsType, RoundsType, wallet, rounds, counts
    <2>2. listed' = listed \/ listed' = TRUE
      BY <1>3 DEF NewDay, Publish
    <2>3. listed' \in BOOLEAN
      BY <1>0, <2>2, Zenon DEF MarksType
    <2>4. MarksType'
      BY <1>0, <1>3, <2>3 DEF NewDay, Publish, MarksType, memory, ghosts
    <2> QED
      BY <2>1, <2>4 DEF AutoParts
  <1>4. CASE Restart
    <2>1. CallsType'
      BY <1>0, <1>4, SellingConstants DEF Restart, CallsType, wallet
    <2>2. listed' \in BOOLEAN /\ loaded' \in BOOLEAN
      BY <1>4, Zenon DEF Restart
    <2>3. MarksType'
      BY <1>0, <1>4, <2>2 DEF Restart, MarksType
    <2>4. RoundsType'
      BY <1>0, <1>4 DEF Restart, RoundsType, Filling, Telling, Marking, Freeing
    <2> QED
      BY <2>1, <2>3, <2>4 DEF AutoParts
  <1>5. CASE UNCHANGED autoVars
    BY <1>0, <1>5
    DEF autoVars, AutoParts, MarksType, CallsType, RoundsType, wallet, shop, memory, rounds, ghosts, counts
  <1> QED
    BY <1>1, <1>2, <1>3, <1>4, <1>5

LEMMA AutoTypeStep ==
  ASSUME AutoTypeOK, [AutoNext]_autoVars
  PROVE  AutoTypeOK'
  <1>0. AutoParts /\ pays \in [Deposit -> WalletRow \union {Nothing}] /\ payments \in 0 .. MaxPayments
    BY DEF AutoTypeOK, AutoParts, MarksType, CallsType, RoundsType
  <1>1. AutoParts'
    <2>1. ASSUME NEW r \in Round, Step(r) PROVE AutoParts'
      BY <1>0, <2>1, PlainTypes, HandTypes, AnswerTypes DEF Step
    <2>2. ASSUME \/ \E p \in Deposit : RowMoves(p)
                 \/ \E c \in held : NodeSends(c)
                 \/ NewDay \/ Publish \/ Restart \/ UNCHANGED autoVars
          PROVE  AutoParts'
      BY <1>0, <2>2, OutsideTypes
    <2>3. CASE \E p \in Deposit : Pay(p) \/ Confirm(p) \/ Replace(p) \/ Scroll(p)
      BY <2>2, <2>3 DEF RowMoves
    <2>4. CASE \E c \in held : NodeSends(c)
      BY <2>2, <2>4
    <2>5. CASE NewDay \/ Publish \/ Restart \/ UNCHANGED autoVars
      BY <2>2, <2>5
    <2> QED
      BY <2>1, <2>3, <2>4, <2>5 DEF AutoNext
  <1>2. CASE UNCHANGED <<pays, payments>>
    BY <1>0, <1>1, <1>2 DEF AutoTypeOK, AutoParts, MarksType, CallsType, RoundsType
  <1>3. ASSUME NEW p \in Deposit, RowMoves(p) PROVE AutoTypeOK'
    BY <1>1, <1>3, PaysStep DEF AutoTypeOK, AutoParts, MarksType, CallsType, RoundsType
  <1> QED
    BY <1>2, <1>3
    DEF AutoNext, Step, autoVars, RowMoves, wallet, counts, StartRound, Load, Loaded, Scan, Unlock, EndEarly,
        Send, Write, WriteBack, SaveAndAsk, NodeSends, Transferred, Refused, Unanswered, TransferFails,
        SaveFreed, Finish, MarkSent, SaveTold, NewDay, Publish, Restart

----------------------------------------------------------------------------
(* What is paid *)

LEMMA SettledStays ==
  ASSUME AutoTypeOK, [AutoNext]_autoVars, NEW q \in Deposit, SettledIn(q)
  PROVE  SettledIn(q)'
  <1>1. CASE UNCHANGED pays
    BY <1>1 DEF SettledIn
  <1>2. ASSUME NEW p \in Deposit, RowMoves(p) PROVE SettledIn(q)'
    BY <1>2, PaysStep
  <1> QED
    BY <1>1, <1>2
    DEF AutoNext, Step, autoVars, RowMoves, wallet, StartRound, Load, Loaded, Scan, Unlock, EndEarly,
        Send, Write, WriteBack, SaveAndAsk, NodeSends, Transferred, Refused, Unanswered, TransferFails,
        SaveFreed, Finish, MarkSent, SaveTold, NewDay, Publish, Restart

LEMMA PaidStays ==
  ASSUME AutoTypeOK, [AutoNext]_autoVars, NEW o, PaidInFull(o)
  PROVE  PaidInFull(o)'
  <1>1. PICK p \in Deposit : p[1] = o /\ SettledIn(p)
    BY DEF PaidInFull
  <1> QED
    BY <1>1, SettledStays DEF PaidInFull

LEMMA PickedStep ==
  ASSUME AutoTypeOK, PickedIsPaid, [AutoNext]_autoVars
  PROVE  PickedIsPaid'
  <1>1. queue \in [Round -> SUBSET Deposit]
    BY DEF AutoTypeOK
  <1>2. ASSUME NEW r \in Round, NEW q \in queue'[r], q \notin queue[r]
        PROVE  q \in Deposit /\ SettledIn(q)
    <2>1. CASE UNCHANGED queue
      BY <1>2, <2>1
    <2>2. CASE Restart
      BY <1>2, <2>2 DEF Restart
    <2>3. ASSUME NEW s \in Round, Scan(s) PROVE q \in Deposit /\ SettledIn(q)
      <3>1. queue' = [queue EXCEPT ![s] = {p \in Seen(s) : Fillable(p)}]
        BY <2>3 DEF Scan
      <3>2. q \in Seen(s) /\ Fillable(q)
        BY <1>1, <1>2, <3>1
      <3> QED
        BY <3>2, PickedAreSettled
    <2>4. ASSUME NEW s \in Round, EndEarly(s) \/ Send(s) PROVE queue'[r] \subseteq queue[r]
      BY <1>1, <2>4 DEF EndEarly, Send, Take
    <2> QED
      BY <1>2, <2>1, <2>2, <2>3, <2>4
      DEF AutoNext, Step, autoVars, rounds, Pay, Confirm, Replace, Scroll, Row, StartRound, Load, Loaded,
          Unlock, Write, SaveAndAsk, NodeSends, Transferred, Refused, Unanswered, TransferFails, SaveFreed,
          Finish, MarkSent, SaveTold, NewDay, Publish
  <1>3. ASSUME NEW r \in Round, NEW q \in queue'[r] PROVE SettledIn(q)'
    <2>1. q \in Deposit /\ SettledIn(q)
      BY <1>1, <1>2, <1>3 DEF PickedIsPaid
    <2> QED
      BY <2>1, SettledStays
  <1> QED
    BY <1>3 DEF PickedIsPaid

\* What a round marks is out of its queue, and what is asked for has been marked.
LEMMA HandsPaidStep ==
  ASSUME AutoTypeOK, PickedIsPaid, HandsArePaid, [AutoNext]_autoVars
  PROVE  HandsArePaid'
  <1>1. RoundsType
    BY DEF AutoTypeOK, RoundsType
  <1>2. ASSUME NEW r \in Round, at'[r] \in Marking PROVE PaidInFull(OrderOf(r)')
    <2>1. ASSUME at[r] \in Marking, current'[r] = current[r] PROVE PaidInFull(OrderOf(r)')
      BY <2>1 DEF HandsArePaid, OrderOf
    <2>2. CASE UNCHANGED <<at, current>>
      BY <1>2, <2>1, <2>2
    <2>3. ASSUME NEW s \in Round, Send(s) PROVE PaidInFull(OrderOf(r)')
      <3>1. PICK p \in queue[s] : Take(s, p)
        BY <2>3 DEF Send
      <3>2. p \in Deposit /\ SettledIn(p)
        BY <1>1, <3>1 DEF RoundsType, PickedIsPaid
      <3>3. CASE r = s
        BY <1>1, <3>1, <3>2, <3>3 DEF Take, RoundsType, OrderOf, PaidInFull
      <3>4. CASE r # s
        BY <1>1, <1>2, <2>1, <3>1, <3>4 DEF Take, Copy, RoundsType
      <3> QED
        BY <3>3, <3>4
    <2>4. ASSUME NEW s \in Round, Write(s) PROVE PaidInFull(OrderOf(r)')
      BY <1>1, <1>2, <2>1, <2>4 DEF Write, RoundsType, Marking
    <2>5. ASSUME NEW s \in Round, Step(s), ~Send(s), ~Write(s) PROVE PaidInFull(OrderOf(r)')
      <3>1. /\ \A t \in Round \ {s} : at'[t] = at[t] /\ current'[t] = current[t]
            /\ at'[s] \notin Marking
        BY <1>1, <2>5
        DEF Step, StartRound, Load, Loaded, Scan, Unlock, EndEarly, SaveAndAsk, Ask, Transferred, Refused,
            Unanswered, TransferFails, SaveFreed, Finish, MarkSent, SaveTold, LetGo, Copy, RoundsType, Marking
      <3> QED
        BY <1>2, <2>1, <3>1
    <2>6. CASE Restart
      BY <1>2, <2>6 DEF Restart, Marking
    <2> QED
      BY <2>2, <2>3, <2>4, <2>5, <2>6
      DEF AutoNext, autoVars, rounds, Pay, Confirm, Replace, Scroll, Row, NodeSends, NewDay, Publish
  <1> QED
    BY <1>2, PaidStays DEF HandsArePaid

LEMMA PaidStep ==
  ASSUME AutoTypeOK, HandsArePaid, AskedIsPaid, [AutoNext]_autoVars
  PROVE  AskedIsPaid'
  <1>1. ASSUME NEW c \in Asks', c \notin Asks PROVE PaidInFull(c.order)
    <2>1. CASE UNCHANGED <<held, carried>>
      BY <1>1, <2>1 DEF Asks
    <2>2. ASSUME NEW r \in Round, SaveAndAsk(r) PROVE PaidInFull(c.order)
      BY <1>1, <2>2 DEF SaveAndAsk, Ask, Asks, wallet, HandsArePaid, Marking
    <2>3. ASSUME NEW r \in Round, Refused(r) \/ Unanswered(r) PROVE Asks' \subseteq Asks
      BY <2>3 DEF Refused, Unanswered, TransferFails, Asks, wallet
    <2>4. CASE Restart
      BY <1>1, <2>4 DEF Restart, Asks, wallet
    <2>5. CASE \E d \in held : NodeSends(d)
      BY <1>1, <2>5 DEF NodeSends, Asks
    <2> QED
      BY <1>1, <2>1, <2>2, <2>3, <2>4, <2>5
      DEF AutoNext, Step, autoVars, wallet, Pay, Confirm, Replace, Scroll, Row, StartRound, Load, Loaded,
          Scan, Unlock, EndEarly, Send, Write, WriteBack, Transferred, SaveFreed, Finish, MarkSent,
          SaveTold, NewDay, Publish
  <1> QED
    BY <1>1, PaidStays DEF AskedIsPaid

----------------------------------------------------------------------------
(* What was asked for *)

AskedOnce == /\ AsksDiffer /\ OnceAsked /\ AskedIsMarked
             /\ HandsDiffer /\ HandsAreNew /\ HandsAreMarked /\ CopyMarks

\* The rounds but r keep what they have in hand.
Others(r) == \A s \in Round \ {r} : at'[s] = at[s] /\ current'[s] = current[s] /\ copy'[s] = copy[s]

LEMMA AskTypes ==
  ASSUME AutoTypeOK
  PROVE  /\ RoundsType /\ calls \in Nat
         /\ \A c \in Asks : c \in Transfer /\ c.call \in Nat
         /\ \A r \in Round : at[r] \in Filling \union Telling => current[r] \in Transfer
  <1>1. RoundsType /\ calls \in Nat /\ held \subseteq Transfer /\ carried \subseteq Transfer
    BY SellingConstants DEF AutoTypeOK, RoundsType
  <1> QED
    BY <1>1, SellingConstants, HandIsClaim DEF Asks

\* A step that leaves the marks alone, or a restart: nothing comes into hand.
Calm == /\ Asks' \subseteq Asks /\ calls' = calls /\ held' \intersect carried' = {}
        /\ Excused' = Excused /\ again' = again
        /\ filled \intersect fillsFile \subseteq filled' \intersect fillsFile'
        /\ \A r \in Round : at'[r] \in Filling \union Telling =>
             /\ at'[r] = at[r] /\ current'[r] = current[r] /\ copy'[r] = copy[r]
             /\ filled' = filled

LEMMA CalmSteps ==
  ASSUME AutoTypeOK, AsksDiffer, [AutoNext]_autoVars
  PROVE  \/ Calm
         \/ \E r \in Round : \/ Loaded(r) \/ Send(r) \/ Write(r) \/ SaveAndAsk(r) \/ Refused(r)
                             \/ Unanswered(r) \/ SaveFreed(r) \/ MarkSent(r) \/ SaveTold(r)
  <1>0. RoundsType /\ held \intersect carried = {}
    BY AskTypes DEF AsksDiffer
  <1>1. ASSUME UNCHANGED <<held, carried, calls, filled, fillsFile, doubt, again, lost>>,
               \A r \in Round : at'[r] \in Filling \union Telling =>
                 at'[r] = at[r] /\ current'[r] = current[r] /\ copy'[r] = copy[r]
        PROVE  Calm
    BY <1>0, <1>1 DEF Calm, Asks, Excused
  <1>2. CASE \E p \in Deposit : RowMoves(p)
    BY <1>1, <1>2
    DEF RowMoves, Pay, Confirm, Replace, Scroll, Row, memory, rounds, ghosts
  <1>3. CASE \E c \in held : NodeSends(c)
    BY <1>0, <1>3 DEF NodeSends, Calm, Asks, Excused, memory, rounds, ghosts, counts
  <1>4. CASE NewDay \/ Publish \/ UNCHANGED autoVars
    BY <1>1, <1>4 DEF NewDay, Publish, autoVars, wallet, memory, rounds, ghosts, counts
  <1>5. CASE Restart
    BY <1>0, <1>5 DEF Restart, Calm, Asks, Excused, wallet, Filling, Telling, Marking, Freeing
  <1>6. ASSUME NEW r \in Round,
               \/ StartRound(r) \/ Load(r) \/ Scan(r) \/ Unlock(r) \/ EndEarly(r) \/ Finish(r)
               \/ Transferred(r)
        PROVE  Calm
    <2>1. UNCHANGED <<held, carried, calls, filled, fillsFile, doubt, again, lost>>
      BY <1>6
      DEF StartRound, Load, Scan, Unlock, EndEarly, Finish, Transferred, wallet, memory, ghosts, counts
    <2>2. Others(r) /\ at'[r] \in {"idle", "list", "loading", "wallet", "send"}
      BY <1>0, <1>6
      DEF StartRound, Load, Scan, Unlock, EndEarly, Finish, Transferred, LetGo, Copy, Others, RoundsType
    <2> QED
      BY <1>1, <2>1, <2>2 DEF Others, Filling, Telling, Marking, Freeing
  <1> QED
    BY <1>2, <1>3, <1>4, <1>5, <1>6 DEF AutoNext, Step, RowMoves

LEMMA CalmHolds ==
  ASSUME AutoTypeOK, AskedOnce, Calm
  PROVE  AskedOnce'
  <1>1. AsksDiffer' /\ OnceAsked' /\ AskedIsMarked'
    BY AskTypes DEF AskedOnce, Calm, AsksDiffer, OnceAsked, AskedIsMarked
  <1>2. HandsDiffer' /\ CopyMarks'
    BY DEF AskedOnce, Calm, HandsDiffer, CopyMarks, OrderOf, Filling, Telling, Marking, Freeing
  <1>3. HandsAreNew' /\ HandsAreMarked'
    BY DEF AskedOnce, Calm, HandsAreNew, HandsAreMarked, OrderOf, Filling, Telling, Marking, Freeing
  <1> QED
    BY <1>1, <1>2, <1>3 DEF AskedOnce

\* fills.json is read, and written to memory.
LEMMA LoadedHolds ==
  ASSUME AutoTypeOK, AskedOnce, NEW r \in Round, Loaded(r)
  PROVE  AskedOnce'
  <1>1. /\ UNCHANGED <<held, carried, calls, fillsFile, doubt, again, current>> /\ filled' = copy[r]
        /\ lost' = lost \union (filled \ filled')
    BY DEF Loaded, WriteBack, wallet, counts
  <1>2. Others(r) /\ at'[r] = "list"
    BY <1>1, AskTypes DEF Loaded, Copy, Others, RoundsType
  <1>3. \A x : x \in filled => x \in filled' \union Excused'
    BY <1>1 DEF Excused
  <1>4. Excused \subseteq Excused'
    BY <1>1 DEF Excused
  <1>5. AsksDiffer' /\ OnceAsked' /\ AskedIsMarked'
    BY <1>1, <1>3, <1>4 DEF AskedOnce, AsksDiffer, OnceAsked, AskedIsMarked, Asks
  <1>6. HandsDiffer' /\ CopyMarks'
    BY <1>1, <1>2 DEF AskedOnce, HandsDiffer, CopyMarks, Others, OrderOf, Filling, Telling, Marking, Freeing
  <1>7. HandsAreNew' /\ HandsAreMarked'
    BY <1>1, <1>2, <1>3, <1>4
    DEF AskedOnce, HandsAreNew, HandsAreMarked, Others, OrderOf, Asks, Filling, Telling, Marking, Freeing
  <1> QED
    BY <1>5, <1>6, <1>7 DEF AskedOnce

\* A copy is written back: a mark that is gone is lost, or was taken back by its round.
LEMMA WriteHolds ==
  ASSUME AutoTypeOK, AskedOnce, NEW r \in Round, Write(r)
  PROVE  AskedOnce'
  <1> DEFINE own == OrderOf(r)
  <1>1. /\ UNCHANGED <<held, carried, calls, fillsFile, doubt, again, current, copy>>
        /\ filled' = copy[r] /\ lost' = lost \union ((filled \ filled') \ {own})
        /\ at[r] \in {"mark", "free", "tell"}
    BY DEF Write, WriteBack, wallet, counts
  <1>2. /\ Others(r) /\ \A s \in Round : OrderOf(s)' = OrderOf(s)
        /\ at[r] = "mark" => at'[r] = "marked"
        /\ at[r] = "free" => at'[r] = "freed"
        /\ at[r] = "tell" => at'[r] = "told"
    BY <1>1, AskTypes DEF Write, Others, RoundsType, OrderOf
  <1>3. at[r] \in {"mark", "tell"} => own \in filled'
    BY <1>1 DEF AskedOnce, CopyMarks, Marking, Telling
  <1> HIDE DEF own
  <1>4. /\ Excused \subseteq Excused' /\ \A x \in filled : x = own \/ x \in filled' \union Excused'
    BY <1>1 DEF Excused
  <1>5. AsksDiffer' /\ OnceAsked'
    BY <1>1, <1>4 DEF AskedOnce, AsksDiffer, OnceAsked, Asks
  <1>6. AskedIsMarked'
    <2>1. at[r] = "free" /\ own \notin Excused => \A c \in Asks : c.order # own
      BY DEF AskedOnce, HandsAreNew, own, Freeing
    <2> QED
      BY <1>1, <1>3, <1>4, <2>1 DEF AskedOnce, AskedIsMarked, Asks
  <1>7. HandsDiffer'
    BY <1>1, <1>2 DEF AskedOnce, HandsDiffer, Others, Filling, Marking, Freeing
  <1>8. HandsAreNew' /\ CopyMarks'
    BY <1>1, <1>2, <1>4
    DEF AskedOnce, HandsAreNew, CopyMarks, Others, Asks, Marking, Freeing, Telling
  <1>9. HandsAreMarked'
    <2>1. ASSUME NEW s \in Round, at'[s] = "marked" PROVE OrderOf(s)' \in (filled \union Excused)'
      <3>1. CASE s = r
        BY <1>1, <1>2, <1>3, <2>1, <3>1 DEF own
      <3>2. CASE s # r
        <4>1. at[s] = "marked" /\ OrderOf(s) \in filled \union Excused
          BY <1>2, <2>1, <3>2 DEF AskedOnce, HandsAreMarked, Others
        <4>2. at[r] = "free" /\ OrderOf(s) = own => own \in Excused
          BY <3>2, <4>1 DEF AskedOnce, HandsDiffer, own, Excused, Filling, Marking, Freeing
        <4> QED
          BY <1>1, <1>2, <1>3, <1>4, <4>1, <4>2
      <3> QED
        BY <3>1, <3>2
    <2> QED
      BY <2>1 DEF HandsAreMarked
  <1> QED
    BY <1>5, <1>6, <1>7, <1>8, <1>9 DEF AskedOnce

\* What a save leaves out of fills.json is lost or its own order, and a mark it does
\* not bring there is in doubt.
LEMMA SaveLeavesOut ==
  ASSUME NEW r \in Round, SaveCopy(r), filled' = filled, again' = again
  PROVE  /\ Excused \subseteq Excused'
         /\ \A x \in filled \intersect fillsFile : x = OrderOf(r) \/ x \in fillsFile' \union Excused'
         /\ at[r] # "freed" => OrderOf(r) \in fillsFile' \union Excused'
  BY DEF SaveCopy, Excused

\* A round that is done with an order, whose transfer it never asked for or which failed.
LEMMA SavedHolds ==
  ASSUME AutoTypeOK, AskedOnce, NEW r \in Round, SaveFreed(r) \/ SaveTold(r)
  PROVE  AskedOnce'
  <1> DEFINE own == OrderOf(r)
  <1>1. /\ UNCHANGED <<held, carried, calls, filled, again>> /\ SaveCopy(r)
        /\ at[r] = "freed" \/ at[r] = "told"
    BY DEF SaveFreed, SaveTold, wallet, memory
  <1>2. Others(r) /\ at'[r] \notin Filling \union Telling
    BY AskTypes DEF SaveFreed, SaveTold, LetGo, Others, RoundsType, Filling, Telling, Marking, Freeing
  <1>3. /\ Excused \subseteq Excused'
        /\ \A x \in filled \intersect fillsFile : x = own \/ x \in fillsFile' \union Excused'
        /\ at[r] = "told" => own \in fillsFile' \union Excused'
    BY <1>1, SaveLeavesOut
  <1>4. at[r] = "freed" /\ own \notin Excused => \A c \in Asks : c.order # own
    BY DEF AskedOnce, HandsAreNew, Freeing
  <1> HIDE DEF own
  <1>5. AsksDiffer' /\ OnceAsked'
    BY <1>1, <1>3 DEF AskedOnce, AsksDiffer, OnceAsked, Asks
  <1>6. AskedIsMarked'
    BY <1>1, <1>3, <1>4 DEF AskedOnce, AskedIsMarked, Asks
  <1>7. HandsDiffer' /\ CopyMarks'
    BY <1>1, <1>2 DEF AskedOnce, HandsDiffer, CopyMarks, Others, OrderOf, Filling, Marking, Freeing
  <1>8. HandsAreNew' /\ HandsAreMarked'
    BY <1>1, <1>2, <1>3
    DEF AskedOnce, HandsAreNew, HandsAreMarked, Others, OrderOf, Asks, Filling, Marking, Freeing
  <1> QED
    BY <1>5, <1>6, <1>7, <1>8 DEF AskedOnce

\* A new transfer is of an order without one, or of one that is excused.
LEMMA AskHolds ==
  ASSUME AutoTypeOK, AskedOnce, NEW r \in Round, SaveAndAsk(r)
  PROVE  AskedOnce'
  <1> DEFINE own == OrderOf(r)
  <1> DEFINE new == [call |-> calls + 1, order |-> own]
  <1>1. /\ at[r] = "marked" /\ SaveCopy(r) /\ UNCHANGED <<carried, filled, again>>
        /\ held' = held \union {new} /\ calls' = calls + 1
        /\ current' = [current EXCEPT ![r] = new]
    BY DEF SaveAndAsk, Ask, wallet, memory
  <1>2. /\ Others(r) /\ at'[r] = "call" /\ \A s \in Round : OrderOf(s)' = OrderOf(s)
    BY AskTypes DEF SaveAndAsk, Ask, Copy, Others, RoundsType, OrderOf
  <1>3. /\ Excused \subseteq Excused'
        /\ \A x \in filled \intersect fillsFile : x = own \/ x \in fillsFile' \union Excused'
        /\ own \in fillsFile' \union Excused'
    BY <1>1, SaveLeavesOut
  <1>4. /\ own \in filled \union Excused
        /\ own \notin Excused => \A c \in Asks : c.order # own
    BY <1>1 DEF AskedOnce, HandsAreMarked, HandsAreNew, Marking
  <1>5. \A s \in Round \ {r} : at[s] \in Filling /\ OrderOf(s) = own => own \in Excused
    BY <1>1 DEF AskedOnce, HandsDiffer, Excused, Filling, Marking
  <1> HIDE DEF own
  <1>6. new.call = calls + 1 /\ new.order = own /\ calls \in Nat
    BY AskTypes
  <1> HIDE DEF new
  <1>7. Asks' = Asks \union {new} /\ new \notin Asks
    BY <1>1, <1>6, AskTypes DEF AskedOnce, AsksDiffer, Asks
  <1>8. AsksDiffer'
    BY <1>1, <1>6, <1>7, AskTypes DEF AskedOnce, AsksDiffer, Asks
  <1>9. OnceAsked' /\ AskedIsMarked'
    BY <1>1, <1>3, <1>4, <1>6, <1>7 DEF AskedOnce, OnceAsked, AskedIsMarked
  <1>10. HandsDiffer' /\ CopyMarks'
    BY <1>1, <1>2 DEF AskedOnce, HandsDiffer, CopyMarks, Others, Filling, Telling, Marking, Freeing
  <1>11. HandsAreNew' /\ HandsAreMarked'
    BY <1>1, <1>2, <1>3, <1>5, <1>6, <1>7
    DEF AskedOnce, HandsAreNew, HandsAreMarked, Others, Filling, Marking, Freeing
  <1> QED
    BY <1>8, <1>9, <1>10, <1>11 DEF AskedOnce

\* An order comes into hand: it has no transfer, or is marked, or is excused.
LEMMA SendHolds ==
  ASSUME AutoTypeOK, AskedOnce, NEW r \in Round, Send(r)
  PROVE  AskedOnce'
  <1>1. PICK p \in queue[r] :
          /\ Take(r, p)
          /\ again' = again \union {o \in {p[1]} :
               o \in filled \/ \E s \in Round : at[s] \in Filling /\ OrderOf(s) = o}
    BY DEF Send
  <1> DEFINE own == p[1]
  <1>2. UNCHANGED <<held, carried, calls, filled, fillsFile, doubt, lost>>
    BY DEF Send, wallet, memory, counts
  <1>3. /\ Others(r) /\ at[r] = "send" /\ at'[r] = "mark" /\ own \in copy'[r]
        /\ OrderOf(r)' = own /\ \A s \in Round \ {r} : OrderOf(s)' = OrderOf(s)
    BY <1>1, AskTypes DEF Send, Take, Copy, Others, RoundsType, OrderOf
  <1>4. /\ Excused \subseteq Excused' /\ again \subseteq again'
        /\ own \in filled => own \in Excused'
        /\ \A s \in Round : at[s] \in Filling /\ OrderOf(s) = own => own \in again'
    BY <1>1, <1>2 DEF Excused
  <1> HIDE DEF own
  <1>5. AsksDiffer' /\ OnceAsked' /\ AskedIsMarked'
    BY <1>2, <1>4 DEF AskedOnce, AsksDiffer, OnceAsked, AskedIsMarked, Asks
  <1>6. HandsDiffer'
    BY <1>3, <1>4 DEF AskedOnce, HandsDiffer, Others
  <1>7. HandsAreNew'
    BY <1>2, <1>3, <1>4 DEF AskedOnce, HandsAreNew, AskedIsMarked, Others, Asks
  <1>8. HandsAreMarked' /\ CopyMarks'
    BY <1>2, <1>3, <1>4 DEF AskedOnce, HandsAreMarked, CopyMarks, Others
  <1> QED
    BY <1>5, <1>6, <1>7, <1>8 DEF AskedOnce

\* A transfer that failed was the only one of its order, or the order is excused.
LEMMA FailureHolds ==
  ASSUME AutoTypeOK, AskedOnce, NEW r \in Round, Refused(r) \/ Unanswered(r)
  PROVE  AskedOnce'
  <1> DEFINE x == current[r]
  <1>1. /\ UNCHANGED <<carried, calls, filled, fillsFile, again, lost, current>>
        /\ \/ x \in held /\ held' = held \ {x} /\ doubt' = doubt
           \/ held' = held /\ doubt' = doubt \union {x.order}
    BY DEF Refused, Unanswered, TransferFails, wallet, memory, OrderOf
  <1>2. /\ Others(r) /\ at[r] = "call" /\ at'[r] = "free"
        /\ \A s \in Round : OrderOf(s)' = OrderOf(s)
    BY <1>1, AskTypes DEF Refused, Unanswered, TransferFails, Copy, Others, RoundsType, OrderOf
  <1>3. OrderOf(r) = x.order
    BY DEF OrderOf
  <1> HIDE DEF x
  <1>4. /\ Asks' \subseteq Asks /\ Excused \subseteq Excused'
        /\ \A c \in Asks' : c.order = x.order => x.order \in Excused'
    BY <1>1 DEF AskedOnce, AsksDiffer, OnceAsked, Asks, Excused
  <1>5. AsksDiffer' /\ OnceAsked' /\ AskedIsMarked'
    BY <1>1, <1>4 DEF AskedOnce, AsksDiffer, OnceAsked, AskedIsMarked
  <1>6. HandsDiffer' /\ CopyMarks'
    BY <1>1, <1>2 DEF AskedOnce, HandsDiffer, CopyMarks, Others, Filling, Telling, Marking, Freeing
  <1>7. HandsAreNew' /\ HandsAreMarked'
    BY <1>1, <1>2, <1>3, <1>4 DEF AskedOnce, HandsAreNew, HandsAreMarked, Others, Marking, Freeing
  <1> QED
    BY <1>5, <1>6, <1>7 DEF AskedOnce

LEMMA MarkSentHolds ==
  ASSUME AutoTypeOK, AskedOnce, NEW r \in Round, MarkSent(r)
  PROVE  AskedOnce'
  <1>1. PICK o \in done[r] : /\ current' = [current EXCEPT ![r] = [call |-> 0, order |-> o]]
                             /\ Copy(r, filled \union {o}, "tell")
    BY DEF MarkSent
  <1>2. /\ UNCHANGED <<held, carried, calls, filled, fillsFile>> /\ Excused' = Excused /\ again' = again
    BY DEF MarkSent, wallet, memory, ghosts, counts, Excused
  <1>3. /\ Others(r) /\ at'[r] = "tell" /\ o \in copy'[r]
        /\ OrderOf(r)' = o /\ \A s \in Round \ {r} : OrderOf(s)' = OrderOf(s)
    BY <1>1, AskTypes DEF Copy, Others, RoundsType, OrderOf
  <1>4. AsksDiffer' /\ OnceAsked' /\ AskedIsMarked'
    BY <1>2 DEF AskedOnce, AsksDiffer, OnceAsked, AskedIsMarked, Asks
  <1>5. HandsDiffer' /\ HandsAreNew'
    BY <1>2, <1>3 DEF AskedOnce, HandsDiffer, HandsAreNew, Others, Asks, Filling, Marking, Freeing
  <1>6. HandsAreMarked' /\ CopyMarks'
    BY <1>2, <1>3 DEF AskedOnce, HandsAreMarked, CopyMarks, Others
  <1> QED
    BY <1>4, <1>5, <1>6 DEF AskedOnce

LEMMA AskedOnceStep ==
  ASSUME AutoTypeOK, AskedOnce, [AutoNext]_autoVars
  PROVE  AskedOnce'
  BY CalmSteps, CalmHolds, LoadedHolds, SendHolds, WriteHolds, AskHolds, FailureHolds, SavedHolds,
     MarkSentHolds
  DEF AskedOnce

LEMMA AutoInitHolds == AutoInit => AutoIInv
  <1> SUFFICES ASSUME AutoInit PROVE AutoIInv
    OBVIOUS
  <1>1. [enough |-> TRUE, depth |-> 1, recent |-> TRUE] \in WalletRow
    BY DEF WalletRow, Depth
  <1>2. AutoTypeOK
    <2>1. pays \in [Deposit -> WalletRow \union {Nothing}]
      BY <1>1 DEF AutoInit
    <2>2. listed \in BOOLEAN /\ loaded \in BOOLEAN
      BY Zenon DEF AutoInit
    <2>3. /\ payments \in 0 .. MaxPayments /\ calls \in 0 .. MaxTransfers
          /\ mishaps \in 0 .. MaxMishaps /\ crashes \in 0 .. MaxCrashes /\ sentToday \in Nat
      BY SellingConstants DEF AutoInit
    <2>4. RoundsType
      BY DEF AutoInit, RoundsType, Filling, Telling, Marking, Freeing
    <2>5. /\ {filled, fillsFile, sent, doubt, again, lost, revived, stopped} \subseteq SUBSET Claim
          /\ held \subseteq Transfer /\ carried \subseteq Transfer
      BY DEF AutoInit
    <2> QED
      BY <2>1, <2>2, <2>3, <2>4, <2>5 DEF AutoTypeOK, RoundsType
  <1>3. AsksDiffer /\ OnceAsked /\ AskedIsMarked /\ PickedIsPaid /\ AskedIsPaid
    BY DEF AutoInit, AsksDiffer, OnceAsked, AskedIsMarked, PickedIsPaid, AskedIsPaid, Asks
  <1>4. HandsDiffer /\ HandsAreNew /\ HandsAreMarked /\ CopyMarks /\ HandsArePaid
    BY DEF AutoInit, HandsDiffer, HandsAreNew, HandsAreMarked, CopyMarks, HandsArePaid, Filling, Telling,
           Marking, Freeing
  <1> QED
    BY <1>2, <1>3, <1>4 DEF AutoIInv

LEMMA AutoInvariance == AutoSpec => []AutoIInv
  <1>1. AutoIInv /\ [AutoNext]_autoVars => AutoIInv'
    BY AutoTypeStep, AskedOnceStep, PickedStep, HandsPaidStep, PaidStep DEF AutoIInv, AskedOnce
  <1> QED
    BY <1>1, AutoInitHolds, PTL DEF AutoSpec

\* Payments, marks, rounds and transfers keep their types.
THEOREM AutoTypeCorrect == AutoSpec => []AutoTypeOK
  BY AutoInvariance, PTL DEF AutoIInv

\* Of two transfers of an order that were carried out the second was asked for when
\* the order was in doubt, out of a queue made before it was marked, or after its
\* mark had been written over by a copy older than it.
THEOREM FilledOnce == AutoSpec => []OnceUnlessInDoubt
  <1>1. AutoIInv => OnceUnlessInDoubt
    BY DEF AutoIInv, OnceAsked, OnceUnlessInDoubt, Asks
  <1> QED
    BY <1>1, AutoInvariance, PTL

\* Whoever gets the asset has paid in full, in a payment confirmed on the chain.
THEOREM SoldToWhoPaid == AutoSpec => []OnlyPaidOrders
  <1>1. AutoIInv => OnlyPaidOrders
    BY DEF AutoIInv, AskedIsPaid, OnlyPaidOrders, Asks
  <1> QED
    BY <1>1, AutoInvariance, PTL
=============================================================================
