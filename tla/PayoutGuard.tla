---------------------------- MODULE PayoutGuard ----------------------------
(***************************************************************************)
(* One lane of the payout journal (payout_guard.rs): the files             *)
(*   <lane>.guard       short-lived exclusion of begin and acknowledge     *)
(*   <lane>.pending     the marker: the one request that may be in doubt   *)
(*   <lane>-<id>.done   the receipt of a paid request                      *)
(* used by several processes that call begin, a payment RPC of the node,   *)
(* and complete, complete_waiting_ack or abandon_unsent, and by the screen *)
(* that calls acknowledge.  Every file operation may fail, a process may   *)
(* die between any two steps, and the machine may lose power.              *)
(***************************************************************************)
CONSTANTS
  Proc,             \* processes that use the lane
  Id, Intent,       \* request identifiers, request contents
  TxId,             \* transaction identifiers the node hands out
  None,             \* no file, no request, no answer
  Torn,             \* a marker whose bytes never reached the file
  WaitsForAck,      \* TRUE: complete_waiting_ack ("send"); FALSE: complete
  MayAbandon,       \* the caller can know that nothing was sent (wallet link)
  OrderedMetadata   \* the file system persists directory changes in order

Request == [id : Id, intent : Intent]
Payment == [id : Id, intent : Intent, txid : TxId]

ASSUME NoneAssumption == /\ None \notin Request \union TxId \union {Torn}
                         /\ Torn \notin Request
ASSUME SwitchAssumption == {WaitsForAck, MayAbandon, OrderedMetadata} \subseteq BOOLEAN

VARIABLES
  dir,     \* the lane's files as running processes see them
  disk,    \* the lane's files as of the last directory sync
  pc,      \* where each process is in the journal's code
  req,     \* the request each process works on
  got,     \* the txid the node answered to each process
  wire,    \* payment calls that reached the node and are not carried out
  sends,   \* payments the node has made (on the chain: never undone)
  told     \* payments reported to a caller as done

local == <<pc, req, got>>
vars  == <<dir, disk, pc, req, got, wire, sends, told>>

Files == [guard    : BOOLEAN,
          marker   : Request \union {None, Torn},
          receipts : SUBSET Payment]
NoFiles == [guard |-> FALSE, marker |-> None, receipts |-> {}]

\* begin holds the guard from "read" to "recheck", acknowledge at "ack".
Guarded == {"read", "mark", "write", "recheck", "ack"}
Labels  == Guarded \union {"idle", "rpc", "waiting", "receipt", "unmark"}
Call    == [by : Proc, req : Request]

TypeOK == /\ dir \in Files
          /\ disk \in Files
          /\ pc \in [Proc -> Labels]
          /\ req \in [Proc -> Request \union {None}]
          /\ got \in [Proc -> TxId \union {None}]
          /\ wire \subseteq Call
          /\ sends \subseteq Payment
          /\ told \subseteq Payment

Init == /\ dir = NoFiles
        /\ disk = NoFiles
        /\ pc = [p \in Proc |-> "idle"]
        /\ req = [p \in Proc |-> None]
        /\ got = [p \in Proc |-> None]
        /\ wire = {} /\ sends = {} /\ told = {}

----------------------------------------------------------------------------
Ready(p, label) == pc[p] = label /\ req[p] \in Request

Goto(p, label) == /\ pc' = [pc EXCEPT ![p] = label]
                  /\ UNCHANGED <<req, got>>

\* The call returns: its local state is gone.
Return(p) == /\ pc' = [pc EXCEPT ![p] = "idle"]
             /\ req' = [req EXCEPT ![p] = None]
             /\ got' = [got EXCEPT ![p] = None]

\* fsync of the directory after a change; it may fail.
SyncParent(ok) == disk' = IF ok THEN dir' ELSE disk

\* MutationGuard's Drop removes the guard file; the removal is not synced and
\* its failure is ignored.
DropGuard(files) == dir' \in {[files EXCEPT !.guard = FALSE], [files EXCEPT !.guard = TRUE]}

\* The receipts of a request that a reader accepts: same identifier, same intent.
Matching(q) == {r \in dir.receipts : r.id = q.id /\ r.intent = q.intent}
HasReceipt(q) == \E r \in dir.receipts : r.id = q.id

Report(q, r) == told' = told \union {[id |-> q.id, intent |-> q.intent, txid |-> r.txid]}

----------------------------------------------------------------------------
(* begin *)

\* MutationGuard::take: create_new, sync.  If the sync fails the guard was not
\* constructed, so nothing removes the file.
TakeGuard(p, q, label) ==
  /\ pc[p] = "idle"
  /\ ~dir.guard
  /\ dir' = [dir EXCEPT !.guard = TRUE]
  /\ \/ SyncParent(TRUE) /\ pc' = [pc EXCEPT ![p] = label] /\ req' = [req EXCEPT ![p] = q]
        /\ UNCHANGED got
     \/ SyncParent(FALSE) /\ UNCHANGED local
  /\ UNCHANGED <<wire, sends, told>>

BeginCall(p) == \E q \in Request : TakeGuard(p, q, "read")

\* The first look: a finished request is answered from its receipt, another
\* intent under the same identifier is refused.
ReadReceipt(p) ==
  /\ Ready(p, "read")
  /\ \/ /\ HasReceipt(req[p])
        /\ DropGuard(dir)
        /\ Return(p)
        /\ \/ \E r \in Matching(req[p]) : Report(req[p], r)
           \/ Matching(req[p]) = {} /\ UNCHANGED told
     \/ \* no receipt, or one that could not be read: begin goes on
        Goto(p, "mark") /\ UNCHANGED <<dir, told>>
  /\ UNCHANGED <<disk, wire, sends>>

\* Mutant: the marker is opened with create instead of create_new.
CreateMarkerOver(p) ==
  /\ Ready(p, "mark")
  /\ dir' = [dir EXCEPT !.marker = Torn] /\ Goto(p, "write")
  /\ UNCHANGED <<disk, wire, sends, told>>

\* create_new of the marker: fails when any request of the lane left one.
CreateMarker(p) ==
  /\ Ready(p, "mark")
  /\ \/ dir.marker = None /\ dir' = [dir EXCEPT !.marker = Torn] /\ Goto(p, "write")
     \/ DropGuard(dir) /\ Return(p)
  /\ UNCHANGED <<disk, wire, sends, told>>

\* The marker's bytes are written, the file and the directory synced.  On an
\* error begin returns and the marker stays, with or without its bytes.
WriteMarker(p) ==
  /\ Ready(p, "write")
  /\ \/ /\ dir' = [dir EXCEPT !.marker = req[p]]
        /\ SyncParent(TRUE)
        /\ Goto(p, "recheck")
     \/ /\ \E m \in {Torn, req[p]} : DropGuard([dir EXCEPT !.marker = m])
        /\ SyncParent(FALSE)
        /\ Return(p)
  /\ UNCHANGED <<wire, sends, told>>

\* Mutant: no second look once the marker is in place.
RecheckSkipped(p) ==
  /\ Ready(p, "recheck")
  /\ DropGuard(dir) /\ Goto(p, "rpc")
  /\ UNCHANGED <<disk, wire, sends, told>>

\* The second look, with the marker in place: complete does not take the guard,
\* so a receipt may have appeared since the first look.
Recheck(p) ==
  /\ Ready(p, "recheck")
  /\ \/ /\ ~HasReceipt(req[p])
        /\ DropGuard(dir) /\ Goto(p, "rpc")
        /\ UNCHANGED <<disk, told>>
     \/ \E r \in Matching(req[p]) :
          /\ DropGuard([dir EXCEPT !.marker = None])
          /\ Return(p)
          /\ \/ SyncParent(TRUE) /\ Report(req[p], r)
             \/ SyncParent(FALSE) /\ UNCHANGED told
     \/ \* mismatch, unreadable receipt or failed removal: the marker stays
        /\ DropGuard(dir) /\ Return(p)
        /\ UNCHANGED <<disk, told>>
  /\ UNCHANGED <<wire, sends>>

----------------------------------------------------------------------------
(* The payment call and the node *)

CallNode(p) ==
  /\ Ready(p, "rpc")
  /\ wire' = wire \union {[by |-> p, req |-> req[p]]}
  /\ Goto(p, "waiting")
  /\ UNCHANGED <<dir, disk, sends, told>>

\* The node carries a call out whether or not its caller still waits.
NodePays(c) ==
  /\ \E t \in TxId : /\ \A s \in sends : s.txid # t
                     /\ sends' = sends \union
                          {[id |-> c.req.id, intent |-> c.req.intent, txid |-> t]}
  /\ wire' = wire \ {c}
  /\ UNCHANGED <<dir, disk, pc, req, got, told>>

NodeRefuses(c) == /\ wire' = wire \ {c}
                  /\ UNCHANGED <<dir, disk, pc, req, got, sends, told>>

\* The answer carries a transaction identifier.
Answered(p) ==
  /\ Ready(p, "waiting")
  /\ \E s \in sends : /\ s.id = req[p].id /\ s.intent = req[p].intent
                      /\ got' = [got EXCEPT ![p] = s.txid]
  /\ pc' = [pc EXCEPT ![p] = "receipt"]
  /\ UNCHANGED <<dir, disk, req, wire, sends, told>>

\* A refusal, a timeout, a cut answer or an answer without a txid: the caller
\* returns an error and leaves the marker.
GivesUp(p) == /\ Ready(p, "waiting")
              /\ Return(p)
              /\ UNCHANGED <<dir, disk, wire, sends, told>>

\* abandon_unsent, for callers that never made the call.
AbandonUnsent(p) ==
  /\ MayAbandon
  /\ Ready(p, "rpc")
  /\ \/ dir' = [dir EXCEPT !.marker = None] /\ (\E ok \in BOOLEAN : SyncParent(ok))
     \/ UNCHANGED <<dir, disk>>
  /\ Return(p)
  /\ UNCHANGED <<wire, sends, told>>

----------------------------------------------------------------------------
(* complete_waiting_ack, complete, acknowledge, receipt *)

\* Mutant: complete goes on to remove the marker without syncing the receipt.
WriteReceiptUnsynced(p) ==
  LET new == [id |-> req[p].id, intent |-> req[p].intent, txid |-> got[p]] IN
  /\ Ready(p, "receipt")
  /\ dir' = [dir EXCEPT !.receipts = {r \in @ : r.id # new.id} \union {new}]
  /\ Goto(p, "unmark")
  /\ UNCHANGED <<disk, wire, sends, told>>

\* atomic_write of the receipt: staged, renamed over the name, directory synced.
WriteReceipt(p) ==
  LET new == [id |-> req[p].id, intent |-> req[p].intent, txid |-> got[p]] IN
  /\ Ready(p, "receipt")
  /\ \/ /\ dir' = [dir EXCEPT !.receipts = {r \in @ : r.id # new.id} \union {new}]
        /\ \/ /\ SyncParent(TRUE)
              /\ IF WaitsForAck THEN Return(p) /\ told' = told \union {new}
                                ELSE Goto(p, "unmark") /\ UNCHANGED told
           \/ SyncParent(FALSE) /\ Return(p) /\ UNCHANGED told
     \/ \* staging failed: nothing was renamed
        Return(p) /\ UNCHANGED <<dir, disk, told>>
  /\ UNCHANGED <<wire, sends>>

\* complete removes the lane's marker last, without the guard.
RemoveMarker(p) ==
  /\ Ready(p, "unmark")
  /\ \/ /\ dir' = [dir EXCEPT !.marker = None]
        /\ \/ SyncParent(TRUE) /\ told' = told \union
                {[id |-> req[p].id, intent |-> req[p].intent, txid |-> got[p]]}
           \/ SyncParent(FALSE) /\ UNCHANGED told
     \/ UNCHANGED <<dir, disk, told>>
  /\ Return(p)
  /\ UNCHANGED <<wire, sends>>

AckCall(p) == WaitsForAck /\ \E q \in Request : TakeGuard(p, q, "ack")

\* Mutant: acknowledge does not compare the marker with the receipt.
AcknowledgeAny(p) ==
  /\ WaitsForAck /\ Ready(p, "ack")
  /\ IF HasReceipt(req[p])
     THEN DropGuard([dir EXCEPT !.marker = None]) /\ \E ok \in BOOLEAN : SyncParent(ok)
     ELSE DropGuard(dir) /\ UNCHANGED disk
  /\ Return(p)
  /\ UNCHANGED <<wire, sends, told>>

\* acknowledge frees the lane when the marker is that of the receipt it names.
\* send_ack names the "send" lane: no other lane is ever acknowledged.
Acknowledge(p) ==
  /\ WaitsForAck /\ Ready(p, "ack")
  /\ \/ /\ \E r \in dir.receipts : /\ r.id = req[p].id
                                   /\ dir.marker = [id |-> r.id, intent |-> r.intent]
        /\ DropGuard([dir EXCEPT !.marker = None])
        /\ \E ok \in BOOLEAN : SyncParent(ok)
     \/ \* no receipt, no marker, another marker or a failed removal
        DropGuard(dir) /\ UNCHANGED disk
  /\ Return(p)
  /\ UNCHANGED <<wire, sends, told>>

\* receipt: a read-only question, asked without the guard.
AskReceipt(q) == /\ \E r \in Matching(q) : Report(q, r)
                 /\ UNCHANGED <<dir, disk, pc, req, got, wire, sends>>

----------------------------------------------------------------------------
(* Crashes *)

\* A process dies: its files and its call at the node stay.
Crash(p) == /\ pc[p] # "idle"
            /\ Return(p)
            /\ UNCHANGED <<dir, disk, wire, sends, told>>

\* The operating system writes the directory back on its own.
WriteBack == disk' = dir /\ UNCHANGED <<dir, pc, req, got, wire, sends, told>>

\* What can be found after a power loss: the last synced directory, or, when
\* the file system may reorder, any mix of synced and unsynced entries.
Survivors ==
  IF OrderedMetadata THEN {disk}
  ELSE {f \in [guard    : {disk.guard, dir.guard},
               marker   : {disk.marker, dir.marker},
               receipts : SUBSET dir.receipts] : disk.receipts \subseteq f.receipts}

PowerLoss == /\ \E f \in Survivors : dir' = f /\ disk' = f
             /\ pc' = [p \in Proc |-> "idle"]
             /\ req' = [p \in Proc |-> None]
             /\ got' = [p \in Proc |-> None]
             /\ UNCHANGED <<wire, sends, told>>

----------------------------------------------------------------------------
Step(p) == \/ BeginCall(p) \/ ReadReceipt(p) \/ CreateMarker(p) \/ WriteMarker(p) \/ Recheck(p)
           \/ CallNode(p) \/ Answered(p) \/ GivesUp(p) \/ AbandonUnsent(p)
           \/ WriteReceipt(p) \/ RemoveMarker(p) \/ AckCall(p) \/ Acknowledge(p) \/ Crash(p)

Next == \/ \E p \in Proc : Step(p)
        \/ \E c \in wire : NodePays(c) \/ NodeRefuses(c)
        \/ \E q \in Request : AskReceipt(q)
        \/ WriteBack \/ PowerLoss

Spec == Init /\ [][Next]_vars

----------------------------------------------------------------------------
(* Properties *)

\* A request identifier is paid at most once, whatever is retried, whoever
\* else uses the lane and wherever a crash falls (begin, lines 79-132).
AtMostOnePayment == \A s, t \in sends : s.id = t.id => s = t

\* Requests that may have been paid and that files fs hold no receipt of.
Unsettled(fs) == {c.req : c \in wire}
                   \union {[id |-> s.id, intent |-> s.intent] : s \in sends \ fs.receipts}

\* "Errors/crashes leave it blocked": as long as a request may have been paid
\* without a receipt, the lane's marker is that request's, in the files as they
\* are and in the files a power loss would leave.  So a lane never has two
\* requests in doubt.
UnsettledIsMarked == \A fs \in {dir} \union Survivors :
                       \A q \in Unsettled(fs) : fs.marker = q

\* Whoever is told of a payment was told of a real one, with the contents asked.
AnswersAreTrue == told \subseteq sends

\* The lane implements the ledger that pays once.
Ledger == INSTANCE PayOnce
PaysOnce == Ledger!Spec
----------------------------------------------------------------------------
(***************************************************************************)
(* The inductive invariant behind these properties (see PayoutGuardProofs).*)
(* A process owns the marker from its creation to its removal.             *)
(***************************************************************************)
Owning == {"write", "recheck", "rpc", "waiting", "receipt", "unmark"}

\* The guard file admits one process to begin or acknowledge.
GuardExcludes ==
  /\ \A p \in Proc : pc[p] \in Guarded => dir.guard
  /\ \A p, q \in Proc : pc[p] \in Guarded /\ pc[q] \in Guarded => p = q

OneOwner == \A p, q \in Proc : pc[p] \in Owning /\ pc[q] \in Owning => p = q

Settled(fs) == wire = {} /\ sends \subseteq fs.receipts

\* What the owner of the marker can rely on, by the place it has reached.
OwnerKnows == \A p \in Proc :
  /\ pc[p] \notin {"idle"} => req[p] \in Request
  /\ pc[p] \in Owning => dir.marker # None
  /\ pc[p] = "write" => /\ Settled(dir)
                        /\ ~OrderedMetadata => Settled(disk)
  /\ pc[p] \in {"recheck", "rpc"} => Settled(dir) /\ Settled(disk)
  /\ pc[p] \in {"recheck", "rpc", "waiting", "receipt"} => /\ dir.marker = req[p]
                                                          /\ disk.marker = req[p]
  /\ pc[p] \in {"rpc", "waiting", "receipt"} => ~HasReceipt(req[p])
  /\ pc[p] \in {"receipt", "unmark"} =>
       [id |-> req[p].id, intent |-> req[p].intent, txid |-> got[p]] \in sends
  /\ pc[p] = "unmark" => ~WaitsForAck /\ Settled(dir) /\ Settled(disk)

\* A call the node still holds is the only one and its request is unpaid.
OneCall == \A c \in wire : /\ \A d \in wire : c = d
                          /\ \A s \in sends : s.id # c.req.id

ReceiptsAreTrue == disk.receipts \subseteq dir.receipts /\ dir.receipts \subseteq sends

Marked == /\ \A q \in Unsettled(dir) : dir.marker = q
          /\ \A q \in Unsettled(disk) : disk.marker = q
          /\ ~OrderedMetadata => \A q \in Unsettled(disk) : dir.marker = q

IInv == /\ TypeOK /\ GuardExcludes /\ OneOwner /\ OwnerKnows /\ OneCall
        /\ ReceiptsAreTrue /\ Marked /\ AtMostOnePayment /\ AnswersAreTrue

\* acknowledge removes the marker without syncing the receipt it relies on, so
\* the "send" lane needs directory changes to reach the disk in order.
LaneAssumption == OrderedMetadata \/ ~WaitsForAck
============================================================================
