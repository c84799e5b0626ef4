------------------------- MODULE PayoutGuardProofs -------------------------
(* Proofs that one lane of the payout journal pays a request at most once. *)
EXTENDS PayoutGuard, TLAPS

(* Reading a directory of files after the field updates the actions make. *)
LEMMA FilesUpdate ==
  ASSUME NEW fs \in Files, NEW g \in BOOLEAN, NEW m \in Request \union {None, Torn}
  PROVE  /\ [fs EXCEPT !.guard = g] \in Files
         /\ [fs EXCEPT !.guard = g].guard = g
         /\ [fs EXCEPT !.guard = g].marker = fs.marker
         /\ [fs EXCEPT !.guard = g].receipts = fs.receipts
         /\ [fs EXCEPT !.marker = m] \in Files
         /\ [fs EXCEPT !.marker = m].guard = fs.guard
         /\ [fs EXCEPT !.marker = m].marker = m
         /\ [fs EXCEPT !.marker = m].receipts = fs.receipts
         /\ fs.guard \in BOOLEAN
         /\ fs.marker \in Request \union {None, Torn}
         /\ fs.receipts \subseteq Payment
  BY DEF Files

LEMMA DropGuardFiles ==
  ASSUME NEW fs \in Files, DropGuard(fs)
  PROVE  dir' \in Files /\ dir'.marker = fs.marker /\ dir'.receipts = fs.receipts
  BY DEF DropGuard, Files

(* The answer given for a matching receipt is that receipt. *)
LEMMA ReportMatching ==
  ASSUME TypeOK, NEW q \in Request, NEW r \in Matching(q)
  PROVE  [id |-> q.id, intent |-> q.intent, txid |-> r.txid] = r
  BY DEF TypeOK, Files, Matching, Payment, Request

(* A lane whose marker is not a request has nothing unsettled. *)
LEMMA UnmarkedIsSettled ==
  ASSUME TypeOK, NEW fs, fs.marker \notin Request,
         \A q \in Unsettled(fs) : fs.marker = q
  PROVE  Settled(fs)
  <1>1. \A q \in Unsettled(fs) : q \in Request
    BY DEF TypeOK, Unsettled, Call, Payment, Request
  <1>2. Unsettled(fs) = {}
    BY <1>1
  <1>3. wire = {}
    BY <1>2 DEF Unsettled
  <1>4. sends \subseteq fs.receipts
    BY <1>2 DEF Unsettled
  <1> QED
    BY <1>3, <1>4 DEF Settled

LEMMA SettledIsEmpty ==
  ASSUME NEW fs, Settled(fs) PROVE Unsettled(fs) = {}
  BY DEF Settled, Unsettled

LEMMA InitInv == Init => IInv
  BY NoneAssumption, SwitchAssumption DEF Init, IInv, TypeOK, NoFiles, Files, Labels, Guarded, GuardExcludes,
     OneOwner, Owning, OwnerKnows, OneCall, ReceiptsAreTrue, Marked, Unsettled,
     AtMostOnePayment, AnswersAreTrue

----------------------------------------------------------------------------
LEMMA TakeGuardInv ==
  ASSUME IInv, NEW p \in Proc, NEW q \in Request, NEW label \in {"read", "ack"},
         TakeGuard(p, q, label)
  PROVE  IInv'
  <1>1. /\ dir' \in Files /\ dir'.guard /\ dir'.marker = dir.marker
        /\ dir'.receipts = dir.receipts
        /\ disk' \in Files
        /\ \/ disk' = disk
           \/ disk'.marker = dir.marker /\ disk'.receipts = dir.receipts
    BY DEF TakeGuard, SyncParent, IInv, TypeOK, Files
  <1>2. UNCHANGED <<wire, sends, told>> /\ pc[p] = "idle" /\ ~dir.guard
    BY DEF TakeGuard
  <1>3. \/ UNCHANGED local
        \/ /\ pc' = [pc EXCEPT ![p] = label] /\ req' = [req EXCEPT ![p] = q]
           /\ UNCHANGED got
    BY DEF TakeGuard
  <1>4. TypeOK'
    BY <1>1, <1>2, <1>3 DEF IInv, TypeOK, local, Labels, Guarded
  <1>5. GuardExcludes'
    BY <1>1, <1>2, <1>3 DEF IInv, TypeOK, local, GuardExcludes, Guarded
  <1>6. OneOwner'
    BY <1>2, <1>3 DEF IInv, TypeOK, local, OneOwner, Owning
  <1>7. OwnerKnows'
    BY <1>1, <1>2, <1>3 DEF IInv, TypeOK, local, OwnerKnows, Owning, Settled, HasReceipt
  <1>8. Marked'
    BY <1>1, <1>2 DEF IInv, Marked, Unsettled
  <1>9. (OneCall /\ ReceiptsAreTrue /\ AtMostOnePayment /\ AnswersAreTrue)'
    BY <1>1, <1>2 DEF IInv, OneCall, ReceiptsAreTrue, AtMostOnePayment, AnswersAreTrue
  <1> QED
    BY <1>4, <1>5, <1>6, <1>7, <1>8, <1>9 DEF IInv

LEMMA ReadReceiptInv ==
  ASSUME IInv, NEW p \in Proc, ReadReceipt(p)
  PROVE  IInv'
  <1>1. Ready(p, "read") /\ UNCHANGED <<disk, wire, sends>>
    BY DEF ReadReceipt
  <1>2. /\ dir' \in Files /\ dir'.marker = dir.marker /\ dir'.receipts = dir.receipts
        /\ \/ Return(p)
           \/ Goto(p, "mark") /\ UNCHANGED dir
    BY DropGuardFiles DEF ReadReceipt, IInv, TypeOK
  <1>3. told' \subseteq sends
    BY ReportMatching, <1>1 DEF ReadReceipt, Report, IInv, AnswersAreTrue, ReceiptsAreTrue,
       Matching, Ready
  <1>4. TypeOK'
    BY <1>1, <1>2, <1>3 DEF IInv, TypeOK, Return, Goto, Labels, Guarded
  <1>5. GuardExcludes'
    BY <1>1, <1>2 DEF IInv, TypeOK, Return, Goto, GuardExcludes, Guarded, Ready
  <1>6. OneOwner'
    BY <1>1, <1>2 DEF IInv, TypeOK, Return, Goto, OneOwner, Owning, Ready
  <1>7. OwnerKnows'
    BY <1>1, <1>2 DEF IInv, TypeOK, Return, Goto, OwnerKnows, Owning, Settled, HasReceipt, Ready
  <1>8. Marked'
    BY <1>1, <1>2 DEF IInv, Marked, Unsettled
  <1>9. (OneCall /\ ReceiptsAreTrue /\ AtMostOnePayment /\ AnswersAreTrue)'
    BY <1>1, <1>2, <1>3 DEF IInv, OneCall, ReceiptsAreTrue, AtMostOnePayment, AnswersAreTrue
  <1> QED
    BY <1>4, <1>5, <1>6, <1>7, <1>8, <1>9 DEF IInv

LEMMA CreateMarkerInv ==
  ASSUME IInv, NEW p \in Proc, CreateMarker(p)
  PROVE  IInv'
  <1>1. Ready(p, "mark") /\ UNCHANGED <<disk, wire, sends, told>>
    BY DEF CreateMarker
  <1>2. CASE dir.marker = None /\ dir' = [dir EXCEPT !.marker = Torn] /\ Goto(p, "write")
    <2>1. /\ dir' \in Files /\ dir'.marker = Torn /\ dir'.receipts = dir.receipts
          /\ dir'.guard = dir.guard /\ Goto(p, "write")
      BY <1>2 DEF CreateMarker, IInv, TypeOK, Files
    <2>2. Settled(dir) /\ (~OrderedMetadata => Settled(disk))
      <3>1. Settled(dir)
        BY <1>2, NoneAssumption, UnmarkedIsSettled DEF IInv, Marked
      <3>2. ASSUME ~OrderedMetadata PROVE Settled(disk)
        <4>1. \A q \in Unsettled(disk) : q = None
          BY <1>2, <3>2 DEF IInv, Marked
        <4>2. \A q \in Unsettled(disk) : q \in Request
          BY DEF IInv, TypeOK, Unsettled, Call, Payment, Request
        <4>3. Unsettled(disk) = {}
          BY <4>1, <4>2, NoneAssumption
        <4> QED
          BY <4>3 DEF Unsettled, Settled
      <3> QED
        BY <3>1, <3>2
    <2>3. Settled(dir)' /\ (~OrderedMetadata => Settled(disk)')
      BY <2>1, <2>2, <1>1 DEF Settled
    <2>4. \A q \in Proc : pc[q] \notin Owning
      BY <1>2 DEF IInv, OwnerKnows
    <2>5. TypeOK'
      BY <1>1, <2>1 DEF IInv, TypeOK, Goto, Labels, Guarded
    <2>6. GuardExcludes'
      BY <1>1, <2>1 DEF IInv, TypeOK, Goto, GuardExcludes, Guarded, Ready
    <2>7. OneOwner'
      BY <2>1, <2>4 DEF IInv, TypeOK, Goto, OneOwner
    <2>8. OwnerKnows'
      BY <1>1, <2>1, <2>3, <2>4, NoneAssumption DEF IInv, TypeOK, Goto, OwnerKnows, Owning, Ready
    <2>9. Marked'
      BY <1>1, <2>1, <2>3, SettledIsEmpty DEF IInv, Marked, Unsettled, Settled
    <2>10. (OneCall /\ ReceiptsAreTrue /\ AtMostOnePayment /\ AnswersAreTrue)'
      BY <1>1, <2>1 DEF IInv, OneCall, ReceiptsAreTrue, AtMostOnePayment, AnswersAreTrue
    <2> QED
      BY <2>5, <2>6, <2>7, <2>8, <2>9, <2>10 DEF IInv
  <1>3. CASE DropGuard(dir) /\ Return(p)
    <2>1. /\ dir' \in Files /\ dir'.marker = dir.marker /\ dir'.receipts = dir.receipts
          /\ Return(p)
      BY <1>3, DropGuardFiles DEF CreateMarker, IInv, TypeOK
    <2>2. TypeOK'
      BY <1>1, <2>1 DEF IInv, TypeOK, Return, Labels, Guarded
    <2>3. GuardExcludes'
      BY <1>1, <2>1 DEF IInv, TypeOK, Return, GuardExcludes, Guarded, Ready
    <2>4. OneOwner'
      BY <1>1, <2>1 DEF IInv, TypeOK, Return, OneOwner, Owning, Ready
    <2>5. OwnerKnows'
      BY <1>1, <2>1 DEF IInv, TypeOK, Return, OwnerKnows, Owning, Settled, HasReceipt, Ready
    <2>6. Marked'
      BY <1>1, <2>1 DEF IInv, Marked, Unsettled
    <2>7. (OneCall /\ ReceiptsAreTrue /\ AtMostOnePayment /\ AnswersAreTrue)'
      BY <1>1, <2>1 DEF IInv, OneCall, ReceiptsAreTrue, AtMostOnePayment, AnswersAreTrue
    <2> QED
      BY <2>2, <2>3, <2>4, <2>5, <2>6, <2>7 DEF IInv
  <1> QED
    BY <1>2, <1>3 DEF CreateMarker

LEMMA WriteMarkerInv ==
  ASSUME IInv, NEW p \in Proc, WriteMarker(p)
  PROVE  IInv'
  <1>1. Ready(p, "write") /\ UNCHANGED <<wire, sends, told>>
    BY DEF WriteMarker
  <1>2. Settled(dir) /\ (~OrderedMetadata => Settled(disk))
    BY <1>1 DEF IInv, OwnerKnows, Ready
  <1>3. \A q \in Proc : pc[q] \in Owning => q = p
    BY <1>1 DEF IInv, OneOwner, Owning, Ready
  <1>4. CASE /\ dir' = [dir EXCEPT !.marker = req[p]]
             /\ SyncParent(TRUE) /\ Goto(p, "recheck")
    <2>1. /\ dir' \in Files /\ dir'.marker = req[p] /\ dir'.receipts = dir.receipts
          /\ dir'.guard = dir.guard /\ disk' = dir'
      BY <1>1, <1>4 DEF SyncParent, IInv, TypeOK, Files, Ready
    <2>2. Settled(dir)' /\ Settled(disk)'
      BY <1>1, <1>2, <2>1 DEF Settled
    <2>3. TypeOK'
      BY <1>1, <1>4, <2>1 DEF IInv, TypeOK, Goto, Labels, Guarded
    <2>4. GuardExcludes'
      BY <1>1, <1>4, <2>1 DEF IInv, TypeOK, Goto, GuardExcludes, Guarded, Ready
    <2>5. OneOwner'
      BY <1>3, <1>4 DEF IInv, TypeOK, Goto, OneOwner
    <2>6. OwnerKnows'
      BY <1>1, <1>3, <1>4, <2>1, <2>2, NoneAssumption
      DEF IInv, TypeOK, Goto, OwnerKnows, Owning, Ready
    <2>7. Marked'
      BY <1>1, <2>1, <2>2, SettledIsEmpty DEF IInv, Marked, Unsettled, Settled
    <2>8. (OneCall /\ ReceiptsAreTrue /\ AtMostOnePayment /\ AnswersAreTrue)'
      BY <1>1, <2>1 DEF IInv, OneCall, ReceiptsAreTrue, AtMostOnePayment, AnswersAreTrue
    <2> QED
      BY <2>3, <2>4, <2>5, <2>6, <2>7, <2>8 DEF IInv
  <1>5. CASE /\ \E m \in {Torn, req[p]} : DropGuard([dir EXCEPT !.marker = m])
             /\ SyncParent(FALSE) /\ Return(p)
    <2>1. /\ dir' \in Files /\ dir'.receipts = dir.receipts /\ disk' = disk
      BY <1>1, <1>5, DropGuardFiles DEF SyncParent, IInv, TypeOK, Files, Ready
    <2>2. TypeOK'
      BY <1>1, <1>5, <2>1 DEF IInv, TypeOK, Return, Labels, Guarded
    <2>3. GuardExcludes'
      BY <1>1, <1>5, <2>1 DEF IInv, TypeOK, Return, GuardExcludes, Guarded, Ready
    <2>4. OneOwner' /\ \A q \in Proc : pc'[q] \notin Owning
      BY <1>3, <1>5 DEF IInv, TypeOK, Return, OneOwner, Owning
    <2>5. OwnerKnows'
      BY <1>5, <2>1, <2>4 DEF IInv, TypeOK, Return, OwnerKnows, Owning
    <2>6. Marked'
      BY <1>1, <1>2, <2>1 DEF IInv, Marked, Unsettled, Settled
    <2>7. (OneCall /\ ReceiptsAreTrue /\ AtMostOnePayment /\ AnswersAreTrue)'
      BY <1>1, <2>1 DEF IInv, OneCall, ReceiptsAreTrue, AtMostOnePayment, AnswersAreTrue
    <2> QED
      BY <2>2, <2>3, <2>4, <2>5, <2>6, <2>7 DEF IInv
  <1> QED
    BY <1>4, <1>5 DEF WriteMarker

(* A process whose call returns leaves the invariant as it is, when neither the *)
(* files nor the payments change. *)
LEMMA ReturnInv ==
  ASSUME IInv, NEW p \in Proc, Return(p), UNCHANGED <<dir, disk, wire, sends, told>>
  PROVE  IInv'
  <1>1. TypeOK'
    BY DEF IInv, TypeOK, Return, Labels, Guarded
  <1>2. GuardExcludes'
    BY DEF IInv, TypeOK, Return, GuardExcludes, Guarded
  <1>3. OneOwner'
    BY DEF IInv, TypeOK, Return, OneOwner, Owning
  <1>4. OwnerKnows'
    BY DEF IInv, TypeOK, Return, OwnerKnows, Owning, Settled, HasReceipt
  <1>5. (Marked /\ OneCall /\ ReceiptsAreTrue /\ AtMostOnePayment /\ AnswersAreTrue)'
    BY DEF IInv, Marked, Unsettled, OneCall, ReceiptsAreTrue, AtMostOnePayment, AnswersAreTrue
  <1> QED
    BY <1>1, <1>2, <1>3, <1>4, <1>5 DEF IInv

(* The marker may go when nothing is unsettled and no other process owns it. *)
LEMMA ClearMarkerInv ==
  ASSUME IInv, NEW p \in Proc, Return(p), UNCHANGED <<wire, sends>>,
         dir' \in Files, dir'.marker = None, dir'.receipts = dir.receipts,
         disk' = disk \/ disk' = dir',
         Settled(dir), ~OrderedMetadata => Settled(disk),
         \A q \in Proc : pc[q] \in Owning => q = p,
         \A q \in Proc : pc[q] \in Guarded => q = p \/ dir'.guard,
         told' \subseteq sends
  PROVE  IInv'
  <1>1. TypeOK'
    BY DEF IInv, TypeOK, Return, Labels, Guarded
  <1>2. GuardExcludes'
    BY DEF IInv, TypeOK, Return, GuardExcludes, Guarded
  <1>3. OneOwner' /\ \A q \in Proc : pc'[q] \notin Owning
    BY DEF IInv, TypeOK, Return, OneOwner, Owning
  <1>4. OwnerKnows'
    BY <1>3 DEF IInv, TypeOK, Return, OwnerKnows, Owning
  <1>5. Marked'
    BY DEF IInv, Marked, Unsettled, Settled
  <1>6. (OneCall /\ ReceiptsAreTrue /\ AtMostOnePayment /\ AnswersAreTrue)'
    BY DEF IInv, OneCall, ReceiptsAreTrue, AtMostOnePayment, AnswersAreTrue
  <1> QED
    BY <1>1, <1>2, <1>3, <1>4, <1>5, <1>6 DEF IInv

LEMMA RecheckInv ==
  ASSUME IInv, NEW p \in Proc, Recheck(p)
  PROVE  IInv'
  <1>1. Ready(p, "recheck") /\ UNCHANGED <<wire, sends>>
    BY DEF Recheck
  <1>2. Settled(dir) /\ Settled(disk)
    BY <1>1 DEF IInv, OwnerKnows, Ready
  <1>3. \A q \in Proc : pc[q] \in Owning => q = p
    BY <1>1 DEF IInv, OneOwner, Owning, Ready
  <1>4. \A q \in Proc : pc[q] \in Guarded => q = p
    BY <1>1 DEF IInv, GuardExcludes, Guarded, Ready
  <1>5. CASE ~HasReceipt(req[p]) /\ DropGuard(dir) /\ Goto(p, "rpc") /\ UNCHANGED <<disk, told>>
    <2>1. dir' \in Files /\ dir'.marker = dir.marker /\ dir'.receipts = dir.receipts
      BY <1>5, DropGuardFiles DEF IInv, TypeOK
    <2>2. TypeOK'
      BY <1>1, <1>5, <2>1 DEF IInv, TypeOK, Goto, Labels, Guarded
    <2>3. GuardExcludes'
      BY <1>1, <1>4, <1>5, <2>1 DEF IInv, TypeOK, Goto, GuardExcludes, Guarded, Ready
    <2>4. OneOwner'
      BY <1>1, <1>3, <1>5 DEF IInv, TypeOK, Goto, OneOwner, Owning, Ready
    <2>5. OwnerKnows'
      BY <1>1, <1>2, <1>3, <1>5, <2>1
      DEF IInv, TypeOK, Goto, OwnerKnows, Owning, Ready, Settled, HasReceipt
    <2>6. (Marked /\ OneCall /\ ReceiptsAreTrue /\ AtMostOnePayment /\ AnswersAreTrue)'
      BY <1>1, <1>5, <2>1
      DEF IInv, Marked, Unsettled, OneCall, ReceiptsAreTrue, AtMostOnePayment, AnswersAreTrue
    <2> QED
      BY <2>2, <2>3, <2>4, <2>5, <2>6 DEF IInv
  <1>6. CASE \E r \in Matching(req[p]) :
               /\ DropGuard([dir EXCEPT !.marker = None])
               /\ Return(p)
               /\ \/ SyncParent(TRUE) /\ Report(req[p], r)
                  \/ SyncParent(FALSE) /\ UNCHANGED told
    <2>1. /\ dir' \in Files /\ dir'.marker = None /\ dir'.receipts = dir.receipts
          /\ disk' = disk \/ disk' = dir'
      BY <1>6, DropGuardFiles DEF SyncParent, IInv, TypeOK, Files
    <2>2. told' \subseteq sends
      <3>1. PICK r \in Matching(req[p]) : Report(req[p], r) \/ UNCHANGED told
        BY <1>6
      <3>2. [id |-> req[p].id, intent |-> req[p].intent, txid |-> r.txid] = r
        BY <1>1, ReportMatching DEF IInv, Ready
      <3>3. r \in sends
        BY DEF Matching, IInv, ReceiptsAreTrue
      <3> QED
        BY <3>1, <3>2, <3>3 DEF Report, IInv, AnswersAreTrue
    <2> QED
      BY <1>1, <1>2, <1>3, <1>4, <1>6, <2>1, <2>2, ClearMarkerInv
  <1>7. CASE DropGuard(dir) /\ Return(p) /\ UNCHANGED <<disk, told>>
    <2>1. dir' \in Files /\ dir'.marker = dir.marker /\ dir'.receipts = dir.receipts
      BY <1>7, DropGuardFiles DEF IInv, TypeOK
    <2>2. TypeOK'
      BY <1>1, <1>7, <2>1 DEF IInv, TypeOK, Return, Labels, Guarded
    <2>3. GuardExcludes'
      BY <1>4, <1>7, <2>1 DEF IInv, TypeOK, Return, GuardExcludes, Guarded
    <2>4. OneOwner' /\ \A q \in Proc : pc'[q] \notin Owning
      BY <1>3, <1>7 DEF IInv, TypeOK, Return, OneOwner, Owning
    <2>5. OwnerKnows'
      BY <1>7, <2>1, <2>4 DEF IInv, TypeOK, Return, OwnerKnows, Owning
    <2>6. (Marked /\ OneCall /\ ReceiptsAreTrue /\ AtMostOnePayment /\ AnswersAreTrue)'
      BY <1>1, <1>7, <2>1
      DEF IInv, Marked, Unsettled, OneCall, ReceiptsAreTrue, AtMostOnePayment, AnswersAreTrue
    <2> QED
      BY <2>2, <2>3, <2>4, <2>5, <2>6 DEF IInv
  <1> QED
    BY <1>5, <1>6, <1>7 DEF Recheck

LEMMA AbandonUnsentInv ==
  ASSUME IInv, NEW p \in Proc, AbandonUnsent(p)
  PROVE  IInv'
  <1>1. Ready(p, "rpc") /\ Return(p) /\ UNCHANGED <<wire, sends, told>>
    BY DEF AbandonUnsent
  <1>2. CASE UNCHANGED <<dir, disk>>
    BY <1>1, <1>2, ReturnInv
  <1>3. CASE dir' = [dir EXCEPT !.marker = None] /\ \E ok \in BOOLEAN : SyncParent(ok)
    <2>1. /\ dir' \in Files /\ dir'.marker = None /\ dir'.receipts = dir.receipts
          /\ dir'.guard = dir.guard
          /\ disk' = disk \/ disk' = dir'
      BY <1>3 DEF SyncParent, IInv, TypeOK, Files
    <2>2. /\ Settled(dir) /\ Settled(disk)
          /\ \A q \in Proc : pc[q] \in Owning => q = p
      BY <1>1 DEF IInv, OwnerKnows, OneOwner, Owning, Ready
    <2>3. \A q \in Proc : pc[q] \in Guarded => dir'.guard
      BY <2>1 DEF IInv, GuardExcludes
    <2> QED
      BY <1>1, <2>1, <2>2, <2>3, ClearMarkerInv DEF IInv, AnswersAreTrue
  <1> QED
    BY <1>2, <1>3 DEF AbandonUnsent

LEMMA RemoveMarkerInv ==
  ASSUME IInv, NEW p \in Proc, RemoveMarker(p)
  PROVE  IInv'
  <1>1. Ready(p, "unmark") /\ Return(p) /\ UNCHANGED <<wire, sends>>
    BY DEF RemoveMarker
  <1>2. /\ Settled(dir) /\ Settled(disk)
        /\ \A q \in Proc : pc[q] \in Owning => q = p
        /\ [id |-> req[p].id, intent |-> req[p].intent, txid |-> got[p]] \in sends
    BY <1>1 DEF IInv, OwnerKnows, OneOwner, Owning, Ready
  <1>3. told' \subseteq sends
    BY <1>2 DEF RemoveMarker, IInv, AnswersAreTrue
  <1>4. CASE UNCHANGED <<dir, disk, told>>
    BY <1>1, <1>4, ReturnInv
  <1>5. CASE dir' = [dir EXCEPT !.marker = None] /\ \E ok \in BOOLEAN : SyncParent(ok)
    <2>1. /\ dir' \in Files /\ dir'.marker = None /\ dir'.receipts = dir.receipts
          /\ dir'.guard = dir.guard
          /\ disk' = disk \/ disk' = dir'
      BY <1>5 DEF SyncParent, IInv, TypeOK, Files
    <2>2. \A q \in Proc : pc[q] \in Guarded => dir'.guard
      BY <2>1 DEF IInv, GuardExcludes
    <2> QED
      BY <1>1, <1>2, <1>3, <2>1, <2>2, ClearMarkerInv
  <1> QED
    BY <1>4, <1>5 DEF RemoveMarker

----------------------------------------------------------------------------
LEMMA CallNodeInv ==
  ASSUME IInv, NEW p \in Proc, CallNode(p)
  PROVE  IInv'
  <1>1. /\ Ready(p, "rpc") /\ Goto(p, "waiting") /\ UNCHANGED <<dir, disk, sends, told>>
        /\ wire' = wire \union {[by |-> p, req |-> req[p]]}
    BY DEF CallNode
  <1>2. /\ Settled(dir) /\ Settled(disk) /\ ~HasReceipt(req[p])
        /\ dir.marker = req[p] /\ disk.marker = req[p]
    BY <1>1 DEF IInv, OwnerKnows, Ready
  <1>3. \A q \in Proc : pc[q] \in Owning => q = p
    BY <1>1 DEF IInv, OneOwner, Owning, Ready
  <1>4. wire' = {[by |-> p, req |-> req[p]]}
    BY <1>1, <1>2 DEF Settled
  <1>5. TypeOK'
    BY <1>1, <1>4 DEF IInv, TypeOK, Goto, Labels, Guarded, Call, Ready
  <1>6. GuardExcludes'
    BY <1>1 DEF IInv, TypeOK, Goto, GuardExcludes, Guarded, Ready
  <1>7. OneOwner'
    BY <1>1, <1>3 DEF IInv, TypeOK, Goto, OneOwner, Owning, Ready
  <1>8. OwnerKnows'
    BY <1>1, <1>2, <1>3 DEF IInv, TypeOK, Goto, OwnerKnows, Owning, HasReceipt, Ready
  <1>9. OneCall'
    BY <1>1, <1>2, <1>4 DEF OneCall, Settled, HasReceipt
  <1>10. Marked'
    BY <1>1, <1>2, <1>4 DEF Marked, Unsettled, Settled
  <1>11. (ReceiptsAreTrue /\ AtMostOnePayment /\ AnswersAreTrue)'
    BY <1>1 DEF IInv, ReceiptsAreTrue, AtMostOnePayment, AnswersAreTrue
  <1> QED
    BY <1>5, <1>6, <1>7, <1>8, <1>9, <1>10, <1>11 DEF IInv

(* A payment is new: the call carried out is the only one and its request unpaid. *)
LEMMA NodePaysInv ==
  ASSUME IInv, NEW c \in wire, NodePays(c)
  PROVE  IInv'
  <1>1. PICK t \in TxId : sends' = sends \union
                           {[id |-> c.req.id, intent |-> c.req.intent, txid |-> t]}
    BY DEF NodePays
  <1>2. wire' = {} /\ UNCHANGED <<dir, disk, pc, req, got, told>>
    BY DEF NodePays, IInv, OneCall
  <1>3. c.req \in Request /\ c.req = [id |-> c.req.id, intent |-> c.req.intent]
    BY DEF IInv, TypeOK, Call, Request
  <1>4. \A s \in sends : s.id # c.req.id
    BY DEF IInv, OneCall
  <1>5. TypeOK'
    BY <1>1, <1>2, <1>3 DEF IInv, TypeOK, Payment, Request
  <1>6. AtMostOnePayment'
    BY <1>1, <1>4 DEF IInv, AtMostOnePayment
  <1>7. Marked'
    BY <1>1, <1>2, <1>3 DEF IInv, Marked, Unsettled
  <1>8. ~Settled(dir) /\ ~Settled(disk)
    BY DEF Settled
  <1>9. OwnerKnows'
    BY <1>1, <1>2, <1>8 DEF IInv, OwnerKnows, HasReceipt
  <1>10. (OneCall /\ ReceiptsAreTrue /\ AnswersAreTrue)'
    BY <1>1, <1>2 DEF IInv, OneCall, ReceiptsAreTrue, AnswersAreTrue
  <1>11. (GuardExcludes /\ OneOwner)'
    BY <1>2 DEF IInv, GuardExcludes, OneOwner
  <1> QED
    BY <1>5, <1>6, <1>7, <1>9, <1>10, <1>11 DEF IInv

LEMMA NodeRefusesInv ==
  ASSUME IInv, NEW c \in wire, NodeRefuses(c)
  PROVE  IInv'
  <1>1. wire' = {} /\ UNCHANGED <<dir, disk, pc, req, got, sends, told>>
    BY DEF NodeRefuses, IInv, OneCall
  <1>2. TypeOK' /\ (GuardExcludes /\ OneOwner)'
    BY <1>1 DEF IInv, TypeOK, GuardExcludes, OneOwner
  <1>3. OwnerKnows'
    BY <1>1 DEF IInv, OwnerKnows, HasReceipt, Settled
  <1>4. (Marked /\ OneCall /\ ReceiptsAreTrue /\ AtMostOnePayment /\ AnswersAreTrue)'
    BY <1>1
    DEF IInv, Marked, Unsettled, OneCall, ReceiptsAreTrue, AtMostOnePayment, AnswersAreTrue
  <1> QED
    BY <1>2, <1>3, <1>4 DEF IInv

LEMMA AnsweredInv ==
  ASSUME IInv, NEW p \in Proc, Answered(p)
  PROVE  IInv'
  <1>1. Ready(p, "waiting") /\ UNCHANGED <<dir, disk, req, wire, sends, told>>
        /\ pc' = [pc EXCEPT ![p] = "receipt"]
    BY DEF Answered
  <1>2. PICK s \in sends : /\ s.id = req[p].id /\ s.intent = req[p].intent
                           /\ got' = [got EXCEPT ![p] = s.txid]
    BY DEF Answered
  <1>3. s \in Payment /\ s = [id |-> req[p].id, intent |-> req[p].intent, txid |-> s.txid]
    BY <1>2 DEF IInv, TypeOK, Payment
  <1>4. TypeOK'
    BY <1>1, <1>2, <1>3 DEF IInv, TypeOK, Labels, Guarded, Payment
  <1>5. (GuardExcludes /\ OneOwner)'
    BY <1>1 DEF IInv, TypeOK, GuardExcludes, Guarded, OneOwner, Owning, Ready
  <1>6. OwnerKnows'
    <2> SUFFICES ASSUME NEW q \in Proc PROVE OwnerKnows!(q)'
      BY DEF OwnerKnows
    <2>1. CASE q = p
      BY <1>1, <1>2, <1>3, <2>1 DEF IInv, TypeOK, OwnerKnows, Owning, HasReceipt, Ready
    <2>2. CASE q # p
      BY <1>1, <1>2, <2>2 DEF IInv, TypeOK, OwnerKnows, Owning, HasReceipt, Settled
    <2> QED
      BY <2>1, <2>2
  <1>7. (Marked /\ OneCall /\ ReceiptsAreTrue /\ AtMostOnePayment /\ AnswersAreTrue)'
    BY <1>1
    DEF IInv, Marked, Unsettled, OneCall, ReceiptsAreTrue, AtMostOnePayment, AnswersAreTrue
  <1> QED
    BY <1>4, <1>5, <1>6, <1>7 DEF IInv

LEMMA AskReceiptInv ==
  ASSUME IInv, NEW q \in Request, AskReceipt(q)
  PROVE  IInv'
  <1>1. UNCHANGED <<dir, disk, pc, req, got, wire, sends>>
    BY DEF AskReceipt
  <1>2. PICK r \in Matching(q) : Report(q, r)
    BY DEF AskReceipt
  <1>3. told' \subseteq sends
    BY <1>2, ReportMatching DEF Report, IInv, AnswersAreTrue, ReceiptsAreTrue, Matching
  <1>4. TypeOK' /\ AnswersAreTrue'
    BY <1>1, <1>3 DEF IInv, TypeOK, AnswersAreTrue
  <1>5. OwnerKnows'
    BY <1>1 DEF IInv, OwnerKnows, HasReceipt, Settled
  <1>6. (GuardExcludes /\ OneOwner /\ Marked /\ OneCall /\ ReceiptsAreTrue /\ AtMostOnePayment)'
    BY <1>1
    DEF IInv, GuardExcludes, OneOwner, Marked, Unsettled, OneCall, ReceiptsAreTrue, AtMostOnePayment
  <1> QED
    BY <1>4, <1>5, <1>6 DEF IInv

(* The receipt that complete writes settles the lane. *)
LEMMA WriteReceiptInv ==
  ASSUME IInv, NEW p \in Proc, WriteReceipt(p)
  PROVE  IInv'
  <1> DEFINE new == [id |-> req[p].id, intent |-> req[p].intent, txid |-> got[p]]
  <1>1. Ready(p, "receipt") /\ UNCHANGED <<wire, sends>>
    BY DEF WriteReceipt
  <1>2. /\ new \in sends /\ ~HasReceipt(req[p])
        /\ dir.marker = req[p] /\ disk.marker = req[p]
    BY <1>1 DEF IInv, OwnerKnows, Ready
  <1>3. \A q \in Proc : pc[q] \in Owning => q = p
    BY <1>1 DEF IInv, OneOwner, Owning, Ready
  <1>4. wire = {} /\ sends \subseteq dir.receipts \union {new}
    <2>1. \A q \in Unsettled(dir) : q.id = req[p].id
      BY <1>2 DEF IInv, Marked
    <2>2. wire = {}
      BY <1>2, <2>1 DEF Unsettled, IInv, OneCall
    <2>3. ASSUME NEW s \in sends \ dir.receipts PROVE s = new
      <3>1. [id |-> s.id, intent |-> s.intent] \in Unsettled(dir)
        BY DEF Unsettled
      <3>2. s.id = new.id
        BY <2>1, <3>1
      <3> QED
        BY <1>2, <3>2 DEF IInv, AtMostOnePayment
    <2> QED
      BY <2>2, <2>3
  <1>5. CASE UNCHANGED <<dir, disk, told>> /\ Return(p)
    BY <1>1, <1>5, ReturnInv
  <1>6. CASE /\ dir' = [dir EXCEPT !.receipts = {r \in @ : r.id # new.id} \union {new}]
             /\ \/ /\ SyncParent(TRUE)
                   /\ IF WaitsForAck THEN Return(p) /\ told' = told \union {new}
                                     ELSE Goto(p, "unmark") /\ UNCHANGED told
                \/ SyncParent(FALSE) /\ Return(p) /\ UNCHANGED told
    <2>1. dir' \in Files /\ dir'.guard = dir.guard /\ dir'.marker = dir.marker
      BY <1>2, <1>6 DEF IInv, TypeOK, Files
    <2>2. dir'.receipts = dir.receipts \union {new}
      BY <1>2, <1>6 DEF IInv, TypeOK, Files, HasReceipt
    <2>3. Settled(dir)'
      BY <1>1, <1>4, <2>2 DEF Settled
    <2>4. disk' = disk \/ disk' = dir'
      BY <1>6 DEF SyncParent
    <2>5. \/ Return(p) /\ told' \subseteq sends
          \/ Goto(p, "unmark") /\ ~WaitsForAck /\ disk' = dir' /\ UNCHANGED told
      BY <1>2, <1>6 DEF SyncParent, IInv, AnswersAreTrue
    <2>6. TypeOK'
      BY <1>1, <2>1, <2>4, <2>5 DEF IInv, TypeOK, Return, Goto, Labels, Guarded
    <2>7. GuardExcludes'
      BY <1>1, <2>1, <2>5 DEF IInv, TypeOK, Return, Goto, GuardExcludes, Guarded, Ready
    <2>8. OneOwner'
      BY <1>1, <1>3, <2>5 DEF IInv, TypeOK, Return, Goto, OneOwner, Owning, Ready
    <2>9. OwnerKnows'
      <3> SUFFICES ASSUME NEW q \in Proc PROVE OwnerKnows!(q)'
        BY DEF OwnerKnows
      <3>1. CASE q # p
        BY <1>3, <2>5, <3>1 DEF IInv, TypeOK, Return, Goto, OwnerKnows, Owning
      <3>2. CASE q = p /\ Return(p)
        BY <3>2 DEF IInv, TypeOK, Return, Owning
      <3>3. CASE q = p /\ Goto(p, "unmark") /\ ~WaitsForAck /\ disk' = dir'
        <4>1. Settled(disk)'
          BY <2>3, <3>3 DEF Settled
        <4>2. dir'.marker # None
          BY <1>2, <2>1, <1>1, NoneAssumption DEF Ready
        <4> QED
          BY <1>1, <1>2, <2>3, <3>3, <4>1, <4>2 DEF IInv, TypeOK, Goto, Owning, Ready
      <3> QED
        BY <2>5, <3>1, <3>2, <3>3
    <2>10. Marked'
      BY <1>1, <2>1, <2>2, <2>3, <2>4, SettledIsEmpty DEF IInv, Marked, Unsettled, Settled
    <2>11. (OneCall /\ ReceiptsAreTrue /\ AtMostOnePayment /\ AnswersAreTrue)'
      BY <1>1, <1>2, <2>2, <2>4, <2>5
      DEF IInv, OneCall, ReceiptsAreTrue, AtMostOnePayment, AnswersAreTrue
    <2> QED
      BY <2>6, <2>7, <2>8, <2>9, <2>10, <2>11 DEF IInv
  <1> QED
    BY <1>5, <1>6 DEF WriteReceipt

(* acknowledge clears the marker of a paid request only, and of nobody's begin. *)
LEMMA AcknowledgeInv ==
  ASSUME IInv, LaneAssumption, NEW p \in Proc, Acknowledge(p)
  PROVE  IInv'
  <1>1. /\ WaitsForAck /\ Ready(p, "ack") /\ Return(p)
        /\ UNCHANGED <<wire, sends, told>>
    BY DEF Acknowledge
  <1>2. \A q \in Proc : pc[q] \in Guarded => q = p
    BY <1>1 DEF IInv, GuardExcludes, Guarded, Ready
  <1>3. CASE /\ \E r \in dir.receipts : /\ r.id = req[p].id
                                        /\ dir.marker = [id |-> r.id, intent |-> r.intent]
             /\ DropGuard([dir EXCEPT !.marker = None])
             /\ \E ok \in BOOLEAN : SyncParent(ok)
    <2>1. PICK r \in dir.receipts : dir.marker = [id |-> r.id, intent |-> r.intent]
      BY <1>3
    <2>2. /\ dir' \in Files /\ dir'.marker = None /\ dir'.receipts = dir.receipts
          /\ disk' = disk \/ disk' = dir'
      BY <1>3, DropGuardFiles DEF SyncParent, IInv, TypeOK, Files
    <2>3. r \in sends /\ dir.marker.id = r.id
      BY <2>1 DEF IInv, ReceiptsAreTrue
    <2>4. Settled(dir)
      <3>1. wire = {}
        BY <2>3 DEF IInv, Marked, Unsettled, OneCall
      <3>2. ASSUME NEW s \in sends \ dir.receipts PROVE FALSE
        <4>1. dir.marker = [id |-> s.id, intent |-> s.intent]
          BY DEF IInv, Marked, Unsettled
        <4>2. s.id = r.id
          BY <2>3, <4>1
        <4> QED
          BY <2>3, <4>2 DEF IInv, AtMostOnePayment
      <3> QED
        BY <3>1, <3>2 DEF Settled
    <2>5. \A q \in Proc : pc[q] \notin Owning
      <3> SUFFICES ASSUME NEW q \in Proc, pc[q] \in Owning PROVE FALSE
        OBVIOUS
      <3>1. pc[q] \notin {"write", "recheck"}
        BY <1>1, <1>2 DEF Guarded, Ready
      <3>2. pc[q] # "unmark"
        BY <1>1 DEF IInv, OwnerKnows
      <3>3. pc[q] \in {"rpc", "waiting", "receipt"}
        BY <3>1, <3>2 DEF Owning
      <3>4. dir.marker = req[q] /\ ~HasReceipt(req[q])
        BY <3>3 DEF IInv, OwnerKnows
      <3> QED
        BY <2>3, <3>4 DEF HasReceipt
    <2> QED
      BY <1>1, <1>2, <2>2, <2>4, <2>5, ClearMarkerInv DEF IInv, AnswersAreTrue, LaneAssumption
  <1>4. CASE DropGuard(dir) /\ UNCHANGED disk
    <2>1. dir' \in Files /\ dir'.marker = dir.marker /\ dir'.receipts = dir.receipts
      BY <1>4, DropGuardFiles DEF IInv, TypeOK
    <2>2. TypeOK'
      BY <1>1, <1>4, <2>1 DEF IInv, TypeOK, Return, Labels, Guarded
    <2>3. GuardExcludes'
      BY <1>1, <1>2 DEF IInv, TypeOK, Return, GuardExcludes, Guarded
    <2>4. OneOwner'
      BY <1>1 DEF IInv, TypeOK, Return, OneOwner, Owning
    <2>5. OwnerKnows'
      BY <1>1, <1>4, <2>1 DEF IInv, TypeOK, Return, OwnerKnows, Owning, Settled, HasReceipt
    <2>6. (Marked /\ OneCall /\ ReceiptsAreTrue /\ AtMostOnePayment /\ AnswersAreTrue)'
      BY <1>1, <1>4, <2>1
      DEF IInv, Marked, Unsettled, OneCall, ReceiptsAreTrue, AtMostOnePayment, AnswersAreTrue
    <2> QED
      BY <2>2, <2>3, <2>4, <2>5, <2>6 DEF IInv
  <1> QED
    BY <1>3, <1>4 DEF Acknowledge

----------------------------------------------------------------------------
LEMMA WriteBackInv ==
  ASSUME IInv, WriteBack
  PROVE  IInv'
  <1>1. disk' = dir /\ UNCHANGED <<dir, pc, req, got, wire, sends, told>>
    BY DEF WriteBack
  <1>2. TypeOK' /\ (GuardExcludes /\ OneOwner)'
    BY <1>1 DEF IInv, TypeOK, GuardExcludes, OneOwner
  <1>3. OwnerKnows'
    BY <1>1 DEF IInv, OwnerKnows, HasReceipt, Settled
  <1>4. (Marked /\ OneCall /\ ReceiptsAreTrue /\ AtMostOnePayment /\ AnswersAreTrue)'
    BY <1>1
    DEF IInv, Marked, Unsettled, OneCall, ReceiptsAreTrue, AtMostOnePayment, AnswersAreTrue
  <1> QED
    BY <1>2, <1>3, <1>4 DEF IInv

(* Whatever a power loss leaves still holds every request in doubt. *)
LEMMA SurvivorsAreMarked ==
  ASSUME IInv, NEW fs \in Survivors
  PROVE  /\ fs \in Files
         /\ fs.receipts \subseteq dir.receipts
         /\ \A q \in Unsettled(fs) : fs.marker = q
  <1>1. CASE OrderedMetadata
    BY <1>1 DEF Survivors, IInv, TypeOK, Files, ReceiptsAreTrue, Marked
  <1>2. CASE ~OrderedMetadata
    <2>1. /\ fs \in Files /\ fs.marker \in {disk.marker, dir.marker}
          /\ disk.receipts \subseteq fs.receipts /\ fs.receipts \subseteq dir.receipts
      BY <1>2 DEF Survivors, IInv, TypeOK, Files
    <2>2. Unsettled(fs) \subseteq Unsettled(disk)
      BY <2>1 DEF Unsettled
    <2> QED
      BY <1>2, <2>1, <2>2 DEF IInv, Marked
  <1> QED
    BY <1>1, <1>2

LEMMA PowerLossInv ==
  ASSUME IInv, PowerLoss
  PROVE  IInv'
  <1>1. PICK fs \in Survivors : dir' = fs /\ disk' = fs
    BY DEF PowerLoss
  <1>2. /\ pc' = [p \in Proc |-> "idle"]
        /\ req' = [p \in Proc |-> None]
        /\ got' = [p \in Proc |-> None]
        /\ UNCHANGED <<wire, sends, told>>
    BY DEF PowerLoss
  <1>3. TypeOK'
    BY <1>1, <1>2, SurvivorsAreMarked DEF IInv, TypeOK, Labels
  <1>4. (GuardExcludes /\ OneOwner /\ OwnerKnows)'
    BY <1>2 DEF GuardExcludes, OneOwner, OwnerKnows, Guarded, Owning
  <1>5. (Marked /\ ReceiptsAreTrue)'
    BY <1>1, <1>2, SurvivorsAreMarked DEF IInv, Marked, Unsettled, ReceiptsAreTrue
  <1>6. (OneCall /\ AtMostOnePayment /\ AnswersAreTrue)'
    BY <1>2 DEF IInv, OneCall, AtMostOnePayment, AnswersAreTrue
  <1> QED
    BY <1>3, <1>4, <1>5, <1>6 DEF IInv

LEMMA StutterInv ==
  ASSUME IInv, UNCHANGED vars PROVE IInv'
  BY DEF vars, IInv, TypeOK, GuardExcludes, OneOwner, OwnerKnows, HasReceipt, Settled,
     Marked, Unsettled, OneCall, ReceiptsAreTrue, AtMostOnePayment, AnswersAreTrue

LEMMA StepInv ==
  ASSUME IInv, LaneAssumption, NEW p \in Proc, Step(p)
  PROVE  IInv'
  <1>1. CASE BeginCall(p)
    BY <1>1, TakeGuardInv DEF BeginCall
  <1>2. CASE ReadReceipt(p)    BY <1>2, ReadReceiptInv
  <1>3. CASE CreateMarker(p)   BY <1>3, CreateMarkerInv
  <1>4. CASE WriteMarker(p)    BY <1>4, WriteMarkerInv
  <1>5. CASE Recheck(p)        BY <1>5, RecheckInv
  <1>6. CASE CallNode(p)       BY <1>6, CallNodeInv
  <1>7. CASE Answered(p)       BY <1>7, AnsweredInv
  <1>8. CASE GivesUp(p)        BY <1>8, ReturnInv DEF GivesUp
  <1>9. CASE AbandonUnsent(p)  BY <1>9, AbandonUnsentInv
  <1>10. CASE WriteReceipt(p)  BY <1>10, WriteReceiptInv
  <1>11. CASE RemoveMarker(p)  BY <1>11, RemoveMarkerInv
  <1>12. CASE AckCall(p)
    BY <1>12, TakeGuardInv DEF AckCall
  <1>13. CASE Acknowledge(p)   BY <1>13, AcknowledgeInv
  <1>14. CASE Crash(p)         BY <1>14, ReturnInv DEF Crash
  <1> QED
    BY <1>1, <1>2, <1>3, <1>4, <1>5, <1>6, <1>7, <1>8, <1>9, <1>10, <1>11, <1>12, <1>13, <1>14
    DEF Step

LEMMA NextInv ==
  ASSUME IInv, LaneAssumption, [Next]_vars
  PROVE  IInv'
  <1>1. CASE \E p \in Proc : Step(p)
    BY <1>1, StepInv
  <1>2. CASE \E c \in wire : NodePays(c) \/ NodeRefuses(c)
    BY <1>2, NodePaysInv, NodeRefusesInv
  <1>3. CASE \E q \in Request : AskReceipt(q)
    BY <1>3, AskReceiptInv
  <1>4. CASE WriteBack    BY <1>4, WriteBackInv
  <1>5. CASE PowerLoss    BY <1>5, PowerLossInv
  <1>6. CASE UNCHANGED vars
    BY <1>6, StutterInv
  <1> QED
    BY <1>1, <1>2, <1>3, <1>4, <1>5, <1>6 DEF Next

LEMMA Inductive ==
  ASSUME LaneAssumption PROVE Spec => []IInv
  <1>1. IInv /\ [Next]_vars => IInv'
    BY NextInv
  <1> QED
    BY <1>1, InitInv, PTL DEF Spec

----------------------------------------------------------------------------
(* Every variable keeps its type: no receipt without a transaction identifier, *)
(* no marker that is not a request or torn. *)
THEOREM TypeCorrect ==
  ASSUME LaneAssumption PROVE Spec => []TypeOK
  <1>1. IInv => TypeOK
    BY DEF IInv
  <1> QED
    BY <1>1, Inductive, PTL

(* payout_guard.rs pays a request identifier at most once, for any number of *)
(* processes, retries and identifiers, through crashes, failed writes and power *)
(* losses. *)
THEOREM PaidAtMostOnce ==
  ASSUME LaneAssumption PROVE Spec => []AtMostOnePayment
  <1>1. IInv => AtMostOnePayment
    BY DEF IInv
  <1> QED
    BY <1>1, Inductive, PTL

(* A request that may have been paid and has no receipt keeps its lane blocked, *)
(* also in the files any power loss would leave. *)
THEOREM DoubtStaysBlocked ==
  ASSUME LaneAssumption PROVE Spec => []UnsettledIsMarked
  <1>1. IInv => UnsettledIsMarked
    BY SurvivorsAreMarked DEF IInv, Marked, UnsettledIsMarked
  <1> QED
    BY <1>1, Inductive, PTL

(* begin, complete, complete_waiting_ack and receipt only report payments the *)
(* node really made, with the contents the caller asked about. *)
THEOREM ReportsAreTrue ==
  ASSUME LaneAssumption PROVE Spec => []AnswersAreTrue
  <1>1. IInv => AnswersAreTrue
    BY DEF IInv
  <1> QED
    BY <1>1, Inductive, PTL

(* A step that reports payments of the ledger, one at most, is a Tell. *)
LEMMA TellStep ==
  ASSUME IInv, IInv', UNCHANGED sends, NEW r,
         told' = told \/ told' = told \union {r}
  PROVE  [Ledger!Next]_(Ledger!vars)
  <1>1. CASE told' = told
    BY <1>1 DEF Ledger!vars
  <1>2. CASE told' = told \union {r}
    <2>1. r \in sends /\ r \in Payment
      BY <1>2 DEF IInv, AnswersAreTrue, TypeOK
    <2> QED
      BY <1>2, <2>1 DEF Ledger!Next, Ledger!Tell, Ledger!Payment, Payment
  <1> QED
    BY <1>1, <1>2

(* Every step of a process pays nothing and reports at most one payment. *)
LEMMA StepTells ==
  ASSUME IInv, NEW p \in Proc, Step(p)
  PROVE  /\ UNCHANGED sends
         /\ \E r : told' = told \/ told' = told \union {r}
  BY DEF Step, BeginCall, TakeGuard, ReadReceipt, CreateMarker, WriteMarker, Recheck, CallNode,
     Answered, GivesUp, AbandonUnsent, WriteReceipt, RemoveMarker, AckCall, Acknowledge, Crash, Report

(* The node's payment is the ledger's: by the invariant the call it carries out *)
(* is for an unpaid identifier. *)
LEMMA NodePaysPays ==
  ASSUME IInv, NEW c \in wire, NodePays(c)
  PROVE  Ledger!Next
  <1>1. PICK t \in TxId :
          /\ \A s \in sends : s.txid # t
          /\ sends' = sends \union {[id |-> c.req.id, intent |-> c.req.intent, txid |-> t]}
    BY DEF NodePays
  <1> DEFINE new == [id |-> c.req.id, intent |-> c.req.intent, txid |-> t]
  <1>2. new \in Ledger!Payment
    BY DEF IInv, TypeOK, Call, Request, Ledger!Payment
  <1>3. \A s \in sends : s.id # new.id /\ s.txid # new.txid
    BY <1>1 DEF IInv, OneCall
  <1>4. UNCHANGED told
    BY DEF NodePays
  <1>5. Ledger!Pay(new)
    BY <1>1, <1>3, <1>4 DEF Ledger!Pay
  <1> QED
    BY <1>2, <1>5 DEF Ledger!Next

(* A lane of the journal implements the ledger that pays once. *)
THEOREM ImplementsLedger ==
  ASSUME LaneAssumption PROVE Spec => PaysOnce
  <1>1. Init => Ledger!Init
    BY DEF Init, Ledger!Init
  <1>2. ASSUME IInv, IInv', [Next]_vars
        PROVE  [Ledger!Next]_(Ledger!vars)
    <2>1. CASE \E p \in Proc : Step(p)
      BY <1>2, <2>1, StepTells, TellStep
    <2>2. CASE \E c \in wire : NodePays(c)
      BY <1>2, <2>2, NodePaysPays
    <2>3. CASE \E c \in wire : NodeRefuses(c)
      BY <2>3 DEF NodeRefuses, Ledger!vars
    <2>4. CASE \E q \in Request : AskReceipt(q)
      BY <1>2, <2>4, TellStep DEF AskReceipt, Report
    <2>5. CASE WriteBack \/ PowerLoss \/ UNCHANGED vars
      BY <2>5 DEF WriteBack, PowerLoss, vars, Ledger!vars
    <2> QED
      BY <1>2, <2>1, <2>2, <2>3, <2>4, <2>5 DEF Next
  <1> QED
    BY <1>1, <1>2, Inductive, PTL DEF Spec, PaysOnce, Ledger!Spec
============================================================================
