------------------------- MODULE StaffRefundProofs -------------------------
(* Proofs that the journal of staff refunds knows of every refund, that a   *)
(* request is paid once and that "not sent" is true, for any requests,      *)
(* sales, rates and power losses.                                           *)
EXTENDS StaffRefund, Sums

(* A product of natural numbers is one. *)
LEMMA Product == \A a, b \in Nat : a * b \in Nat
  OBVIOUS

(* Recording a state changes that state and nothing else. *)
LEMMA RecordedFile ==
  ASSUME TypeOK, NEW i \in Id, file[i] # None,
         NEW state \in {"reserved", "dispatching", "complete", "cancelled"}
  PROVE  /\ Recorded(i, state) \in Journal
         /\ Recorded(i, state)[i] # None /\ Recorded(i, state)[i].state = state
         /\ \A t \in Transfer : state \in {"dispatching", "complete"} /\ Knows(file, t)
                                  => Knows(Recorded(i, state), t)
         /\ \A j \in Id : j # i => Recorded(i, state)[j] = file[j]
  <1>1. file \in Journal /\ file[i] \in Reservation
    BY DEF TypeOK, Journal
  <1>2. [file[i] EXCEPT !.state = state] \in Reservation
    BY <1>1 DEF Reservation
  <1>3. Recorded(i, state) = [file EXCEPT ![i] = [file[i] EXCEPT !.state = state]]
    BY DEF Recorded
  <1>4. Recorded(i, state) \in Journal
    BY <1>1, <1>2, <1>3 DEF Journal
  <1>5. Recorded(i, state)[i] = [file[i] EXCEPT !.state = state]
    BY <1>1, <1>3 DEF Journal
  <1>6. Recorded(i, state)[i] # None
    BY <1>2, <1>5, NothingAssumption
  <1>7. /\ Recorded(i, state)[i].state = state
        /\ Recorded(i, state)[i].sale = file[i].sale
        /\ Recorded(i, state)[i].day = file[i].day
        /\ Recorded(i, state)[i].usd = file[i].usd
        /\ Recorded(i, state)[i].sats = file[i].sats
        /\ Recorded(i, state)[i].amount = file[i].amount
    BY <1>1, <1>5 DEF Reservation
  <1>8. \A j \in Id : j # i => Recorded(i, state)[j] = file[j]
    BY <1>1, <1>3 DEF Journal
  <1>9. ASSUME NEW t \in Transfer, state \in {"dispatching", "complete"}, Knows(file, t)
        PROVE  Knows(Recorded(i, state), t)
    <2>1. t.id \in Id
      BY <1>9 DEF Transfer
    <2>2. CASE t.id = i
      BY <1>6, <1>7, <1>9, <2>2 DEF Knows
    <2>3. CASE t.id # i
      BY <1>8, <1>9, <2>1, <2>3 DEF Knows
    <2> QED
      BY <2>2, <2>3
  <1> QED
    BY <1>4, <1>6, <1>7, <1>8, <1>9

LEMMA InitInv == Init => IInv
  <1> SUFFICES ASSUME Init PROVE IInv
    OBVIOUS
  <1>1. file \in Journal /\ sure = {file}
    BY DEF Init, Journal
  <1>2. TypeOK
    BY <1>1, RefundAssumption DEF Init, TypeOK
  <1> QED
    BY <1>1, <1>2 DEF Init, IInv, FileSurvives, CallIsSaved, ReservationsLast, ToldAreKept,
       TransfersAreRecorded, PaidOnce, Transfers

----------------------------------------------------------------------------
(* The calls *)

LEMMA RepeatInv ==
  ASSUME IInv, NEW i \in Id, NEW s \in Sale, NEW amount \in Amount, Repeat(i, s, amount)
  PROVE  IInv'
  <1>1. /\ call = None /\ file[i] # None /\ UNCHANGED <<file, sure, call, wire, carried, day, losses>>
        /\ told' = told \/ (told' = told \union {i} /\ file[i].state = "cancelled")
    BY DEF Repeat, disk, node
  <1>2. TypeOK'
    BY <1>1 DEF IInv, TypeOK
  <1>3. file[i].state = "cancelled" => /\ \A journal \in sure : journal[i] # None
                                       /\ \A t \in Transfers : t.id # i
    BY <1>1 DEF IInv, ReservationsLast, FileSurvives, TransfersAreRecorded, Knows
  <1>4. ToldAreKept'
    BY <1>1, <1>3 DEF IInv, ToldAreKept, Transfers
  <1> QED
    BY <1>1, <1>2, <1>4 DEF IInv, FileSurvives, CallIsSaved, ReservationsLast,
       TransfersAreRecorded, PaidOnce, Transfers

LEMMA ReserveInv ==
  ASSUME IInv, NEW i \in Id, NEW s \in Sale, NEW amount \in Amount, Reserve(i, s, amount)
  PROVE  IInv'
  <1>1. PICK q \in Quote, d \in {day - 1, day} \intersect Nat :
          LET journal == [file EXCEPT ![i] = [sale |-> s, amount |-> amount, day |-> d,
                                              usd |-> amount * q.usd, sats |-> amount * q.sats,
                                              state |-> "reserved"]] IN
          \/ Saved(journal) /\ call' = [id |-> i, pc |-> "verify"]
          \/ NotSaved(journal) /\ call' = None
    BY DEF Reserve
  <1> DEFINE entry   == [sale |-> s, amount |-> amount, day |-> d, usd |-> amount * q.usd,
                         sats |-> amount * q.sats, state |-> "reserved"]
             journal == [file EXCEPT ![i] = entry]
  <1>2. /\ call = None /\ file[i] = None /\ UNCHANGED <<wire, carried, told, day, losses>>
    BY DEF Reserve, node
  <1>3. entry \in Reservation
    <2>1. q.usd \in Nat /\ q.sats \in Nat /\ amount \in Nat
      BY RefundAssumption
    <2>2. amount * q.usd \in Nat /\ amount * q.sats \in Nat
      BY <2>1, Product
    <2> QED
      BY <2>2 DEF Reservation
  <1>4. /\ journal \in Journal /\ journal[i] = entry /\ entry # None /\ entry.state = "reserved"
        /\ \A j \in Id : j # i => journal[j] = file[j]
    BY <1>3, NothingAssumption DEF IInv, TypeOK, Journal
  <1> HIDE DEF entry, journal
  <1>5. \/ file' = journal /\ sure' = {journal} /\ call' = [id |-> i, pc |-> "verify"]
        \/ file' = journal /\ sure' = sure \union {journal} /\ call' = None
        \/ UNCHANGED <<file, sure>> /\ call' = None
    BY <1>1 DEF Saved, NotSaved, disk, entry, journal
  <1>6. \A t \in Transfers : t \in Transfer /\ t.id \in Id /\ t.id # i
    BY <1>2 DEF IInv, TypeOK, Transfer, Transfers, TransfersAreRecorded, FileSurvives, Knows
  <1>7. i \notin told
    BY <1>2 DEF IInv, ToldAreKept, FileSurvives
  <1>8. TypeOK'
    BY <1>2, <1>4, <1>5 DEF IInv, TypeOK, Call
  <1>9. FileSurvives'
    BY <1>5 DEF IInv, FileSurvives
  <1>10. CallIsSaved'
    BY <1>2, <1>4, <1>5, <1>6, <1>7, NothingAssumption DEF CallIsSaved, Transfers
  <1>11. ReservationsLast'
    <2>1. CASE sure' = {journal}
      BY <2>1 DEF ReservationsLast
    <2>2. CASE sure' = sure \union {journal}
      <3> SUFFICES ASSUME NEW j \in Id, NEW a \in sure', a[j] # None, a[j].state # "reserved",
                          NEW b \in sure'
                   PROVE  b[j] # None
        BY DEF ReservationsLast
      <3>1. j # i
        BY <1>2, <1>4, <2>2 DEF IInv, ReservationsLast, FileSurvives
      <3>2. \E c \in sure : c[j] # None /\ c[j].state # "reserved"
        BY <1>4, <2>2, <3>1 DEF IInv, FileSurvives
      <3>3. \A c \in sure : c[j] # None
        BY <3>2 DEF IInv, ReservationsLast
      <3> QED
        BY <1>4, <2>2, <3>1, <3>3 DEF IInv, FileSurvives
    <2>3. CASE sure' = sure
      BY <2>3 DEF IInv, ReservationsLast
    <2> QED
      BY <1>5, <2>1, <2>2, <2>3
  <1>12. ToldAreKept'
    <2> SUFFICES ASSUME NEW k \in told
                 PROVE  (\A b \in sure' : b[k] # None) /\ \A t \in Transfers : t.id # k
      BY <1>2 DEF ToldAreKept, Transfers
    <2>1. k \in Id /\ k # i
      BY <1>7 DEF IInv, TypeOK
    <2>2. (\A b \in sure : b[k] # None) /\ \A t \in Transfers : t.id # k
      BY DEF IInv, ToldAreKept
    <2> QED
      BY <1>4, <1>5, <2>1, <2>2 DEF IInv, FileSurvives
  <1>13. TransfersAreRecorded'
    <2> SUFFICES ASSUME NEW t \in Transfers, NEW b \in sure' PROVE Knows(b, t)
      BY <1>2 DEF TransfersAreRecorded, Transfers
    <2>1. \A c \in sure : Knows(c, t)
      BY DEF IInv, TransfersAreRecorded
    <2>2. Knows(file, t)
      BY <2>1 DEF IInv, FileSurvives
    <2>3. Knows(journal, t)
      BY <1>4, <1>6, <2>2 DEF Knows
    <2> QED
      BY <1>5, <2>1, <2>3
  <1>14. PaidOnce'
    BY <1>2 DEF IInv, PaidOnce, Transfers
  <1> QED
    BY <1>8, <1>9, <1>10, <1>11, <1>12, <1>13, <1>14 DEF IInv

(* Saving a later state of the request of the call, or failing to. *)
LEMMA RecordInv ==
  ASSUME IInv, call # None, NEW state \in {"dispatching", "complete", "cancelled"},
         state = "cancelled" => call.pc # "wait",
         \/ Saved(Recorded(call.id, state))
         \/ NotSaved(Recorded(call.id, state)),
         UNCHANGED node
  PROVE  /\ file' \in Journal /\ sure' \subseteq Journal
         /\ FileSurvives' /\ ReservationsLast' /\ TransfersAreRecorded' /\ PaidOnce'
         /\ \A i \in told \union {call.id} : \A journal \in sure' : journal[i] # None
  <1> DEFINE i == call.id
             journal == Recorded(i, state)
  <1>1. /\ i \in Id /\ sure = {file} /\ file[i] # None /\ i \notin told /\ TypeOK
        /\ call.pc # "wait" => \A t \in Transfers : t.id # i
    BY DEF IInv, CallIsSaved, TypeOK, Call
  <1>2. /\ journal \in Journal /\ journal[i] # None /\ journal[i].state = state
        /\ \A t \in Transfer : state \in {"dispatching", "complete"} /\ Knows(file, t)
                                 => Knows(journal, t)
        /\ \A j \in Id : j # i => journal[j] = file[j]
    BY <1>1, RecordedFile
  <1>3. \/ Saved(journal) \/ NotSaved(journal)
    OBVIOUS
  <1> HIDE DEF i, journal
  <1>4. sure' \subseteq {file, journal} /\ file' \in sure' /\ sure' # {}
    BY <1>1, <1>3 DEF Saved, NotSaved, disk
  <1>5. file' \in Journal /\ sure' \subseteq Journal /\ FileSurvives'
    BY <1>1, <1>2, <1>4 DEF TypeOK, FileSurvives
  <1>6. ReservationsLast'
    <2> SUFFICES ASSUME NEW j \in Id, NEW a \in sure', a[j] # None, NEW b \in sure'
                 PROVE  b[j] # None
      BY DEF ReservationsLast
    <2> QED
      BY <1>1, <1>2, <1>4
  <1>7. \A j \in told \union {i} : \A b \in sure' : b[j] # None
    BY <1>1, <1>2, <1>4 DEF IInv, ToldAreKept, TypeOK
  <1>8. TransfersAreRecorded'
    <2> SUFFICES ASSUME NEW t \in Transfers PROVE Knows(journal, t)
      BY <1>1, <1>4 DEF TransfersAreRecorded, Transfers, IInv, node
    <2>1. Knows(file, t) /\ t \in Transfer /\ t.id \in Id
      BY <1>1 DEF IInv, TransfersAreRecorded, TypeOK, Transfers, Transfer
    <2>2. CASE state = "cancelled"
      BY <1>1, <1>2, <2>1, <2>2 DEF Knows
    <2>3. CASE state # "cancelled"
      BY <1>2, <2>1, <2>3
    <2> QED
      BY <2>2, <2>3
  <1>9. PaidOnce'
    BY DEF IInv, PaidOnce, Transfers, node
  <1> QED
    BY <1>5, <1>6, <1>7, <1>8, <1>9 DEF i

LEMMA CancelInv == ASSUME IInv, Cancel PROVE IInv'
  <1>1. /\ call # None /\ call.pc = "verify" /\ call' = None /\ UNCHANGED <<node, day, losses>>
        /\ told' = told \/ told' = told \union {call.id}
        /\ Saved(Recorded(call.id, "cancelled")) \/ NotSaved(Recorded(call.id, "cancelled"))
    BY DEF Cancel
  <1>2. /\ file' \in Journal /\ sure' \subseteq Journal
        /\ FileSurvives' /\ ReservationsLast' /\ TransfersAreRecorded' /\ PaidOnce'
        /\ \A i \in told \union {call.id} : \A journal \in sure' : journal[i] # None
    BY <1>1, RecordInv
  <1>3. call.id \in Id /\ \A t \in Transfers : t.id # call.id
    BY <1>1 DEF IInv, CallIsSaved, TypeOK, Call
  <1>4. TypeOK'
    BY <1>1, <1>2, <1>3 DEF IInv, TypeOK, node
  <1>5. CallIsSaved'
    BY <1>1 DEF CallIsSaved
  <1>6. ToldAreKept'
    BY <1>1, <1>2, <1>3 DEF IInv, ToldAreKept, Transfers, node
  <1> QED
    BY <1>2, <1>4, <1>5, <1>6 DEF IInv

LEMMA DispatchInv == ASSUME IInv, Dispatch PROVE IInv'
  <1>1. /\ call # None /\ call.pc = "verify" /\ UNCHANGED <<node, told, day, losses>>
        /\ \/ Saved(Recorded(call.id, "dispatching")) /\ call' = [call EXCEPT !.pc = "pay"]
           \/ NotSaved(Recorded(call.id, "dispatching")) /\ call' = None
    BY DEF Dispatch
  <1>2. /\ file' \in Journal /\ sure' \subseteq Journal
        /\ FileSurvives' /\ ReservationsLast' /\ TransfersAreRecorded' /\ PaidOnce'
        /\ \A i \in told \union {call.id} : \A journal \in sure' : journal[i] # None
    BY <1>1, RecordInv
  <1>3. /\ call \in Call /\ call.id \in Id /\ call.id \notin told /\ file[call.id] # None
        /\ \A t \in Transfers : t.id # call.id
    BY <1>1 DEF IInv, CallIsSaved, TypeOK, Call
  <1>4. [call EXCEPT !.pc = "pay"] \in Call /\ [call EXCEPT !.pc = "pay"].id = call.id
        /\ [call EXCEPT !.pc = "pay"].pc = "pay"
    BY <1>3 DEF Call
  <1>5. TypeOK'
    BY <1>1, <1>2, <1>4 DEF IInv, TypeOK, node
  <1>6. CallIsSaved'
    <2>1. CASE call' = None
      BY <2>1 DEF CallIsSaved
    <2>2. CASE Saved(Recorded(call.id, "dispatching")) /\ call' = [call EXCEPT !.pc = "pay"]
      <3>1. /\ Recorded(call.id, "dispatching")[call.id] # None
            /\ Recorded(call.id, "dispatching")[call.id].state = "dispatching"
        BY <1>3, RecordedFile DEF IInv
      <3> QED
        BY <1>1, <1>3, <1>4, <2>2, <3>1 DEF CallIsSaved, Saved, Transfers, node
    <2> QED
      BY <1>1, <2>1, <2>2
  <1>7. ToldAreKept'
    BY <1>1, <1>2 DEF IInv, ToldAreKept, Transfers, node
  <1> QED
    BY <1>2, <1>5, <1>6, <1>7 DEF IInv

LEMMA CompleteInv == ASSUME IInv, Complete PROVE IInv'
  <1>1. /\ call # None /\ call' = None /\ UNCHANGED <<node, told, day, losses>>
        /\ Saved(Recorded(call.id, "complete")) \/ NotSaved(Recorded(call.id, "complete"))
    BY DEF Complete
  <1>2. /\ file' \in Journal /\ sure' \subseteq Journal
        /\ FileSurvives' /\ ReservationsLast' /\ TransfersAreRecorded' /\ PaidOnce'
        /\ \A i \in told \union {call.id} : \A journal \in sure' : journal[i] # None
    BY <1>1, RecordInv
  <1>3. TypeOK'
    BY <1>1, <1>2 DEF IInv, TypeOK, node
  <1>4. CallIsSaved'
    BY <1>1 DEF CallIsSaved
  <1>5. ToldAreKept'
    BY <1>1, <1>2 DEF IInv, ToldAreKept, Transfers, node
  <1> QED
    BY <1>2, <1>3, <1>4, <1>5 DEF IInv

LEMMA PayInv == ASSUME IInv, Pay PROVE IInv'
  <1> DEFINE i == call.id
             t == [id |-> i, n |-> Cardinality(Of(i)), sale |-> file[i].sale,
                   amount |-> file[i].amount, usd |-> file[i].usd, sats |-> file[i].sats,
                   day |-> file[i].day]
  <1>1. /\ call # None /\ call.pc = "pay" /\ wire' = wire \union {t}
        /\ call' = [call EXCEPT !.pc = "wait"] /\ UNCHANGED <<file, sure, carried, told, day, losses>>
    BY DEF Pay, disk
  <1>2. /\ call \in Call /\ i \in Id /\ i \notin told /\ sure = {file}
        /\ file[i] # None /\ file[i].state = "dispatching"
        /\ \A u \in Transfers : u.id # i
    BY <1>1 DEF IInv, CallIsSaved, TypeOK, Call
  <1>3. file[i] \in Reservation
    BY <1>2 DEF IInv, TypeOK, Journal
  <1>4. Of(i) = {}
    BY <1>2 DEF Of, Transfers
  <1>5. Cardinality(Of(i)) \in Nat
    BY <1>4, FS_EmptySet
  <1>6. t \in Transfer
    BY <1>2, <1>3, <1>5 DEF Transfer, Reservation
  <1>7. t.id = i /\ Knows(file, t)
    BY <1>2 DEF Knows
  <1> HIDE DEF t, i
  <1>8. Transfers' = Transfers \union {t}
    BY <1>1 DEF Transfers
  <1>9. call' \in Call /\ call'.id = i /\ call'.pc = "wait"
    BY <1>1, <1>2 DEF Call, i
  <1>10. TypeOK'
    BY <1>1, <1>6, <1>9 DEF IInv, TypeOK
  <1>11. CallIsSaved'
    BY <1>1, <1>2, <1>9 DEF CallIsSaved
  <1>12. ToldAreKept'
    BY <1>1, <1>2, <1>7, <1>8 DEF IInv, ToldAreKept
  <1>13. TransfersAreRecorded'
    BY <1>1, <1>2, <1>7, <1>8 DEF IInv, TransfersAreRecorded, Knows
  <1>14. PaidOnce'
    BY <1>2, <1>7, <1>8 DEF IInv, PaidOnce
  <1> QED
    BY <1>1, <1>10, <1>11, <1>12, <1>13, <1>14 DEF IInv, FileSurvives, ReservationsLast

----------------------------------------------------------------------------
(* The node and the machine *)

LEMMA NodeInv ==
  ASSUME IInv, NEW t \in wire, NodePays(t) \/ NodeRefuses(t)
  PROVE  IInv'
  <1>1. /\ UNCHANGED <<file, sure, call, told, day, losses>>
        /\ wire' \subseteq wire /\ carried' \subseteq carried \union {t}
    BY DEF NodePays, NodeRefuses, disk
  <1>2. Transfers' \subseteq Transfers
    BY <1>1 DEF Transfers
  <1>3. TypeOK'
    BY <1>1 DEF IInv, TypeOK
  <1> QED
    BY <1>1, <1>2, <1>3 DEF IInv, FileSurvives, CallIsSaved, ReservationsLast, ToldAreKept,
       TransfersAreRecorded, PaidOnce, Knows

LEMMA PowerLossInv == ASSUME IInv, PowerLoss PROVE IInv'
  <1>1. PICK journal \in sure : file' = journal /\ sure' = {journal}
    BY DEF PowerLoss
  <1>2. call' = None /\ UNCHANGED <<wire, carried, told, day>> /\ losses' \in 0 .. MaxLosses
    BY RefundAssumption DEF PowerLoss, node, IInv, TypeOK
  <1>3. TypeOK'
    BY <1>1, <1>2 DEF IInv, TypeOK
  <1> QED
    BY <1>1, <1>2, <1>3 DEF IInv, FileSurvives, CallIsSaved, ReservationsLast, ToldAreKept,
       TransfersAreRecorded, PaidOnce, Transfers, Knows

LEMMA QuietInv ==
  ASSUME IInv, GivesUp \/ NextDay \/ UNCHANGED vars
  PROVE  IInv'
  <1>1. /\ UNCHANGED <<file, sure, wire, carried, told, losses>>
        /\ call' = None \/ call' = call
        /\ day' \in 0 .. MaxDay
    BY RefundAssumption DEF GivesUp, NextDay, vars, disk, node, IInv, TypeOK
  <1>2. TypeOK'
    BY <1>1 DEF IInv, TypeOK
  <1> QED
    BY <1>1, <1>2 DEF IInv, FileSurvives, CallIsSaved, ReservationsLast, ToldAreKept,
       TransfersAreRecorded, PaidOnce, Transfers, Knows

LEMMA NextInv == ASSUME IInv, [Next]_vars PROVE IInv'
  <1>1. ASSUME NEW i \in Id, NEW s \in Sale, NEW amount \in Amount,
               Repeat(i, s, amount) \/ Reserve(i, s, amount)
        PROVE  IInv'
    BY <1>1, RepeatInv, ReserveInv
  <1>2. CASE Cancel \/ Dispatch \/ Pay \/ Complete
    BY <1>2, CancelInv, DispatchInv, PayInv, CompleteInv
  <1>3. ASSUME NEW t \in wire, NodePays(t) \/ NodeRefuses(t)
        PROVE  IInv'
    BY <1>3, NodeInv
  <1>4. CASE PowerLoss
    BY <1>4, PowerLossInv
  <1>5. CASE GivesUp \/ NextDay \/ UNCHANGED vars
    BY <1>5, QuietInv
  <1> QED
    BY <1>1, <1>2, <1>3, <1>4, <1>5 DEF Next

LEMMA Invariance == Spec => []IInv
  <1>1. IInv /\ [Next]_vars => IInv'
    BY NextInv
  <1> QED
    BY InitInv, <1>1, PTL DEF Spec

----------------------------------------------------------------------------
(* The limits: in every journal that a power loss may leave, the refunds of a *)
(* day and those of a payment are within theirs.                              *)

Within(journal) ==
  /\ IsFiniteSet(Reserved(journal, Active))
  /\ \A d \in Nat : SumFunction([i \in OnDay(journal, d) |-> journal[i].usd]) <= STAFF_DAY_USD
  /\ \A s \in Sale :
       /\ SumFunction([i \in OfSale(journal, s) |-> journal[i].sats]) <= Sats[s]
       /\ SumFunction([i \in OfSale(journal, s) |-> journal[i].amount]) <= Price[s]

LimitsHold == \A journal \in sure : Within(journal)

(* What counts are numbers. *)
LEMMA CountsAreNat ==
  ASSUME NEW journal \in Journal
  PROVE  /\ \A i \in Reserved(journal, Active) :
              /\ journal[i] \in Reservation
              /\ journal[i].usd \in Nat /\ journal[i].sats \in Nat /\ journal[i].amount \in Nat
         /\ \A d : OnDay(journal, d) \subseteq Reserved(journal, Active)
         /\ \A s : OfSale(journal, s) \subseteq Reserved(journal, Active)
  <1>1. \A i \in Reserved(journal, Active) : journal[i] \in Reservation
    BY DEF Journal, Reserved
  <1> QED
    BY <1>1, RefundAssumption DEF Reservation, OnDay, OfSale

(* A journal in which no more counts is within the limits too. *)
LEMMA WithinPart ==
  ASSUME NEW a \in Journal, Within(a), NEW b \in Journal,
         \A i \in Reserved(b, Active) :
           /\ i \in Reserved(a, Active) /\ a[i].day = b[i].day /\ a[i].sale = b[i].sale
           /\ a[i].usd = b[i].usd /\ a[i].sats = b[i].sats /\ a[i].amount = b[i].amount
  PROVE  Within(b)
  <1>1. IsFiniteSet(Reserved(a, Active)) /\ IsFiniteSet(Reserved(b, Active))
    <2>1. Reserved(b, Active) \in SUBSET Reserved(a, Active)
      OBVIOUS
    <2> QED
      BY <2>1, FS_Subset DEF Within
  <1>2. \A d : IsFiniteSet(OnDay(a, d)) /\ OnDay(b, d) \in SUBSET OnDay(a, d)
    BY <1>1, FS_Subset DEF OnDay
  <1>3. \A s : IsFiniteSet(OfSale(a, s)) /\ OfSale(b, s) \in SUBSET OfSale(a, s)
    BY <1>1, FS_Subset DEF OfSale
  <1>4. ASSUME NEW d \in Nat
        PROVE  SumFunction([i \in OnDay(b, d) |-> b[i].usd]) <= STAFF_DAY_USD
    <2> DEFINE f == [i \in OnDay(b, d) |-> b[i].usd]
               g == [i \in OnDay(a, d) |-> a[i].usd]
    <2>1. f \in [OnDay(b, d) -> Nat] /\ g \in [OnDay(a, d) -> Nat]
      BY CountsAreNat
    <2>2. \A i \in OnDay(b, d) : f[i] <= g[i]
      BY <1>2, <2>1, CountsAreNat
    <2>3. SumFunction(g) <= STAFF_DAY_USD
      BY DEF Within
    <2> HIDE DEF f, g
    <2>4. SumFunction(f) \in Nat /\ SumFunction(g) \in Nat /\ SumFunction(f) <= SumFunction(g)
      BY <1>2, <2>1, <2>2, SumOfPart
    <2> QED
      BY <2>3, <2>4, RefundAssumption DEF f
  <1>5. ASSUME NEW s \in Sale
        PROVE  SumFunction([i \in OfSale(b, s) |-> b[i].sats]) <= Sats[s]
    <2> DEFINE f == [i \in OfSale(b, s) |-> b[i].sats]
               g == [i \in OfSale(a, s) |-> a[i].sats]
    <2>1. f \in [OfSale(b, s) -> Nat] /\ g \in [OfSale(a, s) -> Nat]
      BY CountsAreNat
    <2>2. \A i \in OfSale(b, s) : f[i] <= g[i]
      BY <1>3, <2>1, CountsAreNat
    <2>3. SumFunction(g) <= Sats[s]
      BY DEF Within
    <2> HIDE DEF f, g
    <2>4. SumFunction(f) \in Nat /\ SumFunction(g) \in Nat /\ SumFunction(f) <= SumFunction(g)
      BY <1>3, <2>1, <2>2, SumOfPart
    <2> QED
      BY <2>3, <2>4, RefundAssumption DEF f
  <1>6. ASSUME NEW s \in Sale
        PROVE  SumFunction([i \in OfSale(b, s) |-> b[i].amount]) <= Price[s]
    <2> DEFINE f == [i \in OfSale(b, s) |-> b[i].amount]
               g == [i \in OfSale(a, s) |-> a[i].amount]
    <2>1. f \in [OfSale(b, s) -> Nat] /\ g \in [OfSale(a, s) -> Nat]
      BY CountsAreNat
    <2>2. \A i \in OfSale(b, s) : f[i] <= g[i]
      BY <1>3, <2>1, CountsAreNat
    <2>3. SumFunction(g) <= Price[s]
      BY DEF Within
    <2> HIDE DEF f, g
    <2>4. SumFunction(f) \in Nat /\ SumFunction(g) \in Nat /\ SumFunction(f) <= SumFunction(g)
      BY <1>3, <2>1, <2>2, SumOfPart
    <2> QED
      BY <2>3, <2>4, RefundAssumption DEF f
  <1> QED
    BY <1>1, <1>4, <1>5, <1>6 DEF Within

(* A reservation is made when it fits, on its day and in its payment. *)
LEMMA ReserveWithin ==
  ASSUME TypeOK, Within(file), NEW i \in Id, NEW s \in Sale, NEW amount \in Amount,
         file[i] = None, NEW entry \in Reservation, entry.sale = s, entry.amount = amount,
         entry.state = "reserved", UsedUsd(entry.day) + entry.usd <= STAFF_DAY_USD,
         Fits(s, amount, entry.sats)
  PROVE  Within([file EXCEPT ![i] = entry])
  <1> DEFINE b == [file EXCEPT ![i] = entry]
             Held == Reserved(file, Active)
  <1>1. file \in Journal /\ b \in Journal /\ b[i] = entry /\ entry # None
        /\ \A j \in Id : j # i => b[j] = file[j]
    BY NothingAssumption DEF TypeOK, Journal
  <1> HIDE DEF b
  <1>2. i \notin Held /\ Reserved(b, Active) = Held \union {i} /\ IsFiniteSet(Held)
    BY <1>1 DEF Reserved, Active, Within
  <1>3. /\ \A d : OnDay(b, d) = IF d = entry.day THEN OnDay(file, d) \union {i} ELSE OnDay(file, d)
        /\ \A r : OfSale(b, r) = IF r = s THEN OfSale(file, r) \union {i} ELSE OfSale(file, r)
    <2>1. \A j \in Held : j \in Id /\ j # i /\ b[j] = file[j]
      BY <1>1, <1>2 DEF Reserved
    <2>2. ASSUME NEW d
          PROVE  OnDay(b, d) = IF d = entry.day THEN OnDay(file, d) \union {i} ELSE OnDay(file, d)
      <3>1. OnDay(b, d) = {j \in Held \union {i} : b[j].day = d}
        BY <1>2 DEF OnDay
      <3>2. OnDay(file, d) = {j \in Held : file[j].day = d}
        BY DEF OnDay
      <3>3. \A j : j \in OnDay(b, d) <=> j \in OnDay(file, d) \/ (j = i /\ entry.day = d)
        BY <1>1, <2>1, <3>1, <3>2
      <3> QED
        BY <3>3
    <2>3. ASSUME NEW r
          PROVE  OfSale(b, r) = IF r = s THEN OfSale(file, r) \union {i} ELSE OfSale(file, r)
      <3>1. OfSale(b, r) = {j \in Held \union {i} : b[j].sale = r}
        BY <1>2 DEF OfSale
      <3>2. OfSale(file, r) = {j \in Held : file[j].sale = r}
        BY DEF OfSale
      <3>3. \A j : j \in OfSale(b, r) <=> j \in OfSale(file, r) \/ (j = i /\ s = r)
        BY <1>1, <2>1, <3>1, <3>2
      <3> QED
        BY <3>3
    <2> QED
      BY <2>2, <2>3
  <1>4. /\ \A d : IsFiniteSet(OnDay(file, d)) /\ i \notin OnDay(file, d)
        /\ \A r : IsFiniteSet(OfSale(file, r)) /\ i \notin OfSale(file, r)
    BY <1>1, <1>2, CountsAreNat, FS_Subset
  <1>5. /\ \A d : \A j \in OnDay(file, d) : j \in Id /\ j # i /\ b[j] = file[j]
        /\ \A r : \A j \in OfSale(file, r) : j \in Id /\ j # i /\ b[j] = file[j]
    BY <1>1, <1>4 DEF OnDay, OfSale, Reserved
  <1>6. ASSUME NEW d \in Nat
        PROVE  SumFunction([j \in OnDay(b, d) |-> b[j].usd]) <= STAFF_DAY_USD
    <2> DEFINE f == [j \in OnDay(file, d) |-> file[j].usd]
               g == [j \in OnDay(b, d) |-> b[j].usd]
    <2>1. f \in [OnDay(file, d) -> Nat] /\ g \in [OnDay(b, d) -> Nat]
      BY <1>1, CountsAreNat
    <2>2. \A j \in OnDay(file, d) : g[j] = f[j]
      BY <1>3, <1>5
    <2>3. SumFunction(f) <= STAFF_DAY_USD
      BY DEF Within
    <2>4. CASE d # entry.day
      <3>1. g = f
        BY <1>3, <1>5, <2>4
      <3> QED
        BY <2>3, <3>1
    <2>5. CASE d = entry.day
      <3>1. g[i] = entry.usd /\ SumFunction(f) + entry.usd <= STAFF_DAY_USD
        BY <1>1, <1>3, <2>5 DEF UsedUsd
      <3>2. g \in [OnDay(file, d) \union {i} -> Nat]
        BY <1>3, <2>1, <2>5
      <3> HIDE DEF f, g
      <3>3. /\ SumFunction(f) \in Nat /\ SumFunction(g) \in Nat
            /\ SumFunction(g) <= g[i] + SumFunction(f)
        BY <1>4, <2>1, <2>2, <3>2, SumOfOneMore
      <3>4. entry.usd \in Nat
        BY DEF Reservation
      <3> QED
        BY <3>1, <3>3, <3>4, RefundAssumption DEF g
    <2> QED
      BY <2>4, <2>5
  <1>7. ASSUME NEW r \in Sale
        PROVE  SumFunction([j \in OfSale(b, r) |-> b[j].sats]) <= Sats[r]
    <2> DEFINE f == [j \in OfSale(file, r) |-> file[j].sats]
               g == [j \in OfSale(b, r) |-> b[j].sats]
    <2>1. f \in [OfSale(file, r) -> Nat] /\ g \in [OfSale(b, r) -> Nat]
      BY <1>1, CountsAreNat
    <2>2. \A j \in OfSale(file, r) : g[j] = f[j]
      BY <1>3, <1>5
    <2>3. SumFunction(f) <= Sats[r]
      BY DEF Within
    <2>4. CASE r # s
      <3>1. g = f
        BY <1>3, <1>5, <2>4
      <3> QED
        BY <2>3, <3>1
    <2>5. CASE r = s
      <3>1. g[i] = entry.sats /\ SumFunction(f) + entry.sats <= Sats[r]
        BY <1>1, <1>3, <2>5 DEF Fits
      <3>2. g \in [OfSale(file, r) \union {i} -> Nat]
        BY <1>3, <2>1, <2>5
      <3> HIDE DEF f, g
      <3>3. /\ SumFunction(f) \in Nat /\ SumFunction(g) \in Nat
            /\ SumFunction(g) <= g[i] + SumFunction(f)
        BY <1>4, <2>1, <2>2, <3>2, SumOfOneMore
      <3>4. entry.sats \in Nat
        BY DEF Reservation
      <3> QED
        BY <3>1, <3>3, <3>4, RefundAssumption DEF g
    <2> QED
      BY <2>4, <2>5
  <1>8. ASSUME NEW r \in Sale
        PROVE  SumFunction([j \in OfSale(b, r) |-> b[j].amount]) <= Price[r]
    <2> DEFINE f == [j \in OfSale(file, r) |-> file[j].amount]
               g == [j \in OfSale(b, r) |-> b[j].amount]
    <2>1. f \in [OfSale(file, r) -> Nat] /\ g \in [OfSale(b, r) -> Nat]
      BY <1>1, CountsAreNat
    <2>2. \A j \in OfSale(file, r) : g[j] = f[j]
      BY <1>3, <1>5
    <2>3. SumFunction(f) <= Price[r]
      BY DEF Within
    <2>4. CASE r # s
      <3>1. g = f
        BY <1>3, <1>5, <2>4
      <3> QED
        BY <2>3, <3>1
    <2>5. CASE r = s
      <3>1. g[i] = amount /\ SumFunction(f) + amount <= Price[r]
        BY <1>1, <1>3, <2>5 DEF Fits
      <3>2. g \in [OfSale(file, r) \union {i} -> Nat]
        BY <1>3, <2>1, <2>5
      <3> HIDE DEF f, g
      <3>3. /\ SumFunction(f) \in Nat /\ SumFunction(g) \in Nat
            /\ SumFunction(g) <= g[i] + SumFunction(f)
        BY <1>4, <2>1, <2>2, <3>2, SumOfOneMore
      <3>4. amount \in Nat
        BY RefundAssumption
      <3> QED
        BY <3>1, <3>3, <3>4, RefundAssumption DEF g
    <2> QED
      BY <2>4, <2>5
  <1>9. IsFiniteSet(Reserved(b, Active))
    BY <1>2, FS_AddElement
  <1> QED
    BY <1>6, <1>7, <1>8, <1>9 DEF Within, b

LEMMA LimitsStep == ASSUME IInv, LimitsHold, [Next]_vars PROVE LimitsHold'
  <1>1. Within(file) /\ file \in Journal /\ sure \subseteq Journal
    BY DEF LimitsHold, IInv, FileSurvives, TypeOK
  <1>2. ASSUME NEW i \in Id, NEW s \in Sale, NEW amount \in Amount, Reserve(i, s, amount)
        PROVE  LimitsHold'
    <2>1. PICK q \in Quote, d \in {day - 1, day} \intersect Nat :
            LET journal == [file EXCEPT ![i] = [sale |-> s, amount |-> amount, day |-> d,
                                                usd |-> amount * q.usd, sats |-> amount * q.sats,
                                                state |-> "reserved"]] IN
            /\ UsedUsd(d) + amount * q.usd <= STAFF_DAY_USD
            /\ Fits(s, amount, amount * q.sats)
            /\ Saved(journal) \/ NotSaved(journal)
      BY <1>2 DEF Reserve
    <2> DEFINE entry   == [sale |-> s, amount |-> amount, day |-> d, usd |-> amount * q.usd,
                           sats |-> amount * q.sats, state |-> "reserved"]
               journal == [file EXCEPT ![i] = entry]
    <2>2. q.usd \in Nat /\ q.sats \in Nat /\ amount \in Nat
      BY RefundAssumption
    <2>3. amount * q.usd \in Nat /\ amount * q.sats \in Nat
      BY <2>2, Product
    <2>4. entry \in Reservation
      BY <2>3 DEF Reservation
    <2>5. /\ entry.sale = s /\ entry.amount = amount /\ entry.state = "reserved"
          /\ UsedUsd(entry.day) + entry.usd <= STAFF_DAY_USD /\ Fits(s, amount, entry.sats)
      BY <2>1
    <2>6. sure' \subseteq sure \union {journal}
      BY <2>1 DEF Saved, NotSaved, disk
    <2>7. file[i] = None /\ TypeOK
      BY <1>2 DEF Reserve, IInv
    <2> HIDE DEF entry
    <2>8. Within(journal)
      BY <1>1, <2>4, <2>5, <2>7, ReserveWithin
    <2> QED
      BY <2>6, <2>8 DEF LimitsHold
  <1>3. ASSUME call # None, NEW state \in {"dispatching", "complete", "cancelled"},
               Saved(Recorded(call.id, state)) \/ NotSaved(Recorded(call.id, state))
        PROVE  LimitsHold'
    <2> DEFINE i == call.id
               b == Recorded(i, state)
    <2>1. /\ i \in Id /\ file[i] # None /\ i \in Reserved(file, Active)
      BY <1>3 DEF IInv, CallIsSaved, TypeOK, Call, Reserved, Active
    <2>2. /\ b \in Journal /\ \A j \in Id : j # i => b[j] = file[j]
          /\ b[i].sale = file[i].sale /\ b[i].day = file[i].day /\ b[i].usd = file[i].usd
          /\ b[i].sats = file[i].sats /\ b[i].amount = file[i].amount
      <3>1. file[i] \in Reservation
        BY <1>1, <2>1 DEF Journal
      <3>2. b[i] = [file[i] EXCEPT !.state = state]
        BY <1>1, <2>1 DEF Recorded, Journal
      <3>3. b \in Journal /\ \A j \in Id : j # i => b[j] = file[j]
        BY <2>1, RecordedFile DEF IInv
      <3> QED
        BY <3>1, <3>2, <3>3 DEF Reservation
    <2>3. sure' \subseteq sure \union {b}
      BY <1>3 DEF Saved, NotSaved, disk
    <2> HIDE DEF i, b
    <2>4. \A j \in Reserved(b, Active) :
            /\ j \in Reserved(file, Active) /\ file[j].day = b[j].day /\ file[j].sale = b[j].sale
            /\ file[j].usd = b[j].usd /\ file[j].sats = b[j].sats /\ file[j].amount = b[j].amount
      BY <2>1, <2>2 DEF Reserved
    <2>5. Within(b)
      BY <1>1, <2>2, <2>4, WithinPart
    <2> QED
      BY <2>3, <2>5 DEF LimitsHold
  <1>4. CASE sure' \subseteq sure
    BY <1>4 DEF LimitsHold
  <1>5. Cancel \/ Dispatch \/ Complete => LimitsHold'
    BY <1>3 DEF Cancel, Dispatch, Complete
  <1>6. /\ \A i \in Id, s \in Sale, amount \in Amount : Repeat(i, s, amount) => sure' \subseteq sure
        /\ Pay \/ GivesUp \/ PowerLoss \/ NextDay \/ UNCHANGED vars => sure' \subseteq sure
        /\ \A t \in wire : NodePays(t) \/ NodeRefuses(t) => sure' \subseteq sure
    BY DEF Repeat, Pay, GivesUp, PowerLoss, NextDay, NodePays, NodeRefuses, vars, disk
  <1> QED
    BY <1>2, <1>4, <1>5, <1>6 DEF Next

LEMMA LimitsInit == Init => LimitsHold
  <1> SUFFICES ASSUME Init PROVE Within(file)
    BY DEF Init, LimitsHold
  <1>1. /\ Reserved(file, Active) = {} /\ file \in Journal
    BY DEF Init, Reserved, Journal
  <1>2. \A d, s : OnDay(file, d) = {} /\ OfSale(file, s) = {}
    BY <1>1 DEF OnDay, OfSale
  <1>3. \A f : DOMAIN f = {} => SumFunction(f) = 0
    BY SumOfAll, SumOfNone
  <1>4. \A d \in Nat : SumFunction([i \in OnDay(file, d) |-> file[i].usd]) <= STAFF_DAY_USD
    <2> TAKE d \in Nat
    <2> DEFINE f == [i \in OnDay(file, d) |-> file[i].usd]
    <2>1. DOMAIN f = {}
      BY <1>2
    <2> HIDE DEF f
    <2>2. SumFunction(f) = 0
      BY <1>3, <2>1
    <2> QED
      BY <2>2, RefundAssumption DEF f
  <1>5. \A s \in Sale : SumFunction([i \in OfSale(file, s) |-> file[i].sats]) <= Sats[s]
    <2> TAKE s \in Sale
    <2> DEFINE f == [i \in OfSale(file, s) |-> file[i].sats]
    <2>1. DOMAIN f = {}
      BY <1>2
    <2> HIDE DEF f
    <2>2. SumFunction(f) = 0
      BY <1>3, <2>1
    <2> QED
      BY <2>2, RefundAssumption DEF f
  <1>6. \A s \in Sale : SumFunction([i \in OfSale(file, s) |-> file[i].amount]) <= Price[s]
    <2> TAKE s \in Sale
    <2> DEFINE f == [i \in OfSale(file, s) |-> file[i].amount]
    <2>1. DOMAIN f = {}
      BY <1>2
    <2> HIDE DEF f
    <2>2. SumFunction(f) = 0
      BY <1>3, <2>1
    <2> QED
      BY <2>2, RefundAssumption DEF f
  <1> QED
    BY <1>1, <1>4, <1>5, <1>6, FS_EmptySet DEF Within

LEMMA LimitsInvariance == Spec => []LimitsHold
  <1>1. IInv /\ LimitsHold /\ [Next]_vars => LimitsHold'
    BY LimitsStep
  <1> QED
    BY LimitsInit, Invariance, <1>1, PTL DEF Spec

(* Every transfer is one of the refunds that count, another for each. *)
LEMMA TransfersCount ==
  ASSUME IInv, LimitsHold, NEW S \in SUBSET Transfers, NEW f \in [S -> Nat],
         NEW T \in SUBSET Reserved(file, Active), NEW g \in [T -> Nat],
         \A t \in S : t.id \in T /\ f[t] <= g[t.id]
  PROVE  SumFunction(f) \in Nat /\ SumFunction(g) \in Nat /\ SumFunction(f) <= SumFunction(g)
  <1> DEFINE h == [t \in S |-> t.id]
  <1>1. IsFiniteSet(T)
    BY FS_Subset DEF LimitsHold, IInv, FileSurvives, Within
  <1>2. h \in [S -> T] /\ \A t, u \in S : h[t] = h[u] => t = u
    BY DEF IInv, PaidOnce
  <1>3. \A t \in S : f[t] \in Nat /\ f[t] <= g[h[t]]
    OBVIOUS
  <1> HIDE DEF h
  <1>4. IsFiniteSet(S) /\ SumFunctionOnSet(f, S) <= SumFunctionOnSet(g, T)
    BY <1>1, <1>2, <1>3, SumAtMost
  <1>5. SumFunctionOnSet(f, S) \in Nat /\ SumFunctionOnSet(g, T) \in Nat
    BY <1>1, <1>4, SumType
  <1> QED
    BY <1>4, <1>5, SumOfAll

----------------------------------------------------------------------------
(* Every state has its type: the journal stays one that load accepts. *)
THEOREM TypeCorrect == Spec => []TypeOK
  <1>1. IInv => TypeOK
    BY DEF IInv
  <1> QED
    BY Invariance, <1>1, PTL

(* Whatever a power loss leaves, the journal knows of every refund that may *)
(* have been paid (staff_refund_locked saves "dispatching" before pay).     *)
THEOREM RefundsAreRecorded == Spec => []TransfersAreRecorded
  <1>1. IInv => TransfersAreRecorded
    BY DEF IInv
  <1> QED
    BY Invariance, <1>1, PTL

(* A request id is paid at most once. *)
THEOREM RequestPaidOnce == Spec => []PaidOnce
  <1>1. IInv => PaidOnce
    BY DEF IInv
  <1> QED
    BY Invariance, <1>1, PTL

(* A refund reported as not sent was not sent and never will be. *)
THEOREM NotSentHolds == Spec => []NotSentIsTrue
  <1>1. IInv => NotSentIsTrue
    BY DEF IInv, ToldAreKept, NotSentIsTrue
  <1> QED
    BY Invariance, <1>1, PTL

(* What staff may have paid on a day is within the day's limit, whatever fails *)
(* and whatever a power loss undoes (used_usd).                                *)
THEOREM DayLimitHolds == Spec => []DailyLossIsBounded
  <1>1. ASSUME IInv, LimitsHold PROVE DailyLossIsBounded
    <2> SUFFICES ASSUME NEW d \in 0 .. MaxDay
                 PROVE  SumFunction([t \in {u \in Transfers : u.day = d} |-> t.usd]) <= STAFF_DAY_USD
      BY DEF DailyLossIsBounded
    <2> DEFINE S == {u \in Transfers : u.day = d}
               f == [t \in S |-> t.usd]
               g == [i \in OnDay(file, d) |-> file[i].usd]
    <2>1. d \in Nat /\ file \in Journal /\ Within(file) /\ \A t \in Transfers : t \in Transfer
      BY <1>1, RefundAssumption DEF IInv, LimitsHold, FileSurvives, TypeOK, Transfers
    <2>2. \A t \in S : t.id \in OnDay(file, d) /\ t.usd = file[t.id].usd /\ t.usd \in Nat
      BY <1>1, <2>1 DEF IInv, FileSurvives, TransfersAreRecorded, Knows, OnDay, Reserved, Active,
                        Transfer
    <2>3. f \in [S -> Nat] /\ g \in [OnDay(file, d) -> Nat]
      BY <2>1, <2>2, CountsAreNat
    <2>4. \A t \in S : t.id \in OnDay(file, d) /\ f[t] <= g[t.id]
      BY <2>2
    <2>5. SumFunction(g) <= STAFF_DAY_USD
      BY <2>1 DEF Within
    <2>6. S \in SUBSET Transfers /\ OnDay(file, d) \in SUBSET Reserved(file, Active)
      BY <2>1, CountsAreNat
    <2> HIDE DEF S, f, g
    <2>7. SumFunction(f) \in Nat /\ SumFunction(g) \in Nat /\ SumFunction(f) <= SumFunction(g)
      BY <1>1, <2>3, <2>4, <2>6, TransfersCount
    <2> QED
      BY <2>5, <2>7, RefundAssumption DEF f, S
  <1> QED
    BY <1>1, Invariance, LimitsInvariance, PTL

(* The refunds of a payment are together no more than the payment, in money of *)
(* the shop and in RVN, at whatever rates (staff_refund_locked).               *)
THEOREM RefundsFit == Spec => []RefundsFitThePayment
  <1>1. ASSUME IInv, LimitsHold PROVE RefundsFitThePayment
    <2> SUFFICES ASSUME NEW s \in Sale
                 PROVE  LET refunds == {t \in Transfers : t.sale = s} IN
                        /\ SumFunction([t \in refunds |-> t.sats]) <= Sats[s]
                        /\ SumFunction([t \in refunds |-> t.amount]) <= Price[s]
      BY DEF RefundsFitThePayment
    <2> DEFINE S  == {t \in Transfers : t.sale = s}
               T  == OfSale(file, s)
               f1 == [t \in S |-> t.sats]
               g1 == [i \in T |-> file[i].sats]
               f2 == [t \in S |-> t.amount]
               g2 == [i \in T |-> file[i].amount]
    <2>1. file \in Journal /\ Within(file) /\ \A t \in Transfers : t \in Transfer
      BY <1>1 DEF IInv, LimitsHold, FileSurvives, TypeOK, Transfers
    <2>2. \A t \in S : /\ t.id \in T /\ t.sats = file[t.id].sats /\ t.amount = file[t.id].amount
                       /\ t.sats \in Nat /\ t.amount \in Nat
      BY <1>1, <2>1, RefundAssumption DEF IInv, FileSurvives, TransfersAreRecorded, Knows, OfSale,
                        Reserved, Active, Transfer
    <2>3. f1 \in [S -> Nat] /\ g1 \in [T -> Nat] /\ f2 \in [S -> Nat] /\ g2 \in [T -> Nat]
      BY <2>1, <2>2, CountsAreNat
    <2>4. \A t \in S : t.id \in T /\ f1[t] <= g1[t.id] /\ f2[t] <= g2[t.id]
      BY <2>2
    <2>5. SumFunction(g1) <= Sats[s] /\ SumFunction(g2) <= Price[s]
      BY <2>1 DEF Within
    <2>6. S \in SUBSET Transfers /\ T \in SUBSET Reserved(file, Active)
      BY <2>1, CountsAreNat
    <2> HIDE DEF S, T, f1, f2, g1, g2
    <2>7. SumFunction(f1) \in Nat /\ SumFunction(g1) \in Nat /\ SumFunction(f1) <= SumFunction(g1)
      BY <1>1, <2>3, <2>4, <2>6, TransfersCount
    <2>8. SumFunction(f2) \in Nat /\ SumFunction(g2) \in Nat /\ SumFunction(f2) <= SumFunction(g2)
      BY <1>1, <2>3, <2>4, <2>6, TransfersCount
    <2> QED
      BY <2>5, <2>7, <2>8, RefundAssumption DEF f1, f2, S
  <1> QED
    BY <1>1, Invariance, LimitsInvariance, PTL
=============================================================================
