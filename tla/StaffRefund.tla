---------------------------- MODULE StaffRefund ----------------------------
(***************************************************************************)
(* Refunds that staff may make within limits (refund.rs, from STAFF_GATE). *)
(*                                                                         *)
(* STAFF_GATE lets one call at a time through.  A call reserves the refund *)
(* in the journal, verifies the payer, records that it dispatches, pays,   *)
(* and records that it is complete; each record is saved before the next   *)
(* step.  A call may end at any wait, as its client goes away, and leave a *)
(* transfer with the node.  A save writes a new file, renames it over the  *)
(* journal and syncs the directory; when it fails the journal is the old   *)
(* or the new one, and a power loss may still undo the rename.             *)
(***************************************************************************)
EXTENDS Integers, FiniteSets, Functions

CONSTANTS
  Id,              \* request ids of the screen, which may repeat a request
  Sale,            \* payments that may be refunded
  Price, Sats,     \* what a sale cost, in money of the shop and in RVN
  Amount,          \* amounts staff may ask for: none above the limit of one refund
  Quote,           \* rates: [usd, sats], of one unit of the shop's money
  STAFF_DAY_USD,
  None,
  MaxDay, MaxLosses   \* bounds of the instance

ASSUME RefundAssumption ==
  /\ {Price, Sats} \subseteq [Sale -> Nat] /\ Amount \subseteq Nat \ {0}
  /\ Quote \subseteq [usd : Nat \ {0}, sats : Nat \ {0}]
  /\ {STAFF_DAY_USD, MaxDay, MaxLosses} \subseteq Nat

Reservation == [sale : Sale, amount : Amount, usd : Nat, sats : Nat, day : Nat,
                state : {"reserved", "dispatching", "complete", "cancelled"}]
Journal  == [Id -> Reservation \union {None}]
Call     == [id : Id, pc : {"verify", "pay", "wait"}]
Transfer == [id : Id, n : Nat, sale : Sale, amount : Amount, usd : Nat, sats : Nat, day : Nat]

ASSUME NothingAssumption == None \notin Reservation \union Call

VARIABLES
  file,      \* staff-refund-reservations.json
  sure,      \* what a power loss may leave of it
  call,      \* the call that holds STAFF_GATE, after its first save
  wire,      \* transfers the node has been asked and has not carried out
  carried,   \* transfers the node has carried out, for good
  told,      \* requests answered with refund_outcome "not_sent"
  day, losses

disk == <<file, sure>>
node == <<wire, carried>>
vars == <<disk, call, node, told, day, losses>>

TypeOK == /\ file \in Journal /\ sure \subseteq Journal
          /\ call \in Call \union {None}
          /\ {wire, carried} \subseteq SUBSET Transfer
          /\ told \subseteq Id
          /\ day \in 0 .. MaxDay /\ losses \in 0 .. MaxLosses

Init == /\ file = [i \in Id |-> None] /\ sure = {file}
        /\ call = None /\ wire = {} /\ carried = {} /\ told = {}
        /\ day = 0 /\ losses = 0

----------------------------------------------------------------------------
(* The journal *)

\* Mutant: the directory is not synced.
SavedUnsynced(journal) == file' = journal /\ sure' = sure \union {journal}

\* FileJournal::save with the directory synced, which it is on Unix only.
Saved(journal) == file' = journal /\ sure' = {journal}

\* It reports an error, before or after the rename.
NotSaved(journal) == \/ UNCHANGED disk
                     \/ file' = journal /\ sure' = sure \union {journal}

Recorded(i, state) == [file EXCEPT ![i].state = state]

Reserved(journal, states) == {i \in Id : journal[i] # None /\ journal[i].state \in states}

Active == {"reserved", "dispatching", "complete"}

\* The refunds that count for a day, and for a payment.
OnDay(journal, d) == {i \in Reserved(journal, Active) : journal[i].day = d}
OfSale(journal, s) == {i \in Reserved(journal, Active) : journal[i].sale = s}

\* Mutant: a refund only counts once it is known to have been paid.
UsedUsdComplete(d) ==
  SumFunction([i \in OnDay(file, d) \intersect Reserved(file, {"complete"}) |-> file[i].usd])

UsedUsd(d) == SumFunction([i \in OnDay(file, d) |-> file[i].usd])

\* Mutant: what is left of a payment is only counted in money of the shop.
FitsMoney(s, amount, sats) ==
  SumFunction([i \in OfSale(file, s) |-> file[i].amount]) + amount <= Price[s]

\* What is left of a payment, in money of the shop and in RVN.
Fits(s, amount, sats) ==
  /\ SumFunction([i \in OfSale(file, s) |-> file[i].sats]) + sats <= Sats[s]
  /\ SumFunction([i \in OfSale(file, s) |-> file[i].amount]) + amount <= Price[s]

----------------------------------------------------------------------------
(* A call *)

\* prior_request: a request of that id is in the journal.
Repeat(i, s, amount) ==
  /\ call = None /\ file[i] # None
  /\ told' = IF file[i].state = "cancelled" /\ file[i].sale = s /\ file[i].amount = amount
             THEN told \union {i} ELSE told
  /\ UNCHANGED <<disk, call, node, day, losses>>

\* Until the reservation is saved a refusal changes nothing.  The day was taken
\* before the wait for STAFF_GATE.
Reserve(i, s, amount) ==
  /\ call = None /\ file[i] = None
  /\ \A j \in Reserved(file, {"reserved", "dispatching"}) : file[j].sale # s
  /\ \E q \in Quote, d \in {day - 1, day} \intersect Nat :
       LET journal == [file EXCEPT ![i] = [sale |-> s, amount |-> amount, day |-> d,
                                           usd |-> amount * q.usd, sats |-> amount * q.sats,
                                           state |-> "reserved"]] IN
       /\ UsedUsd(d) + amount * q.usd <= STAFF_DAY_USD
       /\ Fits(s, amount, amount * q.sats)
       /\ \/ Saved(journal) /\ call' = [id |-> i, pc |-> "verify"]
          \/ NotSaved(journal) /\ call' = None
  /\ UNCHANGED <<node, told, day, losses>>

\* The recipient is not who paid, or that cannot be told.
Cancel == /\ call # None /\ call.pc = "verify"
          /\ \/ Saved(Recorded(call.id, "cancelled")) /\ told' = told \union {call.id}
             \/ NotSaved(Recorded(call.id, "cancelled")) /\ UNCHANGED told
          /\ call' = None
          /\ UNCHANGED <<node, day, losses>>

Dispatch == /\ call # None /\ call.pc = "verify"
            /\ \/ Saved(Recorded(call.id, "dispatching")) /\ call' = [call EXCEPT !.pc = "pay"]
               \/ NotSaved(Recorded(call.id, "dispatching")) /\ call' = None
            /\ UNCHANGED <<node, told, day, losses>>

Of(i) == {t \in wire \union carried : t.id = i}

\* refund: sendtoaddress, after what it checks first.
Pay == /\ call # None /\ call.pc = "pay"
       /\ LET r == file[call.id] IN
          wire' = wire \union {[id |-> call.id, n |-> Cardinality(Of(call.id)), sale |-> r.sale,
                                amount |-> r.amount, usd |-> r.usd, sats |-> r.sats,
                                day |-> r.day]}
       /\ call' = [call EXCEPT !.pc = "wait"]
       /\ UNCHANGED <<disk, carried, told, day, losses>>

NodePays(t) == /\ wire' = wire \ {t} /\ carried' = carried \union {t}
               /\ UNCHANGED <<disk, call, told, day, losses>>

NodeRefuses(t) == /\ wire' = wire \ {t}
                  /\ UNCHANGED <<disk, call, carried, told, day, losses>>

Complete == /\ call # None /\ call.pc = "wait" /\ \E t \in carried : t.id = call.id
            /\ LET journal == Recorded(call.id, "complete") IN Saved(journal) \/ NotSaved(journal)
            /\ call' = None
            /\ UNCHANGED <<node, told, day, losses>>

\* Mutant: an error of the payment cancels the reservation.
GivesUpCancelling == /\ call # None
                     /\ IF call.pc = "wait"
                        THEN /\ Saved(Recorded(call.id, "cancelled"))
                             /\ told' = told \union {call.id}
                        ELSE UNCHANGED <<disk, told>>
                     /\ call' = None
                     /\ UNCHANGED <<node, day, losses>>

\* An error of the payment, or the end of the call or of the process at any wait:
\* the journal stays as it is.
GivesUp == /\ call # None /\ call' = None
           /\ UNCHANGED <<disk, node, told, day, losses>>

PowerLoss == /\ losses < MaxLosses /\ losses' = losses + 1
             /\ \E journal \in sure : file' = journal /\ sure' = {journal}
             /\ call' = None
             /\ UNCHANGED <<node, told, day>>

NextDay == /\ day < MaxDay /\ day' = day + 1
           /\ UNCHANGED <<disk, call, node, told, losses>>

----------------------------------------------------------------------------
Next == \/ \E i \in Id, s \in Sale, amount \in Amount :
             Repeat(i, s, amount) \/ Reserve(i, s, amount)
        \/ Cancel \/ Dispatch \/ Pay \/ Complete \/ GivesUp
        \/ \E t \in wire : NodePays(t) \/ NodeRefuses(t)
        \/ PowerLoss \/ NextDay

Spec == Init /\ [][Next]_vars

----------------------------------------------------------------------------
(* Properties *)

Transfers == wire \union carried

\* Staff who are told that a refund was not sent may make it anew: it was not
\* sent and will not be.
NotSentIsTrue == \A t \in Transfers : t.id \notin told

\* A request id is paid at most once, whatever fails and however often it is
\* repeated.
PaidOnce == \A t, u \in Transfers : t.id = u.id => t = u

\* What staff may have paid is never more than the limit of the day they were let
\* in: the limit is what the shop can lose.
DailyLossIsBounded ==
  \A d \in 0 .. MaxDay :
    SumFunction([t \in {u \in Transfers : u.day = d} |-> t.usd]) <= STAFF_DAY_USD

\* The refunds of a payment are together no more than the payment, at whatever
\* rates they were made.
RefundsFitThePayment ==
  \A s \in Sale : LET refunds == {t \in Transfers : t.sale = s} IN
    /\ SumFunction([t \in refunds |-> t.sats]) <= Sats[s]
    /\ SumFunction([t \in refunds |-> t.amount]) <= Price[s]

\* Whatever a power loss leaves, the journal knows of every refund that may have
\* been paid, with its sums.
Knows(journal, t) ==
  /\ journal[t.id] # None /\ journal[t.id].state \in {"dispatching", "complete"}
  /\ journal[t.id].sale = t.sale /\ journal[t.id].day = t.day
  /\ journal[t.id].usd = t.usd /\ journal[t.id].sats = t.sats
  /\ journal[t.id].amount = t.amount
TransfersAreRecorded == \A t \in Transfers : \A journal \in sure : Knows(journal, t)

----------------------------------------------------------------------------
(* The inductive invariant *)

\* The journal that is read is one a power loss may leave.
FileSurvives == file \in sure

\* The step a call is at is on the disk, and nothing is paid before "wait".
CallIsSaved ==
  call # None =>
    /\ sure = {file} /\ file[call.id] # None /\ call.id \notin told
    /\ file[call.id].state = IF call.pc = "verify" THEN "reserved" ELSE "dispatching"
    /\ call.pc # "wait" => \A t \in Transfers : t.id # call.id

\* A reservation that has gone on from "reserved" cannot be lost any more.
ReservationsLast ==
  \A i \in Id : (\E journal \in sure : journal[i] # None /\ journal[i].state # "reserved")
                => \A journal \in sure : journal[i] # None

\* What staff were told was not sent stays in the journal, and unpaid.
ToldAreKept == \A i \in told : /\ \A journal \in sure : journal[i] # None
                              /\ \A t \in Transfers : t.id # i

IInv == /\ TypeOK /\ FileSurvives /\ CallIsSaved /\ ReservationsLast /\ ToldAreKept
        /\ TransfersAreRecorded /\ PaidOnce
=============================================================================
