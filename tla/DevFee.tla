------------------------------- MODULE DevFee -------------------------------
(***************************************************************************)
(* The developer's share of sales (devfee.rs): recorded in devfee.json     *)
(* when a payment is confirmed, reduced when a sale is refunded, and sent  *)
(* by the owner's button or by a timer over the "devfee" lane of the       *)
(* payout journal.  Reading, changing and writing the ledger is one step   *)
(* under LEDGER_LOCK; a payment holds only PAYING while it waits for the   *)
(* node.  Each payment has a new id, so that the lane's marker, which      *)
(* nothing but complete removes, is all that stops another one.  The       *)
(* ledger is readable and shorter than the 5000 entries it is cut to.      *)
(***************************************************************************)
EXTENDS Integers, FiniteSets, FiniteSetsExt, Functions

CONSTANTS
  Sale, Fee,      \* sales, and the developer's share of each
  Back,            \* shares that refunds give back
  Caller,          \* who may call fee_pay: the button, the timer
  Least, Most,     \* what is sent at once: 0.01 to 1000 RVN
  NoCaller,        \* nobody
  MaxLosses        \* bound of the instance

ASSUME FeeAssumption == /\ Fee \in [Sale -> Nat \ {0}] /\ Back \subseteq Nat \ {0}
                        /\ {Least, Most, MaxLosses} \subseteq Nat /\ 0 < Least
                        /\ NoCaller \notin Caller

\* devfee.json: owed, sent_total, and of the history the orders and the credits.
Ledger   == [owed : Nat, sent_total : Nat, orders : SUBSET Sale, back : Nat]
Empty    == [owed |-> 0, sent_total |-> 0, orders |-> {}, back |-> 0]
Transfer == [n : Nat, amount : Nat]

VARIABLES
  devfee,    \* devfee.json
  sure,      \* what a power loss may leave of it
  marker,    \* the lane's marker: "none", "set", or "loose": removed, but not for sure
  PAYING,    \* who holds the flag
  pc, owed,  \* where each caller is, and what it has read
  asked,     \* the number of transfers asked for; the last one is the one awaited
  wire,      \* transfers the node has been asked and has not carried out
  carried,   \* transfers the node has carried out, for good
  recorded,  \* orders whose share was ever written down
  credited, tooLate,   \* what refunds were told was given back, and too late
  losses

stored == <<devfee, sure>>
call == <<PAYING, pc, owed>>
node == <<asked, wire, carried>>
tale == <<recorded, credited, tooLate>>
feeVars == <<stored, marker, call, node, tale, losses>>

Labels == {"idle", "begin", "pay", "wait", "book", "complete"}

FeeTypeOK == /\ devfee \in Ledger /\ sure \subseteq Ledger
             /\ marker \in {"none", "set", "loose"}
             /\ PAYING \in Caller \union {NoCaller}
             /\ pc \in [Caller -> Labels] /\ owed \in [Caller -> Nat]
             /\ asked \in Nat /\ {wire, carried} \subseteq SUBSET Transfer
             /\ recorded \subseteq Sale /\ {credited, tooLate} \subseteq Nat
             /\ losses \in 0 .. MaxLosses

FeeInit == /\ devfee = Empty /\ sure = {Empty} /\ marker = "none"
           /\ PAYING = NoCaller /\ pc = [c \in Caller |-> "idle"] /\ owed = [c \in Caller |-> 0]
           /\ asked = 0 /\ wire = {} /\ carried = {}
           /\ recorded = {} /\ credited = 0 /\ tooLate = 0 /\ losses = 0

----------------------------------------------------------------------------
(* The ledger *)

\* atomic_write, which the callers may hear fails before or after the rename.
Written(ledger)    == devfee' = ledger /\ sure' = {ledger}
NotWritten(ledger) == \/ UNCHANGED stored
                      \/ devfee' = ledger /\ sure' = sure \union {ledger}

Add(o) == [devfee EXCEPT !.owed = @ + Fee[o], !.orders = @ \union {o}]

\* fee_pay holds LEDGER_LOCK from the ledger's change to the end of complete.
LEDGER_LOCK == \A c \in Caller : pc[c] # "complete"

\* accrue: the price was asked before the lock.  A sale that is seen again is
\* left alone, and nobody hears of a failure.
Accrue(o) ==
  \/ o \in devfee.orders /\ UNCHANGED feeVars
  \/ /\ o \notin devfee.orders
     /\ LEDGER_LOCK
     /\ Written(Add(o)) \/ NotWritten(Add(o))
     /\ recorded' = recorded \union devfee'.orders
     /\ UNCHANGED <<marker, call, node, credited, tooLate, losses>>

\* A payment that may have left without being in the ledger.
InDoubt == PAYING # NoCaller \/ marker = "set"

\* refund_credit: never more than is owed; the refund is told what was given back.
RefundCredit(back) ==
  /\ LEDGER_LOCK /\ devfee.owed > 0
  /\ LET given  == Min({back, devfee.owed})
         ledger == [devfee EXCEPT !.owed = @ - given, !.back = @ + given] IN
       \/ /\ Written(ledger)
          /\ credited' = credited + given
          /\ tooLate' = IF InDoubt THEN tooLate + given ELSE tooLate
       \/ NotWritten(ledger) /\ UNCHANGED <<credited, tooLate>>
  /\ UNCHANGED <<marker, call, node, recorded, losses>>

----------------------------------------------------------------------------
(* fee_pay *)

Goto(c, label) == pc' = [pc EXCEPT ![c] = label] /\ UNCHANGED <<PAYING, owed>>

\* The call returns, and PayGuard's Drop clears the flag.
Return(c) == /\ pc' = [pc EXCEPT ![c] = "idle"] /\ PAYING' = NoCaller
             /\ owed' = [owed EXCEPT ![c] = 0]

Payable(sum) == sum \in Least .. Most

\* Mutant: the flag is not looked at.
StartOverlapping(c) == /\ pc[c] = "idle" /\ Payable(devfee.owed)
                       /\ PAYING' = c
                       /\ owed' = [owed EXCEPT ![c] = devfee.owed]
                       /\ pc' = [pc EXCEPT ![c] = "begin"]
                       /\ UNCHANGED <<stored, marker, node, tale, losses>>

Start(c) == /\ pc[c] = "idle" /\ PAYING = NoCaller /\ Payable(devfee.owed)
            /\ PAYING' = c
            /\ owed' = [owed EXCEPT ![c] = devfee.owed]
            /\ pc' = [pc EXCEPT ![c] = "begin"]
            /\ UNCHANGED <<stored, marker, node, tale, losses>>

BeginPayout(c) == /\ pc[c] = "begin" /\ marker # "set"
                  /\ marker' = "set"
                  /\ Goto(c, "pay")
                  /\ UNCHANGED <<stored, node, tale, losses>>

\* Mutant: the flag is only cleared by a call that ends well.
BeginFailsHolding(c) == /\ pc[c] = "begin"
                        /\ marker' \in {marker, "set"}
                        /\ pc' = [pc EXCEPT ![c] = "idle"]
                        /\ owed' = [owed EXCEPT ![c] = 0]
                        /\ UNCHANGED <<stored, PAYING, node, tale, losses>>

\* The lane is blocked, or begin fails with or without leaving a marker.
BeginFails(c) == /\ pc[c] = "begin"
                 /\ marker' \in {marker, "set"}
                 /\ Return(c)
                 /\ UNCHANGED <<stored, node, tale, losses>>

CallNode(c) == /\ pc[c] = "pay"
               /\ asked' = asked + 1
               /\ wire' = wire \union {[n |-> asked', amount |-> owed[c]]}
               /\ Goto(c, "wait")
               /\ UNCHANGED <<stored, marker, carried, tale, losses>>

NodePays(t) == /\ wire' = wire \ {t} /\ carried' = carried \union {t}
               /\ UNCHANGED <<stored, marker, call, asked, tale, losses>>

NodeRefuses(t) == /\ wire' = wire \ {t}
                  /\ UNCHANGED <<stored, marker, call, asked, carried, tale, losses>>

Answered(c) == /\ pc[c] = "wait" /\ [n |-> asked, amount |-> owed[c]] \in carried
               /\ Goto(c, "book")
               /\ UNCHANGED <<stored, marker, node, tale, losses>>

\* Mutant: what is owed is cleared.
BookAll(c) ==
  /\ pc[c] = "book"
  /\ LET ledger == [devfee EXCEPT !.owed = 0, !.sent_total = @ + owed[c]] IN
       \/ Written(ledger) /\ Goto(c, "complete")
       \/ NotWritten(ledger) /\ Return(c)
  /\ UNCHANGED <<marker, node, tale, losses>>

\* Mutant: the payout is completed although the ledger was not written.
BookAnyway(c) ==
  /\ pc[c] = "book"
  /\ LET ledger == [devfee EXCEPT !.owed = Max({@ - owed[c], 0}), !.sent_total = @ + owed[c]] IN
       Written(ledger) \/ NotWritten(ledger)
  /\ Goto(c, "complete")
  /\ UNCHANGED <<marker, node, tale, losses>>

\* The transaction has left: what was sent is taken off what is owed by now.
Book(c) ==
  /\ pc[c] = "book"
  /\ LET ledger == [devfee EXCEPT !.owed = Max({@ - owed[c], 0}), !.sent_total = @ + owed[c]] IN
       \/ Written(ledger) /\ Goto(c, "complete")
       \/ NotWritten(ledger) /\ Return(c)
  /\ UNCHANGED <<marker, node, tale, losses>>

\* complete: the receipt and the removal of the marker, both of which may fail.
Complete(c) == /\ pc[c] = "complete"
               /\ marker' \in {"none", "loose", "set"}
               /\ Return(c)
               /\ UNCHANGED <<stored, node, tale, losses>>

\* A refusal, a lost answer, or no transaction id: the marker stays.
GivesUp(c) == /\ pc[c] = "wait"
              /\ Return(c)
              /\ UNCHANGED <<stored, marker, node, tale, losses>>

----------------------------------------------------------------------------
(* The process or the machine stops *)

NoCall == PAYING' = NoCaller /\ pc' = [c \in Caller |-> "idle"] /\ owed' = [c \in Caller |-> 0]

Crash == /\ PAYING # NoCaller /\ NoCall
         /\ UNCHANGED <<stored, marker, node, tale, losses>>

PowerLoss == /\ losses < MaxLosses /\ losses' = losses + 1
             /\ \E ledger \in sure : devfee' = ledger /\ sure' = {ledger}
             /\ marker' \in IF marker = "loose" THEN {"none", "set"} ELSE {marker}
             /\ NoCall
             /\ UNCHANGED <<node, tale>>

----------------------------------------------------------------------------
Step(c) == BeginPayout(c) \/ BeginFails(c) \/ CallNode(c) \/ Answered(c) \/ GivesUp(c)
             \/ Book(c) \/ Complete(c)

FeeNext == \/ \E o \in Sale : Accrue(o)
           \/ \E back \in Back : RefundCredit(back)
           \/ \E c \in Caller : Start(c) \/ Step(c)
           \/ \E t \in wire : NodePays(t) \/ NodeRefuses(t)
           \/ Crash \/ PowerLoss

FeeSpec == FeeInit /\ [][FeeNext]_feeVars

\* start_auto_pay looks every 3 minutes and finds the wallet unlocked sooner or
\* later, a call ends, and a begin that could succeed does so in the end.
Fairness == \A c \in Caller : /\ WF_feeVars(Start(c)) /\ WF_feeVars(Step(c))
                               /\ SF_feeVars(BeginPayout(c))
FairFeeSpec == FeeSpec /\ Fairness

----------------------------------------------------------------------------
(* Properties *)

Sum(transfers) == SumFunction([t \in transfers |-> t.amount])
Fees(orders)   == SumFunctionOnSet(Fee, orders)

\* The developer never gets more than the shares of the sales that were recorded,
\* less what refunds were told was given back; a credit made while a payment is
\* under way or in doubt may come too late.
NeverOverpaid == Sum(wire \union carried) + credited <= Fees(recorded) + tooLate

\* "What is written down is not erased": in whatever ledger a power loss leaves,
\* the share of each of its sales is still owed, was given back, or has left.
NothingIsErased ==
  \A ledger \in sure : ledger.owed + ledger.back + Sum(carried) >= Fees(ledger.orders)

\* When the lane is free no payment is in doubt, and every ledger a power loss may
\* leave has the sum of all that has left.
FreeLaneIsBooked ==
  marker # "set" => /\ wire = {}
                    /\ \A ledger \in sure : ledger.sent_total = Sum(carried)

\* What is owed leaves without a person, unless a payment in doubt blocks the lane
\* or so much has piled up that fee_pay does not send it any more.
Blocked == marker = "set" /\ PAYING = NoCaller
WhatIsOwedLeaves == Payable(devfee.owed) ~> ~Payable(devfee.owed) \/ Blocked
----------------------------------------------------------------------------
(***************************************************************************)
(* The inductive invariant behind the first three.                         *)
(***************************************************************************)

\* What is summed up is finite, and a transfer has a number of its own.
Countable == /\ IsFiniteSet(recorded) /\ \A ledger \in sure : ledger.orders \subseteq recorded
             /\ IsFiniteSet(wire) /\ IsFiniteSet(carried) /\ wire \intersect carried = {}
             /\ \A t \in wire \union carried : t.n <= asked

\* The flag is held by the one call there is, which has set the marker before it
\* asks the node.
OneCall == /\ devfee \in sure
           /\ \A c \in Caller : pc[c] # "idle" <=> PAYING = c
           /\ \A c \in Caller : pc[c] \in {"pay", "wait", "book", "complete"} => marker = "set"

\* What has left is in every ledger, but for the transfer that is awaited.
Awaited(c) == [n |-> asked, amount |-> owed[c]]
SentIsBooked ==
  /\ marker # "set" \/ (\E c \in Caller : pc[c] \in {"pay", "complete"}) =>
       wire = {} /\ \A ledger \in sure : ledger.sent_total = Sum(carried)
  /\ \A c \in Caller : pc[c] \in {"wait", "book"} =>
       /\ wire \subseteq {Awaited(c)} /\ (pc[c] = "book" => Awaited(c) \in carried)
       /\ \A ledger \in sure : ledger.sent_total = Sum(carried \ {Awaited(c)})

\* A ledger accounts for its sales, and books nothing that has not left.
Balanced == \A ledger \in sure : /\ ledger.owed + ledger.back + ledger.sent_total >= Fees(ledger.orders)
                                 /\ ledger.sent_total <= Sum(carried)

\* Unless the lane is blocked for good a ledger owes no more than its sales leave,
\* and neither does what a call has read.
Underway == {"pay", "wait", "book"}
OwedIsOpen ==
  /\ marker # "set" \/ (\E c \in Caller : pc[c] \in Underway \union {"complete"}) =>
       \A ledger \in sure :
         ledger.owed + ledger.sent_total + credited <= Fees(ledger.orders) + tooLate
  /\ \A c \in Caller : (pc[c] = "begin" /\ marker # "set") \/ pc[c] \in Underway =>
       owed[c] + devfee.sent_total + credited <= Fees(devfee.orders) + tooLate

FeeIInv == /\ FeeTypeOK /\ Countable /\ OneCall /\ SentIsBooked /\ Balanced /\ OwedIsOpen
           /\ NeverOverpaid
=============================================================================
