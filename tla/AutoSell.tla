------------------------------ MODULE AutoSell ------------------------------
(***************************************************************************)
(* Unattended selling (auto.rs) of one listed asset.  A timer of the       *)
(* screen starts a round every 30 s (autoRound): it snapshots the claimed  *)
(* orders that are not marked sent, reads the wallet's recent payments,    *)
(* picks the ones to fill, and transfers the asset for each of them.  A    *)
(* transfer may take 180 s, so rounds may overlap.  An order is known by   *)
(* the payment address made for it; FILLED remembers the ones filled, in   *)
(* memory and in fills.json.  Nobody holds its lock from the read to the   *)
(* write: a mark is a copy taken, edited, written back and saved, and two  *)
(* of them may overlap.                                                    *)
(***************************************************************************)
EXTENDS Integers, FiniteSets

CONSTANTS
  Claim,             \* claims of buyers, each with an address of its own
  Qty,               \* units of the asset an order takes
  Cap,               \* daily_cap of the listing, in units
  Round,             \* rounds that can be under way at the same time, numbered
  Installments,      \* payments a buyer may make to the order's address
  Deepest,           \* how deep payments get in this instance, a level of Depth
  Nothing,           \* no payment, no order in hand
  \* Bounds of the instance.  A mishap is a transfer that fails or is not answered,
  \* a save that fails, or a payment that leaves the last 200 rows.
  MaxPayments, MaxTransfers, MaxMishaps, MaxCrashes

\* Confirmations, as far as the policy tells them apart: none, 1, 3, 12 or more.
Depth == 0 .. 3

Deposit == Claim \X (1 .. Installments)

ASSUME SellingAssumption ==
  /\ Qty \in [Claim -> Nat \ {0}] /\ Deepest \in Depth /\ Round \subseteq Nat
  /\ {Cap, Installments, MaxPayments, MaxTransfers, MaxMishaps, MaxCrashes} \subseteq Nat

\* What the wallet reports of a payment, and whether it is one of its last 200 rows.
WalletRow  == [enough : BOOLEAN, depth : Depth, recent : BOOLEAN]
\* A transfer by its number; 0 before it is asked for.
Transfer == [call : 0 .. MaxTransfers, order : Claim]

ASSUME NoTransferAssumption == Nothing \notin Transfer \union WalletRow

VARIABLES
  pays,       \* what the wallet reports of each payment
  loaded,     \* FILLED is Some: fills.json has been read
  filled,     \* FILLED: orders taken for filled (what it will be, until loaded)
  fillsFile,  \* fills.json
  listed,     \* ServerState.offers: the asset is on sale in this process
  sent,       \* ServerState.sent: orders the page shows as sent
  sentToday,  \* SENT_TODAY: units this process counts as sent today
  at,         \* where each round is
  offers,     \* the claims a round still has to look for
  queue,      \* need_wallet: the payments a round still has to fill
  current,    \* the order a round has in hand, with its transfer
  copy,       \* the copy of FILLED a round is about to write back
  done,       \* the orders a round has sent and not handed back
  held,       \* transfers asked of the node and not carried out
  carried,    \* transfers the node has carried out, for good
  doubt,      \* orders with an unanswered transfer or an unsaved mark
  again,      \* orders a round took although one had marked or was marking them
  lost,       \* orders whose mark was written over by a copy older than it
  revived,    \* orders marked by a copy older than the withdrawal of their mark
  stopped,    \* orders marked in fills.json when a process died
  payments, calls, mishaps, crashes

wallet   == <<pays, carried>>
shop     == <<listed, sent, sentToday>>
memory   == <<loaded, filled>>
rounds   == <<at, offers, queue, current, copy, done>>
ghosts   == <<doubt, again, lost, revived, stopped>>
counts   == <<payments, calls, mishaps, crashes>>
autoVars == <<wallet, shop, memory, fillsFile, rounds, held, ghosts, counts>>

Marking  == {"mark", "marked"}       \* mark_filled: copied, then written to memory
Freeing  == {"free", "freed"}        \* unmark_filled, the same
Telling  == {"tell", "told"}         \* mark_filled, of mark_sent
Filling  == Marking \union {"call"} \union Freeing

AutoTypeOK ==
  /\ pays \in [Deposit -> WalletRow \union {Nothing}]
  /\ {filled, fillsFile, sent, doubt, again, lost, revived, stopped} \subseteq SUBSET Claim
  /\ listed \in BOOLEAN /\ loaded \in BOOLEAN /\ sentToday \in Nat
  /\ at \in [Round -> {"idle", "list", "loading", "wallet", "send"} \union Filling \union Telling]
  /\ offers \in [Round -> SUBSET Claim]
  /\ queue \in [Round -> SUBSET Deposit]
  /\ current \in [Round -> Transfer \union {Nothing}]
  /\ \A r \in Round : at[r] \in Filling \union Telling <=> current[r] # Nothing
  /\ copy \in [Round -> SUBSET Claim] /\ done \in [Round -> SUBSET Claim]
  /\ held \subseteq Transfer /\ carried \subseteq Transfer
  /\ payments \in 0 .. MaxPayments /\ calls \in 0 .. MaxTransfers
  /\ mishaps \in 0 .. MaxMishaps /\ crashes \in 0 .. MaxCrashes

\* Buyers may have paid before the process first starts, and an instance may start
\* with some of its bounds used up.
AutoInit == /\ \E paid \in SUBSET Deposit :
                 pays = [p \in Deposit |->
                           IF p \in paid THEN [enough |-> TRUE, depth |-> 1, recent |-> TRUE]
                                        ELSE Nothing]
            /\ loaded = FALSE /\ filled = {} /\ fillsFile = {}
            /\ listed = TRUE /\ sent = {} /\ sentToday = 0
            /\ at = [r \in Round |-> "idle"]
            /\ offers = [r \in Round |-> {}]
            /\ queue = [r \in Round |-> {}]
            /\ current = [r \in Round |-> Nothing]
            /\ copy = [r \in Round |-> {}]
            /\ done = [r \in Round |-> {}]
            /\ held = {} /\ carried = {}
            /\ doubt = {} /\ again = {} /\ lost = {} /\ revived = {} /\ stopped = {}
            /\ payments \in 0 .. MaxPayments /\ calls = 0
            /\ mishaps \in 0 .. MaxMishaps /\ crashes \in 0 .. MaxCrashes

----------------------------------------------------------------------------
(* The buyer and the chain *)

Row(p, payment) == /\ pays' = [pays EXCEPT ![p] = payment]
                   /\ UNCHANGED <<carried, shop, memory, fillsFile, rounds, held, ghosts, calls,
                                  crashes>>

Pay(p) == /\ pays[p] = Nothing
          /\ payments < MaxPayments /\ payments' = payments + 1
          /\ UNCHANGED mishaps
          /\ \E enough \in BOOLEAN : Row(p, [enough |-> enough, depth |-> 0, recent |-> TRUE])

Confirm(p) == /\ pays[p] # Nothing /\ pays[p].depth < Deepest
              /\ Row(p, [pays[p] EXCEPT !.depth = @ + 1]) /\ UNCHANGED <<payments, mishaps>>

\* An unconfirmed payment can still be replaced by its sender.
Replace(p) == /\ pays[p] # Nothing /\ pays[p].depth = 0
              /\ Row(p, Nothing) /\ UNCHANGED <<payments, mishaps>>

\* 200 later rows of the wallet push the payment out of what a round reads.
Scroll(p) == /\ pays[p] # Nothing /\ pays[p].recent
             /\ mishaps < MaxMishaps /\ mishaps' = mishaps + 1
             /\ Row(p, [pays[p] EXCEPT !.recent = FALSE]) /\ UNCHANGED payments

NewDay == /\ sentToday' = 0
          /\ UNCHANGED <<wallet, listed, sent, memory, fillsFile, rounds, held, ghosts, counts>>

\* publish_offer: the owner puts the asset on sale again after a restart.
Publish == /\ listed' = TRUE
           /\ UNCHANGED <<wallet, sent, sentToday, memory, fillsFile, rounds, held, ghosts, counts>>

----------------------------------------------------------------------------
(* The policy *)

\* required_confirmations: how deep, and whether a machine may send at all.
RequiredConfirmations(krw) == [need |-> IF krw < 3 THEN krw + 1 ELSE 3, auto |-> krw < 3]

\* pending_claims sends no krw, and AutoOffer's default for it is zero.
ClaimKrw(o) == 0

\* The rows of a round's answer to listtransactions that pay one of its claims.
Seen(r) == {p \in Deposit : p[1] \in offers[r] /\ pays[p] # Nothing /\ pays[p].recent}

\* Mutant: the scan takes payments as soon as the wallet sees them.
FillableUnconfirmed(p) ==
  LET o == p[1] IN
  /\ o \notin filled
  /\ pays[p].enough
  /\ sentToday + Qty[o] <= Cap

\* What a round decides of a row; everything else is skipped.  A claim always has
\* an address to deliver to: api_claim takes none without (server.rs:737).
Fillable(p) ==
  LET o == p[1]
      policy == RequiredConfirmations(ClaimKrw(o)) IN
  /\ o \notin filled
  /\ policy.auto /\ pays[p].depth >= policy.need
  /\ pays[p].enough
  /\ sentToday + Qty[o] <= Cap

----------------------------------------------------------------------------
(* The marks *)

OrderOf(r) == current[r].order

\* The round goes on with nothing in hand.
LetGo(r, stage) == /\ current' = [current EXCEPT ![r] = Nothing]
                   /\ copy' = [copy EXCEPT ![r] = {}]
                   /\ at' = [at EXCEPT ![r] = stage]

\* fills(): the marks are copied, and the lock is let go.
Copy(r, edited, stage) == /\ copy' = [copy EXCEPT ![r] = edited]
                          /\ at' = [at EXCEPT ![r] = stage]

\* The copy is written back under the lock, whatever others have written since.
WriteBack(r, own) == /\ filled' = copy[r]
                     /\ lost' = lost \union ((filled \ copy[r]) \ own)
                     /\ revived' = revived \union ((copy[r] \ filled) \ own)
                     /\ UNCHANGED <<wallet, shop, fillsFile, held, doubt, again, stopped,
                                    counts>>

\* fills_save, outside the lock: staged and renamed; nobody hears of a failure.
\* Every save is staged under one name: two at a time may leave neither whole, and
\* a file that does not parse is read as an empty one.
SaveFails(r) == {fillsFile} \union
                (IF \E s \in Round \ {r} : at[s] \in {"marked", "freed", "told"} THEN {{}} ELSE {})

SaveCopy(r) ==
  /\ \/ fillsFile' = copy[r] /\ UNCHANGED mishaps
     \/ mishaps < MaxMishaps /\ mishaps' = mishaps + 1 /\ fillsFile' \in SaveFails(r)
  /\ lost' = lost \union (((fillsFile \ fillsFile') \intersect filled) \ {OrderOf(r)})
  /\ doubt' = doubt \union (IF at[r] = "freed" THEN {} ELSE {OrderOf(r)} \ fillsFile')

----------------------------------------------------------------------------
(* A round *)

\* mark_sent holds the lock of `sent` while it marks.
SentLocked == \E r \in Round : at[r] \in Telling

\* pending_claims: claims not marked sent whose listing this process knows.
PendingClaims == IF listed THEN Claim \ sent ELSE {}

\* autoRound: nothing to do without claims.  A round has the first free number.
StartRound(r) == /\ at[r] = "idle" /\ \A s \in Round : s < r => at[s] # "idle"
                 /\ PendingClaims # {} /\ ~SentLocked
                 /\ offers' = [offers EXCEPT ![r] = PendingClaims]
                 /\ at' = [at EXCEPT ![r] = "list"]
                 /\ UNCHANGED <<wallet, shop, memory, fillsFile, queue, current, copy, done, held,
                                ghosts, counts>>

\* fills() of the first row that pays a claim: fills.json is read without the lock...
Load(r) == /\ at[r] = "list" /\ ~loaded /\ Seen(r) # {}
           /\ Copy(r, fillsFile, "loading")
           /\ UNCHANGED <<wallet, shop, memory, fillsFile, offers, queue, current, done, held,
                          ghosts, counts>>

\* ...and stored under it.
Loaded(r) == /\ at[r] = "loading"
             /\ loaded' = TRUE /\ WriteBack(r, {}) /\ Copy(r, {}, "list")
             /\ UNCHANGED <<offers, queue, current, done>>

\* listtransactions has answered; the whole scan is one step of the process.
Scan(r) == /\ at[r] = "list" /\ (loaded \/ Seen(r) = {})
           /\ LET found == {p \in Seen(r) : Fillable(p)} IN
                /\ queue' = [queue EXCEPT ![r] = found]
                /\ at' = [at EXCEPT ![r] = IF found = {} THEN "idle" ELSE "wallet"]
           /\ offers' = [offers EXCEPT ![r] = {}]
           /\ UNCHANGED <<wallet, shop, memory, fillsFile, current, copy, done, held, ghosts, counts>>

Unlock(r) == /\ at[r] = "wallet"
             /\ at' = [at EXCEPT ![r] = "send"]
             /\ UNCHANGED <<wallet, shop, memory, fillsFile, offers, queue, current, copy, done, held,
                            ghosts, counts>>

\* No answer to listtransactions, no passphrase, or one that does not open.
EndEarly(r) == /\ at[r] \in {"list", "wallet"}
               /\ at' = [at EXCEPT ![r] = "idle"]
               /\ queue' = [queue EXCEPT ![r] = {}]
               /\ offers' = [offers EXCEPT ![r] = {}]
               /\ UNCHANGED <<wallet, shop, memory, fillsFile, current, copy, done, held, ghosts,
                              counts>>

Take(r, p) == /\ queue' = [queue EXCEPT ![r] = @ \ {p}]
              /\ current' = [current EXCEPT ![r] = [call |-> 0, order |-> p[1]]]
              /\ Copy(r, filled \union {p[1]}, "mark")

\* Mutant: only mark_sent marks an order, once its transfer has been answered.
SendUnmarked(r) ==
  /\ at[r] = "send" /\ calls < MaxTransfers
  /\ \E p \in queue[r] :
       LET c == [call |-> calls + 1, order |-> p[1]] IN
         /\ queue' = [queue EXCEPT ![r] = @ \ {p}]
         /\ calls' = calls + 1 /\ held' = held \union {c}
         /\ current' = [current EXCEPT ![r] = c]
         /\ Copy(r, {}, "call")
  /\ UNCHANGED <<wallet, shop, memory, fillsFile, offers, done, ghosts, payments, mishaps, crashes>>

\* The next payment: mark_filled copies the marks before the transfer is asked for.
Send(r) ==
  /\ at[r] = "send"
  /\ \E p \in queue[r] :
       /\ Take(r, p)
       /\ again' = again \union
            {o \in {p[1]} : o \in filled \/ \E s \in Round : at[s] \in Filling /\ OrderOf(s) = o}
  /\ UNCHANGED <<wallet, shop, memory, fillsFile, offers, done, held, doubt, lost, revived, stopped,
                 counts>>

\* mark_filled and unmark_filled write their copy back.
Write(r) == /\ at[r] \in {"mark", "free", "tell"}
            /\ WriteBack(r, {OrderOf(r)})
            /\ at' = [at EXCEPT ![r] = CASE @ = "mark" -> "marked" [] @ = "free" -> "freed"
                                         [] @ = "tell" -> "told"]
            /\ UNCHANGED <<loaded, offers, queue, current, copy, done>>

Ask(r) == LET c == [call |-> calls + 1, order |-> OrderOf(r)] IN
  /\ calls' = calls + 1 /\ held' = held \union {c}
  /\ current' = [current EXCEPT ![r] = c]
  /\ Copy(r, {}, "call")

\* mark_filled saves; the transfer is asked for.
SaveAndAsk(r) == /\ at[r] = "marked" /\ calls < MaxTransfers
                 /\ SaveCopy(r) /\ Ask(r)
                 /\ UNCHANGED <<wallet, shop, memory, offers, queue, done, again, revived, stopped, payments,
                                crashes>>

NodeSends(c) == /\ held' = held \ {c}
                /\ carried' = carried \union {c}
                /\ UNCHANGED <<pays, shop, memory, fillsFile, rounds, ghosts, counts>>

Transferred(r) == /\ at[r] = "call" /\ current[r] \in carried
                  /\ sentToday' = sentToday + Qty[OrderOf(r)]
                  /\ done' = [done EXCEPT ![r] = @ \union {OrderOf(r)}]
                  /\ LetGo(r, "send")
                  /\ UNCHANGED <<wallet, listed, sent, memory, fillsFile, offers, queue, held, ghosts,
                                 counts>>

\* unmark_filled of a transfer that failed copies the marks.
TransferFails(r) == /\ at[r] = "call" /\ mishaps < MaxMishaps
                    /\ mishaps' = mishaps + 1
                    /\ Copy(r, filled \ {OrderOf(r)}, "free")
                    /\ UNCHANGED <<wallet, shop, memory, fillsFile, offers, queue, current, done,
                                   again, lost, revived, stopped, payments, calls, crashes>>

\* Mutant: a refused order stays marked.
RefusedKeepsMark(r) == /\ at[r] = "call" /\ mishaps < MaxMishaps /\ current[r] \in held
                       /\ mishaps' = mishaps + 1
                       /\ held' = held \ {current[r]}
                       /\ LetGo(r, "send")
                       /\ UNCHANGED <<wallet, shop, memory, fillsFile, offers, queue, done, ghosts,
                                      payments, calls, crashes>>

\* The node refuses, or is not reached: the mark is taken back.
Refused(r) == /\ TransferFails(r) /\ current[r] \in held
              /\ held' = held \ {current[r]}
              /\ UNCHANGED doubt

\* SENT_UNKNOWN: no answer in 180 s, or a cut one.  It is an Err like any other.
Unanswered(r) == /\ TransferFails(r)
                 /\ doubt' = doubt \union {OrderOf(r)}
                 /\ UNCHANGED held

\* unmark_filled saves; the next payment.
SaveFreed(r) == /\ at[r] = "freed"
                /\ SaveCopy(r) /\ LetGo(r, "send")
                /\ UNCHANGED <<wallet, shop, memory, offers, queue, done, held, again, revived, stopped,
                                payments, calls, crashes>>

Finish(r) == /\ at[r] = "send" /\ queue[r] = {} /\ done[r] = {}
             /\ at' = [at EXCEPT ![r] = "idle"]
             /\ UNCHANGED <<wallet, shop, memory, fillsFile, offers, queue, current, copy, done, held,
                            ghosts, counts>>

\* mark_sent: the screen hands back what auto_fulfil said it sent, and each order
\* of it is marked again.
MarkSent(r) == /\ at[r] = "send" /\ queue[r] = {} /\ ~SentLocked
               /\ \E o \in done[r] :
                    /\ current' = [current EXCEPT ![r] = [call |-> 0, order |-> o]]
                    /\ Copy(r, filled \union {o}, "tell")
               /\ UNCHANGED <<wallet, shop, memory, fillsFile, offers, queue, done, held, ghosts,
                              counts>>

SaveTold(r) == /\ at[r] = "told"
               /\ SaveCopy(r) /\ sent' = sent \union {OrderOf(r)}
               /\ done' = [done EXCEPT ![r] = @ \ {OrderOf(r)}]
               /\ LetGo(r, IF done'[r] = {} THEN "idle" ELSE "send")
               /\ UNCHANGED <<wallet, listed, sentToday, memory, offers, queue, held, again, revived,
                              stopped, payments, calls, crashes>>

\* The process dies and is started again: only fills.json and the claims
\* (orders.json) remain, and what the node has received of its requests.
Restart == /\ crashes < MaxCrashes /\ crashes' = crashes + 1
           /\ held' \in SUBSET held
           /\ loaded' = FALSE /\ filled' = fillsFile
           /\ listed' = FALSE /\ sent' = {} /\ sentToday' = 0
           /\ at' = [r \in Round |-> "idle"]
           /\ offers' = [r \in Round |-> {}]
           /\ queue' = [r \in Round |-> {}]
           /\ current' = [r \in Round |-> Nothing]
           /\ copy' = [r \in Round |-> {}]
           /\ done' = [r \in Round |-> {}]
           /\ stopped' = stopped \union fillsFile
           /\ UNCHANGED <<wallet, fillsFile, doubt, again, lost, revived, payments, calls, mishaps>>

----------------------------------------------------------------------------
Step(r) == \/ StartRound(r) \/ Load(r) \/ Loaded(r) \/ Scan(r) \/ Unlock(r) \/ EndEarly(r)
           \/ Send(r) \/ Write(r) \/ SaveAndAsk(r) \/ Transferred(r) \/ Refused(r)
           \/ Unanswered(r) \/ SaveFreed(r) \/ Finish(r) \/ MarkSent(r) \/ SaveTold(r)

AutoNext == \/ \E p \in Deposit : Pay(p) \/ Confirm(p) \/ Replace(p) \/ Scroll(p)
            \/ \E r \in Round : Step(r)
            \/ \E c \in held : NodeSends(c)
            \/ NewDay \/ Publish \/ Restart

AutoSpec == AutoInit /\ [][AutoNext]_autoVars

\* The timer keeps firing, the process goes on with what it has begun, the node
\* answers what it is asked, days pass, and the passphrase the process holds opens
\* the wallet sooner or later.
GoesOn(r) == \/ StartRound(r) \/ Loaded(r) \/ Send(r) \/ Write(r) \/ SaveAndAsk(r)
             \/ Transferred(r) \/ SaveFreed(r) \/ Finish(r) \/ MarkSent(r) \/ SaveTold(r)
AutoFairness ==
  /\ \A r \in Round : /\ WF_autoVars(GoesOn(r))
                      /\ SF_autoVars(Load(r) \/ Scan(r)) /\ SF_autoVars(Unlock(r))
  /\ \A c \in Transfer : WF_autoVars(c \in held /\ NodeSends(c))
  /\ WF_autoVars(NewDay)
FairAutoSpec == AutoSpec /\ AutoFairness

----------------------------------------------------------------------------
(* Properties *)

\* "One fulfilment per paid address" (auto.rs:26): wherever a crash, a refusal or
\* the other round falls, an order is only ever filled twice if one of its transfers
\* went unanswered, its mark could not be saved, a round took it out of a queue made
\* before it was marked, or its mark was written over by a copy made before it.
Excused == doubt \union again \union lost
OnceUnlessInDoubt == \A c, d \in carried : c.order = d.order => c = d \/ c.order \in Excused

\* The asset only leaves for an order whose price is confirmed on the chain, and
\* not for one whose payment was replaced after the round had looked.
SettledIn(p)  == pays[p] # Nothing /\ pays[p].enough /\ pays[p].depth >= 1
PaidInFull(o) == \E p \in Deposit : p[1] = o /\ SettledIn(p)
OnlyPaidOrders == \A c \in carried : PaidInFull(c.order)

\* An order that is paid is delivered in the end.  The exceptions: its payments
\* have left the last 200 rows of the wallet; its mark came back with a copy made
\* before it was taken back; it was under way when the process died and stays
\* marked for a person, or nothing is on sale again since.
Delivered(o)  == \E c \in carried : c.order = o
OutOfSight(o) == \A p \in Deposit : p[1] = o /\ SettledIn(p) => ~pays[p].recent
LeftToAPerson(o) == \/ OutOfSight(o) \/ o \in revived
                    \/ o \in stopped \/ ~listed
EveryPaidOrderLeaves == \A o \in Claim : PaidInFull(o) ~> Delivered(o) \/ LeftToAPerson(o)
----------------------------------------------------------------------------
(***************************************************************************)
(* The inductive invariant behind the first two.                           *)
(***************************************************************************)

Asks == held \union carried

\* Each transfer has a number of its own and is in one place.
AsksDiffer == held \intersect carried = {} /\ \A c \in Asks : c.call <= calls

\* Of two transfers of an order one was asked in doubt of the other.
OnceAsked == \A c, d \in Asks : c.order = d.order => c = d \/ c.order \in Excused

\* An order with a transfer is marked, in memory and in fills.json, or excused.
AskedIsMarked == \A c \in Asks : c.order \in (filled \intersect fillsFile) \union Excused

\* Of two rounds that fill the same order one took it after the other.
HandsDiffer == \A r, s \in Round : at[r] \in Filling /\ at[s] \in Filling /\ OrderOf(r) = OrderOf(s)
                                     => r = s \/ OrderOf(r) \in again

\* An order that is being marked, or whose mark is being taken back, has no
\* transfer, or is excused; once the mark is written it stays, or is excused.
HandsAreNew == \A r \in Round : at[r] \in Marking \union Freeing /\ OrderOf(r) \notin Excused
                 => \A c \in Asks : c.order # OrderOf(r)
HandsAreMarked == \A r \in Round : at[r] = "marked" => OrderOf(r) \in filled \union Excused

\* An order is in a copy that marks it.
CopyMarks == \A r \in Round : at[r] \in Marking \union Telling => OrderOf(r) \in copy[r]

\* What a round has picked and what was asked for is paid, for good.
PickedIsPaid == \A r \in Round : \A p \in queue[r] : SettledIn(p)
HandsArePaid == \A r \in Round : at[r] \in Marking => PaidInFull(OrderOf(r))
AskedIsPaid  == \A c \in Asks : PaidInFull(c.order)

AutoIInv == /\ AutoTypeOK /\ AsksDiffer /\ OnceAsked /\ AskedIsMarked
            /\ HandsDiffer /\ HandsAreNew /\ HandsAreMarked /\ CopyMarks
            /\ PickedIsPaid /\ HandsArePaid /\ AskedIsPaid
=============================================================================
