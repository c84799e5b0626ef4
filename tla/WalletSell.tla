----------------------------- MODULE WalletSell -----------------------------
(***************************************************************************)
(* Sales a linked phone asks for (wallet_link/sell.rs): an asset of this   *)
(* computer's wallet is put into a coin of the right amount (a lot), half  *)
(* signed, posted on the market, and taken down when the phone asks.       *)
(*                                                                         *)
(* GATE lets one command run at a time: a message of the phone, a button,  *)
(* or a tick, which tidies up and then takes each open job some steps      *)
(* further.  A step asks the node or the relays and then saves the job; an *)
(* answer or a save that is lost leaves the job where it was.  Buyers,     *)
(* blocks, the clock and the market screen do not wait for GATE.           *)
(* All jobs sell the same amount of the same asset, so that any lot suits  *)
(* any of them.                                                            *)
(***************************************************************************)
EXTENDS Integers, FiniteSets

CONSTANTS
  Job,         \* requests to sell
  Unsell,      \* requests to take a sale down
  Target,      \* the sale each of them names
  Daily,       \* sales a day the owner allows
  Pool,        \* amounts of the asset the wallet may hold outside lots
  Coin,        \* lots that may come to be (a bound)
  None,        \* no lot, no request, no place to resume
  MaxLost      \* bound on answers and saves that are lost

ASSUME SellAssumption ==
  /\ Target \in [Unsell -> Job] /\ Job \cap Unsell = {}
  /\ Daily \in Nat \ {0} /\ Pool \in Nat /\ MaxLost \in Nat
  /\ IsFiniteSet(Job)
  /\ None \notin Job \union Unsell \union Coin

VARIABLES
  linked, on,   \* the link is not revoked; selling from the phone is allowed
  job,          \* SellJob
  lane,         \* payout lane of each job: "free", "marked" (in doubt) or "done"
  todo, by,     \* jobs the running command still steps, and who started it
  pool, coin,   \* the wallet: what is not in lots, and each lot
  posted,       \* lots whose half-signed offer is out in the world
  listing,      \* the newest post about a lot
  late,         \* jobs whose two hours have passed
  told,         \* what the phone has been told of each request
  asked,        \* requests to take a sale down that were read
  lots,         \* lots made for each job
  crossed,      \* jobs taken down when the lot had been bought already
  adrift,       \* jobs whose post went out without the job learning of it
  replaced,     \* requests to take down that a second one took the place of
  losses

link   == <<linked, on>>
wallet == <<pool, coin>>
market == <<posted, listing>>
phone  == <<told, asked>>
ghosts == <<lots, crossed, adrift, replaced, losses>>
vars   == <<link, job, lane, todo, by, wallet, market, late, phone, ghosts>>

Active        == {"queued", "lot", "lot_ready", "offered", "published", "cancelling"}
BeforePublish == {"queued", "lot", "lot_ready", "offered", "pending_human"}
HoldsCoin     == {"lot_ready", "offered", "published", "cancelling", "pending_human"}
Ended         == {"refused", "failed", "cancelled", "sold"}
\* That a person is waited for is reported too, and is not followed here.
Reported      == Ended \union {"published"}

Status == Active \union Ended \union {"pending_human", "none"}
ASSUME NoneIsNoStatus == None \notin Status

SellJob == [status : Status,
            resume : {"queued", "lot_ready", "cancelling", None},
            coin : Coin \union {None}, unsell : Unsell \union {None}]

TypeOK ==
  /\ linked \in BOOLEAN /\ on \in BOOLEAN
  /\ job \in [Job -> SellJob]
  /\ lane \in [Job -> {"free", "marked", "done"}]
  /\ todo \subseteq Job /\ by \in {"timer", "owner"}
  /\ pool \in 0 .. Pool
  /\ coin \in [Coin -> {"none", "fresh", "ready", "sold", "moved"}]
  /\ posted \subseteq Coin /\ listing \in [Coin -> {"none", "active", "cancelled", "sold"}]
  /\ late \subseteq Job
  /\ told \subseteq (Job \union Unsell) \X Reported
  /\ asked \subseteq Unsell /\ replaced \subseteq Unsell
  /\ lots \in [Job -> Nat] /\ crossed \subseteq Job /\ adrift \subseteq Job
  /\ losses \in 0 .. MaxLost

\* The wallet may hold a lot of the right amount from the start, and nothing else.
Init ==
  /\ linked = TRUE /\ on \in BOOLEAN
  /\ job = [j \in Job |-> [status |-> "none", resume |-> None, coin |-> None, unsell |-> None]]
  /\ lane = [j \in Job |-> "free"]
  /\ todo = {} /\ by = "timer"
  /\ pool \in {0, Pool}
  /\ \E ready \in {c \in SUBSET Coin : Cardinality(c) <= 1} :
       coin = [c \in Coin |-> IF c \in ready THEN "ready" ELSE "none"]
  /\ posted = {} /\ listing = [c \in Coin |-> "none"] /\ late = {}
  /\ told = {} /\ asked = {}
  /\ lots = [j \in Job |-> 0] /\ crossed = {} /\ adrift = {} /\ replaced = {} /\ losses = 0

----------------------------------------------------------------------------
(* Jobs *)

Idle == todo = {}

\* set_status: the place to resume is forgotten ... 
Become(s, status) == [s EXCEPT !.status = status, !.resume = None]

\* ... and what the phone is told of it.
News(j, status) ==
  {<<j, status>>} \union IF status \in {"cancelled", "sold"} /\ job[j].unsell # None
                         THEN {<<job[j].unsell, status>>} ELSE {}

Finish(j, status) ==
  /\ job' = [job EXCEPT ![j] = Become(@, status)]
  /\ told' = told \union News(j, status)
  /\ late' = IF status = "published" THEN late \ {j} ELSE late

\* Lots other jobs hold.
Keep(j) == {job[k].coin : k \in {k \in Job \ {j} : job[k].status \in HoldsCoin /\ job[k].coin # None}}

\* Mutant: a lot is taken whoever holds it.
LotsOfAll(j) == {c \in Coin : coin[c] \in {"fresh", "ready"}}

\* Lots in the wallet that no other job holds.
Lots(j) == {c \in Coin : coin[c] \in {"fresh", "ready"}} \ Keep(j)

Held(j) == pool + Cardinality({c \in Coin : coin[c] \in {"fresh", "ready"}}) - Cardinality(Keep(j))

Cancelling(s) == s.status = "cancelling" \/ s.resume = "cancelling"

----------------------------------------------------------------------------
(* Messages of the phone *)

Accepted == {j \in Job : job[j].status \notin {"none", "refused"}}

\* checkLinkSell, for a request that is in order and in time.
Allowed == on /\ Cardinality(Accepted) < Daily

\* One that is not, or that comes late, is refused as well.
Sell(j) ==
  /\ Idle /\ linked /\ job[j].status = "none"
  /\ \/ Allowed /\ job' = [job EXCEPT ![j].status = "queued"] /\ UNCHANGED told
     \/ job' = [job EXCEPT ![j] = Become(@, "refused")] /\ told' = told \union {<<j, "refused">>}
  /\ UNCHANGED <<link, lane, todo, by, wallet, market, late, asked, ghosts>>

\* The phone names a sale it knows of by its post.
Take(u) == /\ Idle /\ linked /\ u \notin asked
           /\ <<Target[u], "published">> \in told
           /\ asked' = asked \union {u}
           /\ UNCHANGED <<link, lane, todo, by, wallet, market, late, lots, crossed, adrift, losses>>

UnsellPublished(u) ==
  LET j == Target[u] IN
  /\ Take(u) /\ job[j].status = "published"
  /\ job' = [job EXCEPT ![j].status = "cancelling", ![j].unsell = u]
  /\ UNCHANGED <<told, replaced>>

\* A second request takes the place of the first.
UnsellAgain(u) ==
  LET j == Target[u] IN
  /\ Take(u) /\ job[j].status \in {"cancelling", "pending_human"}
  /\ job' = [job EXCEPT ![j].unsell = u]
  /\ replaced' = replaced \union ({job[j].unsell} \ {None})
  /\ UNCHANGED told

\* Too late, or the request itself is.
UnsellAnswered(u) ==
  LET s == job[Target[u]].status IN
  /\ Take(u) /\ s \notin {"published", "cancelling", "pending_human"}
  /\ told' = told \union {<<u, IF s \in {"cancelled", "sold"} THEN s ELSE "refused">>}
  /\ UNCHANGED <<job, replaced>>
UnsellExpired(u) ==
  /\ Take(u)
  /\ told' = told \union {<<u, "refused">>}
  /\ UNCHANGED <<job, replaced>>

\* stop_link: what is not posted yet stops.
Stopped(s) == s.status \in BeforePublish /\ s.resume # "cancelling"
StopLink   == job' = [j \in Job |-> IF Stopped(job[j]) THEN Become(job[j], "cancelled") ELSE job[j]]

\* The phone ends the link, or the owner does; a phone that is cut off is told nothing.
Revoke ==
  /\ Idle /\ linked
  /\ linked' = FALSE /\ on' = FALSE /\ StopLink
  /\ UNCHANGED <<lane, todo, by, wallet, market, late, phone, ghosts>>

SetSell(enabled) ==
  /\ Idle /\ linked /\ on' = enabled
  /\ IF enabled THEN UNCHANGED <<job, told>>
     ELSE StopLink /\ told' = told \union {<<j, "cancelled">> : j \in {k \in Job : Stopped(job[k])}}
  /\ UNCHANGED <<linked, lane, todo, by, wallet, market, late, asked, ghosts>>

----------------------------------------------------------------------------
(* tick *)

\* housekeeping: a person who did not answer for two hours leaves the sale as it
\* was, and a job that was not posted for two hours ends.
Tired(j)   == Cancelling(job[j]) /\ job[j].status = "pending_human" /\ j \in late
Late(j)    == linked /\ on /\ ~Cancelling(job[j]) /\ job[j].status \in BeforePublish /\ j \in late
Tidied(j)  == CASE Tired(j) -> Become(job[j], "published")
                [] ~Cancelling(job[j]) /\ job[j].status \in BeforePublish /\ ~(linked /\ on)
                     -> Become(job[j], "cancelled")
                [] Late(j)  -> Become(job[j], "failed")
                [] OTHER    -> job[j]

\* The screen asks the inbox, and so ticks, only while some phone is linked.
StartTick ==
  /\ Idle /\ linked
  /\ \E j \in Job : job[j].status \notin Ended \union {"none"}
  /\ job' = [j \in Job |-> Tidied(j)]
  /\ told' = told \union {<<job[j].unsell, "failed">> : j \in {k \in Job : Tired(k)}}
                  \union {<<j, job'[j].status>> : j \in {k \in Job : ~Cancelling(job[k]) /\ job'[k] # job[k]}}
  /\ late' = {j \in late : ~Tired(j)}
  /\ todo' = {j \in Job : job'[j].status \in Active} /\ by' = "timer"
  /\ UNCHANGED <<link, lane, wallet, market, asked, ghosts>>

At(j, status) == j \in todo /\ job[j].status = status
OnTo(j, s)    == job' = [job EXCEPT ![j] = s] /\ UNCHANGED <<todo, told, late>>
Rest(j)       == todo' = todo \ {j}

\* What a step that fails leaves: with the owner's passphrase at hand the job
\* waits for a person again.
Back(j) == IF by = "owner" /\ job[j].status = job[j].resume
           THEN job' = [job EXCEPT ![j].status = "pending_human"] ELSE UNCHANGED job

\* The node or a relay does not answer, the app is locked, or the step has
\* nothing to do.
Pause(j) ==
  /\ j \in todo
  /\ Back(j) \/ UNCHANGED job
  /\ Rest(j)
  /\ UNCHANGED <<link, lane, by, wallet, market, late, phone, ghosts>>

\* need_human: the wallet is locked.
ToHuman(j) ==
  /\ j \in todo /\ by = "timer"
  /\ \/ job[j].status = "queued" /\ Held(j) >= 1 /\ Lots(j) = {}
     \/ job[j].status \in {"lot_ready", "cancelling"}
  /\ job' = [job EXCEPT ![j].status = "pending_human", ![j].resume = job[j].status]
  /\ late' = IF job[j].status = "cancelling" THEN late \ {j} ELSE late
  /\ Rest(j)
  /\ UNCHANGED <<link, lane, by, wallet, market, phone, ghosts>>

NotHeld(j) ==
  /\ At(j, "queued") /\ Held(j) < 1
  /\ Finish(j, "refused") /\ Rest(j)
  /\ UNCHANGED <<link, lane, by, wallet, market, asked, ghosts>>

\* A lot of the right amount: "queued" and "lot" alike wait until it is confirmed.
TakeLot(j) ==
  /\ (At(j, "queued") /\ Held(j) >= 1) \/ At(j, "lot")
  /\ \E c \in Lots(j) : coin[c] = "ready" /\ OnTo(j, [job[j] EXCEPT !.status = "lot_ready", !.coin = c])
  /\ UNCHANGED <<link, lane, by, wallet, market, asked, ghosts>>

AwaitLot(j) ==
  /\ At(j, "queued") /\ Held(j) >= 1
  /\ Lots(j) # {} /\ \A c \in Lots(j) : coin[c] = "fresh"
  /\ job' = [job EXCEPT ![j].status = "lot"] /\ Rest(j)
  /\ UNCHANGED <<link, lane, by, wallet, market, late, phone, ghosts>>

\* The node pays one amount of the asset to an address of the wallet.
NewCoin(state) == \E c \in Coin : coin[c] = "none" /\ coin' = [state EXCEPT ![c] = "fresh"]
MadeFor(j)  == /\ pool > 0 /\ pool' = pool - 1 /\ NewCoin(coin)
               /\ lots' = [lots EXCEPT ![j] = @ + 1]
NotMade     == UNCHANGED <<wallet, lots>>

Making(j) == At(j, "queued") /\ Held(j) >= 1 /\ Lots(j) = {} /\ Rest(j)
             /\ UNCHANGED <<link, by, market, asked, crossed, adrift, replaced>>

\* The lane is taken, or its marker cannot be written.
BeginFails(j) ==
  /\ Making(j) /\ lane[j] # "done"
  /\ Finish(j, "failed") /\ NotMade
  /\ UNCHANGED <<lane, losses>>

BeginDone(j) ==
  /\ Making(j) /\ lane[j] = "done"
  /\ job' = [job EXCEPT ![j].status = "lot"] /\ NotMade
  /\ UNCHANGED <<lane, told, late, losses>>

\* An answer without a transaction id leaves the lane taken.
MakeLot(j) ==
  /\ Making(j) /\ lane[j] = "free" /\ MadeFor(j)
  /\ \E l \in {"done", "marked"} : lane' = [lane EXCEPT ![j] = l]
  /\ job' = [job EXCEPT ![j].status = "lot"]
  /\ UNCHANGED <<told, late, losses>>

\* Mutant: a lot that may have been made is tried again.
LotUnknownAgain(j) ==
  /\ Making(j) /\ lane[j] = "free"
  /\ MadeFor(j) \/ NotMade
  /\ UNCHANGED <<job, told, late, lane, losses>>

\* Whatever goes wrong once the wallet is open leaves the lane taken.
LotUnknown(j) ==
  /\ Making(j) /\ lane[j] = "free"
  /\ MadeFor(j) \/ NotMade
  /\ lane' = [lane EXCEPT ![j] = "marked"]
  /\ Finish(j, "failed")
  /\ UNCHANGED losses

\* The process ends, or a save fails, between the marker and the job.
LotLost(j) ==
  /\ Making(j) /\ lane[j] = "free" /\ losses < MaxLost
  /\ losses' = losses + 1
  /\ \/ MadeFor(j) /\ \E l \in {"done", "marked"} : lane' = [lane EXCEPT ![j] = l]
     \/ NotMade /\ lane' = [lane EXCEPT ![j] = "marked"]
  /\ UNCHANGED <<job, told, late>>

SignOffer(j) ==
  /\ At(j, "lot_ready") /\ coin[job[j].coin] = "ready"
  /\ OnTo(j, [job[j] EXCEPT !.status = "offered"])
  /\ UNCHANGED <<link, lane, by, wallet, market, asked, ghosts>>

Posting(j) ==
  /\ At(j, "offered") /\ coin[job[j].coin] = "ready" /\ Rest(j)
  /\ posted' = posted \union {job[j].coin}
  /\ listing' = [listing EXCEPT ![job[j].coin] = "active"]
  /\ UNCHANGED <<link, lane, by, wallet, asked, lots, crossed, replaced>>

Publish(j) ==
  /\ Posting(j) /\ Finish(j, "published")
  /\ UNCHANGED <<adrift, losses>>

PublishLost(j) ==
  /\ Posting(j) /\ losses < MaxLost /\ losses' = losses + 1
  /\ adrift' = adrift \union {j}
  /\ UNCHANGED <<job, told, late>>

\* Mutant: a lot that is spent is taken for one that was taken down.
SettleSpent(j) ==
  /\ At(j, "published") /\ Rest(j)
  /\ coin[job[j].coin] \in {"sold", "moved"}
  /\ Finish(j, "cancelled")
  /\ UNCHANGED <<link, lane, by, wallet, market, asked, ghosts>>

\* listing_state: the lot is spent; the newest post says how, or the sale to the
\* address of the offer is found and the post is changed.
Settle(j) ==
  /\ At(j, "published") /\ Rest(j)
  /\ LET c == job[j].coin IN
     \/ /\ coin[c] = "sold" /\ listing[c] = "active"
        /\ Finish(j, "sold") /\ listing' = [listing EXCEPT ![c] = "sold"]
     \/ /\ coin[c] \in {"sold", "moved"} /\ listing[c] \in {"sold", "cancelled"}
        /\ Finish(j, listing[c]) /\ UNCHANGED listing
  /\ UNCHANGED <<link, lane, by, wallet, posted, asked, ghosts>>

\* market_cancel_listing: an unspent lot is moved to a new address of the wallet,
\* and a post says that the sale is off, if it can be posted.
TakeDown(c) ==
  /\ IF coin[c] = "ready" THEN NewCoin([coin EXCEPT ![c] = "moved"]) ELSE UNCHANGED coin
  /\ listing' \in {listing, [listing EXCEPT ![c] = "cancelled"]}
  /\ UNCHANGED <<pool, posted>>
Bought(j) == crossed' = IF coin[job[j].coin] = "sold" THEN crossed \union {j} ELSE crossed

CancelPosted(j) ==
  /\ At(j, "cancelling") /\ Rest(j)
  /\ TakeDown(job[j].coin) /\ Bought(j)
  /\ \/ Finish(j, "cancelled") /\ UNCHANGED losses
     \/ /\ losses < MaxLost /\ losses' = losses + 1
        /\ UNCHANGED <<job, told, late>>
  /\ UNCHANGED <<link, lane, by, asked, lots, adrift, replaced>>

----------------------------------------------------------------------------
(* Buttons *)

\* continue_with: the owner gives the passphrase.
Continue(j) ==
  /\ Idle /\ job[j].status = "pending_human"
  /\ job[j].resume # "cancelling" => linked /\ on
  /\ job' = [job EXCEPT ![j].status = job[j].resume]
  /\ todo' = {j} /\ by' = "owner"
  /\ UNCHANGED <<link, lane, wallet, market, late, phone, ghosts>>

\* Mutant: the phone is not told that the sale stays.
RefuseUnsellSilently(j) ==
  /\ Idle /\ job[j].status = "pending_human" /\ job[j].resume = "cancelling"
  /\ job' = [job EXCEPT ![j] = Become(@, "published")] /\ late' = late \ {j}
  /\ UNCHANGED <<link, lane, todo, by, wallet, market, phone, ghosts>>

\* refuse_in: a taking down that is refused leaves the sale.
RefuseSale(j) ==
  /\ Idle /\ Stopped(job[j])
  /\ Finish(j, "refused")
  /\ UNCHANGED <<link, lane, todo, by, wallet, market, asked, ghosts>>
RefuseUnsell(j) ==
  /\ Idle /\ job[j].status = "pending_human" /\ job[j].resume = "cancelling"
  /\ job' = [job EXCEPT ![j] = Become(@, "published")] /\ late' = late \ {j}
  /\ told' = told \union ({<<job[j].unsell, "refused">>} \ {<<None, "refused">>})
  /\ UNCHANGED <<link, lane, todo, by, wallet, market, asked, ghosts>>

CancelHere(j) ==
  /\ Idle /\ (job[j].status = "published" \/ Cancelling(job[j]))
  /\ TakeDown(job[j].coin) /\ Bought(j)
  /\ Finish(j, "cancelled")
  /\ UNCHANGED <<link, lane, todo, by, asked, lots, adrift, replaced, losses>>

\* The market screen takes a post down without asking the job, or finds a sale.
MarketCancel(j) ==
  /\ job[j].status \in {"published", "cancelling"} /\ listing[job[j].coin] = "active"
  /\ TakeDown(job[j].coin) /\ Bought(j)
  /\ UNCHANGED <<link, job, lane, todo, by, late, phone, lots, adrift, replaced, losses>>
MarketSettles(c) ==
  /\ coin[c] = "sold" /\ listing[c] = "active"
  /\ listing' = [listing EXCEPT ![c] = "sold"]
  /\ UNCHANGED <<link, job, lane, todo, by, wallet, posted, late, phone, ghosts>>

\* note_sold
NoteSold(j) ==
  /\ Idle /\ job[j].status = "published" /\ listing[job[j].coin] = "sold"
  /\ Finish(j, "sold")
  /\ UNCHANGED <<link, lane, todo, by, wallet, market, asked, ghosts>>

----------------------------------------------------------------------------
(* The chain and the clock *)

\* An offer that is out can be completed for as long as its lot is there.
Buy(c) ==
  /\ c \in posted /\ coin[c] = "ready"
  /\ coin' = [coin EXCEPT ![c] = "sold"]
  /\ UNCHANGED <<link, job, lane, todo, by, pool, market, late, phone, ghosts>>

Confirm(c) ==
  /\ coin[c] = "fresh"
  /\ coin' = [coin EXCEPT ![c] = "ready"]
  /\ UNCHANGED <<link, job, lane, todo, by, pool, market, late, phone, ghosts>>

TwoHours(j) ==
  /\ job[j].status \in BeforePublish /\ j \notin late
  /\ late' = late \union {j}
  /\ UNCHANGED <<link, job, lane, todo, by, wallet, market, phone, ghosts>>

----------------------------------------------------------------------------
Lot(j)  == NotHeld(j) \/ TakeLot(j) \/ AwaitLot(j) \/ BeginFails(j) \/ BeginDone(j)
           \/ MakeLot(j) \/ LotUnknown(j) \/ LotLost(j)
Step(j) == Pause(j) \/ ToHuman(j) \/ Lot(j) \/ SignOffer(j) \/ Publish(j) \/ PublishLost(j)
           \/ Settle(j) \/ CancelPosted(j)

Unsells(u) == UnsellPublished(u) \/ UnsellAgain(u) \/ UnsellAnswered(u) \/ UnsellExpired(u)

Buttons(j) == Continue(j) \/ RefuseSale(j) \/ RefuseUnsell(j) \/ CancelHere(j)

Next == \/ \E j \in Job : Sell(j) \/ Step(j) \/ Buttons(j) \/ MarketCancel(j) \/ NoteSold(j) \/ TwoHours(j)
        \/ \E u \in Unsell : Unsells(u)
        \/ \E c \in Coin : MarketSettles(c) \/ Buy(c) \/ Confirm(c)
        \/ \E enabled \in BOOLEAN : SetSell(enabled)
        \/ Revoke \/ StartTick

Spec == Init /\ [][Next]_vars

----------------------------------------------------------------------------
(* Properties *)

\* Two jobs never hold one lot: a lot sold for one of them would be gone for the
\* other, and taking one down would take down both.
CoinsAreNotShared ==
  \A j, k \in Job : /\ j # k /\ job[j].coin # None
                    /\ job[j].status \in HoldsCoin /\ job[k].status \in HoldsCoin
                    => job[j].coin # job[k].coin

\* A job makes at most one lot, whatever is lost.
LotMadeOnce == \A j \in Job : lots[j] <= 1

\* What the phone is told is true: sold means bought; and a sale that ended any
\* other way was never bought, unless it was bought while it was being taken down,
\* or its post went out without the job learning of it.
Alone(j) == \A k \in Job \ {j} : job[k].coin # job[j].coin
ReportsAreTrue ==
  \A j \in Job :
    /\ <<j, "sold">> \in told => coin[job[j].coin] = "sold"
    /\ /\ job[j].status \in {"refused", "failed", "cancelled"}
       /\ j \notin crossed \union adrift /\ job[j].coin # None /\ Alone(j)
       => coin[job[j].coin] # "sold"

\* A request to take a sale down is not forgotten: one that was read and not
\* answered is the one its job answers once the sale is down, bought or left as it
\* is, unless a second one took its place.
UnsellsAreKept ==
  \A u \in asked \ replaced :
    \/ \E s \in Ended : <<u, s>> \in told
    \/ job[Target[u]].unsell = u /\ Cancelling(job[Target[u]])
=============================================================================
