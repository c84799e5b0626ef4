----------------------------- MODULE WalletLink -----------------------------
(***************************************************************************)
(* A phone linked to the main wallet of this computer (wallet_link.rs, and *)
(* core/wallet-link/link.ts whose checks it repeats).  The phone sends     *)
(* signed messages through relays; the desktop reads them with a timer,    *)
(* records requests to pay, shows them to the owner, pays the approved     *)
(* ones and sends back what became of each.                                *)
(*                                                                         *)
(* GATE lets one command run at a time, but a command awaits the relays    *)
(* and the node between its saves of state.json, and the process may end   *)
(* or a save may fail there.  Relays return some or all of the messages    *)
(* of the last two days, in any order and again; a request may reach the   *)
(* desktop in several wraps, and after it has expired.                     *)
(***************************************************************************)
EXTENDS Integers, FiniteSets, Functions

CONSTANTS
  Link,            \* pairings: an offer and the phone that takes it up
  Req,             \* requests to pay
  LinkOf, Sats,    \* the link and the amount of a request
  Copies,          \* the wraps the phone makes of a request
  Fee,             \* what the approved transaction pays the miners
  Limits,          \* daily limits the owner may choose
  None,            \* no link, no request
  MaxCrashes       \* bound on the times a command is cut short

ASSUME LinkAssumption ==
  /\ LinkOf \in [Req -> Link] /\ Sats \in [Req -> Nat \ {0}]
  /\ Copies \in [Req -> Nat \ {0}]
  /\ Fee \in Nat /\ Limits \subseteq Nat \ {0} /\ Limits # {} /\ MaxCrashes \in Nat

\* Messages of the phone, each in a wrap of its own, and of the desktop.
Asked  == UNION {[type : {"request"}, req : {r}, copy : 1 .. Copies[r]] : r \in Req}
Spoken == [type : {"accept", "revoke"}, link : Link]
Wrap   == Asked \union Spoken
Answer == [type : {"seen", "txid", "refused"}, req : Req] \union [type : {"revoked"}, link : Link]

Status == {"none", "pending", "sending", "sent", "refused", "unknown"}

\* state.json.  A request is remembered (seen, requests) far longer than it can
\* be approved, and a wrap (wraps) longer than relays are asked for it.
State ==
  [link : [Link -> {"none", "live", "revoked"}], limit : [Link -> Limits],
   orphan : SUBSET Link,              \* revocations of links that are not known
   revokeOut : SUBSET Link,           \* our revocations the phone has not been sent
   status : [Req -> Status],
   result : [Req -> {"none", "txid", "refused"}],
   published : SUBSET Req,            \* results the phone has been sent
   seenOut : SUBSET Req,              \* "received" notes not sent yet
   spends : SUBSET Req,
   wraps : SUBSET Wrap]

ASSUME NothingAssumption == None \notin Link \union Req \union State

VARIABLES
  phone,     \* each phone: "none", "offered", "accepted", "revoked"
  asks,      \* wraps the phone has made of each request
  relay,     \* wraps that asking from the cursor on can return
  session,   \* the offer on the screen: its link, and whether the phone answered
  disk,      \* state.json
  mem,       \* the copy of it that process works on
  window,    \* what the relays held when they were asked
  whole,     \* whether they were read to the end
  pc, cur,   \* where the running command is, and the request it pays
  out,       \* answers the running command has to deliver
  marker,    \* the lane's marker: the request that may be in doubt
  pays,      \* payments the node has made, by request
  told,      \* results that reached the phone
  expired,   \* requests older than REQUEST_TTL_MS
  old,       \* payments made more than a day ago
  early,     \* requests read before their link was confirmed
  overdue,   \* requests that were being paid or were paid when an expired copy was read
  crashes

outside == <<phone, asks, relay>>
command == <<mem, window, whole, pc, cur, out>>
money   == <<marker, pays>>
clock   == <<expired, old>>
notes   == <<early, overdue>>
vars    == <<outside, session, disk, command, money, told, clock, notes, crashes>>

Sessions == [link : Link \union {None}, candidate : BOOLEAN]
NoSession == [link |-> None, candidate |-> FALSE]

Labels == {"idle", "process", "deliver", "begin", "mark", "sign", "back", "complete", "lost", "finish"}
Paying == {"begin", "mark", "sign", "back", "complete", "lost", "finish"}

TypeOK ==
  /\ phone \in [Link -> {"none", "offered", "accepted", "revoked"}]
  /\ asks \in [Req -> Nat] /\ \A r \in Req : asks[r] <= Copies[r]
  /\ relay \subseteq Wrap /\ window \subseteq Wrap /\ whole \in BOOLEAN
  /\ session \in Sessions
  /\ disk \in State /\ mem \in State \union {None}
  /\ pc = "process" => mem \in State
  /\ pc \in Labels /\ cur \in Req \union {None}
  /\ pc \in Paying => cur \in Req
  /\ out \subseteq Answer /\ told \subseteq Answer
  /\ marker \in Req \union {None}
  /\ pays \in [Req -> Nat]
  /\ expired \subseteq Req /\ old \subseteq Req /\ early \subseteq Req /\ overdue \subseteq Req
  /\ crashes \in 0 .. MaxCrashes

Init ==
  /\ phone = [l \in Link |-> "none"]
  /\ asks = [r \in Req |-> 0]
  /\ relay = {} /\ window = {} /\ whole = FALSE
  /\ session = NoSession
  /\ \E x \in Limits :
       disk = [link |-> [l \in Link |-> "none"], limit |-> [l \in Link |-> x],
               orphan |-> {}, revokeOut |-> {},
               status |-> [r \in Req |-> "none"], result |-> [r \in Req |-> "none"],
               published |-> {}, seenOut |-> {}, spends |-> {}, wraps |-> {}]
  /\ mem = None
  /\ pc = "idle" /\ cur = None /\ out = {} /\ marker = None
  /\ pays = [r \in Req |-> 0] /\ told = {}
  /\ expired = {} /\ old = {} /\ early = {} /\ overdue = {} /\ crashes = 0

----------------------------------------------------------------------------
(* What is asked of a request *)

Cost == [q \in Req |-> Sats[q] + Fee]

\* Mutant: only what has been paid counts.
SpentSettled(s, l, except) ==
  SumFunctionOnSet(Cost, {q \in s.spends \ (old \union {except}) : LinkOf[q] = l})

\* What left through the link within a day, and what is or may be under way,
\* however old.
Spending(s, l, except) ==
  {q \in Req \ {except} : /\ LinkOf[q] = l
                          /\ \/ q \in s.spends \ old
                             \/ q \notin s.spends /\ s.status[q] \in {"sending", "unknown"}}
SpentToday(s, l, except) == SumFunctionOnSet(Cost, Spending(s, l, except))

\* The order of checkLinkRequest: a request that has expired is refused even if
\* it is known.  (One from a clock that is ahead is refused like an expired one.)
Verdict(s, r) ==
  IF s.link[LinkOf[r]] = "revoked" THEN "revoked"
  ELSE IF r \in expired            THEN "refused"
  ELSE IF s.status[r] # "none"     THEN "seen"
  ELSE IF SpentToday(s, LinkOf[r], r) + Sats[r] > s.limit[LinkOf[r]] THEN "refused"
  ELSE "ok"

\* What an approval asks of a request.
LiveRequest(s, r) ==
  /\ s.status[r] = "pending"
  /\ s.link[LinkOf[r]] = "live"
  /\ r \notin expired
  /\ SpentToday(s, LinkOf[r], r) + Sats[r] + Fee <= s.limit[LinkOf[r]]

Set(s, r, status)       == [s EXCEPT !.status[r] = status]
\* A result that is not the one on record has yet to be sent.
Record(s, r, result)    == [s EXCEPT !.result[r] = result, !.published = @ \ {r}]
Refusal(s, r)           == Record(Set(s, r, "refused"), r, "refused")

\* cancel_pending: the phone that is cut off is not answered.
CancelPending(s, l) ==
  [s EXCEPT !.link[l] = "revoked",
            !.status = [r \in Req |-> IF LinkOf[r] = l /\ s.status[r] = "pending"
                                      THEN "refused" ELSE s.status[r]],
            !.result = [r \in Req |-> IF LinkOf[r] = l /\ s.status[r] = "pending"
                                      THEN "none" ELSE s.result[r]]]

Seen(r)    == [type |-> "seen", req |-> r]
Result(s, r) == [type |-> s.result[r], req |-> r]
Revoked(l) == [type |-> "revoked", link |-> l]
Told(kind, r) == [type |-> kind, req |-> r] \in told
Results(sent) == {a \in sent : a.type \in {"txid", "refused"}}

----------------------------------------------------------------------------
(* The phone and the relays *)

PhoneAccept(l) ==
  /\ phone[l] = "offered"
  /\ phone' = [phone EXCEPT ![l] = "accepted"]
  /\ relay' = relay \union {[type |-> "accept", link |-> l]}
  /\ UNCHANGED <<asks, session, disk, command, money, told, clock, notes, crashes>>

\* The phone may ask as soon as its own half of the pairing is done, and wrap
\* the same signed request again at any time.
PhoneAsk(r) ==
  /\ phone[LinkOf[r]] = "accepted"
  /\ asks[r] < Copies[r]
  /\ asks[r] = 0 => r \notin expired
  /\ asks' = [asks EXCEPT ![r] = @ + 1]
  /\ relay' = relay \union {[type |-> "request", req |-> r, copy |-> asks'[r]]}
  /\ UNCHANGED <<phone, session, disk, command, money, told, clock, notes, crashes>>

\* The phone takes the pairing back, or ends it.
PhoneRevoke(l) ==
  /\ phone[l] = "accepted"
  /\ phone' = [phone EXCEPT ![l] = "revoked"]
  /\ relay' = relay \union {[type |-> "revoke", link |-> l]}
  /\ UNCHANGED <<asks, session, disk, command, money, told, clock, notes, crashes>>

Expire(r) ==
  /\ asks[r] > 0 /\ r \notin expired
  /\ expired' = expired \union {r}
  /\ UNCHANGED <<outside, session, disk, command, money, told, old, notes, crashes>>

DayPasses ==
  /\ pc = "idle" /\ \E r \in Req \ old : pays[r] > 0
  /\ old' = {r \in Req : pays[r] > 0}
  /\ UNCHANGED <<outside, session, disk, command, money, told, expired, notes, crashes>>

----------------------------------------------------------------------------
(* Pairing on the screen *)

\* wallet_link_offer: an offer has a nonce of its own and so a link of its own.
Offer(l) ==
  /\ pc = "idle" /\ phone[l] = "none"
  /\ session' = [link |-> l, candidate |-> FALSE]
  /\ phone' = [phone EXCEPT ![l] = "offered"]
  /\ UNCHANGED <<relay, asks, disk, command, money, told, clock, notes, crashes>>

\* wallet_link_cancel, or the offer's time has passed.
DropOffer ==
  /\ pc # "process" /\ session # NoSession
  /\ session' = NoSession
  /\ UNCHANGED <<outside, disk, command, money, told, clock, notes, crashes>>

\* Mutant: a revocation that came first is not looked at.
ConfirmAnyway(l) ==
  /\ pc = "idle" /\ session = [link |-> l, candidate |-> TRUE]
  /\ disk.link[l] = "none"
  /\ \E x \in Limits : disk' = [disk EXCEPT !.link[l] = "live", !.limit[l] = x]
  /\ session' = NoSession
  /\ UNCHANGED <<outside, command, money, told, clock, notes, crashes>>

\* confirm_in: both screens show the same number.
Confirm(l) ==
  /\ pc = "idle" /\ session = [link |-> l, candidate |-> TRUE]
  /\ disk.link[l] = "none" /\ l \notin disk.orphan
  /\ \E x \in Limits : disk' = [disk EXCEPT !.link[l] = "live", !.limit[l] = x]
  /\ session' = NoSession
  /\ UNCHANGED <<outside, command, money, told, clock, notes, crashes>>

SetLimit(l) ==
  /\ pc = "idle" /\ disk.link[l] = "live"
  /\ \E x \in Limits : disk' = [disk EXCEPT !.limit[l] = x]
  /\ UNCHANGED <<outside, session, command, money, told, clock, notes, crashes>>

----------------------------------------------------------------------------
(* wallet_link_inbox *)

\* The relays are asked from two days before the cursor on.
Fetch(complete) ==
  /\ pc = "idle"
  /\ \E l \in Link : disk.link[l] = "live" \/ session.link = l
  /\ pc' = "process"
  /\ mem' = disk
  /\ window' = relay /\ whole' = complete
  /\ UNCHANGED <<outside, session, disk, cur, out, money, told, clock, notes, crashes>>

\* One message of process.  It is marked as read before anything else.
Reading(w) ==
  /\ pc = "process" /\ w \in window \ mem.wraps
  /\ UNCHANGED <<outside, window, whole, pc, cur, money, told, clock, crashes>>

Read(w) == [mem EXCEPT !.wraps = @ \union {w}]

TakeAccept(l) ==
  LET w == [type |-> "accept", link |-> l] IN
  /\ Reading(w)
  /\ mem' = Read(w)
  /\ session' = IF session.link = l /\ l \notin mem.orphan
                THEN [session EXCEPT !.candidate = TRUE] ELSE session
  /\ UNCHANGED <<disk, out, notes>>

\* A request of a phone that is not linked (yet) is passed over.
TakeUnknown(w) ==
  /\ Reading(w) /\ mem.link[LinkOf[w.req]] = "none"
  /\ mem' = Read(w)
  /\ early' = early \union {w.req}
  /\ UNCHANGED <<session, disk, out, overdue>>

\* The request and all that was read before it are on disk before the owner or
\* the phone learns of it.
TakeNew(w) ==
  /\ Reading(w) /\ mem.link[LinkOf[w.req]] # "none" /\ Verdict(mem, w.req) = "ok"
  /\ mem' = [Set(Read(w), w.req, "pending") EXCEPT !.seenOut = @ \union {w.req}]
  /\ disk' = mem'
  /\ out' = out \union {Seen(w.req)}
  /\ UNCHANGED <<session, notes>>

\* A known request is answered as before.
TakeKnown(w) ==
  /\ Reading(w) /\ mem.link[LinkOf[w.req]] # "none" /\ Verdict(mem, w.req) = "seen"
  /\ mem' = Read(w)
  /\ out' = IF mem.result[w.req] = "none" THEN out ELSE out \union {Result(mem, w.req)}
  /\ UNCHANGED <<session, disk, notes>>

\* The refusal takes the place of whatever was on record.
TakeRefused(w) ==
  /\ Reading(w) /\ mem.link[LinkOf[w.req]] # "none" /\ Verdict(mem, w.req) = "refused"
  /\ mem' = [Refusal(Read(w), w.req) EXCEPT !.seenOut = @ \ {w.req}]
  /\ out' = out \union {[type |-> "refused", req |-> w.req]}
  /\ overdue' = IF mem.status[w.req] \in {"sending", "sent", "unknown"}
                THEN overdue \union {w.req} ELSE overdue
  /\ UNCHANGED <<session, disk, early>>

TakeAfterRevoke(w) ==
  /\ Reading(w) /\ Verdict(mem, w.req) = "revoked"
  /\ mem' = Read(w)
  /\ UNCHANGED <<session, disk, out, notes>>

TakeRequest(w) == \/ TakeUnknown(w) \/ TakeNew(w) \/ TakeKnown(w)
                  \/ TakeRefused(w) \/ TakeAfterRevoke(w)

TakeRevoke(l) ==
  LET w == [type |-> "revoke", link |-> l] IN
  /\ Reading(w)
  /\ mem' = CASE mem.link[l] = "live" -> CancelPending(Read(w), l)
              [] mem.link[l] = "none" -> [Read(w) EXCEPT !.orphan = @ \union {l}]
              [] OTHER -> Read(w)
  /\ UNCHANGED <<session, disk, out, notes>>

\* What process leaves: requests that waited too long are refused, and all that
\* the phone has not been sent is sent again.
Lapsed(s) == {r \in Req : s.status[r] = "pending" /\ r \in expired}
CloseLapsed(s) ==
  [s EXCEPT !.status = [r \in Req |-> IF r \in Lapsed(s) THEN "refused" ELSE s.status[r]],
            !.result = [r \in Req |-> IF r \in Lapsed(s) THEN "refused" ELSE s.result[r]]]
Undelivered(s) ==
  {Seen(r) : r \in {q \in s.seenOut : s.status[q] = "pending" /\ s.link[LinkOf[q]] = "live"}}
  \union {Result(s, r) : r \in {q \in Req \ s.published : s.result[q] # "none"}}
  \union {Revoked(l) : l \in s.revokeOut}

\* Mutant: the cursor moves although the relays were not read to the end.
EndProcessMoving ==
  /\ pc = "process"
  /\ whole => window \subseteq mem.wraps
  /\ disk' = CloseLapsed(mem)
  /\ out' = out \union Undelivered(disk')
  /\ relay' = relay \ window
  /\ pc' = "deliver" /\ mem' = None /\ window' = {} /\ whole' = FALSE
  /\ UNCHANGED <<phone, asks, session, cur, money, told, clock, notes, crashes>>

EndProcess ==
  /\ pc = "process"
  /\ whole => window \subseteq mem.wraps
  /\ disk' = CloseLapsed(mem)
  /\ out' = out \union Undelivered(disk')
  \* The cursor moves when everything was read: what was there may be out of
  \* reach from then on.
  /\ relay' = IF whole THEN relay \ window ELSE relay
  /\ pc' = "deliver" /\ mem' = None /\ window' = {} /\ whole' = FALSE
  /\ UNCHANGED <<phone, asks, session, cur, money, told, clock, notes, crashes>>

\* mark_sent: only what was published is not sent again.
MarkSent(s, sent) ==
  [s EXCEPT !.published = @ \union {r \in Req : s.result[r] # "none" /\ Result(s, r) \in sent},
            !.seenOut = {r \in @ : Seen(r) \notin sent},
            !.revokeOut = {l \in @ : Revoked(l) \notin sent}]

Deliver(sent) ==
  /\ pc = "deliver"
  /\ told' = told \union Results(sent)
  /\ disk' = MarkSent(disk, sent)
  /\ pc' = "idle" /\ out' = {}
  /\ UNCHANGED <<outside, session, mem, window, whole, cur, money, clock, notes, crashes>>

----------------------------------------------------------------------------
(* wallet_link_approve.  The lane "wallet-link" of the journal (PayoutGuard)  *)
(* is reduced to its marker: GATE keeps a second caller out, and a request    *)
(* with a receipt is never pending again.                                     *)

Goto(label) == pc' = label /\ UNCHANGED <<mem, window, whole, cur, out>>
Stop        == pc' = "idle" /\ cur' = None /\ UNCHANGED <<mem, window, whole, out>>

Approve(r) ==
  /\ pc = "idle" /\ LiveRequest(disk, r)
  /\ pc' = "begin" /\ cur' = r /\ UNCHANGED <<mem, window, whole, out>>
  /\ UNCHANGED <<outside, session, disk, money, told, clock, notes, crashes>>

\* The coins shown are spent, the passphrase is wrong, or the lane is taken.
NotBegun ==
  /\ pc = "begin" /\ Stop
  /\ UNCHANGED <<outside, session, disk, money, told, clock, notes, crashes>>

Begin ==
  /\ pc = "begin" /\ marker = None
  /\ marker' = cur /\ Goto("mark")
  /\ UNCHANGED <<outside, session, disk, pays, told, clock, notes, crashes>>

Mark ==
  /\ pc = "mark"
  /\ disk' = Set(disk, cur, "sending") /\ Goto("sign")
  /\ UNCHANGED <<outside, session, money, told, clock, notes, crashes>>

\* The app was locked meanwhile, or the wallet does not sign: nothing has left
\* this computer, and the marker is taken back before the request is.
Abandon ==
  /\ pc = "sign"
  /\ marker' = None /\ Goto("back")
  /\ UNCHANGED <<outside, session, disk, pays, told, clock, notes, crashes>>

BackToPending ==
  /\ pc = "back"
  /\ disk' = Set(disk, cur, "pending") /\ Stop
  /\ UNCHANGED <<outside, session, money, told, clock, notes, crashes>>

\* The node carries the payment out or not; it says so, or the transaction is
\* found in the wallet, or neither.
Broadcast ==
  /\ pc = "sign"
  /\ \/ pays' = [pays EXCEPT ![cur] = @ + 1] /\ (Goto("complete") \/ Goto("lost"))
     \/ UNCHANGED pays /\ Goto("lost")
  /\ UNCHANGED <<outside, session, disk, marker, told, clock, notes, crashes>>

\* Mutant: a payment without an answer is taken for one that was not made.
LeaveUnknownPending ==
  /\ pc = "lost"
  /\ disk' = Set(disk, cur, "pending") /\ marker' = None /\ Stop
  /\ UNCHANGED <<outside, session, pays, told, clock, notes, crashes>>

\* The marker stays.
LeaveUnknown ==
  /\ pc = "lost"
  /\ disk' = Set(disk, cur, "unknown") /\ Stop
  /\ UNCHANGED <<outside, session, money, told, clock, notes, crashes>>

Complete ==
  /\ pc = "complete"
  /\ marker' = None /\ Goto("finish")
  /\ UNCHANGED <<outside, session, disk, pays, told, clock, notes, crashes>>

\* finish: the request, what it used of the limit and the answer in one save.
Sent(s, r) == [(IF s.result[r] = "txid" THEN Set(s, r, "sent") ELSE Record(Set(s, r, "sent"), r, "txid"))
                 EXCEPT !.spends = @ \union {r}]

Finish ==
  /\ pc = "finish"
  /\ disk' = Sent(disk, cur)
  /\ out' = {Result(disk', cur)} /\ pc' = "deliver" /\ cur' = None
  /\ UNCHANGED <<outside, session, mem, window, whole, money, told, clock, notes, crashes>>

\* The owner approves what was sent already: the same answer goes out again.
ApproveAgain(r) ==
  /\ pc = "idle" /\ disk.status[r] = "sent"
  /\ disk' = Sent(disk, r)
  /\ out' = {Result(disk', r)} /\ pc' = "deliver"
  /\ UNCHANGED <<outside, session, mem, window, whole, cur, money, told, clock, notes, crashes>>

\* Mutant: the owner may refuse whatever is not answered yet.
RefuseUnanswered(r) ==
  /\ pc = "idle" /\ disk.status[r] \in {"pending", "sending", "unknown"}
  /\ disk' = Refusal(disk, r)
  /\ out' = {Result(disk', r)} /\ pc' = "deliver"
  /\ UNCHANGED <<outside, session, mem, window, whole, cur, money, told, clock, notes, crashes>>

Refuse(r) ==
  /\ pc = "idle" /\ disk.status[r] = "pending"
  /\ disk' = Refusal(disk, r)
  /\ out' = {Result(disk', r)} /\ pc' = "deliver"
  /\ UNCHANGED <<outside, session, mem, window, whole, cur, money, told, clock, notes, crashes>>

RevokeLink(l) ==
  /\ pc = "idle" /\ disk.link[l] = "live"
  /\ disk' = [CancelPending(disk, l) EXCEPT !.revokeOut = @ \union {l}]
  /\ out' = {Revoked(l)} /\ pc' = "deliver"
  /\ UNCHANGED <<outside, session, mem, window, whole, cur, money, told, clock, notes, crashes>>

\* The process ends, or a save fails and the command returns; answers that were
\* published then are not marked as sent.
CutShort ==
  /\ pc # "idle" /\ crashes < MaxCrashes
  /\ crashes' = crashes + 1
  /\ told' \in {told, told \union (IF pc = "deliver" THEN Results(out) ELSE {})}
  /\ session' = NoSession
  /\ pc' = "idle" /\ cur' = None /\ mem' = None /\ window' = {} /\ whole' = FALSE /\ out' = {}
  /\ UNCHANGED <<outside, disk, money, clock, notes>>

----------------------------------------------------------------------------
Step == NotBegun \/ Begin \/ Mark \/ Abandon \/ BackToPending \/ Broadcast
        \/ LeaveUnknown \/ Complete \/ Finish

Inbox == \/ \E l \in Link : TakeAccept(l) \/ TakeRevoke(l)
         \/ \E w \in Asked : TakeRequest(w)
         \/ EndProcess

Owner == \/ \E l \in Link : Offer(l) \/ Confirm(l) \/ SetLimit(l) \/ RevokeLink(l)
         \/ \E r \in Req : Approve(r) \/ ApproveAgain(r) \/ Refuse(r)
         \/ DropOffer

Delivery == \E sent \in SUBSET out : Deliver(sent)

Phone == \/ \E l \in Link : PhoneAccept(l) \/ PhoneRevoke(l)
         \/ \E r \in Req : PhoneAsk(r)

Next == \/ Phone \/ Owner \/ Step \/ Inbox
        \/ \E complete \in BOOLEAN : Fetch(complete)
        \/ Delivery
        \/ \E r \in Req : Expire(r)
        \/ DayPasses
        \/ CutShort

Spec == Init /\ [][Next]_vars

----------------------------------------------------------------------------
(* Properties *)

\* A request is paid at most once, whatever comes again or is cut short.
PaidOnce == \A r \in Req : pays[r] <= 1

\* What the phone is told is true: a txid is of a payment that was made, a
\* request said to be received is on record, and one said to be refused was not
\* and will not be paid -- unless a copy of it was read after it expired while
\* it was being paid or paid (check_request looks at the expiry before it looks at
\* what is known).
ToldIsTrue ==
  \A r \in Req : /\ Told("txid", r) => pays[r] = 1
                 /\ Seen(r) \in out => disk.status[r] # "none"
                 /\ Told("refused", r) /\ r \notin overdue => pays[r] = 0

\* Once the phone's own revocation has been read the link is not live, whether
\* it was read before or after the owner confirmed the pairing.
RevokedStaysOff ==
  \A l \in Link : [type |-> "revoke", link |-> l] \in disk.wraps => disk.link[l] # "live"

\* Every payment fits the day's limit in force, with all that was paid through
\* the link within a day, answered or not, and is made for a link that is live.
WithinLimit ==
  [][\A r \in Req : pays'[r] > pays[r] =>
       /\ disk.link[LinkOf[r]] = "live"
       /\ SumFunctionOnSet(Cost,
            {q \in Req \ (old \union overdue) : LinkOf[q] = LinkOf[r] /\ pays'[q] > 0})
          <= disk.limit[LinkOf[r]]]_vars

\* Nothing is missed: what the relays were not read to is still within reach, and
\* a result the phone does not have is still to be sent.
NothingIsMissed ==
  \A r \in Req :
    /\ \A c \in 1 .. asks[r] : [type |-> "request", req |-> r, copy |-> c] \in relay \union disk.wraps
    /\ disk.result[r] # "none" /\ ~Told(disk.result[r], r) => r \notin disk.published

----------------------------------------------------------------------------
(***************************************************************************)
(* The inductive invariant, of state.json and of the copy process works on.*)
(***************************************************************************)

\* What is recorded of a request agrees with what was paid and what was told.
RecordIsTrue(s, r) ==
  /\ s.status[r] \in {"none", "pending"} => pays[r] = 0
  /\ s.status[r] = "refused" /\ r \notin overdue => pays[r] = 0
  /\ s.status[r] = "sent" => pays[r] = 1 /\ r \in s.spends
  /\ s.status[r] = "sent" <=> s.result[r] = "txid"
  /\ s.result[r] = "refused" \/ Told("refused", r) => s.status[r] = "refused"
  /\ r \in s.spends => s.status[r] # "none"
  /\ r \in s.published => s.result[r] # "none" /\ Told(s.result[r], r)

\* A revocation that was read has ended its link, or will keep it from beginning.
RevocationHolds(s, l) ==
  [type |-> "revoke", link |-> l] \in s.wraps
    => s.link[l] = "revoked" \/ (s.link[l] = "none" /\ l \in s.orphan)

OnRecord(s) == {r \in Req : s.status[r] # "none"}

StateIsTrue(s) == /\ \A r \in Req : RecordIsTrue(s, r)
                  /\ \A l \in Link : RevocationHolds(s, l)
                  /\ IsFiniteSet(OnRecord(s))

\* What process has read and not saved only adds to state.json.
CopyIsAhead ==
  pc = "process" => /\ StateIsTrue(mem)
                    /\ OnRecord(disk) \subseteq OnRecord(mem) /\ disk.wraps \subseteq mem.wraps

\* Answers are true when they are made up, and backed by state.json when they go out.
AnswersAreBacked ==
  /\ pc \notin {"process", "deliver"} => out = {}
  /\ \A r \in Req :
       /\ Seen(r) \in out => r \in OnRecord(disk)
       /\ [type |-> "txid", req |-> r] \in out \union told => pays[r] = 1
       /\ [type |-> "refused", req |-> r] \in out
            => (IF pc = "process" THEN mem ELSE disk).status[r] = "refused"

\* Where an approval is, its request is not paid before it is sent.
PaymentIsMarked ==
  /\ pc \in {"begin", "mark"} => disk.status[cur] = "pending"
  /\ pc \in {"sign", "back", "complete", "lost", "finish"} => disk.status[cur] = "sending"
  /\ pc \in {"begin", "mark", "sign", "back"} => pays[cur] = 0
  /\ pc \in {"complete", "finish"} => pays[cur] = 1
  /\ pc \in {"begin", "mark", "sign"} =>
       /\ disk.link[LinkOf[cur]] = "live"
       /\ SpentToday(disk, LinkOf[cur], cur) + Cost[cur] <= disk.limit[LinkOf[cur]]

\* A wrap the phone has made can still be had from the relays or has been read.
WrapsAreKept ==
  \A r \in Req : \A c \in 1 .. asks[r] :
    [type |-> "request", req |-> r, copy |-> c] \in relay \union disk.wraps

IInv == /\ TypeOK /\ PaidOnce /\ StateIsTrue(disk) /\ CopyIsAhead
        /\ AnswersAreBacked /\ PaymentIsMarked /\ WrapsAreKept
=============================================================================
