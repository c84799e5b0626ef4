--------------------------- MODULE PhoneRequests ---------------------------
(***************************************************************************)
(* Requests of paired phones to send RVN (pairing/desk.rs, pairing.rs).    *)
(*                                                                         *)
(* A request either waits for the owner, who opens or declines it on the   *)
(* desktop, or, within the daily limit the owner gave that phone, is sent  *)
(* by the machine (AutoSend).  AutoSend asks whether the wallet is locked  *)
(* and then calls send_rvn, and holds the desk in neither wait: the owner, *)
(* the clock and the phone act in between.  A send that meets a locked     *)
(* wallet waits for it to be unlocked.  requests.json is written after     *)
(* each change and a failed write is ignored.                              *)
(***************************************************************************)
EXTENDS Integers, FiniteSets, Functions

CONSTANTS
  Peer,                   \* phones
  Req,                    \* requests of phones, each received at most once
  From, Amount,           \* the phone and the amount of a request
  Grants,                 \* permissions the owner may give a phone
  MAX_PHONE_DAILY,        \* the highest limit a phone can be given
  MAX_REQUESTS,           \* requests the desk keeps
  None,                   \* no request, no permission
  MaxCalls, MaxUnsaved, MaxCrashes   \* bounds of the instance

Grant == [money : {"desktop", "phone"}, limit : 0 .. MAX_PHONE_DAILY]

ASSUME PhoneAssumption ==
  /\ From \in [Req -> Peer] /\ Amount \in [Req -> Nat \ {0}] /\ Grants \subseteq Grant
  /\ {MAX_PHONE_DAILY, MAX_REQUESTS, MaxCalls, MaxUnsaved, MaxCrashes} \subseteq Nat

Status == {"waiting", "waiting_unlock", "sending", "done", "opened", "declined",
           "expired", "failed", "unknown"}
Entry  == [status : Status, mode : {"auto", "desktop_confirm"}]

ASSUME NothingAssumption == None \notin Entry \union Grant

\* Time since received_at, as far as the desk tells it apart.
Age == 0 .. 3
Counts(a)    == a = 0   \* under 24 h: LIMIT_WINDOW_MS
TooOld(a)    == a >= 2  \* over 24 h: REQUEST_TTL_MS
Forgotten(a) == a = 3   \* 48 h and more

VARIABLES
  perms,      \* PeerBook: what each phone may do
  requests,   \* Desk.requests; ids that were ever taken in stay in rx_seen
  file,       \* requests.json
  age,        \* of each request, 3 if it has not been received
  seen,       \* requests that have reached the desk
  run,        \* the AutoSend of a request; from "check" on it is in in_flight
  calls,      \* transfers asked for a request; the last one is the one awaited
  wire,       \* transfers the node has been asked and has not carried out
  carried,    \* transfers the node has carried out, for good
  screen,     \* what the owner's send screen has to do with a request
  overruled,  \* requests AutoSend wrote of when the desk had opened, closed or dropped them
  lost,       \* requests with a change that a restart did not find in the file
  crashes

desk  == <<perms, requests, file, age, seen>>
money == <<calls, wire, carried>>
notes == <<overruled, lost>>
vars  == <<desk, run, money, screen, notes, crashes>>

Transfer == Req \X (1 .. MaxCalls)

TypeOK ==
  /\ perms \in [Peer -> Grant \union {None}]
  /\ {requests, file} \subseteq [Req -> Entry \union {None}]
  /\ age \in [Req -> Age]
  /\ {seen, overruled, lost} \subseteq SUBSET Req
  /\ run \in [Req -> {"none", "queued", "check", "call"}]
  /\ calls \in [Req -> 0 .. MaxCalls]
  /\ wire \subseteq Transfer /\ carried \subseteq Transfer /\ wire \intersect carried = {}
  /\ \A c \in wire \union carried : c[2] <= calls[c[1]]
  /\ \A r \in Req : run[r] = "call" => calls[r] > 0
  /\ screen \in [Req -> {"none", "shown", "sent"}]
  /\ crashes \in 0 .. MaxCrashes

Init == /\ perms = [p \in Peer |-> None]
        /\ requests = [r \in Req |-> None] /\ file = requests
        /\ age = [r \in Req |-> 3] /\ seen = {}
        /\ run = [r \in Req |-> "none"]
        /\ calls = [r \in Req |-> 0] /\ wire = {} /\ carried = {}
        /\ screen = [r \in Req |-> "none"]
        /\ overruled = {} /\ lost = {} /\ crashes = 0

----------------------------------------------------------------------------
(* Requests and their file *)

Is(r, statuses) == requests[r] # None /\ requests[r].status \in statuses

\* Requests the owner may still decide.
Open == {"waiting", "waiting_unlock", "opened"}

Marked(rs, status) == [r \in Req |-> IF r \in rs THEN [requests[r] EXCEPT !.status = status]
                                                 ELSE requests[r]]

\* Requests of which the file does not have what it should.
Unsaved(entries) == {r \in Req : entries[r] # file[r]}

\* save_requests: it may fail, and nobody looks.
SaveAs(entries) == \/ file' = entries
                   \/ Cardinality(Unsaved(entries)) <= MaxUnsaved /\ UNCHANGED file
Save == SaveAs(requests')

Update(rs, status) == requests' = Marked(rs, status) /\ Save

\* trim_requests: by age, and the oldest ones beyond MAX_REQUESTS.
Trim(entries, ages) ==
  LET young == {r \in Req : entries[r] # None /\ ~Forgotten(ages[r])} IN
  \E kept \in SUBSET young :
    /\ Cardinality(kept) = IF Cardinality(young) < MAX_REQUESTS THEN Cardinality(young)
                                                                ELSE MAX_REQUESTS
    /\ \A x \in kept, y \in young \ kept : ages[x] <= ages[y]
    /\ requests' = [r \in Req |-> IF r \in kept THEN entries[r] ELSE None]

----------------------------------------------------------------------------
(* The limit *)

SumOf(rs) == SumFunctionOnSet(Amount, rs)

\* Mutant: a send that waits for the wallet is not counted.
SpentSent(p) == SumOf({r \in Req : /\ From[r] = p /\ Counts(age[r])
                                   /\ Is(r, {"sending", "done", "unknown"})
                                   /\ requests[r].mode = "auto"})

\* spent_sats: by the time a request was received.
Spent(p) == SumOf({r \in Req : /\ From[r] = p /\ Counts(age[r])
                               /\ Is(r, {"waiting_unlock", "sending", "done", "unknown"})
                               /\ requests[r].mode = "auto"})

\* authorize: how a request may be taken.  One that was not approved on the
\* phone, or is for an asset, waits for the desktop.
Authorized(r) ==
  LET g == perms[From[r]] IN
  {"desktop_confirm"} \union
    IF g.money = "phone" /\ Spent(From[r]) + Amount[r] <= g.limit THEN {"auto"} ELSE {}

Receive(r) ==
  /\ perms[From[r]] # None /\ r \notin seen
  /\ seen' = seen \union {r}
  /\ \E mode \in Authorized(r) :
       LET auto  == mode = "auto"
           added == [requests EXCEPT ![r] = [status |-> IF auto THEN "sending" ELSE "waiting",
                                             mode |-> mode]] IN
       /\ age' = [age EXCEPT ![r] = 0]
       /\ Trim(added, age') /\ Save
       /\ run' = IF auto THEN [run EXCEPT ![r] = "queued"] ELSE run
  /\ UNCHANGED <<perms, money, screen, notes, crashes>>

\* Over the limit: the phone is told so and nothing is kept.
Deny(r) == /\ perms[From[r]] # None /\ perms[From[r]].money = "phone"
           /\ r \notin seen /\ "auto" \notin Authorized(r)
           /\ seen' = seen \union {r}
           /\ UNCHANGED <<perms, requests, file, age, run, money, screen, notes, crashes>>

----------------------------------------------------------------------------
(* AutoSend *)

\* Only one at a time of a request, and only while the machine is to send it.
StartRun(r) ==
  /\ run[r] = "queued"
  /\ run' = [run EXCEPT ![r] = IF Is(r, {"sending", "waiting_unlock"}) THEN "check" ELSE "none"]
  /\ UNCHANGED <<desk, money, screen, notes, crashes>>

\* The status is written without another look at what it is by now.
Write(r, status) ==
  /\ Update({r} \intersect {q \in Req : requests[q] # None}, status)
  /\ overruled' = IF Is(r, {"sending", "waiting_unlock"}) THEN overruled ELSE overruled \union {r}
  /\ UNCHANGED <<perms, age, seen, screen, lost, crashes>>

FindLocked(r) == /\ run[r] = "check"
                 /\ Write(r, "waiting_unlock")
                 /\ run' = [run EXCEPT ![r] = "none"]
                 /\ UNCHANGED money

\* send_rvn is called; it may end before the node is asked, which is the same
\* to the desk as a transfer the node refuses.
FindUnlocked(r) == /\ run[r] = "check" /\ calls[r] < MaxCalls
                   /\ Write(r, "sending")
                   /\ run' = [run EXCEPT ![r] = "call"]
                   /\ calls' = [calls EXCEPT ![r] = @ + 1]
                   /\ wire' = wire \union {<<r, calls'[r]>>}
                   /\ UNCHANGED carried

NodeSends(c) == /\ wire' = wire \ {c} /\ carried' = carried \union {c}
                /\ UNCHANGED <<desk, run, calls, screen, notes, crashes>>

NodeRefuses(c) == /\ wire' = wire \ {c}
                  /\ UNCHANGED <<desk, run, calls, carried, screen, notes, crashes>>

Result(r, status) == /\ run[r] = "call"
                     /\ Write(r, status)
                     /\ run' = [run EXCEPT ![r] = "none"]
                     /\ UNCHANGED money

Answered(r) == <<r, calls[r]>> \in carried /\ Result(r, "done")

\* Refused, or paid and then the receipt or its acknowledgement failed.
Failed(r) == <<r, calls[r]>> \notin wire /\ Result(r, "failed")

\* SENT_UNKNOWN
Unanswered(r) == Result(r, "unknown")

\* retry_unlock, once the wallet is unlocked: in the order they came, a request
\* goes back to the owner until today's permission and limit allow the rest.
RetryUnlock ==
  LET waiting == {r \in Req : Is(r, {"waiting_unlock"})}
      Of(p, rs) == {r \in rs : From[r] = p}
      Fits(p, out) == /\ perms[p] # None /\ perms[p].money = "phone"
                      /\ Spent(p) - SumOf({r \in out : Counts(age[r])}) <= perms[p].limit
      LastOf(out) == {x \in out : \A y \in out : age[x] <= age[y]} IN
  /\ waiting # {}
  /\ \E out \in SUBSET waiting :
       /\ \A p \in Peer :
            /\ \A x \in Of(p, out), y \in Of(p, waiting \ out) : age[x] >= age[y]
            /\ Of(p, waiting \ out) # {} => Fits(p, Of(p, out))
            /\ Of(p, out) # {} =>
                 \E last \in LastOf(Of(p, out)) : ~Fits(p, Of(p, out) \ {last})
       /\ run' = [r \in Req |-> IF r \in waiting \ out /\ run[r] = "none"
                                THEN "queued" ELSE run[r]]
       /\ requests' = [r \in Req |-> IF r \notin out THEN requests[r]
                                     ELSE [status |-> "waiting", mode |-> "desktop_confirm"]]
       /\ IF out = {} THEN UNCHANGED file ELSE Save
  /\ UNCHANGED <<perms, age, seen, money, screen, notes, crashes>>

----------------------------------------------------------------------------
(* The owner *)

\* pairing_approve: the phone is paired, or paired again, with these permissions.
Approve(p, g) == /\ perms' = [perms EXCEPT ![p] = g]
                 /\ UNCHANGED <<requests, file, age, seen, run, money, screen, notes, crashes>>

\* forget_peer: what waits is declined.
Unpair(p) ==
  /\ perms[p] # None /\ perms' = [perms EXCEPT ![p] = None]
  /\ Update({r \in Req : From[r] = p /\ Is(r, {"waiting", "waiting_unlock"})}, "declined")
  /\ UNCHANGED <<age, seen, run, money, screen, notes, crashes>>

\* Mutant: a request may be opened while it is being sent.
OpenSending(r) == /\ Is(r, Open \union {"sending"})
                  /\ Update({r}, "opened")
                  /\ screen' = [screen EXCEPT ![r] = "shown"]
                  /\ UNCHANGED <<perms, age, seen, run, money, notes, crashes>>

\* pairing_request_open: the send screen is filled in from the request.
OpenRequest(r) == /\ Is(r, Open)
                  /\ Update({r}, "opened")
                  /\ screen' = [screen EXCEPT ![r] = "shown"]
                  /\ UNCHANGED <<perms, age, seen, run, money, notes, crashes>>

SendByHand(r) == /\ screen[r] = "shown"
                 /\ screen' = [screen EXCEPT ![r] = "sent"]
                 /\ UNCHANGED <<desk, run, money, notes, crashes>>

\* pairing_request_done: with the txid of what was sent.  As in Decline, the
\* requests are saved whether or not this one has changed.
RequestDone(r) == /\ screen[r] = "sent"
                  /\ Update({r} \intersect {q \in Req : Is(q, {"opened"})}, "done")
                  /\ UNCHANGED <<perms, age, seen, run, money, screen, notes, crashes>>

\* Mutant: a request may be declined while it is being sent.
DeclineSending(r) == /\ Update({r} \intersect {q \in Req : Is(q, Open \union {"sending"})}, "declined")
                     /\ UNCHANGED <<perms, age, seen, run, money, screen, notes, crashes>>

\* pairing_request_decline
Decline(r) == /\ Update({r} \intersect {q \in Req : Is(q, Open)}, "declined")
              /\ UNCHANGED <<perms, age, seen, run, money, screen, notes, crashes>>

----------------------------------------------------------------------------
(* The clock, and restarts *)

\* Mutant: a request that waits for the wallet does not expire.
ExpirableUnlessLocked(r) == Is(r, {"waiting", "opened"}) /\ TooOld(age[r])

Expirable(r) == Is(r, Open) /\ TooOld(age[r])

\* tick, every 5 s: requests expire, old ones are dropped; only expiry is saved.
Tick ==
  LET late   == {r \in Req : Expirable(r)}
      closed == Marked(late, "expired") IN
  /\ Trim(closed, age) /\ requests' # requests
  /\ IF late = {} THEN UNCHANGED file ELSE SaveAs(closed)
  /\ UNCHANGED <<perms, age, seen, run, money, screen, notes, crashes>>

\* A tick comes every 5 s and an AutoSend ends within minutes, and the clock
\* counts days: it stands still while a request is to expire, or while one that
\* would be forgotten is under way.
Clock ==
  /\ \A r \in Req : ~Expirable(r) /\ (run[r] # "none" => age[r] < 2)
  /\ age' = [r \in Req |-> IF Forgotten(age[r]) THEN 3 ELSE age[r] + 1]
  /\ UNCHANGED <<perms, requests, file, seen, run, money, screen, notes, crashes>>

Reopened(sending) == [r \in Req |-> IF file[r] # None /\ file[r].status = "sending"
                                    THEN [file[r] EXCEPT !.status = sending] ELSE file[r]]

\* What the file does not tell of the requests as they are.
Losing == {r \in Unsaved(requests) : requests[r] # Reopened("unknown")[r]}

\* Mutant: what was being sent when the process died is taken up again.
RestartResumes == /\ crashes < MaxCrashes /\ crashes' = crashes + 1
                  /\ requests' = Reopened("waiting_unlock")
                  /\ run' = [r \in Req |-> "none"]
                  /\ screen' = [r \in Req |-> IF screen[r] = "shown" THEN "none" ELSE screen[r]]
                  /\ lost' = lost \union Losing
                  /\ UNCHANGED <<perms, file, age, seen, money, overruled>>

\* The process dies and Desk::open reads the file: what was being sent is of
\* unknown outcome.
Restart == /\ crashes < MaxCrashes /\ crashes' = crashes + 1
           /\ requests' = Reopened("unknown")
           /\ run' = [r \in Req |-> "none"]
           /\ screen' = [r \in Req |-> IF screen[r] = "shown" THEN "none" ELSE screen[r]]
           /\ lost' = lost \union Losing
           /\ UNCHANGED <<perms, file, age, seen, money, overruled>>

----------------------------------------------------------------------------
Run(r) == \/ StartRun(r) \/ FindLocked(r) \/ FindUnlocked(r)
          \/ Answered(r) \/ Failed(r) \/ Unanswered(r)

Owner == \/ \E p \in Peer : Unpair(p) \/ \E g \in Grants : Approve(p, g)
         \/ \E r \in Req : OpenRequest(r) \/ SendByHand(r) \/ RequestDone(r) \/ Decline(r)

Next == \/ \E r \in Req : Receive(r) \/ Deny(r) \/ Run(r)
        \/ RetryUnlock \/ Owner
        \/ \E c \in wire : NodeSends(c) \/ NodeRefuses(c)
        \/ Tick \/ Clock \/ Restart

Spec == Init /\ [][Next]_vars

\* Works are run, calls end (the RPC has a timeout), and time passes.
Fairness == /\ \A r \in Req : WF_vars(Run(r))
            /\ WF_vars(Tick) /\ WF_vars(Clock)
FairSpec == Spec /\ Fairness

----------------------------------------------------------------------------
(* Properties *)

\* The machine sends a request at most once, whatever is retried and wherever the
\* process dies, unless a restart did not find a change of that request.
SendsOnce == \A c, d \in carried : c[1] = d[1] => c = d \/ c[1] \in lost

\* A request is not sent by the owner and by the machine, unless the desk had opened,
\* closed or dropped it when AutoSend wrote, or a restart did not find a change.
OneSender == \A c \in carried \union wire :
               screen[c[1]] = "sent" => c[1] \in overruled \union lost

\* What the desk shows as declined or expired the machine has not sent and will
\* not send, unless a restart did not find a change.
ClosedIsUnsent == \A c \in carried \union wire :
                    Is(c[1], {"declined", "expired"}) => c[1] \in lost

\* Of the requests received within a day that the desk still has, the machine sends
\* no more than the highest limit a phone can be given; beyond the exceptions above,
\* a request that was sent but recorded as failed is not counted.
Sent(r) == \E c \in carried : c[1] = r
LimitByReceipt == \A p \in Peer :
  SumOf({r \in Req : /\ From[r] = p /\ Sent(r) /\ Counts(age[r])
                     /\ r \notin overruled \union lost /\ Is(r, Status \ {"failed"})})
    <= MAX_PHONE_DAILY

\* Every request the desk has taken is closed in the end, whatever the wallet's
\* lock does; a restart may lose one that was not in the file.
Closed == Status \ (Open \union {"sending"})
EveryRequestIsClosed == \A r \in Req :
  Is(r, Open \union {"sending"}) ~> Is(r, Closed) \/ r \in lost

----------------------------------------------------------------------------
(***************************************************************************)
(* The inductive invariant behind SendsOnce and ClosedIsUnsent.            *)
(***************************************************************************)

\* Only what has reached the desk is kept, saved, run or sent.
OnlySeen == \A r \in Req \ seen :
              requests[r] = None /\ file[r] = None /\ run[r] = "none" /\ calls[r] = 0

\* While its send is awaited a request is being sent, if the desk still has it.
CallIsSending == \A r \in Req : run[r] = "call" /\ requests[r] # None
                                => requests[r].status = "sending"

\* After its send a request is past: nothing takes it up again.
Past == {"done", "failed", "unknown"}
SentIsPast == \A r \in Req \ lost : calls[r] > 0 /\ run[r] # "call" =>
                run[r] = "none" /\ (requests[r] # None => requests[r].status \in Past)

CalledOnce == \A r \in Req \ lost : calls[r] <= 1

IInv == TypeOK /\ OnlySeen /\ CallIsSending /\ SentIsPast /\ CalledOnce

----------------------------------------------------------------------------
(***************************************************************************)
(* What OneSender and LimitByReceipt need beyond it, of the requests that  *)
(* no AutoSend wrote over and no restart lost.                             *)
(***************************************************************************)

Regular == Req \ (overruled \union lost)

\* What the owner has had on the send screen the machine has not sent and is not
\* about to send.
ScreenIsOwners ==
  /\ \A r \in Req \ seen : screen[r] = "none"
  /\ \A r \in Regular :
       /\ screen[r] # "none" => calls[r] = 0
       /\ screen[r] = "shown" /\ requests[r] # None => Is(r, {"opened", "declined", "expired"})
       /\ screen[r] = "sent" /\ requests[r] # None
            => Is(r, {"opened", "done", "declined", "expired"})

\* What the machine sends, has sent or may send was taken within the limit.
MachineIsAuto ==
  \A r \in Regular : requests[r] # None /\ (Is(r, {"waiting_unlock", "sending"}) \/ calls[r] > 0)
                  => requests[r].mode = "auto"

\* What is sent by the machine, or may be, is within the limit while it is counted.
Held(r) == /\ r \in Regular /\ Counts(age[r]) /\ screen[r] = "none"
           /\ Is(r, {"waiting_unlock", "sending", "done", "unknown"})
           /\ requests[r].mode = "auto"
HeldWithin == \A p \in Peer : SumOf({r \in Req : From[r] = p /\ Held(r)}) <= MAX_PHONE_DAILY

LInv == IsFiniteSet(seen) /\ ScreenIsOwners /\ MachineIsAuto /\ HeldWithin
=============================================================================
