------------------------ MODULE PhoneRequestsProofs ------------------------
(* Proofs that the machine sends a request of a phone once, none that the    *)
(* desk shows as declined or expired and none that the owner sends, and no   *)
(* more than the limit allows, for any phones, requests, limits, failed      *)
(* saves and restarts.                                                       *)
EXTENDS PhoneRequests, Sums

Entries == [Req -> Entry \union {None}]

\* The inductive invariant, request by request.
Sound(r) ==
  /\ r \notin seen => /\ requests[r] = None /\ file[r] = None
                       /\ run[r] = "none" /\ calls[r] = 0
  /\ run[r] = "call" /\ requests[r] # None => requests[r].status = "sending"
  /\ r \notin lost =>
       /\ calls[r] <= 1
       /\ calls[r] > 0 /\ run[r] # "call" =>
            run[r] = "none" /\ (requests[r] # None => requests[r].status \in Past)

(* The invariant is its type and the soundness of each request. *)
LEMMA InvParts ==
  /\ IInv <=> TypeOK /\ \A r \in Req : Sound(r)
  /\ IInv' <=> TypeOK' /\ \A r \in Req : Sound(r)'
  BY DEF IInv, OnlySeen, CallIsSending, SentIsPast, CalledOnce, Sound

(* A request the owner may decide, or that is new, is neither sent nor past;  *)
(* so whatever becomes of its entry, or when an entry is dropped, it is sound.*)
LEMMA Untouched ==
  ASSUME NEW r \in Req, Sound(r), calls[r] \in Nat,
         run'[r] = run[r], calls'[r] = calls[r], r \in lost => r \in lost',
         r \in seen => r \in seen',
         r \notin seen' => requests'[r] = None /\ file'[r] = None,
         requests'[r] \in {requests[r], None} \/ r \notin seen \/ Is(r, Open)
  PROVE  Sound(r)'
  <1>1. CASE requests'[r] \in {requests[r], None}
    BY <1>1 DEF Sound
  <1>2. CASE r \notin seen
    BY <1>2 DEF Sound
  <1>3. CASE Is(r, Open)
    BY <1>3 DEF Sound, Is, Open, Past
  <1> QED
    BY <1>1, <1>2, <1>3

(* Changing the status of some requests that the desk has. *)
LEMMA MarkedEntries ==
  ASSUME TypeOK, NEW rs \in SUBSET Req, \A r \in rs : requests[r] # None, NEW status \in Status
  PROVE  /\ Marked(rs, status) \in Entries
         /\ \A r \in Req \ rs : Marked(rs, status)[r] = requests[r]
         /\ \A r \in rs : /\ Marked(rs, status)[r] # None
                          /\ Marked(rs, status)[r].status = status
                          /\ Marked(rs, status)[r].mode = requests[r].mode
  <1>1. requests \in Entries
    BY DEF TypeOK, Entries
  <1>2. ASSUME NEW r \in rs
        PROVE  /\ [requests[r] EXCEPT !.status = status] \in Entry
               /\ [requests[r] EXCEPT !.status = status].status = status
               /\ [requests[r] EXCEPT !.status = status].mode = requests[r].mode
    <2>1. requests[r] \in Entry
      BY <1>1, <1>2 DEF Entries
    <2> QED
      BY <2>1 DEF Entry
  <1>3. \A r \in rs : [requests[r] EXCEPT !.status = status] # None
    BY <1>2, NothingAssumption
  <1> QED
    BY <1>1, <1>2, <1>3 DEF Marked, Entries

(* What is kept of the requests is kept as it is. *)
LEMMA TrimKeeps ==
  ASSUME NEW entries \in Entries, NEW ages, Trim(entries, ages)
  PROVE  /\ requests' \in Entries
         /\ \A r \in Req : requests'[r] \in {entries[r], None}
  <1>1. PICK kept : requests' = [r \in Req |-> IF r \in kept THEN entries[r] ELSE None]
    BY DEF Trim
  <1> QED
    BY <1>1 DEF Entries

(* The file is written or left alone. *)
LEMMA SaveType ==
  ASSUME TypeOK, NEW entries \in Entries, SaveAs(entries)
  PROVE  file' \in Entries /\ \A r \in Req : file'[r] \in {file[r], entries[r]}
  BY DEF TypeOK, SaveAs, Entries

(* A step in which nothing is run, sent or lost. *)
LEMMA QuietInv ==
  ASSUME IInv, requests' \in Entries, file' \in Entries,
         perms' \in [Peer -> Grant \union {None}], age' \in [Req -> Age],
         screen' \in [Req -> {"none", "shown", "sent"}],
         seen \subseteq seen', seen' \subseteq Req,
         \A r \in Req \ seen' : requests[r] = None /\ file[r] = None
                               => requests'[r] = None /\ file'[r] = None,
         UNCHANGED <<run, calls, wire, carried, overruled, lost, crashes>>,
         \A r \in Req : requests'[r] \in {requests[r], None} \/ r \notin seen \/ Is(r, Open)
  PROVE  IInv'
  <1>1. TypeOK /\ \A r \in Req : Sound(r)
    BY InvParts
  <1>2. TypeOK'
    BY <1>1 DEF TypeOK, Entries
  <1>3. \A r \in Req : calls[r] \in Nat
    BY <1>1, PhoneAssumption DEF TypeOK
  <1>4. \A r \in Req \ seen' : requests'[r] = None /\ file'[r] = None
    BY <1>1 DEF Sound
  <1>5. \A r \in Req : Sound(r)'
    BY <1>1, <1>3, <1>4, Untouched
  <1> QED
    BY <1>2, <1>5, InvParts

LEMMA InitInv == Init => IInv
  <1> SUFFICES ASSUME Init PROVE IInv
    OBVIOUS
  <1>1. TypeOK
    BY PhoneAssumption DEF Init, TypeOK, Age
  <1> QED
    BY <1>1 DEF Init, IInv, OnlySeen, CallIsSending, SentIsPast, CalledOnce

----------------------------------------------------------------------------
(* The owner, the clock and the node *)

(* Update changes the requests named and saves them, or fails to. *)
LEMMA UpdateEntries ==
  ASSUME TypeOK, NEW rs \in SUBSET Req, \A r \in rs : requests[r] # None,
         NEW status \in Status, Update(rs, status)
  PROVE  /\ requests' \in Entries /\ file' \in Entries
         /\ \A r \in Req \ rs : requests'[r] = requests[r]
         /\ \A r \in rs : /\ requests'[r] # None /\ requests'[r].status = status
                          /\ requests'[r].mode = requests[r].mode
         /\ \A r \in Req : requests[r] = None /\ file[r] = None
                          => requests'[r] = None /\ file'[r] = None
  <1>1. requests' = Marked(rs, status) /\ SaveAs(requests')
    BY DEF Update, Save
  <1>2. /\ requests' \in Entries
        /\ \A r \in Req \ rs : requests'[r] = requests[r]
        /\ \A r \in rs : /\ requests'[r] # None /\ requests'[r].status = status
                         /\ requests'[r].mode = requests[r].mode
    BY <1>1, MarkedEntries
  <1>3. file' \in Entries /\ \A r \in Req : file'[r] \in {file[r], requests'[r]}
    BY <1>1, <1>2, SaveType
  <1>4. \A r \in Req : requests[r] = None => requests'[r] = None
    BY <1>2
  <1> QED
    BY <1>2, <1>3, <1>4

LEMMA DenyInv ==
  ASSUME IInv, NEW r \in Req, Deny(r)
  PROVE  IInv'
  BY QuietInv DEF Deny, money, notes, IInv, TypeOK, Entries

LEMMA ApproveInv ==
  ASSUME IInv, NEW p \in Peer, NEW g \in Grants, Approve(p, g)
  PROVE  IInv'
  <1>1. perms' \in [Peer -> Grant \union {None}]
    BY PhoneAssumption DEF IInv, TypeOK, Approve
  <1> QED
    BY <1>1, QuietInv DEF Approve, money, notes, IInv, TypeOK, Entries

LEMMA UnpairInv ==
  ASSUME IInv, NEW p \in Peer, Unpair(p)
  PROVE  IInv'
  <1> DEFINE rs == {r \in Req : From[r] = p /\ Is(r, {"waiting", "waiting_unlock"})}
  <1>1. /\ rs \in SUBSET Req /\ Update(rs, "declined") /\ "declined" \in Status
        /\ \A r \in rs : requests[r] # None /\ Is(r, Open)
    BY DEF Unpair, Is, Open, Status
  <1>2. /\ requests' \in Entries /\ file' \in Entries
        /\ \A r \in Req \ rs : requests'[r] = requests[r]
        /\ \A r \in Req : requests[r] = None /\ file[r] = None
                         => requests'[r] = None /\ file'[r] = None
    <2> HIDE DEF rs
    <2> QED
      BY <1>1, UpdateEntries DEF IInv
  <1>3. perms' \in [Peer -> Grant \union {None}]
    BY DEF IInv, TypeOK, Unpair
  <1> HIDE DEF rs
  <1> QED
    BY <1>1, <1>2, <1>3, QuietInv DEF Unpair, money, notes, IInv, TypeOK

LEMMA OpenRequestInv ==
  ASSUME IInv, NEW r \in Req, OpenRequest(r)
  PROVE  IInv'
  <1>1. /\ {r} \in SUBSET Req /\ Update({r}, "opened") /\ "opened" \in Status
        /\ requests[r] # None /\ Is(r, Open)
    BY DEF OpenRequest, Is, Status
  <1>2. /\ requests' \in Entries /\ file' \in Entries
        /\ \A q \in Req \ {r} : requests'[q] = requests[q]
        /\ \A q \in Req : requests[q] = None /\ file[q] = None
                         => requests'[q] = None /\ file'[q] = None
    BY <1>1, UpdateEntries DEF IInv
  <1>3. screen' \in [Req -> {"none", "shown", "sent"}]
    BY DEF IInv, TypeOK, OpenRequest
  <1> QED
    BY <1>1, <1>2, <1>3, QuietInv DEF OpenRequest, money, notes, IInv, TypeOK

LEMMA SendByHandInv ==
  ASSUME IInv, NEW r \in Req, SendByHand(r)
  PROVE  IInv'
  <1>1. screen' \in [Req -> {"none", "shown", "sent"}]
    BY DEF IInv, TypeOK, SendByHand
  <1> QED
    BY <1>1, QuietInv DEF SendByHand, desk, money, notes, IInv, TypeOK, Entries

(* What a decision of the owner changes is a request that is open. *)
LEMMA DecisionInv ==
  ASSUME IInv, NEW rs \in SUBSET Req, \A r \in rs : Is(r, Open),
         NEW status \in Status, Update(rs, status),
         UNCHANGED <<perms, age, seen, run, money, screen, notes, crashes>>
  PROVE  IInv'
  <1>1. /\ requests' \in Entries /\ file' \in Entries
        /\ \A q \in Req \ rs : requests'[q] = requests[q]
        /\ \A q \in Req : requests[q] = None /\ file[q] = None
                         => requests'[q] = None /\ file'[q] = None
    BY UpdateEntries DEF IInv, Is
  <1> QED
    BY <1>1, QuietInv DEF money, notes, IInv, TypeOK

LEMMA RequestDoneInv ==
  ASSUME IInv, NEW r \in Req, RequestDone(r)
  PROVE  IInv'
  <1> DEFINE rs == {r} \intersect {q \in Req : Is(q, {"opened"})}
  <1>1. /\ rs \in SUBSET Req /\ Update(rs, "done") /\ "done" \in Status
        /\ \A q \in rs : Is(q, Open)
    BY DEF RequestDone, Is, Open, Status
  <1> HIDE DEF rs
  <1> QED
    BY <1>1, DecisionInv DEF RequestDone

LEMMA DeclineInv ==
  ASSUME IInv, NEW r \in Req, Decline(r)
  PROVE  IInv'
  <1> DEFINE rs == {r} \intersect {q \in Req : Is(q, Open)}
  <1>1. /\ rs \in SUBSET Req /\ Update(rs, "declined") /\ "declined" \in Status
        /\ \A q \in rs : Is(q, Open)
    BY DEF Decline, Status
  <1> HIDE DEF rs
  <1> QED
    BY <1>1, DecisionInv DEF Decline

LEMMA TickInv ==
  ASSUME IInv, Tick
  PROVE  IInv'
  <1> DEFINE late   == {r \in Req : Expirable(r)}
             closed == Marked(late, "expired")
  <1>1. /\ Trim(closed, age)
        /\ IF late = {} THEN UNCHANGED file ELSE SaveAs(closed)
    BY DEF Tick
  <1>2. /\ late \in SUBSET Req /\ "expired" \in Status
        /\ \A r \in late : requests[r] # None /\ Is(r, Open)
    BY DEF Expirable, Is, Status
  <1>3. closed \in Entries /\ \A r \in Req \ late : closed[r] = requests[r]
    <2> HIDE DEF late
    <2> QED
      BY <1>2, MarkedEntries DEF IInv
  <1> HIDE DEF late, closed
  <1>4. requests' \in Entries /\ \A r \in Req : requests'[r] \in {closed[r], None}
    BY <1>1, <1>3, TrimKeeps
  <1>5. file' \in Entries /\ \A r \in Req : file'[r] \in {file[r], closed[r]}
    BY <1>1, <1>3, SaveType DEF IInv, TypeOK, Entries
  <1>6. \A r \in Req : requests'[r] \in {requests[r], None} \/ Is(r, Open)
    BY <1>2, <1>3, <1>4
  <1>7. \A r \in Req : requests[r] = None /\ file[r] = None
                       => requests'[r] = None /\ file'[r] = None
    BY <1>2, <1>3, <1>4, <1>5
  <1> QED
    BY <1>4, <1>5, <1>6, <1>7, QuietInv DEF Tick, money, notes, IInv, TypeOK

LEMMA ClockInv ==
  ASSUME IInv, Clock
  PROVE  IInv'
  <1>1. age' \in [Req -> Age]
    BY DEF IInv, TypeOK, Clock, Age, Forgotten
  <1> QED
    BY <1>1, QuietInv DEF Clock, money, notes, IInv, TypeOK, Entries

LEMMA NodeSendsInv ==
  ASSUME IInv, NEW c \in wire, NodeSends(c)
  PROVE  IInv'
  <1>1. TypeOK'
    BY DEF IInv, TypeOK, NodeSends, desk, notes
  <1> QED
    BY <1>1, InvParts DEF NodeSends, desk, notes, Sound

LEMMA NodeRefusesInv ==
  ASSUME IInv, NEW c \in wire, NodeRefuses(c)
  PROVE  IInv'
  <1>1. TypeOK'
    BY DEF IInv, TypeOK, NodeRefuses, desk, notes
  <1> QED
    BY <1>1, InvParts DEF NodeRefuses, desk, notes, Sound

----------------------------------------------------------------------------
(* Receiving, and AutoSend *)

(* A step that concerns one request, of which the others hear nothing. *)
LEMMA OneInv ==
  ASSUME IInv, NEW r \in Req, TypeOK', Sound(r)', UNCHANGED <<seen, lost>>,
         \A q \in Req \ {r} : /\ requests'[q] = requests[q] /\ run'[q] = run[q]
                              /\ calls'[q] = calls[q]
                              /\ requests[q] = None /\ file[q] = None => file'[q] = None
  PROVE  IInv'
  <1>1. \A q \in Req : Sound(q)
    BY InvParts
  <1>2. \A q \in Req \ {r} : calls[q] \in Nat
    BY PhoneAssumption DEF IInv, TypeOK
  <1>3. ASSUME NEW q \in Req \ {r}
        PROVE  q \notin seen => requests'[q] = None /\ file'[q] = None
    BY <1>1, <1>3 DEF Sound
  <1>4. \A q \in Req \ {r} : Sound(q)'
    BY <1>1, <1>2, <1>3, Untouched
  <1> QED
    BY <1>4, InvParts

LEMMA ReceiveInv ==
  ASSUME IInv, NEW r \in Req, Receive(r)
  PROVE  IInv'
  <1>1. PICK mode \in Authorized(r) :
          LET added == [requests EXCEPT ![r] =
                          [status |-> IF mode = "auto" THEN "sending" ELSE "waiting",
                           mode |-> mode]] IN
          /\ age' = [age EXCEPT ![r] = 0]
          /\ Trim(added, age') /\ Save
          /\ run' = IF mode = "auto" THEN [run EXCEPT ![r] = "queued"] ELSE run
    BY DEF Receive
  <1> DEFINE new   == [status |-> IF mode = "auto" THEN "sending" ELSE "waiting", mode |-> mode]
             added == [requests EXCEPT ![r] = new]
  <1>2. TypeOK /\ (\A q \in Req : Sound(q)) /\ r \notin seen
    BY InvParts DEF Receive
  <1>3. new \in Entry
    BY DEF Authorized, Entry, Status
  <1>4. added \in Entries /\ \A q \in Req \ {r} : added[q] = requests[q]
    <2> HIDE DEF new
    <2> QED
      BY <1>2, <1>3 DEF TypeOK, Entries
  <1>5. Trim(added, age') /\ SaveAs(requests')
    BY <1>1 DEF Save
  <1> HIDE DEF new, added
  <1>6. requests' \in Entries /\ \A q \in Req : requests'[q] \in {added[q], None}
    BY <1>4, <1>5, TrimKeeps
  <1>7. file' \in Entries /\ \A q \in Req : file'[q] \in {file[q], requests'[q]}
    BY <1>2, <1>5, <1>6, SaveType
  <1>8. /\ run' \in [Req -> {"none", "queued", "check", "call"}]
        /\ \A q \in Req \ {r} : run'[q] = run[q]
        /\ run'[r] \in {run[r], "queued"}
    BY <1>1, <1>2 DEF TypeOK
  <1>9. age' \in [Req -> Age] /\ seen' = seen \union {r}
    BY <1>1, <1>2 DEF Receive, TypeOK, Age
  <1>10. UNCHANGED <<perms, calls, wire, carried, screen, overruled, lost, crashes>>
    BY DEF Receive, money, notes
  <1>11. calls[r] = 0 /\ run'[r] # "call"
    BY <1>2, <1>8 DEF Sound
  <1>12. TypeOK'
    BY <1>2, <1>6, <1>7, <1>8, <1>9, <1>10, <1>11 DEF TypeOK, Entries
  <1>13. Sound(r)'
    BY <1>9, <1>10, <1>11 DEF Sound
  <1>14. ASSUME NEW q \in Req \ {r} PROVE Sound(q)'
    <2>1. calls[q] \in Nat
      BY <1>2, PhoneAssumption DEF TypeOK
    <2>2. requests'[q] \in {requests[q], None}
      BY <1>4, <1>6, <1>14
    <2>3. q \notin seen' => requests'[q] = None /\ file'[q] = None
      BY <1>2, <1>7, <1>9, <2>2 DEF Sound
    <2> QED
      BY <1>2, <1>8, <1>9, <1>10, <1>14, <2>1, <2>2, <2>3, Untouched
  <1> QED
    BY <1>12, <1>13, <1>14, InvParts

LEMMA StartRunInv ==
  ASSUME IInv, NEW r \in Req, StartRun(r)
  PROVE  IInv'
  <1>1. TypeOK /\ Sound(r) /\ run[r] = "queued"
    BY InvParts DEF StartRun
  <1>2. /\ run' \in [Req -> {"none", "queued", "check", "call"}]
        /\ \A q \in Req \ {r} : run'[q] = run[q]
        /\ run'[r] \in {"check", "none"}
    BY <1>1 DEF TypeOK, StartRun
  <1>3. UNCHANGED <<perms, requests, file, age, seen, calls, wire, carried, screen,
                    overruled, lost, crashes>>
    BY DEF StartRun, desk, money, notes
  <1>4. TypeOK'
    BY <1>1, <1>2, <1>3 DEF TypeOK
  <1>5. Sound(r)'
    BY <1>1, <1>2, <1>3 DEF Sound
  <1> QED
    BY <1>2, <1>3, <1>4, <1>5, OneInv

(* What AutoSend writes of a request. *)
LEMMA WriteEntries ==
  ASSUME TypeOK, NEW r \in Req, NEW status \in Status, Write(r, status)
  PROVE  /\ requests' \in Entries /\ file' \in Entries /\ overruled' \in SUBSET Req
         /\ \A q \in Req \ {r} : requests'[q] = requests[q]
         /\ requests'[r] = None <=> requests[r] = None
         /\ requests'[r] # None => /\ requests'[r].status = status
                                   /\ requests'[r].mode = requests[r].mode
         /\ \A q \in Req : requests[q] = None /\ file[q] = None
                          => requests'[q] = None /\ file'[q] = None
         /\ UNCHANGED <<perms, age, seen, screen, lost, crashes>>
  <1> DEFINE rs == {r} \intersect {q \in Req : requests[q] # None}
  <1>1. rs \in SUBSET Req /\ Update(rs, status) /\ \A q \in rs : requests[q] # None
    BY DEF Write
  <1>2. \A q \in Req \ rs : q # r \/ requests[q] = None
    OBVIOUS
  <1>3. overruled' \in SUBSET Req
    BY DEF Write, TypeOK
  <1>4. r \in rs \/ r \in Req \ rs
    OBVIOUS
  <1>5. \A q \in Req \ {r} : q \in Req \ rs
    OBVIOUS
  <1>7. r \in rs => requests[r] # None
    BY <1>1
  <1> HIDE DEF rs
  <1>6. /\ requests' \in Entries /\ file' \in Entries
        /\ \A q \in Req \ rs : requests'[q] = requests[q]
        /\ \A q \in rs : /\ requests'[q] # None /\ requests'[q].status = status
                         /\ requests'[q].mode = requests[q].mode
        /\ \A q \in Req : requests[q] = None /\ file[q] = None
                         => requests'[q] = None /\ file'[q] = None
    BY <1>1, UpdateEntries
  <1> QED
    BY <1>2, <1>3, <1>4, <1>5, <1>6, <1>7 DEF Write

LEMMA FindLockedInv ==
  ASSUME IInv, NEW r \in Req, FindLocked(r)
  PROVE  IInv'
  <1>1. TypeOK /\ Sound(r) /\ run[r] = "check" /\ Write(r, "waiting_unlock")
    BY InvParts DEF FindLocked
  <1>2. "waiting_unlock" \in Status
    BY DEF Status
  <1>3. /\ run' \in [Req -> {"none", "queued", "check", "call"}]
        /\ \A q \in Req \ {r} : run'[q] = run[q]
        /\ run'[r] = "none"
        /\ UNCHANGED <<calls, wire, carried>>
    BY <1>1 DEF TypeOK, FindLocked, money
  <1>4. TypeOK'
    BY <1>1, <1>2, <1>3, WriteEntries DEF TypeOK, Entries
  <1>5. Sound(r)'
    BY <1>1, <1>2, <1>3, WriteEntries DEF Sound, TypeOK
  <1> QED
    BY <1>1, <1>2, <1>3, <1>4, <1>5, WriteEntries, OneInv

LEMMA FindUnlockedInv ==
  ASSUME IInv, NEW r \in Req, FindUnlocked(r)
  PROVE  IInv'
  <1>1. TypeOK /\ Sound(r) /\ run[r] = "check" /\ Write(r, "sending") /\ "sending" \in Status
    BY InvParts DEF FindUnlocked, Status
  <1>2. /\ run' \in [Req -> {"none", "queued", "check", "call"}]
        /\ \A q \in Req \ {r} : run'[q] = run[q]
        /\ run'[r] = "call"
    BY <1>1 DEF TypeOK, FindUnlocked
  <1>3. /\ calls' \in [Req -> 0 .. MaxCalls] /\ calls'[r] = calls[r] + 1
        /\ \A q \in Req \ {r} : calls'[q] = calls[q]
        /\ calls[r] \in Nat
    BY <1>1, PhoneAssumption DEF TypeOK, FindUnlocked
  <1>4. wire' = wire \union {<<r, calls[r] + 1>>} /\ carried' = carried
    BY <1>3 DEF FindUnlocked
  <1>5. /\ wire' \subseteq Transfer /\ carried' \subseteq Transfer
        /\ \A c \in wire' \union carried' : c[2] <= calls'[c[1]]
    <2>1. <<r, calls[r] + 1>> \in Transfer
      BY <1>3, PhoneAssumption DEF Transfer
    <2>2. ASSUME NEW c \in wire \union carried
          PROVE  c[2] <= calls'[c[1]]
      <3>1. c[1] \in Req /\ c[2] \in Nat /\ c[2] <= calls[c[1]] /\ calls[c[1]] \in Nat
        BY <1>1, PhoneAssumption DEF TypeOK, Transfer
      <3> QED
        BY <1>3, <3>1
    <2> QED
      BY <1>1, <1>3, <1>4, <2>1, <2>2 DEF TypeOK
  <1>6. wire' \intersect carried' = {}
    <2>1. <<r, calls[r] + 1>> \notin carried
      BY <1>1, <1>3 DEF TypeOK
    <2> QED
      BY <1>1, <1>4, <2>1 DEF TypeOK
  <1>7. \A q \in Req : run'[q] = "call" => calls'[q] > 0
    BY <1>1, <1>2, <1>3 DEF TypeOK
  <1>8. TypeOK'
    BY <1>1, <1>2, <1>3, <1>5, <1>6, <1>7, WriteEntries DEF TypeOK, Entries
  <1>9. Sound(r)'
    BY <1>1, <1>2, <1>3, WriteEntries DEF Sound
  <1> QED
    BY <1>1, <1>2, <1>3, <1>8, <1>9, WriteEntries, OneInv

LEMMA ResultInv ==
  ASSUME IInv, NEW r \in Req, NEW status \in Past, Result(r, status)
  PROVE  IInv'
  <1>1. TypeOK /\ Sound(r) /\ run[r] = "call" /\ Write(r, status) /\ status \in Status
    BY InvParts DEF Result, Past, Status
  <1>2. /\ run' \in [Req -> {"none", "queued", "check", "call"}]
        /\ \A q \in Req \ {r} : run'[q] = run[q]
        /\ run'[r] = "none"
        /\ UNCHANGED <<calls, wire, carried>>
    BY <1>1 DEF TypeOK, Result, money
  <1>3. TypeOK'
    BY <1>1, <1>2, WriteEntries DEF TypeOK, Entries
  <1>4. Sound(r)'
    BY <1>1, <1>2, WriteEntries DEF Sound
  <1> QED
    BY <1>1, <1>2, <1>3, <1>4, WriteEntries, OneInv

LEMMA RunInv ==
  ASSUME IInv, NEW r \in Req, Run(r)
  PROVE  IInv'
  <1>1. CASE Answered(r) \/ Failed(r) \/ Unanswered(r)
    BY <1>1, ResultInv DEF Answered, Failed, Unanswered, Past
  <1> QED
    BY <1>1, StartRunInv, FindLockedInv, FindUnlockedInv DEF Run

(* A request that waits for the wallet has not been sent. *)
LEMMA RetryUnlockInv ==
  ASSUME IInv, RetryUnlock
  PROVE  IInv'
  <1> DEFINE waiting == {r \in Req : Is(r, {"waiting_unlock"})}
             back    == [status |-> "waiting", mode |-> "desktop_confirm"]
  <1>1. PICK out \in SUBSET waiting :
          /\ run' = [r \in Req |-> IF r \in waiting \ out /\ run[r] = "none"
                                   THEN "queued" ELSE run[r]]
          /\ requests' = [r \in Req |-> IF r \notin out THEN requests[r] ELSE back]
          /\ IF out = {} THEN UNCHANGED file ELSE Save
    BY DEF RetryUnlock
  <1>2. TypeOK /\ \A r \in Req : Sound(r)
    BY InvParts
  <1>3. \A r \in waiting : /\ r \in Req /\ requests[r] # None
                           /\ requests[r].status = "waiting_unlock"
    BY DEF Is
  <1>4. back \in Entry
    BY DEF Entry, Status
  <1> HIDE DEF waiting, back
  <1>5. /\ requests' \in Entries
        /\ \A r \in Req : r \notin out => requests'[r] = requests[r]
    BY <1>1, <1>2, <1>4 DEF TypeOK, Entries
  <1>6. file' \in Entries /\ \A r \in Req : file'[r] \in {file[r], requests'[r]}
    <2>1. CASE out = {}
      BY <1>1, <1>2, <2>1 DEF TypeOK, Entries
    <2>2. CASE SaveAs(requests')
      BY <1>2, <1>5, <2>2, SaveType
    <2> QED
      BY <1>1, <2>1, <2>2 DEF Save
  <1>7. /\ run' \in [Req -> {"none", "queued", "check", "call"}]
        /\ \A r \in Req : run'[r] = run[r] \/ (r \in waiting /\ run'[r] = "queued" /\ run[r] = "none")
    BY <1>1, <1>2 DEF TypeOK
  <1>8. UNCHANGED <<perms, age, seen, calls, wire, carried, screen, overruled, lost, crashes>>
    BY DEF RetryUnlock, money, notes
  <1>9. TypeOK'
    BY <1>2, <1>5, <1>6, <1>7, <1>8 DEF TypeOK, Entries
  <1>10. ASSUME NEW r \in Req PROVE Sound(r)'
    <2>1. CASE r \in waiting
      <3>1. r \in seen
        BY <1>2, <1>3, <2>1 DEF Sound
      <3>2. run[r] # "call" /\ calls[r] \in Nat
        BY <1>2, <1>3, <2>1, PhoneAssumption DEF Sound, TypeOK
      <3>3. r \in lost \/ calls[r] = 0
        BY <1>2, <1>3, <2>1, <3>2 DEF Sound, Past
      <3> QED
        BY <1>7, <1>8, <3>1, <3>2, <3>3 DEF Sound
    <2>2. CASE r \notin waiting
      BY <1>1, <1>2, <1>5, <1>6, <1>7, <1>8, <2>2 DEF Sound
    <2> QED
      BY <2>1, <2>2
  <1> QED
    BY <1>9, <1>10, InvParts

(* A restart finds a request as it was, or what was being sent as unknown, *)
(* unless the file did not have its last change.                           *)
LEMMA RestartInv ==
  ASSUME IInv, Restart
  PROVE  IInv'
  <1>1. TypeOK /\ \A r \in Req : Sound(r)
    BY InvParts
  <1>2. /\ \A r \in Req : run'[r] = "none"
        /\ run' \in [Req -> {"none", "queued", "check", "call"}]
        /\ screen' \in [Req -> {"none", "shown", "sent"}]
        /\ crashes' \in 0 .. MaxCrashes
        /\ lost' = lost \union Losing
        /\ requests' = Reopened("unknown")
        /\ UNCHANGED <<perms, file, age, seen, calls, wire, carried, overruled>>
    BY <1>1, PhoneAssumption DEF TypeOK, Restart, money
  <1>3. Losing \subseteq Req
    BY DEF Losing, Unsaved
  <1>4. ASSUME NEW r \in Req
        PROVE  /\ requests'[r] \in Entry \union {None}
               /\ file[r] = None => requests'[r] = None
               /\ file[r] # None => /\ file[r] \in Entry
                                    /\ requests'[r].status = IF file[r].status = "sending"
                                                             THEN "unknown" ELSE file[r].status
               /\ requests'[r] # None => requests'[r].status # "sending"
    <2>1. requests'[r] = IF file[r] # None /\ file[r].status = "sending"
                         THEN [file[r] EXCEPT !.status = "unknown"] ELSE file[r]
      BY <1>2 DEF Reopened
    <2>2. file[r] \in Entry \union {None}
      BY <1>1 DEF TypeOK
    <2>3. CASE file[r] = None
      BY <2>1, <2>3
    <2>4. CASE file[r] \in Entry
      <3>1. file[r] # None
        BY <2>4, NothingAssumption
      <3>2. [file[r] EXCEPT !.status = "unknown"] \in Entry
        BY <2>4 DEF Entry, Status
      <3> QED
        BY <2>1, <2>4, <3>1, <3>2 DEF Entry
    <2> QED
      BY <2>2, <2>3, <2>4
  <1>5. requests' \in Entries
    <2>1. requests' = [r \in Req |-> requests'[r]]
      BY <1>2 DEF Reopened
    <2> QED
      BY <1>4, <2>1 DEF Entries
  <1>6. TypeOK'
    BY <1>1, <1>2, <1>3, <1>5 DEF TypeOK, Entries
  <1>7. ASSUME NEW r \in Req PROVE Sound(r)'
    <2>1. r \notin seen => requests'[r] = None
      BY <1>1, <1>4 DEF Sound
    <2>2. r \notin lost' => r \notin lost /\ (requests[r] = file[r] \/ requests[r] = requests'[r])
      BY <1>2 DEF Losing, Unsaved
    <2>3. ASSUME r \notin lost', calls[r] > 0, requests'[r] # None
          PROVE  requests'[r].status \in Past
      <3>1. requests[r] # None
        BY <1>4, <2>2, <2>3
      <3>2. CASE run[r] = "call"
        BY <1>1, <1>4, <2>2, <2>3, <3>1, <3>2 DEF Sound, Past
      <3>3. CASE run[r] # "call"
        BY <1>1, <1>4, <2>2, <2>3, <3>1, <3>3 DEF Sound, Past
      <3> QED
        BY <3>2, <3>3
    <2> QED
      BY <1>1, <1>2, <2>1, <2>2, <2>3 DEF Sound
  <1> QED
    BY <1>6, <1>7, InvParts

----------------------------------------------------------------------------
(* What the owner sends, and the limit *)

\* ScreenIsOwners and MachineIsAuto, request by request.
Fair(r) ==
  /\ r \notin seen => screen[r] = "none"
  /\ r \in Regular =>
       /\ screen[r] # "none" => calls[r] = 0
       /\ screen[r] = "shown" /\ requests[r] # None => Is(r, {"opened", "declined", "expired"})
       /\ screen[r] = "sent" /\ requests[r] # None
            => Is(r, {"opened", "done", "declined", "expired"})
       /\ requests[r] # None /\ (Is(r, {"waiting_unlock", "sending"}) \/ calls[r] > 0)
            => requests[r].mode = "auto"

HeldOf(p) == {r \in Req : From[r] = p /\ Held(r)}

LEMMA FairParts ==
  /\ LInv <=> IsFiniteSet(seen) /\ (\A r \in Req : Fair(r)) /\ HeldWithin
  /\ LInv' <=> IsFiniteSet(seen)' /\ (\A r \in Req : Fair(r)') /\ HeldWithin'
  BY DEF LInv, ScreenIsOwners, MachineIsAuto, Fair, Regular

\* What a step in which AutoSend does not write may do with a request.
Quiet(r) ==
  \/ requests'[r] \in {requests[r], None} /\ screen'[r] = screen[r]
  \/ requests'[r] = requests[r] /\ screen[r] = "shown" /\ screen'[r] = "sent"
  \/ /\ Is(r, Open) /\ requests'[r] # None /\ requests'[r].mode = requests[r].mode
     /\ \/ requests'[r].status \in {"declined", "expired"} /\ screen'[r] = screen[r]
        \/ requests'[r].status = "opened" /\ screen'[r] = "shown"
        \/ requests'[r].status = "done" /\ screen[r] = "sent" /\ screen'[r] = "sent"
  \/ /\ Is(r, {"waiting_unlock"}) /\ requests'[r] # None /\ requests'[r].status = "waiting"
     /\ screen'[r] = screen[r]

(* Such a step keeps what is known of the request, and holds nothing new. *)
LEMMA QuietFair ==
  ASSUME IInv, NEW r \in Req, Fair(r), Quiet(r), calls'[r] = calls[r],
         r \in seen => r \in seen', r \in Regular' => r \in Regular,
         Counts(age'[r]) => Counts(age[r])
  PROVE  Fair(r)' /\ (Held(r)' => Held(r))
  <1>1. Sound(r) /\ calls[r] \in Nat /\ screen[r] \in {"none", "shown", "sent"}
    BY InvParts, PhoneAssumption DEF IInv, TypeOK
  <1>2. Is(r, Open) => r \in seen /\ (r \in Regular => calls[r] = 0)
    BY <1>1 DEF Sound, Is, Open, Regular, Past
  <1>3. CASE requests'[r] \in {requests[r], None} /\ screen'[r] = screen[r]
    BY <1>1, <1>3 DEF Fair, Held, Is
  <1>4. CASE requests'[r] = requests[r] /\ screen[r] = "shown" /\ screen'[r] = "sent"
    BY <1>1, <1>4 DEF Fair, Held, Is
  <1>5. CASE /\ Is(r, Open) /\ requests'[r] # None /\ requests'[r].mode = requests[r].mode
             /\ \/ requests'[r].status \in {"declined", "expired"} /\ screen'[r] = screen[r]
                \/ requests'[r].status = "opened" /\ screen'[r] = "shown"
                \/ requests'[r].status = "done" /\ screen[r] = "sent" /\ screen'[r] = "sent"
    BY <1>1, <1>2, <1>5 DEF Fair, Held, Is
  <1>6. CASE /\ Is(r, {"waiting_unlock"}) /\ requests'[r] # None
             /\ requests'[r].status = "waiting" /\ screen'[r] = screen[r]
    <2>1. Is(r, Open)
      BY <1>6 DEF Is, Open
    <2> QED
      BY <1>1, <1>2, <1>6, <2>1 DEF Fair, Held, Is
  <1> QED
    BY <1>3, <1>4, <1>5, <1>6 DEF Quiet

(* What AutoSend writes of a request it still has leaves it the machine's. *)
LEMMA WriteFair ==
  ASSUME IInv, NEW r \in Req, Fair(r), NEW status \in Past \union {"waiting_unlock", "sending"},
         Write(r, status)
  PROVE  Fair(r)' /\ (Held(r)' => Held(r))
  <1>1. Sound(r) /\ TypeOK /\ screen[r] \in {"none", "shown", "sent"} /\ status \in Status
    BY InvParts DEF IInv, TypeOK, Past, Status
  <1>2. /\ requests'[r] = None <=> requests[r] = None
        /\ requests'[r] # None => requests'[r].status = status
                                  /\ requests'[r].mode = requests[r].mode
        /\ UNCHANGED <<age, seen, screen, lost>>
    BY <1>1, WriteEntries
  <1>3. r \in Regular' => r \in Regular /\ Is(r, {"waiting_unlock", "sending"})
    BY <1>2 DEF Write, Regular
  <1>4. r \in Regular' => /\ screen[r] = "none" /\ requests[r] # None
                          /\ requests[r].mode = "auto"
    BY <1>1, <1>3 DEF Fair, Is
  <1>5. Fair(r)'
    BY <1>2, <1>4 DEF Fair
  <1>6. Held(r)' => Held(r)
    BY <1>2, <1>3, <1>4 DEF Held, Is
  <1> QED
    BY <1>5, <1>6

(* What is held is finitely much, so as long as nothing new is held the limit *)
(* is kept.                                                                   *)
LEMMA HeldLess ==
  ASSUME IInv, LInv, \A r \in Req : Held(r)' => Held(r)
  PROVE  HeldWithin'
  <1>1. ASSUME NEW p \in Peer
        PROVE  SumOf({r \in Req : From[r] = p /\ Held(r)'}) <= MAX_PHONE_DAILY
    <2> DEFINE S == {r \in Req : From[r] = p /\ Held(r)'}
    <2>1. HeldOf(p) \subseteq seen
      BY DEF HeldOf, Held, Is, IInv, OnlySeen
    <2>2. IsFiniteSet(HeldOf(p)) /\ S \in SUBSET HeldOf(p)
      BY <2>1, FS_Subset DEF LInv, HeldOf
    <2>3. \A r \in HeldOf(p) : Amount[r] \in Nat
      BY PhoneAssumption DEF HeldOf
    <2>4. SumOf(HeldOf(p)) <= MAX_PHONE_DAILY
      BY DEF LInv, HeldWithin, HeldOf
    <2> HIDE DEF S
    <2>5. \A r \in S : Amount[r] \in Nat /\ Amount[r] <= Amount[r]
      BY <2>2, <2>3
    <2>6. SumFunctionOnSet(Amount, S) <= SumFunctionOnSet(Amount, HeldOf(p))
      BY <2>2, <2>3, <2>5, SumOfMore
    <2>7. IsFiniteSet(S)
      BY <2>2, FS_Subset
    <2>8. SumFunctionOnSet(Amount, S) \in Nat /\ SumFunctionOnSet(Amount, HeldOf(p)) \in Nat
      BY <2>2, <2>3, <2>5, <2>7, SumType
    <2> QED
      BY <2>4, <2>6, <2>8, PhoneAssumption DEF SumOf, S
  <1> QED
    BY <1>1 DEF HeldWithin

LEMMA QuietLInv ==
  ASSUME IInv, LInv, \A r \in Req : Quiet(r), seen \subseteq seen', IsFiniteSet(seen'),
         UNCHANGED <<calls, overruled, lost>>, \A r \in Req : Counts(age'[r]) => Counts(age[r])
  PROVE  LInv'
  <1>1. ASSUME NEW r \in Req PROVE Fair(r)' /\ (Held(r)' => Held(r))
    <2>1. Fair(r) /\ Quiet(r) /\ calls'[r] = calls[r] /\ (r \in Regular' => r \in Regular)
          /\ (r \in seen => r \in seen') /\ (Counts(age'[r]) => Counts(age[r]))
      BY FairParts DEF Regular
    <2> QED
      BY <2>1, QuietFair
  <1> QED
    BY <1>1, FairParts, HeldLess

(* What a decision of the owner changes is a request that is open. *)
LEMMA DecisionQuiet ==
  ASSUME IInv, NEW rs \in SUBSET Req, \A r \in rs : Is(r, Open),
         NEW status \in {"opened", "done", "declined", "expired"}, Update(rs, status),
         \A r \in Req : screen'[r] = IF status = "opened" /\ r \in rs THEN "shown" ELSE screen[r],
         status = "done" => \A r \in rs : screen[r] = "sent"
  PROVE  \A r \in Req : Quiet(r)
  <1>1. /\ \A r \in Req \ rs : requests'[r] = requests[r]
        /\ \A r \in rs : /\ requests'[r] # None /\ requests'[r].status = status
                         /\ requests'[r].mode = requests[r].mode
    BY UpdateEntries DEF IInv, Is, Status
  <1>2. ASSUME NEW r \in rs PROVE Quiet(r)
    BY <1>1, <1>2 DEF Quiet
  <1>3. ASSUME NEW r \in Req \ rs PROVE Quiet(r)
    BY <1>1, <1>3 DEF Quiet
  <1> QED
    BY <1>2, <1>3

LEMMA OwnerQuiet ==
  ASSUME IInv, Owner
  PROVE  (\A r \in Req : Quiet(r)) /\ UNCHANGED <<calls, overruled, lost, seen, age>>
  <1>1. ASSUME NEW p \in Peer, Unpair(p) PROVE \A r \in Req : Quiet(r)
    <2> DEFINE rs == {r \in Req : From[r] = p /\ Is(r, {"waiting", "waiting_unlock"})}
    <2>1. rs \in SUBSET Req /\ Update(rs, "declined") /\ \A r \in rs : Is(r, Open)
      BY <1>1 DEF Unpair, Is, Open
    <2>2. \A r \in Req : screen'[r] = screen[r]
      BY <1>1 DEF Unpair
    <2> HIDE DEF rs
    <2> QED
      BY <2>1, <2>2, DecisionQuiet
  <1>2. ASSUME NEW p \in Peer, NEW g \in Grants, Approve(p, g) PROVE \A r \in Req : Quiet(r)
    BY <1>2 DEF Approve, Quiet
  <1>3. ASSUME NEW r \in Req, OpenRequest(r) PROVE \A q \in Req : Quiet(q)
    <2>1. {r} \in SUBSET Req /\ Update({r}, "opened") /\ \A q \in {r} : Is(q, Open)
      BY <1>3 DEF OpenRequest
    <2>2. \A q \in Req : screen'[q] = IF q \in {r} THEN "shown" ELSE screen[q]
      BY <1>3 DEF OpenRequest, IInv, TypeOK
    <2> QED
      BY <2>1, <2>2, DecisionQuiet
  <1>4. ASSUME NEW r \in Req, SendByHand(r) PROVE \A q \in Req : Quiet(q)
    BY <1>4 DEF SendByHand, Quiet, IInv, TypeOK, desk
  <1>5. ASSUME NEW r \in Req, RequestDone(r) PROVE \A q \in Req : Quiet(q)
    <2> DEFINE rs == {r} \intersect {q \in Req : Is(q, {"opened"})}
    <2>1. /\ rs \in SUBSET Req /\ Update(rs, "done") /\ \A q \in rs : Is(q, Open)
          /\ \A q \in rs : screen[q] = "sent"
      BY <1>5 DEF RequestDone, Is, Open
    <2>2. \A q \in Req : screen'[q] = screen[q]
      BY <1>5 DEF RequestDone
    <2> HIDE DEF rs
    <2> QED
      BY <2>1, <2>2, DecisionQuiet
  <1>6. ASSUME NEW r \in Req, Decline(r) PROVE \A q \in Req : Quiet(q)
    <2> DEFINE rs == {r} \intersect {q \in Req : Is(q, Open)}
    <2>1. rs \in SUBSET Req /\ Update(rs, "declined") /\ \A q \in rs : Is(q, Open)
      BY <1>6 DEF Decline
    <2>2. \A q \in Req : screen'[q] = screen[q]
      BY <1>6 DEF Decline
    <2> HIDE DEF rs
    <2> QED
      BY <2>1, <2>2, DecisionQuiet
  <1>7. UNCHANGED <<calls, overruled, lost, seen, age>>
    BY DEF Owner, Unpair, Approve, OpenRequest, SendByHand, RequestDone, Decline, desk, money, notes
  <1> QED
    BY <1>1, <1>2, <1>3, <1>4, <1>5, <1>6, <1>7 DEF Owner

LEMMA TickQuiet ==
  ASSUME IInv, Tick
  PROVE  (\A r \in Req : Quiet(r)) /\ UNCHANGED <<calls, overruled, lost, seen, age>>
  <1> DEFINE late   == {r \in Req : Expirable(r)}
             closed == Marked(late, "expired")
  <1>1. /\ late \in SUBSET Req /\ "expired" \in Status /\ Trim(closed, age)
        /\ \A r \in late : requests[r] # None /\ Is(r, Open)
        /\ UNCHANGED <<calls, overruled, lost, seen, age, screen>>
    BY DEF Tick, Expirable, Is, Status, money, notes
  <1> HIDE DEF late
  <1>2. /\ closed \in Entries /\ \A r \in Req \ late : closed[r] = requests[r]
        /\ \A r \in late : /\ closed[r] # None /\ closed[r].status = "expired"
                           /\ closed[r].mode = requests[r].mode
    BY <1>1, MarkedEntries DEF IInv
  <1> HIDE DEF closed
  <1>3. \A r \in Req : requests'[r] \in {closed[r], None}
    BY <1>1, <1>2, TrimKeeps
  <1>4. ASSUME NEW r \in Req PROVE Quiet(r)
    <2>1. CASE r \in late
      BY <1>1, <1>2, <1>3, <2>1 DEF Quiet
    <2>2. CASE r \notin late
      BY <1>1, <1>2, <1>3, <2>2 DEF Quiet
    <2> QED
      BY <2>1, <2>2
  <1> QED
    BY <1>1, <1>4

LEMMA RetryUnlockQuiet ==
  ASSUME IInv, RetryUnlock
  PROVE  (\A r \in Req : Quiet(r)) /\ UNCHANGED <<calls, overruled, lost, seen, age>>
  <1> DEFINE waiting == {r \in Req : Is(r, {"waiting_unlock"})}
             back    == [status |-> "waiting", mode |-> "desktop_confirm"]
  <1>1. PICK out \in SUBSET waiting :
          requests' = [r \in Req |-> IF r \notin out THEN requests[r] ELSE back]
    BY DEF RetryUnlock
  <1>2. back \in Entry
    BY DEF Entry, Status
  <1>3. back # None /\ back.status = "waiting"
    BY <1>2, NothingAssumption
  <1>4. UNCHANGED <<calls, overruled, lost, seen, age, screen>>
    BY DEF RetryUnlock, money, notes
  <1> HIDE DEF back
  <1> QED
    BY <1>1, <1>3, <1>4 DEF Quiet

(* Steps of others leave the requests and the send screen as they are. *)
LEMMA OtherQuiet ==
  ASSUME IInv,
         \/ \E r \in Req : StartRun(r) \/ Deny(r)
         \/ \E c \in wire : NodeSends(c) \/ NodeRefuses(c)
         \/ Clock \/ UNCHANGED vars
  PROVE  /\ \A r \in Req : Quiet(r)
         /\ UNCHANGED <<calls, overruled, lost>> /\ seen \subseteq seen'
         /\ IsFiniteSet(seen) => IsFiniteSet(seen')
         /\ \A r \in Req : Counts(age'[r]) => Counts(age[r])
  <1>1. requests' = requests /\ screen' = screen /\ UNCHANGED <<calls, overruled, lost>>
    BY DEF StartRun, Deny, NodeSends, NodeRefuses, Clock, vars, desk, money, notes
  <1>2. seen' = seen \/ \E r \in Req : seen' = seen \union {r}
    BY DEF StartRun, Deny, NodeSends, NodeRefuses, Clock, vars, desk, money, notes
  <1>3. \A r \in Req : Counts(age'[r]) => Counts(age[r])
    <2>1. CASE Clock
      <3>1. \A r \in Req : age[r] \in Age /\ age'[r] = IF Forgotten(age[r]) THEN 3 ELSE age[r] + 1
        BY <2>1 DEF Clock, IInv, TypeOK
      <3> QED
        BY <3>1 DEF Age, Counts
    <2>2. CASE ~Clock
      BY <2>2 DEF StartRun, Deny, NodeSends, NodeRefuses, vars, desk, money, notes
    <2> QED
      BY <2>1, <2>2
  <1> QED
    BY <1>1, <1>2, <1>3, FS_AddElement DEF Quiet

(* AutoSend writes of its own request only. *)
LEMMA WriteLInv ==
  ASSUME IInv, LInv, NEW r \in Req, NEW status \in Past \union {"waiting_unlock", "sending"},
         Write(r, status), \A q \in Req \ {r} : calls'[q] = calls[q]
  PROVE  LInv'
  <1>1. /\ TypeOK /\ status \in Status /\ overruled \subseteq overruled'
        /\ UNCHANGED <<age, seen, screen, lost>>
    BY DEF IInv, Past, Status, Write
  <1>2. \A q \in Req \ {r} : requests'[q] = requests[q]
    BY <1>1, WriteEntries
  <1>3. Fair(r)' /\ (Held(r)' => Held(r))
    BY FairParts, WriteFair
  <1>4. ASSUME NEW q \in Req \ {r} PROVE Fair(q)' /\ (Held(q)' => Held(q))
    <2>1. /\ Fair(q) /\ Quiet(q) /\ calls'[q] = calls[q] /\ (q \in Regular' => q \in Regular)
          /\ (q \in seen => q \in seen') /\ (Counts(age'[q]) => Counts(age[q]))
      BY <1>1, <1>2, FairParts DEF Regular, Quiet
    <2> QED
      BY <2>1, QuietFair
  <1> QED
    BY <1>1, <1>3, <1>4, FairParts, HeldLess

LEMMA RunLInv ==
  ASSUME IInv, LInv, NEW r \in Req, FindLocked(r) \/ FindUnlocked(r) \/ Answered(r) \/ Failed(r)
                                    \/ Unanswered(r)
  PROVE  LInv'
  <1>1. PICK status \in Past \union {"waiting_unlock", "sending"} : Write(r, status)
    BY DEF FindLocked, FindUnlocked, Answered, Failed, Unanswered, Result, Past
  <1>2. \A q \in Req \ {r} : calls'[q] = calls[q]
    BY DEF FindLocked, FindUnlocked, Answered, Failed, Unanswered, Result, money, IInv, TypeOK
  <1> QED
    BY <1>1, <1>2, WriteLInv

(* A request is taken for the machine when it fits: what is held of its phone  *)
(* is among what is counted as spent.                                          *)
LEMMA ReceiveWithin ==
  ASSUME IInv, LInv, NEW r \in Req, Receive(r), NEW p \in Peer,
         \A q \in Req \ {r} : Held(q)' => Held(q), Held(r)' => "auto" \in Authorized(r)
  PROVE  SumOf({q \in Req : From[q] = p /\ Held(q)'}) <= MAX_PHONE_DAILY
  <1> DEFINE S == {q \in Req : From[q] = p /\ Held(q)'}
             Counted == {q \in Req : /\ From[q] = p /\ Counts(age[q])
                                     /\ Is(q, {"waiting_unlock", "sending", "done", "unknown"})
                                     /\ requests[q].mode = "auto"}
  <1>1. /\ IsFiniteSet(seen) /\ r \notin seen /\ perms[From[r]] \in Grant
        /\ \A q \in Req : Is(q, Status) => q \in seen
    <2>1. perms[From[r]] # None /\ r \notin seen /\ From[r] \in Peer
      BY PhoneAssumption DEF Receive
    <2> QED
      BY <2>1 DEF LInv, IInv, TypeOK, OnlySeen, Is
  <1>2. /\ HeldOf(p) \subseteq seen /\ Counted \subseteq seen /\ HeldOf(p) \subseteq Counted
        /\ S \subseteq HeldOf(p) \union {r} /\ r \notin HeldOf(p)
    <2>1. \A q \in Req : Is(q, {"waiting_unlock", "sending", "done", "unknown"}) => q \in seen
      BY <1>1 DEF Is, Status
    <2>2. HeldOf(p) \subseteq Counted
      BY DEF HeldOf, Held
    <2> QED
      BY <1>1, <2>1, <2>2 DEF HeldOf
  <1>3. IsFiniteSet(HeldOf(p)) /\ IsFiniteSet(Counted)
    BY <1>1, <1>2, FS_Subset
  <1>4. \A q \in Req : Amount[q] \in Nat
    BY PhoneAssumption
  <1>5. HeldOf(p) \subseteq Req /\ Counted \subseteq Req /\ S \subseteq Req
    BY DEF HeldOf
  <1>6. Spent(p) = SumFunctionOnSet(Amount, Counted)
    BY DEF Spent, SumOf
  <1>7. SumFunctionOnSet(Amount, HeldOf(p)) <= MAX_PHONE_DAILY
    BY DEF LInv, HeldWithin, SumOf, HeldOf
  <1>8. r \in S => /\ Spent(p) + Amount[r] <= MAX_PHONE_DAILY /\ From[r] = p
    <2>1. SUFFICES ASSUME r \in S PROVE Spent(p) + Amount[r] <= MAX_PHONE_DAILY /\ From[r] = p
      OBVIOUS
    <2>2. From[r] = p /\ "auto" \in Authorized(r)
      BY <2>1
    <2>3. Spent(p) + Amount[r] <= perms[p].limit
      BY <2>2 DEF Authorized
    <2>4. perms[p].limit \in 0 .. MAX_PHONE_DAILY
      BY <1>1, <2>2 DEF Grant
    <2>5. Spent(p) \in Nat
      BY <1>3, <1>4, <1>5, <1>6, SumType
    <2> QED
      BY <1>4, <2>2, <2>3, <2>4, <2>5, PhoneAssumption
  <1> HIDE DEF S, Counted
  <1>9. /\ SumFunctionOnSet(Amount, HeldOf(p)) \in Nat /\ SumFunctionOnSet(Amount, Counted) \in Nat
        /\ SumFunctionOnSet(Amount, HeldOf(p)) <= SumFunctionOnSet(Amount, Counted)
    <2>1. (\A q \in Counted : Amount[q] \in Nat) /\ HeldOf(p) \in SUBSET Counted
          /\ \A q \in HeldOf(p) : Amount[q] \in Nat /\ Amount[q] <= Amount[q]
      BY <1>2, <1>4, <1>5
    <2>2. SumFunctionOnSet(Amount, HeldOf(p)) <= SumFunctionOnSet(Amount, Counted)
      BY <1>3, <2>1, SumOfMore
    <2> QED
      BY <1>3, <2>1, <2>2, SumType
  <1>10. CASE r \notin S
    <2>1. S \in SUBSET HeldOf(p)
      BY <1>2, <1>10
    <2>2. IsFiniteSet(S)
      BY <1>3, <2>1, FS_Subset
    <2>3. /\ \A q \in S : Amount[q] \in Nat /\ Amount[q] <= Amount[q]
          /\ \A q \in HeldOf(p) : Amount[q] \in Nat
      BY <1>4, <1>5
    <2>4. SumFunctionOnSet(Amount, S) <= SumFunctionOnSet(Amount, HeldOf(p))
      BY <1>3, <2>1, <2>3, SumOfMore
    <2>5. SumFunctionOnSet(Amount, S) \in Nat
      BY <2>2, <2>3, SumType
    <2> QED
      BY <1>7, <1>9, <2>4, <2>5, PhoneAssumption DEF SumOf, S
  <1>11. CASE r \in S
    <2>1. S \in SUBSET (HeldOf(p) \union {r}) /\ IsFiniteSet(HeldOf(p) \union {r})
      BY <1>2, <1>3, FS_AddElement
    <2>2. IsFiniteSet(S)
      BY <2>1, FS_Subset
    <2>3. /\ \A q \in S : Amount[q] \in Nat /\ Amount[q] <= Amount[q]
          /\ \A q \in HeldOf(p) \union {r} : Amount[q] \in Nat
          /\ \A q \in HeldOf(p) : Amount[q] \in Nat
          /\ Amount[r] \in Nat
      BY <1>4, <1>5
    <2>4. SumFunctionOnSet(Amount, S) <= SumFunctionOnSet(Amount, HeldOf(p) \union {r})
      BY <2>1, <2>3, SumOfMore
    <2>5. SumFunctionOnSet(Amount, HeldOf(p) \union {r})
            = Amount[r] + SumFunctionOnSet(Amount, HeldOf(p))
      BY <1>2, <1>3, <2>3, SumWith
    <2>6. SumFunctionOnSet(Amount, S) \in Nat
      BY <2>2, <2>3, SumType
    <2>7. SumFunctionOnSet(Amount, Counted) + Amount[r] <= MAX_PHONE_DAILY
      BY <1>6, <1>8, <1>11
    <2> QED
      BY <1>9, <2>3, <2>4, <2>5, <2>6, <2>7, PhoneAssumption DEF SumOf, S
  <1> QED
    BY <1>10, <1>11

LEMMA ReceiveLInv ==
  ASSUME IInv, LInv, NEW r \in Req, Receive(r)
  PROVE  LInv'
  <1>1. PICK mode \in Authorized(r) :
          LET added == [requests EXCEPT ![r] =
                          [status |-> IF mode = "auto" THEN "sending" ELSE "waiting",
                           mode |-> mode]] IN
          age' = [age EXCEPT ![r] = 0] /\ Trim(added, age')
    BY DEF Receive
  <1> DEFINE new   == [status |-> IF mode = "auto" THEN "sending" ELSE "waiting", mode |-> mode]
             added == [requests EXCEPT ![r] = new]
  <1>2. /\ TypeOK /\ Sound(r) /\ Fair(r) /\ r \notin seen
        /\ seen' = seen \union {r} /\ UNCHANGED <<calls, overruled, lost, screen>>
    BY InvParts, FairParts DEF Receive, money, notes
  <1>3. /\ new \in Entry /\ new.mode = mode
        /\ new.status = IF mode = "auto" THEN "sending" ELSE "waiting"
        /\ mode \in {"auto", "desktop_confirm"}
    BY DEF Authorized, Entry, Status
  <1>4. added \in Entries /\ added[r] = new /\ \A q \in Req \ {r} : added[q] = requests[q]
    <2> HIDE DEF new
    <2> QED
      BY <1>2, <1>3 DEF TypeOK, Entries
  <1>5. Trim(added, age')
    BY <1>1
  <1> HIDE DEF added
  <1>6. \A q \in Req : requests'[q] \in {added[q], None}
    BY <1>4, <1>5, TrimKeeps
  <1>7. /\ \A q \in Req \ {r} : age'[q] = age[q]
        /\ requests'[r] \in {new, None} /\ \A q \in Req \ {r} : requests'[q] \in {requests[q], None}
    BY <1>1, <1>2, <1>4, <1>6 DEF TypeOK
  <1> HIDE DEF new
  <1>8. ASSUME NEW q \in Req \ {r} PROVE Fair(q)' /\ (Held(q)' => Held(q))
    <2>1. /\ Fair(q) /\ Quiet(q) /\ calls'[q] = calls[q] /\ (q \in Regular' => q \in Regular)
          /\ (q \in seen => q \in seen') /\ (Counts(age'[q]) => Counts(age[q]))
      BY <1>2, <1>7, FairParts DEF Regular, Quiet
    <2> QED
      BY <2>1, QuietFair
  <1>9. Fair(r)'
    <2>1. screen'[r] = "none" /\ calls'[r] = 0
      BY <1>2 DEF Fair, Sound
    <2> QED
      BY <1>3, <1>7, <2>1 DEF Fair, Is
  <1>10. Held(r)' => "auto" \in Authorized(r)
    BY <1>1, <1>3, <1>7 DEF Held, Is
  <1>11. HeldWithin'
    BY <1>8, <1>10, ReceiveWithin DEF HeldWithin
  <1>12. IsFiniteSet(seen)'
    BY <1>2, FS_AddElement DEF LInv
  <1> QED
    BY <1>8, <1>9, <1>11, <1>12, FairParts

(* A restart finds a request that is not lost as it was, but for one that was  *)
(* being sent; the send screen it had opened is closed.                        *)
LEMMA RestartLInv ==
  ASSUME IInv, LInv, Restart
  PROVE  LInv'
  <1>1. /\ requests' = Reopened("unknown") /\ lost' = lost \union Losing
        /\ screen' = [r \in Req |-> IF screen[r] = "shown" THEN "none" ELSE screen[r]]
        /\ UNCHANGED <<age, seen, calls, overruled>>
    BY DEF Restart, money
  <1>2. ASSUME NEW r \in Req PROVE Fair(r)' /\ (Held(r)' => Held(r))
    <2>1. /\ Fair(r) /\ Sound(r) /\ calls[r] \in Nat /\ screen[r] \in {"none", "shown", "sent"}
          /\ screen'[r] = IF screen[r] = "shown" THEN "none" ELSE screen[r]
          /\ file[r] \in Entry \union {None}
      BY <1>1, InvParts, FairParts, PhoneAssumption DEF IInv, TypeOK
    <2>2. requests'[r] = IF file[r] # None /\ file[r].status = "sending"
                         THEN [file[r] EXCEPT !.status = "unknown"] ELSE file[r]
      BY <1>1 DEF Reopened
    <2>3. r \in Regular' => r \in Regular /\ (requests[r] = file[r] \/ requests[r] = requests'[r])
      BY <1>1 DEF Regular, Losing, Unsaved
    <2>4. r \in Regular' =>
            \/ requests'[r] = requests[r]
            \/ /\ Is(r, {"sending"}) /\ requests'[r] # None /\ requests'[r].status = "unknown"
               /\ requests'[r].mode = requests[r].mode
      <3>1. CASE file[r] # None /\ file[r].status = "sending"
        <4>1. file[r] \in Entry
          BY <2>1, <3>1
        <4>2. /\ [file[r] EXCEPT !.status = "unknown"] \in Entry
              /\ [file[r] EXCEPT !.status = "unknown"].status = "unknown"
              /\ [file[r] EXCEPT !.status = "unknown"].mode = file[r].mode
          BY <4>1 DEF Entry, Status
        <4> QED
          BY <2>2, <2>3, <3>1, <4>2, NothingAssumption DEF Is
      <3>2. CASE ~(file[r] # None /\ file[r].status = "sending")
        BY <2>2, <2>3, <3>2
      <3> QED
        BY <3>1, <3>2
    <2>5. r \notin seen' => screen'[r] = "none"
      BY <1>1, <2>1 DEF Fair
    <2>6. CASE r \notin Regular'
      BY <2>5, <2>6 DEF Fair, Held
    <2>7. CASE r \in Regular' /\ requests'[r] = requests[r]
      BY <1>1, <2>1, <2>3, <2>5, <2>7 DEF Fair, Held, Is
    <2>8. CASE /\ r \in Regular' /\ Is(r, {"sending"}) /\ requests'[r] # None
               /\ requests'[r].status = "unknown" /\ requests'[r].mode = requests[r].mode
      <3>1. screen[r] = "none" /\ requests[r].mode = "auto"
        BY <2>1, <2>3, <2>8 DEF Fair, Is
      <3>2. Fair(r)'
        BY <1>1, <2>1, <2>5, <2>8, <3>1 DEF Fair, Is
      <3>3. Held(r)' => Held(r)
        BY <1>1, <2>3, <2>8, <3>1 DEF Held, Is
      <3> QED
        BY <3>2, <3>3
    <2> QED
      BY <2>4, <2>6, <2>7, <2>8
  <1>3. HeldWithin'
    BY <1>2, HeldLess
  <1> QED
    BY <1>1, <1>2, <1>3, FairParts

----------------------------------------------------------------------------
(* The theorems *)

LEMMA StutterInv ==
  ASSUME IInv, UNCHANGED vars
  PROVE  IInv'
  BY DEF IInv, TypeOK, OnlySeen, CallIsSending, SentIsPast, CalledOnce,
         vars, desk, money, notes

LEMMA NextInv ==
  ASSUME IInv, [Next]_vars
  PROVE  IInv'
  <1>1. ASSUME NEW r \in Req, Receive(r) \/ Deny(r) \/ Run(r)
        PROVE  IInv'
    BY <1>1, ReceiveInv, DenyInv, RunInv
  <1>2. CASE Owner
    <2>1. ASSUME NEW p \in Peer, Unpair(p) \/ \E g \in Grants : Approve(p, g)
          PROVE  IInv'
      BY <2>1, UnpairInv, ApproveInv
    <2>2. ASSUME NEW r \in Req, OpenRequest(r) \/ SendByHand(r) \/ RequestDone(r) \/ Decline(r)
          PROVE  IInv'
      BY <2>2, OpenRequestInv, SendByHandInv, RequestDoneInv, DeclineInv
    <2> QED
      BY <1>2, <2>1, <2>2 DEF Owner
  <1>3. ASSUME NEW c \in wire, NodeSends(c) \/ NodeRefuses(c)
        PROVE  IInv'
    BY <1>3, NodeSendsInv, NodeRefusesInv
  <1>4. CASE RetryUnlock
    BY <1>4, RetryUnlockInv
  <1>5. CASE Tick \/ Clock \/ Restart
    BY <1>5, TickInv, ClockInv, RestartInv
  <1> QED
    BY <1>1, <1>2, <1>3, <1>4, <1>5, StutterInv DEF Next

(* The invariant holds in every state the desk reaches. *)
THEOREM Invariant == Spec => []IInv
  <1>1. IInv /\ [Next]_vars => IInv'
    BY NextInv
  <1> QED
    BY InitInv, <1>1, PTL DEF Spec

(* Every variable of the desk, the phones, the node and the clock keeps its    *)
(* type, and a transfer is in one place: asked for or carried out.             *)
THEOREM TypeCorrect == Spec => []TypeOK
  <1>1. IInv => TypeOK
    BY DEF IInv
  <1> QED
    BY Invariant, <1>1, PTL

(* The machine sends a request at most once, however often retry_unlock comes, *)
(* whichever saves fail and wherever the process dies, unless a restart did    *)
(* not find a change of that request: the status is "sending" before send_rvn  *)
(* is called and past after it.                                                *)
THEOREM RequestSentOnce == Spec => []SendsOnce
  <1>1. IInv => SendsOnce
    <2> SUFFICES ASSUME IInv, NEW c \in carried, NEW d \in carried, c[1] = d[1], c[1] \notin lost
                 PROVE  c = d
      BY DEF SendsOnce
    <2>1. c \in Req \X (1 .. MaxCalls) /\ d \in Req \X (1 .. MaxCalls)
      BY DEF IInv, TypeOK, Transfer
    <2>2. /\ c[2] <= calls[c[1]] /\ d[2] <= calls[d[1]]
          /\ calls[c[1]] <= 1 /\ calls[c[1]] \in Nat
      BY <2>1, PhoneAssumption DEF IInv, TypeOK, CalledOnce
    <2>3. c[2] = 1 /\ d[2] = 1
      BY <2>1, <2>2, PhoneAssumption
    <2> QED
      BY <2>1, <2>3
  <1> QED
    BY Invariant, <1>1, PTL

(* What the desk shows as declined or expired the machine has not sent and     *)
(* will not send, unless a restart did not find a change of that request: only *)
(* an open request is closed that way, and one that was sent is never open.    *)
THEOREM ClosedRequestsUnsent == Spec => []ClosedIsUnsent
  <1>1. IInv => ClosedIsUnsent
    <2> SUFFICES ASSUME IInv, NEW c \in carried \union wire,
                        Is(c[1], {"declined", "expired"}), c[1] \notin lost
                 PROVE  FALSE
      BY DEF ClosedIsUnsent
    <2>1. c[1] \in Req /\ c[2] \in Nat /\ c[2] >= 1
      BY PhoneAssumption DEF IInv, TypeOK, Transfer
    <2>2. calls[c[1]] > 0
      BY <2>1, PhoneAssumption DEF IInv, TypeOK
    <2>3. requests[c[1]] # None /\ requests[c[1]].status \in {"declined", "expired"}
      BY DEF Is
    <2>4. run[c[1]] # "call"
      BY <2>1, <2>3 DEF IInv, CallIsSending
    <2> QED
      BY <2>1, <2>2, <2>3, <2>4 DEF IInv, SentIsPast, Past
  <1> QED
    BY Invariant, <1>1, PTL

LEMMA InitLInv == Init => LInv
  <1> SUFFICES ASSUME Init PROVE LInv
    OBVIOUS
  <1>1. \A r \in Req : Fair(r)
    BY DEF Init, Fair, Is
  <1>2. ASSUME NEW p \in Peer PROVE SumOf({r \in Req : From[r] = p /\ Held(r)}) <= MAX_PHONE_DAILY
    <2>1. {r \in Req : From[r] = p /\ Held(r)} = {}
      BY DEF Init, Held, Is
    <2> QED
      BY <2>1, SumOfNone, PhoneAssumption DEF SumOf
  <1>3. IsFiniteSet(seen)
    BY FS_EmptySet DEF Init
  <1> QED
    BY <1>1, <1>2, <1>3, FairParts DEF HeldWithin

LEMMA NextLInv ==
  ASSUME IInv, LInv, [Next]_vars
  PROVE  LInv'
  <1>1. ASSUME NEW r \in Req, Receive(r) PROVE LInv'
    BY <1>1, ReceiveLInv
  <1>2. ASSUME NEW r \in Req, Run(r), ~StartRun(r) PROVE LInv'
    BY <1>2, RunLInv DEF Run
  <1>3. CASE Owner
    BY <1>3, OwnerQuiet, QuietLInv DEF LInv
  <1>4. CASE Tick
    BY <1>4, TickQuiet, QuietLInv DEF LInv
  <1>5. CASE RetryUnlock
    BY <1>5, RetryUnlockQuiet, QuietLInv DEF LInv
  <1>6. CASE Restart
    BY <1>6, RestartLInv
  <1>7. CASE \/ \E r \in Req : StartRun(r) \/ Deny(r)
             \/ \E c \in wire : NodeSends(c) \/ NodeRefuses(c)
             \/ Clock \/ UNCHANGED vars
    BY <1>7, OtherQuiet, QuietLInv DEF LInv
  <1> QED
    BY <1>1, <1>2, <1>3, <1>4, <1>5, <1>6, <1>7 DEF Next, Run

LEMMA LimitInvariant == Spec => []LInv
  <1>1. IInv /\ LInv /\ [Next]_vars => LInv'
    BY NextLInv
  <1> QED
    BY InitLInv, Invariant, <1>1, PTL DEF Spec

(* A request is not sent by the owner and by the machine, unless the desk had  *)
(* opened, closed or dropped it when AutoSend wrote, or a restart did not find *)
(* a change of it: what is on the owner's send screen AutoSend has not taken.  *)
THEOREM SentByOne == Spec => []OneSender
  <1>1. ASSUME IInv, LInv PROVE OneSender
    <2> SUFFICES ASSUME NEW c \in carried \union wire, screen[c[1]] = "sent",
                        c[1] \notin overruled \union lost
                 PROVE  FALSE
      BY DEF OneSender
    <2>1. c[1] \in Req /\ c[2] \in Nat /\ c[2] >= 1 /\ c[2] <= calls[c[1]] /\ calls[c[1]] \in Nat
      BY <1>1, PhoneAssumption DEF IInv, TypeOK, Transfer
    <2>2. calls[c[1]] = 0
      BY <1>1, <2>1 DEF LInv, ScreenIsOwners, Regular
    <2> QED
      BY <2>1, <2>2
  <1> QED
    BY Invariant, LimitInvariant, <1>1, PTL

(* Of the requests received within a day that the desk still has the machine   *)
(* sends no more than the highest limit a phone can be given, for any requests *)
(* and amounts: every one it has sent is among those the limit counts.         *)
THEOREM DayLimitHolds == Spec => []LimitByReceipt
  <1>1. ASSUME IInv, LInv PROVE LimitByReceipt
    <2> SUFFICES ASSUME NEW p \in Peer
                 PROVE  SumOf({r \in Req : /\ From[r] = p /\ Sent(r) /\ Counts(age[r])
                                           /\ r \notin overruled \union lost
                                           /\ Is(r, Status \ {"failed"})}) <= MAX_PHONE_DAILY
      BY DEF LimitByReceipt
    <2> DEFINE S == {r \in Req : /\ From[r] = p /\ Sent(r) /\ Counts(age[r])
                                 /\ r \notin overruled \union lost /\ Is(r, Status \ {"failed"})}
    <2>1. ASSUME NEW r \in S PROVE r \in HeldOf(p)
      <3>1. r \in Regular /\ Fair(r) /\ Sound(r) /\ screen[r] \in {"none", "shown", "sent"}
        BY <1>1, <2>1, InvParts, FairParts DEF Regular, IInv, TypeOK
      <3>2. calls[r] > 0 /\ calls[r] \in Nat
        <4>1. PICK c \in carried : c[1] = r
          BY <2>1 DEF Sent
        <4>2. c[2] \in Nat /\ c[2] >= 1 /\ c[2] <= calls[r] /\ calls[r] \in Nat
          BY <1>1, <4>1, PhoneAssumption DEF IInv, TypeOK, Transfer
        <4> QED
          BY <4>2
      <3>3. Is(r, {"sending", "done", "unknown"})
        BY <2>1, <3>1, <3>2 DEF Sound, Is, Past, Regular
      <3>4. screen[r] = "none" /\ requests[r].mode = "auto"
        BY <3>1, <3>2, <3>3 DEF Fair, Is
      <3> QED
        BY <2>1, <3>1, <3>3, <3>4 DEF HeldOf, Held, Is
    <2>2. HeldOf(p) \subseteq seen
      BY <1>1 DEF HeldOf, Held, Is, IInv, OnlySeen
    <2>3. IsFiniteSet(HeldOf(p))
      BY <1>1, <2>2, FS_Subset DEF LInv
    <2> HIDE DEF S
    <2>4. S \in SUBSET HeldOf(p) /\ IsFiniteSet(S)
      BY <2>1, <2>3, FS_Subset
    <2>5. /\ \A r \in S : Amount[r] \in Nat /\ Amount[r] <= Amount[r]
          /\ \A r \in HeldOf(p) : Amount[r] \in Nat
      BY <2>4, PhoneAssumption DEF HeldOf
    <2>6. SumFunctionOnSet(Amount, S) <= SumFunctionOnSet(Amount, HeldOf(p))
      BY <2>3, <2>4, <2>5, SumOfMore
    <2>7. SumFunctionOnSet(Amount, S) \in Nat /\ SumFunctionOnSet(Amount, HeldOf(p)) \in Nat
      BY <2>3, <2>4, <2>5, SumType
    <2>8. SumFunctionOnSet(Amount, HeldOf(p)) <= MAX_PHONE_DAILY
      BY <1>1 DEF LInv, HeldWithin, SumOf, HeldOf
    <2> QED
      BY <2>6, <2>7, <2>8, PhoneAssumption DEF SumOf, S
  <1> QED
    BY Invariant, LimitInvariant, <1>1, PTL
=============================================================================
