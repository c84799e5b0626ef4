-------------------------- MODULE WalletLinkProofs --------------------------
(* Proofs about the link to a phone: what is paid, told, revoked and missed,  *)
(* and the limit of a day, for any links, requests, copies of them, limits,   *)
(* orders in which relays return them and places where a command is cut short.*)
EXTENDS WalletLink, Sums

----------------------------------------------------------------------------
(* What the helpers leave of a state *)

\* The fields the invariant speaks of that most changes leave alone.
SameLinks(s, t) == /\ t.link = s.link /\ t.limit = s.limit /\ t.orphan = s.orphan
                   /\ t.wraps = s.wraps
SameRecord(s, t, r) == /\ t.status[r] = s.status[r] /\ t.result[r] = s.result[r]
                       /\ r \in t.spends <=> r \in s.spends
                       /\ r \in t.published => r \in s.published

LEMMA SetFields ==
  ASSUME NEW s \in State, NEW r \in Req, NEW x \in Status
  PROVE  /\ Set(s, r, x) \in State /\ SameLinks(s, Set(s, r, x))
         /\ Set(s, r, x).status[r] = x /\ Set(s, r, x).result = s.result
         /\ \A q \in Req \ {r} : SameRecord(s, Set(s, r, x), q)
         /\ Set(s, r, x).spends = s.spends /\ Set(s, r, x).published = s.published
  BY DEF State, Set, SameLinks, SameRecord

LEMMA RecordFields ==
  ASSUME NEW s \in State, NEW r \in Req, NEW x \in {"txid", "refused"}
  PROVE  /\ Record(s, r, x) \in State /\ SameLinks(s, Record(s, r, x))
         /\ Record(s, r, x).result[r] = x /\ Record(s, r, x).status = s.status
         /\ \A q \in Req \ {r} : SameRecord(s, Record(s, r, x), q)
         /\ Record(s, r, x).spends = s.spends /\ r \notin Record(s, r, x).published
  BY DEF State, Record, SameLinks, SameRecord

LEMMA RefusalFields ==
  ASSUME NEW s \in State, NEW r \in Req
  PROVE  /\ Refusal(s, r) \in State /\ SameLinks(s, Refusal(s, r))
         /\ Refusal(s, r).status[r] = "refused" /\ Refusal(s, r).result[r] = "refused"
         /\ \A q \in Req \ {r} : SameRecord(s, Refusal(s, r), q)
         /\ r \notin Refusal(s, r).published
  <1> DEFINE t == Set(s, r, "refused")
  <1>1. /\ t \in State /\ SameLinks(s, t) /\ t.status[r] = "refused"
        /\ \A q \in Req \ {r} : SameRecord(s, t, q)
    BY SetFields DEF Status
  <1> HIDE DEF t
  <1>2. /\ Record(t, r, "refused") \in State /\ SameLinks(t, Record(t, r, "refused"))
        /\ Record(t, r, "refused").result[r] = "refused"
        /\ Record(t, r, "refused").status = t.status
        /\ \A q \in Req \ {r} : SameRecord(t, Record(t, r, "refused"), q)
        /\ r \notin Record(t, r, "refused").published
    BY <1>1, RecordFields
  <1>3. Refusal(s, r) = Record(t, r, "refused")
    BY DEF Refusal, t
  <1> QED
    BY <1>1, <1>2, <1>3 DEF SameLinks, SameRecord

LEMMA ReadFields ==
  ASSUME NEW s \in State, NEW w \in Wrap
  PROVE  /\ [s EXCEPT !.wraps = @ \union {w}] \in State
         /\ [s EXCEPT !.wraps = @ \union {w}].wraps = s.wraps \union {w}
         /\ [s EXCEPT !.wraps = @ \union {w}].link = s.link
         /\ [s EXCEPT !.wraps = @ \union {w}].limit = s.limit
         /\ [s EXCEPT !.wraps = @ \union {w}].orphan = s.orphan
         /\ \A q \in Req : SameRecord(s, [s EXCEPT !.wraps = @ \union {w}], q)
  BY DEF State, SameRecord

LEMMA CancelFields ==
  ASSUME NEW s \in State, NEW l \in Link
  PROVE  LET t == CancelPending(s, l) IN
         /\ t \in State /\ t.link = [s.link EXCEPT ![l] = "revoked"]
         /\ t.limit = s.limit /\ t.orphan = s.orphan /\ t.wraps = s.wraps
         /\ t.revokeOut = s.revokeOut
         /\ \A q \in Req : \/ SameRecord(s, t, q)
                           \/ /\ s.status[q] = "pending" /\ t.status[q] = "refused"
                              /\ t.result[q] = "none"
                              /\ q \in t.spends <=> q \in s.spends
                              /\ q \in t.published <=> q \in s.published
  <1> DEFINE a == [r \in Req |-> IF LinkOf[r] = l /\ s.status[r] = "pending"
                                 THEN "refused" ELSE s.status[r]]
             b == [r \in Req |-> IF LinkOf[r] = l /\ s.status[r] = "pending"
                                 THEN "none" ELSE s.result[r]]
  <1>1. a \in [Req -> Status] /\ b \in [Req -> {"none", "txid", "refused"}]
    BY DEF State, Status
  <1>2. \A q \in Req : \/ a[q] = s.status[q] /\ b[q] = s.result[q]
                       \/ s.status[q] = "pending" /\ a[q] = "refused" /\ b[q] = "none"
    OBVIOUS
  <1>3. CancelPending(s, l) = [s EXCEPT !.link[l] = "revoked", !.status = a, !.result = b]
    BY DEF CancelPending
  <1> HIDE DEF a, b
  <1> DEFINE t == [s EXCEPT !.link[l] = "revoked", !.status = a, !.result = b]
  <1>4. t \in State
    BY <1>1 DEF State
  <1>5. /\ t.link = [s.link EXCEPT ![l] = "revoked"] /\ t.status = a /\ t.result = b
        /\ t.limit = s.limit /\ t.orphan = s.orphan /\ t.wraps = s.wraps
        /\ t.revokeOut = s.revokeOut /\ t.spends = s.spends /\ t.published = s.published
    BY DEF State
  <1> HIDE DEF t
  <1>6. CancelPending(s, l) = t
    BY <1>3 DEF t
  <1> QED
    BY <1>2, <1>4, <1>5, <1>6 DEF SameRecord

LEMMA CloseFields ==
  ASSUME NEW s \in State
  PROVE  LET t == CloseLapsed(s) IN
         /\ t \in State /\ SameLinks(s, t)
         /\ \A q \in Req : \/ SameRecord(s, t, q)
                           \/ /\ s.status[q] = "pending" /\ t.status[q] = "refused"
                              /\ t.result[q] = "refused"
                              /\ q \in t.spends <=> q \in s.spends
                              /\ q \in t.published <=> q \in s.published
  <1> DEFINE a == [r \in Req |-> IF r \in Lapsed(s) THEN "refused" ELSE s.status[r]]
             b == [r \in Req |-> IF r \in Lapsed(s) THEN "refused" ELSE s.result[r]]
  <1>1. a \in [Req -> Status] /\ b \in [Req -> {"none", "txid", "refused"}]
    BY DEF State, Status
  <1>2. \A q \in Req : \/ a[q] = s.status[q] /\ b[q] = s.result[q]
                       \/ s.status[q] = "pending" /\ a[q] = "refused" /\ b[q] = "refused"
    BY DEF Lapsed
  <1>3. CloseLapsed(s) = [s EXCEPT !.status = a, !.result = b]
    BY DEF CloseLapsed
  <1> HIDE DEF a, b
  <1> DEFINE t == [s EXCEPT !.status = a, !.result = b]
  <1>4. t \in State
    BY <1>1 DEF State
  <1>5. /\ t.status = a /\ t.result = b /\ t.spends = s.spends /\ t.published = s.published
        /\ SameLinks(s, t)
    BY DEF State, SameLinks
  <1> HIDE DEF t
  <1>6. CloseLapsed(s) = t
    BY <1>3 DEF t
  <1> QED
    BY <1>2, <1>4, <1>5, <1>6 DEF SameRecord

LEMMA MarkSentFields ==
  ASSUME NEW s \in State, NEW sent \in SUBSET Answer
  PROVE  LET t == MarkSent(s, sent) IN
         /\ t \in State /\ SameLinks(s, t)
         /\ t.status = s.status /\ t.result = s.result /\ t.spends = s.spends
         /\ \A q \in t.published : q \in s.published
                                   \/ (s.result[q] # "none" /\ Result(s, q) \in sent)
  <1> DEFINE a == s.published \union {r \in Req : s.result[r] # "none" /\ Result(s, r) \in sent}
             b == {r \in s.seenOut : Seen(r) \notin sent}
             c == {l \in s.revokeOut : Revoked(l) \notin sent}
  <1>1. a \subseteq Req /\ b \subseteq Req /\ c \subseteq Link
    BY DEF State
  <1>2. \A q \in a : q \in s.published \/ (s.result[q] # "none" /\ Result(s, q) \in sent)
    OBVIOUS
  <1>3. MarkSent(s, sent) = [s EXCEPT !.published = a, !.seenOut = b, !.revokeOut = c]
    BY DEF MarkSent, State
  <1> HIDE DEF a, b, c
  <1> QED
    BY <1>1, <1>2, <1>3 DEF State, SameLinks

LEMMA SentFields ==
  ASSUME NEW s \in State, NEW r \in Req
  PROVE  LET t == Sent(s, r) IN
         /\ t \in State /\ SameLinks(s, t)
         /\ t.status[r] = "sent" /\ t.result[r] = "txid" /\ r \in t.spends
         /\ r \in t.published => r \in s.published /\ s.result[r] = "txid"
         /\ \A q \in Req \ {r} : SameRecord(s, t, q)
  <1> DEFINE u == Set(s, r, "sent")
             v == IF s.result[r] = "txid" THEN u ELSE Record(u, r, "txid")
  <1>1. /\ u \in State /\ SameLinks(s, u) /\ u.status[r] = "sent" /\ u.result = s.result
        /\ \A q \in Req \ {r} : SameRecord(s, u, q)
        /\ u.spends = s.spends /\ u.published = s.published
    BY SetFields DEF Status
  <1> HIDE DEF u
  <1>2. /\ v \in State /\ SameLinks(u, v) /\ v.status = u.status /\ v.result[r] = "txid"
        /\ r \in v.published => r \in s.published /\ s.result[r] = "txid"
        /\ \A q \in Req \ {r} : SameRecord(u, v, q)
    <2>1. CASE s.result[r] = "txid"
      BY <1>1, <2>1 DEF SameLinks, SameRecord
    <2>2. CASE s.result[r] # "txid"
      BY <1>1, <2>2, RecordFields
    <2> QED
      BY <2>1, <2>2
  <1>3. Sent(s, r) = [v EXCEPT !.spends = @ \union {r}]
    BY DEF Sent, u
  <1> HIDE DEF v
  <1> QED
    BY <1>1, <1>2, <1>3 DEF State, SameLinks, SameRecord

----------------------------------------------------------------------------
(* Types *)

LEMMA AnswerType ==
  /\ \A r \in Req : /\ Seen(r) \in Answer
                    /\ [type |-> "txid", req |-> r] \in Answer
                    /\ [type |-> "refused", req |-> r] \in Answer
  /\ \A s \in State, r \in Req : s.result[r] # "none" => Result(s, r) \in Answer
  /\ \A l \in Link : Revoked(l) \in Answer
  <1>1. \A s \in State, r \in Req : s.result[r] \in {"none", "txid", "refused"}
    BY DEF State
  <1> QED
    BY <1>1 DEF Answer, Seen, Result, Revoked

LEMMA UndeliveredType ==
  ASSUME NEW s \in State
  PROVE  Undelivered(s) \in SUBSET Answer
  <1>1. \A r \in s.seenOut : r \in Req
    BY DEF State
  <1>2. \A l \in s.revokeOut : l \in Link
    BY DEF State
  <1> QED
    BY <1>1, <1>2, AnswerType DEF Undelivered

LEMMA ResultsType == \A S \in SUBSET Answer : Results(S) \in SUBSET Answer
  BY DEF Results

LEMMA WrapType ==
  /\ \A l \in Link : /\ [type |-> "accept", link |-> l] \in Wrap
                     /\ [type |-> "revoke", link |-> l] \in Wrap
  /\ \A r \in Req : \A c \in 1 .. Copies[r] : [type |-> "request", req |-> r, copy |-> c] \in Wrap
  /\ \A w \in Asked : w \in Wrap /\ w.req \in Req /\ w.type = "request"
  <1>1. \A w \in Asked : w.req \in Req /\ w.type = "request"
    BY DEF Asked
  <1>2. \A r \in Req : \A c \in 1 .. Copies[r] : [type |-> "request", req |-> r, copy |-> c] \in Asked
    BY DEF Asked
  <1> QED
    BY <1>1, <1>2 DEF Wrap, Spoken

\* The parts of the type that most steps leave alone.
OutsideType == /\ phone \in [Link -> {"none", "offered", "accepted", "revoked"}]
               /\ asks \in [Req -> Nat] /\ \A r \in Req : asks[r] <= Copies[r]
               /\ relay \subseteq Wrap
CommandType == /\ window \subseteq Wrap /\ whole \in BOOLEAN
               /\ mem \in State \union {None} /\ (pc = "process" => mem \in State)
               /\ pc \in Labels /\ cur \in Req \union {None} /\ (pc \in Paying => cur \in Req)
               /\ out \subseteq Answer
RestType == /\ told \subseteq Answer /\ marker \in Req \union {None} /\ pays \in [Req -> Nat]
            /\ expired \subseteq Req /\ old \subseteq Req /\ early \subseteq Req
            /\ overdue \subseteq Req /\ crashes \in 0 .. MaxCrashes

LEMMA TypeParts ==
  /\ TypeOK <=> OutsideType /\ session \in Sessions /\ disk \in State /\ CommandType /\ RestType
  /\ TypeOK' <=> OutsideType' /\ session' \in Sessions /\ disk' \in State /\ CommandType'
                 /\ RestType'
  BY DEF TypeOK, OutsideType, CommandType, RestType

LEMMA PhoneType == ASSUME TypeOK, Phone PROVE TypeOK'
  <1>1. OutsideType'
    <2>1. ASSUME NEW l \in Link, PhoneAccept(l) \/ PhoneRevoke(l) PROVE OutsideType'
      BY <2>1, WrapType DEF PhoneAccept, PhoneRevoke, TypeOK, OutsideType
    <2>2. ASSUME NEW r \in Req, PhoneAsk(r) PROVE OutsideType'
      <3>1. /\ asks' = [asks EXCEPT ![r] = asks[r] + 1] /\ phone' = phone
            /\ relay' = relay \union {[type |-> "request", req |-> r, copy |-> asks'[r]]}
            /\ asks[r] \in Nat /\ asks[r] < Copies[r] /\ Copies[r] \in Nat
        BY <2>2, LinkAssumption DEF PhoneAsk, TypeOK
      <3>2. asks' \in [Req -> Nat] /\ asks'[r] = asks[r] + 1 /\ \A q \in Req : asks'[q] <= Copies[q]
        BY <3>1 DEF TypeOK
      <3>3. [type |-> "request", req |-> r, copy |-> asks'[r]] \in Wrap
        BY <3>1, <3>2, WrapType
      <3> QED
        BY <3>1, <3>2, <3>3 DEF OutsideType, TypeOK
    <2> QED
      BY <2>1, <2>2 DEF Phone
  <1>2. UNCHANGED <<session, disk, command, money, told, clock, notes, crashes>>
    BY DEF Phone, PhoneAccept, PhoneRevoke, PhoneAsk
  <1> QED
    BY <1>1, <1>2, TypeParts DEF command, money, clock, notes, CommandType, RestType

LEMMA ReadType ==
  ASSUME TypeOK, NEW w \in Wrap, Reading(w)
  PROVE  /\ mem \in State /\ pc = "process" /\ Read(w) \in State
         /\ UNCHANGED <<phone, asks, relay, window, whole, pc, cur, marker, pays, told,
                        expired, old, crashes>>
  BY ReadFields DEF Reading, TypeOK, Read, outside, money, clock

\* What a message may change.
LEMMA MessageType ==
  ASSUME TypeOK, NEW w \in Wrap, Reading(w), mem' \in State, disk' \in {disk, mem'},
         session' \in Sessions, out' \in SUBSET Answer,
         early' \in SUBSET Req, overdue' \in SUBSET Req
  PROVE  TypeOK'
  <1>1. UNCHANGED <<phone, asks, relay, window, whole, pc, cur, marker, pays, told,
                    expired, old, crashes>>
    BY DEF Reading, outside, money, clock
  <1>2. disk' \in State
    BY DEF TypeOK
  <1>3. OutsideType'
    BY <1>1 DEF TypeOK, OutsideType
  <1>4. CommandType'
    BY <1>1 DEF TypeOK, CommandType
  <1>5. RestType'
    BY <1>1 DEF TypeOK, RestType
  <1> QED
    BY <1>2, <1>3, <1>4, <1>5, TypeParts

(* The state a new request is read into, and one that is refused. *)
LEMMA NewFields ==
  ASSUME NEW s \in State, NEW r \in Req
  PROVE  LET t == [Set(s, r, "pending") EXCEPT !.seenOut = @ \union {r}] IN
         /\ t \in State /\ SameLinks(s, t) /\ t.status[r] = "pending" /\ t.result = s.result
         /\ \A q \in Req \ {r} : SameRecord(s, t, q)
         /\ t.spends = s.spends /\ t.published = s.published
  <1> DEFINE u == Set(s, r, "pending")
  <1>1. /\ u \in State /\ SameLinks(s, u) /\ u.status[r] = "pending" /\ u.result = s.result
        /\ \A q \in Req \ {r} : SameRecord(s, u, q)
        /\ u.spends = s.spends /\ u.published = s.published
    BY SetFields DEF Status
  <1> HIDE DEF u
  <1>2. LET t == [u EXCEPT !.seenOut = @ \union {r}] IN
        /\ t \in State /\ SameLinks(u, t) /\ t.status = u.status /\ t.result = u.result
        /\ t.spends = u.spends /\ t.published = u.published
    BY <1>1 DEF State, SameLinks
  <1> QED
    BY <1>1, <1>2 DEF u, SameLinks, SameRecord

LEMMA RefusedFields ==
  ASSUME NEW s \in State, NEW r \in Req
  PROVE  LET t == [Refusal(s, r) EXCEPT !.seenOut = @ \ {r}] IN
         /\ t \in State /\ SameLinks(s, t) /\ t.status[r] = "refused" /\ t.result[r] = "refused"
         /\ \A q \in Req \ {r} : SameRecord(s, t, q)
         /\ r \notin t.published
  <1> DEFINE u == Refusal(s, r)
  <1>1. /\ u \in State /\ SameLinks(s, u) /\ u.status[r] = "refused" /\ u.result[r] = "refused"
        /\ \A q \in Req \ {r} : SameRecord(s, u, q)
        /\ r \notin u.published
    BY RefusalFields
  <1> HIDE DEF u
  <1>2. LET t == [u EXCEPT !.seenOut = @ \ {r}] IN
        /\ t \in State /\ SameLinks(u, t) /\ t.status = u.status /\ t.result = u.result
        /\ t.spends = u.spends /\ t.published = u.published
    BY <1>1 DEF State, SameLinks
  <1> QED
    BY <1>1, <1>2 DEF u, SameLinks, SameRecord

(* A revocation ends a live link and is remembered of one that is not known. *)
LEMMA RevokeFields ==
  ASSUME NEW s \in State, NEW l \in Link
  PROVE  LET t == CASE s.link[l] = "live" -> CancelPending(s, l)
                    [] s.link[l] = "none" -> [s EXCEPT !.orphan = @ \union {l}]
                    [] OTHER -> s IN
         /\ t \in State /\ t.wraps = s.wraps
         /\ \A k \in Link \ {l} : t.link[k] = s.link[k] /\ (k \in t.orphan <=> k \in s.orphan)
         /\ t.link[l] = "revoked" \/ (t.link[l] = "none" /\ l \in t.orphan)
         /\ \A q \in Req : \/ SameRecord(s, t, q)
                           \/ /\ s.status[q] = "pending" /\ t.status[q] = "refused"
                              /\ t.result[q] = "none"
                              /\ q \in t.spends <=> q \in s.spends
                              /\ q \in t.published <=> q \in s.published
  <1>1. s.link \in [Link -> {"none", "live", "revoked"}]
    BY DEF State
  <1>2. CASE s.link[l] = "live"
    <2> DEFINE t == CancelPending(s, l)
    <2>1. /\ t \in State /\ t.link = [s.link EXCEPT ![l] = "revoked"]
          /\ t.orphan = s.orphan /\ t.wraps = s.wraps
          /\ \A q \in Req : \/ SameRecord(s, t, q)
                            \/ /\ s.status[q] = "pending" /\ t.status[q] = "refused"
                               /\ t.result[q] = "none"
                               /\ q \in t.spends <=> q \in s.spends
                               /\ q \in t.published <=> q \in s.published
      BY CancelFields
    <2> HIDE DEF t
    <2>2. t.link[l] = "revoked" /\ \A k \in Link \ {l} : t.link[k] = s.link[k]
      BY <1>1, <2>1
    <2>3. t = CASE s.link[l] = "live" -> CancelPending(s, l)
                [] s.link[l] = "none" -> [s EXCEPT !.orphan = @ \union {l}]
                [] OTHER -> s
      BY <1>2 DEF t
    <2> QED
      BY <2>1, <2>2, <2>3
  <1>3. CASE s.link[l] = "none"
    <2>1. LET t == [s EXCEPT !.orphan = @ \union {l}] IN
          /\ t \in State /\ t.wraps = s.wraps /\ t.link = s.link
          /\ t.orphan = s.orphan \union {l}
          /\ \A q \in Req : SameRecord(s, t, q)
      BY DEF State, SameRecord
    <2> QED
      BY <1>3, <2>1
  <1>4. CASE s.link[l] = "revoked"
    BY <1>4 DEF SameRecord
  <1> QED
    BY <1>1, <1>2, <1>3, <1>4

LEMMA TakeType == ASSUME TypeOK, NEW w \in Asked, TakeRequest(w) PROVE TypeOK'
  <1>1. /\ w \in Wrap /\ w.req \in Req /\ Reading(w) /\ mem \in State /\ Read(w) \in State
        /\ session \in Sessions /\ out \in SUBSET Answer /\ early \in SUBSET Req
        /\ overdue \in SUBSET Req
    <2>1. w \in Wrap /\ w.req \in Req /\ Reading(w)
      BY WrapType DEF TakeRequest, TakeUnknown, TakeNew, TakeKnown, TakeRefused, TakeAfterRevoke
    <2> QED
      BY <2>1, ReadType DEF TypeOK
  <1>2. CASE TakeUnknown(w) \/ TakeAfterRevoke(w)
    BY <1>1, <1>2, MessageType DEF TakeUnknown, TakeAfterRevoke, notes
  <1>3. CASE TakeNew(w)
    <2>1. mem' \in State
      BY <1>1, <1>3, NewFields DEF TakeNew
    <2> QED
      BY <1>1, <1>3, <2>1, MessageType, AnswerType DEF TakeNew, notes
  <1>4. CASE TakeKnown(w)
    <2>1. out' \in SUBSET Answer
      BY <1>1, <1>4, AnswerType DEF TakeKnown
    <2> QED
      BY <1>1, <1>4, <2>1, MessageType DEF TakeKnown, notes
  <1>5. CASE TakeRefused(w)
    <2>1. mem' \in State
      BY <1>1, <1>5, RefusedFields DEF TakeRefused
    <2> QED
      BY <1>1, <1>5, <2>1, MessageType, AnswerType DEF TakeRefused
  <1> QED
    BY <1>2, <1>3, <1>4, <1>5 DEF TakeRequest

LEMMA InboxType == ASSUME TypeOK, Inbox PROVE TypeOK'
  <1>1. ASSUME NEW l \in Link, TakeAccept(l) PROVE TypeOK'
    <2> DEFINE w == [type |-> "accept", link |-> l]
    <2>1. w \in Wrap /\ Reading(w) /\ mem' = Read(w) /\ UNCHANGED <<disk, out, early, overdue>>
      BY <1>1, WrapType DEF TakeAccept, notes
    <2>2. session' \in Sessions
      BY <1>1 DEF TakeAccept, TypeOK, Sessions
    <2> HIDE DEF w
    <2> QED
      BY <2>1, <2>2, ReadType, MessageType DEF TypeOK
  <1>2. ASSUME NEW l \in Link, TakeRevoke(l) PROVE TypeOK'
    <2> DEFINE w == [type |-> "revoke", link |-> l]
    <2>1. /\ w \in Wrap /\ Reading(w) /\ UNCHANGED <<session, disk, out, early, overdue>>
          /\ mem' = CASE mem.link[l] = "live" -> CancelPending(Read(w), l)
                      [] mem.link[l] = "none" -> [Read(w) EXCEPT !.orphan = @ \union {l}]
                      [] OTHER -> Read(w)
      BY <1>2, WrapType DEF TakeRevoke, notes
    <2> HIDE DEF w
    <2>2. Read(w) \in State /\ Read(w).link = mem.link
      BY <2>1, ReadType, ReadFields DEF Read
    <2>3. mem' = CASE Read(w).link[l] = "live" -> CancelPending(Read(w), l)
                   [] Read(w).link[l] = "none" -> [Read(w) EXCEPT !.orphan = @ \union {l}]
                   [] OTHER -> Read(w)
      BY <2>1, <2>2
    <2>4. mem' \in State
      BY <2>2, <2>3, RevokeFields
    <2> QED
      BY <2>1, <2>4, MessageType DEF TypeOK
  <1>3. CASE EndProcess
    <2>1. mem \in State /\ disk' = CloseLapsed(mem) /\ disk' \in State
      BY <1>3, CloseFields DEF EndProcess, TypeOK
    <2>2. out' \subseteq Answer
      BY <1>3, <2>1, UndeliveredType DEF EndProcess, TypeOK
    <2>3. CommandType'
      BY <1>3, <2>2 DEF EndProcess, TypeOK, CommandType, Labels, Paying
    <2>4. OutsideType' /\ RestType' /\ session' \in Sessions
      BY <1>3 DEF EndProcess, TypeOK, OutsideType, RestType, money, clock, notes
    <2> QED
      BY <2>1, <2>3, <2>4, TypeParts
  <1> QED
    BY <1>1, <1>2, <1>3, TakeType DEF Inbox


(* A limit the owner chooses, for a link confirmed with it or confirmed before. *)
LEMMA ChosenFields ==
  ASSUME NEW s \in State, NEW l \in Link, NEW x \in Limits
  PROVE  /\ LET t == [s EXCEPT !.limit[l] = x] IN
            /\ t \in State /\ t.link = s.link /\ t.orphan = s.orphan /\ t.wraps = s.wraps
            /\ \A q \in Req : SameRecord(s, t, q)
         /\ LET t == [s EXCEPT !.link[l] = "live", !.limit[l] = x] IN
            /\ t \in State /\ t.link = [s.link EXCEPT ![l] = "live"]
            /\ t.orphan = s.orphan /\ t.wraps = s.wraps
            /\ \A q \in Req : SameRecord(s, t, q)
  <1>1. LET t == [s EXCEPT !.limit[l] = x] IN
        /\ t \in State /\ t.link = s.link /\ t.orphan = s.orphan /\ t.wraps = s.wraps
        /\ t.status = s.status /\ t.result = s.result /\ t.spends = s.spends
        /\ t.published = s.published
    BY DEF State
  <1>2. LET t == [s EXCEPT !.link[l] = "live", !.limit[l] = x] IN
        /\ t \in State /\ t.link = [s.link EXCEPT ![l] = "live"]
        /\ t.orphan = s.orphan /\ t.wraps = s.wraps
        /\ t.status = s.status /\ t.result = s.result /\ t.spends = s.spends
        /\ t.published = s.published
    BY DEF State
  <1> QED
    BY <1>1, <1>2 DEF SameRecord

LEMMA OwnerType == ASSUME TypeOK, Owner PROVE TypeOK'
  <1>1. /\ OutsideType /\ session \in Sessions /\ disk \in State /\ CommandType /\ RestType
        /\ NoSession \in Sessions
    BY TypeParts DEF NoSession, Sessions
  <1>2. ASSUME NEW l \in Link, Offer(l) PROVE TypeOK'
    <2>1. OutsideType' /\ session' \in Sessions
      BY <1>1, <1>2 DEF Offer, OutsideType, Sessions
    <2> QED
      BY <1>1, <1>2, <2>1, TypeParts
      DEF Offer, command, money, clock, notes, CommandType, RestType
  <1>3. ASSUME NEW l \in Link, Confirm(l) \/ SetLimit(l) PROVE TypeOK'
    <2>1. disk' \in State
      <3>1. \A x \in Limits : /\ [disk EXCEPT !.link[l] = "live", !.limit[l] = x] \in State
                             /\ [disk EXCEPT !.limit[l] = x] \in State
        BY <1>1, ChosenFields
      <3> QED
        BY <1>3, <3>1 DEF Confirm, SetLimit
    <2>2. session' \in Sessions /\ UNCHANGED <<outside, command, money, told, clock, notes, crashes>>
      BY <1>1, <1>3 DEF Confirm, SetLimit
    <2> QED
      BY <1>1, <2>1, <2>2, TypeParts
      DEF outside, command, money, clock, notes, OutsideType, CommandType, RestType
  <1>4. ASSUME NEW l \in Link, RevokeLink(l) PROVE TypeOK'
    <2>1. CancelPending(disk, l) \in State
      BY <1>1, CancelFields
    <2>2. disk' \in State
      BY <1>4, <2>1 DEF RevokeLink, State
    <2>3. CommandType'
      BY <1>1, <1>4, AnswerType DEF RevokeLink, CommandType, Labels, Paying
    <2> QED
      BY <1>1, <1>4, <2>2, <2>3, TypeParts
      DEF RevokeLink, outside, money, clock, notes, OutsideType, RestType
  <1>5. ASSUME NEW r \in Req, Approve(r) PROVE TypeOK'
    <2>1. CommandType'
      BY <1>1, <1>5 DEF Approve, CommandType, Labels
    <2> QED
      BY <1>1, <1>5, <2>1, TypeParts
      DEF Approve, outside, money, clock, notes, OutsideType, RestType
  <1>6. ASSUME NEW r \in Req, ApproveAgain(r) \/ Refuse(r) PROVE TypeOK'
    <2>1. disk' \in State /\ disk'.result[r] # "none"
      BY <1>1, <1>6, SentFields, RefusalFields DEF ApproveAgain, Refuse
    <2>2. out' \subseteq Answer /\ pc' = "deliver" /\ UNCHANGED <<mem, window, whole, cur>>
      BY <1>6, <2>1, AnswerType DEF ApproveAgain, Refuse
    <2>3. CommandType'
      BY <1>1, <2>2 DEF CommandType, Labels, Paying
    <2>4. UNCHANGED <<outside, session, money, told, clock, notes, crashes>>
      BY <1>6 DEF ApproveAgain, Refuse
    <2> QED
      BY <1>1, <2>1, <2>3, <2>4, TypeParts
      DEF outside, money, clock, notes, OutsideType, RestType
  <1>7. CASE DropOffer
    BY <1>1, <1>7, TypeParts
    DEF DropOffer, outside, command, money, clock, notes, OutsideType, CommandType, RestType
  <1> QED
    BY <1>2, <1>3, <1>4, <1>5, <1>6, <1>7 DEF Owner

LEMMA StepType == ASSUME TypeOK, Step PROVE TypeOK'
  <1>1. /\ OutsideType /\ session \in Sessions /\ disk \in State /\ CommandType /\ RestType
        /\ cur \in Req
    BY TypeParts DEF TypeOK, Paying, Step, NotBegun, Begin, Mark, Abandon, BackToPending, Broadcast,
                     LeaveUnknown, Complete, Finish
  <1>2. UNCHANGED <<outside, session, told, clock, notes, crashes>>
    BY DEF Step, NotBegun, Begin, Mark, Abandon, BackToPending, Broadcast, LeaveUnknown,
           Complete, Finish, money
  <1>3. disk' \in State
    <2>1. /\ \A x \in {"sending", "pending", "unknown"} : Set(disk, cur, x) \in State
          /\ Sent(disk, cur) \in State
      BY <1>1, SetFields, SentFields DEF Status
    <2> QED
      BY <1>1, <2>1 DEF Step, NotBegun, Begin, Mark, Abandon, BackToPending, Broadcast,
                        LeaveUnknown, Complete, Finish
  <1>4. marker' \in Req \union {None} /\ pays' \in [Req -> Nat]
    BY <1>1 DEF RestType, Step, NotBegun, Begin, Mark, Abandon, BackToPending, Broadcast,
                LeaveUnknown, Complete, Finish, money
  <1>5. CommandType'
    <2>1. CASE Finish
      <3>1. disk'.result[cur] # "none"
        BY <1>1, <2>1, SentFields DEF Finish
      <3>2. out' \subseteq Answer
        BY <1>1, <1>3, <2>1, <3>1, AnswerType DEF Finish
      <3> QED
        BY <1>1, <2>1, <3>2 DEF Finish, CommandType, Labels, Paying
    <2>2. CASE \E x \in Labels \ {"process"} : Goto(x)
      BY <1>1, <2>2 DEF CommandType, Goto
    <2>3. CASE Stop
      BY <1>1, <2>3 DEF CommandType, Stop, Labels, Paying
    <2> QED
      BY <2>1, <2>2, <2>3 DEF Labels, Step, NotBegun, Begin, Mark, Abandon, BackToPending,
                              Broadcast, LeaveUnknown, Complete
  <1> QED
    BY <1>1, <1>2, <1>3, <1>4, <1>5, TypeParts
    DEF outside, clock, notes, OutsideType, RestType

LEMMA NextType == ASSUME TypeOK, Next PROVE TypeOK'
  <1>1. OutsideType /\ session \in Sessions /\ disk \in State /\ CommandType /\ RestType
    BY TypeParts
  <1>2. ASSUME NEW complete \in BOOLEAN, Fetch(complete) PROVE TypeOK'
    <2>1. CommandType'
      BY <1>1, <1>2 DEF Fetch, OutsideType, CommandType, Labels, Paying
    <2> QED
      BY <1>1, <1>2, <2>1, TypeParts
      DEF Fetch, outside, money, clock, notes, OutsideType, RestType
  <1>3. ASSUME NEW sent \in SUBSET out, Deliver(sent) PROVE TypeOK'
    <2>1. sent \in SUBSET Answer
      BY <1>1 DEF CommandType
    <2>2. disk' \in State /\ told' \subseteq Answer
      BY <1>1, <1>3, <2>1, MarkSentFields, ResultsType DEF Deliver, RestType
    <2>3. CommandType'
      BY <1>1, <1>3 DEF Deliver, CommandType, Labels, Paying
    <2> QED
      BY <1>1, <1>3, <2>2, <2>3, TypeParts
      DEF Deliver, outside, money, clock, notes, OutsideType, RestType
  <1>4. CASE (\E r \in Req : Expire(r)) \/ DayPasses
    <2>1. RestType' /\ UNCHANGED <<outside, session, disk, command>>
      BY <1>1, <1>4 DEF Expire, DayPasses, money, notes, RestType
    <2> QED
      BY <1>1, <2>1, TypeParts DEF outside, command, OutsideType, CommandType
  <1>5. CASE CutShort
    <2>1. told' \subseteq Answer /\ crashes' \in 0 .. MaxCrashes
      BY <1>1, <1>5, ResultsType, LinkAssumption DEF CutShort, CommandType, RestType
    <2>2. RestType'
      BY <1>1, <1>5, <2>1 DEF CutShort, RestType, money, clock, notes
    <2>3. CommandType'
      BY <1>1, <1>5 DEF CutShort, CommandType, Labels, Paying
    <2>4. session' \in Sessions /\ UNCHANGED <<outside, disk>>
      BY <1>5 DEF CutShort, NoSession, Sessions
    <2> QED
      BY <1>1, <2>2, <2>3, <2>4, TypeParts DEF outside, OutsideType
  <1> QED
    BY <1>2, <1>3, <1>4, <1>5, PhoneType, OwnerType, StepType, InboxType DEF Next, Delivery

LEMMA InitType == ASSUME Init PROVE TypeOK
  <1>1. disk \in State
    <2>1. PICK x \in Limits :
            disk = [link |-> [l \in Link |-> "none"], limit |-> [l \in Link |-> x],
                    orphan |-> {}, revokeOut |-> {},
                    status |-> [r \in Req |-> "none"], result |-> [r \in Req |-> "none"],
                    published |-> {}, seenOut |-> {}, spends |-> {}, wraps |-> {}]
      BY DEF Init
    <2>2. /\ [l \in Link |-> "none"] \in [Link -> {"none", "live", "revoked"}]
          /\ [l \in Link |-> x] \in [Link -> Limits]
          /\ [r \in Req |-> "none"] \in [Req -> Status]
          /\ [r \in Req |-> "none"] \in [Req -> {"none", "txid", "refused"}]
      BY DEF Status
    <2> QED
      BY <2>1, <2>2 DEF State
  <1>2. OutsideType /\ session \in Sessions /\ CommandType /\ RestType
    <2>1. OutsideType /\ session \in Sessions
      BY LinkAssumption DEF Init, NoSession, Sessions, OutsideType
    <2>2. CommandType
      BY DEF Init, CommandType, Labels, Paying
    <2>3. RestType
      BY LinkAssumption DEF Init, RestType
    <2> QED
      BY <2>1, <2>2, <2>3
  <1> QED
    BY <1>1, <1>2, TypeParts

----------------------------------------------------------------------------
(* What is recorded stays true *)

\* RecordIsTrue of a request paid n times, with the answers of T told and the
\* requests of O overdue, and StateIsTrue when P was paid.
Fits(s, r, n, T, O) ==
  /\ s.status[r] \in {"none", "pending"} => n = 0
  /\ s.status[r] = "refused" /\ r \notin O => n = 0
  /\ s.status[r] = "sent" => n = 1 /\ r \in s.spends
  /\ s.status[r] = "sent" <=> s.result[r] = "txid"
  /\ s.result[r] = "refused" \/ [type |-> "refused", req |-> r] \in T => s.status[r] = "refused"
  /\ r \in s.spends => s.status[r] # "none"
  /\ r \in s.published => s.result[r] # "none" /\ [type |-> s.result[r], req |-> r] \in T
AllFit(s, P, T, O) == /\ \A r \in Req : Fits(s, r, P[r], T, O)
                      /\ \A l \in Link : RevocationHolds(s, l)
                      /\ IsFiniteSet(OnRecord(s))

LEMMA TrueIsAllFit ==
  /\ StateIsTrue(disk) <=> AllFit(disk, pays, told, overdue)
  /\ StateIsTrue(mem) <=> AllFit(mem, pays, told, overdue)
  /\ StateIsTrue(disk)' <=> AllFit(disk', pays', told', overdue')
  /\ StateIsTrue(mem)' <=> AllFit(mem', pays', told', overdue')
  <1>1. ASSUME NEW r \in Req
        PROVE  /\ RecordIsTrue(disk, r) <=> Fits(disk, r, pays[r], told, overdue)
               /\ RecordIsTrue(mem, r) <=> Fits(mem, r, pays[r], told, overdue)
               /\ RecordIsTrue(disk, r)' <=> Fits(disk', r, pays'[r], told', overdue')
               /\ RecordIsTrue(mem, r)' <=> Fits(mem', r, pays'[r], told', overdue')
    BY DEF RecordIsTrue, Fits, Told
  <1>2. ASSUME NEW l \in Link
        PROVE  /\ RevocationHolds(disk, l)' <=> RevocationHolds(disk', l)
               /\ RevocationHolds(mem, l)' <=> RevocationHolds(mem', l)
    BY DEF RevocationHolds
  <1>3. OnRecord(disk)' = OnRecord(disk') /\ OnRecord(mem)' = OnRecord(mem')
    BY DEF OnRecord
  <1> QED
    BY <1>1, <1>2, <1>3 DEF StateIsTrue, AllFit

LEMMA SameFits ==
  ASSUME NEW s, NEW t, NEW q \in Req, NEW n, NEW T, NEW O, SameRecord(s, t, q), Fits(s, q, n, T, O)
  PROVE  Fits(t, q, n, T, O)
  BY DEF SameRecord, Fits

LEMMA RefusedFits ==
  ASSUME NEW s \in State, NEW t, NEW q \in Req, NEW n, NEW T, NEW O, Fits(s, q, n, T, O),
         s.status[q] = "pending", t.status[q] = "refused", t.result[q] \in {"none", "refused"},
         q \in t.spends <=> q \in s.spends, q \in t.published <=> q \in s.published
  PROVE  Fits(t, q, n, T, O)
  <1>1. s.result[q] \in {"none", "txid", "refused"}
    BY DEF State
  <1> QED
    BY <1>1 DEF Fits

\* Another answer that is told, and another request that is overdue.
LEMMA FitsLater ==
  ASSUME NEW s, NEW P, NEW T, NEW O, AllFit(s, P, T, O), NEW U, NEW V, T \subseteq U, O \subseteq V,
         \A r \in Req : [type |-> "refused", req |-> r] \in U \ T => s.status[r] = "refused"
  PROVE  AllFit(s, P, U, V)
  <1>1. ASSUME NEW r \in Req PROVE Fits(s, r, P[r], U, V)
    <2>1. Fits(s, r, P[r], T, O)
      BY DEF AllFit
    <2> QED
      BY <2>1 DEF Fits
  <1> QED
    BY <1>1 DEF AllFit

LEMMA FewerOnRecord ==
  ASSUME NEW s, NEW t, IsFiniteSet(OnRecord(s)), NEW r, OnRecord(t) \subseteq OnRecord(s) \union {r}
  PROVE  IsFiniteSet(OnRecord(t))
  <1>1. IsFiniteSet(OnRecord(s) \union {r})
    BY FS_AddElement
  <1> QED
    BY <1>1, FS_Subset

\* A change of one request.
LEMMA FitsAfter ==
  ASSUME NEW s, NEW P, NEW T, NEW O, AllFit(s, P, T, O), NEW t, SameLinks(s, t), NEW r \in Req,
         \A q \in Req \ {r} : SameRecord(s, t, q), Fits(t, r, P[r], T, O)
  PROVE  AllFit(t, P, T, O) /\ OnRecord(s) \ {r} \subseteq OnRecord(t)
  <1>1. \A q \in Req : Fits(t, q, P[q], T, O)
    BY SameFits DEF AllFit
  <1>2. \A l \in Link : RevocationHolds(t, l)
    BY DEF AllFit, SameLinks, RevocationHolds
  <1>3. \A q \in Req \ {r} : q \in OnRecord(t) <=> q \in OnRecord(s)
    BY DEF SameRecord, OnRecord
  <1>4. OnRecord(t) \subseteq OnRecord(s) \union {r} /\ OnRecord(s) \ {r} \subseteq OnRecord(t)
    BY <1>3 DEF OnRecord
  <1>5. IsFiniteSet(OnRecord(t))
    BY <1>4, FewerOnRecord DEF AllFit
  <1> QED
    BY <1>1, <1>2, <1>4, <1>5 DEF AllFit

\* A change of links and wraps that may refuse what is pending.
LEMMA FitsCancelled ==
  ASSUME NEW s \in State, NEW P, NEW T, NEW O, AllFit(s, P, T, O), NEW t,
         \A l \in Link : RevocationHolds(t, l),
         \A q \in Req : \/ SameRecord(s, t, q)
                        \/ /\ s.status[q] = "pending" /\ t.status[q] = "refused"
                           /\ t.result[q] \in {"none", "refused"}
                           /\ q \in t.spends <=> q \in s.spends
                           /\ q \in t.published <=> q \in s.published
  PROVE  /\ AllFit(t, P, T, O) /\ OnRecord(t) = OnRecord(s)
         /\ \A q \in Req : s.status[q] = "refused" => t.status[q] = "refused"
  <1>1. \A q \in Req : Fits(t, q, P[q], T, O)
    BY SameFits, RefusedFits DEF AllFit
  <1>2. \A q \in Req : q \in OnRecord(t) <=> q \in OnRecord(s)
    BY DEF SameRecord, OnRecord
  <1>3. OnRecord(t) = OnRecord(s)
    BY <1>2 DEF OnRecord
  <1>4. \A q \in Req : s.status[q] = "refused" => t.status[q] = "refused"
    BY DEF SameRecord
  <1> QED
    BY <1>1, <1>3, <1>4 DEF AllFit

\* A wrap that is no revocation.
LEMMA FitsRead ==
  ASSUME NEW s \in State, NEW P, NEW T, NEW O, AllFit(s, P, T, O), NEW w \in Wrap, w.type # "revoke"
  PROVE  LET t == [s EXCEPT !.wraps = @ \union {w}] IN
         /\ AllFit(t, P, T, O) /\ OnRecord(t) = OnRecord(s) /\ s.wraps \subseteq t.wraps
         /\ \A q \in Req : SameRecord(s, t, q)
  <1> DEFINE t == [s EXCEPT !.wraps = @ \union {w}]
  <1>1. /\ t.wraps = s.wraps \union {w} /\ t.link = s.link /\ t.orphan = s.orphan
        /\ \A q \in Req : SameRecord(s, t, q)
    BY ReadFields
  <1> HIDE DEF t
  <1>2. \A l \in Link : RevocationHolds(t, l)
    BY <1>1 DEF AllFit, RevocationHolds
  <1>3. AllFit(t, P, T, O) /\ OnRecord(t) = OnRecord(s)
    BY <1>1, <1>2, FitsCancelled
  <1> QED
    BY <1>1, <1>3 DEF t

\* A revocation.
LEMMA FitsRevoke ==
  ASSUME NEW s \in State, NEW P, NEW T, NEW O, AllFit(s, P, T, O), NEW l \in Link
  PROVE  LET u == [s EXCEPT !.wraps = @ \union {[type |-> "revoke", link |-> l]}]
             t == CASE u.link[l] = "live" -> CancelPending(u, l)
                    [] u.link[l] = "none" -> [u EXCEPT !.orphan = @ \union {l}]
                    [] OTHER -> u IN
         /\ AllFit(t, P, T, O) /\ OnRecord(t) = OnRecord(s) /\ s.wraps \subseteq t.wraps
         /\ \A q \in Req : s.status[q] = "refused" => t.status[q] = "refused"
  <1> DEFINE w == [type |-> "revoke", link |-> l]
             u == [s EXCEPT !.wraps = @ \union {w}]
             t == CASE u.link[l] = "live" -> CancelPending(u, l)
                    [] u.link[l] = "none" -> [u EXCEPT !.orphan = @ \union {l}]
                    [] OTHER -> u
  <1>0. w \in Wrap
    BY WrapType
  <1>1. /\ u \in State /\ u.wraps = s.wraps \union {w} /\ u.link = s.link /\ u.orphan = s.orphan
        /\ \A q \in Req : SameRecord(s, u, q)
    BY <1>0, ReadFields
  <1> HIDE DEF u
  <1>2. /\ t \in State /\ t.wraps = u.wraps
        /\ \A k \in Link \ {l} : t.link[k] = u.link[k] /\ (k \in t.orphan <=> k \in u.orphan)
        /\ t.link[l] = "revoked" \/ (t.link[l] = "none" /\ l \in t.orphan)
        /\ \A q \in Req : \/ SameRecord(u, t, q)
                          \/ /\ u.status[q] = "pending" /\ t.status[q] = "refused"
                             /\ t.result[q] = "none"
                             /\ q \in t.spends <=> q \in u.spends
                             /\ q \in t.published <=> q \in u.published
    BY <1>1, RevokeFields
  <1> HIDE DEF t
  <1>3. ASSUME NEW k \in Link PROVE RevocationHolds(t, k)
    <2>1. CASE k = l
      BY <1>2, <2>1 DEF RevocationHolds
    <2>2. CASE k # l
      <3>1. [type |-> "revoke", link |-> k] # w
        BY <2>2
      <3> HIDE DEF w
      <3>2. RevocationHolds(s, k)
        BY DEF AllFit
      <3> QED
        BY <1>1, <1>2, <2>2, <3>1, <3>2 DEF RevocationHolds
    <2> QED
      BY <2>1, <2>2
  <1>4. \A q \in Req : Fits(u, q, P[q], T, O)
    BY <1>1, SameFits DEF AllFit
  <1>5. \A q \in Req : Fits(t, q, P[q], T, O)
    BY <1>1, <1>2, <1>4, SameFits, RefusedFits
  <1>6. \A q \in Req : /\ q \in OnRecord(t) <=> q \in OnRecord(s)
                       /\ s.status[q] = "refused" => t.status[q] = "refused"
    BY <1>1, <1>2 DEF SameRecord, OnRecord
  <1>7. OnRecord(t) = OnRecord(s)
    BY <1>6 DEF OnRecord
  <1>8. AllFit(t, P, T, O) /\ s.wraps \subseteq t.wraps
    BY <1>1, <1>2, <1>3, <1>5, <1>7 DEF AllFit
  <1> QED
    BY <1>6, <1>7, <1>8 DEF t, u

\* What counts towards the limit is not changed by the request it is counted for.
LEMMA SameSpending ==
  ASSUME NEW s, NEW t, NEW l, NEW r, \A q \in Req \ {r} : SameRecord(s, t, q)
  PROVE  Spending(t, l, r) = Spending(s, l, r)
  <1>1. \A q \in Req : q \in Spending(t, l, r) <=> q \in Spending(s, l, r)
    BY DEF SameRecord, Spending
  <1> QED
    BY <1>1 DEF Spending

LEMMA SpendingType ==
  ASSUME NEW s, IsFiniteSet(OnRecord(s)), \A q \in s.spends : s.status[q] # "none", NEW l, NEW r
  PROVE  /\ IsFiniteSet(Spending(s, l, r)) /\ SpentToday(s, l, r) \in Nat
         /\ \A q \in Req : Cost[q] = Sats[q] + Fee /\ Cost[q] \in Nat
  <1>1. Spending(s, l, r) \subseteq OnRecord(s)
    BY DEF Spending, OnRecord
  <1>2. IsFiniteSet(Spending(s, l, r))
    BY <1>1, FS_Subset
  <1>3. \A q \in Req : Cost[q] = Sats[q] + Fee /\ Cost[q] \in Nat
    BY LinkAssumption DEF Cost
  <1>4. \A q \in Spending(s, l, r) : Cost[q] \in Nat
    BY <1>3 DEF Spending
  <1> QED
    BY <1>2, <1>3, <1>4, SumType DEF SpentToday

----------------------------------------------------------------------------
(* Each step keeps what is recorded, answered and marked *)

Kept == PaidOnce /\ StateIsTrue(disk) /\ CopyIsAhead /\ AnswersAreBacked /\ PaymentIsMarked

\* Steps that touch none of it.
LEMMA KeptElsewhere ==
  ASSUME Kept, UNCHANGED <<disk, command, pays, told, overdue>>, pc = "idle" \/ UNCHANGED old
  PROVE  Kept'
  <1>1. StateIsTrue(disk)' /\ CopyIsAhead'
    BY TrueIsAllFit DEF Kept, CopyIsAhead, command, OnRecord
  <1>2. AnswersAreBacked' /\ PaidOnce'
    BY DEF Kept, AnswersAreBacked, PaidOnce, command, OnRecord
  <1>3. PaymentIsMarked'
    <2>1. CASE pc = "idle"
      BY <2>1 DEF PaymentIsMarked, command
    <2>2. CASE UNCHANGED old
      BY <2>2 DEF Kept, PaymentIsMarked, command, SpentToday, Spending
    <2> QED
      BY <2>1, <2>2
  <1> QED
    BY <1>1, <1>2, <1>3 DEF Kept

\* What the owner does between two commands: the answers are about the new state.
LEMMA KeptWhenSaved ==
  ASSUME Kept, AllFit(disk', pays, told, overdue), UNCHANGED <<pays, told, overdue>>,
         pc' \in {"idle", "deliver"}, pc' = "idle" => out' = {},
         \A r \in Req : /\ Seen(r) \in out' => r \in OnRecord(disk')
                        /\ [type |-> "txid", req |-> r] \in out' => pays[r] = 1
                        /\ [type |-> "refused", req |-> r] \in out' => disk'.status[r] = "refused"
  PROVE  Kept'
  <1>1. StateIsTrue(disk)' /\ CopyIsAhead' /\ PaidOnce' /\ PaymentIsMarked'
    BY TrueIsAllFit DEF Kept, CopyIsAhead, PaidOnce, PaymentIsMarked
  <1>2. AnswersAreBacked'
    <2>1. OnRecord(disk)' = OnRecord(disk')
      BY DEF OnRecord
    <2>2. \A r \in Req : [type |-> "txid", req |-> r] \in told => pays[r] = 1
      BY DEF Kept, AnswersAreBacked
    <2> QED
      BY <2>1, <2>2 DEF AnswersAreBacked, Seen
  <1> QED
    BY <1>1, <1>2 DEF Kept

LEMMA OwnerKept == ASSUME TypeOK, Kept, Owner PROVE Kept'
  <1>1. disk \in State /\ AllFit(disk, pays, told, overdue) /\ disk.link \in [Link -> {"none", "live", "revoked"}]
    BY TrueIsAllFit DEF Kept, TypeOK, State
  <1>2. ASSUME NEW l \in Link, Offer(l) PROVE Kept'
    BY <1>2, KeptElsewhere DEF Offer, money, clock, notes
  <1>3. CASE DropOffer
    BY <1>3, KeptElsewhere DEF DropOffer, money, clock, notes
  <1>4. ASSUME NEW l \in Link, Confirm(l) \/ SetLimit(l) PROVE Kept'
    <2>1. PICK x \in Limits :
            \/ disk' = [disk EXCEPT !.limit[l] = x]
            \/ /\ disk' = [disk EXCEPT !.link[l] = "live", !.limit[l] = x]
               /\ disk.link[l] = "none" /\ l \notin disk.orphan
      BY <1>4 DEF Confirm, SetLimit
    <2>2. /\ disk'.orphan = disk.orphan /\ disk'.wraps = disk.wraps
          /\ \A q \in Req : SameRecord(disk, disk', q)
          /\ \/ disk'.link = disk.link
             \/ /\ disk'.link = [disk.link EXCEPT ![l] = "live"]
                /\ disk.link[l] = "none" /\ l \notin disk.orphan
      <3>1. CASE disk' = [disk EXCEPT !.limit[l] = x]
        BY <1>1, <3>1, ChosenFields
      <3>2. CASE /\ disk' = [disk EXCEPT !.link[l] = "live", !.limit[l] = x]
                 /\ disk.link[l] = "none" /\ l \notin disk.orphan
        BY <1>1, <3>2, ChosenFields
      <3> QED
        BY <2>1, <3>1, <3>2
    <2>3. \A k \in Link : RevocationHolds(disk', k)
      BY <1>1, <2>2 DEF AllFit, RevocationHolds
    <2>4. AllFit(disk', pays, told, overdue)
      BY <1>1, <2>2, <2>3, FitsCancelled
    <2>5. pc' = "idle" /\ out' = {} /\ UNCHANGED <<pays, told, overdue>>
      BY <1>4 DEF Confirm, SetLimit, command, money, notes, Kept, AnswersAreBacked
    <2> QED
      BY <2>4, <2>5, KeptWhenSaved
  <1>5. ASSUME NEW l \in Link, RevokeLink(l) PROVE Kept'
    <2> DEFINE t == CancelPending(disk, l)
    <2>1. /\ t \in State /\ t.link = [disk.link EXCEPT ![l] = "revoked"]
          /\ t.orphan = disk.orphan /\ t.wraps = disk.wraps
          /\ \A q \in Req : \/ SameRecord(disk, t, q)
                            \/ /\ disk.status[q] = "pending" /\ t.status[q] = "refused"
                               /\ t.result[q] \in {"none", "refused"}
                               /\ q \in t.spends <=> q \in disk.spends
                               /\ q \in t.published <=> q \in disk.published
      BY <1>1, CancelFields
    <2> HIDE DEF t
    <2>2. \A k \in Link : RevocationHolds(t, k)
      BY <1>1, <2>1 DEF AllFit, RevocationHolds
    <2>3. AllFit(t, pays, told, overdue)
      BY <1>1, <2>1, <2>2, FitsCancelled
    <2>4. /\ disk' = [t EXCEPT !.revokeOut = @ \union {l}] /\ disk'.wraps = t.wraps
          /\ \A q \in Req : SameRecord(t, disk', q)
          /\ disk'.link = t.link /\ disk'.orphan = t.orphan
      BY <1>5, <2>1 DEF RevokeLink, State, SameRecord, t
    <2>5. \A k \in Link : RevocationHolds(disk', k)
      BY <2>2, <2>4 DEF RevocationHolds
    <2>6. AllFit(disk', pays, told, overdue)
      BY <2>1, <2>3, <2>4, <2>5, FitsCancelled
    <2>7. /\ pc' = "deliver" /\ UNCHANGED <<pays, told, overdue>>
          /\ \A r \in Req : /\ Seen(r) \notin out' /\ [type |-> "txid", req |-> r] \notin out'
                            /\ [type |-> "refused", req |-> r] \notin out'
      BY <1>5 DEF RevokeLink, money, notes, Revoked, Seen
    <2> QED
      BY <2>6, <2>7, KeptWhenSaved
  <1>6. ASSUME NEW r \in Req, ApproveAgain(r) PROVE Kept'
    <2>1. /\ disk' = Sent(disk, r) /\ out' = {Result(disk', r)} /\ pc' = "deliver"
          /\ disk.status[r] = "sent" /\ UNCHANGED <<pays, told, overdue>>
      BY <1>6 DEF ApproveAgain, money, notes
    <2>2. /\ SameLinks(disk, disk') /\ disk'.status[r] = "sent" /\ disk'.result[r] = "txid"
          /\ r \in disk'.spends
          /\ r \in disk'.published => r \in disk.published
          /\ \A q \in Req \ {r} : SameRecord(disk, disk', q)
      BY <1>1, <2>1, SentFields
    <2>3. Fits(disk, r, pays[r], told, overdue)
      BY <1>1 DEF AllFit
    <2>4. Fits(disk', r, pays[r], told, overdue)
      BY <2>1, <2>2, <2>3 DEF Fits
    <2>5. AllFit(disk', pays, told, overdue)
      BY <1>1, <2>2, <2>4, FitsAfter
    <2>6. \A q \in Req : /\ Seen(q) \notin out' /\ [type |-> "refused", req |-> q] \notin out'
                         /\ [type |-> "txid", req |-> q] \in out' => pays[q] = 1
      BY <2>1, <2>2, <2>3 DEF Result, Seen, Fits
    <2> QED
      BY <2>1, <2>5, <2>6, KeptWhenSaved
  <1>7. ASSUME NEW r \in Req, Refuse(r) PROVE Kept'
    <2>1. /\ disk' = Refusal(disk, r) /\ out' = {Result(disk', r)} /\ pc' = "deliver"
          /\ disk.status[r] = "pending" /\ UNCHANGED <<pays, told, overdue>>
      BY <1>7 DEF Refuse, money, notes
    <2>2. /\ SameLinks(disk, disk') /\ disk'.status[r] = "refused" /\ disk'.result[r] = "refused"
          /\ r \notin disk'.published /\ \A q \in Req \ {r} : SameRecord(disk, disk', q)
      BY <1>1, <2>1, RefusalFields
    <2>3. Fits(disk, r, pays[r], told, overdue)
      BY <1>1 DEF AllFit
    <2>4. Fits(disk', r, pays[r], told, overdue)
      BY <2>1, <2>2, <2>3 DEF Fits
    <2>5. AllFit(disk', pays, told, overdue)
      BY <1>1, <2>2, <2>4, FitsAfter
    <2>6. \A q \in Req : /\ Seen(q) \notin out' /\ [type |-> "txid", req |-> q] \notin out'
                         /\ [type |-> "refused", req |-> q] \in out' => disk'.status[q] = "refused"
      BY <2>1, <2>2 DEF Result, Seen
    <2> QED
      BY <2>1, <2>5, <2>6, KeptWhenSaved
  <1>8. ASSUME NEW r \in Req, Approve(r) PROVE Kept'
    <2>1. /\ pc = "idle" /\ LiveRequest(disk, r) /\ pc' = "begin" /\ cur' = r /\ out' = out
          /\ UNCHANGED <<disk, pays, told, overdue, old>>
      BY <1>8 DEF Approve, money, clock, notes
    <2>2. StateIsTrue(disk)' /\ CopyIsAhead' /\ PaidOnce'
      BY <2>1, TrueIsAllFit DEF Kept, CopyIsAhead, PaidOnce
    <2>3. AnswersAreBacked'
      BY <2>1 DEF Kept, AnswersAreBacked, OnRecord
    <2>4. pays[r] = 0
      BY <1>1, <2>1 DEF AllFit, Fits, LiveRequest
    <2>5. SpentToday(disk, LinkOf[r], r) + Cost[r] <= disk.limit[LinkOf[r]]
      <3>1. SpentToday(disk, LinkOf[r], r) \in Nat /\ Cost[r] = Sats[r] + Fee
        BY <1>1, SpendingType DEF AllFit, Fits, State
      <3>2. /\ Sats[r] \in Nat /\ Fee \in Nat /\ disk.limit[LinkOf[r]] \in Nat
            /\ SpentToday(disk, LinkOf[r], r) + Sats[r] + Fee <= disk.limit[LinkOf[r]]
        BY <1>1, <2>1, LinkAssumption DEF State, LiveRequest
      <3> QED
        BY <3>1, <3>2
    <2>6. PaymentIsMarked'
      <3>1. SpentToday(disk, LinkOf[cur], cur)' = SpentToday(disk, LinkOf[r], r)
        BY <2>1 DEF SpentToday, Spending
      <3> QED
        BY <2>1, <2>4, <2>5, <3>1 DEF PaymentIsMarked, LiveRequest
    <2> QED
      BY <2>2, <2>3, <2>6 DEF Kept
  <1> QED
    BY <1>2, <1>3, <1>4, <1>5, <1>6, <1>7, <1>8 DEF Owner

\* What reading a message must show.
LEMMA KeptWhenRead ==
  ASSUME Kept, pc = "process", UNCHANGED <<pc, pays, told>>,
         AllFit(disk', pays, told, overdue'), AllFit(mem', pays, told, overdue'),
         OnRecord(disk) \subseteq OnRecord(disk'), OnRecord(disk') \subseteq OnRecord(mem'),
         disk'.wraps \subseteq mem'.wraps,
         \A r \in Req : mem.status[r] = "refused" => mem'.status[r] = "refused",
         \A r \in Req :
           /\ Seen(r) \in out' \ out => r \in OnRecord(disk')
           /\ [type |-> "txid", req |-> r] \in out' \ out => pays[r] = 1
           /\ [type |-> "refused", req |-> r] \in out' \ out => mem'.status[r] = "refused"
  PROVE  Kept'
  <1>1. OnRecord(disk)' = OnRecord(disk') /\ OnRecord(mem)' = OnRecord(mem')
    BY DEF OnRecord
  <1>2. StateIsTrue(disk)' /\ CopyIsAhead' /\ PaidOnce' /\ PaymentIsMarked'
    BY <1>1, TrueIsAllFit DEF Kept, CopyIsAhead, PaidOnce, PaymentIsMarked
  <1>3. AnswersAreBacked'
    <2>1. \A r \in Req :
            /\ Seen(r) \in out' => r \in OnRecord(disk')
            /\ [type |-> "txid", req |-> r] \in out' \union told => pays[r] = 1
            /\ [type |-> "refused", req |-> r] \in out' => mem'.status[r] = "refused"
      BY DEF Kept, AnswersAreBacked
    <2> QED
      BY <1>1, <2>1 DEF AnswersAreBacked, Seen
  <1> QED
    BY <1>2, <1>3 DEF Kept

LEMMA Verdicts ==
  ASSUME NEW s, NEW r
  PROVE  /\ Verdict(s, r) = "ok" => s.status[r] = "none"
         /\ Verdict(s, r) = "refused" => r \in expired \/ s.status[r] = "none"
  BY DEF Verdict

LEMMA RequestKept == ASSUME TypeOK, Kept, NEW w \in Asked, TakeRequest(w) PROVE Kept'
  <1> DEFINE r == w.req
             u == Read(w)
  <1>1. /\ w \in Wrap /\ r \in Req /\ w.type # "revoke" /\ Reading(w)
        /\ AllFit(disk, pays, told, overdue) /\ AllFit(mem, pays, told, overdue)
        /\ mem \in State /\ u \in State /\ pc = "process" /\ UNCHANGED <<pc, pays, told>>
        /\ OnRecord(disk) \subseteq OnRecord(mem) /\ disk.wraps \subseteq mem.wraps
    <2>1. w \in Wrap /\ r \in Req /\ w.type # "revoke" /\ Reading(w)
      BY WrapType DEF TakeRequest, TakeUnknown, TakeNew, TakeKnown, TakeRefused, TakeAfterRevoke
    <2>2. pc = "process" /\ mem \in State /\ u \in State /\ UNCHANGED <<pc, pays, told>>
      BY <2>1, ReadType
    <2> QED
      BY <2>1, <2>2, TrueIsAllFit DEF Kept, CopyIsAhead
  <1>2. /\ AllFit(u, pays, told, overdue) /\ OnRecord(u) = OnRecord(mem)
        /\ mem.wraps \subseteq u.wraps /\ \A q \in Req : SameRecord(mem, u, q)
    BY <1>1, FitsRead DEF Read
  <1> HIDE DEF r, u
  <1>3. \A q \in Req : mem.status[q] = u.status[q]
    BY <1>2 DEF SameRecord
  <1>4. CASE TakeUnknown(w) \/ TakeAfterRevoke(w)
    <2>1. mem' = u /\ UNCHANGED <<disk, out, overdue>>
      BY <1>4 DEF TakeUnknown, TakeAfterRevoke, notes, u
    <2> QED
      BY <1>1, <1>2, <1>3, <2>1, KeptWhenRead
  <1>5. CASE TakeKnown(w)
    <2>1. /\ mem' = u /\ UNCHANGED <<disk, overdue>>
          /\ out' \subseteq out \union (IF mem.result[r] = "none" THEN {} ELSE {Result(mem, r)})
      BY <1>5 DEF TakeKnown, notes, u, r
    <2>2. Fits(mem, r, pays[r], told, overdue)
      BY <1>1 DEF AllFit
    <2>3. \A q \in Req :
            /\ Seen(q) \notin out' \ out
            /\ [type |-> "txid", req |-> q] \in out' \ out => pays[q] = 1
            /\ [type |-> "refused", req |-> q] \in out' \ out => mem.status[q] = "refused"
      <3>1. mem.result[r] # "seen"
        BY <1>1 DEF State
      <3>2. \A q \in Req :
              /\ Seen(q) \in out' \ out => q = r /\ mem.result[r] = "seen"
              /\ [type |-> "txid", req |-> q] \in out' \ out => q = r /\ mem.result[r] = "txid"
              /\ [type |-> "refused", req |-> q] \in out' \ out => q = r /\ mem.result[r] = "refused"
        BY <2>1 DEF Result, Seen
      <3> QED
        BY <2>2, <3>1, <3>2 DEF Fits
    <2> QED
      BY <1>1, <1>2, <1>3, <2>1, <2>3, KeptWhenRead
  <1>6. CASE TakeNew(w)
    <2>1. /\ mem' = [Set(u, r, "pending") EXCEPT !.seenOut = @ \union {r}] /\ disk' = mem'
          /\ out' = out \union {Seen(r)} /\ overdue' = overdue /\ Verdict(mem, r) = "ok"
      BY <1>6 DEF TakeNew, notes, u, r
    <2>2. /\ SameLinks(u, mem') /\ mem'.status[r] = "pending" /\ mem'.result = u.result
          /\ \A q \in Req \ {r} : SameRecord(u, mem', q)
          /\ mem'.spends = u.spends /\ mem'.published = u.published
      BY <1>1, <2>1, NewFields
    <2>3. /\ Fits(u, r, pays[r], told, overdue) /\ u.status[r] = "none"
          /\ u.result[r] \in {"none", "txid", "refused"}
      BY <1>1, <1>2, <1>3, <2>1, Verdicts DEF AllFit, State
    <2>4. Fits(mem', r, pays[r], told, overdue)
      BY <2>2, <2>3 DEF Fits
    <2>5. AllFit(mem', pays, told, overdue) /\ OnRecord(u) \ {r} \subseteq OnRecord(mem')
      BY <1>1, <1>2, <2>2, <2>4, FitsAfter
    <2>6. r \in OnRecord(mem') /\ OnRecord(disk) \subseteq OnRecord(mem')
      BY <1>1, <1>2, <2>2, <2>5 DEF OnRecord
    <2>7. \A q \in Req : mem.status[q] = "refused" => mem'.status[q] = "refused"
      BY <1>3, <2>2, <2>3 DEF SameRecord
    <2>8. \A q \in Req : /\ Seen(q) \in out' \ out => q = r
                         /\ [type |-> "txid", req |-> q] \notin out' \ out
                         /\ [type |-> "refused", req |-> q] \notin out' \ out
      BY <2>1 DEF Seen
    <2> QED
      BY <1>1, <2>1, <2>5, <2>6, <2>7, <2>8, KeptWhenRead
  <1>7. CASE TakeRefused(w)
    <2>1. /\ mem' = [Refusal(u, r) EXCEPT !.seenOut = @ \ {r}] /\ disk' = disk
          /\ out' = out \union {[type |-> "refused", req |-> r]} /\ overdue \subseteq overdue'
          /\ mem.status[r] \in {"sending", "sent", "unknown"} => r \in overdue'
      BY <1>7 DEF TakeRefused, u, r
    <2>2. /\ SameLinks(u, mem') /\ mem'.status[r] = "refused" /\ mem'.result[r] = "refused"
          /\ \A q \in Req \ {r} : SameRecord(u, mem', q)
          /\ r \notin mem'.published
      BY <1>1, <2>1, RefusedFields
    <2>3. AllFit(disk, pays, told, overdue') /\ AllFit(u, pays, told, overdue')
      BY <1>1, <1>2, <2>1, FitsLater
    <2>4. Fits(u, r, pays[r], told, overdue') /\ u.status[r] \in Status
      BY <1>1, <2>3 DEF AllFit, State
    <2>5. Fits(mem', r, pays[r], told, overdue')
      BY <1>1, <1>3, <2>1, <2>2, <2>4 DEF Fits, Status
    <2>6. AllFit(mem', pays, told, overdue') /\ OnRecord(u) \ {r} \subseteq OnRecord(mem')
      BY <1>1, <2>2, <2>3, <2>5, FitsAfter
    <2>7. OnRecord(disk) \subseteq OnRecord(mem') /\ disk.wraps \subseteq mem'.wraps
      BY <1>1, <1>2, <2>2, <2>6 DEF OnRecord, SameLinks
    <2>8. \A q \in Req : mem.status[q] = "refused" => mem'.status[q] = "refused"
      BY <1>3, <2>2 DEF SameRecord
    <2>9. \A q \in Req : /\ Seen(q) \notin out' \ out
                         /\ [type |-> "txid", req |-> q] \notin out' \ out
                         /\ [type |-> "refused", req |-> q] \in out' \ out => q = r
      BY <2>1 DEF Seen
    <2> QED
      BY <1>1, <2>1, <2>2, <2>3, <2>6, <2>7, <2>8, <2>9, KeptWhenRead
  <1> QED
    BY <1>4, <1>5, <1>6, <1>7 DEF TakeRequest

LEMMA InboxKept == ASSUME TypeOK, Kept, Inbox PROVE Kept'
  <1>1. CASE pc # "process"
    BY <1>1 DEF Inbox, TakeAccept, TakeRevoke, TakeRequest, TakeUnknown, TakeNew, TakeKnown,
                TakeRefused, TakeAfterRevoke, EndProcess, Reading
  <1>2. CASE pc = "process"
    <2>1. /\ AllFit(disk, pays, told, overdue) /\ AllFit(mem, pays, told, overdue) /\ mem \in State
          /\ OnRecord(disk) \subseteq OnRecord(mem) /\ disk.wraps \subseteq mem.wraps
      BY <1>2, TrueIsAllFit DEF Kept, CopyIsAhead, TypeOK
    <2>2. ASSUME NEW l \in Link, TakeAccept(l) PROVE Kept'
      <3> DEFINE w == [type |-> "accept", link |-> l]
      <3>1. /\ w \in Wrap /\ w.type # "revoke" /\ Reading(w) /\ mem' = Read(w)
            /\ UNCHANGED <<disk, out, overdue>>
        BY <2>2, WrapType DEF TakeAccept, notes
      <3> HIDE DEF w
      <3>2. UNCHANGED <<pc, pays, told>>
        BY <3>1, ReadType
      <3>3. /\ AllFit(mem', pays, told, overdue) /\ OnRecord(mem') = OnRecord(mem)
            /\ mem.wraps \subseteq mem'.wraps /\ \A q \in Req : SameRecord(mem, mem', q)
        BY <2>1, <3>1, FitsRead DEF Read
      <3>4. \A q \in Req : mem'.status[q] = mem.status[q]
        BY <3>3 DEF SameRecord
      <3> QED
        BY <1>2, <2>1, <3>1, <3>2, <3>3, <3>4, KeptWhenRead
    <2>3. ASSUME NEW l \in Link, TakeRevoke(l) PROVE Kept'
      <3> DEFINE w == [type |-> "revoke", link |-> l]
                 u == [mem EXCEPT !.wraps = @ \union {w}]
      <3>1. w \in Wrap /\ Reading(w) /\ UNCHANGED <<disk, out, overdue>>
        BY <2>3, WrapType DEF TakeRevoke, notes
      <3>2. UNCHANGED <<pc, pays, told>>
        BY <3>1, ReadType
      <3>3. mem' = CASE u.link[l] = "live" -> CancelPending(u, l)
                     [] u.link[l] = "none" -> [u EXCEPT !.orphan = @ \union {l}]
                     [] OTHER -> u
        <4>1. u.link = mem.link
          BY <2>1 DEF State
        <4> QED
          BY <2>3, <4>1 DEF TakeRevoke, Read
      <3>4. /\ AllFit(mem', pays, told, overdue) /\ OnRecord(mem') = OnRecord(mem)
            /\ mem.wraps \subseteq mem'.wraps
            /\ \A q \in Req : mem.status[q] = "refused" => mem'.status[q] = "refused"
        BY <2>1, <3>3, FitsRevoke
      <3> QED
        BY <1>2, <2>1, <3>1, <3>2, <3>4, KeptWhenRead
    <2>4. CASE EndProcess
      <3>1. /\ disk' = CloseLapsed(mem) /\ out' = out \union Undelivered(disk') /\ pc' = "deliver"
            /\ UNCHANGED <<pays, told, overdue>>
        BY <2>4 DEF EndProcess, money, notes
      <3>2. /\ disk' \in State /\ SameLinks(mem, disk')
            /\ \A q \in Req : \/ SameRecord(mem, disk', q)
                              \/ /\ mem.status[q] = "pending" /\ disk'.status[q] = "refused"
                                 /\ disk'.result[q] \in {"none", "refused"}
                                 /\ q \in disk'.spends <=> q \in mem.spends
                                 /\ q \in disk'.published <=> q \in mem.published
        BY <2>1, <3>1, CloseFields
      <3>3. \A l \in Link : RevocationHolds(disk', l)
        BY <2>1, <3>2 DEF AllFit, SameLinks, RevocationHolds
      <3>4. /\ AllFit(disk', pays, told, overdue) /\ OnRecord(disk') = OnRecord(mem)
            /\ \A q \in Req : mem.status[q] = "refused" => disk'.status[q] = "refused"
        BY <2>1, <3>2, <3>3, FitsCancelled
      <3>5. ASSUME NEW r \in Req
            PROVE  /\ Seen(r) \in Undelivered(disk') => disk'.status[r] = "pending"
                   /\ [type |-> "txid", req |-> r] \in Undelivered(disk') => disk'.result[r] = "txid"
                   /\ [type |-> "refused", req |-> r] \in Undelivered(disk')
                        => disk'.result[r] = "refused"
        <4>1. \A q \in Req : disk'.result[q] # "seen"
          BY <3>2 DEF State
        <4> QED
          BY <4>1 DEF Undelivered, Seen, Result, Revoked
      <3>6. ASSUME NEW r \in Req
            PROVE  /\ Seen(r) \in out' => r \in OnRecord(disk')
                   /\ [type |-> "txid", req |-> r] \in out' => pays[r] = 1
                   /\ [type |-> "refused", req |-> r] \in out' => disk'.status[r] = "refused"
        <4>1. Fits(disk', r, pays[r], told, overdue)
          BY <3>4 DEF AllFit
        <4>2. /\ Seen(r) \in out => r \in OnRecord(disk)
              /\ [type |-> "txid", req |-> r] \in out => pays[r] = 1
              /\ [type |-> "refused", req |-> r] \in out => mem.status[r] = "refused"
          BY <1>2 DEF Kept, AnswersAreBacked
        <4>3. disk'.status[r] = "pending" => r \in OnRecord(disk')
          BY DEF OnRecord
        <4> QED
          BY <2>1, <3>1, <3>4, <3>5, <4>1, <4>2, <4>3 DEF Fits
      <3> QED
        BY <3>1, <3>4, <3>6, KeptWhenSaved
    <2> QED
      BY <2>2, <2>3, <2>4, RequestKept DEF Inbox
  <1> QED
    BY <1>1, <1>2

\* Steps of an approval before its request is sent: they change the request alone.
LEMMA KeptWhilePaying ==
  ASSUME Kept, cur \in Req, pc \in Paying, pc' \notin {"process", "deliver"},
         UNCHANGED <<out, told, overdue>>, AllFit(disk', pays', told, overdue),
         \A q \in Req : pays[q] = 1 => pays'[q] = 1, PaidOnce',
         OnRecord(disk) \subseteq OnRecord(disk'), PaymentIsMarked'
  PROVE  Kept'
  <1>1. StateIsTrue(disk)' /\ CopyIsAhead'
    BY TrueIsAllFit DEF CopyIsAhead
  <1>2. out = {} /\ \A r \in Req : [type |-> "txid", req |-> r] \in told => pays'[r] = 1
    BY DEF Kept, AnswersAreBacked, Paying
  <1>3. AnswersAreBacked'
    BY <1>2 DEF AnswersAreBacked, Seen
  <1> QED
    BY <1>1, <1>3 DEF Kept

LEMMA StepKept == ASSUME TypeOK, Kept, Step PROVE Kept'
  <1>1. /\ pc \in Paying /\ cur \in Req /\ UNCHANGED <<told, overdue, old>>
        /\ disk \in State /\ AllFit(disk, pays, told, overdue) /\ pays \in [Req -> Nat]
        /\ Fits(disk, cur, pays[cur], told, overdue) /\ disk.result[cur] \in {"none", "txid", "refused"}
    <2>1. pc \in Paying /\ UNCHANGED <<told, overdue, old>>
      BY DEF Step, NotBegun, Begin, Mark, Abandon, BackToPending, Broadcast, LeaveUnknown,
             Complete, Finish, Paying, clock, notes
    <2>2. cur \in Req /\ disk \in State /\ pays \in [Req -> Nat]
      BY <2>1 DEF TypeOK
    <2>3. AllFit(disk, pays, told, overdue)
      BY TrueIsAllFit DEF Kept
    <2> QED
      BY <2>1, <2>2, <2>3 DEF AllFit, State
  \* Steps that save nothing and pay nothing.
  <1>2. CASE NotBegun \/ Begin \/ Abandon \/ Complete
    <2>1. /\ UNCHANGED <<disk, pays, out>>
          /\ \/ pc = "begin" /\ pc' = "idle"
             \/ pc = "begin" /\ pc' = "mark" /\ cur' = cur
             \/ pc = "sign" /\ pc' = "back" /\ cur' = cur
             \/ pc = "complete" /\ pc' = "finish" /\ cur' = cur
      BY <1>2 DEF NotBegun, Begin, Abandon, Complete, Goto, Stop, money
    <2>2. SpentToday(disk, LinkOf[cur], cur)' = SpentToday(disk', LinkOf[cur'], cur')
      BY <1>1 DEF SpentToday, Spending
    <2>3. SpentToday(disk', LinkOf[cur], cur) = SpentToday(disk, LinkOf[cur], cur)
      BY <2>1
    <2>4. PaymentIsMarked'
      BY <2>1, <2>2, <2>3 DEF Kept, PaymentIsMarked
    <2>5. PaidOnce'
      BY <2>1 DEF Kept, PaidOnce
    <2> QED
      BY <1>1, <2>1, <2>4, <2>5, KeptWhilePaying
  \* The request is saved with another status.
  <1>3. ASSUME NEW x \in {"sending", "pending", "unknown"},
               disk' = Set(disk, cur, x), UNCHANGED <<pays, out>>,
               disk.status[cur] \in {"pending", "sending"}, x = "pending" => pays[cur] = 0
        PROVE  /\ AllFit(disk', pays', told, overdue) /\ OnRecord(disk) \subseteq OnRecord(disk')
               /\ disk'.status[cur] = x /\ disk'.link = disk.link /\ disk'.limit = disk.limit
               /\ \A q \in Req \ {cur} : SameRecord(disk, disk', q)
    <2>1. /\ SameLinks(disk, disk') /\ disk'.status[cur] = x /\ disk'.result = disk.result
          /\ \A q \in Req \ {cur} : SameRecord(disk, disk', q)
          /\ disk'.spends = disk.spends /\ disk'.published = disk.published
      <3>1. x \in Status
        BY DEF Status
      <3>2. /\ SameLinks(disk, Set(disk, cur, x)) /\ Set(disk, cur, x).status[cur] = x
            /\ Set(disk, cur, x).result = disk.result
            /\ \A q \in Req \ {cur} : SameRecord(disk, Set(disk, cur, x), q)
            /\ Set(disk, cur, x).spends = disk.spends
            /\ Set(disk, cur, x).published = disk.published
        BY <1>1, <3>1, SetFields
      <3> QED
        BY <1>3, <3>2
    <2>2. Fits(disk', cur, pays[cur], told, overdue)
      BY <1>1, <1>3, <2>1 DEF Fits
    <2>3. AllFit(disk', pays, told, overdue) /\ OnRecord(disk) \ {cur} \subseteq OnRecord(disk')
      BY <1>1, <2>1, <2>2, FitsAfter
    <2>4. cur \in OnRecord(disk')
      BY <1>1, <1>3, <2>1 DEF OnRecord
    <2> QED
      BY <1>3, <2>1, <2>3, <2>4 DEF SameLinks
  <1>4. CASE Mark
    <2>1. /\ pc = "mark" /\ pc' = "sign" /\ cur' = cur /\ disk' = Set(disk, cur, "sending")
          /\ UNCHANGED <<pays, out>> /\ disk.status[cur] = "pending" /\ pays[cur] = 0
      BY <1>4 DEF Mark, Goto, money, Kept, PaymentIsMarked
    <2>2. /\ AllFit(disk', pays', told, overdue) /\ OnRecord(disk) \subseteq OnRecord(disk')
          /\ disk'.status[cur] = "sending" /\ disk'.link = disk.link /\ disk'.limit = disk.limit
          /\ \A q \in Req \ {cur} : SameRecord(disk, disk', q)
      BY <1>3, <2>1
    <2>3. SpentToday(disk, LinkOf[cur], cur)' = SpentToday(disk', LinkOf[cur], cur)
      BY <1>1, <2>1 DEF SpentToday, Spending
    <2>4. SpentToday(disk', LinkOf[cur], cur) = SpentToday(disk, LinkOf[cur], cur)
      BY <2>2, SameSpending DEF SpentToday
    <2>5. PaymentIsMarked' /\ PaidOnce'
      BY <2>1, <2>2, <2>3, <2>4 DEF Kept, PaymentIsMarked, PaidOnce
    <2> QED
      BY <1>1, <2>1, <2>2, <2>5, KeptWhilePaying
  <1>5. CASE BackToPending \/ LeaveUnknown
    <2>1. PICK x \in {"pending", "unknown"} :
            /\ disk' = Set(disk, cur, x) /\ pc' = "idle" /\ UNCHANGED <<pays, out>>
            /\ disk.status[cur] = "sending" /\ (x = "pending" => pays[cur] = 0)
      BY <1>5 DEF BackToPending, LeaveUnknown, Stop, money, Kept, PaymentIsMarked
    <2>2. AllFit(disk', pays', told, overdue) /\ OnRecord(disk) \subseteq OnRecord(disk')
      BY <1>3, <1>5, <2>1 DEF BackToPending, LeaveUnknown, Kept, PaymentIsMarked
    <2>3. PaymentIsMarked' /\ PaidOnce'
      BY <2>1 DEF Kept, PaymentIsMarked, PaidOnce
    <2> QED
      BY <1>1, <2>1, <2>2, <2>3, KeptWhilePaying
  \* The one step that pays, of a request that was not paid.
  <1>6. CASE Broadcast
    <2>1. /\ pc = "sign" /\ pc' \in {"complete", "lost"} /\ cur' = cur /\ UNCHANGED <<disk, out>>
          /\ disk.status[cur] = "sending" /\ pays[cur] = 0
          /\ \/ pays' = [pays EXCEPT ![cur] = 1]
             \/ pays' = pays /\ pc' = "lost"
      BY <1>1, <1>6 DEF Broadcast, Goto, Kept, PaymentIsMarked
    <2>2. /\ \A q \in Req \ {cur} : pays'[q] = pays[q]
          /\ pays'[cur] \in {0, 1} /\ (pc' = "complete" => pays'[cur] = 1)
      BY <1>1, <2>1
    <2>3. Fits(disk', cur, pays'[cur], told, overdue)
      BY <1>1, <2>1 DEF Fits
    <2>4. ASSUME NEW q \in Req PROVE Fits(disk', q, pays'[q], told, overdue)
      <3>1. CASE q = cur
        BY <2>3, <3>1
      <3>2. CASE q # cur
        BY <1>1, <2>1, <2>2, <3>2 DEF AllFit
      <3> QED
        BY <3>1, <3>2
    <2>5. AllFit(disk', pays', told, overdue)
      BY <1>1, <2>1, <2>4 DEF AllFit
    <2>6. PaymentIsMarked' /\ PaidOnce' /\ \A q \in Req : pays[q] = 1 => pays'[q] = 1
      BY <1>1, <2>1, <2>2 DEF Kept, PaymentIsMarked, PaidOnce
    <2> QED
      BY <1>1, <2>1, <2>5, <2>6, KeptWhilePaying
  <1>7. CASE Finish
    <2>1. /\ disk' = Sent(disk, cur) /\ out' = {Result(disk', cur)} /\ pc' = "deliver"
          /\ disk.status[cur] = "sending" /\ pays[cur] = 1 /\ UNCHANGED <<pays, told, overdue>>
      BY <1>1, <1>7 DEF Finish, money, Kept, PaymentIsMarked
    <2>2. /\ SameLinks(disk, disk') /\ disk'.status[cur] = "sent" /\ disk'.result[cur] = "txid"
          /\ cur \in disk'.spends
          /\ cur \in disk'.published => disk.result[cur] = "txid"
          /\ \A q \in Req \ {cur} : SameRecord(disk, disk', q)
      BY <1>1, <2>1, SentFields
    <2>3. Fits(disk', cur, pays[cur], told, overdue)
      BY <1>1, <2>1, <2>2 DEF Fits
    <2>4. AllFit(disk', pays, told, overdue)
      BY <1>1, <2>2, <2>3, FitsAfter
    <2>5. \A q \in Req : /\ Seen(q) \notin out' /\ [type |-> "refused", req |-> q] \notin out'
                         /\ [type |-> "txid", req |-> q] \in out' => q = cur
      BY <2>1, <2>2 DEF Result, Seen
    <2> QED
      BY <2>1, <2>4, <2>5, KeptWhenSaved
  <1> QED
    BY <1>2, <1>4, <1>5, <1>6, <1>7 DEF Step

LEMMA DeliveryKept == ASSUME TypeOK, Kept, Delivery PROVE Kept'
  <1>1. PICK sent \in SUBSET out : Deliver(sent)
    BY DEF Delivery
  <1>2. /\ pc = "deliver" /\ pc' = "idle" /\ out' = {} /\ UNCHANGED <<pays, overdue>>
        /\ disk' = MarkSent(disk, sent) /\ told' = told \union Results(sent)
        /\ sent \in SUBSET Answer /\ disk \in State /\ AllFit(disk, pays, told, overdue)
    BY <1>1, TrueIsAllFit DEF Deliver, money, notes, TypeOK, Kept
  <1>3. /\ SameLinks(disk, disk') /\ disk'.status = disk.status /\ disk'.result = disk.result
        /\ disk'.spends = disk.spends
        /\ \A q \in disk'.published : q \in disk.published
                                      \/ (disk.result[q] # "none" /\ Result(disk, q) \in sent)
    BY <1>2, MarkSentFields
  <1>4. \A r \in Req : [type |-> "refused", req |-> r] \in told' \ told => disk.status[r] = "refused"
    BY <1>2 DEF Results, Kept, AnswersAreBacked
  <1>5. AllFit(disk, pays, told', overdue)
    BY <1>2, <1>4, FitsLater
  <1>6. ASSUME NEW q \in Req PROVE Fits(disk', q, pays[q], told', overdue)
    <2>1. Fits(disk, q, pays[q], told', overdue) /\ disk.result[q] \in {"none", "txid", "refused"}
      BY <1>2, <1>5 DEF AllFit, State
    <2>2. q \in disk'.published => /\ disk.result[q] # "none"
                                   /\ [type |-> disk.result[q], req |-> q] \in told'
      <3>1. disk.result[q] # "none" /\ Result(disk, q) \in sent
              => [type |-> disk.result[q], req |-> q] \in told'
        BY <1>2, <2>1 DEF Result, Results
      <3> QED
        BY <1>3, <2>1, <3>1 DEF Fits
    <2> QED
      BY <1>3, <2>1, <2>2 DEF Fits
  <1>7. OnRecord(disk') = OnRecord(disk) /\ \A l \in Link : RevocationHolds(disk', l)
    BY <1>3, <1>5 DEF OnRecord, AllFit, SameLinks, RevocationHolds
  <1>8. AllFit(disk', pays, told', overdue)
    BY <1>5, <1>6, <1>7 DEF AllFit
  <1>9. StateIsTrue(disk)' /\ CopyIsAhead' /\ PaidOnce' /\ PaymentIsMarked'
    BY <1>2, <1>8, TrueIsAllFit DEF Kept, CopyIsAhead, PaidOnce, PaymentIsMarked
  <1>10. AnswersAreBacked'
    <2>1. \A r \in Req : [type |-> "txid", req |-> r] \in told' => pays'[r] = 1
      BY <1>2 DEF Results, Kept, AnswersAreBacked
    <2> QED
      BY <1>2, <2>1 DEF AnswersAreBacked
  <1> QED
    BY <1>9, <1>10 DEF Kept

LEMMA CutShortKept == ASSUME TypeOK, Kept, CutShort PROVE Kept'
  <1>1. /\ pc' = "idle" /\ out' = {} /\ UNCHANGED <<disk, pays, overdue>>
        /\ told \subseteq told' /\ (pc # "deliver" => told' = told) /\ told' \subseteq told \union Results(out)
        /\ AllFit(disk, pays, told, overdue)
    BY TrueIsAllFit DEF CutShort, money, notes, Kept
  <1>2. \A r \in Req : [type |-> "refused", req |-> r] \in told' \ told => disk.status[r] = "refused"
    BY <1>1 DEF Results, Kept, AnswersAreBacked
  <1>3. AllFit(disk', pays', told', overdue')
    BY <1>1, <1>2, FitsLater
  <1>4. StateIsTrue(disk)' /\ CopyIsAhead' /\ PaidOnce' /\ PaymentIsMarked'
    BY <1>1, <1>3, TrueIsAllFit DEF Kept, CopyIsAhead, PaidOnce, PaymentIsMarked
  <1>5. \A r \in Req : [type |-> "txid", req |-> r] \in told' => pays'[r] = 1
    BY <1>1 DEF Results, Kept, AnswersAreBacked
  <1>6. AnswersAreBacked'
    BY <1>1, <1>5 DEF AnswersAreBacked
  <1> QED
    BY <1>4, <1>6 DEF Kept

LEMMA NextKept == ASSUME TypeOK, Kept, Next PROVE Kept'
  <1>1. CASE Phone \/ (\E r \in Req : Expire(r)) \/ DayPasses
    <2>1. UNCHANGED <<disk, command, pays, told, overdue>> /\ (pc = "idle" \/ UNCHANGED old)
      BY <1>1 DEF Phone, PhoneAccept, PhoneAsk, PhoneRevoke, Expire, DayPasses, money, clock, notes
    <2> QED
      BY <2>1, KeptElsewhere
  <1>2. ASSUME NEW complete \in BOOLEAN, Fetch(complete) PROVE Kept'
    <2>1. /\ pc' = "process" /\ mem' = disk /\ UNCHANGED <<disk, out, pays, told, overdue>>
          /\ pc = "idle" /\ AllFit(disk, pays, told, overdue)
      BY <1>2, TrueIsAllFit DEF Fetch, money, notes, Kept
    <2>2. StateIsTrue(disk)' /\ CopyIsAhead' /\ PaidOnce' /\ PaymentIsMarked'
      BY <2>1, TrueIsAllFit DEF Kept, CopyIsAhead, PaidOnce, PaymentIsMarked, OnRecord
    <2>3. AnswersAreBacked'
      BY <2>1 DEF Kept, AnswersAreBacked
    <2> QED
      BY <2>2, <2>3 DEF Kept
  <1> QED
    BY <1>1, <1>2, OwnerKept, StepKept, InboxKept, DeliveryKept, CutShortKept DEF Next

LEMMA NextWraps == ASSUME TypeOK, Kept, WrapsAreKept, Next PROVE WrapsAreKept'
  <1> DEFINE Had == relay \union disk.wraps
  <1>1. ASSUME asks' = asks, Had \subseteq Had' PROVE WrapsAreKept'
    BY <1>1 DEF WrapsAreKept
  <1>2. ASSUME disk'.wraps = disk.wraps, UNCHANGED <<asks, relay>> PROVE WrapsAreKept'
    BY <1>1, <1>2
  <1>3. ASSUME NEW r \in Req, PhoneAsk(r) PROVE WrapsAreKept'
    <2>1. /\ asks' = [asks EXCEPT ![r] = asks[r] + 1] /\ disk' = disk /\ asks \in [Req -> Nat]
          /\ relay' = relay \union {[type |-> "request", req |-> r, copy |-> asks'[r]]}
      BY <1>3 DEF PhoneAsk, TypeOK
    <2>2. SUFFICES ASSUME NEW q \in Req, NEW c \in 1 .. asks'[q]
                   PROVE  [type |-> "request", req |-> q, copy |-> c] \in relay' \union disk.wraps
      BY <2>1 DEF WrapsAreKept
    <2>3. CASE q = r /\ c = asks'[r]
      BY <2>1, <2>3
    <2>4. CASE ~(q = r /\ c = asks'[r])
      <3>1. c \in 1 .. asks[q]
        BY <2>1, <2>4
      <3> QED
        BY <2>1, <3>1 DEF WrapsAreKept
    <2> QED
      BY <2>3, <2>4
  <1>4. ASSUME NEW l \in Link, PhoneAccept(l) \/ PhoneRevoke(l) PROVE WrapsAreKept'
    BY <1>1, <1>4 DEF PhoneAccept, PhoneRevoke
  <1>5. CASE Inbox
    <2>1. CASE EndProcess
      <3>1. /\ disk'.wraps = mem.wraps /\ disk.wraps \subseteq mem.wraps
            /\ asks' = asks /\ relay \subseteq relay' \union mem.wraps
        BY <2>1, CloseFields DEF EndProcess, TypeOK, Kept, CopyIsAhead, SameLinks
      <3> QED
        BY <1>1, <3>1
    <2>2. CASE ~ EndProcess
      <3>1. disk.wraps \subseteq disk'.wraps /\ UNCHANGED <<asks, relay>>
        <4>1. ASSUME NEW w \in Asked, TakeNew(w) PROVE disk.wraps \subseteq disk'.wraps
          <5>1. w \in Wrap /\ w.req \in Req /\ Reading(w)
            BY <4>1, WrapType DEF TakeNew
          <5>2. /\ Read(w) \in State /\ mem \in State /\ pc = "process"
                /\ Read(w).wraps = mem.wraps \union {w}
            BY <5>1, ReadType, ReadFields DEF Read
          <5>3. disk'.wraps = Read(w).wraps
            BY <4>1, <5>1, <5>2, NewFields DEF TakeNew, SameLinks
          <5> QED
            BY <5>2, <5>3 DEF Kept, CopyIsAhead
        <4>2. UNCHANGED <<asks, relay>>
          BY <1>5, <2>2 DEF Inbox, TakeAccept, TakeRevoke, TakeRequest, TakeUnknown, TakeNew,
                            TakeKnown, TakeRefused, TakeAfterRevoke, Reading, outside
        <4>3. disk' = disk \/ \E w \in Asked : TakeNew(w)
          BY <1>5, <2>2 DEF Inbox, TakeAccept, TakeRevoke, TakeRequest, TakeUnknown,
                            TakeKnown, TakeRefused, TakeAfterRevoke
        <4> QED
          BY <4>1, <4>2, <4>3
      <3> QED
        BY <1>1, <3>1
    <2> QED
      BY <2>1, <2>2
  <1>6. CASE Owner
    <2>1. UNCHANGED <<asks, relay>>
      BY <1>6 DEF Owner, Offer, Confirm, SetLimit, RevokeLink, Approve, ApproveAgain, Refuse,
                  DropOffer, outside
    <2>2. ASSUME NEW l \in Link, Confirm(l) \/ SetLimit(l) PROVE disk'.wraps = disk.wraps
      BY <2>2 DEF Confirm, SetLimit, TypeOK, State
    <2>3. ASSUME NEW l \in Link, RevokeLink(l) PROVE disk'.wraps = disk.wraps
      <3>1. CancelPending(disk, l) \in State /\ CancelPending(disk, l).wraps = disk.wraps
        BY CancelFields DEF TypeOK
      <3> QED
        BY <2>3, <3>1 DEF RevokeLink, State
    <2>4. ASSUME NEW r \in Req, ApproveAgain(r) \/ Refuse(r) PROVE disk'.wraps = disk.wraps
      <3>1. SameLinks(disk, Sent(disk, r)) /\ SameLinks(disk, Refusal(disk, r))
        BY SentFields, RefusalFields DEF TypeOK
      <3> QED
        BY <2>4, <3>1 DEF ApproveAgain, Refuse, SameLinks
    <2>5. disk'.wraps = disk.wraps
      BY <1>6, <2>2, <2>3, <2>4 DEF Owner, Offer, Approve, DropOffer
    <2> QED
      BY <1>2, <2>1, <2>5
  <1>7. CASE Step
    <2>1. UNCHANGED <<asks, relay>> /\ cur \in Req /\ disk \in State
      BY <1>7 DEF Step, NotBegun, Begin, Mark, Abandon, BackToPending, Broadcast, LeaveUnknown,
                  Complete, Finish, TypeOK, Paying, outside
    <2>2. /\ \A x \in Status : Set(disk, cur, x).wraps = disk.wraps
          /\ Sent(disk, cur).wraps = disk.wraps
      BY <2>1, SetFields, SentFields DEF SameLinks
    <2>3. disk'.wraps = disk.wraps
      BY <1>7, <2>2 DEF Step, NotBegun, Begin, Mark, Abandon, BackToPending, Broadcast, LeaveUnknown,
                        Complete, Finish, Status
    <2> QED
      BY <1>2, <2>1, <2>3
  <1>8. ASSUME NEW complete \in BOOLEAN, Fetch(complete) PROVE WrapsAreKept'
    BY <1>2, <1>8 DEF Fetch, outside
  <1>9. CASE Delivery
    <2>1. PICK sent \in SUBSET out : Deliver(sent)
      BY <1>9 DEF Delivery
    <2>2. sent \in SUBSET Answer /\ disk \in State
      BY DEF TypeOK
    <2>3. disk'.wraps = disk.wraps
      BY <2>1, <2>2, MarkSentFields DEF Deliver, SameLinks
    <2> QED
      BY <1>2, <2>1, <2>3 DEF Deliver, outside
  <1>10. CASE (\E r \in Req : Expire(r)) \/ DayPasses \/ CutShort
    BY <1>2, <1>10 DEF Expire, DayPasses, CutShort, outside
  <1> QED
    BY <1>3, <1>4, <1>5, <1>6, <1>7, <1>8, <1>9, <1>10 DEF Next, Phone

----------------------------------------------------------------------------
(* Theorems *)

LEMMA Invariance == Spec => []IInv
  <1>1. Init => IInv
    <2> SUFFICES ASSUME Init PROVE IInv
      OBVIOUS
    <2>1. TypeOK
      BY InitType
    <2>2. StateIsTrue(disk)
      <3>1. /\ \A r \in Req : /\ disk.status[r] = "none" /\ disk.result[r] = "none"
                              /\ pays[r] = 0
            /\ disk.spends = {} /\ disk.published = {} /\ disk.wraps = {} /\ told = {}
        BY DEF Init
      <3>2. OnRecord(disk) = {}
        BY <3>1 DEF OnRecord
      <3> QED
        BY <3>1, <3>2, FS_EmptySet DEF StateIsTrue, RecordIsTrue, RevocationHolds, Told
    <2>3. PaidOnce /\ CopyIsAhead /\ AnswersAreBacked /\ PaymentIsMarked /\ WrapsAreKept
      BY DEF Init, PaidOnce, CopyIsAhead, AnswersAreBacked, PaymentIsMarked, WrapsAreKept
    <2> QED
      BY <2>1, <2>2, <2>3 DEF IInv
  <1>2. IInv /\ [Next]_vars => IInv'
    <2> SUFFICES ASSUME IInv, [Next]_vars PROVE IInv'
      OBVIOUS
    <2>1. TypeOK /\ Kept /\ WrapsAreKept
      BY DEF IInv, Kept
    <2>2. CASE Next
      BY <2>1, <2>2, NextType, NextKept, NextWraps DEF IInv, Kept
    <2>3. CASE UNCHANGED vars
      <3>1. UNCHANGED <<disk, command, pays, told, overdue, old>>
        BY <2>3 DEF vars, money, clock, notes
      <3>2. Kept'
        BY <2>1, <3>1, KeptElsewhere
      <3>3. TypeOK'
        BY <2>1, <2>3 DEF TypeOK, vars, outside, command, money, clock, notes
      <3>4. WrapsAreKept'
        BY <2>1, <2>3 DEF WrapsAreKept, vars, outside
      <3> QED
        BY <3>2, <3>3, <3>4 DEF IInv, Kept
    <2> QED
      BY <2>2, <2>3
  <1> QED
    BY <1>1, <1>2, PTL DEF Spec

(* The state of a link keeps the shape state.json and the commands give it.     *)
THEOREM TypeCorrect == Spec => []TypeOK
  <1>1. IInv => TypeOK
    BY DEF IInv
  <1> QED
    BY <1>1, Invariance, PTL

(* A request is paid at most once, whatever comes again, is approved again or is *)
(* cut short (wallet_link_approve).                                              *)
THEOREM OnePayment == Spec => []PaidOnce
  <1>1. IInv => PaidOnce
    BY DEF IInv
  <1> QED
    BY <1>1, Invariance, PTL

(* A phone is told of a txid only when its request was paid, of a receipt only   *)
(* when the request is on disk, and of a refusal only when nothing was paid, but *)
(* for a copy that was read when it had expired and was being paid.              *)
THEOREM AnswersAreTrue == Spec => []ToldIsTrue
  <1>1. IInv => ToldIsTrue
    <2> SUFFICES ASSUME IInv, NEW r \in Req
                 PROVE  /\ Told("txid", r) => pays[r] = 1
                        /\ Seen(r) \in out => disk.status[r] # "none"
                        /\ Told("refused", r) /\ r \notin overdue => pays[r] = 0
      BY DEF ToldIsTrue
    <2>1. RecordIsTrue(disk, r)
      BY DEF IInv, StateIsTrue
    <2>2. /\ [type |-> "txid", req |-> r] \in told => pays[r] = 1
          /\ Seen(r) \in out => r \in OnRecord(disk)
      BY DEF IInv, AnswersAreBacked
    <2> QED
      BY <2>1, <2>2 DEF RecordIsTrue, Told, OnRecord
  <1> QED
    BY <1>1, Invariance, PTL

(* Once the phone's revocation has been read and saved its link is not live, even *)
(* when the owner confirms the pairing after it (process, confirm_in).            *)
THEOREM RevocationIsFinal == Spec => []RevokedStaysOff
  <1>1. IInv => RevokedStaysOff
    BY DEF IInv, StateIsTrue, RevocationHolds, RevokedStaysOff
  <1> QED
    BY <1>1, Invariance, PTL

(* What the phone asked can be read until it has been read, and what it has not  *)
(* been sent is sent again (the cursor of process, mark_sent).                   *)
THEOREM NothingLost == Spec => []NothingIsMissed
  <1>1. IInv => NothingIsMissed
    <2> SUFFICES ASSUME IInv PROVE NothingIsMissed
      OBVIOUS
    <2>1. \A r \in Req : disk.result[r] # "none" /\ ~Told(disk.result[r], r) => r \notin disk.published
      BY DEF IInv, StateIsTrue, RecordIsTrue
    <2>2. WrapsAreKept
      BY DEF IInv
    <2> QED
      BY <2>1, <2>2 DEF NothingIsMissed, WrapsAreKept
  <1> QED
    BY <1>1, Invariance, PTL

(* The step that pays: the request was weighed against the limit together with   *)
(* all that counts, and nothing that counts has been forgotten since.            *)
LEMMA PaymentFits ==
  ASSUME IInv, Next, NEW r \in Req, pays'[r] > pays[r]
  PROVE  /\ disk.link[LinkOf[r]] = "live"
         /\ SumFunctionOnSet(Cost,
              {q \in Req \ (old \union overdue) : LinkOf[q] = LinkOf[r] /\ pays'[q] > 0})
            <= disk.limit[LinkOf[r]]
  <1> DEFINE Paid == {q \in Req \ (old \union overdue) : LinkOf[q] = LinkOf[r] /\ pays'[q] > 0}
             Counted == Spending(disk, LinkOf[r], r)
  <1>1. TypeOK /\ PaymentIsMarked /\ StateIsTrue(disk)
    BY DEF IInv
  <1>2. pays \in [Req -> Nat] /\ cur \in Req \union {None} /\ disk \in State
    BY <1>1 DEF TypeOK
  <1>3. CASE ~ Broadcast
    <2>1. pays' = pays
      BY <1>3 DEF Next, Phone, PhoneAccept, PhoneRevoke, PhoneAsk, Owner, Offer, Confirm, SetLimit,
                  RevokeLink, Approve, ApproveAgain, Refuse, DropOffer, Step, NotBegun, Begin, Mark,
                  Abandon, BackToPending, LeaveUnknown, Complete, Finish, Inbox, TakeAccept,
                  TakeRevoke, TakeRequest, TakeUnknown, TakeNew, TakeKnown, TakeRefused,
                  TakeAfterRevoke, Reading, EndProcess, Fetch, Delivery, Deliver, Expire, DayPasses,
                  CutShort, money
    <2> QED
      BY <1>2, <2>1
  <1>4. CASE Broadcast
    <2>1. pc = "sign" /\ cur \in Req
      BY <1>1, <1>4 DEF Broadcast, TypeOK, Paying
    <2>2. cur = r /\ \A q \in Req \ {r} : pays'[q] = pays[q]
      BY <1>2, <1>4, <2>1 DEF Broadcast
    <2>3. /\ disk.link[LinkOf[r]] = "live"
          /\ SpentToday(disk, LinkOf[r], r) + Cost[r] <= disk.limit[LinkOf[r]]
      BY <1>1, <2>1, <2>2 DEF PaymentIsMarked
    <2>4. \A q \in Paid : q = r \/ q \in Counted
      <3>1. SUFFICES ASSUME NEW q \in Req, q \notin old, q \notin overdue, LinkOf[q] = LinkOf[r],
                            pays'[q] > 0, q # r
                     PROVE  q \in Counted
        OBVIOUS
      <3>2. pays[q] > 0 /\ pays[q] \in Nat /\ RecordIsTrue(disk, q) /\ disk.status[q] \in Status
        BY <1>1, <1>2, <2>2, <3>1 DEF StateIsTrue, State
      <3>3. q \in disk.spends \/ disk.status[q] \in {"sending", "unknown"}
        BY <3>1, <3>2 DEF RecordIsTrue, Status
      <3> QED
        BY <3>1, <3>3 DEF Spending
    <2>5. /\ IsFiniteSet(Counted) /\ SpentToday(disk, LinkOf[r], r) \in Nat
          /\ \A q \in Req : Cost[q] \in Nat
      <3>1. IsFiniteSet(OnRecord(disk)) /\ \A q \in disk.spends : disk.status[q] # "none"
        BY <1>1, <1>2 DEF StateIsTrue, RecordIsTrue, State
      <3> QED
        BY <3>1, SpendingType
    <2>6. r \notin Counted /\ Counted \subseteq Req
      BY DEF Spending
    <2> HIDE DEF Paid, Counted
    <2>7. /\ IsFiniteSet(Counted \union {r})
          /\ SumFunctionOnSet(Cost, Counted \union {r}) = Cost[r] + SumFunctionOnSet(Cost, Counted)
      BY <2>5, <2>6, SumWith, FS_AddElement
    <2>8. SumFunctionOnSet(Cost, Paid) <= SumFunctionOnSet(Cost, Counted \union {r})
      <3>1. Paid \in SUBSET (Counted \union {r})
        BY <2>4
      <3>2. \A q \in Counted \union {r} : Cost[q] \in Nat
        BY <2>5, <2>6
      <3>3. \A q \in Paid : Cost[q] \in Nat /\ Cost[q] <= Cost[q]
        BY <3>1, <3>2
      <3> QED
        BY <2>7, <3>1, <3>2, <3>3, SumOfMore
    <2>9. SumFunctionOnSet(Cost, Paid) \in Nat
      <3>1. IsFiniteSet(Paid)
        BY <2>4, <2>7, FS_Subset
      <3>2. \A q \in Paid : Cost[q] \in Nat
        BY <2>4, <2>5, <2>6
      <3> QED
        BY <3>1, <3>2, SumType
    <2>10. SumFunctionOnSet(Cost, Counted) = SpentToday(disk, LinkOf[r], r)
      BY DEF Counted, SpentToday
    <2>11. disk.limit[LinkOf[r]] \in Nat /\ Cost[r] \in Nat
      BY <1>2, <2>5, LinkAssumption DEF State
    <2> QED
      BY <2>3, <2>5, <2>7, <2>8, <2>9, <2>10, <2>11 DEF Paid
  <1> QED
    BY <1>3, <1>4

(* Every payment fits the day's limit in force, together with all that was paid   *)
(* through the link within a day, and is made for a link that is live: the check  *)
(* an approval begins with still holds at its broadcast (spent_today counts what  *)
(* is under way, unanswered or paid).                                             *)
THEOREM LimitHolds == Spec => WithinLimit
  <1> DEFINE Fit == \A r \in Req : pays'[r] > pays[r] =>
               /\ disk.link[LinkOf[r]] = "live"
               /\ SumFunctionOnSet(Cost,
                    {q \in Req \ (old \union overdue) : LinkOf[q] = LinkOf[r] /\ pays'[q] > 0})
                  <= disk.limit[LinkOf[r]]
  <1>1. IInv /\ [Next]_vars => [Fit]_vars
    BY PaymentFits
  <1>2. WithinLimit <=> [][Fit]_vars
    BY DEF WithinLimit
  <1> QED
    BY <1>1, <1>2, Invariance, PTL DEF Spec
=============================================================================
