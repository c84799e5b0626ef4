---------------------------- MODULE AssetsProofs ----------------------------
(* Proofs about two components that work on the assets of the wallet and share *)
(* no state: the sales a linked phone asks for (a lot serves one job and a job *)
(* makes one lot, what the phone is told is true, and a request to take a sale *)
(* down is answered), for any sales, lots and lost answers; and the asset      *)
(* files this computer keeps (what a person declined is let go, and what       *)
(* somebody sent is not pinned before it is asked for), for any files, faults  *)
(* and clicks.                                                                 *)
EXTENDS WalletSell, AssetKeep, TLAPS

-----------------------------------------------------------------------------
(* The inductive invariants of the sales *)

(* A job that waits knows where to resume, and holds a lot from the time it took
   one; a sale that is being taken down knows who asked. *)
JobHolds(j) ==
  /\ job[j].status \in {"none", "queued", "lot"} => job[j].coin = None
  /\ job[j].status = "pending_human" => job[j].resume # None
  /\ job[j].status = "pending_human" /\ job[j].resume = "queued" => job[j].coin = None
  /\ job[j].status \in {"lot_ready", "offered", "published", "cancelling"}
       => job[j].coin # None
  /\ job[j].status = "pending_human" /\ job[j].resume # "queued" => job[j].coin # None
  /\ job[j].resume = "cancelling" => job[j].status \in {"pending_human", "cancelling"}
  /\ Cancelling(job[j]) => job[j].unsell # None
  /\ job[j].coin # None => coin[job[j].coin] \in {"ready", "sold", "moved"}
JobsHold == \A j \in Job : JobHolds(j)

(* No lot was made for a job whose lane is free. *)
LanesCount == \A j \in Job : lots[j] <= 1 /\ (lane[j] = "free" => lots[j] = 0)

(* Jobs whose offer the job itself saw go out. *)
OnSale(j) == \/ job[j].status \in {"published", "cancelling", "cancelled", "sold"}
             \/ job[j].status = "pending_human" /\ job[j].resume = "cancelling"

(* What is out in the world belongs to a job and only that is bought; a post that
   says sold is right, and one that says off while the lot was bought was crossed
   by the buyer. *)
OutIsKnown    ==
  \A c \in posted : \E j \in Job : job[j].coin = c /\ (j \in adrift \/ OnSale(j))
BoughtWasOut  == \A c \in Coin : coin[c] = "sold" => c \in posted
SoldIsBought  == \A c \in Coin : listing[c] = "sold" => coin[c] = "sold"
OffIsGone     ==
  \A c \in Coin : listing[c] = "cancelled" =>
    \/ coin[c] = "moved"
    \/ coin[c] = "sold" /\ \E j \in crossed : job[j].coin = c
PostsAreKnown == OutIsKnown /\ BoughtWasOut /\ SoldIsBought /\ OffIsGone

(* What the phone was told of a sale is what the job went through, and a job taken
   down or stopped left a lot that nobody can buy. *)
ToldIsSo == \A j \in Job : /\ <<j, "published">> \in told => OnSale(j)
                           /\ <<j, "sold">> \in told => job[j].status = "sold"
SoldWasBought ==
  \A j \in Job : job[j].status = "sold" => job[j].coin # None /\ coin[job[j].coin] = "sold"
CancelledIsOff ==
  \A j \in Job :
    /\ job[j].status = "cancelled" /\ job[j].coin # None
    /\ j \notin crossed \union adrift /\ Alone(j)
    => coin[job[j].coin] = "moved" \/ job[j].coin \notin posted

IInv == /\ TypeOK /\ JobsHold /\ CoinsAreNotShared /\ LanesCount /\ PostsAreKnown
        /\ ToldIsSo /\ SoldWasBought /\ CancelledIsOff /\ UnsellsAreKept

-----------------------------------------------------------------------------
LEMMA Constants ==
  /\ Target \in [Unsell -> Job] /\ Job \cap Unsell = {}
  /\ None \notin Job \union Unsell \union Coin
  /\ None \notin Status /\ None \notin {"queued", "lot_ready", "cancelling"}
  /\ Daily \in Nat /\ Pool \in Nat /\ MaxLost \in Nat
  BY SellAssumption, NoneIsNoStatus DEF Status, Active


(* What a step may make of a job *)
Is(j, st, re, co, un) == /\ job'[j].status = st /\ job'[j].resume = re
                         /\ job'[j].coin = co /\ job'[j].unsell = un
Went(j, st)   == Is(j, st, job[j].resume, job[j].coin, job[j].unsell)
Became(j, st) == Is(j, st, None, job[j].coin, job[j].unsell)

AnswerTold(u)  == \E s \in Ended : <<u, s>> \in told'
Begins(j)      == job[j].status = "none" /\ (Went(j, "queued") \/ Became(j, "refused"))
Waits(j)       == /\ job[j].status \in {"queued", "lot_ready", "cancelling"}
                  /\ Is(j, "pending_human", job[j].status, job[j].coin, job[j].unsell)
Resumes(j)     == /\ job[j].status = "pending_human" /\ job[j].resume # None
                  /\ Went(j, job[j].resume)
TakesLot(j)    == /\ job[j].status \in {"queued", "lot"}
                  /\ \A k \in Job \ {j} : job'[k] = job[k]
                  /\ \E c \in Lots(j) : /\ coin[c] = "ready"
                                        /\ Is(j, "lot_ready", job[j].resume, c, job[j].unsell)
Advances(j)    == \/ job[j].status = "queued" /\ Went(j, "lot")
                  \/ job[j].status = "lot_ready" /\ Went(j, "offered")
                  \/ job[j].status = "offered" /\ Became(j, "published")
StopsUnsold(j) == /\ job[j].status \in BeforePublish /\ job[j].resume # "cancelling"
                  /\ \E st \in {"refused", "failed", "cancelled"} : Became(j, st)
IsSold(j)      == /\ job[j].status = "published" /\ Became(j, "sold")
                  /\ coin[job[j].coin] = "sold" \/ listing[job[j].coin] = "sold"
IsOff(j)       == /\ job[j].status = "published" /\ Became(j, "cancelled")
                  /\ listing[job[j].coin] = "cancelled"
IsTakenDown(j) == /\ job[j].status = "published" \/ Cancelling(job[j])
                  /\ Became(j, "cancelled")
                  /\ coin'[job[j].coin] = "moved" \/ j \in crossed'
                  /\ job[j].unsell # None => AnswerTold(job[j].unsell)
StaysOnSale(j) == /\ job[j].status = "pending_human" /\ job[j].resume = "cancelling"
                  /\ Became(j, "published") /\ AnswerTold(job[j].unsell)
IsAsked(j)     ==
  \E u \in Unsell :
    \/ /\ job[j].status = "published"
       /\ Is(j, "cancelling", job[j].resume, job[j].coin, u)
    \/ /\ job[j].status \in {"cancelling", "pending_human"}
       /\ Is(j, job[j].status, job[j].resume, job[j].coin, u)
       /\ job[j].unsell \in replaced' \union {None}
JobMoves(j) ==
  \/ job'[j] = job[j] \/ Begins(j) \/ Waits(j) \/ Resumes(j) \/ TakesLot(j) \/ Advances(j)
  \/ StopsUnsold(j) \/ IsSold(j) \/ IsOff(j) \/ IsTakenDown(j) \/ StaysOnSale(j) \/ IsAsked(j)
Moves     == job' \in [Job -> SellJob] /\ \A j \in Job : JobMoves(j)
Others(j) == job' \in [Job -> SellJob] /\ \A k \in Job \ {j} : job'[k] = job[k]

LEMMA Becomes ==
  ASSUME NEW s \in SellJob, NEW st \in Status
  PROVE  Become(s, st) = [status |-> st, resume |-> None, coin |-> s.coin, unsell |-> s.unsell]
  <1> DEFINE t == [s EXCEPT !.status = st]
  <1>1. t = [status |-> st, resume |-> s.resume, coin |-> s.coin, unsell |-> s.unsell]
    BY DEF SellJob
  <1>2. Become(s, st) = [t EXCEPT !.resume = None]
    BY DEF Become
  <1> HIDE DEF t
  <1> QED
    BY <1>1, <1>2

Put(j, st, re, co, un) ==
  job' = [job EXCEPT ![j] = [status |-> st, resume |-> re, coin |-> co, unsell |-> un]]

LEMMA Statuses ==
  /\ {"none", "queued", "lot", "lot_ready", "offered", "published", "cancelling"}
            \subseteq Status
  /\ {"pending_human", "refused", "failed", "cancelled", "sold"} \subseteq Status
  BY DEF Status, Active, Ended

LEMMA Typed ==
  ASSUME TypeOK, NEW j \in Job
  PROVE  /\ job[j].status \in Status
         /\ job[j].resume \in {"queued", "lot_ready", "cancelling", None}
         /\ job[j].coin \in Coin \union {None} /\ job[j].unsell \in Unsell \union {None}
  BY DEF TypeOK, SellJob

LEMMA PutIs ==
  ASSUME TypeOK, NEW j \in Job, NEW st \in Status,
         NEW re \in {"queued", "lot_ready", "cancelling", None},
         NEW co \in Coin \union {None}, NEW un \in Unsell \union {None}, Put(j, st, re, co, un)
  PROVE  Others(j) /\ Is(j, st, re, co, un)
  BY DEF TypeOK, SellJob, Put, Is, Others

LEMMA Sets ==
  ASSUME TypeOK, NEW j \in Job, NEW st \in Status
  PROVE  /\ job' = [job EXCEPT ![j].status = st] => Others(j) /\ Went(j, st)
         /\ job' = [job EXCEPT ![j] = Become(@, st)] => Others(j) /\ Became(j, st)
         /\ \A re \in {"queued", "lot_ready", "cancelling"} :
              job' = [job EXCEPT ![j].status = st, ![j].resume = re]
              => Others(j) /\ Is(j, st, re, job[j].coin, job[j].unsell)
         /\ \A un \in Unsell :
              job' = [job EXCEPT ![j].status = st, ![j].unsell = un]
              => Others(j) /\ Is(j, st, job[j].resume, job[j].coin, un)
         /\ \A un \in Unsell :
              job' = [job EXCEPT ![j].unsell = un]
              => Others(j) /\ Is(j, job[j].status, job[j].resume, job[j].coin, un)
         /\ \A co \in Coin :
              job' = [job EXCEPT ![j] = [job[j] EXCEPT !.status = st, !.coin = co]]
              => Others(j) /\ Is(j, st, job[j].resume, co, job[j].unsell)
  <1> DEFINE s == job[j]
  <1> DEFINE t == [s EXCEPT !.status = st]
  <1>1. s \in SellJob /\ s = [status |-> s.status, resume |-> s.resume, coin |-> s.coin,
                              unsell |-> s.unsell] /\ job \in [Job -> SellJob]
    BY DEF TypeOK, SellJob
  <1>2. t = [status |-> st, resume |-> s.resume, coin |-> s.coin, unsell |-> s.unsell]
    BY <1>1
  <1> HIDE DEF t
  <1>3. \A re : [t EXCEPT !.resume = re]
               = [status |-> st, resume |-> re, coin |-> s.coin, unsell |-> s.unsell]
    BY <1>2
  <1>4. \A un : [t EXCEPT !.unsell = un]
               = [status |-> st, resume |-> s.resume, coin |-> s.coin, unsell |-> un]
    BY <1>2
  <1>5. \A co : [t EXCEPT !.coin = co]
               = [status |-> st, resume |-> s.resume, coin |-> co, unsell |-> s.unsell]
    BY <1>2
  <1>6. \A un : [s EXCEPT !.unsell = un]
               = [status |-> s.status, resume |-> s.resume, coin |-> s.coin, unsell |-> un]
    BY <1>1
  <1>7. [job EXCEPT ![j].status = st] = [job EXCEPT ![j] = t]
    BY DEF t
  <1>8. \A re : [job EXCEPT ![j].status = st, ![j].resume = re]
               = [job EXCEPT ![j] = [t EXCEPT !.resume = re]]
    BY <1>1, <1>7
  <1>9. \A un : [job EXCEPT ![j].status = st, ![j].unsell = un]
               = [job EXCEPT ![j] = [t EXCEPT !.unsell = un]]
    BY <1>1, <1>7
  <1>10. job' = [job EXCEPT ![j].status = st] => Put(j, st, s.resume, s.coin, s.unsell)
    BY <1>2, <1>7 DEF Put
  <1>11. job' = [job EXCEPT ![j] = Become(@, st)] => Put(j, st, None, s.coin, s.unsell)
    BY <1>1, Becomes DEF Put
  <1>12. \A re : job' = [job EXCEPT ![j].status = st, ![j].resume = re]
                 => Put(j, st, re, s.coin, s.unsell)
    BY <1>3, <1>8 DEF Put
  <1>13. \A un : job' = [job EXCEPT ![j].status = st, ![j].unsell = un]
                 => Put(j, st, s.resume, s.coin, un)
    BY <1>4, <1>9 DEF Put
  <1>14. \A un : job' = [job EXCEPT ![j].unsell = un] => Put(j, s.status, s.resume, s.coin, un)
    BY <1>6 DEF Put
  <1>15. \A co : job' = [job EXCEPT ![j] = [job[j] EXCEPT !.status = st, !.coin = co]]
                 => Put(j, st, s.resume, co, s.unsell)
    BY <1>5 DEF Put, t
  <1>16. s.status \in Status /\ s.resume \in {"queued", "lot_ready", "cancelling", None}
         /\ s.coin \in Coin \union {None} /\ s.unsell \in Unsell \union {None}
    BY Typed
  <1> HIDE DEF s
  <1>17. job' = [job EXCEPT ![j].status = st]
            => Others(j) /\ Is(j, st, s.resume, s.coin, s.unsell)
    BY <1>10, <1>16, PutIs
  <1>18. job' = [job EXCEPT ![j] = Become(@, st)]
            => Others(j) /\ Is(j, st, None, s.coin, s.unsell)
    BY <1>11, <1>16, PutIs
  <1>19. \A re \in {"queued", "lot_ready", "cancelling"} :
           Put(j, st, re, s.coin, s.unsell) => Others(j) /\ Is(j, st, re, s.coin, s.unsell)
    BY <1>16, PutIs
  <1>20. \A un \in Unsell :
           Put(j, st, s.resume, s.coin, un) => Others(j) /\ Is(j, st, s.resume, s.coin, un)
    BY <1>16, PutIs
  <1>21. \A un \in Unsell :
           Put(j, s.status, s.resume, s.coin, un)
                     => Others(j) /\ Is(j, s.status, s.resume, s.coin, un)
    BY <1>16, PutIs
  <1>22. \A co \in Coin :
           Put(j, st, s.resume, co, s.unsell) => Others(j) /\ Is(j, st, s.resume, co, s.unsell)
    BY <1>16, PutIs
  <1> QED
    BY <1>12, <1>13, <1>14, <1>15, <1>17, <1>18, <1>19, <1>20, <1>21, <1>22 DEF Went, Became, s

LEMMA MovesOne ==
  ASSUME NEW j \in Job, Others(j), JobMoves(j)
  PROVE  Moves
  BY DEF Others, JobMoves, Moves

LEMMA Become1 ==
  ASSUME TypeOK, NEW j \in Job, NEW st \in Status
  PROVE  /\ Become(job[j], st) \in SellJob
         /\ job'[j] = Become(job[j], st) => Became(j, st)
  <1>1. Become(job[j], st)
        = [status |-> st, resume |-> None, coin |-> job[j].coin, unsell |-> job[j].unsell]
    BY Becomes DEF TypeOK
  <1> QED
    BY <1>1, Typed DEF SellJob, Became, Is

LEMMA StopMoves == TypeOK /\ StopLink => Moves
  <1> SUFFICES ASSUME TypeOK, StopLink PROVE Moves
    OBVIOUS
  <1> DEFINE to(j) == IF Stopped(job[j]) THEN Become(job[j], "cancelled") ELSE job[j]
  <1>1. job' = [j \in Job |-> to(j)]
    BY DEF StopLink
  <1>2. "cancelled" \in Status
    BY DEF Status, Ended
  <1>3. \A j \in Job : to(j) \in SellJob
    BY <1>2, Become1 DEF TypeOK
  <1>4. ASSUME NEW j \in Job PROVE JobMoves(j)
    <2>1. job'[j] = job[j] \/ (Stopped(job[j]) /\ job'[j] = Become(job[j], "cancelled"))
      BY <1>1
    <2> HIDE DEF to
    <2> QED
      BY <1>2, <2>1, Become1 DEF JobMoves, StopsUnsold, Stopped
  <1> HIDE DEF to
  <1> QED
    BY <1>1, <1>3, <1>4 DEF Moves

LEMMA TickMoves ==
  TypeOK /\ JobsHold /\ StartTick =>
    /\ Moves
    /\ \A j \in Job : ~Cancelling(job[j]) /\ job'[j] # job[j]
                       => job'[j].status \in {"cancelled", "failed"}
  <1> SUFFICES ASSUME TypeOK, JobsHold, StartTick
               PROVE  /\ Moves
                      /\ \A j \in Job : ~Cancelling(job[j]) /\ job'[j] # job[j]
                                         => job'[j].status \in {"cancelled", "failed"}
    OBVIOUS
  <1>1. job' = [j \in Job |-> Tidied(j)]
    BY DEF StartTick
  <1>2. {"published", "cancelled", "failed"} \subseteq Status
    BY DEF Status, Active, Ended
  <1>3. \A j \in Job : Tidied(j) \in SellJob
    BY <1>2, Become1 DEF Tidied, TypeOK
  <1>4. ASSUME NEW j \in Job, Tired(j) PROVE StaysOnSale(j) /\ Cancelling(job[j])
    <2>1. job'[j] = Become(job[j], "published")
      BY <1>1, <1>4 DEF Tidied, Tired, Late
    <2>2. Became(j, "published")
      BY <1>2, <2>1, Become1
    <2>3. job[j].resume = "cancelling" /\ job[j].status = "pending_human"
      BY <1>4 DEF Tired, Cancelling
    <2>4. AnswerTold(job[j].unsell)
      BY <1>4 DEF StartTick, AnswerTold, Ended
    <2> QED
      BY <1>4, <2>2, <2>3, <2>4 DEF StaysOnSale, Tired
  <1>5. ASSUME NEW j \in Job, ~Tired(j), job'[j] # job[j]
        PROVE  StopsUnsold(j) /\ job'[j].status \in {"cancelled", "failed"}
    <2>1. /\ ~Cancelling(job[j]) /\ job[j].status \in BeforePublish
          /\ \E st \in {"cancelled", "failed"} : Tidied(j) = Become(job[j], st)
      BY <1>1, <1>5 DEF Tidied, Late
    <2>2. PICK st \in {"cancelled", "failed"} : Became(j, st)
      BY <1>1, <1>2, <2>1, Become1
    <2> QED
      BY <2>1, <2>2 DEF StopsUnsold, Cancelling, Became, Is
  <1> QED
    BY <1>1, <1>3, <1>4, <1>5 DEF Moves, JobMoves

LEMMA MoveStep == TypeOK /\ JobsHold /\ [Next]_vars => Moves
  <1> SUFFICES ASSUME TypeOK, JobsHold, [Next]_vars PROVE Moves
    OBVIOUS
  <1> USE Constants
  <1>0. ASSUME UNCHANGED <<job>> PROVE Moves
    BY <1>0 DEF TypeOK, Moves, JobMoves
  <1>1. ASSUME NEW j \in Job, LotLost(j) \/ PublishLost(j) \/ MarketCancel(j) \/
     TwoHours(j) PROVE Moves
    BY <1>0, <1>1 DEF LotLost, PublishLost, MarketCancel, TwoHours, Making, At, Rest,
       MadeFor, NewCoin, NotMade, Posting, TakeDown, Bought, link, wallet, market,
       phone, ghosts
  <1>2. ASSUME NEW u \in Unsell, UnsellAnswered(u) \/ UnsellExpired(u) PROVE Moves
    BY <1>0, <1>2 DEF UnsellAnswered, UnsellExpired, Take, link, wallet, market, phone,
       ghosts
  <1>3. ASSUME NEW c \in Coin, MarketSettles(c) \/ Buy(c) \/ Confirm(c) PROVE Moves
    BY <1>0, <1>3 DEF MarketSettles, Buy, Confirm, link, wallet, market, phone, ghosts
  <1>4. CASE UNCHANGED vars
    BY <1>0, <1>4 DEF vars, link, wallet, market, phone, ghosts
  <1>5. ASSUME NEW j \in Job, Sell(j) PROVE Moves
    <2>1. Others(j) /\ (Went(j, "queued") \/ Became(j, "refused"))
      BY <1>5, Sets, Statuses, Typed, Constants DEF Sell
    <2>2. Begins(j)
      BY <1>5, <2>1 DEF Sell, Begins
    <2> QED
      BY <2>1, <2>2, MovesOne DEF Moves, JobMoves
  <1>6. ASSUME NEW j \in Job, Pause(j) PROVE Moves
    <2>1. ASSUME job' # job
          PROVE  Others(j) /\ (job[j].status = job[j].resume
              /\ Went(j, "pending_human"))
      BY <1>6, <2>1, Sets, Statuses, Typed DEF Pause, Back
    <2>2. ASSUME job' # job PROVE Waits(j)
      BY <2>1, <2>2, Typed, Constants DEF Waits, Went, Is, Status, Active, Ended
    <2> QED
      BY <2>1, <2>2, MovesOne DEF Moves, JobMoves, TypeOK
  <1>7. ASSUME NEW j \in Job, ToHuman(j) PROVE Moves
    <2>1. Others(j) /\ 
          (job[j].status \in {"queued", "lot_ready", "cancelling"}
          /\ Is(j, "pending_human", job[j].status, job[j].coin, job[j].unsell))
      BY <1>7, Sets, Statuses, Typed, Constants DEF ToHuman
    <2>2. Waits(j)
      BY <1>7, <2>1 DEF ToHuman, Waits
    <2> QED
      BY <2>1, <2>2, MovesOne DEF Moves, JobMoves
  <1>8. ASSUME NEW j \in Job, NotHeld(j) PROVE Moves
    <2>1. Others(j) /\ Became(j, "refused")
      BY <1>8, Sets, Statuses, Typed, Constants DEF NotHeld, Finish
    <2>2. StopsUnsold(j)
      BY <1>8, <2>1 DEF NotHeld, StopsUnsold, At, BeforePublish, JobsHold, JobHolds
    <2> QED
      BY <2>1, <2>2, MovesOne DEF Moves, JobMoves
  <1>9. ASSUME NEW j \in Job, TakeLot(j) PROVE Moves
    <2>1. Others(j) /\ 
          (\E c \in Lots(j) : /\ coin[c] = "ready"
                            /\ Is(j, "lot_ready", job[j].resume, c, job[j].unsell))
      BY <1>9, Sets, Statuses, Typed, Constants DEF TakeLot, OnTo, Lots
    <2>2. TakesLot(j)
      BY <1>9, <2>1 DEF TakeLot, TakesLot, At, Others
    <2> QED
      BY <2>1, <2>2, MovesOne DEF Moves, JobMoves
  <1>10. ASSUME NEW j \in Job, AwaitLot(j) PROVE Moves
    <2>1. Others(j) /\ Went(j, "lot")
      BY <1>10, Sets, Statuses, Typed, Constants DEF AwaitLot
    <2>2. Advances(j)
      BY <1>10, <2>1 DEF AwaitLot, Advances, At
    <2> QED
      BY <2>1, <2>2, MovesOne DEF Moves, JobMoves
  <1>11. ASSUME NEW j \in Job, BeginFails(j) PROVE Moves
    <2>1. Others(j) /\ Became(j, "failed")
      BY <1>11, Sets, Statuses, Typed, Constants DEF BeginFails, Finish
    <2>2. StopsUnsold(j)
      BY <1>11, <2>1 DEF BeginFails, StopsUnsold, Making, At, BeforePublish, JobsHold,
         JobHolds
    <2> QED
      BY <2>1, <2>2, MovesOne DEF Moves, JobMoves
  <1>12. ASSUME NEW j \in Job, BeginDone(j) PROVE Moves
    <2>1. Others(j) /\ Went(j, "lot")
      BY <1>12, Sets, Statuses, Typed, Constants DEF BeginDone
    <2>2. Advances(j)
      BY <1>12, <2>1 DEF BeginDone, Advances, Making, At
    <2> QED
      BY <2>1, <2>2, MovesOne DEF Moves, JobMoves
  <1>13. ASSUME NEW j \in Job, MakeLot(j) PROVE Moves
    <2>1. Others(j) /\ Went(j, "lot")
      BY <1>13, Sets, Statuses, Typed, Constants DEF MakeLot
    <2>2. Advances(j)
      BY <1>13, <2>1 DEF MakeLot, Advances, Making, At
    <2> QED
      BY <2>1, <2>2, MovesOne DEF Moves, JobMoves
  <1>14. ASSUME NEW j \in Job, LotUnknown(j) PROVE Moves
    <2>1. Others(j) /\ Became(j, "failed")
      BY <1>14, Sets, Statuses, Typed, Constants DEF LotUnknown, Finish
    <2>2. StopsUnsold(j)
      BY <1>14, <2>1 DEF LotUnknown, StopsUnsold, Making, At, BeforePublish, JobsHold,
         JobHolds
    <2> QED
      BY <2>1, <2>2, MovesOne DEF Moves, JobMoves
  <1>15. ASSUME NEW j \in Job, SignOffer(j) PROVE Moves
    <2>1. Others(j) /\ Went(j, "offered")
      BY <1>15, Sets, Statuses, Typed, Constants DEF SignOffer, OnTo
    <2>2. Advances(j)
      BY <1>15, <2>1 DEF SignOffer, Advances, At
    <2> QED
      BY <2>1, <2>2, MovesOne DEF Moves, JobMoves
  <1>16. ASSUME NEW j \in Job, Publish(j) PROVE Moves
    <2>1. Others(j) /\ Became(j, "published")
      BY <1>16, Sets, Statuses, Typed, Constants DEF Publish, Finish
    <2>2. Advances(j)
      BY <1>16, <2>1 DEF Publish, Advances, Posting, At
    <2> QED
      BY <2>1, <2>2, MovesOne DEF Moves, JobMoves
  <1>17. ASSUME NEW j \in Job, Settle(j) PROVE Moves
    <2>1. Others(j) /\ 
          (\/ coin[job[j].coin] = "sold" /\ Became(j, "sold")
          \/ /\ listing[job[j].coin] \in {"sold", "cancelled"}
             /\ Became(j, listing[job[j].coin]))
      BY <1>17, Sets, Statuses, Typed, Constants DEF Settle, Finish
    <2>2. IsSold(j) \/ IsOff(j)
      BY <1>17, <2>1 DEF Settle, IsSold, IsOff, At
    <2> QED
      BY <2>1, <2>2, MovesOne DEF Moves, JobMoves
  <1>18. ASSUME NEW j \in Job, CancelPosted(j) PROVE Moves
    <2>1. ASSUME job' # job PROVE Others(j) /\ Became(j, "cancelled")
      BY <1>18, <2>1, Sets, Statuses, Typed DEF CancelPosted, Finish
    <2>3. job[j].coin \in Coin /\ coin[job[j].coin] \in {"ready", "sold", "moved"}
      BY <1>18, Typed DEF CancelPosted, At, JobsHold, JobHolds, Cancelling
    <2>4. coin'[job[j].coin] = "moved" \/ j \in crossed'
      BY <1>18, <2>3, Constants DEF CancelPosted, TakeDown, NewCoin, Bought, TypeOK
    <2>2. ASSUME job' # job PROVE IsTakenDown(j)
      BY <1>18, <2>1, <2>2, <2>4 DEF CancelPosted, IsTakenDown, At, Cancelling, Finish,
         News, AnswerTold, Ended
    <2> QED
      BY <2>1, <2>2, MovesOne DEF Moves, JobMoves, TypeOK
  <1>19. ASSUME NEW j \in Job, Continue(j) PROVE Moves
    <2>1. Others(j) /\ (job[j].resume # None /\ Went(j, job[j].resume))
      BY <1>19, Sets, Statuses, Typed, Constants DEF Continue, JobsHold, JobHolds
    <2>2. Resumes(j)
      BY <1>19, <2>1 DEF Continue, Resumes
    <2> QED
      BY <2>1, <2>2, MovesOne DEF Moves, JobMoves
  <1>20. ASSUME NEW j \in Job, RefuseSale(j) PROVE Moves
    <2>1. Others(j) /\ Became(j, "refused")
      BY <1>20, Sets, Statuses, Typed, Constants DEF RefuseSale, Finish
    <2>2. StopsUnsold(j)
      BY <1>20, <2>1 DEF RefuseSale, StopsUnsold, Stopped
    <2> QED
      BY <2>1, <2>2, MovesOne DEF Moves, JobMoves
  <1>21. ASSUME NEW j \in Job, RefuseUnsell(j) PROVE Moves
    <2>1. Others(j) /\ Became(j, "published")
      BY <1>21, Sets, Statuses, Typed, Constants DEF RefuseUnsell
    <2>2. StaysOnSale(j)
      BY <1>21, <2>1 DEF RefuseUnsell, StaysOnSale, AnswerTold, Ended, JobsHold, JobHolds,
         Cancelling
    <2> QED
      BY <2>1, <2>2, MovesOne DEF Moves, JobMoves
  <1>22. ASSUME NEW j \in Job, CancelHere(j) PROVE Moves
    <2>1. Others(j) /\ Became(j, "cancelled")
      BY <1>22, Sets, Statuses, Typed, Constants DEF CancelHere, Finish
    <2>3. job[j].coin \in Coin /\ coin[job[j].coin] \in {"ready", "sold", "moved"}
      BY <1>22, Typed DEF CancelHere, At, JobsHold, JobHolds, Cancelling
    <2>4. coin'[job[j].coin] = "moved" \/ j \in crossed'
      BY <1>22, <2>3, Constants DEF CancelHere, TakeDown, NewCoin, Bought, TypeOK
    <2>2. IsTakenDown(j)
      BY <1>22, <2>1, <2>4 DEF CancelHere, IsTakenDown, At, Cancelling, Finish, News,
         AnswerTold, Ended
    <2> QED
      BY <2>1, <2>2, MovesOne DEF Moves, JobMoves
  <1>23. ASSUME NEW j \in Job, NoteSold(j) PROVE Moves
    <2>1. Others(j) /\ Became(j, "sold")
      BY <1>23, Sets, Statuses, Typed, Constants DEF NoteSold, Finish
    <2>2. IsSold(j)
      BY <1>23, <2>1 DEF NoteSold, IsSold
    <2> QED
      BY <2>1, <2>2, MovesOne DEF Moves, JobMoves
  <1>24. ASSUME NEW u \in Unsell, UnsellPublished(u) PROVE Moves
    <2>0. Target[u] \in Job
      BY Constants
    <2>1. Others(Target[u]) /\ Is(Target[u], "cancelling", job[Target[u]].resume,
              job[Target[u]].coin, u)
      BY <1>24, Sets, Statuses, Typed, Constants, <2>0 DEF UnsellPublished
    <2>2. IsAsked(Target[u])
      BY <1>24, <2>1, <2>0 DEF UnsellPublished, IsAsked, Take
    <2> QED
      BY <2>1, <2>2, MovesOne, <2>0 DEF Moves, JobMoves
  <1>25. ASSUME NEW u \in Unsell, UnsellAgain(u) PROVE Moves
    <2>0. Target[u] \in Job
      BY Constants
    <2>1. Others(Target[u]) /\ Is(Target[u], job[Target[u]].status, job[Target[u]].resume,
              job[Target[u]].coin, u)
      BY <1>25, Sets, Statuses, Typed, Constants, <2>0 DEF UnsellAgain
    <2>2. IsAsked(Target[u])
      BY <1>25, <2>1, <2>0 DEF UnsellAgain, IsAsked, Take
    <2> QED
      BY <2>1, <2>2, MovesOne, <2>0 DEF Moves, JobMoves
  <1>26. ASSUME NEW enabled \in BOOLEAN, SetSell(enabled) PROVE Moves
    <2>1. UNCHANGED job \/ StopLink
      BY <1>26 DEF SetSell
    <2> QED
      BY <2>1, StopMoves DEF Moves, JobMoves, TypeOK
  <1>27. CASE Revoke
    <2>1. UNCHANGED job \/ StopLink
      BY <1>27 DEF Revoke
    <2> QED
      BY <2>1, StopMoves DEF Moves, JobMoves, TypeOK
  <1>28. CASE StartTick
    BY <1>28, TickMoves
  <1> QED
    BY <1>1, <1>2, <1>3, <1>4, <1>5, <1>6, <1>7, <1>8, <1>9, <1>10, <1>11, <1>12, <1>13,
       <1>14, <1>15, <1>16, <1>17, <1>18, <1>19, <1>20, <1>21, <1>22, <1>23, <1>24,
       <1>25, <1>26, <1>27, <1>28 DEF Next, Step, Lot, Unsells, Buttons

(* Types *)
LEMMA LotTypes ==
  ASSUME TypeOK, NEW j \in Job, MadeFor(j) \/ NotMade
  PROVE  /\ pool' \in 0 .. Pool /\ lots' \in [Job -> Nat]
         /\ coin' \in [Coin -> {"none", "fresh", "ready", "sold", "moved"}]
  <1>1. CASE MadeFor(j)
    BY <1>1, Constants DEF TypeOK, MadeFor, NewCoin
  <1>2. CASE NotMade
    BY <1>2 DEF TypeOK, NotMade, wallet
  <1> QED
    BY <1>1, <1>2

LEMMA DownTypes ==
  ASSUME TypeOK, NEW j \in Job, TakeDown(job[j].coin)
  PROVE  /\ coin' \in [Coin -> {"none", "fresh", "ready", "sold", "moved"}]
         /\ listing' \in [Coin -> {"none", "active", "cancelled", "sold"}]
         /\ posted' \subseteq Coin /\ pool' \in 0 .. Pool
  BY DEF TypeOK, TakeDown, NewCoin

LEMMA ToldTypes ==
  ASSUME TypeOK, NEW j \in Job, NEW st \in Reported, Finish(j, st)
  PROVE  told' \subseteq (Job \union Unsell) \X Reported /\ late' \subseteq Job
  BY Typed DEF TypeOK, Finish, News

LEMMA TypeStep == TypeOK /\ JobsHold /\ [Next]_vars => TypeOK'
  <1> SUFFICES ASSUME TypeOK, JobsHold, [Next]_vars PROVE TypeOK'
    OBVIOUS
  <1> USE Constants
  <1>m. job' \in [Job -> SellJob]
    BY MoveStep DEF Moves
  <1>1. ASSUME NEW j \in Job, Sell(j) PROVE TypeOK'
    BY <1>1, <1>m, Typed DEF Sell, TypeOK, Reported, Ended, link, wallet, market, phone,
       ghosts
  <1>2. ASSUME NEW j \in Job, Pause(j) PROVE TypeOK'
    BY <1>2, <1>m, Typed DEF Pause, Rest, TypeOK, link, wallet, market, phone, ghosts
  <1>3. ASSUME NEW j \in Job, ToHuman(j) PROVE TypeOK'
    BY <1>3, <1>m, Typed DEF ToHuman, Rest, TypeOK, link, wallet, market, phone, ghosts
  <1>4. ASSUME NEW j \in Job, NotHeld(j) PROVE TypeOK'
    BY <1>4, <1>m, Typed, ToldTypes DEF NotHeld, At, Rest, TypeOK, Reported, Ended, link,
       wallet, market, phone, ghosts
  <1>5. ASSUME NEW j \in Job, TakeLot(j) PROVE TypeOK'
    BY <1>5, <1>m, Typed DEF TakeLot, At, OnTo, TypeOK, link, wallet, market, phone, ghosts
  <1>6. ASSUME NEW j \in Job, AwaitLot(j) PROVE TypeOK'
    BY <1>6, <1>m, Typed DEF AwaitLot, At, Rest, TypeOK, link, wallet, market, phone,
       ghosts
  <1>7. ASSUME NEW j \in Job, BeginFails(j) PROVE TypeOK'
    BY <1>7, <1>m, Typed, ToldTypes DEF BeginFails, Making, At, Rest, NotMade, TypeOK,
       Reported, Ended, link, wallet, market, phone, ghosts
  <1>8. ASSUME NEW j \in Job, BeginDone(j) PROVE TypeOK'
    BY <1>8, <1>m, Typed DEF BeginDone, Making, At, Rest, NotMade, TypeOK, link, wallet,
       market, phone, ghosts
  <1>9. ASSUME NEW j \in Job, MakeLot(j) PROVE TypeOK'
    BY <1>9, <1>m, Typed, LotTypes DEF MakeLot, Making, At, Rest, TypeOK, link, wallet,
       market, phone, ghosts
  <1>10. ASSUME NEW j \in Job, LotUnknown(j) PROVE TypeOK'
    BY <1>10, <1>m, Typed, ToldTypes, LotTypes DEF LotUnknown, Making, At, Rest, TypeOK,
       Reported, Ended, link, wallet, market, phone, ghosts
  <1>11. ASSUME NEW j \in Job, LotLost(j) PROVE TypeOK'
    BY <1>11, <1>m, Typed, LotTypes DEF LotLost, Making, At, Rest, TypeOK, link, wallet,
       market, phone, ghosts
  <1>12. ASSUME NEW j \in Job, SignOffer(j) PROVE TypeOK'
    BY <1>12, <1>m, Typed DEF SignOffer, At, OnTo, TypeOK, link, wallet, market, phone,
       ghosts
  <1>13. ASSUME NEW j \in Job, Publish(j) PROVE TypeOK'
    BY <1>13, <1>m, Typed, ToldTypes DEF Publish, Posting, At, Rest, TypeOK, Reported,
       Ended, JobsHold, JobHolds, link, wallet, market, phone, ghosts
  <1>14. ASSUME NEW j \in Job, PublishLost(j) PROVE TypeOK'
    BY <1>14, <1>m, Typed DEF PublishLost, Posting, At, Rest, TypeOK, JobsHold, JobHolds,
       link, wallet, market, phone, ghosts
  <1>15. ASSUME NEW j \in Job, Settle(j) PROVE TypeOK'
    BY <1>15, <1>m, Typed, ToldTypes DEF Settle, At, Rest, TypeOK, Reported, Ended, link,
       wallet, market, phone, ghosts
  <1>16. ASSUME NEW j \in Job, CancelPosted(j) PROVE TypeOK'
    BY <1>16, <1>m, Typed, ToldTypes, DownTypes DEF CancelPosted, At, Rest, Bought, TypeOK,
       Reported, Ended, link, wallet, market, phone, ghosts
  <1>17. ASSUME NEW j \in Job, Continue(j) PROVE TypeOK'
    BY <1>17, <1>m, Typed DEF Continue, TypeOK, link, wallet, market, phone, ghosts
  <1>18. ASSUME NEW j \in Job, RefuseSale(j) PROVE TypeOK'
    BY <1>18, <1>m, Typed, ToldTypes DEF RefuseSale, TypeOK, Reported, Ended, link, wallet,
       market, phone, ghosts
  <1>19. ASSUME NEW j \in Job, RefuseUnsell(j) PROVE TypeOK'
    BY <1>19, <1>m, Typed DEF RefuseUnsell, TypeOK, Reported, Ended, link, wallet, market,
       phone, ghosts
  <1>20. ASSUME NEW j \in Job, CancelHere(j) PROVE TypeOK'
    BY <1>20, <1>m, Typed, ToldTypes, DownTypes DEF CancelHere, Bought, TypeOK, Reported,
       Ended, link, wallet, market, phone, ghosts
  <1>21. ASSUME NEW j \in Job, MarketCancel(j) PROVE TypeOK'
    BY <1>21, <1>m, Typed, DownTypes DEF MarketCancel, Bought, TypeOK, link, wallet, market,
       phone, ghosts
  <1>22. ASSUME NEW j \in Job, NoteSold(j) PROVE TypeOK'
    BY <1>22, <1>m, Typed, ToldTypes DEF NoteSold, TypeOK, Reported, Ended, link, wallet,
       market, phone, ghosts
  <1>23. ASSUME NEW j \in Job, TwoHours(j) PROVE TypeOK'
    BY <1>23, <1>m, Typed DEF TwoHours, TypeOK, link, wallet, market, phone, ghosts
  <1>24. ASSUME NEW u \in Unsell, UnsellPublished(u) PROVE TypeOK'
    BY <1>24, <1>m, Typed DEF UnsellPublished, Take, TypeOK, link, wallet, market, phone,
       ghosts
  <1>25. ASSUME NEW u \in Unsell, UnsellAgain(u) PROVE TypeOK'
    BY <1>25, <1>m, Typed DEF UnsellAgain, Take, TypeOK, link, wallet, market, phone, ghosts
  <1>26. ASSUME NEW u \in Unsell, UnsellAnswered(u) PROVE TypeOK'
    BY <1>26, <1>m, Typed DEF UnsellAnswered, Take, TypeOK, Reported, Ended, link, wallet,
       market, phone, ghosts
  <1>27. ASSUME NEW u \in Unsell, UnsellExpired(u) PROVE TypeOK'
    BY <1>27, <1>m, Typed DEF UnsellExpired, Take, TypeOK, Reported, Ended, link, wallet,
       market, phone, ghosts
  <1>28. ASSUME NEW c \in Coin, MarketSettles(c) PROVE TypeOK'
    BY <1>28, <1>m, Typed DEF MarketSettles, TypeOK, link, wallet, market, phone, ghosts
  <1>29. ASSUME NEW c \in Coin, Buy(c) PROVE TypeOK'
    BY <1>29, <1>m, Typed DEF Buy, TypeOK, link, wallet, market, phone, ghosts
  <1>30. ASSUME NEW c \in Coin, Confirm(c) PROVE TypeOK'
    BY <1>30, <1>m, Typed DEF Confirm, TypeOK, link, wallet, market, phone, ghosts
  <1>31. ASSUME NEW enabled \in BOOLEAN, SetSell(enabled) PROVE TypeOK'
    BY <1>31, <1>m, Typed DEF SetSell, TypeOK, Reported, Ended, link, wallet, market, phone,
       ghosts
  <1>32. CASE Revoke
    BY <1>32, <1>m, Typed DEF Revoke, TypeOK, link, wallet, market, phone, ghosts
  <1>33. CASE StartTick
    <2>1. \A j \in Job : Tired(j) => <<job[j].unsell, "failed">>
              \in (Job \union Unsell) \X Reported
      BY Typed DEF Tired, JobsHold, JobHolds, Reported, Ended
    <2>2. \A j \in Job : ~Cancelling(job[j]) /\ job'[j] # job[j]
                         => <<j, job'[j].status>> \in (Job \union Unsell) \X Reported
      BY <1>33, TickMoves DEF Reported, Ended
    <2> DEFINE failed == {<<job[j].unsell, "failed">> : j \in {k \in Job : Tired(k)}}
               moved  == {<<j, job'[j].status>> :
                            j \in {k \in Job : ~Cancelling(job[k]) /\ job'[k] # job[k]}}
    <2>3. told' \subseteq (Job \union Unsell) \X Reported
      <3>1. told' = told \union failed \union moved
        BY <1>33 DEF StartTick
      <3>2. told \subseteq (Job \union Unsell) \X Reported
        BY DEF TypeOK
      <3>3. failed \subseteq (Job \union Unsell) \X Reported
        BY <2>1
      <3>4. moved \subseteq (Job \union Unsell) \X Reported
        BY <2>2
      <3> HIDE DEF failed, moved
      <3> QED
        BY <3>1, <3>2, <3>3, <3>4
    <2> QED
      BY <1>33, <1>m, <2>3 DEF StartTick, TypeOK, link, wallet, market, ghosts
  <1>34. CASE UNCHANGED vars
    BY <1>34, <1>m DEF vars, TypeOK, link, wallet, market, phone, ghosts
  <1> QED
    BY <1>1, <1>2, <1>3, <1>4, <1>5, <1>6, <1>7, <1>8, <1>9, <1>10, <1>11, <1>12, <1>13,
       <1>14, <1>15, <1>16, <1>17, <1>18, <1>19, <1>20, <1>21, <1>22, <1>23, <1>24,
       <1>25, <1>26, <1>27, <1>28, <1>29, <1>30, <1>31, <1>32, <1>33, <1>34 DEF Next,
       Step, Lot, Unsells, Buttons

(* What lasts: a lot that is gone stays gone, and what is out stays out. *)
LotsLast ==
  /\ \A c \in Coin : coin[c] \in {"sold", "moved"} => coin'[c] = coin[c]
  /\ \A c \in Coin : coin[c] = "ready" => coin'[c] \in {"ready", "sold", "moved"}
  /\ posted \subseteq posted' /\ crossed \subseteq crossed' /\ adrift \subseteq adrift'
  /\ told \subseteq told' /\ replaced \subseteq replaced'

LEMMA LotsStep == TypeOK /\ [Next]_vars => LotsLast
  <1> SUFFICES ASSUME TypeOK, [Next]_vars PROVE LotsLast
    OBVIOUS
  <1> USE Constants
  <1>0. ASSUME UNCHANGED <<coin, posted, crossed, adrift, told, replaced>> PROVE
     LotsLast
    BY <1>0 DEF TypeOK, LotsLast
  <1>1. ASSUME NEW j \in Job, Pause(j) \/ ToHuman(j) \/ TakeLot(j) \/ AwaitLot(j) \/
     BeginDone(j) \/ SignOffer(j) \/ Continue(j) \/ TwoHours(j) PROVE LotsLast
    BY <1>0, <1>1 DEF Pause, ToHuman, TakeLot, AwaitLot, BeginDone, SignOffer, Continue,
       TwoHours, Back, Rest, At, OnTo, Making, NotMade, link, wallet, market, phone,
       ghosts
  <1>2. ASSUME NEW u \in Unsell, UnsellPublished(u) PROVE LotsLast
    BY <1>0, <1>2 DEF UnsellPublished, Take, link, wallet, market, phone, ghosts
  <1>3. ASSUME NEW c \in Coin, MarketSettles(c) PROVE LotsLast
    BY <1>0, <1>3 DEF MarketSettles, link, wallet, market, phone, ghosts
  <1>4. CASE Revoke \/ UNCHANGED vars
    BY <1>0, <1>4 DEF Revoke, StopLink, Stopped, Become, vars, link, wallet, market,
       phone, ghosts
  <1>5. ASSUME NEW j \in Job, Sell(j) PROVE LotsLast
    BY <1>5 DEF Sell, TypeOK, LotsLast, link, wallet, market, phone, ghosts
  <1>6. ASSUME NEW j \in Job, NotHeld(j) PROVE LotsLast
    BY <1>6 DEF NotHeld, Finish, TypeOK, LotsLast, link, wallet, market, phone, ghosts
  <1>7. ASSUME NEW j \in Job, BeginFails(j) PROVE LotsLast
    BY <1>7 DEF BeginFails, Making, NotMade, Finish, TypeOK, LotsLast, link, wallet,
       market, phone, ghosts
  <1>8. ASSUME NEW j \in Job, MakeLot(j) PROVE LotsLast
    BY <1>8 DEF MakeLot, Making, MadeFor, NewCoin, TypeOK, LotsLast, link, wallet, market,
       phone, ghosts
  <1>9. ASSUME NEW j \in Job, LotUnknown(j) PROVE LotsLast
    BY <1>9 DEF LotUnknown, Making, MadeFor, NewCoin, NotMade, Finish, TypeOK, LotsLast,
       link, wallet, market, phone, ghosts
  <1>10. ASSUME NEW j \in Job, LotLost(j) PROVE LotsLast
    BY <1>10 DEF LotLost, Making, MadeFor, NewCoin, NotMade, TypeOK, LotsLast, link, wallet,
       market, phone, ghosts
  <1>11. ASSUME NEW j \in Job, Publish(j) PROVE LotsLast
    BY <1>11 DEF Publish, Posting, Finish, TypeOK, LotsLast, link, wallet, market, phone,
       ghosts
  <1>12. ASSUME NEW j \in Job, PublishLost(j) PROVE LotsLast
    BY <1>12 DEF PublishLost, Posting, TypeOK, LotsLast, link, wallet, market, phone, ghosts
  <1>13. ASSUME NEW j \in Job, Settle(j) PROVE LotsLast
    BY <1>13 DEF Settle, Finish, TypeOK, LotsLast, link, wallet, market, phone, ghosts
  <1>14. ASSUME NEW j \in Job, CancelPosted(j) PROVE LotsLast
    BY <1>14 DEF CancelPosted, TakeDown, NewCoin, Bought, Finish, TypeOK, LotsLast, link,
       wallet, market, phone, ghosts
  <1>15. ASSUME NEW j \in Job, RefuseSale(j) PROVE LotsLast
    BY <1>15 DEF RefuseSale, Finish, TypeOK, LotsLast, link, wallet, market, phone, ghosts
  <1>16. ASSUME NEW j \in Job, RefuseUnsell(j) PROVE LotsLast
    BY <1>16 DEF RefuseUnsell, TypeOK, LotsLast, link, wallet, market, phone, ghosts
  <1>17. ASSUME NEW j \in Job, CancelHere(j) PROVE LotsLast
    BY <1>17 DEF CancelHere, TakeDown, NewCoin, Bought, Finish, TypeOK, LotsLast, link,
       wallet, market, phone, ghosts
  <1>18. ASSUME NEW j \in Job, MarketCancel(j) PROVE LotsLast
    BY <1>18 DEF MarketCancel, TakeDown, NewCoin, Bought, TypeOK, LotsLast, link, wallet,
       market, phone, ghosts
  <1>19. ASSUME NEW j \in Job, NoteSold(j) PROVE LotsLast
    BY <1>19 DEF NoteSold, Finish, TypeOK, LotsLast, link, wallet, market, phone, ghosts
  <1>20. ASSUME NEW u \in Unsell, UnsellAgain(u) PROVE LotsLast
    BY <1>20 DEF UnsellAgain, Take, TypeOK, LotsLast, link, wallet, market, phone, ghosts
  <1>21. ASSUME NEW u \in Unsell, UnsellAnswered(u) PROVE LotsLast
    BY <1>21 DEF UnsellAnswered, Take, TypeOK, LotsLast, link, wallet, market, phone, ghosts
  <1>22. ASSUME NEW u \in Unsell, UnsellExpired(u) PROVE LotsLast
    BY <1>22 DEF UnsellExpired, Take, TypeOK, LotsLast, link, wallet, market, phone, ghosts
  <1>23. ASSUME NEW c \in Coin, Buy(c) PROVE LotsLast
    BY <1>23 DEF Buy, TypeOK, LotsLast, link, wallet, market, phone, ghosts
  <1>24. ASSUME NEW c \in Coin, Confirm(c) PROVE LotsLast
    BY <1>24 DEF Confirm, TypeOK, LotsLast, link, wallet, market, phone, ghosts
  <1>25. ASSUME NEW enabled \in BOOLEAN, SetSell(enabled) PROVE LotsLast
    BY <1>25 DEF SetSell, TypeOK, LotsLast, link, wallet, market, phone, ghosts
  <1>26. CASE StartTick
    BY <1>26 DEF StartTick, TypeOK, LotsLast, link, wallet, market, phone, ghosts
  <1> QED
    BY <1>1, <1>2, <1>3, <1>4, <1>5, <1>6, <1>7, <1>8, <1>9, <1>10, <1>11, <1>12, <1>13,
       <1>14, <1>15, <1>16, <1>17, <1>18, <1>19, <1>20, <1>21, <1>22, <1>23, <1>24,
       <1>25, <1>26 DEF Next, Step, Lot, Unsells, Buttons

(* A lot stays with its job, and what was on sale is on sale or ended as a sale does. *)
JobsLast ==
  \A j \in Job : /\ job[j].coin # None => job'[j].coin = job[j].coin
                 /\ OnSale(j) => OnSale(j)'
                 /\ job[j].status = "sold" => job'[j].status = "sold"
LEMMA LastStep == TypeOK /\ JobsHold /\ [Next]_vars => JobsLast
  <1> SUFFICES ASSUME TypeOK, JobsHold, Moves, NEW j \in Job
               PROVE  /\ job[j].coin # None => job'[j].coin = job[j].coin
                      /\ OnSale(j) => OnSale(j)'
                      /\ job[j].status = "sold" => job'[j].status = "sold"
    BY MoveStep DEF JobsLast
  <1> USE Constants, Typed, Statuses DEF OnSale, Went, Became, Is
  <1>0. JobMoves(j) /\ JobHolds(j)
    BY DEF Moves, JobsHold
  <1>1. CASE job'[j] = job[j]
    BY <1>1
  <1>2. CASE Begins(j) \/ Advances(j)
    BY <1>2 DEF Begins, Advances
  <1>3. CASE Waits(j) \/ Resumes(j)
    BY <1>0, <1>3 DEF Waits, Resumes, JobHolds
  <1>4. CASE TakesLot(j)
    BY <1>0, <1>4 DEF TakesLot, JobHolds
  <1>5. CASE StopsUnsold(j)
    BY <1>5 DEF StopsUnsold, BeforePublish
  <1>6. CASE IsSold(j) \/ IsOff(j) \/ StaysOnSale(j)
    BY <1>6 DEF IsSold, IsOff, StaysOnSale
  <1>7. CASE IsTakenDown(j)
    BY <1>0, <1>7 DEF IsTakenDown, Cancelling, JobHolds
  <1>8. CASE IsAsked(j)
    BY <1>0, <1>8 DEF IsAsked, JobHolds
  <1> QED
    BY <1>0, <1>1, <1>2, <1>3, <1>4, <1>5, <1>6, <1>7, <1>8 DEF JobMoves

(* What a job holds *)
LEMMA HoldStep == TypeOK /\ JobsHold /\ [Next]_vars => JobsHold'
  <1> SUFFICES ASSUME TypeOK, JobsHold, Moves, LotsLast, JobsLast, TypeOK', NEW j \in Job
               PROVE  JobHolds(j)'
    BY MoveStep, LotsStep, LastStep, TypeStep DEF JobsHold
  <1> USE Constants, Typed DEF JobHolds, Cancelling, Went, Became, Is
  <1>0. JobMoves(j) /\ JobHolds(j)
    BY DEF Moves, JobsHold
  <1>a. job[j].coin # None => coin'[job[j].coin] \in {"ready", "sold", "moved"}
    BY <1>0 DEF LotsLast
  <1>1. CASE job'[j] = job[j]
    BY <1>0, <1>1, <1>a
  <1>2. CASE Begins(j)
    BY <1>0, <1>2, <1>a DEF Begins
  <1>8. CASE Advances(j)
    BY <1>0, <1>8, <1>a DEF Advances
  <1>3. CASE Waits(j) \/ Resumes(j)
    BY <1>0, <1>3, <1>a DEF Waits, Resumes
  <1>4. CASE TakesLot(j)
    <2>1. PICK c \in Lots(j) : coin[c] = "ready"
              /\ Is(j, "lot_ready", job[j].resume, c, job[j].unsell)
      BY <1>4 DEF TakesLot
    <2>2. c \in Coin /\ coin'[c] \in {"ready", "sold", "moved"}
      BY <2>1 DEF Lots, LotsLast
    <2> QED
      BY <1>0, <1>4, <2>1, <2>2 DEF TakesLot
  <1>5. CASE StopsUnsold(j)
    BY <1>0, <1>5, <1>a DEF StopsUnsold
  <1>6. CASE IsSold(j) \/ IsOff(j) \/ StaysOnSale(j) \/ IsTakenDown(j)
    BY <1>0, <1>6, <1>a DEF IsSold, IsOff, StaysOnSale, IsTakenDown
  <1>7. CASE IsAsked(j)
    BY <1>0, <1>7, <1>a DEF IsAsked
  <1> QED
    BY <1>0, <1>1, <1>2, <1>3, <1>4, <1>5, <1>6, <1>7, <1>8 DEF JobMoves

LEMMA ShareStep ==
  TypeOK /\ JobsHold /\ CoinsAreNotShared /\ [Next]_vars => CoinsAreNotShared'
  <1> SUFFICES ASSUME TypeOK, JobsHold, CoinsAreNotShared, Moves
               PROVE  CoinsAreNotShared'
    BY MoveStep
  <1> DEFINE held(j) == job[j].coin # None /\ job[j].status \in HoldsCoin
  <1>1. ASSUME NEW j \in Job, job'[j].coin # None, job'[j].status \in HoldsCoin
        PROVE  TakesLot(j) \/ (held(j) /\ job'[j].coin = job[j].coin)
    <2>1. JobMoves(j) /\ JobHolds(j)
      BY DEF Moves, JobsHold
    <2> USE Constants, Typed DEF HoldsCoin, Went, Became, Is
    <2>2. CASE job'[j] = job[j] \/ Begins(j) \/ Advances(j) \/ StopsUnsold(j)
      BY <1>1, <2>1, <2>2 DEF Begins, Advances, StopsUnsold, JobHolds
    <2>3. CASE Waits(j) \/ Resumes(j)
      BY <1>1, <2>1, <2>3 DEF Waits, Resumes, JobHolds
    <2>4. CASE IsSold(j) \/ IsOff(j) \/ IsTakenDown(j) \/ StaysOnSale(j) \/ IsAsked(j)
      BY <1>1, <2>4 DEF IsSold, IsOff, IsTakenDown, StaysOnSale, IsAsked
    <2> QED
      BY <2>1, <2>2, <2>3, <2>4 DEF JobMoves
  <1> QED
    BY <1>1 DEF CoinsAreNotShared, TakesLot, Lots, Keep, Is

(* No lot was made for a job whose lane is free. *)
LEMMA LaneStep == TypeOK /\ LanesCount /\ [Next]_vars => LanesCount'
  <1> SUFFICES ASSUME TypeOK, LanesCount, [Next]_vars PROVE LanesCount'
    OBVIOUS
  <1> USE Constants
  <1>0. ASSUME UNCHANGED <<lane, lots>> PROVE LanesCount'
    BY <1>0 DEF TypeOK, LanesCount
  <1>1. ASSUME NEW j \in Job, Sell(j) \/ Pause(j) \/ ToHuman(j) \/ NotHeld(j) \/
     TakeLot(j) \/ AwaitLot(j) \/ BeginFails(j) \/ BeginDone(j) \/ SignOffer(j) \/
     Publish(j) \/ PublishLost(j) \/ Settle(j) \/ CancelPosted(j) \/ Continue(j) \/
     RefuseSale(j) \/ RefuseUnsell(j) \/ CancelHere(j) \/ MarketCancel(j) \/ NoteSold(j)
     \/ TwoHours(j) PROVE LanesCount'
    BY <1>0, <1>1 DEF Sell, Pause, ToHuman, NotHeld, TakeLot, AwaitLot, BeginFails,
       BeginDone, SignOffer, Publish, PublishLost, Settle, CancelPosted, Continue,
       RefuseSale, RefuseUnsell, CancelHere, MarketCancel, NoteSold, TwoHours, Become,
       Back, Rest, At, Finish, News, OnTo, Making, NotMade, Posting, TakeDown, NewCoin,
       Bought, Stopped, link, wallet, market, phone, ghosts
  <1>2. ASSUME NEW u \in Unsell, UnsellPublished(u) \/ UnsellAgain(u) \/
     UnsellAnswered(u) \/ UnsellExpired(u) PROVE LanesCount'
    BY <1>0, <1>2 DEF UnsellPublished, UnsellAgain, UnsellAnswered, UnsellExpired, Take,
       link, wallet, market, phone, ghosts
  <1>3. ASSUME NEW c \in Coin, MarketSettles(c) \/ Buy(c) \/ Confirm(c) PROVE
     LanesCount'
    BY <1>0, <1>3 DEF MarketSettles, Buy, Confirm, link, wallet, market, phone, ghosts
  <1>4. ASSUME NEW enabled \in BOOLEAN, SetSell(enabled) PROVE LanesCount'
    BY <1>0, <1>4 DEF SetSell, StopLink, Stopped, Become, link, wallet, market, phone,
       ghosts
  <1>5. CASE Revoke \/ StartTick \/ UNCHANGED vars
    BY <1>0, <1>5 DEF Revoke, StartTick, StopLink, Stopped, Become, Tidied, Tired, Late,
       vars, link, wallet, market, phone, ghosts
  <1>6. ASSUME NEW j \in Job, MakeLot(j) PROVE LanesCount'
    BY <1>6 DEF MakeLot, Making, At, Rest, MadeFor, NewCoin, link, wallet, market,
       phone, ghosts, TypeOK, LanesCount
  <1>7. ASSUME NEW j \in Job, LotUnknown(j) PROVE LanesCount'
    BY <1>7 DEF LotUnknown, Making, At, Rest, MadeFor, NewCoin, NotMade, Finish, News,
       Become, link, wallet, market, phone, ghosts, TypeOK, LanesCount
  <1>8. ASSUME NEW j \in Job, LotLost(j) PROVE LanesCount'
    BY <1>8 DEF LotLost, Making, At, Rest, MadeFor, NewCoin, NotMade, link, wallet,
       market, phone, ghosts, TypeOK, LanesCount
  <1> QED
    BY <1>1, <1>2, <1>3, <1>4, <1>5, <1>6, <1>7, <1>8 DEF Next, Step, Lot, Unsells,
       Buttons

(* What is out in the world *)
LEMMA OutStep == TypeOK /\ JobsHold /\ OutIsKnown /\ [Next]_vars => OutIsKnown'
  <1> SUFFICES ASSUME TypeOK, JobsHold, OutIsKnown, [Next]_vars PROVE OutIsKnown'
    OBVIOUS
  <1> USE Constants
  <1>l. LotsLast /\ JobsLast
    BY LotsStep, LastStep
  <1>0. ASSUME UNCHANGED <<posted>> PROVE OutIsKnown'
    BY <1>0, <1>l DEF TypeOK, OutIsKnown, LotsLast, JobsLast
  <1>1. ASSUME NEW j \in Job, Sell(j) \/ Pause(j) \/ ToHuman(j) \/ NotHeld(j) \/
     TakeLot(j) \/ AwaitLot(j) \/ BeginFails(j) \/ BeginDone(j) \/ MakeLot(j) \/
     LotUnknown(j) \/ LotLost(j) \/ SignOffer(j) \/ Settle(j) \/ CancelPosted(j) \/
     Continue(j) \/ RefuseSale(j) \/ RefuseUnsell(j) \/ CancelHere(j) \/ MarketCancel(j)
     \/ NoteSold(j) \/ TwoHours(j) PROVE OutIsKnown'
    BY <1>0, <1>1 DEF Sell, Pause, ToHuman, NotHeld, TakeLot, AwaitLot, BeginFails,
       BeginDone, MakeLot, LotUnknown, LotLost, SignOffer, Settle, CancelPosted,
       Continue, RefuseSale, RefuseUnsell, CancelHere, MarketCancel, NoteSold, TwoHours,
       Become, Back, Rest, At, Finish, News, OnTo, Making, NotMade, MadeFor, NewCoin,
       TakeDown, Bought, Stopped, link, wallet, market, ghosts
  <1>2. ASSUME NEW u \in Unsell, UnsellPublished(u) \/ UnsellAgain(u) \/
     UnsellAnswered(u) \/ UnsellExpired(u) PROVE OutIsKnown'
    BY <1>0, <1>2 DEF UnsellPublished, UnsellAgain, UnsellAnswered, UnsellExpired, Take,
       link, wallet, market, ghosts
  <1>3. ASSUME NEW c \in Coin, MarketSettles(c) \/ Buy(c) \/ Confirm(c) PROVE
     OutIsKnown'
    BY <1>0, <1>3 DEF MarketSettles, Buy, Confirm, link, wallet, market, ghosts
  <1>4. ASSUME NEW enabled \in BOOLEAN, SetSell(enabled) PROVE OutIsKnown'
    BY <1>0, <1>4 DEF SetSell, StopLink, Stopped, Become, link, wallet, market, ghosts
  <1>5. CASE Revoke \/ StartTick \/ UNCHANGED vars
    BY <1>0, <1>5 DEF Revoke, StartTick, StopLink, Stopped, Become, Tidied, Tired, Late,
       vars, link, wallet, market, ghosts
  <1>6. ASSUME NEW j \in Job, Publish(j) PROVE OutIsKnown'
    <2>1. Became(j, "published")
      BY <1>6, Sets, Statuses DEF Publish, Finish
    <2> QED
      BY <1>6, <2>1, <1>l DEF Publish, Posting, TypeOK, OutIsKnown, OnSale, Became, Is,
                LotsLast, JobsLast
  <1>7. ASSUME NEW j \in Job, PublishLost(j) PROVE OutIsKnown'
    BY <1>7, <1>l DEF PublishLost, Posting, At, Rest, link, wallet, market, ghosts,
       TypeOK, OutIsKnown, LotsLast, JobsLast
  <1> QED
    BY <1>1, <1>2, <1>3, <1>4, <1>5, <1>6, <1>7 DEF Next, Step, Lot, Unsells, Buttons

LEMMA BoughtStep == TypeOK /\ BoughtWasOut /\ [Next]_vars => BoughtWasOut'
  <1> SUFFICES ASSUME TypeOK, BoughtWasOut, [Next]_vars PROVE BoughtWasOut'
    OBVIOUS
  <1> USE Constants
  <1>l. LotsLast
    BY LotsStep
  <1>0. ASSUME UNCHANGED <<coin>> PROVE BoughtWasOut'
    BY <1>0, <1>l DEF TypeOK, BoughtWasOut, LotsLast
  <1>1. ASSUME NEW j \in Job, Sell(j) \/ Pause(j) \/ ToHuman(j) \/ NotHeld(j) \/
     TakeLot(j) \/ AwaitLot(j) \/ BeginFails(j) \/ BeginDone(j) \/ SignOffer(j) \/
     Publish(j) \/ PublishLost(j) \/ Settle(j) \/ Continue(j) \/ RefuseSale(j) \/
     RefuseUnsell(j) \/ NoteSold(j) \/ TwoHours(j) PROVE BoughtWasOut'
    BY <1>0, <1>1 DEF Sell, Pause, ToHuman, NotHeld, TakeLot, AwaitLot, BeginFails,
       BeginDone, SignOffer, Publish, PublishLost, Settle, Continue, RefuseSale,
       RefuseUnsell, NoteSold, TwoHours, Become, Back, Rest, At, Finish, News, OnTo,
       Making, NotMade, Posting, Stopped, link, wallet, market, ghosts
  <1>2. ASSUME NEW u \in Unsell, UnsellPublished(u) \/ UnsellAgain(u) \/
     UnsellAnswered(u) \/ UnsellExpired(u) PROVE BoughtWasOut'
    BY <1>0, <1>2 DEF UnsellPublished, UnsellAgain, UnsellAnswered, UnsellExpired, Take,
       link, wallet, market, ghosts
  <1>3. ASSUME NEW c \in Coin, MarketSettles(c) PROVE BoughtWasOut'
    BY <1>0, <1>3 DEF MarketSettles, link, wallet, market, ghosts
  <1>4. ASSUME NEW enabled \in BOOLEAN, SetSell(enabled) PROVE BoughtWasOut'
    BY <1>0, <1>4 DEF SetSell, StopLink, Stopped, Become, link, wallet, market, ghosts
  <1>5. CASE Revoke \/ StartTick \/ UNCHANGED vars
    BY <1>0, <1>5 DEF Revoke, StartTick, StopLink, Stopped, Become, Tidied, Tired, Late,
       vars, link, wallet, market, ghosts
  <1>6. ASSUME NEW j \in Job, MakeLot(j) PROVE BoughtWasOut'
    BY <1>6, <1>l DEF MakeLot, Making, At, Rest, MadeFor, NewCoin, link, wallet, market,
       ghosts, TypeOK, BoughtWasOut, LotsLast
  <1>7. ASSUME NEW j \in Job, LotUnknown(j) PROVE BoughtWasOut'
    BY <1>7, <1>l DEF LotUnknown, Making, At, Rest, MadeFor, NewCoin, NotMade, Finish,
       News, Become, link, wallet, market, ghosts, TypeOK, BoughtWasOut, LotsLast
  <1>8. ASSUME NEW j \in Job, LotLost(j) PROVE BoughtWasOut'
    BY <1>8, <1>l DEF LotLost, Making, At, Rest, MadeFor, NewCoin, NotMade, link,
       wallet, market, ghosts, TypeOK, BoughtWasOut, LotsLast
  <1>9. ASSUME NEW j \in Job, CancelPosted(j) PROVE BoughtWasOut'
    BY <1>9, <1>l DEF CancelPosted, At, Rest, TakeDown, NewCoin, Bought, Finish, News,
       Become, link, wallet, market, ghosts, TypeOK, BoughtWasOut, LotsLast
  <1>10. ASSUME NEW j \in Job, CancelHere(j) PROVE BoughtWasOut'
    BY <1>10, <1>l DEF CancelHere, TakeDown, NewCoin, Bought, Finish, News, Become,
       link, wallet, market, ghosts, TypeOK, BoughtWasOut, LotsLast
  <1>11. ASSUME NEW j \in Job, MarketCancel(j) PROVE BoughtWasOut'
    BY <1>11, <1>l DEF MarketCancel, TakeDown, NewCoin, Bought, link, wallet, market,
       ghosts, TypeOK, BoughtWasOut, LotsLast
  <1>12. ASSUME NEW c \in Coin, Buy(c) PROVE BoughtWasOut'
    BY <1>12, <1>l DEF Buy, link, wallet, market, ghosts, TypeOK, BoughtWasOut, LotsLast
  <1>13. ASSUME NEW c \in Coin, Confirm(c) PROVE BoughtWasOut'
    BY <1>13, <1>l DEF Confirm, link, wallet, market, ghosts, TypeOK, BoughtWasOut,
       LotsLast
  <1> QED
    BY <1>1, <1>2, <1>3, <1>4, <1>5, <1>6, <1>7, <1>8, <1>9, <1>10, <1>11, <1>12, <1>13
       DEF Next, Step, Lot, Unsells, Buttons

LEMMA SoldStep == TypeOK /\ JobsHold /\ SoldIsBought /\ [Next]_vars => SoldIsBought'
  <1> SUFFICES ASSUME TypeOK, JobsHold, SoldIsBought, [Next]_vars PROVE SoldIsBought'
    OBVIOUS
  <1> USE Constants
  <1>l. LotsLast
    BY LotsStep
  <1>0. ASSUME UNCHANGED <<listing>> PROVE SoldIsBought'
    BY <1>0, <1>l DEF TypeOK, JobsHold, JobHolds, SoldIsBought, LotsLast
  <1>1. ASSUME NEW j \in Job, Sell(j) \/ Pause(j) \/ ToHuman(j) \/ NotHeld(j) \/
     TakeLot(j) \/ AwaitLot(j) \/ BeginFails(j) \/ BeginDone(j) \/ MakeLot(j) \/
     LotUnknown(j) \/ LotLost(j) \/ SignOffer(j) \/ Continue(j) \/ RefuseSale(j) \/
     RefuseUnsell(j) \/ NoteSold(j) \/ TwoHours(j) PROVE SoldIsBought'
    BY <1>0, <1>1 DEF Sell, Pause, ToHuman, NotHeld, TakeLot, AwaitLot, BeginFails,
       BeginDone, MakeLot, LotUnknown, LotLost, SignOffer, Continue, RefuseSale,
       RefuseUnsell, NoteSold, TwoHours, Become, Back, Rest, At, Finish, News, OnTo,
       Making, NotMade, MadeFor, NewCoin, Stopped, link, wallet, market, ghosts
  <1>2. ASSUME NEW u \in Unsell, UnsellPublished(u) \/ UnsellAgain(u) \/
     UnsellAnswered(u) \/ UnsellExpired(u) PROVE SoldIsBought'
    BY <1>0, <1>2 DEF UnsellPublished, UnsellAgain, UnsellAnswered, UnsellExpired, Take,
       link, wallet, market, ghosts
  <1>3. ASSUME NEW c \in Coin, Buy(c) \/ Confirm(c) PROVE SoldIsBought'
    BY <1>0, <1>3 DEF Buy, Confirm, link, wallet, market, ghosts
  <1>4. ASSUME NEW enabled \in BOOLEAN, SetSell(enabled) PROVE SoldIsBought'
    BY <1>0, <1>4 DEF SetSell, StopLink, Stopped, Become, link, wallet, market, ghosts
  <1>5. CASE Revoke \/ StartTick \/ UNCHANGED vars
    BY <1>0, <1>5 DEF Revoke, StartTick, StopLink, Stopped, Become, Tidied, Tired, Late,
       vars, link, wallet, market, ghosts
  <1>6. ASSUME NEW j \in Job, Publish(j) PROVE SoldIsBought'
    BY <1>6, <1>l DEF Publish, Posting, At, Rest, Finish, News, Become, link, wallet,
       market, ghosts, TypeOK, JobsHold, JobHolds, SoldIsBought, LotsLast
  <1>7. ASSUME NEW j \in Job, PublishLost(j) PROVE SoldIsBought'
    BY <1>7, <1>l DEF PublishLost, Posting, At, Rest, link, wallet, market, ghosts,
       TypeOK, JobsHold, JobHolds, SoldIsBought, LotsLast
  <1>8. ASSUME NEW j \in Job, Settle(j) PROVE SoldIsBought'
    BY <1>8, <1>l DEF Settle, At, Rest, Finish, News, Become, link, wallet, market,
       ghosts, TypeOK, JobsHold, JobHolds, SoldIsBought, LotsLast
  <1>9. ASSUME NEW j \in Job, CancelPosted(j) PROVE SoldIsBought'
    BY <1>9, <1>l DEF CancelPosted, At, Rest, TakeDown, NewCoin, Bought, Finish, News,
       Become, link, wallet, market, ghosts, TypeOK, JobsHold, JobHolds, SoldIsBought,
       LotsLast
  <1>10. ASSUME NEW j \in Job, CancelHere(j) PROVE SoldIsBought'
    BY <1>10, <1>l DEF CancelHere, TakeDown, NewCoin, Bought, Finish, News, Become,
       link, wallet, market, ghosts, TypeOK, JobsHold, JobHolds, SoldIsBought, LotsLast
  <1>11. ASSUME NEW j \in Job, MarketCancel(j) PROVE SoldIsBought'
    BY <1>11, <1>l DEF MarketCancel, TakeDown, NewCoin, Bought, link, wallet, market,
       ghosts, TypeOK, JobsHold, JobHolds, SoldIsBought, LotsLast
  <1>12. ASSUME NEW c \in Coin, MarketSettles(c) PROVE SoldIsBought'
    BY <1>12, <1>l DEF MarketSettles, link, wallet, market, ghosts, TypeOK, JobsHold,
       JobHolds, SoldIsBought, LotsLast
  <1> QED
    BY <1>1, <1>2, <1>3, <1>4, <1>5, <1>6, <1>7, <1>8, <1>9, <1>10, <1>11, <1>12 DEF
       Next, Step, Lot, Unsells, Buttons

LEMMA OffStep == TypeOK /\ JobsHold /\ OffIsGone /\ [Next]_vars => OffIsGone'
  <1> SUFFICES ASSUME TypeOK, JobsHold, OffIsGone, [Next]_vars PROVE OffIsGone'
    OBVIOUS
  <1> USE Constants
  <1>l. LotsLast /\ JobsLast
    BY LotsStep, LastStep
  <1>0. ASSUME UNCHANGED <<listing>> PROVE OffIsGone'
    BY <1>0, <1>l DEF TypeOK, JobsHold, JobHolds, OffIsGone, LotsLast, JobsLast,
       Cancelling
  <1>1. ASSUME NEW j \in Job, Sell(j) \/ Pause(j) \/ ToHuman(j) \/ NotHeld(j) \/
     TakeLot(j) \/ AwaitLot(j) \/ BeginFails(j) \/ BeginDone(j) \/ MakeLot(j) \/
     LotUnknown(j) \/ LotLost(j) \/ SignOffer(j) \/ Continue(j) \/ RefuseSale(j) \/
     RefuseUnsell(j) \/ NoteSold(j) \/ TwoHours(j) PROVE OffIsGone'
    BY <1>0, <1>1 DEF Sell, Pause, ToHuman, NotHeld, TakeLot, AwaitLot, BeginFails,
       BeginDone, MakeLot, LotUnknown, LotLost, SignOffer, Continue, RefuseSale,
       RefuseUnsell, NoteSold, TwoHours, Become, Back, Rest, At, Finish, News, OnTo,
       Making, NotMade, MadeFor, NewCoin, Stopped, link, wallet, market, ghosts
  <1>2. ASSUME NEW u \in Unsell, UnsellPublished(u) \/ UnsellAgain(u) \/
     UnsellAnswered(u) \/ UnsellExpired(u) PROVE OffIsGone'
    BY <1>0, <1>2 DEF UnsellPublished, UnsellAgain, UnsellAnswered, UnsellExpired, Take,
       link, wallet, market, ghosts
  <1>3. ASSUME NEW c \in Coin, Buy(c) \/ Confirm(c) PROVE OffIsGone'
    BY <1>0, <1>3 DEF Buy, Confirm, link, wallet, market, ghosts
  <1>4. ASSUME NEW enabled \in BOOLEAN, SetSell(enabled) PROVE OffIsGone'
    BY <1>0, <1>4 DEF SetSell, StopLink, Stopped, Become, link, wallet, market, ghosts
  <1>5. CASE Revoke \/ StartTick \/ UNCHANGED vars
    BY <1>0, <1>5 DEF Revoke, StartTick, StopLink, Stopped, Become, Tidied, Tired, Late,
       vars, link, wallet, market, ghosts
  <1>6. ASSUME NEW j \in Job, Publish(j) PROVE OffIsGone'
    BY <1>6, <1>l DEF Publish, Posting, At, Rest, Finish, News, Become, link, wallet,
       market, ghosts, TypeOK, JobsHold, JobHolds, OffIsGone, LotsLast, JobsLast,
       Cancelling
  <1>7. ASSUME NEW j \in Job, PublishLost(j) PROVE OffIsGone'
    BY <1>7, <1>l DEF PublishLost, Posting, At, Rest, link, wallet, market, ghosts,
       TypeOK, JobsHold, JobHolds, OffIsGone, LotsLast, JobsLast, Cancelling
  <1>8. ASSUME NEW j \in Job, Settle(j) PROVE OffIsGone'
    BY <1>8, <1>l DEF Settle, At, Rest, Finish, News, Become, link, wallet, market,
       ghosts, TypeOK, JobsHold, JobHolds, OffIsGone, LotsLast, JobsLast, Cancelling
  <1>9. ASSUME NEW j \in Job, CancelPosted(j) PROVE OffIsGone'
    BY <1>9, <1>l DEF CancelPosted, At, Rest, TakeDown, NewCoin, Bought, Finish, News,
       Become, link, wallet, market, ghosts, TypeOK, JobsHold, JobHolds, OffIsGone,
       LotsLast, JobsLast, Cancelling
  <1>10. ASSUME NEW j \in Job, CancelHere(j) PROVE OffIsGone'
    BY <1>10, <1>l DEF CancelHere, TakeDown, NewCoin, Bought, Finish, News, Become,
       link, wallet, market, ghosts, TypeOK, JobsHold, JobHolds, OffIsGone, LotsLast,
       JobsLast, Cancelling
  <1>11. ASSUME NEW j \in Job, MarketCancel(j) PROVE OffIsGone'
    BY <1>11, <1>l DEF MarketCancel, TakeDown, NewCoin, Bought, link, wallet, market,
       ghosts, TypeOK, JobsHold, JobHolds, OffIsGone, LotsLast, JobsLast, Cancelling
  <1>12. ASSUME NEW c \in Coin, MarketSettles(c) PROVE OffIsGone'
    BY <1>12, <1>l DEF MarketSettles, link, wallet, market, ghosts, TypeOK, JobsHold,
       JobHolds, OffIsGone, LotsLast, JobsLast, Cancelling
  <1> QED
    BY <1>1, <1>2, <1>3, <1>4, <1>5, <1>6, <1>7, <1>8, <1>9, <1>10, <1>11, <1>12 DEF
       Next, Step, Lot, Unsells, Buttons

LEMMA PostStep ==
  TypeOK /\ JobsHold /\ PostsAreKnown /\ [Next]_vars => PostsAreKnown'
  BY OutStep, BoughtStep, SoldStep, OffStep DEF PostsAreKnown

(* What the phone is told *)
LEMMA NewsOfOne ==
  ASSUME TypeOK, NEW j \in Job, NEW st, NEW k \in Job, NEW x, <<k, x>> \in News(j, st)
  PROVE  k = j /\ x = st
  <1>1. job[j].unsell \in Unsell \union {None} /\ k \notin Unsell
    BY Constants, Typed
  <1> QED
    BY <1>1 DEF News

LEMMA NewsIsSo ==
  ASSUME TypeOK, ToldIsSo, JobsLast, NEW j \in Job, NEW st \in Status, Finish(j, st)
  PROVE  ToldIsSo'
  <1>1. job'[j].status = st
    BY Sets DEF Finish, Became, Is
  <1>2. \A k \in Job, x \in {"published", "sold"} :
          <<k, x>> \in told' => <<k, x>> \in told \/ (k = j /\ x = st)
    BY NewsOfOne DEF Finish
  <1> QED
    BY <1>1, <1>2 DEF ToldIsSo, JobsLast, OnSale

LEMMA NoNews ==
  ASSUME ToldIsSo, JobsLast,
         \A k \in Job, x \in {"published", "sold"} : <<k, x>> \in told' => <<k, x>> \in told
  PROVE  ToldIsSo'
  BY DEF ToldIsSo, JobsLast

LEMMA ToldStep == TypeOK /\ JobsHold /\ ToldIsSo /\ [Next]_vars => ToldIsSo'
  <1> SUFFICES ASSUME TypeOK, JobsHold, ToldIsSo, [Next]_vars PROVE ToldIsSo'
    OBVIOUS
  <1> USE Constants
  <1>l. JobsLast
    BY LastStep
  <1>0. ASSUME UNCHANGED <<told>> PROVE ToldIsSo'
    BY <1>0, <1>l DEF ToldIsSo, JobsLast, OnSale
  <1>1. ASSUME NEW j \in Job, Pause(j) \/ ToHuman(j) \/ TakeLot(j) \/ AwaitLot(j) \/
     BeginDone(j) \/ MakeLot(j) \/ LotLost(j) \/ SignOffer(j) \/ PublishLost(j) \/
     Continue(j) \/ MarketCancel(j) \/ TwoHours(j) PROVE ToldIsSo'
    BY <1>0, <1>1 DEF Pause, ToHuman, TakeLot, AwaitLot, BeginDone, MakeLot, LotLost,
       SignOffer, PublishLost, Continue, MarketCancel, TwoHours, Back, Rest, At, OnTo,
       Making, NotMade, MadeFor, NewCoin, Posting, TakeDown, Bought, link, wallet,
       market, phone, ghosts
  <1>2. ASSUME NEW u \in Unsell, UnsellPublished(u) \/ UnsellAgain(u) PROVE ToldIsSo'
    BY <1>0, <1>2 DEF UnsellPublished, UnsellAgain, Take, link, wallet, market, phone,
       ghosts
  <1>3. ASSUME NEW c \in Coin, MarketSettles(c) \/ Buy(c) \/ Confirm(c) PROVE ToldIsSo'
    BY <1>0, <1>3 DEF MarketSettles, Buy, Confirm, link, wallet, market, phone, ghosts
  <1>4. CASE Revoke \/ UNCHANGED vars
    BY <1>0, <1>4 DEF Revoke, StopLink, Stopped, Become, vars, link, wallet, market,
       phone, ghosts
  <1>5. ASSUME NEW j \in Job, Sell(j) PROVE ToldIsSo'
    <2>n. \A k \in Job, x \in {"published", "sold"} :
            <<k, x>> \in told' => <<k, x>> \in told
      BY <1>5, Typed, Constants DEF Sell, TypeOK
    <2> QED
      BY <2>n, <1>l, NoNews
  <1>6. ASSUME NEW j \in Job, NotHeld(j) PROVE ToldIsSo'
    BY <1>6, NewsIsSo, Statuses, <1>l DEF NotHeld
  <1>7. ASSUME NEW j \in Job, BeginFails(j) PROVE ToldIsSo'
    BY <1>7, NewsIsSo, Statuses, <1>l DEF BeginFails
  <1>8. ASSUME NEW j \in Job, LotUnknown(j) PROVE ToldIsSo'
    BY <1>8, NewsIsSo, Statuses, <1>l DEF LotUnknown
  <1>9. ASSUME NEW j \in Job, Publish(j) PROVE ToldIsSo'
    BY <1>9, NewsIsSo, Statuses, <1>l DEF Publish
  <1>10. ASSUME NEW j \in Job, Settle(j) PROVE ToldIsSo'
    <2>1. \E st \in {"sold", "cancelled"} : Finish(j, st)
      BY <1>10 DEF Settle
    <2> QED
      BY <2>1, NewsIsSo, Statuses, <1>l
  <1>11. ASSUME NEW j \in Job, CancelPosted(j) PROVE ToldIsSo'
    <2>1. Finish(j, "cancelled") \/ UNCHANGED told
      BY <1>11 DEF CancelPosted
    <2> QED
      BY <2>1, NewsIsSo, NoNews, Statuses, <1>l
  <1>12. ASSUME NEW j \in Job, RefuseSale(j) PROVE ToldIsSo'
    BY <1>12, NewsIsSo, Statuses, <1>l DEF RefuseSale
  <1>13. ASSUME NEW j \in Job, RefuseUnsell(j) PROVE ToldIsSo'
    <2>n. \A k \in Job, x \in {"published", "sold"} :
            <<k, x>> \in told' => <<k, x>> \in told
      BY <1>13, Typed, Constants DEF RefuseUnsell, TypeOK
    <2> QED
      BY <2>n, <1>l, NoNews
  <1>14. ASSUME NEW j \in Job, CancelHere(j) PROVE ToldIsSo'
    BY <1>14, NewsIsSo, Statuses, <1>l DEF CancelHere
  <1>15. ASSUME NEW j \in Job, NoteSold(j) PROVE ToldIsSo'
    BY <1>15, NewsIsSo, Statuses, <1>l DEF NoteSold
  <1>16. ASSUME NEW u \in Unsell, UnsellAnswered(u) PROVE ToldIsSo'
    <2>n. \A k \in Job, x \in {"published", "sold"} :
            <<k, x>> \in told' => <<k, x>> \in told
      BY <1>16, Typed, Constants DEF UnsellAnswered, TypeOK
    <2> QED
      BY <2>n, <1>l, NoNews
  <1>17. ASSUME NEW u \in Unsell, UnsellExpired(u) PROVE ToldIsSo'
    <2>n. \A k \in Job, x \in {"published", "sold"} :
            <<k, x>> \in told' => <<k, x>> \in told
      BY <1>17, Typed, Constants DEF UnsellExpired, TypeOK
    <2> QED
      BY <2>n, <1>l, NoNews
  <1>18. ASSUME NEW enabled \in BOOLEAN, SetSell(enabled) PROVE ToldIsSo'
    <2>n. \A k \in Job, x \in {"published", "sold"} :
            <<k, x>> \in told' => <<k, x>> \in told
      BY <1>18, Typed, Constants DEF SetSell, TypeOK
    <2> QED
      BY <2>n, <1>l, NoNews
  <1>19. CASE StartTick
    <2>n. \A k \in Job, x \in {"published", "sold"} :
            <<k, x>> \in told' => <<k, x>> \in told
      BY <1>19, TickMoves, Typed, Constants DEF StartTick, TypeOK
    <2> QED
      BY <2>n, <1>l, NoNews
  <1> QED
    BY <1>1, <1>2, <1>3, <1>4, <1>5, <1>6, <1>7, <1>8, <1>9, <1>10, <1>11, <1>12, <1>13,
       <1>14, <1>15, <1>16, <1>17, <1>18, <1>19 DEF Next, Step, Lot, Unsells, Buttons

(* A sale ends sold when its lot was bought. *)
LEMMA SoldWasStep ==
  TypeOK /\ JobsHold /\ PostsAreKnown /\ SoldWasBought /\ [Next]_vars => SoldWasBought'
  <1> SUFFICES ASSUME TypeOK, JobsHold, PostsAreKnown, SoldWasBought, Moves, LotsLast,
            JobsLast,
                      NEW j \in Job, job'[j].status = "sold"
               PROVE  job'[j].coin # None /\ coin'[job'[j].coin] = "sold"
    BY MoveStep, LotsStep, LastStep DEF SoldWasBought
  <1>1. JobMoves(j) /\ JobHolds(j)
    BY DEF Moves, JobsHold
  <1>2. job[j].status = "sold" \/ IsSold(j)
    <2> USE Constants, Typed, Statuses DEF Went, Became, Is
    <2>1. CASE job'[j] = job[j] \/ Begins(j) \/ Advances(j) \/ TakesLot(j) \/ Waits(j)
      BY <2>1 DEF Begins, Advances, TakesLot, Waits
    <2>2. CASE Resumes(j)
      BY <2>2 DEF Resumes
    <2>3. CASE StopsUnsold(j) \/ IsOff(j) \/ IsTakenDown(j) \/ StaysOnSale(j) \/ IsAsked(j)
      BY <2>3 DEF StopsUnsold, IsOff, IsTakenDown, StaysOnSale, IsAsked
    <2> QED
      BY <1>1, <2>1, <2>2, <2>3 DEF JobMoves
  <1>3. job[j].coin # None /\ job[j].coin \in Coin
    BY <1>1, <1>2, Typed DEF IsSold, JobHolds, SoldWasBought
  <1>4. coin[job[j].coin] = "sold"
    BY <1>2, <1>3 DEF IsSold, SoldWasBought, PostsAreKnown, SoldIsBought
  <1> QED
    BY <1>3, <1>4 DEF JobsLast, LotsLast

(* What goes out was offered, and is not taken down in the same step. *)
OutNow ==
  \A c \in posted' \ posted :
    \E j \in Job : job[j].coin = c /\ job[j].status = "offered" /\ job'[j].status # "cancelled"

LEMMA OutNowStep == TypeOK /\ JobsHold /\ [Next]_vars => OutNow
  <1> SUFFICES ASSUME TypeOK, JobsHold, [Next]_vars PROVE OutNow
    OBVIOUS
  <1> USE Constants
  <1>0. ASSUME UNCHANGED <<posted>> PROVE OutNow
    BY <1>0 DEF OutNow
  <1>1. ASSUME NEW j \in Job, Sell(j) \/ Pause(j) \/ ToHuman(j) \/ NotHeld(j) \/
     TakeLot(j) \/ AwaitLot(j) \/ BeginFails(j) \/ BeginDone(j) \/ MakeLot(j) \/
     LotUnknown(j) \/ LotLost(j) \/ SignOffer(j) \/ Settle(j) \/ CancelPosted(j) \/
     Continue(j) \/ RefuseSale(j) \/ RefuseUnsell(j) \/ CancelHere(j) \/ MarketCancel(j)
     \/ NoteSold(j) \/ TwoHours(j) PROVE OutNow
    BY <1>0, <1>1 DEF Sell, Pause, ToHuman, NotHeld, TakeLot, AwaitLot, BeginFails,
       BeginDone, MakeLot, LotUnknown, LotLost, SignOffer, Settle, CancelPosted,
       Continue, RefuseSale, RefuseUnsell, CancelHere, MarketCancel, NoteSold, TwoHours,
       Become, Back, Rest, At, Finish, News, OnTo, Making, NotMade, MadeFor, NewCoin,
       TakeDown, Bought, Stopped, market
  <1>2. ASSUME NEW u \in Unsell, UnsellPublished(u) \/ UnsellAgain(u) \/
     UnsellAnswered(u) \/ UnsellExpired(u) PROVE OutNow
    BY <1>0, <1>2 DEF UnsellPublished, UnsellAgain, UnsellAnswered, UnsellExpired, Take,
       market
  <1>3. ASSUME NEW c \in Coin, MarketSettles(c) \/ Buy(c) \/ Confirm(c) PROVE OutNow
    BY <1>0, <1>3 DEF MarketSettles, Buy, Confirm, market
  <1>4. ASSUME NEW enabled \in BOOLEAN, SetSell(enabled) PROVE OutNow
    BY <1>0, <1>4 DEF SetSell, StopLink, Stopped, Become, market
  <1>5. CASE Revoke \/ StartTick \/ UNCHANGED vars
    BY <1>0, <1>5 DEF Revoke, StartTick, StopLink, Stopped, Become, Tidied, Tired, Late,
       vars, market
  <1>6. ASSUME NEW j \in Job, Publish(j) PROVE OutNow
    <2>1. Became(j, "published")
      BY <1>6, Sets, Statuses DEF Publish, Finish
    <2> QED
      BY <1>6, <2>1 DEF Publish, Posting, At, OutNow, Became, Is
  <1>7. ASSUME NEW j \in Job, PublishLost(j) PROVE OutNow
    BY <1>7 DEF PublishLost, Posting, At, OutNow
  <1> QED
    BY <1>1, <1>2, <1>3, <1>4, <1>5, <1>6, <1>7 DEF Next, Step, Lot, Unsells, Buttons

(* A job is cancelled before its offer is out, or with its lot moved or bought. *)
LEMMA OffNow ==
  ASSUME TypeOK, JobsHold, Moves, NEW j \in Job, job'[j].status = "cancelled"
  PROVE  \/ job'[j] = job[j] \/ StopsUnsold(j) \/ IsOff(j) \/ IsTakenDown(j)
  <1> USE Constants, Typed, Statuses DEF Went, Became, Is
  <1>1. JobMoves(j) /\ JobHolds(j)
    BY DEF Moves, JobsHold
  <1>2. CASE Begins(j) \/ Advances(j) \/ TakesLot(j) \/ Waits(j)
    BY <1>2 DEF Begins, Advances, TakesLot, Waits
  <1>3. CASE Resumes(j)
    BY <1>3 DEF Resumes
  <1>4. CASE IsSold(j) \/ StaysOnSale(j) \/ IsAsked(j)
    BY <1>4 DEF IsSold, StaysOnSale, IsAsked
  <1> QED
    BY <1>1, <1>2, <1>3, <1>4 DEF JobMoves

LEMMA CancelledStep ==
  TypeOK /\ JobsHold /\ PostsAreKnown /\ CancelledIsOff /\ [Next]_vars => CancelledIsOff'
  <1> SUFFICES ASSUME TypeOK, JobsHold, PostsAreKnown, CancelledIsOff, [Next]_vars,
                      NEW k \in Job, job'[k].status = "cancelled", job'[k].coin # None,
                      k \notin crossed' \union adrift', Alone(k)',
                      coin'[job'[k].coin] # "moved", job'[k].coin \in posted'
               PROVE  FALSE
    BY DEF CancelledIsOff
  <1>1. Moves /\ LotsLast /\ JobsLast /\ OutNow
    BY MoveStep, LotsStep, LastStep, OutNowStep
  <1>2. job'[k] = job[k] \/ StopsUnsold(k) \/ IsOff(k) \/ IsTakenDown(k)
    BY <1>1, OffNow
  <1>3. job'[k].coin = job[k].coin /\ job[k].coin \in Coin
    BY <1>2, Typed DEF StopsUnsold, IsOff, IsTakenDown, Became, Is
  <1>4. Alone(k) /\ k \notin crossed \union adrift
    BY <1>1, <1>3, Constants DEF Alone, LotsLast, JobsLast
  <1>5. job[k].coin \in posted
    BY <1>1, <1>3, <1>4 DEF OutNow, Alone
  <1>6. coin[job[k].coin] # "moved"
    BY <1>1, <1>3 DEF LotsLast
  <1>7. job[k].status # "cancelled"
    BY <1>3, <1>4, <1>5, <1>6, Constants DEF CancelledIsOff
  <1>8. OnSale(k)
    BY <1>3, <1>4, <1>5 DEF PostsAreKnown, OutIsKnown, Alone
  <1>9. IsOff(k)
    BY <1>2, <1>3, <1>7, <1>8 DEF StopsUnsold, BeforePublish, OnSale, IsTakenDown
  <1>10. PICK j \in crossed : job[j].coin = job[k].coin
    BY <1>3, <1>6, <1>9 DEF IsOff, PostsAreKnown, OffIsGone
  <1>11. j \in Job
    BY <1>10 DEF TypeOK
  <1> QED
    BY <1>4, <1>10, <1>11 DEF Alone

(* What becomes of a request to take a sale down *)
Kept(u) == job'[Target[u]].unsell = u /\ Cancelling(job'[Target[u]])
AskedNow == \A u \in asked' \ asked : AnswerTold(u) \/ Kept(u)

LEMMA AskedStep == TypeOK /\ ToldIsSo /\ [Next]_vars => AskedNow
  <1> SUFFICES ASSUME TypeOK, ToldIsSo, [Next]_vars PROVE AskedNow
    OBVIOUS
  <1> USE Constants
  <1>0. ASSUME UNCHANGED <<asked>> PROVE AskedNow
    BY <1>0 DEF AskedNow
  <1>1. ASSUME NEW j \in Job, Sell(j) \/ Pause(j) \/ ToHuman(j) \/ NotHeld(j) \/
     TakeLot(j) \/ AwaitLot(j) \/ BeginFails(j) \/ BeginDone(j) \/ MakeLot(j) \/
     LotUnknown(j) \/ LotLost(j) \/ SignOffer(j) \/ Publish(j) \/ PublishLost(j) \/
     Settle(j) \/ CancelPosted(j) \/ Continue(j) \/ RefuseSale(j) \/ RefuseUnsell(j) \/
     CancelHere(j) \/ MarketCancel(j) \/ NoteSold(j) \/ TwoHours(j) PROVE AskedNow
    BY <1>0, <1>1 DEF Sell, Pause, ToHuman, NotHeld, TakeLot, AwaitLot, BeginFails,
       BeginDone, MakeLot, LotUnknown, LotLost, SignOffer, Publish, PublishLost, Settle,
       CancelPosted, Continue, RefuseSale, RefuseUnsell, CancelHere, MarketCancel,
       NoteSold, TwoHours, Become, Back, Rest, At, Finish, News, OnTo, Making, NotMade,
       MadeFor, NewCoin, Posting, TakeDown, Bought, Stopped, phone
  <1>2. ASSUME NEW c \in Coin, MarketSettles(c) \/ Buy(c) \/ Confirm(c) PROVE AskedNow
    BY <1>0, <1>2 DEF MarketSettles, Buy, Confirm, phone
  <1>3. ASSUME NEW enabled \in BOOLEAN, SetSell(enabled) PROVE AskedNow
    BY <1>0, <1>3 DEF SetSell, StopLink, Stopped, Become, phone
  <1>4. CASE Revoke \/ StartTick \/ UNCHANGED vars
    BY <1>0, <1>4 DEF Revoke, StartTick, StopLink, Stopped, Become, Tidied, Tired, Late,
       vars, phone
  <1>5. ASSUME NEW u \in Unsell, UnsellPublished(u) PROVE AskedNow
    <2>1. Target[u] \in Job
      BY Constants
    <2>2. asked' = asked \union {u}
      BY <1>5 DEF UnsellPublished, Take
    <2>3. Is(Target[u], "cancelling", job[Target[u]].resume, job[Target[u]].coin, u)
      BY <1>5, <2>1, Sets, Statuses DEF UnsellPublished
    <2>4. Kept(u)
      BY <1>5, <2>1, <2>3 DEF Kept, Cancelling, Is
    <2> QED
      BY <2>2, <2>4 DEF AskedNow
  <1>6. ASSUME NEW u \in Unsell, UnsellAgain(u) PROVE AskedNow
    <2>1. Target[u] \in Job
      BY Constants
    <2>2. asked' = asked \union {u}
      BY <1>6 DEF UnsellAgain, Take
    <2>3. Cancelling(job[Target[u]])
      BY <1>6, <2>1 DEF UnsellAgain, Take, Cancelling, ToldIsSo, OnSale
    <2>4. Kept(u)
      BY <1>6, <2>1, <2>3, Sets, Statuses, Typed DEF UnsellAgain, Kept, Cancelling, Is
    <2> QED
      BY <2>2, <2>4 DEF AskedNow
  <1>7. ASSUME NEW u \in Unsell, UnsellAnswered(u) PROVE AskedNow
    BY <1>7 DEF UnsellAnswered, Take, AskedNow, AnswerTold, Ended
  <1>8. ASSUME NEW u \in Unsell, UnsellExpired(u) PROVE AskedNow
    BY <1>8 DEF UnsellExpired, Take, AskedNow, AnswerTold, Ended
  <1> QED
    BY <1>1, <1>2, <1>3, <1>4, <1>5, <1>6, <1>7, <1>8 DEF Next, Step, Lot, Unsells,
       Buttons

LEMMA KeptStep ==
  TypeOK /\ JobsHold /\ ToldIsSo /\ UnsellsAreKept /\ [Next]_vars => UnsellsAreKept'
  <1> SUFFICES ASSUME TypeOK, JobsHold, UnsellsAreKept, AskedNow, Moves, LotsLast, TypeOK',
                      NEW u \in (asked \ replaced)'
               PROVE  AnswerTold(u) \/ Kept(u)
    BY AskedStep, MoveStep, LotsStep, TypeStep DEF UnsellsAreKept, AnswerTold, Kept
  <1> DEFINE j == Target[u]
  <1>1. u \in Unsell /\ j \in Job /\ u \notin replaced /\ u # None
    BY Constants DEF TypeOK, LotsLast
  <1>2. CASE u \notin asked
    BY <1>2 DEF AskedNow
  <1>3. CASE \E s \in Ended : <<u, s>> \in told
    BY <1>3 DEF AnswerTold, LotsLast
  <1>4. CASE job[j].unsell = u /\ Cancelling(job[j])
    <2>1. JobMoves(j) /\ JobHolds(j)
      BY <1>1 DEF Moves, JobsHold
    <2> HIDE DEF j
    <2> USE <1>1, <1>4, <2>1 DEF JobHolds, Cancelling, Went, Became, Is
    <2>2. CASE job'[j] = job[j]
      BY <2>2 DEF Kept, j
    <2>3. CASE Begins(j) \/ Advances(j) \/ StopsUnsold(j) \/ IsSold(j) \/ IsOff(j)
      BY <2>3 DEF Begins, Advances, StopsUnsold, BeforePublish, IsSold, IsOff
    <2>7. CASE TakesLot(j)
      BY <2>7 DEF TakesLot
    <2>4. CASE Waits(j) \/ Resumes(j)
      BY <2>4 DEF Waits, Resumes, Kept, j
    <2>5. CASE IsTakenDown(j) \/ StaysOnSale(j)
      BY <2>5 DEF IsTakenDown, StaysOnSale
    <2>6. CASE IsAsked(j)
      BY <2>6 DEF IsAsked
    <2> QED
      BY <2>2, <2>3, <2>4, <2>5, <2>6, <2>7 DEF JobMoves
  <1> QED
    BY <1>1, <1>2, <1>3, <1>4 DEF UnsellsAreKept

-----------------------------------------------------------------------------
LEMMA InitInv == Init => IInv
  <1> SUFFICES ASSUME Init PROVE IInv
    OBVIOUS
  <1> USE Constants
  <1>1. TypeOK
    BY DEF Init, TypeOK, SellJob, Status
  <1>2. JobsHold /\ CoinsAreNotShared /\ LanesCount
    BY DEF Init, JobsHold, JobHolds, CoinsAreNotShared, LanesCount, Cancelling
  <1>3. OutIsKnown /\ BoughtWasOut /\ SoldIsBought /\ OffIsGone
    BY DEF Init, OutIsKnown, BoughtWasOut, SoldIsBought, OffIsGone
  <1>4. ToldIsSo /\ SoldWasBought /\ CancelledIsOff /\ UnsellsAreKept
    BY DEF Init, ToldIsSo, SoldWasBought, CancelledIsOff, UnsellsAreKept
  <1> QED
    BY <1>1, <1>2, <1>3, <1>4 DEF IInv, PostsAreKnown

LEMMA StepInv == IInv /\ [Next]_vars => IInv'
  BY TypeStep, HoldStep, ShareStep, LaneStep, PostStep, ToldStep, SoldWasStep, CancelledStep,
     KeptStep DEF IInv

(* The types are right, in every state. *)
THEOREM TypeCorrect == Spec => []TypeOK
  <1>1. IInv => TypeOK
    BY DEF IInv
  <1> QED
    BY <1>1, InitInv, StepInv, PTL DEF Spec

(* No lot is held by two jobs (sell.rs: exact_lots, holds). *)
THEOREM LotServesOneJob == Spec => []CoinsAreNotShared
  <1>1. IInv => CoinsAreNotShared
    BY DEF IInv
  <1> QED
    BY <1>1, InitInv, StepInv, PTL DEF Spec

(* A job makes one lot at most: its lane is free before and never after, whatever
   answer or save is lost (sell.rs: make_lot). *)
THEOREM OneLotForAJob == Spec => []LotMadeOnce
  <1>1. IInv => LotMadeOnce
    BY DEF IInv, LanesCount, LotMadeOnce
  <1> QED
    BY <1>1, InitInv, StepInv, PTL DEF Spec

(* What the phone is told of a sale is true, with the exceptions the property
   names (sell.rs: set_status, step, stop_link). *)
THEOREM ReportsHold == Spec => []ReportsAreTrue
  <1>1. IInv => ReportsAreTrue
    <2> SUFFICES ASSUME IInv, NEW j \in Job
                 PROVE  /\ <<j, "sold">> \in told => coin[job[j].coin] = "sold"
                        /\ /\ job[j].status \in {"refused", "failed", "cancelled"}
                           /\ j \notin crossed \union adrift /\ job[j].coin # None /\ Alone(j)
                           => coin[job[j].coin] # "sold"
      BY DEF ReportsAreTrue
    <2>1. <<j, "sold">> \in told => coin[job[j].coin] = "sold"
      BY DEF IInv, ToldIsSo, SoldWasBought
    <2>2. ASSUME job[j].status \in {"refused", "failed", "cancelled"}, job[j].coin # None,
                 j \notin crossed \union adrift, Alone(j), coin[job[j].coin] = "sold"
          PROVE  FALSE
      <3>1. job[j].coin \in Coin
        BY <2>2 DEF IInv, TypeOK, SellJob
      <3>2. job[j].coin \in posted
        BY <2>2, <3>1 DEF IInv, PostsAreKnown, BoughtWasOut
      <3>3. OnSale(j)
        BY <2>2, <3>2 DEF IInv, PostsAreKnown, OutIsKnown, Alone
      <3>4. job[j].status = "cancelled"
        BY <2>2, <3>3 DEF OnSale
      <3> QED
        BY <2>2, <3>2, <3>4 DEF IInv, CancelledIsOff
    <2> QED
      BY <2>1, <2>2
  <1> QED
    BY <1>1, InitInv, StepInv, PTL DEF Spec

(* A request to take a sale down is answered, or is the one its job will answer
   (sell.rs: on_unsell, set_status, housekeeping). *)
THEOREM TakeDownsAreKept == Spec => []UnsellsAreKept
  <1>1. IInv => UnsellsAreKept
    BY DEF IInv
  <1> QED
    BY <1>1, InitInv, StepInv, PTL DEF Spec

-----------------------------------------------------------------------------
(* The files: types, part by part *)

(* What the screen starts from, is answered and remembers has its type. *)
LEMMA Views ==
  /\ Default \in Prefs /\ Damaged \in Prefs
  /\ \A p \in Prefs : View(p) \in Answer
  /\ \A a \in Answer : \A c \in File : a.dec[c] \in Wish
  /\ RowIdle \in Row /\ Quiet \in Bar /\ NoBulk \in Bulk /\ Resting \in Turn
  BY DEF Default, Damaged, Prefs, View, Answer, RowIdle, Row, Wish, Quiet, Bar, NoBulk,
         Bulk, Resting, Turn

(* The first few of some files are among them. *)
LEMMA FirstAre == \A cids : FirstFew(cids) \subseteq cids
  BY DEF FirstFew

(* A command that sets wishes writes wishes. *)
LEMMA WishSet ==
  ASSUME saved \in Prefs, NEW cids, NEW d \in Wish, SetWish(cids, d)
  PROVE  saved' \in Prefs
  BY DEF SetWish, Prefs

(* The wishes stay wishes, whoever writes them. *)
LEMMA PrefsStep ==
  ASSUME saved \in Prefs, task \in [File -> Row], KeepNext
  PROVE  saved' \in Prefs
  <1>1. CASE MigrateWrite
    <2> DEFINE keeps == [c \in File |-> IF c \in listed[1] /\ saved.dec[c] = "none"
                                       THEN "keep" ELSE saved.dec[c]]
    <2>1. keeps \in [File -> Wish]
      BY DEF Prefs, Wish
    <2>2. saved' = saved \/ saved' = [saved EXCEPT !.migrated = TRUE, !.dec = keeps]
      BY <1>1 DEF MigrateWrite
    <2> HIDE DEF keeps
    <2> QED
      BY <2>1, <2>2 DEF Prefs
  <1>2. CASE Break
    BY <1>2, Views DEF Break
  <1>3. CASE AskRuns
    <2>1. CASE AskState \/ AskFails
      BY <2>1 DEF AskState, AskFails, rust
    <2>2. CASE AskNone
      BY <2>2, WishSet DEF AskNone, Wish
    <2>3. CASE AskAuto
      BY <2>3 DEF AskAuto, Prefs
    <2>4. CASE AskReset
      BY <2>4, Views DEF AskReset
    <2> QED
      BY <1>3, <2>1, <2>2, <2>3, <2>4 DEF AskRuns
  <1>4. ASSUME NEW c \in File, KeepSaved(c) PROVE saved' \in Prefs
    BY <1>4, WishSet
       DEF KeepSaved, RowAnswered, Refused, rust, notes, Wish
  <1>5. ASSUME NEW c \in File, SkipSaved(c) PROVE saved' \in Prefs
    BY <1>5, WishSet
       DEF SkipSaved, RowAnswered, Refused, rust, notes, Wish
  <1>6. ASSUME NEW c \in File, PutBack(c) PROVE saved' \in Prefs
    BY <1>6, WishSet
       DEF PutBack, RowAnswered, Refused, rust, LetBe, Wish, Row
  <1>7. CASE MigrateRead \/ RoundBegins \/ HelpBegins \/ BulkBegins \/ BulkStops
                \/ Asks \/ BulkNext \/ AskTaken \/ PinsRead \/ PinsTaken
    BY <1>7
       DEF MigrateRead, RoundBegins, rust, HelpBegins, BulkBegins, BulkStops, Asks,
           BulkNext, AskTaken, PinsRead, PinsTaken
  <1>8. ASSUME NEW w \in Worker,
                RoundEnds(w) \/ LookAt(w) \/ Asked(w) \/ PinAnswered(w)
                \/ LookAgain(w) \/ TakeOff(w)
        PROVE saved' \in Prefs
    BY <1>8
       DEF RoundEnds, rust, LookAt, Asked, PinAnswered, LookAgain, TakeOff
  <1>9. ASSUME NEW c \in File,
                MissExpires(c) \/ Appears(c) \/ Tap(c) \/ Release(c) \/ Recheck(c)
                \/ UndoEnds(c) \/ KeepTaken(c) \/ KeepFinds(c) \/ KeepPins(c)
                \/ SkipTaken(c) \/ Unpins(c) \/ RestoreTaken(c)
        PROVE saved' \in Prefs
    BY <1>9
       DEF MissExpires, Appears, rust, Tap, Release, Recheck, UndoEnds, KeepTaken,
           KeepFinds, KeepPins, LetBe, SkipTaken, Unpins, RestoreTaken
  <1> QED
    BY <1>1, <1>2, <1>3, <1>4, <1>5, <1>6, <1>7, <1>8, <1>9
       DEF KeepNext, WorkerStep, RowStep, ScreenStep

(* The workers have turns, and know what they have taken up. *)
Turns == work \in [Worker -> Turn] /\ WorkersHold

(* A worker that has taken up a file knows which. *)
LEMMA TurnStep ==
  ASSUME Turns, KeepNext
  PROVE  Turns'
  <1>1. CASE RoundBegins
    BY <1>1, FirstAre
       DEF RoundBegins, rust, screen, notes, Turns, Turn, WorkersHold, Now, Worker
  <1>2. CASE HelpBegins
    BY <1>2, FirstAre
       DEF HelpBegins, rust, screen, Turns, Turn, WorkersHold, Now, Worker
  <1>3. ASSUME NEW w \in Worker, RoundEnds(w) PROVE Turns'
    BY <1>3, Views
       DEF RoundEnds, Resting, rust, screen, notes, Turns, Turn, WorkersHold, Now,
           Worker
  <1>4. ASSUME NEW w \in Worker, LookAt(w) PROVE Turns'
    BY <1>4
       DEF LookAt, Drop, rust, screen, notes, Turns, Turn, WorkersHold, Now, Worker
  <1>5. ASSUME NEW w \in Worker, Asked(w) PROVE Turns'
    BY <1>5
       DEF Asked, Now, Drop, Goes, screen, notes, Turns, Turn, WorkersHold, Worker
  <1>6. ASSUME NEW w \in Worker, PinAnswered(w) PROVE Turns'
    BY <1>6
       DEF PinAnswered, Now, Goes, Drop, screen, notes, Turns, Turn, WorkersHold,
           Worker
  <1>7. ASSUME NEW w \in Worker, LookAgain(w) PROVE Turns'
    BY <1>7
       DEF LookAgain, Now, Goes, Drop, rust, screen, notes, Turns, Turn,
           WorkersHold, Worker
  <1>8. ASSUME NEW w \in Worker, TakeOff(w) PROVE Turns'
    BY <1>8
       DEF TakeOff, Drop, Now, rust, screen, Turns, Turn, WorkersHold, Worker
  <1>9. CASE MigrateRead \/ MigrateWrite \/ Break \/ BulkBegins \/ BulkStops
                \/ Asks \/ BulkNext \/ AskRuns \/ AskTaken \/ PinsRead \/ PinsTaken
    BY <1>9
       DEF MigrateRead, MigrateWrite, Break, BulkBegins, BulkStops, Asks, BulkNext,
           AskRuns, AskTaken, PinsRead, PinsTaken, Turns, WorkersHold, Now
  <1>10. ASSUME NEW c \in File,
                MissExpires(c) \/ Appears(c) \/ Tap(c) \/ Release(c) \/ Recheck(c)
                \/ UndoEnds(c) \/ KeepSaved(c) \/ KeepTaken(c) \/ KeepFinds(c)
                \/ KeepPins(c) \/ SkipSaved(c) \/ SkipTaken(c) \/ Unpins(c)
                \/ PutBack(c) \/ RestoreTaken(c)
        PROVE Turns'
    BY <1>10
       DEF MissExpires, Appears, Tap, Release, Recheck, UndoEnds, KeepSaved,
           KeepTaken, KeepFinds, KeepPins, SkipSaved, SkipTaken, Unpins, PutBack,
           RestoreTaken, Turns, WorkersHold, Now
  <1> QED
    BY <1>1, <1>2, <1>3, <1>4, <1>5, <1>6, <1>7, <1>8, <1>9, <1>10
       DEF KeepNext, WorkerStep, RowStep, ScreenStep

(* A row remembers a wish and an answer of their types. *)
LEMMA RowsStep ==
  ASSUME task \in [File -> Row], saved' \in Prefs, prefs \in Answer, bulk \in Bulk,
         KeepNext
  PROVE  task' \in [File -> Row]
  <1>1. CASE BulkNext
    <2>1. ASSUME NEW c \in bulk.rest, KeepBegins(c) PROVE task' \in [File -> Row]
      <3>1. c \in File
        BY DEF Bulk
      <3> QED
        BY <2>1, <3>1, Views DEF KeepBegins, Begun, Row
    <2> QED
      BY <1>1, <2>1 DEF BulkNext
  <1>2. ASSUME NEW c \in File, Tap(c) PROVE task' \in [File -> Row]
    BY <1>2, Views
       DEF Tap, KeepBegins, Busy, Begun, rust, Row
  <1>3. ASSUME NEW c \in File, Release(c) PROVE task' \in [File -> Row]
    BY <1>3, Views
       DEF Release, Busy, Begun, rust, notes, Row
  <1>4. ASSUME NEW c \in File, KeepSaved(c) PROVE task' \in [File -> Row]
    BY <1>4, Views
       DEF KeepSaved, RowAnswered, rust, RowGoes, notes, Row
  <1>5. ASSUME NEW c \in File, KeepTaken(c) PROVE task' \in [File -> Row]
    BY <1>5, Views
       DEF KeepTaken, RowFree, RowGoes, rust, notes, Row
  <1>6. ASSUME NEW c \in File, KeepFinds(c) PROVE task' \in [File -> Row]
    BY <1>6, Views
       DEF KeepFinds, RowGoes, RowFree, rust, notes, Row
  <1>7. ASSUME NEW c \in File, KeepPins(c) PROVE task' \in [File -> Row]
    BY <1>7, Views
       DEF KeepPins, RowFree, RowGoes, Row
  <1>8. ASSUME NEW c \in File, SkipSaved(c) PROVE task' \in [File -> Row]
    BY <1>8, Views
       DEF SkipSaved, RowAnswered, rust, RowGoes, notes, Row
  <1>9. ASSUME NEW c \in File, SkipTaken(c) PROVE task' \in [File -> Row]
    BY <1>9
       DEF SkipTaken, RowGoes, rust, notes, Row
  <1>10. ASSUME NEW c \in File, Unpins(c) PROVE task' \in [File -> Row]
    BY <1>10, Views
       DEF Unpins, RowFree, RowGoes, rust, Row
  <1>11. ASSUME NEW c \in File, PutBack(c) PROVE task' \in [File -> Row]
    BY <1>11, Views
       DEF PutBack, RowAnswered, rust, RowFree, Row
  <1>12. ASSUME NEW c \in File, RestoreTaken(c) PROVE task' \in [File -> Row]
    BY <1>12, Views
       DEF RestoreTaken, RowFree, rust, notes, Row
  <1>13. CASE MigrateRead \/ MigrateWrite \/ Break \/ RoundBegins \/ HelpBegins
                \/ BulkBegins \/ BulkStops \/ Asks \/ AskRuns \/ AskTaken
                \/ PinsRead \/ PinsTaken
    BY <1>13
       DEF MigrateRead, screen, MigrateWrite, Break, RoundBegins, HelpBegins,
           BulkBegins, BulkStops, Asks, AskRuns, AskTaken, PinsRead, PinsTaken
  <1>14. ASSUME NEW w \in Worker,
                RoundEnds(w) \/ LookAt(w) \/ Asked(w) \/ PinAnswered(w)
                \/ LookAgain(w) \/ TakeOff(w)
        PROVE task' \in [File -> Row]
    BY <1>14
       DEF RoundEnds, screen, LookAt, Asked, PinAnswered, LookAgain, TakeOff
  <1>15. ASSUME NEW c \in File,
                MissExpires(c) \/ Appears(c) \/ Recheck(c) \/ UndoEnds(c)
        PROVE task' \in [File -> Row]
    BY <1>15
       DEF MissExpires, screen, Appears, Recheck, UndoEnds
  <1> QED
    BY <1>1, <1>2, <1>3, <1>4, <1>5, <1>6, <1>7, <1>8, <1>9, <1>10,
       <1>11, <1>12, <1>13, <1>14, <1>15
       DEF KeepNext, WorkerStep, RowStep, ScreenStep

(* The bulk keep has files left to keep. *)
LEMMA BulkStep ==
  ASSUME bulk \in Bulk, KeepNext
  PROVE  bulk' \in Bulk
  <1>1. CASE BulkBegins
    <2>1. \A s \in {Targets(TRUE), Targets(FALSE), Undecided} : s \in SUBSET File
      BY DEF Targets, Undecided
    <2> QED
      BY <1>1, <2>1 DEF BulkBegins, NoBulk, Bulk
  <1>2. CASE BulkStops
    BY <1>2
       DEF BulkStops, rust, notes, Bulk
  <1>3. CASE BulkNext
    BY <1>3, Views
       DEF BulkNext, Busy, Begun, rust, Bulk
  <1>4. CASE MigrateRead \/ MigrateWrite \/ Break \/ RoundBegins \/ HelpBegins
                \/ Asks \/ AskRuns \/ AskTaken \/ PinsRead \/ PinsTaken
    BY <1>4
       DEF MigrateRead, screen, MigrateWrite, Break, RoundBegins, HelpBegins, Asks,
           AskRuns, AskTaken, PinsRead, PinsTaken
  <1>5. ASSUME NEW w \in Worker,
                RoundEnds(w) \/ LookAt(w) \/ Asked(w) \/ PinAnswered(w)
                \/ LookAgain(w) \/ TakeOff(w)
        PROVE bulk' \in Bulk
    BY <1>5
       DEF RoundEnds, screen, LookAt, Asked, PinAnswered, LookAgain, TakeOff
  <1>6. ASSUME NEW c \in File,
                MissExpires(c) \/ Appears(c) \/ Tap(c) \/ Release(c) \/ Recheck(c)
                \/ UndoEnds(c) \/ KeepSaved(c) \/ KeepTaken(c) \/ KeepFinds(c)
                \/ KeepPins(c) \/ SkipSaved(c) \/ SkipTaken(c) \/ Unpins(c)
                \/ PutBack(c) \/ RestoreTaken(c)
        PROVE bulk' \in Bulk
    BY <1>6
       DEF MissExpires, screen, Appears, Tap, Release, Recheck, UndoEnds, KeepSaved,
           KeepTaken, KeepFinds, KeepPins, SkipSaved, SkipTaken, Unpins, PutBack,
           RestoreTaken
  <1> QED
    BY <1>1, <1>2, <1>3, <1>4, <1>5, <1>6
       DEF KeepNext, WorkerStep, RowStep, ScreenStep

(* A request of the bar has files and an answer. *)
LEMMA BarStep ==
  ASSUME ask \in Bar, saved' \in Prefs, KeepNext
  PROVE  ask' \in Bar
  <1>1. CASE Asks
    <2>1. Undecided \in SUBSET File
      BY DEF Undecided
    <2>2. Quiet.ans \in Answer
      BY Views DEF Bar
    <2> QED
      BY <1>1, <2>1, <2>2 DEF Asks, Quiet, Bar
  <1>2. CASE AskRuns
    BY <1>2, Views
       DEF AskRuns, AskState, rust, Answered, AskNone, AskAuto, AskReset, AskFails,
           Bar
  <1>3. CASE AskTaken
    BY <1>3, Views
       DEF AskTaken, rust, notes, Bar
  <1>4. CASE MigrateRead \/ MigrateWrite \/ Break \/ RoundBegins \/ HelpBegins
                \/ BulkBegins \/ BulkStops \/ BulkNext \/ PinsRead \/ PinsTaken
    BY <1>4
       DEF MigrateRead, screen, MigrateWrite, Break, RoundBegins, HelpBegins,
           BulkBegins, BulkStops, BulkNext, PinsRead, PinsTaken
  <1>5. ASSUME NEW w \in Worker,
                RoundEnds(w) \/ LookAt(w) \/ Asked(w) \/ PinAnswered(w)
                \/ LookAgain(w) \/ TakeOff(w)
        PROVE ask' \in Bar
    BY <1>5
       DEF RoundEnds, screen, LookAt, Asked, PinAnswered, LookAgain, TakeOff
  <1>6. ASSUME NEW c \in File,
                MissExpires(c) \/ Appears(c) \/ Tap(c) \/ Release(c) \/ Recheck(c)
                \/ UndoEnds(c) \/ KeepSaved(c) \/ KeepTaken(c) \/ KeepFinds(c)
                \/ KeepPins(c) \/ SkipSaved(c) \/ SkipTaken(c) \/ Unpins(c)
                \/ PutBack(c) \/ RestoreTaken(c)
        PROVE ask' \in Bar
    BY <1>6
       DEF MissExpires, screen, Appears, Tap, Release, Recheck, UndoEnds, KeepSaved,
           KeepTaken, KeepFinds, KeepPins, SkipSaved, SkipTaken, Unpins, PutBack,
           RestoreTaken
  <1> QED
    BY <1>1, <1>2, <1>3, <1>4, <1>5, <1>6
       DEF KeepNext, WorkerStep, RowStep, ScreenStep

(* The screen takes answers only. *)
LEMMA AnswerStep ==
  ASSUME prefs \in Answer, task \in [File -> Row], ask \in Bar, KeepNext
  PROVE  prefs' \in Answer
  <1>1. CASE AskTaken
    BY <1>1
       DEF AskTaken, rust, notes, Row, Bar
  <1>2. ASSUME NEW c \in File, KeepTaken(c) PROVE prefs' \in Answer
    BY <1>2
       DEF KeepTaken, rust, notes, Row, Bar
  <1>3. ASSUME NEW c \in File, SkipTaken(c) PROVE prefs' \in Answer
    BY <1>3
       DEF SkipTaken, rust, notes, Row, Bar
  <1>4. ASSUME NEW c \in File, RestoreTaken(c) PROVE prefs' \in Answer
    BY <1>4
       DEF RestoreTaken, rust, notes, Row, Bar
  <1>5. CASE MigrateRead \/ MigrateWrite \/ Break \/ RoundBegins \/ HelpBegins
                \/ BulkBegins \/ BulkStops \/ Asks \/ BulkNext \/ AskRuns
                \/ PinsRead \/ PinsTaken
    BY <1>5
       DEF MigrateRead, screen, MigrateWrite, Break, RoundBegins, HelpBegins,
           BulkBegins, BulkStops, Asks, BulkNext, AskRuns, PinsRead, PinsTaken
  <1>6. ASSUME NEW w \in Worker,
                RoundEnds(w) \/ LookAt(w) \/ Asked(w) \/ PinAnswered(w)
                \/ LookAgain(w) \/ TakeOff(w)
        PROVE prefs' \in Answer
    BY <1>6
       DEF RoundEnds, screen, LookAt, Asked, PinAnswered, LookAgain, TakeOff
  <1>7. ASSUME NEW c \in File,
                MissExpires(c) \/ Appears(c) \/ Tap(c) \/ Release(c) \/ Recheck(c)
                \/ UndoEnds(c) \/ KeepSaved(c) \/ KeepFinds(c) \/ KeepPins(c)
                \/ SkipSaved(c) \/ Unpins(c) \/ PutBack(c)
        PROVE prefs' \in Answer
    BY <1>7
       DEF MissExpires, screen, Appears, Tap, Release, Recheck, UndoEnds, KeepSaved,
           KeepFinds, KeepPins, SkipSaved, Unpins, PutBack
  <1> QED
    BY <1>1, <1>2, <1>3, <1>4, <1>5, <1>6, <1>7
       DEF KeepNext, WorkerStep, RowStep, ScreenStep

(* What the screen shows as pinned are files. *)
LEMMA ShownStep ==
  ASSUME shown \subseteq File, look \in Pins, pinned \subseteq File, KeepNext
  PROVE  shown' \subseteq File /\ look' \in Pins
  <1>1. CASE PinsRead
    BY <1>1
       DEF PinsRead, rust, notes, Pins
  <1>2. CASE PinsTaken
    BY <1>2
       DEF PinsTaken, rust, notes, Pins
  <1>3. ASSUME NEW c \in File, KeepTaken(c) PROVE shown' \subseteq File /\ look' \in Pins
    BY <1>3
       DEF KeepTaken, rust, notes, Pins
  <1>4. ASSUME NEW c \in File, KeepPins(c) PROVE shown' \subseteq File /\ look' \in Pins
    BY <1>4
       DEF KeepPins, Pins
  <1>5. ASSUME NEW c \in File, Unpins(c) PROVE shown' \subseteq File /\ look' \in Pins
    BY <1>5
       DEF Unpins, rust, Pins
  <1>6. CASE MigrateRead \/ MigrateWrite \/ Break \/ RoundBegins \/ HelpBegins
                \/ BulkBegins \/ BulkStops \/ Asks \/ BulkNext \/ AskRuns
                \/ AskTaken
    BY <1>6
       DEF MigrateRead, screen, MigrateWrite, Break, RoundBegins, HelpBegins,
           BulkBegins, BulkStops, Asks, BulkNext, AskRuns, AskTaken
  <1>7. ASSUME NEW w \in Worker,
                RoundEnds(w) \/ LookAt(w) \/ Asked(w) \/ PinAnswered(w)
                \/ LookAgain(w) \/ TakeOff(w)
        PROVE shown' \subseteq File /\ look' \in Pins
    BY <1>7
       DEF RoundEnds, screen, LookAt, Asked, PinAnswered, LookAgain, TakeOff
  <1>8. ASSUME NEW c \in File,
                MissExpires(c) \/ Appears(c) \/ Tap(c) \/ Release(c) \/ Recheck(c)
                \/ UndoEnds(c) \/ KeepSaved(c) \/ KeepFinds(c) \/ SkipSaved(c)
                \/ SkipTaken(c) \/ PutBack(c) \/ RestoreTaken(c)
        PROVE shown' \subseteq File /\ look' \in Pins
    BY <1>8
       DEF MissExpires, screen, Appears, Tap, Release, Recheck, UndoEnds, KeepSaved,
           KeepFinds, SkipSaved, SkipTaken, PutBack, RestoreTaken
  <1> QED
    BY <1>1, <1>2, <1>3, <1>4, <1>5, <1>6, <1>7, <1>8
       DEF KeepNext, WorkerStep, RowStep, ScreenStep

(* What it found out is one of three. *)
LEMMA HealthStep ==
  ASSUME health \in [File -> Health], KeepNext
  PROVE  health' \in [File -> Health]
  <1>1. ASSUME NEW c \in File, Recheck(c) PROVE health' \in [File -> Health]
    BY <1>1
       DEF Recheck, Busy, rust, notes, Health
  <1>2. ASSUME NEW c \in File, KeepFinds(c) PROVE health' \in [File -> Health]
    BY <1>2
       DEF KeepFinds, rust, notes, Health
  <1>3. ASSUME NEW c \in File, Unpins(c) PROVE health' \in [File -> Health]
    BY <1>3
       DEF Unpins, rust, Health
  <1>4. CASE MigrateRead \/ MigrateWrite \/ Break \/ RoundBegins \/ HelpBegins
                \/ BulkBegins \/ BulkStops \/ Asks \/ BulkNext \/ AskRuns
                \/ AskTaken \/ PinsRead \/ PinsTaken
    BY <1>4
       DEF MigrateRead, screen, MigrateWrite, Break, RoundBegins, HelpBegins,
           BulkBegins, BulkStops, Asks, BulkNext, AskRuns, AskTaken, PinsRead,
           PinsTaken
  <1>5. ASSUME NEW w \in Worker,
                RoundEnds(w) \/ LookAt(w) \/ Asked(w) \/ PinAnswered(w)
                \/ LookAgain(w) \/ TakeOff(w)
        PROVE health' \in [File -> Health]
    BY <1>5
       DEF RoundEnds, screen, LookAt, Asked, PinAnswered, LookAgain, TakeOff
  <1>6. ASSUME NEW c \in File,
                MissExpires(c) \/ Appears(c) \/ Tap(c) \/ Release(c) \/ UndoEnds(c)
                \/ KeepSaved(c) \/ KeepTaken(c) \/ KeepPins(c) \/ SkipSaved(c)
                \/ SkipTaken(c) \/ PutBack(c) \/ RestoreTaken(c)
        PROVE health' \in [File -> Health]
    BY <1>6
       DEF MissExpires, screen, Appears, Tap, Release, UndoEnds, KeepSaved,
           KeepTaken, KeepPins, SkipSaved, SkipTaken, PutBack, RestoreTaken
  <1> QED
    BY <1>1, <1>2, <1>3, <1>4, <1>5, <1>6
       DEF KeepNext, WorkerStep, RowStep, ScreenStep

(* What is read for a migration are pins. *)
LEMMA ListedStep ==
  ASSUME listed \in Pins, pinned \subseteq File, KeepNext
  PROVE  listed' \in Pins
  <1>1. CASE MigrateRead
    BY <1>1
       DEF MigrateRead, screen, notes, Pins
  <1>2. CASE MigrateWrite
    BY <1>2
       DEF MigrateWrite, screen, notes, Pins
  <1>3. CASE Break \/ RoundBegins \/ HelpBegins \/ BulkBegins \/ BulkStops
                \/ Asks \/ BulkNext \/ AskRuns \/ AskTaken \/ PinsRead \/ PinsTaken
    BY <1>3
       DEF Break, RoundBegins, rust, HelpBegins, BulkBegins, BulkStops, Asks,
           BulkNext, AskRuns, AskState, AskNone, SetWish, AskAuto, AskReset,
           AskFails, AskTaken, PinsRead, PinsTaken
  <1>4. ASSUME NEW w \in Worker,
                RoundEnds(w) \/ LookAt(w) \/ Asked(w) \/ PinAnswered(w)
                \/ LookAgain(w) \/ TakeOff(w)
        PROVE listed' \in Pins
    BY <1>4
       DEF RoundEnds, rust, LookAt, Asked, PinAnswered, LookAgain, TakeOff
  <1>5. ASSUME NEW c \in File,
                MissExpires(c) \/ Appears(c) \/ Tap(c) \/ Release(c) \/ Recheck(c)
                \/ UndoEnds(c) \/ KeepSaved(c) \/ KeepTaken(c) \/ KeepFinds(c)
                \/ KeepPins(c) \/ SkipSaved(c) \/ SkipTaken(c) \/ Unpins(c)
                \/ PutBack(c) \/ RestoreTaken(c)
        PROVE listed' \in Pins
    BY <1>5
       DEF MissExpires, Appears, rust, Tap, Release, Recheck, UndoEnds, KeepSaved,
           SetWish, Refused, KeepTaken, KeepFinds, KeepPins, SkipSaved, SkipTaken,
           Unpins, PutBack, RestoreTaken
  <1> QED
    BY <1>1, <1>2, <1>3, <1>4, <1>5
       DEF KeepNext, WorkerStep, RowStep, ScreenStep

FilesAre == /\ pinned \subseteq File /\ missed \subseteq File /\ astray \subseteq File
            /\ reach \subseteq File /\ undo \subseteq File /\ wanted \subseteq File

(* The sets of files stay sets of files. *)
LEMMA FilesStep ==
  ASSUME FilesAre, WorkersHold, bulk \in Bulk, ask \in Bar, KeepNext
  PROVE  FilesAre'
  <1>1. CASE HelpBegins
    BY <1>1, FirstAre
       DEF HelpBegins, rust, screen, FilesAre, WorkersHold, Bulk, Bar
  <1>2. CASE BulkNext
    BY <1>2
       DEF BulkNext, Busy, NoBulk, KeepBegins, Begun, rust, FilesAre, WorkersHold,
           Bulk, Bar
  <1>3. CASE AskRuns
    BY <1>3
       DEF AskRuns, AskState, rust, AskNone, SetWish, LetBe, AskAuto, AskReset,
           AskFails, FilesAre, WorkersHold, Bulk, Bar
  <1>4. ASSUME NEW w \in Worker, Asked(w) PROVE FilesAre'
    BY <1>4
       DEF Asked, Now, Skipped, screen, notes, FilesAre, WorkersHold, Bulk, Bar
  <1>5. ASSUME NEW w \in Worker, PinAnswered(w) PROVE FilesAre'
    BY <1>5
       DEF PinAnswered, Now, screen, notes, FilesAre, WorkersHold, Bulk, Bar
  <1>6. ASSUME NEW w \in Worker, TakeOff(w) PROVE FilesAre'
    BY <1>6
       DEF TakeOff, Now, rust, screen, FilesAre, WorkersHold, Bulk, Bar
  <1>7. ASSUME NEW c \in File, MissExpires(c) PROVE FilesAre'
    BY <1>7
       DEF MissExpires, screen, notes, FilesAre, WorkersHold, Bulk, Bar
  <1>8. ASSUME NEW c \in File, Appears(c) PROVE FilesAre'
    BY <1>8
       DEF Appears, rust, screen, notes, FilesAre, WorkersHold, Bulk, Bar
  <1>9. ASSUME NEW c \in File, Tap(c) PROVE FilesAre'
    BY <1>9
       DEF Tap, KeepBegins, Busy, Begun, rust, FilesAre, WorkersHold, Bulk, Bar
  <1>10. ASSUME NEW c \in File, UndoEnds(c) PROVE FilesAre'
    BY <1>10
       DEF UndoEnds, rust, notes, FilesAre, WorkersHold, Bulk, Bar
  <1>11. ASSUME NEW c \in File, KeepSaved(c) PROVE FilesAre'
    BY <1>11
       DEF KeepSaved, SetWish, Refused, rust, notes, FilesAre, WorkersHold, Bulk,
           Bar
  <1>12. ASSUME NEW c \in File, KeepPins(c) PROVE FilesAre'
    BY <1>12
       DEF KeepPins, LetBe, FilesAre, WorkersHold, Bulk, Bar
  <1>13. ASSUME NEW c \in File, SkipSaved(c) PROVE FilesAre'
    BY <1>13
       DEF SkipSaved, SetWish, Refused, rust, notes, FilesAre, WorkersHold, Bulk,
           Bar
  <1>14. ASSUME NEW c \in File, Unpins(c) PROVE FilesAre'
    BY <1>14
       DEF Unpins, rust, FilesAre, WorkersHold, Bulk, Bar
  <1>15. ASSUME NEW c \in File, PutBack(c) PROVE FilesAre'
    BY <1>15
       DEF PutBack, SetWish, Refused, rust, LetBe, FilesAre, WorkersHold, Bulk, Bar
  <1>16. CASE MigrateRead \/ MigrateWrite \/ Break \/ RoundBegins \/ BulkBegins
                \/ BulkStops \/ Asks \/ AskTaken \/ PinsRead \/ PinsTaken
    BY <1>16
       DEF MigrateRead, screen, notes, MigrateWrite, Break, RoundBegins, rust,
           BulkBegins, BulkStops, Asks, AskTaken, PinsRead, PinsTaken, FilesAre
  <1>17. ASSUME NEW w \in Worker,
                RoundEnds(w) \/ LookAt(w) \/ LookAgain(w)
        PROVE FilesAre'
    BY <1>17
       DEF RoundEnds, rust, screen, notes, LookAt, LookAgain, FilesAre
  <1>18. ASSUME NEW c \in File,
                Release(c) \/ Recheck(c) \/ KeepTaken(c) \/ KeepFinds(c)
                \/ SkipTaken(c) \/ RestoreTaken(c)
        PROVE FilesAre'
    BY <1>18
       DEF Release, rust, notes, Recheck, KeepTaken, KeepFinds, SkipTaken,
           RestoreTaken, FilesAre
  <1> QED
    BY <1>1, <1>2, <1>3, <1>4, <1>5, <1>6, <1>7, <1>8, <1>9, <1>10,
       <1>11, <1>12, <1>13, <1>14, <1>15, <1>16, <1>17, <1>18
       DEF KeepNext, WorkerStep, RowStep, ScreenStep

CountsAre == clicks \in 0..MaxClicks /\ faults \in 0..MaxFaults

(* The bounds hold. *)
LEMMA CountStep ==
  ASSUME CountsAre, KeepNext
  PROVE  CountsAre'
  <1>1. CASE RoundBegins
    BY <1>1, AKAssumption DEF RoundBegins, Ready, Fault, CountsAre
  <1>2. CASE BulkBegins
    BY <1>2, AKAssumption DEF BulkBegins, Click, CountsAre
  <1>3. CASE Asks
    BY <1>3, AKAssumption DEF Asks, Click, CountsAre
  <1>4. CASE BulkNext
    BY <1>4 DEF BulkNext, CountsAre
  <1>5. CASE AskRuns
    BY <1>5, AKAssumption
       DEF AskRuns, AskState, AskNone, AskAuto, AskReset, AskFails, SetWish, Ready, Fault, CountsAre
  <1>6. CASE MigrateRead \/ MigrateWrite \/ Break \/ HelpBegins \/ BulkStops
                \/ AskTaken \/ PinsRead \/ PinsTaken
    BY <1>6, AKAssumption
       DEF MigrateRead, MigrateWrite, Break, Fault, HelpBegins, Click, BulkStops,
           AskTaken, PinsRead, PinsTaken, CountsAre
  <1>7. ASSUME NEW w \in Worker,
                RoundEnds(w) \/ LookAt(w) \/ Asked(w) \/ PinAnswered(w)
                \/ LookAgain(w) \/ TakeOff(w)
        PROVE CountsAre'
    BY <1>7, AKAssumption
       DEF RoundEnds, LookAt, Fault, Asked, PinAnswered, LookAgain, TakeOff,
           CountsAre
  <1>8. ASSUME NEW c \in File,
                MissExpires(c) \/ Appears(c) \/ Tap(c) \/ Release(c) \/ Recheck(c)
                \/ UndoEnds(c) \/ KeepSaved(c) \/ KeepTaken(c) \/ KeepFinds(c)
                \/ KeepPins(c) \/ SkipSaved(c) \/ SkipTaken(c) \/ Unpins(c)
                \/ PutBack(c) \/ RestoreTaken(c)
        PROVE CountsAre'
    BY <1>8, AKAssumption
       DEF MissExpires, Appears, Tap, Click, Release, Recheck, UndoEnds, KeepSaved,
           SetWish, Ready, Fault, Refused, KeepTaken, KeepFinds, KeepPins,
           SkipSaved, SkipTaken, Unpins, PutBack, RestoreTaken, CountsAre
  <1> QED
    BY <1>1, <1>2, <1>3, <1>4, <1>5, <1>6, <1>7, <1>8
       DEF KeepNext, WorkerStep, RowStep, ScreenStep

(* A declined file is not pinned, unless somebody is about to look. *)
LetGo(f) == Skipped(f) /\ f \in pinned => f \in astray \/ HeldBy(f)

-----------------------------------------------------------------------------
(* The files: what is declined and what nobody asked for *)

(* Whoever pins a file or declines it leaves the two together only while somebody
   is about to look, or by a step whose outcome the code accepts. *)
LEMMA SkipStep ==
  ASSUME NEW f \in File, saved \in Prefs, task \in [File -> Row],
         work \in [Worker -> Turn], WorkersHold, LetGo(f), KeepNext
  PROVE  LetGo(f)'
  <1>1. CASE MigrateWrite
    <2>1. saved'.dec[f] = "skip" => saved.dec[f] = "skip"
      BY <1>1 DEF MigrateWrite, Prefs
    <2> QED
      BY <1>1, <2>1 DEF MigrateWrite, screen, notes, LetGo, HeldBy, Skipped, Now
  <1>2. CASE Break
    BY <1>2 DEF Break, Damaged, Default, LetGo, Skipped
  <1>3. CASE RoundBegins
    BY <1>3
       DEF RoundBegins, rust, screen, notes, LetGo, HeldBy, Skipped, Now, Prefs, Row
  <1>4. CASE HelpBegins
    BY <1>4
       DEF HelpBegins, rust, screen, LetGo, HeldBy, Skipped, Now, Prefs, Row
  <1>5. CASE BulkNext
    BY <1>5
       DEF BulkNext, Busy, NoBulk, KeepBegins, Begun, rust, LetGo, HeldBy, Skipped,
           Now, Prefs, Row
  <1>6. CASE AskRuns
    <2> USE DEF LetGo, HeldBy, Skipped, Now
    <2>1. CASE AskState \/ AskFails
      BY <1>6, <2>1 DEF AskRuns, AskState, AskFails, rust
    <2>2. CASE AskNone
      BY <1>6, <2>2 DEF AskRuns, AskNone, SetWish, LetBe, Prefs
    <2>3. CASE AskAuto
      BY <1>6, <2>3 DEF AskRuns, AskAuto, Prefs
    <2>4. CASE AskReset
      BY <2>4 DEF AskReset, Default
    <2> QED
      BY <1>6, <2>1, <2>2, <2>3, <2>4 DEF AskRuns
  <1>7. ASSUME NEW w \in Worker, RoundEnds(w) PROVE LetGo(f)'
    BY <1>7
       DEF RoundEnds, Resting, rust, screen, notes, LetGo, HeldBy, Skipped, Now,
           Turn, WorkersHold
  <1>8. ASSUME NEW w \in Worker, LookAt(w) PROVE LetGo(f)'
    BY <1>8
       DEF LookAt, Skipped, Drop, rust, screen, notes, LetGo, HeldBy, Now, Turn,
           WorkersHold
  <1>9. ASSUME NEW w \in Worker, Asked(w) PROVE LetGo(f)'
    BY <1>9
       DEF Asked, Now, Skipped, Drop, Goes, screen, notes, LetGo, HeldBy, Turn,
           WorkersHold
  <1>10. ASSUME NEW w \in Worker, PinAnswered(w) PROVE LetGo(f)'
    BY <1>10
       DEF PinAnswered, Now, Goes, Drop, screen, notes, LetGo, HeldBy, Skipped,
           Turn, WorkersHold
  <1>11. ASSUME NEW w \in Worker, LookAgain(w) PROVE LetGo(f)'
    BY <1>11
       DEF LookAgain, Skipped, Now, Goes, Drop, rust, screen, notes, LetGo, HeldBy,
           Turn, WorkersHold
  <1>12. ASSUME NEW w \in Worker, TakeOff(w) PROVE LetGo(f)'
    BY <1>12
       DEF TakeOff, Drop, Now, rust, screen, LetGo, HeldBy, Skipped, Turn,
           WorkersHold
  <1>13. ASSUME NEW c \in File, Tap(c) PROVE LetGo(f)'
    BY <1>13
       DEF Tap, KeepBegins, Busy, Begun, rust, LetGo, HeldBy, Skipped, Now, Prefs,
           Row
  <1>14. ASSUME NEW c \in File, Release(c) PROVE LetGo(f)'
    BY <1>14
       DEF Release, Busy, Begun, rust, notes, LetGo, HeldBy, Skipped, Now, Prefs,
           Row
  <1>15. ASSUME NEW c \in File, KeepSaved(c) PROVE LetGo(f)'
    BY <1>15
       DEF KeepSaved, SetWish, RowAnswered, Refused, rust, RowGoes, notes, LetGo,
           HeldBy, Skipped, Now, Prefs, Row
  <1>16. ASSUME NEW c \in File, KeepTaken(c) PROVE LetGo(f)'
    BY <1>16
       DEF KeepTaken, RowFree, RowGoes, rust, notes, LetGo, HeldBy, Skipped, Now,
           Prefs, Row
  <1>17. ASSUME NEW c \in File, KeepFinds(c) PROVE LetGo(f)'
    BY <1>17
       DEF KeepFinds, RowGoes, RowFree, rust, notes, LetGo, HeldBy, Skipped, Now,
           Prefs, Row
  <1>18. ASSUME NEW c \in File, KeepPins(c) PROVE LetGo(f)'
    BY <1>18
       DEF KeepPins, RowFree, LetBe, RowGoes, LetGo, HeldBy, Skipped, Now, Prefs,
           Row
  <1>19. ASSUME NEW c \in File, SkipSaved(c) PROVE LetGo(f)'
    BY <1>19
       DEF SkipSaved, SetWish, RowAnswered, Refused, rust, RowGoes, notes, LetGo,
           HeldBy, Skipped, Now, Prefs, Row
  <1>20. ASSUME NEW c \in File, SkipTaken(c) PROVE LetGo(f)'
    BY <1>20
       DEF SkipTaken, RowGoes, rust, notes, LetGo, HeldBy, Skipped, Now, Prefs, Row
  <1>21. ASSUME NEW c \in File, Unpins(c) PROVE LetGo(f)'
    BY <1>21
       DEF Unpins, RowFree, RowGoes, rust, LetGo, HeldBy, Skipped, Now, Prefs, Row
  <1>22. ASSUME NEW c \in File, PutBack(c) PROVE LetGo(f)'
    BY <1>22
       DEF PutBack, SetWish, RowAnswered, Refused, rust, RowFree, LetBe, LetGo,
           HeldBy, Skipped, Now, Prefs, Row
  <1>23. ASSUME NEW c \in File, RestoreTaken(c) PROVE LetGo(f)'
    BY <1>23
       DEF RestoreTaken, RowFree, rust, notes, LetGo, HeldBy, Skipped, Now, Prefs,
           Row
  <1>24. CASE MigrateRead \/ BulkBegins \/ BulkStops \/ Asks \/ AskTaken
                \/ PinsRead \/ PinsTaken
    BY <1>24
       DEF MigrateRead, screen, notes, BulkBegins, rust, BulkStops, Asks, AskTaken,
           PinsRead, PinsTaken, LetGo, HeldBy, Skipped, Now
  <1>25. ASSUME NEW c \in File,
                MissExpires(c) \/ Appears(c) \/ Recheck(c) \/ UndoEnds(c)
        PROVE LetGo(f)'
    BY <1>25
       DEF MissExpires, screen, notes, Appears, rust, Recheck, UndoEnds, LetGo,
           HeldBy, Skipped, Now
  <1> QED
    BY <1>1, <1>2, <1>3, <1>4, <1>5, <1>6, <1>7, <1>8, <1>9, <1>10,
       <1>11, <1>12, <1>13, <1>14, <1>15, <1>16, <1>17, <1>18, <1>19, <1>20,
       <1>21, <1>22, <1>23, <1>24, <1>25
       DEF KeepNext, WorkerStep, RowStep, ScreenStep

(* Nobody pins a file that no row keeps and no worker has. *)
LEMMA PinsLeft ==
  ASSUME NEW f \in File, work \in [Worker -> Turn], WorkersHold, Unpinned(f),
         RowLeaves(f), WorkLeaves(f), KeepNext
  PROVE  Unpinned(f)'
  <1>1. CASE MigrateRead
    BY <1>1
       DEF MigrateRead, screen, notes, Unpinned, RowLeaves, WorkLeaves, WorkersHold
  <1>2. CASE MigrateWrite
    BY <1>2
       DEF MigrateWrite, screen, notes, Unpinned, RowLeaves, WorkLeaves, WorkersHold
  <1>3. CASE AskRuns
    BY <1>3
       DEF AskRuns, AskState, rust, AskNone, SetWish, AskAuto, AskReset, AskFails,
           Unpinned, RowLeaves, WorkLeaves, WorkersHold
  <1>4. ASSUME NEW w \in Worker, PinAnswered(w) PROVE Unpinned(f)'
    BY <1>4
       DEF PinAnswered, Now, screen, notes, Unpinned, RowLeaves, WorkLeaves,
           WorkersHold
  <1>5. ASSUME NEW w \in Worker, TakeOff(w) PROVE Unpinned(f)'
    BY <1>5
       DEF TakeOff, Now, rust, screen, Unpinned, RowLeaves, WorkLeaves, WorkersHold
  <1>6. ASSUME NEW c \in File, KeepPins(c) PROVE Unpinned(f)'
    BY <1>6
       DEF KeepPins, Unpinned, RowLeaves, WorkLeaves, WorkersHold
  <1>7. ASSUME NEW c \in File, Unpins(c) PROVE Unpinned(f)'
    BY <1>7
       DEF Unpins, rust, Unpinned, RowLeaves, WorkLeaves, WorkersHold
  <1>8. ASSUME NEW c \in File, PutBack(c) PROVE Unpinned(f)'
    BY <1>8
       DEF PutBack, SetWish, Refused, rust, Unpinned, RowLeaves, WorkLeaves,
           WorkersHold
  <1>9. CASE Break \/ RoundBegins \/ HelpBegins \/ BulkBegins \/ BulkStops
                \/ Asks \/ BulkNext \/ AskTaken \/ PinsRead \/ PinsTaken
    BY <1>9
       DEF Break, RoundBegins, rust, HelpBegins, BulkBegins, BulkStops, Asks,
           BulkNext, AskTaken, PinsRead, PinsTaken, Unpinned
  <1>10. ASSUME NEW w \in Worker,
                RoundEnds(w) \/ LookAt(w) \/ Asked(w) \/ LookAgain(w)
        PROVE Unpinned(f)'
    BY <1>10
       DEF RoundEnds, rust, LookAt, Asked, LookAgain, Unpinned
  <1>11. ASSUME NEW c \in File,
                MissExpires(c) \/ Appears(c) \/ Tap(c) \/ Release(c) \/ Recheck(c)
                \/ UndoEnds(c) \/ KeepSaved(c) \/ KeepTaken(c) \/ KeepFinds(c)
                \/ SkipSaved(c) \/ SkipTaken(c) \/ RestoreTaken(c)
        PROVE Unpinned(f)'
    BY <1>11
       DEF MissExpires, Appears, rust, Tap, Release, Recheck, UndoEnds, KeepSaved,
           SetWish, Refused, KeepTaken, KeepFinds, SkipSaved, SkipTaken,
           RestoreTaken, Unpinned
  <1> QED
    BY <1>1, <1>2, <1>3, <1>4, <1>5, <1>6, <1>7, <1>8, <1>9, <1>10,
       <1>11
       DEF KeepNext, WorkerStep, RowStep, ScreenStep

(* A keep is written by its row, or made from a pin. *)
LEMMA KeepsLeft ==
  ASSUME NEW f \in File, saved \in Prefs, task \in [File -> Row],
         saved.dec[f] # "keep", RowLeaves(f), Unpinned(f), KeepNext
  PROVE  saved'.dec[f] # "keep"
  <1>1. CASE MigrateWrite
    <2>1. CASE saved' = saved
      BY <2>1
    <2>2. CASE saved' # saved
      <3>1. saved'.dec[f] = IF f \in listed[1] /\ saved.dec[f] = "none" THEN "keep" ELSE saved.dec[f]
        BY <1>1, <2>2 DEF MigrateWrite, Prefs
      <3>2. f \notin listed[1]
        BY <1>1 DEF MigrateWrite, Unpinned
      <3> QED
        BY <3>1, <3>2
    <2> QED
      BY <2>1, <2>2
  <1>2. CASE Break
    BY <1>2
       DEF Break, screen, notes, Prefs, RowLeaves, Unpinned, Row, Default, Damaged
  <1>3. CASE AskRuns
    <2>1. CASE AskState \/ AskFails
      BY <2>1 DEF AskState, AskFails, rust
    <2>2. CASE AskNone
      BY <2>2 DEF AskNone, SetWish, Prefs
    <2>3. CASE AskAuto
      BY <2>3 DEF AskAuto, Prefs
    <2>4. CASE AskReset
      BY <2>4 DEF AskReset, Default
    <2> QED
      BY <1>3, <2>1, <2>2, <2>3, <2>4 DEF AskRuns
  <1>4. ASSUME NEW c \in File, KeepSaved(c) PROVE saved'.dec[f] # "keep"
    BY <1>4
       DEF KeepSaved, SetWish, RowAnswered, Refused, rust, notes, Prefs, RowLeaves,
           Unpinned, Row, Default, Damaged
  <1>5. ASSUME NEW c \in File, SkipSaved(c) PROVE saved'.dec[f] # "keep"
    BY <1>5
       DEF SkipSaved, SetWish, RowAnswered, Refused, rust, notes, Prefs, RowLeaves,
           Unpinned, Row, Default, Damaged
  <1>6. ASSUME NEW c \in File, PutBack(c) PROVE saved'.dec[f] # "keep"
    BY <1>6
       DEF PutBack, SetWish, RowAnswered, Refused, rust, Prefs, RowLeaves, Unpinned,
           Row, Default, Damaged
  <1>7. CASE MigrateRead \/ RoundBegins \/ HelpBegins \/ BulkBegins \/ BulkStops
                \/ Asks \/ BulkNext \/ AskTaken \/ PinsRead \/ PinsTaken
    BY <1>7
       DEF MigrateRead, RoundBegins, rust, HelpBegins, BulkBegins, BulkStops, Asks,
           BulkNext, AskTaken, PinsRead, PinsTaken
  <1>8. ASSUME NEW w \in Worker,
                RoundEnds(w) \/ LookAt(w) \/ Asked(w) \/ PinAnswered(w)
                \/ LookAgain(w) \/ TakeOff(w)
        PROVE saved'.dec[f] # "keep"
    BY <1>8
       DEF RoundEnds, rust, LookAt, Asked, PinAnswered, LookAgain, TakeOff
  <1>9. ASSUME NEW c \in File,
                MissExpires(c) \/ Appears(c) \/ Tap(c) \/ Release(c) \/ Recheck(c)
                \/ UndoEnds(c) \/ KeepTaken(c) \/ KeepFinds(c) \/ KeepPins(c)
                \/ SkipTaken(c) \/ Unpins(c) \/ RestoreTaken(c)
        PROVE saved'.dec[f] # "keep"
    BY <1>9
       DEF MissExpires, Appears, rust, Tap, Release, Recheck, UndoEnds, KeepTaken,
           KeepFinds, KeepPins, LetBe, SkipTaken, Unpins, RestoreTaken
  <1> QED
    BY <1>1, <1>2, <1>3, <1>4, <1>5, <1>6, <1>7, <1>8, <1>9
       DEF KeepNext, WorkerStep, RowStep, ScreenStep

(* The answers rows remember are made from the wishes ... *)
LEMMA AnswersLeft ==
  ASSUME NEW f \in File, task \in [File -> Row], saved' \in Prefs, bulk \in Bulk,
         saved'.dec[f] # "keep", \A d \in File : task[d].ans.dec[f] # "keep",
         KeepNext
  PROVE  \A d \in File : task'[d].ans.dec[f] # "keep"
  <1>1. CASE BulkNext
    <2>1. ASSUME NEW c \in bulk.rest, KeepBegins(c) PROVE \A d \in File : task'[d].ans.dec[f] # "keep"
      <3>1. c \in File
        BY DEF Bulk
      <3> QED
        BY <2>1, <3>1 DEF KeepBegins, Begun, Row, View, Default
    <2> QED
      BY <1>1, <2>1 DEF BulkNext, Default
  <1>2. ASSUME NEW c \in File, Tap(c) PROVE \A d \in File : task'[d].ans.dec[f] # "keep"
    BY <1>2
       DEF Tap, KeepBegins, Busy, Begun, rust, View, Row, Default, RowIdle
  <1>3. ASSUME NEW c \in File, Release(c) PROVE \A d \in File : task'[d].ans.dec[f] # "keep"
    BY <1>3
       DEF Release, Busy, Begun, rust, notes, View, Row, Default, RowIdle
  <1>4. ASSUME NEW c \in File, KeepSaved(c) PROVE \A d \in File : task'[d].ans.dec[f] # "keep"
    BY <1>4
       DEF KeepSaved, RowAnswered, rust, RowGoes, notes, View, Row, Default, RowIdle
  <1>5. ASSUME NEW c \in File, KeepTaken(c) PROVE \A d \in File : task'[d].ans.dec[f] # "keep"
    BY <1>5
       DEF KeepTaken, RowFree, RowGoes, rust, notes, View, Row, Default, RowIdle
  <1>6. ASSUME NEW c \in File, KeepFinds(c) PROVE \A d \in File : task'[d].ans.dec[f] # "keep"
    BY <1>6
       DEF KeepFinds, RowGoes, RowFree, rust, notes, View, Row, Default, RowIdle
  <1>7. ASSUME NEW c \in File, KeepPins(c) PROVE \A d \in File : task'[d].ans.dec[f] # "keep"
    BY <1>7
       DEF KeepPins, RowFree, RowGoes, View, Row, Default, RowIdle
  <1>8. ASSUME NEW c \in File, SkipSaved(c) PROVE \A d \in File : task'[d].ans.dec[f] # "keep"
    BY <1>8
       DEF SkipSaved, RowAnswered, rust, RowGoes, notes, View, Row, Default, RowIdle
  <1>9. ASSUME NEW c \in File, SkipTaken(c) PROVE \A d \in File : task'[d].ans.dec[f] # "keep"
    BY <1>9
       DEF SkipTaken, RowGoes, rust, notes, View, Row, Default, RowIdle
  <1>10. ASSUME NEW c \in File, Unpins(c) PROVE \A d \in File : task'[d].ans.dec[f] # "keep"
    BY <1>10
       DEF Unpins, RowFree, RowGoes, rust, View, Row, Default, RowIdle
  <1>11. ASSUME NEW c \in File, PutBack(c) PROVE \A d \in File : task'[d].ans.dec[f] # "keep"
    <2>1. CASE RowAnswered(c, "restored")
      BY <2>1 DEF RowAnswered, View, Row
    <2>2. CASE RowFree(c)
      BY <2>2 DEF RowFree, RowIdle, View, Row, Default
    <2> QED
      BY <1>11, <2>1, <2>2 DEF PutBack
  <1>12. ASSUME NEW c \in File, RestoreTaken(c) PROVE \A d \in File : task'[d].ans.dec[f] # "keep"
    BY <1>12
       DEF RestoreTaken, RowFree, rust, notes, View, Row, Default, RowIdle
  <1>13. CASE MigrateRead \/ MigrateWrite \/ Break \/ RoundBegins \/ HelpBegins
                \/ BulkBegins \/ BulkStops \/ Asks \/ AskRuns \/ AskTaken
                \/ PinsRead \/ PinsTaken
    BY <1>13
       DEF MigrateRead, screen, MigrateWrite, Break, RoundBegins, HelpBegins,
           BulkBegins, BulkStops, Asks, AskRuns, AskTaken, PinsRead, PinsTaken
  <1>14. ASSUME NEW w \in Worker,
                RoundEnds(w) \/ LookAt(w) \/ Asked(w) \/ PinAnswered(w)
                \/ LookAgain(w) \/ TakeOff(w)
        PROVE \A d \in File : task'[d].ans.dec[f] # "keep"
    BY <1>14
       DEF RoundEnds, screen, LookAt, Asked, PinAnswered, LookAgain, TakeOff
  <1>15. ASSUME NEW c \in File,
                MissExpires(c) \/ Appears(c) \/ Recheck(c) \/ UndoEnds(c)
        PROVE \A d \in File : task'[d].ans.dec[f] # "keep"
    BY <1>15
       DEF MissExpires, screen, Appears, Recheck, UndoEnds
  <1> QED
    BY <1>1, <1>2, <1>3, <1>4, <1>5, <1>6, <1>7, <1>8, <1>9, <1>10,
       <1>11, <1>12, <1>13, <1>14, <1>15
       DEF KeepNext, WorkerStep, RowStep, ScreenStep

(* ... and so is the one of the bar ... *)
LEMMA BarLeft ==
  ASSUME NEW f \in File, ask \in Bar, saved' \in Prefs, saved'.dec[f] # "keep",
         ask.ans.dec[f] # "keep", KeepNext
  PROVE  ask'.ans.dec[f] # "keep"
  <1>1. CASE Asks
    BY <1>1
       DEF Asks, rust, notes, View, Bar, Default, Quiet
  <1>2. CASE AskRuns
    <2>1. CASE Answered
      BY <2>1 DEF Answered, View, Bar
    <2>2. CASE ask' = [ask EXCEPT !.kind = "state"]
      BY <2>2 DEF Bar
    <2>3. CASE ask' = Quiet
      BY <2>3 DEF Quiet, View, Default
    <2> QED
      BY <1>2, <2>1, <2>2, <2>3 DEF AskRuns, AskState, AskNone, AskAuto, AskReset, AskFails
  <1>3. CASE AskTaken
    BY <1>3
       DEF AskTaken, rust, notes, View, Bar, Default, Quiet
  <1>4. CASE MigrateRead \/ MigrateWrite \/ Break \/ RoundBegins \/ HelpBegins
                \/ BulkBegins \/ BulkStops \/ BulkNext \/ PinsRead \/ PinsTaken
    BY <1>4
       DEF MigrateRead, screen, MigrateWrite, Break, RoundBegins, HelpBegins,
           BulkBegins, BulkStops, BulkNext, PinsRead, PinsTaken
  <1>5. ASSUME NEW w \in Worker,
                RoundEnds(w) \/ LookAt(w) \/ Asked(w) \/ PinAnswered(w)
                \/ LookAgain(w) \/ TakeOff(w)
        PROVE ask'.ans.dec[f] # "keep"
    BY <1>5
       DEF RoundEnds, screen, LookAt, Asked, PinAnswered, LookAgain, TakeOff
  <1>6. ASSUME NEW c \in File,
                MissExpires(c) \/ Appears(c) \/ Tap(c) \/ Release(c) \/ Recheck(c)
                \/ UndoEnds(c) \/ KeepSaved(c) \/ KeepTaken(c) \/ KeepFinds(c)
                \/ KeepPins(c) \/ SkipSaved(c) \/ SkipTaken(c) \/ Unpins(c)
                \/ PutBack(c) \/ RestoreTaken(c)
        PROVE ask'.ans.dec[f] # "keep"
    BY <1>6
       DEF MissExpires, screen, Appears, Tap, Release, Recheck, UndoEnds, KeepSaved,
           KeepTaken, KeepFinds, KeepPins, SkipSaved, SkipTaken, Unpins, PutBack,
           RestoreTaken
  <1> QED
    BY <1>1, <1>2, <1>3, <1>4, <1>5, <1>6
       DEF KeepNext, WorkerStep, RowStep, ScreenStep

(* ... and the screen takes these and no others. *)
LEMMA PrefsLeft ==
  ASSUME NEW f \in File, prefs.dec[f] # "keep", ask.ans.dec[f] # "keep",
         \A d \in File : task[d].ans.dec[f] # "keep", KeepNext
  PROVE  prefs'.dec[f] # "keep"
  <1>1. CASE AskTaken
    BY <1>1
       DEF AskTaken, rust, notes
  <1>2. ASSUME NEW c \in File, KeepTaken(c) PROVE prefs'.dec[f] # "keep"
    BY <1>2
       DEF KeepTaken, rust, notes
  <1>3. ASSUME NEW c \in File, SkipTaken(c) PROVE prefs'.dec[f] # "keep"
    BY <1>3
       DEF SkipTaken, rust, notes
  <1>4. ASSUME NEW c \in File, RestoreTaken(c) PROVE prefs'.dec[f] # "keep"
    BY <1>4
       DEF RestoreTaken, rust, notes
  <1>5. CASE MigrateRead \/ MigrateWrite \/ Break \/ RoundBegins \/ HelpBegins
                \/ BulkBegins \/ BulkStops \/ Asks \/ BulkNext \/ AskRuns
                \/ PinsRead \/ PinsTaken
    BY <1>5
       DEF MigrateRead, screen, MigrateWrite, Break, RoundBegins, HelpBegins,
           BulkBegins, BulkStops, Asks, BulkNext, AskRuns, PinsRead, PinsTaken
  <1>6. ASSUME NEW w \in Worker,
                RoundEnds(w) \/ LookAt(w) \/ Asked(w) \/ PinAnswered(w)
                \/ LookAgain(w) \/ TakeOff(w)
        PROVE prefs'.dec[f] # "keep"
    BY <1>6
       DEF RoundEnds, screen, LookAt, Asked, PinAnswered, LookAgain, TakeOff
  <1>7. ASSUME NEW c \in File,
                MissExpires(c) \/ Appears(c) \/ Tap(c) \/ Release(c) \/ Recheck(c)
                \/ UndoEnds(c) \/ KeepSaved(c) \/ KeepFinds(c) \/ KeepPins(c)
                \/ SkipSaved(c) \/ Unpins(c) \/ PutBack(c)
        PROVE prefs'.dec[f] # "keep"
    BY <1>7
       DEF MissExpires, screen, Appears, Tap, Release, Recheck, UndoEnds, KeepSaved,
           KeepFinds, KeepPins, SkipSaved, Unpins, PutBack
  <1> QED
    BY <1>1, <1>2, <1>3, <1>4, <1>5, <1>6, <1>7
       DEF KeepNext, WorkerStep, RowStep, ScreenStep

(* A row that begins to keep a file asks for it. *)
LEMMA RowLeft ==
  ASSUME NEW f \in File, task \in [File -> Row], bulk \in Bulk, RowLeaves(f),
         prefs.dec[f] # "keep", f \notin wanted', KeepNext
  PROVE  RowLeaves(f)'
  <1>1. CASE BulkNext
    <2>1. ASSUME NEW c \in bulk.rest, KeepBegins(c) PROVE RowLeaves(f)'
      <3>1. c \in File
        BY DEF Bulk
      <3> QED
        BY <2>1, <3>1 DEF KeepBegins, Begun, Row, RowLeaves
    <2> QED
      BY <1>1, <2>1 DEF BulkNext, RowLeaves
  <1>2. ASSUME NEW c \in File, Tap(c) PROVE RowLeaves(f)'
    BY <1>2
       DEF Tap, KeepBegins, Busy, Begun, rust, RowLeaves, Row, RowIdle
  <1>3. ASSUME NEW c \in File, Release(c) PROVE RowLeaves(f)'
    BY <1>3
       DEF Release, Busy, Begun, rust, notes, RowLeaves, Row, RowIdle
  <1>4. ASSUME NEW c \in File, KeepSaved(c) PROVE RowLeaves(f)'
    BY <1>4
       DEF KeepSaved, RowAnswered, rust, RowGoes, notes, RowLeaves, Row, RowIdle
  <1>5. ASSUME NEW c \in File, KeepTaken(c) PROVE RowLeaves(f)'
    BY <1>5
       DEF KeepTaken, RowFree, RowGoes, rust, notes, RowLeaves, Row, RowIdle
  <1>6. ASSUME NEW c \in File, KeepFinds(c) PROVE RowLeaves(f)'
    BY <1>6
       DEF KeepFinds, RowGoes, RowFree, rust, notes, RowLeaves, Row, RowIdle
  <1>7. ASSUME NEW c \in File, KeepPins(c) PROVE RowLeaves(f)'
    BY <1>7
       DEF KeepPins, RowFree, RowGoes, RowLeaves, Row, RowIdle
  <1>8. ASSUME NEW c \in File, SkipSaved(c) PROVE RowLeaves(f)'
    BY <1>8
       DEF SkipSaved, RowAnswered, rust, RowGoes, notes, RowLeaves, Row, RowIdle
  <1>9. ASSUME NEW c \in File, SkipTaken(c) PROVE RowLeaves(f)'
    BY <1>9
       DEF SkipTaken, RowGoes, rust, notes, RowLeaves, Row, RowIdle
  <1>10. ASSUME NEW c \in File, Unpins(c) PROVE RowLeaves(f)'
    BY <1>10
       DEF Unpins, RowFree, RowGoes, rust, RowLeaves, Row, RowIdle
  <1>11. ASSUME NEW c \in File, PutBack(c) PROVE RowLeaves(f)'
    BY <1>11
       DEF PutBack, RowAnswered, rust, RowFree, RowLeaves, Row, RowIdle
  <1>12. ASSUME NEW c \in File, RestoreTaken(c) PROVE RowLeaves(f)'
    BY <1>12
       DEF RestoreTaken, RowFree, rust, notes, RowLeaves, Row, RowIdle
  <1>13. CASE MigrateRead \/ MigrateWrite \/ Break \/ RoundBegins \/ HelpBegins
                \/ BulkBegins \/ BulkStops \/ Asks \/ AskRuns \/ AskTaken
                \/ PinsRead \/ PinsTaken
    BY <1>13
       DEF MigrateRead, screen, MigrateWrite, Break, RoundBegins, HelpBegins,
           BulkBegins, BulkStops, Asks, AskRuns, AskTaken, PinsRead, PinsTaken,
           RowLeaves
  <1>14. ASSUME NEW w \in Worker,
                RoundEnds(w) \/ LookAt(w) \/ Asked(w) \/ PinAnswered(w)
                \/ LookAgain(w) \/ TakeOff(w)
        PROVE RowLeaves(f)'
    BY <1>14
       DEF RoundEnds, screen, LookAt, Asked, PinAnswered, LookAgain, TakeOff,
           RowLeaves
  <1>15. ASSUME NEW c \in File,
                MissExpires(c) \/ Appears(c) \/ Recheck(c) \/ UndoEnds(c)
        PROVE RowLeaves(f)'
    BY <1>15
       DEF MissExpires, screen, Appears, Recheck, UndoEnds, RowLeaves
  <1> QED
    BY <1>1, <1>2, <1>3, <1>4, <1>5, <1>6, <1>7, <1>8, <1>9, <1>10,
       <1>11, <1>12, <1>13, <1>14, <1>15
       DEF KeepNext, WorkerStep, RowStep, ScreenStep

(* A worker takes up what is allowed or asked of it. *)
LEMMA WorkLeft ==
  ASSUME NEW f \in File, work \in [Worker -> Turn], WorkLeaves(f),
         saved.dec[f] # "keep", f \notin Mine, f \notin wanted', KeepNext
  PROVE  WorkLeaves(f)'
  <1>1. CASE RoundBegins
    BY <1>1, FirstAre, AKAssumption
       DEF RoundBegins, AutoAllowed, rust, screen, notes, WorkLeaves, Now, Turn,
           Worker
  <1>2. CASE HelpBegins
    BY <1>2, FirstAre, AKAssumption
       DEF HelpBegins, rust, screen, WorkLeaves, Now, Turn, Worker
  <1>3. ASSUME NEW w \in Worker, RoundEnds(w) PROVE WorkLeaves(f)'
    BY <1>3, AKAssumption
       DEF RoundEnds, Resting, rust, screen, notes, WorkLeaves, Now, Turn, Worker
  <1>4. ASSUME NEW w \in Worker, LookAt(w) PROVE WorkLeaves(f)'
    <2>1. PICK c \in work[w].todo : \/ Drop(w, c)
                                 \/ work' = [work EXCEPT ![w].at = "ask", ![w].now = c]
      BY <1>4 DEF LookAt
    <2>2. c # f
      BY <2>1 DEF WorkLeaves
    <2>3. CASE Drop(w, c)
      BY <2>3, AKAssumption DEF Drop, WorkLeaves, Now, Turn
    <2>4. CASE work' = [work EXCEPT ![w].at = "ask", ![w].now = c]
      BY <2>2, <2>4 DEF WorkLeaves, Now, Turn
    <2> QED
      BY <2>1, <2>3, <2>4
  <1>5. ASSUME NEW w \in Worker, Asked(w) PROVE WorkLeaves(f)'
    BY <1>5, AKAssumption
       DEF Asked, Now, Drop, Goes, screen, notes, WorkLeaves, Turn, Worker
  <1>6. ASSUME NEW w \in Worker, PinAnswered(w) PROVE WorkLeaves(f)'
    BY <1>6, AKAssumption
       DEF PinAnswered, Now, Goes, Drop, screen, notes, WorkLeaves, Turn, Worker
  <1>7. ASSUME NEW w \in Worker, LookAgain(w) PROVE WorkLeaves(f)'
    BY <1>7, AKAssumption
       DEF LookAgain, Now, Goes, Drop, rust, screen, notes, WorkLeaves, Turn, Worker
  <1>8. ASSUME NEW w \in Worker, TakeOff(w) PROVE WorkLeaves(f)'
    BY <1>8, AKAssumption
       DEF TakeOff, Drop, Now, rust, screen, WorkLeaves, Turn, Worker
  <1>9. CASE MigrateRead \/ MigrateWrite \/ Break \/ BulkBegins \/ BulkStops
                \/ Asks \/ BulkNext \/ AskRuns \/ AskTaken \/ PinsRead \/ PinsTaken
    BY <1>9
       DEF MigrateRead, MigrateWrite, Break, BulkBegins, BulkStops, Asks, BulkNext,
           AskRuns, AskTaken, PinsRead, PinsTaken, WorkLeaves, Now
  <1>10. ASSUME NEW c \in File,
                MissExpires(c) \/ Appears(c) \/ Tap(c) \/ Release(c) \/ Recheck(c)
                \/ UndoEnds(c) \/ KeepSaved(c) \/ KeepTaken(c) \/ KeepFinds(c)
                \/ KeepPins(c) \/ SkipSaved(c) \/ SkipTaken(c) \/ Unpins(c)
                \/ PutBack(c) \/ RestoreTaken(c)
        PROVE WorkLeaves(f)'
    BY <1>10
       DEF MissExpires, Appears, Tap, Release, Recheck, UndoEnds, KeepSaved,
           KeepTaken, KeepFinds, KeepPins, SkipSaved, SkipTaken, Unpins, PutBack,
           RestoreTaken, WorkLeaves, Now
  <1> QED
    BY <1>1, <1>2, <1>3, <1>4, <1>5, <1>6, <1>7, <1>8, <1>9, <1>10
       DEF KeepNext, WorkerStep, RowStep, ScreenStep

(* What was asked for stays asked for. *)
LEMMA WantedStays ==
  ASSUME KeepNext
  PROVE  wanted \subseteq wanted'
  <1>1. CASE HelpBegins
    BY <1>1
       DEF HelpBegins, rust, screen
  <1>2. CASE BulkNext
    BY <1>2
       DEF BulkNext, Busy, NoBulk, KeepBegins, Begun, rust
  <1>3. ASSUME NEW c \in File, Tap(c) PROVE wanted \subseteq wanted'
    BY <1>3
       DEF Tap, KeepBegins, Busy, Begun, rust
  <1>4. CASE MigrateRead \/ MigrateWrite \/ Break \/ RoundBegins \/ BulkBegins
                \/ BulkStops \/ Asks \/ AskRuns \/ AskTaken \/ PinsRead \/ PinsTaken
    BY <1>4
       DEF MigrateRead, notes, MigrateWrite, Break, RoundBegins, BulkBegins,
           BulkStops, Asks, AskRuns, AskTaken, PinsRead, PinsTaken
  <1>5. ASSUME NEW w \in Worker,
                RoundEnds(w) \/ LookAt(w) \/ Asked(w) \/ PinAnswered(w)
                \/ LookAgain(w) \/ TakeOff(w)
        PROVE wanted \subseteq wanted'
    BY <1>5
       DEF RoundEnds, notes, LookAt, Asked, PinAnswered, LookAgain, TakeOff
  <1>6. ASSUME NEW c \in File,
                MissExpires(c) \/ Appears(c) \/ Release(c) \/ Recheck(c)
                \/ UndoEnds(c) \/ KeepSaved(c) \/ KeepTaken(c) \/ KeepFinds(c)
                \/ KeepPins(c) \/ SkipSaved(c) \/ SkipTaken(c) \/ Unpins(c)
                \/ PutBack(c) \/ RestoreTaken(c)
        PROVE wanted \subseteq wanted'
    BY <1>6
       DEF MissExpires, notes, Appears, Release, Recheck, UndoEnds, KeepSaved,
           KeepTaken, KeepFinds, KeepPins, SkipSaved, SkipTaken, Unpins, PutBack,
           RestoreTaken
  <1> QED
    BY <1>1, <1>2, <1>3, <1>4, <1>5, <1>6
       DEF KeepNext, WorkerStep, RowStep, ScreenStep


-----------------------------------------------------------------------------
(* The invariant of the files *)

LEMMA KeepInitInv == KeepInit => KeepIInv
  <1> SUFFICES ASSUME KeepInit PROVE KeepIInv
    OBVIOUS
  <1> USE AKAssumption DEF KeepInit
  <1>1. KeepTypeOK
    <2>1. View(Default) \in Answer
      BY Views
    <2>2. task \in [File -> Row] /\ work \in [Worker -> Turn]
      BY Views
    <2>3. health \in [File -> Health] /\ look \in Pins /\ listed \in Pins
      BY DEF Pins, Health
    <2> QED
      BY <2>1, <2>2, <2>3, Views DEF KeepTypeOK
  <1>2. WorkersHold
    BY DEF WorkersHold, Resting
  <1>3. SkipWins
    BY DEF SkipWins, Skipped, Default
  <1>4. UnaskedIsLeft
    BY DEF UnaskedIsLeft, Unasked, Unpinned, Unwished, RowLeaves, WorkLeaves, RowIdle,
           Quiet, Resting, Now, View, Default
  <1> QED
    BY <1>1, <1>2, <1>3, <1>4 DEF KeepIInv

LEMMA KeepTypeStep == KeepTypeOK /\ WorkersHold /\ KeepNext => KeepTypeOK' /\ WorkersHold'
  <1> SUFFICES ASSUME KeepTypeOK, WorkersHold, KeepNext PROVE KeepTypeOK' /\ WorkersHold'
    OBVIOUS
  <1> USE DEF KeepTypeOK
  <1>1. saved' \in Prefs /\ work' \in [Worker -> Turn] /\ WorkersHold'
    BY PrefsStep, TurnStep DEF Turns
  <1>2. task' \in [File -> Row] /\ bulk' \in Bulk /\ ask' \in Bar /\ prefs' \in Answer
    BY <1>1, RowsStep, BulkStep, BarStep, AnswerStep
  <1>3. shown' \subseteq File /\ look' \in Pins /\ listed' \in Pins
        /\ health' \in [File -> Health]
    BY ShownStep, ListedStep, HealthStep
  <1>4. FilesAre' /\ CountsAre'
    BY FilesStep, CountStep DEF FilesAre, CountsAre
  <1> QED
    BY <1>1, <1>2, <1>3, <1>4 DEF FilesAre, CountsAre

LEMMA SkipWinsStep == KeepTypeOK /\ WorkersHold /\ SkipWins /\ KeepNext => SkipWins'
  <1> SUFFICES ASSUME KeepTypeOK, WorkersHold, SkipWins, KeepNext, NEW f \in File
               PROVE  LetGo(f)'
    BY DEF SkipWins, LetGo
  <1>1. LetGo(f)
    BY DEF SkipWins, LetGo
  <1> QED
    BY <1>1, SkipStep DEF KeepTypeOK

LEMMA UnaskedStep == KeepTypeOK /\ WorkersHold /\ UnaskedIsLeft /\ KeepNext => UnaskedIsLeft'
  <1> SUFFICES ASSUME KeepTypeOK, WorkersHold, UnaskedIsLeft, KeepNext, NEW f \in Unasked'
               PROVE  Unpinned(f)' /\ Unwished(f)' /\ RowLeaves(f)' /\ WorkLeaves(f)'
    BY DEF UnaskedIsLeft
  <1>1. f \in File /\ f \notin Mine /\ f \notin wanted' /\ f \in Unasked
    BY WantedStays DEF Unasked
  <1>2. Unpinned(f) /\ Unwished(f) /\ RowLeaves(f) /\ WorkLeaves(f)
    BY <1>1 DEF UnaskedIsLeft
  <1>3. /\ saved \in Prefs /\ task \in [File -> Row] /\ work \in [Worker -> Turn]
        /\ bulk \in Bulk /\ ask \in Bar /\ saved' \in Prefs
    BY PrefsStep DEF KeepTypeOK
  <1>4. /\ saved.dec[f] # "keep" /\ prefs.dec[f] # "keep" /\ ask.ans.dec[f] # "keep"
        /\ \A d \in File : task[d].ans.dec[f] # "keep"
    BY <1>2 DEF Unwished
  <1>5. Unpinned(f)'
    BY <1>1, <1>2, <1>3, PinsLeft
  <1>6. saved'.dec[f] # "keep"
    BY <1>1, <1>2, <1>3, <1>4, KeepsLeft
  <1>7. \A d \in File : task'[d].ans.dec[f] # "keep"
    BY <1>1, <1>3, <1>4, <1>6, AnswersLeft
  <1>8. ask'.ans.dec[f] # "keep"
    BY <1>1, <1>3, <1>4, <1>6, BarLeft
  <1>9. prefs'.dec[f] # "keep"
    BY <1>1, <1>4, PrefsLeft
  <1>10. RowLeaves(f)'
    BY <1>1, <1>2, <1>3, <1>4, RowLeft
  <1>11. WorkLeaves(f)'
    BY <1>1, <1>2, <1>3, <1>4, WorkLeft
  <1> QED
    BY <1>5, <1>6, <1>7, <1>8, <1>9, <1>10, <1>11 DEF Unwished

LEMMA KeepStepInv == KeepIInv /\ [KeepNext]_keepVars => KeepIInv'
  <1> SUFFICES ASSUME KeepIInv, [KeepNext]_keepVars PROVE KeepIInv'
    OBVIOUS
  <1>1. CASE KeepNext
    BY <1>1, KeepTypeStep, SkipWinsStep, UnaskedStep DEF KeepIInv
  <1>2. CASE UNCHANGED keepVars
    <2> USE <1>2 DEF keepVars
    <2>1. KeepTypeOK' /\ WorkersHold'
      BY DEF KeepIInv, KeepTypeOK, WorkersHold, Now
    <2>2. SkipWins'
      BY DEF KeepIInv, SkipWins, Skipped, HeldBy, Now
    <2>3. UnaskedIsLeft'
      BY DEF KeepIInv, UnaskedIsLeft, Unasked, Unpinned, Unwished, RowLeaves, WorkLeaves, Now
    <2> QED
      BY <2>1, <2>2, <2>3 DEF KeepIInv
  <1> QED
    BY <1>1, <1>2

(* The wishes, the pins, the workers and the rows of the screen keep their types,
   for any files, faults and clicks (asset_keep.rs, peers.rs, asset-keep.ts). *)
THEOREM KeepTypeCorrect == KeepSpec => []KeepTypeOK
  <1>1. KeepIInv => KeepTypeOK
    BY DEF KeepIInv
  <1> QED
    BY <1>1, KeepInitInv, KeepStepInv, PTL DEF KeepSpec

(* A declined file is not pinned once the row and the workers have let go of it,
   but for the steps that leave it so (peers.rs: pin_these; asset-keep.ts: keepCid,
   unkeepCid). *)
THEOREM DeclinedIsLet == KeepSpec => []SkipWins
  <1>1. KeepIInv => SkipWins
    BY DEF KeepIInv
  <1> QED
    BY <1>1, KeepInitInv, KeepStepInv, PTL DEF KeepSpec

(* The file of an asset somebody sent is pinned only after somebody has asked for
   it, however the wishes are lost, reset and migrated (asset_keep.rs: auto_allowed,
   apply_migration; peers.rs: split_by_policy). *)
THEOREM PinnedIsAsked == KeepSpec => []ReceivedIsAsked
  <1>1. KeepIInv => ReceivedIsAsked
    BY DEF KeepIInv, KeepTypeOK, ReceivedIsAsked, UnaskedIsLeft, Unasked, Unpinned
  <1> QED
    BY <1>1, KeepInitInv, KeepStepInv, PTL DEF KeepSpec
=============================================================================
