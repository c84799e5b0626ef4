----------------------------- MODULE ShopProofs -----------------------------
(* Proofs about what the counter sells and about the developer's share of it,   *)
(* which have no state in common.  Of orders at the counter, for any orders,    *)
(* times and restarts: a hold outlives its quote, the slot goes to one order,   *)
(* and every paid order is one row of the ledger, save for the gaps the ghosts  *)
(* name.  Of the share, for any sales, refunds, callers, crashes and power      *)
(* losses: what leaves, what is written down and what a free lane means.        *)
EXTENDS ShopOrder, DevFee, Sums

-----------------------------------------------------------------------------
(* The inductive invariants, each on top of the types *)

(* An order is stamped when it begins, and the clock only goes forward. *)
Stamped ==
  \A o \in Order : began[o] <= now /\ (at[o] # "new" => began[o] >= 0)

(* An end in the table, or in its file, is the end of the quote. *)
UntilsAreEnds ==
  \A o \in Order : \A end \in {until[o], file.until[o]} :
    end # None => at[o] # "new" /\ end = QuoteEnd(o)

(* Only who was answered pays, and only what was paid is swept. *)
PaidWereOpen ==
  /\ \A o \in paid : at[o] = "open"
  /\ sold \subseteq paid
  /\ sweep.at # "idle" => sweep.o \in paid
  /\ desk.at # "idle" => desk.o \in paid

(* From the take to the sale an order that may still be paid in time holds its
   piece since it began; what the sweep is about to take was sold. *)
HoldsStand ==
  /\ sweep.at \in {"save", "row", "confirm", "commit"} => sweep.o \in sold
  /\ \A o \in Order \ (dropped \cup sold) :
       at[o] \in {"taken", "read", "filed", "quoted", "booked", "open"} /\ OnTime(o) =>
         holds[o] = began[o]

(* Of two holds of the slot the quote of one had run out before the other
   order began; a hold beside a booking that was paid in time has run out. *)
SlotsApart ==
  /\ \A o \in Order : book[o] # "none" => at[o] \in {"booked", "open", "refused"}
  /\ \A o, p \in Order : o # p /\ book[o] = "hold" /\ book[p] = "hold"
                          => QuoteEnd(o) <= began[p] \/ QuoteEnd(p) <= began[o]
  /\ \A o, p \in Order : o # p /\ book[o] = "paid" /\ book[p] = "hold" /\ o \notin late
                          => QuoteEnd(p) <= now
  /\ \A o, p \in Order : o # p /\ book[o] = "paid" /\ book[p] = "paid"
                          => o \in late \/ p \in late

(* Who asked for the slot has a booking, and a paid one once the sweep is done with
   him, unless a write of it failed. *)
Confirming(o) == sweep.o = o /\ sweep.at \in {"save", "row", "confirm"}
SlotsBooked ==
  /\ \A o \in Booker : at[o] \in {"booked", "open"} => book[o] # "none" \/ o \in unbooked
  /\ \A o \in sold \cap Booker :
       o \in unbooked \/ book[o] \in {"paid", "cancelled"} \/ Confirming(o)

(* An order nobody has filed yet is in no copy of pending.json. *)
Early(o) == at[o] \in {"new", "begun", "menu", "looked", "taken", "read"}
EarlyUnfiled ==
  \A o \in Order : Early(o) =>
    /\ o \notin pend /\ sales[o] = 0 /\ o \notin sweep.pend /\ o \notin desk.pend
    /\ \A p \in Order : o \notin seen[p]

(* One settles at a time; what is pending or about to be written was not
   written before, unless it came back. *)
RowsOnce ==
  /\ ~(sweep.at \in {"save", "row"} /\ desk.at # "idle")
  /\ \A w \in {sweep, desk} :
       /\ w.at \in {"save", "row"} => sales[w.o] = 0 \/ w.o \in returned
       /\ w.at = "save" => w.o \notin w.pend
       /\ w.at = "row" /\ w.o \in pend => w.o \in returned
  /\ \A o \in pend : sales[o] = 0 \/ o \in returned
  /\ \A o \in Order : sales[o] > 1 => o \in returned

(* An order that was filed is pending, in the ledger, being written or missed;
   one the table calls paid is past pending. *)
Entered(o)  == sales[o] >= 1 \/ o \in mislaid \cup aged \cup unwritten
InHand(o)   == \E w \in {sweep, desk} : w.o = o /\ w.at = "row"
RowsKept ==
  /\ \A o \in Order : at[o] \in {"filed", "quoted", "booked", "open"} =>
       o \in pend \/ Entered(o) \/ InHand(o)
  /\ \A o \in Order : state[o] = "paid" =>
       Entered(o) \/ (sweep.o = o /\ sweep.at \in {"save", "row"})
  /\ \A o \in Order : file.state[o] = "paid" => Entered(o)

(* While every hold is a real one and no payment came after a forgotten time, there
   is a piece for each order that holds one and may still be paid, and the pieces sold
   are gone from the shelf.  An order that was sold and still holds its piece is the
   one the sweep is about to take. *)
Reserved == {o \in Order : holds[o] # None /\ (now - holds[o] < Hold \/ o \in sold)}
Settled  == {o \in Order : holds[o] = None /\ o \in sold}
SoldIsSwept ==
  \A o \in sold : holds[o] # None =>
    /\ sweep.o = o /\ sweep.at \in {"save", "row", "confirm", "commit"}
    /\ \A p \in Order : began[p] - holds[o] < Hold
EnoughLeft ==
  ~mishap /\ dropped \cup overdue = {} =>
    /\ SoldIsSwept
    /\ Cardinality(Reserved) <= stock
    /\ stock + Cardinality(Settled) <= first

IInv == /\ TypeOK /\ Stamped /\ UntilsAreEnds /\ PaidWereOpen /\ HoldsStand /\ SlotsApart
        /\ SlotsBooked /\ EarlyUnfiled /\ RowsOnce /\ RowsKept /\ EnoughLeft

-----------------------------------------------------------------------------
LEMMA Constants ==
  /\ Quote \in Nat /\ Grace \in Nat /\ Hold \in Nat /\ MaxTime \in Nat
  /\ MaxStock \in Nat /\ MaxFaults \in Nat /\ Keep \in Nat /\ Quote + Grace < Hold
  /\ IsFiniteSet(Order) /\ None \notin Order /\ None = -1 /\ Booker \subseteq Order
  BY SOAssumption DEF None

(* Types *)
LEMMA TypeStep == TypeOK /\ [Next]_vars => TypeOK'
  <1> SUFFICES ASSUME TypeOK, [Next]_vars PROVE TypeOK'
    OBVIOUS
  <1> USE Constants
  <1>1. ASSUME NEW o \in Order, Begin(o) PROVE TypeOK'
    BY <1>1 DEF Begin, To, shelf, ghosts, others, rows, TypeOK
  <1>2. ASSUME NEW o \in Order, CopyMenu(o) PROVE TypeOK'
    BY <1>2 DEF CopyMenu, To, shelf, ghosts, others, rows, TypeOK
  <1>3. ASSUME NEW o \in Order, Look(o) PROVE TypeOK'
    BY <1>3 DEF Look, To, Lasting, ghosts, others, rows, TypeOK
  <1>4. ASSUME NEW o \in Order, Take(o) PROVE TypeOK'
    BY <1>4 DEF Take, To, others, rows, TypeOK
  <1>5. ASSUME NEW o \in Order, ReadPending(o) PROVE TypeOK'
    BY <1>5 DEF ReadPending, To, shelf, ghosts, others, rows, TypeOK
  <1>6. ASSUME NEW o \in Order, FilePending(o) PROVE TypeOK'
    BY <1>6 DEF FilePending, To, PendingSave, Fault, shelf, others, rows, TypeOK
  <1>7. ASSUME NEW o \in Order, Answer(o) PROVE TypeOK'
    BY <1>7 DEF Answer, PersistState, Fault, To, shelf, ghosts, rows, TypeOK
  <1>8. ASSUME NEW o \in Order, Pay(o) PROVE TypeOK'
    BY <1>8 DEF Pay, shelf, request, ghosts, others, rows, TypeOK
  <1>9. ASSUME NEW o \in Order, CancelBooking(o) PROVE TypeOK'
    BY <1>9 DEF CancelBooking, StoreBook, Fault, shelf, request, rows, TypeOK
  <1>10. ASSUME NEW o \in Order, Notice(o) PROVE TypeOK'
    BY <1>10 DEF Notice, Forgotten, shelf, request, others, rows, TypeOK
  <1>11. ASSUME NEW o \in Order, LedgerSweep(o) PROVE TypeOK'
    BY <1>11 DEF LedgerSweep, shelf, request, ghosts, rows, TypeOK
  <1>12. CASE Unpend
    <2>0. /\ UNCHANGED <<now, stock, disk, pub, holds, at, began, copy, seen, until, book, state>>
          /\ UNCHANGED <<file, paid, sales, first, sold, mishap, dropped, late,
                        unbooked, overdue, aged>>
      BY <1>12 DEF Unpend, shelf, request
    <2>1. ASSUME NEW ok \in BOOLEAN, SweepTakesOut(ok) PROVE TypeOK'
      BY <2>0, <2>1 DEF SweepTakesOut, TakeOut, Sweeps, PendingSave, Fault, TypeOK
    <2>2. ASSUME NEW ok \in BOOLEAN, DeskTakesOut(ok) PROVE TypeOK'
      BY <2>0, <2>2 DEF DeskTakesOut, TakeOut, PendingSave, Fault, Idle, TypeOK
    <2> QED
      BY <1>12, <2>1, <2>2 DEF Unpend
  <1>13. CASE WriteSale
    BY <1>13 DEF WriteSale, Append, Fault, Sweeps, Idle, shelf, request, ghosts, rows,
       TypeOK
  <1>14. CASE ConfirmBooking
    BY <1>14 DEF ConfirmBooking, StoreBook, Fault, Sweeps, shelf, request, rows, TypeOK
  <1>15. CASE Commit
    BY <1>15 DEF Commit, Fault, Sweeps, request, ghosts, rows, TypeOK
  <1>16. CASE Persist
    BY <1>16 DEF Persist, PersistState, Fault, Idle, shelf, request, ghosts, others,
       rows, TypeOK
  <1>17. CASE PublishRead
    BY <1>17 DEF PublishRead, request, ghosts, others, rows, TypeOK
  <1>18. CASE PublishWrite
    BY <1>18 DEF PublishWrite, request, others, rows, TypeOK
  <1>19. CASE Restart
    BY <1>19 DEF Restart, Fault, Idle, TypeOK
  <1>20. CASE Tick
    BY <1>20 DEF Tick, shelf, request, ghosts, others, rows, TypeOK
  <1>21. CASE UNCHANGED vars
    BY <1>21 DEF vars, shelf, request, ghosts, others, rows, TypeOK
  <1>22. ASSUME NEW o \in Order, SetUntil(o) PROVE TypeOK'
    BY <1>22 DEF SetUntil, To, QuoteEnd, shelf, ghosts, others, rows, TypeOK
  <1>23. ASSUME NEW o \in Order, BookSlot(o) PROVE TypeOK'
    BY <1>23 DEF BookSlot, StoreBook, Fault, To, shelf, rows, TypeOK
  <1> QED
    BY <1>1, <1>2, <1>3, <1>4, <1>5, <1>6, <1>7, <1>8, <1>9, <1>10, <1>11, <1>12, <1>13,
       <1>14, <1>15, <1>16, <1>17, <1>18, <1>19, <1>20, <1>21, <1>22, <1>23 DEF Next

(* The clock *)
LEMMA StampStep == TypeOK /\ Stamped /\ [Next]_vars => Stamped'
  <1> SUFFICES ASSUME TypeOK, Stamped, [Next]_vars PROVE Stamped'
    OBVIOUS
  <1> USE Constants
  <1>0. ASSUME UNCHANGED <<at, began, now>> PROVE Stamped'
    BY <1>0 DEF TypeOK, Stamped
  <1>1. ASSUME NEW o \in Order, Pay(o) \/ CancelBooking(o) \/ Notice(o) \/
     LedgerSweep(o) PROVE Stamped'
    BY <1>0, <1>1 DEF Pay, CancelBooking, Notice, Forgotten, LedgerSweep, shelf,
       request, ghosts, others, rows
  <1>2. CASE Unpend \/ WriteSale \/ ConfirmBooking \/ Commit \/ Persist \/ PublishRead
     \/ PublishWrite \/ UNCHANGED vars
    BY <1>0, <1>2 DEF Unpend, TakeOut, WriteSale, Append, Fault, ConfirmBooking, Commit,
       Persist, PersistState, PublishRead, PublishWrite, vars, shelf, request, ghosts,
       others, rows
  <1>3. ASSUME NEW o \in Order, Begin(o) PROVE Stamped'
    BY <1>3 DEF Begin, To, shelf, ghosts, others, rows, TypeOK, Stamped
  <1>4. ASSUME NEW o \in Order, CopyMenu(o) PROVE Stamped'
    BY <1>4 DEF CopyMenu, To, shelf, ghosts, others, rows, TypeOK, Stamped
  <1>5. ASSUME NEW o \in Order, Look(o) PROVE Stamped'
    BY <1>5 DEF Look, To, Lasting, ghosts, others, rows, TypeOK, Stamped
  <1>6. ASSUME NEW o \in Order, Take(o) PROVE Stamped'
    BY <1>6 DEF Take, To, others, rows, TypeOK, Stamped
  <1>7. ASSUME NEW o \in Order, ReadPending(o) PROVE Stamped'
    BY <1>7 DEF ReadPending, To, shelf, ghosts, others, rows, TypeOK, Stamped
  <1>8. ASSUME NEW o \in Order, FilePending(o) PROVE Stamped'
    BY <1>8 DEF FilePending, To, PendingSave, Fault, shelf, others, rows, TypeOK,
       Stamped
  <1>9. ASSUME NEW o \in Order, Answer(o) PROVE Stamped'
    BY <1>9 DEF Answer, PersistState, Fault, To, shelf, ghosts, others, rows, TypeOK,
       Stamped
  <1>10. CASE Restart
    BY <1>10 DEF Restart, Fault, Idle, TypeOK, Stamped
  <1>11. CASE Tick
    BY <1>11 DEF Tick, shelf, request, ghosts, others, rows, TypeOK, Stamped
  <1>12. ASSUME NEW o \in Order, SetUntil(o) PROVE Stamped'
    BY <1>12 DEF SetUntil, To, shelf, ghosts, others, rows, TypeOK, Stamped
  <1>13. ASSUME NEW o \in Order, BookSlot(o) PROVE Stamped'
    BY <1>13 DEF BookSlot, To, shelf, rows, TypeOK, Stamped
  <1> QED
    BY <1>1, <1>2, <1>3, <1>4, <1>5, <1>6, <1>7, <1>8, <1>9, <1>10, <1>11, <1>12, <1>13 DEF
       Next

(* The ends of the quotes *)
LEMMA UntilStep ==
  TypeOK /\ Stamped /\ UntilsAreEnds /\ [Next]_vars => UntilsAreEnds'
  <1> SUFFICES ASSUME TypeOK, Stamped, UntilsAreEnds, [Next]_vars PROVE UntilsAreEnds'
    OBVIOUS
  <1> USE Constants
  <1>0. ASSUME UNCHANGED <<began, until, file>>, \A o \in Order : at[o] # "new" =>
     at'[o] # "new"
        PROVE  UntilsAreEnds'
    BY <1>0 DEF UntilsAreEnds, QuoteEnd
  <1>1. ASSUME NEW o \in Order, CopyMenu(o) \/ Look(o) \/ Take(o) \/ ReadPending(o) \/
     FilePending(o) \/ BookSlot(o) PROVE UntilsAreEnds'
    BY <1>0, <1>1 DEF CopyMenu, Look, Take, ReadPending, FilePending, BookSlot, To,
       shelf, ghosts,
       others, TypeOK
  <1>2. ASSUME NEW o \in Order, Pay(o) \/ CancelBooking(o) \/ Notice(o) \/
     LedgerSweep(o)
     PROVE UntilsAreEnds'
    BY <1>0, <1>2 DEF Pay, CancelBooking, Notice, LedgerSweep, shelf, request, ghosts,
       others
  <1>3. CASE Unpend \/ WriteSale \/ ConfirmBooking \/ Commit \/ PublishRead \/ PublishWrite
     \/ Tick \/ UNCHANGED vars
    BY <1>0, <1>3 DEF Unpend, WriteSale, ConfirmBooking, Commit, PublishRead,
       PublishWrite, Tick, vars, shelf, request, ghosts, others
  <1>4. ASSUME NEW o \in Order, Begin(o) PROVE UntilsAreEnds'
    BY <1>4 DEF Begin, To, UntilsAreEnds, QuoteEnd, TypeOK
  <1>5. ASSUME NEW o \in Order, SetUntil(o) PROVE UntilsAreEnds'
    BY <1>5 DEF SetUntil, To, UntilsAreEnds, QuoteEnd, TypeOK
  <1>6. ASSUME NEW o \in Order, Answer(o) PROVE UntilsAreEnds'
    BY <1>6 DEF Answer, PersistState, To, UntilsAreEnds, QuoteEnd, TypeOK
  <1>7. CASE Persist
    BY <1>7 DEF Persist, PersistState, request, UntilsAreEnds, QuoteEnd, TypeOK
  <1>8. CASE Restart
    BY <1>8 DEF Restart, UntilsAreEnds, QuoteEnd, TypeOK
  <1> QED
    BY <1>1, <1>2, <1>3, <1>4, <1>5, <1>6, <1>7, <1>8 DEF Next

(* Who pays and what is swept *)
LEMMA PaidStep == TypeOK /\ PaidWereOpen /\ [Next]_vars => PaidWereOpen'
  <1> SUFFICES ASSUME TypeOK, PaidWereOpen, [Next]_vars PROVE PaidWereOpen'
    OBVIOUS
  <1> USE Constants
  <1>0. ASSUME UNCHANGED <<at, paid, sold, sweep, desk>> PROVE PaidWereOpen'
    BY <1>0 DEF TypeOK, PaidWereOpen
  <1>1. ASSUME NEW o \in Order, CancelBooking(o) PROVE PaidWereOpen'
    BY <1>0, <1>1 DEF CancelBooking, shelf, request, ghosts, others, rows
  <1>2. CASE PublishRead \/ PublishWrite \/ Tick \/ UNCHANGED vars
    BY <1>0, <1>2 DEF PublishRead, PublishWrite, Tick, vars, shelf, request, ghosts,
       others, rows
  <1>3. ASSUME NEW o \in Order, Begin(o) PROVE PaidWereOpen'
    BY <1>3 DEF Begin, To, shelf, ghosts, others, rows, TypeOK, PaidWereOpen
  <1>4. ASSUME NEW o \in Order, CopyMenu(o) PROVE PaidWereOpen'
    BY <1>4 DEF CopyMenu, To, shelf, ghosts, others, rows, TypeOK, PaidWereOpen
  <1>5. ASSUME NEW o \in Order, Look(o) PROVE PaidWereOpen'
    BY <1>5 DEF Look, To, Lasting, ghosts, others, rows, TypeOK, PaidWereOpen
  <1>6. ASSUME NEW o \in Order, Take(o) PROVE PaidWereOpen'
    BY <1>6 DEF Take, To, others, rows, TypeOK, PaidWereOpen
  <1>7. ASSUME NEW o \in Order, ReadPending(o) PROVE PaidWereOpen'
    BY <1>7 DEF ReadPending, To, shelf, ghosts, others, rows, TypeOK, PaidWereOpen
  <1>8. ASSUME NEW o \in Order, FilePending(o) PROVE PaidWereOpen'
    BY <1>8 DEF FilePending, To, PendingSave, Fault, shelf, others, rows, TypeOK,
       PaidWereOpen
  <1>9. ASSUME NEW o \in Order, Answer(o) PROVE PaidWereOpen'
    BY <1>9 DEF Answer, PersistState, Fault, To, shelf, ghosts, others, rows, TypeOK,
       PaidWereOpen
  <1>10. ASSUME NEW o \in Order, Pay(o) PROVE PaidWereOpen'
    BY <1>10 DEF Pay, shelf, request, ghosts, others, rows, TypeOK, PaidWereOpen
  <1>11. ASSUME NEW o \in Order, Notice(o) PROVE PaidWereOpen'
    BY <1>11 DEF Notice, Forgotten, shelf, request, others, rows, TypeOK, PaidWereOpen
  <1>12. ASSUME NEW o \in Order, LedgerSweep(o) PROVE PaidWereOpen'
    BY <1>12 DEF LedgerSweep, shelf, request, ghosts, rows, TypeOK, PaidWereOpen
  <1>13. CASE Unpend
    <2>0. /\ UNCHANGED <<now, stock, disk, pub, holds, at, began, copy, seen, until, book, state>>
          /\ UNCHANGED <<file, paid, sales, first, sold, mishap, dropped, late,
                        unbooked, overdue, aged>>
      BY <1>13 DEF Unpend, shelf, request
    <2>1. ASSUME NEW ok \in BOOLEAN, SweepTakesOut(ok) PROVE PaidWereOpen'
      BY <2>0, <2>1 DEF SweepTakesOut, TakeOut, Sweeps, PendingSave, Fault, TypeOK,
         PaidWereOpen
    <2>2. ASSUME NEW ok \in BOOLEAN, DeskTakesOut(ok) PROVE PaidWereOpen'
      BY <2>0, <2>2 DEF DeskTakesOut, TakeOut, PendingSave, Fault, Idle, TypeOK,
         PaidWereOpen
    <2> QED
      BY <1>13, <2>1, <2>2 DEF Unpend
  <1>14. CASE WriteSale
    BY <1>14 DEF WriteSale, Append, Fault, Sweeps, Idle, shelf, request, ghosts, rows,
       TypeOK, PaidWereOpen
  <1>15. CASE ConfirmBooking
    BY <1>15 DEF ConfirmBooking, Sweeps, shelf, request, others, rows, TypeOK,
       PaidWereOpen
  <1>16. CASE Commit
    BY <1>16 DEF Commit, Sweeps, request, ghosts, others, rows, TypeOK, PaidWereOpen
  <1>17. CASE Persist
    BY <1>17 DEF Persist, PersistState, Fault, Idle, shelf, request, ghosts, others,
       rows, TypeOK, PaidWereOpen
  <1>18. CASE Restart
    BY <1>18 DEF Restart, Fault, Idle, TypeOK, PaidWereOpen
  <1>19. ASSUME NEW o \in Order, SetUntil(o) PROVE PaidWereOpen'
    BY <1>19 DEF SetUntil, To, shelf, ghosts, others, rows, TypeOK, PaidWereOpen
  <1>20. ASSUME NEW o \in Order, BookSlot(o) PROVE PaidWereOpen'
    BY <1>20 DEF BookSlot, To, shelf, rows, TypeOK, PaidWereOpen
  <1> QED
    BY <1>1, <1>2, <1>3, <1>4, <1>5, <1>6, <1>7, <1>8, <1>9, <1>10, <1>11, <1>12, <1>13,
       <1>14, <1>15, <1>16, <1>17, <1>18, <1>19, <1>20 DEF Next

(* The holds *)
LEMMA HoldsStep == TypeOK /\ Stamped /\ HoldsStand /\ [Next]_vars => HoldsStand'
  <1> SUFFICES ASSUME TypeOK, Stamped, HoldsStand, [Next]_vars PROVE HoldsStand'
    OBVIOUS
  <1> USE Constants
  <1>0. ASSUME UNCHANGED <<now, holds, at, began, sweep, sold, dropped>> PROVE
     HoldsStand'
    BY <1>0 DEF TypeOK, Stamped, HoldsStand, OnTime, QuoteEnd
  <1>1. ASSUME NEW o \in Order, Pay(o) \/ CancelBooking(o) \/ LedgerSweep(o) PROVE
     HoldsStand'
    BY <1>0, <1>1 DEF Pay, CancelBooking, LedgerSweep, shelf, request, ghosts, others,
       rows
  <1>2. CASE PublishRead \/ PublishWrite \/ UNCHANGED vars
    BY <1>0, <1>2 DEF PublishRead, PublishWrite, vars, shelf, request, ghosts, others,
       rows
  <1>3. ASSUME NEW o \in Order, Begin(o) PROVE HoldsStand'
    BY <1>3 DEF Begin, To, shelf, ghosts, others, rows, TypeOK, Stamped, HoldsStand,
       OnTime, QuoteEnd
  <1>4. ASSUME NEW o \in Order, CopyMenu(o) PROVE HoldsStand'
    BY <1>4 DEF CopyMenu, To, shelf, ghosts, others, rows, TypeOK, Stamped, HoldsStand,
       OnTime, QuoteEnd
  <1>5. ASSUME NEW o \in Order, Look(o) PROVE HoldsStand'
    BY <1>5 DEF Look, To, Lasting, ghosts, others, rows, TypeOK, Stamped, HoldsStand,
       OnTime, QuoteEnd
  <1>6. ASSUME NEW o \in Order, Take(o) PROVE HoldsStand'
    BY <1>6 DEF Take, To, others, rows, TypeOK, Stamped, HoldsStand, OnTime, QuoteEnd
  <1>7. ASSUME NEW o \in Order, ReadPending(o) PROVE HoldsStand'
    BY <1>7 DEF ReadPending, To, shelf, ghosts, others, rows, TypeOK, Stamped,
       HoldsStand, OnTime, QuoteEnd
  <1>8. ASSUME NEW o \in Order, FilePending(o) PROVE HoldsStand'
    BY <1>8 DEF FilePending, To, PendingSave, Fault, shelf, others, rows, TypeOK,
       Stamped, HoldsStand, OnTime, QuoteEnd
  <1>9. ASSUME NEW o \in Order, Answer(o) PROVE HoldsStand'
    BY <1>9 DEF Answer, PersistState, Fault, To, shelf, ghosts, others, rows, TypeOK,
       Stamped, HoldsStand, OnTime, QuoteEnd
  <1>10. ASSUME NEW o \in Order, Notice(o) PROVE HoldsStand'
    BY <1>10 DEF Notice, Forgotten, shelf, request, others, rows, TypeOK, Stamped,
       HoldsStand, OnTime, QuoteEnd
  <1>11. CASE Unpend
    BY <1>11 DEF Unpend, SweepTakesOut, DeskTakesOut, TakeOut, Sweeps, PendingSave,
       Fault, shelf, request, TypeOK, Stamped, HoldsStand, OnTime, QuoteEnd
  <1>12. CASE WriteSale
    BY <1>12 DEF WriteSale, Append, Fault, Sweeps, Idle, shelf, request, ghosts, rows,
       TypeOK, Stamped, HoldsStand, OnTime, QuoteEnd
  <1>13. CASE ConfirmBooking
    BY <1>13 DEF ConfirmBooking, Sweeps, shelf, request, others, rows, TypeOK, Stamped,
       HoldsStand, OnTime, QuoteEnd
  <1>14. CASE Commit
    BY <1>14 DEF Commit, Sweeps, request, ghosts, others, rows, TypeOK, Stamped,
       HoldsStand, OnTime, QuoteEnd
  <1>15. CASE Persist
    BY <1>15 DEF Persist, PersistState, Fault, Idle, shelf, request, ghosts, others,
       rows, TypeOK, Stamped, HoldsStand, OnTime, QuoteEnd
  <1>16. CASE Restart
    BY <1>16 DEF Restart, Fault, Idle, TypeOK, Stamped, HoldsStand, OnTime, QuoteEnd
  <1>17. CASE Tick
    BY <1>17 DEF Tick, shelf, request, ghosts, others, rows, TypeOK, Stamped,
       HoldsStand, OnTime, QuoteEnd
  <1>18. ASSUME NEW o \in Order, SetUntil(o) PROVE HoldsStand'
    BY <1>18 DEF SetUntil, To, shelf, ghosts, others, rows, TypeOK, Stamped, HoldsStand,
       OnTime, QuoteEnd
  <1>19. ASSUME NEW o \in Order, BookSlot(o) PROVE HoldsStand'
    BY <1>19 DEF BookSlot, To, shelf, rows, TypeOK, Stamped, HoldsStand,
       OnTime, QuoteEnd
  <1> QED
    BY <1>1, <1>2, <1>3, <1>4, <1>5, <1>6, <1>7, <1>8, <1>9, <1>10, <1>11, <1>12, <1>13,
       <1>14, <1>15, <1>16, <1>17, <1>18, <1>19 DEF Next

(* The slot *)
LEMMA SlotsStep == TypeOK /\ Stamped /\ SlotsApart /\ [Next]_vars => SlotsApart'
  <1> SUFFICES ASSUME TypeOK, Stamped, SlotsApart, [Next]_vars PROVE SlotsApart'
    OBVIOUS
  <1> USE Constants
  <1>0. ASSUME UNCHANGED <<now, began, book, late>>,
               \A p \in Order : at[p] \in {"booked", "open", "refused"} =>
                 at'[p] \in {"booked", "open", "refused"}
        PROVE  SlotsApart'
    BY <1>0 DEF TypeOK, Stamped, SlotsApart, QuoteEnd, HoldsSlot
  <1>1. ASSUME NEW o \in Order, Pay(o) \/ Notice(o) \/ LedgerSweep(o) PROVE SlotsApart'
    BY <1>0, <1>1 DEF Pay, Notice, LedgerSweep, shelf, request, ghosts, others
  <1>2. CASE Unpend \/ WriteSale \/ Commit \/ Persist \/ PublishRead \/ PublishWrite
     \/ UNCHANGED vars
    BY <1>0, <1>2 DEF Unpend, WriteSale, Commit, Persist, PublishRead, PublishWrite, vars,
       shelf, request, ghosts, others
  <1>3. ASSUME NEW o \in Order, Begin(o) PROVE SlotsApart'
    BY <1>3 DEF Begin, To, ghosts, TypeOK, SlotsApart, QuoteEnd
  <1>4. ASSUME NEW o \in Order, CopyMenu(o) \/ Look(o) \/ Take(o) \/ ReadPending(o) \/
     FilePending(o) \/ SetUntil(o) \/ Answer(o) PROVE SlotsApart'
    BY <1>0, <1>4 DEF CopyMenu, Look, Take, ReadPending, FilePending, SetUntil, Answer, To,
       shelf, ghosts, others, TypeOK
  <1>5. ASSUME book' = [p \in Order |-> "none"] PROVE SlotsApart'
    BY <1>5 DEF SlotsApart
  <1>6. ASSUME NEW o \in Order, BookSlot(o) PROVE SlotsApart'
    <2>0. UNCHANGED <<now, began, late>>
      BY <1>6 DEF BookSlot
    <2>1. CASE book' = book
      BY <1>0, <1>6, <2>0, <2>1 DEF BookSlot, To, TypeOK
    <2>2. CASE book' = [book EXCEPT ![o] = "hold"] /\ at' = [at EXCEPT ![o] = "booked"]
      <3>1. CASE book[o] # "none"
        BY <1>6, <3>1 DEF BookSlot, SlotsApart
      <3>2. CASE book[o] = "none" /\ \E p \in Order : HoldsSlot(p, began[o])
        BY <1>6, <2>2, <3>2 DEF BookSlot, To, StoreBook, TypeOK
      <3>3. CASE book[o] = "none" /\ ~\E p \in Order : HoldsSlot(p, began[o])
        BY <2>0, <2>2, <3>3 DEF TypeOK, Stamped, SlotsApart, QuoteEnd, HoldsSlot
      <3> QED
        BY <3>1, <3>2, <3>3
    <2> QED
      BY <1>5, <1>6, <2>1, <2>2 DEF BookSlot, StoreBook, To
  <1>7. ASSUME NEW o \in Order, CancelBooking(o) PROVE SlotsApart'
    <2>1. CASE book' = book
      BY <1>0, <1>7, <2>1 DEF CancelBooking, request
    <2>2. CASE book' = [book EXCEPT ![o] = "cancelled"]
      BY <1>7, <2>2 DEF CancelBooking, request, TypeOK, SlotsApart, QuoteEnd
    <2> QED
      BY <1>5, <1>7, <2>1, <2>2 DEF CancelBooking, StoreBook
  <1>8. CASE ConfirmBooking
    <2> DEFINE s == sweep.o
    <2>0. /\ UNCHANGED <<now, began, at>> /\ s \in Order
          /\ late' = late \/ (~HoldsSlot(s, now) /\ late' = late \union {s})
      BY <1>8 DEF ConfirmBooking, request, TypeOK
    <2>1. CASE book' = book
      BY <2>0, <2>1 DEF SlotsApart, QuoteEnd
    <2>2. CASE book' = [book EXCEPT ![s] = "paid"] /\ book[s] # "none"
      <3>1. CASE HoldsSlot(s, now)
        BY <2>0, <2>2, <3>1 DEF TypeOK, Stamped, SlotsApart, QuoteEnd, HoldsSlot
      <3>2. CASE late' = late \union {s}
        BY <2>0, <2>2, <3>2 DEF TypeOK, SlotsApart, QuoteEnd
      <3>3. HoldsSlot(s, now) \/ late' = late \union {s}
        BY <1>8, <2>2 DEF ConfirmBooking
      <3> QED
        BY <3>1, <3>2, <3>3
    <2> QED
      BY <1>5, <1>8, <2>1, <2>2 DEF ConfirmBooking, StoreBook
  <1>9. CASE Restart
    <2>1. CASE book' = book
      BY <1>0, <1>9, <2>1 DEF Restart, TypeOK
    <2> QED
      BY <1>5, <1>9, <2>1 DEF Restart
  <1>10. CASE Tick
    BY <1>10 DEF Tick, request, ghosts, TypeOK, SlotsApart, QuoteEnd
  <1> QED
    BY <1>1, <1>2, <1>3, <1>4, <1>6, <1>7, <1>8, <1>9, <1>10 DEF Next

(* Who has a booking *)
LEMMA BookedStep ==
  TypeOK /\ PaidWereOpen /\ SlotsApart /\ SlotsBooked /\ [Next]_vars => SlotsBooked'
  <1> SUFFICES ASSUME TypeOK, PaidWereOpen, SlotsApart, SlotsBooked, [Next]_vars
      PROVE SlotsBooked'
    OBVIOUS
  <1> USE Constants
  <1>0. ASSUME UNCHANGED <<book, unbooked, sold>>,
               \A o \in Order : Confirming(o) => Confirming(o)',
               \A o \in Order : at'[o] \in {"booked", "open"} => at[o] \in {"booked", "open"}
        PROVE  SlotsBooked'
    BY <1>0 DEF SlotsBooked, TypeOK
  <1>1. ASSUME NEW o \in Order, Begin(o) \/ CopyMenu(o) \/ Look(o) \/ Take(o) \/
     ReadPending(o) \/ FilePending(o) \/ SetUntil(o) \/ Answer(o)
        PROVE  SlotsBooked'
    BY <1>0, <1>1 DEF Begin, CopyMenu, Look, Take, ReadPending, FilePending, SetUntil,
       Answer, To, others, shelf, ghosts, Confirming, TypeOK
  <1>2. ASSUME NEW o \in Order, Pay(o) \/ LedgerSweep(o) PROVE SlotsBooked'
    BY <1>0, <1>2 DEF Pay, LedgerSweep, shelf, request, ghosts, others, Confirming
  <1>3. CASE PublishRead \/ PublishWrite \/ Tick \/ UNCHANGED vars
    BY <1>0, <1>3 DEF PublishRead, PublishWrite, Tick, vars, shelf, request, ghosts, others,
       Confirming
  <1>4. CASE Unpend
    BY <1>0, <1>4 DEF Unpend, SweepTakesOut, DeskTakesOut, TakeOut, Sweeps, shelf, request,
       Confirming, TypeOK
  <1>5. CASE WriteSale
    BY <1>0, <1>5 DEF WriteSale, Append, Sweeps, shelf, request, Confirming, TypeOK
  <1>6. CASE Commit \/ Persist
    BY <1>0, <1>6 DEF Commit, Persist, Sweeps, Idle, shelf, request, ghosts, Confirming,
       TypeOK
  <1>7. ASSUME NEW o \in Order, Notice(o) PROVE SlotsBooked'
    BY <1>7 DEF Notice, Confirming, PaidWereOpen, shelf, request, SlotsBooked, TypeOK
  <1>8. ASSUME NEW o \in Order, BookSlot(o) PROVE SlotsBooked'
    <2>1. /\ sold' = sold /\ sweep' = sweep /\ unbooked \subseteq unbooked'
          /\ \A p \in Order \ {o} : at'[p] = at[p]
          /\ \A p \in Order \ {o} : book'[p] = book[p] \/ p \in unbooked'
          /\ o \notin sold
      BY <1>8 DEF BookSlot, To, StoreBook, PaidWereOpen, TypeOK
    <2>2. o \in Booker /\ at'[o] \in {"booked", "open"} => book'[o] # "none" \/ o \in unbooked'
      BY <1>8 DEF BookSlot, To, StoreBook, TypeOK
    <2> QED
      BY <2>1, <2>2 DEF SlotsBooked, Confirming
  <1>9. ASSUME NEW o \in Order, CancelBooking(o) PROVE SlotsBooked'
    <2>1. /\ UNCHANGED <<sold, sweep, at>> /\ unbooked \subseteq unbooked'
          /\ \A p \in Order \ {o} : book'[p] = book[p] \/ p \in unbooked'
          /\ book'[o] = "cancelled" \/ o \in unbooked'
      BY <1>9 DEF CancelBooking, StoreBook, request, TypeOK
    <2> QED
      BY <2>1 DEF SlotsBooked, Confirming
  <1>10. CASE ConfirmBooking
    <2> DEFINE s == sweep.o
    <2>1. /\ UNCHANGED <<sold, at>> /\ unbooked \subseteq unbooked' /\ s \in Order
          /\ \A p \in Order \ {s} : book'[p] = book[p] \/ p \in unbooked'
          /\ \A p \in Order \ {s} : ~Confirming(p)
      BY <1>10 DEF ConfirmBooking, StoreBook, request, Confirming, TypeOK
    <2>2. s \in Booker => book'[s] = "paid" \/ s \in unbooked'
      BY <1>10 DEF ConfirmBooking, StoreBook, PaidWereOpen, SlotsBooked, TypeOK
    <2> QED
      BY <2>1, <2>2 DEF SlotsBooked
  <1>11. CASE Restart
    <2>1. /\ sold' = sold /\ unbooked \subseteq unbooked'
          /\ \A p \in Order : book'[p] = book[p] \/ p \in unbooked'
          /\ \A p \in Order : Confirming(p) => p \in unbooked'
          /\ \A p \in Order : at'[p] \in {"booked", "open"} => at[p] = "open"
      BY <1>11 DEF Restart, Confirming, TypeOK
    <2> QED
      BY <2>1 DEF SlotsBooked
  <1> QED
    BY <1>1, <1>2, <1>3, <1>4, <1>5, <1>6, <1>7, <1>8, <1>9, <1>10, <1>11 DEF Next

(* Orders not filed yet *)
LEMMA EarlyStep ==
  TypeOK /\ PaidWereOpen /\ EarlyUnfiled /\ [Next]_vars
    => EarlyUnfiled'
  <1> SUFFICES ASSUME TypeOK, PaidWereOpen, EarlyUnfiled, [Next]_vars PROVE
     EarlyUnfiled'
    OBVIOUS
  <1> USE Constants
  <1>0. ASSUME UNCHANGED <<at, pend, sales, sweep, desk, seen>> PROVE EarlyUnfiled'
    BY <1>0 DEF TypeOK, PaidWereOpen, EarlyUnfiled, Early
  <1>1. ASSUME NEW o \in Order, Pay(o) \/ CancelBooking(o) PROVE EarlyUnfiled'
    BY <1>0, <1>1 DEF Pay, CancelBooking, shelf, request, ghosts, others, rows
  <1>2. CASE PublishRead \/ PublishWrite \/ Tick \/ UNCHANGED vars
    BY <1>0, <1>2 DEF PublishRead, PublishWrite, Tick, vars, shelf, request, ghosts,
       others, rows
  <1>3. ASSUME NEW o \in Order, Begin(o) PROVE EarlyUnfiled'
    BY <1>3 DEF Begin, To, shelf, ghosts, others, rows, TypeOK, PaidWereOpen,
       EarlyUnfiled, Early
  <1>4. ASSUME NEW o \in Order, CopyMenu(o) PROVE EarlyUnfiled'
    BY <1>4 DEF CopyMenu, To, shelf, ghosts, others, rows, TypeOK, PaidWereOpen,
       EarlyUnfiled, Early
  <1>5. ASSUME NEW o \in Order, Look(o) PROVE EarlyUnfiled'
    BY <1>5 DEF Look, To, Lasting, ghosts, others, rows, TypeOK, PaidWereOpen,
       EarlyUnfiled, Early
  <1>6. ASSUME NEW o \in Order, Take(o) PROVE EarlyUnfiled'
    BY <1>6 DEF Take, To, others, rows, TypeOK, PaidWereOpen, EarlyUnfiled, Early
  <1>7. ASSUME NEW o \in Order, ReadPending(o) PROVE EarlyUnfiled'
    BY <1>7 DEF ReadPending, To, shelf, ghosts, others, rows, TypeOK, PaidWereOpen,
       EarlyUnfiled, Early
  <1>8. ASSUME NEW o \in Order, FilePending(o) PROVE EarlyUnfiled'
    BY <1>8 DEF FilePending, To, PendingSave, Fault, shelf, others, rows, TypeOK,
       PaidWereOpen, EarlyUnfiled, Early
  <1>9. ASSUME NEW o \in Order, Answer(o) PROVE EarlyUnfiled'
    BY <1>9 DEF Answer, PersistState, Fault, To, shelf, ghosts, others, rows, TypeOK,
       PaidWereOpen, EarlyUnfiled, Early
  <1>10. ASSUME NEW o \in Order, Notice(o) PROVE EarlyUnfiled'
    BY <1>10 DEF Notice, Forgotten, shelf, request, others, rows, TypeOK, PaidWereOpen,
       EarlyUnfiled, Early
  <1>11. ASSUME NEW o \in Order, LedgerSweep(o) PROVE EarlyUnfiled'
    BY <1>11 DEF LedgerSweep, shelf, request, ghosts, rows, TypeOK, PaidWereOpen,
       EarlyUnfiled, Early
  <1>12. CASE Unpend
    <2>0. /\ UNCHANGED <<now, stock, disk, pub, holds, at, began, copy, seen, until, book, state>>
          /\ UNCHANGED <<file, paid, sales, first, sold, mishap, dropped, late,
                        unbooked, overdue, aged>>
      BY <1>12 DEF Unpend, shelf, request
    <2>1. ASSUME NEW ok \in BOOLEAN, SweepTakesOut(ok) PROVE EarlyUnfiled'
      BY <2>0, <2>1 DEF SweepTakesOut, TakeOut, Sweeps, PendingSave, Fault, TypeOK,
         PaidWereOpen, EarlyUnfiled, Early
    <2>2. ASSUME NEW ok \in BOOLEAN, DeskTakesOut(ok) PROVE EarlyUnfiled'
      BY <2>0, <2>2 DEF DeskTakesOut, TakeOut, PendingSave, Fault, Idle, TypeOK,
         PaidWereOpen, EarlyUnfiled, Early
    <2> QED
      BY <1>12, <2>1, <2>2 DEF Unpend
  <1>13. CASE WriteSale
    BY <1>13 DEF WriteSale, Append, Fault, Sweeps, Idle, shelf, request, ghosts, rows,
       TypeOK, PaidWereOpen, EarlyUnfiled, Early
  <1>14. CASE ConfirmBooking
    BY <1>14 DEF ConfirmBooking, Sweeps, shelf, request, others, rows, TypeOK,
       PaidWereOpen, EarlyUnfiled, Early
  <1>15. CASE Commit
    BY <1>15 DEF Commit, Sweeps, request, ghosts, others, rows, TypeOK, PaidWereOpen,
       EarlyUnfiled, Early
  <1>16. CASE Persist
    BY <1>16 DEF Persist, PersistState, Fault, Idle, shelf, request, ghosts, others,
       rows, TypeOK, PaidWereOpen, EarlyUnfiled, Early
  <1>17. CASE Restart
    BY <1>17 DEF Restart, Fault, Idle, TypeOK, PaidWereOpen, EarlyUnfiled, Early
  <1>18. ASSUME NEW o \in Order, SetUntil(o) PROVE EarlyUnfiled'
    BY <1>18 DEF SetUntil, To, shelf, ghosts, others, rows, TypeOK, PaidWereOpen,
       EarlyUnfiled, Early
  <1>19. ASSUME NEW o \in Order, BookSlot(o) PROVE EarlyUnfiled'
    BY <1>19 DEF BookSlot, To, shelf, rows, TypeOK, PaidWereOpen,
       EarlyUnfiled, Early
  <1> QED
    BY <1>1, <1>2, <1>3, <1>4, <1>5, <1>6, <1>7, <1>8, <1>9, <1>10, <1>11, <1>12, <1>13,
       <1>14, <1>15, <1>16, <1>17, <1>18, <1>19 DEF Next

(* No row is written twice *)
LEMMA OnceStep ==
  TypeOK /\ PaidWereOpen /\ EarlyUnfiled /\ RowsOnce /\ [Next]_vars
    => RowsOnce'
  <1> SUFFICES ASSUME TypeOK, PaidWereOpen, EarlyUnfiled, RowsOnce, [Next]_vars PROVE
     RowsOnce'
    OBVIOUS
  <1> USE Constants
  <1>0. ASSUME UNCHANGED <<pend, sales, sweep, desk, returned>> PROVE RowsOnce'
    BY <1>0 DEF TypeOK, PaidWereOpen, EarlyUnfiled, Early, RowsOnce, Settling
  <1>1. ASSUME NEW o \in Order, Begin(o) \/ CopyMenu(o) \/ Look(o) \/ Take(o) \/
     ReadPending(o) \/ SetUntil(o) \/ BookSlot(o) \/ Answer(o) \/ Pay(o) \/ CancelBooking(o)
     PROVE RowsOnce'
    BY <1>0, <1>1 DEF Begin, CopyMenu, Look, Take, ReadPending, SetUntil, BookSlot, Answer,
       PersistState, Fault, Pay, CancelBooking, shelf, request, ghosts, others, rows
  <1>2. CASE PublishRead \/ PublishWrite \/ Tick \/ UNCHANGED vars
    BY <1>0, <1>2 DEF PublishRead, PublishWrite, Tick, vars, shelf, request, ghosts,
       others, rows
  <1>3. ASSUME NEW o \in Order, FilePending(o) PROVE RowsOnce'
    BY <1>3 DEF FilePending, To, PendingSave, Fault, shelf, others, rows, TypeOK,
       PaidWereOpen, EarlyUnfiled, Early, RowsOnce, Settling
  <1>4. ASSUME NEW o \in Order, Notice(o) PROVE RowsOnce'
    BY <1>4 DEF Notice, Forgotten, shelf, request, others, rows, TypeOK, PaidWereOpen,
       EarlyUnfiled, Early, RowsOnce, Settling
  <1>5. ASSUME NEW o \in Order, LedgerSweep(o) PROVE RowsOnce'
    BY <1>5 DEF LedgerSweep, shelf, request, ghosts, rows, TypeOK, PaidWereOpen,
       EarlyUnfiled, Early, RowsOnce, Settling
  <1>6. CASE Unpend
    <2>0. /\ UNCHANGED <<now, stock, disk, pub, holds, at, began, copy, seen, until, book, state>>
          /\ UNCHANGED <<file, paid, sales, first, sold, mishap, dropped, late,
                        unbooked, overdue, aged>>
      BY <1>6 DEF Unpend, shelf, request
    <2>1. ASSUME NEW ok \in BOOLEAN, SweepTakesOut(ok) PROVE RowsOnce'
      BY <2>0, <2>1 DEF SweepTakesOut, TakeOut, Sweeps, PendingSave, Fault, TypeOK,
         PaidWereOpen, RowsOnce, Settling
    <2>2. ASSUME NEW ok \in BOOLEAN, DeskTakesOut(ok) PROVE RowsOnce'
      BY <2>0, <2>2 DEF DeskTakesOut, TakeOut, PendingSave, Fault, Idle, TypeOK,
         PaidWereOpen, RowsOnce, Settling
    <2> QED
      BY <1>6, <2>1, <2>2 DEF Unpend
  <1>7. CASE WriteSale
    BY <1>7 DEF WriteSale, Append, Fault, Sweeps, Idle, shelf, request, ghosts, rows,
       TypeOK, PaidWereOpen, EarlyUnfiled, Early, RowsOnce, Settling
  <1>8. CASE ConfirmBooking
    BY <1>8 DEF ConfirmBooking, Sweeps, shelf, request, others, rows, TypeOK,
       PaidWereOpen, EarlyUnfiled, Early, RowsOnce, Settling
  <1>9. CASE Commit
    BY <1>9 DEF Commit, Sweeps, request, ghosts, others, rows, TypeOK, PaidWereOpen,
       EarlyUnfiled, Early, RowsOnce, Settling
  <1>10. CASE Persist
    BY <1>10 DEF Persist, PersistState, Fault, Idle, shelf, request, ghosts, others,
       rows, TypeOK, PaidWereOpen, EarlyUnfiled, Early, RowsOnce, Settling
  <1>11. CASE Restart
    BY <1>11 DEF Restart, Fault, Idle, TypeOK, PaidWereOpen, EarlyUnfiled, Early,
       RowsOnce, Settling
  <1> QED
    BY <1>1, <1>2, <1>3, <1>4, <1>5, <1>6, <1>7, <1>8, <1>9, <1>10, <1>11 DEF Next

(* No row is left out *)
LEMMA KeptStep ==
  TypeOK /\ PaidWereOpen /\ RowsOnce /\ RowsKept /\ [Next]_vars
    => RowsKept'
  <1> SUFFICES ASSUME TypeOK, PaidWereOpen, RowsOnce, RowsKept, [Next]_vars PROVE
     RowsKept'
    OBVIOUS
  <1> USE Constants
  <1>0. ASSUME UNCHANGED <<at, pend, sales, state, file, sweep, desk, mislaid, aged,
     unwritten>> PROVE
     RowsKept'
    BY <1>0 DEF TypeOK, PaidWereOpen, RowsOnce, RowsKept, Settling, Entered, InHand
  <1>1. ASSUME NEW o \in Order, Pay(o) \/ CancelBooking(o) PROVE RowsKept'
    BY <1>0, <1>1 DEF Pay, CancelBooking, shelf, request, ghosts, others, rows
  <1>2. CASE PublishRead \/ PublishWrite \/ Tick \/ UNCHANGED vars
    BY <1>0, <1>2 DEF PublishRead, PublishWrite, Tick, vars, shelf, request, ghosts,
       others, rows
  <1>3. ASSUME NEW o \in Order, Begin(o) PROVE RowsKept'
    BY <1>3 DEF Begin, To, shelf, ghosts, others, rows, TypeOK, PaidWereOpen, RowsOnce,
       RowsKept, Settling, Entered, InHand
  <1>4. ASSUME NEW o \in Order, CopyMenu(o) PROVE RowsKept'
    BY <1>4 DEF CopyMenu, To, shelf, ghosts, others, rows, TypeOK, PaidWereOpen,
       RowsOnce, RowsKept, Settling, Entered, InHand
  <1>5. ASSUME NEW o \in Order, Look(o) PROVE RowsKept'
    BY <1>5 DEF Look, To, Lasting, ghosts, others, rows, TypeOK, PaidWereOpen, RowsOnce,
       RowsKept, Settling, Entered, InHand
  <1>6. ASSUME NEW o \in Order, Take(o) PROVE RowsKept'
    BY <1>6 DEF Take, To, others, rows, TypeOK, PaidWereOpen, RowsOnce, RowsKept,
       Settling, Entered, InHand
  <1>7. ASSUME NEW o \in Order, ReadPending(o) PROVE RowsKept'
    BY <1>7 DEF ReadPending, To, shelf, ghosts, others, rows, TypeOK, PaidWereOpen,
       RowsOnce, RowsKept, Settling, Entered, InHand
  <1>8. ASSUME NEW o \in Order, FilePending(o) PROVE RowsKept'
    BY <1>8 DEF FilePending, To, PendingSave, Fault, shelf, others, rows, TypeOK,
       PaidWereOpen, RowsOnce, RowsKept, Settling, Entered, InHand
  <1>9. ASSUME NEW o \in Order, Answer(o) PROVE RowsKept'
    BY <1>9 DEF Answer, PersistState, Fault, To, shelf, ghosts, others, rows, TypeOK,
       PaidWereOpen, RowsOnce, RowsKept, Settling, Entered, InHand
  <1>10. ASSUME NEW o \in Order, Notice(o) PROVE RowsKept'
    BY <1>10 DEF Notice, Forgotten, shelf, request, others, rows, TypeOK, PaidWereOpen,
       RowsOnce, RowsKept, Settling, Entered, InHand
  <1>11. ASSUME NEW o \in Order, LedgerSweep(o) PROVE RowsKept'
    BY <1>11 DEF LedgerSweep, shelf, request, ghosts, rows, TypeOK, PaidWereOpen,
       RowsOnce, RowsKept, Settling, Entered, InHand
  <1>12. CASE Unpend
    BY <1>12 DEF Unpend, SweepTakesOut, DeskTakesOut, TakeOut, Sweeps, PendingSave,
       Fault, shelf, request, TypeOK, PaidWereOpen, RowsOnce, RowsKept, Settling,
       Entered, InHand
  <1>13. CASE WriteSale
    BY <1>13 DEF WriteSale, Append, Fault, Sweeps, Idle, shelf, request, ghosts, rows,
       TypeOK, PaidWereOpen, RowsOnce, RowsKept, Settling, Entered, InHand
  <1>14. CASE ConfirmBooking
    BY <1>14 DEF ConfirmBooking, Sweeps, shelf, request, others, rows, TypeOK,
       PaidWereOpen, RowsOnce, RowsKept, Settling, Entered, InHand
  <1>15. CASE Commit
    BY <1>15 DEF Commit, Sweeps, request, ghosts, others, rows, TypeOK, PaidWereOpen,
       RowsOnce, RowsKept, Settling, Entered, InHand
  <1>16. CASE Persist
    BY <1>16 DEF Persist, PersistState, Fault, Idle, shelf, request, ghosts, others,
       rows, TypeOK, PaidWereOpen, RowsOnce, RowsKept, Settling, Entered, InHand
  <1>17. CASE Restart
    BY <1>17 DEF Restart, Fault, Idle, TypeOK, PaidWereOpen, RowsOnce, RowsKept,
       Settling, Entered, InHand
  <1>18. ASSUME NEW o \in Order, SetUntil(o) PROVE RowsKept'
    BY <1>18 DEF SetUntil, To, shelf, ghosts, others, rows, TypeOK, PaidWereOpen,
       RowsOnce, RowsKept, Settling, Entered, InHand
  <1>19. ASSUME NEW o \in Order, BookSlot(o) PROVE RowsKept'
    BY <1>19 DEF BookSlot, To, shelf, rows, TypeOK, PaidWereOpen,
       RowsOnce, RowsKept, Settling, Entered, InHand
  <1> QED
    BY <1>1, <1>2, <1>3, <1>4, <1>5, <1>6, <1>7, <1>8, <1>9, <1>10, <1>11, <1>12, <1>13,
       <1>14, <1>15, <1>16, <1>17, <1>18, <1>19 DEF Next

(* What is reserved and what is settled are finite. *)
LEMMA Finite ==
  ASSUME TypeOK
  PROVE  /\ IsFiniteSet(Reserved) /\ IsFiniteSet(Settled)
         /\ Cardinality(Reserved) \in Nat /\ Cardinality(Settled) \in Nat
  <1>1. Reserved \subseteq Order /\ Settled \subseteq Order
    BY DEF Reserved, Settled
  <1> QED
    BY <1>1, Constants, FS_Subset, FS_CardinalityType

(* A step that reserves nothing new, settles nothing and leaves the shelf. *)
ShelfSame ==
  /\ Reserved' \subseteq Reserved /\ Settled' = Settled
  /\ stock' = stock /\ disk' = disk /\ first' = first
  /\ ~mishap' /\ dropped' \cup overdue' = {} => ~mishap /\ dropped \cup overdue = {}
  /\ ~mishap' /\ dropped' \cup overdue' = {} => SoldIsSwept'

LEMMA ShelfKept ==
  ASSUME TypeOK, EnoughLeft, ShelfSame
  PROVE  EnoughLeft'
  <1>1. Cardinality(Reserved') <= Cardinality(Reserved) /\ Cardinality(Reserved') \in Nat
    BY Finite, FS_Subset, FS_CardinalityType DEF ShelfSame
  <1>2. Cardinality(Settled') = Cardinality(Settled)
    BY DEF ShelfSame
  <1> QED
    BY <1>1, <1>2, Finite DEF ShelfSame, EnoughLeft, TypeOK


(* The number on the shelf covers the holds *)
LEMMA EnoughStep ==
  TypeOK /\ TypeOK' /\ Stamped /\ UntilsAreEnds /\ PaidWereOpen /\ HoldsStand /\
     EnoughLeft /\ [Next]_vars
    => EnoughLeft'
  <1> SUFFICES ASSUME TypeOK, TypeOK', Stamped, UntilsAreEnds, PaidWereOpen, HoldsStand,
     EnoughLeft,
     [Next]_vars PROVE EnoughLeft'
    OBVIOUS
  <1> USE Constants
  <1>0. ASSUME UNCHANGED <<now, stock, disk, holds, began, sweep, sold, first, mishap,
     dropped, overdue>> PROVE EnoughLeft'
    BY <1>0, ShelfKept DEF ShelfSame, Reserved, Settled, SoldIsSwept, EnoughLeft,
       TypeOK, Stamped
  <1>1. ASSUME NEW o \in Order, CopyMenu(o) \/ ReadPending(o) \/ FilePending(o) \/
     SetUntil(o) \/ BookSlot(o) \/ Answer(o) \/ Pay(o) \/ CancelBooking(o) \/ LedgerSweep(o)
     PROVE EnoughLeft'
    BY <1>0, <1>1 DEF CopyMenu, ReadPending, FilePending, SetUntil, BookSlot, Answer,
       PersistState, Fault, Pay, CancelBooking, LedgerSweep, shelf, request, ghosts,
       others, rows
  <1>2. CASE PublishRead \/ UNCHANGED vars
    BY <1>0, <1>2 DEF PublishRead, vars, shelf, request, ghosts, others, rows
  <1>3. ASSUME NEW o \in Order, Begin(o) PROVE EnoughLeft'
    BY <1>3, ShelfKept DEF Begin, To, shelf, ghosts, others, rows, ShelfSame, Reserved,
       Settled, SoldIsSwept, EnoughLeft, TypeOK, Stamped
  <1>4. ASSUME NEW o \in Order, Look(o) PROVE EnoughLeft'
    BY <1>4, ShelfKept DEF Look, To, Lasting, ghosts, others, rows, ShelfSame, Reserved,
       Settled, SoldIsSwept, EnoughLeft, TypeOK, Stamped
  <1>5. ASSUME NEW o \in Order, Take(o) PROVE EnoughLeft'
    <2> SUFFICES ASSUME ~mishap', dropped' \cup overdue' = {}
                 PROVE  /\ SoldIsSwept' /\ Settled' = Settled
                        /\ Cardinality(Reserved') <= stock'
      BY <1>5, Finite DEF EnoughLeft, Take, others, rows, TypeOK
    <2> DEFINE Counted == {p \in Order : Lasting(began[o])[p] # None}
    <2>1. /\ SoldIsSwept /\ stock' = stock /\ sold' = sold
          /\ holds' = [holds EXCEPT ![o] = began[o]] /\ o \notin sold /\ now' = now
          /\ Cardinality(Counted) + 1 <= stock
      <3>1. Cardinality(Counted) \in Nat
        BY FS_Subset, FS_CardinalityType
      <3>2. Held(began[o]) = Cardinality(Counted)
        BY DEF Held
      <3>3. ~mishap /\ dropped \cup overdue = {} /\ ~(stock - Held(began[o]) < 1)
        BY <1>5 DEF Take
      <3>4. o \notin sold
        BY <1>5 DEF Take, PaidWereOpen
      <3> HIDE DEF Counted
      <3> QED
        BY <1>5, <3>1, <3>2, <3>3, <3>4 DEF EnoughLeft, Take, TypeOK
    <2>2. SoldIsSwept'
      BY <1>5, <2>1 DEF SoldIsSwept, Take, TypeOK
    <2>3. Settled' = Settled
      BY <2>1 DEF Settled, TypeOK
    <2>4. Reserved \subseteq Counted
      BY <2>1 DEF Reserved, Lasting, SoldIsSwept, Stamped, TypeOK
    <2>5. Reserved' \subseteq Counted \union {o}
      BY <2>1, <2>4 DEF Reserved, TypeOK
    <2>6. IsFiniteSet(Counted) /\ Cardinality(Counted) \in Nat
      BY FS_Subset, FS_CardinalityType
    <2>7. /\ IsFiniteSet(Counted \union {o}) /\ Cardinality(Counted \union {o}) \in Nat
          /\ Cardinality(Counted \union {o}) <= Cardinality(Counted) + 1
      <3> HIDE DEF Counted
      <3>1. CASE o \in Counted
        <4>1. Counted \union {o} = Counted
          BY <3>1
        <4>2. IsFiniteSet(Counted \union {o})
          BY <2>6, <4>1
        <4>3. Cardinality(Counted \union {o}) = Cardinality(Counted)
          BY <4>1
        <4> QED
          BY <2>6, <4>2, <4>3
      <3>2. CASE o \notin Counted
        BY <2>6, <3>2, FS_AddElement
      <3> QED
        BY <3>1, <3>2
    <2>8. /\ Cardinality(Reserved') <= Cardinality(Counted \union {o})
          /\ Cardinality(Reserved') \in Nat
      BY <2>5, <2>7, FS_Subset, FS_CardinalityType
    <2> QED
      BY <2>1, <2>2, <2>3, <2>6, <2>7, <2>8 DEF TypeOK
  <1>6. ASSUME NEW o \in Order, Notice(o) PROVE EnoughLeft'
    <2> SUFFICES ASSUME ~mishap', dropped' \cup overdue' = {} PROVE ShelfSame
      BY <1>6, ShelfKept DEF EnoughLeft
    <2>0. ~mishap /\ dropped = {} /\ overdue = {} /\ (InTime(o) => ~Forgotten(o))
      BY <1>6 DEF Notice
    <2>1. \A p \in sold : holds[p] = None
      BY <1>6, <2>0 DEF Notice, Forgotten, EnoughLeft, SoldIsSwept
    <2>2. CASE InTime(o)
      <3>1. /\ sold' = sold \union {o} /\ sweep'.o = o
            /\ sweep'.at \in {"save", "row", "confirm", "commit"}
            /\ holds' = holds /\ now' = now /\ began' = began /\ at[o] = "open"
        BY <1>6, <2>2 DEF Notice, Forgotten, shelf, request, PaidWereOpen
      <3>0. OnTime(o)
        BY <2>0, <2>2 DEF InTime, Forgotten, OnTime, UntilsAreEnds
      <3>2. o \notin sold => holds[o] = began[o] /\ began[o] >= 0 /\ now - began[o] < Hold
        BY <2>0, <3>0, <3>1 DEF HoldsStand, Stamped, OnTime, QuoteEnd, TypeOK
      <3>3. Reserved' \subseteq Reserved /\ Settled' = Settled
        BY <2>1, <3>1, <3>2 DEF Reserved, Settled, TypeOK
      <3>4. \A p \in Order : o \notin sold => began[p] - holds[o] < Hold
        BY <3>2 DEF Stamped, TypeOK
      <3>5. SoldIsSwept'
        BY <2>1, <3>1, <3>4 DEF SoldIsSwept, TypeOK
      <3> QED
        BY <1>6, <3>3, <3>5 DEF Notice, Forgotten, shelf, others, rows, ShelfSame
    <2>3. CASE ~InTime(o)
      BY <1>6, <2>1, <2>3 DEF Notice, Forgotten, shelf, others, rows, request, Reserved,
         Settled, SoldIsSwept, ShelfSame, TypeOK
    <2> QED
      BY <2>2, <2>3
  <1>7. CASE Unpend
    BY <1>7, ShelfKept DEF Unpend, SweepTakesOut, DeskTakesOut, TakeOut, Sweeps,
       PendingSave, Fault, shelf, request, ShelfSame, Reserved, Settled, SoldIsSwept,
       EnoughLeft, TypeOK, Stamped
  <1>8. CASE WriteSale
    BY <1>8, ShelfKept DEF WriteSale, Append, Fault, Sweeps, Idle, shelf, request,
       ghosts, rows, ShelfSame, Reserved, Settled, SoldIsSwept, EnoughLeft, TypeOK,
       Stamped
  <1>9. CASE ConfirmBooking
    BY <1>9, ShelfKept DEF ConfirmBooking, Sweeps, shelf, request, others, rows,
       ShelfSame, Reserved, Settled, SoldIsSwept, EnoughLeft, TypeOK, Stamped
  <1>10. CASE Commit
    <2> SUFFICES ASSUME ~mishap', dropped' \cup overdue' = {} PROVE EnoughLeft'
      BY DEF EnoughLeft
    <2> DEFINE s == sweep.o
    <2>1. /\ ~mishap /\ dropped \cup overdue = {} /\ s \in Order /\ s \in sold
          /\ sweep.at = "commit" /\ now' = now /\ sold' = sold
          /\ began' = began /\ first' = first
      BY <1>10 DEF Commit, Sweeps, ghosts, request, rows, HoldsStand,
         PaidWereOpen, TypeOK
    <2>2. CASE holds[s] = None
      <3>1. stock' = stock /\ holds' = holds
        BY <1>10, <2>2 DEF Commit, TypeOK
      <3>2. Reserved' = Reserved /\ Settled' = Settled
        BY <2>1, <3>1 DEF Reserved, Settled
      <3>3. SoldIsSwept'
        BY <2>1, <2>2, <3>1 DEF SoldIsSwept, EnoughLeft
      <3> QED
        BY <2>1, <3>1, <3>2, <3>3 DEF EnoughLeft
    <2>3. CASE holds[s] # None
      <3>1. s \in Reserved /\ s \notin Settled
        BY <2>1, <2>3 DEF Reserved, Settled
      <3>2. Cardinality(Reserved) >= 1
        BY <3>1, Finite, FS_EmptySet
      <3>3. holds' = [holds EXCEPT ![s] = None] /\ stock' = stock - 1
        BY <1>10, <2>1, <2>3, <3>2, Finite DEF Commit, EnoughLeft, TypeOK
      <3>4. Reserved' = Reserved \ {s} /\ Settled' = Settled \union {s}
        BY <2>1, <3>3 DEF Reserved, Settled, TypeOK
      <3>5. Cardinality(Reserved') = Cardinality(Reserved) - 1
        BY <3>1, <3>4, Finite, FS_RemoveElement
      <3>6. Cardinality(Settled') = Cardinality(Settled) + 1
        BY <3>1, <3>4, Finite, FS_AddElement
      <3>7. SoldIsSwept'
        BY <2>1, <3>3 DEF SoldIsSwept, EnoughLeft, TypeOK
      <3> QED
        BY <2>1, <3>3, <3>5, <3>6, <3>7, Finite DEF EnoughLeft, TypeOK
    <2> QED
      BY <2>2, <2>3
  <1>11. CASE Persist
    BY <1>11, ShelfKept DEF Persist, PersistState, Fault, Idle, shelf, request, ghosts,
       others, rows, ShelfSame, Reserved, Settled, SoldIsSwept, EnoughLeft, TypeOK,
       Stamped
  <1>12. CASE PublishWrite
    BY <1>12, ShelfKept DEF PublishWrite, request, others, rows, ShelfSame, Reserved,
       Settled, SoldIsSwept, EnoughLeft, TypeOK, Stamped
  <1>13. CASE Restart
    <2> SUFFICES ASSUME ~mishap', dropped' \cup overdue' = {} PROVE EnoughLeft'
      BY DEF EnoughLeft
    <2>1. /\ ~mishap /\ dropped \cup overdue = {}
          /\ \A p \in Order : holds[p] = None /\ holds'[p] = None
          /\ stock' = stock /\ sold' = sold /\ first' = first
      BY <1>13 DEF Restart, Fault
    <2>2. Reserved' = Reserved /\ Settled' = Settled
      BY <2>1 DEF Reserved, Settled
    <2>3. SoldIsSwept'
      BY <2>1 DEF SoldIsSwept, TypeOK
    <2> QED
      BY <2>1, <2>2, <2>3 DEF EnoughLeft
  <1>14. CASE Tick
    BY <1>14, ShelfKept DEF Tick, shelf, request, ghosts, others, rows, ShelfSame,
       Reserved, Settled, SoldIsSwept, EnoughLeft, TypeOK, Stamped
  <1> QED
    BY <1>1, <1>2, <1>3, <1>4, <1>5, <1>6, <1>7, <1>8, <1>9, <1>10, <1>11, <1>12, <1>13,
       <1>14 DEF Next

-----------------------------------------------------------------------------
LEMMA InitInv == Init => IInv
  <1> SUFFICES ASSUME Init PROVE IInv
    OBVIOUS
  <1> USE Constants
  <1>1. TypeOK
    <2>1. /\ sweep = Idle /\ desk = Idle /\ stock = first /\ disk = first
          /\ file = [state |-> state, until |-> until]
      BY DEF Init
    <2>2. /\ now \in 0..MaxTime /\ faults \in 0..MaxFaults
          /\ first \in 1..MaxStock /\ first \in 0..MaxStock /\ pub \in -1..MaxStock
          /\ holds \in [Order -> -1..MaxTime] /\ began \in [Order -> -1..MaxTime]
          /\ copy \in [Order -> -1..MaxStock]
      BY DEF Init
    <2>3. /\ sweep \in [o : Order \cup {None}, pend : SUBSET Order,
                       at : {"idle", "save", "row", "confirm", "commit", "persist"}]
          /\ desk \in [o : Order \cup {None}, pend : SUBSET Order, at : {"idle", "save", "row"}]
          /\ \A w \in {sweep, desk} : w.at # "idle" => w.o \in Order
      BY <2>1 DEF Idle
    <2>4. /\ at \in [Order -> {"new", "begun", "menu", "looked", "taken", "read", "filed",
                           "quoted", "booked", "open", "refused"}]
          /\ seen \in [Order -> SUBSET Order] /\ sales \in [Order -> Nat]
          /\ book \in [Order -> {"none", "hold", "paid", "cancelled"}]
          /\ state \in [Order -> {"none", "waiting", "expired", "paid"}]
          /\ until \in [Order -> -1..(MaxTime + Quote)]
      BY DEF Init
    <2>5. /\ stock \in 0..MaxStock /\ disk \in 0..MaxStock
          /\ pend \subseteq Order /\ paid \subseteq Order
          /\ mishap \in BOOLEAN
          /\ sold \cup dropped \cup late \cup unbooked \cup overdue \subseteq Order
          /\ mislaid \cup aged \cup unwritten \cup returned \subseteq Order
      BY <2>1, <2>2 DEF Init
    <2> QED
      BY <2>1, <2>2, <2>3, <2>4, <2>5 DEF TypeOK
  <1>2. Stamped /\ UntilsAreEnds /\ PaidWereOpen /\ HoldsStand
    BY DEF Init, Idle, Stamped, UntilsAreEnds, PaidWereOpen, HoldsStand
  <1>3. SlotsApart
    BY DEF Init, SlotsApart
  <1>7. SlotsBooked
    BY Constants DEF Init, SlotsBooked
  <1>4. EarlyUnfiled /\ RowsOnce /\ RowsKept
    BY DEF Init, Idle, EarlyUnfiled, RowsOnce, RowsKept
  <1>5. Reserved = {} /\ Settled = {}
    BY DEF Init, Reserved, Settled
  <1>6. EnoughLeft
    BY <1>5, FS_EmptySet DEF Init, EnoughLeft, SoldIsSwept
  <1> QED
    BY <1>1, <1>2, <1>3, <1>4, <1>6, <1>7 DEF IInv

LEMMA StepInv == IInv /\ [Next]_vars => IInv'
  BY TypeStep, StampStep, UntilStep, PaidStep, HoldsStep, SlotsStep, BookedStep,
     EarlyStep, OnceStep, KeptStep, EnoughStep DEF IInv

(* The types are right, in every state. *)
THEOREM TypeCorrect == Spec => []TypeOK
  <1>1. IInv => TypeOK
    BY DEF IInv
  <1> QED
    BY <1>1, InitInv, StepInv, PTL DEF Spec

(* Of two who paid for the slot the booking of one was confirmed when it held nothing,
   or a write of it failed or was cut by a restart (booking.rs: holds_a_slot, confirm,
   store). *)
THEOREM SlotGoesToOne == Spec => []SlotSoldOnce
  <1>1. IInv => SlotSoldOnce
    BY Constants DEF IInv, SlotsApart, SlotsBooked, Confirming, Comes, SlotSoldOnce
  <1> QED
    BY <1>1, InitInv, StepInv, PTL DEF Spec

(* Every paid order is one row in the ledger: two only after an old copy of
   pending.json brought it back, none only after a write of it failed or was cut by a
   restart, an old copy or a torn file dropped it, or it was a day old (ledger.rs:
   open_order, settle, append). *)
THEOREM OneRowPerSale == Spec => []LedgerIsTrue
  <1>1. IInv => LedgerIsTrue
    BY DEF IInv, RowsOnce, RowsKept, Entered, LedgerIsTrue, TypeOK
  <1> QED
    BY <1>1, InitInv, StepInv, PTL DEF Spec

(* Whoever may still pay has his piece reserved, unless a restart dropped the hold or
   the quote is over and its end was dropped from the table (stock.rs: HOLD_SECS;
   server.rs: order_until). *)
THEOREM HoldsOutliveQuotes == Spec => []HoldCovers
  <1>1. IInv => HoldCovers
    BY Constants DEF IInv, HoldsStand, Stamped, UntilsAreEnds, HoldCovers, InTime,
       Forgotten, OnTime, QuoteEnd, TypeOK
  <1> QED
    BY <1>1, InitInv, StepInv, PTL DEF Spec

(* As long as every hold is a real one and no payment is taken after a time that was
   forgotten, no more are sold than there were (stock.rs: hold, commit). *)
THEOREM SoldFromStock == Spec => []NoOversell
  <1>1. IInv => NoOversell
    <2> SUFFICES ASSUME IInv, ~mishap, dropped \cup overdue = {} PROVE Cardinality(sold) <= first
      BY DEF NoOversell
    <2>1. TypeOK /\ EnoughLeft /\ SoldIsSwept
      BY DEF IInv, EnoughLeft
    <2>2. CASE \A o \in sold : holds[o] = None
      <3>1. sold = Settled
        BY <2>1, <2>2 DEF Settled, TypeOK
      <3> QED
        BY <2>1, <3>1, Finite DEF EnoughLeft, TypeOK
    <2>3. CASE \E o \in sold : holds[o] # None
      <3>1. PICK o \in sold : holds[o] # None
        BY <2>3
      <3>2. o \in Reserved /\ sold = Settled \union {o} /\ o \notin Settled
        BY <2>1, <3>1 DEF Settled, Reserved, SoldIsSwept, TypeOK
      <3>3. Cardinality(Reserved) >= 1
        BY <2>1, <3>2, Finite, FS_EmptySet
      <3>4. Cardinality(sold) = Cardinality(Settled) + 1
        BY <2>1, <3>2, Finite, FS_AddElement
      <3> QED
        BY <2>1, <3>3, <3>4, Finite DEF EnoughLeft, TypeOK
    <2> QED
      BY <2>2, <2>3
  <1> QED
    BY <1>1, InitInv, StepInv, PTL DEF Spec

-----------------------------------------------------------------------------
(* The developer's share *)

----------------------------------------------------------------------------
(* Sums of transfers and of shares *)

LEMMA TransferSums ==
  ASSUME NEW S \in SUBSET Transfer, IsFiniteSet(S)
  PROVE  /\ Sum(S) \in Nat
         /\ \A T \in SUBSET S : Sum(T) \in Nat /\ Sum(T) <= Sum(S)
         /\ \A t \in S : Sum(S) = t.amount + Sum(S \ {t})
  <1> DEFINE f == [t \in S |-> t.amount]
  <1>1. \A t \in S : f[t] \in Nat /\ f[t] = t.amount
    BY DEF Transfer
  <1>2. Sum(S) = SumFunctionOnSet(f, S)
    BY DEF Sum, SumFunction
  <1>3. ASSUME NEW T \in SUBSET S
        PROVE  Sum(T) = SumFunctionOnSet(f, T) /\ SumFunctionOnSet(f, T) \in Nat
    <2> DEFINE g == [t \in T |-> t.amount]
    <2>1. IsFiniteSet(T) /\ \A t \in T : g[t] \in Nat /\ g[t] = f[t]
      BY <1>1, FS_Subset DEF Transfer
    <2>2. Sum(T) = SumFunctionOnSet(g, T)
      BY DEF Sum, SumFunction
    <2> HIDE DEF f, g
    <2>3. SumFunctionOnSet(g, T) <= SumFunctionOnSet(f, T)
      BY <1>1, <2>1, SumOfMore
    <2>4. SumFunctionOnSet(f, T) <= SumFunctionOnSet(g, T)
      BY <1>1, <2>1, SumOfMore
    <2>5. SumFunctionOnSet(f, T) \in Nat /\ SumFunctionOnSet(g, T) \in Nat
      BY <1>1, <2>1, SumType
    <2> QED
      BY <2>2, <2>3, <2>4, <2>5
  <1> HIDE DEF f
  <1>4. \A T \in SUBSET S : SumFunctionOnSet(f, T) <= SumFunctionOnSet(f, S)
    BY <1>1, SumOfMore
  <1>5. \A t \in S : SumFunctionOnSet(f, S) = f[t] + SumFunctionOnSet(f, S \ {t})
    BY <1>1, SumWithout
  <1> QED
    BY <1>1, <1>2, <1>3, <1>4, <1>5

LEMMA FeeSums ==
  ASSUME NEW S \in SUBSET Sale, IsFiniteSet(S)
  PROVE  /\ Fees(S) \in Nat
         /\ \A T \in SUBSET S : Fees(T) \in Nat /\ Fees(T) <= Fees(S)
         /\ \A o \in Sale \ S : Fees(S \union {o}) = Fee[o] + Fees(S) /\ Fee[o] \in Nat
  <1>1. \A o \in Sale : Fee[o] \in Nat
    BY FeeAssumption
  <1>2. \A T \in SUBSET S : IsFiniteSet(T)
    BY FS_Subset
  <1>3. \A T \in SUBSET S : Fees(T) \in Nat
    BY <1>1, <1>2, SumType DEF Fees
  <1>4. \A T \in SUBSET S : Fees(T) <= Fees(S)
    BY <1>1, SumOfMore DEF Fees
  <1>5. \A o \in Sale \ S : Fees(S \union {o}) = Fee[o] + Fees(S)
    BY <1>1, SumWith DEF Fees
  <1> QED
    BY <1>1, <1>3, <1>4, <1>5

LEMMA OfTwo ==
  ASSUME NEW a \in Nat, NEW b \in Nat
  PROVE  /\ Min({a, b}) = IF a <= b THEN a ELSE b
         /\ Max({a, b}) = IF a >= b THEN a ELSE b
  <1>1. Min({a, b}) \in {a, b} /\ \A y \in {a, b} : Min({a, b}) <= y
    <2>1. \E x \in {a, b} : \A y \in {a, b} : x <= y
      OBVIOUS
    <2> QED
      BY <2>1 DEF Min
  <1>2. Max({a, b}) \in {a, b} /\ \A y \in {a, b} : Max({a, b}) >= y
    <2>1. \E x \in {a, b} : \A y \in {a, b} : x >= y
      OBVIOUS
    <2> QED
      BY <2>1 DEF Max
  <1> QED
    BY <1>1, <1>2

----------------------------------------------------------------------------
(* What the ledger becomes *)

\* A ledger is written, perhaps without the caller or the disk knowing.
Becomes(ledger) == /\ devfee' \in sure' /\ sure' \subseteq sure \union {ledger}
                   /\ devfee' = ledger \/ UNCHANGED stored

LEMMA Writing ==
  ASSUME devfee \in sure, NEW ledger, Written(ledger) \/ NotWritten(ledger)
  PROVE  Becomes(ledger)
  BY DEF Written, NotWritten, Becomes, stored

\* Writing the share of one more sale.
LEMMA Added ==
  ASSUME devfee \in Ledger, NEW o \in Sale, o \notin devfee.orders, IsFiniteSet(devfee.orders)
  PROVE  /\ Add(o) \in Ledger
         /\ Add(o).owed = devfee.owed + Fee[o] /\ Add(o).sent_total = devfee.sent_total
         /\ Add(o).back = devfee.back /\ Add(o).orders = devfee.orders \union {o}
         /\ Fees(Add(o).orders) = Fee[o] + Fees(devfee.orders)
         /\ Fees(devfee.orders) \in Nat /\ Fee[o] \in Nat
  <1>1. devfee.orders \in SUBSET Sale /\ Fee[o] \in Nat /\ devfee.owed \in Nat
    BY FeeAssumption DEF Ledger
  <1> DEFINE x == devfee.owed + Fee[o]
             S == devfee.orders \union {o}
  <1>2. /\ x \in Nat /\ S \in SUBSET Sale
        /\ Add(o) = [devfee EXCEPT !.owed = x, !.orders = S]
    BY <1>1 DEF Add
  <1> HIDE DEF x, S
  <1>4. LET l == [devfee EXCEPT !.owed = x, !.orders = S] IN
          /\ l \in Ledger /\ l.owed = x /\ l.orders = S
          /\ l.sent_total = devfee.sent_total /\ l.back = devfee.back
    BY <1>2 DEF Ledger
  <1>3. /\ Add(o) \in Ledger
        /\ Add(o).owed = devfee.owed + Fee[o] /\ Add(o).sent_total = devfee.sent_total
        /\ Add(o).back = devfee.back /\ Add(o).orders = devfee.orders \union {o}
    BY <1>2, <1>4 DEF x, S
  <1> QED
    BY <1>1, <1>3, FeeSums

Credit(given) == [devfee EXCEPT !.owed = @ - given, !.back = @ + given]
LEMMA Credited ==
  ASSUME devfee \in Ledger, NEW given \in Nat, given <= devfee.owed
  PROVE  /\ Credit(given) \in Ledger
         /\ Credit(given).owed = devfee.owed - given /\ Credit(given).back = devfee.back + given
         /\ Credit(given).sent_total = devfee.sent_total /\ Credit(given).orders = devfee.orders
  <1> DEFINE x == devfee.owed - given
             y == devfee.back + given
  <1>1. /\ x \in Nat /\ y \in Nat
        /\ Credit(given) = [devfee EXCEPT !.owed = x, !.back = y]
    BY DEF Ledger, Credit
  <1> HIDE DEF x, y
  <1>2. LET l == [devfee EXCEPT !.owed = x, !.back = y] IN
          /\ l \in Ledger /\ l.owed = x /\ l.back = y
          /\ l.sent_total = devfee.sent_total /\ l.orders = devfee.orders
    BY <1>1 DEF Ledger
  <1> QED
    BY <1>1, <1>2 DEF x, y

Booking(sum) == [devfee EXCEPT !.owed = Max({@ - sum, 0}), !.sent_total = @ + sum]
LEMMA Booked ==
  ASSUME devfee \in Ledger, NEW sum \in Nat
  PROVE  /\ Booking(sum) \in Ledger
         /\ Booking(sum).owed = IF devfee.owed >= sum THEN devfee.owed - sum ELSE 0
         /\ Booking(sum).sent_total = devfee.sent_total + sum
         /\ Booking(sum).back = devfee.back /\ Booking(sum).orders = devfee.orders
  <1>1. Max({devfee.owed - sum, 0}) = IF devfee.owed >= sum THEN devfee.owed - sum ELSE 0
    <2> DEFINE x == devfee.owed - sum
    <2>1. x \in Int /\ (x >= 0 <=> devfee.owed >= sum)
      BY DEF Ledger
    <2>2. \E m \in {x, 0} : \A y \in {x, 0} : m >= y
      BY <2>1
    <2>3. Max({x, 0}) \in {x, 0} /\ \A y \in {x, 0} : Max({x, 0}) >= y
      BY <2>2 DEF Max
    <2> QED
      BY <2>1, <2>3
  <1> DEFINE x == Max({devfee.owed - sum, 0})
             y == devfee.sent_total + sum
  <1>2. /\ x \in Nat /\ y \in Nat
        /\ Booking(sum) = [devfee EXCEPT !.owed = x, !.sent_total = y]
    BY <1>1 DEF Ledger, Booking
  <1>3. x = IF devfee.owed >= sum THEN devfee.owed - sum ELSE 0
    BY <1>1
  <1> HIDE DEF x, y
  <1>4. LET l == [devfee EXCEPT !.owed = x, !.sent_total = y] IN
          /\ l \in Ledger /\ l.owed = x /\ l.sent_total = y
          /\ l.back = devfee.back /\ l.orders = devfee.orders
    BY <1>2 DEF Ledger
  <1> QED
    BY <1>2, <1>3, <1>4 DEF y

\* The cases of refund_credit and of the booking in fee_pay.
LEMMA CreditCases ==
  ASSUME FeeTypeOK, NEW back \in Back, RefundCredit(back)
  PROVE  \E given \in Nat :
           /\ given <= devfee.owed
           /\ \/ /\ Written(Credit(given)) /\ credited' = credited + given
                 /\ tooLate' = IF InDoubt THEN tooLate + given ELSE tooLate
              \/ NotWritten(Credit(given)) /\ UNCHANGED <<credited, tooLate>>
  <1> DEFINE given == Min({back, devfee.owed})
  <1>1. given \in Nat /\ given <= devfee.owed
    BY OfTwo, FeeAssumption DEF FeeTypeOK, Ledger
  <1>2. \/ /\ Written(Credit(given)) /\ credited' = credited + given
           /\ tooLate' = IF InDoubt THEN tooLate + given ELSE tooLate
        \/ NotWritten(Credit(given)) /\ UNCHANGED <<credited, tooLate>>
    BY DEF RefundCredit, Credit
  <1> HIDE DEF given
  <1> QED
    BY <1>1, <1>2

----------------------------------------------------------------------------
(* Types, what is counted, and the one call *)

\* A step of a call leaves the other callers alone.
LEMMA GotoFields ==
  ASSUME FeeTypeOK, NEW c \in Caller, NEW x \in Labels, Goto(c, x)
  PROVE  /\ pc' \in [Caller -> Labels] /\ pc'[c] = x /\ \A d \in Caller \ {c} : pc'[d] = pc[d]
         /\ UNCHANGED <<PAYING, owed>>
  BY DEF FeeTypeOK, Goto

LEMMA ReturnFields ==
  ASSUME FeeTypeOK, NEW c \in Caller, Return(c)
  PROVE  /\ pc' \in [Caller -> Labels] /\ pc'[c] = "idle"
         /\ \A d \in Caller \ {c} : pc'[d] = pc[d]
         /\ PAYING' = NoCaller /\ owed' \in [Caller -> Nat]
  BY DEF FeeTypeOK, Return, Labels

LEMMA BookCases ==
  ASSUME FeeTypeOK, NEW c \in Caller, Book(c)
  PROVE  /\ pc[c] = "book" /\ owed[c] \in Nat
         /\ \/ Written(Booking(owed[c])) /\ Goto(c, "complete")
            \/ NotWritten(Booking(owed[c])) /\ Return(c)
         /\ UNCHANGED <<marker, node, tale, losses>>
  BY DEF Book, Booking, FeeTypeOK

\* What a step does to the ledger, in one of four ways.
Quiet     == UNCHANGED <<stored, tale>>
Recorded(o) == /\ o \in Sale \ devfee.orders /\ Becomes(Add(o)) /\ LEDGER_LOCK
               /\ recorded' = recorded \union devfee'.orders
               /\ UNCHANGED <<marker, call, node, credited, tooLate>>
GivenBack(x) == /\ x \in Nat /\ x <= devfee.owed /\ Becomes(Credit(x)) /\ LEDGER_LOCK
                /\ \/ UNCHANGED <<credited, tooLate>>
                   \/ /\ sure' = {devfee'} /\ devfee' = Credit(x) /\ credited' = credited + x
                      /\ tooLate' = IF InDoubt THEN tooLate + x ELSE tooLate
                /\ UNCHANGED <<marker, call, node, recorded>>
BookedBy(c) == /\ pc[c] = "book" /\ Becomes(Booking(owed[c]))
               /\ \/ sure' = {devfee'} /\ devfee' = Booking(owed[c]) /\ Goto(c, "complete")
                  \/ Return(c)
               /\ UNCHANGED <<marker, node, tale>>
Lost == /\ devfee' \in sure /\ sure' = {devfee'} /\ NoCall /\ UNCHANGED <<node, tale>>
        /\ marker = "loose" \/ marker' = marker

LEMMA CreditWrites ==
  ASSUME FeeTypeOK, devfee \in sure, NEW back \in Back, RefundCredit(back)
  PROVE  \E x \in Nat : GivenBack(x)
  <1>1. PICK x \in Nat :
          /\ x <= devfee.owed
          /\ \/ /\ Written(Credit(x)) /\ credited' = credited + x
                /\ tooLate' = IF InDoubt THEN tooLate + x ELSE tooLate
             \/ NotWritten(Credit(x)) /\ UNCHANGED <<credited, tooLate>>
    BY CreditCases
  <1>2. LEDGER_LOCK /\ UNCHANGED <<marker, call, node, recorded>>
    BY DEF RefundCredit
  <1>3. Becomes(Credit(x))
    BY <1>1, Writing
  <1>4. Written(Credit(x)) => sure' = {devfee'} /\ devfee' = Credit(x)
    BY DEF Written
  <1>5. GivenBack(x)
    BY <1>1, <1>2, <1>3, <1>4 DEF GivenBack
  <1> QED
    BY <1>5

LEMMA BookWrites ==
  ASSUME FeeTypeOK, devfee \in sure, NEW c \in Caller, Book(c)
  PROVE  BookedBy(c)
  <1>1. Becomes(Booking(owed[c]))
    BY BookCases, Writing
  <1>2. Written(Booking(owed[c])) => sure' = {devfee'} /\ devfee' = Booking(owed[c])
    BY DEF Written
  <1> QED
    BY <1>1, <1>2, BookCases DEF BookedBy

LEMMA LedgerSteps ==
  ASSUME FeeTypeOK, devfee \in sure, [FeeNext]_feeVars
  PROVE  \/ Quiet
         \/ \E o \in Sale : Recorded(o)
         \/ \E x \in Nat : GivenBack(x)
         \/ \E c \in Caller : BookedBy(c)
         \/ Lost
  <1>1. ASSUME NEW o \in Sale, Accrue(o) PROVE Quiet \/ Recorded(o)
    BY <1>1, Writing DEF Accrue, feeVars, Quiet, Recorded
  <1>2. CASE PowerLoss
    BY <1>2 DEF PowerLoss, Lost
  <1>3. CASE Crash \/ UNCHANGED feeVars \/ (\E t \in wire : NodePays(t) \/ NodeRefuses(t))
    BY <1>3 DEF Crash, feeVars, NodePays, NodeRefuses, Quiet
  <1>4. ASSUME NEW c \in Caller,
               Start(c) \/ BeginPayout(c) \/ BeginFails(c) \/ CallNode(c) \/ Answered(c) \/ GivesUp(c)
                 \/ Complete(c)
        PROVE  Quiet
    BY <1>4 DEF Start, BeginPayout, BeginFails, CallNode, Answered, GivesUp, Complete, Quiet
  <1> QED
    BY <1>1, <1>2, <1>3, <1>4, CreditWrites, BookWrites DEF FeeNext, Step

\* What the ledgers are after each of them.
LEMMA LedgersAfter ==
  ASSUME FeeTypeOK, devfee \in sure, Countable, [FeeNext]_feeVars
  PROVE  /\ devfee' \in sure' /\ devfee' \in Ledger /\ sure' \subseteq Ledger
         /\ recorded' \in SUBSET Sale /\ IsFiniteSet(recorded')
         /\ credited' \in Nat /\ tooLate' \in Nat
         /\ \A ledger \in sure' : ledger.orders \subseteq recorded'
  <1>0. /\ devfee \in Ledger /\ sure \subseteq Ledger /\ recorded \in SUBSET Sale
        /\ devfee.orders \subseteq recorded /\ credited \in Nat /\ tooLate \in Nat
        /\ IsFiniteSet(recorded) /\ IsFiniteSet(devfee.orders)
        /\ \A ledger \in sure : ledger.orders \subseteq recorded
    <2>1. devfee.orders \subseteq recorded /\ IsFiniteSet(recorded)
      BY DEF Countable
    <2> QED
      BY <2>1, FS_Subset DEF FeeTypeOK, Countable
  <1>1. CASE Quiet
    BY <1>0, <1>1 DEF Quiet, stored, tale
  <1>2. ASSUME NEW o \in Sale, Recorded(o)
        PROVE  /\ devfee' \in sure' /\ devfee' \in Ledger /\ sure' \subseteq Ledger
               /\ recorded' \in SUBSET Sale /\ IsFiniteSet(recorded')
               /\ credited' \in Nat /\ tooLate' \in Nat
               /\ \A ledger \in sure' : ledger.orders \subseteq recorded'
    <2>1. Add(o) \in Ledger /\ Add(o).orders = devfee.orders \union {o}
      BY <1>0, <1>2, Added DEF Recorded
    <2>2. /\ devfee' = Add(o) \/ (devfee' = devfee /\ sure' = sure)
          /\ devfee' \in sure' /\ sure' \subseteq sure \union {Add(o)}
          /\ recorded' = recorded \union devfee'.orders /\ credited' = credited /\ tooLate' = tooLate
      BY <1>2 DEF Recorded, Becomes, stored
    <2>3. recorded' = recorded \/ recorded' = recorded \union {o}
      BY <1>0, <2>1, <2>2
    <2>4. IsFiniteSet(recorded') /\ recorded' \in SUBSET Sale
      BY <1>0, <2>3, FS_AddElement
    <2> QED
      BY <1>0, <2>1, <2>2, <2>4
  <1>3. ASSUME NEW x \in Nat, GivenBack(x)
        PROVE  /\ devfee' \in sure' /\ devfee' \in Ledger /\ sure' \subseteq Ledger
               /\ recorded' = recorded /\ credited' \in Nat /\ tooLate' \in Nat
               /\ \A ledger \in sure' : ledger.orders \subseteq recorded'
    <2>1. Credit(x) \in Ledger /\ Credit(x).orders = devfee.orders
      BY <1>0, <1>3, Credited DEF GivenBack
    <2>2. /\ devfee' \in {devfee, Credit(x)} /\ devfee' \in sure' /\ sure' \subseteq sure \union {Credit(x)}
          /\ recorded' = recorded
      BY <1>3 DEF GivenBack, Becomes, stored
    <2>3. credited' \in Nat /\ tooLate' \in Nat
      BY <1>0, <1>3 DEF GivenBack
    <2> QED
      BY <1>0, <2>1, <2>2, <2>3
  <1>4. ASSUME NEW c \in Caller, BookedBy(c)
        PROVE  /\ devfee' \in sure' /\ devfee' \in Ledger /\ sure' \subseteq Ledger
               /\ UNCHANGED tale
               /\ \A ledger \in sure' : ledger.orders \subseteq recorded'
    <2>0. owed[c] \in Nat
      BY DEF FeeTypeOK
    <2>1. Booking(owed[c]) \in Ledger /\ Booking(owed[c]).orders = devfee.orders
      BY <1>0, <2>0, Booked
    <2>2. /\ devfee' \in {devfee, Booking(owed[c])} /\ devfee' \in sure'
          /\ sure' \subseteq sure \union {Booking(owed[c])} /\ UNCHANGED tale
      BY <1>4 DEF BookedBy, Becomes, stored
    <2> QED
      BY <1>0, <2>1, <2>2 DEF tale
  <1>5. CASE Lost
    BY <1>0, <1>5 DEF Lost, tale
  <1> QED
    BY <1>0, <1>1, <1>2, <1>3, <1>4, <1>5, LedgerSteps DEF tale

LEMMA FeeTypeStep == ASSUME FeeTypeOK, devfee \in sure, Countable, [FeeNext]_feeVars PROVE FeeTypeOK'
  <1>1. /\ devfee' \in Ledger /\ sure' \subseteq Ledger /\ recorded' \subseteq Sale
        /\ {credited', tooLate'} \subseteq Nat
    BY LedgersAfter
  <1>2. losses' \in 0 .. MaxLosses /\ marker' \in {"none", "set", "loose"}
    <2>0. losses \in 0 .. MaxLosses /\ marker \in {"none", "set", "loose"} /\ MaxLosses \in Nat
      BY FeeAssumption DEF FeeTypeOK
    <2>1. CASE UNCHANGED <<marker, losses>>
      BY <2>0, <2>1
    <2>2. CASE PowerLoss
      BY <2>0, <2>2 DEF PowerLoss
    <2>3. ASSUME NEW c \in Caller, BeginPayout(c) \/ BeginFails(c) \/ Complete(c)
          PROVE  losses' \in 0 .. MaxLosses /\ marker' \in {"none", "set", "loose"}
      BY <2>0, <2>3 DEF BeginPayout, BeginFails, Complete
    <2> QED
      BY <2>1, <2>2, <2>3
      DEF FeeNext, Step, feeVars, Accrue, RefundCredit, Start, CallNode, NodePays, NodeRefuses, Answered, Book,
          GivesUp, Crash
  <1>3. PAYING' \in Caller \union {NoCaller} /\ pc' \in [Caller -> Labels] /\ owed' \in [Caller -> Nat]
    <2>0. PAYING \in Caller \union {NoCaller} /\ pc \in [Caller -> Labels] /\ owed \in [Caller -> Nat]
          /\ devfee.owed \in Nat
      BY DEF FeeTypeOK, Ledger
    <2>1. CASE UNCHANGED call
      BY <2>0, <2>1 DEF call
    <2>2. CASE NoCall
      BY <2>0, <2>2 DEF NoCall, Labels
    <2>3. ASSUME NEW c \in Caller, Return(c) \/ \E x \in Labels : Goto(c, x)
          PROVE  /\ PAYING' \in Caller \union {NoCaller} /\ pc' \in [Caller -> Labels]
                 /\ owed' \in [Caller -> Nat]
      BY <2>0, <2>3, GotoFields, ReturnFields
    <2>4. ASSUME NEW c \in Caller, Start(c)
          PROVE  /\ PAYING' \in Caller \union {NoCaller} /\ pc' \in [Caller -> Labels]
                 /\ owed' \in [Caller -> Nat]
      BY <2>0, <2>4 DEF Start, Labels
    <2>5. ASSUME NEW c \in Caller, Step(c) PROVE Return(c) \/ \E x \in Labels : Goto(c, x)
      BY <2>5 DEF Step, BeginPayout, BeginFails, CallNode, Answered, GivesUp, Book, Complete, Labels
    <2> QED
      BY <2>1, <2>2, <2>3, <2>4, <2>5
      DEF FeeNext, feeVars, call, Accrue, RefundCredit, NodePays, NodeRefuses, Crash, PowerLoss
  <1>4. asked' \in Nat /\ {wire', carried'} \subseteq SUBSET Transfer
    <2>1. ASSUME NEW c \in Caller, CallNode(c) PROVE asked' \in Nat /\ {wire', carried'} \subseteq SUBSET Transfer
      <3>1. [n |-> asked + 1, amount |-> owed[c]] \in Transfer /\ asked + 1 \in Nat
        BY DEF FeeTypeOK, Transfer
      <3> QED
        BY <2>1, <3>1 DEF CallNode, FeeTypeOK
    <2>2. ASSUME NEW t \in wire, NodePays(t) \/ NodeRefuses(t)
          PROVE  asked' \in Nat /\ {wire', carried'} \subseteq SUBSET Transfer
      BY <2>2 DEF NodePays, NodeRefuses, FeeTypeOK
    <2>3. CASE UNCHANGED node
      BY <2>3 DEF node, FeeTypeOK
    <2> QED
      BY <2>1, <2>2, <2>3
      DEF FeeNext, Step, feeVars, Accrue, RefundCredit, Start, BeginPayout, BeginFails, Answered, Book, Complete,
          GivesUp, Crash, PowerLoss
  <1> QED
    BY <1>1, <1>2, <1>3, <1>4 DEF FeeTypeOK

LEMMA CountStep == ASSUME FeeTypeOK, devfee \in sure, Countable, [FeeNext]_feeVars PROVE Countable'
  <1>1. IsFiniteSet(recorded') /\ \A ledger \in sure' : ledger.orders \subseteq recorded'
    BY LedgersAfter
  <1>2. /\ IsFiniteSet(wire') /\ IsFiniteSet(carried') /\ wire' \intersect carried' = {}
        /\ \A t \in wire' \union carried' : t.n <= asked'
    <2>0. /\ IsFiniteSet(wire) /\ IsFiniteSet(carried) /\ wire \intersect carried = {}
          /\ (\A t \in wire \union carried : t \in Transfer /\ t.n <= asked) /\ asked \in Nat
      BY DEF Countable, FeeTypeOK
    <2>1. ASSUME NEW c \in Caller, CallNode(c)
          PROVE  /\ IsFiniteSet(wire') /\ IsFiniteSet(carried') /\ wire' \intersect carried' = {}
                 /\ \A t \in wire' \union carried' : t.n <= asked'
      <3> DEFINE new == [n |-> asked + 1, amount |-> owed[c]]
      <3>1. /\ wire' = wire \union {new} /\ carried' = carried /\ asked' = asked + 1
            /\ new.n = asked + 1
        BY <2>1 DEF CallNode
      <3> HIDE DEF new
      <3>2. \A t \in wire \union carried : t.n <= asked' /\ t # new
        BY <2>0, <3>1 DEF Transfer
      <3>3. new.n <= asked'
        BY <2>0, <3>1
      <3>4. IsFiniteSet(wire')
        BY <2>0, <3>1, FS_AddElement
      <3> QED
        BY <2>0, <3>1, <3>2, <3>3, <3>4
    <2>2. ASSUME NEW t \in wire, NodePays(t) \/ NodeRefuses(t)
          PROVE  /\ IsFiniteSet(wire') /\ IsFiniteSet(carried') /\ wire' \intersect carried' = {}
                 /\ \A s \in wire' \union carried' : s.n <= asked'
      <3>1. IsFiniteSet(wire \ {t}) /\ IsFiniteSet(carried \union {t})
        BY <2>0, FS_RemoveElement, FS_AddElement
      <3> QED
        BY <2>0, <2>2, <3>1 DEF NodePays, NodeRefuses
    <2>3. CASE UNCHANGED node
      BY <2>0, <2>3 DEF node
    <2> QED
      BY <2>1, <2>2, <2>3
      DEF FeeNext, Step, feeVars, Accrue, RefundCredit, Start, BeginPayout, BeginFails, Answered, Book, Complete,
          GivesUp, Crash, PowerLoss
  <1> QED
    BY <1>1, <1>2 DEF Countable

LEMMA CallStep == ASSUME FeeTypeOK, Countable, OneCall, [FeeNext]_feeVars PROVE OneCall'
  <1>0. /\ devfee' \in sure' /\ NoCaller \notin Caller /\ pc \in [Caller -> Labels]
        /\ \A c \in Caller : pc[c] # "idle" <=> PAYING = c
        /\ \A c \in Caller : pc[c] \in {"pay", "wait", "book", "complete"} => marker = "set"
    BY LedgersAfter, FeeAssumption DEF OneCall, FeeTypeOK
  <1>1. CASE UNCHANGED <<call, marker>>
    BY <1>0, <1>1 DEF call, OneCall
  <1>2. CASE NoCall
    BY <1>0, <1>2 DEF NoCall, OneCall
  <1>3. ASSUME NEW c \in Caller, pc[c] # "idle", Return(c) PROVE OneCall'
    <2>1. PAYING' = NoCaller /\ pc'[c] = "idle" /\ \A d \in Caller \ {c} : pc'[d] = pc[d]
      BY <1>3, ReturnFields
    <2>2. \A d \in Caller : pc'[d] = "idle"
      BY <1>0, <1>3, <2>1
    <2> QED
      BY <1>0, <2>1, <2>2 DEF OneCall
  <1>4. ASSUME NEW c \in Caller, pc[c] # "idle", NEW x \in Labels \ {"idle"}, Goto(c, x), marker' = "set"
        PROVE  OneCall'
    <2>1. PAYING' = PAYING /\ pc'[c] = x /\ \A d \in Caller \ {c} : pc'[d] = pc[d]
      BY <1>4, GotoFields
    <2> QED
      BY <1>0, <1>4, <2>1 DEF OneCall
  <1>5. ASSUME NEW c \in Caller, Start(c) PROVE OneCall'
    <2>1. /\ pc'[c] = "begin" /\ PAYING' = c /\ PAYING = NoCaller /\ UNCHANGED marker
          /\ \A d \in Caller \ {c} : pc'[d] = pc[d]
      BY <1>0, <1>5 DEF Start
    <2> QED
      BY <1>0, <2>1 DEF OneCall
  <1>6. ASSUME NEW c \in Caller, Step(c)
        PROVE  /\ pc[c] # "idle"
               /\ \/ Return(c)
                  \/ marker' = "set" /\ \E x \in Labels \ {"idle"} : Goto(c, x)
    BY <1>0, <1>6 DEF Step, BeginPayout, BeginFails, CallNode, Answered, GivesUp, Book, Complete, Labels
  <1> QED
    BY <1>1, <1>2, <1>3, <1>4, <1>5, <1>6
    DEF FeeNext, feeVars, Accrue, RefundCredit, NodePays, NodeRefuses, Crash, PowerLoss

----------------------------------------------------------------------------
(* What has left and what is booked *)

Base == FeeTypeOK /\ Countable /\ OneCall

LEMMA BaseFacts ==
  ASSUME Base
  PROVE  /\ devfee \in sure /\ devfee \in Ledger /\ sure \in SUBSET Ledger /\ recorded \in SUBSET Sale
         /\ IsFiniteSet(recorded) /\ IsFiniteSet(devfee.orders) /\ credited \in Nat /\ tooLate \in Nat
         /\ \A ledger \in sure : /\ ledger.owed \in Nat /\ ledger.back \in Nat /\ ledger.sent_total \in Nat
                                 /\ ledger.orders \subseteq recorded /\ ledger.orders \in SUBSET Sale
                                 /\ IsFiniteSet(ledger.orders)
         /\ carried \in SUBSET Transfer /\ wire \in SUBSET Transfer
         /\ IsFiniteSet(carried) /\ IsFiniteSet(wire)
         /\ \A c \in Caller : owed[c] \in Nat
  <1>1. \A ledger \in sure : IsFiniteSet(ledger.orders)
    BY FS_Subset DEF Base, Countable
  <1> QED
    BY <1>1 DEF Base, FeeTypeOK, Countable, OneCall, Ledger

\* One caller at most is in a call.
LEMMA OnlyCall ==
  ASSUME Base, NEW c \in Caller, pc[c] # "idle", NEW d \in Caller \ {c}
  PROVE  pc[d] = "idle"
  BY DEF Base, OneCall

Labelled(labels) == \E c \in Caller : pc[c] \in labels

LEMMA CarriedSums ==
  ASSUME Base
  PROVE  /\ Sum(carried) \in Nat
         /\ \A t \in carried : /\ Sum(carried) = t.amount + Sum(carried \ {t})
                               /\ Sum(carried \ {t}) \in Nat
         /\ \A t \in wire : Sum(carried \union {t}) = t.amount + Sum(carried)
  <1>1. carried \in SUBSET Transfer /\ IsFiniteSet(carried) /\ wire \in SUBSET Transfer
        /\ wire \intersect carried = {}
    BY BaseFacts DEF Base, Countable
  <1>2. ASSUME NEW t \in wire PROVE Sum(carried \union {t}) = t.amount + Sum(carried)
    <2> DEFINE S == carried \union {t}
    <2>1. S \in SUBSET Transfer /\ IsFiniteSet(S) /\ t \in S /\ S \ {t} = carried
      BY <1>1, FS_AddElement
    <2> HIDE DEF S
    <2>2. Sum(S) = t.amount + Sum(S \ {t})
      BY <2>1, TransferSums
    <2> QED
      BY <2>1, <2>2 DEF S
  <1> QED
    BY <1>1, <1>2, TransferSums

\* The states in which the transfer of a call may be anywhere, and those in which
\* every transfer is known.
LEMMA BookedParts ==
  ASSUME Base, SentIsBooked
  PROVE  /\ marker # "set" \/ Labelled({"pay", "complete"}) =>
              wire = {} /\ \A ledger \in sure : ledger.sent_total = Sum(carried)
         /\ \A c \in Caller : pc[c] = "book" =>
              /\ wire = {} /\ Awaited(c) \in carried
              /\ \A ledger \in sure : ledger.sent_total + owed[c] = Sum(carried)
  <1>1. ASSUME NEW c \in Caller, pc[c] = "book"
        PROVE  /\ wire = {} /\ Awaited(c) \in carried
               /\ \A ledger \in sure : ledger.sent_total + owed[c] = Sum(carried)
    <2>1. /\ wire \subseteq {Awaited(c)} /\ Awaited(c) \in carried
          /\ \A ledger \in sure : ledger.sent_total = Sum(carried \ {Awaited(c)})
      BY <1>1 DEF SentIsBooked
    <2>2. wire = {}
      BY <2>1 DEF Base, Countable
    <2>3. Sum(carried) = owed[c] + Sum(carried \ {Awaited(c)}) /\ Sum(carried \ {Awaited(c)}) \in Nat
      BY <2>1, CarriedSums DEF Awaited
    <2>4. owed[c] \in Nat /\ \A ledger \in sure : ledger.sent_total \in Nat
      BY BaseFacts
    <2>5. ASSUME NEW ledger \in sure PROVE ledger.sent_total + owed[c] = Sum(carried)
      BY <2>1, <2>3, <2>4
    <2> QED
      BY <2>1, <2>2, <2>5
  <1> QED
    BY <1>1 DEF SentIsBooked, Labelled

LEMMA SameSent ==
  ASSUME Base, (\E o \in Sale : Recorded(o)) \/ (\E x \in Nat : GivenBack(x)) \/ Quiet
  PROVE  \A ledger \in sure' : \E l \in sure : ledger.sent_total = l.sent_total
  <1>1. devfee \in sure /\ devfee \in Ledger /\ IsFiniteSet(devfee.orders)
    BY BaseFacts
  <1>2. ASSUME NEW o \in Sale, Recorded(o)
        PROVE  \A ledger \in sure' : ledger \in sure \/ ledger.sent_total = devfee.sent_total
    BY <1>1, <1>2, Added DEF Recorded, Becomes
  <1>3. ASSUME NEW x \in Nat, GivenBack(x)
        PROVE  \A ledger \in sure' : ledger \in sure \/ ledger.sent_total = devfee.sent_total
    BY <1>1, <1>3, Credited DEF GivenBack, Becomes
  <1> QED
    BY <1>1, <1>2, <1>3 DEF Quiet, stored

LEMMA SentStep ==
  ASSUME Base, Base', SentIsBooked, [FeeNext]_feeVars
  PROVE  SentIsBooked'
  <1>0. /\ devfee \in sure /\ FeeTypeOK /\ Countable /\ OneCall
        /\ \A c \in Caller : pc[c] \in {"pay", "wait", "book", "complete"} => marker = "set"
    BY DEF Base, OneCall
  \* The ledger changes, the lane and the calls do not.
  <1>1. ASSUME UNCHANGED <<marker, call, node>>,
               \A ledger \in sure' : \E l \in sure : ledger.sent_total = l.sent_total
        PROVE  SentIsBooked'
    BY <1>1 DEF SentIsBooked, Awaited, call, node
  <1>2. ASSUME NEW o \in Sale, Recorded(o) PROVE SentIsBooked'
    <2>1. UNCHANGED <<marker, call, node>>
      BY <1>2 DEF Recorded
    <2> QED
      BY <1>1, <1>2, <2>1, SameSent
  <1>3. ASSUME NEW x \in Nat, GivenBack(x) PROVE SentIsBooked'
    <2>1. UNCHANGED <<marker, call, node>>
      BY <1>3 DEF GivenBack
    <2> QED
      BY <1>1, <1>3, <2>1, SameSent
  \* A call that ends with the marker in place, and no call is left.
  <1>4. ASSUME marker' = "set" , \A c \in Caller : pc'[c] = "idle" PROVE SentIsBooked'
    BY <1>4 DEF SentIsBooked
  <1>5. ASSUME NEW c \in Caller, pc[c] # "idle", Return(c)
        PROVE  \A d \in Caller : pc'[d] = "idle"
    BY <1>0, <1>5, ReturnFields, OnlyCall
  <1>6. ASSUME NEW c \in Caller, BookedBy(c) PROVE SentIsBooked'
    <2>1. /\ pc[c] = "book" /\ marker' = "set" /\ UNCHANGED node
          /\ \/ sure' = {devfee'} /\ devfee' = Booking(owed[c]) /\ Goto(c, "complete")
             \/ Return(c)
      BY <1>0, <1>6 DEF BookedBy
    <2>2. CASE sure' = {devfee'} /\ devfee' = Booking(owed[c]) /\ Goto(c, "complete")
      <3>1. devfee'.sent_total = devfee.sent_total + owed[c] /\ carried' = carried /\ wire' = wire
        BY <2>1, <2>2, Booked, BaseFacts DEF node
      <3>2. wire = {} /\ devfee.sent_total + owed[c] = Sum(carried)
        BY <1>0, <2>1, BookedParts
      <3>3. pc'[c] = "complete" /\ \A d \in Caller \ {c} : pc'[d] = "idle"
        BY <1>0, <2>1, <2>2, GotoFields, OnlyCall DEF Labels
      <3>4. \A ledger \in sure' : ledger.sent_total = Sum(carried')
        BY <2>2, <3>1, <3>2
      <3> QED
        BY <2>1, <3>1, <3>2, <3>3, <3>4 DEF SentIsBooked
    <2>3. CASE Return(c)
      BY <1>4, <1>5, <2>1, <2>3
    <2> QED
      BY <2>1, <2>2, <2>3
  \* The process or the machine stops: the lane is free only if it was.
  <1>7. ASSUME Lost \/ Crash PROVE SentIsBooked'
    <2>1. \A c \in Caller : pc'[c] = "idle"
      BY <1>7 DEF Lost, Crash, NoCall
    <2>2. CASE marker' = "set"
      BY <1>4, <2>1, <2>2
    <2>3. CASE marker' # "set"
      <3>1. marker # "set" /\ sure' \subseteq sure /\ UNCHANGED node
        BY <1>7, <2>3 DEF Lost, Crash, stored
      <3>2. \A ledger \in sure' : ledger.sent_total = Sum(carried)
        BY <3>1 DEF SentIsBooked
      <3> QED
        BY <2>1, <3>1, <3>2 DEF SentIsBooked, node
    <2> QED
      BY <2>2, <2>3
  <1>8. ASSUME NEW c \in Caller, Start(c) PROVE SentIsBooked'
    <2>1. /\ UNCHANGED <<stored, marker, node>> /\ \A d \in Caller : pc'[d] \in {"idle", "begin"}
      BY <1>0, <1>8, FeeAssumption DEF Start, OneCall, FeeTypeOK
    <2> QED
      BY <2>1 DEF SentIsBooked, stored, node
  <1>9. ASSUME NEW c \in Caller, BeginPayout(c) \/ BeginFails(c) \/ Complete(c) PROVE SentIsBooked'
    <2>1. UNCHANGED <<stored, node>>
      BY <1>9 DEF BeginPayout, BeginFails, Complete
    <2>2. \/ wire = {} /\ \A ledger \in sure : ledger.sent_total = Sum(carried)
          \/ marker' = "set" /\ BeginFails(c)
      BY <1>0, <1>9 DEF BeginPayout, BeginFails, Complete, SentIsBooked
    <2>3. \A d \in Caller : pc'[d] \in {"idle", "pay"}
      <3>1. CASE BeginPayout(c)
        BY <1>0, <3>1, GotoFields, OnlyCall DEF BeginPayout, Labels
      <3>2. CASE BeginFails(c) \/ Complete(c)
        BY <1>5, <3>2 DEF BeginFails, Complete
      <3> QED
        BY <1>9, <3>1, <3>2
    <2>4. CASE wire = {} /\ \A ledger \in sure : ledger.sent_total = Sum(carried)
      BY <2>1, <2>3, <2>4 DEF SentIsBooked, stored, node
    <2>5. CASE marker' = "set" /\ BeginFails(c)
      BY <1>4, <1>5, <2>5 DEF BeginFails
    <2> QED
      BY <2>2, <2>4, <2>5
  <1>10. ASSUME NEW c \in Caller, CallNode(c) PROVE SentIsBooked'
    <2>1. /\ pc[c] = "pay" /\ wire = {} /\ \A ledger \in sure : ledger.sent_total = Sum(carried)
          /\ marker = "set"
      BY <1>0, <1>10 DEF CallNode, SentIsBooked
    <2>2. /\ pc'[c] = "wait" /\ (\A d \in Caller \ {c} : pc'[d] = "idle")
          /\ UNCHANGED <<PAYING, owed, stored, marker, carried>>
      BY <1>0, <1>10, <2>1, GotoFields, OnlyCall DEF CallNode, Labels
    <2> DEFINE new == [n |-> asked + 1, amount |-> owed[c]]
    <2>3. wire' = {new} /\ asked' = asked + 1
      BY <1>10, <2>1 DEF CallNode
    <2>4. new \notin carried
      BY <2>2, <2>3 DEF Base, Countable
    <2>5. carried \ {new} = carried
      BY <2>4
    <2>6. \A ledger \in sure' : ledger.sent_total = Sum(carried \ {new})
      BY <2>1, <2>2, <2>5 DEF stored
    <2>7. \A d \in Caller : pc'[d] \in {"wait", "book"} => d = c /\ pc'[d] # "book"
      BY <2>2
    <2>8. marker' = "set" /\ \A d \in Caller : pc'[d] \notin {"pay", "complete"}
      BY <2>1, <2>2
    <2>9. [n |-> asked', amount |-> owed'[c]] = new
      BY <2>2, <2>3
    <2> HIDE DEF new
    <2> QED
      BY <2>2, <2>3, <2>6, <2>7, <2>8, <2>9 DEF SentIsBooked, Awaited
  <1>11. ASSUME NEW c \in Caller, Answered(c) PROVE SentIsBooked'
    <2>1. /\ pc[c] = "wait" /\ Awaited(c) \in carried /\ UNCHANGED <<stored, marker, node, owed>>
      BY <1>11, GotoFields DEF Answered, Awaited, Goto
    <2>2. pc'[c] = "book" /\ (\A d \in Caller \ {c} : pc'[d] = "idle") /\ marker = "set"
      BY <1>0, <1>11, <2>1, GotoFields, OnlyCall DEF Answered, Labels
    <2>3. /\ wire \subseteq {Awaited(c)}
          /\ \A ledger \in sure : ledger.sent_total = Sum(carried \ {Awaited(c)})
      BY <2>1 DEF SentIsBooked
    <2> QED
      BY <2>1, <2>2, <2>3 DEF SentIsBooked, Awaited, stored, node
  <1>12. ASSUME NEW c \in Caller, GivesUp(c) PROVE SentIsBooked'
    BY <1>0, <1>4, <1>5, <1>12 DEF GivesUp
  <1>13. ASSUME NEW t \in wire, NodePays(t) \/ NodeRefuses(t) PROVE SentIsBooked'
    <2>1. /\ UNCHANGED <<stored, marker, call, asked>> /\ wire' = wire \ {t}
          /\ carried' = carried \/ carried' = carried \union {t}
      BY <1>13 DEF NodePays, NodeRefuses
    <2>2. ~(marker # "set" \/ (\E c \in Caller : pc[c] \in {"pay", "complete"}))
      BY DEF SentIsBooked
    <2>3. ASSUME NEW c \in Caller, pc[c] \in {"wait", "book"}
          PROVE  /\ wire' = {} /\ carried' \ {Awaited(c)} = carried \ {Awaited(c)}
                 /\ pc[c] = "book" => Awaited(c) \in carried'
      <3>1. t = Awaited(c) /\ wire \subseteq {Awaited(c)} /\ (pc[c] = "book" => Awaited(c) \in carried)
        BY <2>3 DEF SentIsBooked
      <3> HIDE DEF Awaited
      <3>2. wire' = {}
        BY <2>1, <3>1
      <3>3. carried' \ {t} = carried \ {t}
        BY <2>1
      <3> QED
        BY <2>1, <3>1, <3>2, <3>3
    <2>4. ASSUME NEW c \in Caller, pc[c] \in {"wait", "book"}
          PROVE  \A ledger \in sure : ledger.sent_total = Sum(carried' \ {Awaited(c)})
      BY <2>3, <2>4 DEF SentIsBooked
    <2>5. \A c \in Caller : Awaited(c)' = Awaited(c) /\ pc'[c] = pc[c]
      BY <2>1 DEF Awaited, call
    <2>6. marker' = marker /\ sure' = sure
      BY <2>1 DEF stored
    <2> QED
      BY <2>2, <2>3, <2>4, <2>5, <2>6 DEF SentIsBooked
  <1>14. CASE UNCHANGED feeVars
    BY <1>14 DEF feeVars, stored, call, node, SentIsBooked, Awaited
  <1>15. ASSUME NEW o \in Sale, Accrue(o) PROVE SentIsBooked'
    <2>1. UNCHANGED feeVars \/ Recorded(o)
      BY <1>0, <1>15, Writing DEF Accrue, Recorded
    <2> QED
      BY <1>2, <1>14, <2>1
  <1>16. ASSUME NEW back \in Back, RefundCredit(back) PROVE \E x \in Nat : GivenBack(x)
    BY <1>0, <1>16, CreditWrites
  <1>17. ASSUME NEW c \in Caller, Book(c) PROVE BookedBy(c)
    BY <1>0, <1>17, BookWrites
  <1>18. CASE PowerLoss
    BY <1>7, <1>18 DEF PowerLoss, Lost
  <1> QED
    BY <1>3, <1>6, <1>7, <1>8, <1>9, <1>10, <1>11, <1>12, <1>13, <1>14, <1>15, <1>16, <1>17, <1>18
    DEF FeeNext, Step

----------------------------------------------------------------------------
(* What a ledger accounts for *)

\* What has been carried out stays so.
LEMMA CarriedGrows ==
  ASSUME Base, Base', [FeeNext]_feeVars
  PROVE  /\ Sum(carried) \in Nat /\ Sum(carried') \in Nat /\ Sum(carried) <= Sum(carried')
         /\ ~Quiet => carried' = carried
  <1>1. \/ carried' = carried
        \/ carried' \in SUBSET Transfer /\ IsFiniteSet(carried') /\ carried \subseteq carried' /\ Quiet
    <2>1. carried' \in SUBSET Transfer /\ IsFiniteSet(carried')
      BY DEF Base, FeeTypeOK, Countable
    <2>2. ASSUME NEW t \in wire, NodePays(t) \/ NodeRefuses(t)
          PROVE  /\ carried' = carried \/ carried' = carried \union {t}
                 /\ Quiet
      BY <2>2 DEF NodePays, NodeRefuses, Quiet
    <2>3. CASE \E t \in wire : NodePays(t) \/ NodeRefuses(t)
      BY <2>1, <2>2, <2>3
    <2>4. CASE carried' = carried
      BY <2>4
    <2> QED
      BY <2>3, <2>4
      DEF FeeNext, Step, feeVars, node, Accrue, RefundCredit, Start, BeginPayout, BeginFails, CallNode, Answered,
          Book, Complete, GivesUp, Crash, PowerLoss
  <1>2. Sum(carried) \in Nat
    BY CarriedSums
  <1>3. CASE carried' = carried
    BY <1>2, <1>3
  <1>4. CASE carried' \in SUBSET Transfer /\ IsFiniteSet(carried') /\ carried \subseteq carried' /\ Quiet
    BY <1>2, <1>4, TransferSums
  <1> QED
    BY <1>1, <1>3, <1>4

LEMMA BalanceStep ==
  ASSUME Base, Base', SentIsBooked, Balanced, [FeeNext]_feeVars
  PROVE  Balanced'
  <1>0. /\ devfee \in sure /\ devfee \in Ledger /\ IsFiniteSet(devfee.orders) /\ FeeTypeOK
        /\ devfee.owed \in Nat /\ devfee.back \in Nat /\ devfee.sent_total \in Nat
        /\ \A c \in Caller : owed[c] \in Nat
    BY BaseFacts DEF Base
  <1>1. /\ \A ledger \in sure : /\ ledger.owed \in Nat /\ ledger.back \in Nat
                                /\ ledger.sent_total \in Nat /\ Fees(ledger.orders) \in Nat
                                /\ ledger.owed + ledger.back + ledger.sent_total >= Fees(ledger.orders)
                                /\ ledger.sent_total <= Sum(carried)
        /\ Sum(carried) \in Nat /\ Sum(carried') \in Nat /\ Sum(carried) <= Sum(carried')
    BY CarriedGrows, BaseFacts, FeeSums DEF Balanced
  <1>2. ASSUME NEW ledger, sure' \subseteq sure \union {ledger},
               ledger.owed + ledger.back + ledger.sent_total >= Fees(ledger.orders),
               ledger.sent_total \in Nat, ledger.sent_total <= Sum(carried)
        PROVE  Balanced'
    BY <1>1, <1>2 DEF Balanced
  <1>3. CASE Quiet \/ Lost
    <2>1. sure' \subseteq sure
      BY <1>3 DEF Quiet, Lost, stored
    <2> QED
      BY <1>1, <2>1 DEF Balanced
  <1>4. ASSUME NEW o \in Sale, Recorded(o) PROVE Balanced'
    <2>1. /\ Add(o).owed = devfee.owed + Fee[o] /\ Add(o).sent_total = devfee.sent_total
          /\ Add(o).back = devfee.back
          /\ Fees(Add(o).orders) = Fee[o] + Fees(devfee.orders)
          /\ Fees(devfee.orders) \in Nat /\ Fee[o] \in Nat
          /\ sure' \subseteq sure \union {Add(o)}
      BY <1>0, <1>4, Added DEF Recorded, Becomes
    <2>2. devfee.owed + devfee.back + devfee.sent_total >= Fees(devfee.orders) /\ devfee.sent_total <= Sum(carried)
      BY <1>0, <1>1
    <2>3. Add(o).owed + Add(o).back + Add(o).sent_total >= Fees(Add(o).orders)
      BY <1>0, <2>1, <2>2
    <2> QED
      BY <1>0, <1>2, <2>1, <2>2, <2>3
  <1>5. ASSUME NEW x \in Nat, GivenBack(x) PROVE Balanced'
    <2> DEFINE l == Credit(x)
    <2>1. /\ l.owed = devfee.owed - x /\ l.back = devfee.back + x
          /\ l.sent_total = devfee.sent_total /\ l.orders = devfee.orders
          /\ sure' \subseteq sure \union {l}
      BY <1>0, <1>5, Credited DEF GivenBack, Becomes
    <2>2. /\ devfee.owed + devfee.back + devfee.sent_total >= Fees(devfee.orders)
          /\ devfee.sent_total <= Sum(carried)
      BY <1>0, <1>1
    <2> HIDE DEF l
    <2>3. l.owed + l.back + l.sent_total >= Fees(l.orders)
      BY <1>0, <2>1, <2>2
    <2> QED
      BY <1>0, <1>2, <2>1, <2>2, <2>3
  <1>6. ASSUME NEW c \in Caller, BookedBy(c) PROVE Balanced'
    <2> DEFINE l == Booking(owed[c])
    <2>1. /\ l.owed = IF devfee.owed >= owed[c] THEN devfee.owed - owed[c] ELSE 0
          /\ l.sent_total = devfee.sent_total + owed[c]
          /\ l.back = devfee.back /\ l.orders = devfee.orders
          /\ sure' \subseteq sure \union {l}
      BY <1>0, <1>6, Booked DEF BookedBy, Becomes
    <2>2. /\ devfee.owed + devfee.back + devfee.sent_total >= Fees(devfee.orders)
          /\ devfee.sent_total + owed[c] = Sum(carried) /\ Fees(devfee.orders) \in Nat
      BY <1>0, <1>1, <1>6, BookedParts DEF BookedBy
    <2> HIDE DEF l
    <2>3. l.owed + l.back + l.sent_total >= Fees(l.orders) /\ l.sent_total \in Nat
      BY <1>0, <2>1, <2>2
    <2> QED
      BY <1>0, <1>1, <1>2, <2>1, <2>2, <2>3
  <1> QED
    BY <1>0, <1>3, <1>4, <1>5, <1>6, LedgerSteps

----------------------------------------------------------------------------
(* What is owed, and what leaves *)

\* The lane is free, or a call has set the marker and has not given up.
Open == marker # "set" \/ Labelled(Underway \union {"complete"})

LEMMA OpenParts ==
  ASSUME Base
  PROVE  /\ OwedIsOpen <=>
              /\ Open => \A ledger \in sure :
                           ledger.owed + ledger.sent_total + credited <= Fees(ledger.orders) + tooLate
              /\ \A c \in Caller : (pc[c] = "begin" /\ marker # "set") \/ pc[c] \in Underway =>
                   owed[c] + devfee.sent_total + credited <= Fees(devfee.orders) + tooLate
         /\ \A ledger \in sure : /\ ledger.owed \in Nat /\ ledger.sent_total \in Nat
                                 /\ Fees(ledger.orders) \in Nat
                                 /\ Fees(ledger.orders) <= Fees(recorded)
         /\ Fees(recorded) \in Nat
  <1>1. \A ledger \in sure : /\ ledger.owed \in Nat /\ ledger.sent_total \in Nat
                             /\ Fees(ledger.orders) \in Nat
                             /\ Fees(ledger.orders) <= Fees(recorded)
    BY BaseFacts, FeeSums
  <1>2. Fees(recorded) \in Nat
    BY BaseFacts, FeeSums
  <1> QED
    BY <1>1, <1>2 DEF OwedIsOpen, Open, Labelled

LEMMA OpenStep ==
  ASSUME Base, Base', SentIsBooked, OwedIsOpen, [FeeNext]_feeVars
  PROVE  OwedIsOpen'
  <1>0. /\ devfee \in sure /\ devfee \in Ledger /\ IsFiniteSet(devfee.orders) /\ FeeTypeOK /\ OneCall
        /\ devfee.owed \in Nat /\ devfee.back \in Nat /\ devfee.sent_total \in Nat /\ Fees(devfee.orders) \in Nat
        /\ credited \in Nat /\ tooLate \in Nat
        /\ (\A c \in Caller : owed[c] \in Nat)
    BY BaseFacts, FeeSums DEF Base
  <1>1. /\ Open => \A ledger \in sure :
                     ledger.owed + ledger.sent_total + credited <= Fees(ledger.orders) + tooLate
        /\ \A c \in Caller : (pc[c] = "begin" /\ marker # "set") \/ pc[c] \in Underway =>
             owed[c] + devfee.sent_total + credited <= Fees(devfee.orders) + tooLate
    BY OpenParts
  <1>9. /\ \A c \in Caller : pc[c] # "idle" <=> PAYING = c
        /\ \A c \in Caller : pc[c] \in {"pay", "wait", "book", "complete"} => marker = "set"
    BY <1>0 DEF OneCall
  \* No call is left, and the lane is free only if the ledgers were in order.
  <1>2. ASSUME \A c \in Caller : pc'[c] = "idle", sure' \subseteq sure, UNCHANGED <<credited, tooLate>>,
               marker' # "set" => Open
        PROVE  OwedIsOpen'
    <2>1. Open' => Open
      BY <1>2 DEF Open, Labelled, Underway
    <2> QED
      BY <1>1, <1>2, <2>1 DEF OwedIsOpen, Open, Labelled, Underway
  \* The one call goes on, and the ledger stays.
  <1>3. ASSUME NEW c \in Caller, \A d \in Caller \ {c} : pc'[d] = "idle",
               UNCHANGED <<stored, tale>>, Open' => Open,
               (pc'[c] = "begin" /\ marker' # "set") \/ pc'[c] \in Underway =>
                  owed'[c] + devfee.sent_total + credited <= Fees(devfee.orders) + tooLate
        PROVE  OwedIsOpen'
    <2>1. \A d \in Caller : (pc'[d] = "begin" /\ marker' # "set") \/ pc'[d] \in Underway =>
            owed'[d] + devfee'.sent_total + credited' <= Fees(devfee'.orders) + tooLate'
      BY <1>3 DEF stored, tale, Underway
    <2>2. Open' => \A ledger \in sure' :
            ledger.owed + ledger.sent_total + credited' <= Fees(ledger.orders) + tooLate'
      BY <1>1, <1>3 DEF stored, tale
    <2> QED
      BY <2>1, <2>2, OpenParts DEF OwedIsOpen, Open, Labelled
  <1>4. ASSUME NEW c \in Caller, pc[c] # "idle", Return(c)
        PROVE  \A d \in Caller : pc'[d] = "idle"
    BY <1>0, <1>4, ReturnFields, OnlyCall
  \* The ledger changes, the lane and the calls do not.
  <1>5. ASSUME NEW o \in Sale, Recorded(o) PROVE OwedIsOpen'
    <2>1. /\ Add(o).owed = devfee.owed + Fee[o] /\ Add(o).sent_total = devfee.sent_total
          /\ Fees(Add(o).orders) = Fee[o] + Fees(devfee.orders) /\ Fee[o] \in Nat
          /\ sure' \subseteq sure \union {Add(o)} /\ devfee' \in {devfee, Add(o)}
          /\ UNCHANGED <<marker, call, credited, tooLate>>
      BY <1>0, <1>5, Added DEF Recorded, Becomes, stored
    <2>2. Open => \A ledger \in sure' :
            ledger.owed + ledger.sent_total + credited <= Fees(ledger.orders) + tooLate
      BY <1>0, <1>1, <2>1
    <2>3. \A c \in Caller : (pc[c] = "begin" /\ marker # "set") \/ pc[c] \in Underway =>
            owed[c] + devfee'.sent_total + credited <= Fees(devfee'.orders) + tooLate
      BY <1>0, <1>1, <2>1
    <2> QED
      BY <2>1, <2>2, <2>3 DEF OwedIsOpen, Open, Labelled, call
  <1>6. ASSUME NEW x \in Nat, GivenBack(x) PROVE OwedIsOpen'
    <2> DEFINE l == Credit(x)
    <2>1. /\ l.owed = devfee.owed - x /\ l.sent_total = devfee.sent_total /\ l.orders = devfee.orders
          /\ sure' \subseteq sure \union {l} /\ devfee' \in {devfee, l}
          /\ UNCHANGED <<marker, call>>
          /\ \/ UNCHANGED <<credited, tooLate>>
             \/ /\ sure' = {l} /\ credited' = credited + x
                /\ tooLate' = IF InDoubt THEN tooLate + x ELSE tooLate
      BY <1>0, <1>6, Credited DEF GivenBack, Becomes, stored
    <2> HIDE DEF l
    <2>2. Open => \A ledger \in sure' :
            ledger.owed + ledger.sent_total + credited' <= Fees(ledger.orders) + tooLate'
      <3>1. CASE UNCHANGED <<credited, tooLate>>
        BY <1>0, <1>1, <1>6, <2>1, <3>1 DEF GivenBack
      <3>2. CASE /\ sure' = {l} /\ credited' = credited + x
                 /\ tooLate' = IF InDoubt THEN tooLate + x ELSE tooLate
        BY <1>0, <1>1, <2>1, <3>2
      <3> QED
        BY <2>1, <3>1, <3>2
    <2>3. ASSUME NEW c \in Caller, (pc[c] = "begin" /\ marker # "set") \/ pc[c] \in Underway
          PROVE  owed[c] + devfee'.sent_total + credited' <= Fees(devfee'.orders) + tooLate'
      <3>1. owed[c] + devfee.sent_total + credited <= Fees(devfee.orders) + tooLate
        BY <1>1, <2>3
      <3>2. InDoubt
        BY <1>9, <2>3, FeeAssumption DEF InDoubt, Underway
      <3> QED
        BY <1>0, <2>1, <3>1, <3>2
    <2> QED
      BY <2>1, <2>2, <2>3 DEF OwedIsOpen, Open, Labelled, call
  <1>7. ASSUME NEW c \in Caller, BookedBy(c) PROVE OwedIsOpen'
    <2> DEFINE l == Booking(owed[c])
    <2>1. /\ l.owed = IF devfee.owed >= owed[c] THEN devfee.owed - owed[c] ELSE 0
          /\ l.sent_total = devfee.sent_total + owed[c] /\ l.orders = devfee.orders
          /\ sure' \subseteq sure \union {l}
          /\ UNCHANGED <<marker, credited, tooLate>> /\ pc[c] = "book"
          /\ Goto(c, "complete") \/ Return(c)
      BY <1>0, <1>7, Booked DEF BookedBy, Becomes, tale
    <2> HIDE DEF l
    <2>2. Open /\ marker' = "set" /\ owed[c] + devfee.sent_total + credited <= Fees(devfee.orders) + tooLate
      BY <1>1, <1>9, <2>1 DEF Open, Labelled, Underway
    <2>3. \A ledger \in sure' : ledger.owed + ledger.sent_total + credited <= Fees(ledger.orders) + tooLate
      <3>1. devfee.owed + devfee.sent_total + credited <= Fees(devfee.orders) + tooLate
        BY <1>0, <1>1, <2>2
      <3>2. l.owed + l.sent_total + credited <= Fees(l.orders) + tooLate
        BY <1>0, <2>1, <2>2, <3>1
      <3> QED
        BY <1>1, <2>1, <2>2, <3>2
    <2>4. \A d \in Caller : pc'[d] \in {"idle", "complete"}
      BY <1>0, <1>4, <2>1, GotoFields, OnlyCall DEF Labels
    <2> QED
      BY <2>1, <2>2, <2>3, <2>4 DEF OwedIsOpen, Underway
  <1>8. CASE Lost
    <2>1. /\ \A c \in Caller : pc'[c] = "idle"
          /\ sure' \subseteq sure /\ UNCHANGED <<credited, tooLate>> /\ (marker' # "set" => marker # "set")
      BY <1>8 DEF Lost, NoCall, tale
    <2> QED
      BY <1>2, <2>1 DEF Open
  <1>10. CASE Crash
    <2>1. /\ \A c \in Caller : pc'[c] = "idle"
          /\ sure' = sure /\ UNCHANGED <<credited, tooLate, marker>>
      BY <1>10 DEF Crash, NoCall, tale, stored
    <2> QED
      BY <1>2, <2>1 DEF Open
  <1>11. ASSUME NEW c \in Caller, Start(c) PROVE OwedIsOpen'
    <2>1. /\ pc'[c] = "begin" /\ (\A d \in Caller \ {c} : pc'[d] = "idle")
          /\ UNCHANGED <<stored, tale, marker>> /\ owed'[c] = devfee.owed
      BY <1>0, <1>9, <1>11, FeeAssumption DEF Start, FeeTypeOK
    <2>2. Open' => Open
      BY <2>1 DEF Open, Labelled, Underway
    <2>3. marker' # "set" => owed'[c] + devfee.sent_total + credited <= Fees(devfee.orders) + tooLate
      BY <1>0, <1>1, <2>1 DEF Open
    <2> QED
      BY <1>3, <2>1, <2>2, <2>3 DEF Underway
  <1>12. ASSUME NEW c \in Caller, BeginFails(c) \/ Complete(c) \/ GivesUp(c) PROVE OwedIsOpen'
    <2>1. /\ \A d \in Caller : pc'[d] = "idle"
          /\ UNCHANGED <<stored, tale>>
      BY <1>4, <1>12 DEF BeginFails, Complete, GivesUp
    <2>2. marker' # "set" => Open
      BY <1>12 DEF BeginFails, Complete, GivesUp, Open, Labelled
    <2> QED
      BY <1>2, <2>1, <2>2 DEF stored, tale
  <1>13. ASSUME NEW c \in Caller, BeginPayout(c) \/ CallNode(c) \/ Answered(c) PROVE OwedIsOpen'
    <2>1. /\ \A d \in Caller \ {c} : pc'[d] = "idle"
          /\ UNCHANGED <<stored, tale, owed>>
      BY <1>0, <1>13, GotoFields, OnlyCall DEF BeginPayout, CallNode, Answered, Labels
    <2>2. Open /\ owed[c] + devfee.sent_total + credited <= Fees(devfee.orders) + tooLate
      BY <1>1, <1>13 DEF BeginPayout, CallNode, Answered, Open, Labelled, Underway
    <2> QED
      BY <1>3, <2>1, <2>2
  <1>14. ASSUME UNCHANGED <<stored, tale, marker, call>> PROVE OwedIsOpen'
    BY <1>14 DEF OwedIsOpen, stored, tale, call
  <1>15. CASE UNCHANGED feeVars \/ \E t \in wire : NodePays(t) \/ NodeRefuses(t)
    BY <1>14, <1>15 DEF feeVars, NodePays, NodeRefuses
  <1>16. ASSUME NEW o \in Sale, Accrue(o) PROVE OwedIsOpen'
    <2>1. UNCHANGED feeVars \/ Recorded(o)
      BY <1>0, <1>16, Writing DEF Accrue, Recorded
    <2> QED
      BY <1>5, <1>15, <2>1
  <1>17. CASE PowerLoss
    BY <1>8, <1>17 DEF PowerLoss, Lost
  <1> QED
    BY <1>0, <1>6, <1>7, <1>10, <1>11, <1>12, <1>13, <1>15, <1>16, <1>17, CreditWrites, BookWrites
    DEF FeeNext, Step

LEMMA OverpaidStep ==
  ASSUME Base, Base', SentIsBooked, OwedIsOpen, NeverOverpaid, [FeeNext]_feeVars
  PROVE  NeverOverpaid'
  <1> DEFINE W == wire \union carried
  <1>0. /\ devfee \in sure /\ FeeTypeOK /\ credited \in Nat /\ tooLate \in Nat
        /\ W \in SUBSET Transfer /\ IsFiniteSet(W) /\ Fees(recorded) \in Nat
        /\ Sum(W) + credited <= Fees(recorded) + tooLate
        /\ (\A c \in Caller : owed[c] \in Nat)
    BY BaseFacts, FeeSums, FS_Union DEF Base, NeverOverpaid
  <1>1. /\ devfee.owed \in Nat /\ devfee.sent_total \in Nat
        /\ Fees(devfee.orders) \in Nat /\ Fees(devfee.orders) <= Fees(recorded)
        /\ Open => devfee.owed + devfee.sent_total + credited <= Fees(devfee.orders) + tooLate
        /\ \A c \in Caller : (pc[c] = "begin" /\ marker # "set") \/ pc[c] \in Underway =>
             owed[c] + devfee.sent_total + credited <= Fees(devfee.orders) + tooLate
    BY <1>0, OpenParts
  <1>2. Sum(W) \in Nat /\ \A T \in SUBSET W : Sum(T) \in Nat /\ Sum(T) <= Sum(W)
    <2> HIDE DEF W
    <2> QED
      BY <1>0, TransferSums
  \* Nothing new is asked for, and no credit is counted.
  <1>3. ASSUME wire' \union carried' \subseteq W, UNCHANGED <<credited, tooLate>>,
               Fees(recorded) <= Fees(recorded'), Fees(recorded') \in Nat
        PROVE  NeverOverpaid'
    <2> HIDE DEF W
    <2>1. Sum(wire' \union carried') \in Nat /\ Sum(wire' \union carried') <= Sum(W)
      BY <1>2, <1>3
    <2>2. Sum(wire' \union carried') + credited <= Fees(recorded') + tooLate
      BY <1>0, <1>2, <1>3, <2>1
    <2> QED
      BY <1>3, <2>2 DEF NeverOverpaid
  <1>4. ASSUME UNCHANGED tale, wire' \union carried' \subseteq W PROVE NeverOverpaid'
    BY <1>0, <1>3, <1>4 DEF tale
  <1>5. ASSUME NEW o \in Sale, Recorded(o) PROVE NeverOverpaid'
    <2>1. /\ recorded \subseteq recorded' /\ UNCHANGED <<credited, tooLate, node>>
      BY <1>5 DEF Recorded
    <2>2. recorded' \in SUBSET Sale /\ IsFiniteSet(recorded')
      BY DEF Base, FeeTypeOK, Countable
    <2>3. Fees(recorded) <= Fees(recorded') /\ Fees(recorded') \in Nat
      BY <2>1, <2>2, FeeSums
    <2> QED
      BY <1>3, <2>1, <2>3 DEF node
  \* A credit is counted: a payment may be too early for it, or it is off what is owed.
  <1>6. ASSUME NEW x \in Nat, GivenBack(x) PROVE NeverOverpaid'
    <2>1. /\ UNCHANGED <<node, recorded>> /\ x <= devfee.owed
          /\ \/ UNCHANGED <<credited, tooLate>>
             \/ credited' = credited + x /\ tooLate' = IF InDoubt THEN tooLate + x ELSE tooLate
      BY <1>6 DEF GivenBack
    <2>2. CASE UNCHANGED <<credited, tooLate>>
      BY <1>4, <2>1, <2>2 DEF node, tale
    <2>3. CASE credited' = credited + x /\ tooLate' = tooLate + x
      BY <1>0, <1>2, <2>1, <2>3 DEF NeverOverpaid, node
    <2>4. CASE credited' = credited + x /\ tooLate' = tooLate /\ ~InDoubt
      <3>1. marker # "set" /\ wire = {} /\ devfee.sent_total = Sum(carried)
        BY <1>0, <2>4 DEF InDoubt, SentIsBooked
      <3>2. devfee.owed + devfee.sent_total + credited <= Fees(devfee.orders) + tooLate /\ W = carried
        BY <1>1, <3>1 DEF Open
      <3> HIDE DEF W
      <3>3. Sum(W) = devfee.sent_total
        BY <3>1, <3>2
      <3>4. Sum(W) + (credited + x) <= Fees(recorded) + tooLate
        BY <1>0, <1>1, <2>1, <3>2, <3>3
      <3> QED
        BY <2>1, <2>4, <3>4 DEF NeverOverpaid, node, W
    <2> QED
      BY <2>1, <2>2, <2>3, <2>4
  \* A payment is asked for: what it sends is open.
  <1>7. ASSUME NEW c \in Caller, CallNode(c) PROVE NeverOverpaid'
    <2> DEFINE new == [n |-> asked + 1, amount |-> owed[c]]
    <2>1. /\ wire = {} /\ devfee.sent_total = Sum(carried) /\ UNCHANGED <<tale, carried>>
          /\ pc[c] = "pay"
      BY <1>0, <1>7 DEF CallNode, SentIsBooked
    <2>2. owed[c] + devfee.sent_total + credited <= Fees(devfee.orders) + tooLate
      BY <1>1, <2>1 DEF Underway
    <2>3. wire' = {new} /\ asked' = asked + 1 /\ new.amount = owed[c]
      BY <1>7, <2>1 DEF CallNode
    <2> HIDE DEF new
    <2>4. wire' \in SUBSET Transfer /\ new \notin carried /\ carried \in SUBSET Transfer
          /\ IsFiniteSet(carried)
      BY <2>1, <2>3, BaseFacts DEF Base, FeeTypeOK, Countable
    <2> DEFINE S == carried \union {new}
    <2>5. S \in SUBSET Transfer /\ IsFiniteSet(S) /\ new \in S /\ S \ {new} = carried
          /\ wire' \union carried' = S
      BY <2>1, <2>3, <2>4, FS_AddElement
    <2> HIDE DEF S
    <2>6. Sum(S) = owed[c] + devfee.sent_total
      BY <2>1, <2>3, <2>5, TransferSums
    <2>7. Sum(S) + credited <= Fees(recorded) + tooLate
      BY <1>0, <1>1, <2>2, <2>6
    <2> QED
      BY <2>1, <2>5, <2>7 DEF NeverOverpaid, tale
  <1>8. ASSUME NEW t \in wire, NodePays(t) \/ NodeRefuses(t) PROVE NeverOverpaid'
    <2>1. UNCHANGED tale /\ wire' \union carried' \subseteq W
      BY <1>8 DEF NodePays, NodeRefuses
    <2> QED
      BY <1>4, <2>1
  <1>9. CASE UNCHANGED <<node, tale>>
    BY <1>4, <1>9 DEF node
  <1>10. ASSUME NEW o \in Sale, Accrue(o) PROVE NeverOverpaid'
    <2>1. UNCHANGED feeVars \/ Recorded(o)
      BY <1>0, <1>10, Writing DEF Accrue, Recorded
    <2> QED
      BY <1>5, <1>9, <2>1 DEF feeVars
  <1> QED
    BY <1>0, <1>6, <1>7, <1>8, <1>9, <1>10, CreditWrites
    DEF FeeNext, Step, feeVars, Start, BeginPayout, BeginFails, Answered, GivesUp, Book, Complete, Crash, PowerLoss

----------------------------------------------------------------------------
(* The theorems *)

LEMMA InitHolds == FeeInit => FeeIInv
  <1> SUFFICES ASSUME FeeInit PROVE FeeIInv
    OBVIOUS
  <1>0. {} \in SUBSET Transfer /\ IsFiniteSet({}) /\ {} \in SUBSET Sale
    BY FS_EmptySet
  <1>1. Empty \in Ledger /\ Empty.owed = 0 /\ Empty.back = 0 /\ Empty.sent_total = 0 /\ Empty.orders = {}
    BY DEF Empty, Ledger
  <1>2. Sum({}) = 0 /\ Fees({}) = 0
    BY SumOfNone DEF Sum, SumFunction, Fees
  <1>3. FeeTypeOK
    BY <1>1, FeeAssumption DEF FeeInit, FeeTypeOK, Labels
  <1>4. Countable
    BY <1>0, <1>1 DEF FeeInit, Countable
  <1>5. OneCall
    BY FeeAssumption DEF FeeInit, OneCall
  <1>6. SentIsBooked /\ Balanced /\ OwedIsOpen
    BY <1>1, <1>2 DEF FeeInit, SentIsBooked, Balanced, OwedIsOpen, Underway
  <1>7. NeverOverpaid
    BY <1>2 DEF FeeInit, NeverOverpaid
  <1> QED
    BY <1>3, <1>4, <1>5, <1>6, <1>7 DEF FeeIInv

LEMMA Invariance == FeeSpec => []FeeIInv
  <1>1. ASSUME FeeIInv, [FeeNext]_feeVars PROVE FeeIInv'
    <2>1. Base /\ devfee \in sure
      BY <1>1 DEF FeeIInv, Base, OneCall
    <2>2. FeeTypeOK' /\ Countable' /\ OneCall'
      BY <1>1, <2>1, FeeTypeStep, CountStep, CallStep DEF FeeIInv
    <2>3. Base'
      BY <2>2 DEF Base
    <2>4. SentIsBooked' /\ Balanced' /\ OwedIsOpen' /\ NeverOverpaid'
      BY <1>1, <2>1, <2>3, SentStep, BalanceStep, OpenStep, OverpaidStep DEF FeeIInv
    <2> QED
      BY <2>2, <2>4 DEF FeeIInv
  <1> QED
    BY <1>1, InitHolds, PTL DEF FeeSpec

\* devfee.json, the flag and the lane keep their types.
THEOREM FeeTypeCorrect == FeeSpec => []FeeTypeOK
  BY Invariance, PTL DEF FeeIInv

\* What has left or is on its way, with what refunds were told was given back, is
\* at most the shares of the sales recorded and the credits that came too late.
THEOREM DeveloperIsNotOverpaid == FeeSpec => []NeverOverpaid
  BY Invariance, PTL DEF FeeIInv

\* In whatever ledger a power loss leaves, the share of each of its sales is still
\* owed, was given back, or has left.
THEOREM LedgerErasesNothing == FeeSpec => []NothingIsErased
  <1>1. FeeIInv => NothingIsErased
    <2> SUFFICES ASSUME FeeIInv, NEW ledger \in sure
                 PROVE  ledger.owed + ledger.back + Sum(carried) >= Fees(ledger.orders)
      BY DEF NothingIsErased
    <2>1. Base
      BY DEF FeeIInv, Base
    <2>2. /\ ledger.owed \in Nat /\ ledger.back \in Nat /\ ledger.sent_total \in Nat
          /\ Sum(carried) \in Nat /\ Fees(ledger.orders) \in Nat
      BY <2>1, BaseFacts, CarriedSums, OpenParts
    <2>3. /\ ledger.owed + ledger.back + ledger.sent_total >= Fees(ledger.orders)
          /\ ledger.sent_total <= Sum(carried)
      BY DEF FeeIInv, Balanced
    <2> QED
      BY <2>2, <2>3
  <1> QED
    BY <1>1, Invariance, PTL

\* A payment may begin only when no other is on its way and every ledger a power
\* loss may leave has booked all that has left.
THEOREM FreeMeansBooked == FeeSpec => []FreeLaneIsBooked
  <1>1. FeeIInv => FreeLaneIsBooked
    BY DEF FeeIInv, SentIsBooked, FreeLaneIsBooked
  <1> QED
    BY <1>1, Invariance, PTL
=============================================================================
