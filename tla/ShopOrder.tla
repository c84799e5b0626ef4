----------------------------- MODULE ShopOrder -----------------------------
(***************************************************************************)
(* An order at the counter, from the customer's tap to the sale in the     *)
(* ledger: api_order and sweep_payments of server.rs, the stock holds of   *)
(* stock.rs, the time slots of booking.rs, and pending.json of ledger.rs,  *)
(* which the shop's own look at the ledger settles as well (ledger_sweep).  *)
(*                                                                         *)
(* Requests run side by side and take one lock at a time, so the menu, the *)
(* holds, the pending orders and the slots are each right alone and are    *)
(* read at different moments.  One item is counted and each order asks for *)
(* one of it; one slot can be booked.  Prices, amounts, tickets and fees   *)
(* are left out, and an address nobody was told is never paid.             *)
(***************************************************************************)
EXTENDS Integers, FiniteSets

CONSTANTS
  Order,     \* orders, by their address
  Booker,    \* the orders that ask for the slot as well
  MaxStock,  \* the counted item begins with 1..MaxStock
  Quote,     \* how long a quote stands (300 s)
  Grace,     \* how long after it a payment is still taken (120 s)
  Hold,      \* HOLD_SECS: how long stock is held (480 s)
  Keep,      \* how long pending.json keeps an order (86400 s)
  MaxTime,   \* bound: the clock
  MaxFaults  \* bound: restarts of the app, and writes that fail

ASSUME SOAssumption ==
  /\ Booker \subseteq Order
  /\ {MaxStock, Quote, Grace, Hold, Keep, MaxTime, MaxFaults} \subseteq Nat
  /\ Quote + Grace < Hold
  /\ IsFiniteSet(Order) /\ -1 \notin Order

VARIABLES
  now,
  stock,    \* the number in the menu the server shows
  disk,     \* the number in shop.json
  pub,      \* publish_shop: the number it keeps, or None
  holds,    \* HOLDS: when each order took its stock, or None
  at,       \* how far each order's request came
  began,    \* when it began
  copy,     \* the number its copy of the menu shows
  pend,     \* pending.json
  seen,     \* the copy of pending.json a request is about to write back
  book,     \* bookings.json
  state,    \* order_state
  until,    \* order_until: when each quote ends, or None
  file,     \* order-state.json, which has both
  paid,     \* orders whose payment the chain shows
  sweep,    \* the payment sweep_payments works on
  desk,     \* the payment ledger_sweep works on
  sales,    \* rows in the ledger, by order
  faults,
  sold,     \* ghost: orders whose customer was told "paid"
  first,    \* ghost: the number the item began with
  mishap,   \* ghost: a hold was no real one, or an old number came back
  dropped,  \* ghost: orders whose hold a restart dropped
  late,     \* ghost: bookings confirmed when they held nothing
  unbooked, \* ghost: bookings a write of which failed or was cut by a restart
  overdue,  \* ghost: orders taken as paid after a time that was forgotten
  mislaid,  \* ghost: orders that fell out of pending.json by a write of others
  aged,     \* ghost: orders dropped from it by their age
  unwritten,\* ghost: orders a write of which failed or was cut by a restart
  returned  \* ghost: settled orders written back into it

vars == <<now, stock, disk, pub, holds, at, began, copy, pend, seen, book, state, until,
          file, paid, sweep, desk, sales, faults, sold, first, mishap, dropped, late,
          unbooked, overdue, mislaid, aged, unwritten, returned>>
shelf   == <<stock, disk, pub, holds>>
request == <<at, began, copy, seen, until>>
rows    == <<mislaid, aged, unwritten, returned>>
ghosts  == <<sold, mishap, dropped, late, unbooked, overdue, rows>>
others  == <<faults, first, desk>>

None == -1
Idle == [o |-> None, at |-> "idle", pend |-> {}]

TypeOK ==
  /\ now \in 0..MaxTime /\ faults \in 0..MaxFaults
  /\ stock \in 0..MaxStock /\ disk \in 0..MaxStock /\ pub \in -1..MaxStock
  /\ holds \in [Order -> -1..MaxTime] /\ began \in [Order -> -1..MaxTime]
  /\ at \in [Order -> {"new", "begun", "menu", "looked", "taken", "read", "filed",
                       "quoted", "booked", "open", "refused"}]
  /\ copy \in [Order -> -1..MaxStock]
  /\ pend \subseteq Order /\ seen \in [Order -> SUBSET Order]
  /\ book \in [Order -> {"none", "hold", "paid", "cancelled"}]
  /\ state \in [Order -> {"none", "waiting", "expired", "paid"}]
  /\ until \in [Order -> -1..(MaxTime + Quote)]
  /\ file \in [state : [Order -> {"none", "waiting", "expired", "paid"}],
                until : [Order -> -1..(MaxTime + Quote)]]
  /\ paid \subseteq Order
  /\ sweep \in [o : Order \cup {None}, pend : SUBSET Order,
                at : {"idle", "save", "row", "confirm", "commit", "persist"}]
  /\ desk \in [o : Order \cup {None}, pend : SUBSET Order, at : {"idle", "save", "row"}]
  /\ \A w \in {sweep, desk} : w.at # "idle" => w.o \in Order
  /\ sales \in [Order -> Nat] /\ first \in 1..MaxStock
  /\ mishap \in BOOLEAN
  /\ sold \cup dropped \cup late \cup unbooked \cup overdue \subseteq Order
  /\ mislaid \cup aged \cup unwritten \cup returned \subseteq Order

\* An instance may start with some of its bounds used up.
Init ==
  /\ now \in 0..MaxTime /\ first \in 1..MaxStock /\ stock = first /\ disk = first
  /\ pub = None /\ holds = [o \in Order |-> None]
  /\ at = [o \in Order |-> "new"] /\ began = [o \in Order |-> None]
  /\ copy = [o \in Order |-> None] /\ seen = [o \in Order |-> {}]
  /\ pend = {} /\ book = [o \in Order |-> "none"]
  /\ state = [o \in Order |-> "none"] /\ until = [o \in Order |-> None]
  /\ file = [state |-> state, until |-> until]
  /\ paid = {} /\ sweep = Idle /\ desk = Idle /\ sales = [o \in Order |-> 0]
  /\ faults \in 0..MaxFaults /\ sold = {}
  /\ mishap = FALSE /\ dropped = {} /\ late = {} /\ unbooked = {} /\ overdue = {}
  /\ mislaid = {} /\ aged = {} /\ unwritten = {} /\ returned = {}

Tick ==
  /\ now < MaxTime /\ now' = now + 1
  /\ UNCHANGED <<shelf, request, pend, book, state, file, paid, sweep, sales, others,
                 ghosts>>

-----------------------------------------------------------------------------
(* The request: api_order *)

To(o, p) == at' = [at EXCEPT ![o] = p]
QuoteEnd(o) == began[o] + Quote

(* A write that fails, or a restart. *)
Fault == faults < MaxFaults /\ faults' = faults + 1

(* The clock is read once, for the quote, the hold and the slot alike, and
   the order enters the table the sweep goes by. *)
Begin(o) ==
  /\ at[o] = "new" /\ sweep.at \in {"idle", "persist"}
  /\ To(o, "begun") /\ began' = [began EXCEPT ![o] = now]
  /\ state' = [state EXCEPT ![o] = "waiting"]
  /\ UNCHANGED <<now, shelf, copy, seen, until, pend, book, file, paid, sweep, sales,
                 others, ghosts>>

CopyMenu(o) ==
  /\ at[o] = "begun"
  /\ To(o, "menu") /\ copy' = [copy EXCEPT ![o] = stock]
  /\ UNCHANGED <<now, shelf, began, seen, until, pend, book, state, file, paid, sweep,
                 sales, others, ghosts>>

(* held: what is held at a time, the holds run out being dropped. *)
Lasting(t) == [p \in Order |-> IF t - holds[p] < Hold THEN holds[p] ELSE None]

(* Mutant: the holds of others are not counted. *)
HeldNot(t) == 0

Held(t) == Cardinality({p \in Order : Lasting(t)[p] # None})

(* stock::hold looks in one section of the lock ... *)
Look(o) ==
  /\ at[o] = "menu"
  /\ holds' = Lasting(began[o])
  /\ To(o, IF copy[o] - Held(began[o]) >= 1 THEN "looked" ELSE "refused")
  /\ UNCHANGED <<now, stock, disk, pub, began, copy, seen, until, pend, book, state,
                 file, paid, sweep, sales, others, ghosts>>

(* ... and takes in the next; the ghost notes a take that finds nothing left. *)
Take(o) ==
  /\ at[o] = "looked"
  /\ To(o, "taken") /\ holds' = [holds EXCEPT ![o] = began[o]]
  /\ mishap' = (mishap \/ stock - Held(began[o]) < 1)
  /\ UNCHANGED <<now, stock, disk, pub, began, copy, seen, until, pend, book, state,
                 file, paid, sweep, sales, others, sold, dropped, late, unbooked, overdue,
                 rows>>

(* open_order reads pending.json without the lock settle takes ... *)
ReadPending(o) ==
  /\ at[o] = "taken"
  /\ To(o, "read") /\ seen' = [seen EXCEPT ![o] = pend]
  /\ UNCHANGED <<now, shelf, began, copy, until, pend, book, state, file, paid, sweep,
                 sales, others, ghosts>>

(* pending_save of a list by the writer of its own order, which means to take some
   out: the whole file is replaced.  It is staged under one name, so that two at a
   time may leave a file that does not parse, read as an empty one, or the list of a
   writer who is told of an error. *)
PendingSave(list, own, out, ok, two) ==
  /\ \/ pend' = list /\ ok /\ UNCHANGED faults
     \/ Fault /\ pend' = pend /\ ~ok
     \/ Fault /\ two /\ pend' \in {list, {}}
  /\ mislaid' = mislaid \cup ((pend \ pend') \ out)
  /\ returned' = returned \cup ((pend' \ pend) \ {own})

(* ... and writes it back with its own order in it, without those that are too old.
   Whether that worked nobody asks. *)
FilePending(o) ==
  LET old == {p \in seen[o] : began[o] - began[p] > Keep} IN
  /\ at[o] = "read"
  /\ To(o, "filed")
  /\ \E ok \in BOOLEAN :
       PendingSave((seen[o] \ old) \cup {o}, o, old, ok,
                   "save" \in {sweep.at, desk.at} \/ \E p \in Order \ {o} : at[p] = "read")
  /\ aged' = aged \cup ((pend \ pend') \cap old)
  /\ unwritten' = unwritten \cup ({o} \ pend')
  /\ UNCHANGED <<now, shelf, began, copy, seen, until, book, state, file, paid, sweep,
                 sales, first, desk, sold, mishap, dropped, late, unbooked, overdue>>

(* The end of the quote enters a table of its own; once that has over 500, every
   entry whose time is over by then is dropped from it. *)
SetUntil(o) ==
  /\ at[o] = "filed"
  /\ To(o, "quoted")
  /\ \E crowded \in BOOLEAN :
       until' = [p \in Order |->
                   LET end == IF p = o THEN QuoteEnd(o) ELSE until[p]
                   IN IF crowded /\ end <= began[o] THEN None ELSE end]
  /\ UNCHANGED <<now, shelf, began, copy, seen, pend, book, state, file, paid, sweep,
                 sales, others, ghosts>>

(* Mutant: a booking lets go once it is paid. *)
HoldsSlotUnpaid(p, t) == book[p] = "hold" /\ QuoteEnd(p) > t

(* holds_a_slot: a paid booking always, a held one while its quote stands. *)
HoldsSlot(p, t) ==
  \/ book[p] = "paid"
  \/ book[p] = "hold" /\ QuoteEnd(p) > t

(* persist_order_state; nobody hears of a failure. *)
PersistState ==
  \/ file' = [state |-> state, until |-> until] /\ UNCHANGED faults
  \/ Fault /\ UNCHANGED file

(* bookings.json is written whenever it was looked at to be changed, and in place,
   so that a write that fails may leave a file that does not parse, which is read as
   one without bookings. *)
StoreBook(rest) ==
  /\ \/ book' = rest /\ UNCHANGED faults
     \/ Fault /\ book' \in {book, [p \in Order |-> "none"]}
  /\ unbooked' = unbooked \cup {p \in Order : book'[p] # rest[p]}

(* The slot is looked at and taken in one section; a slot in use refuses the
   order, whose hold of stock stays. *)
BookSlot(o) ==
  /\ at[o] = "quoted"
  /\ IF o \notin Booker
       THEN To(o, "booked") /\ UNCHANGED <<book, unbooked, faults>>
       ELSE IF \E p \in Order : HoldsSlot(p, began[o])
              THEN To(o, "refused") /\ StoreBook(book)
              ELSE To(o, "booked") /\ StoreBook([book EXCEPT ![o] = "hold"])
  /\ UNCHANGED <<now, shelf, began, copy, seen, until, pend, state, file, paid, sweep,
                 sales, first, desk, sold, mishap, dropped, late, overdue, rows>>

(* The order is saved, under the lock the sweep keeps, and answered. *)
Answer(o) ==
  /\ at[o] = "booked" /\ sweep.at \in {"idle", "persist"}
  /\ To(o, "open") /\ PersistState
  /\ UNCHANGED <<now, shelf, began, copy, seen, until, pend, book, state, paid, sweep,
                 sales, first, desk, ghosts>>

Pay(o) ==
  /\ at[o] = "open" /\ o \notin paid
  /\ paid' = paid \cup {o}
  /\ UNCHANGED <<now, shelf, request, pend, book, state, file, sweep, sales, others,
                 ghosts>>

(* booking_cancel, by the shop. *)
CancelBooking(o) ==
  /\ book[o] \in {"hold", "paid"}
  /\ StoreBook([book EXCEPT ![o] = "cancelled"])
  /\ UNCHANGED <<now, shelf, request, pend, state, file, paid, sweep, sales, first, desk,
                 sold, mishap, dropped, late, overdue, rows>>

-----------------------------------------------------------------------------
(* The sweep: sweep_payments, which keeps order_state locked until it is done *)

Sweeps(p) == sweep' = [sweep EXCEPT !.at = p]

(* The quote and its grace have not run out. *)
OnTime(o) == now <= QuoteEnd(o) + Grace

(* Mutant: the quote is not looked at. *)
InTimeAlways(o) == TRUE

(* What the sweep asks: a quote whose end is not in the table has none. *)
InTime(o) == until[o] = None \/ now <= until[o] + Grace

(* Its end was dropped from the table, and it is over. *)
Forgotten(o) == until[o] = None /\ ~OnTime(o)

(* Mutant: settle is entered by two at once. *)
SettlingNot == FALSE

(* SETTLE_LOCK is held. *)
Settling == sweep.at \in {"save", "row"} \/ desk.at # "idle"

(* The next payment of the sweep, or of the next one.  settle reads
   pending.json; an order that is not in it writes no row. *)
Notice(o) ==
  /\ sweep.at \in {"idle", "persist"} /\ ~Settling
  /\ o \in paid /\ state[o] \in {"waiting", "expired"}
  /\ IF InTime(o)
       THEN /\ state' = [state EXCEPT ![o] = "paid"] /\ sold' = sold \cup {o}
            /\ overdue' = IF Forgotten(o) THEN overdue \cup {o} ELSE overdue
            /\ sweep' = [o |-> o, pend |-> pend \ {o},
                         at |-> IF o \in pend THEN "save" ELSE "confirm"]
       ELSE /\ state[o] = "waiting" /\ UNCHANGED <<sold, overdue>>
            /\ state' = [state EXCEPT ![o] = "expired"]
            /\ sweep' = [o |-> o, pend |-> {}, at |-> "persist"]
  /\ UNCHANGED <<now, shelf, request, pend, book, file, paid, sales, others, mishap,
                 dropped, late, unbooked, rows>>

(* ledger_sweep settles what the chain shows, in time or not, and does no more
   than that. *)
LedgerSweep(o) ==
  /\ o \in paid \cap pend /\ ~Settling
  /\ desk' = [o |-> o, pend |-> pend \ {o}, at |-> "save"]
  /\ UNCHANGED <<now, shelf, request, pend, book, state, file, paid, sweep, sales,
                 faults, first, ghosts>>

(* settle takes the order out of pending.json first; where that fails it ends, with
   the order paid and still pending ... *)
TakeOut(w, ok) ==
  /\ w.at = "save"
  /\ PendingSave(w.pend, w.o, {w.o}, ok, \E p \in Order : at[p] = "read")
  /\ unwritten' = IF ok THEN unwritten ELSE unwritten \cup {w.o}

SweepTakesOut(ok) ==
  /\ TakeOut(sweep, ok) /\ UNCHANGED desk
  /\ Sweeps(IF ok THEN "row" ELSE "confirm")

DeskTakesOut(ok) ==
  /\ TakeOut(desk, ok) /\ UNCHANGED sweep
  /\ desk' = IF ok THEN [desk EXCEPT !.at = "row"] ELSE Idle

Unpend ==
  /\ \E ok \in BOOLEAN : SweepTakesOut(ok) \/ DeskTakesOut(ok)
  /\ UNCHANGED <<now, shelf, request, book, state, file, paid, sales, first, sold, mishap,
                 dropped, late, unbooked, overdue, aged>>

(* ... and then writes the sale, or loses it. *)
Append(w) ==
  /\ w.at = "row"
  /\ \/ sales' = [sales EXCEPT ![w.o] = @ + 1] /\ UNCHANGED <<faults, unwritten>>
     \/ Fault /\ unwritten' = unwritten \cup {w.o} /\ UNCHANGED sales

WriteSale ==
  /\ \/ Append(sweep) /\ Sweeps("confirm") /\ UNCHANGED desk
     \/ Append(desk) /\ desk' = Idle /\ UNCHANGED sweep
  /\ UNCHANGED <<now, shelf, request, pend, book, state, file, paid, first, sold, mishap,
                 dropped, late, unbooked, overdue, mislaid, aged, returned>>

(* booking::confirm marks whatever booking the order has. *)
ConfirmBooking ==
  /\ sweep.at = "confirm" /\ Sweeps("commit")
  /\ IF book[sweep.o] = "none"
       THEN StoreBook(book) /\ UNCHANGED late
       ELSE /\ StoreBook([book EXCEPT ![sweep.o] = "paid"])
            /\ late' = IF HoldsSlot(sweep.o, now) THEN late ELSE late \cup {sweep.o}
  /\ UNCHANGED <<now, shelf, request, pend, state, file, paid, sales, first, desk, sold,
                 mishap, dropped, overdue, rows>>

(* stock::commit turns the hold into a sale, in the menu and, unless that fails, on
   disk; without a hold the number stays. *)
Commit ==
  /\ sweep.at = "commit" /\ Sweeps("persist")
  /\ holds' = [holds EXCEPT ![sweep.o] = None]
  /\ stock' = (IF holds[sweep.o] # None /\ stock > 0 THEN stock - 1 ELSE stock)
  /\ \/ disk' = stock' /\ UNCHANGED faults
     \/ Fault /\ UNCHANGED disk
  /\ UNCHANGED <<now, pub, request, pend, book, state, file, paid, sales, first, desk,
                 ghosts>>

Persist ==
  /\ sweep.at = "persist" /\ sweep' = Idle
  /\ PersistState
  /\ UNCHANGED <<now, shelf, request, pend, book, state, paid, sales, first, desk,
                 ghosts>>

-----------------------------------------------------------------------------
(* The shop *)

(* publish_shop of a menu whose number nobody edited: the live number is read
   under the lock ... *)
PublishRead ==
  /\ pub = None /\ pub' = stock
  /\ UNCHANGED <<now, stock, disk, holds, request, pend, book, state, file, paid, sweep,
                 sales, others, ghosts>>

(* ... and the menu replaced under the lock taken anew. *)
PublishWrite ==
  /\ pub # None /\ pub' = None
  /\ stock' = pub
  /\ mishap' = (mishap \/ pub # stock)
  /\ UNCHANGED <<now, disk, holds, request, pend, book, state, file, paid, sweep, sales,
                 others, sold, dropped, late, unbooked, overdue, rows>>

(* The app is started again: holds live in memory, requests under way are
   gone, and the table of orders is what was saved last.  A write of bookings.json,
   also one of the shop's, that is cut leaves it torn. *)
Restart ==
  /\ Fault
  /\ stock' = disk /\ pub' = None /\ holds' = [o \in Order |-> None]
  /\ at' = [o \in Order |-> IF at[o] \in {"new", "open"} THEN at[o] ELSE "refused"]
  /\ state' = file.state /\ until' = file.until /\ sweep' = Idle /\ desk' = Idle
  /\ book' \in {book, [o \in Order |-> "none"]}
  /\ mishap' = (mishap \/ disk # stock)
  /\ dropped' = dropped \cup {o \in Order : holds[o] # None}
  /\ unbooked' = unbooked
       \cup {o \in Order : book'[o] # book[o]}
       \cup {w.o : w \in {v \in {sweep} : v.at \in {"save", "row", "confirm"}}}
  /\ unwritten' = unwritten \cup {w.o : w \in {v \in {sweep, desk} : v.at = "row"}}
  /\ UNCHANGED <<now, disk, began, copy, seen, pend, file, paid, sales, first, sold, late,
                 overdue, mislaid, aged, returned>>

Next ==
  \/ \E o \in Order :
        \/ Begin(o) \/ CopyMenu(o) \/ Look(o) \/ Take(o) \/ ReadPending(o)
        \/ FilePending(o) \/ SetUntil(o) \/ BookSlot(o) \/ Answer(o) \/ Pay(o)
        \/ CancelBooking(o) \/ Notice(o) \/ LedgerSweep(o)
  \/ Unpend \/ WriteSale \/ ConfirmBooking \/ Commit \/ Persist
  \/ PublishRead \/ PublishWrite \/ Restart \/ Tick

Spec == Init /\ [][Next]_vars

-----------------------------------------------------------------------------
(* "The last one cannot be taken twice" (stock.rs:3-10): as long as every
   hold was a real one - no two requests looked before either took, no
   restart dropped it, neither a publish nor a restart put an old number back - and no
   payment was taken after a time that had been forgotten, no more customers are told
   they paid than there were pieces. *)
NoOversell == ~mishap /\ dropped \cup overdue = {} => Cardinality(sold) <= first

(* A hold outlives the quote it stands for: whoever may still pay has his piece
   reserved, unless a restart dropped it or the quote is over and its end was
   forgotten. *)
HoldCovers ==
  \A o \in Order \ (dropped \cup sold) :
    at[o] = "open" /\ InTime(o) /\ ~Forgotten(o) => holds[o] # None /\ now - holds[o] < Hold

(* Its customer was told "paid" and comes at the time of the slot. *)
Comes(o) == o \in sold \cap Booker /\ book[o] # "cancelled" /\ sweep.o # o

(* "If two people hold one slot, two come at three" (booking.rs:409): of two who
   paid for it the booking of one was confirmed when it held nothing, or a write of
   it failed or was cut by a restart. *)
SlotSoldOnce ==
  \A o, p \in Order : o # p /\ Comes(o) /\ Comes(p) => {o, p} \cap (late \cup unbooked) # {}

(* Every paid order is one row in the ledger (ledger.rs:325-340): two only after it
   was written back into pending.json from an old copy; and none only after a write
   of it failed or was cut by a restart, an old copy or a torn file dropped it from
   pending.json, or it was a day old. *)
LedgerIsTrue ==
  \A o \in Order :
    /\ sales[o] > 1 => o \in returned
    /\ state[o] = "paid" /\ sweep.o # o /\ sales[o] = 0
         => o \in mislaid \cup aged \cup unwritten

=============================================================================
