# Models of PLAY X Raven

PLAY X Raven (RavenVault) is the program a small shop runs beside its own
Ravencoin node: a till, a wallet, a vending page for assets, and a companion for
the owner's and the staff's phones.  Money and assets leave through the node's
`sendtoaddress` and `transfer`, which cannot be taken back.  The answer of such a
call may be lost although the node carried it out, the app may be closed or
killed in the middle of any of this, timers, screens, phones and staff act at the
same time, and what the program remembers of it are small JSON files.  Whether
something is paid once, twice or never, and whether what the program then says is
true, is what these models are about.

The directory holds TLA+ modules of the parts that pay, the configurations with
which TLC checks them on small instances, and proofs that TLAPS checks for every
instance.  Paths below are relative to the repository; `R/` stands for
`src-tauri/src/`.

1. [The system](#1-the-system)
2. [The modules](#2-the-modules)
3. [What each run checks, its bounds and what it shows](#3-the-runs)
4. [Fairness](#4-fairness)
5. [Power losses and crashes](#5-power-losses-and-crashes)
6. [What is proved](#6-what-is-proved)
7. [Where the code departs from its comments](#7-where-the-code-departs-from-its-comments)
8. [What is not covered](#8-what-is-not-covered)
9. [Plan](#9-plan)
10. [How to run it](#10-how-to-run-it)

## 1. The system

The program is a Tauri application: one Rust process (`R/*.rs`) that holds the
state, a screen (`src/main.ts`, `index.html`) that calls its commands and runs
most of its timers, a local HTTP server for phones and customer pages
(`R/server.rs`, axum), and the shop's site on the web.  The commands are async
functions on tokio: between two awaits a command runs without interruption of its
own task, but other tasks run on other threads, so a lock that is not held over
an await protects nothing across it.  Dropping a future (a client that goes away)
ends a handler at whichever await it is.

| Component | Keeps | Operations | Meets |
|---|---|---|---|
| Payout journal `R/payout_guard.rs` | per lane a guard file, a marker of the one request in doubt, receipts of paid requests | `begin`, `complete`, `complete_waiting_ack`, `abandon_unsent`, `acknowledge`, `receipt` | every payer below, several processes |
| Sends `R/send.rs` | nothing of its own | `send_rvn`, `send_asset`, `send_ack` | journal lane "send", node |
| Vending page `R/vending.rs` | products, page data | `fulfil_sale`, `chain_check`, listing | journal lane "sale", node, outbox |
| Outbox of web orders `R/remote_sales.rs` | one record per order id, one binding per payment output | `deliver_remote_sale`, `retry_remote_completions` | `fulfil_sale`, the site |
| Unattended selling `R/auto.rs`, claims in `R/server.rs`, timer in `src/main.ts` | FILLED and `fills.json`, SENT_TODAY, claims, offers | `auto_fulfil`, `pending_claims`, `mark_sent`, `autoRound`, `auto_deliver_web` | node, wallet, outbox |
| Refunds `R/refund.rs` | the journal of staff refunds, sums per day and per sale | `refund`, `staff_refund` | node, developer fee, phones of staff |
| Phone pairing `R/pairing.rs`, `R/pairing/*` | paired phones and permissions, requests, the pairing slot | receive, `run_work`, `retry_unlock`, `tick`, approve, open, decline, done, forget | sends, wallet lock, relays, LAN |
| Phone wallet link `R/wallet_link.rs`, `core/wallet-link` | links with a limit of the day, requests to pay and what the phone was sent of them (state.json) | offer, confirm, `process`, approve, refuse, revoke | journal lane "wallet-link", relays, node |
| Sales a phone asks for `R/wallet_link/sell.rs` | jobs with the lot they hold | `on_sell`, `on_unsell`, `tick`, `continue_with`, `refuse_in` | a lane of the journal per job, node, market |
| Keeping asset files `R/asset_keep.rs`, `R/peers.rs`, `src/asset-keep.ts` | the wish per file, the pins of the IPFS store, the screen's copies of both | keep, release, undo, bulk keep, the two workers that pin | IPFS store, other computers |
| Developer fee `R/devfee.rs` | what is owed and what was sent | `accrue`, `refund_credit`, `fee_pay`, the auto-payer | journal lane "devfee", refunds, price |
| LAN sync `R/lan_*.rs`, `core/device` | certificate and its successor, one-time tickets, device keys, what was seen | rotate, issue, pair, prove, store | phones in the shop |
| App lock `R/app_lock.rs`, `R/lockbox.rs`, `R/lockkey.rs` | the lock, failed attempts | unlock, check, change | every command that needs the owner |
| Backup and restore `R/backup*.rs`, `R/restore_*.rs`, `R/walletfile.rs` | backup folders, a restore in progress | publish, roll back, restore, drop | node (stopped while restoring) |
| App folder `R/app_dir_move.rs`, `R/app_folder.rs` | where the data is | copy, switch, remove | everything on disk |
| Updater `R/secure_update.rs`, `R/update_policy.rs` | the version in place and the one staged | check, stage, switch | the site |
| Stock and bookings `R/stock.rs`, `R/booking.rs` | counts, holds with an end, slots | `hold`, `commit`, `confirm`, cancel | orders, payments |
| Tickets, passes `R/ticket.rs`, `R/pass.rs`, `R/door.rs` | what a paid order gives, and its uses | issue, use | orders |
| Group buys, auctions `R/groupbuy.rs`, `R/auction.rs` | bids, pledges | open, bid, close | payments |
| Market, swaps `R/market*.rs`, `R/swap.rs`, `R/trade.rs` | lists, prepared transactions | list, take | chain |
| Issuing `R/create*.rs`, `R/issue*.rs` | issues under way, unanswered ones | issue, look an unanswered one up | node |
| Ledger, settings `R/ledger.rs`, `R/shop.rs`, `R/sales_account.rs` | append-only books, the orders not paid yet (pending.json), settings | `open_order`, `settle`, `ledger_sweep`, read | all sales |
| Server, tunnel `R/server.rs`, `R/tunnel.rs`, `R/companion.rs` | claims, offers, sessions, the table of orders | `api_order`, `sweep_payments`, `publish_shop`, other HTTP routes | phones, customers, stock, bookings, ledger |
| Node and wallet `R/raven.rs`, `R/wallet.rs`, `R/boot.rs`, ... | the RPC connection | `call_rpc`, start, stop, reindex | external: Ravencoin Core |
| Relay and talk, assistant, certificates, formats, screens, web pages, scripts | messages, budgets, drawings | | no money moves here |

`PROJECT.json` has the same list with its files, its modules, and for each part
what of it is modelled.

What makes these parts hard, and what makes each of them correct:

- **Payout journal.**  Any file operation may fail, a process may die between
  two of them, the machine may lose power, and `complete` does not take the guard
  that `begin` holds.  Correct is: a request identifier is paid at most once; a
  request that may have been paid without a receipt keeps the lane blocked;
  a caller is told only of real payments with the contents it asked for.
- **Unattended selling.**  A round is a scan, an unlocking and a queue of
  transfers of up to 180 s each, started every 30 s.  Correct is: one transfer
  for a paid order; only confirmed orders; the cap and the confirmation bands
  hold; a paid order leaves in the end.
- **Outbox.**  The same payment may be delivered under two order ids, sold by
  hand at the same time, and its completion may be reported and the answer lost.
  Correct is: a payment buys once, the site hears only what is true, and does
  hear it.
- **Phone requests.**  The machine waits twice without a lock (for the wallet,
  for the send), and the owner, the clock, the phone and a restart act in
  between.  Correct is: sent once, not by both, within the limit, closed in the
  end.
- **Staff refunds.**  The client may go away, the payment's answer may be lost, a
  save may fail after it took effect, the price changes.  Correct is: a request
  id is paid once, "not sent" is true, the limits of the day and of the payment
  hold for what may have been paid.
- **Developer fee.**  The ledger is read, the fee sent and the ledger written in
  separate steps, with sales and refunds in between.  Correct is: no more leaves
  than was recorded, nothing recorded is erased, a free lane means the ledger knows
  of every payment, and what is owed leaves.
- **Phone wallet link.**  Messages come through relays that keep them for two days
  and return some of them, in any order and again; a payment awaits the node
  between two saves.  Correct is: a request is paid once and within the limit, a
  revocation stays, and the phone hears what became of each request, and only that.
- **Sales a phone asks for.**  A job takes hours and many steps (a lot is made,
  confirmed, half signed, posted, settled or taken down) with buyers, the market
  screen and the owner's buttons in between.  Correct is: one lot for a job and
  one job for a lot, "sold" means bought, and a request to take a sale down is
  answered.
- **Keeping files.**  Four parties pin and unpin with minutes between asking and
  pinning, and none waits for another.  Correct is: what a person declined is not
  pinned, what somebody sent is not pinned unasked, and a reserved file is kept
  when it shows up.
- **Orders at the counter.**  A request takes six locks one after the other, and
  a sweep, a second sweep, the owner and the clock do the same.  Correct is: no
  more is sold than there is, a hold lasts as long as the quote it covers, a slot
  goes to one order, a paid order is one row of the ledger.
- **Not modelled yet**: a certificate is replaced while phones still prove with the
  old one; the password and the count of failures; a backup is published by replacing
  "previous" by a copy of the old one and then "latest" by the new one.

## 2. The modules

| Module | Models | Composes |
|---|---|---|
| `PayOnce` | the abstract promise of a payout lane: a ledger that pays an identifier once and tells of true payments only | |
| `PayoutGuard` | one lane of the journal, one action per file operation, with its callers and the node | implements `PayOnce` |
| `PayoutGuardProofs` | proofs about `PayoutGuard` | |
| `AutoSell` | unattended selling of one listed asset: buyer, chain, timer, rounds, marks | |
| `RemoteSales` | the outbox, on top of `fulfil_sale` and the "sale" lane in a few steps each, the owner's own sale, the site | implements `PayOnce` |
| `PhoneRequests` | requests of phones to send RVN, `AutoSend`, the owner, the clock, restarts | |
| `PhoneRequestsProofs` | proofs about `PhoneRequests` | uses `Sums` |
| `StaffRefund` | refunds of staff with their journal, the node, power losses | |
| `StaffRefundProofs` | proofs about `StaffRefund` | uses `Sums` |
| `DevFee` | the developer's share: recorded, given back, sent over a lane of the journal | |
| `WalletLink` | a phone linked to the wallet: messages over relays, requests to pay, limits, revocations | |
| `WalletLinkProofs` | proofs about `WalletLink` | uses `Sums` |
| `WalletSell` | sales such a phone asks for, with the wallet's lots and the market | |
| `AssetKeep` | the wishes per file, the screen's rows, the two workers, the pins | |
| `ShopOrder` | an order from the tap to the ledger: stock, slot, pending orders, both sweeps | |
| `ShopProofs` | proofs about `ShopOrder` and `DevFee` | uses `Sums` |
| `SalesProofs` | proofs about `RemoteSales` and `AutoSell` | |
| `AssetsProofs` | proofs about `WalletSell` and `AssetKeep` | |
| `Sums` | facts about sums over finite sets, and the induction they rest on; no part of the system | |
| `MC...` | values of the constants for TLC, symmetry | the module they name |

Three modules of proofs are about two components each, which go together: what is
sold at the counter and the share of it, the sales of the web and those sold
unattended, the assets that are sold and the files that are kept.  The two share no
state and no step, so the names of one (`FeeSpec`, `AutoSpec`, `KeepSpec` and what is
theirs) are kept apart from the other's, and each theorem is about one specification.

State and actions correspond to the code as follows; `PROJECT.json` gives the
lines of every definition.

**PayoutGuard.**  `dir` is the lane's directory as processes see it, `disk` what
was last synced.  `begin` is `BeginCall` (take the guard), `ReadReceipt`,
`CreateMarker`, `WriteMarker`, `Recheck`; the caller (send.rs, vending.rs,
wallet_link) is `CallNode`, `Answered`, `GivesUp` or `AbandonUnsent`;
`complete_waiting_ack` is `WriteReceipt`, `complete` is `WriteReceipt` and
`RemoveMarker`; `send_ack` is `AckCall` and `Acknowledge`; `receipt` is
`AskReceipt`.  Each has the outcome in which its file operation fails.  A process
may die anywhere (`Crash`) and its call stays with the node (`wire`).  Three
constants tell the lanes apart: `WaitsForAck` ("send"), `MayAbandon` (the wallet
link, which can know that nothing was sent) and `OrderedMetadata`, a property of
the file system.

**AutoSell.**  An order is known by its payment address.  `Pay`, `Confirm` and
`Replace` are the buyer and the chain; a payment that is no longer one of the last 200
rows of the wallet (`Scroll`) is not read any more.  A round is `StartRound` (the
snapshot of `pending_claims`), `Scan` (the loop over `listtransactions`, which runs
without an await), `Unlock`, and for each payment `Send` (take it and copy the marks),
`Write`, `SaveAndAsk`, then `Transferred`, or `Refused` or `Unanswered` and again `Write`
and `SaveFreed`; then `Finish`, or `MarkSent`, `Write`, `SaveTold` for each order it
sent.  `mark_filled` and `unmark_filled` are three steps each, as in the code: FILLED
is copied under its lock, the edited copy is put back under the lock taken anew
(`WriteBack`), and it is saved with no lock (`SaveCopy`).  `filled` and `fillsFile` are
FILLED and `fills.json`, read at the first use (`Load`, `Loaded`); a save may fail
unnoticed, or be torn by another under the same staged name.  Notes of the model:
`doubt`, orders with an unanswered transfer or an unsaved mark; `again`, orders taken
by a round although they were marked or being marked; `lost`, orders whose mark was
written over by an older copy; `revived`, orders marked by a copy older than the withdrawal
of their mark; `stopped`, orders marked when the process died.  A payment is a pair of
an order and a number, since an address may be paid in two.

**RemoteSales.**  Task "outbox" is whoever holds `GATE`; task "screen" is the
owner who sells by hand, with no gate.  `deliver` is `Deliver`, `Verify`, `Bind`,
`SaveRecord`, `Recover`, then the sale (`Sell`, `Complete`, `RemoveMarker`) and
`SaveTxid`; `retry_remote_completions` is `Retry`, `FlushNext`, `FlushAborts`,
`Post...`, `EndRetry`.  The sale lane is the one of `PayoutGuard` at a coarser
grain: `begin` is one step, `complete` two.  That this grain loses nothing is
what the first module is for.

**PhoneRequests.**  `requests` is the desk, `file` is `requests.json`, written
after each change with its failure ignored.  `Receive` and `Deny` are the
receipt of a request; `StartRun`, `FindLocked`, `FindUnlocked` and
`Answered`/`Failed`/`Unanswered` are `run_work`, which looks at the request
only at its start; `RetryUnlock`, `Tick` and `Restart` (`Desk::open`) are those
of the desk; `Approve`, `Unpair`, `OpenRequest`, `RequestDone`, `Decline` are the
owner's commands, and `SendByHand` the send screen.  Time is kept as the age of a
request, in four classes: under 24 h (counts for the limit), 24 h, over 24 h
(expires), 48 h and more (forgotten).  `overruled` and `lost` are notes of the
model: requests that the desk had opened, closed or dropped when `run_work` wrote
of them, and requests with a change that a restart did not find in the file.

**StaffRefund.**  `file` is the journal on disk, `sure` the set of journals a
power loss may leave.  `STAFF_GATE` admits one `call`: `Reserve`, then `Cancel`
or `Dispatch`, `Pay`, `Complete`; it may end at any wait (`GivesUp`): an error,
a client that goes away (axum drops the handler), a process that dies.
`Repeat` is `prior_request`.  `told` holds the requests that were answered
with `refund_outcome` "not_sent".

**DevFee.**  `Accrue` and `RefundCredit` are one step each, since they hold
LEDGER_LOCK from reading the file to writing it.  `fee_pay` is `Start` (the flag
PAYING, and what is owed at that time), `BeginPayout` or `BeginFails`, `CallNode`,
`Answered` or `GivesUp`, `Book` (the ledger is read again and written), and
`Complete`; its two callers are the button and the timer of `start_auto_pay`.
The lane is one marker here, "loose" when its removal may not be on the disk.
`credited` is what refunds were told was given back, `tooLate` the part of it that
was given back while a payment was under way or in doubt.

**WalletLink.**  `disk` is state.json and `mem` the copy `process` works on; `relay`
is what asking the relays can still return, `window` what they returned this time.
`wallet_link_inbox` is `Fetch`, then one `Take...` for each message (the branches
of `process` and of `check_request`), `EndProcess` and `Deliver`; it saves where
the code does, before a request is shown and at the end.  `wallet_link_approve` is
`Approve`, `Begin`, `Mark`, `Broadcast`, `Complete`, `Finish` with the ways out
`NotBegun`, `Abandon`/`BackToPending` and `LeaveUnknown`.  The lane is its marker;
`PayoutGuard` has the rest.  `CutShort` ends whatever runs: GATE admits one command,
so what can come between two steps is only the outside (relays, clock) and an
end.  `early` and `overdue` are notes of the model: requests read before their link
was confirmed, and requests of which an expired copy was read when they were
being paid or had been.

**WalletSell.**  `job` is `SellJob`; `todo` holds the jobs the running tick still has
to step.  `Sell` is `on_sell`, `Unsell...` the branches of `on_unsell`, `StartTick`
the housekeeping at the start of `tick`; the steps are `TakeLot`, `AwaitLot`,
`MakeLot` and its failures, `SignOffer`, `Publish`, `Settle`, `CancelPosted`,
`ToHuman`, and `Pause` for a step that does nothing; the owner is `Continue`,
`Refuse...`, `CancelHere`; the market screen `Market...`; the chain `Buy` and
`Confirm`.  Notes of the model: `lots` (made for a job), `crossed` (bought before
it was taken down), `adrift` (posted without the job learning of it) and
`replaced` (requests to take down that a second one replaced).

**AssetKeep.**  `saved` is asset-keep.json, `pinned` the IPFS store, `work` the
workers of peers.rs (`pin_my_assets` and `peer_help`, which share `pin_these`),
`prefs`, `shown` and `health` what the screen believes, `task` the row that is busy.
`keepCid` is `KeepBegins`, `KeepSaved`, `KeepTaken`, `KeepFinds`, `KeepPins`, with
`PutBack` and `RestoreTaken` after an error; `unkeepCid` is `Release`, `SkipSaved`,
`SkipTaken`, `Unpins`.  A worker is `RoundBegins` or `HelpBegins`, then for each file
`LookAt`, `Asked`, `PinAnswered`, `LookAgain`, `TakeOff`.  `wanted` and `astray` are
notes: files anybody asked for, and files pinned against a skip by a step
whose outcome the code accepts (an unpinning that fails, a rollback, "none of
these" while a row is busy).

**ShopOrder.**  `at` is how far `api_order` has come: `Begin`, `CopyMenu`, `Look` and
`Take` (`stock::hold`), `ReadPending` and `FilePending` (`ledger::open_order`), `SetUntil`
(the end of the quote, in a table of its own that is cut when it is crowded),
`BookSlot` (`booking::hold`) and `Answer` (the save and the reply).  `sweep_payments` is
`Notice`, `Unpend`, `WriteSale` (`ledger::settle`), `ConfirmBooking`, `Commit`, `Persist`;
`ledger_sweep` is `LedgerSweep`, `Unpend`, `WriteSale`.  `publish_shop` is
`PublishRead` and `PublishWrite`, `booking_cancel` is `CancelBooking`.  `until` is
order_until, `file` order-state.json with both tables, `disk` the number in shop.json.
Every write may fail with nobody told: pending.json, the ledger, order-state.json and
shop.json then stay as they were, and pending.json may be torn by two writers with one
staged name (`PendingSave`), bookings.json by any write that is cut (`StoreBook`).
Notes: `sold` (customers told "paid"), `mishap` (a hold that was taken when nothing was
left, or an old number that came back by a publish or a restart), `dropped` (holds a
restart lost), `late` (bookings confirmed when they held nothing), `unbooked` (bookings a
write of which failed or was cut), `overdue` (payments taken after a time that was
forgotten), `mislaid` and `returned` (orders that fell out of pending.json, or back into it,
by a write of others), `aged` (dropped from it by their age), `unwritten` (orders a write
of which failed or was cut by a restart).

## 3. The runs

| Run | Instance | Asks |
|---|---|---|
| PayoutSend | 3 processes, 3 ids, 2 contents, 3 txids; "send" lane, ordered directory changes | doubt blocks the lane, implements `PayOnce` |
| PayoutSale | the same; the lane removes its own marker, callers may abandon, directory changes may be reordered | paid once, doubt blocks the lane |
| AutoSell | 2 units an order, cap 3, two rounds that overlap, 3 transfers; either 2 paid orders, or 1 order to be paid with 1 mishap (a refused or unanswered transfer, a failed save, a payment out of the window) and 1 crash | sent once save for named gaps, only paid orders, every paid order leaves |
| RemoteSales | 2 order ids, 2 payments, 2 contents, 2 txids, any number of crashes | a payment buys once, the site hears the truth and hears it in the end |
| PhoneRequests | 2 requests of 1 RVN, a limit of 1 a day, 2 sends each, 1 restart | sent by the machine or the owner, not by both; limit by receipt |
| PhoneSaves | 1 request, saves that fail, 2 restarts | sent once, closed means unsent, closed in the end |
| StaffRefund | 3 ids, 2 sales of 2 units, amounts 1 and 2, daily limit 3, 2 days, 2 rates, 1 power loss | paid once, "not sent" is true, both limits |
| DevFee | 3 sales with shares 2, 1, 1, refunds that give back 1 or 2, 2 callers, 2 to 3 sent at once, any crashes, 1 power loss | not overpaid, nothing erased, a free lane is booked, what is owed leaves |
| WalletLink | 1 link, 2 requests of 1 RVN (the first wrapped twice), fee 1, limit 2, 1 command cut short | paid once and within the limit, revoked stays off, the phone hears the truth and misses nothing |
| WalletSell | 2 sales, 2 requests to take the first one down, 2 sales a day, 2 lots, 1 lost answer | lots are not shared, one per job, reports are true, take-downs are answered |
| AssetKeep | an own and a received file, 1 file a round, 2 clicks, 1 fault | a skip wins, nothing is pinned unasked, a reserved file arrives |
| ShopOrder | 2 orders for 1 or 2 pieces and for one slot; quote 1, grace 1, hold 3, a pending order kept for 3; clock 4 with no fault, or 3 units of it with 1, or 2 faults at once (a restart, a failed or torn write) | not oversold, holds cover quotes, one slot one order, one row per sale |

**Why these bounds.**  In the journal the interesting cases need one process that
finishes a request while another is inside `begin` for it, and a third that
acknowledges or works on another id: three processes and three ids, and fresh
transaction ids enough for three payments; processes, ids, contents and txids are
interchangeable, so symmetry is sound, and `PaysOnce` names none of them.  The
rest is left to the proofs, which hold for any number.

`AutoSell` is split in two.  Two paid orders, with nothing failing, are what the
copies of FILLED need: two rounds queue the same two and each marks one while the
other holds an older copy.  One buyer who pays a full or a short amount, with one
mishap and one crash, is what doubt, the window and a restart need; the overlapping round
queues the order a second time.  Three transfers are one more than it takes
to send an order twice.  The cap only has to stop a second transfer until the next
day.  The order that MarkSent, a new day and a restart come in is free.  A mark that
comes back (`revived`) keeps an order for good only with two orders, a refusal and
four transfers; that wider instance (two mishaps, 780 thousand states) passes too, and is
kept out of the run for its length.  Two payments to one address are left to the proofs,
which hold for any number of them.

In `RemoteSales` order id `b` claims the payment of `a` and, for the other
payment, comes with two contents; the owner may type in the right sale or the
wrong one.  Crashes are not bounded.

Phone requests are split in two: two requests with every save succeeding (the
limit is about two requests), and one request with a save that fails and two
restarts (what a file that is behind does to a request).  Together they would be
too large.  `MAX_REQUESTS` is not reached in the runs; the desk drops the oldest
request then, which may be one under way.  The proofs are for any `MAX_REQUESTS`
and found what that does: a run that is asking about the wallet's lock sends the
request all the same, and the desk no longer counts it for the limit;
`OneSender` and `LimitByReceipt` except it.  A request may be sent twice (`MaxCalls`), which is what a wrong retry needs.  The clock does not
outrun a tick that is due nor let a send last for a day: ticks come every 5 s, and
an RPC ends after minutes.

Staff refunds have two sales, because the limit of the day is over all sales and
the limit of a payment over one; three ids, so that a sale can be refunded twice
and once more under a limit already used; and two rates, because the two
currencies of a payment are limited each on its own.  A call that waited for
`STAFF_GATE` over midnight counts for the day before, as the code takes the day
first.

The two runs of the wallet link have what a limit, a second copy and a take-down
need: with a fee of 1 and a limit of 2 one request fits and a second does
not until a day has passed; the copy may be read before, during or after the
payment and after its expiry.  Two jobs are what the sharing of lots needs, two
requests to take down what `replaced` needs, and two lots so that each job can have
one; lots and requests are interchangeable.

In `AssetKeep` one file is the wallet's own and one was received, and a round takes
one file, so that the second waits behind the first as the 201st does; two
clicks are a wish and its undoing or another's, and a fault is any call that
fails, or the file that breaks.  `ShopOrder` has two orders because each of its
properties relates two; the times keep the order that the code's constants have
(300 s quoted, 120 s of grace, 480 s held: a hold ends after quote and grace), and
the clock runs past the end of a hold; a pending order is kept for as long as a hold
here, and for a day in the code, since no property relates the two.  Time and faults
together would be too large, so the run has three parts: the whole clock without a
fault, three units of time (a quote, its grace and one more) with one fault, and two
faults while no time passes.  TLC has 17 million states of it.

The fee run has sales enough for two payments, and for more to pile up than is
sent at once; the ledger stays far below the 5000 entries at which the history is
cut and an old sale would be forgotten.

The runs fire every action, in every disjunct, of every next-state relation.
Deadlock is checked in the first eight.  The last four stop
when the phone's requests, the person's clicks or the clock's ticks, which are
bounded, are used up, so it is not checked there.

Types are not checked in the runs: every type invariant is proved, as are
`AnswersAreTrue` of `PayoutGuard` and `TransfersAreRecorded`.

**Reading the exceptions.**  Some properties state what the code provides with
the cases in which it does not.  `OnceUnlessInDoubt` excepts orders with an
unanswered transfer or an unsaved mark (`doubt`), those a round takes although they
have been marked since it looked, or are being marked (`again`), and those whose mark
was written over by a copy older than it, in memory or in the file (`lost`).
`EveryPaidOrderLeaves` excepts an order all of whose payments have left the last 200
rows of the wallet, one whose mark came back with an older copy (`revived`), one that
was marked when the process died (it stays marked, for a person) and an asset the owner
has not put on sale again after a restart.  `SendsOnce`, `ClosedIsUnsent` and `OneSender` except requests
with a change that could not be saved and that a restart then did not find, and
`OneSender` those that `run_work` wrote over: when the owner opens a request, or
the desk drops it, while `run_work` asks about the wallet's lock, both may send it;
the theorem says that there is no other way.
`LimitByReceipt` counts by the time of receipt, as `spent_sats` does: by the time
of sending the limit (`R/pairing/desk.rs:22`) does not hold, since a request that
waited a day for the wallet no longer counts when it is sent.  It is about the
requests that the desk still has, and also excepts one that was paid and then
recorded as failed, because its receipt could not be written.  The limit of a phone
may be changed while requests count, so the bound is the highest
that the desk takes for one (`MAX_PHONE_DAILY`; a higher one counts as none).  `EveryDeliveryIsReported` excepts a folder in which some
record meets the receipt of other contents, since the retry ends there
(`FlushAborts`).  `NeverOverpaid` excepts what refunds gave back while a payment
was under way or in doubt: `fee_pay` then takes what it has sent off a smaller
sum, and `max(0.0)` (`R/devfee.rs:430`) drops the difference, although the refund
was told of a credit.  `WhatIsOwedLeaves` excepts a lane that a refused or
unanswered transfer left blocked, which no command frees, and sums above 1000 RVN,
which `fee_pay` declines with the words for a sum that is too small.

`ToldIsTrue` and `WithinLimit` except requests of which a copy was read after it had
expired, when they were paid or being paid.  `ReportsAreTrue` excepts lots bought
before they were taken down and posts the job did not learn of, and
`UnsellsAreKept` the first of two requests to take one sale down.  `SkipWins` excepts
the pins that a failed unpinning, a rollback and "none of these" leave behind.
`ReservedArrives` is about the first `MaxHelp` files of the list.

`NoOversell` excepts a hold taken when nothing was left, an old number that came back by a
publish or a restart (`mishap`), holds a restart dropped, and payments taken after a
time that had been forgotten (`overdue`).  `HoldCovers` excepts the dropped holds and
quotes that are over and whose end was forgotten.  `SlotSoldOnce` excepts bookings that were
confirmed when they held nothing (`late`) and those a write of which failed or was cut
(`unbooked`).  `LedgerIsTrue` excepts two rows of an order that an old copy of pending.json
brought back (`returned`), and none of one that a write of others dropped from it
(`mislaid`), that was a day old (`aged`), or of which a write failed or was cut by a
restart (`unwritten`).  What is checked is that there is no other way; section 7 says
how each of them comes about.  Each of these notes is set by the step that does the damage
and for the orders it is done to; without any one of them TLC finds the property
violated.

Every property of a passing run has a mutant in its module, a plausible slip
placed before the definition it replaces ("Mutant: ..."), under which the
property is violated in that run.

## 4. Fairness

- **AutoSell.**  The timer of `toggleAuto` fires for as long as unattended
  selling is on, so a round that can start does (`WF`).  `listtransactions` and
  the unlocking are retried by every round, so they succeed again and again
  unless the node is gone for good (`SF` of `Load` or `Scan`, and of `Unlock`); within a
  round steps follow each other (`WF`); an RPC is answered or times out, and
  what the node holds it carries out; days pass, which empties the cap.  Both
  rounds are fair, as the timer of the screen does not wait for the one before.
- **RemoteSales.**  The retry is called when the screen refreshes web orders and
  after deliveries (`src/main.ts`), and waits at a tokio mutex, which is fair: it
  gets its turn again and again although deliveries also do (`SF_vars(Retry)`).
  Each record is posted in each run unless the run is cut short by a crash or an
  error, which is not always (`SF` of `FlushNext`), and the site answers sooner
  or later (`SF` of `PostAccepted`).
- **PhoneRequests.**  A queued `AutoSend` is run and its RPC ends (`WF` of
  `Run`), the desk's tick runs every 5 s, time passes.  Nothing is assumed of
  the owner, the phone or the wallet's lock: a request that meets a wallet locked
  for ever is closed by its age.
- **DevFee.**  The timer looks every 3 minutes and finds the wallet unlocked
  sooner or later, or the owner presses the button (`WF` of `Start`), a call ends
  (`WF` of `Step`), and creating the marker does not fail for ever (`SF` of
  `BeginPayout`).
- **AssetKeep.**  `ensure_migrated` and the worker of `start_auto_pin` come round
  every 30 minutes for as long as the app runs, a command that was sent and a file
  that was begun end (each RPC has a time limit), and the rest after a miss is over
  in six hours (`WF` of the migration, `RoundBegins`, `WorkerStep`, `MissExpires`,
  `RowStep`, `AskRuns`).  Nothing is assumed of the person, of other computers or
  of the screen's own refreshing.
- **PayoutGuard, StaffRefund.**  Safety only.  A lane that a crash left blocked
  stays blocked until a person looks, by design; there is nothing to be
  eventually true.
- **WalletLink, WalletSell, ShopOrder.**  Safety only.  An order's or a link's
  payment is up to people, relays and the node.  That a take-down is answered in the
  end is said as a safety property (`UnsellsAreKept`); its liveness needs an instance
  too large for TLC.

## 5. Power losses and crashes

A crash of the process loses memory and keeps files.  A power loss also undoes
what was not synced.  In `PayoutGuard` the two directories `dir` and `disk` differ
by the changes since the last directory sync, and a power loss leaves one of
`Survivors`: `disk` itself when the file system keeps the order of directory
changes (ext4 and APFS with a journal do), or any mix otherwise.  Contents are
synced before a name is given to them, except for the marker, whose bytes are
written after its name exists: `Torn` is a marker without its bytes.

In `StaffRefund` and `DevFee` the journal or ledger is one file replaced by a rename; `sure` is the set
of its versions since the last directory sync.  The directory is synced on Unix
only (the code opens it under `cfg(unix)`); on other systems the mutant
`SavedUnsynced` is what the code does, and it shows what a power loss then can
lead to: a request repeated after it is paid again.

## 6. What is proved

Each theorem is stated for every value of the constants that satisfies the
module's ASSUMEs; `THEOREM`s below are those a reader should know of, the
lemmas under them are in the proof modules.

**PayoutGuardProofs** (any processes, ids, contents, txids).

| Theorem | States |
|---|---|
| `TypeCorrect` | `Spec => []TypeOK` |
| `PaidAtMostOnce` | `LaneAssumption => (Spec => []AtMostOnePayment)` |
| `DoubtStaysBlocked` | the same for `UnsettledIsMarked`, in the files as they are and as a power loss leaves them |
| `ReportsAreTrue` | the same for `AnswersAreTrue` |
| `ImplementsLedger` | the lane implements `PayOnce!Spec` |

`AtMostOnePayment` says nothing about files, so it is not inductive.  `IInv`
adds who owns the marker: the guard admits one process (`GuardExcludes`); from
the creation of the marker to its removal one process owns it (`OneOwner`) and
at each place knows what is settled (`OwnerKnows`), above all that its own
request has no receipt once it has looked again with the marker in place; a call
at the node is the only one and its request unpaid (`OneCall`); receipts are true
and what is on the disk is a part of them (`ReceiptsAreTrue`); whatever is in
doubt is marked in both views (`Marked`).  A second payment would need a call for
a paid id: by `OneCall` and `Marked` that call's process has the marker, and by
`OwnerKnows` no receipt, while the payment has either its receipt or the marker
of its own.

`LaneAssumption` is `OrderedMetadata \/ ~WaitsForAck`.  `acknowledge` removes the
marker and relies on a receipt it has not synced itself: if the receipt's
directory sync failed and the file system may persist the removal first, a power
loss leaves neither.  So the "send" lane is proved for file systems that keep the
order, and the other lanes for all.

**StaffRefundProofs** (any ids, sales, prices, rates, limits, power losses).

| Theorem | States |
|---|---|
| `TypeCorrect` | `Spec => []TypeOK` |
| `RefundsAreRecorded` | `Spec => []TransfersAreRecorded` |
| `RequestPaidOnce` | `Spec => []PaidOnce` |
| `NotSentHolds` | `Spec => []NotSentIsTrue` |
| `DayLimitHolds` | `Spec => []DailyLossIsBounded` |
| `RefundsFit` | `Spec => []RefundsFitThePayment` |

`IInv` quantifies over what a power loss may leave: the journal that is read is
one of these (`FileSurvives`); the step a call has reached is on the disk for
certain and nothing is paid before it is dispatched (`CallIsSaved`); a reservation
that has left "reserved" is in every journal that may survive
(`ReservationsLast`); what was reported as not sent remains there, and unpaid
(`ToldAreKept`); and every transfer is known to every such journal, with its sums
(`TransfersAreRecorded`).  A repeated request finds itself in the journal
and is not paid again.

The limits are sums over what was transferred, while `reserve` compares sums over
the journal it reads.  `LimitsHold` is the invariant between them: in every journal
that may survive, the active reservations of a day and of a payment are finite in
number and within their limits (`Within`).  A reservation keeps it by the check
`reserve` makes on the journal it adds to (`ReserveWithin`), a cancellation takes
away (`WithinPart`), and a power loss picks one of the same journals.  The
transfers, by `TransfersAreRecorded` and `PaidOnce`, map one to one into the
reservations of any of these, so their sum is no more.

**PhoneRequestsProofs** (any phones, requests, amounts, permissions, any number of
failed saves and restarts).

| Theorem | States |
|---|---|
| `TypeCorrect` | `Spec => []TypeOK` |
| `RequestSentOnce` | `Spec => []SendsOnce` |
| `ClosedRequestsUnsent` | `Spec => []ClosedIsUnsent` |
| `SentByOne` | `Spec => []OneSender` |
| `DayLimitHolds` | `Spec => []LimitByReceipt` |

Neither property mentions `run_work`, and a step of it could break them from a
state that satisfies them.  `IInv` adds what the desk knows while it does not
look: an id that is kept, saved, run or sent has been taken in and is not taken
in again (`OnlySeen`); while the answer of `send_rvn` is awaited the entry says
"sending", if it has not been trimmed, whatever the owner and the clock do
(`CallIsSending`); after it the request is past, so that no run is queued and
neither `retry_unlock`, the owner nor a tick takes it up (`SentIsPast`), also
after a restart, which finds either the past status or "sending" and makes that
"unknown"; hence there is one call (`CalledOnce`).  The last two except requests
that a restart did not find as they were, and these alone.  The argument holds
whether or not `run_work` writes over what the owner has decided.

`OneSender` and `LimitByReceipt` do depend on that, and `LInv` says what holds of the
requests that were neither written over nor lost: one the owner has had on the
send screen has not been called and has left the machine's hands for good
(`ScreenIsOwners`); one the machine sends, has sent or may send came in as "auto"
(`MachineIsAuto`), that is, after the desk had compared it with what the phone had
left (`limit_left_rvn`); and what it holds or has sent, while it counts, is within the limit
(`HeldWithin`).  A sum grows only as a request comes in, where the code compares it,
and requests leave it as they age, are closed or are dropped.

**ShopProofs, orders** (any orders, stock, times, restarts and failing writes; a quote
and its grace are shorter than a hold, and there are finitely many orders).

| Theorem | States |
|---|---|
| `TypeCorrect` | `Spec => []TypeOK` |
| `SlotGoesToOne` | `Spec => []SlotSoldOnce` |
| `OneRowPerSale` | `Spec => []LedgerIsTrue` |
| `HoldsOutliveQuotes` | `Spec => []HoldCovers` |
| `SoldFromStock` | `Spec => []NoOversell` |

Each property speaks of where orders end and `IInv` of how they get there.  For the
slot: of two bookings that hold it the quote of one had run out before the other order
began, and a hold beside a booking paid in time has run out, so that a confirmation in
time finds no second one (`SlotsApart`); and who asked for the slot and was told
"paid" has a paid booking once the sweep is past it, unless it was cancelled or a write of
bookings.json failed (`SlotsBooked`), so that the property can speak of the customers
who come.  For the ledger: an order nobody has filed is in no copy of pending.json
(`EarlyUnfiled`), so a copy written back late cannot bring it in; one settles at a time,
and what is pending or about to be written has no row (`RowsOnce`); what was filed is
pending, written, being written, or in one of the notes (`RowsKept`).  For the stock: an
end in order_until is that of the order's quote, so that the sweep takes a payment in
time or one whose end was forgotten (`UntilsAreEnds`); while no hold is unbacked or
dropped, no old number came back and no forgotten time let a payment in, there is a piece
for each order that holds one and may still be paid, and the pieces left with those
sold are no more than the first stock (`EnoughLeft`).  An order that was sold and still
holds its piece is the one the sweep is about to take, and that hold has not run out for
any order that came later (`SoldIsSwept`); `NoOversell` follows by adding that one to
the orders settled.

**ShopProofs, the developer's share** (any sales, shares, callers, bounds of a payment,
crashes and power losses; a share is a natural number).

| Theorem | States |
|---|---|
| `FeeTypeCorrect` | `FeeSpec => []FeeTypeOK` |
| `DeveloperIsNotOverpaid` | `FeeSpec => []NeverOverpaid` |
| `LedgerErasesNothing` | `FeeSpec => []NothingIsErased` |
| `FreeMeansBooked` | `FeeSpec => []FreeLaneIsBooked` |

All three are about sums over what was sent and sold, and about every ledger a power
loss may leave.  `FeeIInv` says how a payment comes to be in the ledger.  One call at most is past
its beginning (`OneCall`): PAYING is taken before the marker, and the marker of a call
that was cut off blocks the next.  From the sending to the booking the lane is
marked, the one transfer not yet booked is that call's, and every other is in the sum
of each ledger (`SentIsBooked`).  In each ledger what is owed, was given back and was
sent makes up at least the shares of its sales, and nothing is booked that has not
left (`Balanced`).  Unless the lane is blocked for good no ledger owes more than its
sales leave, up to what was given back too late, and neither does what a call has read
(`OwedIsOpen`): `book` takes off what was sent, and a refund while a payment is in doubt
is capped by what is still owed.  The sums are those of `Sums`.

**AssetsProofs, sales by phone** (any sales, requests, lots, lost answers; `None` is none of
them and no status).

| Theorem | States |
|---|---|
| `TypeCorrect` | `Spec => []TypeOK` |
| `LotServesOneJob` | `Spec => []CoinsAreNotShared` |
| `OneLotForAJob` | `Spec => []LotMadeOnce` |
| `ReportsHold` | `Spec => []ReportsAreTrue` |
| `TakeDownsAreKept` | `Spec => []UnsellsAreKept` |

A lot is made, offered, posted, bought and taken off in steps of three parties,
so `IInv` relates what each of them knows.  A job holds its lot from the time it took
it (`JobsHold`) and has none made unless its lane says so (`LanesCount`).  What is
out belongs to a job that knows it, or whose post was lost, only that is bought, and
a post that says "off" belongs to a lot that is gone, or to one a buyer crossed
(`PostsAreKnown`).  What the phone was told the job has gone through
(`ToldIsSo`); a job ended "sold" has a bought lot (`SoldWasBought`), and one ended
"cancelled" has moved its lot or never posted it (`CancelledIsOff`).  A sale that
failed or was refused has no post, which leaves `ReportsAreTrue` to the last two.
What a step may make of the jobs is proved once, action by action (`Moves`): a job
stays, or goes from one status to another in one of a few ways.  The other
lemmas ask of each of these ways, and not of each action, whether it keeps their part.

**AssetsProofs, kept files** (any files, of which any are the wallet's own; any number of
files a round; clicks and faults; `NoFile` is no file).

| Theorem | States |
|---|---|
| `KeepTypeCorrect` | `KeepSpec => []KeepTypeOK` |
| `DeclinedIsLet` | `KeepSpec => []SkipWins` |
| `PinnedIsAsked` | `KeepSpec => []ReceivedIsAsked` |

`SkipWins` names who may still have a declined file in hand, and is inductive once it
is known that a worker past its first look has a file (`WorkersHold`): each step is
shown to leave no declined file pinned unless somebody will look again or the code
accepts it (`astray`).  `ReceivedIsAsked` speaks of pins alone, and a pin comes of
a wish that may be far away: read for a migration, remembered by a row that will put it
back, or on its way to the screen in an answer.  `UnaskedIsLeft` follows a file of
somebody else's that nobody has asked for through all of these: it has no pin, also not among
those read (`Unpinned`), no keep in the file or in any answer (`Unwished`), no row that
keeps it or would restore a keep (`RowLeaves`), and no worker has it (`WorkLeaves`).

**WalletLinkProofs** (any links, requests, wraps of each, amounts, limits, commands
cut short).

| Theorem | States |
|---|---|
| `TypeCorrect` | `Spec => []TypeOK` |
| `OnePayment` | `Spec => []PaidOnce` |
| `AnswersAreTrue` | `Spec => []ToldIsTrue` |
| `RevocationIsFinal` | `Spec => []RevokedStaysOff` |
| `NothingLost` | `Spec => []NothingIsMissed` |
| `LimitHolds` | `Spec => WithinLimit`, of the step that pays |

A command works on a copy and saves it twice, and may be cut short before it does,
so `IInv` speaks of two states.  Of each, what is recorded of a request agrees with
what was paid and told, and a revocation that was read has ended its link or keeps
it from beginning (`StateIsTrue`); the copy adds to state.json and takes nothing off
(`CopyIsAhead`).  Answers that are about to go out are backed by state.json already
(`AnswersAreBacked`), as the inbox saves before it delivers, so that a command cut
short never contradicts what the phone has heard.  An approval's place says whether
its request is paid (`PaymentIsMarked`) and, up to the broadcast, that the link is
live and the limit kept by the state it was checked in: GATE admits no other
command in between, only the clock, and with it the sum of the day can but shrink.
A wrap the phone made is with the relays or was read (`WrapsAreKept`).

**SalesProofs, the outbox** (any order ids, payments, contents, transaction ids, crashes
anywhere; `None` is none of them).

| Theorem | States |
|---|---|
| `TypeCorrect` | `Spec => []TypeOK` |
| `CompletionsHold` | `Spec => []CompletionsAreTrue` |
| `PinnedStays` | `Spec => RecordsArePinned`, of every step |
| `ImplementsLedger` | `Spec => PaymentBuysOnce`, that is `PayOnce!Spec` |

The outbox and the screen share the lane without a common lock, and `IInv` says why
the lane is enough.  The marker is that of the one task whose sale is under way
(`MarkerHasOwner`); what the node still holds has the marker and has not been sent
(`WireIsMarked`); what was sent has its receipt, or the marker still
(`SendsAreKept`).  So a sale that finds neither receipt nor marker is of a payment
nothing was sent for, and the node's transfer is a `Pay` of the ledger.  Receipts,
answers and the transactions in the records are true (`AnswersAreTrue`,
`RecordsAreTrue`), so an answer from any of them is a `Tell`.  `TasksAreKnown` says
which record each place in `deliver` and in the retry has pinned by then.
The proof goes by what a step may do to the records (`RecordStep`: prepare, settle,
complete) and to the lane (`LaneStep`: tell, begin, make, drop, receipt, unmark): that
each action is one of these is shown once, and the invariants are shown of these.
The binding of a payment to an order id is not used: it spares a second order a
wrong record, and the lane would refuse it anyway.

**SalesProofs, unattended selling** (any orders, instalments, rounds, prices, transfers,
crashes; `Nothing` is no payment and no transfer).

| Theorem | States |
|---|---|
| `AutoTypeCorrect` | `AutoSpec => []AutoTypeOK` |
| `FilledOnce` | `AutoSpec => []OnceUnlessInDoubt` |
| `SoldToWhoPaid` | `AutoSpec => []OnlyPaidOrders` |

The properties are about transfers the node has carried out; `AutoIInv` says the
same of those it was asked for, since it may carry them out later, after a crash as well.
Transfers have numbers of their own and are in one place (`AsksDiffer`); an order with one
is marked in memory and in `fills.json`, or excused (`AskedIsMarked`): a write of an
older copy takes its mark away, and is what `lost` records; so a round
that asks for it again does so out of an old queue, or after an answer that did not
come, and both are what `again` and `doubt` record (`OnceAsked`).  Between the copy of
the marks and the transfer three steps of others may fall: two rounds have the same
order in hand only if one took it after the other (`HandsDiffer`), an order whose mark
is being written or taken back has no transfer (`HandsAreNew`), is in the copy
(`CopyMarks`), and is still marked when its mark is saved (`HandsAreMarked`), each unless
it is excused.  What a round has picked is paid and has a confirmation (`PickedIsPaid`,
`HandsArePaid`), and a payment that has one is not replaced, so it is still paid when the
transfer is asked for and ever after (`AskedIsPaid`), however old the queue.

**Sums** (any finite set, any function into the naturals).  The limits are stated with
the library's `SumFunctionOnSet`, a fold, and its definition is a `CHOOSE` of a
recursive function.  `SetInduction` is induction over the parts of a finite set,
stated for a set of sets in place of an operator, from the well-foundedness of the
naturals; with it the recursive function is shown to exist and to be the only one,
and then `SumWithout` (any element may be taken first), `SumType`, `SumOfMore`,
`SumOfPart` and `SumAtMost` (a one to one map into a set of no smaller values).

In all ten components the cases of the step lemmas follow the next-state relation, one for
each action, or one for each that touches the part at hand and one for the rest; TLC has
checked the inductive invariant as an invariant of the instances first.

**Only model-checked**: liveness (`EveryPaidOrderLeaves`, `EveryDeliveryIsReported` and the
others of section 4), which is out of the prover's reach.  Every invariant and every
action property of the runs is proved.

## 7. Where the code departs from its comments

The models follow the code.  Where that differs from what a comment says, or
leaves a case open that a reader would not expect, the property names the case; all
of them are listed here.

Unattended selling:

- After a transfer without an answer the mark is taken back (`R/auto.rs:421`), and the
  next round sends the order again; "one fulfilment per paid address"
  (`R/auto.rs:26`), and `R/raven.rs:135` asks callers not to send again (`doubt`).
- A round started by the timer while another waits sends what that one has queued
  (`R/auto.rs:369`; `again`).
- `mark_filled` and `unmark_filled` (`R/auto.rs:132-156`) copy FILLED, let its lock go,
  edit the copy and put it back: two rounds, or a round and `mark_sent`, erase each other's
  marks in memory or in the file, and such an order is sent again (`lost`); or they
  bring back a mark that was taken off after a refusal, and the order stays (`revived`).
  Two saves at a time use one staged name, and a fills.json that does not parse is
  read as an empty one.
- The scan reads the last 200 rows of the wallet (`R/auto.rs:260`), and a paid order
  that has scrolled out of them is not seen again, which `R/auto.rs:471-472` says of such
  a window elsewhere.
- The cap is compared during the scan, before anything of it is sent
  (`R/auto.rs:330`); "a daily cap in asset units, after which automatic sending
  stops" (`R/auto.rs:24`).
- The claims carry no `krw` (`R/server.rs:4070`), so the policy sees zero; "Above the
  top band nothing goes automatically." (`R/auto.rs:223`).

Phone requests:

- `run_work` asks for the wallet's lock without the desk's lock and writes the status
  without a look afterwards (`R/pairing/desk.rs:606`): a request the owner has opened
  or declined, or that was dropped as the 501st came in, is sent then (`overruled`).

Wallet link:

- `check_request` looks at the expiry (`R/wallet_link.rs:191`) before it looks at what
  is known, so a copy read late turns a request that was sent, or is being sent,
  into "refused: expired", tells the phone so, and no longer counts its amount;
  the file's head says otherwise (`R/wallet_link.rs:18`; `overdue`).
- A request that is read before the owner has confirmed the pairing is marked as
  read and dropped (`early`); the phone is told nothing.
- The lane "wallet-link" is never acknowledged (only "send" is, `R/send.rs:391`), so
  one payment in doubt blocks every later approval.  An end of the process while a
  request is "sending" leaves it so, with its share of the limit.
- The screen stops polling when no live link is left (`src/wallet-link-ui.ts:280`),
  so a revocation of the last link that was not delivered is not sent again.

Sales a phone asks for:

- A take-down of a lot that has just been bought returns Ok (`R/market_listing.rs:871`)
  and the job ends "cancelled" (`R/wallet_link/sell.rs:519`; `crossed`).
- If the answer to a post is lost, or the process ends before it is saved, the offer is
  out and the job does not know; it may end and give its lot to another (`adrift`).
- A second request to take a sale down overwrites the first (`replaced`), which is
  then never answered.

Files:

- A round always takes the same first 200 files it may pin, those it has already
  pinned among them (`R/peers.rs:260`, `:289`), so a reserved file further back is not
  pinned when it shows up, though `src/asset-keep.ts:143` says it will be.
- A damaged asset-keep.json reads as one without skips (`R/asset_keep.rs:79`), and a
  worker that is under way, or helps another computer, pins declined files then.
- After a release, a row whose pins were read before it shows a pin that is gone; an
  undo then keeps the wish without pinning and says the file is kept
  (`src/asset-keep.ts:125`).
- "None of these" does not look at busy rows: a keep under way pins after it.  A
  release whose pin a worker has just removed fails, and rolls back to keep.

Orders:

- What is left is looked at and taken in two sections of a lock (`R/stock.rs:89`), and
  the menu was copied before: two orders take the last piece (`mishap`).
- `publish_shop` reads the live number and writes it under a lock taken anew
  (`R/server.rs:4352`), so a piece sold in between is there again; and a failed write of
  shop.json is ignored (`R/server.rs:1162`), so a restart brings the old number back
  (`mishap`).
- `api_order` drops the ends of quotes that are over from order_until once there are more
  than 500 (`R/server.rs:2490`), and the sweep takes an order without one as in time for
  ever (`R/server.rs:1019`): a payment that comes after its stock was let go is
  accepted and the shop oversells (`overdue`).
- A booking's hold ends with the quote, a payment is taken 120 s longer, and
  `confirm` (`R/booking.rs:307`) marks whatever booking it finds, also a cancelled
  one (`late`); "if two people hold one slot, two come at three"
  (`R/booking.rs:409`).  bookings.json is written in place with its errors ignored
  (`R/booking.rs:225`, `:234`), and one that does not parse is read as one without
  bookings, whose slots are given out again (`unbooked`).
- HOLDS lives in memory while the table of orders is restored (`dropped`).  An order
  that is refused after its stock was held keeps it for 480 s, since nothing calls
  `release`.
- `open_order` (`R/ledger.rs:281`) rewrites pending.json without SETTLE_LOCK: an order
  filed meanwhile falls out and its sale is not written, as it is when two writers
  with one staged name leave a file that does not parse (`mislaid`); or a settled one
  comes back and may be written twice (`returned`).
- A failed write of `open_order` is ignored and the customer is answered
  (`R/server.rs:2471`); one of `settle` ends it with the order paid and still pending
  (`R/ledger.rs:347`), so that its row waits for `ledger_sweep`; a failed append loses
  the row (`R/ledger.rs:377`), as does a crash between the two writes (`unwritten`).
  `open_order` also drops what is older than a day (`R/ledger.rs:314`; `aged`).
- `ledger_sweep` writes the row of a late payment too, without confirming the booking
  or taking the piece; and a payment in time that is swept late is EXPIRED, as the
  sweep runs only while some screen asks for the state of an order.

## 8. What is not covered

- Amounts are small numbers; fees, dust, addresses, signatures and encodings are
  not modelled.  Arithmetic in the modelled parts is on checked or floating
  sums far from their limits.
- Files that are edited by hand or deleted, or damaged by anything but the writes the
  modules show (fills.json, pending.json and bookings.json may be torn there).  `devfee.rs`
  reads a damaged file as an empty one; a hazard says so.
- In `AutoSell` the 4000 marks that `mark_filled` keeps of more than 5000
  (`R/auto.rs:148`).  In `ShopOrder` the expected amounts (order_expect) and their
  pruning, the 500 orders of the table of states, and the shop's own change of a state.
- A second instance of the app on the same data.  The payout journal is made for
  it and is modelled so, and the outbox takes the lock file "orders" besides `GATE`
  (`R/remote_sales.rs:167`, `:210`); `STAFF_GATE`, PAYING and LEDGER_LOCK hold
  within one process only.
- The refund by the owner, which keeps no journal; certificates and guest codes
  asked for by phones; the pairing slot, the sealing of messages and the relays.
- `auto_deliver_web`, the unattended path of the outbox: it shares `deliver`
  with `RemoteSales`.
- In `WalletSell` jobs sell one amount of one asset; in `ShopOrder` one item is
  counted and one slot booked, and opening hours, prices and tickets are left out; in
  `AssetKeep` one asset names each file.
- The parts marked `not_modelled` in `PROJECT.json`, each with its reason there:
  either planned, or drawing, formatting and plain I/O, or external programs.

## 9. Plan

Done, in this order: `PayOnce`, `PayoutGuard` with proofs, `AutoSell`,
`RemoteSales`, `PhoneRequests` with proofs, `StaffRefund` with proofs, `DevFee`,
`WalletLink`, `WalletSell` with proofs, `AssetKeep`, `ShopOrder` with proofs; then
`Sums` and with it the limits of refunds and of phones; the proofs of
`WalletLink` and of `RemoteSales`, its refinement of `PayOnce` included; those of
`DevFee`, `AutoSell` and `AssetKeep`.

Modules that are worth writing next:
`AppLock` (a check of the password against an unlock and the count of failures),
`CertRotation` (the LAN certificate and its successor, one-time tickets),
`BackupPublish` (the copy, the replacement and their roll-back under crashes).

## 10. How to run it

    tlc -workers 2 -config MCPayoutSend.cfg MCPayoutGuard
    tlapm PayoutGuardProofs.tla

`PROJECT.json` lists for each run its module, its configuration and what it
shows, and for each mutant the definition it replaces.  No run takes longer than
three minutes on two cores; the proofs take a few minutes.
