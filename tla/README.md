# Formal model of the panel

This directory holds TLA+ specifications of the panel's Go service
(`src/go-api`) and of one of its administration pages, TLC configurations that
check them on small instances, and TLAPS proofs of theorems that hold for every
size. `PROJECT.json` maps every definition to the lines it models and lists
components, runs, seeded faults, findings, hazards and theorems.

## 1. The system

The panel sells network subscriptions (plans), wallet deposits and Apple ID
credentials, accounts for traffic, keeps DNS records and entry nodes reachable,
and offers an AI assistant to its operators. State is in PostgreSQL; handlers run
concurrently and synchronise only through row locks and advisory locks, so the
unit of atomicity is one transaction. The actors on the same rows are HTTP
requests of users and administrators, callbacks of payment gateways, reports of
probes and nodes, goroutines of the process, and a scheduler that runs every
minute.

| Component | State | Operations | Correct when |
|---|---|---|---|
| Order lifecycle (`user/order_write.go`, `payment_lifecycle.go`, `order_queue.go`, `order_admin.go`, `admin/order.go`) | `v2_order`, `v2_user.balance`, recovery keys in `v2_runtime_kv` | SaveOrder, saveDepositOrder, AssignAdminOrder, CancelOrder, MarkOrderPaid, handleQueuedOrder, RefundManagedOrder | one order waits per user; wallet money is neither created nor lost; an order is opened once |
| Checkout and callbacks (`payment/service.go`) | checkout columns of `v2_order`, `v2_order_payment_attempt`, `v2_payment` | Checkout (claim, gateway call, persist or release), Notify | a link that was handed out can be paid; one channel wins; one gateway transaction pays one order |
| Apple ID shop (`appleid/service.go`, `appleid/admin.go`) | `v2_apple_order`, `v2_apple_inventory` | CreateOrder, CancelOrder, MarkExternalPaid, SetExternalPayment, ReleaseExpiredReservations, import, disable, replace, refund | both tables agree on who has which credential; a sold one is never sold again; reservations end |
| Background sweep (`background/scheduler.go`, `user/order_queue.go`) | none of its own | HandlePendingOrders, ReleaseExpiredReservations, cleanup, daily reset | one bad row does not starve the others; the cleanup deletes nothing alive |
| Queue runtime (`queue/runtime.go`) | bounded channels, workers, busy counters | Enqueue, TryEnqueue, worker loop, Shutdown | no send on a closed channel; accepted jobs run; counters match jobs |
| Commission (`user/order_commission.go`, `order_admin.go`, `admin/commission_log.go`) | `commission_status`, commission balance, log | payout, reversal at refund, debt repayment, transfer, hiding and restoring of log rows | one payout per order; a refund undoes exactly it; nothing is gained or lost |
| Coupons, gift cards, campaigns (`user/invite_campaign.go`, `account_actions.go`, `passport/service.go`) | use counters, campaign rows | create, reward, abandon, spend, redeem | every use belongs to an order or a user; a reward is spent once |
| DNS failover (`admin/dns_failover_*.go`) | outbox, saga rows, an advisory lock, the provider's record | evaluate, prepare, call, finish, roll back, recover, manual switch, rule edits | an unknown outcome is repaired before the next change; database and DNS agree in the end |
| Traffic accounting and reset (`user/traffic_queue.go`, `order_queue.go`) | used traffic, two per-cycle markers | reports, daily reset, early period | a user is reset once per cycle, and not before it begins |
| Client entry monitoring and split (`admin/client_entry_*.go`) | per pair of probe and target a state with counters, events, split operations, backup pool | reports, confirmation, alert, automatic split, edits, notices to operators | an outage is announced; a split happens only while every online probe reports down |
| AI operations (`aiops/*.go`) | sessions, turns, actions, leases | send, rounds, grant and revoke, approve, stop, restart | one turn per message; an action is carried out once and only under a valid grant |
| AI operations page (`admin-src/src/pages/AIOpsPage.tsx`) | what is selected, shown, drafted, asked for | select, poll, stream, send, change access | late answers do not undo newer ones; a message is sent once |
| Sessions, gateway adapters, node API, ticket and Telegram commands, user migration, HTTP and configuration, other pages, scripts | — | — | see section 8 |

How they interact. `payment.Service.Checkout` works on the order row and one
attempt row per channel, calls the gateway outside any transaction, and stores the
link in a later transaction. A callback calls `MarkOrderPaid` (or, for the shop,
`MarkExternalPaid`), which settles the order and calls `openOrderTx` in the same
transaction. Opening an order credits the wallet and closes earlier orders whose
unused value was folded into it. Cancelling gives the wallet part back and leaves
a recovery key, so that a late callback can still settle the order; the wallet
part is then taken again. The scheduler puts a sweep on the bounded job queue once
a minute unless one is busy; the sweep cancels orders after two hours, opens rows
an older runtime left paid but not opened, pays commissions, deletes old orders
and resets traffic. Probes report to the entry monitor, which confirms an outage,
queues a split for a worker and leaves events that another worker sends out; DNS
failover is a worker of its own between the database and the DNS provider. The AI
page reads sessions by polls and by a stream while the service goes on by itself.

What is hard: a call to a gateway, a DNS provider or a remote shell between two
transactions; claims with a lease that expire; late, repeated and crossed
callbacks, reports and answers; checks made in one transaction and used in
another; batches that end at the first error; counters read under READ COMMITTED;
markers written apart from what they mark; requests and processes that die
between two steps; calendars. `PROJECT.json` "hazards" lists each at its line.

## 2. Modules

| Module | Models |
|---|---|
| `OrderPayment` | order lifecycle, checkout, callbacks, sweep transactions, refund, wallet |
| `WalletLedger` | abstract specification: what the above promises about a wallet |
| `OrderPaymentProofs` | TLAPS proofs about `OrderPayment`, and that it refines `WalletLedger` |
| `AppleInventory` | Apple ID shop with its checkout and callback path |
| `AppleInventoryProofs` | TLAPS proofs about `AppleInventory` |
| `OrderSweep` | the batch of the one-minute sweep, its early exit and its cleanup |
| `QueueRuntime` | the in-process job queue, its shutdown, the runner that feeds it |
| `Commission` | payout, reversal, transfer, log visibility |
| `CommissionLedger` | abstract specification: each commission is owed, paid or taken back once |
| `InviteCampaign` | campaigns of an inviter, registrations, the order that spends one |
| `Vouchers` | coupons of orders and gift cards |
| `TrafficReset` | the daily reset with its markers, reports and the calendar |
| `DnsFailover` | the switch of one DNS record between targets |
| `DnsFailoverProofs` | TLAPS proofs about `DnsFailover` |
| `BackgroundProofs`, `RewardsProofs` | TLAPS proofs about the three components of `MCBackground` and of `MCRewards` |
| `AIOpsTurnProofs`, `AIOpsPageProofs` | TLAPS proofs about `AIOpsTurn` and `AIOpsPage` |
| `EntryMonitor` | probe reports, outages per address, automatic splits |
| `EntryMonitorProofs` | TLAPS proofs about `EntryMonitor` |
| `AIOpsTurn` | sessions, turns and actions of the AI assistant |
| `AIOpsPage` | one browser page of it |
| `MCOrderPayment`, `MCWallet` | instances of `OrderPayment`; the wallet equation and the refinement mapping |
| `MCAppleInventory`, `MCAIOpsPage`, `MCEntryMonitor` | instances of the module of that name |
| `MCBackground` | `QueueRuntime`, `OrderSweep` and `TrafficReset` as one instance |
| `MCRewards` | `Commission`, `InviteCampaign` and `Vouchers` as one instance |

One action is one database transaction, or the code between two of them. A handler
that spans several has a program counter, so its steps interleave with everything
else. A transaction that fails a check rolls back and is a stuttering step. Definitions
whose comment starts with "Seeded fault", or that no next-state relation uses, are
not part of the specification: each is a plausible wrong version of the definition
that follows it, and shows that a property notices the difference.

### OrderPayment

| Variable | Code |
|---|---|
| `status` | `v2_order.status`: pending 0, paid 1, cancelled 2, done 3, closed 4; absent: no row |
| `draft` | columns fixed at insert: user, period, total/balance/refund_amount, surplus_order_ids |
| `checkout` | payment_id, handling_amount, checkout claim, fingerprint and cached result of the order |
| `callback` | callback_no; `TradeNo` and `ManualNo` stand for the order's own number and `manual_operation:` |
| `attempt` | one `v2_order_payment_attempt` row per order and channel |
| `balance` | `v2_user.balance` |
| `recovery` | an unexpired `order:cancel:recover:` key |
| `aged` | orders older than two hours (orders age in order of creation) |
| `version` | configuration of a channel; a new one may change the fee |
| `sess`, `links`, `payments` | requests in flight; payments gateways created; payments users made |
| `adminSaw` | the order whose status an administrator request has read |
| `opens` | history: how often `openOrderTx` committed |

Times are abstracted to the facts the code tests: a lease is `live` or not, an
order is `aged` or not, a recovery key is there or not, and time may change each of
these at any moment. The lease of the order row and of the attempt row are set
together but may be seen expired separately, as the code compares each with its own
clock reading. Amounts are small integers; coupon and discounts enter as the set of
net prices; the surplus value enters as a choice from `Surpluses`, the surplus
orders as the sets `applyPeriodSurplusTx` and `applyOneTimeSurplusTx` would name.
A snapshot of a link is its channel and amount, a fingerprint the channel's version
and the amount. Gateway behaviour is external: it creates a payment and answers,
or fails with or without having created it, and later delivers callbacks of
payments that users made, in any order and any number of times.

`Init` is an empty table or one paid-pending row of the older runtime as
`database/update.pgsql.sql` leaves it, including one with a negative total, which
`handleQueuedOrder` quarantines.

### AppleInventory

`order` and `item` are the rows of the two tables; `due` the orders whose
`reserved_until` has passed (both tables hold a copy of that deadline, written
together). `ReleaseExpiredReservations` is the scheduler's sweep and the sweep
other handlers start with; `CreateOrder` and `LookupExternalOrder` contain it.
Queries with SKIP LOCKED may pass over any available row: `SellAnother` chooses any
item, and `KeepForManual` is possible although stock exists, except for an item
the same transaction has just released. Product prices are chosen at creation.

### Queue, sweep and commission

`QueueRuntime`: a Go channel is its buffer, the queue of senders parked in a
`select` on it, and whether it is closed; what a goroutine does under `r.mu` is one
step. `Shutdown` may come before a worker has read the channel field. `OrderSweep`
reduces an order to its status, whether it has a wallet part (cancelling it then
locks the user's row) and a checkout claim; the batch, its order and its exit at the first error
are kept, and so are the candidates of the cleanup: those it reads as cancelled go
without another question, the others are asked about, and the DELETE comes later. Users are
deleted in the two steps of `deleteUsersByIDList`, or in one when `DeleteRaces` is
FALSE. `Commission` locks the order first in
every operation, and the sweep works through order numbers it read earlier;
percentages are data.

### Campaigns, coupons and gift cards

Transactions run under READ COMMITTED. A transaction is the steps between which
others can commit; a row's lock is derived from the phases of the transactions that
hold it, so a FOR UPDATE waits and an unlocked read does not. What `OrderPayment`
models in full is here only what a campaign or a coupon can feel of it. In
`InviteCampaign` an order waits, is cancelled, is opened in time or recovered after
its cancellation (by a late payment or by the administrator, `MarkOrderPaid`), and
is refunded; `OpenOrder` needs the inviter's row, which `SaveOrder` holds. `opened`
is a history. In `Vouchers`, `Settle` stands for the end of a waiting order, after
which the coupon's columns do not change.

### TrafficReset

A stamp `32 * month + day` is a date. Several processes may sweep, each in steps:
read the day, decide for a user, reset, write the two markers; each statement may
fail. `used` is the day of the oldest traffic a user still has on the counter, which
is what tells a reset that came too late from one that lost nothing. One plan, no
expiry within the window, and the monthly methods only; a refund that lowers
`paid_at` and `SweepTrafficResets(forceBackfill)`, which no caller passes as true,
are left out.

### DnsFailover

`pc`, `held` and `holder` are a worker's place, the saga it read and the advisory
lock. `record` is the provider's record, `late` the calls nobody waits for any
more, and `overtaken` says that such a call was the last to change the record.
Retry times and leases are left out: a due row may be taken at any time, so no
property depends on them. It is assumed that nobody else edits the record and that
an edit of the rule does not change the record's id or TTL while a saga exists (the
code refuses such edits).

### EntryMonitor

`reportClientEntryProbeResults` reads the clock, then waits for its probe's row and
for the one lock of all event writers, and does the rest under both until it commits.
The rest is one step (`Report`, `Resend`); the wait is `Wait`, and `clock[p]` keeps for
it which probes were heard or grew old meanwhile. A heartbeat or a report of such a
probe carries a time later than the clock, so the query for other pairs that are down
leaves it out, or it was still fresh by the old time: `Answers` lets the query say
either, and is exact for all other probes. A report without a `Wait` before it is one
that did not wait. Times are not compared further, so the model contains a few
answers more than the code has. After a report the probe has heard the answer or has
not (`Hears`); if not, it sends the same result again. A request of its own that is
still waiting ends with the client's connection (`Drop`, `Heard`).

A heartbeat that finds the last one too old deletes the probe's pairs (`Return`). The
limit is the longest `offline_after_seconds` of the probe's groups, while the monitor
calls a probe offline after 90 s, and the clock of a heartbeat is read before it has
the row, so a probe the monitor missed may also come back with its pairs (`Resume`).

The split worker looks (`Look`), locks the probes that are online by its clock `FOR
SHARE` (`Lock`), and then misses, cancels, postpones, splits or aborts. A probe that was
heard after the clock (`moved`) may be left out by the query (`last_heartbeat_at` must
lie before the clock), one that lapsed since may be taken.

One monitor per target; manual splits, checks of backup addresses, the policy switch and
the delivery of alerts are left out, and the two halves of a split are not monitored
further. `seen` is a history: how many different failures of the present endpoint in a
row a probe had. So is `doubt`: addresses whose last alert was decided by an answer that
was wrong because of an old clock, or of which a probe came back with a pair down.

### AIOpsTurn and AIOpsPage

`AIOpsTurn`: what is said and what a command prints is left out; the deadline of a
standard turn and the renewed lease of a full-access one are one flag that time may
take away. Accounts keep their role and sessions are not deleted. `AIOpsPage`: the
page's generation counters are flags (a request is "current" until its counter
moves on). Visibility, tabs, and the running flag of the session list are left
out. A message is the text with its model, access mode and effort (`Retried`): the
same text with other settings is another message. A changed access version makes a
new request id, which is why
`OneTurnPerMessage` speaks of requests with the same id (see hazards).

## 3. Runs

Every run finishes within four minutes on two workers. Deadlock is not
checked: orders, requests, jobs and counters are bounded, so a bounded behaviour
may really come to its end.

| Run | Instance | Properties |
|---|---|---|
| `switch` | one order, free or priced 2, two channels, two requests, two gateway transactions, one configuration change, two payments | `OneWinner`, `LinkSettles`, `CachedLinkMatches`, `ClaimsAgree`, `PaidInFull` |
| `wallet` | the union of two bounds: *gateway*, two orders, one channel, one request at a time, one gateway transaction used twice, legacy rows; *tables*, three orders with deposits, surplus 0 and 3, two openings each, no requests | `OnePending`, `OpenedOnce`, `CallbackOnce`, `WalletConserved`, `ImplementsLedger` |
| `shop` | two orders, three credentials of two products, prices 0 and 2, two requests, under `FairSpec` | `ShelfAgrees`, `NeverResold`, `HolderDelivered`, `ReservationsEnd` |
| `background` | the queue: two sweeps, a mail job and a non-blocking job, two workers, a buffer of one; the order sweep: two orders, one of them a legacy row, corrupt or not, a batch of one, one failing statement; the reset: one user who expires on the 1st or 30th, two processes, 28 to 30 March | `OneSweep`, `NothingDropped`, `ShutdownReturns`, `DeletesClosed`, `QueueMoves`, `CycleClosed`, `CycleCleared` |
| `rewards` | commissions: an order and a deposit, two sweeps at a time, two log rows, two previews and two keys, withdrawal open or closed at every payout; a campaign: two registrations, two handlers, two campaigns, codes that last (one order of the inviter) or that expire (two codes, two orders, one request at a time); vouchers: two customers, two requests, three orders, a coupon of two uses, a card | `Conserved`, `ImplementsLedger`, `AmountAgrees`, `DiscountOnce`, `CouponConserved` |
| `failover` | two targets, two workers, any number of failing and late calls, unknown commits and crashes | `RecordMatches`, `DivergenceOwned`, `ManualKept`, `SagaEnds` |
| `aiops` | one session, two messages, two turns, one action, two access versions, one restart | `SessionMatchesTurn`, `ScopeKept`, `SentOnce`, `ActionSettles` |
| `page` | inside Telegram; the union of three bounds, *switching* (two sessions), *watching* (a reply grows while access is revoked), *sending* (one message, answers lost) | `ShownIsSelected`, `OneTurnPerMessage` |
| `page_live` | one session, two reads and one stream event on their way | `PageCatchesUp` |
| `entry` | scenes *alarms* (two targets share an address), *clocks* (one target, both reports wait, one heartbeat lapses, results sent again), *results* (an endpoint is edited, results sent again), *replace* (a leaf is listed again under another target, one split worker), *outage* (one heartbeat lapses, two split workers); two probes, two failures confirm | `DownAnnounced`, `DownConfirmed`, `SplitMeansDown` |
| `rebind` | one Apple ID order, two channels, two requests | violation of `PaymentAccepted` (section 7) |
| `late_link` | as `switch`, no payments | violation of `LateLinkKept` (section 7) |

Parts, bounds and scenes. `MCBackground` and `MCRewards` hold components that share
no state in the program, so a behaviour chooses one of them (`part`) and lets the
others rest. Elsewhere some interesting cases need many of one thing and few of
another, and all of them at once would not fit. `MCWallet` and `MCAIOpsPage` explore
the specification itself under a `CONSTRAINT` that is a union of bounds (`Within`);
`MCEntryMonitor` chooses a `scene`, a conjunct of its next-state relation. Either way
behaviours are only left out, none is added.

Why the bounds are enough. Claims and links conflict between two requests, on the
same channel or on two; a third request repeats one of these. Two configuration
versions make a stored fee stale. `CallbackOnce` needs two orders and one number.
*tables* needs three orders: one completed, one that folds it in, one
created after the second was refunded or cancelled; funds of 1 against prices of 2
make the wallet too small for an order, and a surplus of 3 makes refund_amount
positive. In the shop a conflict over stock needs two orders and two items of one
product. In the background a batch of one with a bad row in front is the smallest
queue that can be blocked; a buffer of one is full after one job. A second sweeper
and the end of March are what a marker can get wrong: going back a month runs over
February, and a sweep of one day ends on the next. Two workers suffice for the failover, because at
most one holds the lock. A restart, a lost lease and a second message are what can
come between a turn and its session; a third message repeats the second.

What the properties say:

- `OnePending`: a user never has two orders waiting for payment or for opening.
- `OpenedOnce`: an order that was opened neither waits for payment nor can be
  recovered by a callback; only an administrator opens a refunded one again.
- `OneWinner`, `CallbackOnce`, `PaidInFull`: which payment counts. At most one
  channel of an order wins, a transaction number belongs to one order, and a stored
  number is of a payment with the exact amount the order asks for on that channel.
- `LinkSettles`: every link ever created for a still pending order can settle it.
- `CachedLinkMatches`, `ClaimsAgree`: overlapping requests leave the order row and
  the attempt rows consistent.
- `WalletConserved`: the balance equals funds, minus what waiting orders hold, plus
  credit minus balance_amount for every opening.
- `ImplementsLedger` (`wallet`): `OrderPayment` refines `WalletLedger`: every step
  moves a wallet as one ledger action (hold, release, open, reopen) or not at all.
  (`rewards`): `Commission` refines `CommissionLedger`: a commission is earned, taken
  back and left to a deleted inviter in this order, one payout at a time.
- `ShelfAgrees`, `NeverResold`, `HolderDelivered`, `ReservationsEnd`: the two tables
  of the shop name the same buyers; what was sold stays sold; a payment of an order
  that holds an item delivers it; every reservation ends.
- `OneSweep`, `NothingDropped`, `ShutdownReturns`: sweeps on the queue never overlap;
  an error from `Enqueue` means the job never runs, and after `Shutdown` every
  accepted job has run once; `Shutdown` comes back.
- `DeletesClosed`, `QueueMoves`: the late DELETE of the cleanup hits closed orders
  only; every due order leaves the queue, whatever stands before it.
- `CycleClosed`, `CycleCleared`: a recorded cycle has no traffic of earlier cycles on
  the counter, and begins no earlier than the day the overflow of the month before it
  gives (`Begins`, see section 7); old traffic is cleared however often the sweep fails.
- `Conserved`, `AmountAgrees`, `DiscountOnce`, `CouponConserved`: what inviters
  received equals what the log says; a campaign's amount is the sum of its records;
  no order is saved with a campaign that an earlier order holds or has ever spent
  (the action property excludes neither two orders that were both saved before one of
  them was opened, see section 7, nor two campaigns); uses left plus orders that used the coupon are
  its limit (a cancelled order does not give its use back).
- `RecordMatches`, `DivergenceOwned`, `ManualKept`, `SagaEnds`: see `DnsFailover`;
  `RecordMatches` excepts a record that a call nobody waited for changed last.
- `SessionMatchesTurn`, `ScopeKept`, `SentOnce`, `ActionSettles`: a session runs
  exactly while its turn does; what runs unstopped runs under the grant its turn
  began with; a command reaches its target at most once, and what was claimed is
  settled, if only as "unknown".
- `ShownIsSelected`, `OneTurnPerMessage`, `PageCatchesUp`: the page and its server.
- `DownAnnounced`, `DownConfirmed`, `SplitMeansDown`: an outage at an address is the last
  thing announced of it, unless the address is in `doubt` (a report was misled by a clock
  it had read before it waited, or a lapsed probe came back with its pairs; see section
  7); a pair is down only after that many different failures of its endpoint; a split
  happens only while every probe the worker locked, and every other online probe that
  was not heard from since the worker's clock, has the target down.

`TypeOK` of each module is written down with it as documentation of its state; it
holds on all instances above; section 5 says where it is proved, as stated or as part
of an inductive invariant.

## 4. Fairness

Nothing is assumed of users, administrators, gateways, probes or new requests.

- `shop`: the clock goes on (`ReservationExpires`) and the scheduler sweeps again
  and again (`ReleaseExpiredReservations`); `Runner.Start` enqueues a sweep on every
  tick, and `RunOnce` calls it whether or not `HandlePendingOrders` failed.
- `background`: a started worker goes on receiving and running, an `Enqueue` that
  entered its select and a `Shutdown` that began go on (goroutines of a live
  process); the minute's job runs and the clock ticks, a checkout claim is released
  or expires, a begun deletion of a user ends; the sweep for traffic is repeated
  every minute. Statements of a sweep fail boundedly (`MaxErrors`) in the order
  sweep; in the reset they fail any number of times but not for ever
  (`<>[][~Abort(s)]`), which lets a database recover and asks nothing more of it.
- `failover`: weak fairness for the steps of a worker (the ticker starts a cycle
  every few seconds, retry times are capped), strong fairness for the success of
  each external step: neither the provider nor the database fails for ever. Crashes,
  late effects and edits are unbounded and unfair.
- `aiops`: a worker that lost its lease, or whose turn was stopped, gives up and
  finishes the turn (`watchTurn` polls), leases of abandoned turns expire, the
  session list is opened again and again and settles what is left over, and an
  action that runs goes on through check, send, return and completion, or is given
  up (`reconcileExpiredActions`, called by that list).
- `page_live`: the poll timer and the stream's reconnection run for ever; requests and events arrive;
  strong fairness for answers that are still wanted, because the server answers a
  repeated request sometime.

## 5. Proofs

TLAPS proves the theorems below for every value of the constants that satisfies the
assumptions; TLC evaluates the assumptions in the runs. They hold for any users,
orders, methods, jobs, workers and so on; the only sets asked to be finite are the
orders that a sum goes over.

- `BoundsAssumption`, `NamesAssumption` (`OrderPayment`): bounds, prices and fees are
  natural numbers, there is a user and room for one order (without it a legacy row
  could have taken wallet money and not be in the table), NULL and the two fixed callback numbers are no
  gateway numbers, channels or requests.
- `LegacyAssumption` (`OrderPayment`): a row of before the migration is the only row
  of its table in the initial state, so it took no more from the wallet than the user
  had, nothing is folded into it, and a deposit was only ever created with a positive
  amount. The last two conjuncts are what the refinement of the ledger needs.
- `ShopAssumption`, `FailoverAssumption`, `AIOpsAssumption`, `AIOpsPageAssumption`:
  the names for nobody, no target and JavaScript's null are not workers, targets,
  turns, snapshots and so on; bounds are natural numbers.
- `QueueAssumption`: the sweeps are the jobs of one queue, sent by `Enqueue`, the
  buffer holds at least one job. `BackgroundAssumption`: the order sweep's constants
  have their types, months have 28 to 31 days, days of expiry are 1 to 31.
- `EntryAssumption` (`EntryMonitor`): both thresholds are positive, the first targets,
  leaves and addresses are where they belong, `NoLeaf` is no leaf.
- `RewardsAssumption`, `CommissionAssumption`: rewards, targets and commissions are
  positive (the code makes no record of less), limits are natural numbers; a table has
  finitely many orders.

| Theorem | Statement | Argument |
|---|---|---|
| `OrderPaymentProofs!TypeCorrect` | `Spec => []TypeOK` | `TypeOK` is inductive as stated: it contains that balances are natural, which holds at creation because the wallet pays the minimum of balance and price, and at recovery because `MayRecover` checks it. `SessionRows` ties the program counter to the fields that are set. |
| `OnePendingHolds` | `Spec => []OnePending` | Only `insertOrder` makes an order wait, and it is guarded by `hasPendingOrder`; every other action starts no wait (`StartsNoWait`) and leaves the owner alone. |
| `OpenedOnceHolds` | `Spec => []OpenedOnce` | Not inductive alone: an absent order must never have been opened, or inserting it would break it. `OpenedOnly` adds this, and that a paid-pending order has no recovery key, because the sweep opens it without clearing one. |
| `OneWinnerHolds`, `CallbackOnceHolds`, `LinkSettlesHolds`, `CachedLinkMatchesHolds`, `ClaimsAgreeHolds`, `PaidInFullHolds` | `Spec => []OneWinner` etc. | One inductive invariant, see below. |
| `WalletLedgerImplemented` | `Spec => ImplementsLedger` | Initial states map to initial states; each action is a hold, a release, an opening, a reopening or a stutter of `WalletLedger`. It needs `OpenedOnly` and, of the payment invariant, that an order folded into another one has been opened (`Kept`). |
| `WalletConservedHolds` | `Spec => []WalletConserved` | Next to the ledger's steps: a step changes the moves of one order and the purse of its user by the same amount (`MoneyMoves`), because an order that waits was never opened and one that is folded already was. What that does to the sum over all orders is `SumChanged`, see below. |
| `AppleInventoryProofs!TypeCorrect` | `Spec => []TypeOK` | inductive as stated |
| `ShelfConsistent` | `Spec => []ShelfAgrees` | `TypeOK /\ ShelfAgrees` is inductive; the two directions (orders to items, items to orders) need each other. `SweepAgrees` treats the sweep once for the three actions that contain it. |
| `SoldForGood` | `Spec => NeverResold` | an item with a buyer is sold or retired, by `ShelfAgrees`; no action frees or reserves such an item |
| `HolderDeliveredHolds` | `Spec => HolderDelivered` | a waiting order holds its item, by `ShelfAgrees`; so a payment sells that one, or has just given it back when it looks for another |
| `DnsFailoverProofs!TypeCorrect`, `OneOperationHolds`, `TargetsUsableHolds`, `DivergenceOwnedHolds` | `Spec => []TypeOK` etc. | Parts of one inductive invariant `IInv`. `Knowledge` says what each worker may rely on: one that is not idle holds the lock, and what it has in memory is the stored saga; without it the claim of a saga by one worker could invalidate another's step. `ManualSaga` ties the requested target to the saga. |
| `RecordMatchesHolds` | `Spec => []RecordMatches` | Adds to `IInv` where the record can be at each place of a worker (`Synchronous`): it points to the current target until the call was made, and to one of the saga's two ends afterwards, unless overtaken; so a crash at any place leaves a saga or a matching record. |
| `ManualKeptHolds` | `Spec => ManualKept` | Action by action from `IInv`: a retry keeps the request it replaces. |
| `BackgroundProofs!QueueInvHolds`, `OneSweepHolds`, `NothingDroppedHolds` | `Spec => []QueueInv` etc. | `QueueInv` says where an accepted job is until it ran (`Placed`, `Accounted`) and that the counters show a sweep from the runner's tick to its end (`Shown`, `Counted`), so a second tick sees it. `Stopping` orders the shutdown: a worker leaves only a closed and drained channel. |
| `DeletesClosedHolds` | `S!Spec => DeletesClosed` | `Collected`: the ids in memory are those of orders that are cancelled, settled or deleted, states that are never left for one that waits. Users may be deleted in one step or in two. |
| `CycleClosedHolds` | `T!Spec => []CycleClosed` | The property is about the cycle that is current; inductive is that no traffic precedes any recorded one (`ClosedForGood`), whatever the day. What a sweep holds in memory is behind the rows and never ahead (`Behind`): traffic it did not see is of its own day or later. The calendar enters through two lemmas on the day after a month's end. |
| `AIOpsTurnProofs!TurnInvHolds`, `SessionMatchesTurnHolds`, `ScopeKeptHolds`, `SentOnceHolds` | `Spec => []TurnInv` etc. | A session runs exactly when a turn of it does, and at most one (`Matched`, `Exclusive`); a turn and an action with full access carry the session's own version and grant (`Scoped`); a worker holds an action of its own turn; nothing was sent for an action that waits or that was claimed and not sent (`Sending`), which makes a repeated claim harmless. |
| `AIOpsPageProofs!PageInvHolds`, `ShownIsSelectedHolds`, `OneTurnPerMessageHolds` | `Spec => []PageInv` etc. | Reads and stream events are of the session they were asked for (`Placed`), and nothing the page takes is of another. A message under one access has one id (`OneId`) because what `sendRetry` remembers is what was sent under its id (`Remembered`) and the composer's message was sent under no later access than is shown (`Composed`); so a new id is made only after the access moved on. An answer that comes back after the operator left finds a message that was never sent (`Posted`). |
| `RewardsProofs!VoucherInvHolds`, `CouponConservedHolds` | `V!Spec => []VoucherInv` etc. | What a transaction read under its locks is true until it commits (`ReadTrue`), because no two hold the same row (`OneHolder`); so the number written back is one less than the number stored. |
| `CampaignInvHolds`, `AmountAgreesHolds`, `DiscountOnceHolds` | `C!Spec => []CampaignInv`, `C!Spec => []AmountAgrees`, `C!Spec => DiscountOnce` | Under the lock of a campaign a registration is alone (`LockedAlone`), so the sum it writes counts its record once. `Spending` says that no order waits while one is saved, that the campaign of an order ever opened is not open, and that the campaign read for the order being saved was not spent. The last needs the inviter's row lock: a recovery in the middle of `SaveOrder` would spend the campaign just read. `DiscountOnce` is an action property and only a saved order is a new one (`OrdersGrow`). |
| `CommissionInvHolds`, `LedgerImplemented` | `Spec => []CommissionInv`, `Spec => ImplementsLedger` | As long as an order names its inviter its log rows, its commission status and the amount paid say the same (`Booked`); with it every step is one of the ledger's or leaves it alone. |
| `ConservedHolds` | `Spec => []Conserved` | From the ledger: earning or taking back one order moves its share and its inviter's receipts by the order's amount (`LedgerAgrees`), and the log says the same, because an order's log has one row of its amount or none (`OneRow` in `Booked`; hiding and restoring rewrite the row and keep the amount). |
| `EntryMonitorProofs!EntryInvHolds`, `DownConfirmedHolds`, `SplitMeansDownHolds` | `Spec => []EntryInv`, `Spec => DownConfirmed`, `Spec => SplitMeansDown` | The stored streak of a pair that did not age is the number of different failures in a row (`Counted`), which every edit of the endpoint sets back together. A split judges by the pairs it reads under its locks; what it takes from before them is the operation's target (`Named`) and its clock, so the probes it must have locked are the online ones not in `moved`. |
| `DownAnnouncedHolds` | `Spec => []DownAnnounced` | A pair that falls queues the alert unless the report finds another pair of the address down, and then the alert was already queued; a pair that rises withdraws it only when the report finds no other (`Covered`). Where the report's clock makes it find something else than there is, the address is in `doubt`, and so it is when a lapsed probe resumes. A target that is listed again starts with no state (`Cleared`). |

The payment invariant. `Core` says of each row (`RowInv`): an absent order's row is
blank; a pending order's attempt rows ask for the total and the fee frozen when the
channel was chosen, and its own columns agree with the row of its channel (`Open`);
a winner is the channel the order is bound to, and rules out a recovery window
(`Won`); every stored number is that of a payment of the stored amount (`Paid`).
This is not enough: a request that comes back from the gateway writes the amount it
read before the call, and a payment arrives with the amount of a link. `RequestsInv`
says that what was asked on a link or in a call is still what the row asks for as
long as the order waits, and that a claim on a row is of a request still to release
it. `CallbackOnce` is inductive next to these. Requests, links and rows are kept by
different lemmas, joined by `StillAsked`: what a step of the order tables has to
leave alone for the requests. TLC checked the invariant on the instances of `switch`
and `wallet` before it was proved.

The two sums. `WalletConserved` and `Conserved` add up the orders with
`SumFunctionOnSet`, a recursive function on the subsets of its set. The library's
induction theorems take an operator and cannot be used here, but a set of subsets of
a finite set has a member that is minimal for inclusion (`Minimal`, from
`FS_StrictSubsetOrderingWellFounded` and `WFMin`), and that is first-order: of the
subsets on which a claim fails take a minimal one, remove the element the sum takes
out first, and the claim holds on the rest. So the recursion has a solution and one
only (`RecursExists`, `RecursUnique`), the sum unfolds (`SumPick`), is an integer
(`SumType`), and changes by what one summand changes (`SumChanged`). The lemmas stand
in both `OrderPaymentProofs` and `RewardsProofs`, each of which is complete by itself.
What is left is to find, for every step, the one order whose summand moves.

`TypeOK`, `OneOperation`, `TargetsUsable` and the inductive invariants are proved and
not repeated by a run. The theorems on `MCBackground` and `MCRewards` are about each
component's own specification; the runs choose one of them.

Only model-checked: liveness (`ReservationsEnd`, `QueueMoves`, `ShutdownReturns`,
`CycleCleared`, `SagaEnds`, `ActionSettles`, `PageCatchesUp`), out of the prover's
reach. Every invariant and every action property of the passing runs, and both
refinements, are proved.

## 6. Plan

1. The delivery of what the monitor finds to the operators, and liveness of the
   entry monitor; manual splits.
2. Sessions and login (session limit, revocation), the subscription columns of an
   opened order, yearly traffic cycles.

## 7. Findings

Shown by a run:

- `late_link`. A comment in `persistCheckoutResult` says a result is kept in its own
  attempt row when the user has switched channels during the gateway call. The row
  is written only while it carries the request's claim, and the switch that
  archives the row clears the claim. A switch needs the order's lease to have
  expired, so this happens to a call that outlives its lease. The payment itself is
  not lost: `LinkSettles` shows that a callback still settles the order.
- `rebind`. `docs/go-api.md` says a confirmed late payment of a cancelled Apple ID
  order is fulfilled or kept for manual handling. `MarkExternalPaid` compares it
  with the channel and fee of the last checkout, so a payment on the link of an
  earlier checkout through another channel is refused.

Met while modelling; the models contain the behaviour, and no listed run states
the opposite:

- A user deleted while one of their orders commits leaves an order without a user.
  When that order has a wallet part, cancelling it fails, and with it every sweep from
  then on (`order_queue.go:74`; `OrderSweep` with `DeleteRaces`; the run has it FALSE,
  so the failing branch of `handleQueuedOrder`, `FailsOn`, is not reached there).
- The cleanup deletes by ids it read before: an order that was refunded or settled
  in between disappears although it was just touched (`order_queue.go:527`).
- `trafficResetMonthlyAnchor` goes back a month with `AddDate(0, -1, 0)`, which from
  29 to 31 March lands in March again. A user who expires on the 31st is reset on
  29 March, two days before the cycle the page announces (`order_queue.go:320`).
  `CycleClosed` is stated with this day, and fails when the traffic may be cleared
  from an earlier one.
- A manual DNS switch to a disabled target is retried for ever, and the rule cannot
  be edited while it is (`dns_failover_saga.go:299`).
- A DNS call that timed out and is carried out after the rollback moves the record;
  nothing notices (`dns_failover_saga.go:478`).
- One probe's recovery cancels a pending split. If that probe then goes offline,
  the others keep the target down, and no transition asks for another split
  (`client_entry_auto_split.go:132`).
- A report reads the clock before it waits for the lock of the event writers
  (`client_entry_monitor_probe.go:127`) and counts only pairs reported by then, of
  probes heard by then (`:394`, `:398`). A pair whose probe beat or reported while it
  waited is not seen, so "recovered" is queued over a pair that is down, and nothing
  announces the outage again. The comment at `:260` calls an address recovered
  only when this was the last pair down. `Answers` contains it; `DownAnnounced` excepts it through `doubt`.
- In the same way the split worker reads its clock first
  (`client_entry_auto_split.go:175`) and locks the probes with a heartbeat before it
  (`client_entry_manual_auto_split.go:301`). A probe that reports the entry up and
  beats in between is not asked, and the leaf is split. `Lock` contains it;
  `SplitMeansDown` does not speak of such a probe.
- A probe whose group allows a longer silence than the monitor's 90 s is not asked while
  it is silent, so "recovered" may be queued, and returns with its pairs down
  (`dns_probe.go:218`). `Resume` contains it.
- A cancelled order keeps its campaign, and `openOrderTx` does not ask what became of
  it (`order_write.go:879`). When the next order has taken the campaign and the late
  payment of the first one recovers it (`payment_lifecycle.go:148`), both are opened
  with the discount of one campaign. `OpenOrder` contains this; `DiscountOnce` speaks
  of the moment an order is saved.
- Two requests may both create a campaign (`invite_campaign.go:70`), and two
  registrations may use one single-use code (`passport/service.go:368`).
- A stream snapshot read before the end of a turn and received after a newer answer
  shows a finished reply as running until the next one (`aiOpsModel.ts:286`).
- `Enqueue` may send on a channel that `Shutdown` has closed: the select may pick
  the send and panic (`runtime.go:175`). A worker that first looks at the channel
  after `Shutdown` cleared it waits for ever, and `Shutdown` with it
  (`runtime.go:298`).

## 8. Not modelled

In the order lifecycle: the subscription columns `openOrderTx` and the refund write,
and other writers of `balance` such as gift cards and administrator edits (gift cards
are in `Vouchers` with a balance of their own). In the shop: editing, disabling and
deleting products, encryption of credentials, audit rows and reports. Signature
checks and wire formats of gateways are external input. Of invitations and vouchers:
the administrator's forms, which set absolute numbers; renamed codes, trial
profiles, the other types of gift card. Of traffic: several plans, expiry inside
the window, yearly cycles and statistics; reports that a node repeats after an
error are outside the repository. Of DNS failover: creating and deleting rules,
retry times and leases, and changes of the record by others. Of the entries: manual
splits, backup address checks, policies, simulation and the delivery of alerts. Of
the AI service: the tools, the provider relays, shared knowledge, deletion of
sessions and the Telegram bridge. The other pages of the administration front end
are forms over one request each.

Sessions and login, gateway adapters, node API, Telegram and tickets, user migration,
HTTP and configuration, and scripts are input and output, stateless translation or
one-shot imports; `PROJECT.json` names the reason for each. By far the largest files
of the repository, `src/public/assets/admin/umi.js`, `vendors.async.js` and
`components.async.js` (245,000 lines), are built bundles of libraries and pages whose
sources are elsewhere; the program's own logic is in the Go service, which is where
most of the mapped lines are. `AIOpsPage` is the one page with a protocol of its own.
