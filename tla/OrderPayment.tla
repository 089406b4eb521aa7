----------------------------- MODULE OrderPayment -----------------------------
(***************************************************************************)
(* The life of an order of the panel and the money around it: creation     *)
(* with balance deduction and surplus folding (user/order_write.go),       *)
(* checkout with a claim lease and one attempt row per payment method      *)
(* (payment/service.go), gateway callbacks and manual settlement           *)
(* (user/payment_lifecycle.go), cancellation, the recovery window of a     *)
(* cancelled order, the background sweep (user/order_queue.go) and the     *)
(* administrator's refund (user/order_admin.go).                           *)
(*                                                                         *)
(* One action is one database transaction (every transaction locks the     *)
(* order row first, then the attempt row, then the user row); a handler    *)
(* that spans several transactions, or a transaction and a gateway call,   *)
(* is a session whose steps interleave with everything else.  A failed     *)
(* check rolls back, so it is a stuttering step and is not listed.         *)
(***************************************************************************)
EXTENDS Integers, FiniteSets

CONSTANTS
    Users,          \* user ids
    MaxOrders,      \* bound: orders created in a behaviour
    Methods,        \* payment channels (v2_payment rows)
    Callbacks,      \* gateway transaction numbers
    Sessions,       \* checkout requests; a session's claim is its own id
    Prices,         \* net price of an order after coupon and discounts
    Surpluses,      \* value of the unused part of earlier orders
    BuyKinds,       \* kinds of order users create
    Funds,          \* wallet balance of every user at the start
    Fee(_, _),      \* Fee(m, v): handling fee of channel m in config version v
    MaxVersion,     \* bound: configuration changes of a channel
    MaxOpens,       \* bound: times one order is opened
    MaxPayments,    \* bound: payments users make
    LegacyDrafts,   \* paid-pending rows an older runtime may have left
    None            \* SQL NULL

ASSUME BoundsAssumption ==
    /\ MaxOrders \in Nat \ {0} /\ MaxVersion \in Nat /\ MaxOpens \in Nat
    /\ MaxPayments \in Nat /\ Users # {}
    /\ Funds \in Nat /\ Prices \subseteq Nat /\ Surpluses \subseteq Nat
    /\ \A m \in Methods, v \in 0..MaxVersion : Fee(m, v) \in Nat

Orders == 1..MaxOrders

TradeNo  == "trade_no"   \* callback_no holding the order's own trade number
ManualNo == "manual"     \* callback_no "manual_operation:<trade_no>"

ASSUME NamesAssumption ==
    /\ None \notin Methods \cup Callbacks \cup Sessions
    /\ {TradeNo, ManualNo} \cap Callbacks = {}

Kinds    == {"period", "onetime", "reset", "deposit"}
Statuses == {"absent", "pending", "paid", "cancelled", "done", "closed"}
Settled  == {"paid", "done", "closed"}   \* status 1, 3, 4

(* orderDraft: the columns that are never written again after the insert.  *)
Drafts == [user : Users, kind : Kinds, total : Int, bal : Nat,
           refund : Nat, surplus : SUBSET Orders]

ASSUME LegacyAssumption ==
    /\ LegacyDrafts \subseteq Drafts /\ BuyKinds \subseteq Kinds
    /\ \A d \in LegacyDrafts : /\ d.bal <= Funds /\ d.surplus = {}
                               /\ d.kind = "deposit" => d.total >= 0

Versions == 0..MaxVersion
Marks    == Callbacks \cup {None, TradeNo, ManualNo}

VARIABLES
    status,     \* v2_order.status
    draft,      \* v2_order: user_id, period, total/balance/refund_amount, surplus_order_ids
    checkout,   \* v2_order: payment_id, handling_amount, checkout_*
    callback,   \* v2_order.callback_no
    attempt,    \* v2_order_payment_attempt, one row per order and channel
    balance,    \* v2_user.balance
    recovery,   \* unexpired v2_runtime_kv key order:cancel:recover:<trade_no>
    aged,       \* orders 1..aged are older than the two hours of shouldAutoCancelOrder
    version,    \* configuration version of each v2_payment row
    sess,       \* checkout requests in flight
    links,      \* payments the gateways have been asked for
    payments,   \* payments made by users: callbacks the gateways may deliver
    adminSaw,   \* the order whose status the administrator's request has checked
    opens       \* history: number of times openOrderTx committed for the order

orderVars   == <<status, draft, checkout, callback, attempt, balance, recovery, opens>>
worldVars   == <<aged, version, sess, links, payments, adminSaw>>
vars        == <<orderVars, worldVars>>

NoDraft    == [user |-> CHOOSE u \in Users : TRUE, kind |-> "deposit", total |-> 0,
               bal |-> 0, refund |-> 0, surplus |-> {}]
NoCheckout == [pm |-> None, hand |-> 0, claim |-> None, live |-> FALSE,
               fp |-> None, result |-> None]
NoAttempt  == [status |-> "absent", hand |-> 0, amt |-> 0, claim |-> None,
               live |-> FALSE, fp |-> None, result |-> None, cb |-> None]
Idle       == [pc |-> "idle", o |-> 1, m |-> None, hand |-> 0, amt |-> 0, fp |-> None]

Fingerprints == Versions \X Int                 \* checkoutFingerprint
Snapshots    == [m : Methods, amt : Int]         \* encodeCheckoutSnapshot

CheckoutRows == [pm : Methods \cup {None}, hand : Nat, claim : Sessions \cup {None},
                 live : BOOLEAN, fp : Fingerprints \cup {None}, result : Snapshots \cup {None}]
AttemptRows  == [status : {"absent", "pending", "winner", "duplicate"}, hand : Nat,
                 amt : Int, claim : Sessions \cup {None}, live : BOOLEAN,
                 fp : Fingerprints \cup {None}, result : Snapshots \cup {None}, cb : Marks]
SessionRows  ==
    {Idle, [Idle EXCEPT !.pc = "end"]}
    \cup [pc : {"free"}, o : Orders, m : {None}, hand : {0}, amt : {0}, fp : {None}]
    \cup [pc : {"calling", "created", "releaseAttempt", "releaseOrder"},
          o : Orders, m : Methods, hand : Nat, amt : Int, fp : Fingerprints]
Payments     == [o : Orders, m : Methods, amt : Int, cb : Callbacks]

TypeOK ==
    /\ status \in [Orders -> Statuses]
    /\ draft \in [Orders -> Drafts]
    /\ checkout \in [Orders -> CheckoutRows]
    /\ callback \in [Orders -> Marks]
    /\ attempt \in [Orders -> [Methods -> AttemptRows]]
    /\ balance \in [Users -> Nat]
    /\ recovery \in [Orders -> BOOLEAN]
    /\ aged \in 0..MaxOrders
    /\ version \in [Methods -> Versions]
    /\ sess \in [Sessions -> SessionRows]
    /\ links \subseteq [o : Orders, m : Methods, amt : Int]
    /\ payments \subseteq Payments
    /\ adminSaw \subseteq Orders
    /\ opens \in [Orders -> Nat]

-----------------------------------------------------------------------------
(* Init: an empty order table, or one paid-pending row of the older runtime,
   as database/update.pgsql.sql leaves it: a channel is selected, the attempt
   row is backfilled as the winner, and no callback number is stored.        *)
LegacyRow(d, m) ==
    /\ status = [o \in Orders |-> IF o = 1 THEN "paid" ELSE "absent"]
    /\ draft = [o \in Orders |-> IF o = 1 THEN d ELSE NoDraft]
    /\ checkout = [o \in Orders |-> IF o = 1
                        THEN [NoCheckout EXCEPT !.pm = m, !.hand = Fee(m, 0)]
                        ELSE NoCheckout]
    /\ attempt = [o \in Orders |-> [n \in Methods |->
                    IF o = 1 /\ n = m /\ d.total >= 0 /\ d.total + Fee(m, 0) >= 1
                    THEN [NoAttempt EXCEPT !.status = "winner", !.hand = Fee(m, 0),
                                           !.amt = d.total + Fee(m, 0)]
                    ELSE NoAttempt]]
    /\ balance = [u \in Users |-> IF u = d.user THEN Funds - d.bal ELSE Funds]

EmptyTables ==
    /\ status = [o \in Orders |-> "absent"]
    /\ draft = [o \in Orders |-> NoDraft]
    /\ checkout = [o \in Orders |-> NoCheckout]
    /\ attempt = [o \in Orders |-> [m \in Methods |-> NoAttempt]]
    /\ balance = [u \in Users |-> Funds]

Init ==
    /\ EmptyTables \/ \E d \in LegacyDrafts, m \in Methods : LegacyRow(d, m)
    /\ callback = [o \in Orders |-> None]
    /\ recovery = [o \in Orders |-> FALSE]
    /\ aged = 0
    /\ version = [m \in Methods |-> 0]
    /\ sess = [s \in Sessions |-> Idle]
    /\ links = {} /\ payments = {} /\ adminSaw = {}
    /\ opens = [o \in Orders |-> 0]

-----------------------------------------------------------------------------
(* Creating an order.                                                       *)

NextId(o) == status[o] = "absent" /\ \A x \in Orders : x < o => status[x] # "absent"

(* Seeded fault: paid-pending orders are not counted.                       *)
PendingUnpaidOnly(u) ==
    \E x \in Orders : draft[x].user = u /\ status[x] = "pending"

hasPendingOrder(u) ==
    \E x \in Orders : draft[x].user = u /\ status[x] \in {"pending", "paid"}

Min2(a, b) == IF a <= b THEN a ELSE b

insertOrder(o, d) ==
    /\ status' = [status EXCEPT ![o] = "pending"]
    /\ draft' = [draft EXCEPT ![o] = d]
    /\ balance' = [balance EXCEPT ![d.user] = @ - d.bal]
    /\ UNCHANGED <<checkout, callback, attempt, recovery, opens, worldVars>>

(* surplus_order_ids: every completed order counted by applyPeriodSurplusTx
   (no reset, one-time or deposit orders) or by applyOneTimeSurplusTx (all
   but resets).                                                             *)
SurplusIds(u, kinds) ==
    {x \in Orders : status[x] = "done" /\ draft[x].user = u /\ draft[x].kind \in kinds}

(* A plan order: the surplus value is set against the price, what it exceeds
   the price by becomes refund_amount, and the wallet pays what it can.     *)
SaveOrder(o, u, kind, price, worth, ids) ==
    LET due == IF worth >= price THEN 0 ELSE price - worth
        bal == Min2(balance[u], due)
    IN  /\ NextId(o) /\ ~hasPendingOrder(u)
        /\ kind # "deposit"
        /\ ids = {} => worth = 0
        /\ kind = "reset" => ids = {}
        /\ insertOrder(o, [user |-> u, kind |-> kind, total |-> due - bal, bal |-> bal,
                            refund |-> IF worth >= price THEN worth - price ELSE 0,
                            surplus |-> ids])

saveDepositOrder(o, u, amount) ==
    /\ NextId(o) /\ ~hasPendingOrder(u)
    /\ amount > 0
    /\ insertOrder(o, [user |-> u, kind |-> "deposit", total |-> amount, bal |-> 0,
                        refund |-> 0, surplus |-> {}])

(* The administrator's order has no surplus and takes nothing from the
   wallet.                                                                  *)
AssignAdminOrder(o, u, kind, amount) ==
    /\ NextId(o) /\ ~hasPendingOrder(u)
    /\ kind # "deposit"
    /\ insertOrder(o, [user |-> u, kind |-> kind, total |-> amount, bal |-> 0,
                        refund |-> 0, surplus |-> {}])

-----------------------------------------------------------------------------
(* Checkout (payment/service.go).                                           *)

Coalesce(a, b) == IF a = None THEN b ELSE a

(* Seeded fault: the row that is left keeps its claim.                      *)
ArchivedClaimed(o) ==
    LET c == checkout[o]
    IN  [attempt[o] EXCEPT ![c.pm].hand = c.hand, ![c.pm].amt = draft[o].total + c.hand,
                           ![c.pm].result = Coalesce(@, c.result)]

(* archiveCurrentPaymentAttemptTx: the attempt row of the channel the order
   is leaving takes the order's amounts and loses its claim.                *)
LeftRow(r, c, total) ==
    IF r.status \in {"absent", "pending"}
    THEN [r EXCEPT !.status = "pending", !.hand = c.hand, !.amt = total + c.hand,
                   !.claim = None, !.live = FALSE,
                   !.fp = Coalesce(@, c.fp), !.result = Coalesce(@, c.result)]
    ELSE r

Archived(o) ==
    [attempt[o] EXCEPT ![checkout[o].pm] = LeftRow(@, checkout[o], draft[o].total)]

switching(o, m) == checkout[o].pm # None /\ checkout[o].pm # m
Rows(o, m)      == IF switching(o, m) THEN Archived(o) ELSE attempt[o]

(* Seeded fault: the fee is computed again at every checkout.               *)
FeeNow(o, m) == Fee(m, version[m])

(* The handling fee is computed once per order and channel, then frozen.    *)
HandlingAmount(o, m) ==
    LET a == Rows(o, m)[m]
    IN  CASE switching(o, m) /\ a.status # "absent" -> a.hand
          [] ~switching(o, m) /\ checkout[o].pm = m -> checkout[o].hand
          [] OTHER -> Fee(m, version[m])

(* The first transaction of Checkout: claim the attempt row and the order
   row for this request, before the gateway is called.                      *)
CheckoutClaim(s, o, m) ==
    LET a    == Rows(o, m)[m]
        hand == HandlingAmount(o, m)
        amt  == draft[o].total + hand
        fp   == <<version[m], amt>>
    IN  /\ sess[s].pc = "idle"
        /\ status[o] = "pending" /\ draft[o].total > 0
        /\ switching(o, m) \/ checkout[o].result = None
        /\ ~checkout[o].live
        /\ a.status \in {"absent", "pending"} /\ ~a.live
        /\ switching(o, m) => a.result = None
        /\ (IF switching(o, m) THEN a.fp ELSE checkout[o].fp) \in {None, fp}
        /\ attempt' = [attempt EXCEPT ![o] = [Rows(o, m) EXCEPT ![m] =
                          [@ EXCEPT !.status = "pending", !.hand = hand, !.amt = amt,
                                    !.claim = s, !.live = TRUE, !.fp = fp, !.result = None]]]
        /\ checkout' = [checkout EXCEPT ![o] = [pm |-> m, hand |-> hand, claim |-> s,
                          live |-> TRUE, fp |-> fp, result |-> None]]
        /\ sess' = [sess EXCEPT ![s] = [pc |-> "calling", o |-> o, m |-> m,
                          hand |-> hand, amt |-> amt, fp |-> fp]]
        /\ UNCHANGED <<status, draft, callback, balance, recovery, opens,
                       aged, version, links, payments, adminSaw>>

(* Switching back to a channel whose link is cached: no gateway call.       *)
selectCachedPaymentAttempt(o, m) ==
    LET a == Rows(o, m)[m]
    IN  /\ status[o] = "pending" /\ draft[o].total > 0
        /\ switching(o, m) /\ ~checkout[o].live
        /\ a.status = "pending" /\ ~a.live
        /\ a.result = [m |-> m, amt |-> a.amt] /\ a.amt = draft[o].total + a.hand
        /\ attempt' = [attempt EXCEPT ![o] = Archived(o)]
        /\ checkout' = [checkout EXCEPT ![o] = [pm |-> m, hand |-> a.hand, claim |-> None,
                          live |-> FALSE, fp |-> a.fp, result |-> a.result]]
        /\ UNCHANGED <<status, draft, callback, balance, recovery, opens, worldVars>>

(* A free order is seen pending, the lock is given back, and MarkOrderPaid
   is called afterwards (CheckoutFreePaid).                                 *)
CheckoutFree(s, o) ==
    /\ sess[s].pc = "idle"
    /\ status[o] = "pending" /\ draft[o].total = 0
    /\ sess' = [sess EXCEPT ![s].pc = "free", ![s].o = o]
    /\ UNCHANGED <<orderVars, aged, version, links, payments, adminSaw>>

Step(s, pc) == sess' = [sess EXCEPT ![s].pc = pc]
Finish(s)   == sess' = [sess EXCEPT ![s] = [Idle EXCEPT !.pc = "end"]]

(* createCheckoutOnce: the gateway is called outside any transaction.  It may
   create the payment and answer, or fail with or without having created it. *)
GatewayAnswers(s) ==
    /\ sess[s].pc = "calling"
    /\ links' = links \cup {[o |-> sess[s].o, m |-> sess[s].m, amt |-> sess[s].amt]}
    /\ Step(s, "created")
    /\ UNCHANGED <<orderVars, aged, version, payments, adminSaw>>

GatewayFails(s) ==
    /\ sess[s].pc = "calling"
    /\ links' \in {links, links \cup {[o |-> sess[s].o, m |-> sess[s].m, amt |-> sess[s].amt]}}
    /\ Step(s, "releaseAttempt")
    /\ UNCHANGED <<orderVars, aged, version, payments, adminSaw>>

(* A row, of the order or of an attempt, without its claim; with its claim
   given up; with the result stored.                                        *)
Unclaimed(r)    == [r EXCEPT !.claim = None, !.live = FALSE]
Released(r)     == [r EXCEPT !.claim = None, !.live = FALSE, !.fp = None]
Stored(r, snap) == [r EXCEPT !.claim = None, !.live = FALSE, !.result = snap]

(* releaseCheckoutClaim: two separate statements.                           *)
ReleaseAttempt(s) ==
    LET o == sess[s].o
        m == sess[s].m
    IN  /\ sess[s].pc = "releaseAttempt"
        /\ attempt' = IF attempt[o][m].claim = s /\ attempt[o][m].status = "pending"
                          /\ attempt[o][m].result = None
                       THEN [attempt EXCEPT ![o][m] = Released(@)]
                       ELSE attempt
        /\ Step(s, "releaseOrder")
        /\ UNCHANGED <<status, draft, checkout, callback, balance, recovery, opens,
                       aged, version, links, payments, adminSaw>>

ReleaseOrder(s) ==
    LET o == sess[s].o
    IN  /\ sess[s].pc = "releaseOrder"
        /\ checkout' = IF checkout[o].claim = s /\ status[o] = "pending"
                           /\ checkout[o].result = None
                        THEN [checkout EXCEPT ![o] = Released(@)]
                        ELSE checkout
        /\ Finish(s)
        /\ UNCHANGED <<status, draft, callback, attempt, balance, recovery, opens,
                       aged, version, links, payments, adminSaw>>

(* persistCheckoutResult.  The attempt row is written first; the early return
   on an existing result rolls that write back.                             *)
Persistable(s) ==
    LET a == attempt[sess[s].o][sess[s].m]
    IN  a.claim = s /\ a.fp = sess[s].fp /\ a.result = None
        /\ a.status \in {"pending", "winner"}

(* Seeded fault: any pending order accepts the result.                      *)
StillPending(s) == status[sess[s].o] = "pending"

SameCheckout(s) ==
    LET c == checkout[sess[s].o]
    IN  status[sess[s].o] = "pending" /\ c.pm = sess[s].m /\ c.hand = sess[s].hand
        /\ draft[sess[s].o].total = sess[s].amt - sess[s].hand
        /\ c.fp = sess[s].fp /\ c.claim = s

Upserted(r, c, snap) ==
    [Stored(r, snap) EXCEPT !.status = IF @ = "absent" THEN "pending" ELSE @,
                            !.hand = c.hand, !.amt = c.amt, !.fp = c.fp]

persistCheckoutResult(s) ==
    LET o    == sess[s].o
        m    == sess[s].m
        snap == [m |-> m, amt |-> sess[s].amt]
        saved == [attempt EXCEPT ![o][m] = Stored(@, snap)]
        upserted == [attempt EXCEPT ![o][m] = Upserted(@, sess[s], snap)]
    IN  /\ sess[s].pc = "created"
        /\ Finish(s)
        /\ \/ /\ status[o] \in Settled
              /\ attempt' = IF Persistable(s) THEN saved ELSE attempt
              /\ checkout' = IF checkout[o].claim = s
                             THEN [checkout EXCEPT ![o] = Unclaimed(@)] ELSE checkout
           \/ /\ status[o] \notin Settled /\ checkout[o].result # None
              /\ UNCHANGED <<attempt, checkout>>
           \/ /\ status[o] \notin Settled /\ checkout[o].result = None /\ ~SameCheckout(s)
              /\ attempt' = IF Persistable(s) THEN saved ELSE attempt
              /\ UNCHANGED checkout
           \/ /\ checkout[o].result = None /\ SameCheckout(s)
              /\ attempt' = IF Persistable(s) THEN saved ELSE upserted
              /\ checkout' = [checkout EXCEPT ![o] = Stored(@, snap)]
        /\ UNCHANGED <<status, draft, callback, balance, recovery, opens,
                       aged, version, links, payments, adminSaw>>

(* The process dies, or a bounded context ends, between two steps.          *)
SessionLost(s) ==
    /\ sess[s].pc \notin {"idle", "end"}
    /\ Finish(s)
    /\ UNCHANGED <<orderVars, aged, version, links, payments, adminSaw>>

-----------------------------------------------------------------------------
(* Settlement (user/payment_lifecycle.go).  A confirmation names the channel
   and the amount the gateway proved (None when there is no gateway), its
   transaction number, and whether an administrator vouches for it.         *)

GatewayConf(p) == [m |-> p.m, amt |-> p.amt, cb |-> p.cb, manual |-> FALSE]
ManualConf     == [m |-> None, amt |-> 0, cb |-> ManualNo, manual |-> TRUE]
FreeConf       == [m |-> None, amt |-> 0, cb |-> TradeNo, manual |-> FALSE]

AttemptOf(o, conf) == IF conf.m = None THEN NoAttempt ELSE attempt[o][conf.m]
Found(o, conf)     == AttemptOf(o, conf).status # "absent"

(* validateOrderPaymentConfirmation, for the channel pm and fee hand.       *)
Confirms(o, pm, hand, conf) ==
    /\ draft[o].total >= 0
    /\ \/ conf.manual
       \/ conf.m = None /\ draft[o].total = 0 /\ hand = 0
       \/ /\ conf.m # None /\ conf.amt > 0 /\ draft[o].total > 0
          /\ pm = conf.m /\ draft[o].total + hand = conf.amt

ConfirmsCurrent(o, conf) == Confirms(o, checkout[o].pm, checkout[o].hand, conf)

(* validateOrderPaymentAttemptConfirmation                                  *)
ConfirmsAttempt(o, conf) ==
    LET a == AttemptOf(o, conf)
    IN  a.amt = conf.amt /\ Confirms(o, conf.m, a.hand, conf)

(* Seeded fault: other orders are not looked at.                            *)
AnyCallback(o, conf) == TRUE

(* lockPaymentCallbackTx: no other order has used this transaction number on
   this channel.                                                            *)
CallbackUnused(o, conf) ==
    conf.m # None =>
    \A x \in Orders \ {o} :
        /\ ~(checkout[x].pm = conf.m /\ callback[x] = conf.cb)
        /\ attempt[x][conf.m].cb # conf.cb

(* Seeded fault: every paid attempt is recorded as the winner.              *)
MarkWinner(o, m, st, cb) ==
    [attempt EXCEPT ![o][m] = [@ EXCEPT !.status = "winner", !.cb = cb]]

MarkAttempt(o, m, st, cb) ==
    [attempt EXCEPT ![o][m] = [@ EXCEPT !.status = st, !.cb = cb]]

(* openOrderTx: a deposit credits the wallet with its amount; any other order
   credits refund_amount, closes the orders folded into it, whatever their
   status is by now, and completes.                                         *)
Credit(o) == IF draft[o].kind = "deposit" THEN draft[o].total ELSE draft[o].refund
Folded(o) == IF draft[o].kind = "deposit" THEN {} ELSE draft[o].surplus

openOrder(o, cb, taken) ==
    /\ status' = [x \in Orders |-> IF x = o THEN "done"
                                    ELSE IF x \in Folded(o) THEN "closed" ELSE status[x]]
    /\ balance' = [balance EXCEPT ![draft[o].user] = @ - taken + Credit(o)]
    /\ callback' = [callback EXCEPT ![o] = cb]
    /\ opens' = [opens EXCEPT ![o] = @ + 1]

(* MarkOrderPaid of a pending or cancelled order.  A payment of a channel the
   order has left rebinds the order to that channel.  A cancelled order gave
   its balance_amount back, so it is taken again.                           *)
(* Seeded fault: a recovered order keeps the balance it was given back.     *)
NothingRetaken(o) == 0

Retaken(o) == IF status[o] = "cancelled" THEN draft[o].bal ELSE 0

MayRecover(o, conf) ==
    status[o] = "cancelled" =>
        /\ conf.manual \/ recovery[o]
        /\ draft[o].bal <= balance[draft[o].user]

(* Seeded fault: the fee of the abandoned channel stays on the order.       *)
ReboundKeepsFee(o, conf) == [checkout[o] EXCEPT !.pm = Coalesce(conf.m, @)]

(* updateOrderPaymentTx, when the payment is of a channel the order left.   *)
Rebound(o, conf) ==
    IF ConfirmsCurrent(o, conf) THEN checkout[o]
    ELSE [checkout[o] EXCEPT !.pm = conf.m, !.hand = AttemptOf(o, conf).hand]

Settle(o, conf) ==
    LET found == Found(o, conf)
    IN  /\ status[o] \in {"pending", "cancelled"}
        /\ opens[o] < MaxOpens
        /\ found => ConfirmsAttempt(o, conf) /\ AttemptOf(o, conf).status = "pending"
        /\ ConfirmsCurrent(o, conf) \/ found
        /\ CallbackUnused(o, conf)
        /\ MayRecover(o, conf)
        /\ attempt' = IF found THEN MarkAttempt(o, conf.m, "winner", conf.cb) ELSE attempt
        /\ checkout' = [checkout EXCEPT ![o] = Rebound(o, conf)]
        /\ openOrder(o, conf.cb, Retaken(o))
        /\ recovery' = [recovery EXCEPT ![o] = FALSE]
        /\ UNCHANGED draft

(* MarkOrderPaid of a settled order, paid again through another channel: the
   money is recorded for a manual refund.                                   *)
RecordDuplicate(o, conf) ==
    /\ status[o] \in Settled
    /\ Found(o, conf) /\ ConfirmsAttempt(o, conf) /\ ~ConfirmsCurrent(o, conf)
    /\ AttemptOf(o, conf).status = "pending"
    /\ CallbackUnused(o, conf)
    /\ attempt' = MarkAttempt(o, conf.m, "duplicate", conf.cb)
    /\ UNCHANGED <<status, draft, checkout, callback, balance, recovery, opens>>

(* MarkOrderPaid of a settled order through its own channel: a replay changes
   nothing, except where an older runtime left no transaction number, or the
   attempt row was not marked.                                              *)
RepairDue(o, conf) ==
    LET a == AttemptOf(o, conf)
    IN  \/ callback[o] = conf.cb /\ a.status = "pending"
        \/ /\ callback[o] \in {None, TradeNo}
           /\ \/ a.status \in {"absent", "pending"}
              \/ a.status = "winner" /\ a.cb \in {None, TradeNo, conf.cb}

RepairCallback(o, conf) ==
    /\ status[o] \in Settled /\ conf.m # None
    /\ Found(o, conf) => ConfirmsAttempt(o, conf)
    /\ ConfirmsCurrent(o, conf)
    /\ CallbackUnused(o, conf)
    /\ RepairDue(o, conf)
    /\ attempt' = IF Found(o, conf) THEN MarkAttempt(o, conf.m, "winner", conf.cb) ELSE attempt
    /\ callback' = [callback EXCEPT ![o] = conf.cb]
    /\ UNCHANGED <<status, draft, checkout, balance, recovery, opens>>

MarkOrderPaid(o, conf) ==
    Settle(o, conf) \/ RecordDuplicate(o, conf) \/ RepairCallback(o, conf)

(* A gateway callback: delivered at any time, in any order, any number of
   times.                                                                   *)
Notify(p) ==
    /\ MarkOrderPaid(p.o, GatewayConf(p))
    /\ UNCHANGED worldVars

CheckoutFreePaid(s) ==
    /\ sess[s].pc = "free"
    /\ Settle(sess[s].o, FreeConf)
    /\ Finish(s)
    /\ UNCHANGED <<aged, version, links, payments, adminSaw>>

(* The administrator's MarkOrderPaid looks at the status first, in a query of
   its own; the order may change before the transaction starts.             *)
AdminCheck(o) ==
    /\ adminSaw = {}
    /\ status[o] \in {"pending", "cancelled"}
    /\ adminSaw' = {o}
    /\ UNCHANGED <<orderVars, aged, version, sess, links, payments>>

AdminMarkOrderPaid(o) ==
    /\ o \in adminSaw
    /\ Settle(o, ManualConf)
    /\ adminSaw' = {}
    /\ UNCHANGED <<aged, version, sess, links, payments>>

-----------------------------------------------------------------------------
(* Cancellation, the background sweep and the refund.                       *)

(* Seeded fault: the amount still to pay is given back as well.             *)
giveBackAll(o, recover) ==
    /\ status' = [status EXCEPT ![o] = "cancelled"]
    /\ balance' = [balance EXCEPT ![draft[o].user] = @ + draft[o].bal + draft[o].total]
    /\ recovery' = [recovery EXCEPT ![o] = @ \/ recover]
    /\ UNCHANGED <<draft, checkout, callback, attempt, opens, worldVars>>

giveBack(o, recover) ==
    /\ status' = [status EXCEPT ![o] = "cancelled"]
    /\ balance' = [balance EXCEPT ![draft[o].user] = @ + draft[o].bal]
    /\ recovery' = [recovery EXCEPT ![o] = @ \/ recover]
    /\ UNCHANGED <<draft, checkout, callback, attempt, opens, worldVars>>

CancelOrder(o) ==
    /\ status[o] = "pending" /\ ~checkout[o].live
    /\ giveBack(o, TRUE)

(* handleQueuedOrder, its three cases.                                      *)
AutoCancel(o) ==
    /\ status[o] = "pending" /\ o <= aged /\ ~checkout[o].live
    /\ giveBack(o, TRUE)

OpenPaidPending(o) ==
    /\ status[o] = "paid" /\ draft[o].total >= 0
    /\ openOrder(o, IF callback[o] = None THEN TradeNo ELSE callback[o], 0)
    /\ UNCHANGED <<draft, checkout, attempt, recovery, worldVars>>

QuarantinePaidPending(o) ==
    /\ status[o] = "paid" /\ draft[o].total < 0
    /\ giveBack(o, FALSE)

(* Seeded fault: a refund opens a recovery window, as a cancellation does.  *)
RefundLikeCancel(o) ==
    /\ status[o] = "done" /\ opens[o] < MaxOpens
    /\ status' = [status EXCEPT ![o] = "cancelled"]
    /\ recovery' = [recovery EXCEPT ![o] = TRUE]
    /\ UNCHANGED <<draft, checkout, callback, attempt, balance, opens, worldVars>>

(* RefundManagedOrder: the user's latest completed plan order.  The orders
   folded into it come back if they are still closed; the buyer's wallet is
   not touched.  Subscription and commission are left out.  (Bound: only an
   order that may be opened again.)                                         *)
RefundManagedOrder(o) ==
    /\ status[o] = "done" /\ draft[o].kind \notin {"deposit", "reset"}
    /\ ~\E x \in Orders : x > o /\ draft[x].user = draft[o].user /\ status[x] = "done"
    /\ opens[o] < MaxOpens
    /\ status' = [x \in Orders |->
                     IF x = o THEN "cancelled"
                     ELSE IF x \in draft[o].surplus /\ status[x] = "closed" THEN "done"
                     ELSE status[x]]
    /\ UNCHANGED <<draft, checkout, callback, attempt, balance, recovery, opens, worldVars>>

-----------------------------------------------------------------------------
(* The environment: time, the administrator's settings, users paying.       *)

ClaimExpires(o) ==
    /\ checkout[o].live
    /\ checkout' = [checkout EXCEPT ![o].live = FALSE]
    /\ UNCHANGED <<status, draft, callback, attempt, balance, recovery, opens, worldVars>>

AttemptClaimExpires(o, m) ==
    /\ attempt[o][m].live
    /\ attempt' = [attempt EXCEPT ![o][m].live = FALSE]
    /\ UNCHANGED <<status, draft, checkout, callback, balance, recovery, opens, worldVars>>

RecoveryExpires(o) ==
    /\ recovery[o]
    /\ recovery' = [recovery EXCEPT ![o] = FALSE]
    /\ UNCHANGED <<status, draft, checkout, callback, attempt, balance, opens, worldVars>>

Ages(o) ==
    /\ status[o] # "absent" /\ aged = o - 1
    /\ aged' = o
    /\ UNCHANGED <<orderVars, version, sess, links, payments, adminSaw>>

SavePayment(m) ==
    /\ version[m] < MaxVersion
    /\ version' = [version EXCEPT ![m] = @ + 1]
    /\ UNCHANGED <<orderVars, aged, sess, links, payments, adminSaw>>

UserPays(l, cb) ==
    /\ Cardinality(payments) < MaxPayments
    /\ payments' = payments \cup {[o |-> l.o, m |-> l.m, amt |-> l.amt, cb |-> cb]}
    /\ UNCHANGED <<orderVars, aged, version, sess, links, adminSaw>>

-----------------------------------------------------------------------------
Create(o, u) ==
    \/ \E kind \in BuyKinds, price \in Prices :
         \/ \E worth \in Surpluses, ids \in {{}, SurplusIds(u, {"period"}),
                                              SurplusIds(u, Kinds \ {"reset"})} :
               SaveOrder(o, u, kind, price, worth, ids)
         \/ AssignAdminOrder(o, u, kind, price)
    \/ \E amount \in Prices : "deposit" \in BuyKinds /\ saveDepositOrder(o, u, amount)

Request(s) ==
    \/ \E o \in Orders : CheckoutFree(s, o) \/ \E m \in Methods : CheckoutClaim(s, o, m)
    \/ GatewayAnswers(s) \/ GatewayFails(s)
    \/ ReleaseAttempt(s) \/ ReleaseOrder(s)
    \/ persistCheckoutResult(s) \/ CheckoutFreePaid(s)
    \/ SessionLost(s)

handleQueuedOrder(o) == AutoCancel(o) \/ OpenPaidPending(o) \/ QuarantinePaidPending(o)

Admin(o) == AdminCheck(o) \/ AdminMarkOrderPaid(o) \/ RefundManagedOrder(o)

Time(o) ==
    \/ ClaimExpires(o) \/ RecoveryExpires(o) \/ Ages(o)
    \/ \E m \in Methods : AttemptClaimExpires(o, m)

Next ==
    \/ \E o \in Orders, u \in Users : Create(o, u)
    \/ \E s \in Sessions : Request(s)
    \/ \E o \in Orders, m \in Methods : selectCachedPaymentAttempt(o, m)
    \/ \E o \in Orders : CancelOrder(o) \/ handleQueuedOrder(o) \/ Admin(o) \/ Time(o)
    \/ \E p \in payments : Notify(p)
    \/ \E m \in Methods : SavePayment(m)
    \/ \E l \in links, cb \in Callbacks : UserPays(l, cb)

Spec == Init /\ [][Next]_vars

-----------------------------------------------------------------------------
(* Properties.                                                              *)

(* A user never has two orders waiting for payment or for opening, however
   SaveOrder and AssignAdminOrder interleave with recovery and refunds
   (hasPendingOrderTx under the user row lock).                             *)
OnePending ==
    \A x, y \in Orders :
        /\ status[x] \in {"pending", "paid"} /\ status[y] \in {"pending", "paid"}
        /\ draft[x].user = draft[y].user
        => x = y

(* At most one attempt of an order is the winner: a second channel that is
   paid as well is never taken for the payment that opened the order, also
   after method switches, late callbacks, cancellation and recovery.        *)
OneWinner ==
    \A o \in Orders, m, n \in Methods :
        attempt[o][m].status = "winner" /\ attempt[o][n].status = "winner" => m = n

(* One gateway transaction never pays two orders: lockPaymentCallbackTx keeps
   a transaction number of a channel on a single order, counting duplicates
   kept for refund and numbers repaired into legacy rows.                   *)
PaidWith(o, m, cb) ==
    attempt[o][m].cb = cb \/ (checkout[o].pm = m /\ callback[o] = cb)

CallbackOnce ==
    \A x, y \in Orders, m \in Methods, cb \in Callbacks :
        PaidWith(x, m, cb) /\ PaidWith(y, m, cb) => x = y

(* An order that has been opened is never payable again by a user or by a
   gateway: it neither waits for payment nor has a recovery window.  Only the
   administrator's manual settlement of a refunded order opens it again.    *)
OpenedOnce ==
    \A o \in Orders :
        opens[o] > 0 => status[o] \notin {"pending", "paid"} /\ ~recovery[o]

(* Money paid on any link ever issued for a pending order settles it: the
   amount of a channel is frozen when the channel is first chosen, so a
   callback of a channel the user has left, or of a request whose reply was
   lost, still agrees with its attempt row (Checkout, MarkOrderPaid).       *)
LinkSettles ==
    \A l \in links : status[l.o] = "pending" =>
        /\ attempt[l.o][l.m].status = "pending"
        /\ attempt[l.o][l.m].amt = l.amt
        /\ attempt[l.o][l.m].amt = draft[l.o].total + attempt[l.o][l.m].hand

(* The link cached on a pending order, and on each of its attempt rows, is of
   the row's channel and amount, whichever of several overlapping requests
   stored it; decodeCheckoutSnapshot would refuse it otherwise and the order
   could not be paid through that channel any more.                         *)
CachedLinkMatches ==
    \A o \in Orders : status[o] = "pending" =>
        /\ checkout[o].result # None =>
             checkout[o].result = [m |-> checkout[o].pm, amt |-> draft[o].total + checkout[o].hand]
        /\ \A m \in Methods : attempt[o][m].result # None =>
             attempt[o][m].result = [m |-> m, amt |-> attempt[o][m].amt]

(* A request that still owns an attempt row owns the order row too, so what it
   stores in the one agrees with what it stores in the other.  The two claims
   are released by two statements, expire separately, and either row may have
   been taken over by a later request.                                      *)
ClaimsAgree ==
    \A o \in Orders, m \in Methods :
        LET s == attempt[o][m].claim
        IN  s # None /\ status[o] = "pending" =>
                checkout[o].claim = s /\ checkout[o].pm = m

(* An order that carries a gateway transaction number was paid on the channel
   it is bound to, with exactly the amount it asks for there; the same holds
   for every attempt row kept as winner or duplicate.                       *)
PaidInFull ==
    \A o \in Orders :
        /\ callback[o] \in Callbacks =>
             [o |-> o, m |-> checkout[o].pm, amt |-> draft[o].total + checkout[o].hand,
              cb |-> callback[o]] \in payments
        /\ \A m \in Methods : attempt[o][m].cb \in Callbacks =>
             [o |-> o, m |-> m, amt |-> attempt[o][m].amt, cb |-> attempt[o][m].cb] \in payments

(* What the comment in persistCheckoutResult promises: the result of a request
   is stored in its own attempt row also when the user has switched the order
   to another channel while the gateway was being called.                   *)
LateLinkKept ==
    [][\A s \in Sessions :
         /\ persistCheckoutResult(s)
         /\ status[sess[s].o] = "pending" /\ checkout[sess[s].o].pm # sess[s].m
         => attempt'[sess[s].o][sess[s].m].result # None]_vars
=============================================================================
