----------------------------- MODULE Commission -----------------------------
(***************************************************************************)
(* Invitation commission: the payout by the sweep (order_commission.go),   *)
(* its reversal by a refund (order_admin.go), the administrator's status   *)
(* changes (order_commission_status.go), the transfer into the wallet      *)
(* (account_actions.go), and the hiding and restoring of log rows by       *)
(* preview and idempotent apply (admin/commission_log.go).                 *)
(*                                                                         *)
(* Every operation is one transaction that locks the order first; the      *)
(* sweep works through order numbers it read earlier.                      *)
(***************************************************************************)
EXTENDS Integers, Sequences, FiniteSets, Functions

CONSTANTS
    Orders,
    Sweeps,         \* sweep jobs of independent backend processes
    Deposits,       \* wallet deposits among them, which earn nothing
    Users,          \* inviters
    InviterOf,
    Amount,         \* commission_balance of the order when it was created
    WithdrawClose,  \* values of cfg.WithdrawCloseEnable: pay into the wallet
    Tokens,         \* preview tokens
    Keys,           \* idempotency keys
    MaxRows,        \* log rows ever written
    MaxMove         \* largest amount moved at once

ASSUME CommissionAssumption ==
    /\ IsFiniteSet(Orders) /\ Deposits \subseteq Orders /\ InviterOf \in [Orders -> Users]
    /\ Amount \in [Orders -> Nat \ {0}]
    /\ WithdrawClose \subseteq BOOLEAN /\ MaxRows \in Nat /\ MaxMove \in Nat

VARIABLES
    completed,  \* orders with status 3
    aged,       \* orders whose paid_at is before the auto-check cutoff
    state,      \* commission_status, 0..3
    due,        \* commission_balance of the order
    actual,     \* actual_commission_balance, 0 while NULL
    invited,    \* orders that still name their inviter
    log,        \* v2_commission_log rows of each order, oldest first
    nextRow,    \* id of the next log row
    inviters,   \* rows of v2_user
    commission, \* commission_balance of the user
    wallet,     \* balance of the user
    spent,      \* what left both: wallet payments, withdrawals
    batch,      \* order numbers each sweep has read
    preview,    \* what each token froze
    applied     \* per idempotency key, the token it executed

orders == <<completed, aged, state, due, actual, invited>>
money == <<inviters, commission, wallet, spent>>
records == <<log, nextRow>>
visibility == <<preview, applied>>
vars == <<orders, records, money, batch, visibility>>

Row == [id : 1..MaxRows, amount : Nat, hidden : BOOLEAN, version : Nat]
NoPreview == [status |-> "none", action |-> "delete", frozen |-> {}]
Unused == [token |-> "none", ids |-> {}]

\* The log rows with the order status that the preview's digest covers.
Snapshot(S) == UNION {{[order |-> o, row |-> log[o][i], state |-> state[o]] : i \in DOMAIN log[o]} :
                         o \in S}

TypeOK ==
    /\ completed \subseteq Orders /\ aged \subseteq Orders /\ invited \subseteq Orders
    /\ state \in [Orders -> 0..3] /\ due \in [Orders -> Nat] /\ actual \in [Orders -> Nat]
    /\ log \in [Orders -> Seq(Row)] /\ nextRow \in 1..(MaxRows + 1)
    /\ inviters \subseteq Users
    /\ commission \in [Users -> Int] /\ wallet \in [Users -> Nat] /\ spent \in [Users -> Nat]
    /\ batch \in [Sweeps -> SUBSET Orders]
    /\ \A t \in Tokens : preview[t].status \in {"none", "live", "expired", "used"}
    /\ \A k \in Keys : applied[k].token \in Tokens \cup {"none"}

\* Deposits completed before disableDepositCommissionTx was called for them
\* still carry a commission.
Init ==
    /\ completed \in SUBSET Deposits /\ aged = {} /\ invited = Orders
    /\ state = [o \in Orders |-> 0] /\ due = Amount /\ actual = [o \in Orders |-> 0]
    /\ log = [o \in Orders |-> <<>>] /\ nextRow = 1
    /\ inviters = Users
    /\ commission = [u \in Users |-> 0] /\ wallet = [u \in Users |-> 0]
    /\ spent = [u \in Users |-> 0]
    /\ batch = [s \in Sweeps |-> {}]
    /\ preview = [t \in Tokens |-> NoPreview] /\ applied = [k \in Keys |-> Unused]

-----------------------------------------------------------------------------
(* Orders *)

\* disableDepositCommissionTx.
CloseDeposit(o) ==
    /\ due' = [due EXCEPT ![o] = 0]
    /\ actual' = [actual EXCEPT ![o] = 0]
    /\ state' = [state EXCEPT ![o] = 2]

\* MarkOrderPaid: paid for the first time, or settled again by hand after a
\* refund cancelled it.  openOrderTx closes the commission of a deposit.
OrderPaid(o) ==
    /\ o \notin completed
    /\ completed' = completed \cup {o} /\ aged' = aged \ {o}
    /\ IF o \in Deposits
       THEN CloseDeposit(o)
       ELSE UNCHANGED <<state, due, actual>>
    /\ UNCHANGED <<invited, records, money, batch, visibility>>

\* The auto-check delay has passed since paid_at.
DelayPasses(o) ==
    /\ o \in completed \ aged
    /\ aged' = aged \cup {o}
    /\ UNCHANGED <<completed, state, due, actual, invited, records, money, batch, visibility>>

\* updateOrderCommissionStatus: refused once the order was settled.
HasLedger(o) == log[o] # <<>>
Settled(o) == state[o] = 2 \/ actual[o] > 0 \/ HasLedger(o)

UpdateOrder(o, new) ==
    /\ ~Settled(o) /\ new # state[o]
    /\ state' = [state EXCEPT ![o] = new]
    /\ UNCHANGED <<completed, aged, due, actual, invited, records, money, batch, visibility>>

\* deleteUsersByIDList, as far as an inviter is concerned.
DeleteInviter(u) ==
    /\ u \in inviters
    /\ inviters' = inviters \ {u}
    /\ invited' = {o \in invited : InviterOf[o] # u}
    /\ UNCHANGED <<completed, aged, state, due, actual, records, commission, wallet, spent, batch, visibility>>

-----------------------------------------------------------------------------
(* Payout *)

\* The sweep's query.
SweepReads(s) ==
    /\ batch[s] = {}
    /\ batch' = [batch EXCEPT ![s] =
                    {o \in completed \cap aged \cap invited : due[o] > 0 /\ state[o] \in {0, 1}}]
    /\ batch'[s] # {}
    /\ UNCHANGED <<orders, records, money, visibility>>

\* Seeded fault: only the order's own status is looked at again.
PayableUnchecked(o) == o \in completed \cap invited /\ due[o] > 0

\* What handleQueuedCommission checks again under the order's lock.
Payable(o) ==
    /\ o \in completed \cap invited /\ due[o] > 0
    /\ state[o] = 1 \/ (state[o] = 0 /\ o \in aged)

Min2(a, b) == IF a < b THEN a ELSE b

\* A debt of the commission balance is repaid first; the rest goes to the
\* configured account.
Repaid(u, amount) == IF commission[u] < 0 THEN Min2(amount, 0 - commission[u]) ELSE 0

Paid(u, repaid, rest) ==
    \E close \in WithdrawClose :
        /\ commission' = [commission EXCEPT ![u] = @ + repaid + IF close THEN 0 ELSE rest]
        /\ wallet' = [wallet EXCEPT ![u] = @ + IF close THEN rest ELSE 0]

\* Seeded fault: the amount used for the debt is credited as well.
CreditTwice(u, amount) == Paid(u, Repaid(u, amount), amount)

Credit(u, amount) == Paid(u, Repaid(u, amount), amount - Repaid(u, amount))

\* handleQueuedCommission: deposits are closed without a payout, an inviter
\* that is gone is skipped.
handleQueuedCommission(s, o) ==
    /\ o \in batch[s] /\ batch' = [batch EXCEPT ![s] = @ \ {o}]
    /\ IF o \in completed \cap Deposits
       THEN CloseDeposit(o) /\ UNCHANGED <<records, commission, wallet>>
       ELSE IF Payable(o) /\ InviterOf[o] \in inviters
       THEN /\ nextRow <= MaxRows
            /\ Credit(InviterOf[o], due[o])
            /\ log' = [log EXCEPT ![o] = Append(@, [id |-> nextRow, amount |-> due[o],
                                                    hidden |-> FALSE, version |-> 0])]
            /\ nextRow' = nextRow + 1
            /\ state' = [state EXCEPT ![o] = 2]
            /\ actual' = [actual EXCEPT ![o] = due[o]]
            /\ UNCHANGED due
       ELSE UNCHANGED <<state, due, actual, records, commission, wallet>>
    /\ UNCHANGED <<completed, aged, invited, inviters, spent, visibility>>

-----------------------------------------------------------------------------
(* Refund, transfer, spending *)

\* rollbackCommissionForRefundTx takes the amount from the commission balance
\* and covers what is missing from the wallet; the rest stays as a debt.
TakenFromWallet(u, amount) ==
    LET missing == amount - commission[u]
    IN IF missing > 0 /\ wallet[u] > 0 THEN Min2(wallet[u], missing) ELSE 0

Rollback(u, amount) ==
    /\ commission' = [commission EXCEPT ![u] = @ - amount + TakenFromWallet(u, amount)]
    /\ wallet' = [wallet EXCEPT ![u] = @ - TakenFromWallet(u, amount)]

\* RefundManagedOrder, with rollbackCommissionForRefundTx before the order is
\* cancelled and its commission rejected.
RefundManagedOrder(o) ==
    LET u == InviterOf[o]
        concerned == o \in invited /\ due[o] > 0
        paidOut == state[o] = 2 \/ actual[o] > 0
    IN /\ o \in completed \ Deposits
       /\ IF concerned /\ paidOut /\ u \in inviters
          THEN Rollback(u, IF actual[o] > 0 THEN actual[o] ELSE due[o])
          ELSE UNCHANGED <<commission, wallet>>
       /\ log' = IF concerned /\ ~(paidOut /\ u \notin inviters) THEN [log EXCEPT ![o] = <<>>] ELSE log
       /\ completed' = completed \ {o}
       /\ state' = [state EXCEPT ![o] = 3] /\ actual' = [actual EXCEPT ![o] = 0]
       /\ UNCHANGED <<aged, due, invited, nextRow, inviters, spent, batch, visibility>>

\* Transfer: commission into the wallet.
Transfer(u, n) ==
    /\ u \in inviters /\ n >= 1 /\ n <= commission[u]
    /\ commission' = [commission EXCEPT ![u] = @ - n]
    /\ wallet' = [wallet EXCEPT ![u] = @ + n]
    /\ UNCHANGED <<orders, records, inviters, spent, batch, visibility>>

\* The inviter pays an order from the wallet, or an administrator books a
\* withdrawal by writing the smaller commission balance.
Spend(u, n) ==
    /\ u \in inviters /\ n >= 1
    /\ \/ n <= wallet[u] /\ wallet' = [wallet EXCEPT ![u] = @ - n] /\ UNCHANGED commission
       \/ n <= commission[u] /\ commission' = [commission EXCEPT ![u] = @ - n] /\ UNCHANGED wallet
    /\ spent' = [spent EXCEPT ![u] = @ + n]
    /\ UNCHANGED <<orders, records, inviters, batch, visibility>>

-----------------------------------------------------------------------------
(* Hiding and restoring log rows *)

Visible(S, hidden) == {r \in Snapshot(S) : r.row.hidden = hidden}

\* PreviewCommissionLogs freezes the matching rows under a fresh token.
PreviewCommissionLogs(t, action, S) ==
    /\ preview[t].status = "none"
    /\ Visible(S, action = "restore") # {}
    /\ preview' = [preview EXCEPT ![t] = [status |-> "live", action |-> action,
                                          frozen |-> Visible(S, action = "restore")]]
    /\ UNCHANGED <<orders, records, money, batch, applied>>

\* Ten minutes pass; the next preview removes the expired one.
PreviewExpires(t) ==
    /\ preview[t].status = "live"
    /\ preview' = [preview EXCEPT ![t] = [@ EXCEPT !.status = "expired"]]
    /\ UNCHANGED <<orders, records, money, batch, applied>>

\* The frozen rows, read again under their locks, still have the digest.
UnchangedSince(frozen) == \A r \in frozen : r \in Snapshot(Orders)

FrozenIds(t) == {r.row.id : r \in preview[t].frozen}

Fresh(k) == applied[k] = Unused

\* ApplyCommissionLogs executes a live preview under an unused key.  With a
\* key that was used it returns the stored receipt, or a conflict, and
\* changes nothing.
ApplyCommissionLogs(k, t) ==
    /\ Fresh(k)
    /\ preview[t].status = "live" /\ UnchangedSince(preview[t].frozen)
    /\ log' = [o \in Orders |-> [i \in DOMAIN log[o] |->
                   IF log[o][i].id \in FrozenIds(t)
                   THEN [log[o][i] EXCEPT !.hidden = (preview[t].action = "delete"), !.version = @ + 1]
                   ELSE log[o][i]]]
    /\ applied' = [applied EXCEPT ![k] = [token |-> t, ids |-> FrozenIds(t)]]
    /\ preview' = [preview EXCEPT ![t] = [@ EXCEPT !.status = "used", !.frozen = {}]]
    /\ UNCHANGED <<orders, nextRow, money, batch>>

-----------------------------------------------------------------------------
Next ==
    \/ \E s \in Sweeps :
         \/ SweepReads(s)
         \/ \E o \in Orders : handleQueuedCommission(s, o)
    \/ \E o \in Orders :
         \/ OrderPaid(o) \/ DelayPasses(o) \/ RefundManagedOrder(o)
         \/ \E new \in {0, 1, 3} : UpdateOrder(o, new)
    \/ \E u \in Users :
         \/ DeleteInviter(u)
         \/ \E n \in 1..MaxMove : Transfer(u, n) \/ Spend(u, n)
    \/ \E t \in Tokens :
         \/ PreviewExpires(t)
         \/ \E action \in {"delete", "restore"}, S \in SUBSET Orders : PreviewCommissionLogs(t, action, S)
         \/ \E k \in Keys : ApplyCommissionLogs(k, t)

Spec == Init /\ [][Next]_vars

-----------------------------------------------------------------------------
(* Properties *)

Total(rows) == SumFunction([i \in DOMAIN rows |-> rows[i].amount])
LoggedFor(u) == SumFunctionOnSet([o \in Orders |-> Total(log[o])], {o \in Orders : InviterOf[o] = u})
Received(u) == commission[u] + wallet[u] + spent[u]

\* What an inviter holds and has spent is the sum of the commissions logged
\* for it, through payouts into either account, transfers, withdrawals,
\* refunds that reach into the wallet, and debts repaid by later payouts.
Conserved == \A u \in inviters : Received(u) = LoggedFor(u)

\* The bookkeeping implements the ledger: an order's commission is credited
\* in full once, taken back in full at most once before it can be earned
\* again, and no other operation changes what an inviter has received.
Ledger == INSTANCE CommissionLedger WITH
              earned <- {o \in Orders : log[o] # <<>>},
              received <- [u \in Users |-> Received(u)]
ImplementsLedger == Ledger!Spec
=============================================================================
