----------------------------- MODULE OrderSweep -----------------------------
(***************************************************************************)
(* The order part of the one-minute sweep (internal/user/order_queue.go):  *)
(* HandlePendingOrders walks a batch of waiting orders, one transaction    *)
(* each, and gives up at the first error; afterwards cleanupExpiredOrders  *)
(* reads candidates, decides, and deletes by id in a statement of its own. *)
(* Users, gateways and administrators act between any two of these steps.  *)
(*                                                                         *)
(* Orders are numbered in the order of their creation.  Money is left to   *)
(* OrderPayment; here an order only has or has not a wallet part, because  *)
(* cancelling one that has locks the row of its user.                      *)
(***************************************************************************)
EXTENDS Integers, Sequences, FiniteSets, SequencesExt

CONSTANTS
    N,              \* orders ever created, 1..N
    Users,
    UserOf,         \* whose order it is
    Wallet,         \* orders partly paid from the wallet
    Legacy,         \* paid-pending rows older runtimes left behind
    BatchLimit,     \* orderHandleBatchLimit
    DueAge,         \* two hours
    KeepAge,        \* OrderKeepDays
    MaxClock,
    MaxErrors,      \* database errors met by the sweep
    DeleteRaces     \* TRUE: an order may be created while its user is deleted

Orders == 1..N

SweepAssumption ==
    /\ N \in Nat /\ UserOf \in [Orders -> Users]
    /\ Wallet \subseteq Orders /\ Legacy \subseteq Orders
    /\ BatchLimit \in Nat \ {0} /\ DueAge \in Nat /\ KeepAge \in Nat \ {0}
    /\ MaxClock \in Nat /\ MaxErrors \in Nat /\ DeleteRaces \in BOOLEAN

VARIABLES
    status,     \* v2_order.status; "none" when there is no row
    born,       \* created_at
    touched,    \* updated_at
    paid,       \* paid_at, 0 while NULL
    folds,      \* surplus_order_ids
    claimed,    \* a checkout of the order: "never", "active" or "over"
    corrupt,    \* legacy rows whose amounts are invalid
    users,      \* rows of v2_user
    deleting,   \* per user, the orders its running deletion has seen
    clock,
    pc,         \* where the sweep is
    batch,      \* what is left of the rows it read
    cutoff,     \* of the cleanup
    doomed,     \* ids of the DELETE
    errors

rows == <<status, born, touched, paid, folds, claimed, corrupt>>
people == <<users, deleting>>
sweep == <<pc, batch, cutoff, doomed, errors>>
vars == <<rows, people, clock, sweep>>

Waiting == {"pending", "paid"}
Closed == {"cancelled", "done", "folded"}
NotDeleting == {-1}

TypeOK ==
    /\ status \in [Orders -> {"none"} \cup Waiting \cup Closed]
    /\ born \in [Orders -> 0..MaxClock] /\ touched \in [Orders -> 0..MaxClock]
    /\ paid \in [Orders -> 0..MaxClock]
    /\ folds \in [Orders -> SUBSET Orders] /\ claimed \in [Orders -> {"never", "active", "over"}]
    /\ corrupt \subseteq Legacy
    /\ users \subseteq Users /\ deleting \in [Users -> SUBSET (Orders \cup NotDeleting)]
    /\ clock \in 0..MaxClock
    /\ pc \in {"idle", "orders", "decide", "delete"}
    /\ batch \in Seq(Orders) /\ Len(batch) <= BatchLimit
    /\ cutoff \in Int /\ doomed \subseteq Orders /\ errors \in 0..MaxErrors

Init ==
    /\ status = [o \in Orders |-> IF o \in Legacy THEN "paid" ELSE "none"]
    /\ born = [o \in Orders |-> 0] /\ touched = [o \in Orders |-> 0]
    /\ paid = [o \in Orders |-> 0]
    /\ folds = [o \in Orders |-> {}] /\ claimed = [o \in Orders |-> "never"]
    /\ corrupt \in SUBSET Legacy
    /\ users = Users /\ deleting = [u \in Users |-> NotDeleting]
    /\ clock = 0
    /\ pc = "idle" /\ batch = <<>> /\ cutoff = 0 /\ doomed = {} /\ errors = 0

\* Rows a running user deletion holds locked.
Locked(o) == \E u \in Users : deleting[u] # NotDeleting /\ o \in deleting[u]

\* ORDER BY time ASC LIMIT BatchLimit; equal times fall back to the id.  The
\* set has one element, the sequence of the rows read.
Oldest(S, time) ==
    LET Before(a, b) == time[a] < time[b] \/ (time[a] = time[b] /\ a < b)
    IN  {q \in UNION {[1..n -> S] : n \in 0..BatchLimit} :
            /\ \A i, j \in DOMAIN q : i < j => Before(q[i], q[j])
            /\ \A o \in S \ ToSet(q) :
                 Len(q) = BatchLimit /\ \A i \in DOMAIN q : Before(q[i], o)}

-----------------------------------------------------------------------------
(* Users, gateways, administrators *)

\* SaveOrder under the user's row lock; an upgrade folds completed orders.
SaveOrder(o) ==
    LET u == UserOf[o]
        completed == {k \in Orders : UserOf[k] = u /\ status[k] = "done"}
    IN /\ status[o] = "none" /\ \A k \in Orders : k > o => status[k] = "none" /\ born[k] = 0
       /\ o \notin Legacy /\ born[o] = 0 /\ clock > 0
       /\ u \in users /\ (deleting[u] = NotDeleting \/ DeleteRaces)
       /\ \A k \in Orders : UserOf[k] = u => status[k] \notin Waiting
       /\ status' = [status EXCEPT ![o] = "pending"]
       /\ born' = [born EXCEPT ![o] = clock] /\ touched' = [touched EXCEPT ![o] = clock]
       /\ \E S \in {{}, completed} : folds' = [folds EXCEPT ![o] = S]
       /\ UNCHANGED <<paid, claimed, corrupt, people, clock, sweep>>

\* A checkout claims the order while it calls the gateway; the claim is a
\* lease.  Bound: one checkout of each order.
CheckoutClaim(o) ==
    /\ status[o] = "pending" /\ claimed[o] = "never" /\ UserOf[o] \in users /\ ~Locked(o)
    /\ claimed' = [claimed EXCEPT ![o] = "active"]
    /\ UNCHANGED <<status, born, touched, paid, folds, corrupt, people, clock, sweep>>

ClaimEnds(o) ==
    /\ claimed[o] = "active"
    /\ claimed' = [claimed EXCEPT ![o] = "over"]
    /\ UNCHANGED <<status, born, touched, paid, folds, corrupt, people, clock, sweep>>

\* openOrderTx: the order is done, the orders it folds are closed.
Opened(o) ==
    /\ status' = [k \in Orders |-> IF k = o THEN "done"
                                   ELSE IF k \in folds[o] /\ status[k] # "none" THEN "folded"
                                   ELSE status[k]]
    /\ touched' = [k \in Orders |-> IF k = o \/ k \in folds[o] THEN clock ELSE touched[k]]
    /\ paid' = [paid EXCEPT ![o] = clock]

\* MarkOrderPaid, from a callback or by an administrator, who may also settle
\* a cancelled order of any age.
MarkOrderPaid(o) ==
    /\ status[o] \in {"pending", "cancelled"} /\ UserOf[o] \in users /\ ~Locked(o)
    /\ Opened(o)
    /\ UNCHANGED <<born, folds, claimed, corrupt, people, clock, sweep>>

\* CancelOrder by the user or an administrator.
CancelOrder(o) ==
    /\ status[o] = "pending" /\ claimed[o] # "active" /\ ~Locked(o)
    /\ o \in Wallet => UserOf[o] \in users
    /\ status' = [status EXCEPT ![o] = "cancelled"]
    /\ touched' = [touched EXCEPT ![o] = clock]
    /\ UNCHANGED <<born, paid, folds, claimed, corrupt, people, clock, sweep>>

\* RefundManagedOrder: only the latest completed order; folded orders return.
RefundManagedOrder(o) ==
    /\ status[o] = "done" /\ UserOf[o] \in users /\ ~Locked(o)
    /\ \A k \in Orders : UserOf[k] = UserOf[o] /\ status[k] = "done" => born[k] <= born[o]
    /\ status' = [k \in Orders |-> IF k = o THEN "cancelled"
                                   ELSE IF k \in folds[o] /\ status[k] = "folded" THEN "done"
                                   ELSE status[k]]
    /\ touched' = [k \in Orders |-> IF k = o \/ (k \in folds[o] /\ status[k] = "folded")
                                    THEN clock ELSE touched[k]]
    /\ UNCHANGED <<born, paid, folds, claimed, corrupt, people, clock, sweep>>

\* deleteUsersByIDList: one transaction, which deletes the orders it sees and,
\* several statements later, the user.
DeleteOrdersOfUser(u) ==
    /\ u \in users /\ deleting[u] = NotDeleting
    /\ deleting' = [deleting EXCEPT ![u] = {o \in Orders : UserOf[o] = u /\ status[o] # "none"}]
    /\ UNCHANGED <<rows, users, clock, sweep>>

DeleteUserCommits(u) ==
    /\ deleting[u] # NotDeleting
    /\ status' = [o \in Orders |-> IF o \in deleting[u] THEN "none" ELSE status[o]]
    /\ users' = users \ {u}
    /\ deleting' = [deleting EXCEPT ![u] = NotDeleting]
    /\ UNCHANGED <<born, touched, paid, folds, claimed, corrupt, clock, sweep>>

Tick ==
    /\ clock < MaxClock
    /\ clock' = clock + 1
    /\ UNCHANGED <<rows, people, sweep>>

-----------------------------------------------------------------------------
(* The sweep *)

\* HandlePendingOrders reads its batch.
SweepBegins ==
    /\ pc = "idle"
    /\ pc' = "orders"
    /\ batch' \in Oldest({o \in Orders : status[o] \in Waiting}, born)
    /\ UNCHANGED <<rows, people, clock, cutoff, doomed, errors>>

shouldAutoCancel(o) == status[o] = "pending" /\ born[o] <= clock - DueAge

\* The rows a transaction of handleQueuedOrder cancels: overdue ones without a
\* running checkout, and paid-pending ones whose amounts are invalid.
Cancels(o) ==
    \/ shouldAutoCancel(o) /\ claimed[o] # "active"
    \/ status[o] = "paid" /\ o \in corrupt

Opens(o) == status[o] = "paid" /\ o \notin corrupt

\* Seeded fault: a row with invalid amounts is an error, not quarantined.
FailsOnCorrupt(o) == o \in corrupt /\ status[o] = "paid"

\* lockUserTx finds no row.
FailsOn(o) ==
    /\ UserOf[o] \notin users
    /\ Opens(o) \/ (Cancels(o) /\ o \in Wallet)

\* One handleQueuedOrder; an error ends the whole job.
handleQueuedOrder ==
    /\ pc = "orders" /\ batch # <<>>
    /\ LET o == Head(batch)
       IN /\ ~Locked(o)
          /\ IF FailsOn(o)
             THEN /\ pc' = "idle" /\ batch' = <<>>
                  /\ UNCHANGED <<status, touched, paid>>
             ELSE /\ batch' = Tail(batch) /\ UNCHANGED pc
                  /\ CASE Cancels(o) -> /\ status' = [status EXCEPT ![o] = "cancelled"]
                                        /\ touched' = [touched EXCEPT ![o] = clock]
                                        /\ UNCHANGED paid
                       [] Opens(o) -> Opened(o)
                       [] OTHER -> UNCHANGED <<status, touched, paid>>
    /\ UNCHANGED <<born, folds, claimed, corrupt, people, clock, cutoff, doomed, errors>>

\* Seeded fault: the query does not look at the status.
ExpiredAny(t) == {o \in Orders : status[o] # "none" /\ touched[o] <= t}

\* The commission batch follows (module Commission), then the cleanup reads
\* the closed rows that nothing has touched since its cutoff; one it reads as
\* cancelled is to be deleted whatever follows.
Expired(t) == {o \in Orders : status[o] \in Closed /\ touched[o] <= t}

CleanupReads ==
    /\ pc = "orders" /\ batch = <<>>
    /\ pc' = "decide" /\ cutoff' = clock - KeepAge
    /\ batch' \in Oldest(Expired(clock - KeepAge), touched)
    /\ doomed' = {o \in ToSet(batch') : status[o] = "cancelled"}
    /\ UNCHANGED <<rows, people, clock, errors>>

\* latestCompletedOrderForCleanup: at most one order of the user.
LatestCompleted(u) ==
    {o \in Orders : /\ UserOf[o] = u /\ status[o] = "done"
                    /\ \A k \in Orders : UserOf[k] = u /\ status[k] = "done"
                         => paid[k] < paid[o] \/ (paid[k] = paid[o] /\ k <= o)}

\* What protects another candidate: the user's latest completed order, still fresh.
ProtectedBy(o, n) == touched[n] > cutoff /\ (o = n \/ o \in folds[n])

\* The decision looks at the latest completed orders as they are now, and at
\* the candidates as they were read.
CleanupDecides ==
    /\ pc = "decide"
    /\ pc' = "delete" /\ batch' = <<>>
    /\ doomed' = doomed \cup
          {o \in ToSet(batch) : ~\E n \in LatestCompleted(UserOf[o]) : ProtectedBy(o, n)}
    /\ UNCHANGED <<rows, people, clock, cutoff, errors>>

\* DELETE ... WHERE id IN (...), then the traffic reset (module TrafficReset).
CleanupDeletes ==
    /\ pc = "delete" /\ ~\E o \in doomed : Locked(o)
    /\ pc' = "idle" /\ doomed' = {} /\ cutoff' = 0
    /\ status' = [o \in Orders |-> IF o \in doomed THEN "none" ELSE status[o]]
    /\ UNCHANGED <<born, touched, paid, folds, claimed, corrupt, people, clock, batch, errors>>

\* Any statement of the job may fail; the job returns and the next minute
\* starts again.
SweepFails ==
    /\ pc # "idle" /\ errors < MaxErrors
    /\ errors' = errors + 1
    /\ pc' = "idle" /\ batch' = <<>> /\ doomed' = {} /\ cutoff' = 0
    /\ UNCHANGED <<rows, people, clock>>

-----------------------------------------------------------------------------
SweepStep ==
    SweepBegins \/ handleQueuedOrder \/ CleanupReads \/ CleanupDecides \/ CleanupDeletes

Next ==
    \/ SweepStep \/ SweepFails \/ Tick
    \/ \E o \in Orders : \/ SaveOrder(o) \/ CheckoutClaim(o) \/ ClaimEnds(o)
                         \/ MarkOrderPaid(o) \/ CancelOrder(o) \/ RefundManagedOrder(o)
    \/ \E u \in Users : DeleteOrdersOfUser(u) \/ DeleteUserCommits(u)

Spec == Init /\ [][Next]_vars

\* The sweep runs every minute, time passes, leases end, and a deletion that
\* was started commits; nobody is obliged to pay, cancel or delete.
Fairness ==
    /\ WF_vars(SweepStep) /\ WF_vars(Tick)
    /\ \A o \in Orders : WF_vars(ClaimEnds(o))
    /\ \A u \in Users : WF_vars(DeleteUserCommits(u))

LiveSpec == Spec /\ Fairness

-----------------------------------------------------------------------------
(* Properties *)

Due(o) == shouldAutoCancel(o) \/ status[o] = "paid"

\* No order blocks the queue: an unpaid order past its two hours, and a
\* paid-pending row, eventually stop waiting, whatever stands before them in
\* the batch and however often the job fails (HandlePendingOrders).
QueueMoves == \A o \in Orders : Due(o) ~> ~Due(o)

\* The sweep deletes rows by ids it read earlier; what it deletes is closed at
\* the moment of the DELETE, never an order somebody can still pay.
DeletesClosed ==
    [][pc = "delete" /\ pc' = "idle" => \A o \in Orders :
        status[o] # "none" /\ status'[o] = "none" => status[o] \in Closed]_vars
=============================================================================
