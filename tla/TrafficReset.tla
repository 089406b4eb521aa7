---------------------------- MODULE TrafficReset ----------------------------
(***************************************************************************)
(* The daily sweep that clears used traffic when a billing cycle begins    *)
(* (user/order_queue.go), against traffic reports (traffic_queue.go),      *)
(* orders (order_write.go) and a new period bought early                   *)
(* (account_actions.go).  Neither the reset nor the two markers share a    *)
(* transaction, and the sweep may fail between them.                       *)
(*                                                                         *)
(* A subscription keeps one plan and does not expire; its expiry is        *)
(* represented by the day of the month, and yearly cycles are left out.    *)
(***************************************************************************)
EXTENDS Integers, Sequences

CONSTANTS
    Users,
    Sweepers,   \* processes that run the job
    MonthDays,  \* lengths of consecutive months; the first two only precede
    FirstDay, LastDay,
    Targets,    \* days of the month on which a subscription may expire
    Methods,    \* reset_traffic_method: 0 first of month, 1 expiry day, 2 never
    MaxOrders   \* orders and method changes

Months == DOMAIN MonthDays
Stamp(m, d) == 32 * m + d
Month(s) == s \div 32
DayOf(s) == s % 32
Dates == UNION {{Stamp(m, d) : d \in 1..MonthDays[m]} : m \in Months}
Days == Dates \cap (FirstDay..LastDay)

CalendarAssumption ==
    /\ MonthDays \in Seq(28..31)
    /\ FirstDay \in Days /\ LastDay \in Days /\ Month(FirstDay) > 2
    /\ Targets \subseteq 1..31 /\ Methods \subseteq 0..2 /\ MaxOrders \in Nat

VARIABLES
    today, orders, method,
    target,   \* day of the month of expired_at
    started,  \* last paid_at
    used,     \* the day of the oldest traffic in u and d, 0 when they are zero
    marker,   \* TRAFFIC_RESET_CYCLE_USER_<id>
    daily,    \* the day marker of the sweep
    job       \* what each running sweep has in memory

clock == <<today, orders, method>>
user == <<target, started, used>>
vars == <<clock, user, marker, daily, job>>

Least(a, b) == IF a < b THEN a ELSE b
Tomorrow == IF DayOf(today) = MonthDays[Month(today)] THEN Stamp(Month(today) + 1, 1) ELSE today + 1

-----------------------------------------------------------------------------
(* The calendar *)

\* trafficResetClippedDate.
Clipped(m, day) == Stamp(m, Least(day, MonthDays[m]))

\* now.AddDate(0, -1, 0): a day the previous month lacks runs over into this.
MonthBefore(now) == IF DayOf(now) <= MonthDays[Month(now) - 1] THEN Month(now) - 1 ELSE Month(now)

\* trafficResetMonthlyAnchor.
MonthlyAnchor(day, now) ==
    IF Clipped(Month(now), day) <= now
    THEN Clipped(Month(now), day)
    ELSE Clipped(MonthBefore(now), day)

NoCycle == [method |-> 2, start |-> 0]

\* trafficResetCurrentCycle.
CurrentCycle(day, now) ==
    CASE method = 0 -> [method |-> 0, start |-> Stamp(Month(now), 1)]
      [] method = 1 -> [method |-> 1, start |-> MonthlyAnchor(day, now)]
      [] method = 2 -> NoCycle

-----------------------------------------------------------------------------
Idle == [step |-> "idle"]
Cycles == [method : 0..2, start : {0} \cup Dates]

TypeOK ==
    /\ today \in Days /\ orders \in 0..MaxOrders /\ method \in Methods
    /\ target \in [Users -> 1..31] /\ started \in [Users -> {0} \cup Days]
    /\ used \in [Users -> {0} \cup Days]
    /\ marker \in [Users -> Cycles] /\ daily \in Days
    /\ \A s \in Sweepers : job[s].step \in {"idle", "next", "reset", "mark"}

\* The sweep has run on the first day.
Init ==
    /\ today = FirstDay /\ orders = 0 /\ method \in Methods
    /\ target \in [Users -> Targets] /\ started = [u \in Users |-> 0]
    /\ used = [u \in Users |-> 0]
    /\ marker = [u \in Users |-> CurrentCycle(target[u], today)]
    /\ daily = today
    /\ job = [s \in Sweepers |-> Idle]

Tick ==
    /\ today < LastDay /\ today' = Tomorrow
    /\ UNCHANGED <<orders, method, user, marker, daily, job>>

Ordered == orders < MaxOrders /\ orders' = orders + 1

SetMethod ==
    /\ Ordered /\ method' \in Methods \ {method}
    /\ UNCHANGED <<today, user, marker, daily, job>>

\* applyTrafficFetch.
Report(u) ==
    /\ used[u] = 0 /\ used' = [used EXCEPT ![u] = today]
    /\ UNCHANGED <<clock, target, started, marker, daily, job>>

\* Whole months later; a day the month there lacks runs over into the next.
MonthsLater(day) == {day} \cup 1..(day - 28)

\* An order of type 1 or 3 is opened: a change of plan keeps the traffic
\* unless the configured event clears it.  The expiry is counted from now or
\* from the old one.
Purchase(u) ==
    /\ Ordered
    /\ started' = [started EXCEPT ![u] = today]
    /\ \/ UNCHANGED used
       \/ used' = [used EXCEPT ![u] = 0]
    /\ \E day \in MonthsLater(target[u]) \cup MonthsLater(DayOf(today)) :
         target' = [target EXCEPT ![u] = day]
    /\ UNCHANGED <<today, method, marker, daily, job>>

\* An order of type 2: traffic is cleared by the configured event, or when it
\* is paid on the day of the year on which the subscription expires.  The
\* expiry is counted from the old one.
Renew(u) ==
    /\ Ordered
    /\ started' = [started EXCEPT ![u] = today]
    /\ \/ UNCHANGED used
       \/ used' = [used EXCEPT ![u] = 0]
    /\ \E day \in MonthsLater(target[u]) : target' = [target EXCEPT ![u] = day]
    /\ UNCHANGED <<today, method, marker, daily, job>>

\* A new period is paid for with days of the subscription, which expires
\* earlier, on another day of the month.
NewPeriod(u) ==
    /\ Ordered /\ method # 2 /\ used[u] # 0
    /\ used' = [used EXCEPT ![u] = 0]
    /\ \E day \in Targets : target' = [target EXCEPT ![u] = day]
    /\ UNCHANGED <<today, method, started, marker, daily, job>>

\* The operator's command.
ResetAllTrafficUsage ==
    /\ used' = [u \in Users |-> 0] /\ used' # used
    /\ UNCHANGED <<clock, target, started, marker, daily, job>>

-----------------------------------------------------------------------------
(* runDailyTrafficResetSweep *)

\* The candidates are one consistent read; the loop works on it.
Begin(s) ==
    /\ job[s].step = "idle" /\ daily # today
    /\ job' = [job EXCEPT ![s] = [step |-> "next", day |-> today, left |-> Users,
                                  used |-> {u \in Users : used[u] # 0},
                                  target |-> target, started |-> started]]
    /\ UNCHANGED <<clock, user, marker, daily>>

\* Seeded fault: the cycle is recorded before the traffic is cleared.
DecideMarked(s, u) ==
    /\ job[s].step = "next" /\ u \in job[s].left
    /\ LET cycle == CurrentCycle(job[s].target[u], job[s].day)
           due == u \in job[s].used /\ job[s].started[u] < cycle.start
       IN  IF cycle = NoCycle \/ marker[u] = cycle
           THEN job' = [job EXCEPT ![s].left = @ \ {u}] /\ UNCHANGED marker
           ELSE /\ marker' = [marker EXCEPT ![u] = cycle]
                /\ job' = [job EXCEPT ![s] =
                  [step |-> IF due THEN "reset" ELSE "mark", day |-> job[s].day,
                   left |-> job[s].left, used |-> job[s].used, target |-> job[s].target,
                   started |-> job[s].started, of |-> u, cycle |-> cycle]]
    /\ UNCHANGED <<clock, user, daily>>

\* applyTrafficResetCandidate up to its decision.
Decide(s, u) ==
    /\ job[s].step = "next" /\ u \in job[s].left
    /\ LET cycle == CurrentCycle(job[s].target[u], job[s].day)
           due == u \in job[s].used /\ job[s].started[u] < cycle.start
       IN  IF cycle = NoCycle \/ marker[u] = cycle
           THEN job' = [job EXCEPT ![s].left = @ \ {u}]
           ELSE job' = [job EXCEPT ![s] =
                  [step |-> IF due THEN "reset" ELSE "mark", day |-> job[s].day,
                   left |-> job[s].left, used |-> job[s].used, target |-> job[s].target,
                   started |-> job[s].started, of |-> u, cycle |-> cycle]]
    /\ UNCHANGED <<clock, user, marker, daily>>

\* resetUserTrafficUsage.
Reset(s) ==
    /\ job[s].step = "reset"
    /\ used' = [used EXCEPT ![job[s].of] = 0]
    /\ job' = [job EXCEPT ![s].step = "mark"]
    /\ UNCHANGED <<clock, target, started, marker, daily>>

Marked(s) ==
    job' = [job EXCEPT ![s] = [step |-> "next", day |-> job[s].day, left |-> job[s].left \ {job[s].of},
                               used |-> job[s].used, target |-> job[s].target, started |-> job[s].started]]

Mark(s) ==
    /\ job[s].step = "mark" /\ Marked(s)
    /\ marker' = [marker EXCEPT ![job[s].of] = job[s].cycle]
    /\ UNCHANGED <<clock, user, daily>>

\* Seeded fault: the day is recorded even when the sweep fails.
AbortDone(s) ==
    /\ job[s].step # "idle" /\ job' = [job EXCEPT ![s] = Idle]
    /\ daily' = job[s].day
    /\ UNCHANGED <<clock, user, marker>>

Finish(s) ==
    /\ job[s].step = "next" /\ job[s].left = {}
    /\ daily' = job[s].day /\ job' = [job EXCEPT ![s] = Idle]
    /\ UNCHANGED <<clock, user, marker>>

\* A statement fails, or the process dies, between any two steps.
Abort(s) ==
    /\ job[s].step # "idle" /\ job' = [job EXCEPT ![s] = Idle]
    /\ UNCHANGED <<clock, user, marker, daily>>

-----------------------------------------------------------------------------
Sweep(s) == Begin(s) \/ (\E u \in Users : Decide(s, u)) \/ Reset(s) \/ Mark(s) \/ Finish(s)

Next ==
    \/ Tick \/ SetMethod \/ ResetAllTrafficUsage
    \/ \E u \in Users : Report(u) \/ Purchase(u) \/ Renew(u) \/ NewPeriod(u)
    \/ \E s \in Sweepers : Sweep(s) \/ Abort(s)

\* The job runs every minute; failures may be many, but not for ever.
Fairness ==
    /\ \A s \in Sweepers : WF_vars(Sweep(s))
    /\ <>[][\A s \in Sweepers : ~Abort(s)]_vars

Spec == Init /\ [][Next]_vars
FairSpec == Spec /\ Fairness

-----------------------------------------------------------------------------
(* Properties *)

\* The first day on which the code takes a cycle for the current one: its
\* start, or the day after the length of the month before, when that comes
\* earlier (MonthBefore runs over: the 31st of March begins on the 29th).
Begins(start) ==
    IF start # 0 /\ DayOf(start) > MonthDays[Month(start) - 1]
    THEN Stamp(Month(start), MonthDays[Month(start) - 1] + 1)
    ELSE start

\* Traffic and subscription are older than the first day of the cycle.
Precedes(u, start) == used[u] # 0 /\ used[u] < Begins(start) /\ started[u] < Begins(start)

Stale(u) == Precedes(u, CurrentCycle(target[u], today).start)

\* Once a cycle is recorded, no traffic of the cycles before counts any more
\* for a subscription that was paid for before it began, whatever failed and
\* whatever was reported, bought or swept by another process meanwhile; and a
\* cycle begins no earlier than the overflow of the month before makes it
\* (applyTrafficResetCandidate).
CycleClosed == \A u \in Users : marker[u] = CurrentCycle(target[u], today) => ~Stale(u)

SweepDue(k) == method = k /\ daily # today /\ \A s \in Sweepers : job[s] = Idle

\* Traffic of an earlier cycle is eventually cleared once a sweep of the day is
\* due, however often it fails, unless the operator changes the method
\* (runDailyTrafficResetSweep).
CycleCleared ==
    \A u \in Users, k \in Methods : Stale(u) /\ SweepDue(k) ~> ~Stale(u) \/ method # k
=============================================================================
