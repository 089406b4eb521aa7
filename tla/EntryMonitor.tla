---------------------------- MODULE EntryMonitor ----------------------------
(***************************************************************************)
(* Monitoring of the user entries and their automatic bisection.           *)
(*                                                                         *)
(* Probes measure targets (an entry's host and port) and report; a report  *)
(* moves the confirmed state of its (target, probe) pair, queues one alert  *)
(* per address, and asks for a split of the leaf a target stands for.       *)
(* Workers take the pending operations: they look (without a lock), lock    *)
(* the online probes, then the target, judge again and split.               *)
(*                                                                         *)
(* A report and a worker read the clock before they wait for their locks,   *)
(* and ask what is online and fresh by that old time.  Each keeps the       *)
(* probes that were heard, or grew old, since: of those the database may    *)
(* answer either way, of the others as it is.                               *)
(*                                                                         *)
(* Time is a few free actions: a pair's last report ages, a probe's         *)
(* heartbeat is renewed, lapses, and returns.  Thresholds cap the streaks,  *)
(* which the code only compares with them.  Ports, names, latencies,        *)
(* intervals, the order of leaves and the users' own rows are left out; a   *)
(* split spends two backup IPs and retires its target.                      *)
(***************************************************************************)
EXTENDS Naturals

CONSTANTS
    Targets,            \* monitored target rows, one monitor each
    Leaf,               \* [Targets -> Leaves \cup {NoLeaf}]: the split leaf a target stands for
    Leaves, NoLeaf,
    Born,               \* targets that exist at the start; the others are added later
    Crowded,            \* leaves with at least two assigned users
    Addresses, Home,    \* Home \in [Targets -> Addresses]: the first host:port of a target
    Probes, Workers,
    FailureThreshold, SuccessThreshold,
    MaxGen,             \* bound on a target's generation
    MaxPool,            \* bound on healthy backup IPs
    None

ASSUME EntryAssumption ==
    /\ FailureThreshold \in Nat \ {0} /\ SuccessThreshold \in Nat \ {0}
    /\ MaxGen \in Nat \ {0} /\ MaxPool \in Nat
    /\ Leaf \in [Targets -> Leaves \cup {NoLeaf}] /\ NoLeaf \notin Leaves
    /\ Home \in [Targets -> Addresses] /\ Born \subseteq Targets /\ Crowded \subseteq Leaves

VARIABLES
    online,     \* [Probes -> BOOLEAN]: enabled, with a fresh heartbeat
    target,     \* [Targets -> row]
    pair,       \* [Targets -> [Probes -> state row]]
    sent,       \* [Probes -> its last result, and whether the inbox has it]
    clock,      \* [Probes -> its report that has read the clock and waits for its locks]
    alarm,      \* [Addresses -> the last alert queued for the address]
    op,         \* [Leaves -> the last split operation of the leaf]
    pool,       \* healthy backup IPs
    work,       \* [Workers -> the operation looked at and the probes locked]
    seen,       \* history: distinct failing results in a row, per pair
    doubt       \* history: addresses judged by an old clock, or of a probe that came back

vars == <<online, target, pair, sent, clock, alarm, op, pool, work, seen, doubt>>

NoState == [last |-> "none", ok |-> 0, bad |-> 0, fresh |-> FALSE]
NoOp    == [status |-> "none", t |-> None, gen |-> 0]
Closed  == [open |-> FALSE, moved |-> {}, aged |-> {}]
Idle    == [leaf |-> None, t |-> None, gen |-> 0, held |-> FALSE, locked |-> {}, moved |-> {}]

Results == [t : Targets, gen : 1..MaxGen, ok : BOOLEAN, taken : BOOLEAN]

TypeOK ==
    /\ online \in [Probes -> BOOLEAN]
    /\ target \in [Targets -> [live : BOOLEAN, on : BOOLEAN, split : BOOLEAN,
                               gen : 1..MaxGen, addr : Addresses]]
    /\ pair \in [Targets -> [Probes -> [last : {"none", "up", "down"}, ok : 0..SuccessThreshold,
                                        bad : 0..FailureThreshold, fresh : BOOLEAN]]]
    /\ sent \in [Probes -> Results \cup {None}]
    /\ clock \in [Probes -> [open : BOOLEAN, moved : SUBSET Probes, aged : SUBSET Targets]]
    /\ alarm \in [Addresses -> {"none", "down", "recovered"}]
    /\ op \in [Leaves -> [status : {"none", "pending", "cancelled", "succeeded"},
                          t : Targets \cup {None}, gen : 0..MaxGen]]
    /\ pool \in 0..MaxPool
    /\ work \in [Workers -> [leaf : Leaves \cup {None}, t : Targets \cup {None},
                             gen : 0..MaxGen, held : BOOLEAN,
                             locked : SUBSET Probes, moved : SUBSET Probes]]
    /\ seen \in [Targets -> [Probes -> 0..FailureThreshold]]
    /\ doubt \in [Addresses -> BOOLEAN]

Init ==
    /\ online = [p \in Probes |-> TRUE]
    /\ target = [t \in Targets |-> [live |-> t \in Born, on |-> TRUE, split |-> Leaf[t] # NoLeaf,
                                    gen |-> 1, addr |-> Home[t]]]
    /\ pair = [t \in Targets |-> [p \in Probes |-> NoState]]
    /\ sent = [p \in Probes |-> None]
    /\ clock = [p \in Probes |-> Closed]
    /\ alarm = [a \in Addresses |-> "none"]
    /\ op = [l \in Leaves |-> NoOp]
    /\ pool = MaxPool
    /\ work = [w \in Workers |-> Idle]
    /\ seen = [t \in Targets |-> [p \in Probes |-> 0]]
    /\ doubt = [a \in Addresses |-> FALSE]

-----------------------------------------------------------------------------
(* Reports.  A report holds its probe's row and the one lock of all event   *)
(* writers from its first read to its commit, which is one step; only its   *)
(* clock may have been read before.                                         *)

Locked(p) == \E w \in Workers : p \in work[w].locked

\* Whoever has read the clock finds the times of probe p changed since.
Passed(c, p) == IF c.open THEN [c EXCEPT !.moved = @ \cup {p}] ELSE c

Worked(w, p) == IF work[w] = Idle THEN Idle ELSE [work[w] EXCEPT !.moved = @ \cup {p}]

\* Probe p writes its own row: a report of its own that waits comes too late or after.
Heard(p) ==
    /\ clock' = [q \in Probes |-> IF q = p THEN Closed ELSE Passed(clock[q], p)]
    /\ work' = [w \in Workers |-> Worked(w, p)]

\* A report reads the clock and waits, for its probe's row or for the other reports.
Wait(p) ==
    /\ online[p] /\ ~clock[p].open
    /\ clock' = [clock EXCEPT ![p].open = TRUE]
    /\ UNCHANGED <<online, target, pair, sent, alarm, op, pool, work, seen, doubt>>

\* The report that waits is rolled back.
Drop(p) ==
    /\ clock[p].open
    /\ clock' = [clock EXCEPT ![p] = Closed]
    /\ UNCHANGED <<online, target, pair, sent, alarm, op, pool, work, seen, doubt>>

UpTo(n, max) == IF n > max THEN max ELSE n

\* The pair's own last report is recent by the clock of the report.
Recent(t, p) == pair[t][p].fresh \/ t \in clock[p].aged

\* The streaks after a sample; a pair whose last report is too old starts again.
Sampled(t, p, ok) ==
    LET from == IF Recent(t, p) THEN pair[t][p] ELSE NoState
    IN  [last |-> from.last, fresh |-> TRUE,
         ok  |-> IF ok THEN UpTo(from.ok + 1, SuccessThreshold) ELSE 0,
         bad |-> IF ok THEN 0 ELSE UpTo(from.bad + 1, FailureThreshold)]

\* confirmClientEntryMonitorAvailability: the confirmed state after the sample.
Confirmed(s, ok) ==
    CASE ok /\ s.last = "down" /\ s.ok < SuccessThreshold -> "down"
      [] ok /\ ~(s.last = "down" /\ s.ok < SuccessThreshold) -> "up"
      [] ~ok /\ s.bad < FailureThreshold -> s.last
      [] ~ok /\ s.bad >= FailureThreshold -> "down"

Transition(s, last) ==
    CASE s.last = "down" /\ last = "up" -> "recovered"
      [] s.last # "down" /\ last = "down" -> "down"
      [] OTHER -> "none"

\* Seeded fault: the other probes of the same target are not asked.
HoldsElsewhere(t2, p2, t, p) ==
    /\ t2 # t
    /\ target[t2].live /\ target[t2].on /\ target[t2].addr = target[t].addr
    /\ pair[t2][p2].last = "down"

\* Another pair is confirmed down at the same address.
Holds(t2, p2, t, p) ==
    /\ <<t2, p2>> # <<t, p>>
    /\ target[t2].live /\ target[t2].on /\ target[t2].addr = target[t].addr
    /\ pair[t2][p2].last = "down"

\* Another pair holds the address down, by a fresh report of a probe that is up.
OtherDown(t, p) ==
    \E t2 \in Targets, p2 \in Probes :
        Holds(t2, p2, t, p) /\ online[p2] /\ pair[t2][p2].fresh

\* What the query can answer with the report's clock: a probe heard since is later than
\* the clock and left out, one grown old since is still taken.
Answers(t, p) ==
    LET sure == \E t2 \in Targets, p2 \in Probes \ clock[p].moved :
                    Holds(t2, p2, t, p) /\ online[p2] /\ pair[t2][p2].fresh
        may  == \E t2 \in Targets, p2 \in clock[p].moved : Holds(t2, p2, t, p)
    IN  {b \in BOOLEAN : (sure => b) /\ (b => sure \/ may)}

\* Operations after a transition of target t.
Recovered(t) ==
    [l \in Leaves |->
        IF l = Leaf[t] /\ op[l].status = "pending" /\ op[l].t = t /\ op[l].gen = target[t].gen
        THEN [op[l] EXCEPT !.status = "cancelled"] ELSE op[l]]

Enqueued(t) ==
    [l \in Leaves |->
        IF l = Leaf[t] /\ target[t].split
        THEN [status |-> "pending", t |-> t, gen |-> target[t].gen] ELSE op[l]]

\* History: the old clock misled the report about the others or about its own pair;
\* an alert queued by what is so settles the address again.
Misled(t, p, turn, last, otherDown) ==
    IF turn = "none" THEN last = "down" /\ ~pair[t][p].fresh ELSE otherDown # OtherDown(t, p)

Doubted(t, p, turn, last, otherDown) ==
    doubt' = [doubt EXCEPT ![target[t].addr] =
                 Misled(t, p, turn, last, otherDown) \/ (@ /\ (turn = "none" \/ otherDown))]

\* A taken result: the pair's state, the alert and the operation of one transaction.
Takes(p, r, otherDown) ==
    LET now  == Sampled(r.t, p, r.ok)
        last == Confirmed(now, r.ok)
        turn == Transition(now, last)
    IN  /\ pair' = [pair EXCEPT ![r.t][p] = [now EXCEPT !.last = last]]
        /\ alarm' = IF turn = "none" \/ otherDown THEN alarm
                    ELSE [alarm EXCEPT ![target[r.t].addr] = turn]
        /\ op' = CASE turn = "recovered" -> Recovered(r.t)
                   [] turn = "down" -> Enqueued(r.t)
                   [] turn = "none" -> op
        /\ Doubted(r.t, p, turn, last, otherDown)

\* History: how many different failing results of the present endpoint in a row the
\* pair really had.
Counts(p, r) ==
    seen' = IF r.gen # target[r.t].gen THEN seen
            ELSE [seen EXCEPT ![r.t][p] =
                     IF r.ok THEN 0
                     ELSE UpTo((IF Recent(r.t, p) THEN @ ELSE 0) + 1, FailureThreshold)]

Allowed(r) == target[r.t].live /\ target[r.t].on /\ target[r.t].gen = r.gen

Measured(t, ok, taken) == [t |-> t, gen |-> target[t].gen, ok |-> ok, taken |-> taken]

\* The probe hears that the result is in and drops it, or does not hear and keeps it.
Hears(p, r) == \E kept \in {None, r} : sent' = [sent EXCEPT ![p] = kept]

\* The probe was up by the report's clock, and no worker holds its row.
Reports(p) == (online[p] \/ clock[p].open) /\ ~Locked(p)

\* A new result, measured and reported.
Report(p, t, ok) ==
    LET r == Measured(t, ok, TRUE)
    IN  /\ Reports(p) /\ Allowed(r)
        /\ \E otherDown \in Answers(t, p) : Takes(p, r, otherDown)
        /\ Counts(p, r) /\ Hears(p, r) /\ Heard(p)
        /\ UNCHANGED <<online, target, pool>>

\* A new result whose report does not reach the server, or is rolled back.
Mislay(p, t, ok) ==
    LET r == Measured(t, ok, FALSE)
    IN  /\ target[t].live /\ target[t].on
        /\ sent' = [sent EXCEPT ![p] = r]
        /\ UNCHANGED <<online, target, pair, clock, alarm, op, pool, work, seen, doubt>>

\* Seeded fault: the inbox does not know the result.
ResendTwice(p) ==
    /\ Reports(p) /\ sent[p] # None
    /\ Allowed(sent[p])
    /\ \E otherDown \in Answers(sent[p].t, p) : Takes(p, sent[p], otherDown)
    /\ IF sent[p].taken THEN UNCHANGED seen ELSE Counts(p, sent[p])
    /\ sent' = [sent EXCEPT ![p].taken = TRUE]
    /\ Heard(p) /\ UNCHANGED <<online, target, pool>>

\* The last result again: it was mislaid, or its answer was.  The inbox knows the id
\* of a result it has taken; a result of an older generation is skipped.
Resend(p) ==
    /\ Reports(p) /\ sent[p] # None
    /\ Allowed(sent[p]) /\ ~sent[p].taken
    /\ \E otherDown \in Answers(sent[p].t, p) : Takes(p, sent[p], otherDown)
    /\ Counts(p, sent[p])
    /\ sent' = [sent EXCEPT ![p].taken = TRUE]
    /\ Heard(p) /\ UNCHANGED <<online, target, pool>>

-----------------------------------------------------------------------------
(* Time and heartbeats.  A heartbeat writes the probe's row, which a worker  *)
(* may hold.                                                                *)

Age(t, p) ==
    /\ pair[t][p].fresh
    /\ pair' = [pair EXCEPT ![t][p].fresh = FALSE]
    /\ clock' = [q \in Probes |->
                    IF q = p /\ clock[q].open
                    THEN [Passed(clock[q], p) EXCEPT !.aged = @ \cup {t}] ELSE Passed(clock[q], p)]
    /\ work' = [w \in Workers |-> Worked(w, p)]
    /\ UNCHANGED <<online, target, sent, alarm, op, pool, seen, doubt>>

Lapse(p) ==
    /\ online[p]
    /\ online' = [online EXCEPT ![p] = FALSE]
    /\ clock' = [q \in Probes |-> Passed(clock[q], p)]
    /\ work' = [w \in Workers |-> Worked(w, p)]
    /\ UNCHANGED <<target, pair, sent, alarm, op, pool, seen, doubt>>

Beat(p) ==
    /\ online[p] /\ ~Locked(p) /\ Heard(p)
    /\ UNCHANGED <<online, target, pair, sent, alarm, op, pool, seen, doubt>>

\* The last heartbeat is too old, or later than this one: the probe starts afresh.
Return(p) ==
    /\ ~Locked(p) /\ Heard(p)
    /\ online' = [online EXCEPT ![p] = TRUE]
    /\ pair' = [t \in Targets |-> [pair[t] EXCEPT ![p] = NoState]]
    /\ seen' = [t \in Targets |-> [seen[t] EXCEPT ![p] = 0]]
    /\ UNCHANGED <<target, sent, alarm, op, pool, doubt>>

\* A probe that had lapsed comes back with its pairs: a group it belongs to allows it a
\* longer silence, or its heartbeat had read the clock in time and waited for the row.
Resume(p) ==
    /\ ~online[p] /\ ~Locked(p) /\ Heard(p)
    /\ online' = [online EXCEPT ![p] = TRUE]
    /\ doubt' = [a \in Addresses |->
                    doubt[a] \/ \E t \in Targets : target[t].addr = a /\ pair[t][p].last = "down"]
    /\ UNCHANGED <<target, pair, sent, alarm, op, pool, seen>>

-----------------------------------------------------------------------------
(* The administrator.                                                       *)

\* resetClientEntryMonitorTargetState
Reset(t) ==
    /\ pair' = [pair EXCEPT ![t] = [p \in Probes |-> NoState]]
    /\ op' = [l \in Leaves |-> IF op[l].status = "pending" /\ op[l].t = t
                               THEN [op[l] EXCEPT !.status = "cancelled"] ELSE op[l]]

\* A saved monitor: enabled or not, splitting or not, the target's host or port.
Save(t, on, split, addr) ==
    LET row   == target[t]
        again == on /\ ~row.on
        gen   == IF addr # row.addr \/ again \/ (split /\ ~row.split) THEN row.gen + 1 ELSE row.gen
        fresh == addr # row.addr \/ again \/ split # row.split
    IN  /\ row.live /\ gen <= MaxGen
        /\ split => Leaf[t] # NoLeaf
        /\ <<on, split, addr>> # <<row.on, row.split, row.addr>>
        /\ target' = [target EXCEPT ![t] = [row EXCEPT !.on = on, !.split = split,
                                                       !.addr = addr, !.gen = gen]]
        /\ IF fresh THEN Reset(t) ELSE UNCHANGED <<pair, op>>
        /\ seen' = IF fresh THEN [seen EXCEPT ![t] = [p \in Probes |-> 0]] ELSE seen
        /\ UNCHANGED <<online, sent, clock, alarm, pool, work, doubt>>

\* A target leaves the policy's list: its row goes, and its states with it.
Remove(t) ==
    /\ target[t].live
    /\ target' = [target EXCEPT ![t].live = FALSE]
    /\ pair' = [pair EXCEPT ![t] = [p \in Probes |-> NoState]]
    /\ seen' = [seen EXCEPT ![t] = [p \in Probes |-> 0]]
    /\ UNCHANGED <<online, sent, clock, alarm, op, pool, work, doubt>>

\* The leaf is listed again: another row, another id.
Add(t) ==
    /\ ~target[t].live /\ t \notin Born /\ Leaf[t] # NoLeaf
    /\ target[t].gen = 1
    /\ \A t2 \in Targets : Leaf[t2] = Leaf[t] => ~target[t2].live
    /\ op[Leaf[t]].status # "succeeded"
    /\ target' = [target EXCEPT ![t].live = TRUE]
    /\ UNCHANGED <<online, pair, sent, clock, alarm, op, pool, work, seen, doubt>>

\* A backup IP passes or fails its own checks.
Refill == /\ pool < MaxPool /\ pool' = pool + 1
          /\ UNCHANGED <<online, target, pair, sent, clock, alarm, op, work, seen, doubt>>
Spoil  == /\ pool > 0 /\ pool' = pool - 1
          /\ UNCHANGED <<online, target, pair, sent, clock, alarm, op, work, seen, doubt>>

-----------------------------------------------------------------------------
(* The worker, one transaction per operation; it may wait between locking   *)
(* the probes and locking the target, and judges by what it then reads.     *)

\* It reads the clock and looks at a pending operation, without a lock.
Look(w, l) ==
    /\ work[w] = Idle /\ op[l].status = "pending"
    /\ work' = [work EXCEPT ![w] = [Idle EXCEPT !.leaf = l, !.t = op[l].t, !.gen = op[l].gen]]
    /\ UNCHANGED <<online, target, pair, sent, clock, alarm, op, pool, seen, doubt>>

\* It locks the probes that are online by its clock: one heard since may be too late for
\* it, one that lapsed or returned since may still be taken.
Lock(w) ==
    /\ work[w] # Idle /\ ~work[w].held
    /\ \E locked \in SUBSET Probes :
          /\ \A p \in Probes \ work[w].moved : p \in locked <=> online[p]
          /\ work' = [work EXCEPT ![w] = [work[w] EXCEPT !.held = TRUE, !.locked = locked]]
    /\ UNCHANGED <<online, target, pair, sent, clock, alarm, op, pool, seen, doubt>>

Free(w) == work' = [work EXCEPT ![w] = Idle]

Finish(w, status) == op' = [op EXCEPT ![work[w].leaf].status = status]

Claims(w) == LET o == op[work[w].leaf]
             IN  o.status = "pending" /\ o.t = work[w].t /\ o.gen = work[w].gen

Matches(w) == LET row == target[work[w].t]
              IN  row.live /\ row.on /\ row.split /\ row.gen = work[w].gen

ConfirmedDown(s) == s.last = "down" /\ s.bad >= FailureThreshold

\* Seeded fault: a probe without a confirmed state is passed over.
MayBeDownKnown(w) ==
    /\ work[w].locked # {}
    /\ \A p \in work[w].locked :
          LET s == pair[work[w].t][p]
          IN  s.last # "none" => ConfirmedDown(s) /\ (s.fresh \/ p \in work[w].moved)

\* Every locked probe is confirmed down by a report that is fresh by the worker's clock:
\* one that grew old since still is, one that came since is later than the clock.
MayBeDown(w) ==
    /\ work[w].locked # {}
    /\ \A p \in work[w].locked :
          LET s == pair[work[w].t][p]
          IN  ConfirmedDown(s) /\ (s.fresh \/ p \in work[w].moved)

SurelyDown(w) ==
    MayBeDown(w) /\ \A p \in work[w].locked : pair[work[w].t][p].fresh /\ p \notin work[w].moved

\* The operation is not what the worker looked at: roll back.
Miss(w) ==
    /\ work[w].held /\ ~Claims(w)
    /\ Free(w) /\ UNCHANGED <<online, target, pair, sent, clock, alarm, op, pool, seen, doubt>>

\* The target changed, or the leaf cannot be split: the operation ends.
Cancel(w) ==
    /\ work[w].held /\ Claims(w)
    /\ ~Matches(w) \/ (MayBeDown(w) /\ work[w].leaf \notin Crowded)
    /\ Finish(w, "cancelled") /\ Free(w)
    /\ UNCHANGED <<online, target, pair, sent, clock, alarm, pool, seen, doubt>>

\* Not down for every locked probe, or too few backup IPs: later.
Postpone(w) ==
    /\ work[w].held /\ Claims(w) /\ Matches(w)
    /\ ~SurelyDown(w) \/ (work[w].leaf \in Crowded /\ pool < 2)
    /\ Free(w) /\ UNCHANGED <<online, target, pair, sent, clock, alarm, op, pool, seen, doubt>>

Split(w) ==
    /\ work[w].held /\ Claims(w) /\ Matches(w)
    /\ MayBeDown(w) /\ work[w].leaf \in Crowded /\ pool >= 2
    /\ pool' = pool - 2
    /\ Finish(w, "succeeded") /\ Free(w)
    /\ target' = [target EXCEPT ![work[w].t].live = FALSE]
    /\ pair' = [pair EXCEPT ![work[w].t] = [p \in Probes |-> NoState]]
    /\ seen' = [seen EXCEPT ![work[w].t] = [p \in Probes |-> 0]]
    /\ UNCHANGED <<online, sent, clock, alarm, doubt>>

\* The database fails or the process dies: the transaction is rolled back.
Abort(w) ==
    /\ work[w] # Idle /\ Free(w)
    /\ UNCHANGED <<online, target, pair, sent, clock, alarm, op, pool, seen, doubt>>

-----------------------------------------------------------------------------
Probing == \/ \E p \in Probes, t \in Targets, ok \in BOOLEAN :
                 Report(p, t, ok) \/ Mislay(p, t, ok)
           \/ \E p \in Probes : Wait(p) \/ Drop(p) \/ Resend(p)
           \/ \E p \in Probes : Beat(p) \/ Lapse(p) \/ Return(p) \/ Resume(p)
           \/ \E t \in Targets, p \in Probes : Age(t, p)

Editing == \/ \E t \in Targets : Remove(t) \/ Add(t)
           \/ \E t \in Targets, on, split \in BOOLEAN, a \in Addresses : Save(t, on, split, a)
           \/ Refill \/ Spoil

Working == \E w \in Workers :
               \/ \E l \in Leaves : Look(w, l)
               \/ Lock(w) \/ Miss(w) \/ Cancel(w) \/ Postpone(w) \/ Split(w) \/ Abort(w)

Next == Probing \/ Editing \/ Working

Spec == Init /\ [][Next]_vars

-----------------------------------------------------------------------------
(* Properties.                                                              *)

Watched(t) == target[t].live /\ target[t].on

\* An outage is announced: while some pair of an address is down by a fresh report of
\* a probe that is up, the last alert queued for the address says so.  One alert per
\* address is shared by all its targets and probes, each of which may be the first to
\* fall, the last to rise, or be edited away.  Only two things can put an address in
\* doubt until its next rightly queued alert: a report that judged by a clock it read
\* before it waited for its locks and was wrong by it, and a probe that lapsed and comes
\* back with a pair still down.
\* (client_entry_monitor_probe.go:237-276)
DownAnnounced ==
    \A t \in Targets, p \in Probes :
        Watched(t) /\ online[p] /\ pair[t][p].fresh /\ pair[t][p].last = "down"
            => alarm[target[t].addr] = "down" \/ doubt[target[t].addr]

\* A pair is only declared down by as many different failing results of the target's
\* present endpoint as the threshold asks for, one after the other and none of them
\* too old by the clock of the next; a result sent twice is one result.
\* (client_entry_monitor_probe.go:176-219, client_entry_monitor.go:478)
DownConfirmed ==
    [][\A t \in Targets, p \in Probes :
          pair[t][p].last # "down" /\ pair'[t][p].last = "down" => seen'[t][p] = FailureThreshold]_vars

\* A leaf is only split while every probe the worker locked, and every other probe that is
\* online and was not heard from since the worker read its clock, has had its last
\* results, as many as the threshold asks for, all failing; another worker, a recovery or
\* an edit between the look and the split comes to nothing.  A probe that was heard from
\* between the clock and the lock may be left out, whatever it reported.
\* (client_entry_auto_split.go:174-237, 492-550)
SplitMeansDown ==
    [][\A w \in Workers :
          (\E l \in Leaves : op[l].status # "succeeded" /\ op'[l].status = "succeeded")
              /\ work[w] # Idle /\ work'[w] = Idle
          => /\ work[w].locked # {}
             /\ \A p \in Probes :
                   p \in work[w].locked \/ (online[p] /\ p \notin work[w].moved)
                       => seen[work[w].t][p] = FailureThreshold]_vars
=============================================================================
