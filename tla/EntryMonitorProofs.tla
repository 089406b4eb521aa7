------------------------- MODULE EntryMonitorProofs -------------------------
(***************************************************************************)
(* TLAPS proofs about EntryMonitor: for any targets, probes, workers and   *)
(* thresholds no result counts twice or for another endpoint, a split is   *)
(* of a target that is down for every probe the worker locked or did not   *)
(* hear of, and an outage is what was announced last wherever no old clock *)
(* and no returning probe has put the address in doubt.                    *)
(***************************************************************************)
EXTENDS EntryMonitor, TLAPS

PairRow == [last : {"none", "up", "down"}, ok : Nat, bad : 0..FailureThreshold, fresh : BOOLEAN]
TargetRow == [live : BOOLEAN, on : BOOLEAN, split : BOOLEAN, gen : Nat, addr : Addresses]
SentRow == [t : Targets, gen : Nat, ok : BOOLEAN, taken : BOOLEAN]
Looked == [leaf : Leaves, t : Targets, gen : Nat, held : BOOLEAN,
           locked : SUBSET Probes, moved : SUBSET Probes]
ClockRow == [open : BOOLEAN, moved : SUBSET Probes, aged : SUBSET Targets]
OpRow == [status : {"none", "pending", "cancelled", "succeeded"}, t : Targets \cup {None}, gen : Nat]

EntryShape ==
    /\ online \in [Probes -> BOOLEAN] /\ alarm \in [Addresses -> {"none", "down", "recovered"}]
    /\ target \in [Targets -> TargetRow] /\ pair \in [Targets -> [Probes -> PairRow]]
    /\ sent \in [Probes -> SentRow \cup {None}] /\ op \in [Leaves -> OpRow]
    /\ work \in [Workers -> Looked \cup {Idle}]
    /\ seen \in [Targets -> [Probes -> 0..FailureThreshold]]
    /\ clock \in [Probes -> ClockRow] /\ doubt \in [Addresses -> BOOLEAN]

(* The streak of a pair is the number of different failures.                 *)
Counted == \A t \in Targets, p \in Probes : pair[t][p].bad = seen[t][p]

(* A worker that has locked leaves out only probes that are not online, or   *)
(* that were heard, or grew old, since it read its clock.                    *)
Covered == \A w \in Workers, p \in Probes :
              work[w].held /\ online[p] /\ p \notin work[w].moved => p \in work[w].locked

(* What waits names a target; a target that is not listed has no state.      *)
Named   == \A l \in Leaves : op[l].status = "pending" => op[l].t \in Targets
Cleared == \A t \in Targets, p \in Probes : ~target[t].live => pair[t][p].last # "down"

EntryInv == EntryShape /\ Counted /\ Covered /\ Named /\ Cleared

-----------------------------------------------------------------------------
LEMMA Thresholds ==
    /\ FailureThreshold \in Nat \ {0} /\ SuccessThreshold \in Nat \ {0}
    /\ Leaf \in [Targets -> Leaves \cup {NoLeaf}] /\ Home \in [Targets -> Addresses]
BY EntryAssumption

LEMMA NoStateRow ==
    /\ NoState \in PairRow /\ ~NoState.fresh /\ NoState.bad = 0 /\ NoState.last = "none"
BY Thresholds DEF NoState, PairRow

(* One sample: the streak counts on from a state that is recent, and a pair
   that was not down is down only when the streak is full.                   *)
LEMMA Sample ==
    ASSUME NEW t \in Targets, NEW p \in Probes, NEW ok \in BOOLEAN,
           pair[t][p] \in PairRow, NEW n \in 0..FailureThreshold, pair[t][p].bad = n
    PROVE  LET now  == Sampled(t, p, ok)
               last == Confirmed(now, ok)
               new  == [now EXCEPT !.last = last]
               k    == IF ok THEN 0
                       ELSE UpTo((IF Recent(t, p) THEN n ELSE 0) + 1, FailureThreshold)
           IN  /\ now \in PairRow /\ new \in PairRow /\ new.last = last
               /\ new.bad = k /\ k \in 0..FailureThreshold
               /\ now.last = "down" => pair[t][p].last = "down"
               /\ pair[t][p].last # "down" /\ last = "down" => k = FailureThreshold
<1> DEFINE s    == pair[t][p]
           old  == Recent(t, p)
           from == IF old THEN s ELSE NoState
           now  == Sampled(t, p, ok)
           last == Confirmed(now, ok)
           new  == [now EXCEPT !.last = last]
           k    == IF ok THEN 0 ELSE UpTo((IF old THEN n ELSE 0) + 1, FailureThreshold)
           j    == IF ok THEN UpTo(from.ok + 1, SuccessThreshold) ELSE 0
           b    == IF ok THEN 0 ELSE UpTo(from.bad + 1, FailureThreshold)
<1> HIDE DEF old
<1>1. /\ from \in PairRow /\ from.bad = (IF old THEN n ELSE 0)
      /\ from.last = "down" => s.last = "down"
  BY NoStateRow
<1>2. b = k /\ b \in 0..FailureThreshold /\ j \in Nat
  BY <1>1, Thresholds DEF UpTo, PairRow
<1>3. now = [last |-> from.last, fresh |-> TRUE, ok |-> j, bad |-> b]
  BY DEF Sampled, old
<1> HIDE DEF from, j, b, k
<1>4. /\ now \in PairRow /\ now.last = from.last /\ now.bad = k
  BY <1>1, <1>2, <1>3 DEF PairRow
<1> HIDE DEF now
<1>5. /\ last \in {"none", "up", "down"}
      /\ last = "down" /\ now.last # "down" => k >= FailureThreshold
  <2>1. now.last \in {"none", "up", "down"} /\ now.bad \in Nat /\ now.ok \in Nat
    BY <1>4 DEF PairRow
  <2>2. CASE ok
    <3>1. last = IF now.last = "down" /\ now.ok < SuccessThreshold THEN "down" ELSE "up"
      BY <2>2 DEF Confirmed
    <3> QED  BY <3>1
  <2>3. CASE ~ok
    <3>1. last = IF now.bad < FailureThreshold THEN now.last ELSE "down"
      BY <2>1, <2>3, Thresholds DEF Confirmed
    <3> QED  BY <1>4, <2>1, <3>1, Thresholds
  <2> QED  BY <2>2, <2>3
<1> HIDE DEF last
<1>6. new \in PairRow /\ new.last = last /\ new.bad = k
  BY <1>4, <1>5 DEF PairRow
<1>7. k \in 0..FailureThreshold /\ (k >= FailureThreshold => k = FailureThreshold)
  BY <1>2, Thresholds
<1> QED  BY <1>1, <1>4, <1>5, <1>6, <1>7 DEF now, last, k, old

-----------------------------------------------------------------------------
(* What a step does to the confirmed states and to the operations.           *)
PairsShape == pair \in [Targets -> [Probes -> PairRow]]
           /\ seen \in [Targets -> [Probes -> 0..FailureThreshold]]
OpsShape   == op \in [Leaves -> OpRow]

Downs == \A t \in Targets, p \in Probes :
            pair[t][p].last # "down" /\ pair'[t][p].last = "down" => seen'[t][p] = FailureThreshold
NoneSplit == \A l \in Leaves : op[l].status # "succeeded" => op'[l].status # "succeeded"

LEMMA Facts ==
    ASSUME EntryInv
    PROVE  /\ target \in [Targets -> TargetRow] /\ PairsShape /\ OpsShape
           /\ sent \in [Probes -> SentRow \cup {None}]
           /\ work \in [Workers -> Looked \cup {Idle}]
           /\ online \in [Probes -> BOOLEAN]
           /\ alarm \in [Addresses -> {"none", "down", "recovered"}]
           /\ clock \in [Probes -> ClockRow] /\ doubt \in [Addresses -> BOOLEAN]
           /\ Counted /\ Covered /\ Named /\ Cleared
BY DEF EntryInv, EntryShape, PairsShape, OpsShape

(* A taken result, on the pair it is about and on every other.               *)
LEMMA TakenPair ==
    ASSUME EntryInv, NEW p \in Probes, NEW r \in SentRow, NEW otherDown \in BOOLEAN,
           Allowed(r), Takes(p, r, otherDown), Counts(p, r)
    PROVE  /\ PairsShape' /\ Downs /\ Counted'
           /\ \A t \in Targets, q \in Probes :
                <<t, q>> # <<r.t, p>> => pair'[t][q] = pair[t][q]
<1> DEFINE s    == pair[r.t][p]
           n    == seen[r.t][p]
           now  == Sampled(r.t, p, r.ok)
           last == Confirmed(now, r.ok)
           new  == [now EXCEPT !.last = last]
           k    == IF r.ok THEN 0
                   ELSE UpTo((IF Recent(r.t, p) THEN n ELSE 0) + 1, FailureThreshold)
<1>1. /\ r.t \in Targets /\ r.ok \in BOOLEAN /\ s \in PairRow /\ n \in 0..FailureThreshold
      /\ s.bad = n
      /\ pair \in [Targets -> [Probes -> PairRow]]
      /\ seen \in [Targets -> [Probes -> 0..FailureThreshold]] /\ Counted
  BY Facts DEF SentRow, PairsShape, Counted
<1>2. pair' = [pair EXCEPT ![r.t][p] = new]
  BY DEF Takes
<1>3. seen' = [seen EXCEPT ![r.t][p] = k]
  BY DEF Counts, Allowed
<1>4. /\ new \in PairRow /\ new.last = last /\ new.bad = k /\ k \in 0..FailureThreshold
      /\ s.last # "down" /\ last = "down" => k = FailureThreshold
  <2> DEFINE t == r.t
             ok == r.ok
  <2>1. /\ t \in Targets /\ ok \in BOOLEAN /\ pair[t][p] \in PairRow
        /\ n \in 0..FailureThreshold /\ pair[t][p].bad = n
    BY <1>1
  <2> HIDE DEF t, ok, n
  <2>2. LET a == Sampled(t, p, ok)
            b == Confirmed(a, ok)
            c == [a EXCEPT !.last = b]
            d == IF ok THEN 0 ELSE UpTo((IF Recent(t, p) THEN n ELSE 0) + 1, FailureThreshold)
        IN  /\ c \in PairRow /\ c.last = b /\ c.bad = d /\ d \in 0..FailureThreshold
            /\ pair[t][p].last # "down" /\ b = "down" => d = FailureThreshold
    BY <2>1, Sample
  <2> QED  BY <2>2 DEF t, ok
<1> HIDE DEF new, k, last, now
<1>5. PairsShape'
  BY <1>1, <1>2, <1>3, <1>4 DEF PairsShape
<1>6. /\ pair'[r.t][p] = new /\ seen'[r.t][p] = k
      /\ \A t \in Targets, q \in Probes :
            <<t, q>> # <<r.t, p>> => pair'[t][q] = pair[t][q] /\ seen'[t][q] = seen[t][q]
  BY <1>1, <1>2, <1>3
<1>7. Counted'
  BY <1>1, <1>4, <1>6 DEF Counted
<1>8. Downs
  BY <1>1, <1>4, <1>6 DEF Downs
<1> QED  BY <1>5, <1>6, <1>7, <1>8

LEMMA TakenOps ==
    ASSUME EntryInv, NEW p \in Probes, NEW r \in SentRow, NEW otherDown \in BOOLEAN,
           Takes(p, r, otherDown)
    PROVE  OpsShape' /\ Named' /\ NoneSplit
<1>1. /\ r.t \in Targets /\ op \in [Leaves -> OpRow] /\ Named /\ target[r.t].gen \in Nat
  BY Facts DEF SentRow, OpsShape, TargetRow
<1>2. op' = Recovered(r.t) \/ op' = Enqueued(r.t) \/ op' = op
  <2> DEFINE turn == Transition(Sampled(r.t, p, r.ok), Confirmed(Sampled(r.t, p, r.ok), r.ok))
  <2>1. turn \in {"recovered", "down", "none"}
    BY DEF Transition
  <2>2. op' = CASE turn = "recovered" -> Recovered(r.t)
                [] turn = "down" -> Enqueued(r.t)
                [] turn = "none" -> op
    BY DEF Takes
  <2> HIDE DEF turn
  <2> QED  BY <2>1, <2>2
<1>3. CASE op' = Recovered(r.t)
  <2>1. op' \in [Leaves -> OpRow]
    BY <1>1, <1>3 DEF Recovered, OpRow
  <2> QED  BY <1>1, <1>3, <2>1 DEF Recovered, OpRow, OpsShape, Named, NoneSplit
<1>4. CASE op' = Enqueued(r.t)
  <2>1. op' \in [Leaves -> OpRow]
    BY <1>1, <1>4 DEF Enqueued, OpRow
  <2> QED  BY <1>1, <1>4, <2>1 DEF Enqueued, OpRow, OpsShape, Named, NoneSplit
<1>5. CASE op' = op
  BY <1>1, <1>5 DEF OpsShape, Named, NoneSplit
<1> QED  BY <1>2, <1>3, <1>4, <1>5

(* What a step does to the work in hand, and to the rest.                    *)
WorkShape  == work \in [Workers -> Looked \cup {Idle}]
OtherShape == /\ sent \in [Probes -> SentRow \cup {None}] /\ online \in [Probes -> BOOLEAN]
              /\ alarm \in [Addresses -> {"none", "down", "recovered"}]
              /\ clock \in [Probes -> ClockRow] /\ doubt \in [Addresses -> BOOLEAN]

(* A split is of a target down for every probe the worker locked, and for every
   other that is online and was not heard since the worker read its clock.   *)
SplitOfDown ==
    \A w \in Workers :
        (\E l \in Leaves : op[l].status # "succeeded" /\ op'[l].status = "succeeded")
            /\ work[w] # Idle /\ work'[w] = Idle
        => /\ work[w].locked # {}
           /\ \A p \in Probes :
                 p \in work[w].locked \/ (online[p] /\ p \notin work[w].moved)
                     => seen[work[w].t][p] = FailureThreshold

LEMMA NoneSplitEnough ==
    ASSUME NoneSplit
    PROVE  SplitOfDown
BY DEF NoneSplit, SplitOfDown

LEMMA Rebuild ==
    ASSUME target' \in [Targets -> TargetRow], PairsShape', OpsShape', WorkShape', OtherShape',
           Counted', Covered', Named', Cleared'
    PROVE  EntryInv'
BY DEF EntryInv, EntryShape, PairsShape, OpsShape, WorkShape, OtherShape

LEMMA Parts ==
    ASSUME EntryInv
    PROVE  WorkShape /\ Covered /\ OtherShape
BY DEF EntryInv, EntryShape, WorkShape, OtherShape

LEMMA StillWorking ==
    ASSUME EntryInv, UNCHANGED <<work, online>>
    PROVE  WorkShape' /\ Covered'
BY Parts DEF WorkShape, Covered

(* A probe's times change: whoever has read the clock keeps the probe.       *)
LEMMA WorkedRow ==
    ASSUME EntryInv, NEW w \in Workers, NEW p \in Probes
    PROVE  /\ Worked(w, p) \in Looked \cup {Idle}
           /\ Worked(w, p).held => /\ work[w].held /\ Worked(w, p).locked = work[w].locked
                                   /\ Worked(w, p).moved = work[w].moved \cup {p}
<1>1. work[w] \in Looked \cup {Idle} /\ ~Idle.held
  BY Facts DEF Idle
<1>2. CASE work[w] = Idle
  BY <1>1, <1>2 DEF Worked
<1>3. CASE work[w] # Idle
  <2> DEFINE k == work[w]
  <2>1. k \in Looked /\ Worked(w, p) = [k EXCEPT !.moved = @ \cup {p}]
    BY <1>1, <1>3 DEF Worked
  <2> HIDE DEF k
  <2>2. [k EXCEPT !.moved = @ \cup {p}] \in Looked
    BY <2>1 DEF Looked
  <2>3. /\ [k EXCEPT !.moved = @ \cup {p}].held = k.held
        /\ [k EXCEPT !.moved = @ \cup {p}].locked = k.locked
        /\ [k EXCEPT !.moved = @ \cup {p}].moved = k.moved \cup {p}
    BY <2>1 DEF Looked
  <2> QED  BY <2>1, <2>2, <2>3 DEF k
<1> QED  BY <1>2, <1>3

LEMMA WorkedStep ==
    ASSUME EntryInv, NEW p \in Probes, work' = [w \in Workers |-> Worked(w, p)],
           \A q \in Probes : q # p => online'[q] = online[q]
    PROVE  WorkShape' /\ Covered'
<1>1. WorkShape'
  BY WorkedRow DEF WorkShape
<1>2. ASSUME NEW w \in Workers, NEW q \in Probes,
             work'[w].held, online'[q], q \notin work'[w].moved
      PROVE  q \in work'[w].locked
  <2>1. work'[w] = Worked(w, p)
    OBVIOUS
  <2>2. /\ work[w].held /\ work'[w].locked = work[w].locked
        /\ work'[w].moved = work[w].moved \cup {p}
    BY <1>2, <2>1, WorkedRow
  <2> QED  BY <1>2, <2>2, Parts DEF Covered
<1> QED  BY <1>1, <1>2 DEF Covered

LEMMA PassedRow ==
    ASSUME NEW c \in ClockRow, NEW p \in Probes
    PROVE  Passed(c, p) \in ClockRow
BY DEF Passed, ClockRow

LEMMA HeardStep ==
    ASSUME EntryInv, NEW p \in Probes, Heard(p), \A q \in Probes : q # p => online'[q] = online[q]
    PROVE  clock' \in [Probes -> ClockRow] /\ WorkShape' /\ Covered'
<1>1. Closed \in ClockRow
  BY DEF Closed, ClockRow
<1>2. \A q \in Probes : Passed(clock[q], p) \in ClockRow
  BY Facts, PassedRow
<1>3. clock' = [q \in Probes |-> IF q = p THEN Closed ELSE Passed(clock[q], p)]
  BY DEF Heard
<1>4. clock' \in [Probes -> ClockRow]
  BY <1>1, <1>2, <1>3
<1> QED  BY <1>4, WorkedStep DEF Heard

(* Reports.                                                                  *)
LEMMA TakenOther ==
    ASSUME EntryInv, NEW p \in Probes, NEW r \in SentRow, NEW otherDown \in BOOLEAN,
           Takes(p, r, otherDown)
    PROVE  /\ alarm' \in [Addresses -> {"none", "down", "recovered"}]
           /\ doubt' \in [Addresses -> BOOLEAN]
<1> DEFINE now  == Sampled(r.t, p, r.ok)
           last == Confirmed(now, r.ok)
           turn == Transition(now, last)
           home == target[r.t].addr
           new  == Misled(r.t, p, turn, last, otherDown)
                   \/ (doubt[home] /\ (turn = "none" \/ otherDown))
<1>1. turn \in {"recovered", "down", "none"}
  BY DEF Transition
<1>2. /\ alarm' = IF turn = "none" \/ otherDown THEN alarm ELSE [alarm EXCEPT ![home] = turn]
      /\ Doubted(r.t, p, turn, last, otherDown)
  BY DEF Takes
<1> HIDE DEF turn, last, now
<1>3. doubt' = [doubt EXCEPT ![home] = new]
  BY <1>2 DEF Doubted
<1>4. new \in BOOLEAN
  OBVIOUS
<1> HIDE DEF new
<1> QED  BY <1>1, <1>2, <1>3, <1>4, Facts

LEMMA TakenStep ==
    ASSUME EntryInv, NEW p \in Probes, NEW r \in SentRow, NEW otherDown \in BOOLEAN,
           Allowed(r), Takes(p, r, otherDown), Counts(p, r), Heard(p),
           sent' \in [Probes -> SentRow \cup {None}], UNCHANGED <<online, target, pool>>
    PROVE  EntryInv' /\ Downs /\ SplitOfDown
<1>1. PairsShape' /\ Downs /\ Counted'
  BY TakenPair
<1>2. OpsShape' /\ Named' /\ SplitOfDown
  BY TakenOps, NoneSplitEnough
<1>3. Cleared'
  <2>1. target[r.t].live /\ Cleared
    BY Facts DEF Allowed
  <2>2. \A t \in Targets, q \in Probes : t # r.t => pair'[t][q] = pair[t][q]
    BY TakenPair
  <2> QED  BY <2>1, <2>2 DEF Cleared
<1>4. target' \in [Targets -> TargetRow] /\ online' \in [Probes -> BOOLEAN]
  BY Facts
<1>5. clock' \in [Probes -> ClockRow] /\ WorkShape' /\ Covered'
  BY HeardStep
<1>6. OtherShape'
  BY <1>4, <1>5, TakenOther DEF OtherShape
<1> QED  BY <1>1, <1>2, <1>3, <1>4, <1>5, <1>6, Rebuild

LEMMA MeasuredRow ==
    ASSUME EntryInv, NEW t \in Targets, NEW ok \in BOOLEAN, NEW taken \in BOOLEAN
    PROVE  Measured(t, ok, taken) \in SentRow
BY Facts DEF Measured, SentRow, TargetRow

LEMMA ReportStep ==
    ASSUME EntryInv, NEW p \in Probes, NEW t \in Targets, NEW ok \in BOOLEAN, Report(p, t, ok)
    PROVE  EntryInv' /\ Downs /\ SplitOfDown
<1> DEFINE r == Measured(t, ok, TRUE)
<1>1. r \in SentRow
  BY MeasuredRow
<1>2. /\ Allowed(r) /\ Counts(p, r) /\ Hears(p, r) /\ Heard(p)
      /\ UNCHANGED <<online, target, pool>>
  BY DEF Report
<1>3. PICK otherDown \in BOOLEAN : Takes(p, r, otherDown)
  BY DEF Report, Answers
<1> HIDE DEF r
<1>4. sent' \in [Probes -> SentRow \cup {None}]
  BY <1>1, <1>2, Facts DEF Hears
<1> QED  BY <1>1, <1>2, <1>3, <1>4, TakenStep

LEMMA ResendStep ==
    ASSUME EntryInv, NEW p \in Probes, Resend(p)
    PROVE  EntryInv' /\ Downs /\ SplitOfDown
<1> DEFINE r == sent[p]
<1>1. r \in SentRow /\ sent \in [Probes -> SentRow \cup {None}]
  BY Facts DEF Resend
<1>2. Allowed(r) /\ Counts(p, r) /\ Heard(p) /\ UNCHANGED <<online, target, pool>>
  BY DEF Resend
<1>3. PICK otherDown \in BOOLEAN : Takes(p, r, otherDown)
  BY DEF Resend, Answers
<1>4. sent' \in [Probes -> SentRow \cup {None}]
  <2>1. [r EXCEPT !.taken = TRUE] \in SentRow
    BY <1>1 DEF SentRow
  <2> QED  BY <1>1, <2>1 DEF Resend
<1> QED  BY <1>1, <1>2, <1>3, <1>4, TakenStep

(* A step that leaves the states and operations alone.                       *)
LEMMA QuietStep ==
    ASSUME EntryInv, UNCHANGED <<target, pair, op, seen>>, WorkShape', Covered', OtherShape'
    PROVE  EntryInv' /\ Downs /\ SplitOfDown
<1>1. target' \in [Targets -> TargetRow] /\ PairsShape' /\ OpsShape'
  BY Facts DEF PairsShape, OpsShape
<1>2. Counted' /\ Named' /\ Cleared'
  BY Facts DEF Counted, Named, Cleared
<1>3. Downs /\ NoneSplit
  BY DEF Downs, NoneSplit
<1> QED  BY <1>1, <1>2, <1>3, Rebuild, NoneSplitEnough

(* Heartbeats and clocks.                                                    *)
LEMMA ClockStep ==
    ASSUME EntryInv, NEW p \in Probes, Wait(p) \/ Drop(p)
    PROVE  EntryInv' /\ Downs /\ SplitOfDown
<1> DEFINE c == clock[p]
<1>1. c \in ClockRow /\ clock \in [Probes -> ClockRow]
  BY Facts
<1>2. clock' = [clock EXCEPT ![p] = [c EXCEPT !.open = TRUE]] \/ clock' = [clock EXCEPT ![p] = Closed]
  BY DEF Wait, Drop
<1> HIDE DEF c
<1>3. Closed \in ClockRow /\ [c EXCEPT !.open = TRUE] \in ClockRow
  BY <1>1 DEF Closed, ClockRow
<1>4. clock' \in [Probes -> ClockRow]
  BY <1>1, <1>2, <1>3
<1>5. UNCHANGED <<online, target, pair, sent, alarm, op, work, seen, doubt>>
  BY DEF Wait, Drop
<1>6. OtherShape'
  BY <1>4, <1>5, Parts DEF OtherShape
<1> QED  BY <1>5, <1>6, StillWorking, QuietStep

LEMMA BeatStep ==
    ASSUME EntryInv, NEW p \in Probes, Beat(p) \/ Resume(p)
    PROVE  EntryInv' /\ Downs /\ SplitOfDown
<1>1. online' = online \/ online' = [online EXCEPT ![p] = TRUE]
  BY DEF Beat, Resume
<1>2. Heard(p) /\ UNCHANGED <<target, pair, sent, alarm, op, seen>>
  BY DEF Beat, Resume
<1>3. online' \in [Probes -> BOOLEAN] /\ \A q \in Probes : q # p => online'[q] = online[q]
  BY <1>1, Facts
<1>4. doubt' \in [Addresses -> BOOLEAN]
  <2>1. CASE Beat(p)
    BY <2>1, Facts DEF Beat
  <2>2. CASE Resume(p)
    <3> DEFINE new(a) == doubt[a] \/ \E t \in Targets : target[t].addr = a /\ pair[t][p].last = "down"
    <3>1. \A a \in Addresses : new(a) \in BOOLEAN
      OBVIOUS
    <3>2. doubt' = [a \in Addresses |-> new(a)]
      BY <2>2 DEF Resume
    <3> HIDE DEF new
    <3> QED  BY <3>1, <3>2
  <2> QED  BY <2>1, <2>2
<1>5. clock' \in [Probes -> ClockRow] /\ WorkShape' /\ Covered'
  BY <1>2, <1>3, HeardStep
<1>6. OtherShape'
  BY <1>2, <1>3, <1>4, <1>5, Parts DEF OtherShape
<1> QED  BY <1>2, <1>5, <1>6, QuietStep

LEMMA LapseStep ==
    ASSUME EntryInv, NEW p \in Probes, Lapse(p)
    PROVE  EntryInv' /\ Downs /\ SplitOfDown
<1>1. /\ online' = [online EXCEPT ![p] = FALSE]
      /\ clock' = [q \in Probes |-> Passed(clock[q], p)]
      /\ work' = [w \in Workers |-> Worked(w, p)]
      /\ UNCHANGED <<target, pair, sent, alarm, op, seen, doubt>>
  BY DEF Lapse
<1>2. online' \in [Probes -> BOOLEAN] /\ \A q \in Probes : q # p => online'[q] = online[q]
  BY <1>1, Facts
<1>3. \A q \in Probes : Passed(clock[q], p) \in ClockRow
  BY Facts, PassedRow
<1>4. OtherShape'
  BY <1>1, <1>2, <1>3, Parts DEF OtherShape
<1>5. WorkShape' /\ Covered'
  BY <1>1, <1>2, WorkedStep
<1> QED  BY <1>1, <1>4, <1>5, QuietStep

LEMMA ReturnStep ==
    ASSUME EntryInv, NEW p \in Probes, Return(p)
    PROVE  EntryInv' /\ Downs /\ SplitOfDown
<1>1. /\ Heard(p) /\ online' = [online EXCEPT ![p] = TRUE]
      /\ pair' = [t \in Targets |-> [pair[t] EXCEPT ![p] = NoState]]
      /\ seen' = [t \in Targets |-> [seen[t] EXCEPT ![p] = 0]]
      /\ UNCHANGED <<target, sent, alarm, op, doubt>>
  BY DEF Return
<1>2. /\ pair \in [Targets -> [Probes -> PairRow]] /\ 0 \in 0..FailureThreshold
      /\ seen \in [Targets -> [Probes -> 0..FailureThreshold]]
  BY Facts, Thresholds DEF PairsShape
<1>3. PairsShape'
  BY <1>1, <1>2, NoStateRow DEF PairsShape
<1>4. \A t \in Targets, q \in Probes :
         /\ pair'[t][q] = IF q = p THEN NoState ELSE pair[t][q]
         /\ seen'[t][q] = IF q = p THEN 0 ELSE seen[t][q]
  BY <1>1, <1>2
<1>5. Counted' /\ Cleared' /\ Downs
  BY <1>1, <1>4, Facts, NoStateRow DEF Counted, Cleared, Downs
<1>6. OpsShape' /\ Named' /\ NoneSplit /\ target' \in [Targets -> TargetRow]
  BY <1>1, Facts DEF OpsShape, Named, NoneSplit
<1>7. online' \in [Probes -> BOOLEAN] /\ \A q \in Probes : q # p => online'[q] = online[q]
  BY <1>1, Facts
<1>8. clock' \in [Probes -> ClockRow] /\ WorkShape' /\ Covered'
  BY <1>1, <1>7, HeardStep
<1>9. OtherShape'
  BY <1>1, <1>7, <1>8, Parts DEF OtherShape
<1> QED  BY <1>3, <1>5, <1>6, <1>8, <1>9, Rebuild, NoneSplitEnough

LEMMA AgeStep ==
    ASSUME EntryInv, NEW t \in Targets, NEW p \in Probes, Age(t, p)
    PROVE  EntryInv' /\ Downs /\ SplitOfDown
<1> DEFINE row == pair[t][p]
<1>1. /\ pair' = [pair EXCEPT ![t][p].fresh = FALSE]
      /\ work' = [w \in Workers |-> Worked(w, p)]
      /\ UNCHANGED <<online, target, sent, alarm, op, seen, doubt>>
  BY DEF Age
<1>2. /\ pair \in [Targets -> [Probes -> PairRow]]
      /\ seen \in [Targets -> [Probes -> 0..FailureThreshold]]
  BY Facts DEF PairsShape
<1>a. row \in PairRow
  BY <1>2
<1> HIDE DEF row
<1>3. [row EXCEPT !.fresh = FALSE] \in PairRow
  BY <1>a DEF PairRow
<1> USE DEF row
<1>4. PairsShape'
  BY <1>1, <1>2, <1>3 DEF PairsShape
<1>5. \A u \in Targets, q \in Probes :
         pair'[u][q].last = pair[u][q].last /\ pair'[u][q].bad = pair[u][q].bad
  BY <1>1, <1>2 DEF PairRow
<1> HIDE DEF row
<1>6. Counted' /\ Cleared' /\ Named' /\ Downs /\ NoneSplit
  BY <1>1, <1>5, Facts DEF Counted, Cleared, Named, Downs, NoneSplit
<1>7. target' \in [Targets -> TargetRow] /\ OpsShape'
  BY <1>1, Facts DEF OpsShape
<1>8. clock' \in [Probes -> ClockRow]
  <2> DEFINE c(q) == Passed(clock[q], p)
             d(q) == IF q = p /\ clock[q].open THEN [c(q) EXCEPT !.aged = @ \cup {t}] ELSE c(q)
  <2>1. \A q \in Probes : c(q) \in ClockRow
    BY Facts, PassedRow
  <2> HIDE DEF c
  <2>2. \A q \in Probes : d(q) \in ClockRow
    BY <2>1 DEF ClockRow
  <2>3. clock' = [q \in Probes |-> d(q)]
    BY DEF Age, c
  <2> HIDE DEF d
  <2> QED  BY <2>2, <2>3
<1>9. OtherShape'
  BY <1>1, <1>8, Parts DEF OtherShape
<1>10. WorkShape' /\ Covered'
  BY <1>1, WorkedStep
<1> QED  BY <1>4, <1>6, <1>7, <1>9, <1>10, Rebuild, NoneSplitEnough

LEMMA ProbingStep ==
    ASSUME EntryInv, Probing
    PROVE  EntryInv' /\ Downs /\ SplitOfDown
<1>1. ASSUME NEW p \in Probes, NEW t \in Targets, NEW ok \in BOOLEAN, Mislay(p, t, ok)
      PROVE  EntryInv' /\ Downs /\ SplitOfDown
  <2>1. Measured(t, ok, FALSE) \in SentRow
    BY MeasuredRow
  <2>2. sent' \in [Probes -> SentRow \cup {None}]
    BY <1>1, <2>1, Facts DEF Mislay
  <2>3. UNCHANGED <<online, target, pair, clock, alarm, op, work, seen, doubt>>
    BY <1>1 DEF Mislay
  <2>4. OtherShape'
    BY <2>2, <2>3, Parts DEF OtherShape
  <2> QED  BY <2>3, <2>4, StillWorking, QuietStep
<1> QED  BY <1>1, ReportStep, ResendStep, ClockStep, BeatStep, LapseStep, ReturnStep, AgeStep
         DEF Probing

(* The administrator: a target's states go with its endpoint or its row.     *)
LEMMA ClearedStates ==
    ASSUME EntryInv, NEW t \in Targets,
           pair' = [pair EXCEPT ![t] = [p \in Probes |-> NoState]],
           seen' = [seen EXCEPT ![t] = [p \in Probes |-> 0]]
    PROVE  /\ PairsShape' /\ Counted' /\ Downs
           /\ \A u \in Targets, p \in Probes :
                pair'[u][p] = IF u = t THEN NoState ELSE pair[u][p]
<1>1. /\ pair \in [Targets -> [Probes -> PairRow]] /\ Counted
      /\ seen \in [Targets -> [Probes -> 0..FailureThreshold]]
  BY Facts DEF PairsShape
<1>2. 0 \in 0..FailureThreshold
  BY Thresholds
<1>3. PairsShape'
  BY <1>1, <1>2, NoStateRow DEF PairsShape
<1>4. \A u \in Targets, p \in Probes :
         /\ pair'[u][p] = IF u = t THEN NoState ELSE pair[u][p]
         /\ u # t => seen'[u][p] = seen[u][p]
  BY <1>1
<1> QED  BY <1>1, <1>3, <1>4, NoStateRow DEF Counted, Downs

LEMMA SaveStep ==
    ASSUME EntryInv, NEW t \in Targets, NEW on \in BOOLEAN, NEW split \in BOOLEAN,
           NEW addr \in Addresses, Save(t, on, split, addr)
    PROVE  EntryInv' /\ Downs /\ SplitOfDown
<1> DEFINE row   == target[t]
           again == on /\ ~row.on
           gen   == IF addr # row.addr \/ again \/ (split /\ ~row.split) THEN row.gen + 1 ELSE row.gen
           fresh == addr # row.addr \/ again \/ split # row.split
<1>1. /\ row.live
      /\ target' = [target EXCEPT ![t] = [row EXCEPT !.on = on, !.split = split,
                                                     !.addr = addr, !.gen = gen]]
      /\ IF fresh THEN Reset(t) ELSE UNCHANGED <<pair, op>>
      /\ seen' = IF fresh THEN [seen EXCEPT ![t] = [p \in Probes |-> 0]] ELSE seen
      /\ UNCHANGED <<online, sent, clock, alarm, work, doubt>>
  BY DEF Save
<1>2. target \in [Targets -> TargetRow] /\ Cleared /\ Counted /\ Named /\ PairsShape /\ OpsShape
  BY Facts
<1>3. /\ row \in TargetRow /\ gen \in Nat
  BY <1>2 DEF TargetRow
<1> HIDE DEF gen, fresh
<1>4. /\ target' \in [Targets -> TargetRow]
      /\ \A u \in Targets : target'[u].live = target[u].live
  BY <1>1, <1>2, <1>3 DEF TargetRow
<1>5. WorkShape' /\ Covered' /\ OtherShape'
  <2>1. OtherShape'
    BY <1>1, Parts DEF OtherShape
  <2> QED  BY <1>1, <2>1, StillWorking
<1>6. CASE fresh
  <2>1. /\ pair' = [pair EXCEPT ![t] = [p \in Probes |-> NoState]]
        /\ seen' = [seen EXCEPT ![t] = [p \in Probes |-> 0]]
        /\ op' = [l \in Leaves |-> IF op[l].status = "pending" /\ op[l].t = t
                                   THEN [op[l] EXCEPT !.status = "cancelled"] ELSE op[l]]
    BY <1>1, <1>6 DEF Reset
  <2>2. /\ PairsShape' /\ Counted' /\ Downs
        /\ \A u \in Targets, p \in Probes :
             pair'[u][p] = IF u = t THEN NoState ELSE pair[u][p]
    BY <2>1, ClearedStates
  <2>a. Cleared'
    BY <1>2, <1>4, <2>2, NoStateRow DEF Cleared
  <2>3. op' \in [Leaves -> OpRow]
    BY <1>2, <2>1 DEF OpsShape, OpRow
  <2>4. OpsShape' /\ Named' /\ NoneSplit
    BY <1>2, <2>1, <2>3 DEF OpsShape, OpRow, Named, NoneSplit
  <2> QED  BY <1>4, <1>5, <2>2, <2>a, <2>4, Rebuild, NoneSplitEnough
<1>7. CASE ~fresh
  <2>1. UNCHANGED <<pair, op, seen>>
    BY <1>1, <1>7
  <2>2. PairsShape' /\ OpsShape' /\ Counted' /\ Named' /\ Cleared' /\ Downs /\ NoneSplit
    BY <1>2, <1>4, <2>1 DEF PairsShape, OpsShape, Counted, Named, Cleared, Downs, NoneSplit
  <2> QED  BY <1>4, <1>5, <2>2, Rebuild, NoneSplitEnough
<1> QED  BY <1>6, <1>7

LEMMA RemoveStep ==
    ASSUME EntryInv, NEW t \in Targets, Remove(t)
    PROVE  EntryInv' /\ Downs /\ SplitOfDown
<1>1. /\ target' = [target EXCEPT ![t].live = FALSE]
      /\ pair' = [pair EXCEPT ![t] = [p \in Probes |-> NoState]]
      /\ seen' = [seen EXCEPT ![t] = [p \in Probes |-> 0]]
      /\ UNCHANGED <<online, sent, clock, alarm, op, work, doubt>>
  BY DEF Remove
<1>2. target \in [Targets -> TargetRow] /\ Cleared /\ OpsShape /\ Named
  BY Facts
<1>3. /\ target' \in [Targets -> TargetRow]
      /\ \A u \in Targets : u # t => target'[u] = target[u]
  BY <1>1, <1>2 DEF TargetRow
<1>a. /\ PairsShape' /\ Counted' /\ Downs
      /\ \A u \in Targets, p \in Probes :
           pair'[u][p] = IF u = t THEN NoState ELSE pair[u][p]
  BY <1>1, ClearedStates
<1>4. Cleared'
  BY <1>2, <1>3, <1>a, NoStateRow DEF Cleared
<1>5. OpsShape' /\ Named' /\ NoneSplit
  BY <1>1, <1>2 DEF OpsShape, Named, NoneSplit
<1>6. WorkShape' /\ Covered' /\ OtherShape'
  <2>1. OtherShape'
    BY <1>1, Parts DEF OtherShape
  <2> QED  BY <1>1, <2>1, StillWorking
<1> QED  BY <1>3, <1>4, <1>a, <1>5, <1>6, Rebuild, NoneSplitEnough

LEMMA AddStep ==
    ASSUME EntryInv, NEW t \in Targets, Add(t)
    PROVE  EntryInv' /\ Downs /\ SplitOfDown
<1>1. /\ target' = [target EXCEPT ![t].live = TRUE]
      /\ UNCHANGED <<online, pair, sent, clock, alarm, op, work, seen, doubt>>
  BY DEF Add
<1>2. target \in [Targets -> TargetRow] /\ Cleared /\ Counted /\ Named /\ PairsShape /\ OpsShape
  BY Facts
<1>3. /\ target' \in [Targets -> TargetRow]
      /\ \A u \in Targets : target[u].live => target'[u].live
  BY <1>1, <1>2 DEF TargetRow
<1>4. PairsShape' /\ OpsShape' /\ Counted' /\ Named' /\ Cleared' /\ Downs /\ NoneSplit
  BY <1>1, <1>2, <1>3 DEF PairsShape, OpsShape, Counted, Named, Cleared, Downs, NoneSplit
<1>5. WorkShape' /\ Covered' /\ OtherShape'
  <2>1. OtherShape'
    BY <1>1, Parts DEF OtherShape
  <2> QED  BY <1>1, <2>1, StillWorking
<1> QED  BY <1>3, <1>4, <1>5, Rebuild, NoneSplitEnough

LEMMA EditingStep ==
    ASSUME EntryInv, Editing
    PROVE  EntryInv' /\ Downs /\ SplitOfDown
<1>1. CASE Refill \/ Spoil
  <2>1. UNCHANGED <<online, target, pair, sent, clock, alarm, op, work, seen, doubt>>
    BY <1>1 DEF Refill, Spoil
  <2>2. OtherShape'
    BY <2>1, Parts DEF OtherShape
  <2> QED  BY <2>1, <2>2, StillWorking, QuietStep
<1> QED  BY <1>1, SaveStep, RemoveStep, AddStep DEF Editing

(* The worker.                                                               *)
LEMMA Busy ==
    ASSUME EntryInv, NEW w \in Workers, work[w] # Idle
    PROVE  work[w] \in Looked /\ work[w].leaf \in Leaves /\ work[w].t \in Targets
           /\ work[w].locked \subseteq Probes
BY Facts DEF Looked

LEMMA Holding ==
    ASSUME NEW w \in Workers, work[w].held
    PROVE  work[w] # Idle
BY DEF Idle

LEMMA Freed ==
    ASSUME EntryInv, NEW w \in Workers, Free(w), UNCHANGED online
    PROVE  WorkShape' /\ Covered' /\ \A w2 \in Workers : w2 # w => work'[w2] = work[w2]
<1>1. /\ work' = [work EXCEPT ![w] = Idle] /\ work \in [Workers -> Looked \cup {Idle}]
      /\ ~Idle.held /\ Covered
  BY Facts DEF Free, Idle
<1>2. /\ work'[w] = Idle /\ \A w2 \in Workers : w2 # w => work'[w2] = work[w2]
      /\ work' \in [Workers -> Looked \cup {Idle}]
  BY <1>1
<1> QED  BY <1>1, <1>2 DEF WorkShape, Covered

LEMMA SplitStep ==
    ASSUME EntryInv, NEW w \in Workers, Split(w)
    PROVE  EntryInv' /\ Downs /\ SplitOfDown
<1> DEFINE t == work[w].t
<1>1. work[w].held /\ work[w] # Idle /\ MayBeDown(w) /\ Free(w) /\ Finish(w, "succeeded")
  BY Holding DEF Split
<1>2. /\ target' = [target EXCEPT ![t].live = FALSE]
      /\ pair' = [pair EXCEPT ![t] = [p \in Probes |-> NoState]]
      /\ seen' = [seen EXCEPT ![t] = [p \in Probes |-> 0]]
      /\ UNCHANGED <<online, sent, clock, alarm, doubt>>
  BY DEF Split
<1>3. work[w].leaf \in Leaves /\ t \in Targets /\ work[w].locked \subseteq Probes
  BY <1>1, Busy
<1>4. WorkShape' /\ Covered' /\ \A w2 \in Workers : w2 # w => work'[w2] = work[w2]
  BY <1>1, <1>2, Freed
<1>5. target \in [Targets -> TargetRow] /\ Cleared /\ Counted /\ OpsShape /\ Named /\ PairsShape
  BY Facts
<1>6. SplitOfDown
  <2>1. \A p \in work[w].locked : seen[t][p] = FailureThreshold
    <3> SUFFICES ASSUME NEW p \in work[w].locked  PROVE seen[t][p] = FailureThreshold
      OBVIOUS
    <3>1. ConfirmedDown(pair[t][p]) /\ p \in Probes
      BY <1>1, <1>3 DEF MayBeDown
    <3>2. pair[t][p].bad = seen[t][p] /\ seen[t][p] \in 0..FailureThreshold
      BY <1>3, <1>5, <3>1 DEF Counted, PairsShape
    <3>3. pair[t][p].bad >= FailureThreshold
      BY <3>1 DEF ConfirmedDown
    <3> QED  BY <3>2, <3>3, Thresholds
  <2>2. work[w].locked # {}
    BY <1>1 DEF MayBeDown
  <2>3. \A w2 \in Workers : work[w2] # Idle /\ work'[w2] = Idle => w2 = w
    BY <1>4
  <2>4. \A p \in Probes : online[p] /\ p \notin work[w].moved => p \in work[w].locked
    BY <1>1, Parts DEF Covered
  <2> QED  BY <2>1, <2>2, <2>3, <2>4 DEF SplitOfDown
<1>7. OpsShape' /\ Named'
  <2>1. op' = [op EXCEPT ![work[w].leaf].status = "succeeded"]
    BY <1>1 DEF Finish
  <2>2. op' \in [Leaves -> OpRow]
    BY <1>3, <1>5, <2>1 DEF OpsShape, OpRow
  <2> QED  BY <1>3, <1>5, <2>1, <2>2 DEF OpsShape, OpRow, Named
<1> HIDE DEF t
<1>8. /\ target' \in [Targets -> TargetRow]
      /\ \A u \in Targets : u # t => target'[u] = target[u]
  BY <1>2, <1>3, <1>5 DEF TargetRow
<1>a. /\ PairsShape' /\ Counted' /\ Downs
      /\ \A u \in Targets, p \in Probes :
           pair'[u][p] = IF u = t THEN NoState ELSE pair[u][p]
  BY <1>2, <1>3, ClearedStates
<1>9. Cleared'
  BY <1>5, <1>8, <1>a, NoStateRow DEF Cleared
<1>10. OtherShape'
  BY <1>2, Parts DEF OtherShape
<1> QED  BY <1>4, <1>6, <1>7, <1>8, <1>a, <1>9, <1>10, Rebuild

LEMMA LockStep ==
    ASSUME EntryInv, NEW w \in Workers, Lock(w)
    PROVE  EntryInv' /\ Downs /\ SplitOfDown
<1> DEFINE k == work[w]
<1>1. k # Idle /\ UNCHANGED <<online, target, pair, sent, clock, alarm, op, seen, doubt>>
  BY DEF Lock
<1>2. PICK locked \in SUBSET Probes :
         /\ \A p \in Probes \ k.moved : p \in locked <=> online[p]
         /\ work' = [work EXCEPT ![w] = [k EXCEPT !.held = TRUE, !.locked = locked]]
  BY DEF Lock
<1> DEFINE new == [k EXCEPT !.held = TRUE, !.locked = locked]
<1>3. k \in Looked /\ work \in [Workers -> Looked \cup {Idle}] /\ Covered
  BY <1>1, Facts
<1> HIDE DEF k
<1>4. new \in Looked /\ new.locked = locked /\ new.moved = k.moved
  BY <1>3 DEF Looked
<1> HIDE DEF new
<1>5. /\ work'[w] = new /\ \A w2 \in Workers : w2 # w => work'[w2] = work[w2]
      /\ work' \in [Workers -> Looked \cup {Idle}]
  BY <1>2, <1>3, <1>4 DEF new, k
<1>6. WorkShape' /\ Covered'
  BY <1>1, <1>2, <1>3, <1>4, <1>5 DEF WorkShape, Covered
<1>7. OtherShape'
  BY <1>1, Parts DEF OtherShape
<1> QED  BY <1>1, <1>6, <1>7, QuietStep

LEMMA LookStep ==
    ASSUME EntryInv, NEW w \in Workers, NEW l \in Leaves, Look(w, l)
    PROVE  EntryInv' /\ Downs /\ SplitOfDown
<1> DEFINE look == [Idle EXCEPT !.leaf = l, !.t = op[l].t, !.gen = op[l].gen]
<1>1. /\ op[l].status = "pending" /\ work' = [work EXCEPT ![w] = look]
      /\ UNCHANGED <<online, target, pair, sent, clock, alarm, op, seen, doubt>>
  BY DEF Look
<1>2. op[l].t \in Targets /\ op[l].gen \in Nat
  BY <1>1, Facts DEF Named, OpsShape, OpRow
<1>3. look \in Looked /\ ~look.held
  BY <1>2 DEF Looked, Idle
<1> HIDE DEF look
<1>4. work \in [Workers -> Looked \cup {Idle}] /\ Covered
  BY Facts
<1>5. /\ work'[w] = look /\ \A w2 \in Workers : w2 # w => work'[w2] = work[w2]
      /\ work' \in [Workers -> Looked \cup {Idle}]
  BY <1>1, <1>3, <1>4
<1>6. WorkShape' /\ Covered'
  BY <1>1, <1>3, <1>4, <1>5 DEF WorkShape, Covered
<1>7. OtherShape'
  BY <1>1, Parts DEF OtherShape
<1> QED  BY <1>1, <1>6, <1>7, QuietStep

LEMMA WorkingStep ==
    ASSUME EntryInv, Working
    PROVE  EntryInv' /\ Downs /\ SplitOfDown
<1>1. ASSUME NEW w \in Workers, Miss(w) \/ Postpone(w) \/ Abort(w)
      PROVE  EntryInv' /\ Downs /\ SplitOfDown
  <2>1. Free(w) /\ UNCHANGED <<online, target, pair, sent, clock, alarm, op, seen, doubt>>
    BY <1>1 DEF Miss, Postpone, Abort
  <2>2. OtherShape'
    BY <2>1, Parts DEF OtherShape
  <2> QED  BY <2>1, <2>2, Freed, QuietStep
<1>2. ASSUME NEW w \in Workers, Cancel(w)
      PROVE  EntryInv' /\ Downs /\ SplitOfDown
  <2>1. /\ work[w] # Idle /\ Free(w)
        /\ UNCHANGED <<online, target, pair, sent, clock, alarm, seen, doubt>>
        /\ op' = [op EXCEPT ![work[w].leaf].status = "cancelled"]
    BY <1>2, Holding DEF Cancel, Finish
  <2>2. work[w].leaf \in Leaves
    BY <2>1, Busy
  <2>3. op \in [Leaves -> OpRow] /\ Named
    BY Facts DEF OpsShape
  <2>4. op' \in [Leaves -> OpRow]
    BY <2>1, <2>2, <2>3 DEF OpRow
  <2>5. OpsShape' /\ Named' /\ NoneSplit
    BY <2>1, <2>2, <2>3, <2>4 DEF OpRow, OpsShape, Named, NoneSplit
  <2>6. target' \in [Targets -> TargetRow] /\ PairsShape' /\ Counted' /\ Cleared' /\ Downs
    BY <2>1, Facts DEF PairsShape, Counted, Cleared, Downs
  <2>7. OtherShape'
    BY <2>1, Parts DEF OtherShape
  <2> QED  BY <2>1, <2>5, <2>6, <2>7, Freed, Rebuild, NoneSplitEnough
<1> QED  BY <1>1, <1>2, LookStep, LockStep, SplitStep DEF Working

LEMMA StepKeeps ==
    ASSUME EntryInv, [Next]_vars
    PROVE  EntryInv' /\ Downs /\ SplitOfDown
<1>1. CASE UNCHANGED vars
  <2>1. UNCHANGED <<online, target, pair, sent, clock, alarm, op, work, seen, doubt>>
    BY <1>1 DEF vars
  <2>2. OtherShape'
    BY <2>1, Parts DEF OtherShape
  <2> QED  BY <2>1, <2>2, StillWorking, QuietStep
<1> QED  BY <1>1, ProbingStep, EditingStep, WorkingStep DEF Next

-----------------------------------------------------------------------------
(* The theorems.                                                             *)
LEMMA InitKeeps ==
    ASSUME Init
    PROVE  EntryInv
<1>1. NoOp \in OpRow /\ NoOp.status = "none" /\ 0 \in 0..FailureThreshold
  BY Thresholds DEF NoOp, OpRow
<1>2. Closed \in ClockRow /\ ~Idle.held
  BY DEF Closed, ClockRow, Idle
<1>3. EntryShape
  <2>1. target \in [Targets -> TargetRow]
    BY Thresholds DEF Init, TargetRow
  <2>2. pair \in [Targets -> [Probes -> PairRow]]
    BY NoStateRow DEF Init
  <2>3. op \in [Leaves -> OpRow] /\ seen \in [Targets -> [Probes -> 0..FailureThreshold]]
    BY <1>1 DEF Init
  <2>4. sent \in [Probes -> SentRow \cup {None}] /\ work \in [Workers -> Looked \cup {Idle}]
    BY DEF Init
  <2>5. /\ online \in [Probes -> BOOLEAN] /\ alarm \in [Addresses -> {"none", "down", "recovered"}]
        /\ clock \in [Probes -> ClockRow] /\ doubt \in [Addresses -> BOOLEAN]
    BY <1>2 DEF Init
  <2> QED  BY <2>1, <2>2, <2>3, <2>4, <2>5 DEF EntryShape
<1>4. Counted /\ Covered /\ Named /\ Cleared
  BY <1>1, <1>2, NoStateRow DEF Init, Counted, Covered, Named, Cleared
<1> QED  BY <1>3, <1>4 DEF EntryInv

(* EntryInv: the invariant of the monitor, for any targets, probes and workers:
   a pair's streak is the number of different failing results of the present
   endpoint, an operation names a target, a target that is not listed has no
   confirmed state.  (client_entry_monitor_probe.go:176-219)                 *)
THEOREM EntryInvHolds == Spec => []EntryInv
<1>1. Init => EntryInv
  BY InitKeeps
<1>2. EntryInv /\ [Next]_vars => EntryInv'
  BY StepKeeps
<1> QED  BY <1>1, <1>2, PTL DEF Spec

(* DownConfirmed: a pair is declared down only by as many different failing
   results in a row as the threshold asks for, whatever is resent, edited or
   too old in between.  (client_entry_monitor_probe.go:176-219,
   client_entry_monitor.go:478)                                             *)
THEOREM DownConfirmedHolds == Spec => DownConfirmed
<1> DEFINE Body == \A t \in Targets, p \in Probes :
              pair[t][p].last # "down" /\ pair'[t][p].last = "down" => seen'[t][p] = FailureThreshold
<1>1. EntryInv /\ [Next]_vars => [Body]_vars
  BY StepKeeps DEF Downs
<1>2. DownConfirmed <=> [][Body]_vars
  BY DEF DownConfirmed
<1> HIDE DEF Body
<1> QED  BY <1>1, <1>2, EntryInvHolds, PTL DEF Spec

(* SplitMeansDown: a leaf is split only while every probe the worker locked, and
   every other that is online and was not heard since the worker read its clock,
   has had a full streak of failing results for its target.
   (client_entry_auto_split.go:174-237, 492-550)                             *)
THEOREM SplitMeansDownHolds == Spec => SplitMeansDown
<1>1. EntryInv /\ [Next]_vars => [SplitOfDown]_vars
  BY StepKeeps
<1>2. SplitMeansDown <=> [][SplitOfDown]_vars
  BY DEF SplitMeansDown, SplitOfDown
<1> QED  BY <1>1, <1>2, EntryInvHolds, PTL DEF Spec

-----------------------------------------------------------------------------
(* Alerts.                                                                   *)
(* A taken result keeps, queues or withdraws the alert of its address, or leaves
   the address in doubt.                                                     *)
LEMMA TakenAnnounced ==
    ASSUME EntryInv, DownAnnounced, NEW p \in Probes, NEW r \in SentRow, NEW otherDown \in BOOLEAN,
           Allowed(r), Takes(p, r, otherDown), Counts(p, r), UNCHANGED <<online, target>>
    PROVE  DownAnnounced'
<1> DEFINE s    == pair[r.t][p]
           n    == seen[r.t][p]
           now  == Sampled(r.t, p, r.ok)
           last == Confirmed(now, r.ok)
           new  == [now EXCEPT !.last = last]
           turn == Transition(now, last)
           home == target[r.t].addr
           odd  == Misled(r.t, p, turn, last, otherDown)
           next == odd \/ (doubt[home] /\ (turn = "none" \/ otherDown))
<1>1. /\ r.t \in Targets /\ r.ok \in BOOLEAN /\ s \in PairRow /\ n \in 0..FailureThreshold
      /\ s.bad = n
      /\ alarm \in [Addresses -> {"none", "down", "recovered"}]
      /\ doubt \in [Addresses -> BOOLEAN] /\ pair \in [Targets -> [Probes -> PairRow]]
  BY Facts DEF SentRow, PairsShape, Counted
<1>2. home \in Addresses /\ Watched(r.t)
  BY <1>1, Facts DEF TargetRow, Allowed, Watched
<1>3. /\ pair' = [pair EXCEPT ![r.t][p] = new]
      /\ alarm' = IF turn = "none" \/ otherDown THEN alarm ELSE [alarm EXCEPT ![home] = turn]
      /\ doubt' = [doubt EXCEPT ![home] = next]
  BY DEF Takes, Doubted
<1>4. new.last = last /\ (now.last = "down" => s.last = "down")
  <2> DEFINE t == r.t
             ok == r.ok
  <2>1. /\ t \in Targets /\ ok \in BOOLEAN /\ pair[t][p] \in PairRow
        /\ n \in 0..FailureThreshold /\ pair[t][p].bad = n
    BY <1>1
  <2> HIDE DEF t, ok, n
  <2>2. LET a == Sampled(t, p, ok)
            b == Confirmed(a, ok)
            c == [a EXCEPT !.last = b]
        IN  c.last = b /\ (a.last = "down" => pair[t][p].last = "down")
    BY <2>1, Sample
  <2> QED  BY <2>2 DEF t, ok
<1>5. /\ turn \in {"recovered", "down", "none"}
      /\ turn = "down" <=> now.last # "down" /\ last = "down"
      /\ turn = "recovered" => last # "down"
  BY DEF Transition
<1>6. /\ turn = "none" => (odd <=> last = "down" /\ ~s.fresh)
      /\ turn # "none" => (odd <=> otherDown # OtherDown(r.t, p))
  BY DEF Misled
<1> HIDE DEF new, turn, last, now, odd, s, n
<1>7. /\ doubt'[home] <=> next
      /\ \A a \in Addresses : a # home => doubt'[a] = doubt[a] /\ alarm'[a] = alarm[a]
  BY <1>1, <1>2, <1>3
<1>8. ~odd /\ (turn = "none" \/ otherDown) => alarm' = alarm /\ (doubt'[home] <=> doubt[home])
  BY <1>3, <1>7
<1>9. /\ pair'[r.t][p] = new
      /\ \A t \in Targets, q \in Probes : <<t, q>> # <<r.t, p>> => pair'[t][q] = pair[t][q]
  BY <1>1, <1>3
<1>10. odd => doubt'[home]
  BY <1>7
<1> SUFFICES ASSUME NEW t \in Targets, NEW q \in Probes,
                    Watched(t)', online'[q], pair'[t][q].fresh, pair'[t][q].last = "down"
             PROVE  alarm'[target'[t].addr] = "down" \/ doubt'[target'[t].addr]
  BY DEF DownAnnounced
<1> DEFINE here == target[t].addr
<1>11. Watched(t) /\ online[q] /\ target'[t].addr = here /\ here \in Addresses
  BY Facts DEF Watched, TargetRow
<1> HIDE DEF next
<1>12. CASE odd /\ here = home
  BY <1>10, <1>11, <1>12
<1>13. CASE ~odd /\ <<t, q>> = <<r.t, p>>
  <2>1. here = home /\ last = "down" /\ turn # "recovered"
    BY <1>4, <1>5, <1>9, <1>13
  <2>2. CASE turn = "none"
    <3>1. s.last = "down" /\ s.fresh
      BY <1>4, <1>5, <1>6, <1>13, <2>1, <2>2
    <3>2. alarm[home] = "down" \/ doubt[home]
      BY <1>1, <1>2, <1>11, <1>13, <3>1 DEF DownAnnounced, s
    <3> QED  BY <1>8, <1>11, <1>13, <2>1, <2>2, <3>2
  <2>3. CASE turn = "down" /\ otherDown
    <3>1. OtherDown(r.t, p)
      BY <1>6, <1>13, <2>3
    <3>2. PICK u \in Targets, p2 \in Probes :
             /\ Watched(u) /\ target[u].addr = home
             /\ online[p2] /\ pair[u][p2].fresh /\ pair[u][p2].last = "down"
      BY <3>1 DEF OtherDown, Holds, Watched
    <3>3. alarm[home] = "down" \/ doubt[home]
      BY <3>2 DEF DownAnnounced
    <3> QED  BY <1>8, <1>11, <1>13, <2>1, <2>3, <3>3
  <2>4. CASE turn = "down" /\ ~otherDown
    <3>1. alarm'[home] = "down"
      BY <1>1, <1>2, <1>3, <2>4
    <3> QED  BY <1>11, <2>1, <3>1
  <2> QED  BY <1>5, <2>1, <2>2, <2>3, <2>4
<1>14. CASE <<t, q>> # <<r.t, p>> /\ ~(odd /\ here = home)
  <2>1. pair[t][q].fresh /\ pair[t][q].last = "down"
    BY <1>9, <1>14
  <2>2. alarm[here] = "down" \/ doubt[here]
    BY <1>11, <2>1 DEF DownAnnounced
  <2>3. CASE here # home
    BY <1>7, <1>11, <2>2, <2>3
  <2>4. CASE here = home
    <3>1. OtherDown(r.t, p)
      BY <1>11, <1>14, <2>1, <2>4 DEF OtherDown, Holds, Watched
    <3>2. ~odd /\ (turn = "none" \/ otherDown)
      BY <1>6, <1>14, <2>4, <3>1
    <3> QED  BY <1>8, <1>11, <2>2, <2>4, <3>2
  <2> QED  BY <2>3, <2>4
<1> QED  BY <1>12, <1>13, <1>14

(* Any other step: what is down afterwards was down at the same address.     *)
LEMMA OtherAnnounced ==
    ASSUME DownAnnounced, UNCHANGED <<alarm, doubt>>,
           \A t \in Targets, p \in Probes :
              Watched(t)' /\ online'[p] /\ pair'[t][p].fresh /\ pair'[t][p].last = "down"
                => /\ Watched(t) /\ online[p] /\ pair[t][p].fresh /\ pair[t][p].last = "down"
                   /\ target'[t].addr = target[t].addr
    PROVE  DownAnnounced'
BY DEF DownAnnounced

LEMMA StillAnnounced ==
    ASSUME DownAnnounced, UNCHANGED <<online, target, pair, alarm, doubt>>
    PROVE  DownAnnounced'
BY DEF DownAnnounced, Watched

LEMMA SaveAnnounced ==
    ASSUME EntryInv, DownAnnounced, NEW t \in Targets, NEW on \in BOOLEAN, NEW split \in BOOLEAN,
           NEW addr \in Addresses, Save(t, on, split, addr)
    PROVE  DownAnnounced'
<1> DEFINE row   == target[t]
           again == on /\ ~row.on
           gen   == IF addr # row.addr \/ again \/ (split /\ ~row.split) THEN row.gen + 1 ELSE row.gen
           fresh == addr # row.addr \/ again \/ split # row.split
           new   == [row EXCEPT !.on = on, !.split = split, !.addr = addr, !.gen = gen]
<1>1. /\ row.live /\ target' = [target EXCEPT ![t] = new]
      /\ IF fresh THEN Reset(t) ELSE pair' = pair
      /\ UNCHANGED <<online, alarm, doubt>>
  BY DEF Save
<1>2. target \in [Targets -> TargetRow] /\ row \in TargetRow /\ PairsShape
  BY Facts
<1> HIDE DEF gen, row
<1>3. new.live = row.live /\ new.on = on /\ new.addr = addr
  BY <1>2 DEF TargetRow
<1> HIDE DEF new
<1>4. /\ target'[t] = new /\ row = target[t]
      /\ \A u \in Targets : u # t => target'[u] = target[u]
  BY <1>1, <1>2 DEF row
<1>5. CASE fresh
  <2>1. \A u \in Targets, p \in Probes : pair'[u][p] = IF u = t THEN NoState ELSE pair[u][p]
    BY <1>1, <1>2, <1>5 DEF Reset, PairsShape
  <2> HIDE DEF fresh
  <2> QED  BY <1>1, <1>4, <2>1, NoStateRow, OtherAnnounced DEF Watched
<1>6. CASE ~fresh
  <2>1. addr = row.addr /\ (on => row.on) /\ pair' = pair
    BY <1>1, <1>6
  <2> HIDE DEF fresh
  <2> QED  BY <1>1, <1>3, <1>4, <2>1, OtherAnnounced DEF Watched
<1> QED  BY <1>5, <1>6

LEMMA GoneAnnounced ==
    ASSUME EntryInv, DownAnnounced, NEW t \in Targets,
           target' = [target EXCEPT ![t].live = FALSE],
           pair' = [pair EXCEPT ![t] = [p \in Probes |-> NoState]], UNCHANGED <<online, alarm, doubt>>
    PROVE  DownAnnounced'
<1>1. target \in [Targets -> TargetRow] /\ PairsShape
  BY Facts
<1>2. /\ \A u \in Targets : u # t => target'[u] = target[u]
      /\ \A u \in Targets, p \in Probes : pair'[u][p] = IF u = t THEN NoState ELSE pair[u][p]
  BY <1>1 DEF PairsShape
<1> QED  BY <1>2, NoStateRow, OtherAnnounced DEF Watched

LEMMA AddAnnounced ==
    ASSUME EntryInv, DownAnnounced, NEW t \in Targets, Add(t)
    PROVE  DownAnnounced'
<1>1. /\ ~target[t].live /\ target' = [target EXCEPT ![t].live = TRUE]
      /\ UNCHANGED <<online, pair, alarm, doubt>>
  BY DEF Add
<1>2. target \in [Targets -> TargetRow] /\ Cleared
  BY Facts
<1>3. \A u \in Targets : u # t => target'[u] = target[u]
  BY <1>1, <1>2
<1>4. \A p \in Probes : pair'[t][p].last # "down"
  BY <1>1, <1>2 DEF Cleared
<1> QED  BY <1>1, <1>3, <1>4, OtherAnnounced DEF Watched

LEMMA AgeAnnounced ==
    ASSUME EntryInv, DownAnnounced, NEW t \in Targets, NEW p \in Probes, Age(t, p)
    PROVE  DownAnnounced'
<1>1. /\ pair' = [pair EXCEPT ![t][p].fresh = FALSE] /\ UNCHANGED <<online, target, alarm, doubt>>
  BY DEF Age
<1>2. pair \in [Targets -> [Probes -> PairRow]]
  BY Facts DEF PairsShape
<1>3. \A u \in Targets, q \in Probes :
         /\ pair'[u][q].last = pair[u][q].last
         /\ pair'[u][q].fresh => pair[u][q].fresh
  BY <1>1, <1>2 DEF PairRow
<1> QED  BY <1>1, <1>3, OtherAnnounced DEF Watched

LEMMA LapseAnnounced ==
    ASSUME EntryInv, DownAnnounced, NEW p \in Probes, Lapse(p)
    PROVE  DownAnnounced'
<1>1. online' = [online EXCEPT ![p] = FALSE] /\ UNCHANGED <<target, pair, alarm, doubt>>
  BY DEF Lapse
<1>2. \A q \in Probes : online'[q] => online[q]
  BY <1>1, Facts
<1> QED  BY <1>1, <1>2, OtherAnnounced DEF Watched

(* A probe that starts afresh has no pairs; one that comes back with them puts
   their addresses in doubt.                                                 *)
LEMMA ReturnAnnounced ==
    ASSUME EntryInv, DownAnnounced, NEW p \in Probes, Return(p)
    PROVE  DownAnnounced'
<1>1. /\ online' = [online EXCEPT ![p] = TRUE]
      /\ pair' = [t \in Targets |-> [pair[t] EXCEPT ![p] = NoState]]
      /\ UNCHANGED <<target, alarm, doubt>>
  BY DEF Return
<1>2. pair \in [Targets -> [Probes -> PairRow]]
  BY Facts DEF PairsShape
<1>3. \A t \in Targets, q \in Probes : pair'[t][q] = IF q = p THEN NoState ELSE pair[t][q]
  BY <1>1, <1>2
<1>4. \A q \in Probes : q # p => online'[q] = online[q]
  BY <1>1, Facts
<1> QED  BY <1>1, <1>3, <1>4, NoStateRow, OtherAnnounced DEF Watched

LEMMA ResumeAnnounced ==
    ASSUME EntryInv, DownAnnounced, NEW p \in Probes, Resume(p)
    PROVE  DownAnnounced'
<1> DEFINE back(a) == \E t \in Targets : target[t].addr = a /\ pair[t][p].last = "down"
<1>1. /\ online' = [online EXCEPT ![p] = TRUE] /\ UNCHANGED <<target, pair, alarm>>
      /\ doubt' = [a \in Addresses |-> doubt[a] \/ back(a)]
  BY DEF Resume
<1>2. \A q \in Probes : q # p => online'[q] = online[q]
  BY <1>1, Facts
<1> SUFFICES ASSUME NEW t \in Targets, NEW q \in Probes,
                    Watched(t)', online'[q], pair'[t][q].fresh, pair'[t][q].last = "down"
             PROVE  alarm'[target'[t].addr] = "down" \/ doubt'[target'[t].addr]
  BY DEF DownAnnounced
<1> DEFINE here == target[t].addr
<1>3. here \in Addresses /\ target'[t].addr = here /\ Watched(t) /\ pair[t][q].last = "down"
  BY <1>1, Facts DEF TargetRow, Watched
<1>4. CASE q = p
  <2>1. back(here)
    BY <1>3, <1>4
  <2> HIDE DEF back
  <2> QED  BY <1>1, <1>3, <2>1
<1>5. CASE q # p
  <2>1. online[q] /\ pair[t][q].fresh
    BY <1>1, <1>2, <1>5
  <2>2. alarm[here] = "down" \/ doubt[here]
    BY <1>3, <2>1 DEF DownAnnounced
  <2> HIDE DEF back, here
  <2> QED  BY <1>1, <1>3, <2>2
<1> QED  BY <1>4, <1>5

LEMMA StepAnnounced ==
    ASSUME EntryInv, DownAnnounced, [Next]_vars
    PROVE  DownAnnounced'
<1>1. ASSUME NEW p \in Probes, NEW t \in Targets, NEW ok \in BOOLEAN, Report(p, t, ok)
      PROVE  DownAnnounced'
  <2> DEFINE r == Measured(t, ok, TRUE)
  <2>1. r \in SentRow
    BY MeasuredRow
  <2>2. Allowed(r) /\ Counts(p, r) /\ UNCHANGED <<online, target>>
    BY <1>1 DEF Report
  <2>3. PICK otherDown \in BOOLEAN : Takes(p, r, otherDown)
    BY <1>1 DEF Report, Answers
  <2> HIDE DEF r
  <2> QED  BY <2>1, <2>2, <2>3, TakenAnnounced
<1>2. ASSUME NEW p \in Probes, Resend(p)
      PROVE  DownAnnounced'
  <2>1. sent[p] \in SentRow
    BY <1>2, Facts DEF Resend
  <2>2. Allowed(sent[p]) /\ Counts(p, sent[p]) /\ UNCHANGED <<online, target>>
    BY <1>2 DEF Resend
  <2>3. PICK otherDown \in BOOLEAN : Takes(p, sent[p], otherDown)
    BY <1>2 DEF Resend, Answers
  <2> QED  BY <2>1, <2>2, <2>3, TakenAnnounced
<1>3. ASSUME NEW p \in Probes, NEW t \in Targets, NEW ok \in BOOLEAN, Mislay(p, t, ok)
      PROVE  DownAnnounced'
  BY <1>3, StillAnnounced DEF Mislay
<1>4. ASSUME NEW p \in Probes, Wait(p) \/ Drop(p) \/ Beat(p)
      PROVE  DownAnnounced'
  BY <1>4, StillAnnounced DEF Wait, Drop, Beat
<1>5. ASSUME NEW t \in Targets, Remove(t)
      PROVE  DownAnnounced'
  BY <1>5, GoneAnnounced DEF Remove
<1>6. ASSUME NEW w \in Workers, Split(w)
      PROVE  DownAnnounced'
  <2>1. work[w].t \in Targets
    BY <1>6, Busy, Holding DEF Split
  <2> QED  BY <1>6, <2>1, GoneAnnounced DEF Split
<1>7. CASE UNCHANGED vars \/ Refill \/ Spoil
  BY <1>7, StillAnnounced DEF vars, Refill, Spoil
<1>8. ASSUME NEW w \in Workers, NEW l \in Leaves, Look(w, l)
      PROVE  DownAnnounced'
  BY <1>8, StillAnnounced DEF Look
<1>9. ASSUME NEW w \in Workers, Lock(w) \/ Miss(w) \/ Cancel(w) \/ Postpone(w) \/ Abort(w)
      PROVE  DownAnnounced'
  BY <1>9, StillAnnounced DEF Lock, Miss, Cancel, Postpone, Abort
<1>10. CASE Probing
  BY <1>1, <1>2, <1>3, <1>4, <1>10, LapseAnnounced, ReturnAnnounced, ResumeAnnounced, AgeAnnounced
     DEF Probing
<1>11. CASE Editing
  BY <1>5, <1>7, <1>11, SaveAnnounced, AddAnnounced DEF Editing
<1>12. CASE Working
  BY <1>6, <1>8, <1>9, <1>12 DEF Working
<1> QED  BY <1>7, <1>10, <1>11, <1>12 DEF Next

(* DownAnnounced: what the last alert of an address says is never "recovered",
   nor nothing, as long as a pair of the address is down by a fresh report of a
   probe that is up: whichever of its targets and probes fell first, rose last
   or was edited away, unless a report misjudged by its old clock, or a probe
   came back with a pair still down, since the last alert queued rightly.
   (client_entry_monitor_probe.go:237-276)                                   *)
THEOREM DownAnnouncedHolds == Spec => []DownAnnounced
<1>1. Init => DownAnnounced
  <2>1. Init => \A t \in Targets, p \in Probes : pair[t][p].last # "down"
    BY NoStateRow DEF Init
  <2> QED  BY <2>1 DEF DownAnnounced
<1>2. EntryInv /\ DownAnnounced /\ [Next]_vars => DownAnnounced'
  BY StepAnnounced
<1> QED  BY <1>1, <1>2, EntryInvHolds, PTL DEF Spec
=============================================================================
