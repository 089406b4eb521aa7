---------------------------- MODULE DnsFailover ----------------------------
(***************************************************************************)
(* Switching one DNS record between targets (admin/dns_failover_saga.go,   *)
(* dns_failover_worker.go, dns_failover.go).  The provider and the         *)
(* database cannot be changed together, so a switch first writes a saga    *)
(* row with both mutations, then calls the provider, then finalises; a     *)
(* call or a commit with an unknown outcome is answered by writing the     *)
(* old target back.  Workers of several processes and manual requests      *)
(* exclude each other by an advisory lock that ends with the connection.   *)
(*                                                                         *)
(* Retry times and leases are left out: a row may be due at any moment.    *)
(***************************************************************************)
EXTENDS Integers

CONSTANTS
    Targets,
    Workers,     \* ticker workers, queue jobs and manual requests
    Nobody, NoTarget

ASSUME FailoverAssumption ==
    Nobody \notin Workers /\ NoTarget \notin Targets

VARIABLES
    current,    \* v2_dns_failover_group.current_target_id
    usable,     \* enabled targets of the rule
    enabled,    \* the rule is enabled
    outbox,     \* row of v2_dns_failover_eval_outbox
    saga,       \* row of v2_dns_failover_saga
    incident,   \* active_dns_incident_type
    record,     \* the target the provider's record points to
    late,       \* calls the provider may still carry out
    overtaken,  \* such a call was the last to change the record
    holder,     \* holder of the advisory lock
    pc,         \* where each worker is
    held        \* the saga a worker has in memory

rule == <<current, usable, enabled>>
work == <<outbox, saga, incident>>
provider == <<record, late, overtaken>>
worker == <<holder, pc, held>>
vars == <<rule, work, provider, worker>>

NoRow == [op |-> "none", asked |-> NoTarget]
Row(op, asked) == [op |-> op, asked |-> asked]
NoSaga == [op |-> "none", asked |-> NoTarget, desired |-> NoTarget, rollback |-> NoTarget]
Prepared == saga # NoSaga

Maybe == Targets \cup {NoTarget}
SagaType == [op : {"none", "manual", "evaluate"}, asked : Maybe, desired : Maybe, rollback : Maybe]
Places == {"idle", "claimed", "desired", "finalize", "check", "recover", "restored", "failed"}

TypeOK ==
    /\ current \in Targets /\ usable \subseteq Targets /\ enabled \in BOOLEAN
    /\ outbox \in [op : {"none", "evaluate", "manual", "reconcile"}, asked : Maybe]
    /\ saga \in SagaType /\ (Prepared => saga.desired \in Targets /\ saga.rollback \in Targets)
    /\ incident \in {"", "dnspod_error", "dns_state_diverged"}
    /\ record \in Targets /\ late \subseteq Targets /\ overtaken \in BOOLEAN
    /\ holder \in Workers \cup {Nobody} /\ pc \in [Workers -> Places]
    /\ held \in [Workers -> SagaType]

\* A row of an earlier version may ask for a reconciliation because the
\* record is unknown.
Init ==
    /\ current \in Targets /\ usable \in {S \in SUBSET Targets : current \in S}
    /\ enabled \in BOOLEAN
    /\ \/ outbox = NoRow /\ record = current
       \/ outbox = Row("reconcile", NoTarget) /\ record \in Targets
    /\ saga = NoSaga /\ incident = "" /\ late = {} /\ overtaken = FALSE
    /\ holder = Nobody /\ pc = [w \in Workers |-> "idle"]
    /\ held = [w \in Workers |-> NoSaga]

Goto(w, place) == pc' = [pc EXCEPT ![w] = place] /\ UNCHANGED <<holder, held>>

\* Seeded fault: the advisory lock stays with the pooled connection.
ReturnLocked(w) ==
    /\ pc' = [pc EXCEPT ![w] = "idle"] /\ held' = [held EXCEPT ![w] = NoSaga]
    /\ UNCHANGED holder

\* releaseDNSFailoverSessionLock.
Return(w) ==
    /\ pc' = [pc EXCEPT ![w] = "idle"] /\ held' = [held EXCEPT ![w] = NoSaga]
    /\ holder' = Nobody

-----------------------------------------------------------------------------
(* The rule *)

\* rejectUnfinishedDNSFailoverOperation.
Unfinished == Prepared \/ outbox.op \in {"manual", "reconcile"}

\* updateDNSFailoverRule keeps the current target; a target whose DNS value
\* changes is replaced by a new one.
UpdateRule(S) ==
    /\ ~Unfinished /\ current \in S /\ S # usable
    /\ usable' = S
    /\ UNCHANGED <<current, enabled, work, provider, worker>>

SetRuleEnabled ==
    /\ enabled' = ~enabled
    /\ UNCHANGED <<current, usable, work, provider, worker>>

\* A probe report, or the seeding of due rules; an existing row is refreshed.
RequestEvaluation ==
    /\ outbox = NoRow
    /\ outbox' = Row("evaluate", NoTarget)
    /\ UNCHANGED <<rule, saga, incident, provider, worker>>

-----------------------------------------------------------------------------
(* Claims *)

\* pg_try_advisory_lock; a worker that finds it taken comes back later.
Free(w) == pc[w] = "idle" /\ holder = Nobody

\* ManualSwitchDNSFailoverTarget, up to the stored request.  The target is
\* not checked yet.
ManualSwitch(w, t) ==
    /\ Free(w) /\ ~Prepared /\ outbox.op # "reconcile"
    /\ outbox' = Row("manual", t)
    /\ holder' = w /\ pc' = [pc EXCEPT ![w] = "claimed"]
    /\ UNCHANGED <<rule, saga, incident, provider, held>>

\* processNextDNSFailoverEvaluation.
ClaimEvaluation(w) ==
    /\ Free(w)
    /\ outbox.op # "none" /\ ~Prepared
    /\ holder' = w /\ pc' = [pc EXCEPT ![w] = "claimed"]
    /\ UNCHANGED <<rule, work, provider, held>>

\* processNextDNSFailoverSaga.
ClaimSaga(w) ==
    /\ Free(w) /\ Prepared
    /\ holder' = w /\ pc' = [pc EXCEPT ![w] = "recover"]
    /\ held' = [held EXCEPT ![w] = saga]
    /\ UNCHANGED <<rule, work, provider>>

-----------------------------------------------------------------------------
(* processClaimedDNSFailoverEvaluation *)

\* The row needs no switch: the target is the current one, the rule is
\* disabled, or the decision is to stay.
Answer(w) ==
    /\ pc[w] = "claimed"
    /\ outbox.op = "evaluate" \/ (outbox.op = "manual" /\ outbox.asked = current)
    /\ outbox' = NoRow /\ Return(w)
    /\ UNCHANGED <<rule, saga, incident, provider>>

\* The requested target is missing or disabled: the row is kept for a retry.
\* So is every row whose transaction fails.
Postpone(w) ==
    /\ pc[w] = "claimed" /\ Return(w)
    /\ UNCHANGED <<rule, work, provider>>

\* Targets the row may lead to; the decision only names enabled ones.
Wanted ==
    CASE outbox.op = "manual" -> {outbox.asked} \cap (usable \ {current})
      [] outbox.op = "reconcile" -> {current}
      [] outbox.op = "evaluate" -> IF enabled THEN usable \ {current} ELSE {}

SagaFor(t) ==
    [op |-> IF outbox.op = "manual" THEN "manual" ELSE "evaluate",
     asked |-> outbox.asked, desired |-> t, rollback |-> current]

\* The saga row is committed before the provider is called; a commit of
\* unknown outcome ends the worker.
Prepare(w, t) ==
    /\ pc[w] = "claimed" /\ ~Prepared /\ t \in Wanted
    /\ saga' = SagaFor(t)
    /\ \/ /\ pc' = [pc EXCEPT ![w] = IF outbox.op = "reconcile" THEN "recover" ELSE "desired"]
          /\ held' = [held EXCEPT ![w] = SagaFor(t)]
          /\ UNCHANGED holder
       \/ Return(w)
    /\ UNCHANGED <<rule, outbox, incident, provider>>

-----------------------------------------------------------------------------
(* Provider calls: what a failed call did is unknown. *)

CallSucceeds(w, t, next) ==
    /\ record' = t /\ overtaken' = FALSE /\ UNCHANGED late
    /\ Goto(w, next)

CallFails(w, t, next) ==
    /\ \/ record' \in {record, t} /\ UNCHANGED late
       \/ late' = late \cup {t} /\ UNCHANGED record
    /\ UNCHANGED overtaken
    /\ Goto(w, next)

DesiredSucceeds(w) == pc[w] = "desired" /\ CallSucceeds(w, held[w].desired, "finalize")
RollbackSucceeds(w) == pc[w] = "recover" /\ CallSucceeds(w, held[w].rollback, "restored")

CallProvider(w) ==
    /\ \/ DesiredSucceeds(w)
       \/ pc[w] = "desired" /\ CallFails(w, held[w].desired, "recover")
       \/ RollbackSucceeds(w)
       \/ pc[w] = "recover" /\ CallFails(w, held[w].rollback, "failed")
    /\ UNCHANGED <<rule, work>>

LateEffect(t) ==
    /\ t \in late /\ late' = late \ {t} /\ record' = t /\ overtaken' = TRUE
    /\ UNCHANGED <<rule, work, worker>>

-----------------------------------------------------------------------------
(* executePreparedDNSFailoverSaga after the call *)

\* The version of the outbox row that was read is deleted; a report that
\* refreshed it meanwhile keeps it.
Finalized(w) ==
    /\ incident # "dns_state_diverged" /\ incident' = ""
    /\ current' = held[w].desired
    /\ outbox' \in (IF outbox.op = "evaluate" THEN {NoRow, outbox} ELSE {NoRow})
    /\ saga' = NoSaga
    /\ UNCHANGED <<usable, enabled, provider>>

FinalizeCommits(w) == pc[w] = "finalize" /\ Finalized(w) /\ Return(w)

\* An error of the transaction, or of a commit that may have worked.
FinalizeUnknown(w) ==
    /\ pc[w] = "finalize" /\ Goto(w, "check")
    /\ \/ Finalized(w)
       \/ UNCHANGED <<rule, work, provider>>

\* Seeded fault: a failed commit is compensated without looking.
CheckBlindly(w) ==
    /\ pc[w] = "check" /\ Goto(w, "recover")
    /\ UNCHANGED <<rule, work, provider>>

\* Compensate only when the prepared row is still there; the query may fail.
Check(w) ==
    /\ pc[w] = "check"
    /\ \/ Prepared /\ Goto(w, "recover")
       \/ Return(w)
    /\ UNCHANGED <<rule, work, provider>>

-----------------------------------------------------------------------------
(* recoverPreparedDNSFailoverSaga after the call *)

\* Seeded fault: a manual request is retried as an evaluation.
RetryAsEvaluation(s) == IF outbox.op = "none" THEN Row("evaluate", NoTarget) ELSE [outbox EXCEPT !.op = "evaluate"]

RetryOf(s) ==
    IF s.op = "manual" THEN Row("manual", s.asked)
    ELSE IF outbox.op = "manual" THEN outbox
    ELSE Row("evaluate", NoTarget)

\* completeDNSFailoverDNSIncidentAfterRollback.
AfterRollback == IF incident = "dns_state_diverged" THEN "" ELSE "dnspod_error"

\* finalizeDNSFailoverSagaRecovery.
RecoveryCommits(w) ==
    /\ pc[w] = "restored"
    /\ outbox' = RetryOf(held[w]) /\ incident' = AfterRollback /\ saga' = NoSaga
    /\ Return(w)
    /\ UNCHANGED <<rule, provider>>

\* Seeded fault: a failed rollback ends the saga.
PersistFailureAndForget(w) ==
    /\ pc[w] = "failed"
    /\ incident' = "dns_state_diverged" /\ saga' = NoSaga
    /\ Return(w)
    /\ UNCHANGED <<rule, outbox, provider>>

\* persistDNSFailoverSagaRollbackFailure.
PersistFailure(w) ==
    /\ pc[w] = "failed"
    /\ incident' = IF Prepared THEN "dns_state_diverged" ELSE incident
    /\ Return(w)
    /\ UNCHANGED <<rule, outbox, saga, provider>>

\* The transaction of either fails: the saga stays for the next worker.
RecoveryFails(w) ==
    /\ pc[w] \in {"restored", "failed"} /\ Return(w)
    /\ UNCHANGED <<rule, work, provider>>

\* The process dies, or its database connection does: the lock is free, and
\* a call on its way may still arrive.
Crash(w) ==
    /\ pc[w] # "idle" /\ Return(w)
    /\ late' \in {late} \cup
         {late \cup {t} : t \in IF pc[w] = "desired" THEN {held[w].desired}
                                ELSE IF pc[w] = "recover" THEN {held[w].rollback} ELSE {}}
    /\ UNCHANGED <<rule, work, record, overtaken>>

-----------------------------------------------------------------------------
Step(w) ==
    \/ ClaimEvaluation(w) \/ ClaimSaga(w) \/ Answer(w) \/ Postpone(w)
    \/ \E t \in Targets : Prepare(w, t)
    \/ CallProvider(w)
    \/ FinalizeCommits(w) \/ FinalizeUnknown(w) \/ Check(w)
    \/ RecoveryCommits(w) \/ PersistFailure(w) \/ RecoveryFails(w)

Next ==
    \/ \E w \in Workers :
         Step(w) \/ Crash(w) \/ \E t \in Targets : ManualSwitch(w, t)
    \/ \E S \in SUBSET Targets : UpdateRule(S)
    \/ SetRuleEnabled \/ RequestEvaluation
    \/ \E t \in Targets : LateEffect(t)

\* The ticker starts a cycle again and again, retry times are bounded, and
\* neither the provider nor the database fails for ever.
Fairness ==
    \A w \in Workers :
        /\ WF_vars(Step(w))
        /\ SF_vars(Answer(w))
        /\ SF_vars(\E t \in Targets : Prepare(w, t) /\ pc'[w] # "idle")
        /\ SF_vars(DesiredSucceeds(w) /\ UNCHANGED <<rule, work>>)
        /\ SF_vars(FinalizeCommits(w))
        /\ SF_vars(RollbackSucceeds(w) /\ UNCHANGED <<rule, work>>)
        /\ SF_vars(RecoveryCommits(w))

Spec == Init /\ [][Next]_vars
FairSpec == Spec /\ Fairness

-----------------------------------------------------------------------------
(* Properties *)

\* Unless a saga or a reconciliation is pending, the record points to the
\* target the panel believes in: no failed call, lost commit or crash leaves
\* the two apart without a durable note to repair it.  Only a call the
\* provider carries out after its caller gave up can, until the next switch.
RecordMatches == Prepared \/ outbox.op = "reconcile" \/ record = current \/ overtaken

\* The current target, and both ends of a prepared switch, stay enabled
\* targets of the rule although the rule is edited concurrently.
TargetsUsable ==
    /\ current \in usable
    /\ Prepared => saga.desired \in usable /\ saga.rollback = current

\* While the panel reports that DNS and database diverge, something is
\* scheduled to repair it.
DivergenceOwned == incident = "dns_state_diverged" => Prepared

\* Only the holder of the advisory lock is inside an operation, and what it
\* has in memory is the prepared saga.
OneOperation ==
    \A w \in Workers : pc[w] # "idle" =>
        /\ holder = w
        /\ pc[w] \in {"desired", "finalize", "recover", "restored", "failed"} => held[w] = saga

\* The target a manual request waits for, in the outbox or in the saga.
Asked == IF saga.op = "manual" THEN saga.asked
         ELSE IF outbox.op = "manual" THEN outbox.asked ELSE NoTarget

\* A manual request is only forgotten when its target has become the current
\* one or another request replaces it.
ManualKept == [][Asked # NoTarget => Asked' # NoTarget \/ current' = Asked]_vars

\* A prepared switch is eventually finished or undone.
SagaEnds == Prepared ~> ~Prepared
=============================================================================
