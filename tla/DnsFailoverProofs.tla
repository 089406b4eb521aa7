------------------------- MODULE DnsFailoverProofs -------------------------
(***************************************************************************)
(* DnsFailover for any set of targets and workers: one operation at a      *)
(* time, always between enabled targets, manual requests are kept, and     *)
(* until a late effect the record and the database only disagree while a   *)
(* saga says so.                                                           *)
(***************************************************************************)
EXTENDS DnsFailover, TLAPS

\* What each worker knows about the saga while it holds the lock.
Knowledge ==
    \A w \in Workers :
        /\ pc[w] # "idle" => holder = w
        /\ pc[w] = "claimed" => ~Prepared /\ outbox.op # "none"
        /\ pc[w] \in {"desired", "finalize", "recover", "restored", "failed"} => Prepared /\ held[w] = saga
        /\ pc[w] = "check" /\ Prepared => held[w] = saga

\* A saga of a manual request leads to the requested target, and no other
\* manual request waits next to a saga of an evaluation.
ManualSaga ==
    /\ saga.op = "manual" => saga.asked = saga.desired
    /\ saga.op = "evaluate" => outbox.op # "manual"
    /\ Prepared => saga.op # "none"

IInv ==
    /\ TypeOK
    /\ Knowledge
    /\ TargetsUsable
    /\ ManualSaga
    /\ DivergenceOwned

RowType == [op : {"none", "evaluate", "manual", "reconcile"}, asked : Maybe]

LEMMA RowsTyped ==
    /\ NoRow \in RowType
    /\ Row("evaluate", NoTarget) \in RowType /\ Row("reconcile", NoTarget) \in RowType
    /\ \A t \in Maybe : Row("manual", t) \in RowType
    /\ NoTarget \in Maybe /\ \A t \in Targets : t \in Maybe
BY DEF RowType, NoRow, Row, Maybe

LEMMA RowTypeOf == TypeOK => outbox \in RowType
BY DEF TypeOK, RowType

LEMMA Initially == Init => IInv
<1> SUFFICES ASSUME Init PROVE IInv
    OBVIOUS
<1> USE FailoverAssumption DEF Init
<1>1. ~Prepared
    BY DEF Prepared
<1>2. TypeOK
  <2>1. saga \in SagaType /\ held \in [Workers -> SagaType]
      BY DEF NoSaga, SagaType, Maybe
  <2>2. outbox \in RowType
      BY RowsTyped
  <2>3. pc \in [Workers -> Places] /\ holder \in Workers \cup {Nobody}
      BY DEF Places
  <2> QED
      BY <1>1, <2>1, <2>2, <2>3 DEF TypeOK, RowType
<1>3. Knowledge
    BY <1>1 DEF Knowledge
<1>4. TargetsUsable
    BY <1>1 DEF TargetsUsable
<1>5. ManualSaga
    BY <1>1 DEF ManualSaga, NoSaga
<1>6. DivergenceOwned
    BY DEF DivergenceOwned
<1> QED
    BY <1>2, <1>3, <1>4, <1>5, <1>6 DEF IInv

\* Steps of the administrator and of the provider.
LEMMA RulePreserves ==
    ASSUME IInv, NEW S \in SUBSET Targets, UpdateRule(S) \/ SetRuleEnabled \/ RequestEvaluation
    PROVE  IInv'
<1> USE FailoverAssumption DEF IInv, UpdateRule, SetRuleEnabled, RequestEvaluation, work, provider, worker, rule
<1>1. TypeOK'
  <2>1. outbox' \in RowType
      BY RowsTyped, RowTypeOf
  <2> QED
      BY <2>1 DEF TypeOK, RowType, Prepared
<1>2. Knowledge'
    BY DEF Knowledge, Prepared, NoRow, Row
<1>3. TargetsUsable'
    BY DEF TargetsUsable, Prepared, Unfinished
<1>4. ManualSaga'
    BY DEF ManualSaga, Prepared, Row
<1>5. DivergenceOwned'
    BY DEF DivergenceOwned, Prepared
<1> QED
    BY <1>1, <1>2, <1>3, <1>4, <1>5

LEMMA LatePreserves ==
    ASSUME IInv, NEW t \in Targets, LateEffect(t)
    PROVE  IInv'
<1> USE DEF LateEffect, rule, work, worker
<1>1. TypeOK'
    BY DEF IInv, TypeOK, Prepared
<1>2. Knowledge' /\ TargetsUsable' /\ ManualSaga' /\ DivergenceOwned'
    BY DEF IInv, Knowledge, TargetsUsable, ManualSaga, DivergenceOwned, Prepared
<1> QED
    BY <1>1, <1>2 DEF IInv

\* Steps that take the lock.
LEMMA ClaimPreserves ==
    ASSUME IInv, NEW w \in Workers, NEW t \in Targets,
           ManualSwitch(w, t) \/ ClaimEvaluation(w) \/ ClaimSaga(w)
    PROVE  IInv'
<1> USE FailoverAssumption DEF IInv, ManualSwitch, ClaimEvaluation, ClaimSaga, Free, rule, work, provider
<1>0. holder = Nobody /\ pc[w] = "idle" /\ \A v \in Workers : pc[v] = "idle"
    BY DEF Knowledge, TypeOK
<1>1. TypeOK'
  <2>1. pc' \in [Workers -> Places] /\ held' \in [Workers -> SagaType] /\ holder' \in Workers
      BY DEF TypeOK, Places
  <2>2. outbox' \in RowType
      BY RowsTyped, RowTypeOf
  <2> QED
      BY <2>1, <2>2 DEF TypeOK, Prepared, RowType
<1>2. Knowledge'
  <2> SUFFICES ASSUME NEW v \in Workers
               PROVE  /\ pc'[v] # "idle" => holder' = v
                      /\ pc'[v] = "claimed" => ~Prepared' /\ outbox'.op # "none"
                      /\ pc'[v] \in {"desired", "finalize", "recover", "restored", "failed"} => Prepared' /\ held'[v] = saga'
                      /\ pc'[v] = "check" /\ Prepared' => held'[v] = saga'
      BY DEF Knowledge
  <2>1. CASE v = w
    <3>1. pc'[w] \in {"claimed", "recover"} /\ holder' = w /\ saga' = saga
        BY DEF TypeOK
    <3>2. ASSUME pc'[w] = "claimed" PROVE ~Prepared' /\ outbox'.op # "none"
      <4>1. CASE ManualSwitch(w, t)
          BY <4>1 DEF Row, Prepared
      <4>2. CASE ClaimEvaluation(w)
          BY <4>2 DEF Prepared
      <4> QED
          BY <3>2, <4>1, <4>2 DEF TypeOK
    <3>3. ASSUME pc'[w] = "recover" PROVE Prepared' /\ held'[w] = saga'
        BY <3>3 DEF TypeOK, Prepared
    <3> QED
        BY <2>1, <3>1, <3>2, <3>3
  <2>2. CASE v # w
      BY <1>0, <2>2 DEF TypeOK, Prepared
  <2> QED
      BY <2>1, <2>2
<1>3. TargetsUsable' /\ DivergenceOwned'
    BY DEF TargetsUsable, DivergenceOwned, Prepared
<1>4. ManualSaga'
    BY DEF ManualSaga, Prepared, Row, NoSaga
<1> QED
    BY <1>1, <1>2, <1>3, <1>4

\* A worker that holds the lock gives it back; what is left of the operation
\* is in the saga row.
LEMMA ReturnKnows ==
    ASSUME IInv, NEW w \in Workers, pc[w] # "idle", Return(w)
    PROVE  /\ Knowledge'
           /\ pc' \in [Workers -> Places] /\ held' \in [Workers -> SagaType]
           /\ holder' \in Workers \cup {Nobody}
<1> USE FailoverAssumption DEF IInv, Return
<1>1. \A v \in Workers : v # w => pc[v] = "idle"
    BY DEF Knowledge
<1>2. \A v \in Workers : pc'[v] = "idle"
    BY <1>1 DEF TypeOK
<1>3. NoSaga \in SagaType
    BY DEF NoSaga, SagaType, Maybe
<1> QED
    BY <1>2, <1>3 DEF Knowledge, TypeOK, Places

\* A worker that goes on keeps the lock and its saga.
LEMMA GotoKnows ==
    ASSUME IInv, NEW w \in Workers, NEW place \in Places, Goto(w, place),
           place \notin {"idle", "claimed"},
           pc[w] \notin {"idle", "claimed"},
           place = "check" \/ (Prepared' /\ saga' = saga /\ Prepared),
           Prepared' => saga' = saga /\ Prepared
    PROVE  /\ Knowledge'
           /\ pc' \in [Workers -> Places] /\ held' \in [Workers -> SagaType]
           /\ holder' \in Workers \cup {Nobody}
<1> USE DEF IInv, Goto
<1>1. \A v \in Workers : v # w => pc'[v] = "idle"
    BY DEF Knowledge, TypeOK
<1>2. pc'[w] = place /\ holder = w
    BY DEF Knowledge, TypeOK
<1>3. Prepared => held[w] = saga
    BY DEF Knowledge, TypeOK, Places
<1> QED
    BY <1>1, <1>2, <1>3 DEF Knowledge, TypeOK

\* What is left to show of a step once the workers' part is known.
Shared ==
    /\ current \in Targets /\ usable \subseteq Targets /\ enabled \in BOOLEAN
    /\ outbox \in RowType
    /\ saga \in SagaType
    /\ Prepared => saga.desired \in Targets /\ saga.rollback \in Targets
    /\ incident \in {"", "dnspod_error", "dns_state_diverged"}
    /\ record \in Targets /\ late \subseteq Targets /\ overtaken \in BOOLEAN
    /\ TargetsUsable /\ ManualSaga /\ DivergenceOwned

LEMMA Assembled ==
    ASSUME Shared', Knowledge', pc' \in [Workers -> Places],
           held' \in [Workers -> SagaType], holder' \in Workers \cup {Nobody}
    PROVE  IInv'
BY DEF Shared, IInv, TypeOK, RowType

LEMMA SharedHolds == IInv => Shared
BY DEF IInv, Shared, TypeOK, RowType

LEMMA SharedKept ==
    ASSUME IInv, UNCHANGED <<current, usable, enabled, outbox, saga, incident>>,
           record' \in Targets, late' \subseteq Targets, overtaken' \in BOOLEAN
    PROVE  Shared'
BY SharedHolds DEF Shared, TargetsUsable, ManualSaga, DivergenceOwned, Prepared

\* Steps of a claimed outbox row.
LEMMA ClaimedPreserves ==
    ASSUME IInv, NEW w \in Workers, Answer(w) \/ Postpone(w)
    PROVE  IInv'
<1>1. pc[w] # "idle" /\ Return(w)
    BY DEF Answer, Postpone
<1>2. Shared'
  <2>1. CASE Answer(w)
      BY <2>1, SharedHolds, RowsTyped
      DEF Answer, Shared, TargetsUsable, ManualSaga, DivergenceOwned, Prepared, NoRow, rule, provider
  <2>2. CASE Postpone(w)
      BY <2>2, SharedHolds, SharedKept DEF Postpone, rule, work, provider, Shared
  <2> QED
      BY <2>1, <2>2
<1> QED
    BY <1>1, <1>2, ReturnKnows, Assembled

LEMMA PreparePreserves ==
    ASSUME IInv, NEW w \in Workers, NEW t \in Targets, Prepare(w, t)
    PROVE  IInv'
<1>0. Shared /\ TypeOK /\ Knowledge
    BY SharedHolds DEF IInv
<1>1. t \in usable /\ (outbox.op = "manual" => t = outbox.asked) /\ saga' = SagaFor(t) /\ ~Prepared
  <2>1. t \in Wanted /\ saga' = SagaFor(t) /\ ~Prepared
      BY DEF Prepare
  <2>2. current \in usable
      BY <1>0 DEF Shared, TargetsUsable
  <2>3. outbox.op # "none"
      BY <1>0 DEF Prepare, Knowledge
  <2>4. outbox.op \in {"manual", "reconcile", "evaluate"}
      BY <1>0, <2>3 DEF Shared, RowType
  <2> QED
      BY <2>1, <2>2, <2>4 DEF Wanted
<1>2. SagaFor(t) \in SagaType /\ SagaFor(t) # NoSaga
    BY <1>0 DEF SagaFor, SagaType, Maybe, NoSaga, Shared, RowType
<1>3. /\ SagaFor(t).desired = t /\ SagaFor(t).rollback = current /\ SagaFor(t).asked = outbox.asked
      /\ SagaFor(t).op = (IF outbox.op = "manual" THEN "manual" ELSE "evaluate")
    BY DEF SagaFor
<1>4. Shared'
    BY <1>0, <1>1, <1>2, <1>3
    DEF Prepare, Shared, TargetsUsable, ManualSaga, DivergenceOwned, Prepared, rule, provider
<1>5. CASE Return(w)
  <2>1. pc[w] # "idle"
      BY DEF Prepare
  <2> QED
      BY <1>4, <1>5, <2>1, ReturnKnows, Assembled
<1>6. CASE /\ pc' = [pc EXCEPT ![w] = IF outbox.op = "reconcile" THEN "recover" ELSE "desired"]
           /\ held' = [held EXCEPT ![w] = SagaFor(t)]
           /\ UNCHANGED holder
  <2>1. pc[w] = "claimed" /\ holder = w
      BY <1>0 DEF Prepare, Knowledge
  <2>2. \A v \in Workers : v # w => pc'[v] = "idle"
      BY <1>0, <1>6, <2>1 DEF Knowledge, TypeOK
  <2>3. pc'[w] \in {"recover", "desired"} /\ held'[w] = saga' /\ Prepared'
      BY <1>0, <1>1, <1>2, <1>6 DEF TypeOK, Prepared
  <2>4. Knowledge'
      BY <1>6, <2>1, <2>2, <2>3 DEF Knowledge
  <2>5. pc' \in [Workers -> Places] /\ held' \in [Workers -> SagaType]
      BY <1>0, <1>2, <1>6 DEF TypeOK, Places
  <2> QED
      BY <1>0, <1>4, <1>6, <2>4, <2>5, Assembled DEF TypeOK
<1> QED
    BY <1>5, <1>6 DEF Prepare

LEMMA CallPreserves ==
    ASSUME IInv, NEW w \in Workers, CallProvider(w)
    PROVE  IInv'
<1>0. Shared /\ TypeOK /\ Knowledge
    BY SharedHolds DEF IInv
<1>1. /\ pc[w] \in {"desired", "recover"}
      /\ \E place \in {"finalize", "recover", "restored", "failed"} : Goto(w, place)
    BY DEF CallProvider, CallSucceeds, CallFails, DesiredSucceeds, RollbackSucceeds
<1>2. Prepared /\ held[w] = saga /\ held[w].desired \in Targets /\ held[w].rollback \in Targets
    BY <1>0, <1>1 DEF Knowledge, Shared
<1>3. UNCHANGED <<current, usable, enabled, outbox, saga, incident>> /\ Prepared'
    BY <1>2 DEF CallProvider, rule, work, Prepared
<1>4. record' \in Targets /\ late' \subseteq Targets /\ overtaken' \in BOOLEAN
    BY <1>0, <1>2 DEF CallProvider, CallSucceeds, CallFails, DesiredSucceeds, RollbackSucceeds, Shared
<1>5. Shared'
    BY <1>3, <1>4, SharedKept
<1>6. PICK place \in {"finalize", "recover", "restored", "failed"} : Goto(w, place)
    BY <1>1
<1>7. place \in Places /\ place \notin {"idle", "claimed"} /\ pc[w] \notin {"idle", "claimed"}
    BY <1>1 DEF Places
<1>8. saga' = saga
    BY <1>3
<1> QED
    BY <1>2, <1>3, <1>5, <1>6, <1>7, <1>8, GotoKnows, Assembled

\* Steps after the call to the desired target.
LEMMA FinalizedKeeps ==
    ASSUME IInv, NEW w \in Workers, pc[w] = "finalize", Finalized(w)
    PROVE  Shared' /\ ~Prepared'
<1>0. Shared /\ Prepared /\ held[w] = saga
    BY SharedHolds DEF IInv, Knowledge
<1>1. ~Prepared' /\ saga' = NoSaga /\ incident' = "" /\ current' = saga.desired
    BY <1>0 DEF Finalized, Prepared
<1>2. outbox' \in RowType
    BY <1>0, RowsTyped DEF Finalized, Shared
<1>3. NoSaga \in SagaType /\ NoSaga.op = "none"
    BY DEF NoSaga, SagaType, Maybe
<1> QED
    BY <1>0, <1>1, <1>2, <1>3
    DEF Finalized, Shared, TargetsUsable, ManualSaga, DivergenceOwned, provider

LEMMA FinalizePreserves ==
    ASSUME IInv, NEW w \in Workers, FinalizeCommits(w) \/ FinalizeUnknown(w)
    PROVE  IInv'
<1>0. Shared /\ pc[w] = "finalize" /\ Prepared
    BY SharedHolds DEF FinalizeCommits, FinalizeUnknown, IInv, Knowledge
<1>1. Shared' /\ (Prepared' => saga' = saga)
  <2>1. CASE Finalized(w)
      BY <1>0, <2>1, FinalizedKeeps
  <2>2. CASE UNCHANGED <<rule, work, provider>>
      BY <1>0, <2>2, SharedKept DEF rule, work, provider, Shared
  <2> QED
      BY <2>1, <2>2 DEF FinalizeCommits, FinalizeUnknown
<1>2. CASE FinalizeCommits(w)
    BY <1>0, <1>1, <1>2, ReturnKnows, Assembled DEF FinalizeCommits
<1>3. CASE FinalizeUnknown(w)
  <2>1. "check" \in Places /\ Goto(w, "check")
      BY <1>3 DEF FinalizeUnknown, Places
  <2> QED
      BY <1>0, <1>1, <2>1, GotoKnows, Assembled
<1> QED
    BY <1>2, <1>3

LEMMA CheckPreserves ==
    ASSUME IInv, NEW w \in Workers, Check(w)
    PROVE  IInv'
<1>0. Shared /\ pc[w] = "check"
    BY SharedHolds DEF Check
<1>1. Shared' /\ saga' = saga /\ (Prepared' <=> Prepared)
    BY <1>0, SharedKept DEF Check, rule, work, provider, Shared, Prepared
<1>2. CASE Return(w)
    BY <1>0, <1>1, <1>2, ReturnKnows, Assembled
<1>3. CASE Prepared /\ Goto(w, "recover")
  <2>1. "recover" \in Places
      BY DEF Places
  <2> QED
      BY <1>0, <1>1, <1>3, <2>1, GotoKnows, Assembled
<1> QED
    BY <1>2, <1>3 DEF Check

\* Steps after the call that restores the old target.
LEMMA RecoveryPreserves ==
    ASSUME IInv, NEW w \in Workers,
           RecoveryCommits(w) \/ PersistFailure(w) \/ RecoveryFails(w)
    PROVE  IInv'
<1>0. /\ Shared /\ pc[w] \in {"restored", "failed"} /\ Return(w)
      /\ Prepared /\ held[w] = saga
    BY SharedHolds DEF RecoveryCommits, PersistFailure, RecoveryFails, IInv, Knowledge
<1>1. CASE RecoveryCommits(w)
  <2>1. RetryOf(saga) \in RowType
    <3>1. saga.asked \in Maybe /\ outbox \in RowType
        BY <1>0 DEF Shared, SagaType
    <3>2. CASE saga.op = "manual"
        BY <3>1, <3>2 DEF RetryOf, RowType, Row
    <3>3. CASE saga.op # "manual"
        BY <3>1, <3>3, RowsTyped DEF RetryOf
    <3> QED
        BY <3>2, <3>3
  <2>2. NoSaga \in SagaType /\ NoSaga.op = "none"
      BY DEF NoSaga, SagaType, Maybe
  <2>3. saga' = NoSaga /\ ~Prepared' /\ outbox' = RetryOf(saga)
      BY <1>0, <1>1 DEF RecoveryCommits, Prepared
  <2>4. incident' \in {"", "dnspod_error"}
      BY <1>1 DEF RecoveryCommits, AfterRollback
  <2>5. UNCHANGED <<current, usable, enabled, record, late, overtaken>>
      BY <1>1 DEF RecoveryCommits, rule, provider
  <2>6. Shared'
      BY <1>0, <2>1, <2>2, <2>3, <2>4, <2>5
      DEF Shared, TargetsUsable, ManualSaga, DivergenceOwned
  <2> QED
      BY <1>0, <2>6, ReturnKnows, Assembled
<1>2. CASE PersistFailure(w)
  <2>1. Shared'
      BY <1>0, <1>2
      DEF PersistFailure, Shared, TargetsUsable, ManualSaga, DivergenceOwned, Prepared, rule, provider
  <2> QED
      BY <1>0, <2>1, ReturnKnows, Assembled
<1>3. CASE RecoveryFails(w)
  <2>1. Shared'
      BY <1>0, <1>3, SharedKept DEF RecoveryFails, rule, work, provider, Shared
  <2> QED
      BY <1>0, <2>1, ReturnKnows, Assembled
<1> QED
    BY <1>1, <1>2, <1>3

LEMMA CrashPreserves ==
    ASSUME IInv, NEW w \in Workers, Crash(w)
    PROVE  IInv'
<1>0. Shared /\ Knowledge
    BY SharedHolds DEF IInv
<1>1. /\ pc[w] # "idle" /\ Return(w)
      /\ UNCHANGED <<current, usable, enabled, outbox, saga, incident, record, overtaken>>
    BY DEF Crash, rule, work
<1>2. late' \subseteq Targets
  <2>1. pc[w] \in {"desired", "recover"} => held[w].desired \in Targets /\ held[w].rollback \in Targets
      BY <1>0 DEF Knowledge, Shared
  <2>2. late' = late \/ \E t \in Targets : late' = late \cup {t}
      BY <2>1 DEF Crash
  <2> QED
      BY <1>0, <2>2 DEF Shared
<1>3. Shared'
    BY <1>0, <1>1, <1>2, SharedKept DEF Shared
<1> QED
    BY <1>1, <1>3, ReturnKnows, Assembled

LEMMA StutterPreserves == ASSUME IInv, UNCHANGED vars PROVE IInv'
<1>1. UNCHANGED <<current, usable, enabled, outbox, saga, incident, record, late, overtaken, holder, pc, held>>
    BY DEF vars, rule, work, provider, worker
<1> QED
    BY <1>1 DEF IInv, TypeOK, Knowledge, TargetsUsable, ManualSaga, DivergenceOwned, Prepared

LEMMA NextPreserves == ASSUME IInv, [Next]_vars PROVE IInv'
<1>0. current \in Targets
    BY DEF IInv, TypeOK
<1>1. ASSUME NEW w \in Workers, Step(w) PROVE IInv'
    BY <1>0, <1>1, ClaimPreserves, ClaimedPreserves, PreparePreserves, CallPreserves,
       FinalizePreserves, CheckPreserves, RecoveryPreserves
    DEF Step
<1> QED
    BY <1>1, CrashPreserves, ClaimPreserves, RulePreserves, LatePreserves, StutterPreserves DEF Next

LEMMA Inductive == Spec => []IInv
BY Initially, NextPreserves, PTL DEF Spec

\* Types hold for any targets and workers: a prepared saga always names two
\* targets.
THEOREM TypeCorrect == Spec => []TypeOK
<1>1. IInv => TypeOK
    BY DEF IInv
<1> QED
    BY <1>1, Inductive, PTL

\* The advisory lock admits one operation at a time, and the worker inside it
\* works on the saga that is stored (dns_failover_saga.go claims).
THEOREM OneOperationHolds == Spec => []OneOperation
<1>1. IInv => OneOperation
    BY DEF IInv, Knowledge, OneOperation
<1> QED
    BY <1>1, Inductive, PTL

\* The current target and both ends of a prepared switch stay enabled targets
\* of the rule, whatever is edited meanwhile
\* (rejectUnfinishedDNSFailoverOperation).
THEOREM TargetsUsableHolds == Spec => []TargetsUsable
<1>1. IInv => TargetsUsable
    BY DEF IInv
<1> QED
    BY <1>1, Inductive, PTL

\* A reported divergence always has a saga that is to repair it
\* (persistDNSFailoverSagaRollbackFailure).
THEOREM DivergenceOwnedHolds == Spec => []DivergenceOwned
<1>1. IInv => DivergenceOwned
    BY DEF IInv
<1> QED
    BY <1>1, Inductive, PTL

\* What is known of the record until a call is carried out late.
Synchronous ==
    /\ RecordMatches
    /\ \A w \in Workers :
         /\ pc[w] = "finalize" => overtaken \/ record = saga.desired
         /\ pc[w] = "restored" => overtaken \/ record = saga.rollback

\* A worker that returns leaves the record as the rows describe it.
LEMMA ReturnSynchronous ==
    ASSUME IInv, NEW w \in Workers, pc[w] # "idle", Return(w), RecordMatches'
    PROVE  Synchronous'
<1>1. \A v \in Workers : v # w => pc[v] = "idle"
    BY DEF IInv, Knowledge
<1>2. \A v \in Workers : pc'[v] = "idle"
    BY <1>1 DEF Return, IInv, TypeOK
<1> QED
    BY <1>2 DEF Synchronous

\* So does one that goes on.
LEMMA GotoSynchronous ==
    ASSUME IInv, NEW w \in Workers, NEW place, pc[w] # "idle",
           pc' = [pc EXCEPT ![w] = place], RecordMatches',
           place = "finalize" => overtaken' \/ record' = saga'.desired,
           place = "restored" => overtaken' \/ record' = saga'.rollback
    PROVE  Synchronous'
<1>1. \A v \in Workers : v # w => pc'[v] = "idle"
    BY DEF IInv, Knowledge, TypeOK
<1>2. pc'[w] = place
    BY DEF IInv, TypeOK
<1> QED
    BY <1>1, <1>2 DEF Synchronous

LEMMA RuleSynchronous ==
    ASSUME IInv, Synchronous, NEW S \in SUBSET Targets,
           UpdateRule(S) \/ SetRuleEnabled \/ RequestEvaluation
    PROVE  Synchronous'
BY DEF UpdateRule, SetRuleEnabled, RequestEvaluation, Synchronous, RecordMatches,
   Prepared, NoRow, Row, rule, work, provider, worker

LEMMA ClaimSynchronous ==
    ASSUME IInv, Synchronous, NEW w \in Workers, NEW t \in Targets,
           ManualSwitch(w, t) \/ ClaimEvaluation(w) \/ ClaimSaga(w)
    PROVE  Synchronous'
<1>1. /\ UNCHANGED <<record, overtaken, saga, current>>
      /\ \A v \in Workers : pc'[v] \in {pc[v], "claimed", "recover"}
    BY DEF ManualSwitch, ClaimEvaluation, ClaimSaga, rule, work, provider, IInv, TypeOK
<1>2. RecordMatches'
    BY <1>1 DEF ManualSwitch, ClaimEvaluation, ClaimSaga, work, RecordMatches, Synchronous, Prepared
<1> QED
    BY <1>1, <1>2 DEF Synchronous

LEMMA ClaimedSynchronous ==
    ASSUME IInv, Synchronous, NEW w \in Workers, NEW t \in Targets,
           Answer(w) \/ Postpone(w) \/ Prepare(w, t)
    PROVE  Synchronous'
<1>0. pc[w] = "claimed"
    BY DEF Answer, Postpone, Prepare
<1>1. RecordMatches'
  <2>1. CASE Answer(w)
      BY <2>1 DEF Answer, RecordMatches, Prepared, Synchronous, IInv, Knowledge, rule, provider
  <2>2. CASE Postpone(w)
      BY <2>2 DEF Postpone, RecordMatches, Prepared, Synchronous, rule, work, provider
  <2>3. CASE Prepare(w, t)
    <3>1. SagaFor(t) # NoSaga
        BY DEF SagaFor, NoSaga
    <3> QED
        BY <2>3, <3>1 DEF Prepare, RecordMatches, Prepared
  <2> QED
      BY <2>1, <2>2, <2>3
<1>2. CASE Return(w)
    BY <1>0, <1>1, <1>2, ReturnSynchronous
<1>3. CASE pc' = [pc EXCEPT ![w] = IF outbox.op = "reconcile" THEN "recover" ELSE "desired"]
    BY <1>0, <1>1, <1>3, GotoSynchronous
<1> QED
    BY <1>2, <1>3 DEF Answer, Postpone, Prepare

LEMMA CallSynchronous ==
    ASSUME IInv, Synchronous, NEW w \in Workers, CallProvider(w)
    PROVE  Synchronous'
<1>1. pc[w] \in {"desired", "recover"} /\ UNCHANGED <<rule, work>>
    BY DEF CallProvider, DesiredSucceeds, RollbackSucceeds
<1>2. Prepared /\ held[w] = saga
    BY <1>1 DEF IInv, Knowledge
<1>3. RecordMatches' /\ saga' = saga
    BY <1>1, <1>2 DEF RecordMatches, Prepared, work
<1>4. PICK place \in {"finalize", "recover", "restored", "failed"} :
        /\ pc' = [pc EXCEPT ![w] = place]
        /\ place = "finalize" => record' = held[w].desired
        /\ place = "restored" => record' = held[w].rollback
    BY DEF CallProvider, CallSucceeds, CallFails, DesiredSucceeds, RollbackSucceeds, Goto
<1>5. pc[w] # "idle" /\ RecordMatches'
    BY <1>1, <1>3
<1>6. /\ place = "finalize" => record' = saga'.desired
      /\ place = "restored" => record' = saga'.rollback
    BY <1>2, <1>3, <1>4
<1>7. pc' = [pc EXCEPT ![w] = place]
    BY <1>4
<1> QED
    BY <1>5, <1>6, <1>7, GotoSynchronous

LEMMA AfterCallSynchronous ==
    ASSUME IInv, Synchronous, NEW w \in Workers,
           FinalizeCommits(w) \/ FinalizeUnknown(w) \/ Check(w)
             \/ RecoveryCommits(w) \/ PersistFailure(w) \/ RecoveryFails(w)
    PROVE  Synchronous'
<1>1. pc[w] # "idle" /\ UNCHANGED <<record, overtaken>>
    BY DEF FinalizeCommits, FinalizeUnknown, Finalized, Check, RecoveryCommits,
           PersistFailure, RecoveryFails, provider
<1>2. RecordMatches'
  <2>1. CASE pc[w] = "finalize" /\ Finalized(w)
    <3>1. held[w] = saga /\ (overtaken \/ record = saga.desired)
        BY <2>1 DEF IInv, Knowledge, Synchronous
    <3> QED
        BY <1>1, <2>1, <3>1 DEF Finalized, RecordMatches
  <2>2. CASE RecoveryCommits(w)
    <3>1. (overtaken \/ record = saga.rollback) /\ saga.rollback = current
        BY <2>2 DEF RecoveryCommits, IInv, Knowledge, TargetsUsable, Synchronous
    <3> QED
        BY <1>1, <2>2, <3>1 DEF RecoveryCommits, RecordMatches, rule
  <2>3. CASE UNCHANGED <<current, outbox, saga>>
      BY <1>1, <2>3 DEF RecordMatches, Prepared, Synchronous
  <2>4. CASE PersistFailure(w)
      BY <1>1, <2>3, <2>4 DEF PersistFailure, rule
  <2> QED
      BY <2>1, <2>2, <2>3, <2>4
      DEF FinalizeCommits, FinalizeUnknown, Check, RecoveryFails, rule, work
<1>3. CASE Return(w)
    BY <1>1, <1>2, <1>3, ReturnSynchronous
<1>4. ASSUME NEW place \in {"check", "recover"}, Goto(w, place) PROVE Synchronous'
    BY <1>1, <1>2, <1>4, GotoSynchronous DEF Goto
<1> QED
    BY <1>3, <1>4
    DEF FinalizeCommits, FinalizeUnknown, Check, RecoveryCommits, PersistFailure, RecoveryFails

LEMMA CrashSynchronous ==
    ASSUME IInv, Synchronous, NEW w \in Workers, Crash(w)
    PROVE  Synchronous'
<1>1. pc[w] # "idle" /\ Return(w)
    BY DEF Crash
<1>2. RecordMatches'
    BY DEF Crash, RecordMatches, Prepared, Synchronous, rule, work
<1> QED
    BY <1>1, <1>2, ReturnSynchronous

LEMMA NextSynchronous ==
    ASSUME IInv, Synchronous, [Next]_vars
    PROVE  Synchronous'
<1>0. current \in Targets
    BY DEF IInv, TypeOK
<1>1. ASSUME NEW w \in Workers, Step(w) PROVE Synchronous'
    BY <1>0, <1>1, ClaimSynchronous, ClaimedSynchronous, CallSynchronous, AfterCallSynchronous DEF Step
<1>2. ASSUME NEW t \in Targets, LateEffect(t) PROVE Synchronous'
    BY <1>2 DEF LateEffect, Synchronous, RecordMatches
<1>3. ASSUME UNCHANGED vars PROVE Synchronous'
    BY <1>3 DEF vars, rule, work, provider, worker, Synchronous, RecordMatches, Prepared
<1> QED
    BY <1>1, <1>2, <1>3, RuleSynchronous, ClaimSynchronous, CrashSynchronous DEF Next

\* The record points to the current target unless a saga or a reconciliation
\* is pending or the provider carried out a call nobody waited for any more,
\* through failed calls, lost commits and crashes
\* (executePreparedDNSFailoverSaga, recoverPreparedDNSFailoverSaga).
THEOREM RecordMatchesHolds == Spec => []RecordMatches
<1>1. Init => Synchronous
  <2>1. SUFFICES ASSUME Init PROVE Synchronous
      OBVIOUS
  <2>2. \A w \in Workers : pc[w] = "idle"
      BY <2>1 DEF Init
  <2>3. outbox.op = "reconcile" \/ record = current
    <3>1. record = current \/ outbox = Row("reconcile", NoTarget)
        BY <2>1 DEF Init
    <3> QED
        BY <3>1 DEF Row
  <2> QED
      BY <2>2, <2>3 DEF Synchronous, RecordMatches
<1>2. IInv /\ Synchronous /\ [Next]_vars => Synchronous'
    BY NextSynchronous
<1>3. Synchronous => RecordMatches
    BY DEF Synchronous
<1> QED
    BY <1>1, <1>2, <1>3, Inductive, PTL DEF Spec

KeepsAsked == Asked # NoTarget => Asked' # NoTarget \/ current' = Asked

LEMMA SameRowsKeepAsked == ASSUME UNCHANGED <<saga, outbox>> PROVE KeepsAsked
BY DEF KeepsAsked, Asked

LEMMA ClaimedKeepsAsked ==
    ASSUME IInv, NEW w \in Workers, NEW t \in Targets,
           ManualSwitch(w, t) \/ Answer(w) \/ Prepare(w, t)
    PROVE  KeepsAsked
<1>1. ~Prepared /\ saga = NoSaga /\ saga.op = "none"
    BY DEF ManualSwitch, Answer, Prepare, IInv, Knowledge, Prepared, NoSaga
<1>2. CASE ManualSwitch(w, t)
  <2>1. outbox'.op = "manual" /\ outbox'.asked = t /\ saga' = saga /\ t # NoTarget
      BY <1>2, FailoverAssumption DEF ManualSwitch, Row
  <2> QED
      BY <1>1, <2>1 DEF KeepsAsked, Asked
<1>3. CASE Answer(w)
    BY <1>1, <1>3 DEF Answer, KeepsAsked, Asked, rule
<1>4. CASE Prepare(w, t)
  <2>1. outbox.op = "manual" => saga'.op = "manual" /\ saga'.asked = outbox.asked
      BY <1>4 DEF Prepare, SagaFor
  <2> QED
      BY <1>1, <2>1 DEF KeepsAsked, Asked
<1> QED
    BY <1>2, <1>3, <1>4

LEMMA EndKeepsAsked ==
    ASSUME IInv, NEW w \in Workers,
           (pc[w] = "finalize" /\ Finalized(w)) \/ RecoveryCommits(w)
    PROVE  KeepsAsked
<1>1. Prepared /\ held[w] = saga
    BY DEF RecoveryCommits, IInv, Knowledge
<1>2. saga.op = "manual" \/ Asked = NoTarget
    BY <1>1 DEF IInv, ManualSaga, TypeOK, SagaType, Asked
<1>3. CASE saga.op = "manual" /\ Finalized(w)
    BY <1>1, <1>3 DEF Finalized, IInv, ManualSaga, KeepsAsked, Asked
<1>4. CASE saga.op = "manual" /\ RecoveryCommits(w)
  <2>1. saga'.op = "none"
      BY <1>4 DEF RecoveryCommits, NoSaga
  <2>2. outbox'.op = "manual" /\ outbox'.asked = saga.asked
      BY <1>1, <1>4 DEF RecoveryCommits, RetryOf, Row
  <2> QED
      BY <1>4, <2>1, <2>2 DEF KeepsAsked, Asked
<1> QED
    BY <1>2, <1>3, <1>4 DEF KeepsAsked

LEMMA NextKeepsAsked == ASSUME IInv, [Next]_vars PROVE KeepsAsked
<1>0. current \in Targets
    BY DEF IInv, TypeOK
<1>1. ASSUME NEW w \in Workers, Step(w) PROVE KeepsAsked
  <2>1. CASE Answer(w) \/ \E t \in Targets : Prepare(w, t)
      BY <1>0, <2>1, ClaimedKeepsAsked
  <2>2. CASE FinalizeCommits(w) \/ FinalizeUnknown(w) \/ RecoveryCommits(w)
    <3>1. CASE UNCHANGED <<rule, work, provider>>
        BY <3>1, SameRowsKeepAsked DEF work
    <3> QED
        BY <2>2, <3>1, EndKeepsAsked DEF FinalizeCommits, FinalizeUnknown
  <2>3. CASE ClaimEvaluation(w) \/ ClaimSaga(w) \/ Postpone(w) \/ CallProvider(w) \/ Check(w)
               \/ PersistFailure(w) \/ RecoveryFails(w)
      BY <2>3, SameRowsKeepAsked
      DEF ClaimEvaluation, ClaimSaga, Postpone, CallProvider, Check, PersistFailure, RecoveryFails, work
  <2> QED
      BY <1>1, <2>1, <2>2, <2>3 DEF Step
<1>2. ASSUME RequestEvaluation PROVE KeepsAsked
    BY <1>2 DEF RequestEvaluation, NoRow, Row, work, KeepsAsked, Asked
<1>3. ASSUME NEW w \in Workers, Crash(w) PROVE KeepsAsked
    BY <1>3, SameRowsKeepAsked DEF Crash, work
<1>4. ASSUME NEW S \in SUBSET Targets, UpdateRule(S) \/ SetRuleEnabled PROVE KeepsAsked
    BY <1>4, SameRowsKeepAsked DEF UpdateRule, SetRuleEnabled, work
<1>5. ASSUME NEW t \in Targets, LateEffect(t) PROVE KeepsAsked
    BY <1>5, SameRowsKeepAsked DEF LateEffect, work
<1>6. ASSUME UNCHANGED vars PROVE KeepsAsked
    BY <1>6, SameRowsKeepAsked DEF vars, work
<1> QED
    BY <1>1, <1>2, <1>3, <1>4, <1>5, <1>6, ClaimedKeepsAsked DEF Next

\* A manual request is only forgotten when its target has become the current
\* one or another request replaces it: no rollback, crash or refreshed report
\* drops it (RetryOf of finalizeDNSFailoverSagaRecovery).
THEOREM ManualKeptHolds == Spec => ManualKept
<1>1. IInv /\ [Next]_vars => [Asked # NoTarget => Asked' # NoTarget \/ current' = Asked]_vars
    BY NextKeepsAsked DEF KeepsAsked
<1> QED
    BY <1>1, Inductive, PTL DEF Spec, ManualKept
=============================================================================
