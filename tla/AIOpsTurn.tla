------------------------------ MODULE AIOpsTurn ------------------------------
(***************************************************************************)
(* The AI operations assistant (src/go-api/internal/aiops): a message      *)
(* starts a turn of a session, a worker answers it in rounds, and what it  *)
(* wants to change becomes an action that an operator approves or that the *)
(* turn, under full access, claims for itself.  Every step below is one    *)
(* database transaction, or the work a goroutine does between two of them; *)
(* workers die with the process, rows stay.                                *)
(*                                                                         *)
(* Abstracted: what is said and what a command does; accounts keep their   *)
(* role and the feature stays enabled; sessions are not deleted.  The      *)
(* deadline of a standard turn and the renewed lease of a full-access one  *)
(* are one flag, leased, that time may take away at any moment.            *)
(***************************************************************************)
EXTENDS Naturals, FiniteSets

CONSTANTS Operators, Sessions, Requests, Turns, Actions,
          NoOne,        \* no operator, session, request, turn or action
          Slots,        \* turns one process works on at a time
          MaxVersion,   \* bound: changes of a session's access
          MaxCrashes    \* bound: restarts of the process

ASSUME AIOpsAssumption ==
  /\ Slots \in Nat \ {0} /\ MaxVersion \in Nat \ {0} /\ MaxCrashes \in Nat
  /\ NoOne \notin Operators \cup Sessions \cup Requests \cup Turns \cup Actions

VARIABLES session, turn, action,   \* rows
          request,                 \* what a browser composed, to send again
          worker, exec,            \* goroutines of the live process
          sent,                    \* how often an action reached its target
          crashes

vars == <<session, turn, action, request, worker, exec, sent, crashes>>
rows == <<session, turn, action>>

Modes == {"standard", "full"}
Final == {"completed", "pending", "failed", "interrupted"}
Settled == {"succeeded", "failed", "unknown", "rejected", "expired"}

NoSession == [status |-> "none", mode |-> "standard", by |-> NoOne, version |-> 0]
NoTurn == [status |-> "none", request |-> NoOne, session |-> NoOne, actor |-> NoOne,
           full |-> FALSE, stop |-> FALSE, leased |-> FALSE, version |-> 0]
NoAction == [status |-> "none", session |-> NoOne, turn |-> NoOne, kind |-> "panel",
             approval |-> "none", stop |-> FALSE]
NoRequest == [actor |-> NoOne, target |-> NoOne, mode |-> "standard", version |-> 0]
Idle == [pc |-> "none", action |-> NoOne, result |-> "none"]

Init ==
  /\ session = [s \in Sessions |-> NoSession]
  /\ turn = [t \in Turns |-> NoTurn]
  /\ action = [a \in Actions |-> NoAction]
  /\ request = [r \in Requests |-> NoRequest]
  /\ worker = [t \in Turns |-> Idle]
  /\ exec = [a \in Actions |-> "none"]
  /\ sent = [a \in Actions |-> 0]
  /\ crashes = 0

-----------------------------------------------------------------------------
RunningTurns(s) == {t \in Turns : turn[t].status = "running" /\ turn[t].session = s}
RunningActions(s) == {a \in Actions : action[a].status = "running" /\ action[a].session = s}

\* Rows a worker may still write for, and what requireFullAccess asks on top.
Live(t) == turn[t].status = "running" /\ turn[t].leased
FullAccess(t) ==
  /\ Live(t) /\ turn[t].full /\ ~turn[t].stop
  /\ session[turn[t].session].mode = "full"
  /\ session[turn[t].session].by = turn[t].actor
RoundAllowed(t) == turn[t].full => FullAccess(t)
ToolAllowed(t) == IF turn[t].full THEN FullAccess(t) ELSE Live(t) /\ ~turn[t].stop

\* Turns whose lease ran out end, and their sessions are free again.
Abandoned == {t \in Turns : turn[t].status = "running" /\ ~turn[t].leased}
ExpiredTurns == [t \in Turns |-> IF t \in Abandoned
                                 THEN [turn[t] EXCEPT !.status = "interrupted"]
                                 ELSE turn[t]]
FreedSessions == [s \in Sessions |-> IF \E t \in Abandoned : turn[t].session = s
                                     THEN [session[s] EXCEPT !.status = "idle"]
                                     ELSE session[s]]

-----------------------------------------------------------------------------
\* A browser composes a message for what it sees of the session; the same
\* request may then be delivered any number of times.  Requests and turns take
\* their names in a fixed order.
Compose(r) ==
  /\ request[r] = NoRequest /\ r = CHOOSE q \in Requests : request[q] = NoRequest
  /\ \E o \in Operators :
       \/ \E m \in Modes :
            request' = [request EXCEPT ![r] = [actor |-> o, target |-> NoOne,
                                               mode |-> m, version |-> 0]]
       \/ \E s \in Sessions :
            /\ session[s].status # "none"
            /\ session[s].mode = "full" => session[s].by = o
            /\ request' = [request EXCEPT ![r] = [actor |-> o, target |-> s,
                                                  mode |-> session[s].mode,
                                                  version |-> session[s].version]]
  /\ UNCHANGED <<rows, worker, exec, sent, crashes>>

Answered(r) == \E t \in Turns : turn[t].request = r

\* What SendMessage asks of the session it is to run in.
Accepts(s, q) ==
  IF q.target = NoOne THEN session[s] = NoSession
  ELSE /\ s = q.target
       /\ FreedSessions[s].status # "running"
       /\ RunningActions(s) = {}
       /\ session[s].mode = q.mode
       /\ session[s].version = q.version
       /\ q.mode = "full" => session[s].by = q.actor

Opened(s, q) ==
  IF q.target = NoOne
  THEN [status |-> "running", mode |-> q.mode, version |-> 1,
        by |-> IF q.mode = "full" THEN q.actor ELSE NoOne]
  ELSE [session[s] EXCEPT !.status = "running"]

\* A request that has its turn is answered with it; the others are refused
\* without a trace, or get a turn, a running session and a worker.
SendMessage(r) ==
  LET q == request[r] IN
  /\ q # NoRequest
  /\ ~Answered(r)
  /\ Cardinality({t \in Turns : worker[t] # Idle}) < Slots
  /\ \E s \in Sessions, t \in Turns :
       /\ Accepts(s, q)
       /\ turn[t] = NoTurn /\ t = CHOOSE u \in Turns : turn[u] = NoTurn
       /\ session' = [FreedSessions EXCEPT ![s] = Opened(s, q)]
       /\ turn' = [ExpiredTurns EXCEPT ![t] =
                     [status |-> "running", request |-> r, session |-> s,
                      actor |-> q.actor, full |-> q.mode = "full", stop |-> FALSE,
                      leased |-> TRUE, version |-> Opened(s, q).version]]
       /\ worker' = [worker EXCEPT ![t] = [Idle EXCEPT !.pc = "round"]]
  /\ UNCHANGED <<action, request, exec, sent, crashes>>

ListSessions ==
  /\ Abandoned # {}
  /\ turn' = ExpiredTurns
  /\ session' = FreedSessions
  /\ UNCHANGED <<action, request, worker, exec, sent, crashes>>

\* Seeded fault: revoking stops the turn, not the action it has claimed.
SetAccessModeTurnOnly(s, o, mode) ==
  /\ session[s].status # "none"
  /\ session[s].version < MaxVersion
  /\ mode = "full" => RunningTurns(s) = {} /\ RunningActions(s) = {}
  /\ session' = [session EXCEPT ![s].mode = mode, ![s].version = @ + 1,
                                ![s].by = IF mode = "full" THEN o ELSE NoOne]
  /\ turn' = [t \in Turns |->
       IF mode = "standard" /\ t \in RunningTurns(s) /\ turn[t].full
       THEN [turn[t] EXCEPT !.stop = TRUE] ELSE turn[t]]
  /\ UNCHANGED <<action, request, worker, exec, sent, crashes>>

\* Revoking is always possible and stops what runs under the old access;
\* granting waits until nothing runs.
SetAccessMode(s, o, mode) ==
  /\ session[s].status # "none"
  /\ session[s].version < MaxVersion
  /\ mode = "full" => RunningTurns(s) = {} /\ RunningActions(s) = {}
  /\ session' = [session EXCEPT ![s].mode = mode, ![s].version = @ + 1,
                                ![s].by = IF mode = "full" THEN o ELSE NoOne]
  /\ turn' = [t \in Turns |->
       IF mode = "standard" /\ t \in RunningTurns(s) /\ turn[t].full
       THEN [turn[t] EXCEPT !.stop = TRUE] ELSE turn[t]]
  /\ action' = [a \in Actions |->
       IF mode = "standard" /\ a \in RunningActions(s) /\ action[a].approval = "full_access"
       THEN [action[a] EXCEPT !.stop = TRUE] ELSE action[a]]
  /\ UNCHANGED <<request, worker, exec, sent, crashes>>

StopSession(s) ==
  /\ \E t \in RunningTurns(s) : ~turn[t].stop
     \/ \E a \in RunningActions(s) : ~action[a].stop
  /\ turn' = [t \in Turns |-> IF t \in RunningTurns(s)
                              THEN [turn[t] EXCEPT !.stop = TRUE] ELSE turn[t]]
  /\ action' = [a \in Actions |-> IF a \in RunningActions(s)
                                  THEN [action[a] EXCEPT !.stop = TRUE] ELSE action[a]]
  /\ UNCHANGED <<session, request, worker, exec, sent, crashes>>

-----------------------------------------------------------------------------
\* The worker of a turn.
At(t, pc) == worker[t].pc = pc
Goto(t, pc) == worker' = [worker EXCEPT ![t].pc = pc]
Leave(t, result) == worker' = [worker EXCEPT ![t].pc = "end", ![t].result = result]

\* A round begins: authority is asked again and the draft is started.
Round(t) ==
  /\ At(t, "round")
  /\ IF RoundAllowed(t) /\ Live(t) THEN Goto(t, "model") ELSE Leave(t, "failed")
  /\ UNCHANGED <<rows, request, exec, sent, crashes>>

\* The model answers with text, with calls, or not at all.
Answer(t) ==
  /\ At(t, "model")
  /\ \/ Leave(t, "failed")
     \/ RoundAllowed(t) /\ Live(t) /\ Leave(t, "completed")
     \/ RoundAllowed(t) /\ Goto(t, "call")
  /\ UNCHANGED <<rows, request, exec, sent, crashes>>

\* One call: refused, a query (the next round follows), or a change to propose.
Call(t) ==
  /\ At(t, "call")
  /\ IF ToolAllowed(t) THEN Goto(t, "round") \/ Goto(t, "propose")
     ELSE Leave(t, "failed")
  /\ UNCHANGED <<rows, request, exec, sent, crashes>>

\* The proposed action waits for an operator, or for the turn itself.
Propose(t) ==
  /\ At(t, "propose")
  /\ \E a \in Actions, k \in {"panel", "remote"} :
       /\ action[a] = NoAction
       /\ action' = [action EXCEPT ![a] = [NoAction EXCEPT !.status = "pending", !.kind = k,
                                             !.session = turn[t].session, !.turn = t]]
       /\ worker' = [worker EXCEPT ![t] =
                       IF turn[t].full THEN [@ EXCEPT !.pc = "claim", !.action = a]
                       ELSE [@ EXCEPT !.pc = "end",
                               !.result = IF Live(t) THEN "pending" ELSE "failed"]]
  /\ UNCHANGED <<session, turn, request, exec, sent, crashes>>

\* Too many proposals wait, or the target is gone: the model is told.
ProposeFails(t) ==
  /\ At(t, "propose")
  /\ Goto(t, "round")
  /\ UNCHANGED <<rows, request, exec, sent, crashes>>

\* Approval: a change of the panel is made in the approving transaction, a
\* remote one is claimed and left to a goroutine.
Claimable(a) == action[a].status = "pending" /\ RunningActions(action[a].session) = {}

Approved(a, approval) ==
  IF action[a].kind = "panel"
  THEN /\ action' = [action EXCEPT ![a].status = "succeeded", ![a].approval = approval]
       /\ sent' = [sent EXCEPT ![a] = @ + 1]
       /\ UNCHANGED exec
  ELSE /\ action' = [action EXCEPT ![a].status = "running", ![a].approval = approval]
       /\ exec' = [exec EXCEPT ![a] = "claimed"]
       /\ UNCHANGED sent

\* The turn approves its own proposal, if its authority still stands.
Claim(t) ==
  /\ At(t, "claim")
  /\ LET a == worker[t].action IN
       \/ /\ Claimable(a) /\ FullAccess(t)
          /\ Approved(a, "full_access")
          /\ Goto(t, "await")
       \/ /\ Leave(t, "failed")    \* refused, or the target changed meanwhile
          /\ UNCHANGED <<action, exec, sent>>
  /\ UNCHANGED <<session, turn, request, crashes>>

\* It waits for the outcome; what did not succeed ends the turn, a command
\* that exited with an error may be looked into.
Await(t) ==
  /\ At(t, "await")
  /\ LET status == action[worker[t].action].status IN
       \/ status \in {"succeeded", "failed"} /\ (Goto(t, "round") \/ Goto(t, "call"))
       \/ status \in Settled \ {"succeeded"} /\ Leave(t, "failed")
       \/ status = "running" /\ ~FullAccess(t) /\ Leave(t, "failed")
  /\ UNCHANGED <<rows, request, exec, sent, crashes>>

\* watchTurn, a stop in this process or the deadline cancel whatever it does.
Cancel(t) ==
  /\ worker[t].pc \notin {"none", "end", "finish"}
  /\ ~ToolAllowed(t)
  /\ Leave(t, "interrupted")
  /\ UNCHANGED <<rows, request, exec, sent, crashes>>

\* The last thing it reads is whether it was stopped.
Outcome(t) ==
  /\ At(t, "end")
  /\ worker' = [worker EXCEPT ![t].pc = "finish",
                  ![t].result = IF turn[t].stop THEN "interrupted" ELSE @]
  /\ UNCHANGED <<rows, request, exec, sent, crashes>>

\* Seeded fault: the session is freed whoever the turn belongs to by now.
FinishAlways(t) ==
  /\ At(t, "finish")
  /\ turn' = IF turn[t].status = "running"
             THEN [turn EXCEPT ![t].status = worker[t].result] ELSE turn
  /\ session' = [session EXCEPT ![turn[t].session].status = "idle"]
  /\ worker' = [worker EXCEPT ![t] = Idle]
  /\ UNCHANGED <<action, request, exec, sent, crashes>>

FinishTurn(t) ==
  /\ At(t, "finish")
  /\ IF turn[t].status = "running"
     THEN /\ turn' = [turn EXCEPT ![t].status = worker[t].result]
          /\ session' = [session EXCEPT ![turn[t].session].status = "idle"]
     ELSE UNCHANGED <<turn, session>>
  /\ worker' = [worker EXCEPT ![t] = Idle]
  /\ UNCHANGED <<action, request, exec, sent, crashes>>

\* Its transaction fails: nobody tries again.
FinishFails(t) ==
  /\ At(t, "finish")
  /\ worker' = [worker EXCEPT ![t] = Idle]
  /\ UNCHANGED <<rows, request, exec, sent, crashes>>

LeaseExpires(t) ==
  /\ Live(t)
  /\ turn' = [turn EXCEPT ![t].leased = FALSE]
  /\ UNCHANGED <<session, action, request, worker, exec, sent, crashes>>

-----------------------------------------------------------------------------
\* Operators decide on what waits.
Approve(a) ==
  /\ Claimable(a)
  /\ Approved(a, "manual")
  /\ UNCHANGED <<session, turn, request, worker, crashes>>

Reject(a) ==
  /\ action[a].status = "pending"
  /\ action' = [action EXCEPT ![a].status = "rejected"]
  /\ UNCHANGED <<session, turn, request, worker, exec, sent, crashes>>

\* The goroutine of a remote action.
MayRun(a) ==
  /\ action[a].status = "running" /\ ~action[a].stop
  /\ action[a].approval = "full_access" => FullAccess(action[a].turn)

Persisted(a, status) ==
  action' = IF action[a].status = "running" THEN [action EXCEPT ![a].status = status]
            ELSE action

Check(a) ==
  /\ exec[a] = "claimed"
  /\ IF MayRun(a)
     THEN exec' = [exec EXCEPT ![a] = "checked"] /\ UNCHANGED action
     ELSE exec' = [exec EXCEPT ![a] = "none"] /\ Persisted(a, "failed")
  /\ UNCHANGED <<session, turn, request, worker, sent, crashes>>

\* Seeded fault: a command that does not answer is sent again.
SendRetried(a) ==
  /\ exec[a] \in {"checked", "sent"}
  /\ sent' = [sent EXCEPT ![a] = @ + 1]
  /\ exec' = [exec EXCEPT ![a] = "sent"]
  /\ UNCHANGED <<rows, request, worker, crashes>>

Send(a) ==
  /\ exec[a] = "checked"
  /\ sent' = [sent EXCEPT ![a] = @ + 1]
  /\ exec' = [exec EXCEPT ![a] = "sent"]
  /\ UNCHANGED <<rows, request, worker, crashes>>

\* The command ended, its connection was closed by a stop, or its time is up.
Return(a) ==
  /\ exec[a] = "sent"
  /\ exec' = [exec EXCEPT ![a] = "returned"]
  /\ UNCHANGED <<rows, request, worker, sent, crashes>>

Complete(a) ==
  /\ exec[a] = "returned"
  /\ \/ \E status \in {"succeeded", "failed", "unknown"} : Persisted(a, status)
     \/ UNCHANGED action     \* the receipt could not be written
  /\ exec' = [exec EXCEPT ![a] = "none"]
  /\ UNCHANGED <<session, turn, request, worker, sent, crashes>>

\* Waiting actions expire; running ones are given up a minute after the longest
\* their goroutine can have worked, so not while it still does.
Expire(a) ==
  /\ action[a].status = "pending"
  /\ action' = [action EXCEPT ![a].status = "expired"]
  /\ UNCHANGED <<session, turn, request, worker, exec, sent, crashes>>

\* Seeded fault: a claim whose command was never sent is not given up.
GiveUpReturned(a) ==
  /\ action[a].status = "running"
  /\ exec[a] = "returned"
  /\ action' = [action EXCEPT ![a].status = "unknown"]
  /\ UNCHANGED <<session, turn, request, worker, exec, sent, crashes>>

GiveUp(a) ==
  /\ action[a].status = "running"
  /\ exec[a] \in {"none", "returned"}
  /\ action' = [action EXCEPT ![a].status = "unknown"]
  /\ UNCHANGED <<session, turn, request, worker, exec, sent, crashes>>

Crash ==
  /\ crashes < MaxCrashes
  /\ crashes' = crashes + 1
  /\ worker' = [t \in Turns |-> Idle]
  /\ exec' = [a \in Actions |-> "none"]
  /\ UNCHANGED <<rows, request, sent>>

-----------------------------------------------------------------------------
Next ==
  \/ \E r \in Requests : Compose(r) \/ SendMessage(r)
  \/ ListSessions
  \/ \E s \in Sessions, o \in Operators, m \in Modes : SetAccessMode(s, o, m)
  \/ \E s \in Sessions : StopSession(s)
  \/ \E t \in Turns :
       \/ Round(t) \/ Answer(t) \/ Call(t) \/ Propose(t) \/ ProposeFails(t) \/ Claim(t) 
       \/ Await(t) \/ Cancel(t) \/ Outcome(t) \/ FinishTurn(t) \/ FinishFails(t) \/ LeaseExpires(t)
  \/ \E a \in Actions :
       \/ Approve(a) \/ Reject(a) \/ Check(a) \/ Send(a) \/ Return(a) \/ Complete(a)
       \/ Expire(a) \/ GiveUp(a)
  \/ Crash

Spec == Init /\ [][Next]_vars

\* The page lists sessions and actions as long as it is open; watchers look
\* every second; a lease that nobody renews runs out; goroutines go on.
Fairness ==
  /\ WF_vars(ListSessions)
  /\ \A t \in Turns :
       /\ WF_vars(Cancel(t))
       /\ WF_vars(Outcome(t))
       /\ WF_vars(FinishTurn(t) \/ FinishFails(t))
       /\ WF_vars(worker[t] = Idle /\ LeaseExpires(t))
  /\ \A a \in Actions :
       /\ WF_vars(Check(a)) /\ WF_vars(Send(a)) /\ WF_vars(Return(a)) /\ WF_vars(Complete(a))
       /\ WF_vars(GiveUp(a))

FairSpec == Spec /\ Fairness

-----------------------------------------------------------------------------
(* Properties *)

\* Rows and goroutines have their shapes; a turn that exists has a request, a
\* session and a status, and ends with a final one.
TypeOK ==
  /\ \A s \in Sessions :
       /\ session[s].status \in {"none", "idle", "running"} /\ session[s].mode \in Modes
       /\ session[s].by \in Operators \cup {NoOne} /\ session[s].version \in 0..MaxVersion
  /\ \A t \in Turns :
       /\ turn[t] # NoTurn => /\ turn[t].status \in {"running"} \cup Final
                              /\ turn[t].request \in Requests
                              /\ turn[t].session \in Sessions
       /\ worker[t].pc \in {"none", "round", "model", "call", "propose", "claim",
                            "await", "end", "finish"}
       /\ worker[t].action \in Actions \cup {NoOne}
  /\ \A a \in Actions :
       /\ action[a].status \in {"none", "pending", "running"} \cup Settled
       /\ action[a].approval \in {"none", "manual", "full_access"}
       /\ exec[a] \in {"none", "claimed", "checked", "sent", "returned"}
       /\ sent[a] \in Nat
  /\ crashes \in 0..MaxCrashes

\* A session is shown as running exactly while one turn of it runs: a worker
\* that comes back after its lease ran out neither frees the session of the turn
\* that replaced it nor leaves its own session blocked (finishTurn, expireTurns).
SessionMatchesTurn ==
  \A s \in Sessions :
    Cardinality(RunningTurns(s)) = IF session[s].status = "running" THEN 1 ELSE 0

\* What still runs by itself, unstopped, runs under the very grant its turn
\* began with: revoked access does not come back by being granted again
\* (SetAccessMode, requireFullAccessTx).
ScopeKept ==
  /\ \A t \in Turns :
       turn[t].status = "running" /\ turn[t].full /\ ~turn[t].stop =>
         LET s == session[turn[t].session] IN
         s.version = turn[t].version /\ s.mode = "full" /\ s.by = turn[t].actor
  /\ \A a \in Actions :
       action[a].status = "running" /\ action[a].approval = "full_access" /\ ~action[a].stop =>
         session[action[a].session].version = turn[action[a].turn].version

\* Concurrent or repeated approvals carry an action out once; one whose outcome
\* is unknown is not tried again (docs/ai-operations.md).
SentOnce == \A a \in Actions : sent[a] <= 1

\* A claimed action is settled, so that the session accepts messages again.
ActionSettles ==
  \A a \in Actions : action[a].status = "running" ~> action[a].status # "running"
=============================================================================
