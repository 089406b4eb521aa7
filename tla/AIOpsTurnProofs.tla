--------------------------- MODULE AIOpsTurnProofs ---------------------------
(* Proofs about the turns and actions of the AI operations assistant, for any
   number of operators, sessions, messages, turns, actions and restarts.      *)
EXTENDS AIOpsTurn, TLAPS, FiniteSetTheorems

-----------------------------------------------------------------------------
(* The inductive invariant                                                   *)

SessionRow == [status : {"none", "idle", "running"}, mode : Modes,
               by : Operators \cup {NoOne}, version : Nat]
TurnRow == [status : {"none", "running"} \cup Final, request : Requests \cup {NoOne},
            session : Sessions \cup {NoOne}, actor : Operators \cup {NoOne},
            full : BOOLEAN, stop : BOOLEAN, leased : BOOLEAN, version : Nat]
ActionRow == [status : {"none", "pending", "running"} \cup Settled,
              session : Sessions \cup {NoOne}, turn : Turns \cup {NoOne},
              kind : {"panel", "remote"}, approval : {"none", "manual", "full_access"},
              stop : BOOLEAN]
RequestRow == [actor : Operators \cup {NoOne}, target : Sessions \cup {NoOne},
               mode : Modes, version : Nat]
WorkerRow == [pc : {"none", "round", "model", "call", "propose", "claim", "await",
                    "end", "finish"},
              action : Actions \cup {NoOne}, result : {"none"} \cup Final]
ExecState == {"none", "claimed", "checked", "sent", "returned"}

RowShape ==
  /\ session \in [Sessions -> SessionRow] /\ turn \in [Turns -> TurnRow]
  /\ action \in [Actions -> ActionRow]

Shape ==
  /\ RowShape
  /\ request \in [Requests -> RequestRow] /\ worker \in [Turns -> WorkerRow]
  /\ exec \in [Actions -> ExecState] /\ sent \in [Actions -> Nat]

(* A turn belongs to a session that exists, a composed message is somebody's. *)
TurnsPlaced ==
  \A t \in Turns : turn[t].status # "none" =>
    turn[t].session \in Sessions /\ session[turn[t].session].status # "none"

(* An action belongs to a turn that exists, and to the session of the turn.  *)
ActionsPlaced ==
  \A a \in Actions : action[a].status # "none" =>
    /\ action[a].turn \in Turns /\ turn[action[a].turn].status # "none"
    /\ action[a].session = turn[action[a].turn].session

(* At most one turn of a session runs, and then the session says so.         *)
Exclusive ==
  \A t, u \in Turns :
    turn[t].status = "running" /\ turn[u].status = "running" /\ turn[t].session = turn[u].session
      => t = u
Matched ==
  \A s \in Sessions :
    session[s].status = "running"
      <=> \E t \in Turns : turn[t].status = "running" /\ turn[t].session = s

(* A worker has a turn; it holds an action of that turn while it claims it and
   awaits its outcome, and a final result when it ends.                      *)
WorkerPlaced(t) ==
  /\ worker[t].pc # "none" => turn[t].status # "none"
  /\ worker[t].pc \in {"end", "finish"} => worker[t].result \in Final
  /\ worker[t].pc \in {"claim", "await"} =>
       /\ worker[t].action \in Actions
       /\ action[worker[t].action].status # "none" /\ action[worker[t].action].turn = t
WorkersPlaced == \A t \in Turns : WorkerPlaced(t)

TurnScope(t) ==
  turn[t].status = "running" /\ turn[t].full /\ ~turn[t].stop =>
    /\ session[turn[t].session].version = turn[t].version
    /\ session[turn[t].session].mode = "full"
    /\ session[turn[t].session].by = turn[t].actor
ActionScope(a) ==
  action[a].status = "running" /\ action[a].approval = "full_access" /\ ~action[a].stop =>
    session[action[a].session].version = turn[action[a].turn].version
Scoped == (\A t \in Turns : TurnScope(t)) /\ (\A a \in Actions : ActionScope(a))

(* Nothing was sent for what waits, nor for what is claimed and not yet sent. *)
Sending ==
  \A a \in Actions :
    /\ sent[a] <= 1
    /\ action[a].status \in {"none", "pending"} => sent[a] = 0 /\ exec[a] = "none"
    /\ exec[a] \in {"claimed", "checked"} => sent[a] = 0

RowInv == TurnsPlaced /\ ActionsPlaced /\ Exclusive /\ Matched /\ Scoped

TurnInv == Shape /\ RowInv /\ WorkersPlaced /\ Sending

(* It says what the properties say.                                          *)
LEMMA TurnImplied == TurnInv => SessionMatchesTurn /\ ScopeKept /\ SentOnce
<1> SUFFICES ASSUME TurnInv  PROVE SessionMatchesTurn /\ ScopeKept /\ SentOnce
  OBVIOUS
<1>1. ASSUME NEW s \in Sessions
      PROVE  Cardinality(RunningTurns(s)) = IF session[s].status = "running" THEN 1 ELSE 0
  <2>1. CASE session[s].status = "running"
    <3>1. PICK t \in Turns : turn[t].status = "running" /\ turn[t].session = s
        BY <2>1 DEF TurnInv, RowInv, Matched
    <3>2. RunningTurns(s) = {t}
        BY <3>1 DEF TurnInv, RowInv, Exclusive, RunningTurns
    <3> QED  BY <2>1, <3>2, FS_Singleton
  <2>2. CASE session[s].status # "running"
    <3>1. RunningTurns(s) = {}
        BY <2>2 DEF TurnInv, RowInv, Matched, RunningTurns
    <3> QED  BY <2>2, <3>1, FS_EmptySet
  <2> QED  BY <2>1, <2>2
<1>2. ScopeKept
  BY DEF TurnInv, RowInv, Scoped, TurnScope, ActionScope, ScopeKept
<1>3. SentOnce
  BY DEF TurnInv, Sending, SentOnce
<1> QED  BY <1>1, <1>2, <1>3 DEF SessionMatchesTurn

LEMMA TurnInit == Init => TurnInv
<1> SUFFICES ASSUME Init  PROVE TurnInv
  OBVIOUS
<1>1. Shape
  BY DEF Init, Shape, RowShape, NoSession, NoTurn, NoAction, NoRequest, Idle, SessionRow, TurnRow,
         ActionRow, RequestRow, WorkerRow, ExecState, Modes, Final, Settled
<1>2. /\ \A s \in Sessions : session[s].status = "none"
      /\ \A t \in Turns : turn[t].status = "none" /\ worker[t].pc = "none"
      /\ \A a \in Actions : action[a].status = "none" /\ sent[a] = 0 /\ exec[a] = "none"
  BY DEF Init, NoSession, NoTurn, NoAction, Idle
<1>3. RowInv
  BY <1>2 DEF RowInv, TurnsPlaced, ActionsPlaced, Exclusive, Matched, Scoped, TurnScope, ActionScope
<1>4. WorkersPlaced /\ Sending
  BY <1>2 DEF WorkersPlaced, WorkerPlaced, Sending
<1> QED  BY <1>1, <1>3, <1>4 DEF TurnInv

-----------------------------------------------------------------------------
(* Steps that leave the rows alone                                           *)

(* A worker goes on, or the process forgets them all; the rows stay.         *)
LEMMA RowsKept ==
    ASSUME Shape, RowInv, UNCHANGED <<session, turn, action>>
    PROVE  RowShape' /\ RowInv'
<1>1. RowShape'
  BY DEF Shape, RowShape
<1>2. RowInv'
  BY DEF RowInv, TurnsPlaced, ActionsPlaced, Exclusive, Matched, Scoped, TurnScope, ActionScope
<1> QED  BY <1>1, <1>2

(* One worker goes to another place.                                         *)
LEMMA WorkerGoes ==
    ASSUME TurnInv, UNCHANGED <<session, turn, action, request, exec, sent>>,
           NEW t \in Turns, worker[t].pc # "none", NEW w \in WorkerRow,
           worker' = [worker EXCEPT ![t] = w],
           w.pc \in {"end", "finish"} => w.result \in Final,
           w.pc \in {"claim", "await"} => worker[t].pc \in {"claim", "await"} /\ w.action = worker[t].action
    PROVE  TurnInv'
<1>1. RowShape' /\ RowInv'
  BY RowsKept DEF TurnInv
<1>2. Shape'
  BY <1>1 DEF TurnInv, Shape
<1>3. ASSUME NEW v \in Turns
      PROVE  WorkerPlaced(v)'
  <2>1. WorkerPlaced(v) /\ WorkerPlaced(t)
      BY DEF TurnInv, WorkersPlaced
  <2>2. worker'[v] = IF v = t THEN w ELSE worker[v]
      BY DEF TurnInv, Shape
  <2> QED  BY <2>1, <2>2 DEF WorkerPlaced
<1>4. Sending'
  BY DEF TurnInv, Sending
<1> QED  BY <1>1, <1>2, <1>3, <1>4 DEF TurnInv, WorkersPlaced

LEMMA WorkerSteps ==
    ASSUME TurnInv, NEW t \in Turns,
           \/ Round(t) \/ Answer(t) \/ Call(t) \/ ProposeFails(t) \/ Await(t) \/ Cancel(t)
           \/ Outcome(t) \/ FinishFails(t)
    PROVE  TurnInv'
<1>1. worker[t] \in WorkerRow /\ worker \in [Turns -> WorkerRow] /\ WorkerPlaced(t)
  BY DEF TurnInv, Shape, WorkersPlaced
<1>2. UNCHANGED <<session, turn, action, request, exec, sent>> /\ worker[t].pc # "none"
  BY DEF Round, Answer, Call, ProposeFails, Await, Cancel, Outcome, FinishFails, At, rows
<1>3. ASSUME NEW pc \in {"round", "model", "call", "propose"}, worker' = [worker EXCEPT ![t].pc = pc]
      PROVE  TurnInv'
  <2> DEFINE w == [worker[t] EXCEPT !.pc = pc]
  <2>1. w \in WorkerRow /\ w.pc = pc /\ worker' = [worker EXCEPT ![t] = w]
      BY <1>1, <1>3 DEF WorkerRow
  <2> HIDE DEF w
  <2> QED  BY <1>2, <2>1, WorkerGoes
<1>4. ASSUME NEW result \in Final, NEW pc \in {"end", "finish"},
             worker' = [worker EXCEPT ![t].pc = pc, ![t].result = result]
      PROVE  TurnInv'
  <2> DEFINE w == [worker[t] EXCEPT !.pc = pc, !.result = result]
  <2>1. w \in WorkerRow /\ w.pc = pc /\ w.result = result /\ worker' = [worker EXCEPT ![t] = w]
      BY <1>1, <1>4 DEF WorkerRow
  <2> HIDE DEF w
  <2> QED  BY <1>2, <2>1, WorkerGoes
<1>5. CASE Round(t) \/ Answer(t) \/ Call(t) \/ ProposeFails(t)
  BY <1>3, <1>4, <1>5 DEF Round, Answer, Call, ProposeFails, Goto, Leave, Final
<1>6. CASE Await(t) \/ Cancel(t)
  BY <1>3, <1>4, <1>6 DEF Await, Cancel, Goto, Leave, Final
<1>7. CASE Outcome(t)
  <2>1. \E result \in Final : worker' = [worker EXCEPT ![t].pc = "finish", ![t].result = result]
      BY <1>1, <1>7 DEF Outcome, At, WorkerPlaced, Final
  <2> QED  BY <1>4, <2>1
<1>8. CASE FinishFails(t)
  <2>1. Idle \in WorkerRow /\ Idle.pc = "none" /\ worker' = [worker EXCEPT ![t] = Idle]
      BY <1>8 DEF FinishFails, Idle, WorkerRow
  <2> QED  BY <1>2, <2>1, WorkerGoes
<1> QED  BY <1>5, <1>6, <1>7, <1>8

(* The process dies, a message is composed, nothing happens.                 *)
LEMMA OutsideSteps ==
    ASSUME TurnInv, Crash \/ (\E r \in Requests : Compose(r)) \/ UNCHANGED vars
    PROVE  TurnInv'
<1>1. UNCHANGED <<session, turn, action, sent>>
  BY DEF Crash, Compose, vars, rows
<1>2. RowShape' /\ RowInv'
  BY <1>1, RowsKept DEF TurnInv
<1>3. \/ UNCHANGED <<worker, exec>>
      \/ worker' = [t \in Turns |-> Idle] /\ exec' = [a \in Actions |-> "none"]
  BY DEF Crash, Compose, vars
<1>4. worker' \in [Turns -> WorkerRow] /\ exec' \in [Actions -> ExecState]
  BY <1>3 DEF TurnInv, Shape, Idle, WorkerRow, ExecState
<1>5. request' \in [Requests -> RequestRow]
  <2>1. CASE UNCHANGED request
      BY <2>1 DEF TurnInv, Shape
  <2>2. ASSUME NEW r \in Requests, Compose(r)
        PROVE  request' \in [Requests -> RequestRow]
    <3>1. \A s \in Sessions : session[s].mode \in Modes /\ session[s].version \in Nat
        BY DEF TurnInv, Shape, RowShape, SessionRow
    <3>2. \E q \in RequestRow : request' = [request EXCEPT ![r] = q]
      <4>1. CASE \E o \in Operators, m \in Modes :
                   request' = [request EXCEPT ![r] = [actor |-> o, target |-> NoOne,
                                                      mode |-> m, version |-> 0]]
          BY <4>1 DEF RequestRow
      <4>2. CASE \E o \in Operators, s \in Sessions :
                   request' = [request EXCEPT ![r] = [actor |-> o, target |-> s,
                                 mode |-> session[s].mode, version |-> session[s].version]]
          BY <3>1, <4>2 DEF RequestRow
      <4> QED  BY <2>2, <4>1, <4>2 DEF Compose
    <3> QED  BY <3>2 DEF TurnInv, Shape
  <2> QED  BY <2>1, <2>2 DEF Crash, vars
<1>6. WorkersPlaced'
  <2> SUFFICES ASSUME NEW t \in Turns  PROVE WorkerPlaced(t)'
      BY DEF WorkersPlaced
  <2>1. worker'[t] = worker[t] \/ worker'[t].pc = "none"
      BY <1>3 DEF Idle
  <2> QED  BY <1>1, <2>1 DEF TurnInv, WorkersPlaced, WorkerPlaced
<1>7. Sending'
  <2>1. \A a \in Actions : exec'[a] = exec[a] \/ exec'[a] = "none"
      BY <1>3
  <2> QED  BY <1>1, <2>1 DEF TurnInv, Sending
<1> QED  BY <1>1, <1>2, <1>4, <1>5, <1>6, <1>7 DEF TurnInv, Shape

-----------------------------------------------------------------------------
(* Steps on the actions                                                      *)

(* One action changes without going back to its proposal: its settlement or
   its goroutine.                                                            *)
LEMMA ActionGoes ==
    ASSUME TurnInv, UNCHANGED <<session, turn, request>>,
           NEW a \in Actions, action[a].status # "none",
           NEW row \in ActionRow, action' = [action EXCEPT ![a] = row],
           row.status # "none", row.session = action[a].session, row.turn = action[a].turn,
           ActionScope(a)',
           exec' \in [Actions -> ExecState], sent' \in [Actions -> Nat],
           \A b \in Actions : b # a => exec'[b] = exec[b] /\ sent'[b] = sent[b],
           sent'[a] <= 1,
           row.status = "pending" => sent'[a] = 0 /\ exec'[a] = "none",
           exec'[a] \in {"claimed", "checked"} => sent'[a] = 0
    PROVE  RowShape' /\ RowInv' /\ Sending'
           /\ \A b \in Actions : action[b].status # "none" =>
                action'[b].status # "none" /\ action'[b].turn = action[b].turn
<1>1. RowShape'
  BY DEF TurnInv, Shape, RowShape
<1>2. \A b \in Actions : action'[b] = IF b = a THEN row ELSE action[b]
  BY DEF TurnInv, Shape, RowShape
<1>3. TurnsPlaced' /\ Exclusive' /\ Matched' /\ \A t \in Turns : TurnScope(t)'
  BY DEF TurnInv, RowInv, TurnsPlaced, Exclusive, Matched, Scoped, TurnScope
<1>4. ActionsPlaced'
  BY <1>2 DEF TurnInv, RowInv, ActionsPlaced
<1>5. \A b \in Actions : ActionScope(b)'
  BY <1>2 DEF TurnInv, RowInv, Scoped, ActionScope
<1>6. Sending'
  BY <1>2 DEF TurnInv, Sending
<1> QED  BY <1>1, <1>2, <1>3, <1>4, <1>5, <1>6 DEF RowInv, Scoped

LEMMA ActionPlaced ==
    ASSUME TurnInv, UNCHANGED <<turn, worker>>,
           \A b \in Actions : action[b].status # "none" =>
             action'[b].status # "none" /\ action'[b].turn = action[b].turn
    PROVE  WorkersPlaced'
BY DEF TurnInv, WorkersPlaced, WorkerPlaced

(* An operator rejects, the time runs out, the goroutine checks, sends, waits
   and completes.                                                            *)
LEMMA ActionSteps ==
    ASSUME TurnInv, NEW a \in Actions,
           \/ Reject(a) \/ Expire(a) \/ GiveUp(a)
           \/ Check(a) \/ Send(a) \/ Return(a) \/ Complete(a)
    PROVE  TurnInv'
<1>1. /\ action \in [Actions -> ActionRow] /\ action[a] \in ActionRow
      /\ exec \in [Actions -> ExecState] /\ sent \in [Actions -> Nat]
  BY DEF TurnInv, Shape, RowShape
<1>2. /\ sent[a] <= 1 /\ (action[a].status \in {"none", "pending"} => sent[a] = 0 /\ exec[a] = "none")
      /\ (exec[a] \in {"claimed", "checked"} => sent[a] = 0)
  BY DEF TurnInv, Sending
<1>3. UNCHANGED <<session, turn, request, worker>> /\ action[a].status # "none"
  BY <1>2 DEF Reject, Expire, GiveUp, Check, Send, Return, Complete, rows
<1>4. \E status \in {action[a].status} \cup Settled : action' = [action EXCEPT ![a].status = status]
  <2>1. CASE UNCHANGED action
      BY <1>1, <2>1 DEF ActionRow
  <2>2. CASE \E status \in Settled : action' = [action EXCEPT ![a].status = status]
      BY <2>2
  <2> QED  BY <2>1, <2>2 DEF Reject, Expire, GiveUp, Check, Send, Return, Complete, Persisted, rows, Settled
<1>5. PICK status \in {action[a].status} \cup Settled : action' = [action EXCEPT ![a].status = status]
  BY <1>4
<1> DEFINE row == [action[a] EXCEPT !.status = status]
<1>6. /\ row \in ActionRow /\ row.status = status /\ row.session = action[a].session
      /\ row.turn = action[a].turn /\ row.approval = action[a].approval /\ row.stop = action[a].stop
      /\ action' = [action EXCEPT ![a] = row] /\ action'[a] = row
  BY <1>1, <1>5 DEF ActionRow
<1> HIDE DEF row
<1>7. status # "none" /\ (status \in {"pending", "running"} => status = action[a].status)
  BY <1>3, <1>5 DEF Settled
<1>8. ActionScope(a)'
  BY <1>3, <1>6, <1>7 DEF ActionScope, TurnInv, RowInv, Scoped
<1>9. /\ exec' \in [Actions -> ExecState] /\ sent' \in [Actions -> Nat]
      /\ \A b \in Actions : b # a => exec'[b] = exec[b] /\ sent'[b] = sent[b]
  BY <1>1 DEF Reject, Expire, GiveUp, Check, Send, Return, Complete, rows, ExecState
<1>10. /\ sent'[a] <= 1
       /\ exec'[a] \in {"claimed", "checked"} => sent'[a] = 0
       /\ status = "pending" => sent'[a] = 0 /\ exec'[a] = "none"
  <2>1. CASE Reject(a) \/ Expire(a) \/ GiveUp(a)
      BY <1>2, <1>7, <2>1 DEF Reject, Expire, GiveUp
  <2>2. CASE Check(a) \/ Send(a) \/ Return(a) \/ Complete(a)
      BY <1>1, <1>2, <1>7, <2>2 DEF Check, Send, Return, Complete
  <2> QED  BY <2>1, <2>2
<1>11. /\ RowShape' /\ RowInv' /\ Sending'
       /\ \A b \in Actions : action[b].status # "none" =>
            action'[b].status # "none" /\ action'[b].turn = action[b].turn
  BY <1>3, <1>6, <1>7, <1>8, <1>9, <1>10, ActionGoes
<1>12. WorkersPlaced'
  BY <1>3, <1>11, ActionPlaced
<1> QED  BY <1>3, <1>9, <1>11, <1>12 DEF TurnInv, Shape

(* An approval carries a change of the panel out, or claims a remote action.
   Under full access it is the turn's own, and its grant still stands.       *)
LEMMA ApprovedMoves ==
    ASSUME TurnInv, UNCHANGED <<session, turn, request>>,
           NEW a \in Actions, NEW approval \in {"manual", "full_access"},
           Claimable(a), Approved(a, approval),
           approval = "full_access" => FullAccess(action[a].turn)
    PROVE  /\ RowShape' /\ RowInv' /\ Sending'
           /\ exec' \in [Actions -> ExecState] /\ sent' \in [Actions -> Nat]
           /\ \A b \in Actions : action[b].status # "none" =>
                action'[b].status # "none" /\ action'[b].turn = action[b].turn
<1>1. /\ action \in [Actions -> ActionRow] /\ action[a] \in ActionRow
      /\ exec \in [Actions -> ExecState] /\ sent \in [Actions -> Nat]
  BY DEF TurnInv, Shape, RowShape
<1>2. action[a].status = "pending" /\ sent[a] = 0 /\ exec[a] = "none"
  BY DEF Claimable, TurnInv, Sending
<1>3. PICK status \in {"succeeded", "running"} :
        action' = [action EXCEPT ![a].status = status, ![a].approval = approval]
  BY DEF Approved
<1> DEFINE row == [action[a] EXCEPT !.status = status, !.approval = approval]
<1>4. /\ row \in ActionRow /\ row.status = status /\ row.session = action[a].session
      /\ row.turn = action[a].turn /\ row.approval = approval
      /\ action' = [action EXCEPT ![a] = row] /\ action'[a] = row
  BY <1>1, <1>3 DEF ActionRow, Settled
<1> HIDE DEF row
<1>5. ActionScope(a)'
  <2> SUFFICES ASSUME approval = "full_access"
               PROVE  session[action[a].session].version = turn[action[a].turn].version
      BY <1>4 DEF ActionScope
  <2>1. action[a].turn \in Turns /\ action[a].session = turn[action[a].turn].session
      BY <1>2 DEF TurnInv, RowInv, ActionsPlaced
  <2>2. TurnScope(action[a].turn)
      BY <2>1 DEF TurnInv, RowInv, Scoped
  <2> QED  BY <2>1, <2>2 DEF TurnScope, FullAccess, Live
<1>6. /\ exec' \in [Actions -> ExecState] /\ sent' \in [Actions -> Nat]
      /\ \A b \in Actions : b # a => exec'[b] = exec[b] /\ sent'[b] = sent[b]
      /\ sent'[a] <= 1 /\ (exec'[a] \in {"claimed", "checked"} => sent'[a] = 0)
  BY <1>1, <1>2 DEF Approved, ExecState
<1> QED  BY <1>2, <1>3, <1>4, <1>5, <1>6, ActionGoes

LEMMA ApproveSteps ==
    ASSUME TurnInv, \/ \E a \in Actions : Approve(a)
                    \/ \E t \in Turns : Claim(t)
    PROVE  TurnInv'
<1>1. ASSUME NEW a \in Actions, Approve(a)
      PROVE  TurnInv'
  <2>1. Claimable(a) /\ Approved(a, "manual") /\ UNCHANGED <<session, turn, request, worker>>
      BY <1>1 DEF Approve
  <2>2. /\ RowShape' /\ RowInv' /\ Sending'
        /\ exec' \in [Actions -> ExecState] /\ sent' \in [Actions -> Nat]
        /\ \A b \in Actions : action[b].status # "none" =>
             action'[b].status # "none" /\ action'[b].turn = action[b].turn
      BY <2>1, ApprovedMoves
  <2>3. WorkersPlaced'
      BY <2>1, <2>2, ActionPlaced
  <2> QED  BY <2>1, <2>2, <2>3 DEF TurnInv, Shape
<1>2. ASSUME NEW t \in Turns, Claim(t)
      PROVE  TurnInv'
  <2> DEFINE a == worker[t].action
  <2>1. /\ worker[t].pc = "claim" /\ UNCHANGED <<session, turn, request>>
        /\ worker[t] \in WorkerRow /\ worker \in [Turns -> WorkerRow]
      BY <1>2 DEF Claim, At, TurnInv, Shape
  <2>2. a \in Actions /\ action[a].turn = t /\ action[a].status # "none"
      BY <2>1 DEF TurnInv, WorkersPlaced, WorkerPlaced
  <2>3. CASE Claimable(a) /\ FullAccess(t) /\ Approved(a, "full_access") /\ Goto(t, "await")
    <3>1. /\ RowShape' /\ RowInv' /\ Sending'
          /\ exec' \in [Actions -> ExecState] /\ sent' \in [Actions -> Nat]
          /\ \A b \in Actions : action[b].status # "none" =>
               action'[b].status # "none" /\ action'[b].turn = action[b].turn
        BY <2>1, <2>2, <2>3, ApprovedMoves
    <3>2. /\ worker' \in [Turns -> WorkerRow]
          /\ \A v \in Turns : v # t => worker'[v] = worker[v]
          /\ worker'[t].pc = "await" /\ worker'[t].action = a
        BY <2>1, <2>3 DEF Goto, WorkerRow
    <3>3. ASSUME NEW v \in Turns
          PROVE  WorkerPlaced(v)'
      <4>1. WorkerPlaced(v)
          BY DEF TurnInv, WorkersPlaced
      <4>2. CASE v = t
          BY <2>1, <2>2, <3>1, <3>2, <4>1, <4>2 DEF WorkerPlaced
      <4>3. CASE v # t
          BY <2>1, <3>1, <3>2, <4>1, <4>3 DEF WorkerPlaced
      <4> QED  BY <4>2, <4>3
    <3> QED  BY <2>1, <3>1, <3>2, <3>3 DEF TurnInv, Shape, WorkersPlaced
  <2>4. CASE Leave(t, "failed") /\ UNCHANGED <<action, exec, sent>>
    <3> DEFINE w == [worker[t] EXCEPT !.pc = "end", !.result = "failed"]
    <3>1. w \in WorkerRow /\ w.pc = "end" /\ w.result = "failed" /\ worker' = [worker EXCEPT ![t] = w]
        BY <2>1, <2>4 DEF WorkerRow, Leave, Final
    <3>2. "failed" \in Final
        BY DEF Final
    <3> HIDE DEF w
    <3> QED  BY <2>1, <2>4, <3>1, <3>2, WorkerGoes
  <2> QED  BY <1>2, <2>3, <2>4 DEF Claim
<1> QED  BY <1>1, <1>2

(* A proposal is written down for the session of its turn.                   *)
LEMMA ProposeSteps ==
    ASSUME TurnInv, NEW t \in Turns, Propose(t)
    PROVE  TurnInv'
<1>1. PICK a \in Actions, k \in {"panel", "remote"} :
        /\ action[a] = NoAction
        /\ action' = [action EXCEPT ![a] = [NoAction EXCEPT !.status = "pending", !.kind = k,
                                               !.session = turn[t].session, !.turn = t]]
        /\ worker' = [worker EXCEPT ![t] =
                        IF turn[t].full THEN [@ EXCEPT !.pc = "claim", !.action = a]
                        ELSE [@ EXCEPT !.pc = "end",
                                !.result = IF Live(t) THEN "pending" ELSE "failed"]]
  BY DEF Propose
<1>2. UNCHANGED <<session, turn, request, exec, sent>> /\ worker[t].pc = "propose"
  BY DEF Propose, At
<1>3. turn[t].status # "none" /\ turn[t].session \in Sessions
  BY <1>2 DEF TurnInv, WorkersPlaced, WorkerPlaced, RowInv, TurnsPlaced
<1> DEFINE row == [NoAction EXCEPT !.status = "pending", !.kind = k,
                     !.session = turn[t].session, !.turn = t]
<1>4. row \in ActionRow /\ row.status = "pending" /\ row.session = turn[t].session /\ row.turn = t
  BY <1>3 DEF NoAction, ActionRow
<1>5. action' \in [Actions -> ActionRow] /\ \A b \in Actions : action'[b] = IF b = a THEN row ELSE action[b]
  BY <1>1, <1>4 DEF TurnInv, Shape, RowShape
<1> HIDE DEF row
<1>6. action[a].status = "none"
  BY <1>1 DEF NoAction
<1>7. RowShape'
  BY <1>2, <1>5 DEF TurnInv, Shape, RowShape
<1>8. RowInv'
  <2>1. TurnsPlaced' /\ Exclusive' /\ Matched' /\ \A v \in Turns : TurnScope(v)'
      BY <1>2 DEF TurnInv, RowInv, TurnsPlaced, Exclusive, Matched, Scoped, TurnScope
  <2>2. ActionsPlaced'
      BY <1>2, <1>3, <1>4, <1>5 DEF TurnInv, RowInv, ActionsPlaced
  <2>3. \A b \in Actions : ActionScope(b)'
      BY <1>2, <1>4, <1>5 DEF TurnInv, RowInv, Scoped, ActionScope
  <2> QED  BY <2>1, <2>2, <2>3 DEF RowInv, Scoped
<1>9. \E w \in WorkerRow :
        /\ worker' = [worker EXCEPT ![t] = w]
        /\ \/ w.pc = "claim" /\ w.action = a
           \/ w.pc = "end" /\ w.result \in Final
  <2>1. worker[t] \in WorkerRow
      BY DEF TurnInv, Shape
  <2>2. CASE turn[t].full
    <3>1. [worker[t] EXCEPT !.pc = "claim", !.action = a] \in WorkerRow
        BY <2>1 DEF WorkerRow
    <3>2. worker' = [worker EXCEPT ![t] = [worker[t] EXCEPT !.pc = "claim", !.action = a]]
        BY <1>1, <2>2
    <3> QED  BY <2>1, <3>1, <3>2 DEF WorkerRow
  <2>3. CASE ~turn[t].full
    <3> DEFINE result == IF Live(t) THEN "pending" ELSE "failed"
    <3>1. [worker[t] EXCEPT !.pc = "end", !.result = result] \in WorkerRow /\ result \in Final
        BY <2>1 DEF WorkerRow, Final
    <3>2. worker' = [worker EXCEPT ![t] = [worker[t] EXCEPT !.pc = "end", !.result = result]]
        BY <1>1, <2>3
    <3> HIDE DEF result
    <3> QED  BY <2>1, <3>1, <3>2 DEF WorkerRow
  <2> QED  BY <2>2, <2>3
<1>10. PICK w \in WorkerRow :
         /\ worker' = [worker EXCEPT ![t] = w]
         /\ \/ w.pc = "claim" /\ w.action = a
            \/ w.pc = "end" /\ w.result \in Final
  BY <1>9
<1>11. worker' \in [Turns -> WorkerRow] /\ \A v \in Turns : worker'[v] = IF v = t THEN w ELSE worker[v]
  BY <1>10 DEF TurnInv, Shape
<1>12. ASSUME NEW v \in Turns
       PROVE  WorkerPlaced(v)'
  <2>1. WorkerPlaced(v)
      BY DEF TurnInv, WorkersPlaced
  <2>2. CASE v = t
      BY <1>2, <1>3, <1>4, <1>5, <1>10, <1>11, <2>2 DEF WorkerPlaced
  <2>3. CASE v # t
      BY <1>2, <1>5, <1>6, <1>11, <2>1, <2>3 DEF WorkerPlaced
  <2> QED  BY <2>2, <2>3
<1>13. Sending'
  BY <1>2, <1>4, <1>5, <1>6 DEF TurnInv, Sending
<1> QED  BY <1>2, <1>7, <1>8, <1>11, <1>12, <1>13 DEF TurnInv, Shape, WorkersPlaced

-----------------------------------------------------------------------------
(* Steps on sessions and turns                                               *)

(* Workers and commands look at the rows through these alone.                *)
LEMMA RestKept ==
    ASSUME TurnInv, RowShape', UNCHANGED <<request, worker, exec, sent>>,
           \A t \in Turns : turn[t].status # "none" => turn'[t].status # "none",
           \A a \in Actions : action'[a].status = action[a].status /\ action'[a].turn = action[a].turn
    PROVE  Shape' /\ WorkersPlaced' /\ Sending'
<1>1. Shape'
  BY DEF TurnInv, Shape
<1>2. WorkersPlaced'
  BY DEF TurnInv, WorkersPlaced, WorkerPlaced
<1>3. Sending'
  BY DEF TurnInv, Sending
<1> QED  BY <1>1, <1>2, <1>3

(* Stop flags are raised, access changes under a new version, and what ran by
   itself under the old one is stopped.                                      *)
LEMMA AccessSteps ==
    ASSUME TurnInv, \/ \E s \in Sessions : StopSession(s)
                    \/ \E s \in Sessions, o \in Operators, m \in Modes : SetAccessMode(s, o, m)
    PROVE  TurnInv'
<1>1. RowShape /\ RowInv
  BY DEF TurnInv, Shape
<1>2. ASSUME NEW s \in Sessions, StopSession(s)
      PROVE  TurnInv'
  <2>1. UNCHANGED <<session, request, worker, exec, sent>>
      BY <1>2 DEF StopSession
  <2>2. /\ turn' \in [Turns -> TurnRow]
        /\ \A t \in Turns : turn'[t] = turn[t] \/ turn'[t] = [turn[t] EXCEPT !.stop = TRUE]
      BY <1>1, <1>2, ZenonT(60) DEF StopSession, RowShape, TurnRow
  <2>3. /\ action' \in [Actions -> ActionRow]
        /\ \A a \in Actions : action'[a] = action[a] \/ action'[a] = [action[a] EXCEPT !.stop = TRUE]
      BY <1>1, <1>2, ZenonT(60) DEF StopSession, RowShape, ActionRow
  <2>4. \A t \in Turns : /\ turn'[t].status = turn[t].status /\ turn'[t].session = turn[t].session
                         /\ turn'[t].full = turn[t].full /\ turn'[t].version = turn[t].version
                         /\ turn'[t].actor = turn[t].actor /\ (turn[t].stop => turn'[t].stop)
      BY <1>1, <2>2 DEF RowShape, TurnRow
  <2>5. \A a \in Actions : /\ action'[a].status = action[a].status /\ action'[a].turn = action[a].turn
                           /\ action'[a].session = action[a].session
                           /\ action'[a].approval = action[a].approval
                           /\ (action[a].stop => action'[a].stop)
      BY <1>1, <2>3 DEF RowShape, ActionRow
  <2>6. RowShape' /\ RowInv'
    <3>1. TurnsPlaced' /\ ActionsPlaced' /\ Exclusive' /\ Matched'
        BY <1>1, <2>1, <2>4, <2>5 DEF RowInv, TurnsPlaced, ActionsPlaced, Exclusive, Matched
    <3>2. \A t \in Turns : TurnScope(t)'
        BY <1>1, <2>1, <2>4 DEF RowInv, Scoped, TurnScope
    <3>3. \A a \in Actions : ActionScope(a)'
        BY <1>1, <2>1, <2>4, <2>5 DEF RowInv, ActionsPlaced, Scoped, ActionScope
    <3> QED  BY <1>1, <2>1, <2>2, <2>3, <3>1, <3>2, <3>3 DEF RowShape, RowInv, Scoped
  <2>7. Shape' /\ WorkersPlaced' /\ Sending'
      BY <2>1, <2>4, <2>5, <2>6, RestKept
  <2> QED  BY <2>6, <2>7 DEF TurnInv
<1>3. ASSUME NEW s \in Sessions, NEW o \in Operators, NEW m \in Modes, SetAccessMode(s, o, m)
      PROVE  TurnInv'
  <2>1. UNCHANGED <<request, worker, exec, sent>> /\ session[s].status # "none"
      BY <1>3 DEF SetAccessMode
  <2>2. /\ session' \in [Sessions -> SessionRow]
        /\ \A k \in Sessions : session'[k].status = session[k].status /\ (k # s => session'[k] = session[k])
    <3> DEFINE by == IF m = "full" THEN o ELSE NoOne
               version == session[s].version + 1
               row == [session[s] EXCEPT !.mode = m, !.version = version, !.by = by]
    <3>1. session[s] \in SessionRow /\ session \in [Sessions -> SessionRow]
        BY <1>1 DEF RowShape
    <3>2. row \in SessionRow /\ row.status = session[s].status
      <4>1. by \in Operators \cup {NoOne} /\ version \in Nat
          BY <3>1 DEF SessionRow
      <4> HIDE DEF by, version
      <4> QED  BY <3>1, <4>1 DEF SessionRow
    <3>3. session' = [session EXCEPT ![s] = row]
        BY <1>3, ZenonT(60) DEF SetAccessMode
    <3> HIDE DEF row
    <3> QED  BY <3>1, <3>2, <3>3
  <2>3. /\ turn' \in [Turns -> TurnRow]
        /\ \A t \in Turns : \/ turn'[t] = turn[t]
                            \/ turn'[t] = [turn[t] EXCEPT !.stop = TRUE]
    <3>1. turn' = [t \in Turns |->
                     IF m = "standard" /\ t \in RunningTurns(s) /\ turn[t].full
                     THEN [turn[t] EXCEPT !.stop = TRUE] ELSE turn[t]]
        BY <1>3 DEF SetAccessMode
    <3>2. \A t \in Turns : turn[t] \in TurnRow /\ [turn[t] EXCEPT !.stop = TRUE] \in TurnRow
        BY <1>1 DEF RowShape, TurnRow
    <3> QED  BY <3>1, <3>2
  <2>4. /\ action' \in [Actions -> ActionRow]
        /\ \A a \in Actions : \/ action'[a] = action[a]
                              \/ action'[a] = [action[a] EXCEPT !.stop = TRUE]
    <3>1. action' = [a \in Actions |->
                       IF m = "standard" /\ a \in RunningActions(s) /\ action[a].approval = "full_access"
                       THEN [action[a] EXCEPT !.stop = TRUE] ELSE action[a]]
        BY <1>3 DEF SetAccessMode
    <3>2. \A a \in Actions : action[a] \in ActionRow /\ [action[a] EXCEPT !.stop = TRUE] \in ActionRow
        BY <1>1 DEF RowShape, ActionRow
    <3> QED  BY <3>1, <3>2
  <2>5. \A t \in Turns : /\ turn'[t].status = turn[t].status /\ turn'[t].session = turn[t].session
                         /\ turn'[t].full = turn[t].full /\ turn'[t].version = turn[t].version
                         /\ turn'[t].actor = turn[t].actor /\ (turn[t].stop => turn'[t].stop)
      BY <1>1, <2>3 DEF RowShape, TurnRow
  <2>6. \A a \in Actions : /\ action'[a].status = action[a].status /\ action'[a].turn = action[a].turn
                           /\ action'[a].session = action[a].session
                           /\ action'[a].approval = action[a].approval
                           /\ (action[a].stop => action'[a].stop)
      BY <1>1, <2>4 DEF RowShape, ActionRow
  <2>7. ASSUME NEW t \in Turns, turn[t].status = "running", turn[t].session = s, turn[t].full
        PROVE  turn'[t].stop
    <3>1. m = "standard" /\ t \in RunningTurns(s)
        BY <1>3, <2>7 DEF SetAccessMode, RunningTurns, Modes
    <3>2. turn'[t] = [turn[t] EXCEPT !.stop = TRUE]
        BY <1>3, <2>7, <3>1 DEF SetAccessMode
    <3> QED  BY <1>1, <3>2 DEF RowShape, TurnRow
  <2>8. ASSUME NEW a \in Actions, action[a].status = "running", action[a].session = s,
               action[a].approval = "full_access"
        PROVE  action'[a].stop
    <3>1. m = "standard" /\ a \in RunningActions(s)
        BY <1>3, <2>8 DEF SetAccessMode, RunningActions, Modes
    <3>2. action'[a] = [action[a] EXCEPT !.stop = TRUE]
        BY <1>3, <2>8, <3>1 DEF SetAccessMode
    <3> QED  BY <1>1, <3>2 DEF RowShape, ActionRow
  <2>9. TurnsPlaced' /\ ActionsPlaced' /\ Exclusive' /\ Matched'
      BY <1>1, <2>2, <2>5, <2>6 DEF RowInv, TurnsPlaced, ActionsPlaced, Exclusive, Matched
  <2>10. ASSUME NEW t \in Turns
         PROVE  TurnScope(t)'
    <3>1. TurnScope(t) /\ (turn[t].status = "running" => turn[t].session \in Sessions)
        BY <1>1 DEF RowInv, Scoped, TurnsPlaced
    <3> QED  BY <2>2, <2>5, <2>7, <3>1 DEF TurnScope
  <2>11. ASSUME NEW a \in Actions
         PROVE  ActionScope(a)'
    <3>1. /\ ActionScope(a)
          /\ action[a].status = "running" => action[a].turn \in Turns /\ action[a].session \in Sessions
        BY <1>1 DEF RowInv, Scoped, TurnsPlaced, ActionsPlaced
    <3> QED  BY <2>2, <2>5, <2>6, <2>8, <3>1 DEF ActionScope
  <2>12. RowShape' /\ RowInv'
      BY <2>2, <2>3, <2>4, <2>9, <2>10, <2>11 DEF RowShape, RowInv, Scoped
  <2>13. Shape' /\ WorkersPlaced' /\ Sending'
      BY <2>1, <2>5, <2>6, <2>12, RestKept
  <2> QED  BY <2>12, <2>13 DEF TurnInv
<1> QED  BY <1>2, <1>3

(* What expiring leaves: rows of the same scope; a turn still runs when its
   lease does, and a session when such a turn of it does.                    *)
LEMMA ExpiredRows ==
    ASSUME TurnInv
    PROVE  /\ ExpiredTurns \in [Turns -> TurnRow] /\ FreedSessions \in [Sessions -> SessionRow]
           /\ \A t \in Turns :
                /\ ExpiredTurns[t].status = "running" <=> Live(t)
                /\ ExpiredTurns[t].status = "none" <=> turn[t].status = "none"
                /\ ExpiredTurns[t].session = turn[t].session /\ ExpiredTurns[t].full = turn[t].full
                /\ ExpiredTurns[t].stop = turn[t].stop /\ ExpiredTurns[t].actor = turn[t].actor
                /\ ExpiredTurns[t].version = turn[t].version
           /\ \A s \in Sessions :
                /\ FreedSessions[s].status = "none" <=> session[s].status = "none"
                /\ FreedSessions[s].mode = session[s].mode /\ FreedSessions[s].by = session[s].by
                /\ FreedSessions[s].version = session[s].version
                /\ FreedSessions[s].status = "running"
                     <=> \E t \in Turns : Live(t) /\ turn[t].session = s
<1>1. turn \in [Turns -> TurnRow] /\ session \in [Sessions -> SessionRow]
  BY DEF TurnInv, Shape, RowShape
<1>2. ASSUME NEW t \in Turns
      PROVE  /\ ExpiredTurns[t] \in TurnRow
             /\ ExpiredTurns[t].status = "running" <=> Live(t)
             /\ ExpiredTurns[t].status = "none" <=> turn[t].status = "none"
             /\ ExpiredTurns[t].session = turn[t].session /\ ExpiredTurns[t].full = turn[t].full
             /\ ExpiredTurns[t].stop = turn[t].stop /\ ExpiredTurns[t].actor = turn[t].actor
             /\ ExpiredTurns[t].version = turn[t].version
  <2>1. turn[t] \in TurnRow
      BY <1>1
  <2>2. CASE t \in Abandoned
    <3>1. ExpiredTurns[t] = [turn[t] EXCEPT !.status = "interrupted"] /\ turn[t].status = "running" /\ ~Live(t)
        BY <2>2 DEF ExpiredTurns, Abandoned, Live
    <3> QED  BY <2>1, <3>1 DEF TurnRow, Final
  <2>3. CASE t \notin Abandoned
      BY <2>1, <2>3 DEF ExpiredTurns, Abandoned, Live, TurnRow
  <2> QED  BY <2>2, <2>3
<1>3. ASSUME NEW s \in Sessions
      PROVE  /\ FreedSessions[s] \in SessionRow
             /\ FreedSessions[s].status = "none" <=> session[s].status = "none"
             /\ FreedSessions[s].mode = session[s].mode /\ FreedSessions[s].by = session[s].by
             /\ FreedSessions[s].version = session[s].version
             /\ FreedSessions[s].status = "running"
                  <=> \E t \in Turns : Live(t) /\ turn[t].session = s
  <2>1. session[s] \in SessionRow
      BY <1>1
  <2>2. session[s].status = "running" <=> \E t \in Turns : turn[t].status = "running" /\ turn[t].session = s
      BY DEF TurnInv, RowInv, Matched
  <2>3. CASE \E t \in Abandoned : turn[t].session = s
    <3>1. PICK t \in Abandoned : turn[t].session = s
        BY <2>3
    <3>2. t \in Turns /\ turn[t].status = "running" /\ ~turn[t].leased
        BY DEF Abandoned
    <3>3. ~\E u \in Turns : Live(u) /\ turn[u].session = s
        BY <3>1, <3>2 DEF Live, TurnInv, RowInv, Exclusive
    <3>4. FreedSessions[s] = [session[s] EXCEPT !.status = "idle"]
        BY <2>3 DEF FreedSessions
    <3>5. session[s].status = "running"
        BY <2>2, <3>1, <3>2
    <3> QED  BY <2>1, <3>3, <3>4, <3>5 DEF SessionRow
  <2>4. CASE ~\E t \in Abandoned : turn[t].session = s
    <3>1. FreedSessions[s] = session[s]
        BY <2>4 DEF FreedSessions
    <3>2. \A t \in Turns : turn[t].status = "running" /\ turn[t].session = s => Live(t)
        BY <2>4 DEF Abandoned, Live
    <3> QED  BY <2>1, <2>2, <3>1, <3>2 DEF Live
  <2> QED  BY <2>3, <2>4
<1>4. ExpiredTurns = [t \in Turns |-> ExpiredTurns[t]] /\ FreedSessions = [s \in Sessions |-> FreedSessions[s]]
  BY DEF ExpiredTurns, FreedSessions
<1> QED  BY <1>2, <1>3, <1>4

(* A list of the sessions first ends what was abandoned; a lease runs out; a
   turn is finished by its worker, unless it has ended before.               *)
LEMMA EndSteps ==
    ASSUME TurnInv, ListSessions \/ \E t \in Turns : LeaseExpires(t) \/ FinishTurn(t)
    PROVE  TurnInv'
<1>1. /\ turn \in [Turns -> TurnRow] /\ session \in [Sessions -> SessionRow]
      /\ worker \in [Turns -> WorkerRow] /\ RowShape /\ RowInv
  BY DEF TurnInv, Shape, RowShape
<1>2. UNCHANGED <<action, request, exec, sent>>
  BY DEF ListSessions, LeaseExpires, FinishTurn
<1> DEFINE Weaker(t) == /\ turn'[t].status = "running" => turn[t].status = "running"
                        /\ turn'[t].status = "none" <=> turn[t].status = "none"
                        /\ turn'[t].session = turn[t].session /\ turn'[t].full = turn[t].full
                        /\ turn'[t].stop = turn[t].stop /\ turn'[t].actor = turn[t].actor
                        /\ turn'[t].version = turn[t].version
           Same(s) == /\ session'[s].status = "none" <=> session[s].status = "none"
                      /\ session'[s].mode = session[s].mode /\ session'[s].by = session[s].by
                      /\ session'[s].version = session[s].version
(* These are all that matters of such a step.                                *)
<1>3. ASSUME turn' \in [Turns -> TurnRow], session' \in [Sessions -> SessionRow],
             \A t \in Turns : Weaker(t), \A s \in Sessions : Same(s), Matched'
      PROVE  RowShape' /\ RowInv'
  <2>1. TurnsPlaced' /\ ActionsPlaced' /\ Exclusive'
      BY <1>1, <1>2, <1>3 DEF RowInv, TurnsPlaced, ActionsPlaced, Exclusive
  <2>2. ASSUME NEW t \in Turns
        PROVE  TurnScope(t)'
      BY <1>1, <1>3 DEF RowInv, TurnsPlaced, Scoped, TurnScope
  <2>3. ASSUME NEW a \in Actions
        PROVE  ActionScope(a)'
    <3>1. /\ ActionScope(a) /\ action'[a] = action[a]
          /\ action[a].status = "running" => action[a].turn \in Turns /\ action[a].session \in Sessions
        BY <1>1, <1>2 DEF RowInv, Scoped, TurnsPlaced, ActionsPlaced
    <3> QED  BY <1>3, <3>1 DEF ActionScope
  <2> QED  BY <1>1, <1>2, <1>3, <2>1, <2>2, <2>3 DEF RowShape, RowInv, Scoped
<1>4. CASE ListSessions
  <2>1. turn' = ExpiredTurns /\ session' = FreedSessions /\ UNCHANGED worker
      BY <1>4 DEF ListSessions
  <2>2. (\A t \in Turns : Weaker(t)) /\ (\A s \in Sessions : Same(s))
      BY <2>1, ExpiredRows DEF Live
  <2>3. Matched'
      BY <2>1, ExpiredRows DEF Matched
  <2>4. RowShape' /\ RowInv'
      BY <1>3, <2>1, <2>2, <2>3, ExpiredRows
  <2> QED  BY <1>2, <2>1, <2>2, <2>4, RestKept DEF TurnInv
<1>5. ASSUME NEW t \in Turns, LeaseExpires(t)
      PROVE  TurnInv'
  <2>1. turn' = [turn EXCEPT ![t].leased = FALSE] /\ UNCHANGED <<session, worker>>
      BY <1>5 DEF LeaseExpires
  <2>2. turn' \in [Turns -> TurnRow] /\ \A v \in Turns : Weaker(v) /\ turn'[v].status = turn[v].status
      BY <1>1, <2>1, ZenonT(60) DEF TurnRow
  <2>3. Matched'
      BY <1>1, <2>1, <2>2 DEF RowInv, Matched
  <2>4. RowShape' /\ RowInv'
      BY <1>1, <1>3, <2>1, <2>2, <2>3
  <2> QED  BY <1>2, <2>1, <2>2, <2>4, RestKept DEF TurnInv
<1>6. ASSUME NEW t \in Turns, FinishTurn(t)
      PROVE  TurnInv'
  <2>1. worker' = [worker EXCEPT ![t] = Idle] /\ worker[t].pc = "finish" /\ worker[t].result \in Final
      BY <1>6 DEF FinishTurn, At, TurnInv, WorkersPlaced, WorkerPlaced
  <2>2. RowShape' /\ RowInv' /\ \A v \in Turns : turn[v].status # "none" => turn'[v].status # "none"
    <3>1. CASE turn[t].status # "running"
      <4>1. UNCHANGED <<session, turn, action>>
          BY <1>2, <1>6, <3>1 DEF FinishTurn
      <4> QED  BY <4>1, RowsKept DEF TurnInv
    <3>2. CASE turn[t].status = "running"
      <4> DEFINE k == turn[t].session
      <4>1. /\ turn' = [turn EXCEPT ![t].status = worker[t].result]
            /\ session' = [session EXCEPT ![k].status = "idle"]
          BY <1>6, <3>2 DEF FinishTurn
      <4>2. k \in Sessions /\ session[k].status = "running"
          BY <1>1, <3>2 DEF RowInv, TurnsPlaced, Matched
      <4>3. /\ turn' \in [Turns -> TurnRow] /\ turn'[t].status \in Final
            /\ \A v \in Turns : Weaker(v) /\ (v # t => turn'[v].status = turn[v].status)
          BY <1>1, <2>1, <3>2, <4>1 DEF TurnRow, Final
      <4>4. /\ session' \in [Sessions -> SessionRow] /\ session'[k].status = "idle"
            /\ \A s \in Sessions : Same(s) /\ (s # k => session'[s].status = session[s].status)
          BY <1>1, <4>1, <4>2 DEF SessionRow
      <4>5. \A v \in Turns : turn'[v].status = "running" <=> turn[v].status = "running" /\ v # t
          BY <4>3 DEF Final
      <4>6. ASSUME NEW s \in Sessions
            PROVE  session'[s].status = "running"
                     <=> \E v \in Turns : turn'[v].status = "running" /\ turn'[v].session = s
          BY <1>1, <3>2, <4>2, <4>3, <4>4, <4>5, <4>6 DEF RowInv, Matched, Exclusive
      <4> QED  BY <1>3, <4>3, <4>4, <4>6 DEF Matched
    <3> QED  BY <3>1, <3>2
  <2>3. Shape'
      BY <1>1, <1>2, <2>1, <2>2 DEF TurnInv, Shape, Idle, WorkerRow
  <2>4. ASSUME NEW v \in Turns
        PROVE  WorkerPlaced(v)'
    <3>1. worker'[v] = worker[v] \/ worker'[v].pc = "none"
        BY <1>1, <2>1 DEF Idle
    <3> QED  BY <1>2, <2>2, <3>1 DEF TurnInv, WorkersPlaced, WorkerPlaced
  <2>5. Sending'
      BY <1>2 DEF TurnInv, Sending
  <2> QED  BY <2>2, <2>3, <2>4, <2>5 DEF TurnInv, WorkersPlaced
<1> QED  BY <1>4, <1>5, <1>6

(* A message opens a turn under the access its sender saw, in a session where
   nothing runs.                                                             *)
LEMMA SendSteps ==
    ASSUME TurnInv, NEW r \in Requests, SendMessage(r)
    PROVE  TurnInv'
<1> DEFINE q == request[r]
<1>1. PICK s \in Sessions, t \in Turns :
        /\ Accepts(s, q) /\ turn[t] = NoTurn
        /\ session' = [FreedSessions EXCEPT ![s] = Opened(s, q)]
        /\ turn' = [ExpiredTurns EXCEPT ![t] =
                      [status |-> "running", request |-> r, session |-> s,
                       actor |-> q.actor, full |-> q.mode = "full", stop |-> FALSE,
                       leased |-> TRUE, version |-> Opened(s, q).version]]
        /\ worker' = [worker EXCEPT ![t] = [Idle EXCEPT !.pc = "round"]]
  BY DEF SendMessage
<1>2. UNCHANGED <<action, request, exec, sent>>
  BY DEF SendMessage
<1>3. /\ RowShape /\ RowInv /\ worker \in [Turns -> WorkerRow] /\ q \in RequestRow
      /\ session[s] \in SessionRow
  BY DEF TurnInv, Shape, RowShape
<1> DEFINE opened == Opened(s, q)
           new == [status |-> "running", request |-> r, session |-> s,
                   actor |-> q.actor, full |-> q.mode = "full", stop |-> FALSE,
                   leased |-> TRUE, version |-> opened.version]
(* The session keeps its scope, which is the scope of the message.           *)
<1>4. /\ opened \in SessionRow /\ opened.status = "running"
      /\ q.mode = "full" => opened.mode = "full" /\ opened.by = q.actor
      /\ session[s].status # "none" => /\ opened.mode = session[s].mode /\ opened.by = session[s].by
                                      /\ opened.version = session[s].version
  <2>1. CASE q.target = NoOne
      BY <1>1, <1>3, <2>1 DEF Accepts, Opened, NoSession, SessionRow, RequestRow
  <2>2. CASE q.target # NoOne
    <3>1. opened = [session[s] EXCEPT !.status = "running"]
        BY <2>2 DEF Opened
    <3>2. session[s].mode = q.mode /\ (q.mode = "full" => session[s].by = q.actor)
        BY <1>1, <2>2 DEF Accepts
    <3> QED  BY <1>3, <3>1, <3>2 DEF SessionRow
  <2> QED  BY <2>1, <2>2
<1> HIDE DEF opened
<1>5. new \in TurnRow
  BY <1>3, <1>4 DEF TurnRow, RequestRow, SessionRow
<1>6. turn[t].status = "none"
  BY <1>1 DEF NoTurn
(* Nothing runs there any more.                                              *)
<1>7. ~\E v \in Turns : Live(v) /\ turn[v].session = s
  <2>1. FreedSessions[s].status # "running"
      BY <1>1, <1>3, ExpiredRows DEF Accepts, NoSession
  <2> QED  BY <2>1, ExpiredRows
<1>8. /\ turn' \in [Turns -> TurnRow] /\ session' \in [Sessions -> SessionRow]
      /\ turn'[t] = new /\ \A v \in Turns : v # t => turn'[v] = ExpiredTurns[v]
      /\ session'[s] = opened /\ \A k \in Sessions : k # s => session'[k] = FreedSessions[k]
  BY <1>1, <1>4, <1>5, ExpiredRows DEF opened
<1>9. /\ new.status = "running" /\ new.session = s /\ new.actor = q.actor
      /\ new.full <=> q.mode = "full"
      /\ new.version = opened.version
  OBVIOUS
<1> HIDE DEF new
(* What holds of the other rows after they expired.                          *)
<1>10. \A v \in Turns : v # t =>
         /\ turn'[v].status = "running" <=> Live(v)
         /\ turn'[v].status = "none" <=> turn[v].status = "none"
         /\ turn'[v].session = turn[v].session /\ turn'[v].full = turn[v].full
         /\ turn'[v].stop = turn[v].stop /\ turn'[v].actor = turn[v].actor
         /\ turn'[v].version = turn[v].version
  BY <1>8, ExpiredRows
<1>11. \A k \in Sessions :
         /\ session[k].status # "none" =>
              /\ session'[k].status # "none" /\ session'[k].mode = session[k].mode
              /\ session'[k].by = session[k].by /\ session'[k].version = session[k].version
         /\ k # s => (session'[k].status = "running"
                        <=> \E v \in Turns : Live(v) /\ turn[v].session = k)
  BY <1>4, <1>8, ExpiredRows
<1>12. TurnsPlaced'
  BY <1>3, <1>4, <1>8, <1>9, <1>10, <1>11 DEF RowInv, TurnsPlaced
<1>13. \A a \in Actions : action[a].status # "none" =>
         /\ action[a].turn \in Turns /\ action[a].turn # t /\ action[a].session \in Sessions
         /\ session[action[a].session].status # "none"
  BY <1>3, <1>6 DEF RowInv, ActionsPlaced, TurnsPlaced
<1>14. ActionsPlaced'
  BY <1>2, <1>3, <1>10, <1>13 DEF RowInv, ActionsPlaced
<1>15. Exclusive'
  <2> SUFFICES ASSUME NEW v \in Turns, NEW w \in Turns, turn'[v].status = "running",
                      turn'[w].status = "running", turn'[v].session = turn'[w].session
               PROVE  v = w
      BY DEF Exclusive
  <2>1. CASE v = t \/ w = t
      BY <1>7, <1>8, <1>9, <1>10, <2>1
  <2>2. CASE v # t /\ w # t
      BY <1>3, <1>10, <2>2 DEF RowInv, Exclusive, Live
  <2> QED  BY <2>1, <2>2
<1>16. Matched'
  <2> SUFFICES ASSUME NEW k \in Sessions
               PROVE  session'[k].status = "running"
                        <=> \E v \in Turns : turn'[v].status = "running" /\ turn'[v].session = k
      BY DEF Matched
  <2>1. CASE k = s
      BY <1>4, <1>8, <1>9, <2>1
  <2>2. CASE k # s
    <3>1. ~Live(t)
        BY <1>6 DEF Live
    <3> QED  BY <1>8, <1>9, <1>10, <1>11, <2>2, <3>1
  <2> QED  BY <2>1, <2>2
<1>17. ASSUME NEW v \in Turns
       PROVE  TurnScope(v)'
  <2>1. CASE v = t
      BY <1>4, <1>8, <1>9, <2>1 DEF TurnScope
  <2>2. CASE v # t
    <3>1. /\ TurnScope(v)
          /\ turn[v].status = "running" => turn[v].session \in Sessions /\ session[turn[v].session].status # "none"
        BY <1>3 DEF RowInv, Scoped, TurnsPlaced
    <3> QED  BY <1>10, <1>11, <2>2, <3>1 DEF TurnScope, Live
  <2> QED  BY <2>1, <2>2
<1>18. ASSUME NEW a \in Actions
       PROVE  ActionScope(a)'
  <2>1. ActionScope(a) /\ action'[a] = action[a]
      BY <1>2, <1>3 DEF RowInv, Scoped
  <2> QED  BY <1>10, <1>11, <1>13, <2>1 DEF ActionScope
<1>19. RowShape' /\ RowInv'
  BY <1>2, <1>3, <1>8, <1>12, <1>14, <1>15, <1>16, <1>17, <1>18 DEF RowShape, RowInv, Scoped
<1>20. worker' \in [Turns -> WorkerRow] /\ worker'[t].pc = "round" /\ \A v \in Turns : v # t => worker'[v] = worker[v]
  BY <1>1, <1>3 DEF Idle, WorkerRow
<1>21. ASSUME NEW v \in Turns
       PROVE  WorkerPlaced(v)'
  <2>1. CASE v = t
      BY <1>8, <1>9, <1>20, <2>1 DEF WorkerPlaced
  <2>2. CASE v # t
      BY <1>2, <1>10, <1>20, <2>2 DEF TurnInv, WorkersPlaced, WorkerPlaced
  <2> QED  BY <2>1, <2>2
<1>22. Sending'
  BY <1>2 DEF TurnInv, Sending
<1> QED  BY <1>2, <1>19, <1>20, <1>21, <1>22 DEF TurnInv, Shape, WorkersPlaced

-----------------------------------------------------------------------------
(* The theorems                                                              *)

(* The rows of sessions, turns and actions agree with each other and with the
   goroutines, through crashes, lapsed leases and revoked access (aiops).    *)
THEOREM TurnInvHolds == Spec => []TurnInv
<1>1. Init => TurnInv
  BY TurnInit
<1>2. TurnInv /\ [Next]_vars => TurnInv'
  <2> SUFFICES ASSUME TurnInv, [Next]_vars  PROVE TurnInv'
      OBVIOUS
  <2> QED
    BY WorkerSteps, OutsideSteps, ActionSteps, ApproveSteps, ProposeSteps, AccessSteps, EndSteps,
       SendSteps DEF Next
<1> QED  BY <1>1, <1>2, PTL DEF Spec

(* A session runs exactly while one turn of it does (finishTurn, expireTurns). *)
THEOREM SessionMatchesTurnHolds == Spec => []SessionMatchesTurn
BY TurnInvHolds, TurnImplied, PTL

(* What runs by itself runs under the grant it began with (SetAccessMode,
   requireFullAccessTx).                                                     *)
THEOREM ScopeKeptHolds == Spec => []ScopeKept
BY TurnInvHolds, TurnImplied, PTL

(* An action reaches its target at most once (approval, Send, Crash).        *)
THEOREM SentOnceHolds == Spec => []SentOnce
BY TurnInvHolds, TurnImplied, PTL
=============================================================================
