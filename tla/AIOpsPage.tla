------------------------------ MODULE AIOpsPage ------------------------------
(***************************************************************************)
(* One browser page of the AI operations assistant                         *)
(* (admin-src/src/pages/AIOpsPage.tsx, aiOpsModel.ts) between a server     *)
(* whose sessions go on by themselves and the answers, stream events and   *)
(* lost responses that reach it in any order.                              *)
(*                                                                         *)
(* A session is its access version, its latest turn with the version of    *)
(* its draft, and whether an action runs; AIOpsTurn says how the server    *)
(* gets from one to the next.  The page's generation counters              *)
(* (detailSequence, selectionSequence) are flags: a request is "current"   *)
(* until its counter moves on.                                             *)
(***************************************************************************)
EXTENDS Naturals, FiniteSets, Sequences

CONSTANTS Sessions, Messages,
          None,                                        \* nothing selected, shown, held...
          MaxTurn, MaxDraft, MaxAccess, MaxRequest,    \* bounds of the server's counters
          MaxReads, MaxEvents,                         \* bounds: reads and events on their way
          MiniApp                                      \* inside Telegram: resumes a session

\* What GET /session answers, and what sendRetry keeps (aiOpsModel.ts).
Snapshots == [session : Sessions, access : Nat \ {0}, turn : Nat, running : BOOLEAN,
              draft : Nat, acting : BOOLEAN]
Retries == [session : Sessions \cup {None}, message : Messages, access : Nat, id : Nat \ {0}]

ASSUME AIOpsPageAssumption ==
  /\ MaxTurn \in Nat /\ MaxDraft \in Nat /\ MaxAccess \in Nat \ {0} /\ MaxRequest \in Nat
  /\ MaxReads \in Nat \ {0} /\ MaxEvents \in Nat \ {0} /\ MiniApp \in BOOLEAN
  /\ None \notin Sessions \cup Messages   \* null
  /\ None \notin Snapshots /\ None \notin Retries

VARIABLES
  wire,       \* sends on their way to the server
  data,       \* server: what it would answer for each session, None before it exists
  seen,       \* server: turns started, by request and message
  selected,   \* selectedRef
  shown,      \* detail
  draft,      \* the composer: None, or a message typed once
  retry,      \* sendRetry
  ids,        \* request ids handed out
  post,       \* the one request begin() lets out
  reads,      \* GET /session on their way
  polling,    \* pollRunning
  stream,     \* the open event stream of the selected session
  boot,       \* load(): not begun, with or without its selection, finished
  resumed     \* miniResumeDone

vars == <<wire, data, seen, selected, shown, draft, retry, ids, post, reads, polling,
          stream, boot, resumed>>
server == <<data, seen, wire>>
composer == <<draft, retry, ids, post>>
start == <<boot, resumed>>

NoStream == [open |-> FALSE, active |-> FALSE, held |-> None, events |-> <<>>]
NoPost == [kind |-> "none", phase |-> "none", session |-> None,
           id |-> 0, access |-> 0, same |-> FALSE, reply |-> None]

New(s) == [session |-> s, access |-> 1, turn |-> 0, running |-> FALSE, draft |-> 0,
           acting |-> FALSE]
Exists(s) == data[s] # None
Busy(d) == d.running \/ d.acting

Init ==
  /\ \E known \in SUBSET Sessions :
       data = [s \in Sessions |-> IF s \in known THEN New(s) ELSE None]
  /\ seen = {} /\ wire = {}
  /\ selected = None /\ shown = None
  /\ draft = None /\ retry = None /\ ids = 0 /\ post = NoPost
  /\ reads = {} /\ polling = FALSE /\ stream = NoStream
  /\ boot = "same" /\ resumed = FALSE

-----------------------------------------------------------------------------
\* The server goes on: other pages send and grant, workers write and finish.
Later(s) ==
  {d \in [session : {s}, access : 1..MaxAccess, turn : 0..MaxTurn, running : BOOLEAN,
          draft : 0..MaxDraft, acting : BOOLEAN] :
     \/ ~Busy(data[s]) /\ d = [data[s] EXCEPT !.turn = @ + 1, !.running = TRUE, !.draft = 0]
     \/ data[s].running /\ d = [data[s] EXCEPT !.draft = @ + 1]
     \/ data[s].running /\ d = [data[s] EXCEPT !.running = FALSE]
     \/ data[s].running /\ ~data[s].acting
        /\ d = [data[s] EXCEPT !.acting = TRUE, !.draft = @ + 1]   \* a round of its own
     \/ data[s].acting /\ d = [data[s] EXCEPT !.acting = FALSE]
     \/ d = [data[s] EXCEPT !.access = @ + 1]}

ServerGoesOn(s) ==
  /\ Exists(s)
  /\ \E d \in Later(s) : data' = [data EXCEPT ![s] = d]
  /\ UNCHANGED <<seen, wire, selected, shown, composer, reads, polling, stream, start>>

-----------------------------------------------------------------------------
\* What the page makes of data that reaches it (aiOpsModel.ts).
Higher(m, n) == IF m > n THEN m ELSE n

aiMergeSnapshot(before, d) ==
  IF before = None \/ before.session # d.session THEN d
  ELSE [d EXCEPT !.access = Higher(before.access, @),
                 !.draft = IF before.turn = d.turn /\ before.running /\ d.running
                           THEN Higher(before.draft, @) ELSE @]

aiApplyDraft(before, e) ==
  IF /\ before # None /\ before.session = e.session /\ before.turn = e.turn
     /\ before.running /\ e.draft >= before.draft
  THEN [before EXCEPT !.draft = e.draft] ELSE before

\* detailSequence moves on: what was asked before is not current any more.
Outdated(rs) == {[r EXCEPT !.current = FALSE] : r \in rs}

Read(s, poll, awaited) ==
  [session |-> s, current |-> TRUE, poll |-> poll, awaited |-> awaited, answer |-> None]
Asking(rs, r) == Outdated(rs) \cup {r}

\* The stream effect closes the stream when the session changes or is idle.
StreamFor(s, d) ==
  IF stream.open /\ s = selected /\ d # None /\ Busy(d) THEN stream ELSE NoStream

Show(d) == shown' = d /\ stream' = StreamFor(selected, d)

\* loadDetail: reads travel, the server answers, the page takes current ones.
Room == Cardinality(reads) < MaxReads

ServerAnswers(r) ==
  /\ r \in reads /\ r.answer = None
  /\ reads' = (reads \ {r}) \cup {[r EXCEPT !.answer = data[r.session]]}
  /\ UNCHANGED <<server, selected, shown, composer, polling, stream, start>>

Usable(r) == r.current /\ r.session = selected

\* Seeded fault: an outdated poll leaves polling set.
ReturnedCurrent(r) ==
  /\ reads' = reads \ {r}
  /\ polling' = (polling /\ ~(r.poll /\ r.current))
  /\ post' = IF r.awaited THEN NoPost ELSE post

Returned(r) ==
  /\ reads' = reads \ {r}
  /\ polling' = (polling /\ ~r.poll)
  /\ post' = IF r.awaited THEN NoPost ELSE post

Arrive(r) ==
  /\ r \in reads /\ r.answer # None
  /\ Returned(r)
  /\ IF Usable(r) THEN Show(aiMergeSnapshot(shown, r.answer)) ELSE UNCHANGED <<shown, stream>>
  /\ UNCHANGED <<server, selected, draft, retry, ids, start>>

ReadFails(r) ==
  /\ r \in reads
  /\ Returned(r)
  /\ UNCHANGED <<server, selected, shown, draft, retry, ids, stream, start>>

\* Every five seconds, unless a stream delivers or a poll is still out.
Poll ==
  /\ selected # None /\ ~stream.active /\ ~polling /\ Room
  /\ polling' = TRUE
  /\ reads' = Asking(reads, Read(selected, TRUE, FALSE))
  /\ UNCHANGED <<server, selected, shown, composer, stream, start>>

-----------------------------------------------------------------------------
\* The event stream of the selected session (router_ai_ops_stream.go).
Connect ==
  /\ shown # None /\ shown.session = selected /\ Busy(shown) /\ ~stream.open
  /\ stream' = [NoStream EXCEPT !.open = TRUE, !.events = <<data[selected]>>]
  /\ UNCHANGED <<server, selected, shown, composer, reads, polling, start>>

\* A tick reads the draft, may read and send a whole snapshot, then sends the draft.
Tick ==
  /\ stream.open /\ stream.held = None /\ Exists(selected)
  /\ stream' = [stream EXCEPT !.held = [session |-> selected, turn |-> data[selected].turn,
                                        draft |-> data[selected].draft,
                                        running |-> data[selected].running]]
  /\ UNCHANGED <<server, selected, shown, composer, reads, polling, start>>

Emit(e) == Len(stream.events) < MaxEvents /\ stream' = [stream EXCEPT !.events = Append(@, e)]

EmitSnapshot ==
  /\ stream.open /\ stream.held # None
  /\ Emit(data[selected])
  /\ UNCHANGED <<server, selected, shown, composer, reads, polling, start>>

EmitDraft ==
  /\ stream.open /\ stream.held # None
  /\ IF stream.held.running /\ Len(stream.events) < MaxEvents
     THEN stream' = [stream EXCEPT !.held = None, !.events = Append(@, stream.held)]
     ELSE ~stream.held.running /\ stream' = [stream EXCEPT !.held = None]
  /\ UNCHANGED <<server, selected, shown, composer, reads, polling, start>>

\* An event is applied and outdates what was asked before it.
Received(d) ==
  /\ shown' = d
  /\ stream' = IF d # None /\ Busy(d)
               THEN [stream EXCEPT !.active = TRUE, !.events = Tail(@)] ELSE NoStream
  /\ reads' = Outdated(reads)

Event ==
  /\ stream.open /\ stream.events # <<>>
  /\ LET e == Head(stream.events) IN
       Received(IF "acting" \in DOMAIN e THEN aiMergeSnapshot(shown, e) ELSE aiApplyDraft(shown, e))
  /\ UNCHANGED <<server, selected, composer, polling, start>>

\* After 25 seconds, or when the network drops it; it is opened again.
StreamEnds ==
  /\ stream.open
  /\ stream' = NoStream
  /\ UNCHANGED <<server, selected, shown, composer, reads, polling, start>>

-----------------------------------------------------------------------------
\* The operator picks a session, or begins a new one.
Left == post' = [post EXCEPT !.same = FALSE]
Unstarted == boot' = IF boot = "same" THEN "other" ELSE boot

\* Seeded fault: the stream of the session left behind stays open.
SelectSessionBehind(s) ==
  /\ Exists(s) /\ Room
  /\ selected' = s /\ shown' = None
  /\ draft' = None /\ retry' = None
  /\ Left /\ Unstarted /\ resumed' = TRUE
  /\ reads' = Asking(reads, Read(s, FALSE, FALSE))
  /\ UNCHANGED <<server, ids, polling, stream>>

SelectSession(s) ==
  /\ Exists(s) /\ Room
  /\ selected' = s /\ shown' = None /\ stream' = NoStream
  /\ draft' = None /\ retry' = None
  /\ Left /\ Unstarted /\ resumed' = TRUE
  /\ reads' = Asking(reads, Read(s, FALSE, FALSE))
  /\ UNCHANGED <<server, ids, polling>>

NewSession ==
  /\ selected' = None /\ shown' = None /\ stream' = NoStream
  /\ draft' = None /\ retry' = None
  /\ Left /\ Unstarted /\ resumed' = TRUE
  /\ reads' = Outdated(reads)
  /\ UNCHANGED <<server, ids, polling>>

\* load(): in the Telegram application a session is resumed, once, unless the
\* operator was faster.
Load ==
  /\ boot = "done"
  /\ boot' = "same"
  /\ UNCHANGED <<server, selected, shown, composer, reads, polling, stream, resumed>>

Resumable == MiniApp /\ ~resumed /\ boot = "same" /\ selected = None

Loaded ==
  /\ boot # "done" /\ Room
  /\ boot' = "done"
  /\ IF Resumable
     THEN /\ resumed' = TRUE
          /\ \/ \E s \in Sessions :
                  /\ Exists(s)
                  /\ selected' = s
                  /\ reads' = Asking(reads, Read(s, FALSE, FALSE))
                  /\ draft' = None /\ retry' = None /\ Left
             \/ UNCHANGED <<selected, reads, draft, retry, post>>
     ELSE /\ reads' = IF selected = None THEN reads
                      ELSE Asking(reads, Read(selected, FALSE, FALSE))
          /\ UNCHANGED <<selected, draft, retry, post, resumed>>
  /\ UNCHANGED <<server, shown, ids, polling, stream>>

Type(m) ==
  /\ draft = None /\ \A x \in seen \cup wire : x.message # m
  /\ draft' = m
  /\ UNCHANGED <<server, selected, shown, retry, ids, post, reads, polling, stream, start>>

-----------------------------------------------------------------------------
\* send(): the same message under the same access keeps its request id.  A message is the
\* text with its model, access mode and effort: with other settings it is another message.
AccessShown == IF shown = None THEN 0 ELSE shown.access

\* Seeded fault: a message sent again gets another request id.
RetriedNever == FALSE

Retried == retry # None /\ retry.session = selected /\ retry.message = draft
           /\ retry.access = AccessShown

Request == [id |-> retry'.id, session |-> selected, message |-> draft, access |-> AccessShown]

Send ==
  /\ draft # None /\ post = NoPost
  /\ selected # None => shown # None
  /\ shown # None => ~Busy(shown)
  /\ Retried \/ ids < MaxRequest
  /\ retry' = IF Retried THEN retry
              ELSE [session |-> selected, message |-> draft, access |-> AccessShown,
                    id |-> ids + 1]
  /\ ids' = Higher(ids, retry'.id)
  /\ wire' = wire \cup {Request}
  /\ post' = [NoPost EXCEPT !.kind = "send", !.phase = "out", !.session = selected,
                            !.id = retry'.id, !.same = TRUE]
  /\ UNCHANGED <<data, seen, selected, shown, draft, reads, polling, stream, start>>

\* The server starts a turn, or answers with the one it started (SendMessage);
\* the page may have given up waiting, or be waiting for a repetition.
Waiting(x) == post.kind = "send" /\ post.phase = "out" /\ post.id = x.id
Answer(x, reply) ==
  post' = IF Waiting(x) THEN [post EXCEPT !.phase = "answered", !.reply = reply] ELSE post
Refuse(x) == post' = IF Waiting(x) THEN [post EXCEPT !.phase = "failed"] ELSE post

Accepts(x, s) ==
  IF x.session = None THEN ~Exists(s)
  ELSE s = x.session /\ ~Busy(data[s]) /\ data[s].access = x.access /\ data[s].turn < MaxTurn

Started(x, s) ==
  /\ LET d == IF Exists(s) THEN data[s] ELSE New(s)
     IN  data' = [data EXCEPT ![s] = [d EXCEPT !.turn = @ + 1, !.running = TRUE, !.draft = 0]]
  /\ seen' = seen \cup {[id |-> x.id, message |-> x.message, session |-> s,
                        access |-> x.access]}

SendArrives(x) ==
  /\ x \in wire
  /\ wire' = wire \ {x}
  /\ \/ \E y \in seen : y.id = x.id /\ Answer(x, y.session) /\ UNCHANGED <<data, seen>>
     \/ /\ \A y \in seen : y.id # x.id
        /\ \/ \E s \in Sessions : Accepts(x, s) /\ Started(x, s) /\ Answer(x, s)
           \/ Refuse(x) /\ UNCHANGED <<data, seen>>
  /\ UNCHANGED <<selected, shown, draft, retry, ids, reads, polling, stream, start>>

\* Connections break before and after the server has done its part.
PostLost ==
  /\ post.phase \in {"out", "answered"}
  /\ post' = [post EXCEPT !.phase = "failed"]
  /\ UNCHANGED <<server, selected, shown, draft, retry, ids, reads, polling, stream, start>>

PostFailed ==
  /\ post.phase = "failed"
  /\ post' = NoPost
  /\ UNCHANGED <<server, selected, shown, draft, retry, ids, reads, polling, stream, start>>

Sent ==
  /\ post.kind = "send" /\ post.phase = "answered" /\ Room
  /\ retry' = None
  /\ IF post.same /\ selected = post.session
     THEN /\ selected' = post.reply /\ draft' = None
          /\ reads' = Asking(reads, Read(post.reply, FALSE, TRUE))
          /\ post' = [post EXCEPT !.phase = "loading"]
     ELSE post' = NoPost /\ UNCHANGED <<selected, draft, reads>>
  /\ UNCHANGED <<server, shown, ids, polling, stream, start>>

\* changeAccess(): a version the server confirms is shown at once.
ChangeAccess ==
  /\ selected # None /\ shown # None /\ post = NoPost
  /\ post' = [NoPost EXCEPT !.kind = "access", !.phase = "out", !.session = selected,
                            !.access = shown.access, !.same = TRUE]
  /\ UNCHANGED <<server, selected, shown, draft, retry, ids, reads, polling, stream, start>>

AccessArrives ==
  /\ post.kind = "access" /\ post.phase = "out"
  /\ IF data[post.session].access = post.access /\ post.access < MaxAccess
     THEN /\ data' = [data EXCEPT ![post.session].access = @ + 1]
          /\ post' = [post EXCEPT !.phase = "answered", !.reply = post.access + 1]
     ELSE post' = [post EXCEPT !.phase = "failed"] /\ UNCHANGED data
  /\ UNCHANGED <<wire, seen, selected, shown, draft, retry, ids, reads, polling, stream, start>>

AccessChanged ==
  /\ post.kind = "access" /\ post.phase = "answered" /\ Room
  /\ IF post.same /\ selected = post.session
     THEN /\ shown' = IF shown = None THEN None
                      ELSE [shown EXCEPT !.access = Higher(@, post.reply)]
          /\ retry' = None
          /\ reads' = Asking(reads, Read(selected, FALSE, TRUE))
          /\ post' = [post EXCEPT !.phase = "loading"]
     ELSE post' = NoPost /\ UNCHANGED <<shown, retry, reads>>
  /\ UNCHANGED <<server, selected, draft, ids, polling, stream, start>>

-----------------------------------------------------------------------------
Next ==
  \/ \E s \in Sessions : ServerGoesOn(s) \/ SelectSession(s)
  \/ \E r \in reads : ServerAnswers(r) \/ Arrive(r) \/ ReadFails(r)
  \/ Poll \/ Connect \/ Tick \/ EmitSnapshot \/ EmitDraft \/ Event \/ StreamEnds
  \/ NewSession \/ Load \/ Loaded
  \/ \E m \in Messages : Type(m)
  \/ \E x \in wire : SendArrives(x)
  \/ Send \/ PostLost \/ PostFailed \/ Sent
  \/ ChangeAccess \/ AccessArrives \/ AccessChanged

Spec == Init /\ [][Next]_vars

\* Timers and the network go on while the page is visible, a stream sends a
\* whole snapshot every three seconds, and not every answer that is still
\* wanted is lost.
Fairness ==
  /\ WF_vars(Poll) /\ WF_vars(Connect) /\ WF_vars(Tick) /\ SF_vars(EmitSnapshot)
  /\ WF_vars(EmitDraft) /\ WF_vars(Event)
  /\ WF_vars(\E r \in reads : ServerAnswers(r))
  /\ SF_vars(\E r \in reads : Usable(r) /\ ServerAnswers(r))
  /\ WF_vars(\E r \in reads : Arrive(r))
  /\ SF_vars(\E r \in reads : Usable(r) /\ Arrive(r))

FairSpec == Spec /\ Fairness

-----------------------------------------------------------------------------
(* Properties *)

\* What the server can answer, and what the page holds of it.
TypeOK ==
  /\ \A s \in Sessions :
       Exists(s) => /\ data[s].session = s /\ data[s].access \in 1..MaxAccess
                    /\ data[s].turn \in 0..MaxTurn /\ data[s].draft \in 0..MaxDraft
  /\ selected \in Sessions \cup {None} /\ draft \in Messages \cup {None}
  /\ selected # None => Exists(selected)
  /\ Cardinality(reads) <= MaxReads /\ Len(stream.events) <= MaxEvents
  /\ Cardinality({r \in reads : r.current}) <= 1
  /\ polling <=> \E r \in reads : r.poll
  /\ boot \in {"same", "other", "done"} /\ resumed \in BOOLEAN

\* The page never shows one session under the name of another, whatever is
\* still on its way when the operator changes between them (selectedRef).
ShownIsSelected == shown # None => shown.session = selected

\* A message whose answer was lost may be sent again: under the same access it
\* starts one turn, even when the lost request arrives after its repetition.
OneTurnPerMessage ==
  \A x, y \in seen : x.message = y.message /\ x.access = y.access => x = y

\* An operator who stays with a session and leaves the page alone sees, in the
\* end, what the server has, with no click (the poll and the stream).
Picks == NewSession \/ Load \/ Loaded \/ \E s \in Sessions : SelectSession(s)
PageCatchesUp ==
  (<>[][~Picks]_vars) => \A s \in Sessions : <>[](selected = s) => <>[](shown = data[s])
=============================================================================
