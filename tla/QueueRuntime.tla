---------------------------- MODULE QueueRuntime ----------------------------
(***************************************************************************)
(* The in-process job queue (internal/queue/runtime.go) and the runner     *)
(* that feeds it the one-minute sweep (internal/background/scheduler.go).  *)
(*                                                                         *)
(* Callers submit a job with Enqueue, which blocks while the channel is    *)
(* full, or with TryEnqueue, which does not.  Workers range over the       *)
(* channel.  Shutdown detaches the channel, cancels the context, closes    *)
(* the channel and waits for the workers.  What a goroutine does under     *)
(* r.mu is one step; everything between two critical sections interleaves. *)
(* A Go channel is its buffer, the queue of senders parked in a select on  *)
(* it, and whether it is closed.                                           *)
(***************************************************************************)
EXTENDS Naturals, Sequences, FiniteSets, SequencesExt

CONSTANTS
    Jobs,           \* every job submitted, once each
    Sweeps,         \* those the runner submits to "order_handle"
    TryJobs,        \* those submitted with TryEnqueue
    QueueOf,        \* the queue name of each job
    Queues,
    Workers,
    BufferSize      \* capacity of the channel

ASSUME QueueAssumption ==
    /\ Sweeps \subseteq Jobs /\ TryJobs \subseteq Jobs \ Sweeps
    /\ QueueOf \in [Jobs -> Queues]
    /\ \A j, k \in Jobs : j \in Sweeps => (QueueOf[k] = QueueOf[j] <=> k \in Sweeps)
    /\ BufferSize \in Nat \ {0} /\ Workers # {}

VARIABLES
    started,    \* r.started
    cancelled,  \* r.ctx is done
    jobs,       \* r.jobs: TRUE while the field holds the channel, FALSE when nil
    closed,     \* the channel is closed
    buffer,     \* jobs in the channel
    senders,    \* callers parked in select on the channel, oldest first
    pending,    \* len(state.pendingTimes) of each queue
    inFlight,   \* state.inFlight of each queue
    pc,         \* where the call that submits a job is
    read,       \* what Enqueue copied from r.jobs
    wpc,        \* where a worker is
    wjob,       \* the jobs a worker holds: none or one
    shut,       \* where Shutdown is
    ran         \* how often each job ran to its end

channel == <<closed, buffer, senders>>
counters == <<pending, inFlight>>
callers == <<pc, read>>
workers == <<wpc, wjob>>
lifecycle == <<started, cancelled, jobs, shut>>
vars == <<lifecycle, channel, counters, callers, workers, ran>>

Calls == {"idle", "ticked", "checked", "counted", "parked", "woken",
          "accepted", "rejected", "panicked"}

TypeOK ==
    /\ started \in BOOLEAN /\ cancelled \in BOOLEAN
    /\ jobs \in BOOLEAN /\ closed \in BOOLEAN
    /\ buffer \in Seq(Jobs) /\ Len(buffer) <= BufferSize
    /\ senders \in Seq(Jobs)
    /\ pending \in [Queues -> Nat] /\ inFlight \in [Queues -> Nat]
    /\ pc \in [Jobs -> Calls] /\ read \in [Jobs -> BOOLEAN]
    /\ wpc \in [Workers -> {"off", "new", "range", "stuck", "received", "running", "done"}]
    /\ wjob \in [Workers -> SUBSET Jobs]
    /\ shut \in {"no", "detached", "cancelled", "closed", "returned"}
    /\ ran \in [Jobs -> Nat]

\* NewRuntime: nothing started, no queue has work.
Init ==
    /\ started = FALSE /\ cancelled = FALSE /\ jobs = FALSE /\ closed = FALSE
    /\ buffer = <<>> /\ senders = <<>>
    /\ pending = [q \in Queues |-> 0] /\ inFlight = [q \in Queues |-> 0]
    /\ pc = [j \in Jobs |-> "idle"] /\ read = [j \in Jobs |-> FALSE]
    /\ wpc = [w \in Workers |-> "off"] /\ wjob = [w \in Workers |-> {}]
    /\ shut = "no"
    /\ ran = [j \in Jobs |-> 0]

-----------------------------------------------------------------------------
(* Lifecycle *)

\* main calls Start once; the goroutines it starts run later.
Start ==
    /\ ~started /\ shut = "no"
    /\ started' = TRUE /\ jobs' = TRUE
    /\ wpc' = [w \in Workers |-> "new"]
    /\ UNCHANGED <<cancelled, shut, channel, counters, callers, wjob, ran>>

\* Shutdown, up to the unlock.
ShutdownDetach ==
    /\ started /\ shut = "no"
    /\ started' = FALSE /\ jobs' = FALSE /\ shut' = "detached"
    /\ UNCHANGED <<cancelled, channel, counters, callers, workers, ran>>

\* cancel(): every select parked on ctx.Done() is resolved at once.
ShutdownCancel ==
    /\ shut = "detached"
    /\ shut' = "cancelled" /\ cancelled' = TRUE
    /\ senders' = <<>>
    /\ pc' = [j \in Jobs |-> IF pc[j] = "parked" THEN "woken" ELSE pc[j]]
    /\ UNCHANGED <<started, jobs, closed, buffer, counters, read, workers, ran>>

\* Seeded fault: the channel is never closed.
ShutdownCloseSkipped ==
    /\ shut = "cancelled"
    /\ shut' = "closed"
    /\ UNCHANGED <<started, cancelled, jobs, channel, counters, callers, workers, ran>>

ShutdownClose ==
    /\ shut = "cancelled"
    /\ shut' = "closed" /\ closed' = TRUE
    /\ UNCHANGED <<started, cancelled, jobs, buffer, senders, counters, callers, workers, ran>>

\* wg.Wait(); main passes context.Background(), so nothing cuts the wait short.
ShutdownReturn ==
    /\ shut = "closed"
    /\ \A w \in Workers : wpc[w] = "done"
    /\ shut' = "returned"
    /\ UNCHANGED <<started, cancelled, jobs, channel, counters, callers, workers, ran>>

-----------------------------------------------------------------------------
(* Callers *)

\* Seeded fault: a sweep that is running does not count.
QueueBusyLengthOnly(q) == pending[q] > 0

\* Runner.queueBusy, from Snapshot.
QueueBusy(q) == pending[q] > 0 \/ inFlight[q] > 0

\* Runner.RunOnce decides to submit the next sweep.  Its one goroutine is
\* inside no earlier Enqueue.
Tick(j) ==
    /\ j \in Sweeps /\ pc[j] = "idle" /\ started
    /\ \A k \in Sweeps : pc[k] \in {"idle", "accepted", "rejected"}
    /\ ~QueueBusy(QueueOf[j])
    /\ pc' = [pc EXCEPT ![j] = "ticked"]
    /\ UNCHANGED <<lifecycle, channel, counters, read, workers, ran>>

\* Enqueue: started is read without the lock.
EnqueueCheck(j) ==
    /\ j \notin TryJobs
    /\ pc[j] = IF j \in Sweeps THEN "ticked" ELSE "idle"
    /\ pc' = [pc EXCEPT ![j] = IF started THEN "checked" ELSE "rejected"]
    /\ UNCHANGED <<lifecycle, channel, counters, read, workers, ran>>

\* Enqueue, first critical section: count the job, copy the channel.
EnqueueCount(j) ==
    /\ pc[j] = "checked"
    /\ pc' = [pc EXCEPT ![j] = "counted"]
    /\ read' = [read EXCEPT ![j] = jobs]
    /\ pending' = [pending EXCEPT ![QueueOf[j]] = @ + 1]
    /\ UNCHANGED <<lifecycle, channel, inFlight, workers, ran>>

\* The select chooses among the cases that are ready; a nil channel never is.
EnqueueSend(j) ==
    /\ pc[j] = "counted" /\ read[j] /\ ~closed
    /\ Len(buffer) < BufferSize
    /\ buffer' = Append(buffer, j)
    /\ pc' = [pc EXCEPT ![j] = "accepted"]
    /\ UNCHANGED <<lifecycle, closed, senders, counters, read, workers, ran>>

\* Choosing the send on a channel that was closed meanwhile panics.
EnqueuePanic(j) ==
    /\ pc[j] = "counted" /\ read[j] /\ closed
    /\ pc' = [pc EXCEPT ![j] = "panicked"]
    /\ UNCHANGED <<lifecycle, channel, counters, read, workers, ran>>

EnqueueSeesDone(j) ==
    /\ pc[j] = "counted" /\ cancelled
    /\ pc' = [pc EXCEPT ![j] = "woken"]
    /\ UNCHANGED <<lifecycle, channel, counters, read, workers, ran>>

\* Nothing is ready: the caller parks until a receive or the cancellation.
EnqueuePark(j) ==
    /\ pc[j] = "counted" /\ ~cancelled
    /\ read[j] => Len(buffer) = BufferSize
    /\ pc' = [pc EXCEPT ![j] = "parked"]
    /\ senders' = IF read[j] THEN Append(senders, j) ELSE senders
    /\ UNCHANGED <<lifecycle, closed, buffer, counters, read, workers, ran>>

\* The ctx.Done() case: dequeuePending under the lock, then the error.
EnqueueStopped(j) ==
    /\ pc[j] = "woken"
    /\ pc' = [pc EXCEPT ![j] = "rejected"]
    /\ pending' = [pending EXCEPT ![QueueOf[j]] = IF @ > 0 THEN @ - 1 ELSE 0]
    /\ UNCHANGED <<lifecycle, channel, inFlight, read, workers, ran>>

\* TryEnqueue is one critical section: refused when stopped or full.
TryEnqueue(j) ==
    /\ j \in TryJobs /\ pc[j] = "idle"
    /\ LET open == started /\ jobs
           accept == open /\ ~closed /\ Len(buffer) < BufferSize
       IN /\ pc' = [pc EXCEPT ![j] = IF accept THEN "accepted"
                                     ELSE IF open /\ closed THEN "panicked" ELSE "rejected"]
          /\ buffer' = IF accept THEN Append(buffer, j) ELSE buffer
          /\ pending' = IF accept THEN [pending EXCEPT ![QueueOf[j]] = @ + 1] ELSE pending
    /\ UNCHANGED <<lifecycle, closed, senders, inFlight, read, workers, ran>>

-----------------------------------------------------------------------------
(* Workers *)

\* `range r.jobs` evaluates the field once, without the lock.  A nil channel
\* blocks the worker for ever.
WorkerStart(w) ==
    /\ wpc[w] = "new"
    /\ wpc' = [wpc EXCEPT ![w] = IF jobs THEN "range" ELSE "stuck"]
    /\ UNCHANGED <<lifecycle, channel, counters, callers, wjob, ran>>

\* A receive hands the place it frees to the sender that has waited longest.
Receive(w) ==
    /\ wpc[w] = "range" /\ buffer # <<>>
    /\ wpc' = [wpc EXCEPT ![w] = "received"]
    /\ wjob' = [wjob EXCEPT ![w] = {Head(buffer)}]
    /\ IF senders = <<>>
       THEN /\ buffer' = Tail(buffer)
            /\ UNCHANGED <<senders, pc>>
       ELSE /\ buffer' = Append(Tail(buffer), Head(senders))
            /\ senders' = Tail(senders)
            /\ pc' = [pc EXCEPT ![Head(senders)] = "accepted"]
    /\ UNCHANGED <<lifecycle, closed, counters, read, ran>>

MarkDequeued(w) ==
    /\ wpc[w] = "received"
    /\ wpc' = [wpc EXCEPT ![w] = "running"]
    /\ \E j \in wjob[w] :
         /\ pending' = [pending EXCEPT ![QueueOf[j]] = IF @ > 0 THEN @ - 1 ELSE 0]
         /\ inFlight' = [inFlight EXCEPT ![QueueOf[j]] = @ + 1]
    /\ UNCHANGED <<lifecycle, channel, callers, wjob, ran>>

\* The job returns, with or without an error, and markFinished is called.
MarkFinished(w) ==
    /\ wpc[w] = "running"
    /\ wpc' = [wpc EXCEPT ![w] = "range"]
    /\ wjob' = [wjob EXCEPT ![w] = {}]
    /\ \E j \in wjob[w] :
         /\ inFlight' = [inFlight EXCEPT ![QueueOf[j]] = IF @ > 0 THEN @ - 1 ELSE 0]
         /\ ran' = [ran EXCEPT ![j] = @ + 1]
    /\ UNCHANGED <<lifecycle, channel, pending, callers>>

\* Seeded fault: a worker leaves its loop as soon as the runtime stops.
WorkerExitAtStop(w) ==
    /\ wpc[w] = "range" /\ cancelled
    /\ wpc' = [wpc EXCEPT ![w] = "done"]
    /\ UNCHANGED <<lifecycle, channel, counters, callers, wjob, ran>>

\* The range ends when the channel is closed and drained.
WorkerExit(w) ==
    /\ wpc[w] = "range" /\ closed /\ buffer = <<>>
    /\ wpc' = [wpc EXCEPT ![w] = "done"]
    /\ UNCHANGED <<lifecycle, channel, counters, callers, wjob, ran>>

-----------------------------------------------------------------------------
WorkerStep(w) ==
    WorkerStart(w) \/ Receive(w) \/ MarkDequeued(w) \/ MarkFinished(w) \/ WorkerExit(w)

\* What a caller already inside Enqueue does next.
CallStep(j) ==
    \/ EnqueueCount(j) \/ EnqueueSend(j) \/ EnqueuePanic(j)
    \/ EnqueueSeesDone(j) \/ EnqueuePark(j) \/ EnqueueStopped(j)

ShutdownStep == ShutdownCancel \/ ShutdownClose \/ ShutdownReturn

Next ==
    \/ Start \/ ShutdownDetach \/ ShutdownStep
    \/ \E j \in Jobs : Tick(j) \/ EnqueueCheck(j) \/ TryEnqueue(j) \/ CallStep(j)
    \/ \E w \in Workers : WorkerStep(w)

Spec == Init /\ [][Next]_vars

\* The Go scheduler runs every runnable goroutine; jobs return.  Nobody is
\* obliged to submit a job or to stop the process.
Fairness ==
    /\ \A w \in Workers : WF_vars(WorkerStep(w))
    /\ \A j \in Jobs : WF_vars(CallStep(j))
    /\ WF_vars(ShutdownStep)

LiveSpec == Spec /\ Fairness

-----------------------------------------------------------------------------
(* Properties *)

\* Two sweeps never overlap: of the jobs the runner submitted at most one is
\* between the call and the end of its run, although queueBusy only looks at
\* counters that workers move in steps of their own.
OneSweep ==
    Cardinality({j \in Sweeps : \/ pc[j] \in {"ticked", "checked", "counted", "parked", "woken"}
                                \/ pc[j] = "accepted" /\ ran[j] = 0}) <= 1

\* An error from Enqueue or TryEnqueue means the job never runs (the caller
\* then runs it itself), and a job runs at most once; when Shutdown has
\* returned, every accepted job has run.
NothingDropped ==
    \A j \in Jobs :
        /\ ran[j] <= IF pc[j] = "accepted" THEN 1 ELSE 0
        /\ shut = "returned" /\ pc[j] = "accepted" => ran[j] = 1

\* A worker that first read r.jobs after Shutdown had cleared it waits for
\* ever on the nil channel.
Stranded(w) == wpc[w] = "stuck"

\* Shutdown returns once it has begun, unless a worker is stranded.
ShutdownReturns == shut = "detached" ~> shut = "returned" \/ \E w \in Workers : Stranded(w)
=============================================================================
