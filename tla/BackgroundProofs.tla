--------------------------- MODULE BackgroundProofs ---------------------------
(* Proofs about the job queue, the order sweep and the traffic reset, for any
   number of jobs, workers, queues, orders and users.                        *)
EXTENDS MCBackground, TLAPS, FiniteSetTheorems, SequenceTheorems

-----------------------------------------------------------------------------
(* Sequences without repetition                                              *)

Holds(s, j) == \E i \in 1..Len(s) : s[i] = j

Distinct(s) == \A i, k \in 1..Len(s) : s[i] = s[k] => i = k

(* Appending an element that is not there keeps the others and is distinct.  *)
LEMMA AppendHolds ==
    ASSUME NEW s \in Seq(Jobs), NEW j \in Jobs
    PROVE  /\ Append(s, j) \in Seq(Jobs)
           /\ \A k : Holds(Append(s, j), k) <=> Holds(s, k) \/ k = j
           /\ Distinct(s) /\ ~Holds(s, j) => Distinct(Append(s, j))
<1>1. /\ Append(s, j) \in Seq(Jobs) /\ Len(Append(s, j)) = Len(s) + 1
      /\ \A i \in 1..Len(s) : Append(s, j)[i] = s[i]
      /\ Append(s, j)[Len(s) + 1] = j
  BY AppendProperties
<1>2. 1..(Len(s) + 1) = 1..Len(s) \cup {Len(s) + 1} /\ Len(s) \in Nat
  OBVIOUS
<1>3. ASSUME NEW k
      PROVE  Holds(Append(s, j), k) <=> Holds(s, k) \/ k = j
  BY <1>1, <1>2 DEF Holds
<1>4. Distinct(s) /\ ~Holds(s, j) => Distinct(Append(s, j))
  BY <1>1, <1>2 DEF Holds, Distinct
<1> QED  BY <1>1, <1>3, <1>4

(* Taking the head away leaves the others.                                   *)
LEMMA TailHolds ==
    ASSUME NEW s \in Seq(Jobs), s # <<>>, Distinct(s)
    PROVE  /\ Tail(s) \in Seq(Jobs) /\ Head(s) \in Jobs /\ Len(Tail(s)) = Len(s) - 1
           /\ Holds(s, Head(s))
           /\ \A k : Holds(Tail(s), k) <=> Holds(s, k) /\ k # Head(s)
           /\ Distinct(Tail(s))
<1>1. /\ Tail(s) \in Seq(Jobs) /\ Head(s) \in Jobs /\ Head(s) = s[1]
      /\ Len(s) \in Nat \ {0} /\ Len(Tail(s)) = Len(s) - 1
      /\ \A i \in 1..Len(Tail(s)) : Tail(s)[i] = s[i + 1]
  BY HeadTailProperties, EmptySeq
<1>2. Holds(s, Head(s))
  BY <1>1 DEF Holds
<1>3. ASSUME NEW k
      PROVE  Holds(Tail(s), k) <=> Holds(s, k) /\ k # Head(s)
  <2>1. ASSUME Holds(Tail(s), k)
        PROVE  Holds(s, k) /\ k # Head(s)
    <3>1. PICK i \in 1..Len(Tail(s)) : Tail(s)[i] = k
        BY <2>1 DEF Holds
    <3>2. i + 1 \in 1..Len(s) /\ s[i + 1] = k /\ i + 1 # 1 /\ 1 \in 1..Len(s)
        BY <3>1, <1>1
    <3> QED  BY <3>2, <1>1 DEF Holds, Distinct
  <2>2. ASSUME Holds(s, k), k # Head(s)
        PROVE  Holds(Tail(s), k)
    <3>1. PICK i \in 1..Len(s) : s[i] = k
        BY <2>2 DEF Holds
    <3>2. i # 1
        BY <3>1, <2>2, <1>1
    <3>3. i - 1 \in 1..Len(Tail(s)) /\ (i - 1) + 1 = i
        BY <3>2, <1>1
    <3> QED  BY <3>3, <3>1, <1>1 DEF Holds
  <2> QED  BY <2>1, <2>2
<1>4. Distinct(Tail(s))
  <2> SUFFICES ASSUME NEW i \in 1..Len(Tail(s)), NEW k \in 1..Len(Tail(s)),
                      Tail(s)[i] = Tail(s)[k]
               PROVE  i = k
      BY DEF Distinct
  <2>1. i + 1 \in 1..Len(s) /\ k + 1 \in 1..Len(s) /\ s[i + 1] = s[k + 1]
      BY <1>1
  <2>2. i + 1 = k + 1
      BY <2>1 DEF Distinct
  <2> QED  BY <2>2
<1> QED  BY <1>1, <1>2, <1>3, <1>4

(* Nothing is in an empty sequence.                                          *)
LEMMA EmptyHolds == Distinct(<<>>) /\ \A k : ~Holds(<<>>, k)
BY DEF Holds, Distinct

-----------------------------------------------------------------------------
(* The queue.  Every job an accepting call returned for is in one place.     *)

(* The lifecycle only advances; what is cancelled has no parked sender, and
   a worker leaves only a closed and drained channel.                        *)
Stopping ==
    /\ started => shut = "no"
    /\ ~started /\ shut = "no" => \A w \in Workers : wpc[w] = "off"
    /\ cancelled <=> shut \in {"cancelled", "closed", "returned"}
    /\ closed <=> shut \in {"closed", "returned"}
    /\ cancelled => senders = <<>>
    /\ \A w \in Workers : wpc[w] = "done" => closed /\ buffer = <<>>
    /\ shut = "returned" => \A w \in Workers : wpc[w] = "done"

(* A worker holds a job exactly while it deals with one.                     *)
Busy(w) == wpc[w] \in {"received", "running"}

(* What is in the channel, waits for it or is held by a worker.              *)
Placed ==
    /\ Distinct(buffer) /\ Distinct(senders)
    /\ \A j \in Jobs : Holds(senders, j) => pc[j] = "parked"
    /\ \A j \in Jobs : Holds(buffer, j) => pc[j] = "accepted" /\ ran[j] = 0
    /\ \A w \in Workers : wjob[w] # {} <=> Busy(w)
    /\ \A w \in Workers : \A j \in wjob[w] :
         wjob[w] = {j} /\ pc[j] = "accepted" /\ ran[j] = 0 /\ ~Holds(buffer, j)
    /\ \A v, w \in Workers : v # w => wjob[v] \cap wjob[w] = {}

(* An accepted job is somewhere until it has run.                            *)
Accounted ==
    \A j \in Jobs :
        /\ ran[j] # 0 => ran[j] = 1 /\ pc[j] = "accepted"
        /\ pc[j] = "accepted" /\ ran[j] = 0 =>
             Holds(buffer, j) \/ \E w \in Workers : j \in wjob[w]

(* From the runner's decision to the end of the run.                         *)
Active(j) ==
    \/ pc[j] \in {"ticked", "checked", "counted", "parked", "woken"}
    \/ pc[j] = "accepted" /\ ran[j] = 0

(* The counters of their queue show that a sweep is on its way.              *)
Shown ==
    \A j \in Sweeps : pc[j] = "accepted" /\ ran[j] = 0 =>
        IF \E w \in Workers : j \in wjob[w] /\ wpc[w] = "running"
        THEN inFlight[QueueOf[j]] > 0 ELSE pending[QueueOf[j]] > 0

(* A counted call has not left its count.                                    *)
Counted ==
    \A j \in Sweeps : pc[j] \in {"counted", "parked", "woken"} => pending[QueueOf[j]] > 0

OneActive == \A j, k \in Sweeps : Active(j) /\ Active(k) => j = k

QueueInv == TypeOK /\ Stopping /\ Placed /\ Accounted /\ Shown /\ Counted /\ OneActive

LEMMA QueueInit == Init => QueueInv
<1> SUFFICES ASSUME Init  PROVE QueueInv
  OBVIOUS
<1> USE QueueAssumption DEF Init
<1>1. TypeOK
  <2>1. <<>> \in Seq(Jobs) /\ Len(<<>>) = 0
      BY EmptySeq
  <2>2. buffer \in Seq(Jobs) /\ Len(buffer) <= BufferSize /\ senders \in Seq(Jobs)
      BY <2>1
  <2>3. pending \in [Queues -> Nat] /\ inFlight \in [Queues -> Nat] /\ ran \in [Jobs -> Nat]
      OBVIOUS
  <2>4. pc \in [Jobs -> Calls] /\ read \in [Jobs -> BOOLEAN]
      BY DEF Calls
  <2>5. wjob \in [Workers -> SUBSET Jobs]
      OBVIOUS
  <2> QED  BY <2>2, <2>3, <2>4, <2>5 DEF TypeOK
<1>2. Placed
  BY EmptyHolds DEF Placed, Busy
<1>3. Accounted /\ Shown /\ Counted /\ OneActive
  BY DEF Accounted, Shown, Counted, OneActive, Active
<1>4. Stopping
  BY DEF Stopping
<1> QED  BY <1>1, <1>2, <1>3, <1>4 DEF QueueInv

(* Every step of the queue keeps the types.                                  *)
LEMMA QueueTypes ==
    ASSUME TypeOK, Placed, [Next]_vars
    PROVE  TypeOK'
<1> USE QueueAssumption DEF TypeOK, lifecycle, channel, counters, callers, workers
<1>0. {"idle", "ticked", "checked", "counted", "parked", "woken", "accepted", "rejected",
       "panicked"} = Calls
  BY DEF Calls
<1>1. CASE Start \/ ShutdownDetach \/ ShutdownStep
  <2>1. ShutdownCancel => TypeOK'
      BY <1>0, EmptySeq, SMTT(30) DEF ShutdownCancel
  <2> QED  BY <1>1, <2>1 DEF Start, ShutdownDetach, ShutdownStep, ShutdownClose, ShutdownReturn
<1>2. ASSUME NEW j \in Jobs, Tick(j) \/ EnqueueCheck(j) \/ TryEnqueue(j) \/ CallStep(j)
      PROVE  TypeOK'
  <2>1. /\ Append(buffer, j) \in Seq(Jobs) /\ Len(Append(buffer, j)) = Len(buffer) + 1
        /\ Append(senders, j) \in Seq(Jobs) /\ Len(buffer) \in Nat
      BY AppendProperties
  <2>2. QueueOf[j] \in Queues
      OBVIOUS
  <2>3. CASE Tick(j) \/ EnqueueCheck(j)
    <3>1. pc' \in [Jobs -> Calls]
        BY <1>0, <2>3 DEF Tick, EnqueueCheck
    <3> QED  BY <2>3, <3>1 DEF Tick, EnqueueCheck
  <2>4. CASE TryEnqueue(j)
    <3>1. pc' \in [Jobs -> Calls]
        BY <1>0, <2>4 DEF TryEnqueue
    <3> QED  BY <2>4, <2>1, <2>2, <3>1 DEF TryEnqueue
  <2>5. CASE EnqueueCount(j) \/ EnqueuePanic(j) \/ EnqueueSeesDone(j) \/ EnqueueStopped(j)
    <3>1. pc' \in [Jobs -> Calls]
        BY <1>0, <2>5, ZenonT(60) DEF EnqueueCount, EnqueuePanic, EnqueueSeesDone, EnqueueStopped
    <3>2. pending[QueueOf[j]] \in Nat
        BY <2>2
    <3>3. EnqueueCount(j) => pending' \in [Queues -> Nat] /\ read' \in [Jobs -> BOOLEAN]
        BY <3>2 DEF EnqueueCount
    <3>4. EnqueueStopped(j) => pending' \in [Queues -> Nat]
        BY <3>2 DEF EnqueueStopped
    <3> QED
        BY <2>5, <3>1, <3>3, <3>4, SMTT(30)
        DEF EnqueueCount, EnqueuePanic, EnqueueSeesDone, EnqueueStopped
  <2>6. CASE EnqueueSend(j) \/ EnqueuePark(j)
    <3>1. pc' \in [Jobs -> Calls]
        BY <1>0, <2>6, ZenonT(60) DEF EnqueueSend, EnqueuePark
    <3>2. CASE EnqueueSend(j)
      <4>1. buffer' \in Seq(Jobs) /\ Len(buffer') <= BufferSize
          BY <3>2, <2>1 DEF EnqueueSend
      <4> QED  BY <3>1, <3>2, <4>1 DEF EnqueueSend
    <3>3. CASE EnqueuePark(j)
      <4>1. senders' \in Seq(Jobs)
          BY <3>3, <2>1 DEF EnqueuePark
      <4> QED  BY <3>1, <3>3, <4>1 DEF EnqueuePark
    <3> QED  BY <2>6, <3>2, <3>3
  <2> QED  BY <1>2, <2>3, <2>4, <2>5, <2>6 DEF CallStep
<1>3. ASSUME NEW w \in Workers, WorkerStep(w)
      PROVE  TypeOK'
  <2>1. CASE WorkerStart(w) \/ WorkerExit(w)
      BY <2>1 DEF WorkerStart, WorkerExit
  <2>2. CASE Receive(w)
    <3>1. Distinct(buffer) /\ Distinct(senders) /\ buffer # <<>>
        BY <2>2 DEF Placed, Receive
    <3>2. /\ Tail(buffer) \in Seq(Jobs) /\ Head(buffer) \in Jobs
          /\ Len(Tail(buffer)) = Len(buffer) - 1 /\ Len(buffer) \in Nat \ {0}
        BY <3>1, TailHolds, EmptySeq
    <3>3. senders # <<>> =>
            /\ Tail(senders) \in Seq(Jobs) /\ Head(senders) \in Jobs
            /\ Append(Tail(buffer), Head(senders)) \in Seq(Jobs)
            /\ Len(Append(Tail(buffer), Head(senders))) = Len(buffer)
      <4> SUFFICES ASSUME senders # <<>>  PROVE Tail(senders) \in Seq(Jobs) /\ Head(senders) \in Jobs
          BY <3>2, AppendProperties
      <4> QED  BY <3>1, TailHolds
    <3>4. buffer' \in Seq(Jobs) /\ Len(buffer') <= BufferSize /\ senders' \in Seq(Jobs)
      <4>1. CASE senders = <<>>
        <5>1. buffer' = Tail(buffer) /\ senders' = senders
            BY <2>2, <4>1 DEF Receive
        <5>2. Len(Tail(buffer)) <= BufferSize
            BY <3>2
        <5> QED  BY <3>2, <5>1, <5>2
      <4>2. CASE senders # <<>>
          BY <2>2, <3>3, <4>2 DEF Receive
      <4> QED  BY <4>1, <4>2
    <3>5. pc' \in [Jobs -> Calls]
        BY <1>0, <2>2, <3>3 DEF Receive
    <3>6. wjob' \in [Workers -> SUBSET Jobs]
        BY <2>2, <3>2 DEF Receive
    <3> QED  BY <2>2, <3>4, <3>5, <3>6 DEF Receive
  <2>3. CASE MarkDequeued(w)
    <3> PICK j \in wjob[w] :
             /\ pending' = [pending EXCEPT ![QueueOf[j]] = IF @ > 0 THEN @ - 1 ELSE 0]
             /\ inFlight' = [inFlight EXCEPT ![QueueOf[j]] = @ + 1]
        BY <2>3 DEF MarkDequeued
    <3>1. j \in Jobs /\ QueueOf[j] \in Queues
        OBVIOUS
    <3>2. pending' \in [Queues -> Nat]
        BY <3>1
    <3>3. inFlight' \in [Queues -> Nat]
        BY <3>1
    <3> QED  BY <2>3, <3>2, <3>3 DEF MarkDequeued
  <2>4. CASE MarkFinished(w)
    <3> PICK j \in wjob[w] :
             /\ inFlight' = [inFlight EXCEPT ![QueueOf[j]] = IF @ > 0 THEN @ - 1 ELSE 0]
             /\ ran' = [ran EXCEPT ![j] = @ + 1]
        BY <2>4 DEF MarkFinished
    <3>1. j \in Jobs /\ QueueOf[j] \in Queues
        OBVIOUS
    <3> QED  BY <2>4, <3>1 DEF MarkFinished
  <2> QED  BY <1>3, <2>1, <2>2, <2>3, <2>4 DEF WorkerStep
<1>4. CASE UNCHANGED vars
  BY <1>4 DEF vars
<1> QED  BY <1>1, <1>2, <1>3, <1>4 DEF Next

(* Every step of the queue keeps the lifecycle.                              *)
LEMMA QueueStopping ==
    ASSUME TypeOK, Stopping, [Next]_vars
    PROVE  Stopping'
<1> USE DEF Stopping, lifecycle, channel, counters, callers, workers
<1>1. CASE Start
  BY <1>1 DEF Start, TypeOK
<1>2. CASE ShutdownDetach
  BY <1>2 DEF ShutdownDetach
<1>3. CASE ShutdownStep
  <2>1. CASE ShutdownCancel
      BY <2>1 DEF ShutdownCancel
  <2>2. CASE ShutdownClose
      BY <2>2 DEF ShutdownClose
  <2>3. CASE ShutdownReturn
      BY <2>3 DEF ShutdownReturn
  <2> QED  BY <1>3, <2>1, <2>2, <2>3 DEF ShutdownStep
<1>4. ASSUME NEW j \in Jobs, Tick(j) \/ EnqueueCheck(j) \/ TryEnqueue(j) \/ CallStep(j)
      PROVE  Stopping'
  <2>1. CASE TryEnqueue(j)
      BY <2>1 DEF TryEnqueue
  <2>2. CASE EnqueueSend(j)
      BY <2>2 DEF EnqueueSend
  <2>3. CASE EnqueuePark(j)
      BY <2>3 DEF EnqueuePark
  <2> QED
      BY <1>4, <2>1, <2>2, <2>3
      DEF Tick, EnqueueCheck, CallStep, EnqueueCount, EnqueuePanic, EnqueueSeesDone, EnqueueStopped
<1>5. ASSUME NEW w \in Workers, WorkerStep(w)
      PROVE  Stopping'
  <2>1. /\ UNCHANGED <<lifecycle, closed>>
        /\ \A v \in Workers : v # w => wpc'[v] = wpc[v]
        /\ wpc[w] \in {"new", "range", "received", "running"}
        /\ wpc'[w] # "done" \/ WorkerExit(w)
      BY <1>5
      DEF TypeOK, WorkerStep, WorkerStart, Receive, MarkDequeued, MarkFinished, WorkerExit
  <2>2. senders' = senders \/ senders # <<>>
      BY <1>5 DEF WorkerStep, WorkerStart, Receive, MarkDequeued, MarkFinished, WorkerExit
  <2>3. buffer' = buffer \/ buffer # <<>>
      BY <1>5 DEF WorkerStep, WorkerStart, Receive, MarkDequeued, MarkFinished, WorkerExit
  <2>4. WorkerExit(w) => closed /\ buffer = <<>>
      BY DEF WorkerExit
  <2>5. wpc[w] # "off" /\ wpc[w] # "done"
      BY <2>1
  <2>6. \A v \in Workers : wpc'[v] = "done" => closed' /\ buffer' = <<>>
      BY <2>1, <2>3, <2>4 DEF WorkerExit
  <2> QED  BY <2>1, <2>2, <2>5, <2>6
<1>6. CASE UNCHANGED vars
  BY <1>6 DEF vars
<1> QED  BY <1>1, <1>2, <1>3, <1>4, <1>5, <1>6 DEF Next

(* Every step of the queue moves a job from one place to the next.           *)
LEMMA QueuePlaces ==
    TypeOK /\ Stopping /\ Placed /\ Accounted /\ [Next]_vars => Placed' /\ Accounted'
<1>0. SUFFICES ASSUME TypeOK, Stopping, Placed, Accounted, [Next]_vars
               PROVE  Placed' /\ Accounted'
  OBVIOUS
<1> USE QueueAssumption
    DEF TypeOK, Placed, Accounted, Busy, lifecycle, channel, counters, callers, workers
<1>1. CASE Start
  <2>1. \A w \in Workers : wpc[w] = "off" /\ wjob[w] = {}
      BY <1>0, <1>1 DEF Start, Stopping
  <2>2. UNCHANGED <<channel, wjob, pc, ran>> /\ \A w \in Workers : wpc'[w] = "new"
      BY <1>0, <1>1 DEF Start
  <2> QED  BY <1>0, <2>1, <2>2
<1>2. CASE ShutdownDetach
  BY <1>0, <1>2 DEF ShutdownDetach
<1>3. CASE ShutdownStep
  <2>1. CASE ShutdownCancel
      BY <1>0, <2>1, EmptyHolds DEF ShutdownCancel
  <2>2. CASE ShutdownClose \/ ShutdownReturn
      BY <1>0, <2>2 DEF ShutdownClose, ShutdownReturn
  <2> QED  BY <1>0, <1>3, <2>1, <2>2 DEF ShutdownStep
<1>4. ASSUME NEW j \in Jobs, Tick(j) \/ EnqueueCheck(j) \/ TryEnqueue(j) \/ CallStep(j)
      PROVE  Placed' /\ Accounted'
  <2>1. CASE Tick(j) \/ EnqueueCheck(j) \/ EnqueueCount(j) \/ EnqueuePanic(j)
             \/ EnqueueSeesDone(j) \/ EnqueueStopped(j)
    <3>1. /\ UNCHANGED <<channel, workers, ran>>
          /\ pc[j] \in {"idle", "ticked", "checked", "counted", "woken"}
          /\ \E x \in Calls \ {"parked", "accepted"} : pc' = [pc EXCEPT ![j] = x]
        BY <1>0, <2>1
        DEF Tick, EnqueueCheck, EnqueueCount, EnqueuePanic, EnqueueSeesDone, EnqueueStopped, Calls
    <3> QED  BY <1>0, <3>1
  <2>2. CASE EnqueueSend(j) \/ TryEnqueue(j)
    <3>1. CASE UNCHANGED buffer
      <4>1. /\ UNCHANGED <<channel, workers, ran>> /\ pc[j] = "idle"
            /\ \E x \in {"rejected", "panicked"} : pc' = [pc EXCEPT ![j] = x]
          BY <1>0, <2>2, <3>1, AppendHolds DEF EnqueueSend, TryEnqueue
      <4> QED  BY <1>0, <4>1
    <3>2. CASE ~UNCHANGED buffer
      <4>1. /\ UNCHANGED <<senders, workers, ran>> /\ pc[j] \in {"idle", "counted"}
            /\ pc' = [pc EXCEPT ![j] = "accepted"] /\ buffer' = Append(buffer, j)
          BY <1>0, <2>2, <3>2 DEF EnqueueSend, TryEnqueue
      <4>2. ~Holds(buffer, j) /\ ran[j] = 0 /\ ~Holds(senders, j)
            /\ \A w \in Workers : j \notin wjob[w]
          BY <1>0, <4>1
      <4>3. /\ Distinct(buffer') /\ \A k : Holds(buffer', k) <=> Holds(buffer, k) \/ k = j
          BY <1>0, <4>1, <4>2, AppendHolds
      <4> QED  BY <1>0, <4>1, <4>2, <4>3
    <3> QED  BY <1>0, <3>1, <3>2
  <2>3. CASE EnqueuePark(j)
    <3>1. /\ UNCHANGED <<buffer, workers, ran>> /\ pc[j] = "counted"
          /\ pc' = [pc EXCEPT ![j] = "parked"]
          /\ senders' = senders \/ senders' = Append(senders, j)
        BY <1>0, <2>3 DEF EnqueuePark
    <3>2. ~Holds(senders, j) /\ ~Holds(buffer, j)
        BY <1>0, <3>1
    <3>3. /\ Distinct(senders') /\ \A k : Holds(senders', k) => Holds(senders, k) \/ k = j
      <4>1. CASE senders' = senders
          BY <1>0, <4>1
      <4>2. CASE senders' = Append(senders, j)
          BY <1>0, <3>2, <4>2, AppendHolds
      <4> QED  BY <1>0, <3>1, <4>1, <4>2
    <3> QED  BY <1>0, <3>1, <3>2, <3>3
  <2> QED  BY <1>0, <1>4, <2>1, <2>2, <2>3 DEF CallStep
<1>5. ASSUME NEW w \in Workers, WorkerStep(w)
      PROVE  Placed' /\ Accounted'
  <2>1. CASE WorkerStart(w) \/ WorkerExit(w)
    <3>1. /\ UNCHANGED <<channel, pc, wjob, ran>> /\ ~Busy(w) /\ ~Busy(w)'
          /\ \A v \in Workers : v # w => wpc'[v] = wpc[v]
        BY <1>0, <2>1 DEF WorkerStart, WorkerExit
    <3>2. \A v \in Workers : Busy(v)' <=> Busy(v)
        BY <1>0, <3>1
    <3> QED  BY <1>0, <3>1, <3>2, SMTT(30)
  <2>2. CASE Receive(w)
    <3> DEFINE h == Head(buffer)
               g == Head(senders)
    <3>1. /\ wpc[w] = "range" /\ buffer # <<>> /\ UNCHANGED ran
          /\ wpc' = [wpc EXCEPT ![w] = "received"] /\ wjob' = [wjob EXCEPT ![w] = {h}]
        BY <1>0, <2>2 DEF Receive
    <3>2. /\ h \in Jobs /\ Holds(buffer, h) /\ Distinct(Tail(buffer))
          /\ \A k : Holds(Tail(buffer), k) <=> Holds(buffer, k) /\ k # h
          /\ Tail(buffer) \in Seq(Jobs)
        BY <1>0, <3>1, TailHolds
    <3>5. /\ pc[h] = "accepted" /\ ran[h] = 0 /\ wjob[w] = {}
          /\ \A v \in Workers : h \notin wjob[v]
        BY <1>0, <3>1, <3>2
    <3>7. /\ \A v, u \in Workers : v # u => wjob[v] \cap wjob[u] = {}
          /\ \A v \in Workers : \A j \in wjob[v] : /\ wjob[v] = {j} /\ pc[j] = "accepted"
                                                 /\ ran[j] = 0 /\ ~Holds(buffer, j)
          /\ \A v \in Workers : wjob[v] # {} <=> Busy(v)
          /\ \A j \in Jobs : Holds(senders, j) => pc[j] = "parked"
          /\ \A j \in Jobs : Holds(buffer, j) => pc[j] = "accepted" /\ ran[j] = 0
          /\ \A v \in Workers : \A j \in wjob[v] : j \in Jobs
          /\ DOMAIN pc = Jobs
        BY <1>0
    <3>8. \A j \in Jobs :
            /\ ran[j] # 0 => ran[j] = 1 /\ pc[j] = "accepted"
            /\ pc[j] = "accepted" /\ ran[j] = 0 =>
                 Holds(buffer, j) \/ \E v \in Workers : j \in wjob[v]
        BY <1>0
    <3>6. \A v \in Workers : /\ wjob'[v] = IF v = w THEN {h} ELSE wjob[v]
                             /\ Busy(v)' <=> v = w \/ Busy(v)
        BY <1>0, <3>1
    <3> HIDE DEF h, g
    <3>3. CASE senders = <<>>
      <4>1. buffer' = Tail(buffer) /\ UNCHANGED <<senders, pc, ran>>
          BY <2>2, <3>3 DEF Receive, h
      <4>2. Placed'
        <5>1. \A v, u \in Workers : v # u => wjob'[v] \cap wjob'[u] = {}
            BY <3>5, <3>6, <3>7
        <5>2. \A v \in Workers : \A j \in wjob'[v] :
                 wjob'[v] = {j} /\ pc[j] = "accepted" /\ ran[j] = 0 /\ ~Holds(buffer', j)
            BY <3>2, <3>5, <3>6, <3>7, <4>1
        <5>3. \A v \in Workers : wjob'[v] # {} <=> Busy(v)'
            BY <3>5, <3>6, <3>7
        <5> QED  BY <1>0, <3>2, <4>1, <5>1, <5>2, <5>3
      <4>3. Accounted'
        <5>1. \A j \in Jobs : pc[j] = "accepted" /\ ran[j] = 0 =>
                 Holds(buffer', j) \/ \E v \in Workers : j \in wjob'[v]
            BY <3>2, <3>5, <3>6, <3>8, <4>1
        <5> QED  BY <3>8, <4>1, <5>1
      <4> QED  BY <4>2, <4>3
    <3>4. CASE senders # <<>>
      <4>1. /\ buffer' = Append(Tail(buffer), g) /\ senders' = Tail(senders)
            /\ pc' = [pc EXCEPT ![g] = "accepted"] /\ UNCHANGED ran
          BY <2>2, <3>4 DEF Receive, g
      <4>2. /\ g \in Jobs /\ Holds(senders, g) /\ Distinct(senders')
            /\ \A k : Holds(senders', k) <=> Holds(senders, k) /\ k # g
          BY <1>0, <3>4, <4>1, TailHolds DEF g
      <4>3. pc[g] = "parked" /\ ran[g] = 0 /\ ~Holds(buffer, g)
          BY <1>0, <4>2
      <4>4. /\ Distinct(buffer')
            /\ \A k : Holds(buffer', k) <=> (Holds(buffer, k) /\ k # h) \/ k = g
        <5>1. ~Holds(Tail(buffer), g)
            BY <3>2, <4>3
        <5> QED  BY <3>2, <4>1, <4>2, <5>1, AppendHolds
      <4>5. Placed'
        <5>1. \A v, u \in Workers : v # u => wjob'[v] \cap wjob'[u] = {}
            BY <3>5, <3>6, <3>7
        <5>2. \A v \in Workers : \A j \in wjob'[v] :
                 wjob'[v] = {j} /\ pc'[j] = "accepted" /\ ran[j] = 0 /\ ~Holds(buffer', j)
            BY <3>2, <3>5, <3>6, <3>7, <4>1, <4>3, <4>4
        <5>3. \A v \in Workers : wjob'[v] # {} <=> Busy(v)'
            BY <3>5, <3>6, <3>7
        <5>4. \A j \in Jobs : Holds(senders', j) => pc'[j] = "parked"
            BY <3>7, <4>1, <4>2
        <5>5. \A j \in Jobs : Holds(buffer', j) => pc'[j] = "accepted" /\ ran[j] = 0
            BY <3>7, <4>1, <4>2, <4>3, <4>4
        <5> QED  BY <4>1, <4>2, <4>4, <5>1, <5>2, <5>3, <5>4, <5>5
      <4>6. Accounted'
        <5>1. \A j \in Jobs : ran[j] # 0 => ran[j] = 1 /\ pc'[j] = "accepted"
            BY <3>7, <3>8, <4>1
        <5>2. \A j \in Jobs : pc'[j] = "accepted" /\ ran[j] = 0 =>
                 Holds(buffer', j) \/ \E v \in Workers : j \in wjob'[v]
            BY <3>5, <3>6, <3>7, <3>8, <4>1, <4>4
        <5> QED  BY <4>1, <5>1, <5>2
      <4> QED  BY <4>5, <4>6
    <3> QED  BY <3>3, <3>4
  <2>3. CASE MarkDequeued(w)
      BY <1>0, <2>3 DEF MarkDequeued
  <2>4. CASE MarkFinished(w)
    <3> PICK j \in wjob[w] : ran' = [ran EXCEPT ![j] = @ + 1]
        BY <1>0, <2>4 DEF MarkFinished
    <3>1. /\ wpc' = [wpc EXCEPT ![w] = "range"] /\ wjob' = [wjob EXCEPT ![w] = {}]
          /\ UNCHANGED <<channel, callers>>
        BY <1>0, <2>4 DEF MarkFinished
    <3>2. j \in Jobs /\ wjob[w] = {j} /\ ran[j] = 0 /\ pc[j] = "accepted" /\ ~Holds(buffer, j)
          /\ \A v \in Workers : v # w => j \notin wjob[v]
        BY <1>0
    <3> QED  BY <1>0, <3>1, <3>2
  <2> QED  BY <1>0, <1>5, <2>1, <2>2, <2>3, <2>4 DEF WorkerStep
<1>6. CASE UNCHANGED vars
  BY <1>0, <1>6 DEF vars
<1> QED  BY <1>0, <1>1, <1>2, <1>3, <1>4, <1>5, <1>6 DEF Next

(* What the counters tell the runner stays true: only the sweep itself takes
   its count away.                                                           *)
LEMMA QueueCounts ==
    TypeOK /\ Stopping /\ Placed /\ Accounted /\ Shown /\ Counted /\ OneActive /\ [Next]_vars
      => Shown' /\ Counted' /\ OneActive'
<1>0. SUFFICES ASSUME TypeOK, Stopping, Placed, Shown, Counted, OneActive, [Next]_vars
               PROVE  Shown' /\ Counted' /\ OneActive'
  OBVIOUS
<1> USE QueueAssumption DEF lifecycle, channel, counters, callers, workers
<1>1. CASE /\ UNCHANGED <<counters, callers, wjob, ran>>
           /\ \A w \in Workers : wjob[w] # {} => wpc'[w] = wpc[w]
  BY <1>0, <1>1 DEF Shown, Counted, OneActive, Active
<1>2. ASSUME NEW j \in Jobs, Tick(j)
      PROVE  Shown' /\ Counted' /\ OneActive'
  <2>1. /\ j \in Sweeps /\ \A k \in Sweeps : pc[k] \in {"idle", "accepted", "rejected"}
        /\ ~QueueBusy(QueueOf[j]) /\ pc' = [pc EXCEPT ![j] = "ticked"]
        /\ UNCHANGED <<counters, workers, ran>>
      BY <1>2 DEF Tick
  <2>2. ASSUME NEW k \in Sweeps
        PROVE  ~Active(k)
    <3>1. k \in Jobs /\ QueueOf[k] = QueueOf[j]
        BY <2>1
    <3>2. ~(pc[k] = "accepted" /\ ran[k] = 0)
        BY <1>0, <2>1, <3>1 DEF Shown, QueueBusy, TypeOK
    <3> QED  BY <2>1, <3>2 DEF Active
  <2>3. \A k \in Sweeps : k # j => pc'[k] = pc[k]
      BY <1>0, <2>1 DEF TypeOK
  <2>4. pc'[j] = "ticked"
      BY <1>0, <2>1 DEF TypeOK
  <2> QED  BY <2>1, <2>2, <2>3, <2>4 DEF Shown, Counted, OneActive, Active
<1>3. ASSUME NEW j \in Jobs, EnqueueCheck(j) \/ EnqueuePanic(j) \/ EnqueueSeesDone(j)
                              \/ EnqueuePark(j) \/ EnqueueSend(j)
      PROVE  Shown' /\ Counted' /\ OneActive'
  <2>1. UNCHANGED <<counters, workers, ran>> /\ \A k \in Jobs : k # j => pc'[k] = pc[k]
      BY <1>0, <1>3 DEF EnqueueCheck, EnqueuePanic, EnqueueSeesDone, EnqueuePark, EnqueueSend, TypeOK
  <2>2. /\ j \in Sweeps => Active(j) /\ pc[j] # "accepted"
        /\ pc'[j] \in {"counted", "parked", "woken", "accepted"} => pc[j] = "counted"
      BY <1>0, <1>3
      DEF EnqueueCheck, EnqueuePanic, EnqueueSeesDone, EnqueuePark, EnqueueSend, TypeOK, Active
  <2>3. pc[j] # "accepted" => \A w \in Workers : j \notin wjob[w]
      BY <1>0 DEF Placed
  <2>4. \A k \in Sweeps : k \in Jobs
      OBVIOUS
  <2>5. Shown' /\ Counted'
      BY <1>0, <2>1, <2>2, <2>3, <2>4 DEF Shown, Counted
  <2>6. \A k \in Sweeps : Active(k)' => Active(k)
      BY <2>1, <2>2, <2>4 DEF Active
  <2> QED  BY <1>0, <2>5, <2>6 DEF OneActive
<1>4. ASSUME NEW j \in Jobs, EnqueueCount(j) \/ TryEnqueue(j)
      PROVE  Shown' /\ Counted' /\ OneActive'
  <2>1. UNCHANGED <<inFlight, workers, ran>> /\ \A k \in Jobs : k # j => pc'[k] = pc[k]
      BY <1>0, <1>4 DEF EnqueueCount, TryEnqueue, TypeOK
  <2>2. \A q \in Queues : pending'[q] >= pending[q] /\ pending[q] \in Nat /\ pending'[q] \in Nat
                          /\ (EnqueueCount(j) => pending'[QueueOf[j]] > 0)
    <3>1. pending \in [Queues -> Nat] /\ QueueOf[j] \in Queues
        BY <1>0 DEF TypeOK
    <3>2. \/ pending' = pending /\ ~EnqueueCount(j)
          \/ pending' = [pending EXCEPT ![QueueOf[j]] = @ + 1]
        BY <1>4 DEF EnqueueCount, TryEnqueue
    <3> QED  BY <3>1, <3>2
  <2>3. j \in Sweeps => Active(j) /\ pc'[j] = "counted" /\ EnqueueCount(j)
      BY <1>0, <1>4 DEF EnqueueCount, TryEnqueue, TypeOK, Active
  <2>4. \A k \in Sweeps : k \in Jobs /\ QueueOf[k] \in Queues
      OBVIOUS
  <2>5. \A k \in Sweeps : pc'[k] = pc[k] \/ k = j
      BY <2>1, <2>4
  <2>6. Shown'
    <3> SUFFICES ASSUME NEW k \in Sweeps, pc'[k] = "accepted", ran'[k] = 0,
                        ~\E w \in Workers : k \in wjob[w] /\ wpc[w] = "running"
                 PROVE  pending'[QueueOf[k]] > 0
        BY <1>0, <2>1, <2>3, <2>5 DEF Shown
    <3>1. pending[QueueOf[k]] > 0
        BY <1>0, <2>1, <2>3, <2>5 DEF Shown
    <3> QED  BY <2>2, <2>4, <3>1
  <2>7. Counted'
    <3> SUFFICES ASSUME NEW k \in Sweeps, pc'[k] \in {"counted", "parked", "woken"}
                 PROVE  pending'[QueueOf[k]] > 0
        BY DEF Counted
    <3>1. k # j => pending[QueueOf[k]] > 0
        BY <1>0, <2>5 DEF Counted
    <3> QED  BY <2>2, <2>3, <2>4, <3>1
  <2>8. \A k \in Sweeps : Active(k)' => Active(k)
      BY <2>1, <2>3, <2>5 DEF Active
  <2> QED  BY <1>0, <2>6, <2>7, <2>8 DEF OneActive
<1>5. ASSUME NEW j \in Jobs, EnqueueStopped(j)
      PROVE  Shown' /\ Counted' /\ OneActive'
  <2>1. /\ UNCHANGED <<inFlight, workers, ran>> /\ pc[j] = "woken"
        /\ \A k \in Jobs : pc'[k] = IF k = j THEN "rejected" ELSE pc[k]
        /\ \A q \in Queues : q # QueueOf[j] => pending'[q] = pending[q]
      BY <1>0, <1>5 DEF EnqueueStopped, TypeOK
  <2>2. \A k \in Sweeps : k \in Jobs /\ QueueOf[k] \in Queues
      OBVIOUS
  <2>3. \A k \in Sweeps : Active(k)' => Active(k) /\ k # j
      BY <2>1, <2>2 DEF Active
  <2>4. \A k \in Sweeps : Active(k)' => QueueOf[k] # QueueOf[j]
      BY <1>0, <2>1, <2>2, <2>3 DEF OneActive, Active
  <2>5. Shown'
      BY <1>0, <2>1, <2>2, <2>4 DEF Shown, Active
  <2>6. Counted'
      BY <1>0, <2>1, <2>2, <2>4 DEF Counted, Active
  <2> QED  BY <1>0, <2>3, <2>5, <2>6 DEF OneActive
<1>6. ASSUME NEW w \in Workers, Receive(w)
      PROVE  Shown' /\ Counted' /\ OneActive'
  <2> DEFINE g == Head(senders)
  <2>1. /\ UNCHANGED <<counters, ran>> /\ wpc[w] = "range" /\ wpc'[w] = "received"
        /\ \A v \in Workers : v # w => wjob'[v] = wjob[v] /\ wpc'[v] = wpc[v]
      BY <1>0, <1>6 DEF Receive, TypeOK
  <2>2. \/ pc' = pc
        \/ g \in Jobs /\ pc[g] = "parked" /\ pc' = [pc EXCEPT ![g] = "accepted"]
    <3>1. CASE senders = <<>>
        BY <1>6, <3>1 DEF Receive
    <3>2. CASE senders # <<>>
      <4>1. g \in Jobs /\ Holds(senders, g)
          BY <1>0, <3>2, TailHolds DEF TypeOK, Placed
      <4> QED  BY <1>0, <1>6, <3>2, <4>1 DEF Receive, Placed
    <3> QED  BY <3>1, <3>2
  <2> HIDE DEF g
  <2>3. \A k \in Sweeps : pc'[k] = pc[k] \/ (k = g /\ pc[k] = "parked" /\ pc'[k] = "accepted")
      BY <1>0, <2>2 DEF TypeOK
  <2>4. \A k \in Jobs : (\E v \in Workers : k \in wjob'[v] /\ wpc'[v] = "running")
                         <=> \E v \in Workers : k \in wjob[v] /\ wpc[v] = "running"
      BY <2>1
  <2>5. \A k \in Jobs : pc[k] = "parked" => ~\E v \in Workers : k \in wjob[v]
      BY <1>0 DEF Placed
  <2>6. \A k \in Sweeps : k \in Jobs
      OBVIOUS
  <2>7. Shown'
      BY <1>0, <2>1, <2>3, <2>4, <2>5, <2>6 DEF Shown, Counted
  <2>8. Counted'
      BY <1>0, <2>1, <2>3 DEF Counted
  <2>9. \A k \in Sweeps : Active(k)' => Active(k)
      BY <2>1, <2>3 DEF Active
  <2> QED  BY <1>0, <2>7, <2>8, <2>9 DEF OneActive
<1>7. ASSUME NEW w \in Workers, MarkDequeued(w)
      PROVE  Shown' /\ Counted' /\ OneActive'
  <2>1. PICK j \in wjob[w] :
             /\ pending' = [pending EXCEPT ![QueueOf[j]] = IF @ > 0 THEN @ - 1 ELSE 0]
             /\ inFlight' = [inFlight EXCEPT ![QueueOf[j]] = @ + 1]
      BY <1>7 DEF MarkDequeued
  <2>2. j \in Jobs /\ QueueOf[j] \in Queues /\ wjob[w] = {j} /\ pc[j] = "accepted" /\ ran[j] = 0
      BY <1>0 DEF TypeOK, Placed
  <2>3. /\ UNCHANGED <<pc, wjob, ran>> /\ wpc'[w] = "running" /\ wpc[w] = "received"
        /\ \A v \in Workers : v # w => wpc'[v] = wpc[v]
      BY <1>0, <1>7 DEF MarkDequeued, TypeOK
  <2>4. /\ inFlight'[QueueOf[j]] > 0
        /\ \A q \in Queues : q # QueueOf[j] => pending'[q] = pending[q] /\ inFlight'[q] = inFlight[q]
      BY <1>0, <2>1, <2>2 DEF TypeOK
  <2>5. \A k \in Sweeps : Active(k) /\ k # j => QueueOf[k] # QueueOf[j]
      BY <1>0, <2>2 DEF OneActive, Active
  <2>6. \A k \in Sweeps : k \in Jobs /\ QueueOf[k] \in Queues
      OBVIOUS
  <2>7. \A k \in Jobs : k # j => ((\E v \in Workers : k \in wjob'[v] /\ wpc'[v] = "running")
                         <=> \E v \in Workers : k \in wjob[v] /\ wpc[v] = "running")
      BY <2>2, <2>3
  <2>8. Shown'
      BY <1>0, <2>2, <2>3, <2>4, <2>5, <2>6, <2>7 DEF Shown, Active
  <2>9. Counted'
      BY <1>0, <2>2, <2>3, <2>4, <2>5, <2>6 DEF Counted, Active
  <2> QED  BY <1>0, <2>3, <2>8, <2>9 DEF OneActive, Active
<1>8. ASSUME NEW w \in Workers, MarkFinished(w)
      PROVE  Shown' /\ Counted' /\ OneActive'
  <2>1. PICK j \in wjob[w] :
             /\ inFlight' = [inFlight EXCEPT ![QueueOf[j]] = IF @ > 0 THEN @ - 1 ELSE 0]
             /\ ran' = [ran EXCEPT ![j] = @ + 1]
      BY <1>8 DEF MarkFinished
  <2>2. j \in Jobs /\ QueueOf[j] \in Queues /\ wjob[w] = {j} /\ pc[j] = "accepted" /\ ran[j] = 0
      BY <1>0 DEF TypeOK, Placed
  <2>3. /\ UNCHANGED <<pc, pending>> /\ wjob'[w] = {}
        /\ \A v \in Workers : v # w => wpc'[v] = wpc[v] /\ wjob'[v] = wjob[v]
        /\ ran'[j] = 1 /\ \A k \in Jobs : k # j => ran'[k] = ran[k]
      BY <1>0, <1>8, <2>1, <2>2 DEF MarkFinished, TypeOK
  <2>4. \A q \in Queues : q # QueueOf[j] => inFlight'[q] = inFlight[q]
      BY <1>0, <2>1, <2>2 DEF TypeOK
  <2>5. \A k \in Sweeps : Active(k) /\ k # j => QueueOf[k] # QueueOf[j]
      BY <1>0, <2>2 DEF OneActive, Active
  <2>6. \A k \in Sweeps : k \in Jobs /\ QueueOf[k] \in Queues
      OBVIOUS
  <2>7. \A k \in Jobs : k # j => ((\E v \in Workers : k \in wjob'[v] /\ wpc'[v] = "running")
                         <=> \E v \in Workers : k \in wjob[v] /\ wpc[v] = "running")
      BY <2>2, <2>3
  <2>8. Shown'
      BY <1>0, <2>2, <2>3, <2>4, <2>5, <2>6, <2>7 DEF Shown, Active
  <2>9. Counted'
      BY <1>0, <2>3 DEF Counted
  <2> QED  BY <1>0, <2>2, <2>3, <2>6, <2>8, <2>9 DEF OneActive, Active
<1>9. CASE ShutdownCancel
  <2>1. /\ UNCHANGED <<counters, workers, ran>>
        /\ \A k \in Jobs : pc'[k] = IF pc[k] = "parked" THEN "woken" ELSE pc[k]
      BY <1>0, <1>9 DEF ShutdownCancel, TypeOK
  <2>2. \A k \in Sweeps : k \in Jobs
      OBVIOUS
  <2> QED  BY <1>0, <2>1, <2>2 DEF Shown, Counted, OneActive, Active
<1>10. CASE Start
  <2>1. UNCHANGED <<counters, callers, wjob, ran>> /\ \A w \in Workers : wpc'[w] = "new"
      BY <1>10 DEF Start
  <2>2. \A w \in Workers : wpc[w] # "running"
      BY <1>0, <1>10 DEF Start, Stopping
  <2> QED  BY <1>0, <2>1, <2>2 DEF Shown, Counted, OneActive, Active
<1>11. CASE ShutdownDetach \/ ShutdownClose \/ ShutdownReturn \/ UNCHANGED vars
  BY <1>1, <1>11 DEF ShutdownDetach, ShutdownClose, ShutdownReturn, vars
<1>12. ASSUME NEW w \in Workers, WorkerStart(w) \/ WorkerExit(w)
       PROVE  Shown' /\ Counted' /\ OneActive'
  <2>1. /\ UNCHANGED <<counters, callers, wjob, ran>> /\ ~Busy(w)
        /\ \A v \in Workers : v # w => wpc'[v] = wpc[v]
      BY <1>0, <1>12 DEF WorkerStart, WorkerExit, TypeOK, Busy
  <2> QED  BY <1>0, <1>1, <2>1 DEF Placed
<1> QED
  BY <1>0, <1>2, <1>3, <1>4, <1>5, <1>6, <1>7, <1>8, <1>9, <1>10, <1>11, <1>12
  DEF Next, ShutdownStep, CallStep, WorkerStep

(* What the queue promises follows.                                          *)
LEMMA QueueImplied == QueueInv => OneSweep /\ NothingDropped
<1> SUFFICES ASSUME QueueInv  PROVE OneSweep /\ NothingDropped
  OBVIOUS
<1>1. OneSweep
  <2> DEFINE A == {j \in Sweeps : Active(j)}
  <2>1. CASE A = {}
      BY <2>1, FS_EmptySet DEF OneSweep, Active
  <2>2. CASE A # {}
    <3> PICK j \in A : TRUE
        BY <2>2
    <3>1. A = {j}
        BY DEF QueueInv, OneActive
    <3>2. Cardinality(A) = 1
        BY <3>1, FS_Singleton
    <3> QED  BY <3>2 DEF OneSweep, Active
  <2> QED  BY <2>1, <2>2
<1>2. NothingDropped
  <2> SUFFICES ASSUME NEW j \in Jobs
               PROVE  /\ ran[j] <= IF pc[j] = "accepted" THEN 1 ELSE 0
                      /\ shut = "returned" /\ pc[j] = "accepted" => ran[j] = 1
      BY DEF NothingDropped
  <2>1. ran[j] \in {0, 1} /\ (ran[j] = 1 => pc[j] = "accepted")
      BY DEF QueueInv, Accounted, TypeOK
  <2>2. ASSUME shut = "returned", pc[j] = "accepted", ran[j] = 0
        PROVE  FALSE
    <3>1. Workers # {} /\ \A w \in Workers : wpc[w] = "done" /\ buffer = <<>> /\ wjob[w] = {}
        BY <2>2, QueueAssumption DEF QueueInv, Stopping, Placed, Busy
    <3>2. ~Holds(buffer, j) /\ \A w \in Workers : j \notin wjob[w]
        BY <3>1, EmptyHolds
    <3> QED  BY <2>2, <3>2 DEF QueueInv, Accounted
  <2> QED  BY <2>1, <2>2
<1> QED  BY <1>1, <1>2

(* The invariant of the queue (runtime.go).                                  *)
THEOREM QueueInvHolds == Spec => []QueueInv
<1>1. Init => QueueInv
  BY QueueInit
<1>2. QueueInv /\ [Next]_vars => QueueInv'
  BY QueueTypes, QueueStopping, QueuePlaces, QueueCounts DEF QueueInv
<1> QED  BY <1>1, <1>2, PTL DEF Spec

(* Two sweeps never overlap (scheduler.go, queueBusy; runtime.go, Snapshot). *)
THEOREM OneSweepHolds == Spec => []OneSweep
BY QueueInvHolds, QueueImplied, PTL

(* A refused job never runs, an accepted one at most once, and all have run
   when Shutdown returns (Enqueue, TryEnqueue, Shutdown in runtime.go).      *)
THEOREM NothingDroppedHolds == Spec => []NothingDropped
BY QueueInvHolds, QueueImplied, PTL

-----------------------------------------------------------------------------
(* The order sweep                                                           *)

(* An order that nobody can pay any more, and never will: it is closed, or
   its row is gone and its number is used up.                                *)
Settled(o) ==
    /\ status[o] \in S!Closed \cup {"none"}
    /\ o \in Legacy \/ born[o] # 0

Statuses == {"none"} \cup S!Waiting \cup S!Closed

SweepShape ==
    /\ status \in [S!Orders -> Statuses] /\ born \in [S!Orders -> Nat] /\ clock \in Nat
    /\ batch \in Seq(S!Orders) /\ doomed \subseteq S!Orders

(* A row has a creation time, or an older runtime left it behind.            *)
Created == \A o \in S!Orders : status[o] # "none" => o \in Legacy \/ born[o] # 0

(* What the cleanup has in memory is settled, whenever it was read.          *)
Collected ==
    /\ stage = "decide" => \A i \in DOMAIN batch : Settled(batch[i])
    /\ stage \in {"decide", "delete"} => \A o \in doomed : Settled(o)

SweepInv == SweepShape /\ Created /\ Collected

(* The rows a batch reads are rows of the query.                             *)
LEMMA OldestReads ==
    ASSUME NEW R \in SUBSET S!Orders, NEW time, NEW q \in S!Oldest(R, time)
    PROVE  q \in Seq(S!Orders) /\ \A i \in DOMAIN q : q[i] \in R
<1>1. PICK n \in 0..BatchLimit : q \in [1..n -> R]
  BY DEF S!Oldest
<1>2. n \in Nat
  BY BackgroundAssumption DEF S!SweepAssumption
<1> QED  BY <1>1, <1>2

LEMMA SweepInit == S!Init => SweepInv
<1> SUFFICES ASSUME S!Init  PROVE SweepInv
  OBVIOUS
<1>1. MaxClock \in Nat /\ Legacy \subseteq S!Orders
  BY BackgroundAssumption DEF S!SweepAssumption
<1> QED  BY <1>1 DEF S!Init, SweepInv, SweepShape, Created, Collected, Statuses, S!Waiting, S!Closed

(* What one step does to the rows: an order that is settled stays so, every
   row keeps its time of creation.                                           *)
LEMMA SettledStays ==
    ASSUME SweepShape, Created, [S!Next]_sweepVars
    PROVE  /\ status' \in [S!Orders -> Statuses] /\ born' \in [S!Orders -> Nat] /\ clock' \in Nat
           /\ Created'
           /\ \A o \in S!Orders : Settled(o) => Settled(o)'
<1> DEFINE Goal == /\ status' \in [S!Orders -> Statuses] /\ born' \in [S!Orders -> Nat] /\ clock' \in Nat
                   /\ Created'
                   /\ \A o \in S!Orders : Settled(o) => Settled(o)'
<1> USE DEF SweepShape, Created, Settled, Statuses, S!Waiting, S!Closed
<1>1. ASSUME UNCHANGED <<status, born>>, clock' \in Nat
      PROVE  Goal
  BY <1>1
<1>2. ASSUME NEW o \in S!Orders, S!Opened(o), UNCHANGED <<born, clock>>,
             status[o] \in {"pending", "cancelled", "paid"}
      PROVE  Goal
  BY <1>2 DEF S!Opened
<1>3. ASSUME NEW o \in S!Orders, status[o] \in {"pending", "paid"}, UNCHANGED <<born, clock>>,
             status' = [status EXCEPT ![o] = "cancelled"]
      PROVE  Goal
  BY <1>3
<1>4. ASSUME NEW o \in S!Orders, S!SaveOrder(o)
      PROVE  Goal
  BY <1>4 DEF S!SaveOrder, S!sweep, S!people
<1>5. ASSUME NEW o \in S!Orders, S!CheckoutClaim(o) \/ S!ClaimEnds(o)
      PROVE  Goal
  BY <1>1, <1>5 DEF S!CheckoutClaim, S!ClaimEnds
<1>6. ASSUME NEW o \in S!Orders, S!MarkOrderPaid(o)
      PROVE  Goal
  BY <1>2, <1>6 DEF S!MarkOrderPaid
<1>7. ASSUME NEW o \in S!Orders, S!CancelOrder(o)
      PROVE  Goal
  BY <1>3, <1>7 DEF S!CancelOrder
<1>8. ASSUME NEW o \in S!Orders, S!RefundManagedOrder(o)
      PROVE  Goal
  BY <1>8 DEF S!RefundManagedOrder
<1>9. ASSUME NEW u \in Users, S!DeleteOrdersOfUser(u)
      PROVE  Goal
  BY <1>1, <1>9 DEF S!DeleteOrdersOfUser, S!rows
<1>10. ASSUME NEW u \in Users, S!DeleteUserCommits(u)
       PROVE  Goal
  BY <1>10 DEF S!DeleteUserCommits
<1>11. ASSUME S!Tick
       PROVE  Goal
  BY <1>1, <1>11 DEF S!Tick, S!rows
<1>12. ASSUME S!SweepFails \/ S!SweepBegins \/ S!CleanupReads \/ S!CleanupDecides
       PROVE  Goal
  BY <1>1, <1>12 DEF S!SweepFails, S!SweepBegins, S!CleanupReads, S!CleanupDecides, S!rows
<1>13. ASSUME S!handleQueuedOrder
       PROVE  Goal
  <2>1. Head(batch) \in S!Orders
      BY <1>13 DEF S!handleQueuedOrder
  <2>2. CASE S!FailsOn(Head(batch))
      BY <1>1, <1>13, <2>2 DEF S!handleQueuedOrder
  <2>3. CASE ~S!FailsOn(Head(batch)) /\ S!Cancels(Head(batch))
      BY <1>3, <1>13, <2>1, <2>3 DEF S!handleQueuedOrder, S!Cancels, S!Opens, S!shouldAutoCancel
  <2>4. CASE ~S!FailsOn(Head(batch)) /\ ~S!Cancels(Head(batch)) /\ S!Opens(Head(batch))
      BY <1>2, <1>13, <2>1, <2>4 DEF S!handleQueuedOrder, S!Opens, S!Cancels, S!shouldAutoCancel
  <2>5. CASE ~S!FailsOn(Head(batch)) /\ ~S!Cancels(Head(batch)) /\ ~S!Opens(Head(batch))
      BY <1>1, <1>13, <2>5 DEF S!handleQueuedOrder
  <2> QED  BY <2>2, <2>3, <2>4, <2>5
<1>14. ASSUME S!CleanupDeletes
       PROVE  Goal
  BY <1>14 DEF S!CleanupDeletes
<1>15. CASE UNCHANGED sweepVars
  BY <1>1, <1>15 DEF sweepVars
<1> QED
  BY <1>4, <1>5, <1>6, <1>7, <1>8, <1>9, <1>10, <1>11, <1>12, <1>13, <1>14, <1>15
  DEF S!Next, S!SweepStep

(* What the cleanup holds is settled: it read closed rows, and they stay.    *)
LEMMA SweepSteps ==
    ASSUME SweepInv, [S!Next]_sweepVars
    PROVE  SweepInv'
<1>1. /\ status' \in [S!Orders -> Statuses] /\ born' \in [S!Orders -> Nat] /\ clock' \in Nat
      /\ Created' /\ \A o \in S!Orders : Settled(o) => Settled(o)'
  BY SettledStays DEF SweepInv
<1> DEFINE Goal == batch' \in Seq(S!Orders) /\ doomed' \subseteq S!Orders /\ Collected'
<1>2. ASSUME UNCHANGED <<stage, batch, doomed>>
      PROVE  Goal
  BY <1>1, <1>2 DEF SweepInv, SweepShape, Collected
<1>3. ASSUME S!SweepBegins
      PROVE  Goal
  <2>1. PICK q \in S!Oldest({o \in S!Orders : status[o] \in S!Waiting}, born) : batch' = q
      BY <1>3 DEF S!SweepBegins
  <2>2. q \in Seq(S!Orders)
      BY OldestReads
  <2> QED  BY <1>3, <2>1, <2>2 DEF S!SweepBegins, SweepInv, SweepShape, Collected
<1>4. ASSUME S!handleQueuedOrder
      PROVE  Goal
  <2>1. batch' \in {<<>>, Tail(batch)} /\ stage' \in {"orders", "idle"} /\ doomed' = doomed
      BY <1>4, Zenon DEF S!handleQueuedOrder
  <2>2. batch # <<>> /\ batch \in Seq(S!Orders)
      BY <1>4 DEF S!handleQueuedOrder, SweepInv, SweepShape
  <2>3. batch' \in Seq(S!Orders)
      BY <2>1, <2>2, EmptySeq, HeadTailProperties
  <2> QED  BY <2>1, <2>3 DEF SweepInv, SweepShape, Collected
<1>5. ASSUME S!CleanupReads
      PROVE  Goal
  <2>1. PICK q \in S!Oldest(S!Expired(clock - KeepAge), touched) : batch' = q
      BY <1>5 DEF S!CleanupReads
  <2>2. q \in Seq(S!Orders) /\ \A i \in DOMAIN q : q[i] \in S!Expired(clock - KeepAge)
      BY OldestReads DEF S!Expired
  <2>3. \A o \in S!Expired(clock - KeepAge) : o \in S!Orders /\ Settled(o)
      BY DEF S!Expired, Settled, SweepInv, Created, S!Closed
  <2>4. \A o \in doomed' : \E i \in DOMAIN q : o = q[i]
      BY <1>5, <2>1 DEF S!CleanupReads, S!ToSet
  <2>5. doomed' \subseteq S!Orders /\ \A o \in doomed' : Settled(o)
      BY <2>2, <2>3, <2>4
  <2> QED  BY <1>1, <1>5, <2>1, <2>2, <2>3, <2>5 DEF S!CleanupReads, SweepInv, SweepShape, Collected
<1>6. ASSUME S!CleanupDecides
      PROVE  Goal
  <2>1. /\ stage = "decide" /\ stage' = "delete" /\ batch' = <<>>
        /\ \A o \in doomed' : o \in doomed \/ \E i \in DOMAIN batch : o = batch[i]
      BY <1>6 DEF S!CleanupDecides, S!ToSet
  <2>2. /\ batch \in Seq(S!Orders) /\ doomed \subseteq S!Orders
        /\ \A i \in DOMAIN batch : Settled(batch[i])
        /\ \A o \in doomed : Settled(o)
      BY <2>1 DEF SweepInv, SweepShape, Collected
  <2>3. \A i \in DOMAIN batch : batch[i] \in S!Orders
      BY <2>2
  <2>4. doomed' \subseteq S!Orders /\ \A o \in doomed' : Settled(o)
      BY <2>1, <2>2, <2>3
  <2>5. \A o \in doomed' : Settled(o)'
      BY <1>1, <2>4
  <2> QED  BY <2>1, <2>4, <2>5, EmptySeq DEF Collected
<1>7. ASSUME S!CleanupDeletes \/ S!SweepFails
      PROVE  Goal
  <2>1. batch' \in {<<>>, batch} /\ stage' = "idle" /\ doomed' = {}
      BY <1>7 DEF S!CleanupDeletes, S!SweepFails
  <2>2. batch' \in Seq(S!Orders)
      BY <2>1, EmptySeq DEF SweepInv, SweepShape
  <2> QED  BY <2>1, <2>2 DEF SweepInv, SweepShape, Collected
<1>8. ASSUME NEW o \in S!Orders,
             \/ S!SaveOrder(o) \/ S!CheckoutClaim(o) \/ S!ClaimEnds(o)
             \/ S!MarkOrderPaid(o) \/ S!CancelOrder(o) \/ S!RefundManagedOrder(o)
      PROVE  UNCHANGED <<stage, batch, doomed>>
  BY <1>8 DEF S!SaveOrder, S!CheckoutClaim, S!ClaimEnds, S!MarkOrderPaid, S!CancelOrder,
              S!RefundManagedOrder, S!sweep
<1>9. ASSUME \/ S!Tick \/ UNCHANGED sweepVars
             \/ \E u \in Users : S!DeleteOrdersOfUser(u) \/ S!DeleteUserCommits(u)
      PROVE  UNCHANGED <<stage, batch, doomed>>
  BY <1>9 DEF S!Tick, S!DeleteOrdersOfUser, S!DeleteUserCommits, S!sweep, sweepVars
<1>10. Goal
  <2> HIDE DEF Goal
  <2> QED
    BY <1>2, <1>3, <1>4, <1>5, <1>6, <1>7, <1>8, <1>9 DEF S!Next, S!SweepStep
<1> QED  BY <1>1, <1>10 DEF SweepInv, SweepShape

(* The rows the DELETE takes are closed at that moment, whatever users,
   gateways and administrators did since they were read (CleanupDeletes).    *)
THEOREM DeletesClosedHolds == S!Spec => DeletesClosed
<1> DEFINE Harmless == stage = "delete" /\ stage' = "idle" => \A o \in S!Orders :
                          status[o] # "none" /\ status'[o] = "none" => status[o] \in S!Closed
<1>1. S!Init => SweepInv
  BY SweepInit
<1>2. SweepInv /\ [S!Next]_(S!vars) => SweepInv'
  BY SweepSteps DEF S!vars, S!rows, S!people, S!sweep, sweepVars
<1>3. ASSUME SweepInv, [S!Next]_(S!vars)
      PROVE  Harmless
  <2> SUFFICES ASSUME stage = "delete", stage' = "idle", NEW o \in S!Orders,
                      status[o] # "none", status'[o] = "none"
               PROVE  status[o] \in S!Closed
      OBVIOUS
  <2>1. S!CleanupDeletes \/ S!SweepFails
    <3>1. ~ \E k \in S!Orders : \/ S!SaveOrder(k) \/ S!CheckoutClaim(k) \/ S!ClaimEnds(k)
                               \/ S!MarkOrderPaid(k) \/ S!CancelOrder(k)
                               \/ S!RefundManagedOrder(k)
        BY DEF S!SaveOrder, S!CheckoutClaim, S!ClaimEnds, S!MarkOrderPaid, S!CancelOrder,
               S!RefundManagedOrder, S!sweep
    <3>2. ~ \/ S!Tick \/ UNCHANGED S!vars
            \/ \E u \in Users : S!DeleteOrdersOfUser(u) \/ S!DeleteUserCommits(u)
        BY DEF S!Tick, S!DeleteOrdersOfUser, S!DeleteUserCommits, S!sweep, S!vars
    <3>3. ~ (S!SweepBegins \/ S!handleQueuedOrder \/ S!CleanupReads \/ S!CleanupDecides)
        BY DEF S!SweepBegins, S!handleQueuedOrder, S!CleanupReads, S!CleanupDecides
    <3> QED  BY <1>3, <3>1, <3>2, <3>3 DEF S!Next, S!SweepStep
  <2>2. status' # status
      OBVIOUS
  <2>3. S!CleanupDeletes
      BY <2>1, <2>2 DEF S!SweepFails, S!rows
  <2>4. o \in doomed
      BY <2>3 DEF S!CleanupDeletes
  <2> QED  BY <1>3, <2>4 DEF SweepInv, Collected, Settled
<1> QED  BY <1>1, <1>2, <1>3, PTL DEF S!Spec, DeletesClosed, S!DeletesClosed

-----------------------------------------------------------------------------
(* The traffic reset                                                         *)

(* A stamp is taken apart into what it was made of.                          *)
LEMMA StampParts ==
    \A m \in Nat, d \in 1..31 :
        /\ T!Stamp(m, d) \in Nat
        /\ T!Month(T!Stamp(m, d)) = m /\ T!DayOf(T!Stamp(m, d)) = d
BY DEF T!Stamp, T!Month, T!DayOf

(* A day of the window lies in a month that has two before it.               *)
LEMMA DayParts ==
    ASSUME NEW now \in T!Days
    PROVE  /\ now \in Nat /\ T!Month(now) \in Nat /\ T!Month(now) > 2
           /\ now = T!Stamp(T!Month(now), T!DayOf(now))
           /\ T!DayOf(now) \in 1..MonthDays[T!Month(now)]
           /\ \A m \in {T!Month(now), T!Month(now) - 1, T!Month(now) - 2} :
                m \in T!Months /\ MonthDays[m] \in 28..31
<1>1. MonthDays \in Seq(28..31) /\ FirstDay \in T!Days /\ T!Month(FirstDay) > 2
  BY BackgroundAssumption DEF T!CalendarAssumption
<1>2. T!Months = 1..Len(MonthDays) /\ Len(MonthDays) \in Nat
  BY <1>1 DEF T!Months
<1>3. \A m \in T!Months : m \in Nat /\ MonthDays[m] \in 28..31
  BY <1>1, <1>2
<1>4. ASSUME NEW s \in T!Days
      PROVE  \E m \in T!Months : \E d \in 1..31 : d <= MonthDays[m] /\ s = T!Stamp(m, d)
  <2>1. PICK m \in T!Months : \E d \in 1..MonthDays[m] : s = T!Stamp(m, d)
      BY DEF T!Days, T!Dates
  <2> QED  BY <1>3, <2>1
<1>5. PICK m \in T!Months : \E d \in 1..31 : d <= MonthDays[m] /\ now = T!Stamp(m, d)
  BY <1>4
<1>6. PICK d \in 1..31 : d <= MonthDays[m] /\ now = T!Stamp(m, d)
  BY <1>5
<1>7. now \in Nat /\ T!Month(now) = m /\ T!DayOf(now) = d
  BY <1>3, <1>6, StampParts
<1>8. FirstDay \in Nat /\ FirstDay <= now
  <2>1. PICK k \in T!Months : \E e \in 1..31 : FirstDay = T!Stamp(k, e)
      BY <1>1, <1>4
  <2>2. FirstDay \in Nat
      BY <1>3, <2>1, StampParts
  <2>3. LastDay \in T!Days
      BY BackgroundAssumption DEF T!CalendarAssumption
  <2>4. PICK l \in T!Months : \E e \in 1..31 : LastDay = T!Stamp(l, e)
      BY <1>4, <2>3
  <2>5. LastDay \in Nat
      BY <1>3, <2>4, StampParts
  <2> QED  BY <2>2, <2>5 DEF T!Days
<1>9. T!Month(FirstDay) <= T!Month(now)
  BY <1>7, <1>8 DEF T!Month
<1>10. m > 2
  BY <1>1, <1>3, <1>7, <1>8, <1>9 DEF T!Month
<1>11. \A k \in {m, m - 1, m - 2} : k \in T!Months
  BY <1>2, <1>10
<1> QED  BY <1>3, <1>6, <1>7, <1>10, <1>11

(* The day a cycle begins is never later than the day it is current.         *)
Recorded(cycle, now) ==
    /\ T!Begins(cycle.start) \in Nat
    /\ T!Begins(cycle.start) <= now /\ T!Begins(cycle.start) <= cycle.start

CycleRecords == [method : 0..2, start : Nat]

LEMMA CurrentCycleBegun ==
    ASSUME NEW now \in T!Days, NEW day \in 1..31, method \in 0..2
    PROVE  T!CurrentCycle(day, now) \in CycleRecords /\ Recorded(T!CurrentCycle(day, now), now)
<1> DEFINE m == T!Month(now)
           d == T!DayOf(now)
<1>1. /\ now \in Nat /\ m \in Nat /\ m > 2 /\ now = T!Stamp(m, d)
      /\ MonthDays[m] \in 28..31 /\ MonthDays[m - 1] \in 28..31 /\ MonthDays[m - 2] \in 28..31
      /\ d \in 1..MonthDays[m]
  BY DayParts
<1> HIDE DEF m, d
<1>2. ASSUME NEW k \in {m, m - 1}, NEW e \in 1..31, T!Stamp(k, e) <= now
      PROVE  T!Stamp(k, e) \in Nat /\ Recorded([method |-> method, start |-> T!Stamp(k, e)], now)
  <2>1. k \in Nat /\ MonthDays[k - 1] \in 28..31
      BY <1>1
  <2>2. T!Stamp(k, e) \in Nat /\ T!Month(T!Stamp(k, e)) = k /\ T!DayOf(T!Stamp(k, e)) = e
      BY <2>1, StampParts
  <2> QED  BY <1>1, <1>2, <2>1, <2>2 DEF Recorded, T!Begins, T!Stamp
<1>3. CASE method = 2
  BY <1>1, <1>3 DEF T!CurrentCycle, T!NoCycle, CycleRecords, Recorded, T!Begins
<1>4. CASE method = 0
  <2>1. T!Stamp(m, 1) <= now
      BY <1>1 DEF T!Stamp
  <2>2. T!CurrentCycle(day, now) = [method |-> method, start |-> T!Stamp(m, 1)]
      BY <1>4 DEF T!CurrentCycle, m
  <2> QED  BY <1>2, <1>4, <2>1, <2>2 DEF CycleRecords
<1>5. CASE method = 1
  <2>1. T!CurrentCycle(day, now) = [method |-> method, start |-> T!MonthlyAnchor(day, now)]
      BY <1>5 DEF T!CurrentCycle
  <2>2. \A k \in {m, m - 1} : \E e \in 1..31 : T!Clipped(k, day) = T!Stamp(k, e) /\ e = T!Least(day, MonthDays[k])
      BY <1>1 DEF T!Clipped, T!Least
  <2>3. CASE T!Clipped(m, day) <= now
      BY <1>2, <1>5, <2>1, <2>2, <2>3 DEF T!MonthlyAnchor, CycleRecords, m
  <2>4. CASE ~(T!Clipped(m, day) <= now) /\ d <= MonthDays[m - 1]
    <3>1. T!MonthlyAnchor(day, now) = T!Clipped(m - 1, day)
        BY <2>4 DEF T!MonthlyAnchor, T!MonthBefore, m, d
    <3>2. PICK e \in 1..31 : T!Clipped(m - 1, day) = T!Stamp(m - 1, e)
        BY <2>2
    <3>3. T!Stamp(m - 1, e) <= now
        BY <1>1 DEF T!Stamp
    <3> QED  BY <1>2, <1>5, <2>1, <3>1, <3>2, <3>3 DEF CycleRecords
  <2>5. CASE ~(T!Clipped(m, day) <= now) /\ ~(d <= MonthDays[m - 1])
    <3>1. T!MonthlyAnchor(day, now) = T!Clipped(m, day)
        BY <2>5 DEF T!MonthlyAnchor, T!MonthBefore, m, d
    <3>2. PICK e \in 1..31 : T!Clipped(m, day) = T!Stamp(m, e)
        BY <2>2
    <3>3. e > d
        BY <1>1, <2>5, <3>2 DEF T!Stamp
    <3>4. T!Stamp(m, e) \in Nat /\ T!Month(T!Stamp(m, e)) = m /\ T!DayOf(T!Stamp(m, e)) = e
        BY <1>1, StampParts
    <3>5. T!Begins(T!Stamp(m, e)) = T!Stamp(m, MonthDays[m - 1] + 1)
        BY <1>1, <2>5, <3>3, <3>4 DEF T!Begins, T!Stamp
    <3>6. /\ T!Stamp(m, MonthDays[m - 1] + 1) \in Nat /\ T!Stamp(m, MonthDays[m - 1] + 1) <= now
          /\ T!Stamp(m, MonthDays[m - 1] + 1) <= T!Stamp(m, e)
        BY <1>1, <2>5, <3>3 DEF T!Stamp
    <3> QED  BY <1>5, <2>1, <3>1, <3>2, <3>4, <3>5, <3>6 DEF CycleRecords, Recorded
  <2> QED  BY <2>3, <2>4, <2>5
<1> QED  BY <1>3, <1>4, <1>5

(* What a sweep has in memory between two statements.                        *)
Progress ==
    [step : {"next"}, day : T!Days, left : SUBSET Subscribers, used : SUBSET Subscribers,
     target : [Subscribers -> 1..31], started : [Subscribers -> Nat]]
    \cup
    [step : {"reset", "mark"}, day : T!Days, left : SUBSET Subscribers,
     used : SUBSET Subscribers, target : [Subscribers -> 1..31],
     started : [Subscribers -> Nat], of : Subscribers, cycle : CycleRecords]

TrafficShape ==
    /\ today \in T!Days /\ method \in 0..2
    /\ target \in [Subscribers -> 1..31] /\ paidAt \in [Subscribers -> Nat]
    /\ used \in [Subscribers -> Nat] /\ marker \in [Subscribers -> CycleRecords]
    /\ job \in [Sweepers -> {T!Idle} \cup Progress]

(* Payments are not later than today, nor are the recorded cycles.           *)
NotAhead == \A u \in Subscribers : paidAt[u] <= today /\ Recorded(marker[u], today)

(* No traffic of before a recorded cycle, whatever cycle is current now.     *)
ClosedForGood == \A u \in Subscribers : ~T!Precedes(u, marker[u].start)

(* A sweep is behind the rows, never ahead: a subscription it knows is not
   paid later than the one in the table, and traffic it did not see is of its
   own day or after.                                                         *)
Behind(s) ==
    /\ job[s].day <= today
    /\ \A u \in Subscribers :
         /\ job[s].started[u] <= paidAt[u]
         /\ u \notin job[s].used => used[u] = 0 \/ used[u] >= job[s].day

(* The cycle it works on has begun; it records it when nothing precedes it.  *)
Cleared(s) ==
    /\ job[s].step \in {"reset", "mark"} => Recorded(job[s].cycle, job[s].day)
    /\ job[s].step = "mark" => ~T!Precedes(job[s].of, job[s].cycle.start)

InMemory == \A s \in Sweepers : job[s] # T!Idle => Behind(s) /\ Cleared(s)

TrafficInv == TrafficShape /\ NotAhead /\ ClosedForGood /\ InMemory

LEMMA TrafficInit == T!Init => TrafficInv
<1> SUFFICES ASSUME T!Init  PROVE TrafficInv
  OBVIOUS
<1>1. Targets \subseteq 1..31 /\ Methods \subseteq 0..2 /\ FirstDay \in T!Days
  BY BackgroundAssumption DEF T!CalendarAssumption
<1>2. today \in T!Days /\ method \in 0..2 /\ target \in [Subscribers -> 1..31]
  BY <1>1 DEF T!Init
<1>3. \A u \in Subscribers : marker[u] \in CycleRecords /\ Recorded(marker[u], today)
  BY <1>2, CurrentCycleBegun DEF T!Init
<1>4. TrafficShape
  BY <1>2, <1>3 DEF T!Init, TrafficShape
<1>5. NotAhead /\ ClosedForGood /\ InMemory
  BY <1>2, <1>3, DayParts DEF T!Init, NotAhead, ClosedForGood, InMemory, T!Precedes
<1> QED  BY <1>4, <1>5 DEF TrafficInv

(* The day after a day of the window is a day of the window.                 *)
LEMMA TomorrowIsADay ==
    ASSUME today \in T!Days, today < LastDay
    PROVE  T!Tomorrow \in T!Days /\ T!Tomorrow > today
<1> DEFINE m == T!Month(today)
           d == T!DayOf(today)
           k == T!Month(LastDay)
           e == T!DayOf(LastDay)
<1>1. /\ today \in Nat /\ m \in Nat /\ today = T!Stamp(m, d) /\ MonthDays[m] \in 28..31
      /\ d \in 1..MonthDays[m] /\ m \in T!Months
  BY DayParts
<1>2. /\ LastDay \in Nat /\ k \in Nat /\ LastDay = T!Stamp(k, e) /\ MonthDays[k] \in 28..31
      /\ e \in 1..MonthDays[k] /\ k \in T!Months
  BY DayParts, BackgroundAssumption DEF T!CalendarAssumption
<1>3. T!Months = 1..Len(MonthDays) /\ Len(MonthDays) \in Nat /\ \A i \in T!Months : MonthDays[i] \in 28..31
  BY BackgroundAssumption DEF T!CalendarAssumption, T!Months
<1>4. FirstDay \in Nat /\ FirstDay <= today
  BY <1>1, <1>2, DayParts, BackgroundAssumption DEF T!CalendarAssumption, T!Days
<1>5. \A i \in T!Months : \A j \in 1..MonthDays[i] :
        T!Stamp(i, j) \in Nat /\ today < T!Stamp(i, j) /\ T!Stamp(i, j) <= LastDay => T!Stamp(i, j) \in T!Days
  BY <1>2, <1>4 DEF T!Days, T!Dates
<1>6. CASE d = MonthDays[m]
  <2>1. m + 1 <= k
      BY <1>1, <1>2, <1>6 DEF T!Stamp
  <2>2. m + 1 \in T!Months /\ 1 \in 1..MonthDays[m + 1]
      BY <1>1, <1>2, <1>3, <2>1, SMTT(30)
  <2>3. T!Stamp(m + 1, 1) \in Nat /\ today < T!Stamp(m + 1, 1) /\ T!Stamp(m + 1, 1) <= LastDay
      BY <1>1, <1>2, <2>1 DEF T!Stamp
  <2> QED  BY <1>5, <1>6, <2>2, <2>3 DEF T!Tomorrow
<1>7. CASE d # MonthDays[m]
  <2>1. today + 1 = T!Stamp(m, d + 1) /\ d + 1 \in 1..MonthDays[m]
      BY <1>1, <1>7 DEF T!Stamp
  <2>2. today < today + 1 /\ today + 1 <= LastDay /\ today + 1 \in Nat
      BY <1>1, <1>2
  <2> QED  BY <1>1, <1>5, <1>7, <2>1, <2>2 DEF T!Tomorrow
<1> QED  BY <1>6, <1>7

(* Time, orders, reports and commands disturb neither the records nor a sweep:
   traffic is cleared or of today, a payment is of today.                    *)
LEMMA RowsMove ==
    ASSUME TrafficInv, today' \in T!Days, today' >= today, method' \in 0..2,
           target' \in [Subscribers -> 1..31],
           used' \in [Subscribers -> Nat], \A u \in Subscribers : used'[u] \in {used[u], 0, today},
           paidAt' \in [Subscribers -> Nat], \A u \in Subscribers : paidAt'[u] \in {paidAt[u], today},
           UNCHANGED <<marker, job>>
    PROVE  TrafficInv'
<1>1. today \in Nat /\ today' \in Nat
  BY DayParts DEF TrafficInv, TrafficShape
<1>2. TrafficShape'
  BY DEF TrafficInv, TrafficShape
<1>3. \A u \in Subscribers : paidAt[u] \in Nat /\ used[u] \in Nat /\ Recorded(marker[u], today)
  BY DEF TrafficInv, TrafficShape, NotAhead
<1>4. NotAhead'
  BY <1>1, <1>3 DEF TrafficInv, NotAhead, Recorded
<1>5. ASSUME NEW u \in Subscribers, NEW start, T!Begins(start) \in Nat, T!Begins(start) <= today,
             ~T!Precedes(u, start)
      PROVE  ~T!Precedes(u, start)'
  BY <1>1, <1>3, <1>5 DEF T!Precedes
<1>6. ClosedForGood'
  BY <1>3, <1>5 DEF TrafficInv, ClosedForGood, Recorded
<1>7. ASSUME NEW s \in Sweepers, job[s] # T!Idle
      PROVE  Behind(s)' /\ Cleared(s)'
  <2>1. Behind(s) /\ Cleared(s) /\ job'[s] = job[s]
      BY <1>7 DEF TrafficInv, InMemory
  <2>2. job[s] \in Progress
      BY <1>7 DEF TrafficInv, TrafficShape
  <2>3. job[s].day \in T!Days /\ job[s].started \in [Subscribers -> Nat]
      BY <2>2 DEF Progress
  <2>4. job[s].day \in Nat
      BY <2>3, DayParts
  <2>5. \A u \in Subscribers : paidAt'[u] >= paidAt[u]
      BY <1>1, <1>3 DEF TrafficInv, NotAhead
  <2>6. Behind(s)'
      BY <1>1, <1>3, <2>1, <2>3, <2>4, <2>5 DEF Behind
  <2>7. ASSUME job[s].step \in {"reset", "mark"}
        PROVE  job[s].of \in Subscribers /\ Recorded(job[s].cycle, job[s].day)
      BY <2>1, <2>2, <2>7 DEF Progress, Cleared
  <2>8. ASSUME job[s].step = "mark"
        PROVE  ~T!Precedes(job[s].of, job[s].cycle.start)'
      BY <1>1, <1>5, <2>1, <2>4, <2>7, <2>8 DEF Cleared, Recorded, Behind
  <2>9. Cleared(s)'
      BY <2>1, <2>7, <2>8 DEF Cleared, Recorded
  <2> QED  BY <2>6, <2>9
<1>8. InMemory'
  BY <1>7 DEF InMemory
<1> QED  BY <1>2, <1>4, <1>6, <1>8 DEF TrafficInv

(* A statement of a sweep changes the memory of that sweep, and may clear
   traffic or record a cycle that nothing precedes.                          *)
LEMMA MemoryMoves ==
    ASSUME TrafficInv, NEW s \in Sweepers, NEW mem \in {T!Idle} \cup Progress,
           job' = [job EXCEPT ![s] = mem], mem # T!Idle => Behind(s)' /\ Cleared(s)',
           used' \in [Subscribers -> Nat], \A u \in Subscribers : used'[u] \in {used[u], 0},
           marker' \in [Subscribers -> CycleRecords],
           \A u \in Subscribers : \/ marker'[u] = marker[u]
                                 \/ /\ Recorded(marker'[u], today)
                                    /\ ~T!Precedes(u, marker'[u].start),
           UNCHANGED <<today, method, target, paidAt>>
    PROVE  TrafficInv'
<1>1. TrafficShape'
  BY DEF TrafficInv, TrafficShape
<1>2. ASSUME NEW u \in Subscribers, NEW start, ~T!Precedes(u, start)
      PROVE  ~T!Precedes(u, start)'
  BY <1>2 DEF T!Precedes
<1>3. ASSUME NEW u \in Subscribers
      PROVE  Recorded(marker'[u], today) /\ ~T!Precedes(u, marker'[u].start)
  BY DEF TrafficInv, NotAhead, ClosedForGood
<1>4. NotAhead'
  BY <1>3 DEF TrafficInv, NotAhead, Recorded
<1>5. ClosedForGood'
  BY <1>2, <1>3 DEF ClosedForGood
<1>6. job'[s] = mem /\ \A v \in Sweepers : v # s => job'[v] = job[v]
  BY DEF TrafficInv, TrafficShape
<1>7. ASSUME NEW v \in Sweepers, job'[v] # T!Idle
      PROVE  Behind(v)' /\ Cleared(v)'
  <2>1. CASE v = s
      BY <1>6, <1>7, <2>1
  <2>2. CASE v # s
    <3>1. Behind(v) /\ Cleared(v) /\ job'[v] = job[v] /\ job[v] \in Progress
        BY <1>6, <1>7, <2>2 DEF TrafficInv, TrafficShape, InMemory
    <3>2. job[v].step = "mark" => job[v].of \in Subscribers
        BY <3>1 DEF Progress
    <3> QED  BY <1>2, <3>1, <3>2 DEF Behind, Cleared, Recorded
  <2> QED  BY <2>1, <2>2
<1> QED  BY <1>1, <1>4, <1>5, <1>7 DEF TrafficInv, InMemory

(* Begin, Decide, Reset, Mark, Finish and Abort.                             *)
LEMMA SweepMoves ==
    ASSUME TrafficInv, NEW s \in Sweepers, T!Sweep(s) \/ T!Abort(s)
    PROVE  TrafficInv'
<1> DEFINE mem == job[s]
<1>1. /\ today \in T!Days /\ today \in Nat /\ method \in 0..2
      /\ target \in [Subscribers -> 1..31] /\ paidAt \in [Subscribers -> Nat]
      /\ used \in [Subscribers -> Nat] /\ marker \in [Subscribers -> CycleRecords]
      /\ job \in [Sweepers -> {T!Idle} \cup Progress]
  BY DayParts DEF TrafficInv, TrafficShape
<1>2. ASSUME mem # T!Idle
      PROVE  mem \in Progress /\ mem.day \in T!Days /\ mem.day \in Nat /\ Behind(s) /\ Cleared(s)
  <2>1. mem \in Progress /\ Behind(s) /\ Cleared(s)
      BY <1>1, <1>2 DEF TrafficInv, InMemory
  <2>2. mem.day \in T!Days
      BY <2>1 DEF Progress
  <2> QED  BY <2>1, <2>2, DayParts
<1>3. CASE T!Finish(s) \/ T!Abort(s)
  <2>1. job' = [job EXCEPT ![s] = T!Idle] /\ UNCHANGED <<today, method, target, paidAt, used, marker>>
      BY <1>3 DEF T!Finish, T!Abort, T!clock, T!user
  <2> QED  BY <1>1, <2>1, MemoryMoves
<1>4. CASE T!Begin(s)
  <2> DEFINE new == [step |-> "next", day |-> today, left |-> Subscribers,
                     used |-> {u \in Subscribers : used[u] # 0},
                     target |-> target, started |-> paidAt]
  <2>1. job' = [job EXCEPT ![s] = new] /\ UNCHANGED <<today, method, target, paidAt, used, marker>>
      BY <1>4 DEF T!Begin, T!clock, T!user
  <2>2. new \in Progress
      BY <1>1 DEF Progress
  <2>3. job'[s] = new
      BY <1>1, <2>1
  <2>4. Behind(s)' /\ Cleared(s)'
      BY <1>1, <2>1, <2>3 DEF Behind, Cleared
  <2> HIDE DEF new
  <2> QED  BY <1>1, <2>1, <2>2, <2>4, MemoryMoves
<1>5. ASSUME NEW u \in Subscribers, T!Decide(s, u)
      PROVE  TrafficInv'
  <2> DEFINE cycle == T!CurrentCycle(mem.target[u], mem.day)
             due == u \in mem.used /\ mem.started[u] < cycle.start
             skipped == [mem EXCEPT !.left = @ \ {u}]
             decided == [step |-> IF due THEN "reset" ELSE "mark", day |-> mem.day,
                         left |-> mem.left, used |-> mem.used, target |-> mem.target,
                         started |-> mem.started, of |-> u, cycle |-> cycle]
  <2>1. mem.step = "next" /\ mem # T!Idle /\ UNCHANGED <<today, method, target, paidAt, used, marker>>
      BY <1>5 DEF T!Decide, T!Idle, T!clock, T!user
  <2>2. /\ mem \in Progress /\ mem.day \in T!Days /\ mem.day \in Nat /\ Behind(s)
        /\ mem.target \in [Subscribers -> 1..31] /\ mem.started \in [Subscribers -> Nat]
        /\ mem.left \subseteq Subscribers /\ mem.used \subseteq Subscribers
      BY <1>2, <2>1 DEF Progress
  <2>3. cycle \in CycleRecords /\ Recorded(cycle, mem.day)
      BY <1>1, <2>2, CurrentCycleBegun
  <2>4. \/ job' = [job EXCEPT ![s] = skipped]
        \/ job' = [job EXCEPT ![s] = decided]
      BY <1>1, <1>5 DEF T!Decide
  <2>5. CASE job' = [job EXCEPT ![s] = skipped]
    <3>1. /\ skipped \in Progress /\ skipped.day = mem.day /\ skipped.used = mem.used
          /\ skipped.started = mem.started /\ skipped.step = "next"
        BY <2>1, <2>2 DEF Progress
    <3>2. job'[s] = skipped
        BY <1>1, <2>5
    <3>3. Behind(s)' /\ Cleared(s)'
        BY <2>1, <2>2, <3>1, <3>2 DEF Behind, Cleared
    <3> HIDE DEF skipped
    <3> QED  BY <1>1, <2>1, <2>5, <3>1, <3>3, MemoryMoves
  <2>6. CASE job' = [job EXCEPT ![s] = decided]
    <3> HIDE DEF cycle
    <3>1. /\ decided \in Progress /\ decided.day = mem.day /\ decided.used = mem.used
          /\ decided.started = mem.started /\ decided.step = (IF due THEN "reset" ELSE "mark")
          /\ decided.of = u /\ decided.cycle = cycle
        BY <2>2, <2>3 DEF Progress
    <3>2. job'[s] = decided
        BY <1>1, <2>6
    <3>3. Behind(s)'
        BY <2>1, <2>2, <3>1, <3>2 DEF Behind
    <3>4. ASSUME ~due
          PROVE  ~T!Precedes(u, cycle.start)
      <4>1. /\ used[u] \in Nat /\ paidAt[u] \in Nat /\ mem.started[u] \in Nat
            /\ mem.started[u] <= paidAt[u]
            /\ u \notin mem.used => used[u] = 0 \/ used[u] >= mem.day
          BY <1>1, <2>2 DEF Behind
      <4>2. cycle.start \in Nat
          BY <2>3 DEF CycleRecords
      <4>3. T!Begins(cycle.start) \in Nat /\ T!Begins(cycle.start) <= mem.day /\ T!Begins(cycle.start) <= cycle.start
          BY <2>3 DEF Recorded
      <4>4. CASE u \notin mem.used
          BY <2>2, <4>1, <4>3, <4>4 DEF T!Precedes
      <4>5. CASE ~(mem.started[u] < cycle.start)
          BY <4>1, <4>2, <4>3, <4>5 DEF T!Precedes
      <4> QED  BY <3>4, <4>4, <4>5
    <3>5. Cleared(s)'
        BY <2>1, <2>3, <3>1, <3>2, <3>4 DEF Cleared, Recorded, T!Precedes
    <3> HIDE DEF decided
    <3> QED  BY <1>1, <2>1, <2>6, <3>1, <3>3, <3>5, MemoryMoves
  <2> QED  BY <2>4, <2>5, <2>6
<1>6. CASE T!Reset(s)
  <2> DEFINE cleared == [mem EXCEPT !.step = "mark"]
  <2>1. /\ mem.step = "reset" /\ mem # T!Idle /\ job' = [job EXCEPT ![s] = cleared]
        /\ used' = [used EXCEPT ![mem.of] = 0] /\ UNCHANGED <<today, method, target, paidAt, marker>>
      BY <1>1, <1>6 DEF T!Reset, T!Idle, T!clock
  <2>2. /\ mem \in Progress /\ mem.day \in Nat /\ Behind(s) /\ Cleared(s) /\ mem.of \in Subscribers
      BY <1>2, <2>1 DEF Progress
  <2>3. /\ cleared \in Progress /\ cleared.day = mem.day /\ cleared.used = mem.used
        /\ cleared.started = mem.started /\ cleared.step = "mark" /\ cleared.of = mem.of
        /\ cleared.cycle = mem.cycle
      BY <2>1, <2>2 DEF Progress
  <2>4. job'[s] = cleared
      BY <1>1, <2>1
  <2>5. used' \in [Subscribers -> Nat] /\ used'[mem.of] = 0 /\ \A u \in Subscribers : used'[u] \in {used[u], 0}
      BY <1>1, <2>1, <2>2
  <2>6. Behind(s)'
      BY <1>1, <2>1, <2>2, <2>3, <2>4, <2>5 DEF Behind
  <2>7. Cleared(s)'
      BY <2>1, <2>2, <2>3, <2>4, <2>5 DEF Cleared, Recorded, T!Precedes
  <2> HIDE DEF cleared
  <2> QED  BY <1>1, <2>1, <2>3, <2>5, <2>6, <2>7, MemoryMoves
<1>7. CASE T!Mark(s)
  <2> DEFINE next == [step |-> "next", day |-> mem.day, left |-> mem.left \ {mem.of},
                      used |-> mem.used, target |-> mem.target, started |-> mem.started]
  <2>1. /\ mem.step = "mark" /\ mem # T!Idle /\ job' = [job EXCEPT ![s] = next]
        /\ marker' = [marker EXCEPT ![mem.of] = mem.cycle] /\ UNCHANGED <<today, method, target, paidAt, used>>
      BY <1>7 DEF T!Mark, T!Marked, T!Idle, T!clock, T!user
  <2>2. /\ mem \in Progress /\ mem.day \in Nat /\ Behind(s) /\ Cleared(s) /\ mem.of \in Subscribers
        /\ mem.cycle \in CycleRecords
      BY <1>2, <2>1 DEF Progress
  <2>3. next \in Progress
      BY <2>1, <2>2 DEF Progress
  <2>4. job'[s] = next
      BY <1>1, <2>1
  <2>5. Behind(s)' /\ Cleared(s)'
      BY <2>1, <2>2, <2>4 DEF Behind, Cleared
  <2>6. Recorded(mem.cycle, today) /\ ~T!Precedes(mem.of, mem.cycle.start)
      BY <1>1, <2>1, <2>2 DEF Behind, Cleared, Recorded
  <2>7. /\ marker' \in [Subscribers -> CycleRecords]
        /\ \A u \in Subscribers : \/ marker'[u] = marker[u]
                                  \/ u = mem.of /\ marker'[u] = mem.cycle
      BY <1>1, <2>1, <2>2
  <2> HIDE DEF next
  <2> QED  BY <1>1, <2>1, <2>3, <2>5, <2>6, <2>7, MemoryMoves
<1> QED  BY <1>3, <1>4, <1>5, <1>6, <1>7 DEF T!Sweep

(* Time passes, orders are opened, traffic is reported, all is reset.        *)
LEMMA TrafficMoves ==
    ASSUME TrafficInv, [T!Next]_trafficVars
    PROVE  TrafficInv'
<1>1. /\ today \in T!Days /\ today \in Nat /\ T!DayOf(today) \in 1..31 /\ method \in 0..2
      /\ target \in [Subscribers -> 1..31] /\ paidAt \in [Subscribers -> Nat]
      /\ used \in [Subscribers -> Nat]
  BY DayParts DEF TrafficInv, TrafficShape
<1>2. \A day \in 1..31 : T!MonthsLater(day) \subseteq 1..31
  BY DEF T!MonthsLater
<1>3. CASE T!Tick
  <2>1. today' \in T!Days /\ today' > today /\ UNCHANGED <<method, target, paidAt, used, marker, job>>
      BY <1>1, <1>3, TomorrowIsADay DEF T!Tick, T!user
  <2>2. today' \in Nat
      BY <2>1, DayParts
  <2> QED  BY <1>1, <2>1, <2>2, RowsMove
<1>4. CASE T!SetMethod
  <2>1. method' \in 0..2 /\ UNCHANGED <<today, target, paidAt, used, marker, job>>
      BY <1>4, BackgroundAssumption DEF T!SetMethod, T!CalendarAssumption, T!user
  <2> QED  BY <1>1, <2>1, RowsMove
<1>5. CASE T!ResetAllTrafficUsage
  <2>1. /\ used' = [u \in Subscribers |-> 0]
        /\ UNCHANGED <<today, method, target, paidAt, marker, job>>
      BY <1>5 DEF T!ResetAllTrafficUsage, T!clock
  <2> QED  BY <1>1, <2>1, RowsMove
<1>6. ASSUME NEW u \in Subscribers, T!Report(u)
      PROVE  TrafficInv'
  <2>1. /\ used' = [used EXCEPT ![u] = today]
        /\ UNCHANGED <<today, method, target, paidAt, marker, job>>
      BY <1>6 DEF T!Report, T!clock
  <2> QED  BY <1>1, <2>1, RowsMove
<1>7. ASSUME NEW u \in Subscribers, T!Purchase(u) \/ T!Renew(u) \/ T!NewPeriod(u)
      PROVE  TrafficInv'
  <2>1. \/ used' = used
        \/ used' = [used EXCEPT ![u] = 0]
      BY <1>7 DEF T!Purchase, T!Renew, T!NewPeriod
  <2>2. \/ paidAt' = paidAt
        \/ paidAt' = [paidAt EXCEPT ![u] = today]
      BY <1>7 DEF T!Purchase, T!Renew, T!NewPeriod
  <2>3. \E day \in 1..31 : target' = [target EXCEPT ![u] = day]
    <3>1. target[u] \in 1..31 /\ Targets \subseteq 1..31
        BY <1>1, BackgroundAssumption DEF T!CalendarAssumption
    <3> QED  BY <1>1, <1>2, <1>7, <3>1 DEF T!Purchase, T!Renew, T!NewPeriod
  <2>4. UNCHANGED <<today, method, marker, job>>
      BY <1>7 DEF T!Purchase, T!Renew, T!NewPeriod
  <2>5. target' \in [Subscribers -> 1..31]
      BY <1>1, <2>3
  <2>6. used' \in [Subscribers -> Nat] /\ \A v \in Subscribers : used'[v] \in {used[v], 0, today}
      BY <1>1, <2>1
  <2>7. paidAt' \in [Subscribers -> Nat] /\ \A v \in Subscribers : paidAt'[v] \in {paidAt[v], today}
      BY <1>1, <2>2
  <2> QED  BY <1>1, <2>4, <2>5, <2>6, <2>7, RowsMove
<1>8. CASE UNCHANGED trafficVars
  BY <1>1, <1>8, RowsMove DEF trafficVars
<1> QED
  BY <1>3, <1>4, <1>5, <1>6, <1>7, <1>8, SweepMoves DEF T!Next

(* No traffic of a cycle before the recorded one counts any more, whatever
   fails, is reported, bought or swept meanwhile
   (applyTrafficResetCandidate in order_queue.go).                           *)
THEOREM CycleClosedHolds == T!Spec => []CycleClosed
<1>1. T!Init => TrafficInv
  BY TrafficInit
<1>2. TrafficInv /\ [T!Next]_(T!vars) => TrafficInv'
  BY TrafficMoves DEF T!vars, T!clock, T!user, trafficVars
<1>3. TrafficInv => CycleClosed
  BY DEF TrafficInv, ClosedForGood, CycleClosed, T!CycleClosed, T!Stale
<1> QED  BY <1>1, <1>2, <1>3, PTL DEF T!Spec
=============================================================================
