---------------------------- MODULE MCBackground ----------------------------
(***************************************************************************)
(* The background work for TLC: QueueRuntime, and the two parts of the job *)
(* it runs every minute, OrderSweep and TrafficReset.  They share no state *)
(* in the program either; the queue only guarantees that one sweep runs at *)
(* a time (OneSweep), which OrderSweep assumes.  A behaviour is one of the *)
(* queue, of the order sweep or of the traffic reset (part), while the     *)
(* others rest.                                                            *)
(***************************************************************************)
EXTENDS QueueRuntime

CONSTANTS
    u1, u2,
    N, Users, UserOf, Wallet, Legacy, BatchLimit, DueAge, KeepAge, MaxClock, MaxErrors,
    DeleteRaces,
    Subscribers, Sweepers, MonthDays, FirstDay, LastDay, Targets, Methods, MaxOrders

VARIABLES
    part,
    status, born, touched, paid, folds, claimed, corrupt, users, deleting, clock,
    stage, batch, cutoff, doomed, errors,
    today, orders, method, target, paidAt, used, marker, daily, job

sweepVars == <<status, born, touched, paid, folds, claimed, corrupt, users, deleting, clock,
               stage, batch, cutoff, doomed, errors>>
trafficVars == <<today, orders, method, target, paidAt, used, marker, daily, job>>

S == INSTANCE OrderSweep WITH pc <- stage
T == INSTANCE TrafficReset WITH started <- paidAt, Users <- Subscribers

ASSUME BackgroundAssumption == S!SweepAssumption /\ T!CalendarAssumption

\* The first and the last order belong to the same user.
MCUserOf == [o \in 1..N |-> IF o = 2 THEN u2 ELSE u1]

MCQueueOf == [j \in Jobs |-> IF j \in Sweeps THEN "order_handle" ELSE "send_email"]

\* January to April of a common year.
MCMonthDays == <<31, 28, 31, 30>>

\* No order, no sweep, no time left.
NoOrders ==
    /\ status = [o \in S!Orders |-> "none"]
    /\ born = [o \in S!Orders |-> 0] /\ touched = [o \in S!Orders |-> 0]
    /\ paid = [o \in S!Orders |-> 0]
    /\ folds = [o \in S!Orders |-> {}] /\ claimed = [o \in S!Orders |-> "never"]
    /\ corrupt = {}
    /\ users = {} /\ deleting = [u \in Users |-> S!NotDeleting]
    /\ clock = MaxClock
    /\ stage = "off" /\ batch = <<>> /\ cutoff = 0 /\ doomed = {} /\ errors = 0

NoTraffic == T!Init /\ method = 1 /\ target = [u \in Subscribers |-> 1]

MCInit ==
    /\ Init
    /\ \/ part = "queue" /\ NoOrders /\ NoTraffic
       \/ part = "sweep" /\ S!Init /\ NoTraffic
       \/ part = "traffic" /\ NoOrders /\ T!Init

MCNext ==
    /\ UNCHANGED part
    /\ \/ part = "queue" /\ Next /\ UNCHANGED <<sweepVars, trafficVars>>
       \/ part = "sweep" /\ S!Next /\ UNCHANGED <<vars, trafficVars>>
       \/ part = "traffic" /\ T!Next /\ UNCHANGED <<vars, sweepVars>>

MCSpec ==
    /\ MCInit /\ [][MCNext]_<<part, vars, sweepVars, trafficVars>>
    /\ Fairness /\ S!Fairness /\ T!Fairness

\* The properties of OrderSweep and of TrafficReset.
DeletesClosed == S!DeletesClosed
QueueMoves == S!QueueMoves
CycleClosed == T!CycleClosed
CycleCleared == T!CycleCleared
=============================================================================
