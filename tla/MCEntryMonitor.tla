--------------------------- MODULE MCEntryMonitor ---------------------------
(***************************************************************************)
(* EntryMonitor for TLC.  t1 stands for a split leaf, t2 for the same leaf *)
(* when it is listed again, t3 shares an address with t1.  Scenes with     *)
(* bounds of their own share a run.                                        *)
(***************************************************************************)
EXTENDS EntryMonitor, FiniteSets, TLC

CONSTANTS t1, t2, t3, L, A1, A2

VARIABLE scene

LeafOf == [t \in Targets |-> IF t = t3 THEN NoLeaf ELSE L]
HomeOf == [t \in Targets |-> A1]

Scenes ==
  [alarms  |-> [targets |-> {t1, t3}, gen |-> 1, lapse |-> 0, wait |-> 0, resend |-> FALSE, work |-> 0],
   clocks  |-> [targets |-> {t3}, gen |-> 1, lapse |-> 1, wait |-> 2, resend |-> TRUE, work |-> 0],
   results |-> [targets |-> {t1}, gen |-> 2, lapse |-> 0, wait |-> 0, resend |-> TRUE, work |-> 0],
   replace |-> [targets |-> {t1, t2}, gen |-> 1, lapse |-> 0, wait |-> 0, resend |-> FALSE, work |-> 1],
   outage  |-> [targets |-> {t1}, gen |-> 1, lapse |-> 1, wait |-> 0, resend |-> FALSE, work |-> 2]]

Within(b) ==
  /\ \A t \in Targets : target[t].gen <= b.gen /\ (target[t].live => t \in b.targets)
                        /\ (b.work > 0 => target[t].addr = A1)
  /\ target[t3].gen = 1
  /\ Cardinality({p \in Probes : ~online[p]}) <= b.lapse
  /\ Cardinality({p \in Probes : clock[p].open}) <= b.wait
  /\ ~b.resend => \A p \in Probes : sent[p] = None
  /\ Cardinality({w \in Workers : work[w] # Idle}) <= b.work
  /\ b.work = 0 => pool = MaxPool

MCInit ==
  /\ scene \in DOMAIN Scenes
  /\ LET b == Scenes[scene]
     IN /\ online = [p \in Probes |-> TRUE]
        /\ target = [t \in Targets |-> [live |-> t \in Born \cap b.targets, on |-> TRUE,
                                        split |-> Leaf[t] # NoLeaf, gen |-> 1, addr |-> Home[t]]]
        /\ pair = [t \in Targets |-> [p \in Probes |-> NoState]]
        /\ sent = [p \in Probes |-> None]
        /\ clock = [p \in Probes |-> Closed]
        /\ alarm = [a \in Addresses |-> "none"]
        /\ op = [l \in Leaves |-> NoOp]
        /\ pool = MaxPool
        /\ work = [w \in Workers |-> Idle]
        /\ seen = [t \in Targets |-> [p \in Probes |-> 0]]
        /\ doubt = [a \in Addresses |-> FALSE]

MCNext == Next /\ UNCHANGED scene /\ Within(Scenes[scene])'

MCSpec == MCInit /\ [][MCNext]_<<vars, scene>>

Symmetric == Permutations(Probes) \cup Permutations(Workers)
=============================================================================
