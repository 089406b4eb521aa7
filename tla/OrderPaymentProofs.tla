-------------------------- MODULE OrderPaymentProofs --------------------------
(* Proofs about OrderPayment, for any number of users, orders, channels,
   requests and gateway transactions.                                       *)
EXTENDS MCOrderPayment, FiniteSetTheorems, TLAPS

(* Type correctness.  The rows first.                                       *)

LEMMA RowTypes ==
    /\ NoDraft \in Drafts /\ NoCheckout \in CheckoutRows /\ NoAttempt \in AttemptRows
    /\ Idle \in SessionRows /\ [Idle EXCEPT !.pc = "end"] \in SessionRows
<1>1. NoDraft \in Drafts
  BY BoundsAssumption DEF NoDraft, Drafts, Kinds
<1>2. NoCheckout \in CheckoutRows
  BY DEF NoCheckout, CheckoutRows
<1>3. NoAttempt \in AttemptRows
  BY DEF NoAttempt, AttemptRows, Marks
<1> QED  BY <1>1, <1>2, <1>3 DEF SessionRows

LEMMA InitTypes == Init => TypeOK
<1> SUFFICES ASSUME Init PROVE TypeOK
  OBVIOUS
<1> USE BoundsAssumption, RowTypes DEF Init
<1>1. /\ callback \in [Orders -> Marks] /\ recovery \in [Orders -> BOOLEAN]
      /\ aged \in 0..MaxOrders /\ version \in [Methods -> Versions]
      /\ sess \in [Sessions -> SessionRows]
      /\ links = {} /\ payments = {} /\ adminSaw = {} /\ opens \in [Orders -> Nat]
  BY DEF Marks, Versions
<1>2. CASE EmptyTables
  BY <1>1, <1>2 DEF EmptyTables, TypeOK, Statuses
<1>3. ASSUME NEW d \in LegacyDrafts, NEW m \in Methods, LegacyRow(d, m)
      PROVE  TypeOK
  <2>1. d \in Drafts /\ d.bal \in 0..Funds /\ Fee(m, 0) \in Nat /\ d.total \in Int
      BY LegacyAssumption DEF Drafts
  <2>2. status \in [Orders -> Statuses] /\ draft \in [Orders -> Drafts]
      BY <1>3, <2>1 DEF LegacyRow, Statuses
  <2>3. [NoCheckout EXCEPT !.pm = m, !.hand = Fee(m, 0)] \in CheckoutRows
      BY <2>1 DEF NoCheckout, CheckoutRows
  <2>4. [NoAttempt EXCEPT !.status = "winner", !.hand = Fee(m, 0),
                          !.amt = d.total + Fee(m, 0)] \in AttemptRows
    <3>1. \A r \in AttemptRows, h \in Nat, a \in Int :
              [r EXCEPT !.status = "winner", !.hand = h, !.amt = a] \in AttemptRows
        BY DEF AttemptRows
    <3>2. d.total + Fee(m, 0) \in Int
        BY <2>1
    <3> HIDE BoundsAssumption
    <3> QED  BY <2>1, <3>1, <3>2
  <2>5. checkout \in [Orders -> CheckoutRows]
      BY <1>3, <2>3 DEF LegacyRow
  <2>6. attempt \in [Orders -> [Methods -> AttemptRows]]
      BY <1>3, <2>4 DEF LegacyRow
  <2>7. balance \in [Users -> Nat]
    <3>1. Funds - d.bal \in Nat  BY <2>1
    <3> QED  BY <1>3, <3>1 DEF LegacyRow
  <2> QED  BY <1>1, <2>2, <2>5, <2>6, <2>7 DEF TypeOK
<1> QED  BY <1>2, <1>3

(* An order is inserted with a well-typed draft, and takes no more from the
   wallet than is there.                                                    *)
LEMMA InsertTypes ==
    ASSUME TypeOK, NEW o \in Orders, NEW d \in Drafts, d.bal <= balance[d.user], insertOrder(o, d)
    PROVE  TypeOK'
<1>1. d.user \in Users /\ d.bal \in Nat /\ balance[d.user] \in Nat
  BY DEF Drafts, TypeOK
<1>2. balance' \in [Users -> Nat]
  BY <1>1 DEF insertOrder, TypeOK
<1>3. status' \in [Orders -> Statuses] /\ draft' \in [Orders -> Drafts]
  BY DEF insertOrder, TypeOK, Statuses
<1> QED  BY <1>2, <1>3 DEF insertOrder, TypeOK, worldVars

(* What a new order is made from.                                           *)
LEMMA Inputs == Prices \subseteq Nat /\ Surpluses \subseteq Nat /\ BuyKinds \subseteq Kinds
BY BoundsAssumption, LegacyAssumption

LEMMA CreateTypes ==
    ASSUME TypeOK, NEW o \in Orders, NEW u \in Users, Create(o, u)
    PROVE  TypeOK'
<1> USE Inputs
<1>1. ASSUME NEW kind \in BuyKinds, NEW price \in Prices, NEW worth \in Surpluses,
             NEW ids \in SUBSET Orders, SaveOrder(o, u, kind, price, worth, ids)
      PROVE  TypeOK'
  <2> DEFINE due == IF worth >= price THEN 0 ELSE price - worth
             bal == Min2(balance[u], due)
             d   == [user |-> u, kind |-> kind, total |-> due - bal, bal |-> bal,
                     refund |-> IF worth >= price THEN worth - price ELSE 0, surplus |-> ids]
  <2>1. insertOrder(o, d)
      BY <1>1 DEF SaveOrder
  <2>2. due \in Nat /\ balance[u] \in Nat /\ worth \in Nat /\ price \in Nat
      BY DEF TypeOK
  <2>3. bal \in Nat /\ bal <= balance[u] /\ due - bal \in Int
      BY <2>2 DEF Min2
  <2>4. (IF worth >= price THEN worth - price ELSE 0) \in Nat
      BY <2>2
  <2>5. d \in Drafts /\ d.bal <= balance[d.user]
      BY <2>3, <2>4 DEF Drafts
  <2> QED  BY <2>1, <2>5, InsertTypes
<1>2. ASSUME NEW kind \in BuyKinds, NEW price \in Prices, AssignAdminOrder(o, u, kind, price)
      PROVE  TypeOK'
  <2> DEFINE d == [user |-> u, kind |-> kind, total |-> price, bal |-> 0, refund |-> 0,
                   surplus |-> {}]
  <2>1. insertOrder(o, d)  BY <1>2 DEF AssignAdminOrder
  <2>2. kind \in Kinds /\ price \in Int /\ balance[u] >= 0
      BY DEF TypeOK
  <2>3. d \in Drafts /\ d.user = u /\ d.bal = 0
    <3> HIDE Inputs
    <3> QED  BY <2>2 DEF Drafts
  <2>4. d.bal <= balance[d.user]
      BY <2>2, <2>3
  <2> HIDE DEF d
  <2> QED  BY <2>1, <2>3, <2>4, InsertTypes
<1>3. ASSUME NEW amount \in Prices, saveDepositOrder(o, u, amount)
      PROVE  TypeOK'
  <2> DEFINE d == [user |-> u, kind |-> "deposit", total |-> amount, bal |-> 0, refund |-> 0,
                   surplus |-> {}]
  <2>1. insertOrder(o, d)  BY <1>3 DEF saveDepositOrder
  <2>2. amount \in Int /\ balance[u] >= 0
      BY DEF TypeOK
  <2>3. d \in Drafts /\ d.user = u /\ d.bal = 0
    <3> HIDE Inputs
    <3> QED  BY <2>2 DEF Drafts, Kinds
  <2>4. d.bal <= balance[d.user]
      BY <2>2, <2>3
  <2> HIDE DEF d
  <2> QED  BY <2>1, <2>3, <2>4, InsertTypes
<1>4. {{}, SurplusIds(u, {"period"}), SurplusIds(u, Kinds \ {"reset"})} \subseteq SUBSET Orders
  BY DEF SurplusIds
<1> QED  BY <1>1, <1>2, <1>3, <1>4 DEF Create

(* Attempt rows.                                                            *)
LEMMA MarkTypes ==
    ASSUME TypeOK, NEW o \in Orders, NEW m \in Methods,
           NEW st \in {"winner", "duplicate"}, NEW cb \in Marks
    PROVE  MarkAttempt(o, m, st, cb) \in [Orders -> [Methods -> AttemptRows]]
<1>1. \A r \in AttemptRows : [r EXCEPT !.status = st, !.cb = cb] \in AttemptRows
  BY DEF AttemptRows
<1> QED  BY <1>1 DEF TypeOK, MarkAttempt

LEMMA RowsTypes ==
    ASSUME TypeOK, NEW o \in Orders, NEW m \in Methods
    PROVE  Rows(o, m) \in [Methods -> AttemptRows]
           /\ (switching(o, m) => Archived(o) \in [Methods -> AttemptRows])
<1>1. ASSUME switching(o, m) PROVE Archived(o) \in [Methods -> AttemptRows]
  <2> DEFINE c == checkout[o]
             r == attempt[o][c.pm]
  <2>1. c.pm \in Methods /\ c \in CheckoutRows
      BY <1>1 DEF switching, TypeOK, CheckoutRows
  <2>2. r \in AttemptRows /\ draft[o].total \in Int /\ c.hand \in Nat
      BY <2>1 DEF TypeOK, CheckoutRows, Drafts
  <2>3. draft[o].total + c.hand \in Int
      BY <2>2
  <2>4. /\ Coalesce(r.fp, c.fp) \in Fingerprints \cup {None}
        /\ Coalesce(r.result, c.result) \in Snapshots \cup {None}
      BY <2>1, <2>2 DEF AttemptRows, CheckoutRows, Coalesce
  <2>5. LeftRow(r, c, draft[o].total) \in AttemptRows
      BY <2>2, <2>3, <2>4 DEF AttemptRows, LeftRow
  <2> QED  BY <2>1, <2>5 DEF Archived, TypeOK
<1> QED  BY <1>1 DEF Rows, TypeOK

(* A checkout writes well-typed claims.                                     *)
LEMMA ClaimTypes ==
    ASSUME TypeOK, NEW s \in Sessions, NEW o \in Orders, NEW m \in Methods, CheckoutClaim(s, o, m)
    PROVE  TypeOK'
<1> DEFINE a    == Rows(o, m)[m]
           hand == HandlingAmount(o, m)
           amt  == draft[o].total + hand
           fp   == <<version[m], amt>>
<1>1. a \in AttemptRows
  BY RowsTypes
<1>2. hand \in Nat
  <2>1. a.hand \in Nat /\ checkout[o].hand \in Nat /\ Fee(m, version[m]) \in Nat
      BY <1>1, BoundsAssumption DEF AttemptRows, TypeOK, CheckoutRows, Versions
  <2> QED  BY <2>1 DEF HandlingAmount
<1>3. amt \in Int
  BY <1>2 DEF TypeOK, Drafts
<1>4. fp \in Fingerprints
  BY <1>3 DEF Fingerprints, TypeOK
<1> HIDE DEF hand, amt, fp
<1>5. [a EXCEPT !.status = "pending", !.hand = hand, !.amt = amt, !.claim = s, !.live = TRUE,
                !.fp = fp, !.result = None] \in AttemptRows
  BY <1>1, <1>2, <1>3, <1>4 DEF AttemptRows
<1>6. attempt' \in [Orders -> [Methods -> AttemptRows]]
  <2>1. attempt' = [attempt EXCEPT ![o] = [Rows(o, m) EXCEPT ![m] =
            [a EXCEPT !.status = "pending", !.hand = hand, !.amt = amt, !.claim = s, !.live = TRUE,
                      !.fp = fp, !.result = None]]]
      BY RowsTypes DEF CheckoutClaim, hand, amt, fp
  <2> QED  BY <1>5, <2>1, RowsTypes DEF TypeOK
<1>7. checkout' \in [Orders -> CheckoutRows]
  <2>1. [pm |-> m, hand |-> hand, claim |-> s, live |-> TRUE, fp |-> fp, result |-> None]
            \in CheckoutRows
      BY <1>2, <1>4 DEF CheckoutRows
  <2> QED  BY <2>1 DEF CheckoutClaim, hand, amt, fp, TypeOK
<1>8. sess' \in [Sessions -> SessionRows]
  <2>1. [pc |-> "calling", o |-> o, m |-> m, hand |-> hand, amt |-> amt, fp |-> fp]
            \in SessionRows
      BY <1>2, <1>3, <1>4 DEF SessionRows
  <2> QED  BY <2>1 DEF CheckoutClaim, hand, amt, fp, TypeOK
<1> QED  BY <1>6, <1>7, <1>8 DEF CheckoutClaim, TypeOK

LEMMA CachedTypes ==
    ASSUME TypeOK, NEW o \in Orders, NEW m \in Methods, selectCachedPaymentAttempt(o, m)
    PROVE  TypeOK'
<1> DEFINE a == Rows(o, m)[m]
<1>1. a \in AttemptRows /\ switching(o, m)
  BY RowsTypes DEF selectCachedPaymentAttempt
<1>2. attempt' \in [Orders -> [Methods -> AttemptRows]]
  BY <1>1, RowsTypes DEF selectCachedPaymentAttempt, TypeOK
<1>3. [pm |-> m, hand |-> a.hand, claim |-> None, live |-> FALSE, fp |-> a.fp,
       result |-> a.result] \in CheckoutRows
  BY <1>1 DEF AttemptRows, CheckoutRows
<1>4. checkout' \in [Orders -> CheckoutRows]
  BY <1>3 DEF selectCachedPaymentAttempt, TypeOK
<1> QED  BY <1>2, <1>4 DEF selectCachedPaymentAttempt, TypeOK, worldVars

(* The steps of a request that follow its claim.                            *)
LEMMA EditTypes ==
    /\ \A r \in CheckoutRows : /\ Unclaimed(r) \in CheckoutRows /\ Released(r) \in CheckoutRows
                               /\ \A snap \in Snapshots : Stored(r, snap) \in CheckoutRows
    /\ \A r \in AttemptRows : /\ Released(r) \in AttemptRows
                              /\ \A snap \in Snapshots : Stored(r, snap) \in AttemptRows
<1>1. \A r \in CheckoutRows : Unclaimed(r) \in CheckoutRows /\ Released(r) \in CheckoutRows
  BY DEF Unclaimed, Released, CheckoutRows
<1>2. \A r \in CheckoutRows, snap \in Snapshots : Stored(r, snap) \in CheckoutRows
  BY DEF Stored, CheckoutRows
<1>3. \A r \in AttemptRows : Released(r) \in AttemptRows
  BY DEF Released, AttemptRows
<1>4. \A r \in AttemptRows, snap \in Snapshots : Stored(r, snap) \in AttemptRows
  BY DEF Stored, AttemptRows
<1> QED  BY <1>1, <1>2, <1>3, <1>4

CallRows == [pc : {"calling", "created", "releaseAttempt", "releaseOrder"},
             o : Orders, m : Methods, hand : Nat, amt : Int, fp : Fingerprints]

LEMMA CallTypes ==
    ASSUME TypeOK, NEW s \in Sessions,
           sess[s].pc \in {"calling", "created", "releaseAttempt", "releaseOrder"}
    PROVE  sess[s] \in CallRows
BY DEF TypeOK, SessionRows, CallRows, Idle

LEMMA StepTypes ==
    ASSUME TypeOK, NEW s \in Sessions
    PROVE  /\ Finish(s) => sess' \in [Sessions -> SessionRows]
           /\ \A pc \in {"created", "releaseAttempt", "releaseOrder"} :
                 sess[s] \in CallRows /\ Step(s, pc) => sess' \in [Sessions -> SessionRows]
<1>1. Finish(s) => sess' \in [Sessions -> SessionRows]
  BY RowTypes DEF Finish, TypeOK
<1>2. \A r \in CallRows, pc \in {"created", "releaseAttempt", "releaseOrder"} :
          [r EXCEPT !.pc = pc] \in SessionRows
  BY DEF CallRows, SessionRows
<1>3. ASSUME NEW pc \in {"created", "releaseAttempt", "releaseOrder"}, sess[s] \in CallRows,
             Step(s, pc)
      PROVE  sess' \in [Sessions -> SessionRows]
  <2>1. sess' = [sess EXCEPT ![s] = [sess[s] EXCEPT !.pc = pc]]
      BY <1>3 DEF Step, TypeOK
  <2> QED  BY <1>2, <1>3, <2>1 DEF TypeOK
<1> QED  BY <1>1, <1>3

LEMMA PersistTypes ==
    ASSUME TypeOK, NEW s \in Sessions, persistCheckoutResult(s)
    PROVE  TypeOK'
<1> DEFINE o    == sess[s].o
           m    == sess[s].m
           snap == [m |-> m, amt |-> sess[s].amt]
<1>1. sess[s] \in CallRows
  BY CallTypes DEF persistCheckoutResult
<1>2. o \in Orders /\ m \in Methods /\ snap \in Snapshots
  BY <1>1 DEF CallRows, Snapshots
<1>3. Upserted(attempt[o][m], sess[s], snap) \in AttemptRows
  <2>1. attempt[o][m] \in AttemptRows
      BY <1>2 DEF TypeOK
  <2>2. \A r \in AttemptRows, st \in {"absent", "pending", "winner", "duplicate"},
           h \in Nat, a \in Int, f \in Fingerprints :
              [r EXCEPT !.status = st, !.hand = h, !.amt = a, !.fp = f] \in AttemptRows
      BY DEF AttemptRows
  <2>3. sess[s].hand \in Nat /\ sess[s].amt \in Int /\ sess[s].fp \in Fingerprints
      BY <1>1 DEF CallRows
  <2>4. Stored(attempt[o][m], snap) \in AttemptRows
      BY <1>2, <2>1, EditTypes
  <2>5. (IF Stored(attempt[o][m], snap).status = "absent" THEN "pending"
         ELSE Stored(attempt[o][m], snap).status)
            \in {"absent", "pending", "winner", "duplicate"}
      BY <2>4 DEF AttemptRows
  <2> QED  BY <2>2, <2>3, <2>4, <2>5 DEF Upserted
<1> DEFINE saved    == [attempt EXCEPT ![o][m] = Stored(@, snap)]
           upserted == [attempt EXCEPT ![o][m] = Upserted(@, sess[s], snap)]
           freed    == [checkout EXCEPT ![o] = Unclaimed(@)]
           kept     == [checkout EXCEPT ![o] = Stored(@, snap)]
<1>4. /\ attempt' = attempt \/ attempt' = saved \/ attempt' = upserted
      /\ checkout' = checkout \/ checkout' = freed \/ checkout' = kept
  BY Zenon DEF persistCheckoutResult
<1>5. attempt' \in [Orders -> [Methods -> AttemptRows]]
  <2>1. attempt \in [Orders -> [Methods -> AttemptRows]]
      BY DEF TypeOK
  <2>2. saved \in [Orders -> [Methods -> AttemptRows]]
      BY <1>2, <2>1, EditTypes
  <2>3. upserted \in [Orders -> [Methods -> AttemptRows]]
      BY <1>2, <1>3, <2>1
  <2> QED  BY <1>4, <2>1, <2>2, <2>3
<1>7. checkout' \in [Orders -> CheckoutRows]
  <2>1. checkout \in [Orders -> CheckoutRows]
      BY DEF TypeOK
  <2>2. freed \in [Orders -> CheckoutRows] /\ kept \in [Orders -> CheckoutRows]
      BY <1>2, <2>1, EditTypes
  <2> QED  BY <1>4, <2>1, <2>2
<1>8. sess' \in [Sessions -> SessionRows]
  BY StepTypes DEF persistCheckoutResult
<1> QED  BY <1>5, <1>7, <1>8 DEF persistCheckoutResult, TypeOK

(* A request that asks for a free order, or whose gateway call ends.        *)
LEMMA CallingTypes ==
    ASSUME TypeOK, NEW s \in Sessions, GatewayAnswers(s) \/ GatewayFails(s)
    PROVE  TypeOK'
<1>1. sess[s] \in CallRows
  BY CallTypes DEF GatewayAnswers, GatewayFails
<1>2. sess' \in [Sessions -> SessionRows]
  BY <1>1, StepTypes DEF GatewayAnswers, GatewayFails
<1>3. [o |-> sess[s].o, m |-> sess[s].m, amt |-> sess[s].amt] \in [o : Orders, m : Methods, amt : Int]
  BY <1>1 DEF CallRows
<1>4. links' \subseteq [o : Orders, m : Methods, amt : Int]
  BY <1>3 DEF GatewayAnswers, GatewayFails, TypeOK
<1> QED  BY <1>2, <1>4 DEF GatewayAnswers, GatewayFails, TypeOK, orderVars

LEMMA ReleaseTypes ==
    ASSUME TypeOK, NEW s \in Sessions, ReleaseAttempt(s) \/ ReleaseOrder(s)
    PROVE  TypeOK'
<1>1. CASE ReleaseAttempt(s)
  <2>1. sess[s] \in CallRows
      BY <1>1, CallTypes DEF ReleaseAttempt
  <2>2. sess' \in [Sessions -> SessionRows]
      BY <1>1, <2>1, StepTypes DEF ReleaseAttempt
  <2> DEFINE o == sess[s].o
             m == sess[s].m
  <2>3. o \in Orders /\ m \in Methods
      BY <2>1 DEF CallRows
  <2>4. \/ attempt' = attempt
        \/ attempt' = [attempt EXCEPT ![o][m] = Released(@)]
      BY <1>1, Zenon DEF ReleaseAttempt
  <2>5. attempt' \in [Orders -> [Methods -> AttemptRows]]
    <3>1. attempt \in [Orders -> [Methods -> AttemptRows]]
        BY DEF TypeOK
    <3>2. [attempt EXCEPT ![o][m] = Released(@)] \in [Orders -> [Methods -> AttemptRows]]
        BY <2>3, <3>1, EditTypes
    <3> QED  BY <2>4, <3>1, <3>2
  <2> QED  BY <1>1, <2>2, <2>5 DEF ReleaseAttempt, TypeOK
<1>2. CASE ReleaseOrder(s)
  <2>1. sess[s] \in CallRows
      BY <1>2, CallTypes DEF ReleaseOrder
  <2>2. sess' \in [Sessions -> SessionRows]
      BY <1>2, StepTypes DEF ReleaseOrder
  <2> DEFINE o == sess[s].o
  <2>3. o \in Orders
      BY <2>1 DEF CallRows
  <2>4. checkout' = checkout \/ checkout' = [checkout EXCEPT ![o] = Released(@)]
      BY <1>2, Zenon DEF ReleaseOrder
  <2>5. checkout' \in [Orders -> CheckoutRows]
    <3>1. checkout \in [Orders -> CheckoutRows]
        BY DEF TypeOK
    <3>2. [checkout EXCEPT ![o] = Released(@)] \in [Orders -> CheckoutRows]
        BY <2>3, <3>1, EditTypes
    <3> QED  BY <2>4, <3>1, <3>2
  <2> QED  BY <1>2, <2>2, <2>5 DEF ReleaseOrder, TypeOK
<1> QED  BY <1>1, <1>2

LEMMA FreeTypes ==
    ASSUME TypeOK, NEW s \in Sessions, NEW o \in Orders, CheckoutFree(s, o)
    PROVE  TypeOK'
<1>1. sess[s] = Idle
  <2>1. sess[s] \in SessionRows /\ sess[s].pc = "idle"
      BY DEF CheckoutFree, TypeOK
  <2>2. [Idle EXCEPT !.pc = "end"].pc = "end"
      BY DEF Idle
  <2> QED  BY <2>1, <2>2 DEF SessionRows
<1>2. [sess[s] EXCEPT !.pc = "free", !.o = o] \in SessionRows
  <2>1. Idle \in [pc : {"idle"}, o : {1}, m : {None}, hand : {0}, amt : {0}, fp : {None}]
      BY DEF Idle
  <2>2. [sess[s] EXCEPT !.pc = "free", !.o = o] \in
            [pc : {"free"}, o : Orders, m : {None}, hand : {0}, amt : {0}, fp : {None}]
      BY <1>1, <2>1
  <2> QED  BY <2>2 DEF SessionRows
<1>3. sess' = [sess EXCEPT ![s] = [sess[s] EXCEPT !.pc = "free", !.o = o]]
  BY DEF CheckoutFree, TypeOK
<1>4. sess' \in [Sessions -> SessionRows]
  BY <1>2, <1>3 DEF TypeOK
<1> QED  BY <1>4 DEF CheckoutFree, TypeOK, orderVars

(* Settlement.  A confirmation is a payment's, the administrator's or that of
   a free order; what is taken from the wallet is there, and what is credited
   is not negative.                                                         *)
Confs == [m : Methods, amt : Int, cb : Callbacks, manual : {FALSE}] \cup {ManualConf, FreeConf}

LEMMA ConfTypes ==
    /\ ManualConf \in Confs /\ FreeConf \in Confs /\ \A p \in Payments : GatewayConf(p) \in Confs
    /\ \A conf \in Confs : conf.cb \in Marks /\ (conf.m # None => conf.m \in Methods)
<1>1. \A p \in Payments : GatewayConf(p) \in Confs
  BY DEF Payments, GatewayConf, Confs
<1>2. \A conf \in Confs : conf.cb \in Marks /\ (conf.m # None => conf.m \in Methods)
  <2>1. \A conf \in {ManualConf, FreeConf} : conf.cb \in Marks /\ conf.m = None
      BY DEF Marks, ManualConf, FreeConf
  <2>2. \A conf \in [m : Methods, amt : Int, cb : Callbacks, manual : {FALSE}] :
            conf.cb \in Marks /\ conf.m \in Methods
      BY DEF Marks
  <2> QED  BY <2>1, <2>2 DEF Confs
<1> QED  BY <1>1, <1>2 DEF Confs

LEMMA OpenTypes ==
    ASSUME TypeOK, NEW o \in Orders, NEW cb \in Marks, NEW taken \in Nat,
           taken <= balance[draft[o].user], draft[o].total >= 0, openOrder(o, cb, taken)
    PROVE  /\ status' \in [Orders -> Statuses] /\ balance' \in [Users -> Nat]
           /\ callback' \in [Orders -> Marks] /\ opens' \in [Orders -> Nat]
<1>1. draft[o] \in Drafts
  BY DEF TypeOK
<1>2. draft[o].user \in Users /\ Credit(o) \in Nat
  BY <1>1 DEF Drafts, Credit
<1>3. balance[draft[o].user] - taken + Credit(o) \in Nat
  BY <1>2 DEF TypeOK
<1>4. balance' \in [Users -> Nat]
  BY <1>2, <1>3 DEF openOrder, TypeOK
<1>5. status' \in [Orders -> Statuses]
  BY DEF openOrder, TypeOK, Statuses
<1> QED  BY <1>4, <1>5 DEF openOrder, TypeOK

LEMMA ReboundTypes ==
    ASSUME TypeOK, NEW o \in Orders, NEW conf \in Confs, ConfirmsCurrent(o, conf) \/ Found(o, conf)
    PROVE  Rebound(o, conf) \in CheckoutRows
<1>1. checkout[o] \in CheckoutRows
  BY DEF TypeOK
<1>2. CASE ConfirmsCurrent(o, conf)
  BY <1>1, <1>2 DEF Rebound
<1>3. CASE ~ConfirmsCurrent(o, conf)
  <2>1. conf.m \in Methods
      BY <1>3, ConfTypes DEF Found, AttemptOf, NoAttempt
  <2>2. AttemptOf(o, conf).hand \in Nat
      BY <2>1, NamesAssumption DEF AttemptOf, TypeOK, AttemptRows
  <2>3. \A r \in CheckoutRows, m \in Methods, h \in Nat :
            [r EXCEPT !.pm = m, !.hand = h] \in CheckoutRows
      BY DEF CheckoutRows
  <2> QED  BY <1>1, <1>3, <2>1, <2>2, <2>3 DEF Rebound
<1> QED  BY <1>2, <1>3

SettledTypes ==
    /\ status' \in [Orders -> Statuses] /\ draft' \in [Orders -> Drafts]
    /\ checkout' \in [Orders -> CheckoutRows] /\ callback' \in [Orders -> Marks]
    /\ attempt' \in [Orders -> [Methods -> AttemptRows]] /\ balance' \in [Users -> Nat]
    /\ recovery' \in [Orders -> BOOLEAN] /\ opens' \in [Orders -> Nat]

LEMMA MarkedTypes ==
    ASSUME TypeOK, NEW o \in Orders, NEW conf \in Confs, NEW st \in {"winner", "duplicate"},
           \/ Found(o, conf) /\ attempt' = MarkAttempt(o, conf.m, st, conf.cb)
           \/ attempt' = attempt
    PROVE  attempt' \in [Orders -> [Methods -> AttemptRows]]
<1>1. CASE attempt' = attempt
  BY <1>1 DEF TypeOK
<1>2. CASE Found(o, conf) /\ attempt' = MarkAttempt(o, conf.m, st, conf.cb)
  <2>1. conf.m \in Methods /\ conf.cb \in Marks
      BY <1>2, ConfTypes DEF Found, AttemptOf, NoAttempt
  <2> QED  BY <1>2, <2>1, MarkTypes
<1> QED  BY <1>1, <1>2

LEMMA PaidTypes ==
    ASSUME TypeOK, NEW o \in Orders, NEW conf \in Confs, MarkOrderPaid(o, conf)
    PROVE  SettledTypes
<1>1. CASE Settle(o, conf)
  <2>1. attempt' \in [Orders -> [Methods -> AttemptRows]]
    <3>1. \/ Found(o, conf) /\ attempt' = MarkAttempt(o, conf.m, "winner", conf.cb)
          \/ attempt' = attempt
        BY <1>1 DEF Settle
    <3> QED  BY <3>1, MarkedTypes
  <2>2. checkout' \in [Orders -> CheckoutRows]
    <3>1. Rebound(o, conf) \in CheckoutRows
        BY <1>1, ReboundTypes DEF Settle
    <3> QED  BY <1>1, <3>1 DEF Settle, TypeOK
  <2>3. draft[o].total >= 0
      BY <1>1 DEF Settle, ConfirmsCurrent, ConfirmsAttempt, Confirms
  <2>4. Retaken(o) \in Nat /\ Retaken(o) <= balance[draft[o].user]
    <3>1. draft[o].bal \in Nat /\ balance[draft[o].user] \in Nat
        BY DEF TypeOK, Drafts
    <3> QED  BY <1>1, <3>1 DEF Settle, MayRecover, Retaken
  <2>5. /\ status' \in [Orders -> Statuses] /\ balance' \in [Users -> Nat]
        /\ callback' \in [Orders -> Marks] /\ opens' \in [Orders -> Nat]
      BY <1>1, <2>3, <2>4, ConfTypes, OpenTypes DEF Settle
  <2> QED  BY <1>1, <2>1, <2>2, <2>5 DEF Settle, SettledTypes, TypeOK
<1>2. CASE RecordDuplicate(o, conf)
  <2>1. attempt' \in [Orders -> [Methods -> AttemptRows]]
      BY <1>2, MarkedTypes DEF RecordDuplicate
  <2> QED  BY <1>2, <2>1 DEF RecordDuplicate, SettledTypes, TypeOK
<1>3. CASE RepairCallback(o, conf)
  <2>1. attempt' \in [Orders -> [Methods -> AttemptRows]]
    <3>1. \/ Found(o, conf) /\ attempt' = MarkAttempt(o, conf.m, "winner", conf.cb)
          \/ attempt' = attempt
        BY <1>3 DEF RepairCallback
    <3> QED  BY <3>1, MarkedTypes
  <2>2. callback' \in [Orders -> Marks]
      BY <1>3, ConfTypes DEF RepairCallback, TypeOK
  <2> QED  BY <1>3, <2>1, <2>2 DEF RepairCallback, SettledTypes, TypeOK
<1> QED  BY <1>1, <1>2, <1>3 DEF MarkOrderPaid

LEMMA RequestTypes ==
    ASSUME TypeOK, NEW s \in Sessions, Request(s)
    PROVE  TypeOK'
<1>1. CASE CheckoutFreePaid(s)
  <2>1. sess[s].o \in Orders
      BY <1>1 DEF CheckoutFreePaid, TypeOK, SessionRows, Idle
  <2>2. SettledTypes
      BY <1>1, <2>1, PaidTypes, ConfTypes DEF CheckoutFreePaid, MarkOrderPaid
  <2>3. sess' \in [Sessions -> SessionRows]
      BY <1>1, StepTypes DEF CheckoutFreePaid
  <2> QED  BY <1>1, <2>2, <2>3 DEF CheckoutFreePaid, SettledTypes, TypeOK
<1>2. CASE SessionLost(s)
  BY <1>2, StepTypes DEF SessionLost, TypeOK, orderVars
<1> QED  BY <1>1, <1>2, ClaimTypes, FreeTypes, CallingTypes, ReleaseTypes, PersistTypes DEF Request

(* Cancellation, the sweep and the administrator.                           *)
LEMMA ManageTypes ==
    ASSUME TypeOK, NEW o \in Orders, CancelOrder(o) \/ handleQueuedOrder(o) \/ Admin(o)
    PROVE  TypeOK'
<1>1. draft[o].user \in Users /\ draft[o].bal \in Nat /\ balance[draft[o].user] \in Nat
  BY DEF TypeOK, Drafts
<1>2. ASSUME NEW recover \in BOOLEAN, giveBack(o, recover)
      PROVE  TypeOK'
  <2>1. balance' \in [Users -> Nat]
      BY <1>1, <1>2 DEF giveBack, TypeOK
  <2>2. status' \in [Orders -> Statuses] /\ recovery' \in [Orders -> BOOLEAN]
      BY <1>2 DEF giveBack, TypeOK, Statuses
  <2> QED  BY <1>2, <2>1, <2>2 DEF giveBack, TypeOK, worldVars
<1>3. CASE CancelOrder(o) \/ AutoCancel(o) \/ QuarantinePaidPending(o)
  BY <1>2, <1>3 DEF CancelOrder, AutoCancel, QuarantinePaidPending
<1>4. CASE OpenPaidPending(o)
  <2> DEFINE cb == IF callback[o] = None THEN TradeNo ELSE callback[o]
  <2>1. cb \in Marks
      BY DEF TypeOK, Marks
  <2>2. 0 \in Nat /\ 0 <= balance[draft[o].user] /\ draft[o].total >= 0 /\ openOrder(o, cb, 0)
      BY <1>1, <1>4 DEF OpenPaidPending
  <2>3. /\ status' \in [Orders -> Statuses] /\ balance' \in [Users -> Nat]
        /\ callback' \in [Orders -> Marks] /\ opens' \in [Orders -> Nat]
      BY <2>1, <2>2, OpenTypes
  <2> QED  BY <1>4, <2>3 DEF OpenPaidPending, TypeOK, worldVars
<1>5. CASE AdminCheck(o)
  BY <1>5 DEF AdminCheck, TypeOK, orderVars
<1>6. CASE AdminMarkOrderPaid(o)
  <2>1. SettledTypes
      BY <1>6, PaidTypes, ConfTypes DEF AdminMarkOrderPaid, MarkOrderPaid
  <2> QED  BY <1>6, <2>1 DEF AdminMarkOrderPaid, SettledTypes, TypeOK
<1>7. CASE RefundManagedOrder(o)
  <2>1. status' \in [Orders -> Statuses]
      BY <1>7 DEF RefundManagedOrder, TypeOK, Statuses
  <2> QED  BY <1>7, <2>1 DEF RefundManagedOrder, TypeOK, worldVars
<1> QED  BY <1>3, <1>4, <1>5, <1>6, <1>7 DEF handleQueuedOrder, Admin

LEMMA WorldTypes ==
    ASSUME TypeOK,
           \/ \E o \in Orders : Time(o)
           \/ \E m \in Methods : SavePayment(m)
           \/ \E l \in links, cb \in Callbacks : UserPays(l, cb)
    PROVE  TypeOK'
<1>1. ASSUME NEW o \in Orders, ClaimExpires(o) PROVE TypeOK'
  <2>1. \A r \in CheckoutRows : [r EXCEPT !.live = FALSE] \in CheckoutRows
      BY DEF CheckoutRows
  <2>2. checkout' \in [Orders -> CheckoutRows]
      BY <1>1, <2>1 DEF ClaimExpires, TypeOK
  <2> QED  BY <1>1, <2>2 DEF ClaimExpires, TypeOK, worldVars
<1>2. ASSUME NEW o \in Orders, NEW m \in Methods, AttemptClaimExpires(o, m) PROVE TypeOK'
  <2>1. \A r \in AttemptRows : [r EXCEPT !.live = FALSE] \in AttemptRows
      BY DEF AttemptRows
  <2>2. attempt' \in [Orders -> [Methods -> AttemptRows]]
      BY <1>2, <2>1 DEF AttemptClaimExpires, TypeOK
  <2> QED  BY <1>2, <2>2 DEF AttemptClaimExpires, TypeOK, worldVars
<1>3. ASSUME NEW o \in Orders, RecoveryExpires(o) \/ Ages(o) PROVE TypeOK'
  <2>1. CASE RecoveryExpires(o)
    <3>1. recovery' \in [Orders -> BOOLEAN]
        BY <2>1 DEF RecoveryExpires, TypeOK
    <3> QED  BY <2>1, <3>1 DEF RecoveryExpires, TypeOK, worldVars
  <2>2. CASE Ages(o)
    <3>1. aged' \in 0..MaxOrders
        BY <2>2, BoundsAssumption DEF Ages, Orders
    <3> QED  BY <2>2, <3>1 DEF Ages, TypeOK, orderVars
  <2> QED  BY <1>3, <2>1, <2>2
<1>4. ASSUME NEW m \in Methods, SavePayment(m) PROVE TypeOK'
  <2>1. version' \in [Methods -> Versions]
      BY <1>4, BoundsAssumption DEF SavePayment, TypeOK, Versions
  <2> QED  BY <1>4, <2>1 DEF SavePayment, TypeOK, orderVars
<1>5. ASSUME NEW l \in links, NEW cb \in Callbacks, UserPays(l, cb) PROVE TypeOK'
  <2>1. l \in [o : Orders, m : Methods, amt : Int]
      BY DEF TypeOK
  <2>2. [o |-> l.o, m |-> l.m, amt |-> l.amt, cb |-> cb] \in Payments
      BY <2>1 DEF Payments
  <2>3. payments' \subseteq Payments
      BY <1>5, <2>2 DEF UserPays, TypeOK
  <2> QED  BY <1>5, <2>3 DEF UserPays, TypeOK, orderVars
<1> QED  BY <1>1, <1>2, <1>3, <1>4, <1>5 DEF Time

LEMMA NextTypes == TypeOK /\ [Next]_vars => TypeOK'
<1> SUFFICES ASSUME TypeOK, [Next]_vars PROVE TypeOK'
  OBVIOUS
<1>1. ASSUME NEW p \in payments, Notify(p) PROVE TypeOK'
  <2>1. p \in Payments /\ p.o \in Orders
      BY DEF TypeOK, Payments
  <2>2. SettledTypes
      BY <1>1, <2>1, PaidTypes, ConfTypes DEF Notify
  <2> QED  BY <1>1, <2>2 DEF Notify, SettledTypes, TypeOK, worldVars
<1>2. CASE UNCHANGED vars
  BY <1>2 DEF vars, orderVars, worldVars, TypeOK
<1> QED  BY <1>1, <1>2, CreateTypes, RequestTypes, CachedTypes, ManageTypes, WorldTypes DEF Next

(* Type correctness of the whole component: in particular no wallet is ever
   negative, the amounts handed to a gateway are those of the order's own
   attempt row, and every link and payment names an existing channel.       *)
THEOREM TypeCorrect == Spec => []TypeOK
<1> QED  BY InitTypes, NextTypes, PTL DEF Spec

(* The two columns OnePending is about are tables over all orders.          *)
Tables == status = [x \in Orders |-> status[x]] /\ draft = [x \in Orders |-> draft[x]]

(* A step that starts no wait: the drafts stay, and no order becomes pending or
   paid that was neither.                                                   *)
StartsNoWait ==
    /\ draft' = draft
    /\ status' = [x \in Orders |-> status'[x]]
    /\ \A x \in Orders : status'[x] \in {"pending", "paid"} => status[x] \in {"pending", "paid"}

LEMMA QuietKeeps ==
    ASSUME Tables, OnePending, StartsNoWait
    PROVE  Tables' /\ OnePending'
BY DEF Tables, OnePending, StartsNoWait

LEMMA SameKeeps ==
    ASSUME Tables, status' = status, draft' = draft
    PROVE  StartsNoWait
BY DEF Tables, StartsNoWait

(* Creating an order is refused while the user has one that waits.          *)
LEMMA InsertKeeps ==
    ASSUME Tables, OnePending, NEW o \in Orders, NEW d,
           ~hasPendingOrder(d.user), insertOrder(o, d)
    PROVE  Tables' /\ OnePending'
<1>1. status' = [status EXCEPT ![o] = "pending"] /\ draft' = [draft EXCEPT ![o] = d]
  BY DEF insertOrder
<1>2. \A x \in Orders : /\ status'[x] = IF x = o THEN "pending" ELSE status[x]
                        /\ draft'[x] = IF x = o THEN d ELSE draft[x]
  BY <1>1 DEF Tables
<1>3. Tables'
  BY <1>1 DEF Tables
<1>4. OnePending'
  BY <1>2 DEF OnePending, hasPendingOrder
<1> QED  BY <1>3, <1>4

LEMMA CreateKeeps ==
    ASSUME Tables, OnePending, NEW o \in Orders, NEW u \in Users, Create(o, u)
    PROVE  Tables' /\ OnePending'
<1>1. ASSUME NEW kind, NEW price, NEW worth, NEW ids, SaveOrder(o, u, kind, price, worth, ids)
      PROVE  Tables' /\ OnePending'
  <2>1. PICK d : d.user = u /\ insertOrder(o, d) /\ ~hasPendingOrder(u)
      BY <1>1 DEF SaveOrder
  <2> QED  BY <2>1, InsertKeeps
<1>2. ASSUME NEW kind, NEW amount, AssignAdminOrder(o, u, kind, amount)
      PROVE  Tables' /\ OnePending'
  <2>1. PICK d : d.user = u /\ insertOrder(o, d) /\ ~hasPendingOrder(u)
      BY <1>2 DEF AssignAdminOrder
  <2> QED  BY <2>1, InsertKeeps
<1>3. ASSUME NEW amount, saveDepositOrder(o, u, amount)
      PROVE  Tables' /\ OnePending'
  <2>1. PICK d : d.user = u /\ insertOrder(o, d) /\ ~hasPendingOrder(u)
      BY <1>3 DEF saveDepositOrder
  <2> QED  BY <2>1, InsertKeeps
<1> QED  BY <1>1, <1>2, <1>3 DEF Create

(* Opening an order completes it and closes the orders folded into it.      *)
LEMMA OpenQuiet ==
    ASSUME Tables, NEW o, NEW cb, NEW taken, openOrder(o, cb, taken), draft' = draft
    PROVE  StartsNoWait
BY DEF Tables, openOrder, StartsNoWait

(* Settlement, by callback, administrator or free checkout.                 *)
LEMMA PaidQuiet ==
    ASSUME Tables, NEW o, NEW conf, MarkOrderPaid(o, conf)
    PROVE  StartsNoWait
<1>1. CASE Settle(o, conf)
  BY <1>1, OpenQuiet DEF Settle
<1>2. CASE RecordDuplicate(o, conf) \/ RepairCallback(o, conf)
  BY <1>2, SameKeeps DEF RecordDuplicate, RepairCallback
<1> QED  BY <1>1, <1>2 DEF MarkOrderPaid

(* A checkout request never creates an order; it may settle a free one.     *)
LEMMA RequestQuiet ==
    ASSUME Tables, NEW s, Request(s)
    PROVE  StartsNoWait
<1>1. CASE CheckoutFreePaid(s)
  BY <1>1, PaidQuiet DEF CheckoutFreePaid, MarkOrderPaid
<1>2. ASSUME status' = status, draft' = draft
      PROVE  StartsNoWait
  BY <1>2, SameKeeps
<1>3. ASSUME NEW o \in Orders, CheckoutFree(s, o) \/ \E m \in Methods : CheckoutClaim(s, o, m)
      PROVE  StartsNoWait
  BY <1>2, <1>3 DEF CheckoutFree, CheckoutClaim, orderVars
<1>4. CASE GatewayAnswers(s) \/ GatewayFails(s) \/ SessionLost(s)
  BY <1>2, <1>4 DEF GatewayAnswers, GatewayFails, SessionLost, orderVars
<1>5. CASE ReleaseAttempt(s) \/ ReleaseOrder(s)
  BY <1>2, <1>5 DEF ReleaseAttempt, ReleaseOrder
<1>6. CASE persistCheckoutResult(s)
  BY <1>2, <1>6 DEF persistCheckoutResult
<1> QED  BY <1>1, <1>3, <1>4, <1>5, <1>6 DEF Request

(* The sweep, cancellation and the administrator.                           *)
LEMMA ManageQuiet ==
    ASSUME Tables, NEW o \in Orders, CancelOrder(o) \/ handleQueuedOrder(o) \/ Admin(o) \/ Time(o)
    PROVE  StartsNoWait
<1>1. ASSUME NEW recover, giveBack(o, recover)
      PROVE  StartsNoWait
  BY <1>1 DEF giveBack, Tables, StartsNoWait
<1>2. CASE CancelOrder(o) \/ AutoCancel(o) \/ QuarantinePaidPending(o)
  BY <1>1, <1>2 DEF CancelOrder, AutoCancel, QuarantinePaidPending
<1>3. CASE OpenPaidPending(o)
  BY <1>3, OpenQuiet DEF OpenPaidPending
<1>4. CASE AdminMarkOrderPaid(o)
  BY <1>4, PaidQuiet DEF AdminMarkOrderPaid, MarkOrderPaid
<1>5. CASE RefundManagedOrder(o)
  BY <1>5 DEF RefundManagedOrder, Tables, StartsNoWait
<1>6. CASE AdminCheck(o) \/ Time(o)
  <2>1. status' = status /\ draft' = draft
    BY <1>6 DEF AdminCheck, Time, ClaimExpires, RecoveryExpires, Ages, AttemptClaimExpires, orderVars
  <2> QED  BY <2>1, SameKeeps
<1> QED  BY <1>2, <1>3, <1>4, <1>5, <1>6 DEF handleQueuedOrder, Admin

(* A user never has two orders that wait for payment or for opening, in every
   behaviour of the whole component.                                        *)
THEOREM OnePendingHolds == Spec => []OnePending
<1>1. Init => Tables /\ OnePending
  <2>1. Init => Tables
    BY DEF Init, EmptyTables, LegacyRow, Tables
  <2>2. Init => OnePending
    BY DEF Init, EmptyTables, LegacyRow, OnePending
  <2> QED  BY <2>1, <2>2
<1>2. Tables /\ OnePending /\ [Next]_vars => (Tables /\ OnePending)'
  <2> SUFFICES ASSUME Tables, OnePending, [Next]_vars
               PROVE  Tables' /\ OnePending'
      OBVIOUS
  <2>1. ASSUME NEW o \in Orders, NEW u \in Users, Create(o, u)
        PROVE  Tables' /\ OnePending'
      BY <2>1, CreateKeeps
  <2>2. ASSUME NEW s \in Sessions, Request(s)
        PROVE  Tables' /\ OnePending'
      BY <2>2, RequestQuiet, QuietKeeps
  <2>3. ASSUME NEW o \in Orders,
               CancelOrder(o) \/ handleQueuedOrder(o) \/ Admin(o) \/ Time(o)
        PROVE  Tables' /\ OnePending'
      BY <2>3, ManageQuiet, QuietKeeps
  <2>4. ASSUME NEW p \in payments, Notify(p)
        PROVE  Tables' /\ OnePending'
      BY <2>4, PaidQuiet, QuietKeeps DEF Notify
  <2>5. ASSUME status' = status, draft' = draft
        PROVE  Tables' /\ OnePending'
      BY <2>5, SameKeeps, QuietKeeps
  <2> QED  BY <2>1, <2>2, <2>3, <2>4, <2>5
           DEF Next, selectCachedPaymentAttempt, SavePayment, UserPays, vars, orderVars
<1> QED  BY <1>1, <1>2, PTL DEF Spec

(* OpenedOnce needs two more facts to be inductive: an order that does not
   exist has not been opened, and a paid-pending order, which the sweep opens
   without looking at the recovery window, has none.                        *)
OpenedOnly ==
    /\ status = [x \in Orders |-> status[x]]
    /\ recovery = [x \in Orders |-> recovery[x]]
    /\ opens \in [Orders -> Nat]
    /\ \A x \in Orders :
         /\ opens[x] > 0 => status[x] \notin {"absent", "pending", "paid"} /\ ~recovery[x]
         /\ status[x] = "paid" => ~recovery[x]

LEMMA SameOpened ==
    ASSUME OpenedOnly, status' = status, opens' = opens, recovery' = recovery
    PROVE  OpenedOnly'
BY DEF OpenedOnly

LEMMA CreateOpened ==
    ASSUME OpenedOnly, NEW o \in Orders, NEW u \in Users, Create(o, u)
    PROVE  OpenedOnly'
<1>1. /\ status[o] = "absent" /\ status' = [status EXCEPT ![o] = "pending"]
      /\ opens' = opens /\ recovery' = recovery
  BY DEF Create, SaveOrder, AssignAdminOrder, saveDepositOrder, insertOrder, NextId
<1> QED  BY <1>1 DEF OpenedOnly

(* Every way an order is opened leaves it without a recovery window.        *)
LEMMA OpenOpened ==
    ASSUME OpenedOnly, NEW o \in Orders, NEW cb, NEW taken, openOrder(o, cb, taken),
           \/ recovery' = [recovery EXCEPT ![o] = FALSE]
           \/ recovery' = recovery /\ status[o] = "paid"
    PROVE  OpenedOnly'
<1>1. \A x \in Orders : /\ status'[x] \in {status[x], "done", "closed"}
                        /\ x = o => status'[x] = "done"
  BY DEF openOrder
<1>2. /\ opens' \in [Orders -> Nat]
      /\ \A x \in Orders : x # o => opens'[x] = opens[x]
  BY DEF openOrder, OpenedOnly
<1>3. /\ recovery' = [x \in Orders |-> recovery'[x]]
      /\ ~recovery'[o] /\ \A x \in Orders : x # o => recovery'[x] = recovery[x]
  BY DEF OpenedOnly
<1>4. status' = [x \in Orders |-> status'[x]]
  BY DEF openOrder
<1> QED  BY <1>1, <1>2, <1>3, <1>4 DEF OpenedOnly

LEMMA PaidOpened ==
    ASSUME OpenedOnly, NEW o \in Orders, NEW conf, MarkOrderPaid(o, conf)
    PROVE  OpenedOnly'
<1>1. CASE Settle(o, conf)
  BY <1>1, OpenOpened DEF Settle
<1>2. CASE RecordDuplicate(o, conf) \/ RepairCallback(o, conf)
  BY <1>2, SameOpened DEF RecordDuplicate, RepairCallback
<1> QED  BY <1>1, <1>2 DEF MarkOrderPaid

(* A cancellation opens the recovery window, of an order that was not opened. *)
LEMMA ManageOpened ==
    ASSUME OpenedOnly, NEW o \in Orders, CancelOrder(o) \/ handleQueuedOrder(o) \/ Admin(o) \/ Time(o)
    PROVE  OpenedOnly'
<1>1. ASSUME status[o] \in {"pending", "paid"}, NEW recover, giveBack(o, recover)
      PROVE  OpenedOnly'
  <2>1. opens' = opens /\ opens[o] = 0
      BY <1>1 DEF giveBack, OpenedOnly
  <2>2. /\ status' = [x \in Orders |-> IF x = o THEN "cancelled" ELSE status[x]]
        /\ recovery' = [x \in Orders |-> recovery'[x]]
        /\ \A x \in Orders : x # o => recovery'[x] = recovery[x]
      BY <1>1 DEF giveBack, OpenedOnly
  <2> QED  BY <2>1, <2>2 DEF OpenedOnly
<1>2. CASE CancelOrder(o) \/ AutoCancel(o) \/ QuarantinePaidPending(o)
  BY <1>1, <1>2 DEF CancelOrder, AutoCancel, QuarantinePaidPending
<1>3. CASE OpenPaidPending(o)
  BY <1>3, OpenOpened DEF OpenPaidPending
<1>4. CASE AdminMarkOrderPaid(o)
  BY <1>4, PaidOpened DEF AdminMarkOrderPaid, MarkOrderPaid
<1>5. CASE RefundManagedOrder(o)
  <2>1. \A x \in Orders : status'[x] \in {status[x], "done", "cancelled"}
      BY <1>5 DEF RefundManagedOrder
  <2>2. opens' = opens /\ recovery' = recovery /\ status' = [x \in Orders |-> status'[x]]
      BY <1>5 DEF RefundManagedOrder
  <2> QED  BY <2>1, <2>2 DEF OpenedOnly
<1>6. CASE RecoveryExpires(o)
  <2>1. status' = status /\ opens' = opens /\ recovery' = [recovery EXCEPT ![o] = FALSE]
      BY <1>6 DEF RecoveryExpires
  <2> QED  BY <2>1 DEF OpenedOnly
<1>7. CASE AdminCheck(o) \/ ClaimExpires(o) \/ Ages(o) \/ \E m \in Methods : AttemptClaimExpires(o, m)
  BY <1>7, SameOpened DEF AdminCheck, ClaimExpires, Ages, AttemptClaimExpires, orderVars
<1> QED  BY <1>2, <1>3, <1>4, <1>5, <1>6, <1>7 DEF handleQueuedOrder, Admin, Time

LEMMA RequestOpened ==
    ASSUME OpenedOnly, NEW s \in Sessions, sess[s].pc = "free" => sess[s].o \in Orders, Request(s)
    PROVE  OpenedOnly'
<1>1. CASE CheckoutFreePaid(s)
  BY <1>1, PaidOpened DEF CheckoutFreePaid, MarkOrderPaid
<1>2. ASSUME status' = status, opens' = opens, recovery' = recovery
      PROVE  OpenedOnly'
  BY <1>2, SameOpened
<1>3. ASSUME NEW o \in Orders, CheckoutFree(s, o) \/ \E m \in Methods : CheckoutClaim(s, o, m)
      PROVE  OpenedOnly'
  BY <1>2, <1>3 DEF CheckoutFree, CheckoutClaim, orderVars
<1>4. CASE GatewayAnswers(s) \/ GatewayFails(s) \/ SessionLost(s)
  BY <1>2, <1>4 DEF GatewayAnswers, GatewayFails, SessionLost, orderVars
<1>5. CASE ReleaseAttempt(s) \/ ReleaseOrder(s)
  BY <1>2, <1>5 DEF ReleaseAttempt, ReleaseOrder
<1>6. CASE persistCheckoutResult(s)
  BY <1>2, <1>6 DEF persistCheckoutResult
<1> QED  BY <1>1, <1>3, <1>4, <1>5, <1>6 DEF Request

LEMMA OpenedOnlyHolds == Spec => []OpenedOnly
<1>1. Init => OpenedOnly
  <2>1. Init => status = [x \in Orders |-> status[x]]
      BY DEF Init, EmptyTables, LegacyRow
  <2>2. Init => /\ recovery = [x \in Orders |-> FALSE] /\ opens = [x \in Orders |-> 0]
      BY DEF Init
  <2> QED  BY <2>1, <2>2 DEF OpenedOnly
<1>2. TypeOK /\ OpenedOnly /\ [Next]_vars => OpenedOnly'
  <2> SUFFICES ASSUME TypeOK, OpenedOnly, [Next]_vars
               PROVE  OpenedOnly'
      OBVIOUS
  <2>1. ASSUME NEW s \in Sessions, Request(s)
        PROVE  OpenedOnly'
    <3>1. sess[s].pc = "free" => sess[s].o \in Orders
        BY DEF TypeOK, SessionRows, Idle
    <3> QED  BY <2>1, <3>1, RequestOpened
  <2>2. ASSUME NEW p \in payments, Notify(p)
        PROVE  OpenedOnly'
    <3>1. p.o \in Orders
        BY DEF TypeOK, Payments
    <3> QED  BY <2>2, <3>1, PaidOpened DEF Notify
  <2>3. ASSUME status' = status, opens' = opens, recovery' = recovery
        PROVE  OpenedOnly'
      BY <2>3, SameOpened
  <2> QED  BY <2>1, <2>2, <2>3, CreateOpened, ManageOpened
           DEF Next, selectCachedPaymentAttempt, SavePayment, UserPays, vars, orderVars
<1> QED  BY <1>1, <1>2, TypeCorrect, PTL DEF Spec

(* An order that has been opened never waits for payment again and has no
   recovery window, so neither a gateway nor the sweep can open it twice.   *)
THEOREM OpenedOnceHolds == Spec => []OpenedOnce
<1>1. OpenedOnly => OpenedOnce
  BY DEF OpenedOnly, OpenedOnce
<1> QED  BY <1>1, OpenedOnlyHolds, PTL

-----------------------------------------------------------------------------
(* What OneWinner, CallbackOnce, ClaimsAgree, LinkSettles, CachedLinkMatches
   and PaidInFull rest on.  The row of an order that does not exist is blank. *)
Blank(o) == status[o] = "absent" =>
    /\ checkout[o] = NoCheckout /\ callback[o] = None /\ ~recovery[o]
    /\ \A m \in Methods : attempt[o][m] = NoAttempt

(* The amount of a channel is the order's total and the channel's fee, frozen
   when the channel was chosen; a cached link is of that amount; a claim is the
   order's own.                                                             *)
OpenRow(o, m) ==
    LET r == attempt[o][m]
    IN  /\ r.status \in {"absent", "pending"} /\ r.cb = None
        /\ r.status = "absent" => r = NoAttempt
        /\ r.status = "pending" => r.amt = draft[o].total + r.hand
        /\ r.result # None => r.result = [m |-> m, amt |-> r.amt] /\ r.claim = None
        /\ r.claim # None => r.claim = checkout[o].claim /\ checkout[o].pm = m

(* The order row of a pending order agrees with the row of its channel.     *)
OpenCheckout(o) ==
    LET c == checkout[o]
    IN  /\ c.pm = None => c.result = None /\ \A m \in Methods : attempt[o][m].status = "absent"
        /\ c.pm # None => /\ attempt[o][c.pm].status = "pending"
                          /\ attempt[o][c.pm].hand = c.hand
        /\ c.result # None => c.result = [m |-> c.pm, amt |-> draft[o].total + c.hand]

Open(o) == status[o] = "pending" =>
    /\ callback[o] = None /\ OpenCheckout(o)
    /\ \A m \in Methods : OpenRow(o, m)

(* Only the channel an opened order is bound to has won, and a won order has
   no recovery window.                                                      *)
Won(o) == \A m \in Methods : attempt[o][m].status = "winner" =>
    checkout[o].pm = m /\ status[o] \notin {"absent", "pending"} /\ ~recovery[o]

(* Every stored transaction number is that of a payment of the stored amount. *)
Paid(o) ==
    /\ callback[o] \in Callbacks =>
         [o |-> o, m |-> checkout[o].pm, amt |-> draft[o].total + checkout[o].hand,
          cb |-> callback[o]] \in payments
    /\ \A m \in Methods : attempt[o][m].cb \in Callbacks =>
         [o |-> o, m |-> m, amt |-> attempt[o][m].amt, cb |-> attempt[o][m].cb] \in payments

(* An order that is completed, or folded into another one, has been opened. *)
Kept(o) ==
    /\ status[o] \in {"done", "closed"} => opens[o] > 0
    /\ \A x \in draft[o].surplus : opens[x] > 0

RowInv(o) == Blank(o) /\ Open(o) /\ Won(o) /\ Paid(o) /\ Kept(o)

(* The gateway has been, or is being, asked for this amount.                *)
Asked(o, m, amt) ==
    /\ status[o] # "absent"
    /\ status[o] = "pending" => attempt[o][m].status = "pending" /\ attempt[o][m].amt = amt

InFlight == {"calling", "created"}
Owning   == {"calling", "created", "releaseAttempt"}

(* A claim on a row of a pending order is of a request that is still to release
   it, or that was lost.                                                    *)
Owns(s, o, m) ==
    sess[s].pc = "end" \/ (sess[s].pc \in Owning /\ sess[s].o = o /\ sess[s].m = m)

LinksAsked   == \A l \in links : Asked(l.o, l.m, l.amt)
SessionAsked ==
    \A s \in Sessions : sess[s].pc \in InFlight => Asked(sess[s].o, sess[s].m, sess[s].amt)
ClaimsOwned  ==
    \A o \in Orders, m \in Methods, s \in Sessions :
        status[o] = "pending" /\ attempt[o][m].claim = s => Owns(s, o, m)


(* A step that leaves an order's row as the invariant sees it: its status may
   leave "pending" or move between the later ones, and what is left of a claim
   may go once it is no longer pending.                                     *)
Grows == /\ payments \subseteq payments'
         /\ \A x \in Orders : opens[x] > 0 => opens'[x] > 0

Past(x) == status'[x] \notin {"absent", "pending"}

RowLeft(x) ==
    /\ draft'[x] = draft[x]
    /\ status'[x] = status[x] \/ (status[x] # "absent" /\ Past(x))
    /\ status'[x] \in {"done", "closed"} => opens'[x] > 0
    /\ recovery'[x] => recovery[x] \/ (status[x] = "pending" /\ Past(x))
    /\ callback'[x] = callback[x] \/ (callback'[x] \notin Callbacks /\ Past(x))
    /\ checkout'[x].pm = checkout[x].pm /\ checkout'[x].hand = checkout[x].hand
    /\ checkout'[x] = checkout[x] \/ Past(x)
    /\ \A m \in Methods :
         /\ attempt'[x][m] = attempt[x][m] \/ Past(x)
         /\ attempt'[x][m].status = attempt[x][m].status
         /\ attempt'[x][m].amt = attempt[x][m].amt
         /\ attempt'[x][m].cb = attempt[x][m].cb

LEMMA LeftHolds ==
    ASSUME TypeOK, Grows, NEW x \in Orders, RowInv(x), RowLeft(x)
    PROVE  RowInv(x)'
<1> USE DEF RowInv, RowLeft, Past
<1>1. Blank(x)'
  BY DEF Blank
<1>2. Open(x)'
  <2> SUFFICES ASSUME status'[x] = "pending" PROVE Open(x)'
    BY DEF Open
  <2>1. /\ status[x] = "pending" /\ draft'[x] = draft[x] /\ checkout'[x] = checkout[x]
        /\ callback'[x] = callback[x] /\ \A m \in Methods : attempt'[x][m] = attempt[x][m]
    OBVIOUS
  <2>2. Open(x)
    OBVIOUS
  <2>3. checkout[x].pm \in Methods \cup {None}
    BY DEF TypeOK, CheckoutRows
  <2>4. OpenCheckout(x)'
    BY <2>1, <2>2, <2>3 DEF Open, OpenCheckout
  <2>5. ASSUME NEW m \in Methods PROVE OpenRow(x, m)'
    BY <2>1, <2>2 DEF Open, OpenRow
  <2> QED  BY <2>1, <2>2, <2>4, <2>5 DEF Open
<1>3. Won(x)'
  BY DEF Won
<1>4. Paid(x)'
  BY DEF Paid, Grows
<1>5. Kept(x)'
  <2>1. draft[x].surplus \subseteq Orders
    BY DEF TypeOK, Drafts
  <2> QED  BY <2>1 DEF Kept, Grows
<1> QED  BY <1>1, <1>2, <1>3, <1>4, <1>5

(* A pending order: what Open says of it is all there is to show.           *)
LEMMA OpenHolds ==
    ASSUME TypeOK, Grows, NEW x \in Orders, RowInv(x), status[x] = "pending",
           status'[x] = "pending", draft'[x] = draft[x], callback'[x] = None,
           OpenCheckout(x)', \A m \in Methods : OpenRow(x, m)'
    PROVE  RowInv(x)'
<1>1. draft[x].surplus \subseteq Orders
  BY DEF TypeOK, Drafts
<1>2. Blank(x)' /\ Open(x)'
  BY DEF Blank, Open
<1>3. \A m \in Methods : attempt'[x][m].status # "winner" /\ attempt'[x][m].cb = None
  BY DEF OpenRow
<1>4. Won(x)' /\ Paid(x)'
  BY <1>3, NamesAssumption DEF Won, Paid
<1>5. Kept(x)'
  BY <1>1 DEF RowInv, Kept, Grows
<1> QED  BY <1>2, <1>4, <1>5 DEF RowInv

(* The invariant, and what a step of the order tables has to show for it: every
   row, and that no amount a gateway was asked for changes.                 *)
Core == TypeOK /\ OpenedOnly /\ \A o \in Orders : RowInv(o)

AskedStays == \A x \in Orders, m \in Methods, amt \in Int : Asked(x, m, amt) => Asked(x, m, amt)'
RowsStay   == \A x \in Orders : RowInv(x)'

(* A row whose columns all stay.                                            *)
SameRow(x) ==
    /\ status'[x] = status[x] /\ draft'[x] = draft[x] /\ checkout'[x] = checkout[x]
    /\ callback'[x] = callback[x] /\ attempt'[x] = attempt[x]

LEMMA SameLeft ==
    ASSUME Grows, NEW x \in Orders, SameRow(x), RowInv(x),
           recovery'[x] => recovery[x]
    PROVE  RowLeft(x)
BY DEF SameRow, RowLeft, RowInv, Kept, Grows

(* No status, draft or attempt row of x changes: what was asked stays asked. *)
LEMMA LeftAsked ==
    ASSUME NEW x \in Orders, RowLeft(x), NEW m \in Methods, NEW amt, Asked(x, m, amt)
    PROVE  Asked(x, m, amt)'
BY DEF RowLeft, Past, Asked

LEMMA AllLeft ==
    ASSUME Core, Grows, \A x \in Orders : RowLeft(x)
    PROVE  RowsStay /\ AskedStays
BY LeftHolds, LeftAsked DEF Core, RowsStay, AskedStays

(* One order is written, and every other row is left as it is.              *)
LEMMA OneWritten ==
    ASSUME Core, Grows, NEW o \in Orders, \A x \in Orders \ {o} : RowLeft(x),
           RowInv(o)', \A m \in Methods, amt \in Int : Asked(o, m, amt) => Asked(o, m, amt)'
    PROVE  RowsStay /\ AskedStays
BY LeftHolds, LeftAsked DEF Core, RowsStay, AskedStays

(* A settled order has no recovery window.                                  *)
LEMMA SettledSealed ==
    ASSUME Core, NEW o \in Orders, status[o] \in Settled
    PROVE  ~recovery[o]
BY DEF Core, OpenedOnly, RowInv, Kept, Settled

(* Creating an order: its row was blank, and the orders folded into it are
   completed.                                                               *)
LEMMA InsertRows ==
    ASSUME Core, NEW o \in Orders, status[o] = "absent", NEW d \in Drafts,
           \A x \in d.surplus : status[x] = "done", insertOrder(o, d)
    PROVE  RowsStay /\ AskedStays
<1> USE DEF insertOrder
<1>1. status' = [status EXCEPT ![o] = "pending"] /\ draft' = [draft EXCEPT ![o] = d]
  OBVIOUS
<1>2. /\ checkout' = checkout /\ callback' = callback /\ attempt' = attempt
      /\ recovery' = recovery /\ opens' = opens /\ payments' = payments
  BY DEF worldVars
<1>3. Grows
  BY <1>2 DEF Grows
<1>4. ASSUME NEW x \in Orders \ {o} PROVE RowLeft(x)
  <2>1. SameRow(x)
    BY <1>1, <1>2 DEF SameRow, Core, TypeOK
  <2> QED  BY <1>2, <1>3, <2>1, SameLeft DEF Core
<1>5. RowInv(o)'
  <2>1. /\ status'[o] = "pending" /\ draft'[o] = d /\ checkout[o] = NoCheckout
        /\ callback[o] = None /\ \A m \in Methods : attempt[o][m] = NoAttempt
    BY <1>1 DEF Core, TypeOK, RowInv, Blank
  <2>2. OpenCheckout(o)' /\ \A m \in Methods : OpenRow(o, m)'
    <3>1. checkout'[o] = NoCheckout /\ \A m \in Methods : attempt'[o][m] = NoAttempt
      BY <1>2, <2>1
    <3>2. NoCheckout.pm = None /\ NoCheckout.result = None
      BY DEF NoCheckout
    <3>3. /\ NoAttempt.status = "absent" /\ NoAttempt.cb = None
          /\ NoAttempt.result = None /\ NoAttempt.claim = None
      BY DEF NoAttempt
    <3>4. OpenCheckout(o)'
      BY <3>1, <3>2, <3>3 DEF OpenCheckout
    <3>5. ASSUME NEW m \in Methods PROVE OpenRow(o, m)'
      BY <3>1, <3>3 DEF OpenRow
    <3> QED  BY <3>4, <3>5
  <2>3. Won(o)' /\ Paid(o)'
    BY <1>2, <2>1, NamesAssumption DEF Won, Paid, NoAttempt
  <2>4. d.surplus \subseteq Orders
    BY DEF Drafts
  <2>5. Kept(o)'
    BY <1>2, <2>1, <2>4 DEF Kept, Core, RowInv
  <2> QED  BY <1>2, <2>1, <2>2, <2>3, <2>5 DEF RowInv, Blank, Open
<1>6. \A m \in Methods, amt \in Int : Asked(o, m, amt) => Asked(o, m, amt)'
  BY DEF Asked
<1> QED  BY <1>3, <1>4, <1>5, <1>6, OneWritten

LEMMA CreateRows ==
    ASSUME Core, NEW o \in Orders, NEW u \in Users, Create(o, u)
    PROVE  RowsStay /\ AskedStays
<1> USE Inputs
<1>0. TypeOK
  BY DEF Core
<1>1. ASSUME NEW kind \in BuyKinds, NEW price \in Prices, NEW worth \in Surpluses,
             NEW ids \in SUBSET Orders, \A x \in ids : status[x] = "done",
             SaveOrder(o, u, kind, price, worth, ids)
      PROVE  RowsStay /\ AskedStays
  <2> DEFINE due == IF worth >= price THEN 0 ELSE price - worth
             bal == Min2(balance[u], due)
             d   == [user |-> u, kind |-> kind, total |-> due - bal, bal |-> bal,
                     refund |-> IF worth >= price THEN worth - price ELSE 0, surplus |-> ids]
  <2>1. insertOrder(o, d) /\ status[o] = "absent"
      BY <1>1 DEF SaveOrder, NextId
  <2>2. due \in Nat /\ balance[u] \in Nat /\ worth \in Nat /\ price \in Nat
      BY <1>0 DEF TypeOK
  <2>3. bal \in Nat /\ due - bal \in Int
      BY <2>2 DEF Min2
  <2>4. (IF worth >= price THEN worth - price ELSE 0) \in Nat
      BY <2>2
  <2>5. d \in Drafts /\ d.surplus = ids
      BY <2>3, <2>4 DEF Drafts
  <2> HIDE DEF d
  <2> QED  BY <1>1, <2>1, <2>5, InsertRows
<1>2. ASSUME NEW kind \in Kinds, NEW price \in Prices,
             insertOrder(o, [user |-> u, kind |-> kind, total |-> price, bal |-> 0, refund |-> 0,
                             surplus |-> {}]), status[o] = "absent"
      PROVE  RowsStay /\ AskedStays
  <2> DEFINE d == [user |-> u, kind |-> kind, total |-> price, bal |-> 0, refund |-> 0,
                   surplus |-> {}]
  <2>1. d \in Drafts /\ d.surplus = {}
      BY DEF Drafts
  <2>2. insertOrder(o, d)
      BY <1>2
  <2> HIDE DEF d
  <2> QED  BY <1>2, <2>1, <2>2, InsertRows
<1>3. ASSUME NEW kind \in BuyKinds, NEW price \in Prices, AssignAdminOrder(o, u, kind, price)
      PROVE  RowsStay /\ AskedStays
  BY <1>2, <1>3 DEF AssignAdminOrder, NextId
<1>4. ASSUME NEW amount \in Prices, saveDepositOrder(o, u, amount)
      PROVE  RowsStay /\ AskedStays
  BY <1>2, <1>4 DEF saveDepositOrder, NextId, Kinds
<1>5. \A ids \in {{}, SurplusIds(u, {"period"}), SurplusIds(u, Kinds \ {"reset"})} :
          ids \in SUBSET Orders /\ \A x \in ids : status[x] = "done"
  BY DEF SurplusIds
<1> QED  BY <1>1, <1>3, <1>4, <1>5 DEF Create

(* The orders a checkout step does not work on.                             *)
LEMMA OthersLeft ==
    ASSUME Core, Grows, NEW o \in Orders, status' = status, draft' = draft, callback' = callback,
           recovery' = recovery,
           \A x \in Orders \ {o} : checkout'[x] = checkout[x] /\ attempt'[x] = attempt[x]
    PROVE  \A x \in Orders \ {o} : RowLeft(x)
<1>1. ASSUME NEW x \in Orders \ {o} PROVE RowLeft(x)
  <2>1. SameRow(x)
    BY DEF SameRow
  <2> QED  BY <2>1, SameLeft DEF Core
<1> QED  BY <1>1

(* Leaving a channel freezes the amounts its row already has, and takes its
   claim.                                                                   *)
LEMMA ArchivedRows ==
    ASSUME Core, NEW o \in Orders, status[o] = "pending", checkout[o].pm \in Methods,
           NEW n \in Methods
    PROVE  LET r == attempt[o][n]
               a == Archived(o)[n]
           IN  /\ a \in AttemptRows
               /\ n # checkout[o].pm => a = r
               /\ a.status = r.status /\ a.hand = r.hand /\ a.amt = r.amt /\ a.cb = r.cb
               /\ a.claim = None
               /\ a.result # None => a.result = [m |-> n, amt |-> a.amt]
<1> DEFINE r == attempt[o][n]
           c == checkout[o]
           a == Archived(o)[n]
<1>1. /\ attempt[o] \in [Methods -> AttemptRows] /\ r \in AttemptRows
      /\ c \in CheckoutRows /\ draft[o].total \in Int
  BY DEF Core, TypeOK, Drafts
<1>2. OpenCheckout(o) /\ OpenRow(o, n)
  BY DEF Core, RowInv, Open
<1>3. CASE n # c.pm
  <2>1. a = r
    BY <1>1, <1>3 DEF Archived
  <2>2. r.claim = None
    BY <1>2, <1>3 DEF OpenRow
  <2> QED  BY <1>1, <1>2, <2>1, <2>2 DEF OpenRow
<1>4. CASE n = c.pm
  <2>1. a = LeftRow(r, c, draft[o].total)
    BY <1>1, <1>4 DEF Archived
  <2>2. n # None
    BY NamesAssumption
  <2>3. r.status = "pending" /\ r.hand = c.hand /\ r.amt = draft[o].total + r.hand /\ c.hand \in Nat
    BY <1>1, <1>2, <1>4, <2>2 DEF OpenCheckout, OpenRow, CheckoutRows
  <2>4. r.result # None => r.result = [m |-> n, amt |-> r.amt]
    BY <1>2 DEF OpenRow
  <2>5. c.result # None => c.result = [m |-> n, amt |-> r.amt]
    BY <1>2, <1>4, <2>3 DEF OpenCheckout
  <2>6. /\ Coalesce(r.result, c.result) # None => Coalesce(r.result, c.result) = [m |-> n, amt |-> r.amt]
        /\ Coalesce(r.result, c.result) \in Snapshots \cup {None}
        /\ Coalesce(r.fp, c.fp) \in Fingerprints \cup {None}
    BY <1>1, <2>4, <2>5 DEF Coalesce, AttemptRows, CheckoutRows
  <2>7. a = [r EXCEPT !.status = "pending", !.hand = c.hand, !.amt = draft[o].total + c.hand,
                      !.claim = None, !.live = FALSE,
                      !.fp = Coalesce(@, c.fp), !.result = Coalesce(@, c.result)]
    BY <2>1, <2>3 DEF LeftRow
  <2>8. draft[o].total + c.hand = r.amt
    BY <2>3
  <2> HIDE DEF a, r, c
  <2>9. /\ a \in AttemptRows /\ a.status = r.status /\ a.hand = r.hand /\ a.amt = r.amt
        /\ a.cb = r.cb /\ a.claim = None /\ a.result = Coalesce(r.result, c.result)
    BY <1>1, <2>3, <2>6, <2>7, <2>8 DEF AttemptRows
  <2> QED  BY <1>4, <2>6, <2>9 DEF a, r, c
<1> QED  BY <1>3, <1>4

(* The rows a checkout of channel m starts from, and the fee it finds.      *)
LEMMA StartRows ==
    ASSUME Core, NEW o \in Orders, status[o] = "pending", NEW m \in Methods, NEW n \in Methods
    PROVE  LET r == attempt[o][n]
               a == Rows(o, m)[n]
           IN  /\ a \in AttemptRows
               /\ a.status = r.status /\ a.hand = r.hand /\ a.amt = r.amt /\ a.cb = None
               /\ n # m => a.claim = None
               /\ n # m /\ r.status = "absent" => a = NoAttempt
               /\ a.result # None => a.result = [m |-> n, amt |-> a.amt]
               /\ n = m /\ a.status = "pending" => HandlingAmount(o, m) = a.hand
               /\ n = m => HandlingAmount(o, m) \in Nat
<1> DEFINE r == attempt[o][n]
           c == checkout[o]
           a == Rows(o, m)[n]
<1>1. /\ r \in AttemptRows /\ c \in CheckoutRows /\ version[m] \in 0..MaxVersion
      /\ c.pm \in Methods \cup {None}
  BY DEF Core, TypeOK, CheckoutRows, Versions
<1>2. OpenCheckout(o) /\ OpenRow(o, n) /\ Fee(m, version[m]) \in Nat
  BY <1>1, BoundsAssumption DEF Core, RowInv, Open
<1>3. m # None /\ n # None
  BY NamesAssumption
<1>4. CASE switching(o, m)
  <2>1. a = Archived(o)[n] /\ c.pm \in Methods /\ c.pm # m
    BY <1>1, <1>4 DEF Rows, switching
  <2>2. /\ a \in AttemptRows /\ (n # c.pm => a = r)
        /\ a.status = r.status /\ a.hand = r.hand /\ a.amt = r.amt /\ a.cb = r.cb
        /\ a.claim = None
        /\ a.result # None => a.result = [m |-> n, amt |-> a.amt]
    BY <2>1, ArchivedRows
  <2>3. r.status = "absent" => n # c.pm
    BY <1>2, <2>1, <1>3 DEF OpenCheckout
  <2>4. r.status = "absent" => r = NoAttempt
    BY <1>2 DEF OpenRow
  <2>5. r.cb = None
    BY <1>2 DEF OpenRow
  <2>6. n = m => HandlingAmount(o, m) = IF a.status # "absent" THEN a.hand ELSE Fee(m, version[m])
    BY <1>4, <2>1 DEF HandlingAmount, switching
  <2>7. a.hand \in Nat
    BY <2>2 DEF AttemptRows
  <2> QED  BY <1>2, <2>2, <2>3, <2>4, <2>5, <2>6, <2>7
<1>5. CASE ~switching(o, m)
  <2>1. a = r /\ c.pm \in {None, m}
    BY <1>1, <1>5 DEF Rows, switching
  <2>2. HandlingAmount(o, m) = IF c.pm = m THEN c.hand ELSE Fee(m, version[m])
    BY <1>5 DEF HandlingAmount
  <2>3. c.pm = None => r.status = "absent"
    BY <1>2 DEF OpenCheckout
  <2>4. n = m /\ c.pm = m => r.status = "pending" /\ r.hand = c.hand
    BY <1>2, <1>3 DEF OpenCheckout
  <2>5. c.hand \in Nat
    BY <1>1 DEF CheckoutRows
  <2>6. /\ r.cb = None /\ (r.status = "absent" => r = NoAttempt)
        /\ (r.result # None => r.result = [m |-> n, amt |-> r.amt])
        /\ (r.claim # None => c.pm = n)
    BY <1>2 DEF OpenRow
  <2>7. n # m => r.claim = None
    BY <2>1, <2>6, <1>3
  <2> QED  BY <1>1, <1>2, <1>3, <2>1, <2>2, <2>3, <2>4, <2>5, <2>6, <2>7
<1> QED  BY <1>4, <1>5

(* The first transaction of a checkout.                                     *)
LEMMA ClaimRows ==
    ASSUME Core, NEW s \in Sessions, NEW o \in Orders, NEW m \in Methods, CheckoutClaim(s, o, m)
    PROVE  /\ RowsStay /\ AskedStays
           /\ status'[o] = "pending" /\ attempt'[o][m].claim = s
           /\ \A n \in Methods \ {m} : attempt'[o][n].claim = None
           /\ attempt'[o][m].status = "pending" /\ attempt'[o][m].amt = sess'[s].amt
           /\ \A x \in Orders \ {o} : attempt'[x] = attempt[x]
<1> DEFINE a    == Rows(o, m)[m]
           hand == HandlingAmount(o, m)
           amt  == draft[o].total + hand
           fp   == <<version[m], amt>>
           new  == [a EXCEPT !.status = "pending", !.hand = hand, !.amt = amt,
                             !.claim = s, !.live = TRUE, !.fp = fp, !.result = None]
           cnew == [pm |-> m, hand |-> hand, claim |-> s, live |-> TRUE, fp |-> fp, result |-> None]
<1>1. /\ status[o] = "pending" /\ status' = status /\ draft' = draft /\ callback' = callback
      /\ recovery' = recovery /\ opens' = opens /\ payments' = payments
      /\ a.status \in {"absent", "pending"}
  BY DEF CheckoutClaim
<1>2. /\ attempt' = [attempt EXCEPT ![o] = [Rows(o, m) EXCEPT ![m] = new]]
      /\ checkout' = [checkout EXCEPT ![o] = cnew]
      /\ sess' = [sess EXCEPT ![s] = [pc |-> "calling", o |-> o, m |-> m,
                                      hand |-> hand, amt |-> amt, fp |-> fp]]
  BY DEF CheckoutClaim
<1>3. /\ a \in AttemptRows /\ a.cb = None /\ hand \in Nat /\ draft[o].total \in Int
      /\ (a.status = "pending" => hand = a.hand) /\ a.amt = attempt[o][m].amt
      /\ a.status = attempt[o][m].status /\ a.hand = attempt[o][m].hand
  <2>1. draft[o].total \in Int
    BY DEF Core, TypeOK, Drafts
  <2> QED  BY <1>1, <2>1, StartRows
<1>4. amt \in Int
  BY <1>3
<1>6. Rows(o, m) \in [Methods -> AttemptRows]
  BY RowsTypes DEF Core
<1> HIDE DEF hand, a
<1>7. /\ new.status = "pending" /\ new.hand = hand /\ new.amt = amt /\ new.claim = s
      /\ new.result = None /\ new.cb = None
  BY <1>3 DEF AttemptRows
<1> HIDE DEF new
<1>8. /\ attempt'[o][m] = new /\ checkout'[o] = cnew /\ sess'[s].amt = amt
      /\ \A n \in Methods \ {m} : attempt'[o][n] = Rows(o, m)[n]
      /\ \A x \in Orders \ {o} : checkout'[x] = checkout[x] /\ attempt'[x] = attempt[x]
  BY <1>2, <1>6 DEF Core, TypeOK
<1>9. Grows
  BY <1>1 DEF Grows
<1>10. \A x \in Orders \ {o} : RowLeft(x)
  BY <1>1, <1>8, <1>9, OthersLeft
<1>11. \A n \in Methods : OpenRow(o, n)
  BY <1>1 DEF Core, RowInv, Open
<1>12. RowInv(o)'
  <2>1. OpenCheckout(o)'
    BY <1>7, <1>8, NamesAssumption DEF OpenCheckout
  <2>2. OpenRow(o, m)'
    BY <1>1, <1>7, <1>8 DEF OpenRow
  <2>3. ASSUME NEW n \in Methods \ {m} PROVE OpenRow(o, n)'
    <3> DEFINE b == Rows(o, m)[n]
    <3>1. /\ b.status = attempt[o][n].status /\ b.hand = attempt[o][n].hand
          /\ b.amt = attempt[o][n].amt /\ b.cb = None /\ b.claim = None
          /\ (b.status = "absent" => b = NoAttempt)
          /\ (b.result # None => b.result = [m |-> n, amt |-> b.amt])
      BY <1>1, StartRows
    <3>2. attempt'[o][n] = b
      BY <1>8
    <3>3. OpenRow(o, n)
      BY <1>11
    <3> HIDE DEF b
    <3> QED  BY <1>1, <3>1, <3>2, <3>3 DEF OpenRow
  <2>4. status'[o] = "pending" /\ draft'[o] = draft[o] /\ callback'[o] = None
    BY <1>1 DEF Core, RowInv, Open
  <2> QED  BY <1>1, <1>9, <2>1, <2>2, <2>3, <2>4, OpenHolds DEF Core
<1>14. ASSUME NEW n \in Methods \ {m}
       PROVE  /\ attempt'[o][n].claim = None
              /\ attempt'[o][n].status = attempt[o][n].status
              /\ attempt'[o][n].amt = attempt[o][n].amt
  <2> DEFINE b == Rows(o, m)[n]
  <2>1. /\ b.status = attempt[o][n].status /\ b.amt = attempt[o][n].amt /\ b.claim = None
    BY <1>1, StartRows
  <2>2. attempt'[o][n] = b
    BY <1>8
  <2> QED  BY <2>1, <2>2
<1>13. ASSUME NEW n \in Methods, NEW v \in Int, Asked(o, n, v) PROVE Asked(o, n, v)'
  <2>1. attempt[o][n].status = "pending" /\ attempt[o][n].amt = v
    BY <1>1, <1>13 DEF Asked
  <2>2. CASE n = m
    <3>1. attempt[o][m].amt = draft[o].total + attempt[o][m].hand
      BY <1>11, <2>1, <2>2 DEF OpenRow
    <3>2. amt = v
      BY <1>3, <2>1, <2>2, <3>1
    <3> QED  BY <1>1, <1>7, <1>8, <2>2, <3>2 DEF Asked
  <2>3. CASE n # m
    BY <1>1, <1>14, <2>1, <2>3 DEF Asked
  <2> QED  BY <2>2, <2>3
<1> QED  BY <1>1, <1>7, <1>8, <1>9, <1>10, <1>12, <1>13, <1>14, OneWritten

(* Switching back to a channel whose link is cached.                        *)
LEMMA CachedRows ==
    ASSUME Core, NEW o \in Orders, NEW m \in Methods, selectCachedPaymentAttempt(o, m)
    PROVE  /\ RowsStay /\ AskedStays
           /\ \A n \in Methods : attempt'[o][n].claim = None
           /\ \A x \in Orders \ {o} : attempt'[x] = attempt[x]
<1> DEFINE a == Rows(o, m)[m]
<1>1. /\ status[o] = "pending" /\ status' = status /\ draft' = draft /\ callback' = callback
      /\ recovery' = recovery /\ opens' = opens /\ payments' = payments
      /\ switching(o, m) /\ a.status = "pending"
      /\ a.result = [m |-> m, amt |-> a.amt] /\ a.amt = draft[o].total + a.hand
  BY DEF selectCachedPaymentAttempt, worldVars
<1>2. /\ attempt' = [attempt EXCEPT ![o] = Archived(o)]
      /\ checkout' = [checkout EXCEPT ![o] = [pm |-> m, hand |-> a.hand, claim |-> None,
                          live |-> FALSE, fp |-> a.fp, result |-> a.result]]
  BY DEF selectCachedPaymentAttempt
<1>3. checkout[o].pm \in Methods
  BY <1>1 DEF switching, Core, TypeOK, CheckoutRows
<1>4. /\ attempt'[o] = Archived(o) /\ a = attempt'[o][m]
      /\ checkout'[o].pm = m /\ checkout'[o].hand = a.hand /\ checkout'[o].result = a.result
      /\ \A x \in Orders \ {o} : checkout'[x] = checkout[x] /\ attempt'[x] = attempt[x]
  BY <1>1, <1>2 DEF Core, TypeOK, Rows
<1>5. Grows
  BY <1>1 DEF Grows
<1>6. \A x \in Orders \ {o} : RowLeft(x)
  BY <1>1, <1>4, <1>5, OthersLeft
<1>7. ASSUME NEW n \in Methods
      PROVE  /\ OpenRow(o, n)' /\ attempt'[o][n].claim = None
             /\ attempt'[o][n].status = attempt[o][n].status
             /\ attempt'[o][n].amt = attempt[o][n].amt
  <2> DEFINE b == Archived(o)[n]
             r == attempt[o][n]
  <2>1. /\ (n # checkout[o].pm => b = r)
        /\ b.status = r.status /\ b.hand = r.hand /\ b.amt = r.amt /\ b.cb = r.cb
        /\ b.claim = None
        /\ (b.result # None => b.result = [m |-> n, amt |-> b.amt])
    BY <1>1, <1>3, ArchivedRows
  <2>2. OpenRow(o, n) /\ OpenCheckout(o)
    BY <1>1 DEF Core, RowInv, Open
  <2>3. r.status = "absent" => n # checkout[o].pm
    BY <1>3, <2>2, NamesAssumption DEF OpenCheckout
  <2>4. attempt'[o][n] = b
    BY <1>4
  <2> HIDE DEF b
  <2>5. OpenRow(o, n)'
    BY <1>1, <2>1, <2>2, <2>3, <2>4 DEF OpenRow
  <2> QED  BY <2>1, <2>4, <2>5
<1>8. RowInv(o)'
  <2> HIDE DEF a
  <2>1. OpenCheckout(o)'
    BY <1>1, <1>4, NamesAssumption DEF OpenCheckout
  <2>2. status'[o] = "pending" /\ draft'[o] = draft[o] /\ callback'[o] = None
    BY <1>1 DEF Core, RowInv, Open
  <2> QED  BY <1>1, <1>5, <1>7, <2>1, <2>2, OpenHolds DEF Core
<1>9. \A n \in Methods, v \in Int : Asked(o, n, v) => Asked(o, n, v)'
  BY <1>1, <1>7 DEF Asked
<1> QED  BY <1>4, <1>5, <1>6, <1>7, <1>8, <1>9, OneWritten

(* The later steps of a checkout write one attempt row and the order row: the
   amounts stay, claims only go, and a stored link is of the row's amount.  *)
LaterWrite(o, m, new, cnew) ==
    LET r == attempt[o][m]
        c == checkout[o]
    IN  /\ attempt' = [attempt EXCEPT ![o][m] = new]
        /\ checkout' = [checkout EXCEPT ![o] = cnew]
        /\ new.status = r.status /\ new.hand = r.hand /\ new.amt = r.amt /\ new.cb = r.cb
        /\ new.claim \in {None, r.claim}
        /\ cnew.pm = c.pm /\ cnew.hand = c.hand
        /\ status[o] = "absent" => new = r /\ cnew = c
        /\ status[o] = "pending" =>
             /\ r.status = "absent" => new = r
             /\ new.result # None => new.result = [m |-> m, amt |-> r.amt] /\ new.claim = None
             /\ cnew.result # None => /\ c.pm # None
                                      /\ cnew.result = [m |-> c.pm, amt |-> draft[o].total + c.hand]
             /\ cnew.claim = c.claim \/ \A n \in Methods : attempt'[o][n].claim = None

(* Channels, transaction numbers and claims stay, or a claim goes.          *)
ChannelsStay ==
    /\ \A x \in Orders : checkout'[x].pm = checkout[x].pm /\ callback'[x] = callback[x]
    /\ \A x \in Orders, n \in Methods :
         /\ attempt'[x][n].claim \in {None, attempt[x][n].claim}
         /\ attempt'[x][n].cb = attempt[x][n].cb

LEMMA LaterRows ==
    ASSUME Core, NEW o \in Orders, NEW m \in Methods, NEW new, NEW cnew,
           status' = status, draft' = draft, callback' = callback, recovery' = recovery,
           opens' = opens, payments' = payments, LaterWrite(o, m, new, cnew)
    PROVE  RowsStay /\ AskedStays /\ ChannelsStay
<1> DEFINE r == attempt[o][m]
           c == checkout[o]
<1>1. Grows
  BY DEF Grows
<1>2. /\ attempt'[o][m] = new /\ checkout'[o] = cnew
      /\ \A n \in Methods \ {m} : attempt'[o][n] = attempt[o][n]
      /\ \A x \in Orders \ {o} : checkout'[x] = checkout[x] /\ attempt'[x] = attempt[x]
  BY DEF LaterWrite, Core, TypeOK
<1>3. /\ new.status = r.status /\ new.hand = r.hand /\ new.amt = r.amt /\ new.cb = r.cb
      /\ new.claim \in {None, r.claim} /\ cnew.pm = c.pm /\ cnew.hand = c.hand
      /\ status[o] = "absent" => new = r /\ cnew = c
  BY DEF LaterWrite
<1>4. /\ status[o] = "pending" /\ r.status = "absent" => new = r
      /\ status[o] = "pending" /\ new.result # None =>
           new.result = [m |-> m, amt |-> r.amt] /\ new.claim = None
      /\ status[o] = "pending" /\ cnew.result # None =>
           c.pm # None /\ cnew.result = [m |-> c.pm, amt |-> draft[o].total + c.hand]
      /\ status[o] = "pending" =>
           cnew.claim = c.claim \/ \A n \in Methods : attempt'[o][n].claim = None
  BY DEF LaterWrite
<1>5. \A x \in Orders \ {o} : RowLeft(x)
  BY <1>1, <1>2, OthersLeft
<1>6. \A n \in Methods : /\ attempt'[o][n].status = attempt[o][n].status
                         /\ attempt'[o][n].hand = attempt[o][n].hand
                         /\ attempt'[o][n].amt = attempt[o][n].amt
                         /\ attempt'[o][n].cb = attempt[o][n].cb
                         /\ attempt'[o][n].claim \in {None, attempt[o][n].claim}
                         /\ status[o] = "absent" => attempt'[o][n] = attempt[o][n]
  BY <1>2, <1>3
<1>7. RowInv(o)'
  <2>1. CASE status[o] = "pending"
    <3>1. OpenCheckout(o) /\ \A n \in Methods : OpenRow(o, n)
      BY <2>1 DEF Core, RowInv, Open
    <3>2. OpenCheckout(o)'
      <4>1. c.pm \in Methods \cup {None}
        BY DEF Core, TypeOK, CheckoutRows
      <4>2. cnew.pm = None => cnew.result = None
        BY <1>3, <1>4, <2>1
      <4> QED  BY <1>2, <1>3, <1>4, <1>6, <2>1, <3>1, <4>1, <4>2 DEF OpenCheckout
    <3>3. OpenRow(o, m)'
      <4>1. OpenRow(o, m)
        BY <3>1
      <4>2. new.claim # None => new.claim = cnew.claim /\ cnew.pm = m
        BY <1>2, <1>3, <1>4, <2>1, <4>1 DEF OpenRow
      <4>3. new.status = "absent" => new = NoAttempt
        BY <1>3, <1>4, <2>1, <4>1 DEF OpenRow
      <4> QED  BY <1>2, <1>3, <1>4, <2>1, <4>1, <4>2, <4>3 DEF OpenRow
    <3>4. ASSUME NEW n \in Methods \ {m} PROVE OpenRow(o, n)'
      <4>1. OpenRow(o, n) /\ attempt'[o][n] = attempt[o][n]
        BY <1>2, <3>1
      <4>2. attempt[o][n].claim # None => cnew.claim = c.claim
        BY <1>4, <2>1, <4>1
      <4> QED  BY <1>2, <1>3, <4>1, <4>2 DEF OpenRow
    <3>5. callback'[o] = None
      BY <2>1 DEF Core, RowInv, Open
    <3>6. status'[o] = "pending" /\ draft'[o] = draft[o] /\ RowInv(o) /\ TypeOK
      BY <2>1 DEF Core
    <3>7. \A n \in Methods : OpenRow(o, n)'
      BY <3>3, <3>4
    <3> QED  BY <1>1, <2>1, <3>2, <3>5, <3>6, <3>7, OpenHolds
  <2>2. CASE status[o] # "pending"
    <3>1. status[o] = "absent" \/ Past(o)
      BY <2>2 DEF Past
    <3>2. status'[o] \in {"done", "closed"} => opens'[o] > 0
      BY DEF Core, RowInv, Kept
    <3>3. status[o] = "absent" => checkout'[o] = checkout[o]
      BY <1>2, <1>3
    <3>4. checkout'[o].pm = checkout[o].pm /\ checkout'[o].hand = checkout[o].hand
      BY <1>2, <1>3
    <3>5. RowLeft(o)
      BY <1>6, <3>1, <3>2, <3>3, <3>4 DEF RowLeft
    <3> QED  BY <1>1, <3>5, LeftHolds DEF Core
  <2> QED  BY <2>1, <2>2
<1>8. \A n \in Methods, v \in Int : Asked(o, n, v) => Asked(o, n, v)'
  BY <1>6 DEF Asked
<1>9. ChannelsStay
  BY <1>2, <1>3, <1>6 DEF ChannelsStay
<1> QED  BY <1>1, <1>5, <1>7, <1>8, <1>9, OneWritten

LEMMA BusySession ==
    ASSUME Core, NEW s \in Sessions,
           sess[s].pc \in {"calling", "created", "releaseAttempt", "releaseOrder"}
    PROVE  /\ sess[s].o \in Orders /\ sess[s].m \in Methods
           /\ sess[s].amt \in Int /\ sess[s].hand \in Nat
BY DEF Core, TypeOK, SessionRows, Idle

(* The rows of a release or of an expiry.                                   *)
LEMMA SoftRows ==
    ASSUME Core, NEW o \in Orders, NEW m \in Methods
    PROVE  LET r == attempt[o][m]
               c == checkout[o]
           IN  /\ attempt = [attempt EXCEPT ![o][m] = r] /\ checkout = [checkout EXCEPT ![o] = c]
               /\ r \in AttemptRows /\ c \in CheckoutRows
               /\ status[o] = "absent" => /\ r.claim = None /\ ~r.live
                                          /\ c.claim = None /\ ~c.live
               /\ status[o] = "pending" =>
                    /\ r.result # None => r.result = [m |-> m, amt |-> r.amt] /\ r.claim = None
                    /\ c.result # None => /\ c.pm # None
                                          /\ c.result = [m |-> c.pm, amt |-> draft[o].total + c.hand]
                    /\ r.status = "absent" => r = NoAttempt
<1>1. /\ attempt \in [Orders -> [Methods -> AttemptRows]] /\ checkout \in [Orders -> CheckoutRows]
  BY DEF Core, TypeOK
<1>2. status[o] = "absent" => attempt[o][m] = NoAttempt /\ checkout[o] = NoCheckout
  BY DEF Core, RowInv, Blank
<1>3. status[o] = "pending" => OpenCheckout(o) /\ OpenRow(o, m)
  BY DEF Core, RowInv, Open
<1>4. NoAttempt.claim = None /\ ~NoAttempt.live /\ NoCheckout.claim = None /\ ~NoCheckout.live
  BY DEF NoAttempt, NoCheckout
<1>5. checkout[o].pm \in Methods \cup {None}
  BY <1>1 DEF CheckoutRows
<1>6. /\ attempt = [attempt EXCEPT ![o][m] = attempt[o][m]]
      /\ checkout = [checkout EXCEPT ![o] = checkout[o]]
  BY <1>1
<1>7. status[o] = "pending" =>
        /\ attempt[o][m].result # None =>
             attempt[o][m].result = [m |-> m, amt |-> attempt[o][m].amt] /\ attempt[o][m].claim = None
        /\ attempt[o][m].status = "absent" => attempt[o][m] = NoAttempt
  BY <1>3 DEF OpenRow
<1>8. status[o] = "pending" /\ checkout[o].result # None =>
        /\ checkout[o].pm # None
        /\ checkout[o].result = [m |-> checkout[o].pm, amt |-> draft[o].total + checkout[o].hand]
  BY <1>3 DEF OpenCheckout
<1> QED  BY <1>1, <1>2, <1>4, <1>6, <1>7, <1>8

(* What stays when a row loses its claim, or its claim expires.             *)
LEMMA RowEdits ==
    /\ \A r \in AttemptRows :
         LET a == Released(r)
             b == [r EXCEPT !.live = FALSE]
         IN  /\ a.status = r.status /\ a.hand = r.hand /\ a.amt = r.amt /\ a.cb = r.cb
             /\ a.claim = None /\ a.result = r.result
             /\ b.status = r.status /\ b.hand = r.hand /\ b.amt = r.amt /\ b.cb = r.cb
             /\ b.claim = r.claim /\ b.result = r.result
    /\ \A x : \A r \in AttemptRows :
         LET a == Stored(r, x)
         IN  /\ a.status = r.status /\ a.hand = r.hand /\ a.amt = r.amt /\ a.cb = r.cb
             /\ a.claim = None /\ a.result = x
    /\ \A c \in CheckoutRows :
         /\ Released(c).pm = c.pm /\ Released(c).hand = c.hand /\ Released(c).result = c.result
         /\ Unclaimed(c).pm = c.pm /\ Unclaimed(c).hand = c.hand /\ Unclaimed(c).result = c.result
         /\ [c EXCEPT !.live = FALSE].pm = c.pm /\ [c EXCEPT !.live = FALSE].hand = c.hand
         /\ [c EXCEPT !.live = FALSE].result = c.result /\ [c EXCEPT !.live = FALSE].claim = c.claim
    /\ \A x : \A c \in CheckoutRows :
         Stored(c, x).pm = c.pm /\ Stored(c, x).hand = c.hand /\ Stored(c, x).result = x
BY DEF Released, Unclaimed, Stored, AttemptRows, CheckoutRows

LEMMA ReleaseAttemptRows ==
    ASSUME Core, NEW s \in Sessions, ReleaseAttempt(s)
    PROVE  /\ RowsStay /\ AskedStays /\ ChannelsStay
           /\ status[sess[s].o] = "pending" => attempt'[sess[s].o][sess[s].m].claim # s
<1> DEFINE o == sess[s].o
           m == sess[s].m
           r == attempt[o][m]
           c == checkout[o]
           frees == r.claim = s /\ r.status = "pending" /\ r.result = None
           new == IF frees THEN Released(r) ELSE r
<1>1. o \in Orders /\ m \in Methods
  BY BusySession DEF ReleaseAttempt
<1>2. /\ attempt = [attempt EXCEPT ![o][m] = r] /\ checkout = [checkout EXCEPT ![o] = c]
      /\ r \in AttemptRows
      /\ status[o] = "absent" => r.claim = None
      /\ status[o] = "pending" =>
           /\ r.result # None => r.result = [m |-> m, amt |-> r.amt] /\ r.claim = None
           /\ c.result # None => /\ c.pm # None
                                 /\ c.result = [m |-> c.pm, amt |-> draft[o].total + c.hand]
  BY <1>1, SoftRows
<1>3. attempt' = [attempt EXCEPT ![o][m] = new]
  <2>1. CASE frees
    BY <2>1 DEF ReleaseAttempt
  <2>2. CASE ~frees
    BY <1>2, <2>2 DEF ReleaseAttempt
  <2> QED  BY <2>1, <2>2
<1>4. /\ status' = status /\ draft' = draft /\ callback' = callback /\ recovery' = recovery
      /\ opens' = opens /\ payments' = payments /\ checkout' = checkout
  BY DEF ReleaseAttempt
<1>5. /\ new.status = r.status /\ new.hand = r.hand /\ new.amt = r.amt /\ new.cb = r.cb
      /\ new.claim \in {None, r.claim} /\ new.result = r.result
      /\ new = r \/ (new.claim = None /\ r.claim = s /\ r.status = "pending")
  BY <1>2, RowEdits
<1>6. s # None
  BY NamesAssumption
<1>7. attempt'[o][m] = new
  BY <1>1, <1>3 DEF Core, TypeOK
<1>8. status[o] = "pending" => new.claim # s
  <2>1. status[o] = "pending" => OpenRow(o, m)
    BY <1>1 DEF Core, RowInv, Open
  <2>2. status[o] = "pending" /\ r.claim = s => frees
    <3> SUFFICES ASSUME status[o] = "pending", r.claim = s PROVE frees
      OBVIOUS
    <3>1. r.status # "absent"
      BY <1>6, <2>1 DEF OpenRow, NoAttempt
    <3> QED  BY <1>2, <1>6, <2>1, <3>1 DEF OpenRow
  <2>3. frees => new.claim = None
    BY <1>2, RowEdits
  <2>4. ~frees => new = r
    OBVIOUS
  <2> HIDE DEF new, frees
  <2> QED  BY <1>6, <2>2, <2>3, <2>4
<1> HIDE DEF new
<1>9. LaterWrite(o, m, new, c)
  BY <1>2, <1>3, <1>4, <1>5, <1>6 DEF LaterWrite
<1>10. RowsStay /\ AskedStays /\ ChannelsStay
  BY <1>1, <1>4, <1>9, LaterRows
<1> QED  BY <1>7, <1>8, <1>10

LEMMA ReleaseOrderRows ==
    ASSUME Core, NEW s \in Sessions, ReleaseOrder(s),
           status[sess[s].o] = "pending" => \A n \in Methods : attempt[sess[s].o][n].claim # s
    PROVE  RowsStay /\ AskedStays /\ ChannelsStay
<1> DEFINE o == sess[s].o
           m == sess[s].m
           r == attempt[o][m]
           c == checkout[o]
           frees == c.claim = s /\ status[o] = "pending" /\ c.result = None
           new == IF frees THEN Released(c) ELSE c
<1>1. o \in Orders /\ m \in Methods
  BY BusySession DEF ReleaseOrder
<1>2. /\ attempt = [attempt EXCEPT ![o][m] = r] /\ checkout = [checkout EXCEPT ![o] = c]
      /\ c \in CheckoutRows
      /\ status[o] = "pending" =>
           /\ r.result # None => r.result = [m |-> m, amt |-> r.amt] /\ r.claim = None
           /\ c.result # None => /\ c.pm # None
                                 /\ c.result = [m |-> c.pm, amt |-> draft[o].total + c.hand]
  BY <1>1, SoftRows
<1>3. checkout' = [checkout EXCEPT ![o] = new]
  <2>1. CASE frees
    BY <2>1 DEF ReleaseOrder
  <2>2. CASE ~frees
    BY <1>2, <2>2 DEF ReleaseOrder
  <2> QED  BY <2>1, <2>2
<1>4. /\ status' = status /\ draft' = draft /\ callback' = callback /\ recovery' = recovery
      /\ opens' = opens /\ payments' = payments /\ attempt' = attempt
  BY DEF ReleaseOrder
<1>5. /\ new.pm = c.pm /\ new.hand = c.hand /\ new.result = c.result
      /\ new = c \/ (status[o] = "pending" /\ c.claim = s)
  BY <1>2, RowEdits
<1>6. status[o] = "pending" /\ c.claim = s => \A n \in Methods : attempt[o][n].claim = None
  <2> SUFFICES ASSUME status[o] = "pending", c.claim = s, NEW n \in Methods
               PROVE  attempt[o][n].claim = None
    OBVIOUS
  <2>1. OpenRow(o, n) /\ attempt[o][n].claim # s
    BY <1>1 DEF Core, RowInv, Open
  <2> QED  BY <2>1 DEF OpenRow
<1> HIDE DEF new
<1>7. LaterWrite(o, m, r, new)
  BY <1>2, <1>3, <1>4, <1>5, <1>6 DEF LaterWrite
<1> QED  BY <1>1, <1>4, <1>7, LaterRows

(* A claim's lease runs out.                                                *)
LEMMA ExpireRows ==
    ASSUME Core, NEW o \in Orders, NEW m \in Methods,
           ClaimExpires(o) \/ AttemptClaimExpires(o, m)
    PROVE  RowsStay /\ AskedStays /\ ChannelsStay
<1> DEFINE r == attempt[o][m]
           c == checkout[o]
<1>1. /\ attempt = [attempt EXCEPT ![o][m] = r] /\ checkout = [checkout EXCEPT ![o] = c]
      /\ r \in AttemptRows /\ c \in CheckoutRows
      /\ status[o] = "absent" => ~r.live /\ ~c.live
      /\ status[o] = "pending" =>
           /\ r.result # None => r.result = [m |-> m, amt |-> r.amt] /\ r.claim = None
           /\ c.result # None => /\ c.pm # None
                                 /\ c.result = [m |-> c.pm, amt |-> draft[o].total + c.hand]
           /\ r.status = "absent" => r = NoAttempt
  BY SoftRows
<1>2. /\ status' = status /\ draft' = draft /\ callback' = callback /\ recovery' = recovery
      /\ opens' = opens /\ payments' = payments
  BY DEF ClaimExpires, AttemptClaimExpires, worldVars
<1>3. CASE ClaimExpires(o)
  <2> DEFINE new == [c EXCEPT !.live = FALSE]
  <2>1. attempt' = attempt /\ checkout' = [checkout EXCEPT ![o] = new] /\ c.live
    BY <1>3 DEF ClaimExpires
  <2>2. new.pm = c.pm /\ new.hand = c.hand /\ new.result = c.result /\ new.claim = c.claim
    BY <1>1, RowEdits
  <2> HIDE DEF new
  <2>3. LaterWrite(o, m, r, new)
    BY <1>1, <2>1, <2>2 DEF LaterWrite
  <2> QED  BY <1>2, <2>3, LaterRows
<1>4. CASE AttemptClaimExpires(o, m)
  <2> DEFINE new == [r EXCEPT !.live = FALSE]
  <2>1. attempt' = [attempt EXCEPT ![o][m] = new] /\ checkout' = checkout /\ r.live
    BY <1>4 DEF AttemptClaimExpires
  <2>2. /\ new.status = r.status /\ new.hand = r.hand /\ new.amt = r.amt /\ new.cb = r.cb
        /\ new.claim = r.claim /\ new.result = r.result
    BY <1>1, RowEdits
  <2>3. status[o] = "pending" => r.status # "absent"
    BY <1>1, <2>1 DEF NoAttempt
  <2> HIDE DEF new
  <2>4. LaterWrite(o, m, new, c)
    BY <1>1, <2>1, <2>2, <2>3 DEF LaterWrite
  <2> QED  BY <1>2, <2>4, LaterRows
<1> QED  BY <1>3, <1>4

LEMMA ClaimExpireRows ==
    ASSUME Core, NEW o \in Orders, ClaimExpires(o)
    PROVE  RowsStay /\ AskedStays /\ ChannelsStay
<1>1. CASE Methods # {}
  BY <1>1, ExpireRows
<1>2. CASE Methods = {}
  <2> DEFINE c == checkout[o]
  <2>1. /\ status' = status /\ draft' = draft /\ callback' = callback /\ recovery' = recovery
        /\ opens' = opens /\ payments' = payments /\ attempt' = attempt
        /\ checkout' = [checkout EXCEPT ![o] = [c EXCEPT !.live = FALSE]] /\ c.live
    BY DEF ClaimExpires, worldVars
  <2>2. c \in CheckoutRows /\ checkout \in [Orders -> CheckoutRows]
    BY DEF Core, TypeOK
  <2>3. /\ checkout'[o] = [c EXCEPT !.live = FALSE]
        /\ \A x \in Orders \ {o} : checkout'[x] = checkout[x]
    BY <2>1, <2>2
  <2>4. checkout'[o].pm = c.pm /\ checkout'[o].hand = c.hand /\ checkout'[o].result = c.result
    BY <2>2, <2>3, RowEdits
  <2>5. Grows
    BY <2>1 DEF Grows
  <2>6. \A x \in Orders \ {o} : RowLeft(x)
    BY <2>1, <2>3, <2>5, OthersLeft
  <2>7. RowInv(o) /\ TypeOK
    BY DEF Core
  <2>8. RowInv(o)'
    <3>1. CASE status[o] = "pending"
      <4>1. OpenCheckout(o) /\ callback'[o] = None
        BY <2>1, <2>7, <3>1 DEF RowInv, Open
      <4>2. OpenCheckout(o)'
        BY <1>2, <2>1, <2>2, <2>4, <4>1 DEF OpenCheckout, CheckoutRows
      <4> QED  BY <1>2, <2>1, <2>5, <2>7, <3>1, <4>1, <4>2, OpenHolds
    <3>2. CASE status[o] # "pending"
      <4>1. status[o] # "absent"
        BY <2>1, <2>7 DEF RowInv, Blank, NoCheckout
      <4>2. RowLeft(o)
        BY <1>2, <2>1, <2>4, <2>7, <3>2, <4>1 DEF RowLeft, Past, RowInv, Kept
      <4> QED  BY <2>5, <2>7, <4>2, LeftHolds
    <3> QED  BY <3>1, <3>2
  <2>9. \A m \in Methods, v \in Int : Asked(o, m, v) => Asked(o, m, v)'
    BY <1>2
  <2>10. ChannelsStay
    BY <1>2, <2>1, <2>3, <2>4 DEF ChannelsStay
  <2> QED  BY <2>5, <2>6, <2>8, <2>9, <2>10, OneWritten
<1> QED  BY <1>1, <1>2

LEMMA StoredRow ==
    ASSUME NEW r \in AttemptRows, NEW x
    PROVE  /\ Stored(r, x).status = r.status /\ Stored(r, x).hand = r.hand
           /\ Stored(r, x).amt = r.amt /\ Stored(r, x).cb = r.cb
           /\ Stored(r, x).claim = None /\ Stored(r, x).result = x
BY RowEdits

LEMMA UnclaimedRow ==
    ASSUME NEW c \in CheckoutRows
    PROVE  Unclaimed(c).pm = c.pm /\ Unclaimed(c).hand = c.hand
BY RowEdits

(* The last transaction of a checkout stores the gateway's link, on the rows of
   the channel it was asked for.                                            *)
LEMMA PersistRows ==
    ASSUME Core, NEW s \in Sessions, persistCheckoutResult(s),
           Asked(sess[s].o, sess[s].m, sess[s].amt)
    PROVE  RowsStay /\ AskedStays /\ ChannelsStay
<1> DEFINE o == sess[s].o
           m == sess[s].m
           r == attempt[o][m]
           c == checkout[o]
           snap == [m |-> m, amt |-> sess[s].amt]
           up   == Upserted(r, sess[s], snap)
           st   == Stored(r, snap)
<1>1. /\ o \in Orders /\ m \in Methods /\ sess[s].amt \in Int /\ sess[s].hand \in Nat
  BY BusySession DEF persistCheckoutResult
<1>2. /\ attempt = [attempt EXCEPT ![o][m] = r] /\ checkout = [checkout EXCEPT ![o] = c]
      /\ r \in AttemptRows /\ c \in CheckoutRows
      /\ status[o] = "pending" =>
           /\ r.result # None => r.result = [m |-> m, amt |-> r.amt] /\ r.claim = None
           /\ c.result # None => /\ c.pm # None
                                 /\ c.result = [m |-> c.pm, amt |-> draft[o].total + c.hand]
  BY <1>1, SoftRows
<1>3. /\ status' = status /\ draft' = draft /\ callback' = callback /\ recovery' = recovery
      /\ opens' = opens /\ payments' = payments
  BY DEF persistCheckoutResult
<1>4. status[o] # "absent" /\ (status[o] = "pending" => r.status = "pending" /\ r.amt = sess[s].amt)
  BY DEF Asked
<1>5. /\ st.status = r.status /\ st.hand = r.hand /\ st.amt = r.amt /\ st.cb = r.cb
      /\ st.claim = None /\ st.result = snap
  <2>1. r \in AttemptRows
    BY <1>2
  <2> HIDE DEF r, snap
  <2> QED  BY <2>1, StoredRow
<1>6. status[o] = "pending" => snap = [m |-> m, amt |-> r.amt]
  BY <1>4
<1>7. m # None
  BY <1>1, NamesAssumption
<1> SUFFICES ASSUME NEW new \in {r, st, up}, NEW cnew \in {c, Unclaimed(c), Stored(c, snap)},
                    attempt' = [attempt EXCEPT ![o][m] = new],
                    checkout' = [checkout EXCEPT ![o] = cnew],
                    \/ status[o] # "pending" /\ new \in {r, st} /\ cnew \in {c, Unclaimed(c)}
                    \/ new \in {r, st} /\ cnew = c
                    \/ SameCheckout(s) /\ new \in {st, up} /\ cnew = Stored(c, snap)
             PROVE  RowsStay /\ AskedStays /\ ChannelsStay
  <2>1. CASE status[o] \in Settled
    BY <1>2, <2>1 DEF persistCheckoutResult, Settled, SameCheckout
  <2>2. CASE status[o] \notin Settled
    BY <1>2, <2>2 DEF persistCheckoutResult
  <2> QED  BY <2>1, <2>2
<1>8. CASE /\ new \in {r, st} /\ cnew \in {c, Unclaimed(c)}
           /\ (status[o] = "pending" => cnew = c)
  <2>1. /\ new.status = r.status /\ new.hand = r.hand /\ new.amt = r.amt /\ new.cb = r.cb
        /\ new.claim \in {None, r.claim}
        /\ new = r \/ (new.result = snap /\ new.claim = None)
    BY <1>5, <1>8
  <2>2. cnew.pm = c.pm /\ cnew.hand = c.hand
    <3>1. c \in CheckoutRows
      BY <1>2
    <3> HIDE DEF c
    <3> QED  BY <1>8, <3>1, UnclaimedRow
  <2>3. LaterWrite(o, m, new, cnew)
    <3> HIDE DEF st, up, snap
    <3> QED  BY <1>2, <1>4, <1>6, <1>8, <2>1, <2>2 DEF LaterWrite
  <2> QED  BY <1>1, <1>3, <2>3, LaterRows
<1>9. CASE SameCheckout(s) /\ new \in {st, up} /\ cnew = Stored(c, snap)
  <2>1. /\ status[o] = "pending" /\ c.pm = m /\ c.hand = sess[s].hand
        /\ draft[o].total = sess[s].amt - sess[s].hand
    BY <1>9 DEF SameCheckout
  <2>2. draft[o].total + c.hand = sess[s].amt
    BY <1>1, <2>1
  <2>3. OpenCheckout(o) /\ \A n \in Methods : OpenRow(o, n)
    BY <1>1, <2>1 DEF Core, RowInv, Open
  <2>4. r.hand = sess[s].hand /\ r.status = "pending" /\ r.amt = sess[s].amt
    BY <1>4, <1>7, <2>1, <2>3 DEF OpenCheckout
  <2>5. /\ up.status = r.status /\ up.hand = r.hand /\ up.amt = r.amt /\ up.cb = r.cb
        /\ up.claim = None /\ up.result = snap
    BY <1>2, <2>4 DEF Upserted, Stored, AttemptRows
  <2>6. /\ new.status = r.status /\ new.hand = r.hand /\ new.amt = r.amt /\ new.cb = r.cb
        /\ new.claim = None /\ new.result = snap
    <3> HIDE DEF up, st, snap
    <3> QED  BY <1>5, <1>9, <2>5, SMTT(30)
  <2>7. cnew.pm = c.pm /\ cnew.hand = c.hand /\ cnew.result = snap
    <3>1. c \in CheckoutRows
      BY <1>2
    <3> HIDE DEF c, snap
    <3>2. Stored(c, snap).pm = c.pm /\ Stored(c, snap).hand = c.hand /\ Stored(c, snap).result = snap
      BY <3>1, RowEdits
    <3> QED  BY <1>9, <3>2
  <2>8. snap = [m |-> m, amt |-> r.amt] /\ snap = [m |-> c.pm, amt |-> draft[o].total + c.hand]
    BY <2>1, <2>2, <2>4
  <2>9. ASSUME NEW n \in Methods PROVE attempt'[o][n].claim = None
    <3>1. CASE n = m
      BY <1>1, <2>6, <3>1 DEF Core, TypeOK
    <3>2. CASE n # m
      <4>1. attempt'[o][n] = attempt[o][n]
        BY <1>1, <3>2 DEF Core, TypeOK
      <4> QED  BY <2>1, <2>3, <3>2, <4>1 DEF OpenRow
    <3> QED  BY <3>1, <3>2
  <2>10. LaterWrite(o, m, new, cnew)
    <3> HIDE DEF st, up, snap
    <3> QED  BY <1>4, <1>7, <2>1, <2>6, <2>7, <2>8, <2>9 DEF LaterWrite
  <2> QED  BY <1>1, <1>3, <2>10, LaterRows
<1> QED  BY <1>8, <1>9

(* What a confirmation can be: of a payment somebody made for the order, or one
   without a gateway, whose mark is no transaction number.                  *)
Real(o, conf) ==
    /\ conf.amt \in Int
    /\ \/ /\ conf.m \in Methods /\ ~conf.manual
          /\ [o |-> o, m |-> conf.m, amt |-> conf.amt, cb |-> conf.cb] \in payments
       \/ conf.m = None /\ conf.cb \notin Callbacks

LEMMA RealConfs ==
    ASSUME Core
    PROVE  /\ \A p \in payments : Real(p.o, GatewayConf(p)) /\ p.o \in Orders
           /\ \A o \in Orders : Real(o, ManualConf) /\ Real(o, FreeConf)
<1>1. ASSUME NEW p \in payments PROVE Real(p.o, GatewayConf(p)) /\ p.o \in Orders
  <2>1. p \in [o : Orders, m : Methods, amt : Int, cb : Callbacks]
    BY DEF Core, TypeOK, Payments
  <2>2. p = [o |-> p.o, m |-> p.m, amt |-> p.amt, cb |-> p.cb]
    BY <2>1
  <2>3. /\ GatewayConf(p).m = p.m /\ GatewayConf(p).amt = p.amt /\ GatewayConf(p).cb = p.cb
        /\ ~GatewayConf(p).manual
    BY DEF GatewayConf
  <2>4. p.o \in Orders /\ p.m \in Methods /\ p.amt \in Int
    BY <2>1
  <2> QED  BY <2>2, <2>3, <2>4 DEF Real
<1>2. \A o \in Orders : Real(o, ManualConf) /\ Real(o, FreeConf)
  BY NamesAssumption DEF Real, ManualConf, FreeConf
<1> QED  BY <1>1, <1>2

(* Marking an attempt row touches nothing but its outcome.                  *)
LEMMA MarkedRows ==
    ASSUME Core, NEW o \in Orders, NEW m \in Methods, NEW st, NEW cb,
           attempt' = MarkAttempt(o, m, st, cb)
    PROVE  /\ attempt'[o][m].status = st /\ attempt'[o][m].cb = cb
           /\ attempt'[o][m].amt = attempt[o][m].amt /\ attempt'[o][m].hand = attempt[o][m].hand
           /\ attempt'[o][m].claim = attempt[o][m].claim
           /\ \A n \in Methods \ {m} : attempt'[o][n] = attempt[o][n]
           /\ \A x \in Orders \ {o} : attempt'[x] = attempt[x]
<1> DEFINE r == attempt[o][m]
<1>1. attempt' = [attempt EXCEPT ![o][m] = [r EXCEPT !.status = st, !.cb = cb]]
  BY DEF MarkAttempt
<1>2. attempt \in [Orders -> [Methods -> AttemptRows]] /\ r \in AttemptRows
  BY DEF Core, TypeOK
<1>3. /\ [r EXCEPT !.status = st, !.cb = cb].status = st /\ [r EXCEPT !.status = st, !.cb = cb].cb = cb
      /\ [r EXCEPT !.status = st, !.cb = cb].amt = r.amt
      /\ [r EXCEPT !.status = st, !.cb = cb].hand = r.hand
      /\ [r EXCEPT !.status = st, !.cb = cb].claim = r.claim
  BY <1>2 DEF AttemptRows
<1> QED  BY <1>1, <1>2, <1>3

(* Opening o leaves the other orders as the invariant sees them: those folded
   into it have been opened themselves.                                     *)
LEMMA OpenOthers ==
    ASSUME Core, NEW o \in Orders, NEW cb, NEW taken, openOrder(o, cb, taken),
           payments' = payments, draft' = draft,
           \A x \in Orders \ {o} : /\ attempt'[x] = attempt[x] /\ checkout'[x] = checkout[x]
                                   /\ recovery'[x] = recovery[x]
    PROVE  /\ Grows /\ opens'[o] > 0 /\ status'[o] = "done" /\ callback'[o] = cb
           /\ \A x \in Orders \ {o} : RowLeft(x)
<1>1. opens \in [Orders -> Nat] /\ opens' = [opens EXCEPT ![o] = @ + 1]
  BY DEF Core, TypeOK, openOrder
<1>2. opens'[o] = opens[o] + 1 /\ \A x \in Orders \ {o} : opens'[x] = opens[x]
  BY <1>1
<1>3. opens'[o] > 0 /\ Grows
  BY <1>1, <1>2 DEF Grows
<1>4. callback'[o] = cb /\ \A x \in Orders \ {o} : callback'[x] = callback[x]
  BY DEF Core, TypeOK, openOrder
<1>5. /\ status'[o] = "done"
      /\ \A x \in Orders \ {o} : status'[x] = status[x] \/ (status'[x] = "closed" /\ x \in Folded(o))
  BY DEF openOrder
<1>6. Folded(o) \subseteq draft[o].surplus
  BY DEF Folded
<1>7. ASSUME NEW x \in Orders \ {o} PROVE RowLeft(x)
  <2>1. x \in Folded(o) => opens[x] > 0 /\ status[x] # "absent"
    BY <1>6 DEF Core, RowInv, Kept, OpenedOnly
  <2>2. RowInv(x)
    BY DEF Core
  <2> QED  BY <1>2, <1>4, <1>5, <2>1, <2>2 DEF RowLeft, Past, RowInv, Kept
<1> QED  BY <1>3, <1>4, <1>5, <1>7

LEMMA SettleRows ==
    ASSUME Core, NEW o \in Orders, NEW conf, Real(o, conf), payments' = payments, Settle(o, conf)
    PROVE  /\ RowsStay /\ AskedStays
           /\ status'[o] = "done" /\ \A x \in Orders \ {o} : attempt'[x] = attempt[x]
           /\ conf.cb \in Callbacks => checkout'[o].pm = conf.m
<1>1. /\ attempt' = IF Found(o, conf) THEN MarkAttempt(o, conf.m, "winner", conf.cb) ELSE attempt
      /\ checkout' = [checkout EXCEPT ![o] = Rebound(o, conf)]
      /\ recovery' = [recovery EXCEPT ![o] = FALSE] /\ draft' = draft
      /\ openOrder(o, conf.cb, Retaken(o))
      /\ Found(o, conf) => ConfirmsAttempt(o, conf)
      /\ ConfirmsCurrent(o, conf) \/ Found(o, conf)
      /\ status[o] \in {"pending", "cancelled"} /\ MayRecover(o, conf)
  BY DEF Settle
<1>2. /\ checkout'[o] = Rebound(o, conf) /\ ~recovery'[o] /\ draft[o].total \in Int
      /\ \A x \in Orders \ {o} : checkout'[x] = checkout[x] /\ recovery'[x] = recovery[x]
  BY <1>1 DEF Core, TypeOK, Drafts
<1>3. conf.m = None => ~Found(o, conf)
  BY DEF Found, AttemptOf, NoAttempt
<1>4. \A x \in Orders \ {o} : attempt'[x] = attempt[x]
  BY <1>1, <1>3, MarkedRows DEF Real
<1>5. /\ Grows /\ opens'[o] > 0 /\ status'[o] = "done" /\ callback'[o] = conf.cb
      /\ \A x \in Orders \ {o} : RowLeft(x)
  BY <1>1, <1>2, <1>4, OpenOthers
<1>6. RowInv(o)
  BY DEF Core
<1>7. Won(o)' /\ Paid(o)' /\ (conf.cb \in Callbacks => checkout'[o].pm = conf.m)
  <2>1. CASE conf.m = None /\ conf.cb \notin Callbacks
    <3>1. attempt' = attempt /\ checkout'[o] = checkout[o]
      BY <1>1, <1>2, <1>3, <2>1 DEF Rebound
    <3>2. Won(o)'
      BY <1>2, <1>5, <1>6, <3>1 DEF Won, RowInv
    <3>3. Paid(o)'
      BY <1>5, <1>6, <2>1, <3>1 DEF Paid, RowInv, Grows
    <3> QED  BY <2>1, <3>2, <3>3
  <2>2. CASE /\ conf.m \in Methods /\ ~conf.manual
             /\ [o |-> o, m |-> conf.m, amt |-> conf.amt, cb |-> conf.cb] \in payments
    <3> DEFINE r == attempt[o][conf.m]
    <3>1. conf.m # None /\ AttemptOf(o, conf) = r
      BY <2>2, NamesAssumption DEF AttemptOf
    <3>2. \A m \in Methods : attempt[o][m].status # "winner"
      BY <1>1, <1>6, <2>2 DEF Won, RowInv, MayRecover
    <3>3. Found(o, conf) => r.amt = conf.amt /\ draft[o].total + r.hand = conf.amt
      BY <1>1, <2>2, <3>1 DEF ConfirmsAttempt, Confirms
    <3>4. ConfirmsCurrent(o, conf) =>
            checkout[o].pm = conf.m /\ draft[o].total + checkout[o].hand = conf.amt
      BY <2>2, <3>1 DEF ConfirmsCurrent, Confirms
    <3>5. checkout'[o].pm = conf.m /\ draft[o].total + checkout'[o].hand = conf.amt
      <4>1. CASE ConfirmsCurrent(o, conf)
        BY <1>2, <3>4, <4>1 DEF Rebound
      <4>2. CASE ~ConfirmsCurrent(o, conf)
        <5>1. checkout'[o] = [checkout[o] EXCEPT !.pm = conf.m, !.hand = r.hand]
          BY <1>2, <3>1, <4>2 DEF Rebound
        <5>2. checkout[o] \in CheckoutRows
          BY DEF Core, TypeOK
        <5>3. checkout'[o].pm = conf.m /\ checkout'[o].hand = r.hand
          BY <5>1, <5>2 DEF CheckoutRows
        <5> QED  BY <1>1, <3>3, <4>2, <5>3
      <4> QED  BY <4>1, <4>2
    <3>6. /\ \A m \in Methods \ {conf.m} : attempt'[o][m] = attempt[o][m]
          /\ attempt'[o][conf.m].amt = r.amt
          /\ \/ attempt'[o][conf.m].cb = conf.cb /\ Found(o, conf)
             \/ attempt'[o][conf.m].cb = r.cb
      BY <1>1, <2>2, MarkedRows
    <3>7. Won(o)'
      BY <1>2, <1>5, <3>2, <3>5, <3>6 DEF Won
    <3>8. Paid(o)'
      <4>1. [o |-> o, m |-> checkout'[o].pm, amt |-> draft'[o].total + checkout'[o].hand,
             cb |-> callback'[o]] \in payments'
        BY <1>1, <1>5, <2>2, <3>5
      <4>2. ASSUME NEW m \in Methods, attempt'[o][m].cb \in Callbacks
            PROVE  [o |-> o, m |-> m, amt |-> attempt'[o][m].amt, cb |-> attempt'[o][m].cb]
                     \in payments'
        BY <1>6, <2>2, <3>3, <3>6, <4>2 DEF RowInv, Paid
      <4> QED  BY <4>1, <4>2 DEF Paid
    <3> QED  BY <3>5, <3>7, <3>8
  <2> QED  BY <2>1, <2>2 DEF Real
<1>8. RowInv(o)'
  <2>1. draft[o].surplus \subseteq Orders
    BY DEF Core, TypeOK, Drafts
  <2>2. Kept(o)'
    BY <1>1, <1>5, <1>6, <2>1 DEF RowInv, Kept, Grows
  <2> QED  BY <1>5, <1>7, <2>2 DEF RowInv, Blank, Open
<1>9. \A m \in Methods, v \in Int : Asked(o, m, v) => Asked(o, m, v)'
  BY <1>5 DEF Asked
<1> QED  BY <1>4, <1>5, <1>7, <1>8, <1>9, OneWritten

(* A payment recorded on an order that is settled already: as a duplicate, or as
   the number an older runtime did not store.                               *)
LEMMA RecordRows ==
    ASSUME Core, NEW o \in Orders, NEW conf, Real(o, conf), payments' = payments,
           RecordDuplicate(o, conf) \/ RepairCallback(o, conf)
    PROVE  /\ RowsStay /\ AskedStays
           /\ status' = status /\ status[o] \in Settled
           /\ \A x \in Orders \ {o} : attempt'[x] = attempt[x]
<1> DEFINE m == conf.m
           r == attempt[o][m]
<1>1. /\ status' = status /\ draft' = draft /\ checkout' = checkout /\ recovery' = recovery
      /\ opens' = opens /\ status[o] \in Settled
  BY DEF RecordDuplicate, RepairCallback
<1>2. /\ m \in Methods /\ ~conf.manual /\ m # None
      /\ [o |-> o, m |-> m, amt |-> conf.amt, cb |-> conf.cb] \in payments
  BY NamesAssumption DEF Real, RecordDuplicate, RepairCallback, Found, AttemptOf, NoAttempt
<1>3. AttemptOf(o, conf) = r
  BY <1>2 DEF AttemptOf
<1>4. Found(o, conf) => r.amt = conf.amt
  BY <1>3 DEF RecordDuplicate, RepairCallback, ConfirmsAttempt
<1>5. PICK st \in {"winner", "duplicate"} :
        /\ \/ attempt' = MarkAttempt(o, m, st, conf.cb) /\ r.amt = conf.amt
           \/ attempt' = attempt
        /\ st = "winner" => /\ checkout[o].pm = m /\ draft[o].total + checkout[o].hand = conf.amt
                            /\ callback' = [callback EXCEPT ![o] = conf.cb]
        /\ st = "duplicate" => callback' = callback
  <2>1. CASE RecordDuplicate(o, conf)
    BY <1>4, <2>1 DEF RecordDuplicate
  <2>2. CASE RepairCallback(o, conf)
    BY <1>2, <1>4, <2>2 DEF RepairCallback, ConfirmsCurrent, Confirms
  <2> QED  BY <2>1, <2>2
<1>6. Grows
  BY <1>1 DEF Grows
<1>7. /\ \A n \in Methods \ {m} : attempt'[o][n] = attempt[o][n]
      /\ attempt'[o][m].amt = r.amt
      /\ \/ attempt'[o][m].status = st /\ attempt'[o][m].cb = conf.cb /\ r.amt = conf.amt
         \/ attempt'[o][m] = r
      /\ \A x \in Orders \ {o} : attempt'[x] = attempt[x]
  BY <1>2, <1>5, MarkedRows
<1>8. \A x \in Orders \ {o} : callback'[x] = callback[x]
  BY <1>5 DEF Core, TypeOK
<1>9. ASSUME NEW x \in Orders \ {o} PROVE RowLeft(x)
  <2>1. SameRow(x) /\ RowInv(x)
    BY <1>1, <1>7, <1>8 DEF SameRow, Core
  <2> QED  BY <1>1, <1>6, <2>1, SameLeft
<1>10. RowInv(o) /\ ~recovery[o] /\ status[o] \notin {"absent", "pending"}
  BY <1>1, SettledSealed DEF Core, Settled
<1>11. Won(o)'
  BY <1>1, <1>5, <1>7, <1>10 DEF RowInv, Won
<1>12. Paid(o)'
  <2>1. ASSUME NEW n \in Methods, attempt'[o][n].cb \in Callbacks
        PROVE  [o |-> o, m |-> n, amt |-> attempt'[o][n].amt, cb |-> attempt'[o][n].cb] \in payments'
    BY <1>2, <1>7, <1>10, <2>1 DEF RowInv, Paid
  <2>2. CASE st = "winner"
    <3>1. callback'[o] = conf.cb
      BY <1>5, <2>2 DEF Core, TypeOK
    <3> QED  BY <1>1, <1>2, <1>5, <2>1, <2>2, <3>1 DEF Paid
  <2>3. CASE st = "duplicate"
    BY <1>1, <1>5, <1>10, <2>1, <2>3 DEF RowInv, Paid
  <2> QED  BY <2>2, <2>3
<1>13. RowInv(o)'
  BY <1>1, <1>10, <1>11, <1>12 DEF RowInv, Blank, Open, Kept
<1>14. \A n \in Methods, v \in Int : Asked(o, n, v) => Asked(o, n, v)'
  BY <1>1, <1>10 DEF Asked
<1> QED  BY <1>1, <1>6, <1>7, <1>9, <1>13, <1>14, OneWritten

(* Cancellation, the sweep, the refund and the recovery window leave every row
   as the invariant sees it.                                                *)
LEMMA ManageRows ==
    ASSUME Core, NEW o \in Orders,
           CancelOrder(o) \/ handleQueuedOrder(o) \/ RefundManagedOrder(o) \/ RecoveryExpires(o)
    PROVE  /\ Grows /\ attempt' = attempt /\ checkout' = checkout /\ \A x \in Orders : RowLeft(x)
<1>0. /\ status \in [Orders -> Statuses] /\ recovery \in [Orders -> BOOLEAN]
      /\ callback \in [Orders -> Marks] /\ opens \in [Orders -> Nat]
      /\ \A x \in Orders : RowInv(x)
  BY DEF Core, TypeOK
<1>1. ASSUME NEW recover, giveBack(o, recover), status[o] = "pending" \/ ~recover,
             status[o] \in {"pending", "paid"}
      PROVE  Grows /\ attempt' = attempt /\ checkout' = checkout /\ \A x \in Orders : RowLeft(x)
  <2>1. /\ draft' = draft /\ checkout' = checkout /\ callback' = callback /\ attempt' = attempt
        /\ opens' = opens /\ payments' = payments
    BY <1>1 DEF giveBack, worldVars
  <2>2. /\ status'[o] = "cancelled" /\ (recovery'[o] => recovery[o] \/ recover)
        /\ \A x \in Orders \ {o} : status'[x] = status[x] /\ recovery'[x] = recovery[x]
    BY <1>0, <1>1 DEF giveBack
  <2>3. \A x \in Orders : RowLeft(x)
    BY <1>0, <1>1, <2>1, <2>2 DEF RowLeft, Past, RowInv, Kept
  <2> QED  BY <2>1, <2>3 DEF Grows
<1>2. CASE CancelOrder(o) \/ AutoCancel(o) \/ QuarantinePaidPending(o)
  BY <1>1, <1>2 DEF CancelOrder, AutoCancel, QuarantinePaidPending
<1>3. CASE OpenPaidPending(o)
  <2> DEFINE cb == IF callback[o] = None THEN TradeNo ELSE callback[o]
  <2>1. /\ openOrder(o, cb, 0) /\ status[o] = "paid" /\ draft' = draft /\ checkout' = checkout
        /\ attempt' = attempt /\ recovery' = recovery /\ payments' = payments
    BY <1>3 DEF OpenPaidPending, worldVars
  <2>2. /\ Grows /\ opens'[o] > 0 /\ status'[o] = "done" /\ callback'[o] = cb
        /\ \A x \in Orders \ {o} : RowLeft(x)
    BY <2>1, OpenOthers
  <2>3. cb = callback[o] \/ cb \notin Callbacks
    BY NamesAssumption
  <2>4. RowLeft(o)
    BY <2>1, <2>2, <2>3 DEF RowLeft, Past
  <2> QED  BY <2>1, <2>2, <2>4
<1>4. CASE RefundManagedOrder(o)
  <2>1. /\ draft' = draft /\ checkout' = checkout /\ callback' = callback /\ attempt' = attempt
        /\ recovery' = recovery /\ opens' = opens /\ payments' = payments /\ status[o] = "done"
    BY <1>4 DEF RefundManagedOrder, worldVars
  <2>2. \A x \in Orders : \/ status'[x] = status[x]
                          \/ x = o /\ status'[x] = "cancelled"
                          \/ status[x] = "closed" /\ status'[x] = "done"
    BY <1>4 DEF RefundManagedOrder
  <2>3. \A x \in Orders : RowLeft(x)
    BY <1>0, <2>1, <2>2 DEF RowLeft, Past, RowInv, Kept
  <2> QED  BY <2>1, <2>3 DEF Grows
<1>5. CASE RecoveryExpires(o)
  <2>1. /\ draft' = draft /\ checkout' = checkout /\ callback' = callback /\ attempt' = attempt
        /\ status' = status /\ opens' = opens /\ payments' = payments
        /\ recovery' = [recovery EXCEPT ![o] = FALSE]
    BY <1>5 DEF RecoveryExpires, worldVars
  <2>2. \A x \in Orders : recovery'[x] => recovery[x]
    BY <1>0, <2>1
  <2>3. Grows
    BY <2>1 DEF Grows
  <2>4. \A x \in Orders : RowLeft(x)
    BY <1>0, <2>1, <2>2, <2>3, SameLeft DEF SameRow
  <2> QED  BY <2>1, <2>3, <2>4
<1> QED  BY <1>2, <1>3, <1>4, <1>5 DEF handleQueuedOrder

(* Transaction numbers: no step but a settlement stores one, and a settlement
   stores one that no other order has.                                      *)
NothingPaid ==
    \A x \in Orders, m \in Methods, cb \in Callbacks : PaidWith(x, m, cb)' => PaidWith(x, m, cb)

LEMMA NothingPaidOnce ==
    ASSUME CallbackOnce, NothingPaid
    PROVE  CallbackOnce'
BY DEF CallbackOnce, NothingPaid

LEMMA OnePaidOnce ==
    ASSUME CallbackOnce, NEW o \in Orders, NEW conf, CallbackUnused(o, conf), conf.m # None,
           \A x \in Orders, m \in Methods, cb \in Callbacks :
               PaidWith(x, m, cb)' => PaidWith(x, m, cb) \/ (x = o /\ m = conf.m /\ cb = conf.cb)
    PROVE  CallbackOnce'
<1>1. \A x \in Orders \ {o} : ~PaidWith(x, conf.m, conf.cb)
  BY DEF CallbackUnused, PaidWith
<1> QED  BY <1>1 DEF CallbackOnce

(* No claim comes to a pending order from elsewhere.                        *)
PendingClaims ==
    \A x \in Orders, m \in Methods, s \in Sessions :
        status'[x] = "pending" /\ attempt'[x][m].claim = s =>
            status[x] = "pending" /\ attempt[x][m].claim = s

Quiet == RowsStay /\ AskedStays /\ PendingClaims /\ CallbackOnce'

LEMMA ConfirmQuiet ==
    ASSUME Core, CallbackOnce, NEW o \in Orders, NEW conf, Real(o, conf), payments' = payments,
           MarkOrderPaid(o, conf)
    PROVE  Quiet
<1>1. /\ RowsStay /\ AskedStays /\ status'[o] \in Settled
      /\ \A x \in Orders \ {o} : attempt'[x] = attempt[x]
      /\ \A x \in Orders \ {o} : status'[x] \in {status[x], "closed"}
  <2>1. CASE Settle(o, conf)
    BY <2>1, SettleRows DEF Settle, openOrder, Settled
  <2>2. CASE RecordDuplicate(o, conf) \/ RepairCallback(o, conf)
    BY <2>2, RecordRows
  <2> QED  BY <2>1, <2>2 DEF MarkOrderPaid
<1>2. PendingClaims
  BY <1>1 DEF PendingClaims, Settled
<1>3. CASE conf.cb \in Callbacks
  <2>1. conf.m \in Methods /\ conf.m # None /\ CallbackUnused(o, conf)
    BY <1>3, NamesAssumption DEF Real, MarkOrderPaid, Settle, RecordDuplicate, RepairCallback
  <2>2. \A x \in Orders \ {o} : checkout'[x] = checkout[x] /\ callback'[x] = callback[x]
    BY DEF Core, TypeOK, MarkOrderPaid, Settle, RecordDuplicate, RepairCallback, openOrder
  <2>3. \/ /\ callback'[o] = conf.cb /\ checkout'[o].pm = conf.m
        \/ /\ callback'[o] = callback[o] /\ checkout'[o].pm = checkout[o].pm
    <3>1. CASE Settle(o, conf)
      BY <1>3, <3>1, SettleRows DEF Settle, openOrder, Core, TypeOK
    <3>2. CASE RecordDuplicate(o, conf)
      BY <3>2 DEF RecordDuplicate
    <3>3. CASE RepairCallback(o, conf)
      <4>1. checkout' = checkout /\ callback'[o] = conf.cb /\ ConfirmsCurrent(o, conf)
        BY <3>3 DEF RepairCallback, Core, TypeOK
      <4>2. checkout[o].pm = conf.m
        BY <2>1, <4>1 DEF ConfirmsCurrent, Confirms, Real
      <4> QED  BY <4>1, <4>2
    <3> QED  BY <3>1, <3>2, <3>3 DEF MarkOrderPaid
  <2>4. \A m \in Methods : \/ attempt'[o][m].cb = attempt[o][m].cb
                           \/ (m = conf.m /\ attempt'[o][m].cb = conf.cb)
    <3>1. \/ attempt' = attempt
          \/ \E st : attempt' = MarkAttempt(o, conf.m, st, conf.cb)
      BY DEF MarkOrderPaid, Settle, RecordDuplicate, RepairCallback
    <3> QED  BY <2>1, <3>1, MarkedRows
  <2>5. \A x \in Orders, m \in Methods, cb \in Callbacks :
            PaidWith(x, m, cb)' => PaidWith(x, m, cb) \/ (x = o /\ m = conf.m /\ cb = conf.cb)
    BY <1>1, <2>2, <2>3, <2>4 DEF PaidWith
  <2>6. CallbackOnce'
    BY <2>1, <2>5, OnePaidOnce
  <2> QED  BY <1>1, <1>2, <2>6 DEF Quiet
<1>4. CASE conf.cb \notin Callbacks
  <2>1. conf.m = None
    BY <1>4 DEF Real, Core, TypeOK, Payments
  <2>2. ~Found(o, conf)
    BY <2>1 DEF Found, AttemptOf, NoAttempt
  <2>3. Settle(o, conf) /\ attempt' = attempt /\ ConfirmsCurrent(o, conf)
    BY <2>1, <2>2 DEF MarkOrderPaid, Settle, RecordDuplicate, RepairCallback
  <2>4. checkout' = checkout
    BY <2>3 DEF Settle, Rebound, Core, TypeOK
  <2>5. callback'[o] = conf.cb /\ \A x \in Orders \ {o} : callback'[x] = callback[x]
    BY <2>3 DEF Settle, openOrder, Core, TypeOK
  <2>6. NothingPaid
    BY <1>4, <2>3, <2>4, <2>5 DEF NothingPaid, PaidWith
  <2> QED  BY <1>1, <1>2, <2>6, NothingPaidOnce DEF Quiet
<1> QED  BY <1>3, <1>4

(* The steps without a checkout request.                                    *)
LEMMA TableQuiet ==
    ASSUME Core, CallbackOnce, NEW o \in Orders,
           \/ \E u \in Users : Create(o, u)
           \/ \E m \in Methods : selectCachedPaymentAttempt(o, m)
           \/ CancelOrder(o) \/ handleQueuedOrder(o) \/ Admin(o) \/ Time(o)
    PROVE  Quiet
<1>0. \A x \in Orders : RowInv(x)
  BY DEF Core
<1>1. ASSUME NEW u \in Users, Create(o, u) PROVE Quiet
  <2>1. /\ status[o] = "absent" /\ status' = [status EXCEPT ![o] = "pending"]
        /\ checkout' = checkout /\ callback' = callback /\ attempt' = attempt
    BY <1>1 DEF Create, SaveOrder, AssignAdminOrder, saveDepositOrder, insertOrder, NextId
  <2>2. NothingPaid
    BY <2>1 DEF NothingPaid, PaidWith
  <2>3. \A m \in Methods : attempt[o][m].claim = None
    BY <1>0, <2>1 DEF RowInv, Blank, NoAttempt
  <2>4. PendingClaims
    BY <2>1, <2>3, NamesAssumption DEF PendingClaims, Core, TypeOK
  <2> QED  BY <1>1, <2>2, <2>4, CreateRows, NothingPaidOnce DEF Quiet
<1>2. ASSUME NEW m \in Methods, selectCachedPaymentAttempt(o, m) PROVE Quiet
  <2>1. /\ RowsStay /\ AskedStays
        /\ \A n \in Methods : attempt'[o][n].claim = None
        /\ \A x \in Orders \ {o} : attempt'[x] = attempt[x]
    BY <1>2, CachedRows
  <2>2. /\ status' = status /\ status[o] = "pending" /\ callback' = callback
        /\ \A x \in Orders \ {o} : checkout'[x] = checkout[x]
    BY <1>2 DEF selectCachedPaymentAttempt, Core, TypeOK
  <2>3. PendingClaims
    BY <2>1, <2>2, NamesAssumption DEF PendingClaims
  <2>4. Open(o)'
    BY <2>1 DEF RowsStay, RowInv
  <2>5. callback'[o] = None /\ \A n \in Methods : attempt'[o][n].cb = None
    BY <2>2, <2>4 DEF Open, OpenRow
  <2>6. NothingPaid
    BY <2>1, <2>2, <2>5, NamesAssumption DEF NothingPaid, PaidWith
  <2> QED  BY <2>1, <2>3, <2>6, NothingPaidOnce DEF Quiet
<1>3. CASE CancelOrder(o) \/ handleQueuedOrder(o) \/ RefundManagedOrder(o) \/ RecoveryExpires(o)
  <2>1. /\ Grows /\ attempt' = attempt /\ checkout' = checkout /\ \A x \in Orders : RowLeft(x)
    BY <1>3, ManageRows
  <2>2. NothingPaid
    BY <2>1 DEF NothingPaid, PaidWith, RowLeft
  <2>3. PendingClaims
    BY <2>1 DEF PendingClaims, RowLeft, Past
  <2> QED  BY <2>1, <2>2, <2>3, AllLeft, NothingPaidOnce DEF Quiet
<1>4. CASE AdminMarkOrderPaid(o)
  BY <1>4, RealConfs, ConfirmQuiet DEF AdminMarkOrderPaid, MarkOrderPaid
<1>5. CASE ClaimExpires(o) \/ \E m \in Methods : AttemptClaimExpires(o, m)
  <2>1. RowsStay /\ AskedStays /\ ChannelsStay /\ status' = status
    BY <1>5, ClaimExpireRows, ExpireRows DEF ClaimExpires, AttemptClaimExpires
  <2>2. NothingPaid
    BY <2>1 DEF NothingPaid, PaidWith, ChannelsStay
  <2>3. PendingClaims
    BY <2>1, NamesAssumption DEF PendingClaims, ChannelsStay
  <2> QED  BY <2>1, <2>2, <2>3, NothingPaidOnce DEF Quiet
<1>6. CASE AdminCheck(o) \/ Ages(o)
  <2>1. UNCHANGED orderVars /\ payments' = payments
    BY <1>6 DEF AdminCheck, Ages
  <2>2. Grows /\ \A x \in Orders : RowLeft(x)
    BY <1>0, <2>1, SameLeft DEF Grows, SameRow, orderVars
  <2>3. NothingPaid /\ PendingClaims
    BY <2>1 DEF NothingPaid, PaidWith, PendingClaims, orderVars
  <2> QED  BY <2>2, <2>3, AllLeft, NothingPaidOnce DEF Quiet
<1> QED  BY <1>1, <1>2, <1>3, <1>4, <1>5, <1>6 DEF Admin, Time

(* What the requests in flight and the links rest on.                       *)
StillAsked(x, m, amt) ==
    /\ status'[x] # "absent"
    /\ status'[x] = "pending" => attempt'[x][m].status = "pending" /\ attempt'[x][m].amt = amt

RequestsInv == LinksAsked /\ SessionAsked /\ ClaimsOwned

LEMMA RequestsKept ==
    ASSUME Core, RequestsInv, AskedStays, PendingClaims,
           \A l \in links' : \/ l \in links
                             \/ \E s \in Sessions : /\ sess[s].pc \in InFlight
                                                    /\ l = [o |-> sess[s].o, m |-> sess[s].m,
                                                            amt |-> sess[s].amt],
           \A s \in Sessions : sess'[s].pc \in InFlight =>
               /\ sess[s].pc \in InFlight /\ sess'[s].o = sess[s].o
               /\ sess'[s].m = sess[s].m /\ sess'[s].amt = sess[s].amt,
           \A x \in Orders, m \in Methods, s \in Sessions :
               status[x] = "pending" /\ attempt'[x][m].claim = s /\ Owns(s, x, m) => Owns(s, x, m)'
    PROVE  RequestsInv'
<1>1. \A l \in links : l.o \in Orders /\ l.m \in Methods /\ l.amt \in Int
  BY DEF Core, TypeOK
<1>2. \A x \in Orders, m \in Methods, v \in Int : Asked(x, m, v) => StillAsked(x, m, v)
  BY DEF AskedStays, Asked, StillAsked
<1>3. ASSUME NEW s \in Sessions, sess[s].pc \in InFlight
      PROVE  StillAsked(sess[s].o, sess[s].m, sess[s].amt)
  <2>1. sess[s].o \in Orders /\ sess[s].m \in Methods /\ sess[s].amt \in Int
    BY <1>3, BusySession DEF InFlight
  <2> QED  BY <1>2, <1>3, <2>1 DEF RequestsInv, SessionAsked
<1>4. LinksAsked'
  <2>1. \A l \in links : StillAsked(l.o, l.m, l.amt)
    BY <1>1, <1>2 DEF RequestsInv, LinksAsked
  <2>2. \A l \in links' : StillAsked(l.o, l.m, l.amt)
    BY <1>3, <2>1
  <2> QED  BY <2>2 DEF LinksAsked, Asked, StillAsked
<1>5. SessionAsked'
  <2>1. ASSUME NEW s \in Sessions, sess'[s].pc \in InFlight
        PROVE  StillAsked(sess'[s].o, sess'[s].m, sess'[s].amt)
    BY <1>3, <2>1
  <2> QED  BY <2>1 DEF SessionAsked, Asked, StillAsked, InFlight
<1>6. ClaimsOwned'
  BY DEF RequestsInv, ClaimsOwned, PendingClaims
<1> QED  BY <1>4, <1>5, <1>6 DEF RequestsInv

LEMMA SessionSteps ==
    ASSUME Core, NEW s \in Sessions
    PROVE  /\ \A pc : Step(s, pc) =>
                /\ sess'[s].pc = pc /\ sess'[s].o = sess[s].o /\ sess'[s].m = sess[s].m
                /\ sess'[s].amt = sess[s].amt
                /\ \A t \in Sessions \ {s} : sess'[t] = sess[t]
           /\ Finish(s) => /\ sess'[s].pc = "end"
                           /\ \A t \in Sessions \ {s} : sess'[t] = sess[t]
<1> DEFINE r == sess[s]
<1>1. sess \in [Sessions -> SessionRows] /\ r \in SessionRows
  BY DEF Core, TypeOK
<1>2. ASSUME NEW pc
      PROVE  /\ [r EXCEPT !.pc = pc].pc = pc /\ [r EXCEPT !.pc = pc].o = r.o
             /\ [r EXCEPT !.pc = pc].m = r.m /\ [r EXCEPT !.pc = pc].amt = r.amt
  BY <1>1 DEF SessionRows, Idle
<1>3. [Idle EXCEPT !.pc = "end"].pc = "end"
  BY DEF Idle
<1>4. ASSUME NEW pc, Step(s, pc)
      PROVE  /\ sess'[s].pc = pc /\ sess'[s].o = sess[s].o /\ sess'[s].m = sess[s].m
             /\ sess'[s].amt = sess[s].amt
             /\ \A t \in Sessions \ {s} : sess'[t] = sess[t]
  <2>1. sess' = [sess EXCEPT ![s] = [r EXCEPT !.pc = pc]]
    BY <1>4 DEF Step
  <2>2. sess'[s] = [r EXCEPT !.pc = pc] /\ \A t \in Sessions \ {s} : sess'[t] = sess[t]
    BY <1>1, <2>1
  <2> QED  BY <1>2, <2>2
<1>5. Finish(s) => /\ sess'[s].pc = "end" /\ \A t \in Sessions \ {s} : sess'[t] = sess[t]
  BY <1>1, <1>3 DEF Finish
<1> QED  BY <1>4, <1>5

(* A request's own bookkeeping.                                             *)
LEMMA SessionKept ==
    ASSUME Core, RequestsInv, AskedStays, PendingClaims, NEW s \in Sessions,
           \A t \in Sessions \ {s} : sess'[t] = sess[t],
           sess'[s].pc \notin InFlight, links' = links,
           \/ sess'[s].pc = "end"
           \/ \A x \in Orders, m \in Methods :
                  status[x] = "pending" /\ attempt'[x][m].claim = s => ~Owns(s, x, m)
    PROVE  RequestsInv'
BY RequestsKept DEF Owns

LEMMA StillQuiet ==
    ASSUME Core, CallbackOnce, UNCHANGED orderVars, payments \subseteq payments'
    PROVE  Quiet
<1>1. /\ status' = status /\ draft' = draft /\ checkout' = checkout /\ callback' = callback
      /\ attempt' = attempt /\ recovery' = recovery /\ opens' = opens
  BY DEF orderVars
<1>2. Grows /\ \A x \in Orders : RowLeft(x)
  BY <1>1, SameLeft DEF Grows, SameRow, Core
<1>3. NothingPaid /\ PendingClaims
  BY <1>1 DEF NothingPaid, PaidWith, PendingClaims
<1> QED  BY <1>2, <1>3, AllLeft, NothingPaidOnce DEF Quiet

LEMMA ChannelsQuiet ==
    ASSUME RowsStay, AskedStays, ChannelsStay, CallbackOnce, status' = status
    PROVE  Quiet
<1>1. NothingPaid
  BY DEF NothingPaid, PaidWith, ChannelsStay
<1>2. PendingClaims
  BY NamesAssumption DEF PendingClaims, ChannelsStay
<1> QED  BY <1>1, <1>2, NothingPaidOnce DEF Quiet

LEMMA ClaimQuiet ==
    ASSUME Core, CallbackOnce, RequestsInv, NEW s \in Sessions, NEW o \in Orders,
           NEW m \in Methods, CheckoutClaim(s, o, m)
    PROVE  RowsStay /\ CallbackOnce' /\ RequestsInv'
<1>1. /\ RowsStay /\ AskedStays
      /\ status'[o] = "pending" /\ attempt'[o][m].claim = s
      /\ \A n \in Methods \ {m} : attempt'[o][n].claim = None
      /\ attempt'[o][m].status = "pending" /\ attempt'[o][m].amt = sess'[s].amt
      /\ \A x \in Orders \ {o} : attempt'[x] = attempt[x]
  BY ClaimRows
<1>2. /\ status' = status /\ callback' = callback /\ links' = links /\ sess[s].pc = "idle"
      /\ \A x \in Orders \ {o} : checkout'[x] = checkout[x]
      /\ sess'[s].pc = "calling" /\ sess'[s].o = o /\ sess'[s].m = m
      /\ \A t \in Sessions \ {s} : sess'[t] = sess[t]
  BY DEF CheckoutClaim, Core, TypeOK
<1>3. Open(o)'
  BY <1>1 DEF RowsStay, RowInv
<1>4. callback'[o] = None /\ \A n \in Methods : attempt'[o][n].cb = None
  BY <1>1, <1>3 DEF Open, OpenRow
<1>5. NothingPaid
  BY <1>1, <1>2, <1>4, NamesAssumption DEF NothingPaid, PaidWith
<1>6. \A x \in Orders, n \in Methods, v \in Int : Asked(x, n, v) => StillAsked(x, n, v)
  BY <1>1 DEF AskedStays, Asked, StillAsked
<1>7. LinksAsked'
  <2>1. \A l \in links : l.o \in Orders /\ l.m \in Methods /\ l.amt \in Int
    BY DEF Core, TypeOK
  <2>2. \A l \in links : StillAsked(l.o, l.m, l.amt)
    BY <1>6, <2>1 DEF RequestsInv, LinksAsked
  <2> QED  BY <1>2, <2>2 DEF LinksAsked, Asked, StillAsked
<1>8. SessionAsked'
  <2>1. StillAsked(sess'[s].o, sess'[s].m, sess'[s].amt)
    BY <1>1, <1>2 DEF StillAsked
  <2>2. ASSUME NEW t \in Sessions \ {s}, sess[t].pc \in InFlight
        PROVE  StillAsked(sess[t].o, sess[t].m, sess[t].amt)
    <3>1. sess[t].o \in Orders /\ sess[t].m \in Methods /\ sess[t].amt \in Int
      BY <2>2, BusySession DEF InFlight
    <3> QED  BY <1>6, <2>2, <3>1 DEF RequestsInv, SessionAsked
  <2>3. ASSUME NEW t \in Sessions, sess'[t].pc \in InFlight
        PROVE  StillAsked(sess'[t].o, sess'[t].m, sess'[t].amt)
    BY <1>2, <2>1, <2>2, <2>3
  <2> QED  BY <2>3 DEF SessionAsked, Asked, StillAsked, InFlight
<1>9. ClaimsOwned'
  <2>1. ASSUME NEW x \in Orders, NEW n \in Methods, NEW t \in Sessions,
               status'[x] = "pending", attempt'[x][n].claim = t
        PROVE  Owns(t, x, n)'
    <3>1. CASE x = o
      <4>1. n = m /\ t = s
        BY <1>1, <2>1, <3>1, NamesAssumption
      <4> QED  BY <1>2, <3>1, <4>1 DEF Owns, Owning
    <3>2. CASE x # o
      <4>1. Owns(t, x, n)
        BY <1>1, <1>2, <2>1, <3>2 DEF RequestsInv, ClaimsOwned
      <4>2. t # s
        BY <1>2, <4>1 DEF Owns, Owning
      <4> QED  BY <1>2, <4>1, <4>2 DEF Owns
    <3> QED  BY <3>1, <3>2
  <2> QED  BY <2>1 DEF ClaimsOwned
<1> QED  BY <1>1, <1>5, <1>7, <1>8, <1>9, NothingPaidOnce DEF RequestsInv

LEMMA RequestQuietly ==
    ASSUME Core, CallbackOnce, RequestsInv, NEW s \in Sessions, Request(s)
    PROVE  RowsStay /\ CallbackOnce' /\ RequestsInv'
<1>1. ASSUME NEW o \in Orders, CheckoutFree(s, o)
      PROVE  RowsStay /\ CallbackOnce' /\ RequestsInv'
  <2>1. Quiet
    BY <1>1, StillQuiet DEF CheckoutFree
  <2>2. /\ sess'[s].pc = "free" /\ \A t \in Sessions \ {s} : sess'[t] = sess[t]
        /\ sess[s].pc = "idle" /\ links' = links
    <3>1. sess' = [sess EXCEPT ![s] = [sess[s] EXCEPT !.pc = "free", !.o = o]] /\ sess[s].pc = "idle"
      BY <1>1 DEF CheckoutFree
    <3>2. sess \in [Sessions -> SessionRows] /\ sess[s] \in SessionRows
      BY DEF Core, TypeOK
    <3>3. [sess[s] EXCEPT !.pc = "free", !.o = o].pc = "free"
      BY <3>2 DEF SessionRows, Idle
    <3> QED  BY <1>1, <3>1, <3>2, <3>3 DEF CheckoutFree
  <2>3. \A x \in Orders, m \in Methods : ~Owns(s, x, m)
    BY <2>2 DEF Owns, Owning
  <2> QED  BY <2>1, <2>2, <2>3, SessionKept DEF Quiet, InFlight
<1>2. CASE GatewayAnswers(s) \/ GatewayFails(s)
  <2>1. Quiet
    BY <1>2, StillQuiet DEF GatewayAnswers, GatewayFails
  <2>2. /\ sess[s].pc = "calling" /\ attempt' = attempt
        /\ Step(s, "created") \/ Step(s, "releaseAttempt")
        /\ links' \subseteq links \cup {[o |-> sess[s].o, m |-> sess[s].m, amt |-> sess[s].amt]}
    BY <1>2 DEF GatewayAnswers, GatewayFails, orderVars
  <2>3. /\ sess'[s].pc \in {"created", "releaseAttempt"} /\ sess'[s].o = sess[s].o
        /\ sess'[s].m = sess[s].m /\ sess'[s].amt = sess[s].amt
        /\ \A t \in Sessions \ {s} : sess'[t] = sess[t]
    BY <2>2, SessionSteps
  <2>4. \A x \in Orders, m \in Methods, t \in Sessions : Owns(t, x, m) => Owns(t, x, m)'
    BY <2>2, <2>3 DEF Owns, Owning
  <2>5. RequestsInv'
    BY <2>1, <2>2, <2>3, <2>4, RequestsKept DEF Quiet, InFlight
  <2> QED  BY <2>1, <2>5 DEF Quiet
<1>3. CASE ReleaseAttempt(s)
  <2>1. /\ RowsStay /\ AskedStays /\ ChannelsStay
        /\ status[sess[s].o] = "pending" => attempt'[sess[s].o][sess[s].m].claim # s
    BY <1>3, ReleaseAttemptRows
  <2>2. /\ status' = status /\ links' = links /\ sess[s].pc = "releaseAttempt"
        /\ Step(s, "releaseOrder")
    BY <1>3 DEF ReleaseAttempt
  <2>3. sess'[s].pc = "releaseOrder" /\ \A t \in Sessions \ {s} : sess'[t] = sess[t]
    BY <2>2, SessionSteps
  <2>4. Quiet
    BY <2>1, <2>2, ChannelsQuiet
  <2>5. \A x \in Orders, m \in Methods :
            status[x] = "pending" /\ attempt'[x][m].claim = s => ~Owns(s, x, m)
    BY <2>1, <2>2 DEF Owns
  <2> QED  BY <2>2, <2>3, <2>4, <2>5, SessionKept DEF Quiet, InFlight
<1>4. CASE ReleaseOrder(s)
  <2>1. sess[s].pc = "releaseOrder" /\ status' = status /\ links' = links /\ Finish(s)
    BY <1>4 DEF ReleaseOrder
  <2>2. sess[s].o \in Orders
    BY <2>1, BusySession
  <2>3. status[sess[s].o] = "pending" => \A n \in Methods : attempt[sess[s].o][n].claim # s
    BY <2>1, <2>2 DEF RequestsInv, ClaimsOwned, Owns, Owning
  <2>4. RowsStay /\ AskedStays /\ ChannelsStay
    BY <1>4, <2>3, ReleaseOrderRows
  <2>5. Quiet
    BY <2>1, <2>4, ChannelsQuiet
  <2>6. sess'[s].pc = "end" /\ \A t \in Sessions \ {s} : sess'[t] = sess[t]
    BY <2>1, SessionSteps
  <2> QED  BY <2>1, <2>5, <2>6, SessionKept DEF Quiet, InFlight
<1>5. CASE persistCheckoutResult(s)
  <2>1. sess[s].pc = "created" /\ status' = status /\ links' = links /\ Finish(s)
    BY <1>5 DEF persistCheckoutResult
  <2>2. Asked(sess[s].o, sess[s].m, sess[s].amt)
    BY <2>1 DEF RequestsInv, SessionAsked, InFlight
  <2>3. RowsStay /\ AskedStays /\ ChannelsStay
    BY <1>5, <2>2, PersistRows
  <2>4. Quiet
    BY <2>1, <2>3, ChannelsQuiet
  <2>5. sess'[s].pc = "end" /\ \A t \in Sessions \ {s} : sess'[t] = sess[t]
    BY <2>1, SessionSteps
  <2> QED  BY <2>1, <2>4, <2>5, SessionKept DEF Quiet, InFlight
<1>6. CASE CheckoutFreePaid(s)
  <2>1. /\ sess[s].pc = "free" /\ Settle(sess[s].o, FreeConf) /\ Finish(s)
        /\ links' = links /\ payments' = payments
    BY <1>6 DEF CheckoutFreePaid
  <2>2. sess[s].o \in Orders
    BY <2>1 DEF Core, TypeOK, SessionRows, Idle
  <2>3. Quiet
    BY <2>1, <2>2, RealConfs, ConfirmQuiet DEF MarkOrderPaid
  <2>4. sess'[s].pc = "end" /\ \A t \in Sessions \ {s} : sess'[t] = sess[t]
    BY <2>1, SessionSteps
  <2> QED  BY <2>1, <2>3, <2>4, SessionKept DEF Quiet, InFlight
<1>7. CASE SessionLost(s)
  <2>1. Quiet
    BY <1>7, StillQuiet DEF SessionLost
  <2>2. Finish(s) /\ links' = links
    BY <1>7 DEF SessionLost
  <2>3. sess'[s].pc = "end" /\ \A t \in Sessions \ {s} : sess'[t] = sess[t]
    BY <2>2, SessionSteps
  <2> QED  BY <2>1, <2>2, <2>3, SessionKept DEF Quiet, InFlight
<1> QED  BY <1>1, <1>2, <1>3, <1>4, <1>5, <1>6, <1>7, ClaimQuiet DEF Request

(* A step that leaves the requests and the links alone.                     *)
LEMMA TablesKept ==
    ASSUME Core, RequestsInv, Quiet, sess' = sess, links' = links
    PROVE  RowsStay /\ CallbackOnce' /\ RequestsInv'
<1>1. \A s \in Sessions, x \in Orders, m \in Methods : Owns(s, x, m) => Owns(s, x, m)'
  BY DEF Owns
<1> QED  BY <1>1, RequestsKept DEF Quiet

PaymentRest == (\A o \in Orders : RowInv(o)) /\ RequestsInv /\ CallbackOnce

LEMMA InitPayment == Init => PaymentRest
<1> SUFFICES ASSUME Init PROVE PaymentRest
  OBVIOUS
<1>1. /\ callback = [o \in Orders |-> None] /\ recovery = [o \in Orders |-> FALSE]
      /\ sess = [s \in Sessions |-> Idle] /\ links = {} /\ opens = [o \in Orders |-> 0]
  BY DEF Init
<1>2. \A o \in Orders : status[o] \in {"absent", "paid"} /\ draft[o].surplus = {}
  <2>1. NoDraft.surplus = {}
    BY DEF NoDraft
  <2>2. ASSUME NEW d \in LegacyDrafts, NEW m \in Methods, LegacyRow(d, m)
        PROVE  \A o \in Orders : status[o] \in {"absent", "paid"} /\ draft[o].surplus = {}
    BY <2>1, <2>2, LegacyAssumption DEF LegacyRow
  <2> QED  BY <2>1, <2>2 DEF Init, EmptyTables
<1>3. ASSUME NEW o \in Orders
      PROVE  /\ status[o] = "absent" => /\ checkout[o] = NoCheckout
                                        /\ \A m \in Methods : attempt[o][m] = NoAttempt
             /\ \A m \in Methods : /\ attempt[o][m].cb = None
                                   /\ attempt[o][m].status = "winner" =>
                                        status[o] = "paid" /\ checkout[o].pm = m
  <2>1. NoAttempt.cb = None /\ NoAttempt.status = "absent"
    BY DEF NoAttempt
  <2>2. CASE EmptyTables
    BY <2>1, <2>2 DEF EmptyTables
  <2>3. ASSUME NEW d \in LegacyDrafts, NEW m \in Methods, LegacyRow(d, m)
        PROVE  /\ status[o] = "absent" => /\ checkout[o] = NoCheckout
                                          /\ \A n \in Methods : attempt[o][n] = NoAttempt
               /\ \A n \in Methods : /\ attempt[o][n].cb = None
                                     /\ attempt[o][n].status = "winner" =>
                                          status[o] = "paid" /\ checkout[o].pm = n
    <3> DEFINE won == [NoAttempt EXCEPT !.status = "winner", !.hand = Fee(m, 0),
                                        !.amt = d.total + Fee(m, 0)]
               sel == [NoCheckout EXCEPT !.pm = m, !.hand = Fee(m, 0)]
    <3>1. won.cb = None /\ sel.pm = m
      BY DEF NoAttempt, NoCheckout
    <3>2. /\ status[o] = IF o = 1 THEN "paid" ELSE "absent"
          /\ checkout[o] = IF o = 1 THEN sel ELSE NoCheckout
          /\ \A n \in Methods : /\ attempt[o][n] \in {won, NoAttempt}
                                /\ attempt[o][n] # NoAttempt => o = 1 /\ n = m
      BY <2>3 DEF LegacyRow
    <3> HIDE DEF won, sel
    <3> QED  BY <2>1, <3>1, <3>2
  <2> QED  BY <2>2, <2>3 DEF Init
<1>4. \A o \in Orders : Blank(o) /\ Open(o) /\ Won(o) /\ Paid(o) /\ Kept(o)
  BY <1>1, <1>2, <1>3, NamesAssumption DEF Blank, Open, Won, Paid, Kept
<1>5. RequestsInv
  BY <1>1, <1>2 DEF RequestsInv, LinksAsked, SessionAsked, ClaimsOwned, Idle, InFlight
<1>6. CallbackOnce
  BY <1>1, <1>3, NamesAssumption DEF CallbackOnce, PaidWith
<1> QED  BY <1>4, <1>5, <1>6 DEF PaymentRest, RowInv

LEMMA NextPayment == TypeOK /\ OpenedOnly /\ PaymentRest /\ [Next]_vars => PaymentRest'
<1> SUFFICES ASSUME TypeOK, OpenedOnly, PaymentRest, [Next]_vars PROVE PaymentRest'
  OBVIOUS
<1>0. Core /\ RequestsInv /\ CallbackOnce
  BY DEF Core, PaymentRest
<1> SUFFICES RowsStay /\ CallbackOnce' /\ RequestsInv'
  BY DEF PaymentRest, RowsStay
<1>1. ASSUME NEW o \in Orders,
             \/ \E u \in Users : Create(o, u)
             \/ \E m \in Methods : selectCachedPaymentAttempt(o, m)
             \/ CancelOrder(o) \/ handleQueuedOrder(o) \/ Admin(o) \/ Time(o)
      PROVE  RowsStay /\ CallbackOnce' /\ RequestsInv'
  <2>1. Quiet
    BY <1>0, <1>1, TableQuiet
  <2>2. UNCHANGED worldVars => sess' = sess /\ links' = links
    BY DEF worldVars
  <2>3. (\E u \in Users : Create(o, u)) => UNCHANGED worldVars
    BY DEF Create, SaveOrder, AssignAdminOrder, saveDepositOrder, insertOrder, worldVars
  <2>4. (\E m \in Methods : selectCachedPaymentAttempt(o, m)) => UNCHANGED worldVars
    BY DEF selectCachedPaymentAttempt
  <2>5. CancelOrder(o) \/ handleQueuedOrder(o) => UNCHANGED worldVars
    BY DEF CancelOrder, giveBack, handleQueuedOrder, AutoCancel, OpenPaidPending,
           QuarantinePaidPending, worldVars
  <2>6. Admin(o) => sess' = sess /\ links' = links
    BY DEF Admin, AdminCheck, AdminMarkOrderPaid, RefundManagedOrder, worldVars
  <2>7. Time(o) => sess' = sess /\ links' = links
    BY DEF Time, ClaimExpires, RecoveryExpires, Ages, AttemptClaimExpires, worldVars
  <2>8. sess' = sess /\ links' = links
    BY <1>1, <2>2, <2>3, <2>4, <2>5, <2>6, <2>7
  <2> QED  BY <1>0, <2>1, <2>8, TablesKept
<1>2. ASSUME NEW p \in payments, Notify(p)
      PROVE  RowsStay /\ CallbackOnce' /\ RequestsInv'
  <2>1. MarkOrderPaid(p.o, GatewayConf(p)) /\ payments' = payments /\ sess' = sess /\ links' = links
    BY <1>2 DEF Notify, worldVars
  <2>2. p.o \in Orders /\ Real(p.o, GatewayConf(p))
    BY <1>0, RealConfs
  <2>3. Quiet
    BY <1>0, <2>1, <2>2, ConfirmQuiet
  <2> QED  BY <1>0, <2>1, <2>3, TablesKept
<1>3. ASSUME UNCHANGED orderVars, payments \subseteq payments', sess' = sess, links' = links
      PROVE  RowsStay /\ CallbackOnce' /\ RequestsInv'
  BY <1>0, <1>3, StillQuiet, TablesKept
<1>4. CASE \E s \in Sessions : Request(s)
  BY <1>0, <1>4, RequestQuietly
<1>5. CASE UNCHANGED vars
  BY <1>3, <1>5 DEF vars, worldVars
<1>6. CASE \E m \in Methods : SavePayment(m)
  BY <1>3, <1>6 DEF SavePayment
<1>7. CASE \E l \in links, cb \in Callbacks : UserPays(l, cb)
  BY <1>3, <1>7 DEF UserPays
<1> QED  BY <1>1, <1>2, <1>4, <1>5, <1>6, <1>7 DEF Next

LEMMA PaymentInvHolds == Spec => [](TypeOK /\ PaymentRest)
BY InitPayment, NextPayment, TypeCorrect, OpenedOnlyHolds, PTL DEF Spec

(* At most one attempt of an order is the winner: a winner is of the channel
   the order is bound to, and an order with a winner is never rebound, because
   it neither waits for payment nor has a recovery window.                  *)
THEOREM OneWinnerHolds == Spec => []OneWinner
<1>1. PaymentRest => OneWinner
  BY DEF PaymentRest, RowInv, Won, OneWinner
<1> QED  BY <1>1, PaymentInvHolds, PTL

(* One gateway transaction pays one order: lockPaymentCallbackTx looks at every
   place a number is stored, and nothing else writes one or moves the channel
   it is read with.                                                         *)
THEOREM CallbackOnceHolds == Spec => []CallbackOnce
<1>1. PaymentRest => CallbackOnce
  BY DEF PaymentRest
<1> QED  BY <1>1, PaymentInvHolds, PTL

(* Money paid on any link ever issued for a pending order settles it, because
   the amount of a channel never changes while the order waits.             *)
THEOREM LinkSettlesHolds == Spec => []LinkSettles
<1>1. TypeOK /\ PaymentRest => LinkSettles
  <2> SUFFICES ASSUME TypeOK, PaymentRest, NEW l \in links, status[l.o] = "pending"
               PROVE  /\ attempt[l.o][l.m].status = "pending"
                      /\ attempt[l.o][l.m].amt = l.amt
                      /\ attempt[l.o][l.m].amt = draft[l.o].total + attempt[l.o][l.m].hand
    BY DEF LinkSettles
  <2>1. l.o \in Orders /\ l.m \in Methods
    BY DEF TypeOK
  <2>2. attempt[l.o][l.m].status = "pending" /\ attempt[l.o][l.m].amt = l.amt
    BY DEF PaymentRest, RequestsInv, LinksAsked, Asked
  <2>3. OpenRow(l.o, l.m)
    BY <2>1 DEF PaymentRest, RowInv, Open
  <2> QED  BY <2>2, <2>3 DEF OpenRow
<1> QED  BY <1>1, PaymentInvHolds, PTL

(* A cached link is of the row's channel and amount, whichever of several
   overlapping requests stored it.                                          *)
THEOREM CachedLinkMatchesHolds == Spec => []CachedLinkMatches
<1>1. PaymentRest => CachedLinkMatches
  <2> SUFFICES ASSUME PaymentRest
               PROVE  CachedLinkMatches
    OBVIOUS
  <2>1. \A o \in Orders : status[o] = "pending" =>
            OpenCheckout(o) /\ \A m \in Methods : OpenRow(o, m)
    BY DEF PaymentRest, RowInv, Open
  <2> QED  BY <2>1 DEF OpenRow, OpenCheckout, CachedLinkMatches
<1> QED  BY <1>1, PaymentInvHolds, PTL

(* A request that owns an attempt row of a pending order owns the order row. *)
THEOREM ClaimsAgreeHolds == Spec => []ClaimsAgree
<1>1. PaymentRest => ClaimsAgree
  <2> SUFFICES ASSUME PaymentRest, NEW o \in Orders, NEW m \in Methods,
                      attempt[o][m].claim # None, status[o] = "pending"
               PROVE  checkout[o].claim = attempt[o][m].claim /\ checkout[o].pm = m
    BY DEF ClaimsAgree
  <2>1. OpenRow(o, m)
    BY DEF PaymentRest, RowInv, Open
  <2> QED  BY <2>1 DEF OpenRow
<1> QED  BY <1>1, PaymentInvHolds, PTL

(* Every transaction number the panel stores, on an order or on an attempt row,
   is that of a payment of exactly the amount asked for on that channel.    *)
THEOREM PaidInFullHolds == Spec => []PaidInFull
<1>1. PaymentRest => PaidInFull
  BY DEF PaymentRest, RowInv, Paid, PaidInFull
<1> QED  BY <1>1, PaymentInvHolds, PTL

-----------------------------------------------------------------------------
(* Sums over finite sets.  SumFunctionOnSet is a recursive function on the subsets of
   its set, so what it is follows by induction over them: a set of counterexamples
   has one that is minimal for inclusion.                                       *)
LEMMA Minimal ==
    ASSUME NEW S, IsFiniteSet(S), NEW D, D \subseteq SUBSET S, D # {}
    PROVE  \E T \in D : \A U \in D : U \subseteq T => U = T
<1> DEFINE R == StrictSubsetOrdering(S)
<1>1. IsWellFoundedOn(R, SUBSET S)
  BY FS_StrictSubsetOrderingWellFounded, FS_FiniteSubsetsOfFinite
<1> HIDE DEF R
<1>2. PICK T \in D : \A U \in D : ~(<<U, T>> \in R)
  BY <1>1, WFMin
<1>3. ASSUME NEW U \in D, U \subseteq T, U # T
      PROVE  FALSE
  <2>1. <<U, T>> \in R
    BY <1>3 DEF R, StrictSubsetOrdering
  <2> QED  BY <1>2, <2>1
<1> QED  BY <1>3

Pick(s) == CHOOSE x \in s : TRUE
Recurs(f, S, g) == g = [s \in SUBSET S |-> IF s = {} THEN 0 ELSE f[Pick(s)] + g[s \ {Pick(s)}]]

LEMMA PickIn ==
    ASSUME NEW s, s # {}
    PROVE  Pick(s) \in s
BY DEF Pick

LEMMA RecursAt ==
    ASSUME NEW f, NEW S, NEW g, Recurs(f, S, g), NEW s \in SUBSET S
    PROVE  g[s] = IF s = {} THEN 0 ELSE f[Pick(s)] + g[s \ {Pick(s)}]
BY DEF Recurs

LEMMA RecursUnique ==
    ASSUME NEW f, NEW S, IsFiniteSet(S), NEW T \in SUBSET S, NEW g, NEW h,
           Recurs(f, S, g), Recurs(f, T, h)
    PROVE  \A s \in SUBSET T : g[s] = h[s]
<1> DEFINE D == {s \in SUBSET T : g[s] # h[s]}
<1> SUFFICES ASSUME D # {}  PROVE FALSE
  OBVIOUS
<1>1. PICK s \in D : \A u \in D : u \subseteq s => u = s
  <2>1. D \subseteq SUBSET S
    OBVIOUS
  <2> HIDE DEF D
  <2> QED  BY <2>1, Minimal
<1>2. s \in SUBSET S /\ s \in SUBSET T /\ g[s] # h[s]
  OBVIOUS
<1>3. s # {}
  BY <1>2, RecursAt
<1> DEFINE u == s \ {Pick(s)}
<1>4. u \in SUBSET T /\ u \subseteq s /\ u # s
  BY <1>2, <1>3, PickIn
<1>5. g[u] = h[u]
  BY <1>1, <1>4
<1>6. g[s] = f[Pick(s)] + g[u] /\ h[s] = f[Pick(s)] + h[u]
  BY <1>2, <1>3, RecursAt
<1> QED  BY <1>2, <1>5, <1>6

LEMMA RecursExists ==
    ASSUME NEW f, NEW S, IsFiniteSet(S)
    PROVE  \E g : Recurs(f, S, g)
<1> DEFINE D == {T \in SUBSET S : ~\E g : Recurs(f, T, g)}
<1> SUFFICES ASSUME D # {}  PROVE FALSE
  OBVIOUS
<1>1. PICK T \in D : \A U \in D : U \subseteq T => U = T
  <2>1. D \subseteq SUBSET S
    OBVIOUS
  <2> HIDE DEF D
  <2> QED  BY <2>1, Minimal
<1>2. T \in SUBSET S /\ IsFiniteSet(T)
  BY FS_Subset
<1> DEFINE G(U) == CHOOSE g : Recurs(f, U, g)
<1>3. ASSUME NEW U \in SUBSET T, U # T
      PROVE  Recurs(f, U, G(U)) /\ IsFiniteSet(U)
  <2>1. \E g : Recurs(f, U, g)
    BY <1>1, <1>2, <1>3
  <2>2. Recurs(f, U, G(U))
    BY <2>1
  <2> QED  BY <1>2, <2>2, FS_Subset
<1> HIDE DEF G
<1> DEFINE Rest(s) == s \ {Pick(s)}
           g == [s \in SUBSET T |-> IF s = {} THEN 0 ELSE f[Pick(s)] + G(Rest(s))[Rest(s)]]
<1>4. ASSUME NEW s \in SUBSET T, s # {}
      PROVE  g[Rest(s)] = G(Rest(s))[Rest(s)]
  <2> DEFINE u == Rest(s)
  <2>1. u \in SUBSET T /\ u # T
    BY <1>4, PickIn
  <2>2. Recurs(f, u, G(u)) /\ IsFiniteSet(u)
    BY <1>3, <2>1
  <2> HIDE DEF u
  <2>3. CASE u = {}
    <3>1. G(u)[u] = 0
      BY <2>2, <2>3, RecursAt
    <3> QED  BY <2>1, <2>3, <3>1 DEF u
  <2>4. CASE u # {}
    <3> DEFINE v == Rest(u)
    <3>1. v \in SUBSET u /\ v \in SUBSET T /\ v # T
      BY <2>1
    <3>2. Recurs(f, v, G(v))
      BY <1>3, <3>1
    <3>3. G(u)[v] = G(v)[v]
      BY <2>2, <3>1, <3>2, RecursUnique
    <3>4. G(u)[u] = f[Pick(u)] + G(u)[v]
      BY <2>2, <2>4, RecursAt
    <3>5. g[u] = f[Pick(u)] + G(v)[v]
      BY <2>1, <2>4
    <3> QED  BY <3>3, <3>4, <3>5 DEF u
  <2> QED  BY <2>3, <2>4
<1>5. g = [s \in SUBSET T |-> IF s = {} THEN 0 ELSE f[Pick(s)] + g[s \ {Pick(s)}]]
  BY <1>4
<1>6. Recurs(f, T, g)
  BY <1>5 DEF Recurs
<1> QED  BY <1>1, <1>6

LEMMA SumUnfolds ==
    ASSUME NEW f, NEW S, IsFiniteSet(S)
    PROVE  \E g : Recurs(f, S, g) /\ SumFunctionOnSet(f, S) = g[S]
<1>1. \E g : Recurs(f, S, g)
  BY RecursExists
<1> QED  BY <1>1 DEF Recurs, Pick, SumFunctionOnSet, FoldFunctionOnSet, MapThenFoldSet

LEMMA SumPick ==
    ASSUME NEW f, NEW S, IsFiniteSet(S)
    PROVE  SumFunctionOnSet(f, S) =
             IF S = {} THEN 0 ELSE f[Pick(S)] + SumFunctionOnSet(f, S \ {Pick(S)})
<1>1. PICK g : Recurs(f, S, g) /\ SumFunctionOnSet(f, S) = g[S]
  BY SumUnfolds
<1> DEFINE T == S \ {Pick(S)}
<1>2. T \in SUBSET S /\ IsFiniteSet(T)
  BY FS_Subset
<1>3. PICK h : Recurs(f, T, h) /\ SumFunctionOnSet(f, T) = h[T]
  BY <1>2, SumUnfolds
<1>4. g[T] = h[T]
  <2> HIDE DEF T
  <2> QED  BY <1>1, <1>2, <1>3, RecursUnique
<1>5. g[S] = IF S = {} THEN 0 ELSE f[Pick(S)] + g[T]
  <2>1. S \in SUBSET S /\ Recurs(f, S, g)
    BY <1>1
  <2> HIDE DEF T
  <2>2. g[S] = IF S = {} THEN 0 ELSE f[Pick(S)] + g[S \ {Pick(S)}]
    BY <2>1, RecursAt
  <2> QED  BY <2>2 DEF T
<1> HIDE DEF T
<1> QED  BY <1>1, <1>3, <1>4, <1>5 DEF T

(* A sum is an integer, it depends on the summands alone, and any of them can be
   taken out of it.                                                            *)
Ints(f, S) == \A x \in S : f[x] \in Int

LEMMA SumEmpty ==
    ASSUME NEW f
    PROVE  SumFunctionOnSet(f, {}) = 0
BY SumPick, FS_EmptySet

LEMMA SumType ==
    ASSUME NEW f, NEW S, IsFiniteSet(S), Ints(f, S)
    PROVE  SumFunctionOnSet(f, S) \in Int
<1> DEFINE D == {T \in SUBSET S : SumFunctionOnSet(f, T) \notin Int}
<1> SUFFICES ASSUME D # {}  PROVE FALSE
  OBVIOUS
<1>1. PICK T \in D : \A U \in D : U \subseteq T => U = T
  <2>1. D \subseteq SUBSET S
    OBVIOUS
  <2> HIDE DEF D
  <2> QED  BY <2>1, Minimal
<1>2. T \in SUBSET S /\ IsFiniteSet(T) /\ SumFunctionOnSet(f, T) \notin Int
  BY FS_Subset
<1>3. T # {}
  BY <1>2, SumEmpty
<1> DEFINE U == T \ {Pick(T)}
<1>4. U \in SUBSET S /\ U \subseteq T /\ U # T /\ f[Pick(T)] \in Int
  BY <1>2, <1>3, PickIn DEF Ints
<1>5. SumFunctionOnSet(f, U) \in Int
  BY <1>1, <1>4
<1>6. SumFunctionOnSet(f, T) = f[Pick(T)] + SumFunctionOnSet(f, U)
  BY <1>2, <1>3, SumPick
<1> HIDE DEF U
<1> QED  BY <1>2, <1>4, <1>5, <1>6

(* What changing one summand does to a sum.                                  *)
LEMMA SumChanged ==
    ASSUME NEW f, NEW g, NEW S, IsFiniteSet(S), Ints(f, S), Ints(g, S), NEW x,
           \A y \in S : y # x => g[y] = f[y]
    PROVE  SumFunctionOnSet(g, S) = SumFunctionOnSet(f, S) + IF x \in S THEN g[x] - f[x] ELSE 0
<1> DEFINE d(T) == IF x \in T THEN g[x] - f[x] ELSE 0
           D == {T \in SUBSET S : SumFunctionOnSet(g, T) # SumFunctionOnSet(f, T) + d(T)}
<1> SUFFICES ASSUME D # {}  PROVE FALSE
  BY S \in SUBSET S
<1>1. PICK T \in D : \A U \in D : U \subseteq T => U = T
  <2>1. D \subseteq SUBSET S
    OBVIOUS
  <2> HIDE DEF D
  <2> QED  BY <2>1, Minimal
<1>2. /\ T \in SUBSET S /\ IsFiniteSet(T)
      /\ SumFunctionOnSet(g, T) # SumFunctionOnSet(f, T) + d(T)
  BY FS_Subset
<1>3. T # {}
  BY <1>2, SumEmpty
<1> DEFINE c == Pick(T)
           U == T \ {c}
<1>4. c \in T /\ U \in SUBSET S /\ U \subseteq T /\ U # T /\ IsFiniteSet(U)
  BY <1>2, <1>3, PickIn, FS_Subset
<1>5. SumFunctionOnSet(g, U) = SumFunctionOnSet(f, U) + d(U)
  BY <1>1, <1>4
<1>6. /\ SumFunctionOnSet(f, T) = f[c] + SumFunctionOnSet(f, U)
      /\ SumFunctionOnSet(g, T) = g[c] + SumFunctionOnSet(g, U)
  BY <1>2, <1>3, SumPick
<1>7. /\ SumFunctionOnSet(f, U) \in Int /\ f[c] \in Int /\ g[c] \in Int
      /\ x \in T => f[x] \in Int /\ g[x] \in Int
  BY <1>2, <1>4, SumType DEF Ints
<1>8. d(T) = IF c = x THEN g[c] - f[c] ELSE d(U)
  BY <1>4
<1>9. c = x => d(U) = 0
  OBVIOUS
<1>10. c # x => g[c] = f[c]
  BY <1>2, <1>4
<1>11. d(U) \in Int
  BY <1>4, <1>7
<1> HIDE DEF U, c, d
<1> QED  BY <1>2, <1>5, <1>6, <1>7, <1>8, <1>9, <1>10, <1>11

LEMMA SumZero ==
    ASSUME NEW f, NEW S, IsFiniteSet(S), \A x \in S : f[x] = 0
    PROVE  SumFunctionOnSet(f, S) = 0
<1> DEFINE D == {T \in SUBSET S : SumFunctionOnSet(f, T) # 0}
<1> SUFFICES ASSUME D # {}  PROVE FALSE
  BY S \in SUBSET S
<1>1. PICK T \in D : \A U \in D : U \subseteq T => U = T
  <2>1. D \subseteq SUBSET S
    OBVIOUS
  <2> HIDE DEF D
  <2> QED  BY <2>1, Minimal
<1>2. T \in SUBSET S /\ IsFiniteSet(T) /\ SumFunctionOnSet(f, T) # 0
  BY FS_Subset
<1>3. T # {}
  BY <1>2, SumEmpty
<1> DEFINE U == T \ {Pick(T)}
<1>4. U \in SUBSET S /\ U \subseteq T /\ U # T /\ f[Pick(T)] = 0
  BY <1>2, <1>3, PickIn
<1>5. SumFunctionOnSet(f, U) = 0
  BY <1>1, <1>4
<1>6. SumFunctionOnSet(f, T) = f[Pick(T)] + SumFunctionOnSet(f, U)
  BY <1>2, <1>3, SumPick
<1> HIDE DEF U
<1> QED  BY <1>2, <1>4, <1>5, <1>6

-----------------------------------------------------------------------------
(* The wallet: OrderPayment implements WalletLedger.  An order's stage there is
   read from its status and from how often it was opened; the stage of a folded
   or refunded order stays, because it has been opened (Kept).              *)
LEMMA Stages ==
    ASSUME TypeOK, NEW o \in Orders
    PROVE  /\ status[o] = "absent" => Stage(o) = "absent"
           /\ status[o] \in {"pending", "paid"} => Stage(o) = "held"
           /\ status[o] \notin {"absent", "pending", "paid"} =>
                Stage(o) = IF opens[o] > 0 THEN "opened" ELSE "released"
BY DEF TypeOK, Stage

LEMMA StagesNext ==
    ASSUME TypeOK', NEW o \in Orders
    PROVE  /\ status'[o] = "absent" => Stage(o)' = "absent"
           /\ status'[o] \in {"pending", "paid"} => Stage(o)' = "held"
           /\ status'[o] \notin {"absent", "pending", "paid"} =>
                Stage(o)' = IF opens'[o] > 0 THEN "opened" ELSE "released"
BY DEF TypeOK, Stage

(* A step the wallet does not see.                                          *)
LEMMA LedgerStutters ==
    ASSUME draft' = draft, balance' = balance, \A x \in Orders : Stage(x)' = Stage(x)
    PROVE  UNCHANGED Ledger!ledgerVars
BY DEF Ledger!ledgerVars, Credit

LEMMA SameStutters ==
    ASSUME draft' = draft, balance' = balance, status' = status, opens' = opens
    PROVE  UNCHANGED Ledger!ledgerVars
BY LedgerStutters DEF Stage

(* Money moves for one order: n reaches the purse of its user, the order's own
   moves change by n, and every other order keeps its moves and its draft.   *)
LEMMA OwnMovesTypes ==
    ASSUME TypeOK
    PROVE  \A x \in Orders : Moved(x) \in Int /\ Credit(x) \in Int /\ draft[x].bal \in Nat
                             /\ draft[x].user \in Users
<1> SUFFICES ASSUME NEW x \in Orders
             PROVE  /\ Moved(x) \in Int /\ Credit(x) \in Int /\ draft[x].bal \in Nat
                    /\ draft[x].user \in Users
  OBVIOUS
<1>1. draft[x] \in Drafts /\ opens[x] \in Nat
  BY DEF TypeOK
<1>2. /\ draft[x].bal \in Nat /\ draft[x].total \in Int /\ draft[x].refund \in Nat
      /\ draft[x].user \in Users
  BY <1>1 DEF Drafts
<1>3. Credit(x) \in Int
  BY <1>2 DEF Credit
<1>4. Held(x) \in Int
  BY <1>2 DEF Held
<1>5. Credit(x) - draft[x].bal \in Int
  BY <1>2, <1>3
<1>6. Earned(x) \in Int
  BY <1>1, <1>5 DEF Earned
<1> QED  BY <1>2, <1>3, <1>4, <1>6 DEF Moved

LEMMA OrdersFinite == IsFiniteSet(Orders)
BY FS_Interval, BoundsAssumption DEF Orders

LEMMA MoneyMoves ==
    ASSUME TypeOK, TypeOK', WalletConserved, NEW o \in Orders, NEW v \in Users, NEW n \in Int,
           balance' = [balance EXCEPT ![v] = @ + n],
           \A x \in Orders \ {o} : draft'[x] = draft[x] /\ Moved(x)' = Moved(x),
           draft'[o].user = v, draft[o].user = v \/ Moved(o) = 0, Moved(o)' = Moved(o) + n
    PROVE  WalletConserved'
<1> SUFFICES ASSUME NEW u \in Users
             PROVE  balance'[u] = Funds + SumFunctionOnSet(OwnMoves(u)', Orders)
  BY DEF WalletConserved, SumFunction, OwnMoves
<1> DEFINE f == OwnMoves(u)
           g == OwnMoves(u)'
           s == SumFunctionOnSet(f, Orders)
<1>1. balance[u] = Funds + s
  BY DEF WalletConserved, SumFunction, OwnMoves
<1>2. /\ Ints(f, Orders) /\ Moved(o) \in Int
      /\ \A x \in Orders : f[x] = IF draft[x].user = u THEN Moved(x) ELSE 0
  BY OwnMovesTypes DEF OwnMoves, Ints
<1>3. \A x \in Orders : g[x] = IF draft'[x].user = u THEN Moved(x)' ELSE 0
  BY DEF OwnMoves
<1>4. \A x \in Orders : x # o => g[x] = f[x]
  BY <1>2, <1>3
<1>5. f[o] \in Int /\ g[o] = f[o] + IF u = v THEN n ELSE 0
  BY <1>2, <1>3
<1>6. Ints(g, Orders)
  BY <1>2, <1>4, <1>5 DEF Ints
<1> HIDE DEF f, g
<1>7. SumFunctionOnSet(g, Orders) = s + (g[o] - f[o])
  BY <1>2, <1>4, <1>6, OrdersFinite, SumChanged
<1> HIDE DEF s
<1>8. s \in Int /\ Funds \in Int /\ balance[u] \in Int
  BY <1>2, OrdersFinite, SumType, BoundsAssumption DEF s, TypeOK
<1>9. balance'[u] = balance[u] + IF u = v THEN n ELSE 0
  BY <1>8 DEF TypeOK
<1> QED  BY <1>1, <1>5, <1>7, <1>8, <1>9 DEF g

(* Every step keeps to the ledger and to the wallet equation.                *)
Balanced == WalletConserved => WalletConserved'
Moves == [Ledger!LedgerNext]_(Ledger!ledgerVars) /\ Balanced

(* No money moves, and no order's own moves change.                          *)
LEMMA NoMoney ==
    ASSUME draft' = draft, balance' = balance, \A x \in Orders : Moved(x)' = Moved(x)
    PROVE  Balanced
<1>1. \A u \in Users : OwnMoves(u)' = OwnMoves(u)
  BY DEF OwnMoves
<1> QED  BY <1>1 DEF Balanced, WalletConserved

LEMMA NothingMoves ==
    ASSUME draft' = draft, balance' = balance, status' = status, opens' = opens
    PROVE  Moves
<1>1. UNCHANGED Ledger!ledgerVars
  BY SameStutters
<1>2. \A x \in Orders : Moved(x)' = Moved(x)
  BY DEF Moved, Earned, Held, Credit
<1> QED  BY <1>1, <1>2, NoMoney DEF Moves

LEMMA LedgerHolds ==
    ASSUME Core, TypeOK', NEW o \in Orders, status[o] = "absent", NEW d \in Drafts,
           d.kind = "deposit" => d.total \in Nat, insertOrder(o, d)
    PROVE  Ledger!Hold(o) /\ Balanced
<1>1. /\ status' = [status EXCEPT ![o] = "pending"] /\ draft' = [draft EXCEPT ![o] = d]
      /\ balance' = [balance EXCEPT ![d.user] = @ - d.bal] /\ opens' = opens
  BY DEF insertOrder
<1>2. TypeOK /\ d.user \in Users /\ d.bal \in Nat /\ d.refund \in Nat
  BY DEF Core, Drafts
<1>3. draft'[o] = d /\ \A x \in Orders \ {o} : draft'[x] = draft[x] /\ status'[x] = status[x]
  BY <1>1, <1>2 DEF TypeOK
<1>4. status'[o] = "pending"
  BY <1>1, <1>2 DEF TypeOK
<1>5. Stage(o) = "absent" /\ Stage(o)' = "held" /\ \A x \in Orders \ {o} : Stage(x)' = Stage(x)
  BY <1>1, <1>2, <1>3, <1>4, Stages, StagesNext DEF Stage
<1>6. Credit(o)' \in Nat /\ \A x \in Orders \ {o} : Credit(x)' = Credit(x)
  BY <1>2, <1>3 DEF Credit
<1>7. balance[d.user] - d.bal >= 0
  <2>1. balance'[d.user] = balance[d.user] - d.bal
    BY <1>1, <1>2 DEF TypeOK
  <2>2. balance'[d.user] \in Nat
    BY <1>2 DEF TypeOK
  <2> QED  BY <2>1, <2>2
<1>8. balance' = [balance EXCEPT ![d.user] = @ + (-d.bal)] /\ balance[d.user] + (-d.bal) >= 0
  <2>1. balance[d.user] \in Int
    BY <1>2 DEF TypeOK
  <2>2. balance[d.user] - d.bal = balance[d.user] + (-d.bal)
    BY <1>2, <2>1
  <2> QED  BY <1>1, <1>7, <2>2
<1> DEFINE tm(x)  == [user |-> draft[x].user, hold |-> draft[x].bal, credit |-> Credit(x)]
           tms    == [x \in Orders |-> tm(x)]
           stg    == [x \in Orders |-> Stage(x)]
<1>9. tms'[o] = [user |-> d.user, hold |-> d.bal, credit |-> Credit(o)']
  BY <1>3
<1>10. tms'[o] \in [user : Users, hold : Nat, credit : Nat]
  BY <1>2, <1>6, <1>9
<1>11. tms' = [tms EXCEPT ![o] = tms'[o]]
  BY <1>3, <1>6
<1>12. stg[o] = "absent" /\ stg' = [stg EXCEPT ![o] = "held"]
  BY <1>5
<1>13. tms'[o].user = d.user /\ -tms'[o].hold = -d.bal
  BY <1>9
<1>14. Ledger!Move(tms'[o].user, -tms'[o].hold)
  BY <1>8, <1>13 DEF Ledger!Move
<1>15. Balanced
  <2>1. opens[o] = 0
    BY DEF Core, OpenedOnly
  <2>2. Earned(o) = 0 /\ Earned(o)' = 0
    <3>1. opens'[o] = 0 /\ Credit(o) - draft[o].bal \in Int /\ Credit(o)' - d.bal \in Int
      BY <1>1, <1>2, <1>6, <2>1, OwnMovesTypes
    <3> QED  BY <1>3, <2>1, <3>1 DEF Earned
  <2>3. Held(o) = 0 /\ Held(o)' = d.bal
    BY <1>3, <1>4 DEF Held
  <2>4. Moved(o) = 0 /\ Moved(o)' = Moved(o) + (-d.bal)
    BY <1>2, <2>2, <2>3 DEF Moved
  <2>5. \A x \in Orders \ {o} : draft'[x] = draft[x] /\ Moved(x)' = Moved(x)
    BY <1>1, <1>3 DEF Moved, Earned, Held, Credit
  <2>6. -d.bal \in Int /\ draft'[o].user = d.user
    BY <1>2, <1>3
  <2> QED  BY <1>2, <1>8, <2>4, <2>5, <2>6, MoneyMoves DEF Balanced
<1> QED  BY <1>10, <1>11, <1>12, <1>14, <1>15 DEF Ledger!Hold, Ledger!Terms

LEMMA LedgerCreates ==
    ASSUME Core, TypeOK', NEW o \in Orders, NEW u \in Users, Create(o, u)
    PROVE  Ledger!Hold(o) /\ Balanced
<1> USE Inputs
<1>0. TypeOK /\ balance[u] \in Nat
  BY DEF Core, TypeOK
<1>1. ASSUME NEW kind \in BuyKinds, NEW price \in Prices, NEW worth \in Surpluses,
             NEW ids \in SUBSET Orders, SaveOrder(o, u, kind, price, worth, ids)
      PROVE  Ledger!Hold(o) /\ Balanced
  <2> DEFINE due == IF worth >= price THEN 0 ELSE price - worth
             bal == Min2(balance[u], due)
             d   == [user |-> u, kind |-> kind, total |-> due - bal, bal |-> bal,
                     refund |-> IF worth >= price THEN worth - price ELSE 0, surplus |-> ids]
  <2>1. insertOrder(o, d) /\ status[o] = "absent" /\ kind # "deposit"
      BY <1>1 DEF SaveOrder, NextId
  <2>2. due \in Nat /\ worth \in Nat /\ price \in Nat
      OBVIOUS
  <2>3. bal \in Nat /\ due - bal \in Int
      BY <1>0, <2>2 DEF Min2
  <2>4. (IF worth >= price THEN worth - price ELSE 0) \in Nat
      BY <2>2
  <2>5. d \in Drafts /\ d.kind = kind
      BY <2>3, <2>4 DEF Drafts
  <2> HIDE DEF d
  <2> QED  BY <2>1, <2>5, LedgerHolds
<1>2. ASSUME NEW kind \in Kinds, NEW price \in Prices, status[o] = "absent",
             insertOrder(o, [user |-> u, kind |-> kind, total |-> price, bal |-> 0, refund |-> 0,
                             surplus |-> {}])
      PROVE  Ledger!Hold(o) /\ Balanced
  <2> DEFINE d == [user |-> u, kind |-> kind, total |-> price, bal |-> 0, refund |-> 0,
                   surplus |-> {}]
  <2>1. price \in Nat
      OBVIOUS
  <2>2. d \in Drafts /\ d.total \in Nat
    <3> HIDE Inputs
    <3> QED  BY <2>1 DEF Drafts
  <2>3. insertOrder(o, d)
      BY <1>2
  <2> HIDE DEF d
  <2> QED  BY <1>2, <2>2, <2>3, LedgerHolds
<1>3. ASSUME NEW kind \in BuyKinds, NEW price \in Prices, AssignAdminOrder(o, u, kind, price)
      PROVE  Ledger!Hold(o) /\ Balanced
  BY <1>2, <1>3 DEF AssignAdminOrder, NextId
<1>4. ASSUME NEW amount \in Prices, saveDepositOrder(o, u, amount)
      PROVE  Ledger!Hold(o) /\ Balanced
  BY <1>2, <1>4 DEF saveDepositOrder, NextId, Kinds
<1>5. {{}, SurplusIds(u, {"period"}), SurplusIds(u, Kinds \ {"reset"})} \subseteq SUBSET Orders
  BY DEF SurplusIds
<1> QED  BY <1>1, <1>3, <1>4, <1>5 DEF Create

(* Giving a hold back, whoever cancels the order.                           *)
LEMMA LedgerReleases ==
    ASSUME Core, TypeOK', NEW o \in Orders, NEW recover, giveBack(o, recover),
           status[o] \in {"pending", "paid"}
    PROVE  Ledger!Release(o) /\ Balanced
<1>1. /\ draft' = draft /\ opens' = opens /\ status' = [status EXCEPT ![o] = "cancelled"]
      /\ balance' = [balance EXCEPT ![draft[o].user] = @ + draft[o].bal]
  BY DEF giveBack
<1>2. TypeOK /\ draft[o].user \in Users /\ draft[o].bal \in Nat /\ balance[draft[o].user] \in Nat
  BY DEF Core, TypeOK, Drafts
<1>3. /\ status'[o] = "cancelled" /\ \A x \in Orders \ {o} : status'[x] = status[x]
      /\ ~(opens'[o] > 0)
  BY <1>1, <1>2 DEF TypeOK, Core, OpenedOnly
<1>4. /\ Stage(o) = "held" /\ Stage(o)' = "released"
      /\ \A x \in Orders \ {o} : Stage(x)' = Stage(x)
  BY <1>1, <1>2, <1>3, Stages, StagesNext DEF Stage
<1>5. Ledger!Move(draft[o].user, draft[o].bal)
  BY <1>1, <1>2 DEF Ledger!Move
<1> DEFINE tms == [x \in Orders |-> [user |-> draft[x].user, hold |-> draft[x].bal,
                                     credit |-> Credit(x)]]
<1>6. tms' = tms /\ tms[o].user = draft[o].user /\ tms[o].hold = draft[o].bal
  BY <1>1 DEF Credit
<1> HIDE DEF tms
<1>7. Ledger!Move(tms[o].user, tms[o].hold)
  BY <1>5, <1>6
<1>8. Balanced
  <2>1. opens[o] = 0 /\ Credit(o) - draft[o].bal \in Int /\ draft[o].bal \in Int
    BY <1>1, <1>2, <1>3, OwnMovesTypes DEF Core, OpenedOnly
  <2>2. Earned(o) = 0 /\ Earned(o)' = 0
    BY <1>1, <2>1 DEF Earned, Credit
  <2>3. Held(o) = draft[o].bal /\ Held(o)' = 0
    BY <1>3 DEF Held
  <2>4. Moved(o)' = Moved(o) + draft[o].bal
    BY <2>1, <2>2, <2>3 DEF Moved
  <2>5. \A x \in Orders \ {o} : draft'[x] = draft[x] /\ Moved(x)' = Moved(x)
    BY <1>1, <1>3 DEF Moved, Earned, Held, Credit
  <2>6. draft'[o].user = draft[o].user
    BY <1>1
  <2> QED  BY <1>1, <1>2, <2>1, <2>4, <2>5, <2>6, MoneyMoves DEF Balanced
<1> QED  BY <1>4, <1>6, <1>7, <1>8 DEF Ledger!Release, tms

(* Opening an order pays its credit; its hold is taken again if it was given
   back, or consumed by an earlier opening.                                 *)
LEMMA LedgerOpens ==
    ASSUME Core, TypeOK', NEW o \in Orders, NEW cb, NEW taken, openOrder(o, cb, taken), draft' = draft,
           draft[o].kind = "deposit" => draft[o].total \in Nat,
           \/ status[o] \in {"pending", "paid"} /\ taken = 0
           \/ status[o] = "cancelled" /\ taken = draft[o].bal /\ taken <= balance[draft[o].user]
    PROVE  (Ledger!Open(o) \/ Ledger!Reopen(o)) /\ Balanced
<1>1. /\ opens' = [opens EXCEPT ![o] = @ + 1]
      /\ balance' = [balance EXCEPT ![draft[o].user] = @ - taken + Credit(o)]
      /\ status'[o] = "done"
      /\ \A x \in Orders \ {o} : status'[x] = status[x] \/ (status'[x] = "closed" /\ x \in Folded(o))
  BY DEF openOrder
<1>2. /\ TypeOK /\ draft[o].user \in Users /\ draft[o].bal \in Nat /\ draft[o].refund \in Nat
      /\ balance[draft[o].user] \in Nat
  BY DEF Core, TypeOK, Drafts
<1>3. opens'[o] > 0 /\ \A x \in Orders \ {o} : opens'[x] = opens[x]
  BY <1>1, <1>2 DEF TypeOK
<1>4. Credit(o) \in Nat
  BY <1>2 DEF Credit
<1>5. ASSUME NEW x \in Orders \ {o} PROVE Stage(x)' = Stage(x)
  <2>1. CASE status'[x] = status[x]
    BY <1>3, <2>1 DEF Stage
  <2>2. CASE status'[x] = "closed" /\ x \in Folded(o)
    <3>1. opens[x] > 0
      BY <2>2 DEF Core, RowInv, Kept, Folded
    <3>2. status[x] \notin {"absent", "pending", "paid"}
      BY <3>1 DEF Core, OpenedOnly
    <3> QED  BY <1>2, <1>3, <2>2, <3>1, <3>2, Stages, StagesNext
  <2> QED  BY <1>1, <2>1, <2>2
<1>6. Stage(o)' = "opened"
  BY <1>1, <1>3, StagesNext
<1> DEFINE tms == [x \in Orders |-> [user |-> draft[x].user, hold |-> draft[x].bal,
                                     credit |-> Credit(x)]]
           stg == [x \in Orders |-> Stage(x)]
<1>7. /\ tms' = tms /\ tms[o].user = draft[o].user /\ tms[o].hold = draft[o].bal
      /\ tms[o].credit = Credit(o)
  BY DEF Credit
<1>8. stg' = [stg EXCEPT ![o] = "opened"]
  BY <1>5, <1>6
(* The order's own moves: what it held stays gone, and its credit arrives.    *)
<1>9. \A x \in Orders \ {o} : draft'[x] = draft[x] /\ Moved(x)' = Moved(x)
  <2> SUFFICES ASSUME NEW x \in Orders \ {o}
               PROVE  Moved(x)' = Moved(x)
    OBVIOUS
  <2>1. Earned(x)' = Earned(x)
    BY <1>3 DEF Earned, Credit
  <2>2. Held(x)' = Held(x)
    <3>1. CASE status'[x] = status[x]
      BY <3>1 DEF Held
    <3>2. CASE status'[x] = "closed" /\ x \in Folded(o)
      <4>1. opens[x] > 0
        BY <3>2 DEF Core, RowInv, Kept, Folded
      <4>2. status[x] \notin {"absent", "pending", "paid"}
        BY <4>1 DEF Core, OpenedOnly
      <4> QED  BY <3>2, <4>2 DEF Held
    <3> QED  BY <1>1, <3>1, <3>2
  <2> QED  BY <2>1, <2>2 DEF Moved
<1>10. Earned(o)' = Earned(o) + (Credit(o) - draft[o].bal) /\ Earned(o) \in Int /\ Held(o)' = 0
  <2> DEFINE c == Credit(o) - draft[o].bal
             k == opens[o]
  <2>1. k \in Nat /\ c \in Int /\ opens'[o] = k + 1
    BY <1>1, <1>2, <1>4 DEF TypeOK
  <2>2. Earned(o) = k * c /\ Earned(o)' = (k + 1) * c
    BY <2>1 DEF Earned, Credit
  <2> HIDE DEF c, k
  <2>3. (k + 1) * c = k * c + c /\ k * c \in Int
    BY <2>1
  <2> QED  BY <1>1, <2>2, <2>3 DEF c, Held
<1>11. ASSUME Held(o) = draft[o].bal - taken, taken \in Nat
       PROVE  Balanced
  <2> DEFINE n == Credit(o) - taken
  <2>1. n \in Int /\ balance[draft[o].user] - taken + Credit(o) = balance[draft[o].user] + n
    BY <1>2, <1>4, <1>11
  <2>2. Moved(o)' = Moved(o) + n
    BY <1>2, <1>4, <1>10, <1>11 DEF Moved
  <2>3. balance' = [balance EXCEPT ![draft[o].user] = @ + n]
    BY <1>1, <2>1
  <2> HIDE DEF n
  <2> QED  BY <1>2, <1>9, <2>1, <2>2, <2>3, MoneyMoves DEF Balanced
<1>12. CASE status[o] \in {"pending", "paid"} /\ taken = 0
  <2>1. stg[o] = "held"
    BY <1>2, <1>12, Stages
  <2>2. /\ balance[draft[o].user] - 0 + Credit(o) = balance[draft[o].user] + Credit(o)
        /\ balance[draft[o].user] + Credit(o) >= 0
    BY <1>2, <1>4
  <2>3. Ledger!Move(draft[o].user, Credit(o))
    BY <1>1, <1>12, <2>2 DEF Ledger!Move
  <2> HIDE DEF tms
  <2>4. Ledger!Move(tms[o].user, tms[o].credit)
    BY <1>7, <2>3
  <2>5. Ledger!Open(o)
    BY <1>7, <1>8, <2>1, <2>4 DEF Ledger!Open, tms
  <2>6. Held(o) = draft[o].bal - taken
    BY <1>2, <1>12 DEF Held
  <2> QED  BY <1>12, <1>11, <2>5, <2>6
<1>13. CASE status[o] = "cancelled" /\ taken = draft[o].bal /\ taken <= balance[draft[o].user]
  <2>1. stg[o] \in {"released", "opened"}
    BY <1>2, <1>13, Stages
  <2>2. /\ balance[draft[o].user] - draft[o].bal + Credit(o)
             = balance[draft[o].user] + (Credit(o) - draft[o].bal)
        /\ balance[draft[o].user] + (Credit(o) - draft[o].bal) >= 0
        /\ balance[draft[o].user] >= draft[o].bal
    BY <1>2, <1>4, <1>13
  <2>3. Ledger!Move(draft[o].user, Credit(o) - draft[o].bal)
    BY <1>1, <1>13, <2>2 DEF Ledger!Move
  <2> HIDE DEF tms
  <2>4. Ledger!Move(tms[o].user, tms[o].credit - tms[o].hold) /\ balance[tms[o].user] >= tms[o].hold
    BY <1>7, <2>2, <2>3
  <2>5. Ledger!Reopen(o)
    BY <1>7, <1>8, <2>1, <2>4 DEF Ledger!Reopen, tms
  <2>6. Held(o) = draft[o].bal - taken
    BY <1>2, <1>13 DEF Held
  <2> QED  BY <1>2, <1>13, <1>11, <2>5, <2>6
<1> QED  BY <1>12, <1>13

LEMMA LedgerSettles ==
    ASSUME Core, TypeOK', NEW o \in Orders, NEW conf, MarkOrderPaid(o, conf)
    PROVE  Moves
<1>1. CASE Settle(o, conf)
  <2>1. draft[o].total >= 0 /\ draft[o].total \in Int
    BY <1>1 DEF Settle, ConfirmsAttempt, ConfirmsCurrent, Confirms, Core, TypeOK, Drafts
  <2>2. draft[o].total \in Nat
    BY <2>1
  <2>3. /\ openOrder(o, conf.cb, Retaken(o)) /\ draft' = draft
        /\ status[o] \in {"pending", "cancelled"} /\ MayRecover(o, conf)
    BY <1>1 DEF Settle
  <2>4. \/ status[o] \in {"pending", "paid"} /\ Retaken(o) = 0
        \/ /\ status[o] = "cancelled" /\ Retaken(o) = draft[o].bal
           /\ Retaken(o) <= balance[draft[o].user]
    BY <2>3 DEF Retaken, MayRecover
  <2>5. (Ledger!Open(o) \/ Ledger!Reopen(o)) /\ Balanced
    BY <2>2, <2>3, <2>4, LedgerOpens
  <2> QED  BY <2>5 DEF Moves, Ledger!LedgerNext
<1>2. CASE RecordDuplicate(o, conf) \/ RepairCallback(o, conf)
  <2>1. draft' = draft /\ balance' = balance /\ status' = status /\ opens' = opens
    BY <1>2 DEF RecordDuplicate, RepairCallback
  <2> QED  BY <2>1, NothingMoves
<1> QED  BY <1>1, <1>2 DEF MarkOrderPaid

LEMMA LedgerManages ==
    ASSUME Core, TypeOK', NEW o \in Orders,
           CancelOrder(o) \/ handleQueuedOrder(o) \/ Admin(o) \/ Time(o)
    PROVE  Moves
<1>1. CASE CancelOrder(o) \/ AutoCancel(o) \/ QuarantinePaidPending(o)
  <2>1. Ledger!Release(o) /\ Balanced
    BY <1>1, LedgerReleases DEF CancelOrder, AutoCancel, QuarantinePaidPending
  <2> QED  BY <2>1 DEF Moves, Ledger!LedgerNext
<1>2. CASE OpenPaidPending(o)
  <2> DEFINE cb == IF callback[o] = None THEN TradeNo ELSE callback[o]
  <2>1. /\ openOrder(o, cb, 0) /\ draft' = draft /\ status[o] = "paid"
        /\ draft[o].total >= 0 /\ draft[o].total \in Int
    BY <1>2 DEF OpenPaidPending, Core, TypeOK, Drafts
  <2>2. draft[o].total \in Nat
    BY <2>1
  <2> HIDE DEF cb
  <2>3. (Ledger!Open(o) \/ Ledger!Reopen(o)) /\ Balanced
    BY <2>1, <2>2, LedgerOpens
  <2> QED  BY <2>3 DEF Moves, Ledger!LedgerNext
<1>3. CASE AdminMarkOrderPaid(o)
  BY <1>3, LedgerSettles DEF AdminMarkOrderPaid, MarkOrderPaid
<1>4. CASE RefundManagedOrder(o)
  <2>1. /\ draft' = draft /\ balance' = balance /\ opens' = opens /\ status[o] = "done"
        /\ \A x \in Orders : \/ status'[x] = status[x]
                             \/ x = o /\ status'[x] = "cancelled"
                             \/ status[x] = "closed" /\ status'[x] = "done"
    BY <1>4 DEF RefundManagedOrder
  <2>2. ASSUME NEW x \in Orders PROVE Stage(x)' = Stage(x)
    <3>1. CASE status'[x] = status[x]
      BY <2>1, <3>1 DEF Stage
    <3>2. CASE status'[x] # status[x]
      <4>1. /\ status[x] \in {"done", "closed"} /\ opens[x] > 0 /\ TypeOK
            /\ status'[x] \in {"done", "cancelled"} /\ opens'[x] = opens[x]
        BY <2>1, <3>2 DEF Core, RowInv, Kept
      <4> QED  BY <4>1, Stages, StagesNext
    <3> QED  BY <3>1, <3>2
  <2>3. ASSUME NEW x \in Orders PROVE Moved(x)' = Moved(x)
    BY <2>1 DEF Moved, Earned, Held, Credit
  <2> QED  BY <2>1, <2>2, <2>3, LedgerStutters, NoMoney DEF Moves
<1>5. CASE AdminCheck(o) \/ Time(o)
  <2>1. draft' = draft /\ balance' = balance /\ status' = status /\ opens' = opens
    BY <1>5 DEF AdminCheck, Time, ClaimExpires, RecoveryExpires, Ages, AttemptClaimExpires, orderVars
  <2> QED  BY <2>1, NothingMoves
<1> QED  BY <1>1, <1>2, <1>3, <1>4, <1>5 DEF handleQueuedOrder, Admin

LEMMA LedgerRequests ==
    ASSUME Core, TypeOK', NEW s \in Sessions, Request(s)
    PROVE  Moves
<1>1. CASE CheckoutFreePaid(s)
  <2>1. sess[s].o \in Orders
    <3>1. sess[s].pc = "free" /\ sess[s] \in SessionRows
      BY <1>1 DEF CheckoutFreePaid, Core, TypeOK
    <3> QED  BY <3>1 DEF SessionRows, Idle
  <2> QED  BY <1>1, <2>1, LedgerSettles DEF CheckoutFreePaid, MarkOrderPaid
<1>2. ASSUME draft' = draft, balance' = balance, status' = status, opens' = opens
      PROVE  Moves
  BY <1>2, NothingMoves
<1>3. ASSUME NEW o \in Orders, CheckoutFree(s, o) \/ \E m \in Methods : CheckoutClaim(s, o, m)
      PROVE  Moves
  BY <1>2, <1>3 DEF CheckoutFree, CheckoutClaim, orderVars
<1>4. CASE GatewayAnswers(s) \/ GatewayFails(s) \/ SessionLost(s)
  BY <1>2, <1>4 DEF GatewayAnswers, GatewayFails, SessionLost, orderVars
<1>5. CASE ReleaseAttempt(s) \/ ReleaseOrder(s)
  BY <1>2, <1>5 DEF ReleaseAttempt, ReleaseOrder
<1>6. CASE persistCheckoutResult(s)
  BY <1>2, <1>6 DEF persistCheckoutResult
<1> QED  BY <1>1, <1>3, <1>4, <1>5, <1>6 DEF Request

LEMMA LedgerStep == Core /\ TypeOK' /\ [Next]_vars => Moves
<1> SUFFICES ASSUME Core, TypeOK', [Next]_vars PROVE Moves
  OBVIOUS
<1>1. ASSUME NEW o \in Orders, NEW u \in Users, Create(o, u)
      PROVE  Moves
  <2>1. Ledger!Hold(o) /\ Balanced
    BY <1>1, LedgerCreates
  <2> QED  BY <2>1 DEF Moves, Ledger!LedgerNext
<1>2. ASSUME NEW p \in payments, Notify(p)
      PROVE  Moves
  <2>1. p.o \in Orders
    BY RealConfs
  <2> QED  BY <1>2, <2>1, LedgerSettles DEF Notify
<1>3. ASSUME draft' = draft, balance' = balance, status' = status, opens' = opens
      PROVE  Moves
  BY <1>3, NothingMoves
<1> QED  BY <1>1, <1>2, <1>3, LedgerManages, LedgerRequests
         DEF Next, selectCachedPaymentAttempt, SavePayment, UserPays, vars, orderVars

LEMMA LedgerInitially == Init => Ledger!LedgerInit
<1> SUFFICES ASSUME Init PROVE Ledger!LedgerInit
  OBVIOUS
<1>1. opens = [o \in Orders |-> 0] /\ TypeOK
  BY InitTypes DEF Init
<1>2. \A o \in Orders : /\ status[o] \in {"absent", "paid"}
                        /\ status[o] = "paid" => draft[o] \in LegacyDrafts
  <2>1. CASE EmptyTables
    BY <2>1 DEF EmptyTables
  <2>2. ASSUME NEW d \in LegacyDrafts, NEW m \in Methods, LegacyRow(d, m),
               NEW o \in Orders
        PROVE  status[o] \in {"absent", "paid"} /\ (status[o] = "paid" => draft[o] \in LegacyDrafts)
    BY <2>2 DEF LegacyRow
  <2> QED  BY <2>1, <2>2 DEF Init
<1>3. ASSUME NEW o \in Orders, status[o] = "paid"
      PROVE  [user |-> draft[o].user, hold |-> draft[o].bal, credit |-> Credit(o)]
               \in [user : Users, hold : Nat, credit : Nat]
  <2>1. /\ draft[o].user \in Users /\ draft[o].bal \in Nat /\ draft[o].refund \in Nat
        /\ draft[o].total \in Int /\ (draft[o].kind = "deposit" => draft[o].total >= 0)
    BY <1>2, <1>3, LegacyAssumption DEF Drafts
  <2>2. Credit(o) \in Nat
    BY <2>1 DEF Credit
  <2> QED  BY <2>1, <2>2
<1>4. \A o \in Orders : /\ Stage(o) \in {"absent", "held"}
                        /\ Stage(o) = "held" => status[o] = "paid"
  BY <1>1, <1>2, Stages
<1>5. ASSUME NEW u \in Users PROVE balance[u] \in 0..Funds
  <2>1. Funds \in Nat
    BY BoundsAssumption
  <2>2. CASE EmptyTables
    BY <2>1, <2>2 DEF EmptyTables
  <2>3. ASSUME NEW d \in LegacyDrafts, NEW m \in Methods, LegacyRow(d, m)
        PROVE  balance[u] \in 0..Funds
    <3>1. d.bal \in Nat /\ d.bal <= Funds
      BY LegacyAssumption DEF Drafts
    <3>2. balance[u] \in {Funds, Funds - d.bal}
      BY <2>3 DEF LegacyRow
    <3> QED  BY <2>1, <3>1, <3>2
  <2> QED  BY <2>2, <2>3 DEF Init
<1> QED  BY <1>3, <1>4, <1>5 DEF Ledger!LedgerInit, Ledger!Terms

(* OrderPayment implements WalletLedger: whatever callbacks, cancellations,
   recoveries, sweeps and refunds do, the hold of an order is given back or
   consumed once, an opening pays its credit once, and reopening takes the hold
   again first.                                                             *)
THEOREM WalletLedgerImplemented == Spec => ImplementsLedger
<1>1. TypeOK /\ PaymentRest /\ OpenedOnly => Core
  BY DEF Core, PaymentRest
<1>2. Core /\ TypeOK' /\ [Next]_vars => [Ledger!LedgerNext]_(Ledger!ledgerVars)
  BY LedgerStep DEF Moves
<1> QED  BY <1>1, <1>2, LedgerInitially, PaymentInvHolds, OpenedOnlyHolds, TypeCorrect, PTL
         DEF Spec, ImplementsLedger

LEMMA BalancedInitially == Init => WalletConserved
<1> SUFFICES ASSUME Init, NEW u \in Users
             PROVE  balance[u] = Funds + SumFunctionOnSet(OwnMoves(u), Orders)
  BY DEF WalletConserved, SumFunction, OwnMoves
<1> DEFINE f == OwnMoves(u)
<1>1. TypeOK /\ \A o \in Orders : opens[o] = 0
  BY InitTypes DEF Init
<1>2. \A o \in Orders : Earned(o) = 0
  BY <1>1, OwnMovesTypes DEF Earned
<1>3. ASSUME EmptyTables
      PROVE  balance[u] = Funds + SumFunctionOnSet(f, Orders)
  <2>1. \A o \in Orders : Held(o) = 0
    BY <1>3 DEF EmptyTables, Held
  <2>2. \A o \in Orders : f[o] = 0
    BY <1>2, <2>1 DEF OwnMoves, Moved
  <2> HIDE DEF f
  <2>3. SumFunctionOnSet(f, Orders) = 0
    BY <2>2, OrdersFinite, SumZero
  <2> QED  BY <1>3, <2>3, BoundsAssumption DEF EmptyTables
<1>4. ASSUME NEW d \in LegacyDrafts, NEW m \in Methods, LegacyRow(d, m)
      PROVE  balance[u] = Funds + SumFunctionOnSet(f, Orders)
  <2> DEFINE none == [o \in Orders |-> 0]
             held == IF d.user = u THEN 0 - d.bal ELSE 0
  <2>1. d.bal \in Nat /\ 1 \in Orders /\ held \in Int
    BY LegacyAssumption, BoundsAssumption DEF Drafts, Orders
  <2>2. \A o \in Orders : Held(o) = IF o = 1 THEN d.bal ELSE 0
    BY <1>4 DEF LegacyRow, Held
  <2>3. \A o \in Orders : Moved(o) = IF o = 1 THEN 0 - d.bal ELSE 0
    BY <1>2, <2>1, <2>2 DEF Moved
  <2>4. \A o \in Orders : f[o] = IF o = 1 THEN held ELSE 0
    BY <1>4, <2>1, <2>3 DEF OwnMoves, LegacyRow
  <2> HIDE DEF f, held
  <2>5. Ints(none, Orders) /\ Ints(f, Orders) /\ \A o \in Orders : o # 1 => f[o] = none[o]
    BY <2>1, <2>4 DEF Ints
  <2>6. SumFunctionOnSet(none, Orders) = 0
    BY OrdersFinite, SumZero
  <2>7. SumFunctionOnSet(f, Orders) = SumFunctionOnSet(none, Orders) + (f[1] - none[1])
    <3> HIDE DEF none
    <3> QED  BY <2>1, <2>5, OrdersFinite, SumChanged
  <2>8. SumFunctionOnSet(f, Orders) = held
    BY <2>1, <2>4, <2>6, <2>7
  <2>9. balance[u] = IF u = d.user THEN Funds - d.bal ELSE Funds
    BY <1>4 DEF LegacyRow
  <2> QED  BY <2>1, <2>8, <2>9, BoundsAssumption DEF held
<1> QED  BY <1>3, <1>4 DEF Init

(* The wallet equation: every user's balance is the starting funds, minus what
   orders awaiting payment hold, plus for every opening of an order its credit
   minus its balance_amount, however callbacks, cancellations, recoveries, sweeps
   and refunds interleave.                                                   *)
THEOREM WalletConservedHolds == Spec => []WalletConserved
<1>1. TypeOK /\ PaymentRest /\ OpenedOnly => Core
  BY DEF Core, PaymentRest
<1>2. Core /\ TypeOK' /\ WalletConserved /\ [Next]_vars => WalletConserved'
  BY LedgerStep DEF Moves, Balanced
<1> QED  BY <1>1, <1>2, BalancedInitially, PaymentInvHolds, OpenedOnlyHolds, TypeCorrect, PTL
         DEF Spec
=============================================================================
