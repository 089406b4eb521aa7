--------------------------- MODULE InviteCampaign ---------------------------
(***************************************************************************)
(* The invitation campaigns of one inviter (user/invite_campaign.go): a    *)
(* campaign collects a reward for every user who registers with its code   *)
(* (passport/service.go), and one order may spend what was collected       *)
(* (user/order_write.go).                                                  *)
(*                                                                         *)
(* Transactions run under READ COMMITTED: a statement sees what committed  *)
(* before it, a write waits for the row's holder, and only FOR UPDATE      *)
(* reads what it will write.  A transaction is the steps between which     *)
(* others can commit; rows it holds are derived from its phase.            *)
(***************************************************************************)
EXTENDS Naturals, Sequences, FiniteSets

CONSTANTS Invitees,        \* users who register
          Handlers,        \* requests of the inviter and the administrator at a time
          Reward, Target,  \* reward_amount, target_amount
          NeverExpires,    \* values invite_never_expire takes
          MaxCampaigns, MaxCodes, MaxOrders    \* bounds

InviteCampaignAssumption ==
  /\ Reward \in Nat \ {0} /\ Target \in Nat \ {0} /\ NeverExpires \subseteq BOOLEAN
  /\ MaxCampaigns \in Nat /\ MaxCodes \in Nat \ {0} /\ MaxOrders \in Nat

VARIABLES
  codes,      \* v2_invite_code: whether each may be used (status = 0)
  campaigns,  \* v2_invite_campaign
  records,    \* v2_invite_campaign_record: campaign and invitee
  orders,     \* the inviter's orders: their campaign, 0 for none, their status and,
              \* a history, whether each was ever opened
  reg,        \* registrations
  req,        \* what a handler read and is about to write
  buying      \* the inviter's order being saved, under the user's row lock

vars == <<codes, campaigns, records, orders, reg, req, buying>>

Statuses == {"active", "completed", "expired", "abandoned", "used"}
Open(c) == campaigns[c].status \in {"active", "completed"}

NoReg == [phase |-> "none", code |-> 0, expires |-> FALSE, campaign |-> 0, late |-> {},
          amount |-> 0, count |-> 0]
NoReq == [op |-> "none", campaign |-> 0]
NoOrder == [phase |-> "none", campaign |-> 0, expires |-> 0]

Init ==
  /\ codes = <<TRUE>> /\ campaigns = <<>> /\ records = {} /\ orders = <<>>
  /\ reg = [i \in Invitees |-> NoReg] /\ req = [h \in Handlers |-> NoReq]
  /\ buying = NoOrder

Lesser(m, n) == IF m < n THEN m ELSE n
Latest(C) == IF C = {} THEN 0 ELSE CHOOSE c \in C : \A d \in C : d <= c

\* The newest campaign that is active or completed.
Current == Latest({c \in DOMAIN campaigns : Open(c)})

\* Rows held by transactions that have not committed.
CodeHeld(k) == \E i \in Invitees : reg[i].expires /\ reg[i].code = k

CampaignHeld(c) ==
  \/ \E i \in Invitees : reg[i].phase = "locked" /\ reg[i].campaign = c
  \/ \E h \in Handlers : req[h].op = "create" /\ req[h].campaign = c
  \/ buying.expires = c

SetStatus(c, status) == campaigns' = [campaigns EXCEPT ![c].status = status]

\* expired_at passes; nobody is told.
Elapse(c) ==
  /\ c \in DOMAIN campaigns /\ ~campaigns[c].over
  /\ campaigns' = [campaigns EXCEPT ![c].over = TRUE]
  /\ UNCHANGED <<codes, records, orders, reg, req, buying>>

-----------------------------------------------------------------------------
\* CreateInviteCampaign: looks for an open campaign, expires one that is over...
Create(h) ==
  /\ req[h] = NoReq
  /\ Current # 0 => campaigns[Current].over /\ ~CampaignHeld(Current)
  /\ req' = [req EXCEPT ![h] = [op |-> "create", campaign |-> Current]]
  /\ UNCHANGED <<codes, campaigns, records, orders, reg, buying>>

Usable == {k \in DOMAIN codes : codes[k]}

Fresh(k) == [status |-> "active", over |-> FALSE, amount |-> 0, count |-> 0, code |-> k]

\* ...and binds the oldest usable code, or a new one, to a new campaign.
Created(h) ==
  /\ req[h].op = "create" /\ Len(campaigns) < MaxCampaigns
  /\ LET rest == IF req[h].campaign = 0 THEN campaigns
                 ELSE [campaigns EXCEPT ![req[h].campaign].status = "expired"]
     IN \/ \E k \in Usable :
             /\ \A j \in Usable : k <= j
             /\ ~CodeHeld(k)
             /\ campaigns' = Append(rest, Fresh(k)) /\ UNCHANGED codes
        \/ /\ Usable = {} /\ Len(codes) < MaxCodes
           /\ codes' = Append(codes, TRUE)
           /\ campaigns' = Append(rest, Fresh(Len(codes) + 1))
  /\ req' = [req EXCEPT ![h] = NoReq]
  /\ UNCHANGED <<records, orders, reg, buying>>

CreateFails(h) ==
  /\ req[h].op = "create"
  /\ req' = [req EXCEPT ![h] = NoReq]
  /\ UNCHANGED <<codes, campaigns, records, orders, reg, buying>>

\* refreshInviteCampaignStatus: every page that shows a campaign whose time is
\* over writes so, by id and whatever has become of it since.
Look(h, c) ==
  /\ req[h] = NoReq /\ c \in DOMAIN campaigns /\ Open(c) /\ campaigns[c].over
  /\ req' = [req EXCEPT ![h] = [op |-> "expire", campaign |-> c]]
  /\ UNCHANGED <<codes, campaigns, records, orders, reg, buying>>

\* AbandonInviteCampaign writes by id as well.
Abandon(h) ==
  /\ req[h] = NoReq /\ Current # 0 /\ ~campaigns[Current].over
  /\ req' = [req EXCEPT ![h] = [op |-> "abandon", campaign |-> Current]]
  /\ UNCHANGED <<codes, campaigns, records, orders, reg, buying>>

Written(h) ==
  /\ req[h].op \in {"expire", "abandon"} /\ ~CampaignHeld(req[h].campaign)
  /\ SetStatus(req[h].campaign, IF req[h].op = "expire" THEN "expired" ELSE "abandoned")
  /\ req' = [req EXCEPT ![h] = NoReq]
  /\ UNCHANGED <<codes, records, orders, reg, buying>>

-----------------------------------------------------------------------------
\* Register: the code is looked up, and the time is taken...
FindCode(i) ==
  /\ reg[i].phase = "none"
  /\ \E k \in Usable :
       reg' = [reg EXCEPT ![i] = [NoReg EXCEPT !.phase = "code", !.code = k,
                                  !.late = {c \in DOMAIN campaigns : campaigns[c].over}]]
  /\ UNCHANGED <<codes, campaigns, records, orders, req, buying>>

\* ...then the campaign of that code, and the code is expired...
FindCampaign(i) ==
  LET k == reg[i].code
      c == Latest({d \in DOMAIN campaigns : Open(d) /\ campaigns[d].code = k})
  IN /\ reg[i].phase = "code"
     /\ \E never \in NeverExpires :
          /\ never \/ ~CodeHeld(k)
          /\ reg' = [reg EXCEPT ![i].phase = "found", ![i].expires = ~never,
                                ![i].campaign = IF c # 0 /\ campaigns[c].status = "active"
                                                   /\ c \notin reg[i].late
                                                THEN c ELSE 0]
     /\ UNCHANGED <<codes, campaigns, records, orders, req, buying>>

Accrues(i) == campaigns[reg[i].campaign].status = "active"

\* ...and, when the user exists, the campaign is locked and looked at again.
Counted(i) ==
  IF Accrues(i)
  THEN [reg[i] EXCEPT !.phase = "locked", !.amount = campaigns[reg[i].campaign].amount,
                      !.count = campaigns[reg[i].campaign].count]
  ELSE [reg[i] EXCEPT !.campaign = 0]

\* Seeded fault: the campaign is read without its lock.
LockCampaignUnlocked(i) ==
  /\ reg[i].phase = "found" /\ reg[i].campaign # 0
  /\ reg' = [reg EXCEPT ![i] = Counted(i)]
  /\ UNCHANGED <<codes, campaigns, records, orders, req, buying>>

LockCampaign(i) ==
  /\ reg[i].phase = "found" /\ reg[i].campaign # 0 /\ ~CampaignHeld(reg[i].campaign)
  /\ reg' = [reg EXCEPT ![i] = Counted(i)]
  /\ UNCHANGED <<codes, campaigns, records, orders, req, buying>>

\* accrueInviteRegistrationTx: what was read is written back with the reward.
Rewarded(i) ==
  LET amount == Lesser(Target, reg[i].amount + Reward)
  IN [campaigns EXCEPT ![reg[i].campaign].amount = amount,
                       ![reg[i].campaign].count = reg[i].count + 1,
                       ![reg[i].campaign].status = IF amount >= Target THEN "completed"
                                                   ELSE "active"]

Register(i) ==
  /\ \/ reg[i].phase = "locked"
     \/ reg[i].phase = "found" /\ reg[i].campaign = 0
  /\ codes' = IF reg[i].expires THEN [codes EXCEPT ![reg[i].code] = FALSE] ELSE codes
  /\ IF reg[i].phase = "locked"
     THEN campaigns' = Rewarded(i) /\ records' = records \cup {<<reg[i].campaign, i>>}
     ELSE UNCHANGED <<campaigns, records>>
  /\ reg' = [reg EXCEPT ![i] = [NoReg EXCEPT !.phase = "done", !.code = reg[i].code]]
  /\ UNCHANGED <<orders, req, buying>>

RegisterFails(i) ==
  /\ reg[i].phase \in {"code", "found", "locked"}
  /\ reg' = [reg EXCEPT ![i] = NoReg]
  /\ UNCHANGED <<codes, campaigns, records, orders, req, buying>>

-----------------------------------------------------------------------------
\* SaveOrder holds the inviter's row and refuses a second waiting order; the
\* campaign is read without a lock.
Pending == \E o \in DOMAIN orders : orders[o].status = "new"

SaveOrder ==
  /\ buying = NoOrder /\ ~Pending /\ Len(orders) < MaxOrders
  /\ \/ /\ Current # 0 /\ campaigns[Current].over /\ ~CampaignHeld(Current)
        /\ buying' = [phase |-> "read", campaign |-> 0, expires |-> Current]
     \/ /\ Current # 0 /\ ~campaigns[Current].over /\ campaigns[Current].amount > 0
        /\ buying' = [phase |-> "read", campaign |-> Current, expires |-> 0]
     \/ buying' = [phase |-> "read", campaign |-> 0, expires |-> 0]  \* another plan
  /\ UNCHANGED <<codes, campaigns, records, orders, reg, req>>

OrderSaved ==
  /\ buying.phase = "read"
  /\ orders' = Append(orders, [campaign |-> buying.campaign, status |-> "new", opened |-> FALSE])
  /\ IF buying.expires = 0 THEN UNCHANGED campaigns ELSE SetStatus(buying.expires, "expired")
  /\ buying' = NoOrder
  /\ UNCHANGED <<codes, records, reg, req>>

OrderFails ==
  /\ buying.phase = "read"
  /\ buying' = NoOrder
  /\ UNCHANGED <<codes, campaigns, records, orders, reg, req>>

\* A waiting order is cancelled, an opened one refunded: its campaign stays as it is.
Cancel(o) ==
  /\ o \in DOMAIN orders /\ orders[o].status \in {"new", "done"}
  /\ orders' = [orders EXCEPT ![o].status = "cancelled"]
  /\ UNCHANGED <<codes, campaigns, records, reg, req, buying>>

\* Seeded fault: the opened order does not spend its campaign.
markInviteCampaignUsedLater(c) == UNCHANGED campaigns

markInviteCampaignUsedTx(c) ==
  IF c = 0 THEN UNCHANGED campaigns
  ELSE ~CampaignHeld(c) /\ SetStatus(c, "used")

\* A waiting order is paid, or the late payment of a cancelled one recovers it; either
\* takes the inviter's row, and neither looks at what became of the campaign since.
OpenOrder(o) ==
  /\ buying = NoOrder
  /\ o \in DOMAIN orders /\ orders[o].status \in {"new", "cancelled"}
  /\ orders' = [orders EXCEPT ![o].status = "done", ![o].opened = TRUE]
  /\ markInviteCampaignUsedTx(orders[o].campaign)
  /\ UNCHANGED <<codes, records, reg, req, buying>>

Next ==
  \/ \E c \in 1..MaxCampaigns : Elapse(c) \/ \E h \in Handlers : Look(h, c)
  \/ \E h \in Handlers : Create(h) \/ Created(h) \/ CreateFails(h) \/ Abandon(h) \/ Written(h)
  \/ \E i \in Invitees : FindCode(i) \/ FindCampaign(i) \/ LockCampaign(i) \/ Register(i)
                         \/ RegisterFails(i)
  \/ SaveOrder \/ OrderSaved \/ OrderFails
  \/ \E o \in 1..MaxOrders : Cancel(o) \/ OpenOrder(o)

Spec == Init /\ [][Next]_vars

-----------------------------------------------------------------------------
(* Properties *)

\* The tables, and references between them that no foreign key checks.
TypeOK ==
  /\ \A c \in DOMAIN campaigns :
       /\ campaigns[c].status \in Statuses /\ campaigns[c].over \in BOOLEAN
       /\ campaigns[c].amount \in 0..Target /\ campaigns[c].count \in 0..Cardinality(Invitees)
       /\ campaigns[c].code \in DOMAIN codes
  /\ \A r \in records : r[1] \in DOMAIN campaigns /\ r[2] \in Invitees
                        /\ reg[r[2]].phase = "done" /\ reg[r[2]].code = campaigns[r[1]].code
  /\ \A o \in DOMAIN orders : orders[o].campaign \in 0..Len(campaigns)
                              /\ orders[o].status \in {"new", "cancelled", "done"}
                              /\ (orders[o].status = "done" => orders[o].opened)
  /\ Cardinality({o \in DOMAIN orders : orders[o].status = "new"}) <= 1

\* What a campaign has collected is what its records are worth, however many
\* users register at the same moment (the row lock of accrueInviteRegistrationTx).
AmountAgrees ==
  \A c \in DOMAIN campaigns :
    LET n == Cardinality({r \in records : r[1] = c})
    IN campaigns[c].count = n /\ campaigns[c].amount = Lesser(Target, n * Reward)

\* No order is given the discount of a campaign that another order holds or has spent:
\* an earlier order of the campaign was cancelled before it was ever opened, even when
\* pages that read the campaign earlier still write its status, and orders are
\* recovered or refunded at any time.  (A cancelled order that is recovered after the
\* next one was saved shares the discount with it: the code asks no more then.)
\* (user/order_write.go:726-760, 879-883; payment_lifecycle.go:148-221)
DiscountOnce ==
  [][\A p \in DOMAIN orders' \ DOMAIN orders :
        orders'[p].campaign # 0 =>
          \A o \in DOMAIN orders : orders[o].campaign = orders'[p].campaign =>
              orders[o].status = "cancelled" /\ ~orders[o].opened]_vars
=============================================================================
