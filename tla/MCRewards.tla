------------------------------ MODULE MCRewards ------------------------------
(***************************************************************************)
(* What an order earns and what makes it cheaper, for TLC: Commission,     *)
(* InviteCampaign and Vouchers.  They meet only in the price of an order,  *)
(* which none of them looks at, so a behaviour is one of the commissions,  *)
(* of the campaigns, with codes that last or that expire, or of the        *)
(* vouchers (part), while the others rest.                                 *)
(***************************************************************************)
EXTENDS Commission, TLC

CONSTANTS
    o1, deposit, alice, bob,
    Invitees, Handlers, Reward, Target, NeverExpires, MaxCampaigns, MaxCodes, MaxInviterOrders,
    Customers, Cards, Requests, LimitUse, LimitUseWithUser, CardLimit, Value, MaxCustomerOrders

VARIABLES
    part,
    codes, campaigns, joined, inviterOrders, reg, req, buying,
    show, left, customerOrders, cardLeft, used, balance, tx

campaignVars == <<codes, campaigns, joined, inviterOrders, reg, req, buying>>
voucherVars == <<show, left, customerOrders, cardLeft, used, balance, tx>>

C == INSTANCE InviteCampaign WITH
         records <- joined, orders <- inviterOrders, MaxOrders <- MaxInviterOrders
V == INSTANCE Vouchers WITH
         orders <- customerOrders, Users <- Customers, MaxOrders <- MaxCustomerOrders

ASSUME RewardsAssumption == C!InviteCampaignAssumption /\ V!VouchersAssumption

\* All orders but a deposit have the same inviter.
MCInviterOf == [o \in Orders |-> IF o = deposit THEN bob ELSE alice]
MCAmount == [o \in Orders |-> 1]

\* Names that nothing tells apart.  As only one part of a behaviour moves, the
\* parts share names: the tokens, handlers and requests, and the keys, invitees
\* and customers.
Interchangeable == Permutations(Tokens) \cup Permutations(Keys)

MCInit == Init /\ C!Init /\ V!Init /\ part \in {"commission", "lasting", "expiring", "voucher"}

\* Bounds: the setting of a behaviour stays as it is; where codes last the
\* inviter orders once, where they expire one request is handled at a time.
SettingKept ==
    /\ \A i \in Invitees :
         reg'[i].phase \in {"found", "locked"} => reg'[i].expires = (part = "expiring")
    /\ part = "lasting" => Len(inviterOrders') <= 1
    /\ part = "expiring" => Cardinality({h \in Handlers : req'[h] # C!NoReq}) <= 1

MCNext ==
    /\ UNCHANGED part
    /\ \/ part = "commission" /\ Next /\ UNCHANGED <<campaignVars, voucherVars>>
       \/ part \in {"lasting", "expiring"} /\ C!Next /\ SettingKept /\ UNCHANGED <<vars, voucherVars>>
       \/ part = "voucher" /\ V!Next /\ UNCHANGED <<vars, campaignVars>>

MCSpec == MCInit /\ [][MCNext]_<<part, vars, campaignVars, voucherVars>>

\* The properties of InviteCampaign and of Vouchers.
AmountAgrees == C!AmountAgrees
DiscountOnce == C!DiscountOnce
CouponConserved == V!CouponConserved
=============================================================================
