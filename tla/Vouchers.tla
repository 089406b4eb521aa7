------------------------------ MODULE Vouchers ------------------------------
(***************************************************************************)
(* A coupon spent by orders (user/order_write.go) and gift cards redeemed  *)
(* for balance (user/account_actions.go).                                  *)
(*                                                                         *)
(* Each request is a transaction that locks its user's row first, then the *)
(* row of the coupon or card (FOR UPDATE), and writes back what it read    *)
(* under these locks when it commits.  Rows held are derived from phases.  *)
(***************************************************************************)
EXTENDS Naturals, Sequences, FiniteSets

CONSTANTS Users, Cards, Requests,
          LimitUse, LimitUseWithUser,   \* of the coupon
          CardLimit, Value,             \* limit_use and value of each gift card
          MaxOrders                     \* bound

VouchersAssumption ==
  /\ LimitUse \in Nat /\ LimitUseWithUser \in Nat /\ CardLimit \in Nat
  /\ Value \in Nat /\ MaxOrders \in Nat

VARIABLES
  show, left,       \* v2_coupon: "show" and limit_use
  orders,           \* v2_order: user, whether it has the coupon, status
  cardLeft, used,   \* v2_giftcard: limit_use and used_user_ids
  balance,          \* v2_user.balance
  tx                \* transactions: what each has locked and read

vars == <<show, left, orders, cardLeft, used, balance, tx>>
tables == <<show, left, orders, cardLeft, used, balance>>

NoTx == [op |-> "none"]

Init ==
  /\ show = TRUE /\ left = LimitUse /\ orders = <<>>
  /\ cardLeft = [k \in Cards |-> CardLimit] /\ used = [k \in Cards |-> {}]
  /\ balance = [u \in Users |-> 0]
  /\ tx = [p \in Requests |-> NoTx]

Busy == {p \in Requests : tx[p].op # "none"}
UserHeld(u) == \E p \in Busy : tx[p].user = u
CouponHeld == \E p \in Busy : tx[p].op = "coupon"
CardHeld(k) == \E p \in Busy : tx[p].op = "card" /\ tx[p].card = k

Ended(p) == tx' = [tx EXCEPT ![p] = NoTx]

\* Any failure rolls the transaction back.
Rollback(p) ==
  /\ p \in Busy /\ Ended(p)
  /\ UNCHANGED tables

-----------------------------------------------------------------------------
\* SaveOrder: the user is locked and may have one order waiting...
Pending(u) == \E o \in DOMAIN orders : orders[o].user = u /\ orders[o].status \in {"new", "paid"}

SaveOrder(p, u) ==
  /\ tx[p] = NoTx /\ ~UserHeld(u) /\ ~Pending(u)
  /\ tx' = [tx EXCEPT ![p] = [op |-> "order", user |-> u]]
  /\ UNCHANGED tables

UsedCount(u) ==
  Cardinality({o \in DOMAIN orders : /\ orders[o].user = u /\ orders[o].coupon
                                     /\ orders[o].status \notin {"new", "cancelled"}})

\* Seeded fault: the coupon is read without its lock.
loadCouponStale(p) ==
  /\ tx[p].op = "order"
  /\ show /\ left > 0 /\ UsedCount(tx[p].user) < LimitUseWithUser
  /\ tx' = [tx EXCEPT ![p] = [op |-> "coupon", user |-> tx[p].user, left |-> left]]
  /\ UNCHANGED tables

\* ...the coupon is locked and examined...
loadCouponTx(p) ==
  /\ tx[p].op = "order" /\ ~CouponHeld
  /\ show /\ left > 0 /\ UsedCount(tx[p].user) < LimitUseWithUser
  /\ tx' = [tx EXCEPT ![p] = [op |-> "coupon", user |-> tx[p].user, left |-> left]]
  /\ UNCHANGED tables

\* ...and the order takes one use with it.  Cancelling does not give it back.
OrderSaved(p) ==
  /\ tx[p].op \in {"order", "coupon"} /\ Len(orders) < MaxOrders
  /\ orders' = Append(orders, [user |-> tx[p].user, coupon |-> tx[p].op = "coupon",
                               status |-> "new"])
  /\ left' = IF tx[p].op = "coupon" THEN tx[p].left - 1 ELSE left
  /\ Ended(p)
  /\ UNCHANGED <<show, cardLeft, used, balance>>

\* OrderPayment settles orders: new, then paid or cancelled, then opened.
Settle(o) ==
  /\ o \in DOMAIN orders
  /\ \E status \in CASE orders[o].status = "new" -> {"paid", "cancelled", "done"}
                     [] orders[o].status = "paid" -> {"done"}
                     [] OTHER -> {} :
       orders' = [orders EXCEPT ![o].status = status]
  /\ UNCHANGED <<show, left, cardLeft, used, balance, tx>>

ToggleCoupon ==
  /\ ~CouponHeld
  /\ show' = ~show
  /\ UNCHANGED <<left, orders, cardLeft, used, balance, tx>>

-----------------------------------------------------------------------------
\* RedeemGiftcard: the user is locked and read, then the card...
RedeemGiftcard(p, u) ==
  /\ tx[p] = NoTx /\ ~UserHeld(u)
  /\ tx' = [tx EXCEPT ![p] = [op |-> "redeem", user |-> u, balance |-> balance[u]]]
  /\ UNCHANGED tables

loadGiftcardTx(p, k) ==
  /\ tx[p].op = "redeem" /\ ~CardHeld(k)
  /\ cardLeft[k] > 0 /\ tx[p].user \notin used[k]
  /\ tx' = [tx EXCEPT ![p] = [op |-> "card", user |-> tx[p].user, balance |-> tx[p].balance,
                              card |-> k, left |-> cardLeft[k], used |-> used[k]]]
  /\ UNCHANGED tables

\* ...and both rows are written from what was read.
Redeemed(p) ==
  /\ tx[p].op = "card"
  /\ balance' = [balance EXCEPT ![tx[p].user] = tx[p].balance + Value]
  /\ cardLeft' = [cardLeft EXCEPT ![tx[p].card] = tx[p].left - 1]
  /\ used' = [used EXCEPT ![tx[p].card] = tx[p].used \cup {tx[p].user}]
  /\ Ended(p)
  /\ UNCHANGED <<show, left, orders>>

Next ==
  \/ \E p \in Requests : \/ Rollback(p) \/ loadCouponTx(p) \/ OrderSaved(p) \/ Redeemed(p)
                         \/ \E u \in Users : SaveOrder(p, u) \/ RedeemGiftcard(p, u)
                         \/ \E k \in Cards : loadGiftcardTx(p, k)
  \/ \E o \in 1..MaxOrders : Settle(o)
  \/ ToggleCoupon

Spec == Init /\ [][Next]_vars

-----------------------------------------------------------------------------
(* Properties *)

\* The tables, one waiting order per user, and one holder per row.
TypeOK ==
  /\ show \in BOOLEAN /\ left \in 0..LimitUse
  /\ \A k \in Cards : cardLeft[k] \in 0..CardLimit /\ used[k] \subseteq Users
  /\ \A u \in Users :
       Cardinality({o \in DOMAIN orders : /\ orders[o].user = u
                                          /\ orders[o].status \in {"new", "paid"}}) <= 1
  /\ \A p, q \in Busy : p # q => tx[p].user # tx[q].user

\* Every use of a limited coupon is an order's, whoever orders at the same time.
CouponConserved ==
  left + Cardinality({o \in DOMAIN orders : orders[o].coupon}) = LimitUse
=============================================================================
