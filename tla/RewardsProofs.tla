--------------------------- MODULE RewardsProofs ---------------------------
(* Proofs about the vouchers, the invitation campaigns and the commission, for
   any number of users, orders, cards, codes and requests, any limits and any
   amounts.  The parts have the names MCRewards gives them.                  *)
EXTENDS MCRewards, TLAPS, FiniteSetTheorems, SequenceTheorems, WellFoundedInduction

(* Each instance has a name of its own for the operator of FiniteSets.       *)
LEMMA SameCardinality ==
    ASSUME NEW U
    PROVE  V!Cardinality(U) = Cardinality(U) /\ C!Cardinality(U) = Cardinality(U)
BY DEF V!Cardinality, C!Cardinality, Cardinality

-----------------------------------------------------------------------------
(* Coupons and gift cards                                                    *)

CustomerOrder == [user : Customers, coupon : BOOLEAN, status : {"new", "paid", "cancelled", "done"}]

Transactions ==
    {V!NoTx} \cup [op : {"order"}, user : Customers]
             \cup [op : {"coupon"}, user : Customers, left : Nat]
             \cup [op : {"redeem"}, user : Customers, balance : Nat]
             \cup [op : {"card"}, user : Customers, balance : Nat, card : Cards, left : Nat,
                   used : SUBSET Customers]

VoucherShape ==
    /\ show \in BOOLEAN /\ left \in Nat /\ customerOrders \in Seq(CustomerOrder)
    /\ cardLeft \in [Cards -> Nat] /\ used \in [Cards -> SUBSET Customers]
    /\ balance \in [Customers -> Nat] /\ tx \in [Requests -> Transactions]

(* A row has one holder: of two transactions no user, coupon or card is both's. *)
OneHolder ==
    \A p, q \in V!Busy : p # q =>
        /\ tx[p].user # tx[q].user
        /\ ~(tx[p].op = "coupon" /\ tx[q].op = "coupon")
        /\ tx[p].op = "card" /\ tx[q].op = "card" => tx[p].card # tx[q].card

(* What a transaction read under its locks is still true.                    *)
ReadTrue(p) ==
    /\ tx[p].op \in {"order", "coupon"} => ~V!Pending(tx[p].user)
    /\ tx[p].op = "coupon" => tx[p].left = left /\ left > 0
    /\ tx[p].op \in {"redeem", "card"} => tx[p].balance = balance[tx[p].user]
    /\ tx[p].op = "card" =>
         /\ tx[p].left = cardLeft[tx[p].card] /\ tx[p].left > 0
         /\ tx[p].used = used[tx[p].card] /\ tx[p].user \notin tx[p].used

Waits(o) == customerOrders[o].status \in {"new", "paid"}

OneWaits ==
    \A o, q \in DOMAIN customerOrders :
        Waits(o) /\ Waits(q) /\ customerOrders[o].user = customerOrders[q].user => o = q

(* Every use of a gift card is a user's.                                     *)
CardsConserved ==
    \A k \in Cards : IsFiniteSet(used[k]) /\ cardLeft[k] + Cardinality(used[k]) = CardLimit

WithCoupon == {o \in DOMAIN customerOrders : customerOrders[o].coupon}

CouponsConserved == left + Cardinality(WithCoupon) = LimitUse

VoucherInv ==
    /\ VoucherShape /\ OneHolder /\ \A p \in Requests : ReadTrue(p)
    /\ OneWaits /\ CardsConserved /\ CouponsConserved

(* A transaction has exactly one of the shapes, told apart by op.            *)
LEMMA TxParts ==
    ASSUME VoucherShape, NEW p \in Requests
    PROVE  /\ tx[p].op \in {"none", "order", "coupon", "redeem", "card"}
           /\ tx[p].op = "none" <=> tx[p] = V!NoTx
           /\ tx[p].op # "none" => tx[p].user \in Customers
           /\ tx[p].op \in {"redeem", "card"} => tx[p].balance \in Nat
           /\ tx[p].op = "coupon" => tx[p].left \in Nat
           /\ tx[p].op = "card" => /\ tx[p].card \in Cards /\ tx[p].left \in Nat
                                   /\ tx[p].used \in SUBSET Customers
<1>1. tx[p] \in Transactions
  BY DEF VoucherShape
<1> QED  BY <1>1 DEF Transactions, V!NoTx

(* The rows of the orders.                                                   *)
LEMMA OrderParts ==
    ASSUME VoucherShape
    PROVE  /\ Len(customerOrders) \in Nat /\ DOMAIN customerOrders = 1..Len(customerOrders)
           /\ \A o \in DOMAIN customerOrders : customerOrders[o] \in CustomerOrder
           /\ IsFiniteSet(WithCoupon) /\ Cardinality(WithCoupon) \in Nat
<1>1. /\ Len(customerOrders) \in Nat /\ DOMAIN customerOrders = 1..Len(customerOrders)
      /\ \A o \in DOMAIN customerOrders : customerOrders[o] \in CustomerOrder
  BY DEF VoucherShape
<1>2. IsFiniteSet(1..Len(customerOrders))
  BY <1>1, FS_Interval
<1>3. WithCoupon \subseteq 1..Len(customerOrders)
  BY <1>1 DEF WithCoupon
<1>4. IsFiniteSet(WithCoupon)
  BY <1>2, <1>3, FS_Subset
<1> QED  BY <1>1, <1>4, FS_CardinalityType

(* A transaction that only reads keeps what holds of the tables.             *)
LEMMA ReadKeeps ==
    ASSUME VoucherInv, NEW p \in Requests, NEW r \in Transactions,
           tx' = [tx EXCEPT ![p] = r], UNCHANGED V!tables,
           ReadTrue(p)',
           \A q \in V!Busy \ {p} : r.op # "none" =>
               /\ r.user # tx[q].user
               /\ ~(r.op = "coupon" /\ tx[q].op = "coupon")
               /\ r.op = "card" /\ tx[q].op = "card" => r.card # tx[q].card
    PROVE  VoucherInv'
<1>1. /\ tx' \in [Requests -> Transactions] /\ tx'[p] = r
      /\ \A q \in Requests \ {p} : tx'[q] = tx[q]
  BY DEF VoucherInv, VoucherShape
<1>2. /\ show' = show /\ left' = left /\ customerOrders' = customerOrders
      /\ cardLeft' = cardLeft /\ used' = used /\ balance' = balance
  BY DEF V!tables
<1>3. VoucherShape'
  BY <1>1, <1>2 DEF VoucherInv, VoucherShape
<1>4. OneHolder'
  <2> SUFFICES ASSUME NEW q \in V!Busy', NEW s \in V!Busy', q # s
               PROVE  /\ tx'[q].user # tx'[s].user
                      /\ ~(tx'[q].op = "coupon" /\ tx'[s].op = "coupon")
                      /\ tx'[q].op = "card" /\ tx'[s].op = "card" => tx'[q].card # tx'[s].card
    BY DEF OneHolder
  <2>1. q \in Requests /\ s \in Requests /\ tx'[q].op # "none" /\ tx'[s].op # "none"
    BY DEF V!Busy
  <2>2. CASE q # p /\ s # p
    BY <2>1, <2>2, <1>1 DEF VoucherInv, OneHolder, V!Busy
  <2>3. CASE q = p
    <3>1. s \in V!Busy \ {p} /\ tx'[s] = tx[s]
      BY <2>1, <2>3, <1>1 DEF V!Busy
    <3> QED  BY <3>1, <2>1, <2>3, <1>1
  <2>4. CASE s = p
    <3>1. q \in V!Busy \ {p} /\ tx'[q] = tx[q]
      BY <2>1, <2>4, <1>1 DEF V!Busy
    <3> QED  BY <3>1, <2>1, <2>4, <1>1
  <2> QED  BY <2>2, <2>3, <2>4
<1>5. ASSUME NEW q \in Requests
      PROVE  ReadTrue(q)'
  <2>1. CASE q = p
    BY <2>1
  <2>2. CASE q # p
    <3>1. ReadTrue(q) /\ tx'[q] = tx[q]
      BY <2>2, <1>1 DEF VoucherInv
    <3> QED  BY <3>1, <1>2 DEF ReadTrue, V!Pending
  <2> QED  BY <2>1, <2>2
<1>6. OneWaits' /\ CardsConserved' /\ CouponsConserved'
  BY <1>2 DEF VoucherInv, OneWaits, Waits, CardsConserved, CouponsConserved, WithCoupon
<1> QED  BY <1>3, <1>4, <1>5, <1>6 DEF VoucherInv

(* Ending a transaction leaves the others as they are.                       *)
LEMMA EndKeeps ==
    ASSUME VoucherInv, NEW p \in Requests, V!Ended(p)
    PROVE  /\ tx' \in [Requests -> Transactions] /\ tx'[p] = V!NoTx
           /\ \A q \in Requests \ {p} : tx'[q] = tx[q]
           /\ V!Busy' = V!Busy \ {p}
           /\ OneHolder'
<1>1. /\ tx' \in [Requests -> Transactions] /\ tx'[p] = V!NoTx
      /\ \A q \in Requests \ {p} : tx'[q] = tx[q]
  BY DEF VoucherInv, VoucherShape, V!Ended, Transactions
<1>2. V!Busy' = V!Busy \ {p}
  BY <1>1 DEF V!Busy, V!NoTx
<1>3. \A q \in V!Busy' : q \in V!Busy /\ tx'[q] = tx[q]
  BY <1>1, <1>2 DEF V!Busy
<1>4. OneHolder'
  BY <1>3 DEF OneHolder, VoucherInv
<1> QED  BY <1>1, <1>2, <1>4

(* The reads.                                                                *)
LEMMA RequestReads ==
    ASSUME VoucherInv, NEW p \in Requests, NEW u \in Customers,
           V!SaveOrder(p, u) \/ V!RedeemGiftcard(p, u)
    PROVE  VoucherInv'
<1> USE DEF VoucherInv
<1>1. \A q \in V!Busy : tx[q].user # u
  BY DEF V!SaveOrder, V!RedeemGiftcard, V!UserHeld
<1>2. balance[u] \in Nat
  BY DEF VoucherShape
<1>3. CASE V!SaveOrder(p, u)
  <2> DEFINE r == [op |-> "order", user |-> u]
  <2>1. r \in Transactions /\ tx' = [tx EXCEPT ![p] = r] /\ UNCHANGED V!tables /\ ~V!Pending(u)
    BY <1>3 DEF V!SaveOrder, Transactions
  <2>2. tx'[p] = r
    BY <2>1 DEF VoucherShape
  <2>3. ReadTrue(p)'
    BY <2>1, <2>2 DEF ReadTrue, V!Pending, V!tables
  <2> QED  BY <2>1, <2>3, <1>1, ReadKeeps
<1>4. CASE V!RedeemGiftcard(p, u)
  <2> DEFINE r == [op |-> "redeem", user |-> u, balance |-> balance[u]]
  <2>1. r \in Transactions /\ tx' = [tx EXCEPT ![p] = r] /\ UNCHANGED V!tables
    BY <1>4, <1>2 DEF V!RedeemGiftcard, Transactions
  <2>2. tx'[p] = r
    BY <2>1 DEF VoucherShape
  <2>3. ReadTrue(p)'
    BY <2>1, <2>2 DEF ReadTrue, V!tables
  <2> QED  BY <2>1, <2>3, <1>1, ReadKeeps
<1> QED  BY <1>3, <1>4

LEMMA CouponRead ==
    ASSUME VoucherInv, NEW p \in Requests, V!loadCouponTx(p)
    PROVE  VoucherInv'
<1> USE DEF VoucherInv
<1> DEFINE r == [op |-> "coupon", user |-> tx[p].user, left |-> left]
<1>1. tx[p].op = "order" /\ tx[p].user \in Customers /\ p \in V!Busy
  BY TxParts DEF V!loadCouponTx, V!Busy
<1>2. /\ r \in Transactions /\ tx' = [tx EXCEPT ![p] = r] /\ UNCHANGED V!tables
      /\ left > 0 /\ \A q \in V!Busy : tx[q].op # "coupon"
  BY <1>1 DEF V!loadCouponTx, V!CouponHeld, Transactions, VoucherShape
<1>3. tx'[p] = r /\ ~V!Pending(tx[p].user)
  BY <1>1, <1>2 DEF VoucherShape, ReadTrue
<1>4. ReadTrue(p)'
  BY <1>2, <1>3 DEF ReadTrue, V!Pending, V!tables
<1>5. \A q \in V!Busy \ {p} : r.user # tx[q].user
  BY <1>1 DEF OneHolder
<1> QED  BY <1>2, <1>4, <1>5, ReadKeeps

LEMMA CardRead ==
    ASSUME VoucherInv, NEW p \in Requests, NEW k \in Cards, V!loadGiftcardTx(p, k)
    PROVE  VoucherInv'
<1> USE DEF VoucherInv
<1> DEFINE r == [op |-> "card", user |-> tx[p].user, balance |-> tx[p].balance, card |-> k,
                 left |-> cardLeft[k], used |-> used[k]]
<1>1. /\ tx[p].op = "redeem" /\ tx[p].user \in Customers /\ tx[p].balance \in Nat
      /\ tx[p].balance = balance[tx[p].user] /\ p \in V!Busy
  BY TxParts DEF V!loadGiftcardTx, ReadTrue, V!Busy
<1>2. cardLeft[k] \in Nat /\ used[k] \in SUBSET Customers
  BY DEF VoucherShape
<1>3. r \in Transactions
  BY <1>1, <1>2 DEF Transactions
<1>4. /\ tx' = [tx EXCEPT ![p] = r] /\ UNCHANGED V!tables
      /\ cardLeft[k] > 0 /\ tx[p].user \notin used[k]
      /\ \A q \in V!Busy : ~(tx[q].op = "card" /\ tx[q].card = k)
  BY DEF V!loadGiftcardTx, V!CardHeld
<1>5. tx'[p] = r
  BY <1>4 DEF VoucherShape
<1>6. ReadTrue(p)'
  BY <1>1, <1>4, <1>5 DEF ReadTrue, V!tables
<1>7. \A q \in V!Busy \ {p} : r.user # tx[q].user
  BY <1>1 DEF OneHolder
<1> QED  BY <1>3, <1>4, <1>6, <1>7, ReadKeeps

LEMMA RolledBack ==
    ASSUME VoucherInv, NEW p \in Requests, V!Rollback(p)
    PROVE  VoucherInv'
<1>1. tx' = [tx EXCEPT ![p] = V!NoTx] /\ UNCHANGED V!tables /\ V!NoTx \in Transactions
  BY DEF V!Rollback, V!Ended, Transactions
<1>2. tx'[p] = V!NoTx
  BY <1>1 DEF VoucherInv, VoucherShape
<1>3. ReadTrue(p)'
  BY <1>2 DEF ReadTrue, V!NoTx
<1> QED  BY <1>1, <1>3, ReadKeeps DEF V!NoTx

(* The writes.  What another transaction read stays true, as no row is read by
   two of them.                                                              *)
LEMMA OrderWritten ==
    ASSUME VoucherInv, NEW p \in Requests, V!OrderSaved(p)
    PROVE  VoucherInv'
<1> USE DEF VoucherInv
<1> DEFINE u == tx[p].user
           e == [user |-> u, coupon |-> tx[p].op = "coupon", status |-> "new"]
           n == Len(customerOrders)
<1>1. /\ tx[p].op \in {"order", "coupon"} /\ u \in Customers /\ ~V!Pending(u) /\ p \in V!Busy
      /\ tx[p].op = "coupon" => tx[p].left = left /\ left > 0
  BY TxParts DEF V!OrderSaved, ReadTrue, V!Busy
<1>2. /\ customerOrders' = Append(customerOrders, e) /\ V!Ended(p)
      /\ left' = IF tx[p].op = "coupon" THEN tx[p].left - 1 ELSE left
      /\ UNCHANGED <<show, cardLeft, used, balance>>
  BY DEF V!OrderSaved
<1>3. e \in CustomerOrder
  BY <1>1 DEF CustomerOrder
<1>4. /\ customerOrders' \in Seq(CustomerOrder)
      /\ n \in Nat /\ DOMAIN customerOrders = 1..n /\ DOMAIN customerOrders' = 1..(n + 1)
      /\ \A i \in 1..n : customerOrders'[i] = customerOrders[i]
      /\ customerOrders'[n + 1] = e
  BY <1>2, <1>3 DEF VoucherShape
<1> HIDE DEF e, n
<1>5. 1..(n + 1) = 1..n \cup {n + 1} /\ n + 1 \notin 1..n
  BY <1>4
<1>6. e.user = u /\ e.coupon = (tx[p].op = "coupon") /\ e.status = "new"
  BY DEF e
<1>7. /\ left' \in Nat
      /\ tx[p].op = "coupon" => left' = left - 1
      /\ tx[p].op # "coupon" => left' = left
  BY <1>1, <1>2 DEF VoucherShape
<1>8. VoucherShape' /\ OneHolder'
  BY <1>2, <1>4, <1>7, EndKeeps DEF VoucherShape
<1>9. ASSUME NEW q \in Requests
      PROVE  ReadTrue(q)'
  <2>1. CASE q = p
    BY <1>2, <2>1, EndKeeps DEF ReadTrue, V!NoTx
  <2>2. CASE q # p
    <3>1. tx'[q] = tx[q] /\ ReadTrue(q)
      BY <1>2, <2>2, EndKeeps
    <3>2. CASE tx[q].op = "none"
      BY <3>1, <3>2 DEF ReadTrue
    <3>3. CASE tx[q].op # "none"
      <4>1. tx[q].user # u /\ ~(tx[p].op = "coupon" /\ tx[q].op = "coupon")
        BY <1>1, <2>2, <3>3 DEF OneHolder, V!Busy
      <4>2. V!Pending(tx[q].user)' => V!Pending(tx[q].user)
        BY <3>1, <4>1, <1>4, <1>5, <1>6 DEF V!Pending
      <4> QED  BY <3>1, <4>1, <4>2, <1>2, <1>7 DEF ReadTrue
    <3> QED  BY <3>2, <3>3
  <2> QED  BY <2>1, <2>2
<1>10. OneWaits'
  <2>1. \A o \in 1..n : Waits(o) => customerOrders[o].user # u
    BY <1>1, <1>4 DEF V!Pending, Waits
  <2> QED  BY <2>1, <1>4, <1>5, <1>6 DEF OneWaits, Waits
<1>11. CouponsConserved'
  <2>1. IsFiniteSet(WithCoupon) /\ Cardinality(WithCoupon) \in Nat
    BY OrderParts
  <2>2. CASE tx[p].op = "coupon"
    <3>1. WithCoupon' = WithCoupon \cup {n + 1} /\ n + 1 \notin WithCoupon
      BY <2>2, <1>4, <1>5, <1>6 DEF WithCoupon
    <3>2. Cardinality(WithCoupon') = Cardinality(WithCoupon) + 1
      BY <2>1, <3>1, FS_AddElement
    <3> QED  BY <2>1, <2>2, <3>2, <1>7 DEF CouponsConserved, VoucherShape
  <2>3. CASE tx[p].op # "coupon"
    <3>1. WithCoupon' = WithCoupon
      BY <2>3, <1>4, <1>5, <1>6 DEF WithCoupon
    <3> QED  BY <2>3, <3>1, <1>7 DEF CouponsConserved
  <2> QED  BY <2>2, <2>3
<1>12. CardsConserved'
  BY <1>2 DEF CardsConserved
<1> QED  BY <1>8, <1>9, <1>10, <1>11, <1>12

LEMMA CardWritten ==
    ASSUME VoucherInv, NEW p \in Requests, V!Redeemed(p)
    PROVE  VoucherInv'
<1> USE DEF VoucherInv
<1> DEFINE u == tx[p].user
           k == tx[p].card
<1>1. /\ tx[p].op = "card" /\ u \in Customers /\ k \in Cards /\ p \in V!Busy
      /\ tx[p].balance = balance[u] /\ tx[p].left = cardLeft[k] /\ cardLeft[k] > 0
      /\ tx[p].used = used[k] /\ u \notin used[k]
  BY TxParts DEF V!Redeemed, ReadTrue, V!Busy
<1>2. /\ balance' = [balance EXCEPT ![u] = tx[p].balance + Value]
      /\ cardLeft' = [cardLeft EXCEPT ![k] = tx[p].left - 1]
      /\ used' = [used EXCEPT ![k] = tx[p].used \cup {u}]
      /\ V!Ended(p) /\ UNCHANGED <<show, left, customerOrders>>
  BY DEF V!Redeemed
<1>3. /\ cardLeft[k] \in Nat /\ used[k] \in SUBSET Customers /\ balance[u] \in Nat /\ Value \in Nat
  BY <1>1, RewardsAssumption DEF VoucherShape, V!VouchersAssumption
<1> DEFINE rest == cardLeft[k] - 1
           more == balance[u] + Value
           now == used[k] \cup {u}
<1>4. rest \in Nat /\ rest = cardLeft[k] - 1 /\ more \in Nat /\ now \in SUBSET Customers
  BY <1>1, <1>3
<1>5. /\ balance' = [balance EXCEPT ![u] = more] /\ cardLeft' = [cardLeft EXCEPT ![k] = rest]
      /\ used' = [used EXCEPT ![k] = now]
  BY <1>1, <1>2
<1>6. now = used[k] \cup {u}
  OBVIOUS
<1> HIDE DEF rest, more, now
<1>7. /\ balance' \in [Customers -> Nat] /\ cardLeft' \in [Cards -> Nat]
      /\ used' \in [Cards -> SUBSET Customers]
      /\ \A v \in Customers \ {u} : balance'[v] = balance[v]
      /\ \A j \in Cards \ {k} : cardLeft'[j] = cardLeft[j] /\ used'[j] = used[j]
      /\ cardLeft'[k] = rest /\ used'[k] = now
  BY <1>1, <1>4, <1>5 DEF VoucherShape
<1>8. VoucherShape' /\ OneHolder'
  BY <1>2, <1>7, EndKeeps DEF VoucherShape
<1>9. ASSUME NEW q \in Requests
      PROVE  ReadTrue(q)'
  <2>1. CASE q = p
    BY <1>2, <2>1, EndKeeps DEF ReadTrue, V!NoTx
  <2>2. CASE q # p
    <3>1. tx'[q] = tx[q] /\ ReadTrue(q)
      BY <1>2, <2>2, EndKeeps
    <3>2. CASE tx[q].op = "none"
      BY <3>1, <3>2 DEF ReadTrue
    <3>3. CASE tx[q].op # "none"
      <4>1. /\ tx[q].user \in Customers \ {u}
            /\ tx[q].op = "card" => tx[q].card \in Cards \ {k}
        BY <1>1, <2>2, <3>3, TxParts DEF OneHolder, V!Busy
      <4>2. V!Pending(tx[q].user)' <=> V!Pending(tx[q].user)
        BY <3>1, <1>2 DEF V!Pending
      <4> QED  BY <3>1, <4>1, <4>2, <1>2, <1>7 DEF ReadTrue
    <3> QED  BY <3>2, <3>3
  <2> QED  BY <2>1, <2>2
<1>10. CardsConserved'
  <2>1. IsFiniteSet(now) /\ Cardinality(now) = Cardinality(used[k]) + 1
    BY <1>1, <1>6, FS_AddElement DEF CardsConserved
  <2>2. IsFiniteSet(used[k]) /\ Cardinality(used[k]) \in Nat
        /\ cardLeft[k] + Cardinality(used[k]) = CardLimit
    BY <1>1, FS_CardinalityType DEF CardsConserved
  <2>3. rest + Cardinality(now) = CardLimit
    BY <2>1, <2>2, <1>3, <1>4
  <2> QED  BY <2>1, <2>3, <1>7 DEF CardsConserved
<1>11. OneWaits' /\ CouponsConserved'
  BY <1>2 DEF OneWaits, Waits, CouponsConserved, WithCoupon
<1> QED  BY <1>8, <1>9, <1>10, <1>11

(* An order that is settled stops waiting or waits on; none starts to.       *)
LEMMA OrderSettled ==
    ASSUME VoucherInv, NEW o \in 1..MaxCustomerOrders, V!Settle(o)
    PROVE  VoucherInv'
<1> USE DEF VoucherInv
<1>1. /\ o \in DOMAIN customerOrders
      /\ UNCHANGED <<show, left, cardLeft, used, balance, tx>>
  BY DEF V!Settle
<1>2. customerOrders[o] \in CustomerOrder
  BY <1>1, OrderParts
<1>3. \E status \in {"paid", "cancelled", "done"} :
        /\ customerOrders' = [customerOrders EXCEPT ![o].status = status]
        /\ Waits(o)
  BY <1>2 DEF V!Settle, Waits, CustomerOrder
<1>4. PICK status \in {"paid", "cancelled", "done"} :
        /\ customerOrders' = [customerOrders EXCEPT ![o].status = status]
        /\ Waits(o)
  BY <1>3
<1> DEFINE e == [customerOrders[o] EXCEPT !.status = status]
<1>5. e \in CustomerOrder /\ e.user = customerOrders[o].user /\ e.coupon = customerOrders[o].coupon
  BY <1>2, <1>4 DEF CustomerOrder
<1>6. customerOrders' = [customerOrders EXCEPT ![o] = e]
  BY <1>4
<1> HIDE DEF e
<1> DEFINE n == Len(customerOrders)
<1>7. /\ customerOrders' \in Seq(CustomerOrder) /\ n \in Nat
      /\ DOMAIN customerOrders = 1..n /\ DOMAIN customerOrders' = 1..n
      /\ customerOrders'[o] = e
      /\ \A i \in 1..n : i # o => customerOrders'[i] = customerOrders[i]
  BY <1>1, <1>5, <1>6, ExceptSeq DEF VoucherShape
<1> HIDE DEF n
<1>8. \A i \in 1..n : /\ customerOrders'[i].user = customerOrders[i].user
                      /\ customerOrders'[i].coupon = customerOrders[i].coupon
                      /\ Waits(i)' => Waits(i)
  BY <1>4, <1>5, <1>7 DEF Waits
<1>9. \A q \in Requests : ReadTrue(q)'
  <2>1. \A u : V!Pending(u)' => V!Pending(u)
    BY <1>7, <1>8 DEF V!Pending, Waits
  <2> QED  BY <2>1, <1>1 DEF ReadTrue
<1>10. OneWaits'
  BY <1>7, <1>8 DEF OneWaits
<1>11. WithCoupon' = WithCoupon
  BY <1>7, <1>8 DEF WithCoupon
<1>12. VoucherShape' /\ OneHolder' /\ CardsConserved' /\ CouponsConserved'
  BY <1>1, <1>7, <1>11 DEF VoucherShape, OneHolder, V!Busy, CardsConserved, CouponsConserved
<1> QED  BY <1>9, <1>10, <1>12

LEMMA VouchersMove ==
    ASSUME VoucherInv, [V!Next]_V!vars
    PROVE  VoucherInv'
<1>1. ASSUME NEW p \in Requests,
             \/ V!Rollback(p) \/ V!loadCouponTx(p) \/ V!OrderSaved(p) \/ V!Redeemed(p)
             \/ \E u \in Customers : V!SaveOrder(p, u) \/ V!RedeemGiftcard(p, u)
             \/ \E k \in Cards : V!loadGiftcardTx(p, k)
      PROVE  VoucherInv'
  BY <1>1, RolledBack, CouponRead, OrderWritten, CardWritten, RequestReads, CardRead
<1>2. ASSUME NEW o \in 1..MaxCustomerOrders, V!Settle(o)
      PROVE  VoucherInv'
  BY <1>2, OrderSettled
<1>3. CASE V!ToggleCoupon
  BY <1>3 DEF V!ToggleCoupon, VoucherInv, VoucherShape, OneHolder, V!Busy, ReadTrue, V!Pending,
              OneWaits, Waits, CardsConserved, CouponsConserved, WithCoupon
<1>4. CASE UNCHANGED V!vars
  BY <1>4 DEF V!vars, VoucherInv, VoucherShape, OneHolder, V!Busy, ReadTrue, V!Pending,
              OneWaits, Waits, CardsConserved, CouponsConserved, WithCoupon
<1> QED  BY <1>1, <1>2, <1>3, <1>4 DEF V!Next

(* What every transaction read under its locks stays true until it commits; a
   user has one order waiting, and every use of the coupon or of a gift card is
   an order's or a user's.                                                    *)
THEOREM VoucherInvHolds == V!Spec => []VoucherInv
<1>1. V!Init => VoucherInv
  <2> SUFFICES ASSUME V!Init
               PROVE  VoucherInv
    OBVIOUS
  <2>1. LimitUse \in Nat /\ CardLimit \in Nat
    BY RewardsAssumption DEF V!VouchersAssumption
  <2>2. VoucherShape
    BY <2>1 DEF V!Init, VoucherShape, Transactions
  <2>3. \A p \in Requests : tx[p].op = "none"
    BY DEF V!Init, V!NoTx
  <2>4. OneHolder /\ \A p \in Requests : ReadTrue(p)
    BY <2>3 DEF OneHolder, V!Busy, ReadTrue
  <2>5. DOMAIN customerOrders = {}
    BY DEF V!Init
  <2>6. OneWaits /\ WithCoupon = {}
    BY <2>5 DEF OneWaits, WithCoupon
  <2>7. IsFiniteSet({}) /\ Cardinality({}) = 0
    BY FS_EmptySet
  <2>8. CardsConserved /\ CouponsConserved
    BY <2>1, <2>6, <2>7 DEF V!Init, CardsConserved, CouponsConserved
  <2> QED  BY <2>2, <2>4, <2>6, <2>8 DEF VoucherInv
<1>2. VoucherInv /\ [V!Next]_V!vars => VoucherInv'
  BY VouchersMove
<1> QED  BY <1>1, <1>2, PTL DEF V!Spec

(* Every use of a limited coupon is an order's, whoever orders at the same time. *)
THEOREM CouponConservedHolds == V!Spec => []CouponConserved
<1>1. VoucherInv => CouponConserved
  <2>1. V!Cardinality(WithCoupon) = Cardinality(WithCoupon)
    BY SameCardinality
  <2> QED  BY <2>1 DEF VoucherInv, CouponsConserved, WithCoupon, CouponConserved, V!CouponConserved
<1> QED  BY <1>1, VoucherInvHolds, PTL

-----------------------------------------------------------------------------
(* Campaigns                                                                 *)

Campaign == [status : C!Statuses, over : BOOLEAN, amount : Nat, count : Nat, code : Nat]

Registration == [phase : {"none", "code", "found", "locked", "done"}, code : Nat,
                 expires : BOOLEAN, campaign : Nat, late : SUBSET Nat, amount : Nat, count : Nat]

Request == [op : {"none", "create", "expire", "abandon"}, campaign : Nat]

InviterOrder == [campaign : Nat, status : {"new", "cancelled", "done"}, opened : BOOLEAN]

CampaignShape ==
    /\ codes \in Seq(BOOLEAN) /\ campaigns \in Seq(Campaign) /\ inviterOrders \in Seq(InviterOrder)
    /\ IsFiniteSet(joined) /\ joined \subseteq (1..Len(campaigns)) \X Invitees
    /\ reg \in [Invitees -> Registration] /\ req \in [Handlers -> Request]
    /\ buying \in [phase : {"none", "read"}, campaign : Nat, expires : Nat]

(* What points to a campaign points to one that exists.                      *)
Placed ==
    /\ \A i \in Invitees : /\ reg[i].campaign \in 0..Len(campaigns)
                           /\ reg[i].phase = "locked" => reg[i].campaign # 0
    /\ \A h \in Handlers : /\ req[h].campaign \in 0..Len(campaigns)
                           /\ req[h].op \in {"expire", "abandon"} => req[h].campaign # 0
    /\ buying.campaign \in 0..Len(campaigns) /\ buying.expires \in 0..Len(campaigns)
    /\ \A o \in DOMAIN inviterOrders : inviterOrders[o].campaign \in 0..Len(campaigns)

(* Under the lock of its campaign a registration is alone, and what it read is
   still true.                                                               *)
LockedAlone(i) ==
    reg[i].phase = "locked" =>
        /\ campaigns[reg[i].campaign].status = "active"
        /\ campaigns[reg[i].campaign].amount = reg[i].amount
        /\ campaigns[reg[i].campaign].count = reg[i].count
        /\ \A j \in Invitees \ {i} : reg[j].phase = "locked" => reg[j].campaign # reg[i].campaign
        /\ \A h \in Handlers : req[h].op = "create" => req[h].campaign # reg[i].campaign
        /\ buying.expires # reg[i].campaign

(* An invitee whose registration has not committed is in no record.          *)
Unrecorded(i) == reg[i].phase # "done" => \A c \in Nat : <<c, i>> \notin joined

RecordsOf(c) == {r \in joined : r[1] = c}

Agrees(c) ==
    /\ campaigns[c].count = Cardinality(RecordsOf(c))
    /\ campaigns[c].amount = C!Lesser(Target, Cardinality(RecordsOf(c)) * Reward)

Waiting(o) == inviterOrders[o].status = "new"

(* The campaign of an order that was ever opened is closed for good; while an
   order is saved none waits, and the campaign it read was never spent.      *)
SpentClosed ==
    \A o \in DOMAIN inviterOrders :
        inviterOrders[o].opened /\ inviterOrders[o].campaign # 0 =>
            ~C!Open(inviterOrders[o].campaign)

SavingAlone ==
    buying.phase = "read" =>
        \A o \in DOMAIN inviterOrders :
            /\ ~Waiting(o)
            /\ inviterOrders[o].opened /\ buying.campaign # 0 =>
                  inviterOrders[o].campaign # buying.campaign

DoneOpened ==
    \A o \in DOMAIN inviterOrders : inviterOrders[o].status = "done" => inviterOrders[o].opened

Spending == SpentClosed /\ SavingAlone /\ DoneOpened

CampaignInv ==
    /\ CampaignShape /\ Placed
    /\ \A i \in Invitees : LockedAlone(i) /\ Unrecorded(i)
    /\ \A c \in 1..Len(campaigns) : Agrees(c)
    /\ Spending

(* A set of campaigns that is not empty has a newest one.                    *)
LEMMA Largest ==
    ASSUME NEW n \in Nat, NEW U \in SUBSET (1..n), U # {}
    PROVE  \E m \in U : \A c \in U : c <= m
<1> DEFINE R == OpToRel(<, Nat)
           D == {n - c : c \in U}
<1>1. D \subseteq Nat /\ D # {}
  <2>1. \A c \in U : c \in 1..n
    OBVIOUS
  <2>2. \A c \in U : n - c \in Nat
    BY <2>1
  <2> QED  BY <2>2
<1>2. IsWellFoundedOn(R, Nat)
  BY NatLessThanWellFounded
<1>3. \A x, y \in Nat : x < y => <<x, y>> \in R
  BY DEF OpToRel
<1> HIDE DEF R
<1> HIDE DEF D
<1>4. PICK x \in D : \A y \in D : ~(<<y, x>> \in R)
  BY <1>1, <1>2, WFMin
<1>5. ASSUME NEW y \in D
      PROVE  x <= y
  <2>1. x \in Nat /\ y \in Nat /\ ~(y < x)
    BY <1>1, <1>3, <1>4
  <2> QED  BY <2>1
<1>6. PICK m \in U : x = n - m
  BY <1>4 DEF D
<1>7. \A c \in U : n - c \in D
  BY DEF D
<1> QED  BY <1>5, <1>6, <1>7

LEMMA CurrentOpen ==
    ASSUME CampaignShape
    PROVE  /\ C!Current \in 0..Len(campaigns)
           /\ C!Current # 0 => C!Open(C!Current)
           /\ \A U \in SUBSET (1..Len(campaigns)) : C!Latest(U) \in {0} \cup U
<1>1. Len(campaigns) \in Nat /\ DOMAIN campaigns = 1..Len(campaigns)
  BY DEF CampaignShape
<1>2. ASSUME NEW U \in SUBSET (1..Len(campaigns))
      PROVE  C!Latest(U) \in {0} \cup U
  <2>1. CASE U = {}
    BY <2>1 DEF C!Latest
  <2>2. CASE U # {}
    BY <2>2, <1>1, Largest DEF C!Latest
  <2> QED  BY <2>1, <2>2
<1> DEFINE O == {c \in DOMAIN campaigns : C!Open(c)}
<1>3. C!Current \in {0} \cup O
  BY <1>1, <1>2 DEF C!Current
<1> QED  BY <1>1, <1>2, <1>3

LEMMA RegParts ==
    ASSUME CampaignShape, NEW i \in Invitees
    PROVE  /\ reg[i] \in Registration /\ C!NoReg \in Registration
           /\ Len(campaigns) \in Nat /\ DOMAIN campaigns = 1..Len(campaigns)
           /\ \A c \in 1..Len(campaigns) : campaigns[c] \in Campaign
BY DEF CampaignShape, C!NoReg, Registration

(* A registration that moves on without writing.                             *)
LEMMA RegistrationMoves ==
    ASSUME CampaignInv, NEW i \in Invitees, NEW r \in Registration,
           reg' = [reg EXCEPT ![i] = r],
           UNCHANGED <<codes, campaigns, joined, inviterOrders, req, buying>>,
           reg[i].phase # "done", r.phase # "done", r.campaign \in 0..Len(campaigns),
           r.phase = "locked" =>
               /\ r.campaign # 0 /\ ~C!CampaignHeld(r.campaign)
               /\ campaigns[r.campaign].status = "active"
               /\ campaigns[r.campaign].amount = r.amount
               /\ campaigns[r.campaign].count = r.count
    PROVE  CampaignInv'
<1> USE DEF CampaignInv
<1>1. /\ reg' \in [Invitees -> Registration] /\ reg'[i] = r
      /\ \A j \in Invitees \ {i} : reg'[j] = reg[j]
  BY DEF CampaignShape
<1>2. CampaignShape' /\ Placed'
  BY <1>1 DEF CampaignShape, Placed
<1>3. r.phase = "locked" =>
          /\ \A j \in Invitees : reg[j].phase = "locked" => reg[j].campaign # r.campaign
          /\ \A h \in Handlers : req[h].op = "create" => req[h].campaign # r.campaign
          /\ buying.expires # r.campaign
  BY DEF C!CampaignHeld
<1>4. ASSUME NEW j \in Invitees
      PROVE  LockedAlone(j)' /\ Unrecorded(j)'
  <2>1. CASE j = i
    BY <2>1, <1>1, <1>3 DEF LockedAlone, Unrecorded
  <2>2. CASE j # i
    <3>1. reg'[j] = reg[j] /\ LockedAlone(j) /\ Unrecorded(j)
      BY <2>2, <1>1
    <3>2. Unrecorded(j)'
      BY <3>1 DEF Unrecorded
    <3>3. reg[j].phase = "locked" /\ r.phase = "locked" => reg[j].campaign # r.campaign
      BY <1>3
    <3>4. \A k \in Invitees \ {j} : reg'[k].phase = "locked" /\ reg[j].phase = "locked" =>
              reg'[k].campaign # reg[j].campaign
      BY <1>1, <3>1, <3>3 DEF LockedAlone
    <3> QED  BY <3>1, <3>2, <3>4 DEF LockedAlone
  <2> QED  BY <2>1, <2>2
<1>5. \A c \in 1..Len(campaigns) : Agrees(c)'
  BY DEF Agrees, RecordsOf
<1>6. Spending'
  BY DEF Spending, SpentClosed, SavingAlone, DoneOpened, Waiting, C!Open
<1> QED  BY <1>2, <1>4, <1>5, <1>6

LEMMA CodeFound ==
    ASSUME CampaignInv, NEW i \in Invitees, C!FindCode(i)
    PROVE  CampaignInv'
<1> USE DEF CampaignInv
<1>1. PICK k \in C!Usable :
          reg' = [reg EXCEPT ![i] = [C!NoReg EXCEPT !.phase = "code", !.code = k,
                                     !.late = {c \in DOMAIN campaigns : campaigns[c].over}]]
  BY DEF C!FindCode
<1> DEFINE L == {c \in DOMAIN campaigns : campaigns[c].over}
           r == [C!NoReg EXCEPT !.phase = "code", !.code = k, !.late = L]
<1>2. k \in Nat
  BY DEF C!Usable, CampaignShape
<1>3. L \in SUBSET Nat
  BY RegParts
<1> HIDE DEF L
<1>4. r \in Registration /\ r.phase = "code" /\ r.campaign = 0
  BY <1>2, <1>3 DEF Registration, C!NoReg
<1>5. reg' = [reg EXCEPT ![i] = r]
  BY <1>1 DEF L
<1>6. /\ UNCHANGED <<codes, campaigns, joined, inviterOrders, req, buying>>
      /\ reg[i].phase # "done" /\ 0 \in 0..Len(campaigns)
  BY RegParts DEF C!FindCode
<1> HIDE DEF r
<1> QED  BY <1>4, <1>5, <1>6, RegistrationMoves

LEMMA CampaignFound ==
    ASSUME CampaignInv, NEW i \in Invitees, C!FindCampaign(i)
    PROVE  CampaignInv'
<1> USE DEF CampaignInv
<1> DEFINE U == {d \in DOMAIN campaigns : C!Open(d) /\ campaigns[d].code = reg[i].code}
           c == C!Latest(U)
           f == IF c # 0 /\ campaigns[c].status = "active" /\ c \notin reg[i].late THEN c ELSE 0
<1>1. /\ reg[i].phase = "code"
      /\ UNCHANGED <<codes, campaigns, joined, inviterOrders, req, buying>>
      /\ \E never \in NeverExpires :
            reg' = [reg EXCEPT ![i].phase = "found", ![i].expires = ~never, ![i].campaign = f]
  BY DEF C!FindCampaign
<1>2. f \in 0..Len(campaigns)
  <2>1. U \in SUBSET (1..Len(campaigns)) /\ Len(campaigns) \in Nat
    BY RegParts
  <2>2. c \in {0} \cup U
    BY <2>1, CurrentOpen
  <2> QED  BY <2>1, <2>2
<1> HIDE DEF f
<1>3. PICK never \in BOOLEAN :
            reg' = [reg EXCEPT ![i].phase = "found", ![i].expires = ~never, ![i].campaign = f]
  BY <1>1, RewardsAssumption DEF C!InviteCampaignAssumption
<1> DEFINE r == [reg[i] EXCEPT !.phase = "found", !.expires = ~never, !.campaign = f]
<1>4. reg[i] \in Registration /\ f \in Nat /\ (~never) \in BOOLEAN
  BY <1>2, RegParts
<1>5. r \in Registration /\ r.phase = "found" /\ r.campaign = f
  BY <1>4 DEF Registration
<1>6. reg' = [reg EXCEPT ![i] = r]
  BY <1>3
<1> HIDE DEF r
<1> QED  BY <1>1, <1>2, <1>5, <1>6, RegistrationMoves

LEMMA CampaignLocked ==
    ASSUME CampaignInv, NEW i \in Invitees, C!LockCampaign(i)
    PROVE  CampaignInv'
<1> USE DEF CampaignInv
<1> DEFINE c == reg[i].campaign
           r == C!Counted(i)
<1>1. /\ reg[i].phase = "found" /\ c # 0 /\ ~C!CampaignHeld(c)
      /\ reg' = [reg EXCEPT ![i] = r]
      /\ UNCHANGED <<codes, campaigns, joined, inviterOrders, req, buying>>
  BY DEF C!LockCampaign
<1>2. c \in 1..Len(campaigns) /\ Len(campaigns) \in Nat
  BY <1>1, RegParts DEF Placed
<1>3. reg[i] \in Registration /\ campaigns[c] \in Campaign
  BY <1>2, RegParts
<1>4. CASE C!Accrues(i)
  <2>1. r = [reg[i] EXCEPT !.phase = "locked", !.amount = campaigns[c].amount,
                           !.count = campaigns[c].count]
    BY <1>4 DEF C!Counted
  <2>2. campaigns[c].amount \in Nat /\ campaigns[c].count \in Nat /\ campaigns[c].status = "active"
    BY <1>3, <1>4 DEF Campaign, C!Accrues
  <2>3. /\ r \in Registration /\ r.phase = "locked" /\ r.campaign = c
        /\ r.amount = campaigns[c].amount /\ r.count = campaigns[c].count
    BY <1>3, <2>1, <2>2 DEF Registration
  <2> HIDE DEF r
  <2>4. /\ r.campaign # 0 /\ r.campaign \in 0..Len(campaigns) /\ ~C!CampaignHeld(r.campaign)
        /\ campaigns[r.campaign].status = "active" /\ campaigns[r.campaign].amount = r.amount
        /\ campaigns[r.campaign].count = r.count
    BY <1>1, <1>2, <2>2, <2>3
  <2> HIDE DEF c
  <2> QED  BY <1>1, <2>3, <2>4, RegistrationMoves
<1>5. CASE ~C!Accrues(i)
  <2>1. r = [reg[i] EXCEPT !.campaign = 0]
    BY <1>5 DEF C!Counted
  <2>2. r \in Registration /\ r.phase = "found" /\ r.campaign = 0 /\ 0 \in 0..Len(campaigns)
    BY <1>1, <1>2, <1>3, <2>1 DEF Registration
  <2> HIDE DEF r
  <2> QED  BY <1>1, <2>2, RegistrationMoves
<1> QED  BY <1>4, <1>5

LEMMA RegistrationFailed ==
    ASSUME CampaignInv, NEW i \in Invitees, C!RegisterFails(i)
    PROVE  CampaignInv'
<1> USE DEF CampaignInv
<1>1. /\ reg' = [reg EXCEPT ![i] = C!NoReg] /\ reg[i].phase # "done"
      /\ UNCHANGED <<codes, campaigns, joined, inviterOrders, req, buying>>
  BY DEF C!RegisterFails
<1>2. /\ C!NoReg \in Registration /\ C!NoReg.phase = "none" /\ C!NoReg.campaign = 0
      /\ 0 \in 0..Len(campaigns)
  BY RegParts DEF C!NoReg
<1> QED  BY <1>1, <1>2, RegistrationMoves

(* A request that reads.                                                     *)
LEMMA RequestMoves ==
    ASSUME CampaignInv, NEW h \in Handlers, NEW r \in Request,
           req' = [req EXCEPT ![h] = r],
           UNCHANGED <<codes, campaigns, joined, inviterOrders, reg, buying>>,
           r.campaign \in 0..Len(campaigns),
           r.op \in {"expire", "abandon"} => r.campaign # 0,
           r.op = "create" /\ r.campaign # 0 => ~C!CampaignHeld(r.campaign)
    PROVE  CampaignInv'
<1> USE DEF CampaignInv
<1>1. /\ req' \in [Handlers -> Request] /\ req'[h] = r
      /\ \A g \in Handlers \ {h} : req'[g] = req[g]
  BY DEF CampaignShape
<1>2. CampaignShape' /\ Placed'
  BY <1>1 DEF CampaignShape, Placed
<1>3. ASSUME NEW i \in Invitees
      PROVE  LockedAlone(i)' /\ Unrecorded(i)'
  <2>1. reg[i].phase = "locked" /\ r.op = "create" => r.campaign # reg[i].campaign
    BY DEF C!CampaignHeld, Placed
  <2>2. LockedAlone(i)'
    BY <1>1, <2>1 DEF LockedAlone
  <2> QED  BY <2>2 DEF Unrecorded
<1>4. \A c \in 1..Len(campaigns) : Agrees(c)'
  BY DEF Agrees, RecordsOf
<1>5. Spending'
  BY DEF Spending, SpentClosed, SavingAlone, DoneOpened, Waiting, C!Open
<1> QED  BY <1>2, <1>3, <1>4, <1>5

LEMMA RequestsRead ==
    ASSUME CampaignInv, NEW h \in Handlers,
           \/ C!Create(h) \/ C!CreateFails(h) \/ C!Abandon(h)
           \/ \E c \in 1..MaxCampaigns : C!Look(h, c)
    PROVE  CampaignInv'
<1> USE DEF CampaignInv
<1> DEFINE m == C!Current
<1>1. /\ m \in 0..Len(campaigns) /\ Len(campaigns) \in Nat /\ 0 \in 0..Len(campaigns)
      /\ DOMAIN campaigns = 1..Len(campaigns)
  BY CurrentOpen DEF CampaignShape
<1> HIDE DEF m
<1>2. CASE C!Create(h)
  <2> DEFINE r == [op |-> "create", campaign |-> m]
  <2>1. /\ req' = [req EXCEPT ![h] = r]
        /\ m # 0 => ~C!CampaignHeld(m)
        /\ UNCHANGED <<codes, campaigns, joined, inviterOrders, reg, buying>>
    BY <1>2 DEF C!Create, m
  <2>2. r \in Request /\ r.op = "create" /\ r.campaign = m
    BY <1>1 DEF Request
  <2> HIDE DEF r
  <2>3. r.campaign # 0 => ~C!CampaignHeld(r.campaign)
    BY <2>1, <2>2
  <2> QED  BY <1>1, <2>1, <2>2, <2>3, RequestMoves
<1>3. CASE C!CreateFails(h)
  <2>1. /\ req' = [req EXCEPT ![h] = C!NoReq]
        /\ UNCHANGED <<codes, campaigns, joined, inviterOrders, reg, buying>>
    BY <1>3 DEF C!CreateFails
  <2>2. C!NoReq \in Request /\ C!NoReq.op = "none" /\ C!NoReq.campaign = 0
    BY DEF Request, C!NoReq
  <2> QED  BY <1>1, <2>1, <2>2, RequestMoves
<1>4. CASE C!Abandon(h)
  <2> DEFINE r == [op |-> "abandon", campaign |-> m]
  <2>1. /\ req' = [req EXCEPT ![h] = r] /\ m # 0
        /\ UNCHANGED <<codes, campaigns, joined, inviterOrders, reg, buying>>
    BY <1>4 DEF C!Abandon, m
  <2>2. r \in Request /\ r.op = "abandon" /\ r.campaign = m
    BY <1>1 DEF Request
  <2> HIDE DEF r
  <2> QED  BY <1>1, <2>1, <2>2, RequestMoves
<1>5. ASSUME NEW c \in 1..MaxCampaigns, C!Look(h, c)
      PROVE  CampaignInv'
  <2> DEFINE r == [op |-> "expire", campaign |-> c]
  <2>1. /\ req' = [req EXCEPT ![h] = r] /\ c \in DOMAIN campaigns
        /\ UNCHANGED <<codes, campaigns, joined, inviterOrders, reg, buying>>
    BY <1>5 DEF C!Look
  <2>2. r \in Request /\ r.op = "expire" /\ r.campaign = c
    BY <1>1 DEF Request
  <2>3. c \in 0..Len(campaigns) /\ c # 0
    BY <1>1, <2>1
  <2> HIDE DEF r
  <2> QED  BY <2>1, <2>2, <2>3, RequestMoves
<1> QED  BY <1>2, <1>3, <1>4, <1>5

(* An order that is being saved, or given up.                                *)
LEMMA BuyingMoves ==
    ASSUME CampaignInv, C!SaveOrder \/ C!OrderFails
    PROVE  CampaignInv'
<1> USE DEF CampaignInv
<1> DEFINE m == C!Current
<1>1. /\ m \in 0..Len(campaigns) /\ Len(campaigns) \in Nat
      /\ m # 0 => C!Open(m)
  BY CurrentOpen DEF CampaignShape
<1> HIDE DEF m
<1>2. UNCHANGED <<codes, campaigns, joined, inviterOrders, reg, req>>
  BY DEF C!SaveOrder, C!OrderFails
<1>3. /\ buying' \in [phase : {"none", "read"}, campaign : Nat, expires : Nat]
      /\ buying'.campaign \in 0..Len(campaigns) /\ buying'.expires \in 0..Len(campaigns)
      /\ buying'.expires # 0 => ~C!CampaignHeld(buying'.expires)
      /\ buying'.campaign # 0 => C!Open(buying'.campaign)
      /\ buying'.phase = "read" => ~C!Pending
  <2>1. CASE C!SaveOrder
    <3>1. ~C!Pending /\ 0 \in 0..Len(campaigns)
      BY <1>1, <2>1 DEF C!SaveOrder
    <3>2. \/ /\ ~C!CampaignHeld(m)
             /\ buying' = [phase |-> "read", campaign |-> 0, expires |-> m]
          \/ m # 0 /\ buying' = [phase |-> "read", campaign |-> m, expires |-> 0]
          \/ buying' = [phase |-> "read", campaign |-> 0, expires |-> 0]
      BY <2>1 DEF C!SaveOrder, m
    <3> QED  BY <1>1, <3>1, <3>2
  <2>2. CASE C!OrderFails
    BY <1>1, <2>2 DEF C!OrderFails, C!NoOrder
  <2> QED  BY <2>1, <2>2
<1>4. CampaignShape' /\ Placed'
  BY <1>2, <1>3 DEF CampaignShape, Placed
<1>5. ASSUME NEW i \in Invitees
      PROVE  LockedAlone(i)' /\ Unrecorded(i)'
  <2>1. reg[i].phase = "locked" => buying'.expires # reg[i].campaign
    BY <1>3 DEF C!CampaignHeld, Placed
  <2>2. LockedAlone(i)'
    BY <1>2, <2>1 DEF LockedAlone
  <2> QED  BY <1>2, <2>2 DEF Unrecorded
<1>6. \A c \in 1..Len(campaigns') : Agrees(c)'
  BY <1>2 DEF Agrees, RecordsOf
<1>7. SavingAlone'
  BY <1>2, <1>3 DEF SavingAlone, Waiting, C!Pending, Spending, SpentClosed
<1>8. Spending'
  BY <1>2, <1>7 DEF Spending, SpentClosed, DoneOpened, Waiting, C!Open
<1> QED  BY <1>4, <1>5, <1>6, <1>8

-----------------------------------------------------------------------------
(* Writing campaigns                                                         *)

(* Campaigns stay, with what they collected; open ones may close, except those
   locked by a registration, and new ones are empty.                         *)
KeepsCampaigns ==
    /\ campaigns' \in Seq(Campaign) /\ Len(campaigns) <= Len(campaigns')
    /\ \A c \in 1..Len(campaigns) :
         /\ campaigns'[c].amount = campaigns[c].amount /\ campaigns'[c].count = campaigns[c].count
         /\ \/ campaigns'[c].status = campaigns[c].status
            \/ campaigns'[c].status \notin {"active", "completed"}
    /\ \A i \in Invitees : reg[i].phase = "locked" =>
         campaigns'[reg[i].campaign].status = campaigns[reg[i].campaign].status
    /\ \A c \in 1..Len(campaigns') :
         c \notin 1..Len(campaigns) => campaigns'[c].amount = 0 /\ campaigns'[c].count = 0

LEMMA StatusSet ==
    ASSUME CampaignInv, NEW c \in 1..Len(campaigns), NEW status \in {"expired", "abandoned", "used"},
           \A i \in Invitees : reg[i].phase = "locked" => reg[i].campaign # c,
           C!SetStatus(c, status)
    PROVE  KeepsCampaigns /\ campaigns'[c].status = status
<1> USE DEF CampaignInv
<1> DEFINE n == Len(campaigns)
           row == [campaigns[c] EXCEPT !.status = status]
<1>1. /\ n \in Nat /\ DOMAIN campaigns = 1..n /\ campaigns[c] \in Campaign
      /\ campaigns' = [campaigns EXCEPT ![c] = row]
  BY RegParts DEF C!SetStatus, CampaignShape
<1>2. /\ row \in Campaign /\ row.amount = campaigns[c].amount /\ row.count = campaigns[c].count
      /\ row.status = status
  BY <1>1 DEF Campaign, C!Statuses
<1> HIDE DEF row
<1>3. /\ campaigns' \in Seq(Campaign) /\ Len(campaigns') = n /\ campaigns'[c] = row
      /\ \A d \in 1..n : d # c => campaigns'[d] = campaigns[d]
  BY <1>1, <1>2, ExceptSeq DEF CampaignShape
<1>4. \A i \in Invitees : reg[i].phase = "locked" => reg[i].campaign \in 1..n
  BY <1>1 DEF Placed
<1> QED  BY <1>1, <1>2, <1>3, <1>4 DEF KeepsCampaigns, C!Open

(* What such a write leaves alone: the locks, what was collected, and closed
   campaigns.  It may end a request or the saving of an order.               *)
LEMMA KeptByWrite ==
    ASSUME CampaignInv, KeepsCampaigns, UNCHANGED <<joined, reg>>,
           codes' \in Seq(BOOLEAN), inviterOrders' \in Seq(InviterOrder),
           req' \in [Handlers -> Request], \A h \in Handlers : req'[h] \in {req[h], C!NoReq},
           buying' \in {buying, C!NoOrder},
           \A o \in DOMAIN inviterOrders' : inviterOrders'[o].campaign \in 0..Len(campaigns)
    PROVE  /\ CampaignShape' /\ Placed'
           /\ \A i \in Invitees : LockedAlone(i)' /\ Unrecorded(i)'
           /\ \A c \in 1..Len(campaigns') : Agrees(c)'
           /\ \A c \in 1..Len(campaigns) : ~C!Open(c) => ~C!Open(c)'
<1> USE DEF CampaignInv
<1>1. /\ Len(campaigns) \in Nat /\ Len(campaigns') \in Nat /\ Len(campaigns) <= Len(campaigns')
      /\ campaigns' \in Seq(Campaign)
  BY DEF CampaignShape, KeepsCampaigns
<1>2. /\ 1..Len(campaigns) \subseteq 1..Len(campaigns')
      /\ 0..Len(campaigns) \subseteq 0..Len(campaigns') /\ 0 \in 0..Len(campaigns)
  BY <1>1
<1>3. CampaignShape'
  <2>1. joined' \subseteq (1..Len(campaigns')) \X Invitees
    BY <1>2 DEF CampaignShape
  <2>2. buying' \in [phase : {"none", "read"}, campaign : Nat, expires : Nat]
    BY DEF CampaignShape, C!NoOrder
  <2> QED  BY <1>1, <2>1, <2>2 DEF CampaignShape
<1>4. Placed'
  <2>1. \A h \in Handlers : /\ req'[h].campaign \in 0..Len(campaigns')
                            /\ req'[h].op \in {"expire", "abandon"} => req'[h].campaign # 0
    BY <1>2 DEF Placed, C!NoReq
  <2>2. buying'.campaign \in 0..Len(campaigns') /\ buying'.expires \in 0..Len(campaigns')
    BY <1>2 DEF Placed, C!NoOrder
  <2>3. \A i \in Invitees : /\ reg'[i].campaign \in 0..Len(campaigns')
                            /\ reg'[i].phase = "locked" => reg'[i].campaign # 0
    BY <1>2 DEF Placed
  <2>4. \A o \in DOMAIN inviterOrders' : inviterOrders'[o].campaign \in 0..Len(campaigns')
    BY <1>2
  <2> QED  BY <2>1, <2>2, <2>3, <2>4 DEF Placed
<1>5. ASSUME NEW i \in Invitees
      PROVE  LockedAlone(i)' /\ Unrecorded(i)'
  <2>1. CASE reg[i].phase = "locked"
    <3>1. reg[i].campaign \in 1..Len(campaigns) /\ LockedAlone(i)
      BY <1>1, <2>1 DEF Placed
    <3>2. /\ campaigns'[reg[i].campaign].status = "active"
          /\ campaigns'[reg[i].campaign].amount = reg[i].amount
          /\ campaigns'[reg[i].campaign].count = reg[i].count
      BY <2>1, <3>1 DEF KeepsCampaigns, LockedAlone
    <3>3. \A h \in Handlers : req'[h].op = "create" => req'[h].campaign # reg[i].campaign
      BY <2>1, <3>1 DEF LockedAlone, C!NoReq
    <3>4. buying'.expires # reg[i].campaign
      BY <2>1, <3>1 DEF LockedAlone, C!NoOrder
    <3> QED  BY <2>1, <3>1, <3>2, <3>3, <3>4 DEF LockedAlone, Unrecorded
  <2>2. CASE reg[i].phase # "locked"
    BY <2>2 DEF LockedAlone, Unrecorded
  <2> QED  BY <2>1, <2>2
<1>6. ASSUME NEW c \in 1..Len(campaigns')
      PROVE  Agrees(c)'
  <2>1. RecordsOf(c)' = RecordsOf(c)
    BY DEF RecordsOf
  <2>2. CASE c \in 1..Len(campaigns)
    BY <2>1, <2>2 DEF Agrees, KeepsCampaigns
  <2>3. CASE c \notin 1..Len(campaigns)
    <3>1. RecordsOf(c) = {}
      BY <2>3 DEF RecordsOf, CampaignShape
    <3>2. Cardinality(RecordsOf(c)) = 0
      BY <3>1, FS_EmptySet
    <3>3. Reward \in Nat /\ Target \in Nat
      BY RewardsAssumption DEF C!InviteCampaignAssumption
    <3>4. C!Lesser(Target, 0 * Reward) = 0
      BY <3>3 DEF C!Lesser
    <3>5. campaigns'[c].amount = 0 /\ campaigns'[c].count = 0
      BY <2>3 DEF KeepsCampaigns
    <3> QED  BY <2>1, <3>2, <3>4, <3>5 DEF Agrees
  <2> QED  BY <2>2, <2>3
<1>7. \A c \in 1..Len(campaigns) : ~C!Open(c) => ~C!Open(c)'
  BY DEF KeepsCampaigns, C!Open
<1> QED  BY <1>3, <1>4, <1>5, <1>6, <1>7

(* A write that leaves the orders alone.                                     *)
LEMMA KeptOrders ==
    ASSUME CampaignInv, KeepsCampaigns, UNCHANGED <<joined, reg, inviterOrders, buying>>,
           codes' \in Seq(BOOLEAN),
           req' \in [Handlers -> Request], \A h \in Handlers : req'[h] \in {req[h], C!NoReq}
    PROVE  CampaignInv'
<1> USE DEF CampaignInv
<1>1. /\ inviterOrders' \in Seq(InviterOrder)
      /\ \A o \in DOMAIN inviterOrders' : inviterOrders'[o].campaign \in 0..Len(campaigns)
      /\ Len(campaigns) \in Nat
  BY DEF CampaignShape, Placed
<1>2. /\ CampaignShape' /\ Placed'
      /\ \A i \in Invitees : LockedAlone(i)' /\ Unrecorded(i)'
      /\ \A c \in 1..Len(campaigns') : Agrees(c)'
      /\ \A c \in 1..Len(campaigns) : ~C!Open(c) => ~C!Open(c)'
  BY <1>1, KeptByWrite
<1>3. SpentClosed'
  <2> SUFFICES ASSUME NEW o \in DOMAIN inviterOrders, inviterOrders[o].opened,
                      inviterOrders[o].campaign # 0
               PROVE  ~C!Open(inviterOrders[o].campaign)'
    BY DEF SpentClosed
  <2>1. inviterOrders[o].campaign \in 1..Len(campaigns)
    BY <1>1
  <2>2. ~C!Open(inviterOrders[o].campaign)
    BY DEF Spending, SpentClosed
  <2> DEFINE c == inviterOrders[o].campaign
  <2>3. ~C!Open(c)'
    BY <1>2, <2>1, <2>2
  <2> QED  BY <2>3
<1>4. Spending'
  BY <1>3 DEF Spending, SavingAlone, DoneOpened, Waiting
<1> QED  BY <1>2, <1>4

LEMMA CampaignElapses ==
    ASSUME CampaignInv, NEW c \in 1..MaxCampaigns, C!Elapse(c)
    PROVE  CampaignInv'
<1> USE DEF CampaignInv
<1> DEFINE n == Len(campaigns)
           row == [campaigns[c] EXCEPT !.over = TRUE]
<1>1. /\ n \in Nat /\ DOMAIN campaigns = 1..n /\ c \in 1..n /\ campaigns[c] \in Campaign
      /\ campaigns' = [campaigns EXCEPT ![c] = row]
      /\ UNCHANGED <<codes, joined, inviterOrders, reg, req, buying>>
  BY RegParts DEF C!Elapse, CampaignShape
<1>2. /\ row \in Campaign /\ row.amount = campaigns[c].amount /\ row.count = campaigns[c].count
      /\ row.status = campaigns[c].status
  BY <1>1 DEF Campaign
<1> HIDE DEF row
<1>3. /\ campaigns' \in Seq(Campaign) /\ Len(campaigns') = n /\ campaigns'[c] = row
      /\ \A d \in 1..n : d # c => campaigns'[d] = campaigns[d]
  BY <1>1, <1>2, ExceptSeq DEF CampaignShape
<1>4. \A i \in Invitees : reg[i].phase = "locked" => reg[i].campaign \in 1..n
  BY <1>1 DEF Placed
<1>5. KeepsCampaigns
  BY <1>1, <1>2, <1>3, <1>4 DEF KeepsCampaigns
<1>6. codes' \in Seq(BOOLEAN) /\ req' \in [Handlers -> Request] /\ \A h \in Handlers : req'[h] \in {req[h], C!NoReq}
  BY <1>1 DEF CampaignShape
<1> QED  BY <1>1, <1>5, <1>6, KeptOrders

(* A request ends.                                                           *)
LEMMA RequestEnds ==
    ASSUME CampaignShape, NEW h \in Handlers, req' = [req EXCEPT ![h] = C!NoReq]
    PROVE  req' \in [Handlers -> Request] /\ \A g \in Handlers : req'[g] \in {req[g], C!NoReq}
<1>1. C!NoReq \in Request
  BY DEF C!NoReq, Request
<1> QED  BY <1>1 DEF CampaignShape

LEMMA StatusWritten ==
    ASSUME CampaignInv, NEW h \in Handlers, C!Written(h)
    PROVE  CampaignInv'
<1> USE DEF CampaignInv
<1> DEFINE c == req[h].campaign
           st == IF req[h].op = "expire" THEN "expired" ELSE "abandoned"
<1>1. /\ req[h].op \in {"expire", "abandon"} /\ ~C!CampaignHeld(c) /\ C!SetStatus(c, st)
      /\ req' = [req EXCEPT ![h] = C!NoReq]
      /\ UNCHANGED <<codes, joined, inviterOrders, reg, buying>>
  BY DEF C!Written
<1>2. c \in 1..Len(campaigns) /\ st \in {"expired", "abandoned", "used"}
  BY <1>1, RegParts DEF Placed
<1> HIDE DEF st
<1>3. \A i \in Invitees : reg[i].phase = "locked" => reg[i].campaign # c
  BY <1>1 DEF C!CampaignHeld
<1>4. KeepsCampaigns
  BY <1>1, <1>2, <1>3, StatusSet
<1>5. codes' \in Seq(BOOLEAN)
  BY <1>1 DEF CampaignShape
<1> QED  BY <1>1, <1>4, <1>5, RequestEnds, KeptOrders

LEMMA CampaignCreated ==
    ASSUME CampaignInv, NEW h \in Handlers, C!Created(h)
    PROVE  CampaignInv'
<1> USE DEF CampaignInv
<1> DEFINE n == Len(campaigns)
           c == req[h].campaign
           rest == IF c = 0 THEN campaigns ELSE [campaigns EXCEPT ![c].status = "expired"]
           row == [campaigns[c] EXCEPT !.status = "expired"]
<1>1. /\ req[h].op = "create" /\ req' = [req EXCEPT ![h] = C!NoReq]
      /\ UNCHANGED <<joined, inviterOrders, reg, buying>>
  BY DEF C!Created
<1>2. /\ codes' \in Seq(BOOLEAN)
      /\ \E k \in Nat : campaigns' = Append(rest, C!Fresh(k))
  <2>1. Len(codes) + 1 \in Nat /\ TRUE \in BOOLEAN /\ Append(codes, TRUE) \in Seq(BOOLEAN)
        /\ C!Usable \subseteq Nat
    BY DEF CampaignShape, C!Usable
  <2>2. \/ \E k \in C!Usable : campaigns' = Append(rest, C!Fresh(k)) /\ codes' = codes
        \/ codes' = Append(codes, TRUE) /\ campaigns' = Append(rest, C!Fresh(Len(codes) + 1))
    BY DEF C!Created
  <2> HIDE DEF rest
  <2> QED  BY <2>1, <2>2 DEF CampaignShape
<1>3. PICK k \in Nat : campaigns' = Append(rest, C!Fresh(k))
  BY <1>2
<1>4. /\ C!Fresh(k) \in Campaign /\ C!Fresh(k).amount = 0 /\ C!Fresh(k).count = 0
  BY DEF C!Fresh, Campaign, C!Statuses
<1>5. n \in Nat /\ DOMAIN campaigns = 1..n /\ c \in 0..n
  BY <1>1, RegParts DEF Placed
<1>6. /\ rest \in Seq(Campaign) /\ Len(rest) = n
      /\ \A d \in 1..n : d # c => rest[d] = campaigns[d]
      /\ c # 0 => /\ rest[c].amount = campaigns[c].amount /\ rest[c].count = campaigns[c].count
                  /\ rest[c].status = "expired"
  <2>1. CASE c = 0
    BY <2>1, <1>5 DEF CampaignShape
  <2>2. CASE c # 0
    <3>0. c \in 1..n
      BY <1>5, <2>2
    <3>1. campaigns[c] \in Campaign /\ rest = [campaigns EXCEPT ![c] = row]
      BY <2>2, <3>0 DEF CampaignShape
    <3>2. /\ row \in Campaign /\ row.amount = campaigns[c].amount
          /\ row.count = campaigns[c].count /\ row.status = "expired"
      BY <3>1 DEF Campaign, C!Statuses
    <3> HIDE DEF row, rest
    <3>3. /\ rest \in Seq(Campaign) /\ Len(rest) = n /\ rest[c] = row
          /\ \A d \in 1..n : d # c => rest[d] = campaigns[d]
      BY <1>5, <3>0, <3>1, <3>2, ExceptSeq DEF CampaignShape
    <3> QED  BY <3>2, <3>3
  <2> QED  BY <2>1, <2>2
<1> HIDE DEF rest
<1>7. /\ campaigns' \in Seq(Campaign) /\ Len(campaigns') = n + 1
      /\ \A d \in 1..n : campaigns'[d] = rest[d]
      /\ campaigns'[n + 1] = C!Fresh(k)
  BY <1>3, <1>4, <1>5, <1>6
<1>8. \A i \in Invitees : reg[i].phase = "locked" => reg[i].campaign \in 1..n /\ reg[i].campaign # c
  BY <1>1, <1>5 DEF Placed, LockedAlone
<1>9. KeepsCampaigns
  <2>1. \A d \in 1..n : /\ campaigns'[d].amount = campaigns[d].amount
                        /\ campaigns'[d].count = campaigns[d].count
                        /\ campaigns'[d].status \in {campaigns[d].status, "expired"}
    BY <1>5, <1>6, <1>7
  <2>2. \A d \in 1..(n + 1) : d \notin 1..n => d = n + 1
    BY <1>5
  <2>3. \A i \in Invitees : reg[i].phase = "locked" =>
            campaigns'[reg[i].campaign].status = campaigns[reg[i].campaign].status
    BY <1>6, <1>7, <1>8
  <2> QED  BY <1>4, <1>5, <1>7, <2>1, <2>2, <2>3 DEF KeepsCampaigns
<1> QED  BY <1>1, <1>2, <1>9, RequestEnds, KeptOrders

LEMMA CampaignsStay ==
    ASSUME CampaignInv, campaigns' = campaigns
    PROVE  KeepsCampaigns
<1>1. campaigns \in Seq(Campaign) /\ Len(campaigns) \in Nat
  BY DEF CampaignInv, CampaignShape
<1> QED  BY <1>1 DEF KeepsCampaigns

(* An order is saved with the campaign that was read: no order waits, and no
   opened one had it.                                                        *)
LEMMA InviterOrderSaved ==
    ASSUME CampaignInv, C!OrderSaved
    PROVE  CampaignInv'
<1> USE DEF CampaignInv
<1> DEFINE n == Len(inviterOrders)
           e == [campaign |-> buying.campaign, status |-> "new", opened |-> FALSE]
<1>1. /\ buying.phase = "read" /\ buying' = C!NoOrder
      /\ inviterOrders' = Append(inviterOrders, e)
      /\ UNCHANGED <<codes, joined, reg, req>>
      /\ \/ campaigns' = campaigns
         \/ buying.expires # 0 /\ C!SetStatus(buying.expires, "expired")
  BY DEF C!OrderSaved
<1>2. /\ buying.campaign \in 0..Len(campaigns) /\ buying.expires \in 0..Len(campaigns)
      /\ Len(campaigns) \in Nat
  BY RegParts DEF Placed, CampaignShape
<1>3. e \in InviterOrder /\ e.campaign = buying.campaign /\ e.status = "new"
      /\ e.opened = FALSE
  BY <1>2 DEF InviterOrder
<1> HIDE DEF e
<1>4. /\ inviterOrders' \in Seq(InviterOrder) /\ n \in Nat
      /\ DOMAIN inviterOrders = 1..n /\ DOMAIN inviterOrders' = 1..(n + 1)
      /\ \A i \in 1..n : inviterOrders'[i] = inviterOrders[i]
      /\ inviterOrders'[n + 1] = e
  BY <1>1, <1>3 DEF CampaignShape
<1> HIDE DEF n
<1>5. 1..(n + 1) = 1..n \cup {n + 1} /\ n + 1 \notin 1..n
  BY <1>4
<1>6. \A o \in DOMAIN inviterOrders' : inviterOrders'[o].campaign \in 0..Len(campaigns)
  BY <1>2, <1>3, <1>4, <1>5 DEF Placed
<1>7. KeepsCampaigns
  <2>1. CASE campaigns' = campaigns
    BY <2>1, CampaignsStay
  <2>2. CASE buying.expires # 0 /\ C!SetStatus(buying.expires, "expired")
    <3>1. \A i \in Invitees : reg[i].phase = "locked" => reg[i].campaign # buying.expires
      BY DEF LockedAlone
    <3>2. buying.expires \in 1..Len(campaigns)
      BY <1>2, <2>2
    <3> QED  BY <2>2, <3>1, <3>2, StatusSet
  <2> QED  BY <1>1, <2>1, <2>2
<1>8. /\ codes' \in Seq(BOOLEAN) /\ req' \in [Handlers -> Request]
      /\ \A h \in Handlers : req'[h] \in {req[h], C!NoReq}
  BY <1>1 DEF CampaignShape
<1>9. /\ CampaignShape' /\ Placed'
      /\ \A i \in Invitees : LockedAlone(i)' /\ Unrecorded(i)'
      /\ \A c \in 1..Len(campaigns') : Agrees(c)'
      /\ \A c \in 1..Len(campaigns) : ~C!Open(c) => ~C!Open(c)'
  BY <1>1, <1>4, <1>6, <1>7, <1>8, KeptByWrite
<1>10. SpentClosed'
  <2> SUFFICES ASSUME NEW o \in 1..(n + 1), inviterOrders'[o].opened,
                      inviterOrders'[o].campaign # 0
               PROVE  campaigns'[inviterOrders'[o].campaign].status \notin {"active", "completed"}
    BY <1>4 DEF SpentClosed, C!Open
  <2> DEFINE c == inviterOrders[o].campaign
  <2>1. o \in 1..n /\ inviterOrders'[o] = inviterOrders[o] /\ c \in 1..Len(campaigns)
    BY <1>2, <1>3, <1>4, <1>5 DEF Placed
  <2>2. ~C!Open(c)
    BY <1>4, <2>1 DEF Spending, SpentClosed
  <2>3. ~C!Open(c)' /\ inviterOrders'[o].campaign = c
    BY <1>9, <2>1, <2>2
  <2> QED  BY <2>3 DEF C!Open
<1>11. SavingAlone'
  BY <1>1 DEF SavingAlone, C!NoOrder
<1>12. DoneOpened'
  BY <1>3, <1>4, <1>5 DEF Spending, DoneOpened
<1>13. Spending'
  BY <1>10, <1>11, <1>12 DEF Spending
<1> QED  BY <1>9, <1>13

(* An order is cancelled, refunded, opened or recovered: it is opened under the
   lock of the inviter, and then its campaign is closed.                     *)
LEMMA InviterOrderMoves ==
    ASSUME CampaignInv, NEW o \in DOMAIN inviterOrders, NEW e \in InviterOrder,
           e.campaign = inviterOrders[o].campaign, e.status # "new",
           e.status = "done" => e.opened,
           inviterOrders' = [inviterOrders EXCEPT ![o] = e],
           UNCHANGED <<codes, joined, reg, req, buying>>, KeepsCampaigns,
           \/ e.opened = inviterOrders[o].opened
           \/ /\ buying = C!NoOrder
              /\ e.campaign # 0 => campaigns'[e.campaign].status \notin {"active", "completed"}
    PROVE  CampaignInv'
<1> USE DEF CampaignInv
<1> DEFINE n == Len(inviterOrders)
<1>1. /\ n \in Nat /\ DOMAIN inviterOrders = 1..n /\ Len(campaigns) \in Nat
      /\ \A q \in 1..n : inviterOrders[q] \in InviterOrder
  BY RegParts DEF CampaignShape
<1>4. /\ inviterOrders' \in Seq(InviterOrder) /\ DOMAIN inviterOrders' = 1..n
      /\ inviterOrders'[o] = e
      /\ \A q \in 1..n : q # o => inviterOrders'[q] = inviterOrders[q]
  <2>1. inviterOrders \in Seq(InviterOrder) /\ o \in 1..n
    BY <1>1 DEF CampaignShape
  <2> DEFINE new == [inviterOrders EXCEPT ![o] = e]
  <2>2. /\ new \in Seq(InviterOrder) /\ DOMAIN new = 1..n /\ new[o] = e
        /\ \A q \in 1..n : q # o => new[q] = inviterOrders[q]
    BY <2>1, <1>1, ExceptSeq
  <2> HIDE DEF new
  <2>3. inviterOrders' = new
    BY DEF new
  <2> QED  BY <2>2, <2>3
<1> HIDE DEF n
<1>5. \A q \in 1..n : inviterOrders'[q].campaign = inviterOrders[q].campaign
  BY <1>4
<1>6. \A q \in DOMAIN inviterOrders' : inviterOrders'[q].campaign \in 0..Len(campaigns)
  BY <1>1, <1>4, <1>5 DEF Placed
<1>7. /\ codes' \in Seq(BOOLEAN) /\ req' \in [Handlers -> Request]
      /\ \A h \in Handlers : req'[h] \in {req[h], C!NoReq}
  BY DEF CampaignShape
<1>8. /\ CampaignShape' /\ Placed'
      /\ \A i \in Invitees : LockedAlone(i)' /\ Unrecorded(i)'
      /\ \A c \in 1..Len(campaigns') : Agrees(c)'
      /\ \A c \in 1..Len(campaigns) : ~C!Open(c) => ~C!Open(c)'
  BY <1>4, <1>6, <1>7, KeptByWrite
<1>9. SpentClosed'
  <2> SUFFICES ASSUME NEW q \in 1..n, inviterOrders'[q].opened,
                      inviterOrders'[q].campaign # 0
               PROVE  campaigns'[inviterOrders'[q].campaign].status \notin {"active", "completed"}
    BY <1>4 DEF SpentClosed, C!Open
  <2>1. CASE inviterOrders[q].opened
    <3> DEFINE c == inviterOrders[q].campaign
    <3>1. inviterOrders'[q].campaign = c /\ c \in 1..Len(campaigns)
      BY <1>1, <1>5 DEF Placed
    <3>2. ~C!Open(c)
      BY <1>1, <2>1, <3>1 DEF Spending, SpentClosed
    <3>3. ~C!Open(c)'
      BY <1>8, <3>1, <3>2
    <3> QED  BY <3>1, <3>3 DEF C!Open
  <2>2. CASE ~inviterOrders[q].opened
    <3>1. q = o /\ inviterOrders'[q] = e
      BY <1>4, <2>2
    <3> QED  BY <2>2, <3>1
  <2> QED  BY <2>1, <2>2
<1>10. SavingAlone'
  <2> SUFFICES ASSUME buying.phase = "read", NEW q \in 1..n
               PROVE  /\ inviterOrders'[q].status # "new"
                      /\ inviterOrders'[q].opened /\ buying.campaign # 0 =>
                            inviterOrders'[q].campaign # buying.campaign
    BY <1>4 DEF SavingAlone, Waiting
  <2>1. e.opened = inviterOrders[o].opened
    BY DEF C!NoOrder
  <2>2. /\ inviterOrders[q].status # "new"
        /\ inviterOrders[q].opened /\ buying.campaign # 0 =>
              inviterOrders[q].campaign # buying.campaign
    BY <1>1 DEF Spending, SavingAlone, Waiting
  <2>3. CASE q = o
    BY <1>4, <2>1, <2>2, <2>3
  <2>4. CASE q # o
    BY <1>4, <2>2, <2>4
  <2> QED  BY <2>3, <2>4
<1>11. DoneOpened'
  BY <1>1, <1>4 DEF Spending, DoneOpened
<1>12. Spending'
  BY <1>9, <1>10, <1>11 DEF Spending
<1> QED  BY <1>8, <1>12

LEMMA InviterOrderSettled ==
    ASSUME CampaignInv, NEW o \in 1..MaxInviterOrders, C!Cancel(o) \/ C!OpenOrder(o)
    PROVE  CampaignInv'
<1> USE DEF CampaignInv
<1>1. /\ o \in DOMAIN inviterOrders /\ inviterOrders[o] \in InviterOrder
      /\ UNCHANGED <<codes, joined, reg, req, buying>>
  BY RegParts DEF C!Cancel, C!OpenOrder, CampaignShape
<1> DEFINE c == inviterOrders[o].campaign
<1>2. CASE C!Cancel(o)
  <2> DEFINE e == [inviterOrders[o] EXCEPT !.status = "cancelled"]
  <2>1. inviterOrders' = [inviterOrders EXCEPT ![o] = e]
    BY <1>2 DEF C!Cancel
  <2>2. /\ e \in InviterOrder /\ e.campaign = c /\ e.status = "cancelled"
        /\ e.opened = inviterOrders[o].opened
    BY <1>1 DEF InviterOrder
  <2>3. KeepsCampaigns
    BY <1>2, CampaignsStay DEF C!Cancel
  <2> HIDE DEF e
  <2> QED  BY <1>1, <2>1, <2>2, <2>3, InviterOrderMoves
<1>3. CASE C!OpenOrder(o)
  <2> DEFINE e == [inviterOrders[o] EXCEPT !.status = "done", !.opened = TRUE]
  <2>1. /\ inviterOrders' = [inviterOrders EXCEPT ![o] = e]
        /\ buying = C!NoOrder
        /\ \/ c = 0 /\ campaigns' = campaigns
           \/ c # 0 /\ ~C!CampaignHeld(c) /\ C!SetStatus(c, "used")
    BY <1>3 DEF C!OpenOrder, C!markInviteCampaignUsedTx
  <2>2. e \in InviterOrder /\ e.campaign = c /\ e.status = "done" /\ e.opened
    BY <1>1 DEF InviterOrder
  <2> HIDE DEF e
  <2>3. CASE c = 0
    <3>1. KeepsCampaigns
      BY <2>1, <2>3, CampaignsStay
    <3> QED  BY <1>1, <2>1, <2>2, <2>3, <3>1, InviterOrderMoves
  <2>4. CASE c # 0
    <3>1. c \in 1..Len(campaigns)
      BY <1>1, <2>4, RegParts DEF Placed, CampaignShape
    <3>2. \A i \in Invitees : reg[i].phase = "locked" => reg[i].campaign # c
      BY <2>1, <2>4 DEF C!CampaignHeld
    <3>3. KeepsCampaigns /\ campaigns'[c].status = "used"
      BY <2>1, <2>4, <3>1, <3>2, StatusSet
    <3> QED  BY <1>1, <2>1, <2>2, <3>3, InviterOrderMoves
  <2> QED  BY <2>3, <2>4
<1> QED  BY <1>2, <1>3

(* One more reward.                                                          *)
LEMMA OneMore ==
    ASSUME NEW n \in Nat, NEW amount, amount = C!Lesser(Target, n * Reward)
    PROVE  /\ amount \in Nat
           /\ C!Lesser(Target, amount + Reward) \in Nat
           /\ C!Lesser(Target, amount + Reward) = C!Lesser(Target, (n + 1) * Reward)
<1>1. Reward \in Nat /\ Target \in Nat
  BY RewardsAssumption DEF C!InviteCampaignAssumption
<1> DEFINE worth == n * Reward
<1>2. worth \in Nat /\ (n + 1) * Reward = worth + Reward
  BY <1>1
<1> HIDE DEF worth
<1>3. amount = C!Lesser(Target, worth)
  BY DEF worth
<1> QED  BY <1>1, <1>2, <1>3 DEF C!Lesser

LEMMA CodeUsed ==
    ASSUME NEW s \in Seq(BOOLEAN), NEW k
    PROVE  [s EXCEPT ![k] = FALSE] \in Seq(BOOLEAN)
<1> DEFINE t == [s EXCEPT ![k] = FALSE]
<1>1. Len(s) \in Nat /\ s \in [1..Len(s) -> BOOLEAN]
  OBVIOUS
<1>2. t \in [1..Len(s) -> BOOLEAN]
  BY <1>1
<1> QED  BY <1>1, <1>2, SeqDef

(* A registration commits: its campaign, which nobody else wrote, gets one more
   record and one more reward.                                               *)
LEMMA Registered ==
    ASSUME CampaignInv, NEW i \in Invitees, C!Register(i)
    PROVE  CampaignInv'
<1> USE DEF CampaignInv
<1> DEFINE c == reg[i].campaign
           r == [C!NoReg EXCEPT !.phase = "done", !.code = reg[i].code]
<1>1. /\ reg' = [reg EXCEPT ![i] = r] /\ UNCHANGED <<inviterOrders, req, buying>>
      /\ codes' \in {codes, [codes EXCEPT ![reg[i].code] = FALSE]}
      /\ reg[i].phase \in {"found", "locked"}
  BY DEF C!Register
<1>2. /\ reg[i] \in Registration /\ c \in 0..Len(campaigns) /\ Len(campaigns) \in Nat
      /\ reg[i].phase = "locked" => c \in 1..Len(campaigns)
  BY RegParts DEF Placed
<1>3. /\ r \in Registration /\ r.phase = "done" /\ r.campaign = 0
  BY <1>2 DEF Registration, C!NoReg
<1> HIDE DEF r
<1>4. /\ reg' \in [Invitees -> Registration] /\ reg'[i] = r
      /\ \A j \in Invitees \ {i} : reg'[j] = reg[j]
  BY <1>1, <1>3 DEF CampaignShape
<1>5. codes' \in Seq(BOOLEAN)
  BY <1>1, CodeUsed DEF CampaignShape
<1>6. CASE reg[i].phase # "locked"
  <2>1. UNCHANGED <<campaigns, joined>>
    BY <1>6 DEF C!Register
  <2>2. CampaignShape' /\ Placed'
    BY <1>1, <1>2, <1>3, <1>4, <1>5, <2>1 DEF CampaignShape, Placed
  <2>3. ASSUME NEW j \in Invitees
        PROVE  LockedAlone(j)' /\ Unrecorded(j)'
    <3>1. CASE j = i
      BY <1>3, <1>4, <3>1 DEF LockedAlone, Unrecorded
    <3>2. CASE j # i
      <4>1. reg'[j] = reg[j] /\ LockedAlone(j) /\ Unrecorded(j)
        BY <1>4, <3>2
      <4>2. \A k \in Invitees : reg'[k].phase = "locked" => reg'[k] = reg[k]
        BY <1>3, <1>4
      <4>3. LockedAlone(j)'
        BY <1>1, <2>1, <4>1, <4>2 DEF LockedAlone
      <4>4. Unrecorded(j)'
        BY <2>1, <4>1 DEF Unrecorded
      <4> QED  BY <4>3, <4>4
    <3> QED  BY <3>1, <3>2
  <2>4. \A d \in 1..Len(campaigns') : Agrees(d)'
    BY <2>1 DEF Agrees, RecordsOf
  <2>5. Spending'
    BY <1>1, <2>1 DEF Spending, SpentClosed, SavingAlone, DoneOpened, Waiting, C!Open
  <2> QED  BY <2>2, <2>3, <2>4, <2>5
<1>7. CASE reg[i].phase = "locked"
  <2> DEFINE amount == C!Lesser(Target, reg[i].amount + Reward)
             count == reg[i].count + 1
             st == IF amount >= Target THEN "completed" ELSE "active"
             row == [campaigns[c] EXCEPT !.amount = amount, !.count = count, !.status = st]
             n == Cardinality(RecordsOf(c))
  <2>1. /\ campaigns' = [campaigns EXCEPT ![c].amount = amount, ![c].count = count, ![c].status = st]
        /\ joined' = joined \cup {<<c, i>>}
    BY <1>7 DEF C!Register, C!Rewarded
  <2>2. /\ c \in 1..Len(campaigns) /\ campaigns[c] \in Campaign
        /\ campaigns[c].status = "active" /\ campaigns[c].amount = reg[i].amount
        /\ campaigns[c].count = reg[i].count
    BY <1>2, <1>7, RegParts DEF LockedAlone
  <2>3. /\ IsFiniteSet(RecordsOf(c)) /\ n \in Nat
    BY FS_Subset, FS_CardinalityType DEF RecordsOf, CampaignShape
  <2>4. reg[i].count = n /\ reg[i].amount = C!Lesser(Target, n * Reward)
    BY <2>2 DEF Agrees
  <2>5. /\ amount \in Nat /\ amount = C!Lesser(Target, (n + 1) * Reward)
        /\ count \in Nat /\ count = n + 1 /\ st \in C!Statuses
    <3>1. reg[i].count + 1 = n + 1 /\ n + 1 \in Nat
      BY <2>3, <2>4
    <3>2. amount \in Nat /\ amount = C!Lesser(Target, (n + 1) * Reward)
      <4> HIDE DEF n
      <4> QED  BY <2>3, <2>4, OneMore
    <3> QED  BY <3>1, <3>2 DEF C!Statuses
  <2> HIDE DEF amount, count, st, n
  <2>6. campaigns' = [campaigns EXCEPT ![c] = row]
    BY <2>1
  <2>7. row \in Campaign /\ row.amount = amount /\ row.count = count
    BY <2>2, <2>5 DEF Campaign
  <2> HIDE DEF row
  <2>8. /\ campaigns' \in Seq(Campaign) /\ Len(campaigns') = Len(campaigns) /\ campaigns'[c] = row
        /\ \A d \in 1..Len(campaigns) : d # c => campaigns'[d] = campaigns[d]
    BY <2>2, <2>6, <2>7, ExceptSeq DEF CampaignShape
  <2>9. CampaignShape' /\ Placed'
    <3>1. IsFiniteSet(joined')
      BY <2>1, FS_AddElement DEF CampaignShape
    <3>2. joined' \subseteq (1..Len(campaigns')) \X Invitees
      BY <2>1, <2>2, <2>8 DEF CampaignShape
    <3>3. CampaignShape'
      BY <1>1, <1>4, <1>5, <2>8, <3>1, <3>2 DEF CampaignShape
    <3>4. Placed'
      BY <1>1, <1>2, <1>3, <1>4, <2>8 DEF Placed
    <3> QED  BY <3>3, <3>4
  <2>10. ASSUME NEW j \in Invitees
         PROVE  LockedAlone(j)' /\ Unrecorded(j)'
    <3>1. CASE j = i
      BY <1>3, <1>4, <3>1 DEF LockedAlone, Unrecorded
    <3>2. CASE j # i
      <4>1. reg'[j] = reg[j] /\ LockedAlone(j) /\ Unrecorded(j)
        BY <1>4, <3>2
      <4>2. \A k \in Invitees : reg'[k].phase = "locked" => reg'[k] = reg[k]
        BY <1>3, <1>4
      <4>3. reg[j].phase = "locked" => reg[j].campaign \in 1..Len(campaigns) /\ reg[j].campaign # c
        BY <1>2, <1>7, <3>2, <4>1 DEF Placed, LockedAlone
      <4>4. reg[j].phase = "locked" => campaigns'[reg[j].campaign] = campaigns[reg[j].campaign]
        BY <2>8, <4>3
      <4>5. LockedAlone(j)'
        BY <1>1, <4>1, <4>2, <4>4 DEF LockedAlone
      <4>6. Unrecorded(j)'
        BY <2>1, <3>2, <4>1 DEF Unrecorded
      <4> QED  BY <4>5, <4>6
    <3> QED  BY <3>1, <3>2
  <2>11. ASSUME NEW d \in 1..Len(campaigns)
         PROVE  Agrees(d)'
    <3>1. CASE d = c
      <4>1. RecordsOf(d)' = RecordsOf(d) \cup {<<d, i>>}
        BY <2>1, <3>1 DEF RecordsOf
      <4>2. <<d, i>> \notin RecordsOf(d)
        BY <1>2, <1>7 DEF Unrecorded, RecordsOf, Registration
      <4>3. Cardinality(RecordsOf(d)') = n + 1
        BY <2>3, <3>1, <4>1, <4>2, FS_AddElement DEF n
      <4>4. /\ campaigns'[d].amount = C!Lesser(Target, (n + 1) * Reward)
            /\ campaigns'[d].count = n + 1
        BY <2>5, <2>7, <2>8, <3>1
      <4> QED  BY <4>3, <4>4 DEF Agrees
    <3>2. CASE d # c
      <4>1. RecordsOf(d)' = RecordsOf(d)
        BY <2>1, <3>2 DEF RecordsOf
      <4> QED  BY <2>8, <3>2, <4>1 DEF Agrees
    <3> QED  BY <3>1, <3>2
  <2>12. Spending'
    <3>1. \A o \in DOMAIN inviterOrders :
              inviterOrders[o].opened /\ inviterOrders[o].campaign # 0 =>
                  /\ inviterOrders[o].campaign # c /\ inviterOrders[o].campaign \in 1..Len(campaigns)
                  /\ ~C!Open(inviterOrders[o].campaign)
      BY <1>2, <2>2 DEF Spending, SpentClosed, Placed, C!Open
    <3>2. SpentClosed'
      BY <1>1, <2>8, <3>1 DEF SpentClosed, C!Open
    <3> QED  BY <1>1, <3>2 DEF Spending, SavingAlone, DoneOpened, Waiting
  <2> QED  BY <2>8, <2>9, <2>10, <2>11, <2>12
<1> QED  BY <1>6, <1>7

LEMMA CampaignsMove ==
    ASSUME CampaignInv, [C!Next]_C!vars
    PROVE  CampaignInv'
<1>1. ASSUME NEW c \in 1..MaxCampaigns, C!Elapse(c)
      PROVE  CampaignInv'
  BY <1>1, CampaignElapses
<1>2. ASSUME NEW h \in Handlers,
             \/ C!Create(h) \/ C!CreateFails(h) \/ C!Abandon(h)
             \/ \E c \in 1..MaxCampaigns : C!Look(h, c)
             \/ C!Created(h) \/ C!Written(h)
      PROVE  CampaignInv'
  BY <1>2, RequestsRead, CampaignCreated, StatusWritten
<1>3. ASSUME NEW i \in Invitees,
             C!FindCode(i) \/ C!FindCampaign(i) \/ C!LockCampaign(i) \/ C!Register(i) \/ C!RegisterFails(i)
      PROVE  CampaignInv'
  BY <1>3, CodeFound, CampaignFound, CampaignLocked, Registered, RegistrationFailed
<1>4. CASE C!SaveOrder \/ C!OrderSaved \/ C!OrderFails
  BY <1>4, BuyingMoves, InviterOrderSaved
<1>5. ASSUME NEW o \in 1..MaxInviterOrders, C!Cancel(o) \/ C!OpenOrder(o)
      PROVE  CampaignInv'
  BY <1>5, InviterOrderSettled
<1>6. CASE UNCHANGED C!vars
  BY <1>6 DEF C!vars, CampaignInv, CampaignShape, Placed, LockedAlone, Unrecorded, Agrees, RecordsOf,
              Spending, SpentClosed, SavingAlone, DoneOpened, Waiting, C!Open
<1> QED  BY <1>1, <1>2, <1>3, <1>4, <1>5, <1>6 DEF C!Next

(* Only a saved order is a new one.                                          *)
LEMMA OrdersGrow ==
    ASSUME CampaignInv, C!Next, NEW p \in DOMAIN inviterOrders' \ DOMAIN inviterOrders
    PROVE  C!OrderSaved
<1>1. inviterOrders' # inviterOrders
  OBVIOUS
<1>2. ASSUME NEW o \in 1..MaxInviterOrders, C!Cancel(o) \/ C!OpenOrder(o)
      PROVE  DOMAIN inviterOrders' = DOMAIN inviterOrders
  BY <1>2 DEF C!Cancel, C!OpenOrder, CampaignInv, CampaignShape
<1> QED
  BY <1>1, <1>2 DEF C!Next, C!Elapse, C!Look, C!Create, C!Created, C!CreateFails, C!Abandon, C!Written,
     C!FindCode, C!FindCampaign, C!LockCampaign, C!Register, C!RegisterFails, C!SaveOrder, C!OrderFails

(* Under the lock of its campaign a registration is alone and what it read is
   still true; the campaign of an opened order is closed for good.           *)
THEOREM CampaignInvHolds == C!Spec => []CampaignInv
<1>1. C!Init => CampaignInv
  <2> SUFFICES ASSUME C!Init
               PROVE  CampaignInv
    OBVIOUS
  <2>1. /\ campaigns = <<>> /\ inviterOrders = <<>> /\ joined = {} /\ codes = <<TRUE>>
        /\ buying = C!NoOrder
        /\ reg = [i \in Invitees |-> C!NoReg] /\ req = [h \in Handlers |-> C!NoReq]
    BY DEF C!Init
  <2>2. Len(campaigns) = 0 /\ DOMAIN inviterOrders = {} /\ IsFiniteSet(joined)
    BY <2>1, FS_EmptySet
  <2>3. CampaignShape
    <3>1. C!NoReg \in Registration /\ C!NoReq \in Request
      BY DEF C!NoReg, Registration, C!NoReq, Request
    <3>2. C!NoOrder \in [phase : {"none", "read"}, campaign : Nat, expires : Nat]
      BY DEF C!NoOrder
    <3> QED  BY <2>1, <2>2, <3>1, <3>2 DEF CampaignShape
  <2>4. Placed /\ \A i \in Invitees : LockedAlone(i) /\ Unrecorded(i)
    BY <2>1, <2>2 DEF Placed, LockedAlone, Unrecorded, C!NoReg, C!NoReq, C!NoOrder
  <2>5. \A c \in 1..Len(campaigns) : Agrees(c)
    BY <2>2
  <2>6. Spending
    BY <2>1, <2>2 DEF Spending, SpentClosed, SavingAlone, DoneOpened, C!NoOrder
  <2> QED  BY <2>3, <2>4, <2>5, <2>6 DEF CampaignInv
<1>2. CampaignInv /\ [C!Next]_C!vars => CampaignInv'
  BY CampaignsMove
<1> QED  BY <1>1, <1>2, PTL DEF C!Spec

(* What a campaign has collected is what its records are worth, however many
   users register at the same moment.                                        *)
THEOREM AmountAgreesHolds == C!Spec => []AmountAgrees
<1>1. CampaignInv => AmountAgrees
  <2> SUFFICES ASSUME CampaignInv, NEW c \in DOMAIN campaigns
               PROVE  LET n == C!Cardinality({r \in joined : r[1] = c})
                      IN campaigns[c].count = n /\ campaigns[c].amount = C!Lesser(Target, n * Reward)
    BY DEF AmountAgrees, C!AmountAgrees
  <2>1. Agrees(c)
    BY RegParts DEF CampaignInv, CampaignShape
  <2>2. C!Cardinality(RecordsOf(c)) = Cardinality(RecordsOf(c))
    BY SameCardinality
  <2> QED  BY <2>1, <2>2 DEF Agrees, RecordsOf
<1> QED  BY <1>1, CampaignInvHolds, PTL

(* DiscountOnce: no order is given the discount of a campaign that an earlier
   order holds or has ever spent, whatever is cancelled, recovered or refunded in
   between and whoever writes the campaign's status by what it read before.
   (user/order_write.go:726-760, 879-883; payment_lifecycle.go:148-221)       *)
THEOREM DiscountOnceHolds == C!Spec => DiscountOnce
<1> DEFINE Body == \A p \in DOMAIN inviterOrders' \ DOMAIN inviterOrders :
              inviterOrders'[p].campaign # 0 =>
                \A o \in DOMAIN inviterOrders : inviterOrders[o].campaign = inviterOrders'[p].campaign =>
                    inviterOrders[o].status = "cancelled" /\ ~inviterOrders[o].opened
<1>1. CampaignInv /\ [C!Next]_C!vars => [Body]_C!vars
  <2> SUFFICES ASSUME CampaignInv, C!Next,
                      NEW p \in DOMAIN inviterOrders' \ DOMAIN inviterOrders,
                      inviterOrders'[p].campaign # 0,
                      NEW o \in DOMAIN inviterOrders,
                      inviterOrders[o].campaign = inviterOrders'[p].campaign
               PROVE  inviterOrders[o].status = "cancelled" /\ ~inviterOrders[o].opened
    OBVIOUS
  <2>1. inviterOrders \in Seq(InviterOrder) /\ inviterOrders[o] \in InviterOrder /\ Spending
    BY DEF CampaignInv, CampaignShape
  <2>2. C!OrderSaved
    BY OrdersGrow
  <2>3. buying.phase = "read" /\ inviterOrders'[p].campaign = buying.campaign
    <3> DEFINE e == [campaign |-> buying.campaign, status |-> "new", opened |-> FALSE]
    <3>1. inviterOrders' = Append(inviterOrders, e) /\ e.campaign = buying.campaign
      BY <2>2 DEF C!OrderSaved
    <3> HIDE DEF e
    <3>2. DOMAIN inviterOrders' = 1..(Len(inviterOrders) + 1) /\ DOMAIN inviterOrders = 1..Len(inviterOrders)
          /\ Len(inviterOrders) \in Nat
      BY <2>1, <3>1
    <3>3. p = Len(inviterOrders) + 1
      BY <3>2
    <3> QED  BY <2>1, <2>2, <3>1, <3>3 DEF C!OrderSaved
  <2>4. ~Waiting(o) /\ ~inviterOrders[o].opened
    BY <2>1, <2>3 DEF Spending, SavingAlone
  <2>5. inviterOrders[o].status # "done"
    BY <2>1, <2>4 DEF Spending, DoneOpened
  <2> QED  BY <2>1, <2>4, <2>5 DEF InviterOrder, Waiting
<1>2. DiscountOnce <=> [][Body]_C!vars
  BY DEF DiscountOnce, C!DiscountOnce
<1> HIDE DEF Body
<1> QED  BY <1>1, <1>2, CampaignInvHolds, PTL DEF C!Spec

-----------------------------------------------------------------------------
(* Sums over finite sets.  SumFunctionOnSet is a recursive function on the subsets of
   its set, so what it is follows by induction over them: a set of counterexamples
   has one that is minimal for inclusion.                                       *)
LEMMA Minimal ==
    ASSUME NEW S, IsFiniteSet(S), NEW D, D \subseteq SUBSET S, D # {}
    PROVE  \E T \in D : \A U \in D : U \subseteq T => U = T
<1> DEFINE R == StrictSubsetOrdering(S)
<1>1. IsWellFoundedOn(R, SUBSET S)
  BY FS_StrictSubsetOrderingWellFounded, FS_FiniteSubsetsOfFinite
<1> HIDE DEF R
<1>2. PICK T \in D : \A U \in D : ~(<<U, T>> \in R)
  BY <1>1, WFMin
<1>3. ASSUME NEW U \in D, U \subseteq T, U # T
      PROVE  FALSE
  <2>1. <<U, T>> \in R
    BY <1>3 DEF R, StrictSubsetOrdering
  <2> QED  BY <1>2, <2>1
<1> QED  BY <1>3

Pick(s) == CHOOSE x \in s : TRUE
Recurs(f, S, g) == g = [s \in SUBSET S |-> IF s = {} THEN 0 ELSE f[Pick(s)] + g[s \ {Pick(s)}]]

LEMMA PickIn ==
    ASSUME NEW s, s # {}
    PROVE  Pick(s) \in s
BY DEF Pick

LEMMA RecursAt ==
    ASSUME NEW f, NEW S, NEW g, Recurs(f, S, g), NEW s \in SUBSET S
    PROVE  g[s] = IF s = {} THEN 0 ELSE f[Pick(s)] + g[s \ {Pick(s)}]
BY DEF Recurs

LEMMA RecursUnique ==
    ASSUME NEW f, NEW S, IsFiniteSet(S), NEW T \in SUBSET S, NEW g, NEW h,
           Recurs(f, S, g), Recurs(f, T, h)
    PROVE  \A s \in SUBSET T : g[s] = h[s]
<1> DEFINE D == {s \in SUBSET T : g[s] # h[s]}
<1> SUFFICES ASSUME D # {}  PROVE FALSE
  OBVIOUS
<1>1. PICK s \in D : \A u \in D : u \subseteq s => u = s
  <2>1. D \subseteq SUBSET S
    OBVIOUS
  <2> HIDE DEF D
  <2> QED  BY <2>1, Minimal
<1>2. s \in SUBSET S /\ s \in SUBSET T /\ g[s] # h[s]
  OBVIOUS
<1>3. s # {}
  BY <1>2, RecursAt
<1> DEFINE u == s \ {Pick(s)}
<1>4. u \in SUBSET T /\ u \subseteq s /\ u # s
  BY <1>2, <1>3, PickIn
<1>5. g[u] = h[u]
  BY <1>1, <1>4
<1>6. g[s] = f[Pick(s)] + g[u] /\ h[s] = f[Pick(s)] + h[u]
  BY <1>2, <1>3, RecursAt
<1> QED  BY <1>2, <1>5, <1>6

LEMMA RecursExists ==
    ASSUME NEW f, NEW S, IsFiniteSet(S)
    PROVE  \E g : Recurs(f, S, g)
<1> DEFINE D == {T \in SUBSET S : ~\E g : Recurs(f, T, g)}
<1> SUFFICES ASSUME D # {}  PROVE FALSE
  OBVIOUS
<1>1. PICK T \in D : \A U \in D : U \subseteq T => U = T
  <2>1. D \subseteq SUBSET S
    OBVIOUS
  <2> HIDE DEF D
  <2> QED  BY <2>1, Minimal
<1>2. T \in SUBSET S /\ IsFiniteSet(T)
  BY FS_Subset
<1> DEFINE G(U) == CHOOSE g : Recurs(f, U, g)
<1>3. ASSUME NEW U \in SUBSET T, U # T
      PROVE  Recurs(f, U, G(U)) /\ IsFiniteSet(U)
  <2>1. \E g : Recurs(f, U, g)
    BY <1>1, <1>2, <1>3
  <2>2. Recurs(f, U, G(U))
    BY <2>1
  <2> QED  BY <1>2, <2>2, FS_Subset
<1> HIDE DEF G
<1> DEFINE Rest(s) == s \ {Pick(s)}
           g == [s \in SUBSET T |-> IF s = {} THEN 0 ELSE f[Pick(s)] + G(Rest(s))[Rest(s)]]
<1>4. ASSUME NEW s \in SUBSET T, s # {}
      PROVE  g[Rest(s)] = G(Rest(s))[Rest(s)]
  <2> DEFINE u == Rest(s)
  <2>1. u \in SUBSET T /\ u # T
    BY <1>4, PickIn
  <2>2. Recurs(f, u, G(u)) /\ IsFiniteSet(u)
    BY <1>3, <2>1
  <2> HIDE DEF u
  <2>3. CASE u = {}
    <3>1. G(u)[u] = 0
      BY <2>2, <2>3, RecursAt
    <3> QED  BY <2>1, <2>3, <3>1 DEF u
  <2>4. CASE u # {}
    <3> DEFINE v == Rest(u)
    <3>1. v \in SUBSET u /\ v \in SUBSET T /\ v # T
      BY <2>1
    <3>2. Recurs(f, v, G(v))
      BY <1>3, <3>1
    <3>3. G(u)[v] = G(v)[v]
      BY <2>2, <3>1, <3>2, RecursUnique
    <3>4. G(u)[u] = f[Pick(u)] + G(u)[v]
      BY <2>2, <2>4, RecursAt
    <3>5. g[u] = f[Pick(u)] + G(v)[v]
      BY <2>1, <2>4
    <3> QED  BY <3>3, <3>4, <3>5 DEF u
  <2> QED  BY <2>3, <2>4
<1>5. g = [s \in SUBSET T |-> IF s = {} THEN 0 ELSE f[Pick(s)] + g[s \ {Pick(s)}]]
  BY <1>4
<1>6. Recurs(f, T, g)
  BY <1>5 DEF Recurs
<1> QED  BY <1>1, <1>6

LEMMA SumUnfolds ==
    ASSUME NEW f, NEW S, IsFiniteSet(S)
    PROVE  \E g : Recurs(f, S, g) /\ SumFunctionOnSet(f, S) = g[S]
<1>1. \E g : Recurs(f, S, g)
  BY RecursExists
<1> QED  BY <1>1 DEF Recurs, Pick, SumFunctionOnSet, FoldFunctionOnSet, MapThenFoldSet

LEMMA SumPick ==
    ASSUME NEW f, NEW S, IsFiniteSet(S)
    PROVE  SumFunctionOnSet(f, S) =
             IF S = {} THEN 0 ELSE f[Pick(S)] + SumFunctionOnSet(f, S \ {Pick(S)})
<1>1. PICK g : Recurs(f, S, g) /\ SumFunctionOnSet(f, S) = g[S]
  BY SumUnfolds
<1> DEFINE T == S \ {Pick(S)}
<1>2. T \in SUBSET S /\ IsFiniteSet(T)
  BY FS_Subset
<1>3. PICK h : Recurs(f, T, h) /\ SumFunctionOnSet(f, T) = h[T]
  BY <1>2, SumUnfolds
<1>4. g[T] = h[T]
  <2> HIDE DEF T
  <2> QED  BY <1>1, <1>2, <1>3, RecursUnique
<1>5. g[S] = IF S = {} THEN 0 ELSE f[Pick(S)] + g[T]
  <2>1. S \in SUBSET S /\ Recurs(f, S, g)
    BY <1>1
  <2> HIDE DEF T
  <2>2. g[S] = IF S = {} THEN 0 ELSE f[Pick(S)] + g[S \ {Pick(S)}]
    BY <2>1, RecursAt
  <2> QED  BY <2>2 DEF T
<1> HIDE DEF T
<1> QED  BY <1>1, <1>3, <1>4, <1>5 DEF T

(* A sum is an integer, it depends on the summands alone, and any of them can be
   taken out of it.                                                            *)
Ints(f, S) == \A x \in S : f[x] \in Int

LEMMA SumEmpty ==
    ASSUME NEW f
    PROVE  SumFunctionOnSet(f, {}) = 0
BY SumPick, FS_EmptySet

LEMMA SumType ==
    ASSUME NEW f, NEW S, IsFiniteSet(S), Ints(f, S)
    PROVE  SumFunctionOnSet(f, S) \in Int
<1> DEFINE D == {T \in SUBSET S : SumFunctionOnSet(f, T) \notin Int}
<1> SUFFICES ASSUME D # {}  PROVE FALSE
  OBVIOUS
<1>1. PICK T \in D : \A U \in D : U \subseteq T => U = T
  <2>1. D \subseteq SUBSET S
    OBVIOUS
  <2> HIDE DEF D
  <2> QED  BY <2>1, Minimal
<1>2. T \in SUBSET S /\ IsFiniteSet(T) /\ SumFunctionOnSet(f, T) \notin Int
  BY FS_Subset
<1>3. T # {}
  BY <1>2, SumEmpty
<1> DEFINE U == T \ {Pick(T)}
<1>4. U \in SUBSET S /\ U \subseteq T /\ U # T /\ f[Pick(T)] \in Int
  BY <1>2, <1>3, PickIn DEF Ints
<1>5. SumFunctionOnSet(f, U) \in Int
  BY <1>1, <1>4
<1>6. SumFunctionOnSet(f, T) = f[Pick(T)] + SumFunctionOnSet(f, U)
  BY <1>2, <1>3, SumPick
<1> HIDE DEF U
<1> QED  BY <1>2, <1>4, <1>5, <1>6

(* What changing one summand does to a sum.                                  *)
LEMMA SumChanged ==
    ASSUME NEW f, NEW g, NEW S, IsFiniteSet(S), Ints(f, S), Ints(g, S), NEW x,
           \A y \in S : y # x => g[y] = f[y]
    PROVE  SumFunctionOnSet(g, S) = SumFunctionOnSet(f, S) + IF x \in S THEN g[x] - f[x] ELSE 0
<1> DEFINE d(T) == IF x \in T THEN g[x] - f[x] ELSE 0
           D == {T \in SUBSET S : SumFunctionOnSet(g, T) # SumFunctionOnSet(f, T) + d(T)}
<1> SUFFICES ASSUME D # {}  PROVE FALSE
  BY S \in SUBSET S
<1>1. PICK T \in D : \A U \in D : U \subseteq T => U = T
  <2>1. D \subseteq SUBSET S
    OBVIOUS
  <2> HIDE DEF D
  <2> QED  BY <2>1, Minimal
<1>2. /\ T \in SUBSET S /\ IsFiniteSet(T)
      /\ SumFunctionOnSet(g, T) # SumFunctionOnSet(f, T) + d(T)
  BY FS_Subset
<1>3. T # {}
  BY <1>2, SumEmpty
<1> DEFINE c == Pick(T)
           U == T \ {c}
<1>4. c \in T /\ U \in SUBSET S /\ U \subseteq T /\ U # T /\ IsFiniteSet(U)
  BY <1>2, <1>3, PickIn, FS_Subset
<1>5. SumFunctionOnSet(g, U) = SumFunctionOnSet(f, U) + d(U)
  BY <1>1, <1>4
<1>6. /\ SumFunctionOnSet(f, T) = f[c] + SumFunctionOnSet(f, U)
      /\ SumFunctionOnSet(g, T) = g[c] + SumFunctionOnSet(g, U)
  BY <1>2, <1>3, SumPick
<1>7. /\ SumFunctionOnSet(f, U) \in Int /\ f[c] \in Int /\ g[c] \in Int
      /\ x \in T => f[x] \in Int /\ g[x] \in Int
  BY <1>2, <1>4, SumType DEF Ints
<1>8. d(T) = IF c = x THEN g[c] - f[c] ELSE d(U)
  BY <1>4
<1>9. c = x => d(U) = 0
  OBVIOUS
<1>10. c # x => g[c] = f[c]
  BY <1>2, <1>4
<1>11. d(U) \in Int
  BY <1>4, <1>7
<1> HIDE DEF U, c, d
<1> QED  BY <1>2, <1>5, <1>6, <1>7, <1>8, <1>9, <1>10, <1>11

LEMMA SumOne ==
    ASSUME NEW f, NEW x, f[x] \in Int
    PROVE  SumFunctionOnSet(f, {x}) = f[x]
<1>1. IsFiniteSet({x}) /\ Pick({x}) = x /\ {x} \ {x} = {}
  BY FS_Singleton, PickIn
<1>2. SumFunctionOnSet(f, {x}) = f[Pick({x})] + SumFunctionOnSet(f, {x} \ {Pick({x})})
  BY <1>1, SumPick
<1>3. SumFunctionOnSet(f, {x}) = f[x] + SumFunctionOnSet(f, {})
  BY <1>1, <1>2
<1>4. SumFunctionOnSet(f, {}) = 0
  BY SumEmpty
<1> QED  BY <1>3, <1>4

LEMMA SumZero ==
    ASSUME NEW f, NEW S, IsFiniteSet(S), \A x \in S : f[x] = 0
    PROVE  SumFunctionOnSet(f, S) = 0
<1> DEFINE D == {T \in SUBSET S : SumFunctionOnSet(f, T) # 0}
<1> SUFFICES ASSUME D # {}  PROVE FALSE
  BY S \in SUBSET S
<1>1. PICK T \in D : \A U \in D : U \subseteq T => U = T
  <2>1. D \subseteq SUBSET S
    OBVIOUS
  <2> HIDE DEF D
  <2> QED  BY <2>1, Minimal
<1>2. T \in SUBSET S /\ IsFiniteSet(T) /\ SumFunctionOnSet(f, T) # 0
  BY FS_Subset
<1>3. T # {}
  BY <1>2, SumEmpty
<1> DEFINE U == T \ {Pick(T)}
<1>4. U \in SUBSET S /\ U \subseteq T /\ U # T /\ f[Pick(T)] = 0
  BY <1>2, <1>3, PickIn
<1>5. SumFunctionOnSet(f, U) = 0
  BY <1>1, <1>4
<1>6. SumFunctionOnSet(f, T) = f[Pick(T)] + SumFunctionOnSet(f, U)
  BY <1>2, <1>3, SumPick
<1> HIDE DEF U
<1> QED  BY <1>2, <1>4, <1>5, <1>6

-----------------------------------------------------------------------------
(* Commission                                                                *)

CommissionShape ==
    /\ completed \subseteq Orders /\ invited \subseteq Orders /\ inviters \subseteq Users
    /\ state \in [Orders -> 0..3] /\ due \in [Orders -> Nat] /\ actual \in [Orders -> Nat]
    /\ log \in [Orders -> Seq(Row)] /\ nextRow \in Nat \ {0}
    /\ commission \in [Users -> Int] /\ wallet \in [Users -> Nat] /\ spent \in [Users -> Nat]

(* What an order that names its inviter shows of its payout, and what its log
   shows, is the same; the inviter is there.  An order that lost its inviter
   may be refunded and keep its log.  A log has one row, of the order's amount. *)
OneRow(rows, n) == Len(rows) = 1 /\ rows[1].amount = n

Booked(o) ==
    /\ o \in invited => InviterOf[o] \in inviters
    /\ o \notin Deposits => due[o] = Amount[o]
    /\ log[o] # <<>> => o \notin Deposits /\ state[o] \in {2, 3} /\ OneRow(log[o], Amount[o])
    /\ o \notin Deposits /\ o \in invited =>
         /\ log[o] # <<>> => state[o] = 2
         /\ state[o] = 2 \/ actual[o] > 0 => log[o] # <<>>
    /\ actual[o] > 0 => actual[o] = Amount[o]

CommissionInv == CommissionShape /\ \A o \in Orders : Booked(o)

Earned == {o \in Orders : log[o] # <<>>}
Receipts == [u \in Users |-> Received(u)]

LEMMA Constants ==
    /\ Deposits \subseteq Orders
    /\ \A o \in Orders : InviterOf[o] \in Users /\ Amount[o] \in Nat /\ Amount[o] > 0
BY CommissionAssumption

(* Steps that leave the log and what inviters received alone.                *)
LEMMA Stutters ==
    ASSUME log' = log, UNCHANGED money
    PROVE  UNCHANGED Ledger!ledger
BY DEF Ledger!ledger, money, Received

(* What moves between the accounts of an inviter.                            *)
LEMMA Moved ==
    ASSUME CommissionShape, NEW u \in Users, NEW d \in Int,
           commission' \in [Users -> Int], wallet' \in [Users -> Nat], spent' \in [Users -> Nat],
           \A v \in Users \ {u} : /\ commission'[v] = commission[v] /\ wallet'[v] = wallet[v]
                                  /\ spent'[v] = spent[v],
           commission'[u] + wallet'[u] + spent'[u] = commission[u] + wallet[u] + spent[u] + d
    PROVE  Receipts' = [Receipts EXCEPT ![u] = @ + d] /\ (d = 0 => Receipts' = Receipts)
<1>1. \A v \in Users : Receipts'[v] = IF v = u THEN Receipts[v] + d ELSE Receipts[v]
  BY DEF Receipts, Received
<1>2. /\ Receipts = [v \in Users |-> Receipts[v]] /\ Receipts' = [v \in Users |-> Receipts'[v]]
      /\ \A v \in Users : Receipts[v] \in Int
  BY DEF Receipts, Received, CommissionShape
<1>3. Receipts' = [Receipts EXCEPT ![u] = Receipts[u] + d]
  <2>1. Receipts' = [v \in Users |-> IF v = u THEN Receipts[v] + d ELSE Receipts[v]]
    BY <1>1, <1>2
  <2> QED  BY <1>2, <2>1
<1>4. ASSUME d = 0
      PROVE  Receipts' = Receipts
  <2>1. \A v \in Users : Receipts'[v] = Receipts[v]
    BY <1>1, <1>2, <1>4
  <2> QED  BY <1>2, <2>1
<1> QED  BY <1>3, <1>4

(* Both facts about a step that changes one order and no account.            *)
LEMMA OrderChanges ==
    ASSUME CommissionInv, NEW o \in Orders,
           completed' \subseteq Orders, UNCHANGED <<invited, inviters, log, nextRow, commission, wallet, spent>>,
           state' \in [Orders -> 0..3], due' \in [Orders -> Nat], actual' \in [Orders -> Nat],
           \A p \in Orders \ {o} : state'[p] = state[p] /\ due'[p] = due[p] /\ actual'[p] = actual[p],
           Booked(o)'
    PROVE  CommissionInv' /\ UNCHANGED Ledger!ledger
<1> USE DEF CommissionInv
<1>1. CommissionShape'
  BY DEF CommissionShape
<1>2. \A p \in Orders : Booked(p)'
  <2> SUFFICES ASSUME NEW p \in Orders, p # o
               PROVE  Booked(p)'
    OBVIOUS
  <2> QED  BY DEF Booked
<1>3. UNCHANGED Ledger!ledger
  BY Stutters DEF money
<1> QED  BY <1>1, <1>2, <1>3

LEMMA DepositCloses ==
    ASSUME CommissionInv, NEW o \in Orders, o \in Deposits, CloseDeposit(o),
           completed' \subseteq Orders, UNCHANGED <<invited, inviters, log, nextRow, commission, wallet, spent>>
    PROVE  CommissionInv' /\ UNCHANGED Ledger!ledger
<1> USE DEF CommissionInv
<1>1. /\ state' \in [Orders -> 0..3] /\ due' \in [Orders -> Nat] /\ actual' \in [Orders -> Nat]
      /\ state'[o] = 2 /\ due'[o] = 0 /\ actual'[o] = 0
      /\ \A p \in Orders \ {o} : state'[p] = state[p] /\ due'[p] = due[p] /\ actual'[p] = actual[p]
  BY DEF CloseDeposit, CommissionShape
<1>2. Booked(o)'
  BY <1>1 DEF Booked
<1> QED  BY <1>1, <1>2, OrderChanges

LEMMA OrdersChange ==
    ASSUME CommissionInv, NEW o \in Orders,
           OrderPaid(o) \/ DelayPasses(o) \/ \E new \in {0, 1, 3} : UpdateOrder(o, new)
    PROVE  CommissionInv' /\ UNCHANGED Ledger!ledger
<1> USE DEF CommissionInv
<1>1. CASE OrderPaid(o)
  <2>1. /\ completed' \subseteq Orders
        /\ UNCHANGED <<invited, inviters, log, nextRow, commission, wallet, spent>>
    BY <1>1 DEF OrderPaid, CommissionShape, records, money
  <2>2. CASE o \in Deposits
    <3>1. CloseDeposit(o)
      BY <1>1, <2>2 DEF OrderPaid
    <3> QED  BY <2>1, <2>2, <3>1, DepositCloses
  <2>3. CASE o \notin Deposits
    <3>1. UNCHANGED <<state, due, actual>>
      BY <1>1, <2>3 DEF OrderPaid
    <3>2. Booked(o)'
      BY <2>1, <3>1 DEF Booked
    <3> QED  BY <2>1, <3>1, <3>2, OrderChanges DEF CommissionShape
  <2> QED  BY <2>2, <2>3
<1>2. CASE DelayPasses(o)
  <2>1. UNCHANGED <<completed, state, due, actual, invited, inviters, log, nextRow, commission, wallet, spent>>
    BY <1>2 DEF DelayPasses, records, money
  <2>2. Booked(o)'
    BY <2>1 DEF Booked
  <2> QED  BY <2>1, <2>2, OrderChanges DEF CommissionShape
<1>3. ASSUME NEW new \in {0, 1, 3}, UpdateOrder(o, new)
      PROVE  CommissionInv' /\ UNCHANGED Ledger!ledger
  <2>1. /\ UNCHANGED <<completed, due, actual, invited, inviters, log, nextRow, commission, wallet, spent>>
        /\ state' = [state EXCEPT ![o] = new] /\ ~Settled(o)
    BY <1>3 DEF UpdateOrder, records, money
  <2>2. /\ state' \in [Orders -> 0..3] /\ state'[o] = new
        /\ \A p \in Orders \ {o} : state'[p] = state[p]
    BY <2>1 DEF CommissionShape
  <2>3. log[o] = <<>> /\ ~(actual[o] > 0) /\ new # 2
    BY <2>1 DEF Settled, HasLedger
  <2>4. Booked(o)'
    BY <2>1, <2>2, <2>3 DEF Booked
  <2> QED  BY <2>1, <2>2, <2>4, OrderChanges DEF CommissionShape
<1> QED  BY <1>1, <1>2, <1>3

(* Steps of other parts.                                                     *)
LEMMA NothingBooked ==
    ASSUME CommissionInv, UNCHANGED <<completed, state, due, actual, invited, log, nextRow, inviters,
                                      commission, wallet, spent>>
    PROVE  CommissionInv' /\ UNCHANGED Ledger!ledger
<1>1. CommissionInv'
  BY DEF CommissionInv, CommissionShape, Booked
<1> QED  BY <1>1, Stutters DEF money

LEMMA InviterLeaves ==
    ASSUME CommissionInv, NEW u \in Users, DeleteInviter(u)
    PROVE  CommissionInv' /\ Ledger!Leave(u)
<1> USE DEF CommissionInv
<1>1. /\ inviters' = inviters \ {u} /\ invited' = {o \in invited : InviterOf[o] # u}
      /\ UNCHANGED <<completed, state, due, actual, log, nextRow, commission, wallet, spent>>
  BY DEF DeleteInviter, records
<1>2. CommissionShape'
  BY <1>1 DEF CommissionShape
<1>3. ASSUME NEW o \in Orders
      PROVE  Booked(o)'
  <2>1. (o \in invited') => o \in invited /\ InviterOf[o] # u
    BY <1>1
  <2> QED  BY <1>1, <2>1 DEF Booked
<1>4. Ledger!Leave(u)
  BY <1>1 DEF Ledger!Leave, Received
<1> QED  BY <1>2, <1>3, <1>4

(* The inviter moves or spends what the accounts hold.                       *)
LEMMA AccountsMove ==
    ASSUME CommissionInv, NEW u \in Users, NEW n \in 1..MaxMove, Transfer(u, n) \/ Spend(u, n)
    PROVE  CommissionInv' /\ UNCHANGED Ledger!ledger
<1> USE DEF CommissionInv
<1>1. n \in Nat /\ commission[u] \in Int /\ wallet[u] \in Nat /\ spent[u] \in Nat
  BY CommissionAssumption DEF CommissionShape
<1>2. UNCHANGED <<completed, state, due, actual, invited, log, nextRow, inviters>>
  BY DEF Transfer, Spend, orders, records
<1>3. /\ commission' \in [Users -> Int] /\ wallet' \in [Users -> Nat] /\ spent' \in [Users -> Nat]
      /\ \A v \in Users \ {u} : /\ commission'[v] = commission[v] /\ wallet'[v] = wallet[v]
                                /\ spent'[v] = spent[v]
      /\ commission'[u] + wallet'[u] + spent'[u] = commission[u] + wallet[u] + spent[u] + 0
  <2>1. CASE Transfer(u, n)
    <3>1. /\ commission' = [commission EXCEPT ![u] = commission[u] - n]
          /\ wallet' = [wallet EXCEPT ![u] = wallet[u] + n] /\ spent' = spent
      BY <2>1 DEF Transfer
    <3> QED  BY <1>1, <3>1 DEF CommissionShape
  <2>2. CASE Spend(u, n)
    <3>1. /\ spent' = [spent EXCEPT ![u] = spent[u] + n]
          /\ \/ /\ n <= wallet[u] /\ wallet' = [wallet EXCEPT ![u] = wallet[u] - n]
                /\ commission' = commission
             \/ /\ commission' = [commission EXCEPT ![u] = commission[u] - n]
                /\ wallet' = wallet
      BY <2>2 DEF Spend
    <3>2. CASE /\ n <= wallet[u] /\ wallet' = [wallet EXCEPT ![u] = wallet[u] - n]
               /\ commission' = commission
      <4>1. wallet[u] - n \in Nat
        BY <1>1, <3>2
      <4> QED  BY <1>1, <3>1, <3>2, <4>1 DEF CommissionShape
    <3>3. CASE /\ commission' = [commission EXCEPT ![u] = commission[u] - n]
               /\ wallet' = wallet
      BY <1>1, <3>1, <3>3 DEF CommissionShape
    <3> QED  BY <3>1, <3>2, <3>3
  <2> QED  BY <2>1, <2>2
<1>4. CommissionInv'
  BY <1>2, <1>3 DEF CommissionShape, Booked
<1>5. Receipts' = Receipts
  BY <1>3, Moved
<1> QED  BY <1>2, <1>4, <1>5 DEF Ledger!ledger, Receipts

(* Hiding and restoring rows keeps every row.                                *)
LEMMA LogsApplied ==
    ASSUME CommissionInv, NEW k \in Keys, NEW t \in Tokens, ApplyCommissionLogs(k, t)
    PROVE  CommissionInv' /\ UNCHANGED Ledger!ledger
<1> USE DEF CommissionInv
<1> DEFINE hide == preview[t].action = "delete"
           new(r) == IF r.id \in FrozenIds(t) THEN [r EXCEPT !.hidden = hide, !.version = @ + 1] ELSE r
           rows(o) == [i \in DOMAIN log[o] |-> new(log[o][i])]
<1>1. /\ log' = [o \in Orders |-> rows(o)]
      /\ UNCHANGED <<completed, state, due, actual, invited, nextRow, inviters, commission, wallet, spent>>
  BY DEF ApplyCommissionLogs, orders, money
<1>2. ASSUME NEW r \in Row
      PROVE  new(r) \in Row
  <2>1. r.version \in Nat /\ r.version + 1 \in Nat /\ hide \in BOOLEAN
    BY DEF Row
  <2> QED  BY <2>1 DEF Row
<1> HIDE DEF new
<1>3. ASSUME NEW o \in Orders
      PROVE  /\ rows(o) \in Seq(Row) /\ (rows(o) = <<>> <=> log[o] = <<>>)
             /\ \A n : OneRow(log[o], n) => OneRow(rows(o), n)
  <2>1. /\ log[o] \in Seq(Row) /\ Len(log[o]) \in Nat /\ DOMAIN log[o] = 1..Len(log[o])
        /\ \A i \in 1..Len(log[o]) : log[o][i] \in Row
    BY DEF CommissionShape
  <2>2. rows(o) \in [1..Len(log[o]) -> Row]
    BY <1>2, <2>1
  <2>3. rows(o) \in Seq(Row) /\ Len(rows(o)) = Len(log[o])
    <3>1. rows(o) \in Seq(Row)
      BY <2>1, <2>2, SeqDef
    <3>2. DOMAIN rows(o) = 1..Len(log[o])
      BY <2>2
    <3> QED  BY <2>1, <3>1, <3>2, LenProperties
  <2>4. rows(o) = <<>> <=> Len(rows(o)) = 0
    BY <2>3, EmptySeq
  <2>5. log[o] = <<>> <=> Len(log[o]) = 0
    BY <2>1, EmptySeq
  <2>6. ASSUME NEW n, OneRow(log[o], n)
        PROVE  OneRow(rows(o), n)
    <3>1. Len(log[o]) = 1 /\ log[o][1].amount = n /\ 1 \in DOMAIN log[o] /\ log[o][1] \in Row
      BY <2>1, <2>6 DEF OneRow
    <3>2. new(log[o][1]).amount = n
      BY <3>1 DEF new, Row
    <3>3. rows(o)[1] = new(log[o][1])
      BY <3>1
    <3> QED  BY <2>3, <3>1, <3>2, <3>3 DEF OneRow
  <2> QED  BY <2>3, <2>4, <2>5, <2>6
<1> HIDE DEF rows
<1>4. /\ log' \in [Orders -> Seq(Row)]
      /\ \A o \in Orders : /\ log'[o] = <<>> <=> log[o] = <<>>
                           /\ OneRow(log[o], Amount[o]) => OneRow(log'[o], Amount[o])
  BY <1>1, <1>3
<1>5. CommissionInv'
  <2>1. CommissionShape'
    BY <1>1, <1>4 DEF CommissionShape
  <2>2. ASSUME NEW o \in Orders
        PROVE  Booked(o)'
    <3>1. /\ log'[o] = <<>> <=> log[o] = <<>>
          /\ OneRow(log[o], Amount[o]) => OneRow(log'[o], Amount[o])
      BY <1>4
    <3> QED  BY <1>1, <3>1 DEF Booked
  <2> QED  BY <2>1, <2>2
<1>6. Receipts' = Receipts
  BY <1>1 DEF Receipts, Received
<1>7. Earned' = Earned
  BY <1>4 DEF Earned
<1> QED  BY <1>1, <1>5, <1>6, <1>7 DEF Ledger!ledger, Receipts, Earned

(* What is credited arrives in one of the accounts, whole.                   *)
LEMMA CreditMoves ==
    ASSUME CommissionShape, NEW u \in Users, NEW n \in Nat, Credit(u, n)
    PROVE  /\ commission' \in [Users -> Int] /\ wallet' \in [Users -> Nat]
           /\ \A v \in Users \ {u} : commission'[v] = commission[v] /\ wallet'[v] = wallet[v]
           /\ commission'[u] + wallet'[u] = commission[u] + wallet[u] + n
<1> DEFINE r == Repaid(u, n)
<1>1. commission[u] \in Int /\ wallet[u] \in Nat
  BY DEF CommissionShape
<1>2. r \in Nat /\ r <= n
  BY <1>1 DEF Repaid, Min2
<1>3. \E close \in WithdrawClose :
          /\ commission' = [commission EXCEPT ![u] = commission[u] + r + IF close THEN 0 ELSE n - r]
          /\ wallet' = [wallet EXCEPT ![u] = wallet[u] + IF close THEN n - r ELSE 0]
  BY DEF Credit, Paid
<1> HIDE DEF r
<1>4. PICK close \in WithdrawClose :
          /\ commission' = [commission EXCEPT ![u] = commission[u] + r + IF close THEN 0 ELSE n - r]
          /\ wallet' = [wallet EXCEPT ![u] = wallet[u] + IF close THEN n - r ELSE 0]
  BY <1>3
<1> DEFINE c == commission[u] + r + IF close THEN 0 ELSE n - r
           w == wallet[u] + IF close THEN n - r ELSE 0
<1>5. c \in Int /\ w \in Nat /\ c + w = commission[u] + wallet[u] + n
  <2>1. CASE close
    BY <1>1, <1>2, <2>1
  <2>2. CASE ~close
    BY <1>1, <1>2, <2>2
  <2> QED  BY <2>1, <2>2
<1>6. commission' = [commission EXCEPT ![u] = c] /\ wallet' = [wallet EXCEPT ![u] = w]
  BY <1>4
<1> HIDE DEF c, w
<1> QED  BY <1>1, <1>5, <1>6 DEF CommissionShape

(* The commission of an order is paid out.                                   *)
LEMMA PaidOut ==
    ASSUME CommissionInv, NEW o \in Orders, Payable(o), InviterOf[o] \in inviters, o \notin Deposits,
           nextRow <= MaxRows, Credit(InviterOf[o], due[o]),
           log' = [log EXCEPT ![o] = Append(log[o], [id |-> nextRow, amount |-> due[o],
                                                     hidden |-> FALSE, version |-> 0])],
           nextRow' = nextRow + 1,
           state' = [state EXCEPT ![o] = 2], actual' = [actual EXCEPT ![o] = due[o]],
           UNCHANGED <<due, completed, invited, inviters, spent>>
    PROVE  CommissionInv' /\ Ledger!Earn(o)
<1> USE DEF CommissionInv
<1> DEFINE row == [id |-> nextRow, amount |-> due[o], hidden |-> FALSE, version |-> 0]
           rows == Append(log[o], row)
           u == InviterOf[o]
<1>1. /\ u \in Users /\ Amount[o] \in Nat /\ Amount[o] > 0 /\ due[o] = Amount[o]
      /\ log[o] = <<>> /\ o \in invited /\ state[o] \in {0, 1}
  BY Constants DEF Booked, Payable
<1>2. nextRow \in 1..MaxRows /\ nextRow + 1 \in Nat \ {0}
  BY CommissionAssumption DEF CommissionShape
<1>3. row \in Row
  BY <1>1, <1>2 DEF Row
<1> HIDE DEF row
<1>4. rows \in Seq(Row) /\ rows # <<>> /\ OneRow(rows, Amount[o])
  <2>1. log[o] \in Seq(Row) /\ Len(log[o]) = 0
    BY <1>1 DEF CommissionShape
  <2>2. row.amount = Amount[o]
    BY <1>1 DEF row
  <2>3. rows \in Seq(Row) /\ rows # <<>> /\ Len(rows) = 1 /\ rows[1] = row
    BY <1>3, <2>1, AppendProperties
  <2> HIDE DEF rows
  <2>4. rows[1].amount = Amount[o]
    BY <2>2, <2>3
  <2> QED  BY <2>3, <2>4 DEF OneRow
<1> HIDE DEF rows
<1>5. log' = [log EXCEPT ![o] = rows]
  BY DEF rows, row
<1>6. /\ log' \in [Orders -> Seq(Row)] /\ log'[o] # <<>> /\ OneRow(log'[o], Amount[o])
      /\ \A p \in Orders \ {o} : log'[p] = log[p]
      /\ state' \in [Orders -> 0..3] /\ state'[o] = 2 /\ \A p \in Orders \ {o} : state'[p] = state[p]
      /\ actual' \in [Orders -> Nat] /\ actual'[o] = Amount[o]
      /\ \A p \in Orders \ {o} : actual'[p] = actual[p]
  <2>1. /\ log' \in [Orders -> Seq(Row)] /\ log'[o] # <<>> /\ OneRow(log'[o], Amount[o])
        /\ \A p \in Orders \ {o} : log'[p] = log[p]
    BY <1>4, <1>5 DEF CommissionShape
  <2>2. /\ state' \in [Orders -> 0..3] /\ state'[o] = 2
        /\ \A p \in Orders \ {o} : state'[p] = state[p]
    BY DEF CommissionShape
  <2>3. /\ actual' \in [Orders -> Nat] /\ actual'[o] = Amount[o]
        /\ \A p \in Orders \ {o} : actual'[p] = actual[p]
    BY <1>1 DEF CommissionShape
  <2> QED  BY <2>1, <2>2, <2>3
<1>7. /\ commission' \in [Users -> Int] /\ wallet' \in [Users -> Nat]
      /\ \A v \in Users \ {u} : commission'[v] = commission[v] /\ wallet'[v] = wallet[v]
      /\ commission'[u] + wallet'[u] = commission[u] + wallet[u] + Amount[o]
  BY <1>1, CreditMoves
<1>8. CommissionShape'
  BY <1>2, <1>6, <1>7 DEF CommissionShape
<1>9. ASSUME NEW p \in Orders
      PROVE  Booked(p)'
  <2>1. CASE p = o
    BY <1>1, <1>6, <2>1 DEF Booked
  <2>2. CASE p # o
    <3>1. log'[p] = log[p] /\ state'[p] = state[p] /\ actual'[p] = actual[p] /\ Booked(p)
      BY <1>6, <2>2
    <3> QED  BY <3>1 DEF Booked
  <2> QED  BY <2>1, <2>2
<1>10. Receipts' = [Receipts EXCEPT ![u] = @ + Amount[o]]
  <2>1. /\ spent' \in [Users -> Nat] /\ spent'[u] = spent[u] /\ spent[u] \in Nat
        /\ commission[u] \in Int /\ wallet[u] \in Nat /\ commission'[u] \in Int /\ wallet'[u] \in Nat
    BY <1>1, <1>7 DEF CommissionShape
  <2>2. commission'[u] + wallet'[u] + spent'[u] = commission[u] + wallet[u] + spent[u] + Amount[o]
    BY <1>1, <1>7, <2>1
  <2>3. Amount[o] \in Int /\ \A v \in Users \ {u} : spent'[v] = spent[v]
    BY <1>1
  <2>4. u \in Users
    BY <1>1
  <2>5. \A v \in Users \ {u} : /\ commission'[v] = commission[v] /\ wallet'[v] = wallet[v]
                               /\ spent'[v] = spent[v]
    BY <1>7, <2>3
  <2> DEFINE d == Amount[o]
  <2>6. d \in Int /\ commission'[u] + wallet'[u] + spent'[u] = commission[u] + wallet[u] + spent[u] + d
    BY <2>2, <2>3
  <2> HIDE DEF u, d
  <2>7. Receipts' = [Receipts EXCEPT ![u] = @ + d]
    BY <1>7, <2>1, <2>4, <2>5, <2>6, Moved
  <2> QED  BY <2>7 DEF d
<1>11. Earned' = Earned \cup {o} /\ o \notin Earned
  BY <1>1, <1>6 DEF Earned
<1>12. Ledger!Earn(o)
  BY <1>10, <1>11 DEF Ledger!Earn, Receipts, Earned
<1> QED  BY <1>8, <1>9, <1>12

(* The sweep's step for one order.                                           *)
LEMMA OrderHandled ==
    ASSUME CommissionInv, NEW t \in Sweeps, NEW o \in Orders, handleQueuedCommission(t, o)
    PROVE  CommissionInv' /\ (Ledger!Earn(o) \/ UNCHANGED Ledger!ledger)
<1>1. UNCHANGED <<completed, invited, inviters, spent>>
  BY DEF handleQueuedCommission
<1>2. CASE o \in completed \cap Deposits
  <2>1. CloseDeposit(o) /\ UNCHANGED <<log, nextRow, commission, wallet>>
    BY <1>2 DEF handleQueuedCommission, records
  <2>2. completed' \subseteq Orders /\ o \in Deposits
    BY <1>1, <1>2 DEF CommissionInv, CommissionShape
  <2> QED  BY <1>1, <2>1, <2>2, DepositCloses
<1>3. CASE o \notin completed \cap Deposits /\ Payable(o) /\ InviterOf[o] \in inviters
  <2>1. /\ nextRow <= MaxRows /\ Credit(InviterOf[o], due[o])
        /\ log' = [log EXCEPT ![o] = Append(log[o], [id |-> nextRow, amount |-> due[o],
                                                      hidden |-> FALSE, version |-> 0])]
        /\ nextRow' = nextRow + 1
        /\ state' = [state EXCEPT ![o] = 2] /\ actual' = [actual EXCEPT ![o] = due[o]]
        /\ due' = due
    BY <1>3 DEF handleQueuedCommission
  <2>2. o \notin Deposits
    BY <1>3 DEF Payable
  <2> QED  BY <1>1, <1>3, <2>1, <2>2, PaidOut
<1>4. CASE o \notin completed \cap Deposits /\ ~(Payable(o) /\ InviterOf[o] \in inviters)
  <2>1. UNCHANGED <<state, due, actual, log, nextRow, commission, wallet>>
    BY <1>4 DEF handleQueuedCommission, records
  <2> QED  BY <1>1, <2>1, NothingBooked
<1> QED  BY <1>2, <1>3, <1>4

(* What is taken back leaves the two accounts together.                      *)
LEMMA RollbackMoves ==
    ASSUME CommissionShape, NEW u \in Users, NEW n \in Nat, Rollback(u, n)
    PROVE  /\ commission' \in [Users -> Int] /\ wallet' \in [Users -> Nat]
           /\ \A v \in Users \ {u} : commission'[v] = commission[v] /\ wallet'[v] = wallet[v]
           /\ commission'[u] + wallet'[u] = commission[u] + wallet[u] + (0 - n)
<1> DEFINE k == TakenFromWallet(u, n)
           c == commission[u] - n + k
           w == wallet[u] - k
<1>1. commission[u] \in Int /\ wallet[u] \in Nat
  BY DEF CommissionShape
<1>2. k \in Nat /\ k <= wallet[u]
  BY <1>1 DEF TakenFromWallet, Min2
<1>3. commission' = [commission EXCEPT ![u] = c] /\ wallet' = [wallet EXCEPT ![u] = w]
  BY DEF Rollback
<1> HIDE DEF k
<1>4. c \in Int /\ w \in Nat /\ c + w = commission[u] + wallet[u] + (0 - n)
  BY <1>1, <1>2
<1> HIDE DEF c, w
<1> QED  BY <1>1, <1>3, <1>4 DEF CommissionShape

LEMMA Refunded ==
    ASSUME CommissionInv, NEW o \in Orders, RefundManagedOrder(o)
    PROVE  CommissionInv' /\ (Ledger!TakeBack(o) \/ UNCHANGED Ledger!ledger)
<1> USE DEF CommissionInv
<1> DEFINE u == InviterOf[o]
           paidOut == state[o] = 2 \/ actual[o] > 0
           amount == IF actual[o] > 0 THEN actual[o] ELSE due[o]
<1>1. /\ o \in completed \ Deposits
      /\ completed' = completed \ {o}
      /\ state' = [state EXCEPT ![o] = 3] /\ actual' = [actual EXCEPT ![o] = 0]
      /\ UNCHANGED <<due, invited, nextRow, inviters, spent>>
  BY DEF RefundManagedOrder
<1>2. /\ u \in Users /\ Amount[o] \in Nat /\ Amount[o] > 0 /\ due[o] = Amount[o] /\ amount = Amount[o]
      /\ o \in invited => u \in inviters
  BY <1>1, Constants DEF Booked
<1>3. /\ state' \in [Orders -> 0..3] /\ state'[o] = 3 /\ actual' \in [Orders -> Nat] /\ actual'[o] = 0
      /\ \A p \in Orders \ {o} : state'[p] = state[p] /\ actual'[p] = actual[p]
  BY <1>1 DEF CommissionShape
<1>4. ASSUME log' \in [Orders -> Seq(Row)], \A p \in Orders \ {o} : log'[p] = log[p],
             o \in invited => log'[o] = <<>>, log'[o] \in {<<>>, log[o]},
             commission' \in [Users -> Int], wallet' \in [Users -> Nat]
      PROVE  CommissionInv'
  <2>1. CommissionShape'
    BY <1>1, <1>3, <1>4 DEF CommissionShape
  <2>2. ASSUME NEW p \in Orders
        PROVE  Booked(p)'
    <3>1. CASE p = o
      <4>1. CASE log'[o] = <<>>
        BY <1>1, <1>2, <1>3, <3>1, <4>1 DEF Booked
      <4>2. CASE log'[o] = log[o] /\ o \notin invited
        BY <1>1, <1>2, <1>3, <3>1, <4>2 DEF Booked
      <4> QED  BY <1>4, <4>1, <4>2
    <3>2. CASE p # o
      <4>1. log'[p] = log[p] /\ state'[p] = state[p] /\ actual'[p] = actual[p] /\ Booked(p)
        BY <1>3, <1>4, <3>2
      <4> QED  BY <1>1, <4>1 DEF Booked
    <3> QED  BY <3>1, <3>2
  <2> QED  BY <2>1, <2>2
<1>5. CASE o \in invited /\ paidOut
  <2>1. Rollback(u, amount) /\ log' = [log EXCEPT ![o] = <<>>]
    BY <1>2, <1>5 DEF RefundManagedOrder
  <2>2. Rollback(u, Amount[o])
    BY <1>2, <2>1
  <2>3. /\ commission' \in [Users -> Int] /\ wallet' \in [Users -> Nat]
        /\ \A v \in Users \ {u} : commission'[v] = commission[v] /\ wallet'[v] = wallet[v]
        /\ commission'[u] + wallet'[u] = commission[u] + wallet[u] + (0 - Amount[o])
    BY <1>2, <2>2, RollbackMoves
  <2>4. /\ log' \in [Orders -> Seq(Row)] /\ log'[o] = <<>>
        /\ \A p \in Orders \ {o} : log'[p] = log[p]
    BY <2>1, EmptySeq DEF CommissionShape
  <2>5. CommissionInv'
    BY <1>4, <2>3, <2>4
  <2>6. Receipts' = [Receipts EXCEPT ![u] = @ - Amount[o]]
    <3> DEFINE d == 0 - Amount[o]
    <3>1. /\ spent' \in [Users -> Nat] /\ spent'[u] = spent[u] /\ spent[u] \in Nat
          /\ commission[u] \in Int /\ wallet[u] \in Nat /\ commission'[u] \in Int /\ wallet'[u] \in Nat
      BY <1>1, <1>2, <2>3 DEF CommissionShape
    <3>2. d \in Int /\ commission'[u] + wallet'[u] + spent'[u] = commission[u] + wallet[u] + spent[u] + d
      BY <1>2, <2>3, <3>1
    <3>3. \A v \in Users \ {u} : /\ commission'[v] = commission[v] /\ wallet'[v] = wallet[v]
                                 /\ spent'[v] = spent[v]
      BY <1>1, <2>3
    <3>4. u \in Users
      BY <1>2
    <3>5. Receipts[u] \in Int /\ Receipts[u] + d = Receipts[u] - Amount[o]
      BY <1>2, <3>1, <3>4 DEF Receipts, Received
    <3> HIDE DEF u, d
    <3>6. Receipts' = [Receipts EXCEPT ![u] = @ + d]
      BY <2>3, <3>1, <3>2, <3>3, <3>4, Moved
    <3> QED  BY <3>5, <3>6
  <2>7. Earned' = Earned \ {o} /\ o \in Earned
    BY <1>1, <1>5, <2>4 DEF Earned, Booked
  <2>8. Ledger!TakeBack(o)
    BY <1>1, <1>2, <1>5, <2>6, <2>7 DEF Ledger!TakeBack, Receipts, Earned
  <2> QED  BY <2>5, <2>8
<1>6. CASE ~(o \in invited /\ paidOut)
  <2>1. /\ UNCHANGED <<commission, wallet>>
        /\ log' = IF o \in invited THEN [log EXCEPT ![o] = <<>>] ELSE log
    BY <1>2, <1>6 DEF RefundManagedOrder
  <2>2. o \in invited => log[o] = <<>>
    BY <1>1, <1>6 DEF Booked
  <2>3. log' = log
    BY <2>1, <2>2 DEF CommissionShape
  <2>4. CommissionInv'
    BY <1>4, <2>1, <2>2, <2>3 DEF CommissionShape
  <2>5. UNCHANGED Ledger!ledger
    BY <1>1, <2>1, <2>3, Stutters DEF money
  <2> QED  BY <2>4, <2>5
<1> QED  BY <1>5, <1>6

LEMMA CommissionMoves ==
    ASSUME CommissionInv, [Next]_vars
    PROVE  CommissionInv' /\ [Ledger!Next]_Ledger!ledger
<1>1. ASSUME NEW t \in Sweeps,
             SweepReads(t) \/ \E o \in Orders : handleQueuedCommission(t, o)
      PROVE  CommissionInv' /\ [Ledger!Next]_Ledger!ledger
  <2>1. ASSUME SweepReads(t)
        PROVE  CommissionInv' /\ UNCHANGED Ledger!ledger
    BY <2>1, NothingBooked DEF SweepReads, orders, records, money
  <2> QED  BY <1>1, <2>1, OrderHandled DEF Ledger!Next
<1>2. ASSUME NEW o \in Orders,
             \/ OrderPaid(o) \/ DelayPasses(o) \/ RefundManagedOrder(o)
             \/ \E new \in {0, 1, 3} : UpdateOrder(o, new)
      PROVE  CommissionInv' /\ [Ledger!Next]_Ledger!ledger
  BY <1>2, OrdersChange, Refunded DEF Ledger!Next
<1>3. ASSUME NEW u \in Users,
             \/ DeleteInviter(u)
             \/ \E n \in 1..MaxMove : Transfer(u, n) \/ Spend(u, n)
      PROVE  CommissionInv' /\ [Ledger!Next]_Ledger!ledger
  BY <1>3, InviterLeaves, AccountsMove DEF Ledger!Next
<1>4. ASSUME NEW t \in Tokens,
             \/ PreviewExpires(t)
             \/ \E action \in {"delete", "restore"}, U \in SUBSET Orders : PreviewCommissionLogs(t, action, U)
             \/ \E k \in Keys : ApplyCommissionLogs(k, t)
      PROVE  CommissionInv' /\ [Ledger!Next]_Ledger!ledger
  <2>1. ASSUME PreviewExpires(t) \/ \E action \in {"delete", "restore"}, U \in SUBSET Orders :
                                        PreviewCommissionLogs(t, action, U)
        PROVE  CommissionInv' /\ UNCHANGED Ledger!ledger
    BY <2>1, NothingBooked DEF PreviewExpires, PreviewCommissionLogs, orders, records, money
  <2> QED  BY <1>4, <2>1, LogsApplied
<1>5. CASE UNCHANGED vars
  BY <1>5, NothingBooked DEF vars, orders, records, money
<1> QED  BY <1>1, <1>2, <1>3, <1>4, <1>5 DEF Next

LEMMA CommissionStarts ==
    ASSUME Init
    PROVE  CommissionInv /\ Ledger!Init
<1>1. CommissionShape
  BY CommissionAssumption DEF Init, CommissionShape
<1>2. \A o \in Orders : Booked(o)
  BY Constants DEF Init, Booked
<1>3. Ledger!Init
  BY DEF Init, Ledger!Init, Received
<1> QED  BY <1>1, <1>2, <1>3 DEF CommissionInv

(* An order's log, its commission status and what was paid agree while it names
   its inviter.                                                              *)
THEOREM CommissionInvHolds == Spec => []CommissionInv
<1>1. Init => CommissionInv
  BY CommissionStarts
<1>2. CommissionInv /\ [Next]_vars => CommissionInv'
  BY CommissionMoves
<1> QED  BY <1>1, <1>2, PTL DEF Spec

(* The bookkeeping implements the ledger: an order's commission is credited in
   full once, taken back in full at most once before it can be earned again, and
   no other operation changes what an inviter has received.                  *)
THEOREM LedgerImplemented == Spec => ImplementsLedger
<1>1. Init => Ledger!Init
  BY CommissionStarts
<1>2. CommissionInv /\ [Next]_vars => [Ledger!Next]_Ledger!ledger
  BY CommissionMoves
<1> QED  BY <1>1, <1>2, CommissionInvHolds, PTL DEF Spec, ImplementsLedger, Ledger!Spec

(* What an inviter received is the sum of what its orders have earned.         *)
Share == [o \in Orders |-> IF o \in Earned THEN Amount[o] ELSE 0]
OrdersOf(u) == {o \in Orders : InviterOf[o] = u}
Agree == \A u \in inviters : Received(u) = SumFunctionOnSet(Share, OrdersOf(u))

LEMMA ShareTypes ==
    ASSUME NEW u
    PROVE  IsFiniteSet(OrdersOf(u)) /\ Ints(Share, OrdersOf(u)) /\ Ints(Share', OrdersOf(u))
<1>1. IsFiniteSet(Orders) /\ OrdersOf(u) \subseteq Orders
  BY CommissionAssumption DEF OrdersOf
<1>2. \A o \in Orders : Share[o] \in Int /\ Share'[o] \in Int
  BY Constants DEF Share
<1> QED  BY <1>1, <1>2, FS_Subset DEF Ints

(* One order's share moves by n, and its inviter's receipts with it.         *)
LEMMA ShareMoves ==
    ASSUME CommissionShape, Agree, NEW o \in Orders, NEW n \in Int, InviterOf[o] \in Users,
           inviters' = inviters, Receipts' = [Receipts EXCEPT ![InviterOf[o]] = @ + n],
           \A p \in Orders \ {o} : Share'[p] = Share[p], Share'[o] = Share[o] + n
    PROVE  Agree'
<1> SUFFICES ASSUME NEW u \in inviters
             PROVE  Received(u)' = SumFunctionOnSet(Share', OrdersOf(u))
  BY DEF Agree, OrdersOf
<1>1. u \in Users /\ Received(u) = SumFunctionOnSet(Share, OrdersOf(u))
  BY DEF Agree, CommissionShape
<1>2. Received(u)' = Receipts'[u] /\ Received(u) = Receipts[u] /\ Receipts[u] \in Int
  BY <1>1 DEF Receipts, Received, CommissionShape
<1>3. Receipts'[u] = Receipts[u] + IF InviterOf[o] = u THEN n ELSE 0
  BY <1>1, <1>2 DEF Receipts
<1>4. \A p \in OrdersOf(u) : p # o => Share'[p] = Share[p]
  BY DEF OrdersOf
<1>5. SumFunctionOnSet(Share', OrdersOf(u))
        = SumFunctionOnSet(Share, OrdersOf(u)) + IF o \in OrdersOf(u) THEN Share'[o] - Share[o] ELSE 0
  BY <1>4, ShareTypes, SumChanged
<1>6. Share[o] \in Int /\ (o \in OrdersOf(u) <=> InviterOf[o] = u)
  BY Constants DEF Share, OrdersOf
<1>7. (IF o \in OrdersOf(u) THEN Share'[o] - Share[o] ELSE 0) = IF InviterOf[o] = u THEN n ELSE 0
  BY <1>6
<1> QED  BY <1>1, <1>2, <1>3, <1>5, <1>7

LEMMA LedgerAgrees ==
    ASSUME CommissionShape, Agree, [Ledger!Next]_Ledger!ledger
    PROVE  Agree'
<1>1. ASSUME NEW o \in Orders, Ledger!Earn(o)
      PROVE  Agree'
  <2>1. /\ o \notin Earned /\ Earned' = Earned \cup {o} /\ inviters' = inviters
        /\ Receipts' = [Receipts EXCEPT ![InviterOf[o]] = @ + Amount[o]]
    BY <1>1 DEF Ledger!Earn, Receipts, Earned
  <2>2. Amount[o] \in Int /\ InviterOf[o] \in Users
    BY Constants
  <2>3. (\A p \in Orders \ {o} : Share'[p] = Share[p]) /\ Share'[o] = Share[o] + Amount[o]
    BY <2>1, <2>2 DEF Share
  <2> QED  BY <2>1, <2>2, <2>3, ShareMoves
<1>2. ASSUME NEW o \in Orders, Ledger!TakeBack(o)
      PROVE  Agree'
  <2> DEFINE n == 0 - Amount[o]
  <2>1. /\ o \in Earned /\ Earned' = Earned \ {o} /\ inviters' = inviters
        /\ Receipts' = [Receipts EXCEPT ![InviterOf[o]] = @ - Amount[o]]
    BY <1>2 DEF Ledger!TakeBack, Receipts, Earned
  <2>2. Amount[o] \in Int /\ InviterOf[o] \in Users /\ n \in Int
    BY Constants
  <2>3. (\A p \in Orders \ {o} : Share'[p] = Share[p]) /\ Share'[o] = Share[o] + n
    BY <2>1, <2>2 DEF Share
  <2>4. Receipts[InviterOf[o]] \in Int
    BY <2>2 DEF Receipts, Received, CommissionShape
  <2>5. Receipts[InviterOf[o]] - Amount[o] = Receipts[InviterOf[o]] + n
    BY <2>2, <2>4
  <2>6. Receipts' = [Receipts EXCEPT ![InviterOf[o]] = @ + n]
    BY <2>1, <2>5
  <2> HIDE DEF n
  <2> QED  BY <2>1, <2>2, <2>3, <2>6, ShareMoves
<1>3. ASSUME inviters' \subseteq inviters, Earned' = Earned, Receipts' = Receipts
      PROVE  Agree'
  <2>1. Share' = Share
    BY <1>3 DEF Share
  <2>2. ASSUME NEW u \in inviters'
        PROVE  Received(u)' = SumFunctionOnSet(Share', OrdersOf(u))
    <3>1. u \in inviters /\ u \in Users
      BY <1>3, <2>2 DEF CommissionShape
    <3>2. Received(u)' = Receipts'[u] /\ Received(u) = Receipts[u]
      BY <3>1 DEF Receipts, Received
    <3> QED  BY <1>3, <2>1, <3>1, <3>2 DEF Agree
  <2> QED  BY <2>2 DEF Agree, OrdersOf
<1>4. ASSUME NEW u \in Users, Ledger!Leave(u)
      PROVE  Agree'
  BY <1>3, <1>4 DEF Ledger!Leave, Receipts, Earned
<1>5. CASE UNCHANGED Ledger!ledger
  BY <1>3, <1>5 DEF Ledger!ledger, Receipts, Earned
<1> QED  BY <1>1, <1>2, <1>4, <1>5 DEF Ledger!Next

(* A log has one row of the order's amount, or none.                         *)
LEMMA LogAmounts ==
    ASSUME CommissionInv
    PROVE  \A u : LoggedFor(u) = SumFunctionOnSet(Share, OrdersOf(u))
<1>1. ASSUME NEW o \in Orders
      PROVE  Total(log[o]) = Share[o]
  <2> DEFINE rows == log[o]
             f == [i \in DOMAIN rows |-> rows[i].amount]
  <2>1. rows \in Seq(Row) /\ Amount[o] \in Int /\ Booked(o)
    BY Constants DEF CommissionInv, CommissionShape
  <2>2. CASE rows = <<>>
    <3>1. DOMAIN f = {} /\ Share[o] = 0
      BY <2>2 DEF Share, Earned
    <3> QED  BY <3>1, SumEmpty DEF Total, SumFunction
  <2>3. CASE rows # <<>>
    <3>1. Len(rows) = 1 /\ rows[1].amount = Amount[o] /\ Share[o] = Amount[o]
      BY <2>1, <2>3 DEF Booked, OneRow, Share, Earned
    <3>2. DOMAIN f = {1} /\ f[1] = Amount[o]
      <4>1. DOMAIN rows = 1..1
        BY <2>1, <3>1
      <4>2. DOMAIN rows = {1}
        BY <4>1
      <4> QED  BY <3>1, <4>2
    <3> HIDE DEF f
    <3>3. SumFunctionOnSet(f, {1}) = Amount[o]
      BY <2>1, <3>2, SumOne
    <3>4. Total(rows) = SumFunctionOnSet(f, DOMAIN f)
      BY DEF Total, SumFunction, f
    <3> QED  BY <3>1, <3>2, <3>3, <3>4
  <2> QED  BY <2>2, <2>3
<1>2. [o \in Orders |-> Total(log[o])] = Share
  BY <1>1 DEF Share
<1> QED  BY <1>2 DEF LoggedFor, OrdersOf

(* What an inviter holds and has spent is the sum of the commissions logged for
   it, through payouts into either account, transfers, withdrawals, refunds that
   reach into the wallet, and debts repaid by later payouts.                 *)
THEOREM ConservedHolds == Spec => []Conserved
<1>1. Init => Agree
  <2> SUFFICES ASSUME Init, NEW u \in inviters
               PROVE  Received(u) = SumFunctionOnSet(Share, OrdersOf(u))
    BY DEF Agree
  <2>1. Received(u) = 0 /\ \A o \in Orders : Share[o] = 0
    BY DEF Init, Received, Share, Earned
  <2>2. \A o \in OrdersOf(u) : Share[o] = 0
    BY <2>1 DEF OrdersOf
  <2> QED  BY <2>1, <2>2, ShareTypes, SumZero
<1>2. CommissionInv /\ Agree /\ [Next]_vars => Agree'
  BY CommissionMoves, LedgerAgrees DEF CommissionInv
<1>3. CommissionInv /\ Agree => Conserved
  BY LogAmounts DEF Agree, Conserved
<1> QED  BY <1>1, <1>2, <1>3, CommissionInvHolds, PTL DEF Spec

=============================================================================
