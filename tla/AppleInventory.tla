---------------------------- MODULE AppleInventory ----------------------------
(***************************************************************************)
(* The Apple ID shop: orders that reserve one credential of a shelf for    *)
(* fifteen minutes (appleid/service.go), the administrator's operations on *)
(* them (appleid/admin.go) and the checkout and callback paths through     *)
(* which the payment service drives them (payment/service.go).             *)
(*                                                                         *)
(* One action is one database transaction; a checkout is a session of      *)
(* several.  Every query that allocates stock skips rows other             *)
(* transactions have locked, so it may pass over any available item.       *)
(***************************************************************************)
EXTENDS Integers, FiniteSets

CONSTANTS
    MaxOrders,      \* bound: orders created in a behaviour
    Items,          \* credentials an administrator may import
    Products,       \* v2_apple_product rows
    ProductOf(_),   \* the product a credential is imported for
    Prices,         \* prices a product may have when an order is created
    Keys,           \* (user, idempotency key) pairs
    Methods,        \* payment channels
    Fees,           \* handling fees a channel may ask at a checkout
    Sessions,       \* checkout requests
    None            \* SQL NULL

Orders == 1..MaxOrders

ASSUME ShopAssumption ==
    /\ MaxOrders \in Nat
    /\ Prices \subseteq Nat /\ Fees \subseteq Nat
    /\ \A i \in Items : ProductOf(i) \in Products
    /\ None \notin Items /\ None \notin Orders /\ None \notin Methods /\ None \notin Keys

VARIABLES
    order,      \* v2_apple_order
    item,       \* v2_apple_inventory
    due,        \* orders whose reserved_until has passed
    sess,       \* checkout requests in flight
    links,      \* payments the gateways have been asked for
    payments    \* payments made by users: callbacks the gateways may deliver

shopVars == <<order, item, due>>
vars     == <<shopVars, sess, links, payments>>

OrderRows == [status : {"absent", "pending", "paid", "cancelled", "refunded", "manual"},
              product : Products \cup {None}, key : Keys \cup {None},
              item : Items \cup {None}, pm : Methods \cup {None}, price : Nat, hand : Nat]
ItemRows  == [status : {"absent", "available", "reserved", "sold", "disabled"},
              reservedBy : Orders \cup {None}, soldTo : Orders \cup {None}]
Links     == [o : Orders, m : Methods, amt : Nat]
NoOrder == [status |-> "absent", product |-> None, key |-> None, item |-> None,
            pm |-> None, price |-> 0, hand |-> 0]
NoItem  == [status |-> "absent", reservedBy |-> None, soldTo |-> None]
Idle    == [pc |-> "idle", o |-> None, m |-> None, amt |-> 0]

Requests ==
    {Idle} \cup [pc : {"looked", "end"}, o : Orders, m : Methods \cup {None}, amt : Nat]
           \cup [pc : {"bound"}, o : Orders, m : Methods, amt : Nat]

TypeOK ==
    /\ order \in [Orders -> OrderRows]
    /\ item \in [Items -> ItemRows]
    /\ due \subseteq Orders
    /\ sess \in [Sessions -> Requests]
    /\ links \subseteq Links
    /\ payments \subseteq Links

Init ==
    /\ order = [o \in Orders |-> NoOrder]
    /\ item = [i \in Items |-> NoItem]
    /\ due = {}
    /\ sess = [s \in Sessions |-> Idle]
    /\ links = {} /\ payments = {}

-----------------------------------------------------------------------------
(* Reservations.                                                            *)

(* An order in another state, with another item.                            *)
Moved(r, st, i) == [r EXCEPT !.status = st, !.item = i]

(* A row of the shelf reserved, given back, and sold.                       *)
Taken(r, o) == [r EXCEPT !.status = "reserved", !.reservedBy = o]
Freed(r)    == [r EXCEPT !.status = "available", !.reservedBy = None]
Sold(r, o)  == [r EXCEPT !.status = "sold", !.soldTo = o, !.reservedBy = None]

(* Seeded fault: an order for which a channel was chosen does not lapse.    *)
LapsedUnbound(o) ==
    order[o].status = "pending" /\ o \in due /\ order[o].pm = None

(* releaseExpiredReservationsTx: the orders, then the shelf by its own copy
   of the deadline.                                                         *)
Lapsed(o) == order[o].status = "pending" /\ o \in due

(* Seeded fault: items of orders with a channel are left reserved.          *)
SweptItemsUnbound ==
    [i \in Items |-> IF item[i].status = "reserved" /\ item[i].reservedBy \in due
                         /\ order[item[i].reservedBy].pm = None
                      THEN Freed(item[i]) ELSE item[i]]

SweptOrders ==
    [o \in Orders |-> IF Lapsed(o) THEN Moved(order[o], "cancelled", None) ELSE order[o]]
SweptItems ==
    [i \in Items |-> IF item[i].status = "reserved" /\ item[i].reservedBy \in due
                      THEN Freed(item[i]) ELSE item[i]]

(* The scheduler's sweep, and the sweep at the start of ListProducts,
   ListOrders, OrderDetail and of a repeated CreateOrder.                   *)
ReleaseExpiredReservations ==
    /\ order' = SweptOrders
    /\ item' = SweptItems
    /\ UNCHANGED <<due, sess, links, payments>>

(* Sweep, then insert the order and reserve an item; without an item the
   whole transaction rolls back.  A key that was used before is a replay.   *)
CreateOrder(o, p, k, price, i) ==
    /\ order[o].status = "absent"
    /\ \A x \in Orders : x < o => order[x].status # "absent"
    /\ k # None => \A x \in Orders : order[x].key # k
    /\ SweptItems[i].status = "available" /\ ProductOf(i) = p
    /\ order' = [SweptOrders EXCEPT ![o] = [NoOrder EXCEPT
                    !.status = "pending", !.product = p, !.key = k, !.item = i,
                    !.price = price]]
    /\ item' = [SweptItems EXCEPT ![i] = Taken(@, o)]
    /\ UNCHANGED <<due, sess, links, payments>>

(* CancelOrder and AdminCancelOrder: the reservation is given back only while
   the shelf still names this order.                                        *)
Holds(o, i) == i # None /\ item[i].status = "reserved" /\ item[i].reservedBy = o

CancelOrder(o) ==
    /\ order[o].status = "pending"
    /\ order' = [order EXCEPT ![o] = Moved(@, "cancelled", None)]
    /\ item' = [i \in Items |-> IF i = order[o].item /\ Holds(o, i)
                                THEN Freed(item[i]) ELSE item[i]]
    /\ UNCHANGED <<due, sess, links, payments>>

-----------------------------------------------------------------------------
(* Payment.                                                                 *)

NoEvidence == [m |-> None, amt |-> 0]

(* What MarkExternalPaid asks of the evidence: none for a free order, else the
   channel stored last and its exact amount.                                *)
Confirms(o, ev) ==
    \/ ev.m = None /\ order[o].price = 0 /\ order[o].hand = 0
    \/ /\ ev.m # None /\ ev.m = order[o].pm
       /\ ev.amt > 0 /\ ev.amt = order[o].price + order[o].hand

Payable(o, ev) == order[o].status \in {"pending", "cancelled"} /\ Confirms(o, ev)

Reserving(o) == order[o].status = "pending" /\ Holds(o, order[o].item)

(* The order's own reservation is sold.                                     *)
SellReserved(o, ev) ==
    /\ Payable(o, ev) /\ Reserving(o) /\ o \notin due
    /\ order' = [order EXCEPT ![o].status = "paid"]
    /\ item' = [item EXCEPT ![order[o].item] = Sold(@, o)]

(* Seeded fault: the expired reservation stays with the order.              *)
StaleKept(o) == item

(* The shelf after a reservation that expired unswept is released.          *)
StaleReleased(o) ==
    [i \in Items |-> IF i = order[o].item /\ Reserving(o) THEN Freed(item[i]) ELSE item[i]]

SellAnother(o, ev, i) ==
    /\ Payable(o, ev) /\ ~(Reserving(o) /\ o \notin due)
    /\ StaleReleased(o)[i].status = "available" /\ ProductOf(i) = order[o].product
    /\ order' = [order EXCEPT ![o] = Moved(@, "paid", i)]
    /\ item' = [StaleReleased(o) EXCEPT ![i] = Sold(@, o)]

(* No item to be had, or every one locked by others; an item this transaction
   has just released is there to be had.                                    *)
KeepForManual(o, ev) ==
    /\ Payable(o, ev) /\ ~(Reserving(o) /\ o \notin due)
    /\ \A i \in Items : StaleReleased(o)[i] # item[i] =>
           StaleReleased(o)[i].status # "available"
    /\ order' = [order EXCEPT ![o] = Moved(@, "manual", None)]
    /\ item' = StaleReleased(o)

MarkExternalPaid(o, ev) ==
    /\ SellReserved(o, ev) \/ KeepForManual(o, ev) \/ \E i \in Items : SellAnother(o, ev, i)
    /\ UNCHANGED due

(* A gateway callback, delivered at any time and any number of times.       *)
Notify(p) ==
    /\ MarkExternalPaid(p.o, [m |-> p.m, amt |-> p.amt])
    /\ UNCHANGED <<sess, links, payments>>

(* Checkout of an Apple ID order: LookupExternalOrder sweeps and reads the
   order; the rest of the request acts on what it read.                     *)
LookupExternalOrder(s, o) ==
    /\ sess[s].pc = "idle"
    /\ SweptOrders[o].status = "pending"
    /\ order' = SweptOrders
    /\ item' = SweptItems
    /\ sess' = [sess EXCEPT ![s] = [Idle EXCEPT !.pc = "looked", !.o = o]]
    /\ UNCHANGED <<due, links, payments>>

CheckoutFree(s) ==
    /\ sess[s].pc = "looked" /\ order[sess[s].o].price = 0
    /\ MarkExternalPaid(sess[s].o, NoEvidence)
    /\ sess' = [sess EXCEPT ![s].pc = "end"]
    /\ UNCHANGED <<links, payments>>

(* The channel and its fee replace whatever an earlier checkout stored.     *)
SetExternalPayment(s, m, fee) ==
    LET o == sess[s].o
    IN  /\ sess[s].pc = "looked"
        /\ order[o].price > 0 /\ order[o].status = "pending"
        /\ order' = [order EXCEPT ![o].pm = m, ![o].hand = fee]
        /\ sess' = [sess EXCEPT ![s] = [pc |-> "bound", o |-> o, m |-> m,
                                        amt |-> order[o].price + fee]]
        /\ UNCHANGED <<item, due, links, payments>>

GatewayAnswers(s) ==
    /\ sess[s].pc = "bound"
    /\ links' = links \cup {[o |-> sess[s].o, m |-> sess[s].m, amt |-> sess[s].amt]}
    /\ sess' = [sess EXCEPT ![s].pc = "end"]
    /\ UNCHANGED <<shopVars, payments>>

(* A refused step, a gateway error or a lost process ends the request.      *)
CheckoutFails(s) ==
    /\ sess[s].pc \in {"looked", "bound"}
    /\ sess' = [sess EXCEPT ![s].pc = "end"]
    /\ UNCHANGED <<shopVars, links, payments>>

-----------------------------------------------------------------------------
(* The administrator.                                                       *)

AddInventory(i) ==
    /\ item[i].status = "absent"
    /\ item' = [item EXCEPT ![i].status = "available"]
    /\ UNCHANGED <<order, due, sess, links, payments>>

AdminDisableInventory(i) ==
    /\ item[i].status = "available"
    /\ item' = [item EXCEPT ![i].status = "disabled"]
    /\ UNCHANGED <<order, due, sess, links, payments>>

(* Seeded fault: the replaced credential goes back on sale.                 *)
Restocked(r) == [r EXCEPT !.status = "available"]

(* The replaced credential keeps its sold_order_id.                         *)
Retired(r) == [r EXCEPT !.status = "disabled"]

AdminReplaceInventory(o, new) ==
    LET old == order[o].item
    IN  /\ order[o].status = "paid"
        /\ old # None /\ item[old].status = "sold" /\ item[old].soldTo = o
        /\ new # old /\ item[new].status = "available" /\ ProductOf(new) = order[o].product
        /\ order' = [order EXCEPT ![o].item = new]
        /\ item' = [item EXCEPT ![old] = Retired(@), ![new] = Sold(@, o)]
        /\ UNCHANGED <<due, sess, links, payments>>

AdminMarkOrderRefunded(o) ==
    /\ order[o].status \in {"paid", "manual"}
    /\ order' = [order EXCEPT ![o].status = "refunded"]
    /\ UNCHANGED <<item, due, sess, links, payments>>

-----------------------------------------------------------------------------
(* The environment: time and users paying.                                  *)

ReservationExpires(o) ==
    /\ order[o].status = "pending" /\ o \notin due
    /\ due' = due \cup {o}
    /\ UNCHANGED <<order, item, sess, links, payments>>

UserPays(l) ==
    /\ l \notin payments
    /\ payments' = payments \cup {l}
    /\ UNCHANGED <<shopVars, sess, links>>

-----------------------------------------------------------------------------
Create ==
    \E o \in Orders, p \in Products, k \in Keys \cup {None}, price \in Prices, i \in Items :
        CreateOrder(o, p, k, price, i)

Checkout(s) ==
    \/ \E o \in Orders : LookupExternalOrder(s, o)
    \/ \E m \in Methods, fee \in Fees : SetExternalPayment(s, m, fee)
    \/ CheckoutFree(s) \/ GatewayAnswers(s) \/ CheckoutFails(s)

Admin ==
    \/ \E i \in Items : AddInventory(i) \/ AdminDisableInventory(i)
    \/ \E o \in Orders : AdminMarkOrderRefunded(o) \/ \E i \in Items : AdminReplaceInventory(o, i)

Next ==
    \/ Create \/ ReleaseExpiredReservations \/ Admin
    \/ \E o \in Orders : CancelOrder(o) \/ ReservationExpires(o)
    \/ \E s \in Sessions : Checkout(s)
    \/ \E p \in payments : Notify(p)
    \/ \E l \in links : UserPays(l)

Spec == Init /\ [][Next]_vars

(* The clock does not stop, and the scheduler sweeps every minute.          *)
FairSpec ==
    /\ Spec
    /\ WF_vars(ReleaseExpiredReservations)
    /\ \A o \in Orders : WF_vars(ReservationExpires(o))

-----------------------------------------------------------------------------
(* Properties.                                                              *)

(* Every order and the shelf agree about who has which credential.  A pending
   order holds exactly one reserved item; a paid order owns a sold item, so
   Delivery answers it; a refunded order may keep the one it had; no other
   order refers to an item.                                                 *)
OrderAgrees(o) ==
    LET st == order[o].status
        i  == order[o].item
    IN  /\ st = "pending" => i # None /\ item[i].status = "reserved" /\ item[i].reservedBy = o
        /\ st = "paid" => i # None
        /\ st \in {"paid", "refunded"} /\ i # None => item[i].status = "sold" /\ item[i].soldTo = o
        /\ st \in {"absent", "cancelled", "manual"} => i = None

(* An item is reserved for the pending order that names it, or sold to the one
   that names it; an item on sale carries no trace of an order.             *)
ItemAgrees(i) ==
    LET r == item[i]
    IN  /\ r.status = "reserved" =>
             r.reservedBy # None /\ order[r.reservedBy].status = "pending"
                                 /\ order[r.reservedBy].item = i
        /\ r.status = "sold" =>
             r.soldTo # None /\ order[r.soldTo].status \in {"paid", "refunded"}
                             /\ order[r.soldTo].item = i
        /\ r.status # "reserved" => r.reservedBy = None
        /\ r.status \notin {"sold", "disabled"} => r.soldTo = None

(* No credential is promised to two orders, and none is lost between the two
   tables, however the sweep, cancellation, late callbacks, replacement and
   refunds interleave.                                                      *)
ShelfAgrees ==
    /\ \A o \in Orders : OrderAgrees(o)
    /\ \A i \in Items : ItemAgrees(i)

(* A credential that was sold once is never offered again, and it remembers the
   order it was sold to (AdminReplaceInventory: "it is never made sellable"). *)
NeverResold ==
    [][\A i \in Items : item[i].soldTo # None =>
         /\ item'[i].soldTo = item[i].soldTo
         /\ item'[i].status \notin {"available", "reserved"}]_vars

(* A payment that arrives while the order still has its reservation, expired or
   not, is delivered: it never ends in manual handling for want of stock.   *)
HolderDelivered ==
    [][\A o \in Orders : order[o].status = "pending" => order'[o].status # "manual"]_vars

(* A reservation always ends, whatever users and gateways do or leave undone. *)
ReservationsEnd ==
    \A o \in Orders, i \in Items : item[i].reservedBy = o ~> item[i].reservedBy # o

(* What docs/go-api.md says of late payments: a payment a user made through a
   link of the shop is fulfilled or kept for manual handling, so while its
   order is not settled MarkExternalPaid must be able to accept it.         *)
PaymentAccepted ==
    \A p \in payments : order[p.o].status = "cancelled" => Confirms(p.o, p)
=============================================================================
