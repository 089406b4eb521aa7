------------------------- MODULE AppleInventoryProofs -------------------------
(* Proofs about AppleInventory, for any number of orders, credentials,
   products, channels and requests.                                         *)
EXTENDS AppleInventory, TLAPS

(* The edits of an order row and of a shelf row are such rows.              *)
LEMMA MovedTypes ==
    \A r \in OrderRows, st \in {"paid", "cancelled", "manual"}, i \in Items \cup {None} :
        Moved(r, st, i) \in OrderRows
BY DEF OrderRows, Moved

LEMMA RowTypes ==
    \A r \in ItemRows :
        /\ Freed(r) \in ItemRows
        /\ Retired(r) \in ItemRows
        /\ \A o \in Orders : Sold(r, o) \in ItemRows /\ Taken(r, o) \in ItemRows
BY DEF ItemRows, Freed, Retired, Sold, Taken

(* The sweep keeps both tables well typed.                                  *)
LEMMA SweptTypes ==
    ASSUME TypeOK
    PROVE  SweptOrders \in [Orders -> OrderRows] /\ SweptItems \in [Items -> ItemRows]
<1>2. SweptOrders \in [Orders -> OrderRows]
  BY MovedTypes DEF TypeOK, SweptOrders
<1>3. SweptItems \in [Items -> ItemRows]
  BY RowTypes DEF TypeOK, SweptItems
<1> QED  BY <1>2, <1>3

(* Every transaction keeps the types of the rows it writes.                 *)
LEMMA TypeStep ==
    ASSUME TypeOK, [Next]_vars
    PROVE  TypeOK'
<1> USE ShopAssumption DEF TypeOK
<1>1. CASE Create
  <2> PICK o \in Orders, p \in Products, k \in Keys \cup {None}, price \in Prices, i \in Items :
          CreateOrder(o, p, k, price, i)
      BY <1>1 DEF Create
  <2>1. order' \in [Orders -> OrderRows]
      BY SweptTypes DEF CreateOrder, OrderRows, NoOrder
  <2>2. item' \in [Items -> ItemRows]
      BY SweptTypes, RowTypes DEF CreateOrder
  <2> QED  BY <2>1, <2>2 DEF CreateOrder
<1>2. CASE ReleaseExpiredReservations
  BY <1>2, SweptTypes DEF ReleaseExpiredReservations
<1>3. CASE Admin
  <2>1. ASSUME NEW i \in Items, AddInventory(i) \/ AdminDisableInventory(i)
        PROVE  TypeOK'
      BY <2>1 DEF AddInventory, AdminDisableInventory, ItemRows
  <2>2. ASSUME NEW o \in Orders, AdminMarkOrderRefunded(o)
        PROVE  TypeOK'
      BY <2>2 DEF AdminMarkOrderRefunded, OrderRows
  <2>3. ASSUME NEW o \in Orders, NEW i \in Items, AdminReplaceInventory(o, i)
        PROVE  TypeOK'
    <3>1. item' \in [Items -> ItemRows]
        BY <2>3, RowTypes DEF AdminReplaceInventory
    <3>2. order' \in [Orders -> OrderRows]
        BY <2>3 DEF AdminReplaceInventory, OrderRows
    <3> QED  BY <2>3, <3>1, <3>2 DEF AdminReplaceInventory
  <2> QED  BY <1>3, <2>1, <2>2, <2>3 DEF Admin
<1>4. ASSUME NEW o \in Orders, CancelOrder(o) \/ ReservationExpires(o)
      PROVE  TypeOK'
  <2>1. CASE CancelOrder(o)
    <3>1. order' \in [Orders -> OrderRows]
        BY <2>1, MovedTypes DEF CancelOrder
    <3>2. item' \in [Items -> ItemRows]
        BY <2>1, RowTypes DEF CancelOrder
    <3> QED  BY <2>1, <3>1, <3>2 DEF CancelOrder
  <2>2. CASE ReservationExpires(o)
      BY <2>2 DEF ReservationExpires
  <2> QED  BY <1>4, <2>1, <2>2
<1>5. ASSUME NEW o \in Orders, NEW ev, MarkExternalPaid(o, ev)
      PROVE  order' \in [Orders -> OrderRows] /\ item' \in [Items -> ItemRows] /\ due' = due
  <2>1. StaleReleased(o) \in [Items -> ItemRows]
      BY RowTypes DEF StaleReleased
  <2>2. CASE SellReserved(o, ev)
    <3>1. order' \in [Orders -> OrderRows]
        BY <2>2 DEF SellReserved, OrderRows
    <3>2. item' \in [Items -> ItemRows]
        BY <2>2, RowTypes DEF SellReserved
    <3> QED  BY <1>5, <3>1, <3>2 DEF MarkExternalPaid
  <2>3. CASE KeepForManual(o, ev)
      BY <2>1, <2>3, <1>5, MovedTypes DEF MarkExternalPaid, KeepForManual
  <2>4. ASSUME NEW i \in Items, SellAnother(o, ev, i)
        PROVE  order' \in [Orders -> OrderRows] /\ item' \in [Items -> ItemRows]
    <3>1. order' \in [Orders -> OrderRows]
        BY <2>4, MovedTypes DEF SellAnother
    <3>2. item' \in [Items -> ItemRows]
        BY <2>1, <2>4, RowTypes DEF SellAnother
    <3> QED  BY <3>1, <3>2
  <2> QED  BY <1>5, <2>2, <2>3, <2>4 DEF MarkExternalPaid
<1>6. ASSUME NEW s \in Sessions, Checkout(s)
      PROVE  TypeOK'
  <2>1. ASSUME NEW o \in Orders, LookupExternalOrder(s, o)
        PROVE  TypeOK'
    <3>1. sess' \in [Sessions -> Requests]
        BY <2>1 DEF LookupExternalOrder, Requests, Idle
    <3> QED  BY <2>1, <3>1, SweptTypes DEF LookupExternalOrder
  <2>2. ASSUME NEW m \in Methods, NEW fee \in Fees, SetExternalPayment(s, m, fee)
        PROVE  TypeOK'
    <3>1. sess[s].o \in Orders
        BY <2>2 DEF SetExternalPayment, Requests, Idle
    <3>2. order' \in [Orders -> OrderRows]
        BY <2>2, <3>1 DEF SetExternalPayment, OrderRows
    <3>3. order[sess[s].o].price + fee \in Nat
        BY <3>1 DEF OrderRows
    <3>4. sess' \in [Sessions -> Requests]
        BY <2>2, <3>1, <3>3 DEF SetExternalPayment, Requests
    <3> QED  BY <2>2, <3>2, <3>4 DEF SetExternalPayment
  <2>3. CASE CheckoutFree(s)
    <3>1. sess[s].o \in Orders /\ sess' \in [Sessions -> Requests]
        BY <2>3 DEF CheckoutFree, Requests, Idle
    <3> QED  BY <2>3, <3>1, <1>5 DEF CheckoutFree
  <2>4. CASE GatewayAnswers(s)
    <3>1. sess[s] \in [pc : {"bound"}, o : Orders, m : Methods, amt : Nat]
        BY <2>4 DEF GatewayAnswers, Requests, Idle
    <3>2. sess' \in [Sessions -> Requests]
        BY <2>4, <3>1 DEF GatewayAnswers, Requests
    <3> QED  BY <2>4, <3>1, <3>2 DEF GatewayAnswers, shopVars, Links
  <2>5. CASE CheckoutFails(s)
    <3>1. sess' \in [Sessions -> Requests]
        BY <2>5 DEF CheckoutFails, Requests, Idle
    <3> QED  BY <2>5, <3>1 DEF CheckoutFails, shopVars
  <2> QED  BY <1>6, <2>1, <2>2, <2>3, <2>4, <2>5 DEF Checkout
<1>7. ASSUME NEW p \in payments, Notify(p)
      PROVE  TypeOK'
  <2>1. p.o \in Orders  BY DEF Links
  <2> QED  BY <1>7, <1>5, <2>1 DEF Notify
<1>8. ASSUME NEW l \in links, UserPays(l)
      PROVE  TypeOK'
  BY <1>8 DEF UserPays, shopVars
<1>9. CASE UNCHANGED vars
  BY <1>9 DEF vars, shopVars
<1> QED  BY <1>1, <1>2, <1>3, <1>4, <1>6, <1>7, <1>8, <1>9 DEF Next

(* The tables of the shop stay well typed.                                  *)
THEOREM TypeCorrect == Spec => []TypeOK
<1>1. Init => TypeOK
  BY ShopAssumption DEF Init, TypeOK, OrderRows, ItemRows, Requests, NoOrder, NoItem, Idle
<1> QED  BY <1>1, TypeStep, PTL DEF Spec

(* The fields ShelfAgrees is about: their types, and what the edits of a row do
   to them.                                                                 *)
LEMMA Fields ==
    ASSUME TypeOK
    PROVE  /\ \A o \in Orders : /\ order[o] \in OrderRows
                                /\ order[o].item \in Items \cup {None}
           /\ \A i \in Items : /\ item[i] \in ItemRows
                               /\ item[i].reservedBy \in Orders \cup {None}
                               /\ item[i].soldTo \in Orders \cup {None}
BY DEF TypeOK, OrderRows, ItemRows

LEMMA MovedFields ==
    \A r \in OrderRows : \A st, i :
        Moved(r, st, i).status = st /\ Moved(r, st, i).item = i
BY DEF OrderRows, Moved

LEMMA RowFields ==
    \A r \in ItemRows :
        /\ Freed(r).status = "available" /\ Freed(r).reservedBy = None
        /\ Freed(r).soldTo = r.soldTo
        /\ Retired(r).status = "disabled" /\ Retired(r).reservedBy = r.reservedBy
        /\ Retired(r).soldTo = r.soldTo
        /\ \A o : /\ Sold(r, o).status = "sold" /\ Sold(r, o).reservedBy = None
                  /\ Sold(r, o).soldTo = o
                  /\ Taken(r, o).status = "reserved" /\ Taken(r, o).reservedBy = o
                  /\ Taken(r, o).soldTo = r.soldTo
BY DEF ItemRows, Freed, Retired, Sold, Taken

(* The sweep cancels exactly the orders whose items it frees: an item's copy of
   the deadline is its order's, because the two rows name each other.       *)
LEMMA SweepAgrees ==
    ASSUME TypeOK, ShelfAgrees, order' = SweptOrders, item' = SweptItems
    PROVE  ShelfAgrees'
<1> USE ShopAssumption
<1>1. \A o \in Orders : order'[o] = IF Lapsed(o) THEN Moved(order[o], "cancelled", None)
                                    ELSE order[o]
  BY DEF SweptOrders
<1>2. \A i \in Items : item'[i] = IF item[i].status = "reserved" /\ item[i].reservedBy \in due
                                  THEN Freed(item[i]) ELSE item[i]
  BY DEF SweptItems
<1>3. ASSUME NEW o \in Orders PROVE OrderAgrees(o)'
  BY <1>1, <1>2, <1>3, Fields, MovedFields, RowFields
     DEF ShelfAgrees, OrderAgrees, ItemAgrees, Lapsed
<1>4. ASSUME NEW i \in Items PROVE ItemAgrees(i)'
  BY <1>1, <1>2, <1>4, Fields, MovedFields, RowFields
     DEF ShelfAgrees, OrderAgrees, ItemAgrees, Lapsed
<1> QED  BY <1>3, <1>4 DEF ShelfAgrees

(* Every transaction keeps the order table and the shelf in agreement.      *)
LEMMA ShelfStep ==
    ASSUME TypeOK, ShelfAgrees, [Next]_vars
    PROVE  ShelfAgrees'
<1> USE ShopAssumption
<1>1. CASE Create
  <2> PICK o \in Orders, p \in Products, k \in Keys \cup {None}, price \in Prices, i \in Items :
          CreateOrder(o, p, k, price, i)
      BY <1>1 DEF Create
  <2> DEFINE new == [NoOrder EXCEPT !.status = "pending", !.product = p, !.key = k, !.item = i,
                                    !.price = price]
  <2>1. /\ order[o].status = "absent"
        /\ SweptItems[i].status = "available"
        /\ order' = [SweptOrders EXCEPT ![o] = new]
        /\ item' = [SweptItems EXCEPT ![i] = Taken(@, o)]
      BY DEF CreateOrder
  <2>2. new.status = "pending" /\ new.item = i
      BY DEF NoOrder
  <2> HIDE DEF new
  <2>3. \A x \in Orders :
          /\ x = o => order'[x].status = "pending" /\ order'[x].item = i
          /\ x # o /\ Lapsed(x) => order'[x].status = "cancelled" /\ order'[x].item = None
          /\ x # o /\ ~Lapsed(x) => order'[x] = order[x]
      BY <2>1, <2>2, Fields, MovedFields DEF SweptOrders
  <2>4. \A j \in Items : j # i => item'[j] = SweptItems[j]
      BY <2>1, SweptTypes
  <2>5. \A j \in Items :
          IF item[j].status = "reserved" /\ item[j].reservedBy \in due
          THEN /\ SweptItems[j].status = "available" /\ SweptItems[j].reservedBy = None
               /\ SweptItems[j].soldTo = item[j].soldTo
          ELSE SweptItems[j] = item[j]
      BY Fields, RowFields DEF SweptItems
  <2>6. /\ item'[i].status = "reserved" /\ item'[i].reservedBy = o
        /\ item'[i].soldTo = SweptItems[i].soldTo
      BY <2>1, SweptTypes, RowFields
  <2>7. ASSUME NEW x \in Orders PROVE OrderAgrees(x)'
      BY <2>1, <2>3, <2>4, <2>5, <2>6, Fields
         DEF ShelfAgrees, OrderAgrees, ItemAgrees, Lapsed
  <2>8. ASSUME NEW j \in Items PROVE ItemAgrees(j)'
      BY <2>1, <2>3, <2>4, <2>5, <2>6, Fields
         DEF ShelfAgrees, OrderAgrees, ItemAgrees, Lapsed
  <2> QED  BY <2>7, <2>8 DEF ShelfAgrees
<1>2. CASE ReleaseExpiredReservations
  BY <1>2, SweepAgrees DEF ReleaseExpiredReservations
<1>3. CASE Admin
  <2>1. ASSUME NEW i \in Items, AddInventory(i) \/ AdminDisableInventory(i)
        PROVE  ShelfAgrees'
    <3>1. /\ order' = order /\ \A j \in Items : j # i => item'[j] = item[j]
          /\ item[i].status \notin {"reserved", "sold"}
          /\ item'[i].status \in {"available", "disabled"}
          /\ item'[i].status = "available" => item[i].status = "absent"
          /\ item'[i].reservedBy = item[i].reservedBy /\ item'[i].soldTo = item[i].soldTo
        BY <2>1 DEF AddInventory, AdminDisableInventory, TypeOK, ItemRows
    <3>2. ASSUME NEW o \in Orders PROVE OrderAgrees(o)'
        BY <3>1, Fields DEF ShelfAgrees, OrderAgrees
    <3>3. ASSUME NEW j \in Items PROVE ItemAgrees(j)'
        BY <3>1, Fields DEF ShelfAgrees, ItemAgrees
    <3> QED  BY <3>2, <3>3 DEF ShelfAgrees
  <2>2. ASSUME NEW o \in Orders, AdminMarkOrderRefunded(o)
        PROVE  ShelfAgrees'
      BY <2>2 DEF AdminMarkOrderRefunded, TypeOK, OrderRows, ItemRows, ShelfAgrees,
                  OrderAgrees, ItemAgrees
  <2>3. ASSUME NEW o \in Orders, NEW i \in Items, AdminReplaceInventory(o, i)
        PROVE  ShelfAgrees'
    <3> DEFINE old == order[o].item
    <3>1. /\ order[o].status = "paid" /\ old \in Items /\ item[old].status = "sold"
          /\ item[i].status = "available" /\ old # i
        BY <2>3 DEF AdminReplaceInventory, TypeOK, OrderRows
    <3>2. \A x \in Orders : /\ order'[x].status = order[x].status
                            /\ order'[x].item = IF x = o THEN i ELSE order[x].item
        BY <2>3 DEF AdminReplaceInventory, TypeOK, OrderRows
    <3>3. \A j \in Items : item'[j] = IF j = i THEN Sold(item[j], o)
                                      ELSE IF j = old THEN Retired(item[j]) ELSE item[j]
        BY <2>3, <3>1 DEF AdminReplaceInventory, TypeOK
    <3>4. ASSUME NEW x \in Orders PROVE OrderAgrees(x)'
        BY <3>1, <3>2, <3>3, Fields, MovedFields, RowFields
           DEF ShelfAgrees, OrderAgrees, ItemAgrees
    <3>5. ASSUME NEW j \in Items PROVE ItemAgrees(j)'
        BY <3>1, <3>2, <3>3, Fields, MovedFields, RowFields
           DEF ShelfAgrees, OrderAgrees, ItemAgrees
    <3> QED  BY <3>4, <3>5 DEF ShelfAgrees
  <2> QED  BY <1>3, <2>1, <2>2, <2>3 DEF Admin
<1>4. ASSUME NEW o \in Orders, CancelOrder(o)
      PROVE  ShelfAgrees'
  <2>1. \A x \in Orders : order'[x] = IF x = o THEN Moved(order[x], "cancelled", None) ELSE order[x]
      BY <1>4 DEF CancelOrder, TypeOK
  <2>2. \A j \in Items : item'[j] = IF j = order[o].item THEN Freed(item[j]) ELSE item[j]
      BY <1>4 DEF CancelOrder, Holds, TypeOK, ShelfAgrees, OrderAgrees
  <2>3. ASSUME NEW x \in Orders PROVE OrderAgrees(x)'
      BY <1>4, <2>1, <2>2, Fields, MovedFields, RowFields
           DEF CancelOrder, ShelfAgrees, OrderAgrees, ItemAgrees
  <2>4. ASSUME NEW j \in Items PROVE ItemAgrees(j)'
      BY <1>4, <2>1, <2>2, Fields, MovedFields, RowFields
           DEF CancelOrder, ShelfAgrees, OrderAgrees, ItemAgrees
  <2> QED  BY <2>3, <2>4 DEF ShelfAgrees
<1>5. ASSUME NEW o \in Orders, NEW ev, MarkExternalPaid(o, ev)
      PROVE  ShelfAgrees'
  <2>1. CASE SellReserved(o, ev)
    <3>1. order[o].status = "pending" /\ order[o].item \in Items
        BY <2>1 DEF SellReserved, Reserving, Holds, TypeOK, OrderRows
    <3>2. \A x \in Orders : /\ order'[x].status = IF x = o THEN "paid" ELSE order[x].status
                            /\ order'[x].item = order[x].item
        BY <2>1 DEF SellReserved, TypeOK, OrderRows
    <3>3. \A j \in Items : item'[j] = IF j = order[o].item THEN Sold(item[j], o) ELSE item[j]
        BY <2>1, <3>1 DEF SellReserved, TypeOK
    <3>4. ASSUME NEW x \in Orders PROVE OrderAgrees(x)'
        BY <3>1, <3>2, <3>3, Fields, MovedFields, RowFields
           DEF ShelfAgrees, OrderAgrees, ItemAgrees
    <3>5. ASSUME NEW j \in Items PROVE ItemAgrees(j)'
        BY <3>1, <3>2, <3>3, Fields, MovedFields, RowFields
           DEF ShelfAgrees, OrderAgrees, ItemAgrees
    <3> QED  BY <3>4, <3>5 DEF ShelfAgrees
  <2>2. /\ order[o].status = "pending" => Reserving(o) /\ order[o].item \in Items
        /\ order[o].status = "cancelled" => order[o].item = None /\ ~Reserving(o)
      BY DEF ShelfAgrees, OrderAgrees, Reserving, Holds, TypeOK, OrderRows
  <2>3. ASSUME NEW i \in Items, SellAnother(o, ev, i)
        PROVE  ShelfAgrees'
    <3> DEFINE was == order[o].item
    <3>1. order[o].status \in {"pending", "cancelled"}
        BY <2>3 DEF SellAnother, Payable
    <3>2. \A x \in Orders : order'[x] = IF x = o THEN Moved(order[x], "paid", i) ELSE order[x]
        BY <2>3 DEF SellAnother, TypeOK
    <3>3. \A j \in Items : StaleReleased(o)[j] =
              IF j = was /\ order[o].status = "pending" THEN Freed(item[j]) ELSE item[j]
        BY <2>2, <3>1 DEF StaleReleased, Reserving
    <3>4. \A j \in Items : item'[j] = IF j = i THEN Sold(StaleReleased(o)[j], o)
                                      ELSE StaleReleased(o)[j]
        BY <2>3 DEF SellAnother, StaleReleased
    <3>5. \A j \in Items : StaleReleased(o)[j] \in ItemRows
        BY <3>3, Fields, RowTypes
    <3>6. item[i].status = "available" \/ (order[o].status = "pending" /\ i = was)
        BY <2>3, <3>3 DEF SellAnother
    <3>7. ASSUME NEW x \in Orders PROVE OrderAgrees(x)'
        BY <2>2, <3>1, <3>2, <3>3, <3>6, <3>4, <3>5, Fields, MovedFields, RowFields
           DEF ShelfAgrees, OrderAgrees, ItemAgrees
    <3>8. ASSUME NEW j \in Items PROVE ItemAgrees(j)'
        BY <2>2, <3>1, <3>2, <3>3, <3>6, <3>4, <3>5, Fields, MovedFields, RowFields
           DEF ShelfAgrees, OrderAgrees, ItemAgrees
    <3> QED  BY <3>7, <3>8 DEF ShelfAgrees
  <2>4. CASE KeepForManual(o, ev)
    <3>1. order[o].status = "cancelled"
      <4>1. SUFFICES ASSUME order[o].status = "pending" PROVE FALSE
          BY <2>4 DEF KeepForManual, Payable
      <4>2. StaleReleased(o)[order[o].item] = Freed(item[order[o].item])
          BY <2>2, <4>1 DEF StaleReleased
      <4>3. /\ item[order[o].item].status = "reserved"
            /\ Freed(item[order[o].item]).status = "available"
          BY <2>2, <4>1 DEF Reserving, Holds, Freed, TypeOK, ItemRows
      <4> QED  BY <2>2, <2>4, <4>1, <4>2, <4>3 DEF KeepForManual
    <3>2. item' = item
        BY <2>2, <2>4, <3>1 DEF KeepForManual, StaleReleased, TypeOK
    <3>3. \A x \in Orders : order'[x] = IF x = o THEN Moved(order[x], "manual", None) ELSE order[x]
        BY <2>4 DEF KeepForManual, TypeOK
    <3> QED  BY <3>1, <3>2, <3>3, Fields, MovedFields, RowFields
           DEF ShelfAgrees, OrderAgrees, ItemAgrees
  <2> QED  BY <1>5, <2>1, <2>3, <2>4 DEF MarkExternalPaid
<1>6. ASSUME NEW s \in Sessions, Checkout(s)
      PROVE  ShelfAgrees'
  <2>1. ASSUME NEW o \in Orders, LookupExternalOrder(s, o)
        PROVE  ShelfAgrees'
      BY <2>1, SweepAgrees DEF LookupExternalOrder
  <2>2. ASSUME NEW m \in Methods, NEW fee \in Fees, SetExternalPayment(s, m, fee)
        PROVE  ShelfAgrees'
    <3>1. /\ item' = item
          /\ \A x \in Orders : order'[x].status = order[x].status /\ order'[x].item = order[x].item
        BY <2>2 DEF SetExternalPayment, TypeOK, OrderRows
    <3> QED  BY <3>1 DEF ShelfAgrees, OrderAgrees, ItemAgrees, TypeOK, OrderRows, ItemRows
  <2>3. CASE CheckoutFree(s)
    <3>1. sess[s].o \in Orders
        BY <2>3 DEF CheckoutFree, TypeOK, Requests, Idle
    <3> QED  BY <2>3, <3>1, <1>5 DEF CheckoutFree
  <2>4. CASE GatewayAnswers(s) \/ CheckoutFails(s)
      BY <2>4 DEF GatewayAnswers, CheckoutFails, shopVars, ShelfAgrees, OrderAgrees, ItemAgrees
  <2> QED  BY <1>6, <2>1, <2>2, <2>3, <2>4 DEF Checkout
<1>7. ASSUME NEW p \in payments, Notify(p)
      PROVE  ShelfAgrees'
  <2>1. p.o \in Orders  BY DEF TypeOK, Links
  <2> QED  BY <1>7, <1>5, <2>1 DEF Notify
<1>8. ASSUME order' = order, item' = item
      PROVE  ShelfAgrees'
  BY <1>8 DEF ShelfAgrees, OrderAgrees, ItemAgrees
<1> QED  BY <1>1, <1>2, <1>3, <1>4, <1>6, <1>7, <1>8
         DEF Next, ReservationExpires, UserPays, vars, shopVars

(* The order table and the shelf always agree, for every number of orders,
   credentials, products, channels and concurrent checkouts.                *)
THEOREM ShelfConsistent == Spec => []ShelfAgrees
<1>1. Init => TypeOK /\ ShelfAgrees
  <2>1. Init => TypeOK
    BY ShopAssumption DEF Init, TypeOK, OrderRows, ItemRows, Requests, NoOrder, NoItem, Idle
  <2>2. Init => ShelfAgrees
    BY DEF Init, ShelfAgrees, OrderAgrees, ItemAgrees, NoOrder, NoItem
  <2> QED  BY <2>1, <2>2
<1>2. TypeOK /\ ShelfAgrees /\ [Next]_vars => (TypeOK /\ ShelfAgrees)'
  BY TypeStep, ShelfStep
<1> QED  BY <1>1, <1>2, PTL DEF Spec

(* The number a credential was sold under never changes, whatever transaction
   comes next.                                                              *)
LEMMA SoldStep ==
    ASSUME TypeOK, ShelfAgrees, [Next]_vars, NEW i \in Items, item[i].soldTo # None
    PROVE  item'[i].soldTo = item[i].soldTo /\ item'[i].status \notin {"available", "reserved"}
<1> USE ShopAssumption
<1>1. item[i].status \in {"sold", "disabled"} /\ item[i] \in ItemRows
  BY Fields DEF ShelfAgrees, ItemAgrees
<1>2. SweptItems[i] = item[i]
  BY <1>1 DEF SweptItems
<1>3. ASSUME NEW o \in Orders, NEW ev, MarkExternalPaid(o, ev)
      PROVE  item'[i] = item[i]
  <2>1. Reserving(o) => order[o].item # i
      BY <1>1 DEF Reserving, Holds
  <2>2. StaleReleased(o)[i] = item[i]
      BY <2>1 DEF StaleReleased
  <2>3. CASE SellReserved(o, ev)
      BY <2>1, <2>3 DEF SellReserved, TypeOK
  <2>4. CASE KeepForManual(o, ev)
      BY <2>2, <2>4 DEF KeepForManual
  <2>5. ASSUME NEW j \in Items, SellAnother(o, ev, j)
        PROVE  item'[i] = item[i]
    <3>1. j # i
        BY <1>1, <2>2, <2>5 DEF SellAnother
    <3> QED  BY <2>2, <2>5, <3>1 DEF SellAnother, StaleReleased
  <2> QED  BY <1>3, <2>3, <2>4, <2>5 DEF MarkExternalPaid
<1>4. CASE Create
  <2> PICK o \in Orders, p \in Products, k \in Keys \cup {None}, price \in Prices, j \in Items :
          CreateOrder(o, p, k, price, j)
      BY <1>4 DEF Create
  <2>1. j # i
      BY <1>1, <1>2 DEF CreateOrder
  <2> QED  BY <1>1, <1>2, <2>1, SweptTypes DEF CreateOrder
<1>5. CASE ReleaseExpiredReservations
  BY <1>1, <1>2, <1>5 DEF ReleaseExpiredReservations
<1>6. CASE Admin
  <2>1. ASSUME NEW j \in Items, AddInventory(j) \/ AdminDisableInventory(j)
        PROVE  item'[i] = item[i]
      BY <1>1, <2>1 DEF AddInventory, AdminDisableInventory, TypeOK
  <2>2. ASSUME NEW o \in Orders, AdminMarkOrderRefunded(o)
        PROVE  item'[i] = item[i]
      BY <2>2 DEF AdminMarkOrderRefunded
  <2>3. ASSUME NEW o \in Orders, NEW j \in Items, AdminReplaceInventory(o, j)
        PROVE  item'[i] = item[i] \/ item'[i] = Retired(item[i])
    <3>1. j # i  BY <1>1, <2>3 DEF AdminReplaceInventory
    <3> QED  BY <2>3, <3>1 DEF AdminReplaceInventory, TypeOK
  <2> QED  BY <1>1, <1>6, <2>1, <2>2, <2>3, RowFields DEF Admin
<1>7. ASSUME NEW o \in Orders, CancelOrder(o)
      PROVE  item'[i] = item[i]
  BY <1>1, <1>7 DEF CancelOrder, Holds
<1>8. ASSUME NEW s \in Sessions, Checkout(s)
      PROVE  item'[i] = item[i]
  <2>1. ASSUME NEW o \in Orders, LookupExternalOrder(s, o)
        PROVE  item'[i] = item[i]
      BY <1>2, <2>1 DEF LookupExternalOrder
  <2>2. CASE CheckoutFree(s)
    <3>1. sess[s].o \in Orders
        BY <2>2 DEF CheckoutFree, TypeOK, Requests, Idle
    <3> QED  BY <1>3, <2>2, <3>1 DEF CheckoutFree
  <2> QED  BY <1>8, <2>1, <2>2 DEF Checkout, SetExternalPayment, GatewayAnswers, CheckoutFails,
                                   shopVars
<1>9. ASSUME NEW p \in payments, Notify(p)
      PROVE  item'[i] = item[i]
  <2>1. p.o \in Orders  BY DEF TypeOK, Links
  <2> QED  BY <1>3, <1>9, <2>1 DEF Notify
<1>10. CASE item' = item
  BY <1>1, <1>10
<1> QED  BY <1>1, <1>4, <1>5, <1>6, <1>7, <1>8, <1>9, <1>10
         DEF Next, ReservationExpires, UserPays, vars, shopVars

(* A sold credential is never offered again: the comment in
   AdminReplaceInventory, "it is never made sellable", for every behaviour. *)
THEOREM SoldForGood == Spec => NeverResold
<1>1. Spec => [](TypeOK /\ ShelfAgrees)
  BY TypeCorrect, ShelfConsistent, PTL
<1>2. TypeOK /\ ShelfAgrees /\ [Next]_vars =>
        [\A i \in Items : item[i].soldTo # None =>
            /\ item'[i].soldTo = item[i].soldTo
            /\ item'[i].status \notin {"available", "reserved"}]_vars
  BY SoldStep
<1> QED  BY <1>1, <1>2, PTL DEF Spec, NeverResold

(* An order that waits holds its item, so a payment finds one to sell: its own,
   or the one it has just given back.                                       *)
LEMMA HolderStep ==
    ASSUME TypeOK, ShelfAgrees, [Next]_vars, NEW o \in Orders, order[o].status = "pending"
    PROVE  order'[o].status # "manual"
<1> USE ShopAssumption
<1>1. /\ order \in [Orders -> OrderRows] /\ order[o].item \in Items
      /\ Holds(o, order[o].item)
  BY Fields DEF TypeOK, ShelfAgrees, OrderAgrees, Holds
<1>2. SweptOrders[o].status # "manual"
  BY Fields, MovedFields DEF SweptOrders
<1>3. ASSUME NEW ev, KeepForManual(o, ev)
      PROVE  FALSE
  <2> DEFINE i == order[o].item
  <2>1. StaleReleased(o)[i] = Freed(item[i]) /\ item[i].status = "reserved"
      BY <1>1 DEF StaleReleased, Reserving, Holds
  <2>2. Freed(item[i]).status = "available"
      BY <1>1, Fields, RowFields
  <2> QED  BY <1>1, <1>3, <2>1, <2>2 DEF KeepForManual
<1>4. ASSUME NEW x \in Orders, NEW ev, MarkExternalPaid(x, ev)
      PROVE  order'[o].status # "manual"
  <2>1. CASE SellReserved(x, ev)
      BY <1>1, <2>1, Fields DEF SellReserved, OrderRows
  <2>2. CASE KeepForManual(x, ev)
    <3>1. x # o
        BY <1>3, <2>2
    <3> QED  BY <1>1, <2>2, <3>1 DEF KeepForManual
  <2>3. ASSUME NEW j \in Items, SellAnother(x, ev, j)
        PROVE  order'[o].status # "manual"
    <3>1. order' = [order EXCEPT ![x] = Moved(order[x], "paid", j)]
        BY <2>3 DEF SellAnother
    <3> QED  BY <1>1, <3>1, Fields, MovedFields
  <2> QED  BY <1>4, <2>1, <2>2, <2>3 DEF MarkExternalPaid
<1>5. CASE Create
  <2> PICK x \in Orders, p \in Products, k \in Keys \cup {None}, price \in Prices, j \in Items :
          CreateOrder(x, p, k, price, j)
      BY <1>5 DEF Create
  <2>1. x # o
      BY DEF CreateOrder
  <2> QED  BY <1>2, <2>1, SweptTypes DEF CreateOrder
<1>6. CASE ReleaseExpiredReservations
  BY <1>2, <1>6 DEF ReleaseExpiredReservations
<1>7. CASE Admin
  <2>1. ASSUME NEW x \in Orders, AdminMarkOrderRefunded(x)
        PROVE  order'[o].status # "manual"
      BY <1>1, <2>1, Fields DEF AdminMarkOrderRefunded, OrderRows
  <2>2. ASSUME NEW x \in Orders, NEW j \in Items, AdminReplaceInventory(x, j)
        PROVE  order'[o].status # "manual"
    <3>1. x # o /\ order' = [order EXCEPT ![x].item = j]
        BY <2>2 DEF AdminReplaceInventory
    <3> QED  BY <1>1, <3>1
  <2> QED  BY <1>7, <2>1, <2>2 DEF Admin, AddInventory, AdminDisableInventory
<1>8. ASSUME NEW x \in Orders, CancelOrder(x)
      PROVE  order'[o].status # "manual"
  <2>1. order' = [order EXCEPT ![x] = Moved(order[x], "cancelled", None)]
      BY <1>8 DEF CancelOrder
  <2> QED  BY <1>1, <2>1, Fields, MovedFields
<1>9. ASSUME NEW s \in Sessions, Checkout(s)
      PROVE  order'[o].status # "manual"
  <2>1. ASSUME NEW x \in Orders, LookupExternalOrder(s, x)
        PROVE  order'[o].status # "manual"
      BY <1>2, <2>1 DEF LookupExternalOrder
  <2>2. CASE CheckoutFree(s)
    <3>1. sess[s].o \in Orders
        BY <2>2 DEF CheckoutFree, TypeOK, Requests, Idle
    <3> QED  BY <1>4, <2>2, <3>1 DEF CheckoutFree
  <2>3. ASSUME NEW m \in Methods, NEW fee \in Fees, SetExternalPayment(s, m, fee)
        PROVE  order'[o].status # "manual"
    <3>1. order'[o].status = order[o].status
        BY <1>1, <2>3, Fields DEF SetExternalPayment, OrderRows
    <3> QED  BY <3>1
  <2> QED  BY <1>9, <2>1, <2>2, <2>3 DEF Checkout, GatewayAnswers, CheckoutFails, shopVars
<1>10. ASSUME NEW p \in payments, Notify(p)
       PROVE  order'[o].status # "manual"
  <2>1. p.o \in Orders  BY DEF TypeOK, Links
  <2> QED  BY <1>4, <1>10, <2>1 DEF Notify
<1>11. CASE order' = order
  BY <1>11
<1> QED  BY <1>5, <1>6, <1>7, <1>8, <1>9, <1>10, <1>11
         DEF Next, ReservationExpires, UserPays, vars, shopVars

(* HolderDelivered: a payment that comes while the order still waits is given a
   credential, whether its reservation has expired or not.                  *)
THEOREM HolderDeliveredHolds == Spec => HolderDelivered
<1>1. Spec => [](TypeOK /\ ShelfAgrees)
  BY TypeCorrect, ShelfConsistent, PTL
<1>2. TypeOK /\ ShelfAgrees /\ [Next]_vars =>
        [\A o \in Orders : order[o].status = "pending" => order'[o].status # "manual"]_vars
  BY HolderStep
<1> QED  BY <1>1, <1>2, PTL DEF Spec, HolderDelivered
=============================================================================
