SPECIFICATION FairSpec
CONSTANTS
    MaxOrders = 2
    Items = {"a1", "a2", "z1"}
    Products = {"game", "tool"}
    ProductOf <- MCProductOf
    Prices = {0, 2}
    Keys = {}
    Methods = {"alipay"}
    Fees = {1}
    Sessions = {s1, s2}
    None = None
INVARIANT ShelfAgrees
PROPERTIES ReservationsEnd NeverResold HolderDelivered
CHECK_DEADLOCK FALSE
