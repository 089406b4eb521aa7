SPECIFICATION Spec
CONSTANTS
    MaxOrders = 1
    Items = {"a1"}
    Products = {"game"}
    ProductOf <- MCProductOf
    Prices = {2}
    Keys = {}
    Methods = {"alipay", "stripe"}
    Fees = {1}
    Sessions = {s1, s2}
    None = None
INVARIANT PaymentAccepted
CHECK_DEADLOCK FALSE
