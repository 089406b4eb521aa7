SPECIFICATION Spec
CONSTANTS
    Users = {"ann"}
    MaxOrders = 1
    Methods = {"alipay", "stripe"}
    Callbacks = {"t1", "t2"}
    Sessions = {s1, s2}
    Prices = {2}
    Surpluses = {0}
    BuyKinds = {"period"}
    Funds = 1
    Fee <- MCFee
    MaxVersion = 0
    MaxOpens = 1
    MaxPayments = 0
    LegacyDrafts = {}
    None = None
PROPERTY LateLinkKept
CHECK_DEADLOCK FALSE
