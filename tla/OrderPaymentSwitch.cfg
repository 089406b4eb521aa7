SPECIFICATION Spec
CONSTANTS
    Users = {"ann"}
    MaxOrders = 1
    Methods = {"alipay", "stripe"}
    Callbacks = {"t1", "t2"}
    Sessions = {s1, s2}
    Prices = {0, 2}
    Surpluses = {0}
    BuyKinds = {"period"}
    Funds = 1
    Fee <- MCFee
    MaxVersion = 1
    MaxOpens = 1
    MaxPayments = 2
    LegacyDrafts = {}
    None = None
INVARIANTS OneWinner LinkSettles CachedLinkMatches ClaimsAgree PaidInFull
CHECK_DEADLOCK FALSE
SYMMETRY MCSymmetry
