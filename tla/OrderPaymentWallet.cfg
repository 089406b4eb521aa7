SPECIFICATION Spec
CONSTANTS
    Users = {"ann"}
    MaxOrders = 3
    Methods = {"alipay"}
    Callbacks = {"t1"}
    Sessions = {s1, s2}
    Prices = {0, 2}
    Surpluses = {0, 3}
    BuyKinds = {"period", "deposit"}
    Funds = 1
    Fee <- MCFee
    MaxVersion = 0
    MaxOpens = 2
    MaxPayments = 2
    LegacyDrafts <- LegacyRows
    None = None
INVARIANTS OnePending OpenedOnce CallbackOnce WalletConserved
PROPERTY ImplementsLedger
CONSTRAINT Within
CHECK_DEADLOCK FALSE
SYMMETRY MCSymmetry
