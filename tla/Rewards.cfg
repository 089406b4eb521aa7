CONSTANTS
    o1 = o1  deposit = deposit
    alice = alice  bob = bob
    Orders = {o1, deposit}
    Sweeps = {1, 2}
    Deposits = {deposit}
    Users = {alice, bob}
    InviterOf <- MCInviterOf
    Amount <- MCAmount
    WithdrawClose = {TRUE, FALSE}
    Tokens = {x1, x2}
    Keys = {y1, y2}
    MaxRows = 2
    MaxMove = 1
    Invitees = {y1, y2}
    Handlers = {x1, x2}
    Reward = 2
    Target = 3
    NeverExpires = {TRUE, FALSE}
    MaxCampaigns = 2
    MaxCodes = 2
    MaxInviterOrders = 2
    Customers = {y1, y2}
    Cards = {g1}
    Requests = {x1, x2}
    LimitUse = 2
    LimitUseWithUser = 1
    CardLimit = 2
    Value = 5
    MaxCustomerOrders = 3
SPECIFICATION MCSpec
INVARIANTS Conserved AmountAgrees CouponConserved
PROPERTIES ImplementsLedger DiscountOnce
SYMMETRY Interchangeable
CHECK_DEADLOCK FALSE
