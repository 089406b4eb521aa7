SPECIFICATION FairSpec
CONSTANTS
    Operators = {o1}
    Sessions = {s1}
    Requests = {r1, r2}
    Turns = {t1, t2}
    Actions = {a1}
    NoOne = NoOne
    Slots = 2
    MaxVersion = 2
    MaxCrashes = 1
INVARIANTS SessionMatchesTurn ScopeKept SentOnce
PROPERTY ActionSettles
CHECK_DEADLOCK FALSE
