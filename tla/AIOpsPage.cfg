SPECIFICATION Spec
CONSTANTS
    Sessions = {s1, s2}
    Messages = {m1}
    None = None
    MaxTurn = 2
    MaxDraft = 1
    MaxAccess = 2
    MaxRequest = 2
    MaxReads = 2
    MaxEvents = 2
    MiniApp = TRUE
SYMMETRY MCSymmetry
INVARIANTS ShownIsSelected OneTurnPerMessage
CONSTRAINT Within
CHECK_DEADLOCK FALSE
