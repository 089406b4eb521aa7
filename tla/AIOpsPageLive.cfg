SPECIFICATION FairSpec
CONSTANTS
    Sessions = {s1}
    Messages = {}
    None = None
    MaxTurn = 1
    MaxDraft = 1
    MaxAccess = 1
    MaxRequest = 1
    MaxReads = 2
    MaxEvents = 1
    MiniApp = FALSE
PROPERTY PageCatchesUp
CHECK_DEADLOCK FALSE
