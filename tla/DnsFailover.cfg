CONSTANTS
    Targets = {a, b}
    Workers = {w1, w2}
    Nobody = none
    NoTarget = none
SPECIFICATION FairSpec
INVARIANTS RecordMatches DivergenceOwned
PROPERTIES ManualKept SagaEnds
CHECK_DEADLOCK FALSE
