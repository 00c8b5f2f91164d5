SPECIFICATION FairSpec
CONSTANTS
    Threads = {t1, t2}
    MaxStarts = 3
CHECK_DEADLOCK FALSE
INVARIANTS
    ExclusiveStack
    JoinMeansGone
    TruthfulEnd
PROPERTIES
    NothingHangs
