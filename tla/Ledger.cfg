\* Two workers race two commands each for one case.
SPECIFICATION Spec
CONSTANTS
    Cases = {c1}
    NoCase = NoCase
    Workers = {w1, w2}
    NoOne = NoOne
    Targets <- EveryTarget
    Notices <- TwoNotices
    Batches <- NoBatch
    InitialRows <- EverySeed
    Deleters = {w1, w2}
    MaxAttempts = 2
    MaxClock = 2
SYMMETRY Symmetry
INVARIANTS
    TypeOK
    LedgerChains
    ProjectionFollowsLedger
    ColumnsAgree
    FactsStayCurrent
    ConflictMeansProgress
    HistoryIsChronological
PROPERTIES
    FrozenCasesStay
