\* Two workers announce the same notifications, in both orders, for two cases,
\* at version 1 or still at version 0, and retry once.
SPECIFICATION Spec
CONSTANTS
    Cases = {c1, c2}
    NoCase = NoCase
    Workers = {w1, w2}
    NoOne = NoOne
    Targets <- OneTarget
    Notices <- TwoNotices
    Batches <- Colliding
    InitialRows <- LiveAndFresh
    Deleters = {w1, w2}
    MaxAttempts = 2
    MaxClock = 1
SYMMETRY Symmetry
INVARIANTS
    IInv
    AnswerMatchesEffect
    NoticeAnnouncedOnce
