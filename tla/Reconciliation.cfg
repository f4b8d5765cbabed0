\* Commands and diagnostic holds on two cases.
SPECIFICATION Spec
CONSTANTS
    Cases = {c1, c2}
    NoCase = NoCase
    Workers = {w1, w2}
    NoOne = NoOne
    Targets <- TwoTargets
    Notices <- TwoNotices
    Batches <- Reminders
    InitialRows <- LiveSeed
    Deleters = {w1, w2}
    MaxAttempts = 1
    MaxClock = 1
SYMMETRY Symmetry
INVARIANTS
    ProjectionMatchesLastTransition
