\* Every worker runs as pls_worker, which has no DELETE privilege.
SPECIFICATION Spec
CONSTANTS
    Cases = {c1, c2}
    NoCase = NoCase
    Workers = {w1, w2}
    NoOne = NoOne
    Targets <- TwoTargets
    Notices <- TwoNotices
    Batches <- Reminders
    InitialRows <- LiveSeed
    Deleters = {}
    MaxAttempts = 1
    MaxClock = 1
SYMMETRY Symmetry
INVARIANTS
    WorkerIsNeverDenied
