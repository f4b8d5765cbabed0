\* Two cases compete for the slot and for notifications; one worker may not delete the
\* slot row.  Waiting for locks and for duplicates ends, deadlocks included.
SPECIFICATION FairSpec
CONSTANTS
    Cases = {c1, c2}
    NoCase = NoCase
    Workers = {w1, w2}
    NoOne = NoOne
    Targets = {"CLOSED_COUNTED"}
    Notices <- TwoNotices
    Batches <- BothOrders
    InitialRows <- LiveSeed
    Deleters = {w1}
    MaxAttempts = 1
    MaxClock = 1
INVARIANTS
    SlotHolderIsLive
PROPERTIES
    ImplementsHistory
    
