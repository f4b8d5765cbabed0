\* Two transactions of up to two commands and receipts each, over two cases, with one
\* notification and one key.
SPECIFICATION Spec
CONSTANTS
    Cases = {c1, c2}
    NoCase = NoCase
    Sessions = {s1, s2}
    NoOne = NoOne
    Targets <- TwoTargets
    Notices = {n1}
    NoNotice = NoNotice
    Keys = {k1}
    InitialRows <- LiveSeed
    MaxOpened = 1
    MaxCommands = 2
    MaxClock = 2
SYMMETRY Symmetry
INVARIANTS
    PromisesStayGood
    TransactionIsWhole
    NoticeHasOneOwner
    LedgerChains
    ClosedCaseRests
    KeyHasOneEffect
CHECK_DEADLOCK FALSE
