\* As Nested on one target and one clock reading, for the property that needs fairness.
SPECIFICATION FairSpec
CONSTANTS
    Cases = {c1, c2}
    NoCase = NoCase
    Sessions = {s1, s2}
    NoOne = NoOne
    Targets = {"CLOSED_COUNTED"}
    Notices = {n1}
    NoNotice = NoNotice
    Keys = {k1}
    InitialRows <- LiveSeed
    MaxOpened = 1
    MaxCommands = 2
    MaxClock = 1
PROPERTIES
    EveryStatementReturns
CHECK_DEADLOCK FALSE
