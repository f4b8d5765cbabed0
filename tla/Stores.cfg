\* Statements on each group of tables, and the identifiers of a process.
SPECIFICATION StoresSpec
CONSTANTS
    Groups <- AllGroups
    first = first
    second = second
    third = third
    dossier = dossier
    case = case
    role = role
    draft = draft
    final = final
    small = small
    large = large
    Ids <- Three
    Cases = {case}
    Rows <- SomeRows
    Dossiers = {dossier}
    Hashes <- TwoContents
    Revisions <- SomeRevisions
    Requests <- TwoRequests
    Keys <- Both
    Intents <- SomeIntents
    Consents <- SomeConsents
    Grants <- SomeGrants
    Expenses <- SomeExpenses
    Attempts <- SomeAttempts
    Sessions <- SomeSessions
    Findings <- SomeFindings
    Verdicts <- SomeVerdicts
    Roles = {role}
    AttemptNumbers = {1, 2, 3}
    Runs <- SomeRuns
    Calls <- SomeCalls
    IntervalIds <- Both
    MaxClock = 3
    Readings <- Carries
    Arguments <- TestArguments
    Noise <- ThreeNoises
    MaxIds = 2
INVARIANTS
    VersionNamesRow
    TerminalStays
    AuthorityIsSingleUse
    ConsentNamesContent
    Integrity
    OneAttemptUnderWay
    ReturnsAreCountedOnce
    GateIntegrity
    OneAnswerIsApplied
    TimeIsCountedOnce
    EveryIdIsAccepted
    OrderFollowsClock
PROPERTIES
    TermsAreFinal
    OutcomeIsFinal
    JudgedContentStays
    LineageStays
CHECK_DEADLOCK FALSE
