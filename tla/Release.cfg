\* Two images release and run from an empty database on, each with a worker that waits
\* for its image to be ready.
SPECIFICATION FairSpec
CONSTANTS
    Images <- TwoImages
    Expected <- HeadsConfigured
    Configured <- TwoImages
    Workers <- TwoWorkers
    Home <- Homes
    Dismissals <- OldDismissal
    Transitions <- OldAndNewTransitions
INVARIANTS
    ContractHolds
    WorkersMeetTheirSchema
PROPERTY EverythingReturns
