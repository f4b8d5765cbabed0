\* The release step runs before the application switches over.
SPECIFICATION Spec
CONSTANTS
    Images <- TwoImages
    Expected <- HeadsConfigured
    Configured <- TwoImages
    Workers <- TwoWorkers
    Home <- Homes
    Dismissals <- OldDismissal
    Transitions <- OldAndNewTransitions
INVARIANT ServedImageStaysReady
