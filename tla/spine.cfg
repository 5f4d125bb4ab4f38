SPECIFICATION EngineSpec
CONSTANTS
    w1 = w1
    w2 = w2
    nobody = nobody
    Workers <- MCWorkers
    Nobody <- nobody
    MaxAttempt = 2
    MaxVersion = 2
    MaxRetry = 2
    MaxFaults = 4
    PromptGated = TRUE
    OutputGated = TRUE
    Continues = TRUE
    Restarts = TRUE
    RunsAtStart = TRUE
SYMMETRY MCSymmetry
INVARIANTS
    LoadStaysReachable
    WitnessIsTruthful
    SucceededMeansCollected
    IndexedObjectsSurvive
CHECK_DEADLOCK FALSE
