SPECIFICATION AbortSpec
CONSTANTS
    MaxAborts = 1
    w1 = w1
    w2 = w2
    nobody = nobody
    Workers <- MCWorkers
    Nobody <- nobody
    MaxAttempt = 2
    MaxVersion = 2
    MaxRetry = 1
    MaxFaults = 0
    PromptGated = FALSE
    OutputGated = FALSE
    Continues = FALSE
    Restarts = FALSE
    RunsAtStart = TRUE
SYMMETRY MCSymmetry
PROPERTY CancelledMeansNoLoad
CHECK_DEADLOCK FALSE
