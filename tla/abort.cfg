SPECIFICATION AbortSpec
CONSTANTS
    MaxAborts = 1
    w1 = w1
    w2 = w2
    nobody = nobody
    Workers <- MCWorkers
    Nobody <- nobody
    MaxAttempt = 2
    MaxVersion = 2
    MaxRetry = 1
    MaxFaults = 1
    PromptGated = TRUE
    OutputGated = TRUE
    Continues = FALSE
    Restarts = FALSE
    RunsAtStart = FALSE
SYMMETRY MCSymmetry
INVARIANTS
    LoadIsAbortable
    FinishedPhaseLeavesNoLoad
    ConfirmedMeansStopped
PROPERTIES
    ImplementsContract
    KillIntentHeldUntilConfirmed
    TeardownNeverLosesResults
CHECK_DEADLOCK FALSE
