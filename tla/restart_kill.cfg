SPECIFICATION EngineSpec
CONSTANTS
    w1 = w1
    w2 = w2
    nobody = nobody
    Workers <- MCWorkers
    Nobody <- nobody
    MaxAttempt = 2
    MaxVersion = 2
    MaxRetry = 2
    MaxFaults = 0
    PromptGated = TRUE
    OutputGated = TRUE
    Continues = TRUE
    Restarts = TRUE
    RunsAtStart = FALSE
SYMMETRY MCSymmetry
PROPERTY KillIntentHeldUntilConfirmed
CHECK_DEADLOCK FALSE
