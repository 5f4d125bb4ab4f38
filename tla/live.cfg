SPECIFICATION FairEngineSpec
CONSTANTS
    w1 = w1
    w2 = w2
    nobody = nobody
    Workers <- MCOneWorker
    Nobody <- nobody
    MaxAttempt = 1
    MaxVersion = 2
    MaxRetry = 2
    MaxFaults = 2
    PromptGated = FALSE
    OutputGated = FALSE
    Continues = TRUE
    Restarts = FALSE
    RunsAtStart = FALSE
CHECK_DEADLOCK FALSE
PROPERTIES
    LoadEventuallyEnds
    KillEventuallyConfirmed
    CollectionEventuallySettled
