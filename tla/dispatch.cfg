SPECIFICATION FairDispatchSpec
CONSTANTS
    w1 = w1
    post1 = post1
    post2 = post2
    reader1 = reader1
    nobody = nobody
    Workers <- MCWorkers
    Requests <- MCRequests
    Readers <- MCReaders
    Nobody <- nobody
    MaxAttempt = 2
    MaxVersion = 2
    MaxRetry = 1
    MaxFaults = 1
    PromptGated = FALSE
    OutputGated = FALSE
    Continues = TRUE
    Restarts = FALSE
    RunsAtStart = FALSE
INVARIANTS
    IntentLaunchesOnce
PROPERTIES
    DispatchEndsOnce
    ImplementsEnvironmentLease
    LaunchReleasesEnvironment
CHECK_DEADLOCK FALSE
