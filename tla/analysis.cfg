SPECIFICATION FairSpec
CONSTANTS
    N = 2
    Native <- MCNative
    MaxTries = 2
    Contents <- MCContents
    MaxFaults = 1
    Restarts = TRUE
INVARIANTS
    AnalysisTypeOK
    JobsAccounted
    ReportIsGrounded
PROPERTIES
    NativeSubmitsOnce
    AnalysisRunEnds
CHECK_DEADLOCK FALSE
