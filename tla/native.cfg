SPECIFICATION FairNativeSpec
CONSTANTS
    replica1 = replica1
    replica2 = replica2
    nobody = nobody
    Passes <- MCPasses
    Nobody <- nobody
    MaxVersion = 2
    MaxFaults = 1
    EchoesKey = TRUE
INVARIANTS
    NativeTypeOK
    ReportedOnce
PROPERTIES
    EndedRunsStayEnded
    EndedRunIsReported
    CreationIsAnswered
CHECK_DEADLOCK FALSE
