SPECIFICATION FairAdmissionSpec
CONSTANTS
    s1 = s1
    s2 = s2
    s3 = s3
    all = all
    source = source
    Streams <- MCStreams
    Keys <- MCKeys
    KeysOf <- MCKeysOf
    Limit <- MCLimit
    MaxFaults = 1
INVARIANTS
    SlotsWithinLimit
    OnlyOutagesLeakSlots
PROPERTIES
    LeasesAndResponsesAgree
CHECK_DEADLOCK FALSE
