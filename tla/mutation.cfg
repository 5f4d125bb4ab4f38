SPECIFICATION FairSpec
CONSTANTS
    caller1 = caller1
    reconciler = reconciler
    nobody = nobody
    create1 = create1
    enrich1 = enrich1
    Callers <- MCCallers
    Reconcilers <- MCReconcilers
    Nobody <- nobody
    Creates <- MCCreates
    Enriches <- MCEnriches
    MaxVersion = 2
    MaxFaults = 1
INVARIANTS
    AtMostOnePost
    CompletedMeansApplied
    ToldOutcomeIsFinal
PROPERTIES
    MutationEventuallySettled
    WritesUnderReservation
    ImplementsDispatchOnce
CHECK_DEADLOCK FALSE
