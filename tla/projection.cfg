SPECIFICATION Spec
CONSTANTS
    w1 = w1
    w2 = w2
    facade = facade
    Callers <- MCCallers
    MaxVersion = 4
SYMMETRY MCSymmetry
INVARIANTS
    LeaseFencesConnection
    AckedOutcomeIsFinal
PROPERTIES
    TerminalRowImmutable
    LifecycleNeverRegresses
CHECK_DEADLOCK FALSE
