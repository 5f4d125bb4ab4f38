--------------------------- MODULE MCEngineAbort ---------------------------
\* Constants for the finite instances of EngineAbort.
EXTENDS EngineAbort, TLC

CONSTANTS w1, w2, nobody

MCWorkers == {w1, w2}
MCSymmetry == Permutations(MCWorkers)
=============================================================================
