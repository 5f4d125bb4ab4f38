--------------------------- MODULE MCEngineSpine ---------------------------
\* Constants for the finite instances of EngineSpine.
EXTENDS EngineSpine, TLC

CONSTANTS w1, w2, nobody

MCWorkers == {w1, w2}
MCOneWorker == {w1}
MCSymmetry == Permutations(MCWorkers)
=============================================================================
