----------------------- MODULE MCEngineRunProjection -----------------------
EXTENDS EngineRunProjection, TLC

CONSTANTS w1, w2, facade

MCCallers == {w1, w2, facade}
MCSymmetry == Permutations(MCCallers)
=============================================================================
