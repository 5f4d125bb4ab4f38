--------------------------- MODULE MCApexLoadNative ---------------------------
\* Constants for the finite instance of ApexLoadNative: the reconcilers of two
\* replicas.
EXTENDS ApexLoadNative

CONSTANTS replica1, replica2, nobody

MCPasses == {replica1, replica2}
=============================================================================
