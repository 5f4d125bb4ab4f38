--------------------------- MODULE MCAnalysisLedger ---------------------------
\* Constants for the finite instance of AnalysisLedger: a connector before a
\* native selection, and results that may be rendered in two ways.
EXTENDS AnalysisLedger

MCNative == {2}
MCContents == {1, 2}
=============================================================================
