--------------------------- MODULE MCCycleDispatch ---------------------------
(***************************************************************************)
(* Instances of CycleDispatch for TLC.                                     *)
(***************************************************************************)
EXTENDS CycleDispatch, TLC

CONSTANTS w1, post1, post2, reader1, nobody

MCWorkers == {w1}
MCRequests == {post1, post2}
MCReaders == {reader1}
=============================================================================
