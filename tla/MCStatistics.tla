---------------------------- MODULE MCStatistics ----------------------------
(***************************************************************************)
(* Values of the constants of Statistics for TLC.                          *)
(***************************************************************************)
EXTENDS Statistics, TLC

CONSTANTS t1, t2, t3, day, hour

Symmetry == Permutations(Threads) \cup Permutations(Campaigns)
=============================================================================
