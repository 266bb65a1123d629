--------------------------- MODULE MCTimeManager ---------------------------
(* TLC instances of TimeManager. *)
EXTENDS TimeManager, TLC

MinerSymmetry == Permutations(Miners)
=============================================================================
