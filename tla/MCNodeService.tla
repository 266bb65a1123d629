--------------------------- MODULE MCNodeService ---------------------------
(* TLC instances of NodeService. *)
EXTENDS NodeService, TLC

TxSymmetry == Permutations(Txs)
=============================================================================
