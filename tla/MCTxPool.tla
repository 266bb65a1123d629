------------------------------ MODULE MCTxPool ------------------------------
(* Small pools for TLC. *)
EXTENDS TxPool

Tx(s, n, f) == [sender |-> s, nonce |-> n, fee |-> f]

\* Three nonces of one account, two of them with a dearer replacement.
OneSender == {Tx("a", 0, 1), Tx("a", 1, 1), Tx("a", 1, 2), Tx("a", 2, 1),
              Tx("a", 2, 2)}

\* Two accounts whose transactions compete for the same block.
TwoSenders == {Tx("a", 0, 1), Tx("a", 0, 2), Tx("a", 1, 1), Tx("b", 0, 1)}
=============================================================================
