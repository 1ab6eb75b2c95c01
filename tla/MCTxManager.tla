----------------------------- MODULE MCTxManager -----------------------------
(* Instances of TxManager for TLC. *)
EXTENDS TxManager

CONSTANTS g1, g2

MCPoolSizes == {1, 2}
=============================================================================
