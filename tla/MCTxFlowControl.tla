---------------------------- MODULE MCTxFlowControl ----------------------------
(* TxFlowControl for TLC; the constants are given in the cfg files. *)
EXTENDS TxFlowControl
================================================================================
