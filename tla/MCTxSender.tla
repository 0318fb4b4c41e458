----------------------------- MODULE MCTxSender -----------------------------
(***************************************************************************)
(* A small instance of TxSender for TLC.                                   *)
(***************************************************************************)
EXTENDS TxSender

CONSTANTS c1, c2
=============================================================================
