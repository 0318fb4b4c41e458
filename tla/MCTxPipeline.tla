---------------------------- MODULE MCTxPipeline ----------------------------
(***************************************************************************)
(* Small instances of TxPipeline for TLC.                                  *)
(***************************************************************************)
EXTENDS TxPipeline, TLC

CONSTANT q1

\* Two transactions in block 1, so that a block can be cut, one in block 2.
MCTxHeight3 == <<1, 1, 2>>
MCTxHeight2 == <<1, 2>>
MCTxHeight11 == <<1, 1>>

\* Every query selects every transaction.
MCMatch == [q \in Queries |-> Txs]
=============================================================================
