---------------------------- MODULE MCKVProcessor ---------------------------
(***************************************************************************)
(* A small instance of KVProcessor for TLC.                                *)
(***************************************************************************)
EXTENDS KVProcessor, TLC

CONSTANTS q1, q2, q3

\* A query of two keys, one of one, and one without keys.
MCNumKeys == q1 :> 2 @@ q2 :> 1 @@ q3 :> 0
=============================================================================
