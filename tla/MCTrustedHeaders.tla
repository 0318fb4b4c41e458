-------------------------- MODULE MCTrustedHeaders --------------------------
(***************************************************************************)
(* Small instances of TrustedHeaders for TLC.                              *)
(***************************************************************************)
EXTENDS TrustedHeaders

\* A consensus state from before an upgrade that changed the chain ID.
MCOldStates == {[rev |-> 0, height |-> 7, time |-> 7]}
=============================================================================
