----------------------------- MODULE MCProcess -----------------------------
(***************************************************************************)
(* A small instance of Process for TLC.                                    *)
(***************************************************************************)
EXTENDS Process, TLC

MCOwners == [q \in Ids |-> "owner"]

\* Every transaction changes one query.
MCOneChange == {q :> c : q \in Ids, c \in Changes}
=============================================================================
