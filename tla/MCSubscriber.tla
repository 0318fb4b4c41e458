---------------------------- MODULE MCSubscriber ----------------------------
(***************************************************************************)
(* Small instances of Subscriber for TLC.                                  *)
(***************************************************************************)
EXTENDS Subscriber, TLC

\* Queries 1 and 2 have one owner, the later ones another.
MCOwners == [q \in Ids |-> IF q < 3 THEN "owner" ELSE "other"]

\* Every transaction changes one query.
MCOneChange == {q :> c : q \in Ids, c \in Changes}

\* Transactions that change the two queries alike, too.
MCAlike == (MCOneChange \ {q :> "register" : q \in Ids})
           \cup {(1 :> c) @@ (2 :> c) : c \in {"register", "remove"}}

\* One query is updated and another removed in one transaction.
MCMixed == {(1 :> "update") @@ (2 :> "remove")}
=============================================================================
