--------------------------- MODULE MCResubmitApi ---------------------------
(***************************************************************************)
(* A small instance of ResubmitApi for TLC.                                *)
(***************************************************************************)
EXTENDS ResubmitApi, TLC

CONSTANTS q1, h1, h2

MCTxHeight == <<1, 1>>

\* The second transaction is not of the query: no search ever finds it.
MCMatch == [q \in Queries |-> {1}]

\* One transaction, and an unknown one after it.
MCLists == {<<<<q1, 1>>>>, <<<<q1, 1>>, <<q1, 2>>>>}

\* The handlers of HTTP requests are interchangeable.
MCSymmetry == Permutations(Handlers)
=============================================================================
