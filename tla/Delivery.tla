------------------------------ MODULE Delivery ------------------------------
(***************************************************************************)
(* What the relayer promises about the transactions of a query, whatever   *)
(* goroutines, pages, channels, retries, failures and restarts are behind  *)
(* it: a query has a height on the target chain; above it transactions are *)
(* recorded one by one in the order of the chain; and the height moves to  *)
(* the block of a recorded transaction when all up to there are recorded.  *)
(* Only a process that is stopping may leave a rest of that one block.     *)
(*                                                                         *)
(* Module TxPipeline is shown to implement this specification.             *)
(***************************************************************************)
EXTENDS Integers

CONSTANTS Queries, Txs, TxHeight, Match,   \* as in TxQuerier
          MaxHeight                        \* bound: blocks of the target chain

VARIABLES height,     \* query |-> its height, or NotFound before its first task
          recorded,   \* (query, transaction) pairs with a record
          stopping    \* the process has been told to stop

vars == <<height, recorded, stopping>>

NotFound == -1

Init ==
    /\ height = [q \in Queries |-> NotFound]
    /\ recorded = {}
    /\ stopping = FALSE

\* What is selected above the height of the query.
Above(q) == {t \in Match[q] : TxHeight[t] > height[q]}

Begin(q) ==
    /\ height[q] = NotFound
    /\ \E h \in 0 .. MaxHeight : height' = [height EXCEPT ![q] = h]
    /\ UNCHANGED <<recorded, stopping>>

\* The first one without a record gets it, once.
Record(q) ==
    /\ height[q] # NotFound
    /\ \E t \in Above(q) :
          /\ <<q, t>> \notin recorded
          /\ \A s \in Above(q) : s < t => <<q, s>> \in recorded
          /\ recorded' = recorded \cup {<<q, t>>}
    /\ UNCHANGED <<height, stopping>>

Move(q) ==
    /\ height[q] # NotFound
    /\ \E t \in Above(q) :
          /\ <<q, t>> \in recorded
          /\ \A s \in Above(q) :
                /\ TxHeight[s] < TxHeight[t] => <<q, s>> \in recorded
                /\ TxHeight[s] = TxHeight[t] => <<q, s>> \in recorded \/ stopping
          /\ height' = [height EXCEPT ![q] = TxHeight[t]]
    /\ UNCHANGED <<recorded, stopping>>

\* The process is told to stop, or a new one starts.
StopOrStart == stopping' = ~stopping /\ UNCHANGED <<height, recorded>>

Next == (\E q \in Queries : Begin(q) \/ Record(q) \/ Move(q)) \/ StopOrStart

Spec == Init /\ [][Next]_vars
=============================================================================
