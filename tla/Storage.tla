------------------------------ MODULE Storage ------------------------------
(***************************************************************************)
(* LevelDBStorage (internal/storage/leveldb.go): the one persistent state  *)
(* of the relayer.  It maps a query to the last target-chain block that    *)
(* was searched for it, and a (query, remote transaction) pair to the      *)
(* status of its submission, and it keeps three indexes next to the        *)
(* statuses: submissions whose outcome is unknown, transactions that       *)
(* failed, and the bodies of the transactions that may be submitted again. *)
(*                                                                         *)
(* Every method holds the mutex of the storage, and SetTxStatus writes in  *)
(* one LevelDB transaction, so an operation is one step of its caller: an  *)
(* operator below constrains the primed variables it writes and leaves the *)
(* others to the caller.                                                   *)
(***************************************************************************)
EXTENDS Integers, FiniteSets

CONSTANTS Queries,   \* registered interchain queries of type "tx"
          NumTxs     \* number of transactions of the target chain

ASSUME StorageAssumption == /\ Queries # {}
                            /\ NumTxs \in Nat \ {0}

(***************************************************************************)
(* A remote transaction is named by its position on the target chain       *)
(* (block, index in the block).  A storage key is query ID + remote hash.  *)
(* A Neutron transaction is named by its content: the key it delivers and  *)
(* the account sequence it is signed with; its hash is injective in both.  *)
(***************************************************************************)
Txs         == 1 .. NumTxs
Keys        == Queries \X Txs
NeutronHash == [key : Keys, seq : Nat]

Statuses == {"Submitted", "ErrorOnSubmit", "Committed", "ErrorOnCommit"}
Absent   == "Absent"      \* no record under the key
NotFound == -1            \* no last height stored for the query

VARIABLES lastHeight,     \* query |-> last block searched
          status,         \* key |-> SubmittedTxInfo.Status
          pending,        \* the "submitted_txs" index: Neutron transactions
          unsuccessful,   \* the "unsuccessful_txs" index: keys
          cached          \* the "cached_txs" index: keys

storageVars == <<lastHeight, status, pending, unsuccessful, cached>>
txStatusVars == <<status, pending, unsuccessful, cached>>

StorageTypeOK ==
    /\ lastHeight \in [Queries -> Nat \cup {NotFound}]
    /\ status \in [Keys -> Statuses \cup {Absent}]
    /\ pending \subseteq NeutronHash
    /\ unsuccessful \subseteq Keys
    /\ cached \subseteq Keys

\* An empty database, as NewLevelDBStorage creates it on the first start.
StorageInit ==
    /\ lastHeight = [q \in Queries |-> NotFound]
    /\ status = [k \in Keys |-> Absent]
    /\ pending = {}
    /\ unsuccessful = {}
    /\ cached = {}

----------------------------------------------------------------------------
TxExists(k) == status[k] # Absent

GetCachedTx(k) == k \in cached

GetAllPendingTxs == pending

SetLastQueryHeight(q, block) ==
    lastHeight' = [lastHeight EXCEPT ![q] = block]

\* saveIntoPendingQueue / removeFromPendingQueue
PendingAfter(nh, st) ==
    CASE st = "Submitted" -> pending \cup {nh}
      [] st \in {"Committed", "ErrorOnCommit"} -> pending \ {nh}
      [] OTHER -> pending

\* Mutant: a committed transaction stays listed.
UnsuccessfulNeverRemoved(k, st) ==
    IF st \in {"ErrorOnCommit", "ErrorOnSubmit"} THEN unsuccessful \cup {k} ELSE unsuccessful

\* saveIntoUnsuccessfulQueue / removeFromUnsuccessfulQueue
UnsuccessfulAfter(k, st) ==
    CASE st \in {"ErrorOnCommit", "ErrorOnSubmit"} -> unsuccessful \cup {k}
      [] st = "Committed" -> unsuccessful \ {k}
      [] OTHER -> unsuccessful

\* Mutant: the body goes with any outcome.
CachedUntilOutcome(k, st, processed) ==
    IF st \in {"Committed", "ErrorOnCommit"} THEN cached \ {k}
    ELSE IF processed THEN cached \cup {k} ELSE cached

\* cacheProcessedTx / removeCachedTx; processed tells whether the caller
\* passes the body of the transaction (processedTx # nil).
CachedAfter(k, st, processed) ==
    IF st = "Committed" THEN cached \ {k}
    ELSE IF processed THEN cached \cup {k} ELSE cached

SetTxStatus(k, nh, st, processed) ==
    /\ status' = [status EXCEPT ![k] = st]
    /\ pending' = PendingAfter(nh, st)
    /\ unsuccessful' = UnsuccessfulAfter(k, st)
    /\ cached' = CachedAfter(k, st, processed)

----------------------------------------------------------------------------
(***************************************************************************)
(* What the indexes promise about the statuses.                            *)
(***************************************************************************)
\* A transaction whose outcome is unknown is in the pending index, so a
\* restarted TxSubmitChecker finds it.
SubmittedIsPending ==
    \A k \in Keys : status[k] = "Submitted" => \E nh \in pending : nh.key = k

\* A failed transaction is listed for the operator (/unsuccessful-txs).
FailedIsListed ==
    \A k \in Keys :
        status[k] \in {"ErrorOnSubmit", "ErrorOnCommit"} => k \in unsuccessful

\* A delivered transaction is neither listed nor kept for resubmission.
CommittedIsForgotten ==
    \A k \in Keys : status[k] = "Committed" => k \notin unsuccessful \cup cached

\* The indexes name only transactions that have a status, and the body of
\* a transaction is kept until its delivery is known.
IndexesHaveRecords ==
    /\ \A k \in unsuccessful \cup cached : TxExists(k)
    /\ \A nh \in pending : TxExists(nh.key)
    /\ \A k \in Keys : status[k] \in {"Submitted", "ErrorOnSubmit"} => k \in cached

(***************************************************************************)
(* The four index families of LevelDBStorage (written by separate Puts and *)
(* Deletes of SetTxStatus) agree with the statuses, whatever the order in  *)
(* which the relayer, the status checker and the web server call it.       *)
(***************************************************************************)
StorageConsistent ==
    /\ SubmittedIsPending
    /\ FailedIsListed
    /\ CommittedIsForgotten
    /\ IndexesHaveRecords
=============================================================================
