---------------------------- MODULE NeutronChain ----------------------------
(***************************************************************************)
(* What the relayer relies on of Neutron (external): BroadcastTxSync puts  *)
(* a transaction into a node's mempool, later it is in a block with a      *)
(* result code, or it is dropped, and the Tx RPC finds it by its hash only *)
(* once it is in a block.                                                  *)
(***************************************************************************)
EXTENDS Storage

VARIABLES sent,       \* number of transactions broadcast so far
          mempool,    \* accepted, not in a block yet
          executed,   \* in a block with code 0
          reverted    \* in a block with another code

neutronVars == <<sent, mempool, executed, reverted>>

NeutronInit ==
    /\ sent = 0
    /\ mempool = {}
    /\ executed = {}
    /\ reverted = {}

\* The account sequence grows with every accepted transaction, so the hash
\* of the next one is new.
NextHash(k) == [key |-> k, seq |-> sent + 1]

BroadcastTxSync(k) ==
    /\ sent' = sent + 1
    /\ mempool' = mempool \cup {NextHash(k)}
    /\ UNCHANGED <<executed, reverted>>

NeutronTypeOK ==
    /\ sent \in Nat
    /\ \A S \in {mempool, executed, reverted} : S \subseteq NeutronHash

ExecuteTx(nh, ok) ==
    /\ nh \in mempool
    /\ mempool' = mempool \ {nh}
    /\ executed' = IF ok THEN executed \cup {nh} ELSE executed
    /\ reverted' = IF ok THEN reverted ELSE reverted \cup {nh}
    /\ UNCHANGED sent

DropTx(nh) ==
    /\ nh \in mempool
    /\ mempool' = mempool \ {nh}
    /\ UNCHANGED <<sent, executed, reverted>>

InBlock(nh) == nh \in executed \cup reverted
=============================================================================
