----------------------------- MODULE TxQuerier -----------------------------
(***************************************************************************)
(* TXQuerierSrv (internal/txquerier/txquerier.go): the goroutine that      *)
(* SearchTransactions starts for one task of a query.  It asks the target  *)
(* chain's node for the matching transactions page by page, proves each    *)
(* one, and sends them over a bounded channel to the relayer's loop.  When *)
(* it returns it closes the channel; an error is left in a second channel. *)
(*                                                                         *)
(* The target chain is external: its transactions, in chain order, are a   *)
(* constant, and a block's transactions become visible to TxSearch at      *)
(* once, when the block is indexed (chainHeight).                          *)
(***************************************************************************)
EXTENDS Storage

CONSTANTS TxHeight,      \* transaction |-> its block
          Match,         \* query |-> transactions its filter selects
          PerPage,       \* perPage (100)
          TxsChanSize,   \* TxsChanSize (100)
          MaxHeight      \* bound: blocks of the target chain

AnyQuery == CHOOSE q \in Queries : TRUE

ASSUME QuerierAssumption ==
    /\ TxHeight \in [Txs -> Nat \ {0}]
    /\ \A s, t \in Txs : s <= t => TxHeight[s] <= TxHeight[t]
    /\ Match \in [Queries -> SUBSET Txs]
    /\ PerPage \in Nat \ {0}
    /\ TxsChanSize \in Nat \ {0}
    /\ MaxHeight \in Nat

VARIABLES chainHeight,   \* latest block indexed by the target chain's node
          search         \* the search goroutine and its two channels

querierVars == <<chainHeight, search>>

(***************************************************************************)
(* pc: "page" before TxSearch, "prove" before BlockResults, "send" at the  *)
(* select, "closed" once it returned, "off" when there is no search.       *)
(* from/cursor: the filter's tx.height bound and the last transaction      *)
(* sent.  page: the rest of the page; more: page*perPage < TotalCount;     *)
(* top: the block up to which the last TxSearch saw the chain.             *)
(* chan, err: the channels txs and errs.  silent: returned on ctx.Done().  *)
(***************************************************************************)
NoSearch ==
    [pc |-> "off", query |-> AnyQuery, from |-> 0, top |-> 0, cursor |-> 0,
     page |-> {}, more |-> FALSE, chan |-> {}, err |-> FALSE, silent |-> FALSE]

SearchType ==
    [pc : {"off", "page", "prove", "send", "closed"}, query : Queries,
     from : Nat, top : Nat, cursor : 0 .. NumTxs, page : SUBSET Txs,
     more : BOOLEAN, chan : SUBSET Txs, err : BOOLEAN, silent : BOOLEAN]

QuerierTypeOK ==
    /\ chainHeight \in 0 .. MaxHeight
    /\ search \in SearchType

QuerierInit == chainHeight = 0 /\ search = NoSearch

\* The target chain's node indexes the next block.
NewBlock ==
    /\ chainHeight < MaxHeight
    /\ chainHeight' = chainHeight + 1
    /\ UNCHANGED search

----------------------------------------------------------------------------
IsFirst(t, S) == t \in S /\ \A u \in S : t <= u

\* The transactions of the result that the pages so far did not hold.
Remaining ==
    {t \in Match[search.query] : /\ TxHeight[t] > search.from
                                 /\ TxHeight[t] <= chainHeight
                                 /\ t > search.cursor}

\* Mutant: orderBy = "desc".
PageDescending(rest) == {t \in rest : Cardinality({u \in rest : u > t}) < PerPage}

\* One page of the rest, in ascending order.
Page(rest) == {t \in rest : Cardinality({u \in rest : u < t}) < PerPage}

\* Mutant: the filter asks for tx.height > from + 1.
SearchFromNextBlock(q, from) ==
    search' = [NoSearch EXCEPT !.pc = "page", !.query = q, !.from = from + 1,
                               !.more = TRUE]

SearchTransactions(q, from) ==
    search' = [NoSearch EXCEPT !.pc = "page", !.query = q, !.from = from,
                               !.more = TRUE]

TxSearch ==
    /\ search.pc = "page"
    /\ search' = [search EXCEPT !.pc = IF Remaining = {} THEN "closed" ELSE "prove",
                                !.page = Page(Remaining),
                                !.more = Page(Remaining) # Remaining,
                                !.top = chainHeight]
    /\ UNCHANGED chainHeight

\* proofDelivery: BlockResults of the transaction's block answered.
ProofDelivery ==
    /\ search.pc = "prove"
    /\ search' = [search EXCEPT !.pc = "send"]
    /\ UNCHANGED chainHeight

\* TxSearch or BlockResults failed: the error goes to errs.
SearchFails ==
    /\ search.pc \in {"page", "prove"}
    /\ search' = [search EXCEPT !.pc = "closed", !.err = TRUE]
    /\ UNCHANGED chainHeight

\* The send branch of the select, and the end of the page or of the search.
SendTx(t) ==
    /\ search.pc = "send"
    /\ IsFirst(t, search.page)
    /\ Cardinality(search.chan) < TxsChanSize
    /\ search' = [search EXCEPT
                    !.pc = IF search.page # {t} THEN "prove"
                           ELSE IF search.more THEN "page" ELSE "closed",
                    !.page = @ \ {t},
                    !.cursor = t,
                    !.chan = @ \cup {t}]
    /\ UNCHANGED chainHeight

\* The ctx.Done() branch of the select: it returns and leaves no error.
SendCancelled ==
    /\ search.pc = "send"
    /\ search' = [search EXCEPT !.pc = "closed", !.silent = TRUE]
    /\ UNCHANGED chainHeight
=============================================================================
