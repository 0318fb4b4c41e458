----------------------------- MODULE TxPipeline -----------------------------
(***************************************************************************)
(* The delivery of transactions: the goroutines of the relayer that share  *)
(* the storage, composed with the two chains.                              *)
(*                                                                         *)
(*   rel    Relayer.Run / processMessageTX (internal/relay/relayer.go) and *)
(*          TXProcessor (internal/txprocessor): takes a task, ranges over  *)
(*          the channel of the search, submits what is not in the storage  *)
(*   search the search goroutine (module TxQuerier)                        *)
(*   delayed the delayedTxStatusCheck goroutines, one per submission       *)
(*   chk    TxSubmitChecker.Run: learns the outcome of a submission        *)
(*   http   the handlers of POST /resubmit-txs (internal/http)             *)
(*   proc   the process: cancelled by a signal or by a critical error of   *)
(*          the relayer, killed by a crash, started again on the same      *)
(*          database (cmd/neutron_query_relayer/cmd/start.go)              *)
(*                                                                         *)
(* A step ends where the code can be interleaved with another goroutine or *)
(* be killed: at a call of a chain, at a channel, and at a storage method. *)
(***************************************************************************)
EXTENDS TxQuerier, NeutronChain

CONSTANTS Malformed,      \* queries whose filter does not parse
          Offset,         \* InitialTxSearchOffset
          Handlers,       \* concurrent HTTP requests
          CheckAttempts,  \* retryAttempts of the checker (4)
          MaxFaults,      \* bound: failed calls, crashes, signals, lost txs
          MaxResubmits    \* bound: transactions asked to be resubmitted

ASSUME PipelineAssumption ==
    /\ Malformed \subseteq Queries
    /\ Offset \in Nat
    /\ CheckAttempts \in Nat \ {0}
    /\ MaxFaults \in Nat
    /\ MaxResubmits \in Nat

VARIABLES rel, chk, delayed, http, proc,
          faults, resubmits,    \* how much of the two bounds is used
          base,       \* history: query |-> height it was initialised with
          cut,        \* history: <<query, block>> recorded as processed after
                      \* a search that ctx.Done() ended
          abandoned   \* history: submissions this process gave up checking

boundVars   == <<faults, resubmits>>
historyVars == <<base, cut, abandoned>>
vars == <<storageVars, querierVars, neutronVars, rel, chk, delayed, http, proc,
          boundVars, historyVars>>

(***************************************************************************)
(* rel.pc: "idle" at the select of Run, "range" at the range over txs,     *)
(* "process" in ProcessAndSubmit, "store" before SetTxStatus, "done".      *)
(* last: lastProcessedHeight; tx: the transaction being processed; seq:    *)
(* the sequence it was sent with, 0 after an ignored error (no hash).      *)
(***************************************************************************)
RelIdle == [pc |-> "idle", query |-> AnyQuery, last |-> 0, tx |-> 0, seq |-> 0]
RelType == [pc : {"idle", "range", "process", "store", "done"}, query : Queries,
            last : Nat, tx : 0 .. NumTxs, seq : Nat]

(***************************************************************************)
(* chk.pc: "boot" before GetAllPendingTxs, "next" between submissions      *)
(* (todo: the rest of the startup list), "query" in retryGetTxStatus for   *)
(* cur, "update" before SetTxStatus(code), "done".                         *)
(***************************************************************************)
NoCur   == [key |-> <<AnyQuery, 1>>, seq |-> 0]
ChkBoot == [pc |-> "boot", todo |-> {}, cur |-> NoCur, tries |-> 0, code |-> "Committed"]
ChkType == [pc : {"boot", "next", "query", "update", "done"},
            todo : SUBSET NeutronHash, cur : NeutronHash,
            tries : 0 .. CheckAttempts, code : {"Committed", "ErrorOnCommit"}]
Between(todo) == [ChkBoot EXCEPT !.pc = "next", !.todo = todo]

HttpIdle == [pc |-> "idle", key |-> <<AnyQuery, 1>>, seq |-> 0]
HttpType == [pc : {"idle", "process", "store"}, key : Keys, seq : Nat]

\* bg: the goroutine was started with context.Background() (a resubmission).
DelayedType == [hash : NeutronHash, bg : BOOLEAN]

TypeOK ==
    /\ StorageTypeOK /\ QuerierTypeOK /\ NeutronTypeOK
    /\ rel \in RelType
    /\ rel.pc \in {"process", "store"} => rel.tx # 0
    /\ chk \in ChkType
    /\ delayed \subseteq DelayedType
    /\ http \in [Handlers -> HttpType]
    /\ proc \in {"up", "stopping", "down"}
    /\ faults \in 0 .. MaxFaults
    /\ resubmits \in 0 .. MaxResubmits
    /\ base \in [Queries -> Nat \cup {NotFound}]
    /\ cut \subseteq Queries \X Nat
    /\ abandoned \subseteq NeutronHash

VolatileInit ==
    /\ rel = RelIdle
    /\ chk = ChkBoot
    /\ delayed = {}
    /\ http = [h \in Handlers |-> HttpIdle]

Init ==
    /\ StorageInit /\ QuerierInit /\ NeutronInit /\ VolatileInit
    /\ proc = "up"
    /\ faults = 0 /\ resubmits = 0
    /\ base = [q \in Queries |-> NotFound] /\ cut = {} /\ abandoned = {}

----------------------------------------------------------------------------
(***************************************************************************)
(* The context of the process, and calls that may fail.                    *)
(***************************************************************************)
Running   == proc # "down"
Cancelled == proc = "stopping"    \* ctx.Done() is closed

Fault == faults < MaxFaults /\ faults' = faults + 1

\* A call made with ctx: it fails when ctx is cancelled or by a fault.
CallFails    == IF Cancelled THEN UNCHANGED faults ELSE Fault
CallSucceeds == ~Cancelled /\ UNCHANGED faults

\* Every step but those of the relayer's loop and of its search.
OthersIdle == UNCHANGED <<chk, http, resubmits, neutronVars>>

\* Mutant: the outcome of an accepted submission is never asked for.
RecordWithoutCheck(k, seq, bg) ==
    /\ SetTxStatus(k, [key |-> k, seq |-> seq],
                   IF seq = 0 THEN "ErrorOnSubmit" ELSE "Submitted", TRUE)
    /\ UNCHANGED delayed

\* What a submission leaves behind: processSuccessfulTxSubmission, or
\* processFailedTxSubmission for an ignored error (seq = 0).
RecordSubmission(k, seq, bg) ==
    LET nh == [key |-> k, seq |-> seq] IN
    IF seq = 0
    THEN SetTxStatus(k, nh, "ErrorOnSubmit", TRUE) /\ UNCHANGED delayed
    ELSE /\ SetTxStatus(k, nh, "Submitted", TRUE)
         /\ delayed' = delayed \cup {[hash |-> nh, bg |-> bg]}

----------------------------------------------------------------------------
(***************************************************************************)
(* The relayer's loop.                                                     *)
(***************************************************************************)
\* Mutant: no test of latestHeight against the offset.
InitialHeightUnguarded == IF Offset # 0 THEN chainHeight - Offset ELSE 0

InitialHeight ==
    IF Offset # 0 /\ chainHeight > Offset THEN chainHeight - Offset ELSE 0

\* getLastQueryHeight
HeightOf(q) == IF lastHeight[q] = NotFound THEN InitialHeight ELSE lastHeight[q]

\* A task of q is received; buildTxQuery; SearchTransactions starts unless
\* the filter does not parse.
TakeTask(q) ==
    /\ Running /\ rel.pc = "idle"
    /\ lastHeight[q] = NotFound /\ Offset # 0 => ~Cancelled
    /\ SetLastQueryHeight(q, HeightOf(q))
    /\ base' = [base EXCEPT ![q] = IF lastHeight[q] = NotFound THEN HeightOf(q) ELSE @]
    /\ IF q \in Malformed
       THEN UNCHANGED <<rel, search>>
       ELSE /\ rel' = [RelIdle EXCEPT !.pc = "range", !.query = q]
            /\ SearchTransactions(q, HeightOf(q))
    /\ OthersIdle
    /\ UNCHANGED <<txStatusVars, chainHeight, delayed, proc, faults, cut, abandoned>>

\* A step of the search goroutine.
SearchStep ==
    /\ Running
    /\ \/ TxSearch /\ CallSucceeds
       \/ ProofDelivery /\ CallSucceeds
       \/ SearchFails /\ CallFails
       \/ \E t \in Txs : SendTx(t) /\ UNCHANGED faults
       \/ SendCancelled /\ Cancelled /\ UNCHANGED faults
    /\ OthersIdle
    /\ UNCHANGED <<storageVars, rel, delayed, proc, historyVars>>

\* Mutant: the block is recorded when its first transaction arrives.
RecordHeightOf(t) ==
    IF TxHeight[t] > rel.last /\ rel.last > 0
    THEN SetLastQueryHeight(rel.query, TxHeight[t])
    ELSE UNCHANGED lastHeight

\* Mutant: no test of lastProcessedHeight > 0.
RecordHeightAlways(t) ==
    IF TxHeight[t] > rel.last
    THEN SetLastQueryHeight(rel.query, rel.last)
    ELSE UNCHANGED lastHeight

\* The first transaction of a block records the block before it.
RecordHeightBefore(t) ==
    IF TxHeight[t] > rel.last /\ rel.last > 0
    THEN SetLastQueryHeight(rel.query, rel.last)
    ELSE UNCHANGED lastHeight

\* Mutant: TxExists is not asked.
ReceiveUnchecked(t) ==
    /\ Running /\ rel.pc = "range"
    /\ IsFirst(t, search.chan)
    /\ search' = [search EXCEPT !.chan = @ \ {t}]
    /\ RecordHeightBefore(t)
    /\ rel' = [rel EXCEPT !.last = TxHeight[t], !.pc = "process", !.tx = t]
    /\ OthersIdle
    /\ UNCHANGED <<txStatusVars, chainHeight, delayed, proc, faults, historyVars>>

\* An iteration of the range over txs, up to ProcessAndSubmit.
Receive(t) ==
    /\ Running /\ rel.pc = "range"
    /\ IsFirst(t, search.chan)
    /\ search' = [search EXCEPT !.chan = @ \ {t}]
    /\ RecordHeightBefore(t)
    /\ rel' = IF TxExists(<<rel.query, t>>)
              THEN [rel EXCEPT !.last = TxHeight[t]]
              ELSE [rel EXCEPT !.last = TxHeight[t], !.pc = "process", !.tx = t]
    /\ OthersIdle
    /\ UNCHANGED <<txStatusVars, chainHeight, delayed, proc, faults, historyVars>>

\* processMessageTX returns an error: its deferred cancel() ends the search.
Abort == rel' = RelIdle /\ search' = NoSearch

\* SetLastQueryHeight or TxExists fails in the loop.
ReceiveFails(t) ==
    /\ Running /\ rel.pc = "range"
    /\ IsFirst(t, search.chan)
    /\ Fault
    /\ RecordHeightBefore(t) \/ UNCHANGED lastHeight
    /\ Abort
    /\ OthersIdle
    /\ UNCHANGED <<txStatusVars, chainHeight, delayed, proc, historyVars>>

RelKey == <<rel.query, rel.tx>>

\* prepareHeaders fails: an error that is not critical.
RelHeaderFails ==
    /\ Running /\ rel.pc = "process"
    /\ CallFails
    /\ Abort
    /\ OthersIdle
    /\ UNCHANGED <<storageVars, chainHeight, delayed, proc, historyVars>>

\* SubmitTxProof: accepted by Neutron.
RelSendAccepted ==
    /\ Running /\ rel.pc = "process"
    /\ CallSucceeds
    /\ BroadcastTxSync(RelKey)
    /\ rel' = [rel EXCEPT !.pc = "store", !.seq = sent + 1]
    /\ UNCHANGED <<storageVars, querierVars, chk, delayed, http, proc, resubmits,
                   historyVars>>

\* SubmitTxProof: refused with an error ignoreErrorsRegexp matches.
RelSendIgnored ==
    /\ Running /\ rel.pc = "process"
    /\ CallSucceeds
    /\ rel' = [rel EXCEPT !.pc = "store", !.seq = 0]
    /\ OthersIdle
    /\ UNCHANGED <<storageVars, querierVars, delayed, proc, historyVars>>

\* SubmitTxProof: any other error, sent or not.  Run returns it and
\* start.go cancels the context.
RelSendCritical ==
    /\ Running /\ rel.pc = "process"
    /\ CallFails
    /\ BroadcastTxSync(RelKey) \/ UNCHANGED neutronVars
    /\ rel' = [RelIdle EXCEPT !.pc = "done"]
    /\ search' = NoSearch
    /\ proc' = "stopping"
    /\ UNCHANGED <<storageVars, chainHeight, chk, delayed, http, resubmits, historyVars>>

RelStore ==
    /\ Running /\ rel.pc = "store"
    /\ RecordSubmission(RelKey, rel.seq, FALSE)
    /\ rel' = [rel EXCEPT !.pc = "range", !.tx = 0, !.seq = 0]
    /\ OthersIdle
    /\ UNCHANGED <<lastHeight, querierVars, proc, faults, historyVars>>

\* SetTxStatus fails after the submission.
RelStoreFails ==
    /\ Running /\ rel.pc = "store"
    /\ Fault
    /\ Abort
    /\ OthersIdle
    /\ UNCHANGED <<storageVars, chainHeight, delayed, proc, historyVars>>

\* Mutant: the latest block of the chain is recorded at the end.
FinishAtLatest ==
    /\ Running /\ rel.pc = "range"
    /\ search.pc = "closed" /\ search.chan = {}
    /\ IF rel.last > 0 /\ ~search.err
       THEN SetLastQueryHeight(rel.query, chainHeight)
       ELSE UNCHANGED lastHeight
    /\ Abort
    /\ OthersIdle
    /\ UNCHANGED <<txStatusVars, chainHeight, delayed, proc, faults, historyVars>>

\* The channels are closed and drained: the end of processMessageTX.
Finish ==
    /\ Running /\ rel.pc = "range"
    /\ search.pc = "closed" /\ search.chan = {}
    /\ IF rel.last > 0 /\ ~search.err
       THEN /\ SetLastQueryHeight(rel.query, rel.last)
            /\ cut' = IF search.silent THEN cut \cup {<<rel.query, rel.last>>} ELSE cut
       ELSE UNCHANGED <<lastHeight, cut>>
    /\ Abort
    /\ OthersIdle
    /\ UNCHANGED <<txStatusVars, chainHeight, delayed, proc, faults, base, abandoned>>

\* The last SetLastQueryHeight fails.
FinishFails ==
    /\ Running /\ rel.pc = "range"
    /\ search.pc = "closed" /\ search.chan = {} /\ rel.last > 0
    /\ Fault
    /\ Abort
    /\ OthersIdle
    /\ UNCHANGED <<storageVars, chainHeight, delayed, proc, historyVars>>

\* Run sees ctx.Done().
RelStop ==
    /\ Cancelled /\ rel.pc = "idle"
    /\ rel' = [rel EXCEPT !.pc = "done"]
    /\ OthersIdle
    /\ UNCHANGED <<storageVars, querierVars, delayed, proc, faults, historyVars>>

----------------------------------------------------------------------------
(***************************************************************************)
(* Resubmission.  ProcessAndSubmit runs with context.Background(), so a    *)
(* cancelled process does not stop it, and no error of it, critical or     *)
(* not, stops the process: the request answers with it.                    *)
(***************************************************************************)
HttpUnchanged == UNCHANGED <<lastHeight, querierVars, rel, chk, proc, historyVars>>

\* Mutant: a transaction that has no cached body is resubmitted.
ResubmitUnknown(h, k) ==
    /\ Running /\ http[h].pc = "idle"
    /\ resubmits < MaxResubmits
    /\ http' = [http EXCEPT ![h] = [HttpIdle EXCEPT !.pc = "process", !.key = k]]
    /\ resubmits' = resubmits + 1
    /\ HttpUnchanged
    /\ UNCHANGED <<txStatusVars, neutronVars, delayed, faults>>

\* GetCachedTx finds the body of the transaction.
Resubmit(h, k) ==
    /\ Running /\ http[h].pc = "idle"
    /\ resubmits < MaxResubmits
    /\ GetCachedTx(k)
    /\ http' = [http EXCEPT ![h] = [HttpIdle EXCEPT !.pc = "process", !.key = k]]
    /\ resubmits' = resubmits + 1
    /\ HttpUnchanged
    /\ UNCHANGED <<txStatusVars, neutronVars, delayed, faults>>

HttpSendAccepted(h) ==
    /\ Running /\ http[h].pc = "process"
    /\ BroadcastTxSync(http[h].key)
    /\ http' = [http EXCEPT ![h] = [@ EXCEPT !.pc = "store", !.seq = sent + 1]]
    /\ HttpUnchanged
    /\ UNCHANGED <<txStatusVars, delayed, boundVars>>

HttpSendIgnored(h) ==
    /\ Running /\ http[h].pc = "process"
    /\ http' = [http EXCEPT ![h] = [@ EXCEPT !.pc = "store", !.seq = 0]]
    /\ HttpUnchanged
    /\ UNCHANGED <<txStatusVars, neutronVars, delayed, boundVars>>

\* prepareHeaders or SubmitTxProof fails; it may have been sent all the same.
HttpSendFails(h) ==
    /\ Running /\ http[h].pc = "process"
    /\ Fault
    /\ BroadcastTxSync(http[h].key) \/ UNCHANGED neutronVars
    /\ http' = [http EXCEPT ![h] = HttpIdle]
    /\ HttpUnchanged
    /\ UNCHANGED <<txStatusVars, delayed, resubmits>>

HttpStore(h) ==
    /\ Running /\ http[h].pc = "store"
    /\ RecordSubmission(http[h].key, http[h].seq, TRUE)
    /\ http' = [http EXCEPT ![h] = HttpIdle]
    /\ HttpUnchanged
    /\ UNCHANGED <<neutronVars, boundVars>>

HttpStoreFails(h) ==
    /\ Running /\ http[h].pc = "store"
    /\ Fault
    /\ http' = [http EXCEPT ![h] = HttpIdle]
    /\ HttpUnchanged
    /\ UNCHANGED <<txStatusVars, neutronVars, delayed, resubmits>>

----------------------------------------------------------------------------
(***************************************************************************)
(* The checker of submissions, and the goroutines that feed it.            *)
(***************************************************************************)
ChkUnchanged == UNCHANGED <<lastHeight, querierVars, neutronVars, rel, http, proc,
                            resubmits, base, cut>>

\* Mutant: what an earlier process left pending is not read.
ChkSkipsPending ==
    /\ Running /\ chk.pc = "boot"
    /\ chk' = Between({})
    /\ ChkUnchanged
    /\ UNCHANGED <<txStatusVars, delayed, faults, abandoned>>

\* GetAllPendingTxs on startup.
ChkReadPending ==
    /\ Running /\ chk.pc = "boot"
    /\ chk' = Between(GetAllPendingTxs)
    /\ ChkUnchanged
    /\ UNCHANGED <<txStatusVars, delayed, faults, abandoned>>

\* GetAllPendingTxs fails: Run returns the error and start.go cancels.
ChkReadPendingFails ==
    /\ Running /\ chk.pc = "boot"
    /\ Fault
    /\ chk' = [ChkBoot EXCEPT !.pc = "done"]
    /\ proc' = "stopping"
    /\ UNCHANGED <<storageVars, querierVars, neutronVars, rel, delayed, http,
                   resubmits, historyVars>>

StartCheck(nh) == chk' = [chk EXCEPT !.pc = "query", !.todo = @ \ {nh}, !.cur = nh]

\* The next submission of the startup list.
ChkNext(nh) ==
    /\ Running /\ chk.pc = "next"
    /\ nh \in chk.todo
    /\ StartCheck(nh)
    /\ ChkUnchanged
    /\ UNCHANGED <<txStatusVars, delayed, faults, abandoned>>

\* A timer has fired and its goroutine meets the checker at the unbuffered
\* submittedTxsTasksQueue, which is read only after the startup list.
ChkReceive(d) ==
    /\ Running /\ chk.pc = "next"
    /\ chk.todo = {}
    /\ d \in delayed
    /\ delayed' = delayed \ {d}
    /\ StartCheck(d.hash)
    /\ ChkUnchanged
    /\ UNCHANGED <<txStatusVars, faults, abandoned>>

\* Mutant: TxResult.Code is not looked at.
ChkFoundAnyCode ==
    /\ Running /\ chk.pc = "query"
    /\ InBlock(chk.cur)
    /\ CallSucceeds
    /\ chk' = [chk EXCEPT !.pc = "update", !.tries = 0, !.code = "Committed"]
    /\ ChkUnchanged
    /\ UNCHANGED <<txStatusVars, delayed, abandoned>>

\* An attempt of retryGetTxStatus finds the transaction in a block.
ChkFound ==
    /\ Running /\ chk.pc = "query"
    /\ InBlock(chk.cur)
    /\ CallSucceeds
    /\ chk' = [chk EXCEPT !.pc = "update", !.tries = 0,
                          !.code = IF chk.cur \in executed THEN "Committed"
                                   ELSE "ErrorOnCommit"]
    /\ ChkUnchanged
    /\ UNCHANGED <<txStatusVars, delayed, abandoned>>

GiveUp == /\ chk' = Between(chk.todo)
          /\ abandoned' = abandoned \cup {chk.cur}

\* An attempt fails: there is no such transaction in a block yet, or the
\* call failed.  The last attempt drops the submission.
ChkAttemptFails ==
    /\ Running /\ chk.pc = "query"
    /\ IF InBlock(chk.cur) THEN CallFails ELSE UNCHANGED faults
    /\ IF chk.tries + 1 >= CheckAttempts \/ Cancelled
       THEN GiveUp
       ELSE chk' = [chk EXCEPT !.tries = @ + 1] /\ UNCHANGED abandoned
    /\ ChkUnchanged
    /\ UNCHANGED <<txStatusVars, delayed>>

\* updateTxStatus
ChkUpdate ==
    /\ Running /\ chk.pc = "update"
    /\ SetTxStatus(chk.cur.key, chk.cur, chk.code, FALSE)
    /\ chk' = Between(chk.todo)
    /\ ChkUnchanged
    /\ UNCHANGED <<delayed, faults, abandoned>>

\* updateTxStatus logs the error of SetTxStatus and drops the outcome.
ChkUpdateFails ==
    /\ Running /\ chk.pc = "update"
    /\ Fault
    /\ GiveUp
    /\ ChkUnchanged
    /\ UNCHANGED <<txStatusVars, delayed>>

ChkStop ==
    /\ Cancelled /\ chk.pc = "next" /\ chk.todo = {}
    /\ chk' = [ChkBoot EXCEPT !.pc = "done"]
    /\ ChkUnchanged
    /\ UNCHANGED <<txStatusVars, delayed, faults, abandoned>>

\* The ctx.Done() branch of delayedTxStatusCheck.
DelayedCancelled(d) ==
    /\ Cancelled /\ d \in delayed /\ ~d.bg
    /\ delayed' = delayed \ {d}
    /\ ChkUnchanged
    /\ UNCHANGED <<txStatusVars, chk, faults, abandoned>>

----------------------------------------------------------------------------
(***************************************************************************)
(* The process.                                                            *)
(***************************************************************************)
ProcUnchanged == UNCHANGED <<storageVars, chainHeight, neutronVars, resubmits, base, cut>>

\* SIGINT or SIGTERM, or another goroutine's error: cancel().
Cancel ==
    /\ proc = "up"
    /\ Fault
    /\ proc' = "stopping"
    /\ ProcUnchanged
    /\ UNCHANGED <<rel, search, chk, delayed, http, abandoned>>

\* What a process loses when it ends.
LoseMemory ==
    /\ proc' = "down"
    /\ rel' = RelIdle /\ search' = NoSearch
    /\ chk' = ChkBoot /\ delayed' = {}
    /\ http' = [h \in Handlers |-> HttpIdle]
    /\ abandoned' = {}

\* wg.Wait() returns.  server.Shutdown waits five seconds for handlers.
Exit ==
    /\ Cancelled /\ rel.pc = "done" /\ chk.pc = "done"
    /\ LoseMemory
    /\ ProcUnchanged
    /\ UNCHANGED faults

Crash ==
    /\ Running
    /\ Fault
    /\ LoseMemory
    /\ ProcUnchanged

Start ==
    /\ proc = "down"
    /\ proc' = "up"
    /\ ProcUnchanged
    /\ UNCHANGED <<rel, search, chk, delayed, http, faults, abandoned>>

----------------------------------------------------------------------------
(***************************************************************************)
(* The chains.                                                             *)
(***************************************************************************)
ChainsOnly == UNCHANGED <<storageVars, search, rel, chk, delayed, http, proc,
                          resubmits, historyVars>>

TargetBlock == NewBlock /\ ChainsOnly /\ UNCHANGED <<neutronVars, faults>>

NeutronExecutes(nh, ok) ==
    ExecuteTx(nh, ok) /\ ChainsOnly /\ UNCHANGED <<chainHeight, faults>>

NeutronDrops(nh) ==
    DropTx(nh) /\ Fault /\ ChainsOnly /\ UNCHANGED chainHeight

----------------------------------------------------------------------------
RelStep ==
    \/ \E t \in Txs : Receive(t) \/ ReceiveFails(t)
    \/ RelHeaderFails \/ RelSendAccepted \/ RelSendIgnored \/ RelSendCritical
    \/ RelStore \/ RelStoreFails \/ Finish \/ FinishFails \/ RelStop

HttpStep(h) ==
    \/ HttpSendAccepted(h) \/ HttpSendIgnored(h) \/ HttpSendFails(h)
    \/ HttpStore(h) \/ HttpStoreFails(h)

ChkStep ==
    \/ ChkReadPending \/ ChkReadPendingFails
    \/ \E nh \in chk.todo : ChkNext(nh)
    \/ \E d \in delayed : ChkReceive(d)
    \/ ChkFound \/ ChkAttemptFails \/ ChkUpdate \/ ChkUpdateFails \/ ChkStop

ChainStep ==
    \/ TargetBlock
    \/ \E nh \in mempool : NeutronDrops(nh) \/ \E ok \in BOOLEAN : NeutronExecutes(nh, ok)

Next ==
    \/ \E q \in Queries : TakeTask(q)
    \/ SearchStep
    \/ RelStep
    \/ \E h \in Handlers : HttpStep(h) \/ \E k \in Keys : Resubmit(h, k)
    \/ ChkStep
    \/ \E d \in delayed : DelayedCancelled(d)
    \/ Cancel \/ Exit \/ Crash \/ Start
    \/ ChainStep

Spec == Init /\ [][Next]_vars

(***************************************************************************)
(* Fairness: a goroutine that can go on does; the select of the loop takes *)
(* every query's tasks in turn (the subscriber offers one each update      *)
(* period); Neutron eventually executes or drops what it accepted.  Only   *)
(* MaxFaults calls fail, and a Cancel, a Crash or a restart is never owed. *)
(***************************************************************************)
FairSpec ==
    /\ Spec
    /\ \A q \in Queries : SF_vars(TakeTask(q))
    /\ WF_vars(SearchStep) /\ WF_vars(RelStep) /\ WF_vars(ChkStep)
    /\ \A h \in Handlers : WF_vars(HttpStep(h))
    /\ WF_vars(TargetBlock)
    /\ WF_vars(\E nh \in mempool, ok \in BOOLEAN : NeutronExecutes(nh, ok))

----------------------------------------------------------------------------
(***************************************************************************)
(* Safety.                                                                 *)
(***************************************************************************)
\* The stored height of a query never runs past a transaction its filter
\* selects without a record of that transaction: a later search starts
\* after that height, so the transaction would never be delivered.  (A block
\* in "cut" is the exception: see BlockCompletelyProcessed.)
NoTxSkipped ==
    \A q \in Queries : \A t \in Match[q] :
        /\ base[q] < TxHeight[t]
        /\ TxHeight[t] <= lastHeight[q]
        => TxExists(<<q, t>>) \/ <<q, TxHeight[t]>> \in cut

\* The transactions of a query are delivered in chain order: none has a
\* record before all earlier ones that its searches select have one.
RecordedInOrder ==
    \A q \in Queries : \A s, t \in Match[q] :
        base[q] < TxHeight[s] /\ s < t /\ TxExists(<<q, t>>)
        => TxExists(<<q, s>>) \/ <<q, TxHeight[s]>> \in cut

\* "the final block completely processed" (relayer.go:170), as the loop
\* means it: every height it stores is that of a completely processed block.
BlockCompletelyProcessed ==
    \A q \in Queries : \A t \in Match[q] :
        base[q] < TxHeight[t] /\ TxHeight[t] <= lastHeight[q] => TxExists(<<q, t>>)

\* A transaction is sent to Neutron once, unless a call failed, the process
\* was killed, or the operator asked for it again.
SendsAccounted ==
    sent <= Cardinality({k \in Keys : TxExists(k) \/ (rel.pc = "store" /\ k = RelKey)})
            + faults + resubmits

\* The answer of TxExists still holds when the submission it allowed is
\* stored, though resubmissions and the checker write the same records.
ClaimIsFresh == rel.pc \in {"process", "store"} => ~TxExists(RelKey)

\* A submission whose outcome is unknown is on its way to the checker of the
\* running process, or that process has tried and given up.
Watched == chk.todo \cup {d.hash : d \in delayed}
           \cup (IF chk.pc \in {"query", "update"} THEN {chk.cur} ELSE {}) \cup abandoned
PendingTracked ==
    proc = "up" /\ chk.pc # "boot" => pending \subseteq Watched

\* A final status is what Neutron answered to some submission of it.
StatusTruthful ==
    \A k \in Keys :
        /\ status[k] = "Committed" => \E nh \in executed : nh.key = k
        /\ status[k] = "ErrorOnCommit" => \E nh \in reverted : nh.key = k

\* "Resubmit previously unsuccessfully processed transactions"
\* (cmd/exec.go:26): the body of a transaction is kept, so that it can be
\* sent again, until Neutron has executed one of its submissions, whatever
\* the order in which the outcomes of several are learned.
UndeliveredIsKept ==
    \A k \in Keys : TxExists(k) => GetCachedTx(k) \/ \E nh \in executed : nh.key = k

(***************************************************************************)
(* Action properties.                                                      *)
(***************************************************************************)
\* No task takes the stored height of a query back, so nothing that was
\* completely processed is searched again.
HeightsGrow == [][\A q \in Queries : lastHeight'[q] >= lastHeight[q]]_vars

(***************************************************************************)
(* Refinement.                                                             *)
(***************************************************************************)
Recorded == {k \in Keys : TxExists(k)}

Promise == INSTANCE Delivery WITH
    height <- lastHeight, recorded <- Recorded, stopping <- Cancelled

\* The loop, its search, the checker, the handlers and the process together
\* implement the delivery that a query is promised: records in chain order,
\* each once, and a height that moves over recorded transactions only
\* (processMessageTX, relayer.go:127-171).
KeepsPromise == Promise!Spec

(***************************************************************************)
(* Liveness.                                                               *)
(***************************************************************************)
UpForGood == <>[](proc = "up")

\* A matching transaction is eventually recorded as submitted or refused.
EventuallyRecorded ==
    UpForGood =>
        \A q \in Queries \ Malformed : \A t \in Match[q] :
            base[q] # NotFound /\ base[q] < TxHeight[t] /\ TxHeight[t] <= chainHeight
            ~> TxExists(<<q, t>>) \/ <<q, TxHeight[t]>> \in cut

\* The checker ends its work on every submission of the running process.
PendingChecked ==
    UpForGood => \A k \in Keys : \A s \in 1 .. NumTxs + MaxFaults + MaxResubmits :
        LET nh == [key |-> k, seq |-> s] IN nh \in pending ~> nh \notin pending \/ nh \in abandoned
=============================================================================
