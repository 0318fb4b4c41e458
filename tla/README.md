# The Neutron query relayer in TLA+

A verification of the program in `src/`: TLA+ models of its concurrent parts,
TLC runs that check them on small instances, and TLAPS proofs for every value of
the constants. File names without a directory are below `src/internal/`.

## 1. The system

The relayer serves *interchain queries* that contracts register on Neutron. A
query of type TX asks for the transactions of a target chain that a filter
selects, one of type KV for values of the target chain's storage. The relayer
finds what is due, fetches it with proofs, and submits it to Neutron in
transactions of its own.

```
 Neutron events, REST             target chain RPC        target chain RPC
        |                               |                        |
   Subscriber --tasks queue--> Relayer.Run --TX--> TXQuerierSrv (goroutine)
                                  |    |              | txs, errs channels
                                 KV    +<-------------+
                                  |    |
                          KVProcessor  TXProcessor --> TrustedHeaderFetcher
                                  |    |                     (light client)
                                  TxSender (one lock) --> Neutron node
                                       |
                  LevelDBStorage <-----+---- delayedTxStatusCheck (goroutines)
                      ^     ^                       | submittedTxsTasksQueue
                 webserver  +------------ TxSubmitChecker.Run
```

| component | state | operations | module |
|---|---|---|---|
| Storage (`storage/leveldb.go`) | last height per query; status per (query, transaction); indexes of pending, unsuccessful and cached transactions | `SetLastQueryHeight`, `SetTxStatus`, `TxExists`, `GetCachedTx`, `GetAllPendingTxs` | `Storage` |
| Transaction search (`txquerier/txquerier.go`) | page, cursor, two channels | `SearchTransactions`, its goroutine | `TxQuerier` |
| Relayer loop (`relay/relayer.go`) | task, `lastProcessedHeight` | `Run`, `processMessageTX`, `processMessageKV` | `TxPipeline`, `KVProcessor` |
| TX processor (`txprocessor/`) | delayed goroutines | `ProcessAndSubmit`, `delayedTxStatusCheck` | `TxPipeline` |
| Submission checker (`txsubmitchecker/`) | startup list, attempts | `Run`, `retryGetTxStatus`, `updateTxStatus` | `TxPipeline` |
| Resubmission server and its client (`http/`, `cmd/.../exec.go`) | one handler per request, its place in the list | `POST /resubmit-txs`, `ResubmitTxs`, `Run` and its shutdown | `ResubmitApi`, `TxPipeline`, `Process` |
| Process (`cmd/neutron_query_relayer/cmd/start.go`, `app/`) | stage of the start, context, wait group, the open storage | start with its retries, signal, cancel, exit, crash, restart | `Process`, `TxPipeline` |
| Subscriber (`subscriber/`) | `activeQueries`, three subscriptions | listing, block, update and remove handlers | `Subscriber` |
| REST client (`subscriber/querier/`, generated) | none | requests, readers of answers | `RestClient` |
| Watch registry (`registry/`) | two fixed sets | `IsAddressInRegistry`, `IsQueryIDInRegistry` | constants of `Subscriber` |
| Transaction sender (`submit/`) | account sequence, lock | `Send` with its price and its refreshes | `TxSender` |
| KV processor (`kvprocessor/`, `tmquerier/`) | last height per query | `ProcessAndSubmit`, `isQueryOnTime`, `getStorageValues`, `QueryTendermintProof` | `KVProcessor` |
| Trusted headers (`trusted_headers/`) | pages of the client's states | `Fetch`, `getTrustedHeight`, `trustedHeaderAtHeight` | `TrustedHeaders` |

What is hard in it, and what makes each part correct:

* **Delivery.** One loop consumes a channel filled by a goroutine; the height of
  a block is stored only when the first transaction of the next block arrives.
  Every call may fail, a signal may cut a search, a crash may come between any
  two steps. Correct: nothing is skipped, nothing is out of order, nothing is
  sent twice without a reason, heights do not go back.
* **Records.** The loop, the checker and HTTP handlers write the same four index
  families in any order. Correct: the indexes agree with the statuses, a final
  status was given by Neutron, what is pending is being watched.
* **Schedule.** The subscriber mirrors a registry that changes, from a listing
  and from events that arrive in no fixed order and are dropped when unread,
  and it puts tasks in a bounded queue. Correct: the mirror is right once it is
  quiet, a due query is taken, a shutdown ends.
* **Sequence.** The sender counts its account sequence itself, next to a mempool
  that may be lost. Correct: its own sends do not collide, and it recovers.
* **KV results.** Values come key by key from a chain that grows, and an error of
  the node is no error of the call. Correct: what has a proof in a result is of
  one height, and the update period is kept through crashes.
* **Trust.** A header needs a consensus state that the client still trusts when
  the header is used; the listing is paged and changes meanwhile.
* **Start and end.** Eleven stages may fail before four goroutines run; one that
  ends has to take the others with it, and the storage has to outlive them.
  Correct: a start ends, nobody is left alone, the storage is closed last.
* **Answers.** A list of resubmissions stops in the middle while others work on
  the same transactions, and the client may have left. Correct: the answer tells
  what was sent.

`PROJECT.json` lists the hazards line by line with the properties about them.

## 2. Modules

`Storage` and `NeutronChain` declare the persistent state and the external
Neutron node. `TxQuerier` extends `Storage` with the target chain and the search
goroutine, and `TxPipeline` extends both and adds the loop, the checker, the
delayed goroutines, the handlers and the process. `ResubmitApi` extends
`TxPipeline` with the lists and answers of the requests. `Subscriber` extends
`RestClient`, and `Process` extends `Subscriber` with the other goroutines, the
start and the end. `TxSender`, `KVProcessor` and `TrustedHeaders` stand alone.
`Delivery` is the abstract specification that `TxPipeline` implements (section
2.8), and `TxPipeline` is in turn the abstraction of `ResubmitApi`. Each module
models the other end of its interface by the outcomes it can see:

| interface | on one side | on the other |
|---|---|---|
| tasks queue | `Subscriber.Enqueue`, `TakeTask` (bounded FIFO) | `TxPipeline.TakeTask`: a task of any query may come |
| `Send` | `TxSender`, with sequence and lock | `TxPipeline`: accepted, refused, or failed whether sent or not |
| `Fetch` | `TrustedHeaders` | `TxPipeline.RelHeaderFails`, `KVProcessor.SubmitKVWithProof` |
| REST endpoints | `RestClient`: requests, readers | `Subscriber.Served`, `Lookup` and `Process.ConnectionAnswer`: what Neutron answers |
| the storage's `Close` | `Process`: who runs when it is closed | `TxPipeline.Exit`, `Crash`: what is left of the records |

**A step** is the code between two points at which another goroutine, a chain or
a crash can come in: a call of a chain, a channel operation, a storage method.
A storage method is one step: it holds the mutex and writes in one LevelDB
transaction (`leveldb.go:136`).

### 2.1 Storage, NeutronChain, TxQuerier, TxPipeline

*Data.* A remote transaction is its position on the target chain, a filter is
the set of transactions it selects (`Match`), a block is a number (`TxHeight`).
A Neutron transaction is its key and the sequence it was signed with. Proofs and
bodies are not modelled; whether a body is cached is.

| state | code |
|---|---|
| `lastHeight`, `status`, `pending`, `unsuccessful`, `cached` | the key families of `leveldb.go` |
| `search.page`, `.cursor`, `.more`, `.top` | the page loop of `txquerier.go`: the page, what was sent, `page*perPage < TotalCount`, the chain as `TxSearch` saw it |
| `search.chan`, `.err`, `.silent` | the channels `txs` and `errs`; a return through `ctx.Done()` |
| `rel` | `processMessageTX`: `last` is `lastProcessedHeight` |
| `delayed`, `chk` | `delayedTxStatusCheck` goroutines and `TxSubmitChecker.Run` |
| `http`, `proc` | handlers of `/resubmit-txs`; the context and the process |
| `base`, `cut`, `abandoned` | history: the height a query began at, blocks recorded after a cut search, submissions the checker gave up |

*Actions.* `TakeTask`, `Receive`, `RelSend*`, `RelStore`, `Finish` and their
failures are the loop; `TxSearch`, `ProofDelivery`, `SendTx`, `SearchFails`,
`SendCancelled` the search; `Resubmit`, `HttpSend*`, `HttpStore` a handler;
`Chk*` the checker; `Cancel`, `Exit`, `Crash`, `Start` the process.
`Receive` stores the height and asks `TxExists` in one step: the second is a
read, so a crash between them leaves what a crash after them leaves.
A resubmission runs with `context.Background()`, so `Cancel` does not stop it.

### 2.2 ResubmitApi

`request[h]` is the list of a request and the place of the handler's loop in it;
while a transaction is in ProcessAndSubmit, `http[h]` of `TxPipeline` is at work,
and between two it is idle. The handler answers 400 for a transaction without a
cached body, 500 for another error, and stops there; after the last it answers
200. The client gives up after five seconds: an answer may be unheard, and the
same list may come again while the first handler goes on. Requests are accepted
as long as the process runs, after the cancellation too, since the server listens
until its `Shutdown`; `Process` tells the two moments apart.

### 2.3 Subscriber and RestClient

`chain` is Neutron's registry. A subscription keeps one unread value and drops
later ones until it is read; one value merges the attributes of all query events
of a transaction. `sub.pc` follows `Subscribe` from the listing through the
three subscriptions to the select and the handlers. `missed` is history: IDs with
a change that no answer and no event showed to the subscriber (it happened
between the listing and the subscription, the value was dropped, the fetch
failed, or a short answer hid them). The code promises nothing about these before
their next event.

`RestClient` is what the three endpoints send (an empty parameter is left out)
and make of an answer: its code, and a body that is an object, nothing, or
garbled. A value that may be absent is a set of at most one element, so an error
is the empty set. Answers of Neutron, and disturbed ones, pass through it in
`Subscriber` and `Process`; periods are numbers of `Word` values, and the sum
that makes a query due wraps around.

### 2.4 Process

`main` goes through the stages of the dependency container, retries the
connection until its handshake is answered, starts the goroutines, and waits. The
subscriber and the queue are those of module `Subscriber`, step by step; of the
relayer, the web server and the checker it keeps what decides about the end of
the process. `requests` counts handlers: `Shutdown` waits for them for five
seconds and no longer, and an error of the server leaves them running.
`Exit` is what a panic, `logger.Fatal`, SIGKILL and the return of main have in
common: memory and subscriptions are gone, and anybody may start it again.

### 2.5 TxSender

`Expected` is the sequence the node would accept: the committed one plus the
mempool. `Send` goes through `lock`, `price`, `simulate` and `broadcast`, and
through `refresh` when the node refuses the sequence. Answers are lost, the
mempool is dropped, another signer uses the key, the process restarts. `inStep`
is history: no such event since the local sequence and the node's agreed.
The price is the market's times the multiplier, at most the cap, written with
the digits of a number below `Significand` (10^4 in the code), a half to the even
digit; `Unit` is the place of the last digit written, the smallest of `Places`
that leaves no more digits. Prices are whole numbers of a small unit.

### 2.6 KVProcessor

One task at a time goes through the latest height, `isQueryOnTime` (which stores
the height before anything else is done), one proof per key, and the submission.
A query without keys, heights 1 and 2 (which `QueryTendermintProof` refuses) and
a lost answer of the submission are included.

`QueryTendermintProof` looks at the error of the call and not at the code of the
answer. An answer with an error code, as for a state the node has pruned, becomes
a value of `NoHeight`, without a proof, and is said to be proved by block 1; the
loop over the keys goes on, and its last key decides about the height of all. If
that was block 1, there is no header for it (`HeaderExists`) and the task fails.
Otherwise the submission goes out, and Neutron takes it when each value has a
proof for the header (`Verified`).

### 2.7 TrustedHeaders

The client's consensus states, updated and pruned by others while `Fetch` pages
through them in the order of their keys' *text*, newest page first (so height 9
lies above 11). Two heights compare as text by their digits from the left: filled
up with zeros to one width (`Leading`) they compare as numbers, and of two that
are then equal the longer one is above. `Tens` gives the powers of ten for this,
up to one that is above all heights. Time and the target's height are one clock. A
header may be wanted of the block after the last one, as `prepareHeaders` asks for
the next one of each transaction's; `trustedHeaderAtHeight` then fails.

### 2.8 Delivery

What a query is promised, without goroutines, channels, retries or restarts:
`Begin` gives it a height; `Record` gives the first transaction above the height
that has no record its record; `Move` takes the height to the block of a recorded
transaction when all up to there are recorded, or, while the process is stopping,
all but a rest of that block. `TxPipeline.Promise` maps the height to
`lastHeight`, the records to the keys with a status, and stopping to a cancelled
context. `RelStore` is then `Record`; `Receive` and `Finish` are `Move` or
nothing; `TakeTask` is `Begin` the first time; every other step, a crash
included, is nothing, or changes only whether the process is stopping.

## 3. The runs

Bounds are named in each module: `MaxFaults` counts failed calls, crashes,
signals and losses, `MaxHeight` blocks, `MaxResubmits` resubmitted transactions,
`MaxRequests` handlers at a time, `MaxPending` the mempool.

| run | instance | what it shows |
|---|---|---|
| `relay` | 1 query, 3 transactions in blocks 1, 1, 2, pages of 2, a channel of 1, offset 1, 1 fault | nothing is skipped, reordered or sent twice, heights grow, the loop's claim is fresh, the checker knows what is pending, and the whole implements `Delivery` |
| `resubmit` | 2 transactions, one of them unknown to the query, 2 handlers with lists of one and two, 2 resubmissions, 1 attempt, 1 fault, handlers symmetric | the indexes agree with the statuses, final statuses are true, bodies are kept while they are needed, answers tell what was sent |
| `live` | 2 transactions, 1 fault, fair | every matching transaction is recorded; every pending one is resolved or given up |
| `mirror` | 3 queries, one of another owner, one of another type, pages of 2, transactions that change one query or two alike, 1 fault | the mirror of the registry is right once the subscriber is quiet |
| `schedule` | 2 queries with no result yet, queue of 1, fair | such a query, which is due, is taken by the relayer |
| `service` | 1 query, 1 handler at a time, 2 attempts for the connection, 2 faults, restarts, fair | starts end, one goroutine's end is the end of all, the storage outlives its users, and the mirror is right after a restart too |
| `recovery` | 2 goroutines with 2 sends each, 3 market prices, cap 17 with 1 digit written (`Significand` 10), 4 faults, fair | own sends never collide, no price passes the rounded cap, and all are accepted in the end |
| `period` | queries of 2, 1 and 0 keys, period 2, 7 blocks, 2 faults: failed calls, answers with an error code, crashes | what has a proof in a submission is of one height, the period is kept |
| `choice` | blocks 8 to 13, headers of 9, 12 and 14 (which is not there yet), pages of 2, a state of an older revision, 1 fault | a suitable state is found, and is trusted still at the submission |
| `cutblock`, `merged`, `shutdown` | the smallest with the case | the findings of section 5 |

*Why these bounds reach the cases.* Blocks of two transactions next to a page of
two and a channel of one let a block end inside a page, at the end of a page and
in the channel; three transactions need two pages, and the chain may grow
between them. One fault is enough for each failure with the restart after it;
two faults in a row, several queries and longer chains are covered by the
proofs of section 6, which have no bounds. Four disturbances of the sender allow
a second one in the middle of a recovery. Heights 8 to 13 have one and two
digits, so the order of the text and that of the numbers differ. A list of a
known and an unknown transaction makes a request fail after its first transaction.
Two resubmissions let both handlers send the known transaction at one time, or one
handler go through a list of two before or after the other's; a list of two next to
the list of another handler is beyond this run (a third resubmission exceeds a
reasonable time) and is covered by the theorem `AnswersCorrect`, for any handlers
and lists. One answer with an error code next to a good one, in both orders, is
within the faults of `period`. In `mirror` a word of 8 values and a period of 7 make the sum wrap around. A cap of
two digits and one digit written makes the rounding visible, upwards with 17. In
`service` two faults let a component fail while another is failing, or a start
fail after one that ended.

*Deadlock* is checked in every run: a blocked goroutine alone does not stop the
model, since the process can crash and start, or the chains move on. That
goroutines go on is what the liveness properties say, and, for the two places
where they wait for each other, the theorems `TaskNeverHangs` and `StopCorrect`.

*Symmetry* is used in `resubmit` only, for the handlers, which all have the same
lists, with no temporal property.

*Mutants.* Every property has a changed form of one definition, marked
"Mutant:" in its module, under which it fails: a dropped guard, the wrong height,
a missing lock. They are not part of any specification.

### Fairness

`TxPipeline.FairSpec`: the goroutines of the process go on when they can (Go's
scheduler); tasks of each query are taken again and again (strong: the loop is
busy in between), as the subscriber offers one each period; Neutron puts an
accepted transaction into a block or drops it; the target chain makes blocks.
Not assumed: that a call succeeds, except that only `MaxFaults` fail, that a
timer of `delayedTxStatusCheck` comes after the block it waits for, or that a
signal, crash or restart ever comes. `EventuallyRecorded` and `PendingChecked`
are about processes that stay up.

`Subscriber.FairSpec`: strong fairness for the branches of the select, which Go
chooses among at random, weak fairness for the handlers once entered.

`Process.ProcessFairSpec`: stages of the start are left, goroutines go on, the
branches of `ctx.Done()` are strongly fair where a select chooses at random, and
the five seconds of `Shutdown` pass. Nobody has to start the process again, end a
request, answer the handshake or send a signal.

`TxSender.Fairness`: a caller whose send failed calls again, as the next task
does; a send does not stop half way; blocks empty the mempool.

## 4. What the properties say

* `NoTxSkipped`: a stored height passes no selected transaction without a record.
  `RecordedInOrder`: none has a record before an earlier one. `HeightsGrow`.
  The exception in both, a block in `cut`, is the finding `cutblock`.
* `KeepsPromise`: every behaviour of the pipeline is one of `Delivery`. Unlike the
  invariants it has no exception for an old cut: from each stored height on, the
  records come one by one and the height moves over them only, and a block is
  cut in no step but one of a stopping process.
* `SendsAccounted`: broadcasts are at most the recorded transactions plus the
  faults plus the requested resubmissions.
* `ClaimIsFresh`: between the loop's `TxExists` and its record nobody else
  records that transaction, though two other goroutines write records.
* `StorageConsistent`: four statements that relate statuses and indexes.
  `StatusTruthful`: a final status was given by Neutron to some submission.
* `PendingTracked`: what is pending is in the startup list, with a delayed
  goroutine, in the checker's hand, or given up by this process.
* `UndeliveredIsKept`: whatever the order in which the outcomes of several
  submissions are learned, the body of a transaction is kept until Neutron has
  executed one of them.
* `AnswerTruthful`: 200 means that this request sent and recorded its whole list,
  another answer that it did so with exactly the beginning.
* `ActiveIsRegistered`: when no event is unread, the map has the registered,
  watched queries and no other watched ones. `PeriodIsCurrent`: with the periods
  of the registry. `RegistryRespected`: what the registry of the operator does not
  allow is neither in the map nor in the queue, even when a merged value or an
  answer tells of it. `RegisteredIsTaken`: a due query with no result yet is taken.
* `StorageOutlivesUsers`: the storage is closed only after the goroutines that use
  it have returned; only a handler that outlived the five seconds, or a failed
  server's, can find it closed. `PathKnown`: the relayer never runs without the
  client and the connection its headers are for. `OneForAll` and `StartEnds` are
  the liveness of the end and of the start, with the hangs that the code has
  (`Stuck`, a REST call without a timeout) as their named exceptions.
* `InStep`, `SequenceWasExpected`, `EventuallyAccepted` for the sequence of the
  sender, `PriceCapped` for its price; `NothingMissed`, `TrustedUntilSubmitted`
  for headers.
* `OneHeight`: of what goes to `SubmitKVProof`, each value with a proof is of the
  height the result is said to be of, which is the one the task asked for, and the
  header is of the next block. It does not say that each value has a proof: that
  is Neutron's to check, and the code relies on it (section 5). `ResultCovered`: the
  storage knows of every result Neutron may have. `PeriodRespected`.

## 5. Where the code and its words differ

* `cutblock`. The search goroutine returns through `ctx.Done()` without an
  error (`txquerier/txquerier.go:69`), so after a signal the loop stores the
  height of a block of which it did not receive everything
  (`relay/relayer.go:166`); the rest of that block is never searched again.
* `merged`. A Neutron transaction that updates one query and removes another
  makes the remove handler delete both (`subscriber/subscriber.go:271`).
* `shutdown`. `tasks <- *activeQuery` does not watch the context
  (`subscriber/subscriber.go:185`): with a full queue the subscriber, and with it
  `wg.Wait()`, waits for ever.

Seen while modelling, with no run of their own:

* When two submissions of one transaction have opposite outcomes, the later one
  to be looked up wins; ErrorOnCommit after Committed leaves a transaction that is
  listed as unsuccessful and has no cached body, so it cannot be resubmitted
  (`storage/leveldb.go:201`, `txsubmitchecker/txsubmitchecker.go:124`).
* An ABCI answer with an error code is taken for a value
  (`tmquerier/querier.go:63-69`). The comment at line 27 says that the function
  returns "the value of the query, the proto encoded merkle proof, and the height of
  the Tendermint block containing the state root"; here it returns no proof and the
  height 1. `getStorageValues` (`kvprocessor/kvprocessor.go:83`) goes on and keeps
  the height of the last key: a submission may hold a value without a proof, which
  Neutron refuses, or has no header and is not made. Either way the period is spent.
* `checkEvents` compares the number of connection IDs with those of four other
  attributes but not with the owners (`subscriber/utils.go:129`), which
  `processUpdateEvent` indexes (`subscriber/subscriber.go:211`). Neutron emits them
  together, so the model does not tell the case apart.
* The update handler does not compare the connection of a query, which the listing
  does (`subscriber/subscriber.go:244`).
* `Fetch` takes the first suitable state in the order of the listing, while its
  comment says the closest (`trusted_headers/fetcher.go:64` and `:150`).
* The gas price is capped before it is rounded to four digits
  (`submit/tx_sender.go:271`), so it may exceed the maximum that line 277 speaks
  of by the rounding; `PriceCapped` states what holds. The configured price, used
  when the market's cannot be fetched, has no cap. Prices below 0.0001 or from
  10000 are written with an exponent.
* After four attempts the checker forgets a submission until the next start
  (`txsubmitchecker/txsubmitchecker.go:116`), so the status Submitted, "temporary"
  in `relay/storage.go:43`, may stay; `PendingChecked` names it.
* The client prints "resubmitted successfully" (`cmd/neutron_query_relayer/cmd/exec.go:55`)
  also when Neutron refused the transaction with an error that is to be ignored:
  it is recorded as ErrorOnSubmit and the answer is 200
  (`txprocessor/txprocessor.go:118`).
* A transaction that is Submitted has a cached body still, so asking again for a
  list that failed in the middle sends its beginning twice.
* A value that merges events of several queries brings queries of other
  connections into `activeQueries`; nothing keeps their periods up to date.
* An answer of code 200 with an empty body ends a listing early, and makes a
  lookup dereference nil (`subscriber/utils.go:67`), as it does for the connection
  (`app/app.go:188`).
* The request for the connection at the start has no timeout (`raw/rest_client.go`)
  and comes before the signal handler: `StartEnds` names the hang.
* The sum of the last height and the period wraps around at 2^64
  (`subscriber/subscriber.go:180`).

## 6. What is proved

The proofs hold for all values of the constants under the `ASSUME`s of the
modules: there is a query and a transaction, transactions are numbered in chain
order, pages, channel and attempts are positive, bounds are natural numbers, IDs
of queries are positive numbers, older consensus states are finitely many and of
older revisions, one for each height. `TensAssumption` says of `Tens` that it holds
1, that each other member is ten times a member, and that one member, the greatest,
is above all heights: for any heights some powers of ten, from 1 on, satisfy it, so
it does not limit them. Prices are whole numbers; of two `Places` the smaller divides the larger, and some place is high
enough to write the maximum price.

**TxPipelineProofs.** `TypeCorrect` needs no strengthening. `StatusInv` adds to
`StorageConsistent`, `ClaimIsFresh`, `PendingTracked` and `StatusTruthful` that
whatever a handler, a delayed goroutine, the startup list or the checker holds
already has a record (`RecordsKnown`) and that an outcome about to be written was
Neutron's (`OutcomeKnown`). It is needed because `ClaimIsFresh` depends on the
others never creating a record, and that depends on the storage:
`Resubmit` starts from a cached body, which has a record by `IndexesHaveRecords`.
From it: `StorageCorrect`, `ClaimCorrect`, `PendingCorrect`, `StatusesCorrect`, and
`KeptCorrect`, since a body goes only with the status Committed, which is true.

`LifeCorrect` is about a record's life without resubmissions: from nothing to
Submitted or ErrorOnSubmit, from Submitted to Committed or ErrorOnCommit, and no
further. A resubmission does change final statuses, so that is the condition. It
rests on `LifeInv`: Neutron gives a broadcast one outcome and keeps it (`OneFate`),
all who track a transaction track the same submission (`OneTracked`), and its status
is Submitted or tells the outcome of that submission (`TrackedTold`). So the
checker's second look, from the startup list and from a timer, finds the same again.

`SendsCorrect` needs an account of what is still to come: a handler in
ProcessAndSubmit is owed one broadcast (`Owed`), a transaction that the loop has
sent counts as known although it has no record (`Known`), and a stopping process
has used a fault and may send once more without another (`Spare`). A broadcast
then moves one unit from one side to the other. `ClaimIsFresh` makes the claim of
the loop a new member of `Known`; the sets are finite by induction, so that the
theorem needs no finite set of queries or handlers.

**TxSearchProofs.** `SearchInv` describes a search while the loop ranges over it.
The selected transactions above `search.from` are split by the cursor. Those sent
are recorded, in the channel, or in the loop's hand (`NoneLost`), in this order
(`SentInOrder`). Those to come are on the page, on a later page, or in a block
that `TxSearch` did not see, and after an orderly end only the last is possible
(`PageIsNext`). `lastProcessedHeight` is the block of a received transaction that
is before all of the channel, and above the stored height (`LastIsBehind`).
`Advance` then says when a greater height may be stored; `RecordHeight` and
`FinishStep` meet its condition, the second by `PageIsNext`, or by `cut` after a silent end. `PageIsFirst` is the fact
about pages: what is not on a page comes after it. From it: `NoTxSkippedCorrect`,
`OrderCorrect`, `HeightsCorrect`. `SearchInv` builds on `StatusInv`: only the loop
creates records.

Its second part proves the refinement, `PromiseKept`: `Spec => KeepsPromise`, from
`SearchInv` and `SilentWhenStopped` (only a stopping process ends a search without
an error). `HeightMoves` says when a new height is a `Move`; `BlockDelivered` and
`RestIsOfBlock` give its condition for the block before the received transaction
and for the last block; `EarlierDelivered` makes `RelStore` a `Record`.

Its third part is about the two goroutines of a task, which wait for each other
over a bounded channel. `SearchWorks`: while the loop ranges over the channel, the
search is there or has closed it, it waits to send only when it has something to
send, and the channel is never overfull. So one of the two can always go on
(`TaskNeverHangs`).

**TxSenderProofs.** `SenderInv`: who is inside `Send` holds the lock, so the
sequence it signed with is still the sender's; a refused one means that something
came between (`RefreshIsNeeded`); `top` bounds what the node expects. From it:
`SenderTypeCorrect`, `InStepCorrect`, `SequenceCorrect`. `LockCorrect` says more of
the lock than that it excludes: it is given back on every way out of `Send`.

`PriceCappedCorrect`: a price is rounded by at most half of its unit
(`FormatFloatNear`), and the unit of a price below the cap is at most that of the
cap (`UnitOfSmaller`). `ExactCapIsKept` is what an operator can rely on: a maximum of
at most four significant digits is never passed. Such a maximum is a multiple of
its own unit and so of every smaller one (`ExactCap`), and what is at most a multiple
of its unit is not rounded beyond it (`RoundsBelow`).

**KVProcessorProofs.** `KVInv`: the values collected are of the height below the
task's or have none, and the last of them tells what is said to prove them all
(`ValuesOfOneHeight`); a result that Neutron took has values of its height only and
the header of the next block (`TakenIsVerified`); with a period the stored height is
the task's from `isQueryOnTime` on (`PeriodSpent`), and no result is above the stored
height. From it: `OneHeightCorrect`, for any number of keys and whatever the node
answers to each, `ResultCoveredCorrect`, `PeriodCorrect`.

`KVTypeCorrect` is its first conjunct.

**ResubmitApiProofs.** `ListInv` ties the place in a list to the handler: what was
stored is the beginning of the list up to there. From it `AnswersCorrect` and
`ApiTypeCorrect`. `ApiImplementsPipeline`: every step of `ApiSpec` is one of `Spec`
or leaves its variables alone, so all theorems above hold for the requests, too;
`PipelineBehindApi` states five of them.

**SubscriberProofs.** `MapInv` (types, the registry, and that a handler's work is in
the map) gives `SubscriberTypeCorrect` and `RegistryCorrect` without a condition.
`MirrorInv` says of a watched query that was not missed: if Neutron has it and it
is no longer to be listed, it is in the map or the subscriber has still to ask for
it (`Told`); if it is in the map, its period is current or it is `Told`, and if
Neutron has it no more, its remove event is unread. The unread remove event is
only true of a query that is gone when no transaction removes one query and
changes another otherwise; this is the hypothesis `Alike` of `MirrorCorrect`,
`ActiveCorrect` and `PeriodsCorrect`. Without it the run `merged` is a
counterexample, with it there is none for any number of queries. Under the same
hypothesis `ForgottenCorrect`: as long as the subscriber runs, a query leaves the
map only when Neutron has removed it.

`ListingCorrect` is the variant of the listing: the set of the IDs still ahead of
the cursor (`Unlisted`) loses a member with each page that is not the last, for any
answers and any changes of the registry between the pages.

**ProcessProofs.** For the subscriber a step of `Process` is one of its own, one that
leaves it alone, or the end of the process, after which everything is still to be
listed (`StepIs`, `EndsMap`, `EndsMirror`). So both invariants of the subscriber
hold through restarts, and `RestartsMirror` gives `ActiveIsRegistered`. For the
process itself, `ProcessInv` adds that the storage is open from its stage of the
start to `close` (`StorageInv`), that what `wg.Wait` waited for stays returned
(`ReturnedInv`), how a server that left handlers running has ended (`ServerInv`),
and that `loadConnParams` returns no empty ID (`PathInv`). From it:
`ProcessTypeCorrect`, `StorageCorrect`, `PathCorrect`. The invariants of the
subscriber give `RestartsRegistry` and `RestartsPeriods`.

Two theorems are about the end. `NobodyLeavesCorrect`: whoever has returned, or is
shutting down, has cancelled the context for all. `StopCorrect`: from then on,
until all have returned, some goroutine has a step to take that waits for no other,
except in `Stuck`, the state of the finding `shutdown`. `StopGoesOn` states this by
the guards of the steps, since `ENABLED` cannot be reasoned about;
`TodoInv` says that a handler of the subscriber which has not returned has queries
left to handle, and an unread value some to tell of. That fair goroutines
therefore do end is `OneForAll`, which TLC checks.

**TrustedHeadersProofs.** The listing is ordered by the text of the keys, for heights
of any number of digits. `LeadingFills`: every height has a power that fills it up to
the width of `Top`, which is found by going up the powers of ten to the last that
does not reach it. `AboveOrders`: the order is a strict and total one; so `Key`, the
number of states below a state, is the place of each in the listing.
`PositionTaken` says where a page ends; `PagesInv`, that a suitable state that has
been there all the time (`steady`) is on the page or on a later one, and that a
state on the page is in the client or expired. `TrustedInv` keeps what was known
when the state was chosen. Nothing leaves the client before it expires, which is
what makes the margin of the choice enough. From it: `HeadersTypeCorrect`,
`NothingMissedCorrect`, `TrustedCorrect`. `DescentCorrect` is the variant of the
listing: what may still be shown (`Ahead`) never grows while other relayers add
states above and below, and each page that is not the last takes at least one state
from it.

Only model-checked: the six liveness properties (`EventuallyRecorded`,
`PendingChecked`, `RegisteredIsTaken`, `EventuallyAccepted`, `OneForAll`,
`StartEnds`), since temporal reasoning under fairness and `ENABLED` is outside what
the prover does; and the three properties that the runs refute, `cutblock`, `merged`
and `shutdown`. Every other property of a run is a theorem.

## 7. Not modelled

* Reading the environment (`config/`): the values of the configuration are the
  constants, and its failure is a failing stage of `Process`.
* Codecs, encodings, merkle proofs, building and signing of transactions: they
  keep no state. `RPC plumbing` is in `Process` as stages that may fail.
* Of the generated REST client, what the program never calls: `Validate`,
  `MarshalBinary`, the setters of parameters, the readers' formatting of errors,
  and the package `models`, which nothing imports.
* Metrics: counters that nothing in the program reads.
* `GET /unsuccessful-txs` and its command: they read the storage in one step.
* Reorganised target blocks, which cannot occur with Tendermint finality.

`Process` composes the start and the end with the subscriber, and `TxPipeline` the
records with crashes; one module with both would only multiply their states, since
they meet in the storage's `Close` alone, which each models from its side.

## 8. Plan

Done, in this order: the delivery of transactions with the storage and the
process; the subscriber; the sender; KV results; trusted headers; the abstract
delivery and its implementation; the requests for resubmission and their
implementation of the pipeline; the REST client; the process from start to end;
the price; the proofs of all safety properties; and theorems beyond the runs: the
life of a record, the end of listings, tasks and processes that do not hang.

Possible next: a KV path composed of `KVProcessor`, `TrustedHeaders` and `TxSender`
with one target chain and one client, with an account of the sends as for
transactions.
