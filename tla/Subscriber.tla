----------------------------- MODULE Subscriber -----------------------------
(***************************************************************************)
(* The choice of what to search for and when: Subscriber.Subscribe         *)
(* (internal/subscriber) mirrors the queries that are registered on        *)
(* Neutron and puts the due ones into the tasks queue, which Relayer.Run   *)
(* (internal/relay/relayer.go) empties.                                    *)
(*                                                                         *)
(* Neutron is external: its transactions register, update and remove       *)
(* queries.  Its node sends a subscription one value per transaction, with *)
(* the attributes of all query events of the transaction merged, and the   *)
(* websocket client keeps one value per subscription and drops the next    *)
(* ones until it is read.                                                  *)
(***************************************************************************)
EXTENDS Sequences, FiniteSets, RestClient

CONSTANTS Ids,           \* query IDs, in the order of their registration
          Connection,    \* IDs whose query is on the connection of the relayer
          OwnerOf,       \* ID |-> owner of the query
          Addresses, QueryIDs,   \* the registry; empty: all are watched
          WatchedMsgType,   \* IDs of a type in watchedTypes
          Periods,       \* values of a query's UpdatePeriod
          Transactions,  \* what one Neutron transaction may do: ID |-> change
          PageLimit,     \* queries in a page of the REST endpoint
          Capacity,      \* QueriesTaskQueueCapacity
          Word,          \* uint64 has the values 0 .. Word - 1
          MaxHeight,     \* bound: Neutron blocks the model tells apart
          MaxFaults      \* bound: failed calls and signals

Changes == {"register", "update", "remove"}

ASSUME SubscriberAssumption ==
    /\ Ids \subseteq Nat \ {0}
    /\ IsFiniteSet(Ids)
    /\ \A S \in {Connection, QueryIDs, WatchedMsgType} : S \subseteq Ids
    /\ DOMAIN OwnerOf = Ids
    /\ Word \in Nat \ {0}
    /\ Periods \subseteq 1 .. Word - 1 /\ Periods # {}
    /\ \A tx \in Transactions : DOMAIN tx \subseteq Ids /\ \A q \in DOMAIN tx : tx[q] \in Changes
    /\ PageLimit \in Nat \ {0}
    /\ Capacity \in Nat
    /\ MaxHeight \in 1 .. Word - 1
    /\ MaxFaults \in Nat

(***************************************************************************)
(* chain[q]: the query as Neutron stores it; st "none" before and "gone"   *)
(* after its life.  last: LastSubmittedResultLocalHeight.                  *)
(***************************************************************************)
VARIABLES chain, neutronHeight,
          events,     \* subscription |-> the unread value, a set of IDs or None
          newBlock,   \* a NewBlockHeader event is unread
          sub,        \* the goroutine of Subscribe
          activeQueries,   \* the map of that name: ID |-> RegisteredQuery
          tasks,      \* queriesTasksQueue
          relayer,    \* the goroutine of Relayer.Run
          cancelled,  \* ctx.Done() is closed
          faults,     \* how much of MaxFaults is used
          missed      \* history: IDs with a change no event or answer showed

vars == <<chain, neutronHeight, events, newBlock, sub, activeQueries, tasks, relayer,
          cancelled, faults, missed>>

None == [unread |-> FALSE, ids |-> {}]
Query == [period : Periods, last : Nat]

(***************************************************************************)
(* sub.pc: "list" in getNeutronRegisteredQueries, "subUpdated",            *)
(* "subRemoved" and "subBlock" before the three subscriptions, "select" in *)
(* the loop, "blockEvent" and "updateEvent" in the handlers with todo the  *)
(* IDs they still have to go through, "done".  cursor: the last ID listed. *)
(* height: the answer of Status.                                           *)
(***************************************************************************)
SubType == [pc : {"list", "subUpdated", "subRemoved", "subBlock", "select", "blockEvent",
                  "updateEvent", "done"},
            cursor : Nat, todo : SUBSET Ids, height : Nat]

Listening(kind) ==
    CASE kind = "updated" -> sub.pc \notin {"list", "subUpdated", "done"}
      [] kind = "removed" -> sub.pc \notin {"list", "subUpdated", "subRemoved", "done"}

TypeOK ==
    /\ chain \in [Ids -> [st : {"none", "live", "gone"}, period : Periods, last : Nat]]
    /\ neutronHeight \in 1 .. MaxHeight
    /\ events \in [{"updated", "removed"} -> [unread : BOOLEAN, ids : SUBSET Ids]]
    /\ newBlock \in BOOLEAN
    /\ sub \in SubType
    /\ DOMAIN activeQueries \subseteq Ids
    /\ \A q \in DOMAIN activeQueries : activeQueries[q] \in Query
    /\ tasks \in Seq(Ids) /\ Len(tasks) <= Capacity
    /\ relayer \in [pc : {"idle", "busy", "done"}, query : {0} \cup Ids]
    /\ cancelled \in BOOLEAN
    /\ faults \in 0 .. MaxFaults
    /\ missed \subseteq Ids

\* What Neutron has under the ID of no query.
NoQuery(st) == [st |-> st, period |-> CHOOSE p \in Periods : TRUE, last |-> 0]

WatchedAddress == {q \in Ids : Addresses = {} \/ OwnerOf[q] \in Addresses}
WatchedQueryID == {q \in Ids : QueryIDs = {} \/ q \in QueryIDs}
Watched == Connection \cap WatchedAddress \cap WatchedQueryID \cap WatchedMsgType

Init ==
    /\ chain \in [Ids -> {NoQuery("none")} \cup [st : {"live"}, period : Periods, last : {0}]]
    /\ neutronHeight = 1
    /\ events = [k \in {"updated", "removed"} |-> None]
    /\ newBlock = FALSE
    /\ sub = [pc |-> "list", cursor |-> 0, todo |-> {}, height |-> 0]
    /\ activeQueries = [q \in {} |-> 0]
    /\ tasks = <<>>
    /\ relayer = [pc |-> "idle", query |-> 0]
    /\ cancelled = FALSE
    /\ faults = 0
    /\ missed = {}

Live(q) == chain[q].st = "live"

Fault == faults < MaxFaults /\ faults' = faults + 1
\* A call made with ctx fails when ctx is cancelled, or by a fault.
CallFails    == IF cancelled THEN UNCHANGED faults ELSE Fault
CallSucceeds == ~cancelled /\ UNCHANGED faults

\* The map with q |-> r, and without the IDs of S.
With(q, r)  == [p \in DOMAIN activeQueries \cup {q} |-> IF p = q THEN r ELSE activeQueries[p]]
Without(S)  == [p \in DOMAIN activeQueries \ S |-> activeQueries[p]]

NeutronUnchanged == UNCHANGED <<chain, neutronHeight>>
TasksUnchanged   == UNCHANGED <<tasks, relayer>>

----------------------------------------------------------------------------
(***************************************************************************)
(* Subscribe: the start.                                                   *)
(***************************************************************************)
\* A query as the REST endpoint shows it; its remote height is not used.
Item(q) ==
    RegisteredQueryItem({q}, {chain[q].period}, {chain[q].last},
        IF chain[q].last = 0 THEN {} ELSE {[number |-> {0}, height |-> {0}]})

\* The request for the next page.  The server filters by connection, which
\* the set of its queries stands for, and by owner, the relayer by type and ID.
ListRequest ==
    WriteToRequest(RegisteredQueriesParams(Addresses, {Connection},
                       IF sub.cursor = 0 THEN {} ELSE {sub.cursor}))

Rest(request) ==
    {q \in Ids :
       /\ Live(q)
       /\ "connection_id" \in DOMAIN request => q \in The(request.connection_id)
       /\ "owners" \in DOMAIN request => OwnerOf[q] \in request.owners
       /\ "pagination_key" \in DOMAIN request => q > The(request.pagination_key)}

\* The answer of Neutron; next_key is given by the last ID of the page.
Served(request) ==
    LET rest == Rest(request)
        page == {q \in rest : Cardinality({p \in rest : p < q}) < PageLimit}
    IN [registered_queries |-> {Item(q) : q \in page},
        next_key |-> IF page = rest THEN {} ELSE {CHOOSE q \in page : \A p \in page : p <= q}]

Good(payload) == Answer(200, "object", payload)
\* Answers of a node, or of a proxy before it, in trouble.
Disturbed(zero) ==
    {Answer(code, body, zero) : code \in {200, 204, 500}, body \in {"object", "nothing", "garbled"}}

\* The queries of a page that are watched, as they go into the map.
FromPage(payload) ==
    {r \in UNION {ToNeutronRegisteredQuery(o) : o \in payload.registered_queries} :
        r.id \in WatchedMsgType \cap WatchedQueryID}

Entry(r) == [period |-> r.period, last |-> r.last]

\* A page is read.  An answer of code 200 without an object reads like a
\* last page without queries.
ListPage ==
    /\ sub.pc = "list"
    /\ LET good == Good(Served(ListRequest)) IN
       \E answer \in {good} \cup Disturbed(RegisteredQueriesOKBody) :
       \E payload \in NeutronInterchainQueriesRegisteredQueries(answer) :
         /\ IF answer = good THEN CallSucceeds ELSE ~cancelled /\ Fault
         /\ \A o \in payload.registered_queries : ToNeutronRegisteredQuery(o) # {}
         /\ LET found == FromPage(payload) IN
            activeQueries' = [q \in DOMAIN activeQueries \cup {r.id : r \in found} |->
                                IF \E r \in found : r.id = q
                                THEN Entry(CHOOSE r \in found : r.id = q) ELSE activeQueries[q]]
         /\ sub' = IF payload.next_key = {}
                   THEN [sub EXCEPT !.pc = "subUpdated", !.cursor = 0]
                   ELSE [sub EXCEPT !.cursor = The(payload.next_key)]
         /\ missed' = IF answer # good /\ answer.code = 200 THEN missed \cup Rest(ListRequest)
                      ELSE missed
    /\ NeutronUnchanged /\ TasksUnchanged
    /\ UNCHANGED <<events, newBlock, cancelled>>

SubscribeTo(from, to) ==
    /\ sub.pc = from
    /\ CallSucceeds
    /\ sub' = [sub EXCEPT !.pc = to]
    /\ NeutronUnchanged /\ TasksUnchanged
    /\ UNCHANGED <<events, newBlock, activeQueries, cancelled, missed>>

RpcSubscribe ==
    \/ SubscribeTo("subUpdated", "subRemoved")
    \/ SubscribeTo("subRemoved", "subBlock")
    \/ SubscribeTo("subBlock", "select")

\* Subscribe returns; what its subscriptions hold is lost.
Return ==
    /\ sub' = [sub EXCEPT !.pc = "done", !.todo = {}, !.height = 0]
    /\ events' = [k \in {"updated", "removed"} |-> None]
    /\ newBlock' = FALSE

\* A call of the start, or Status, fails, or checkEvents finds attribute
\* lists of different lengths: start.go cancels the context.
SubscribeFails ==
    /\ \/ sub.pc \in {"list", "subUpdated", "subRemoved", "subBlock"} /\ CallFails
       \/ sub.pc = "select" /\ newBlock /\ CallFails
       \/ sub.pc = "select" /\ (\E k \in DOMAIN events : events[k].unread) /\ Fault
    /\ Return
    /\ cancelled' = TRUE
    /\ NeutronUnchanged /\ TasksUnchanged
    /\ UNCHANGED <<activeQueries, missed>>

SubscriberStops ==
    /\ sub.pc = "select" /\ cancelled
    /\ Return
    /\ NeutronUnchanged /\ TasksUnchanged
    /\ UNCHANGED <<activeQueries, cancelled, faults, missed>>

----------------------------------------------------------------------------
(***************************************************************************)
(* Subscribe: the loop.                                                    *)
(***************************************************************************)
\* The end of a pass of a handler over an ID.
Advance(q) ==
    sub' = IF sub.todo = {q} THEN [sub EXCEPT !.pc = "select", !.todo = {}, !.height = 0]
           ELSE [sub EXCEPT !.todo = @ \ {q}]

\* processBlockEvent: Status answers.
BlockEvent ==
    /\ sub.pc = "select" /\ newBlock
    /\ CallSucceeds
    /\ newBlock' = FALSE
    /\ sub' = IF DOMAIN activeQueries = {} THEN sub
              ELSE [sub EXCEPT !.pc = "blockEvent", !.todo = DOMAIN activeQueries,
                               !.height = neutronHeight]
    /\ NeutronUnchanged /\ TasksUnchanged
    /\ UNCHANGED <<events, activeQueries, cancelled, missed>>

\* The sum is one of uint64: a query with a period near Word is always due.
Due(q, height) ==
    \/ activeQueries[q].last = 0
    \/ height >= (activeQueries[q].last + activeQueries[q].period) % Word

Skip(q) ==
    /\ sub.pc = "blockEvent" /\ q \in sub.todo
    /\ ~Due(q, sub.height)
    /\ Advance(q)
    /\ NeutronUnchanged /\ TasksUnchanged
    /\ UNCHANGED <<events, newBlock, activeQueries, cancelled, faults, missed>>

\* Mutant: the queue has no capacity.
HasRoomAlways == TRUE

HasRoom == Len(tasks) < Capacity

\* Mutant: a task that finds the queue full is dropped, its period begins.
QueuedOrDropped(q) == tasks' = IF HasRoom THEN Append(tasks, q) ELSE tasks

\* tasks <- *activeQuery: it waits for room, whatever happens to ctx.
Queued(q) == HasRoom /\ tasks' = Append(tasks, q)

Enqueue(q) ==
    /\ sub.pc = "blockEvent" /\ q \in sub.todo
    /\ Due(q, sub.height)
    /\ Queued(q)
    /\ activeQueries' = [activeQueries EXCEPT ![q].last = sub.height]
    /\ Advance(q)
    /\ NeutronUnchanged
    /\ UNCHANGED <<events, newBlock, relayer, cancelled, faults, missed>>

\* processUpdateEvent takes the value from the subscription.
UpdateEvent ==
    /\ sub.pc = "select" /\ events["updated"].unread
    /\ events' = [events EXCEPT !["updated"] = None]
    /\ sub' = [sub EXCEPT !.pc = "updateEvent", !.todo = events["updated"].ids]
    /\ NeutronUnchanged /\ TasksUnchanged
    /\ UNCHANGED <<newBlock, activeQueries, cancelled, faults, missed>>

\* getNeutronRegisteredQuery: the answer of Neutron to its request, and the
\* query, or nothing for an error.
LookupRequest(q) == WriteToRequest(RegisteredQueryParams({q}))
Lookup(request) ==
    LET q == The(request.query_id) IN
    IF Live(q) THEN Good([registered_query |-> {Item(q)}])
    ELSE Answer(404, "object", RegisteredQueryOKBody)

Looked(answer) ==
    UNION {UNION {ToNeutronRegisteredQuery(o) : o \in payload.registered_query} :
             payload \in NeutronInterchainQueriesRegisteredQuery(answer)}

\* Mutant: the query is saved as the event tells of it, registered or not.
SavedTrustingEvent(q, found) ==
    IF q \in WatchedMsgType THEN With(q, [period |-> chain[q].period, last |-> chain[q].last])
    ELSE activeQueries
\* Mutant: a query that is known already is left as it is.
SavedOnlyNew(q, found) ==
    IF found # {} /\ q \in WatchedMsgType \ DOMAIN activeQueries
    THEN With(q, Entry(The(found))) ELSE activeQueries
\* Mutant: the type of the query is not looked at.
SavedAnyType(q, found) == IF found # {} THEN With(q, Entry(The(found))) ELSE activeQueries

\* The map after a query was looked up.
Saved(q, found) ==
    IF found # {} /\ q \in WatchedMsgType THEN With(q, Entry(The(found))) ELSE activeQueries

ToFetch(q) ==
    sub.pc = "updateEvent" /\ q \in sub.todo /\ q \in WatchedAddress \cap WatchedQueryID

\* Neutron answers with the query, or that there is none.
Fetch(q) ==
    /\ ToFetch(q)
    /\ CallSucceeds
    /\ LET found == Looked(Lookup(LookupRequest(q))) IN
       /\ activeQueries' = Saved(q, found)
       /\ missed' = IF found # {} THEN missed \ {q} ELSE missed
    /\ Advance(q)
    /\ NeutronUnchanged /\ TasksUnchanged
    /\ UNCHANGED <<events, newBlock, cancelled>>

\* It fails: the query is skipped, "probably removed".
FetchFails(q) ==
    /\ ToFetch(q)
    /\ CallFails
    /\ missed' = missed \cup {q}
    /\ Advance(q)
    /\ NeutronUnchanged /\ TasksUnchanged
    /\ UNCHANGED <<events, newBlock, activeQueries, cancelled>>

\* An answer of code 200 without a query: RegisteredQuery is nil, and
\* ToNeutronRegisteredQuery panics.
NilQuery(q) ==
    /\ ToFetch(q)
    /\ ~cancelled /\ Fault
    /\ \E answer \in Disturbed(RegisteredQueryOKBody) :
         \E payload \in NeutronInterchainQueriesRegisteredQuery(answer) :
            payload.registered_query = {}

\* The process ends without a word to anyone.
Stopped ==
    /\ Return
    /\ relayer' = [pc |-> "done", query |-> 0]
    /\ cancelled' = TRUE
    /\ activeQueries' = Without(Ids)
    /\ tasks' = <<>>

Panic ==
    /\ \E q \in sub.todo : NilQuery(q)
    /\ Stopped
    /\ NeutronUnchanged
    /\ UNCHANGED missed

\* A query of another owner or ID.
SkipUnwatched(q) ==
    /\ sub.pc = "updateEvent" /\ q \in sub.todo
    /\ q \notin WatchedAddress \cap WatchedQueryID
    /\ Advance(q)
    /\ NeutronUnchanged /\ TasksUnchanged
    /\ UNCHANGED <<events, newBlock, activeQueries, cancelled, faults, missed>>

\* processRemoveEvent: every query of the value is deleted.
RemoveEvent ==
    /\ sub.pc = "select" /\ events["removed"].unread
    /\ events' = [events EXCEPT !["removed"] = None]
    /\ activeQueries' = Without(events["removed"].ids)
    /\ missed' = missed \ {q \in events["removed"].ids : ~Live(q)}
    /\ NeutronUnchanged /\ TasksUnchanged
    /\ UNCHANGED <<newBlock, sub, cancelled, faults>>

----------------------------------------------------------------------------
(***************************************************************************)
(* Relayer.Run as the other end of the queue; what a task does is the      *)
(* subject of TxPipeline and KVProcessor.                                  *)
(***************************************************************************)
SubscriberUnchanged == UNCHANGED <<events, newBlock, sub, activeQueries, faults, missed>>

TakeTask ==
    /\ relayer.pc = "idle" /\ tasks # <<>>
    /\ relayer' = [pc |-> "busy", query |-> Head(tasks)]
    /\ tasks' = Tail(tasks)
    /\ SubscriberUnchanged /\ NeutronUnchanged
    /\ UNCHANGED cancelled

\* The task ends; if its result was submitted, Neutron notes the height.
EndTask(submitted) ==
    /\ relayer.pc = "busy"
    /\ relayer' = [pc |-> "idle", query |-> 0]
    /\ chain' = IF submitted /\ Live(relayer.query)
                THEN [chain EXCEPT ![relayer.query].last = neutronHeight] ELSE chain
    /\ SubscriberUnchanged
    /\ UNCHANGED <<neutronHeight, tasks, cancelled>>

\* A critical error of the task.
RelayerFails ==
    /\ relayer.pc = "busy"
    /\ Fault
    /\ relayer' = [pc |-> "done", query |-> 0]
    /\ cancelled' = TRUE
    /\ NeutronUnchanged
    /\ UNCHANGED <<events, newBlock, sub, activeQueries, tasks, missed>>

RelayerStops ==
    /\ relayer.pc = "idle" /\ cancelled
    /\ relayer' = [pc |-> "done", query |-> 0]
    /\ SubscriberUnchanged /\ NeutronUnchanged
    /\ UNCHANGED <<tasks, cancelled>>

\* SIGINT or SIGTERM.
Cancel ==
    /\ ~cancelled
    /\ Fault
    /\ cancelled' = TRUE
    /\ NeutronUnchanged /\ TasksUnchanged
    /\ UNCHANGED <<events, newBlock, sub, activeQueries, missed>>

----------------------------------------------------------------------------
(***************************************************************************)
(* Neutron.                                                                *)
(***************************************************************************)
CanApply(tx) ==
    \A q \in DOMAIN tx : IF tx[q] = "register" THEN chain[q].st = "none" ELSE Live(q)

\* Every condition of a subscription is met by some event of the transaction.
Matches(tx, kind) ==
    /\ DOMAIN tx \cap Connection # {}
    /\ \E q \in DOMAIN tx : (tx[q] = "remove") = (kind = "removed")

\* The websocket client has no room for the value, or nobody listens.
Lost(tx, kind) ==
    Matches(tx, kind) /\ (~Listening(kind) \/ events[kind].unread)

\* The listing has not come to the query yet.
StillToList(q) == sub.pc = "list" /\ q > sub.cursor

NeutronTx(tx) ==
    /\ CanApply(tx)
    /\ \E period \in Periods :
         chain' = [q \in Ids |->
                     IF q \notin DOMAIN tx THEN chain[q]
                     ELSE IF tx[q] = "remove" THEN NoQuery("gone")
                     ELSE [chain[q] EXCEPT !.st = "live", !.period = period]]
    /\ events' = [k \in {"updated", "removed"} |->
                    IF Matches(tx, k) /\ ~Lost(tx, k)
                    THEN [unread |-> TRUE, ids |-> DOMAIN tx] ELSE events[k]]
    /\ missed' = missed \cup {q \in DOMAIN tx :
                    /\ Lost(tx, IF tx[q] = "remove" THEN "removed" ELSE "updated")
                    /\ ~StillToList(q)}
    /\ UNCHANGED <<neutronHeight, newBlock, sub, activeQueries, tasks, relayer, cancelled, faults>>

\* Heights above MaxHeight are one height.
NeutronBlock ==
    /\ neutronHeight' = IF neutronHeight < MaxHeight THEN neutronHeight + 1 ELSE neutronHeight
    /\ newBlock' = (newBlock \/ sub.pc \in {"select", "blockEvent", "updateEvent"})
    /\ UNCHANGED <<chain, events, sub, activeQueries, tasks, relayer, cancelled, faults, missed>>

----------------------------------------------------------------------------
SubscribeStep == ListPage \/ RpcSubscribe \/ SubscribeFails
BlockStep  == \E q \in sub.todo : Skip(q) \/ Enqueue(q)
UpdateStep == \E q \in sub.todo : Fetch(q) \/ FetchFails(q) \/ SkipUnwatched(q)
RelayerStep ==
    \/ TakeTask \/ (\E submitted \in BOOLEAN : EndTask(submitted)) \/ RelayerFails \/ RelayerStops

\* The goroutine of Subscribe.
SubscriberStep ==
    \/ SubscribeStep \/ SubscriberStops
    \/ BlockEvent \/ BlockStep
    \/ UpdateEvent \/ UpdateStep
    \/ RemoveEvent

NeutronStep == (\E tx \in Transactions : NeutronTx(tx)) \/ NeutronBlock

Next == SubscriberStep \/ Panic \/ RelayerStep \/ Cancel \/ NeutronStep

Spec == Init /\ [][Next]_vars

(***************************************************************************)
(* Fairness: a goroutine that can go on does; select picks among ready     *)
(* cases at random, so no case stays ready for ever without being picked;  *)
(* Neutron makes blocks.                                                   *)
(***************************************************************************)
FairSpec ==
    /\ Spec
    /\ WF_vars(SubscribeStep) /\ WF_vars(BlockStep) /\ WF_vars(UpdateStep)
    /\ SF_vars(BlockEvent) /\ SF_vars(UpdateEvent) /\ SF_vars(RemoveEvent)
    /\ SF_vars(SubscriberStops)
    /\ SF_vars(TakeTask) /\ SF_vars(RelayerStops)
    /\ WF_vars(\E submitted \in BOOLEAN : EndTask(submitted))
    /\ WF_vars(NeutronBlock)

----------------------------------------------------------------------------
(***************************************************************************)
(* Safety.                                                                 *)
(***************************************************************************)
\* Once the subscriber has read its events, the queries it schedules are
\* the watched queries of Neutron, whatever the order in which it read
\* update and remove events and asked for details; a query in "missed", of
\* which a change was never shown to it, is the exception.
Settled == sub.pc = "select" /\ \A k \in {"updated", "removed"} : ~events[k].unread
ActiveIsRegistered ==
    Settled => \A q \in Watched \ missed : q \in DOMAIN activeQueries <=> Live(q)

\* The period by which a watched query is scheduled is the registered one.
\* One of another connection, which a merged value may bring into the map,
\* is not kept up to date.
PeriodIsCurrent ==
    Settled => \A q \in Watched \cap DOMAIN activeQueries :
                  q \notin missed => activeQueries[q].period = chain[q].period

\* "the Subscriber only works with interchain queries and events that are
\* under ownership of these addresses and match the queryIDs"
\* (subscriber.go:34), and of a watched type: in the map and in the queue,
\* whether a query came by the listing or by an event.
RegistryRespected ==
    DOMAIN activeQueries \cup {tasks[i] : i \in DOMAIN tasks}
        \subseteq WatchedAddress \cap WatchedQueryID \cap WatchedMsgType

(***************************************************************************)
(* Action properties.                                                      *)
(***************************************************************************)
\* "processRemoveEvent deletes an event that was removed on Neutron from
\* memory" (subscriber.go:252): no other query stops being scheduled.
OnlyRemovedForgotten ==
    [][\A q \in DOMAIN activeQueries \ DOMAIN activeQueries' : ~Live(q)]_vars

(***************************************************************************)
(* Liveness.                                                               *)
(***************************************************************************)
\* A query that has no result yet and that the subscriber was told of gets
\* into its map, becomes due, and is taken by the relayer, through a queue
\* that may be full and next to updates that reset its schedule.
RegisteredIsTaken ==
    \A q \in Watched :
        /\ Live(q) /\ chain[q].last = 0
        /\ q \in DOMAIN activeQueries => Due(q, neutronHeight)
        ~> relayer.query = q \/ ~Live(q) \/ q \in missed \/ cancelled

\* "gracefully shutting down..." (start.go:167): the goroutines return.
ShutsDown == cancelled ~> sub.pc = "done" /\ relayer.pc = "done"
=============================================================================
