-------------------------- MODULE SubscriberProofs --------------------------
(***************************************************************************)
(* Theorems about Subscriber, for every value of its constants.            *)
(***************************************************************************)
EXTENDS Subscriber, FiniteSetTheorems, SequenceTheorems, TLAPS

LEMMA IdsAre == Ids \subseteq Nat /\ 0 \notin Ids /\ IsFiniteSet(Ids)
BY SubscriberAssumption

----------------------------------------------------------------------------
(***************************************************************************)
(* The pages of a listing.                                                 *)
(***************************************************************************)
\* A finite set of IDs has a last one: among the sets of those above each of
\* them, one is the smallest, and it is empty.
LEMMA LastExists ==
    ASSUME NEW S \in SUBSET Nat, IsFiniteSet(S), S # {}
    PROVE  \E q \in S : \A p \in S : p <= q
<1> DEFINE Beyond(q) == {p \in S : q < p}
           T == {Beyond(q) : q \in S}
<1>0. \A q \in S : q \in Nat
  OBVIOUS
<1>1. T # {} /\ T \subseteq FiniteSubsetsOf(S)
  <2>1. \A q \in S : Beyond(q) \in SUBSET S
    OBVIOUS
  <2> HIDE DEF Beyond
  <2>2. \A q \in S : IsFiniteSet(Beyond(q))
    BY <2>1, FS_Subset
  <2> QED BY <2>1, <2>2 DEF FiniteSubsetsOf
<1>2. PICK X \in T : \A Y \in T : <<Y, X>> \notin StrictSubsetOrdering(S)
  <2>1. IsWellFoundedOn(StrictSubsetOrdering(S), FiniteSubsetsOf(S))
    BY FS_StrictSubsetOrderingWellFounded
  <2> HIDE DEF T
  <2> QED BY <1>1, <2>1, WFMin
<1>3. PICK q \in S : X = Beyond(q)
  BY <1>2
<1>4. ASSUME NEW p \in S, q < p
      PROVE  FALSE
  <2>1. Beyond(p) \in T /\ Beyond(p) \subseteq Beyond(q) /\ p \in Beyond(q) /\ p \notin Beyond(p)
    <3>1. \A x \in S : p < x => q < x
      BY <1>0, <1>4
    <3>2. ~(p < p)
      BY <1>0
    <3> QED BY <1>4, <3>1, <3>2
  <2>2. <<Beyond(p), Beyond(q)>> \in StrictSubsetOrdering(S)
    <3> HIDE DEF Beyond
    <3>1. Beyond(p) \in SUBSET S /\ Beyond(q) \in SUBSET S
      BY DEF Beyond
    <3> QED BY <2>1, <3>1 DEF StrictSubsetOrdering
  <2> QED BY <1>2, <1>3, <2>1, <2>2
<1> QED BY <1>0, <1>4

LEMMA FirstExists ==
    ASSUME NEW S \in SUBSET Nat, S # {}
    PROVE  \E q \in S : \A p \in S : q <= p
<1>1. PICK q \in S : \A p \in S : <<p, q>> \notin OpToRel(<, Nat)
  BY NatLessThanWellFounded, WFMin
<1>2. \A p \in S : p \in Nat /\ q \in Nat /\ ~(p < q)
  BY <1>1 DEF OpToRel
<1>3. \A p \in S : q <= p
  BY <1>2
<1> QED BY <1>3

LEMMA TheOne == \A v : The({v}) = v
BY DEF The

LEMMA TheMember == \A S : S # {} => The(S) \in S
BY DEF The

\* A call of the client returns what the server sent, or a zero value.
LEMMA PayloadIs ==
    ASSUME NEW answer, NEW zero, answer.body \in {"object", "nothing", "garbled"},
           NEW payload \in Payload(ReadResponse(answer, zero))
    PROVE  payload = answer.payload \/ payload = zero
<1>1. PICK r \in ReadResponse(answer, zero) : payload = r.payload
  BY DEF Payload
<1>2. \/ Consume(answer, zero) = {} \/ Consume(answer, zero) = {answer.payload}
      \/ Consume(answer, zero) = {zero}
  BY DEF Consume
<1>3. \A type, x : \A s \in Success(type, {x}) : s.payload = x
  <2> TAKE type, x
  <2>1. The({x}) = x
    BY TheOne
  <2>2. \A s \in {[type |-> type, payload |-> The({x})]} : s.payload = The({x})
    OBVIOUS
  <2> QED BY <2>1, <2>2 DEF Success
<1>4. /\ Consume(answer, zero) # {}
      /\ \E type \in {"OK", "Default"} : r \in Success(type, Consume(answer, zero))
  BY DEF ReadResponse
<1> QED BY <1>1, <1>2, <1>3, <1>4

\* An object that comes with code 200 is what the call returns.
LEMMA OKIsRead ==
    ASSUME NEW answer, NEW zero, NEW object, Consume(answer, zero) = {object}, answer.code = 200
    PROVE  Payload(ReadResponse(answer, zero)) = {object}
<1> DEFINE result == ReadResponse(answer, zero)
           ok == [type |-> "OK", payload |-> object]
<1>1. result = Success("OK", {object})
  BY DEF ReadResponse
<1>2. result = {ok}
  BY <1>1, TheOne DEF Success
<1>3. ok.type = "OK" /\ ok.payload = object
  OBVIOUS
<1> HIDE DEF result, ok
<1>4. {r \in result : r.type = "OK"} = {ok}
  BY <1>2, <1>3
<1>5. Payload(result) = {ok.payload}
  BY <1>4 DEF Payload
<1> QED BY <1>3, <1>5 DEF result

\* A query comes through the client as Neutron has it.
Converted(q) == [id |-> q, period |-> chain[q].period, last |-> chain[q].last]

LEMMA ItemConverted ==
    ASSUME NEW q, NEW r \in ToNeutronRegisteredQuery(Item(q))
    PROVE  r = Converted(q)
<1> DEFINE o == Item(q)
<1>1. o.id = {q} /\ o.update_period = {chain[q].period} /\ o.last_local_height = {chain[q].last}
  BY DEF Item, RegisteredQueryItem
<1> HIDE DEF o
<1>2. r = [id |-> The(o.id), period |-> The(o.update_period), last |-> The(o.last_local_height)]
  BY DEF ToNeutronRegisteredQuery, o
<1> QED BY <1>1, <1>2, TheOne DEF Converted

LEMMA ConvertedEntry ==
    ASSUME TypeOK, NEW q \in Ids
    PROVE  Entry(Converted(q)) = [period |-> chain[q].period, last |-> chain[q].last]
           /\ Entry(Converted(q)) \in Query /\ Converted(q).id = q
BY DEF TypeOK, Converted, Entry, Query

\* The server filters by owner what the relayer filters by ID and type.
LEMMA RestIsWatched ==
    ASSUME NEW q \in Rest(ListRequest)
    PROVE  q \in Ids /\ Live(q) /\ q \in WatchedAddress \cap Connection
<1> DEFINE params == RegisteredQueriesParams(Addresses, {Connection},
                        IF sub.cursor = 0 THEN {} ELSE {sub.cursor})
<1>1. q \in Ids /\ Live(q)
  BY DEF Rest
<1>2. q \in Connection
  <2>1. "connection_id" \in DOMAIN params /\ params.connection_id = {Connection}
    BY DEF RegisteredQueriesParams
  <2>2. "connection_id" \in DOMAIN ListRequest /\ ListRequest.connection_id = {Connection}
    BY <2>1 DEF ListRequest, WriteToRequest
  <2> QED BY <2>2, TheOne DEF Rest
<1>3. CASE Addresses = {}
  BY <1>1, <1>2, <1>3 DEF WatchedAddress
<1>4. CASE Addresses # {}
  <2>1. "owners" \in DOMAIN params /\ params.owners = Addresses
    BY DEF RegisteredQueriesParams
  <2>2. "owners" \in DOMAIN ListRequest /\ ListRequest.owners = Addresses
    BY <1>4, <2>1 DEF ListRequest, WriteToRequest
  <2>3. OwnerOf[q] \in Addresses
    BY <2>2 DEF Rest
  <2> QED BY <1>1, <1>2, <2>3 DEF WatchedAddress
<1> QED BY <1>1, <1>2, <1>3, <1>4

\* What a page shows, and the key it gives for the next one.
LEMMA ServedPage ==
    ASSUME TypeOK, NEW payload, payload = Served(ListRequest)
    PROVE  /\ \A r \in FromPage(payload) : \E q \in Rest(ListRequest) :
                 /\ r = Converted(q)
                 /\ q \in WatchedAddress \cap WatchedQueryID \cap WatchedMsgType
           /\ payload.next_key # {} => The(payload.next_key) \in Rest(ListRequest)
<1> DEFINE rest == Rest(ListRequest)
           page == {q \in rest : Cardinality({p \in rest : p < q}) < PageLimit}
<1>1. /\ payload.registered_queries = {Item(q) : q \in page}
      /\ payload.next_key = IF page = rest THEN {}
                            ELSE {CHOOSE q \in page : \A p \in page : p <= q}
  BY DEF Served
<1>2. rest \subseteq Ids /\ page \subseteq rest /\ IsFiniteSet(rest) /\ IsFiniteSet(page)
  <2>1. rest \subseteq Ids /\ page \subseteq rest
    BY RestIsWatched
  <2> QED BY <2>1, IdsAre, FS_Subset
<1>3. ASSUME NEW r \in FromPage(payload)
      PROVE  \E q \in rest :
                 /\ r = Converted(q)
                 /\ q \in WatchedAddress \cap WatchedQueryID \cap WatchedMsgType
  <2>1. PICK q \in page : r \in ToNeutronRegisteredQuery(Item(q))
    BY <1>1 DEF FromPage
  <2>2. r = Converted(q) /\ r.id = q
    BY <2>1, ItemConverted DEF Converted
  <2>3. q \in WatchedMsgType \cap WatchedQueryID
    BY <2>2 DEF FromPage
  <2> QED BY <1>2, <2>1, <2>2, <2>3, RestIsWatched
<1>4. ASSUME payload.next_key # {}
      PROVE  The(payload.next_key) \in rest
  <2>1. page # rest /\ payload.next_key = {CHOOSE q \in page : \A p \in page : p <= q}
    BY <1>1, <1>4
  <2>2. page # {}
    <3>1. PICK q \in rest : \A p \in rest : q <= p
      BY <1>2, <2>1, IdsAre, FirstExists
    <3>2. {p \in rest : p < q} = {}
      <4>1. \A p \in rest : p \in Nat /\ q \in Nat
        BY <1>2, IdsAre
      <4>2. \A p \in rest : ~(p < q)
        BY <3>1, <4>1
      <4> QED BY <4>2
    <3>3. Cardinality({p \in rest : p < q}) = 0
      BY <3>2, FS_EmptySet
    <3> QED BY <3>3, SubscriberAssumption
  <2>3. \E q \in page : \A p \in page : p <= q
    BY <1>2, <2>2, IdsAre, LastExists
  <2> HIDE DEF page, rest
  <2>4. (CHOOSE q \in page : \A p \in page : p <= q) \in page
    BY <2>3
  <2> QED BY <1>2, <2>1, <2>4, TheOne
<1> QED BY <1>3, <1>4

\* An answer is the page, or a body without queries.
LEMMA AnswerIs ==
    ASSUME NEW answer \in {Good(Served(ListRequest))} \cup Disturbed(RegisteredQueriesOKBody),
           NEW payload \in NeutronInterchainQueriesRegisteredQueries(answer)
    PROVE  payload = Served(ListRequest) \/ payload = RegisteredQueriesOKBody
<1>1. /\ answer.body \in {"object", "nothing", "garbled"}
      /\ answer.payload \in {Served(ListRequest), RegisteredQueriesOKBody}
  BY DEF Good, Disturbed, Answer
<1> QED
  BY <1>1, PayloadIs
  DEF NeutronInterchainQueriesRegisteredQueries, RegisteredQueriesReader

LEMMA EmptyPage ==
    FromPage(RegisteredQueriesOKBody) = {} /\ RegisteredQueriesOKBody.next_key = {}
BY DEF FromPage, RegisteredQueriesOKBody

LEMMA PageIs ==
    ASSUME TypeOK,
           NEW answer \in {Good(Served(ListRequest))} \cup Disturbed(RegisteredQueriesOKBody),
           NEW payload \in NeutronInterchainQueriesRegisteredQueries(answer)
    PROVE  /\ \A r \in FromPage(payload) : \E q \in Rest(ListRequest) :
                 /\ r = Converted(q)
                 /\ q \in WatchedAddress \cap WatchedQueryID \cap WatchedMsgType
           /\ payload.next_key # {} => The(payload.next_key) \in Rest(ListRequest)
BY AnswerIs, ServedPage, EmptyPage

\* A query that was looked up is the registered one.
LEMMA LookedIs ==
    ASSUME NEW q, NEW r \in Looked(Lookup(LookupRequest(q)))
    PROVE  r = Converted(q) /\ Live(q)
<1>1. LookupRequest(q).query_id = {q}
  BY DEF LookupRequest, WriteToRequest, RegisteredQueryParams
<1>2. Lookup(LookupRequest(q)) =
        IF Live(q) THEN Good([registered_query |-> {Item(q)}])
        ELSE Answer(404, "object", RegisteredQueryOKBody)
  BY <1>1, TheOne DEF Lookup
<1> DEFINE answer == Lookup(LookupRequest(q))
<1>3. PICK payload \in NeutronInterchainQueriesRegisteredQuery(answer) :
        \E o \in payload.registered_query : r \in ToNeutronRegisteredQuery(o)
  BY DEF Looked
<1>4. /\ answer.body = "object"
      /\ answer.payload = IF Live(q) THEN [registered_query |-> {Item(q)}]
                          ELSE RegisteredQueryOKBody
  BY <1>2 DEF Good, Answer
<1> HIDE DEF answer
<1>5. payload = answer.payload \/ payload = RegisteredQueryOKBody
  BY <1>3, <1>4, PayloadIs
  DEF NeutronInterchainQueriesRegisteredQuery, RegisteredQueryReader
<1>6. payload = [registered_query |-> {Item(q)}] /\ Live(q)
  BY <1>3, <1>4, <1>5 DEF RegisteredQueryOKBody
<1> QED BY <1>3, <1>6, ItemConverted

----------------------------------------------------------------------------
(***************************************************************************)
(* Types, and the registry.  What a block event still has to go through is *)
(* in the map, so that no task is made of another query.                   *)
(***************************************************************************)
Allowed == WatchedAddress \cap WatchedQueryID \cap WatchedMsgType

MapInv ==
    /\ TypeOK
    /\ RegistryRespected
    /\ sub.pc = "blockEvent" => sub.todo \subseteq DOMAIN activeQueries

LEMMA MapInit == Init => MapInv
<1> SUFFICES ASSUME Init PROVE MapInv
  OBVIOUS
<1>1. NoQuery("none") \in [st : {"none", "live", "gone"}, period : Periods, last : Nat]
  BY SubscriberAssumption DEF NoQuery
<1>2. chain \in [Ids -> [st : {"none", "live", "gone"}, period : Periods, last : Nat]]
  BY <1>1 DEF Init
<1>3. <<>> \in Seq(Ids) /\ Len(<<>>) = 0 /\ DOMAIN <<>> = {}
  BY EmptySeq
<1>4. DOMAIN activeQueries = {}
  BY DEF Init
<1>5. events \in [{"updated", "removed"} -> [unread : BOOLEAN, ids : SUBSET Ids]]
  BY DEF Init, None
<1>6. sub \in SubType /\ sub.pc = "list"
  BY DEF Init, SubType
<1>7. /\ neutronHeight \in 1 .. MaxHeight /\ newBlock \in BOOLEAN
      /\ relayer \in [pc : {"idle", "busy", "done"}, query : {0} \cup Ids]
      /\ cancelled \in BOOLEAN /\ faults \in 0 .. MaxFaults /\ missed \subseteq Ids
  <2>1. MaxHeight \in Nat \ {0} /\ MaxFaults \in Nat
    BY SubscriberAssumption
  <2>2. /\ neutronHeight = 1 /\ newBlock = FALSE /\ relayer = [pc |-> "idle", query |-> 0]
        /\ cancelled = FALSE /\ faults = 0 /\ missed = {}
    BY DEF Init
  <2>3. neutronHeight \in 1 .. MaxHeight /\ faults \in 0 .. MaxFaults
    BY <2>1, <2>2
  <2>4. relayer \in [pc : {"idle", "busy", "done"}, query : {0} \cup Ids]
    BY <2>2
  <2>5. newBlock \in BOOLEAN /\ cancelled \in BOOLEAN
    BY <2>2
  <2>6. missed \subseteq Ids
    BY <2>2
  <2> QED BY <2>3, <2>4, <2>5, <2>6
<1>8. tasks \in Seq(Ids) /\ Len(tasks) <= Capacity /\ DOMAIN tasks = {}
  BY <1>3, SubscriberAssumption DEF Init
<1>9. TypeOK
  BY <1>2, <1>4, <1>5, <1>6, <1>7, <1>8 DEF TypeOK
<1>10. RegistryRespected
  BY <1>4, <1>8 DEF RegistryRespected
<1> QED BY <1>6, <1>9, <1>10 DEF MapInv

\* The map after a step, which keeps the rest.
MapOK == /\ DOMAIN activeQueries' \subseteq Ids \cap Allowed
         /\ \A q \in DOMAIN activeQueries' : activeQueries'[q] \in Query

LEMMA ListPageMap ==
    ASSUME MapInv, ListPage
    PROVE  MapOK /\ sub' \in SubType /\ sub'.pc # "blockEvent" /\ missed' \subseteq Ids
<1>1. TypeOK /\ DOMAIN activeQueries \subseteq Ids \cap Allowed
      /\ \A q \in DOMAIN activeQueries : activeQueries[q] \in Query
  BY DEF MapInv, TypeOK, RegistryRespected, Allowed
<1>2. PICK answer \in {Good(Served(ListRequest))} \cup Disturbed(RegisteredQueriesOKBody) :
      \E payload \in NeutronInterchainQueriesRegisteredQueries(answer) :
         /\ LET found == FromPage(payload) IN
            activeQueries' = [q \in DOMAIN activeQueries \cup {r.id : r \in found} |->
                                IF \E r \in found : r.id = q
                                THEN Entry(CHOOSE r \in found : r.id = q) ELSE activeQueries[q]]
         /\ sub' = IF payload.next_key = {}
                   THEN [sub EXCEPT !.pc = "subUpdated", !.cursor = 0]
                   ELSE [sub EXCEPT !.cursor = The(payload.next_key)]
         /\ missed' \subseteq missed \cup Rest(ListRequest)
  BY DEF ListPage
<1>3. PICK payload \in NeutronInterchainQueriesRegisteredQueries(answer) :
         /\ LET found == FromPage(payload) IN
            activeQueries' = [q \in DOMAIN activeQueries \cup {r.id : r \in found} |->
                                IF \E r \in found : r.id = q
                                THEN Entry(CHOOSE r \in found : r.id = q) ELSE activeQueries[q]]
         /\ sub' = IF payload.next_key = {}
                   THEN [sub EXCEPT !.pc = "subUpdated", !.cursor = 0]
                   ELSE [sub EXCEPT !.cursor = The(payload.next_key)]
         /\ missed' \subseteq missed \cup Rest(ListRequest)
  BY <1>2
<1> DEFINE found == FromPage(payload)
<1>4. /\ \A r \in found : \E q \in Rest(ListRequest) : r = Converted(q) /\ q \in Allowed
      /\ payload.next_key # {} => The(payload.next_key) \in Rest(ListRequest)
  BY <1>1, PageIs DEF Allowed
<1>5. Rest(ListRequest) \subseteq Ids
  BY RestIsWatched
<1>6. \A r \in found : r.id \in Ids \cap Allowed /\ Entry(r) \in Query
  BY <1>1, <1>4, <1>5, ConvertedEntry
<1>7. MapOK
  <2> HIDE DEF found
  <2>1. DOMAIN activeQueries' = DOMAIN activeQueries \cup {r.id : r \in found}
    BY <1>3 DEF found
  <2>2. ASSUME NEW q \in DOMAIN activeQueries', \E r \in found : r.id = q
        PROVE  activeQueries'[q] \in Query
    <3>1. activeQueries'[q] = Entry(CHOOSE r \in found : r.id = q)
      BY <1>3, <2>1, <2>2 DEF found
    <3> QED BY <1>6, <2>2, <3>1
  <2>3. ASSUME NEW q \in DOMAIN activeQueries', ~\E r \in found : r.id = q
        PROVE  activeQueries'[q] \in Query
    BY <1>1, <1>3, <2>1, <2>3 DEF found
  <2> QED BY <1>1, <1>6, <2>1, <2>2, <2>3 DEF MapOK
<1>8. sub' \in SubType /\ sub'.pc # "blockEvent"
  <2>1. sub \in SubType /\ sub.pc = "list"
    BY <1>1 DEF TypeOK, ListPage
  <2>2. payload.next_key # {} => The(payload.next_key) \in Nat
    BY <1>4, <1>5, IdsAre
  <2> QED BY <1>3, <2>1, <2>2 DEF SubType
<1> QED BY <1>1, <1>3, <1>5, <1>7, <1>8 DEF TypeOK

LEMMA ReturnType ==
    ASSUME TypeOK, Return
    PROVE  /\ sub' \in SubType /\ sub'.pc = "done"
           /\ events' \in [{"updated", "removed"} -> [unread : BOOLEAN, ids : SUBSET Ids]]
           /\ newBlock' \in BOOLEAN
BY DEF Return, TypeOK, SubType, None

\* A step that keeps the map, the queue and the subscriber.
LEMMA MapFrame ==
    ASSUME MapInv, TypeOK', UNCHANGED <<activeQueries, tasks>>,
           sub'.pc = "blockEvent" => sub.pc = "blockEvent" /\ sub'.todo \subseteq sub.todo
    PROVE  MapInv'
BY DEF MapInv, RegistryRespected

\* The parts of the type that most steps leave alone.
LEMMA SameTypes ==
    ASSUME TypeOK, UNCHANGED <<chain, neutronHeight, tasks, relayer>>,
           sub' \in SubType, cancelled' \in BOOLEAN, faults' \in 0 .. MaxFaults,
           events' \in [{"updated", "removed"} -> [unread : BOOLEAN, ids : SUBSET Ids]],
           newBlock' \in BOOLEAN, missed' \subseteq Ids,
           DOMAIN activeQueries' \subseteq Ids,
           \A q \in DOMAIN activeQueries' : activeQueries'[q] \in Query
    PROVE  TypeOK'
BY DEF TypeOK, SubType, Query

LEMMA FaultType ==
    ASSUME TypeOK, Fault \/ UNCHANGED faults
    PROVE  faults' \in 0 .. MaxFaults
BY SubscriberAssumption DEF TypeOK, Fault

LEMMA AdvanceType ==
    ASSUME TypeOK, NEW q \in sub.todo, Advance(q)
    PROVE  /\ sub' \in SubType
           /\ sub'.todo = sub.todo \ {q}
           /\ sub'.pc \in {sub.pc, "select"}
           /\ sub'.pc = sub.pc \/ sub'.todo = {}
BY DEF TypeOK, SubType, Advance

LEMMA StartMap ==
    ASSUME MapInv, SubscribeStep \/ SubscriberStops
    PROVE  MapInv'
<1>1. TypeOK /\ sub \in SubType
  BY DEF MapInv, TypeOK
<1>2. CASE ListPage
  <2>1. MapOK /\ sub' \in SubType /\ sub'.pc # "blockEvent" /\ missed' \subseteq Ids
    BY <1>2, ListPageMap
  <2>2. /\ faults' \in 0 .. MaxFaults
        /\ UNCHANGED <<chain, neutronHeight, tasks, relayer, events, newBlock, cancelled>>
    BY <1>1, <1>2, FaultType DEF ListPage, CallSucceeds, NeutronUnchanged, TasksUnchanged
  <2>3. TypeOK'
    BY <1>1, <2>1, <2>2, SameTypes DEF MapOK, TypeOK
  <2> QED
    BY <2>1, <2>2, <2>3 DEF MapOK, MapInv, RegistryRespected, Allowed
<1>3. CASE RpcSubscribe
  <2>1. sub' \in SubType /\ sub'.pc # "blockEvent" /\ UNCHANGED <<activeQueries, tasks>>
    BY <1>1, <1>3 DEF RpcSubscribe, SubscribeTo, SubType, TasksUnchanged
  <2>2. TypeOK'
    BY <1>1, <1>3, <2>1, SameTypes
    DEF RpcSubscribe, SubscribeTo, CallSucceeds, NeutronUnchanged, TasksUnchanged, TypeOK
  <2> QED BY <2>1, <2>2, MapFrame
<1>4. CASE SubscribeFails \/ SubscriberStops
  <2>1. Return /\ UNCHANGED <<chain, neutronHeight, tasks, relayer, activeQueries, missed>>
        /\ cancelled' \in BOOLEAN /\ (Fault \/ UNCHANGED faults)
    BY <1>1, <1>4
    DEF SubscribeFails, SubscriberStops, CallFails, NeutronUnchanged, TasksUnchanged, TypeOK
  <2>2. TypeOK' /\ sub'.pc # "blockEvent"
    BY <1>1, <2>1, ReturnType, FaultType, SameTypes DEF TypeOK
  <2> QED BY <2>1, <2>2, MapFrame
<1> QED BY <1>2, <1>3, <1>4 DEF SubscribeStep

LEMMA BlockMap ==
    ASSUME MapInv, BlockEvent \/ BlockStep
    PROVE  MapInv'
<1>1. TypeOK /\ sub \in SubType
  BY DEF MapInv, TypeOK
<1>2. CASE BlockEvent
  <2>1. sub' \in SubType /\ (sub'.pc = "blockEvent" => sub'.todo = DOMAIN activeQueries)
    <3>1. neutronHeight \in Nat /\ DOMAIN activeQueries \in SUBSET Ids
      BY <1>1 DEF TypeOK
    <3>2. CASE DOMAIN activeQueries = {}
      BY <1>1, <1>2, <3>2 DEF BlockEvent
    <3>3. CASE DOMAIN activeQueries # {}
      BY <1>1, <1>2, <3>1, <3>3 DEF BlockEvent, SubType
    <3> QED BY <3>2, <3>3
  <2>2. TypeOK'
    BY <1>1, <1>2, <2>1, SameTypes
    DEF BlockEvent, CallSucceeds, NeutronUnchanged, TasksUnchanged, TypeOK
  <2> QED
    BY <1>2, <2>1, <2>2 DEF BlockEvent, TasksUnchanged, MapInv, RegistryRespected
<1>3. ASSUME NEW q \in sub.todo, Skip(q)
      PROVE  MapInv'
  <2>1. TypeOK'
    BY <1>1, <1>3, AdvanceType, SameTypes DEF Skip, NeutronUnchanged, TasksUnchanged, TypeOK
  <2> QED BY <1>1, <1>3, <2>1, AdvanceType, MapFrame DEF Skip, TasksUnchanged
<1>4. ASSUME NEW q \in sub.todo, Enqueue(q)
      PROVE  MapInv'
  <2>1. q \in DOMAIN activeQueries /\ q \in Ids /\ q \in Allowed
    BY <1>4 DEF Enqueue, MapInv, TypeOK, RegistryRespected, Allowed
  <2>2. /\ activeQueries' = [activeQueries EXCEPT ![q].last = sub.height]
        /\ tasks' = Append(tasks, q) /\ Len(tasks) < Capacity
    BY <1>4 DEF Enqueue, Queued, HasRoom
  <2>3. /\ tasks \in Seq(Ids) /\ tasks' \in Seq(Ids) /\ Len(tasks') <= Capacity
        /\ \A i \in DOMAIN tasks' : tasks'[i] = q \/ \E j \in DOMAIN tasks : tasks'[i] = tasks[j]
    <3>1. tasks \in Seq(Ids) /\ Len(tasks) \in Nat /\ DOMAIN tasks = 1 .. Len(tasks)
      BY <1>1, LenProperties DEF TypeOK
    <3>2. /\ tasks' \in Seq(Ids) /\ Len(tasks') = Len(tasks) + 1
          /\ \A i \in 1 .. Len(tasks) : tasks'[i] = tasks[i]
          /\ tasks'[Len(tasks) + 1] = q
      BY <2>1, <2>2, <3>1, AppendProperties
    <3>3. DOMAIN tasks' = 1 .. Len(tasks) + 1
      BY <3>2, LenProperties
    <3>4. Len(tasks) + 1 <= Capacity
      BY <2>2, <3>1, SubscriberAssumption
    <3> QED BY <3>1, <3>2, <3>3, <3>4
  <2>4. /\ DOMAIN activeQueries' = DOMAIN activeQueries
        /\ \A p \in DOMAIN activeQueries : activeQueries'[p] \in Query
    BY <1>1, <2>1, <2>2 DEF TypeOK, Query, SubType
  <2>5. TypeOK'
    BY <1>1, <1>4, <2>3, <2>4, AdvanceType DEF Enqueue, NeutronUnchanged, TypeOK, SubType, Query
  <2>6. RegistryRespected'
    BY <2>1, <2>3, <2>4 DEF MapInv, RegistryRespected, Allowed
  <2> QED BY <1>1, <1>4, <2>4, <2>5, <2>6, AdvanceType DEF MapInv, Enqueue
<1> QED BY <1>2, <1>3, <1>4 DEF BlockStep

LEMMA UpdateMap ==
    ASSUME MapInv, UpdateEvent \/ UpdateStep \/ RemoveEvent
    PROVE  MapInv'
<1>1. TypeOK /\ sub \in SubType
  BY DEF MapInv, TypeOK
<1>2. CASE UpdateEvent
  <2>1. /\ sub' \in SubType /\ sub'.pc # "blockEvent"
        /\ events' \in [{"updated", "removed"} -> [unread : BOOLEAN, ids : SUBSET Ids]]
    BY <1>1, <1>2 DEF UpdateEvent, TypeOK, SubType, None
  <2>2. TypeOK'
    BY <1>1, <1>2, <2>1, SameTypes DEF UpdateEvent, NeutronUnchanged, TasksUnchanged, TypeOK
  <2> QED BY <1>2, <2>1, <2>2, MapFrame DEF UpdateEvent, TasksUnchanged
<1>3. ASSUME NEW q \in sub.todo, Fetch(q)
      PROVE  MapInv'
  <2> DEFINE found == Looked(Lookup(LookupRequest(q)))
  <2>1. q \in Ids /\ q \in WatchedAddress \cap WatchedQueryID
    BY <1>1, <1>3 DEF Fetch, ToFetch, SubType
  <2>2. found # {} => Entry(The(found)) \in Query
    BY <1>1, <2>1, LookedIs, ConvertedEntry, TheMember
  <2>3. activeQueries' = Saved(q, found)
    BY <1>3 DEF Fetch
  <2> HIDE DEF found
  <2>4. /\ DOMAIN activeQueries' \subseteq DOMAIN activeQueries \cup {q}
        /\ q \in DOMAIN activeQueries' => q \in DOMAIN activeQueries \/ q \in WatchedMsgType
        /\ \A p \in DOMAIN activeQueries' : activeQueries'[p] \in Query
    BY <1>1, <2>2, <2>3 DEF Saved, With, TypeOK
  <2>5. /\ missed' \subseteq Ids /\ faults' = faults
        /\ UNCHANGED <<chain, neutronHeight, tasks, relayer, events, newBlock, cancelled>>
    BY <1>1, <1>3 DEF Fetch, CallSucceeds, NeutronUnchanged, TasksUnchanged, TypeOK
  <2>6. TypeOK'
    <3>1. sub' \in SubType
      BY <1>1, <1>3, AdvanceType DEF Fetch
    <3>2. DOMAIN activeQueries' \subseteq Ids
      BY <1>1, <2>1, <2>4 DEF TypeOK
    <3> QED BY <1>1, <2>4, <2>5, <3>1, <3>2, SameTypes DEF TypeOK
  <2>7. RegistryRespected'
    BY <2>1, <2>4, <2>5 DEF MapInv, RegistryRespected
  <2>8. sub'.pc # "blockEvent"
    BY <1>1, <1>3, AdvanceType DEF Fetch, ToFetch
  <2> QED BY <2>6, <2>7, <2>8 DEF MapInv
<1>4. ASSUME NEW q \in sub.todo, FetchFails(q) \/ SkipUnwatched(q)
      PROVE  MapInv'
  <2>1. /\ sub' \in SubType /\ sub'.pc # "blockEvent" /\ q \in Ids
    BY <1>1, <1>4, AdvanceType DEF FetchFails, SkipUnwatched, ToFetch, SubType
  <2>2. /\ UNCHANGED <<chain, neutronHeight, tasks, relayer, events, newBlock, cancelled,
                       activeQueries>>
        /\ missed' \subseteq missed \cup {q} /\ (Fault \/ UNCHANGED faults)
    BY <1>4 DEF FetchFails, SkipUnwatched, CallFails, NeutronUnchanged, TasksUnchanged
  <2>3. TypeOK'
    BY <1>1, <2>1, <2>2, FaultType, SameTypes DEF TypeOK
  <2> QED BY <2>1, <2>2, <2>3, MapFrame
<1>5. CASE RemoveEvent
  <2> DEFINE ids == events["removed"].ids
  <2>1. /\ events' \in [{"updated", "removed"} -> [unread : BOOLEAN, ids : SUBSET Ids]]
        /\ UNCHANGED <<chain, neutronHeight, tasks, relayer, newBlock, cancelled, sub, faults>>
        /\ missed' \subseteq missed
        /\ DOMAIN activeQueries' \subseteq DOMAIN activeQueries
        /\ \A p \in DOMAIN activeQueries' : activeQueries'[p] = activeQueries[p]
    BY <1>1, <1>5 DEF RemoveEvent, Without, NeutronUnchanged, TasksUnchanged, TypeOK, None
  <2>2. TypeOK'
    BY <1>1, <2>1, SameTypes DEF TypeOK
  <2>3. sub.pc = "select"
    BY <1>5 DEF RemoveEvent
  <2> QED BY <2>1, <2>2, <2>3 DEF MapInv, RegistryRespected
<1> QED BY <1>2, <1>3, <1>4, <1>5 DEF UpdateStep

LEMMA PanicMap ==
    ASSUME MapInv, Panic
    PROVE  MapInv'
<1>1. TypeOK /\ sub' \in SubType /\ sub'.pc = "done"
      /\ events' \in [{"updated", "removed"} -> [unread : BOOLEAN, ids : SUBSET Ids]]
      /\ newBlock' \in BOOLEAN
  BY ReturnType DEF MapInv, Panic, Stopped
<1>2. DOMAIN activeQueries' = {}
  BY <1>1 DEF Panic, Stopped, Without, TypeOK
<1>3. tasks' = <<>> /\ <<>> \in Seq(Ids) /\ Len(<<>>) = 0 /\ DOMAIN <<>> = {}
  BY EmptySeq DEF Panic, Stopped
<1>4. faults' \in 0 .. MaxFaults
  BY <1>1, FaultType DEF Panic, NilQuery
<1>5. TypeOK'
  BY <1>1, <1>2, <1>3, <1>4, SubscriberAssumption DEF Panic, Stopped, NeutronUnchanged, TypeOK
<1> QED BY <1>1, <1>2, <1>3, <1>5 DEF MapInv, RegistryRespected

LEMMA RelayerMap ==
    ASSUME MapInv, RelayerStep \/ Cancel
    PROVE  MapInv'
<1>1. TypeOK
  BY DEF MapInv
<1>2. CASE TakeTask
  <2>1. /\ tasks \in Seq(Ids) /\ tasks # <<>> /\ Len(tasks) <= Capacity /\ tasks' = Tail(tasks)
        /\ relayer' = [pc |-> "busy", query |-> Head(tasks)]
        /\ UNCHANGED <<chain, neutronHeight, events, newBlock, sub, activeQueries, cancelled,
                       faults, missed>>
    BY <1>1, <1>2 DEF TakeTask, SubscriberUnchanged, NeutronUnchanged, TypeOK
  <2>2. /\ Head(tasks) \in Ids /\ tasks' \in Seq(Ids) /\ Len(tasks') = Len(tasks) - 1
        /\ \A i \in 1 .. Len(tasks') : tasks'[i] = tasks[i + 1]
    BY <2>1, HeadTailProperties
  <2>3. /\ DOMAIN tasks = 1 .. Len(tasks) /\ DOMAIN tasks' = 1 .. Len(tasks')
        /\ Len(tasks) \in Nat /\ Len(tasks') \in Nat
    BY <2>1, <2>2, LenProperties
  <2>4. Len(tasks') <= Capacity /\ \A i \in DOMAIN tasks' : i + 1 \in DOMAIN tasks
    BY <2>1, <2>2, <2>3, SubscriberAssumption
  <2>5. TypeOK'
    <3>1. relayer' \in [pc : {"idle", "busy", "done"}, query : {0} \cup Ids]
      BY <2>1, <2>2
    <3> QED BY <1>1, <2>1, <2>2, <2>4, <3>1 DEF TypeOK, SubType, Query
  <2>6. \A i \in DOMAIN tasks' : \E j \in DOMAIN tasks : tasks'[i] = tasks[j]
    BY <2>2, <2>3, <2>4
  <2> QED BY <2>1, <2>5, <2>6 DEF MapInv, RegistryRespected
<1>3. ASSUME NEW submitted \in BOOLEAN, EndTask(submitted)
      PROVE  MapInv'
  <2>1. /\ relayer' = [pc |-> "idle", query |-> 0]
        /\ UNCHANGED <<events, newBlock, sub, activeQueries, faults, missed, neutronHeight, tasks,
                       cancelled>>
    BY <1>3 DEF EndTask, SubscriberUnchanged
  <2>2. chain' \in [Ids -> [st : {"none", "live", "gone"}, period : Periods, last : Nat]]
    <3>1. /\ chain \in [Ids -> [st : {"none", "live", "gone"}, period : Periods, last : Nat]]
          /\ neutronHeight \in Nat
      BY <1>1 DEF TypeOK
    <3> QED BY <1>3, <3>1 DEF EndTask
  <2>3. TypeOK'
    BY <1>1, <2>1, <2>2 DEF TypeOK, SubType, Query
  <2> QED BY <2>1, <2>3, MapFrame
<1>4. CASE RelayerFails \/ RelayerStops \/ Cancel
  <2>1. /\ UNCHANGED <<chain, neutronHeight, events, newBlock, sub, activeQueries, tasks, missed>>
        /\ relayer' \in {relayer, [pc |-> "done", query |-> 0]}
        /\ cancelled' \in {cancelled, TRUE} /\ (Fault \/ UNCHANGED faults)
    BY <1>4
    DEF RelayerFails, RelayerStops, Cancel, SubscriberUnchanged, NeutronUnchanged, TasksUnchanged
  <2>2. TypeOK'
    <3>1. relayer' \in [pc : {"idle", "busy", "done"}, query : {0} \cup Ids]
      <4>1. [pc |-> "done", query |-> 0] \in [pc : {"idle", "busy", "done"}, query : {0} \cup Ids]
        OBVIOUS
      <4> QED BY <1>1, <2>1, <4>1 DEF TypeOK
    <3>2. cancelled' \in BOOLEAN
      BY <1>1, <2>1 DEF TypeOK
    <3>3. faults' \in 0 .. MaxFaults
      BY <1>1, <2>1, FaultType
    <3> QED BY <1>1, <2>1, <3>1, <3>2, <3>3 DEF TypeOK, SubType, Query
  <2> QED BY <2>1, <2>2, MapFrame
<1> QED BY <1>2, <1>3, <1>4 DEF RelayerStep

LEMMA NeutronMap ==
    ASSUME MapInv, NeutronStep
    PROVE  MapInv'
<1>1. TypeOK
  BY DEF MapInv
<1>2. ASSUME NEW tx \in Transactions, NeutronTx(tx)
      PROVE  MapInv'
  <2>1. UNCHANGED <<neutronHeight, newBlock, sub, activeQueries, tasks, relayer, cancelled, faults>>
    BY <1>2 DEF NeutronTx
  <2>2. DOMAIN tx \subseteq Ids
    BY SubscriberAssumption
  <2>3. chain' \in [Ids -> [st : {"none", "live", "gone"}, period : Periods, last : Nat]]
    <3>1. PICK period \in Periods :
            chain' = [q \in Ids |->
                        IF q \notin DOMAIN tx THEN chain[q]
                        ELSE IF tx[q] = "remove" THEN NoQuery("gone")
                        ELSE [chain[q] EXCEPT !.st = "live", !.period = period]]
      BY <1>2 DEF NeutronTx
    <3>2. NoQuery("gone") \in [st : {"none", "live", "gone"}, period : Periods, last : Nat]
      BY SubscriberAssumption DEF NoQuery
    <3>3. \A q \in Ids : chain[q] \in [st : {"none", "live", "gone"}, period : Periods, last : Nat]
      BY <1>1 DEF TypeOK
    <3>4. \A q \in Ids : [chain[q] EXCEPT !.st = "live", !.period = period]
            \in [st : {"none", "live", "gone"}, period : Periods, last : Nat]
      BY <3>3
    <3> QED BY ZenonT(60), <3>1, <3>2, <3>3, <3>4
  <2>4. events' \in [{"updated", "removed"} -> [unread : BOOLEAN, ids : SUBSET Ids]]
    BY <1>1, <1>2, <2>2 DEF NeutronTx, TypeOK
  <2>5. missed' \subseteq Ids
    BY <1>1, <1>2, <2>2 DEF NeutronTx, TypeOK
  <2>6. TypeOK'
    BY <1>1, <2>1, <2>3, <2>4, <2>5 DEF TypeOK, SubType, Query
  <2> QED BY <2>1, <2>6, MapFrame
<1>3. CASE NeutronBlock
  <2>1. /\ UNCHANGED <<chain, events, sub, activeQueries, tasks, relayer, cancelled, faults, missed>>
        /\ newBlock' \in BOOLEAN
    BY <1>1, <1>3 DEF NeutronBlock, TypeOK
  <2>2. neutronHeight' \in 1 .. MaxHeight
    BY <1>1, <1>3, SubscriberAssumption DEF NeutronBlock, TypeOK
  <2>3. TypeOK'
    BY <1>1, <2>1, <2>2 DEF TypeOK, SubType, Query
  <2> QED BY <2>1, <2>3, MapFrame
<1> QED BY <1>2, <1>3 DEF NeutronStep

LEMMA MapStep == MapInv /\ [Next]_vars => MapInv'
<1> SUFFICES ASSUME MapInv, [Next]_vars PROVE MapInv'
  OBVIOUS
<1>1. CASE SubscriberStep
  BY <1>1, StartMap, BlockMap, UpdateMap DEF SubscriberStep
<1>2. CASE Panic
  BY <1>2, PanicMap
<1>3. CASE RelayerStep \/ Cancel
  BY <1>3, RelayerMap
<1>4. CASE NeutronStep
  BY <1>4, NeutronMap
<1>5. CASE UNCHANGED vars
  BY <1>5 DEF vars, MapInv, TypeOK, RegistryRespected
<1> QED BY <1>1, <1>2, <1>3, <1>4, <1>5 DEF Next

THEOREM MapCorrect == Spec => []MapInv
BY MapInit, MapStep, PTL DEF Spec

\* The components of the state keep the shapes declared for them: the queue
\* its capacity, the cursor a number, the map entries of queries.
THEOREM SubscriberTypeCorrect == Spec => []TypeOK
<1>1. MapInv => TypeOK
  BY DEF MapInv
<1> QED BY <1>1, MapCorrect, PTL

\* A query outside the registry, or of a type that is not watched, is
\* never scheduled, whether the listing, an event or a disturbed answer of
\* Neutron's node told of it.
THEOREM RegistryCorrect == Spec => []RegistryRespected
<1>1. MapInv => RegistryRespected
  BY DEF MapInv
<1> QED BY <1>1, MapCorrect, PTL

----------------------------------------------------------------------------
(***************************************************************************)
(* The mirror.  Of a watched query that was not missed, the map lacks      *)
(* nothing but what an unread event, or the handler of one, still has in   *)
(* store.                                                                  *)
(***************************************************************************)
Unread(kind, q) == events[kind].unread /\ q \in events[kind].ids

\* The subscriber is still to ask for the query.
Told(q) == Unread("updated", q) \/ (sub.pc = "updateEvent" /\ q \in sub.todo)

Mirrored(q) ==
    /\ q \in Watched \ missed =>
         /\ Live(q) /\ ~StillToList(q) => q \in DOMAIN activeQueries \/ Told(q)
         /\ q \in DOMAIN activeQueries =>
              IF Live(q) THEN activeQueries[q].period = chain[q].period \/ Told(q)
              ELSE Unread("removed", q)
    /\ Unread("removed", q) => chain[q].st = "gone"
    /\ q \in DOMAIN activeQueries => ~StillToList(q)

MirrorInv == sub.pc # "done" => \A q \in Ids : Mirrored(q)

LEMMA MirrorInit == Init => MirrorInv
<1> SUFFICES ASSUME Init, NEW q \in Ids PROVE Mirrored(q)
  BY DEF MirrorInv
<1>1. StillToList(q)
  <2>1. sub.pc = "list" /\ sub.cursor = 0
    BY DEF Init
  <2>2. q \in Nat /\ q # 0
    BY IdsAre
  <2> QED BY <2>1, <2>2 DEF StillToList
<1>2. ~Unread("removed", q) /\ q \notin DOMAIN activeQueries
  BY DEF Init, Unread, None
<1> QED BY <1>1, <1>2 DEF Mirrored

\* The listing asks for exactly what is still to list.
LEMMA RestIs ==
    ASSUME TypeOK, NEW q \in Ids, sub.pc = "list"
    PROVE  q \in Rest(ListRequest) <=>
             Live(q) /\ StillToList(q) /\ q \in WatchedAddress \cap Connection
<1> DEFINE key == IF sub.cursor = 0 THEN {} ELSE {sub.cursor}
           params == RegisteredQueriesParams(Addresses, {Connection}, key)
<1>1. /\ params.connection_id = {Connection} /\ params.owners = Addresses
      /\ params.pagination_key = key
      /\ DOMAIN params = {"owners", "connection_id", "pagination_key"}
  BY DEF RegisteredQueriesParams
<1>2. ListRequest = [p \in {p \in DOMAIN params : params[p] # {}} |-> params[p]]
  BY DEF ListRequest, WriteToRequest
<1> HIDE DEF params
<1>3. "connection_id" \in DOMAIN ListRequest /\ The(ListRequest.connection_id) = Connection
  BY <1>1, <1>2, TheOne
<1>4. ("owners" \in DOMAIN ListRequest => OwnerOf[q] \in ListRequest.owners)
        <=> q \in WatchedAddress
  <2>1. "owners" \in DOMAIN ListRequest <=> Addresses # {}
    BY <1>1, <1>2
  <2>2. Addresses # {} => ListRequest.owners = Addresses
    BY <1>1, <1>2
  <2> QED BY <2>1, <2>2 DEF WatchedAddress
<1>5. ("pagination_key" \in DOMAIN ListRequest => q > The(ListRequest.pagination_key))
        <=> StillToList(q)
  <2>1. q \in Nat /\ q # 0 /\ sub.cursor \in Nat
    BY IdsAre DEF TypeOK, SubType
  <2>2. CASE sub.cursor = 0
    <3>1. "pagination_key" \notin DOMAIN ListRequest
      BY <1>1, <1>2, <2>2
    <3> QED BY <2>1, <2>2, <3>1 DEF StillToList
  <2>3. CASE sub.cursor # 0
    <3>1. /\ "pagination_key" \in DOMAIN ListRequest
          /\ ListRequest.pagination_key = {sub.cursor}
      BY <1>1, <1>2, <2>3
    <3> QED BY <2>1, <2>3, <3>1, TheOne DEF StillToList
  <2> QED BY <2>2, <2>3
<1> QED BY <1>3, <1>4, <1>5 DEF Rest

\* A query that Neutron shows is one the client reads.
LEMMA ItemRead ==
    ASSUME NEW q
    PROVE  ToNeutronRegisteredQuery(Item(q)) = {Converted(q)}
<1> DEFINE o == Item(q)
<1>1. /\ o.id = {q} /\ o.update_period = {chain[q].period} /\ o.last_local_height = {chain[q].last}
      /\ o.last_remote_height = {} \/ o.last_remote_height = {[number |-> {0}, height |-> {0}]}
  BY DEF Item, RegisteredQueryItem
<1> HIDE DEF o
<1> DEFINE remote == IF o.last_remote_height = {} THEN [number |-> {0}, height |-> {0}]
                     ELSE The(o.last_remote_height)
<1>2. remote = [number |-> {0}, height |-> {0}]
  BY <1>1, TheOne
<1>3. {} \notin {o.id, o.update_period, o.last_local_height, remote.number, remote.height}
  <2>1. remote.number = {0} /\ remote.height = {0}
    BY <1>2
  <2> HIDE DEF remote
  <2> QED BY <1>1, <2>1
<1>4. ToNeutronRegisteredQuery(o) =
        {[id |-> The(o.id), period |-> The(o.update_period), last |-> The(o.last_local_height)]}
  BY <1>3 DEF ToNeutronRegisteredQuery
<1>5. /\ The(o.id) = q /\ The(o.update_period) = chain[q].period
      /\ The(o.last_local_height) = chain[q].last
  BY <1>1, TheOne
<1> QED BY <1>4, <1>5 DEF Converted, o

\* A page holds every query up to the one its key names, and none beyond.
LEMMA PageComplete ==
    ASSUME TypeOK, NEW payload, payload = Served(ListRequest)
    PROVE  /\ \A q \in Rest(ListRequest) :
                /\ payload.next_key = {} \/ q <= The(payload.next_key)
                /\ q \in WatchedQueryID \cap WatchedMsgType
                => Converted(q) \in FromPage(payload)
           /\ payload.next_key # {} =>
                \A r \in FromPage(payload) : r.id <= The(payload.next_key)
<1> DEFINE rest == Rest(ListRequest)
           Before(q) == {p \in rest : p < q}
           page == {q \in rest : Cardinality(Before(q)) < PageLimit}
           key == CHOOSE q \in page : \A p \in page : p <= q
<1>1. /\ payload.registered_queries = {Item(q) : q \in page}
      /\ payload.next_key = IF page = rest THEN {} ELSE {key}
  BY DEF Served
<1>2. rest \subseteq Ids /\ page \subseteq rest /\ IsFiniteSet(rest) /\ IsFiniteSet(page)
  <2>1. rest \subseteq Ids /\ page \subseteq rest
    BY RestIsWatched
  <2> QED BY <2>1, IdsAre, FS_Subset
<1>3. \A q \in rest : q \in Nat
  BY <1>2, IdsAre
<1>4. payload.next_key # {} => key \in page /\ (\A p \in page : p <= key)
                               /\ The(payload.next_key) = key
  <2> SUFFICES ASSUME payload.next_key # {}
               PROVE  key \in page /\ (\A p \in page : p <= key) /\ The(payload.next_key) = key
    OBVIOUS
  <2>1. page # rest /\ payload.next_key = {key}
    BY <1>1
  <2>2. page # {}
    <3>1. PICK q \in rest : \A p \in rest : q <= p
      BY <1>2, <2>1, IdsAre, FirstExists
    <3>2. Before(q) = {}
      <4>1. \A p \in rest : ~(p < q)
        BY <3>1, <1>3
      <4> QED BY <4>1
    <3>3. Cardinality(Before(q)) = 0
      BY <3>2, FS_EmptySet
    <3> QED BY <3>3, SubscriberAssumption
  <2>3. \E q \in page : \A p \in page : p <= q
    BY <1>2, <2>2, IdsAre, LastExists
  <2> HIDE DEF page, rest
  <2>4. key \in page /\ \A p \in page : p <= key
    BY <2>3
  <2> QED BY <2>1, <2>4, TheOne
<1>5. ASSUME NEW q \in rest, payload.next_key = {} \/ q <= The(payload.next_key)
      PROVE  q \in page
  <2>1. CASE payload.next_key = {}
    BY <1>1, <2>1
  <2>2. CASE payload.next_key # {}
    <3>1. key \in rest /\ q <= key /\ Cardinality(Before(key)) < PageLimit
      BY <1>4, <1>5, <2>2
    <3> HIDE DEF key
    <3>2. Before(q) \subseteq Before(key) /\ Before(key) \subseteq rest
      BY <1>3, <3>1
    <3>3. IsFiniteSet(Before(key))
      BY <1>2, <3>2, FS_Subset
    <3>4. /\ Cardinality(Before(q)) <= Cardinality(Before(key))
          /\ Cardinality(Before(key)) \in Nat /\ Cardinality(Before(q)) \in Nat
      <4> HIDE DEF Before
      <4> QED BY <3>2, <3>3, FS_Subset, FS_CardinalityType
    <3>5. Cardinality(Before(q)) < PageLimit
      <4> HIDE DEF Before
      <4> QED BY <3>1, <3>4, SubscriberAssumption
    <3> QED BY <3>5
  <2> QED BY <2>1, <2>2
<1>6. ASSUME NEW q \in rest, payload.next_key = {} \/ q <= The(payload.next_key),
             q \in WatchedQueryID \cap WatchedMsgType
      PROVE  Converted(q) \in FromPage(payload)
  <2>1. Item(q) \in payload.registered_queries
    BY <1>1, <1>5, <1>6
  <2>2. Converted(q) \in ToNeutronRegisteredQuery(Item(q)) /\ Converted(q).id = q
    BY ItemRead DEF Converted
  <2> QED BY <1>6, <2>1, <2>2 DEF FromPage
<1>7. ASSUME payload.next_key # {}, NEW r \in FromPage(payload)
      PROVE  r.id <= The(payload.next_key)
  <2>1. PICK q \in page : r \in ToNeutronRegisteredQuery(Item(q))
    BY <1>1 DEF FromPage
  <2>2. r.id = q
    BY <2>1, ItemRead DEF Converted
  <2> HIDE DEF page
  <2> QED BY <1>4, <1>7, <2>1, <2>2
<1> QED BY <1>6, <1>7

\* An undisturbed answer is the page; a disturbed one that is accepted has
\* code 200.
LEMMA AnswerTells ==
    ASSUME NEW answer \in {Good(Served(ListRequest))} \cup Disturbed(RegisteredQueriesOKBody),
           NEW payload \in NeutronInterchainQueriesRegisteredQueries(answer)
    PROVE  \/ payload = Served(ListRequest)
           \/ answer # Good(Served(ListRequest)) /\ answer.code = 200
<1>1. CASE answer = Good(Served(ListRequest))
  <2>1. Consume(answer, RegisteredQueriesOKBody) = {Served(ListRequest)} /\ answer.code = 200
    BY <1>1 DEF Good, Answer, Consume
  <2>2. payload = Served(ListRequest)
    <3>1. Payload(ReadResponse(answer, RegisteredQueriesOKBody)) = {Served(ListRequest)}
      BY <2>1, OKIsRead
    <3> QED BY <3>1 DEF NeutronInterchainQueriesRegisteredQueries, RegisteredQueriesReader
  <2> QED BY <1>1, <2>2
<1>2. CASE answer # Good(Served(ListRequest))
  <2>1. /\ answer.body \in {"object", "nothing", "garbled"}
        /\ answer.payload = RegisteredQueriesOKBody
        /\ answer.code \in {200, 204, 500}
    BY <1>2 DEF Disturbed, Answer
  <2>2. answer.code = 200
    <3>1. PICK r \in ReadResponse(answer, RegisteredQueriesOKBody) : r.type = "OK"
      BY DEF NeutronInterchainQueriesRegisteredQueries, RegisteredQueriesReader, Payload
    <3> QED BY <3>1 DEF ReadResponse, Success
  <2> QED BY <1>2, <2>2
<1> QED BY <1>1, <1>2

LEMMA MirrorPage ==
    ASSUME MapInv, MirrorInv, ListPage
    PROVE  MirrorInv'
<1>1. TypeOK /\ sub.pc = "list" /\ sub.cursor \in Nat /\ sub \in SubType
  BY DEF MapInv, TypeOK, SubType, ListPage
<1>2. PICK answer \in {Good(Served(ListRequest))} \cup Disturbed(RegisteredQueriesOKBody) :
      \E payload \in NeutronInterchainQueriesRegisteredQueries(answer) :
         /\ LET found == FromPage(payload) IN
            activeQueries' = [q \in DOMAIN activeQueries \cup {r.id : r \in found} |->
                                IF \E r \in found : r.id = q
                                THEN Entry(CHOOSE r \in found : r.id = q) ELSE activeQueries[q]]
         /\ sub' = IF payload.next_key = {}
                   THEN [sub EXCEPT !.pc = "subUpdated", !.cursor = 0]
                   ELSE [sub EXCEPT !.cursor = The(payload.next_key)]
         /\ missed' = IF answer # Good(Served(ListRequest)) /\ answer.code = 200
                      THEN missed \cup Rest(ListRequest) ELSE missed
  BY ZenonT(60) DEF ListPage
<1>3. PICK payload \in NeutronInterchainQueriesRegisteredQueries(answer) :
         /\ LET found == FromPage(payload) IN
            activeQueries' = [q \in DOMAIN activeQueries \cup {r.id : r \in found} |->
                                IF \E r \in found : r.id = q
                                THEN Entry(CHOOSE r \in found : r.id = q) ELSE activeQueries[q]]
         /\ sub' = IF payload.next_key = {}
                   THEN [sub EXCEPT !.pc = "subUpdated", !.cursor = 0]
                   ELSE [sub EXCEPT !.cursor = The(payload.next_key)]
         /\ missed' = IF answer # Good(Served(ListRequest)) /\ answer.code = 200
                      THEN missed \cup Rest(ListRequest) ELSE missed
  BY <1>2
<1> DEFINE found == FromPage(payload)
<1>4. UNCHANGED <<chain, events>>
  BY DEF ListPage, NeutronUnchanged
<1>5. /\ sub'.pc = IF payload.next_key = {} THEN "subUpdated" ELSE "list"
      /\ payload.next_key # {} => sub'.cursor = The(payload.next_key)
  BY <1>1, <1>3 DEF SubType
<1>6. \A r \in found : \E q \in Rest(ListRequest) : r = Converted(q)
  BY <1>1, PageIs
<1>7. payload.next_key # {} =>
        /\ The(payload.next_key) \in Ids /\ The(payload.next_key) > sub.cursor
        /\ \A r \in found : r.id <= The(payload.next_key)
  <2> SUFFICES ASSUME payload.next_key # {}
               PROVE  /\ The(payload.next_key) \in Ids /\ The(payload.next_key) > sub.cursor
                      /\ \A r \in found : r.id <= The(payload.next_key)
    OBVIOUS
  <2>1. payload = Served(ListRequest)
    BY AnswerIs, EmptyPage
  <2>2. The(payload.next_key) \in Rest(ListRequest)
    BY <1>1, PageIs
  <2>3. The(payload.next_key) \in Ids
    BY <2>2, RestIsWatched
  <2> QED BY <1>1, <2>1, <2>2, <2>3, RestIs, PageComplete DEF StillToList
<1>8. \A q \in Ids : StillToList(q)' <=>
                       payload.next_key # {} /\ q > The(payload.next_key)
  BY <1>5 DEF StillToList
<1>9. SUFFICES ASSUME NEW q \in Ids PROVE Mirrored(q)'
  BY DEF MirrorInv
<1>10. Mirrored(q)
  BY <1>1 DEF MirrorInv
<1>11. /\ Told(q)' <=> Told(q)
       /\ Unread("removed", q)' <=> Unread("removed", q)
       /\ Live(q)' <=> Live(q)
  <2>1. sub.pc # "updateEvent" /\ sub'.pc # "updateEvent"
    BY <1>1, <1>5
  <2>2. events' = events /\ chain' = chain
    BY <1>4
  <2>3. Live(q)' <=> Live(q)
    BY <2>2 DEF Live
  <2>4. Unread("removed", q)' <=> Unread("removed", q)
    BY <2>2 DEF Unread
  <2>5. Told(q)' <=> Told(q)
    BY <2>1, <2>2 DEF Told, Unread
  <2> QED BY <2>3, <2>4, <2>5
<1>12. StillToList(q)' => StillToList(q)
  <2> SUFFICES ASSUME StillToList(q)' PROVE StillToList(q)
    OBVIOUS
  <2>1. q \in Nat /\ \A i \in Ids : i \in Nat
    BY IdsAre
  <2>2. \E i \in Ids : i > sub.cursor /\ q > i
    BY <1>7, <1>8
  <2>3. q > sub.cursor
    BY <1>1, <2>1, <2>2
  <2> QED BY <1>1, <2>3 DEF StillToList
<1>13. CASE \E r \in found : r.id = q
  <2>1. q \in DOMAIN activeQueries'
        /\ activeQueries'[q] = Entry(CHOOSE r \in found : r.id = q)
    BY <1>3, <1>13
  <2>2. \A r \in found : r.id = q => r = Converted(q)
    BY <1>6 DEF Converted
  <2>3. activeQueries'[q].period = chain[q].period
    BY <1>1, <1>13, <2>1, <2>2, ConvertedEntry
  <2>4. Live(q)
    BY <1>6, <1>13, RestIsWatched DEF Converted
  <2>5. ~StillToList(q)'
    <3>1. payload.next_key # {} => q <= The(payload.next_key)
      BY <1>7, <1>13
    <3> QED BY <1>7, <1>8, <3>1, IdsAre
  <2> QED BY <1>4, <1>10, <1>11, <2>1, <2>3, <2>4, <2>5 DEF Mirrored
<1>14. CASE ~\E r \in found : r.id = q
  <2>1. /\ q \in DOMAIN activeQueries' <=> q \in DOMAIN activeQueries
        /\ q \in DOMAIN activeQueries => activeQueries'[q] = activeQueries[q]
    BY <1>3, <1>14
  <2>2. ASSUME Live(q), ~StillToList(q)', StillToList(q), q \in Watched
        PROVE  q \in missed'
    <3>1. q \in Rest(ListRequest) /\ q \in WatchedQueryID \cap WatchedMsgType
      BY <1>1, <2>2, RestIs DEF Watched
    <3>2. payload.next_key = {} \/ q <= The(payload.next_key)
      <4>1. payload.next_key # {} => ~(q > The(payload.next_key))
        BY <1>8, <2>2
      <4>2. payload.next_key # {} => The(payload.next_key) \in Nat
        BY <1>7, IdsAre
      <4>3. q \in Nat
        BY IdsAre
      <4> QED BY <4>1, <4>2, <4>3
    <3>3. payload # Served(ListRequest)
      <4>1. SUFFICES ASSUME payload = Served(ListRequest) PROVE FALSE
        OBVIOUS
      <4>2. Converted(q) \in found /\ Converted(q).id = q
        BY <1>1, <3>1, <3>2, <4>1, PageComplete DEF Converted
      <4> QED BY <1>14, <4>2
    <3>4. answer # Good(Served(ListRequest)) /\ answer.code = 200
      BY <3>3, AnswerTells
    <3> QED BY <1>3, <3>1, <3>4
  <2>3. missed \subseteq missed'
    BY <1>3
  <2> QED BY <1>4, <1>10, <1>11, <1>12, <2>1, <2>2, <2>3 DEF Mirrored
<1> QED BY <1>13, <1>14

\* A step that leaves alone what the mirror shows of the query, or forgets
\* that the subscriber was told of it where that is no loss.
SameFor(q) ==
    /\ chain'[q].st = chain[q].st /\ chain'[q].period = chain[q].period
    /\ q \in DOMAIN activeQueries' <=> q \in DOMAIN activeQueries
    /\ q \in DOMAIN activeQueries => activeQueries'[q].period = activeQueries[q].period
    /\ q \in missed => q \in missed'
    /\ StillToList(q)' <=> StillToList(q)
    /\ Unread("removed", q)' <=> Unread("removed", q)
    /\ Told(q) => Told(q)' \/ q \in missed' \/ q \notin Watched

LEMMA MirrorSame ==
    ASSUME NEW q, Mirrored(q), SameFor(q)
    PROVE  Mirrored(q)'
<1>1. Live(q)' <=> Live(q)
  BY DEF SameFor, Live
<1>2. (Unread("removed", q) => chain[q].st = "gone")' /\ (q \in DOMAIN activeQueries => ~StillToList(q))'
  BY DEF Mirrored, SameFor
<1>3. ASSUME q \in Watched, q \notin missed', Live(q)', ~StillToList(q)'
      PROVE  (q \in DOMAIN activeQueries \/ Told(q))'
  BY <1>1, <1>3 DEF Mirrored, SameFor
<1>4. ASSUME q \in Watched, q \notin missed', q \in DOMAIN activeQueries'
      PROVE  IF Live(q)' THEN activeQueries'[q].period = chain'[q].period \/ Told(q)'
             ELSE Unread("removed", q)'
  BY <1>1, <1>4 DEF Mirrored, SameFor
<1>5. Watched' = Watched
  BY DEF Watched, WatchedAddress, WatchedQueryID
<1> QED BY <1>2, <1>3, <1>4, <1>5 DEF Mirrored

LEMMA MirrorFrame ==
    ASSUME MirrorInv, sub.pc = "done" => sub'.pc = "done",
           sub'.pc # "done" => \A q \in Ids : SameFor(q)
    PROVE  MirrorInv'
BY MirrorSame DEF MirrorInv

LEMMA AdvanceTells ==
    ASSUME TypeOK, NEW p \in sub.todo, Advance(p), events' = events,
           sub.pc \in {"blockEvent", "updateEvent"}, NEW q \in Ids
    PROVE  /\ StillToList(q)' <=> StillToList(q)
           /\ Unread("removed", q)' <=> Unread("removed", q)
           /\ Told(q)' <=> (Told(q) /\ (q # p \/ Unread("updated", q) \/ sub.pc = "blockEvent"))
<1>1. /\ sub'.pc \in {sub.pc, "select"} /\ sub'.todo = sub.todo \ {p}
      /\ sub'.pc = sub.pc \/ sub'.todo = {}
  BY AdvanceType
<1>2. StillToList(q)' <=> StillToList(q)
  BY <1>1 DEF StillToList
<1>3. Unread("removed", q)' <=> Unread("removed", q)
  BY DEF Unread
<1>4. Told(q)' <=> (Told(q) /\ (q # p \/ Unread("updated", q) \/ sub.pc = "blockEvent"))
  BY <1>1 DEF Told, Unread
<1> QED BY <1>2, <1>3, <1>4

LEMMA MirrorBlock ==
    ASSUME MapInv, MirrorInv, BlockEvent \/ BlockStep
    PROVE  MirrorInv'
<1>1. TypeOK /\ sub \in SubType
  BY DEF MapInv, TypeOK
<1>2. CASE BlockEvent
  <2>1. /\ UNCHANGED <<chain, events, activeQueries, missed>>
        /\ sub.pc = "select" /\ sub'.pc \in {"select", "blockEvent"}
    BY <1>1, <1>2 DEF BlockEvent, NeutronUnchanged, SubType
  <2>2. \A q \in Ids : SameFor(q)
    BY <2>1 DEF SameFor, StillToList, Unread, Told
  <2> QED BY <2>1, <2>2, MirrorFrame
<1>3. ASSUME NEW p \in sub.todo, Skip(p) \/ Enqueue(p)
      PROVE  MirrorInv'
  <2>1. /\ UNCHANGED <<chain, events, missed>> /\ Advance(p) /\ sub.pc = "blockEvent"
        /\ \/ activeQueries' = activeQueries
           \/ activeQueries' = [activeQueries EXCEPT ![p].last = sub.height]
    BY <1>3 DEF Skip, Enqueue, NeutronUnchanged
  <2>2. /\ DOMAIN activeQueries' = DOMAIN activeQueries
        /\ \A q \in DOMAIN activeQueries : activeQueries'[q].period = activeQueries[q].period
    <3>1. \A q \in DOMAIN activeQueries : activeQueries[q] \in [period : Periods \cup Nat, last : Nat]
      BY <1>1 DEF TypeOK, Query
    <3> QED BY <2>1, <3>1
  <2>3. ASSUME NEW q \in Ids
        PROVE  SameFor(q)
    <3>1. /\ StillToList(q)' <=> StillToList(q)
          /\ Unread("removed", q)' <=> Unread("removed", q)
          /\ Told(q)' <=> Told(q)
      BY <1>1, <2>1, AdvanceTells
    <3> QED BY <2>1, <2>2, <3>1 DEF SameFor
  <2> QED BY <2>1, <2>3, MirrorFrame
<1> QED BY <1>2, <1>3 DEF BlockStep

\* Neutron answers for a registered query with the query.
LEMMA LookedHas ==
    ASSUME NEW q, Live(q)
    PROVE  Looked(Lookup(LookupRequest(q))) = {Converted(q)}
<1> DEFINE object == [registered_query |-> {Item(q)}]
           answer == Good(object)
<1>1. LookupRequest(q).query_id = {q}
  BY DEF LookupRequest, WriteToRequest, RegisteredQueryParams
<1>2. Lookup(LookupRequest(q)) = answer
  BY <1>1, TheOne DEF Lookup
<1>3. Consume(answer, RegisteredQueryOKBody) = {object} /\ answer.code = 200
  BY DEF Good, Answer, Consume
<1>4. object.registered_query = {Item(q)}
  OBVIOUS
<1> HIDE DEF answer, object
<1>5. Payload(ReadResponse(answer, RegisteredQueryOKBody)) = {object}
  BY <1>3, OKIsRead
<1>6. Looked(answer) = ToNeutronRegisteredQuery(Item(q))
  <2>1. NeutronInterchainQueriesRegisteredQuery(answer) = {object}
    BY <1>5 DEF NeutronInterchainQueriesRegisteredQuery, RegisteredQueryReader
  <2> QED BY <1>4, <2>1 DEF Looked
<1> QED BY <1>2, <1>6, ItemRead DEF object

LEMMA MirrorFetch ==
    ASSUME MapInv, MirrorInv, NEW p \in sub.todo, Fetch(p)
    PROVE  MirrorInv'
<1> DEFINE found == Looked(Lookup(LookupRequest(p)))
<1>1. TypeOK /\ p \in Ids /\ sub.pc = "updateEvent"
  BY DEF MapInv, TypeOK, SubType, Fetch, ToFetch
<1>2. /\ UNCHANGED <<chain, events>> /\ Advance(p)
      /\ activeQueries' = Saved(p, found)
      /\ missed' = IF found # {} THEN missed \ {p} ELSE missed
  BY DEF Fetch, NeutronUnchanged
<1>3. SUFFICES ASSUME NEW q \in Ids PROVE Mirrored(q)'
  BY DEF MirrorInv
<1>4. Mirrored(q)
  BY <1>1 DEF MirrorInv
<1>5. /\ StillToList(q)' <=> StillToList(q)
      /\ Unread("removed", q)' <=> Unread("removed", q)
      /\ Told(q)' <=> (Told(q) /\ (q # p \/ Unread("updated", q)))
  BY <1>1, <1>2, AdvanceTells
<1>6. CASE q # p
  <2>1. /\ q \in DOMAIN activeQueries' <=> q \in DOMAIN activeQueries
        /\ q \in DOMAIN activeQueries => activeQueries'[q] = activeQueries[q]
    BY <1>2, <1>6 DEF Saved, With
  <2>2. SameFor(q)
    BY <1>2, <1>5, <1>6, <2>1 DEF SameFor
  <2> QED BY <1>4, <2>2, MirrorSame
<1>7. CASE q = p /\ Live(p)
  <2>1. found = {Converted(p)}
    BY <1>7, LookedHas
  <2>2. q \in WatchedMsgType => /\ q \in DOMAIN activeQueries'
                                /\ activeQueries'[q] = Entry(Converted(p))
    BY <1>2, <1>7, <2>1, TheOne DEF Saved, With
  <2>3. Entry(Converted(p)).period = chain[p].period
    BY DEF Entry, Converted
  <2>4. Live(q)' /\ ~StillToList(q)'
    BY <1>1, <1>2, <1>5, <1>7 DEF Live, StillToList
  <2>5. (Unread("removed", q) => chain[q].st = "gone")'
    BY <1>2, <1>4, <1>5 DEF Mirrored
  <2>6. Watched' = Watched /\ Watched \subseteq WatchedMsgType
    BY DEF Watched, WatchedAddress, WatchedQueryID
  <2> QED BY <1>2, <1>7, <2>2, <2>3, <2>4, <2>5, <2>6 DEF Mirrored
<1>8. CASE q = p /\ ~Live(p)
  <2>1. found = {}
    BY <1>8, LookedIs
  <2>2. activeQueries' = activeQueries /\ missed' = missed
    BY <1>2, <2>1 DEF Saved
  <2>3. ~Live(q)'
    BY <1>2, <1>8 DEF Live
  <2> QED BY <1>2, <1>4, <1>5, <1>8, <2>2, <2>3 DEF Mirrored, Watched, WatchedAddress, WatchedQueryID
<1> QED BY <1>6, <1>7, <1>8

LEMMA MirrorUpdate ==
    ASSUME MapInv, MirrorInv, UpdateEvent \/ UpdateStep
    PROVE  MirrorInv'
<1>1. TypeOK /\ sub \in SubType
  BY DEF MapInv, TypeOK
<1>2. CASE UpdateEvent
  <2>1. /\ UNCHANGED <<chain, activeQueries, missed>>
        /\ events' = [events EXCEPT !["updated"] = None]
        /\ sub.pc = "select" /\ sub'.pc = "updateEvent" /\ sub'.todo = events["updated"].ids
    BY <1>1, <1>2 DEF UpdateEvent, NeutronUnchanged, SubType
  <2>2. events'["removed"] = events["removed"]
    BY <1>1, <2>1 DEF TypeOK
  <2>3. \A q \in Ids : SameFor(q)
    BY <2>1, <2>2 DEF SameFor, StillToList, Unread, Told
  <2> QED BY <2>1, <2>3, MirrorFrame
<1>3. ASSUME NEW p \in sub.todo, FetchFails(p) \/ SkipUnwatched(p)
      PROVE  MirrorInv'
  <2>1. /\ UNCHANGED <<chain, events, activeQueries>> /\ Advance(p) /\ sub.pc = "updateEvent"
        /\ missed \subseteq missed' /\ (p \in missed' \/ p \notin Watched)
    BY <1>3 DEF FetchFails, SkipUnwatched, ToFetch, NeutronUnchanged, Watched
  <2>2. ASSUME NEW q \in Ids
        PROVE  SameFor(q)
    <3>1. /\ StillToList(q)' <=> StillToList(q)
          /\ Unread("removed", q)' <=> Unread("removed", q)
          /\ Told(q)' <=> (Told(q) /\ (q # p \/ Unread("updated", q)))
      BY <1>1, <2>1, AdvanceTells
    <3> QED BY <2>1, <3>1 DEF SameFor
  <2> QED BY <2>1, <2>2, MirrorFrame
<1> QED BY <1>2, <1>3, MirrorFetch DEF UpdateStep

LEMMA MirrorRemove ==
    ASSUME MapInv, MirrorInv, RemoveEvent
    PROVE  MirrorInv'
<1>1. TypeOK /\ sub.pc = "select"
  BY DEF MapInv, RemoveEvent
<1> DEFINE ids == events["removed"].ids
<1>2. /\ UNCHANGED <<chain, sub>> /\ events["removed"].unread
      /\ events' = [events EXCEPT !["removed"] = None]
      /\ activeQueries' = Without(ids)
      /\ missed' = missed \ {q \in ids : ~Live(q)}
  BY DEF RemoveEvent, NeutronUnchanged
<1>3. events'["removed"] = None /\ events'["updated"] = events["updated"]
  BY <1>1, <1>2 DEF TypeOK
<1>4. SUFFICES ASSUME NEW q \in Ids PROVE Mirrored(q)'
  BY DEF MirrorInv
<1>5. Mirrored(q)
  BY <1>1 DEF MirrorInv
<1>6. /\ Told(q)' <=> Told(q)
      /\ ~Unread("removed", q)'
      /\ Live(q)' <=> Live(q)
      /\ ~StillToList(q) /\ ~StillToList(q)'
  BY <1>1, <1>2, <1>3 DEF Told, Unread, Live, StillToList, None
<1>7. CASE q \in ids
  <2>1. q \notin DOMAIN activeQueries'
    BY <1>2, <1>7 DEF Without
  <2>2. ~Live(q)
    BY <1>2, <1>5, <1>7 DEF Mirrored, Unread, Live
  <2> QED BY <1>6, <2>1, <2>2 DEF Mirrored
<1>8. CASE q \notin ids
  <2>1. /\ q \in DOMAIN activeQueries' <=> q \in DOMAIN activeQueries
        /\ q \in DOMAIN activeQueries => activeQueries'[q] = activeQueries[q]
        /\ q \in missed' <=> q \in missed
    BY <1>2, <1>8 DEF Without
  <2>2. ~Unread("removed", q)
    BY <1>8 DEF Unread
  <2>3. Watched' = Watched /\ chain' = chain
    BY <1>2 DEF Watched, WatchedAddress, WatchedQueryID
  <2> QED BY <1>5, <1>6, <2>1, <2>2, <2>3 DEF Mirrored
<1> QED BY <1>7, <1>8

\* No transaction both removes a query and changes another otherwise.
Alike ==
    \A tx \in Transactions :
       (\E q \in DOMAIN tx : tx[q] = "remove") => \A q \in DOMAIN tx : tx[q] = "remove"

LEMMA MirrorTx ==
    ASSUME Alike, MapInv, MirrorInv, NEW tx \in Transactions, NeutronTx(tx)
    PROVE  MirrorInv'
<1> SUFFICES ASSUME sub.pc # "done", NEW q \in Ids PROVE Mirrored(q)'
  <2>1. sub' = sub
    BY DEF NeutronTx
  <2> QED BY <2>1 DEF MirrorInv
<1> DEFINE Sent(kind) == Matches(tx, kind) /\ ~Lost(tx, kind)
           kind == IF tx[q] = "remove" THEN "removed" ELSE "updated"
<1>1. TypeOK /\ Mirrored(q) /\ UNCHANGED <<sub, activeQueries>>
  BY ZenonT(60) DEF MapInv, MirrorInv, NeutronTx
<1>2. PICK period \in Periods :
        chain' = [p \in Ids |->
                    IF p \notin DOMAIN tx THEN chain[p]
                    ELSE IF tx[p] = "remove" THEN NoQuery("gone")
                    ELSE [chain[p] EXCEPT !.st = "live", !.period = period]]
  BY DEF NeutronTx
<1>3. \A k \in {"updated", "removed"} :
        events'[k] = IF Sent(k) THEN [unread |-> TRUE, ids |-> DOMAIN tx] ELSE events[k]
  BY DEF NeutronTx
<1>4. \A k \in {"updated", "removed"} : Sent(k) => ~events[k].unread
  BY DEF Lost
<1>5. /\ Matches(tx, "removed") => \A p \in DOMAIN tx : tx[p] = "remove"
      /\ Matches(tx, "updated") => \A p \in DOMAIN tx : tx[p] # "remove"
  BY DEF Matches, Alike
<1>6. /\ Unread("updated", q) => Unread("updated", q)'
      /\ Unread("removed", q)' <=> Unread("removed", q) \/ (Sent("removed") /\ q \in DOMAIN tx)
      /\ Sent("updated") /\ q \in DOMAIN tx => Unread("updated", q)'
  <2> HIDE DEF Sent
  <2> QED BY <1>3, <1>4 DEF Unread
<1>7. Told(q) => Told(q)'
  BY <1>1, <1>6 DEF Told
<1>8. StillToList(q)' <=> StillToList(q)
  BY <1>1 DEF StillToList
<1>9. Watched' = Watched
  BY DEF Watched, WatchedAddress, WatchedQueryID
<1>10. CASE q \notin DOMAIN tx
  <2>1. chain'[q] = chain[q]
    BY <1>2, <1>10
  <2>2. q \in missed' <=> q \in missed
    BY <1>10 DEF NeutronTx
  <2>3. SameFor(q)
    BY <1>1, <1>6, <1>7, <1>8, <1>10, <2>1, <2>2 DEF SameFor
  <2> QED BY <1>1, <2>3, MirrorSame
<1>11. CASE q \in DOMAIN tx
  <2>1. ~Unread("removed", q)
    <3>1. chain[q].st # "gone"
      BY <1>11 DEF NeutronTx, CanApply, Live
    <3> QED BY <1>1, <3>1 DEF Mirrored
  <2>2. IF tx[q] = "remove" THEN chain'[q].st = "gone" ELSE chain'[q].st = "live"
    <3>1. chain[q] \in [st : {"none", "live", "gone"}, period : Periods, last : Nat]
      BY <1>1 DEF TypeOK
    <3>2. [chain[q] EXCEPT !.st = "live", !.period = period].st = "live"
      BY <3>1
    <3>3. NoQuery("gone").st = "gone"
      BY DEF NoQuery
    <3> QED BY <1>2, <1>11, <3>2, <3>3
  <2>3. (Unread("removed", q) => chain[q].st = "gone")'
    BY <1>5, <1>6, <1>11, <2>1, <2>2
  <2>4. (q \in DOMAIN activeQueries => ~StillToList(q))'
    BY <1>1, <1>8 DEF Mirrored
  <2>5. q \in Watched /\ q \notin missed' => Sent(kind) \/ StillToList(q)
    <3> SUFFICES ASSUME q \in Watched, q \notin missed', ~StillToList(q) PROVE Sent(kind)
      OBVIOUS
    <3>1. ~Lost(tx, kind)
      BY <1>11 DEF NeutronTx
    <3>2. Matches(tx, kind)
      BY <1>11 DEF Matches, Watched
    <3> QED BY <3>1, <3>2
  <2>6. ASSUME q \in Watched, q \notin missed'
        PROVE  /\ Live(q)' /\ ~StillToList(q)' => q \in DOMAIN activeQueries' \/ Told(q)'
               /\ q \in DOMAIN activeQueries' =>
                    IF Live(q)' THEN activeQueries'[q].period = chain'[q].period \/ Told(q)'
                    ELSE Unread("removed", q)'
    <3> HIDE DEF Sent
    <3>1. CASE tx[q] = "remove"
      <4>1. ~Live(q)'
        BY <2>2, <3>1 DEF Live
      <4>2. q \in DOMAIN activeQueries' => Unread("removed", q)'
        BY <1>1, <1>6, <1>8, <1>11, <2>4, <2>5, <2>6, <3>1
      <4> QED BY <4>1, <4>2
    <3>2. CASE tx[q] # "remove"
      <4>1. Live(q)'
        BY <2>2, <3>2 DEF Live
      <4>2. Sent("updated") => Told(q)'
        BY <1>6, <1>11 DEF Told
      <4> QED BY <1>1, <1>8, <2>4, <2>5, <2>6, <3>2, <4>1, <4>2
    <3> QED BY <3>1, <3>2
  <2> QED BY <1>9, <2>3, <2>4, <2>6 DEF Mirrored
<1> QED BY <1>10, <1>11

LEMMA MirrorRest ==
    ASSUME MapInv, MirrorInv, RelayerStep \/ Cancel \/ NeutronBlock \/ UNCHANGED vars
    PROVE  MirrorInv'
<1>1. TypeOK /\ UNCHANGED <<events, sub, activeQueries, missed>>
  BY DEF MapInv, RelayerStep, TakeTask, EndTask, RelayerFails, RelayerStops, Cancel, NeutronBlock,
         SubscriberUnchanged, vars
<1>2. ASSUME NEW q \in Ids
      PROVE  chain'[q].st = chain[q].st /\ chain'[q].period = chain[q].period
  <2>1. chain[q] \in [st : {"none", "live", "gone"}, period : Periods, last : Nat]
        /\ DOMAIN chain = Ids
    BY <1>1 DEF TypeOK
  <2>2. chain' = chain \/ chain' = [chain EXCEPT ![relayer.query].last = neutronHeight]
    BY DEF RelayerStep, TakeTask, EndTask, RelayerFails, RelayerStops, Cancel, NeutronBlock,
           NeutronUnchanged, vars
  <2> QED BY <2>1, <2>2
<1>3. \A q \in Ids : SameFor(q)
  BY <1>1, <1>2 DEF SameFor, StillToList, Unread, Told
<1> QED BY <1>1, <1>3, MirrorFrame

LEMMA MirrorStep ==
    ASSUME Alike
    PROVE  MapInv /\ MirrorInv /\ [Next]_vars => MirrorInv'
<1> SUFFICES ASSUME MapInv, MirrorInv, [Next]_vars PROVE MirrorInv'
  OBVIOUS
<1>1. CASE ListPage
  BY <1>1, MirrorPage
<1>2. CASE RpcSubscribe
  <2>1. /\ UNCHANGED <<chain, events, activeQueries, missed>>
        /\ sub.pc \in {"subUpdated", "subRemoved", "subBlock"}
        /\ sub'.pc \in {"subRemoved", "subBlock", "select"}
    BY <1>2 DEF RpcSubscribe, SubscribeTo, NeutronUnchanged, MapInv, TypeOK, SubType
  <2>2. \A q \in Ids : SameFor(q)
    BY <2>1 DEF SameFor, StillToList, Unread, Told
  <2> QED BY <2>1, <2>2, MirrorFrame
<1>3. CASE SubscribeFails \/ SubscriberStops \/ Panic
  <2>1. Return
    BY <1>3 DEF SubscribeFails, SubscriberStops, Panic, Stopped
  <2>2. sub'.pc = "done"
    BY <2>1, ReturnType DEF MapInv
  <2> QED BY <2>2 DEF MirrorInv
<1>4. CASE BlockEvent \/ BlockStep
  BY <1>4, MirrorBlock
<1>5. CASE UpdateEvent \/ UpdateStep
  BY <1>5, MirrorUpdate
<1>6. CASE RemoveEvent
  BY <1>6, MirrorRemove
<1>7. CASE \E tx \in Transactions : NeutronTx(tx)
  BY <1>7, MirrorTx
<1>8. CASE RelayerStep \/ Cancel \/ NeutronBlock \/ UNCHANGED vars
  BY <1>8, MirrorRest
<1> QED
  BY <1>1, <1>2, <1>3, <1>4, <1>5, <1>6, <1>7, <1>8
  DEF Next, SubscriberStep, SubscribeStep, NeutronStep

\* As long as no transaction of Neutron both removes a query and changes
\* another otherwise, the map is what the chain has, apart from unread
\* events, queries that are still to be asked for, and missed ones.
THEOREM MirrorCorrect ==
    ASSUME Alike
    PROVE  Spec => [](MapInv /\ MirrorInv)
<1>1. Init => MapInv /\ MirrorInv
  BY MapInit, MirrorInit
<1>2. MapInv /\ MirrorInv /\ [Next]_vars => (MapInv /\ MirrorInv)'
  BY MapStep, MirrorStep
<1> QED BY <1>1, <1>2, PTL DEF Spec

\* When the events are read, nothing is in store any more.
LEMMA MirrorTells == MapInv /\ MirrorInv => ActiveIsRegistered
<1> SUFFICES ASSUME MapInv, MirrorInv, Settled, NEW q \in Watched \ missed
             PROVE  q \in DOMAIN activeQueries <=> Live(q)
  BY DEF ActiveIsRegistered
<1>1. q \in Ids
  BY SubscriberAssumption DEF Watched
<1>2. Mirrored(q) /\ ~StillToList(q) /\ ~Told(q) /\ ~Unread("removed", q)
  BY <1>1 DEF MirrorInv, Settled, StillToList, Told, Unread
<1> QED BY <1>2 DEF Mirrored

\* Between events the subscriber schedules the watched queries that Neutron
\* has, and no other of them, in whatever order the listing, update events,
\* remove events and lookups met the changes.
THEOREM ActiveCorrect ==
    ASSUME Alike
    PROVE  Spec => []ActiveIsRegistered
BY MirrorTells, MirrorCorrect, PTL

\* Nor has a query whose period changed.
LEMMA MirrorPeriods == MapInv /\ MirrorInv => PeriodIsCurrent
<1> SUFFICES ASSUME MapInv, MirrorInv, Settled,
                    NEW q \in Watched \cap DOMAIN activeQueries, q \notin missed
             PROVE  activeQueries[q].period = chain[q].period
  BY DEF PeriodIsCurrent
<1>1. q \in Ids
  BY SubscriberAssumption DEF Watched
<1>2. Mirrored(q) /\ ~Told(q) /\ ~Unread("removed", q)
  BY <1>1 DEF MirrorInv, Settled, Told, Unread
<1> QED BY <1>2 DEF Mirrored

\* And by the period Neutron has for them, after any number of updates.
THEOREM PeriodsCorrect ==
    ASSUME Alike
    PROVE  Spec => []PeriodIsCurrent
BY MirrorPeriods, MirrorCorrect, PTL

----------------------------------------------------------------------------
(***************************************************************************)
(* What a remove event forgets, and how far a listing gets.                *)
(***************************************************************************)
\* The map as long as the process and its subscriber live.
ForgottenWereRemoved ==
    [][sub'.pc # "done" =>
          \A q \in DOMAIN activeQueries \ DOMAIN activeQueries' : ~Live(q)]_vars

\* No other step than that of a remove event takes a query out of the map.
LEMMA OnlyEventsForget ==
    ASSUME MapInv, [Next]_vars, sub'.pc # "done", ~RemoveEvent
    PROVE  DOMAIN activeQueries \subseteq DOMAIN activeQueries'
<1>1. CASE ListPage
  <2>1. PICK found : DOMAIN activeQueries' = DOMAIN activeQueries \cup {r.id : r \in found}
    <3>1. \E answer \in {Good(Served(ListRequest))} \cup Disturbed(RegisteredQueriesOKBody) :
          \E payload \in NeutronInterchainQueriesRegisteredQueries(answer) :
             LET found == FromPage(payload) IN
             activeQueries' = [q \in DOMAIN activeQueries \cup {r.id : r \in found} |->
                                 IF \E r \in found : r.id = q
                                 THEN Entry(CHOOSE r \in found : r.id = q) ELSE activeQueries[q]]
      BY <1>1 DEF ListPage
    <3>2. PICK payload :
             LET found == FromPage(payload) IN
             activeQueries' = [q \in DOMAIN activeQueries \cup {r.id : r \in found} |->
                                 IF \E r \in found : r.id = q
                                 THEN Entry(CHOOSE r \in found : r.id = q) ELSE activeQueries[q]]
      BY <3>1
    <3>3. DOMAIN activeQueries' = DOMAIN activeQueries \cup {r.id : r \in FromPage(payload)}
      BY <3>2
    <3> QED BY <3>3
  <2> QED BY <2>1
<1>2. CASE RpcSubscribe
  BY <1>2 DEF RpcSubscribe, SubscribeTo
<1>3. CASE SubscribeFails \/ SubscriberStops \/ Panic
  <2>1. Return
    BY <1>3 DEF SubscribeFails, SubscriberStops, Panic, Stopped
  <2> QED BY <2>1, ReturnType DEF MapInv
<1>4. CASE BlockEvent \/ BlockStep
  BY <1>4 DEF BlockEvent, BlockStep, Skip, Enqueue
<1>5. CASE UpdateEvent \/ UpdateStep
  <2>1. CASE UpdateEvent
    BY <2>1 DEF UpdateEvent
  <2>2. ASSUME NEW q \in sub.todo, Fetch(q)
        PROVE  DOMAIN activeQueries \subseteq DOMAIN activeQueries'
    <3>1. PICK found : activeQueries' = Saved(q, found)
      BY <2>2 DEF Fetch
    <3> QED BY <3>1 DEF Saved, With
  <2>3. ASSUME NEW q \in sub.todo, FetchFails(q) \/ SkipUnwatched(q)
        PROVE  DOMAIN activeQueries \subseteq DOMAIN activeQueries'
    BY <2>3 DEF FetchFails, SkipUnwatched
  <2> QED BY <1>5, <2>1, <2>2, <2>3 DEF UpdateStep
<1>6. CASE RelayerStep \/ Cancel
  BY <1>6
  DEF RelayerStep, TakeTask, EndTask, RelayerFails, RelayerStops, Cancel, SubscriberUnchanged
<1>7. CASE NeutronStep \/ UNCHANGED vars
  BY <1>7 DEF NeutronStep, NeutronTx, NeutronBlock, vars
<1> QED
  BY <1>1, <1>2, <1>3, <1>4, <1>5, <1>6, <1>7 DEF Next, SubscriberStep, SubscribeStep

\* "processRemoveEvent deletes an event that was removed on Neutron from
\* memory" (subscriber.go:252) is true of every chain whose transactions do
\* not mix removals with other changes: nothing else ever takes a query out
\* of the schedule, however the listing, updates and removals interleave.
THEOREM ForgottenCorrect ==
    ASSUME Alike
    PROVE  Spec => ForgottenWereRemoved
<1>1. ASSUME MapInv, MirrorInv, [Next]_vars, sub'.pc # "done",
             NEW q \in DOMAIN activeQueries \ DOMAIN activeQueries'
      PROVE  ~Live(q)
  <2>1. RemoveEvent
    BY <1>1, OnlyEventsForget
  <2>2. q \in Ids /\ Mirrored(q)
    <3>1. q \in Ids /\ sub.pc # "done"
      BY <1>1, <2>1 DEF MapInv, TypeOK, RemoveEvent
    <3> QED BY <1>1, <3>1 DEF MirrorInv
  <2>3. Unread("removed", q)
    BY <1>1, <2>1 DEF RemoveEvent, Without, Unread
  <2> QED BY <2>2, <2>3 DEF Mirrored, Live
<1>2. MapInv /\ MirrorInv /\ [Next]_vars =>
        [sub'.pc # "done" =>
           \A q \in DOMAIN activeQueries \ DOMAIN activeQueries' : ~Live(q)]_vars
  BY <1>1
<1> QED BY <1>2, MirrorCorrect, PTL DEF Spec, ForgottenWereRemoved

\* The IDs that the listing has not come to yet.
Unlisted == {q \in Ids : StillToList(q)}

\* A page that is not the last one brings the listing on.
ListingAdvances ==
    [][sub.pc = "list" /\ sub'.pc = "list" /\ sub' # sub =>
          Unlisted' \subseteq Unlisted /\ Unlisted' # Unlisted]_vars

\* The key of a page is an ID above the cursor.
LEMMA KeyIsAhead ==
    ASSUME TypeOK, sub.pc = "list",
           NEW answer \in {Good(Served(ListRequest))} \cup Disturbed(RegisteredQueriesOKBody),
           NEW payload \in NeutronInterchainQueriesRegisteredQueries(answer),
           payload.next_key # {}
    PROVE  The(payload.next_key) \in Ids /\ StillToList(The(payload.next_key))
<1>1. The(payload.next_key) \in Rest(ListRequest)
  BY PageIs
<1>2. The(payload.next_key) \in Ids
  BY <1>1, RestIsWatched
<1> QED BY <1>1, <1>2, RestIs

\* getNeutronRegisteredQueries ends: each page moves the cursor over an ID
\* that was ahead of it, whatever Neutron registers, removes or answers in
\* between, so that a listing asks for no more pages than there are IDs.
THEOREM ListingCorrect == Spec => ListingAdvances
<1>1. ASSUME TypeOK, [Next]_vars, sub.pc = "list", sub'.pc = "list", sub' # sub
      PROVE  Unlisted' \subseteq Unlisted /\ Unlisted' # Unlisted
  <2>1. ListPage
    <3>1. CASE RpcSubscribe
      BY <1>1, <3>1 DEF RpcSubscribe, SubscribeTo
    <3>2. CASE SubscribeFails \/ SubscriberStops \/ Panic
      <4>1. Return
        BY <3>2 DEF SubscribeFails, SubscriberStops, Panic, Stopped
      <4> QED BY <1>1, <4>1, ReturnType
    <3>3. CASE BlockEvent \/ BlockStep \/ UpdateEvent \/ UpdateStep \/ RemoveEvent
      BY <1>1, <3>3
      DEF BlockEvent, BlockStep, Skip, Enqueue, UpdateEvent, UpdateStep, Fetch, FetchFails,
          SkipUnwatched, ToFetch, RemoveEvent
    <3>4. CASE RelayerStep \/ Cancel
      BY <1>1, <3>4
      DEF RelayerStep, TakeTask, EndTask, RelayerFails, RelayerStops, Cancel, SubscriberUnchanged
    <3>5. CASE NeutronStep \/ UNCHANGED vars
      BY <1>1, <3>5 DEF NeutronStep, NeutronTx, NeutronBlock, vars
    <3> QED
      BY <1>1, <3>1, <3>2, <3>3, <3>4, <3>5 DEF Next, SubscriberStep, SubscribeStep
  <2>2. PICK answer \in {Good(Served(ListRequest))} \cup Disturbed(RegisteredQueriesOKBody) :
        \E payload \in NeutronInterchainQueriesRegisteredQueries(answer) :
           sub' = IF payload.next_key = {}
                  THEN [sub EXCEPT !.pc = "subUpdated", !.cursor = 0]
                  ELSE [sub EXCEPT !.cursor = The(payload.next_key)]
    BY <2>1 DEF ListPage
  <2>3. PICK payload \in NeutronInterchainQueriesRegisteredQueries(answer) :
           sub' = IF payload.next_key = {}
                  THEN [sub EXCEPT !.pc = "subUpdated", !.cursor = 0]
                  ELSE [sub EXCEPT !.cursor = The(payload.next_key)]
    BY <2>2
  <2> DEFINE key == The(payload.next_key)
  <2>4. payload.next_key # {} /\ sub'.cursor = key
    BY <1>1, <2>3 DEF TypeOK, SubType
  <2>5. key \in Ids /\ StillToList(key)
    BY <1>1, <2>4, KeyIsAhead
  <2> HIDE DEF key
  <2>6. key \in Nat /\ sub.cursor \in Nat /\ key > sub.cursor
    BY <1>1, <2>5, IdsAre DEF TypeOK, SubType, StillToList
  <2>7. ~StillToList(key)'
    BY <2>4, <2>6 DEF StillToList
  <2>8. ASSUME NEW q \in Ids, StillToList(q)'
        PROVE  StillToList(q)
    <3>1. q \in Nat /\ q > key
      BY <2>4, <2>8, IdsAre DEF StillToList
    <3> QED BY <1>1, <2>6, <3>1 DEF StillToList
  <2>9. key \in Unlisted /\ key \notin Unlisted'
    BY <2>5, <2>7 DEF Unlisted
  <2>10. Unlisted' \subseteq Unlisted
    BY <2>8 DEF Unlisted
  <2> QED BY <2>9, <2>10
<1>2. TypeOK /\ [Next]_vars =>
        [sub.pc = "list" /\ sub'.pc = "list" /\ sub' # sub =>
           Unlisted' \subseteq Unlisted /\ Unlisted' # Unlisted]_vars
  BY <1>1
<1> QED BY <1>2, SubscriberTypeCorrect, PTL DEF Spec, ListingAdvances
=============================================================================
