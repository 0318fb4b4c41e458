----------------------------- MODULE RestClient -----------------------------
(***************************************************************************)
(* What the generated REST client (internal/subscriber/querier) makes of   *)
(* the answers of Neutron's REST endpoint.  Subscriber and Process use it. *)
(*                                                                         *)
(* A value that may be absent, a nil pointer, an empty string or a number  *)
(* that is not there, is a set of at most one element; so is what a call   *)
(* returns, which is empty for an error.                                   *)
(***************************************************************************)
EXTENDS Integers

The(optional) == CHOOSE v \in optional : TRUE

(***************************************************************************)
(* Requests.                                                               *)
(***************************************************************************)
\* The parameters of a listing: the owners and the connection it asks for
\* and the key of the page.
RegisteredQueriesParams(owners, connection, key) ==
    [owners |-> owners, connection_id |-> connection, pagination_key |-> key]

\* The parameters of the requests for one query and for a connection.
RegisteredQueryParams(id) == [query_id |-> id]
ConnectionParams(id)      == [connection_id |-> id]

\* What is nil or empty is not sent: without owners every owner is asked
\* for, without a key the first page.
WriteToRequest(params) ==
    [p \in {p \in DOMAIN params : params[p] # {}} |-> params[p]]

(***************************************************************************)
(* Answers: the status code and a body, which is an object, "nothing" (the *)
(* decoder meets io.EOF, which is no error) or "garbled".                  *)
(***************************************************************************)
Answer(code, body, payload) == [code |-> code, body |-> body, payload |-> payload]

Consume(answer, zero) ==
    CASE answer.body = "object"  -> {answer.payload}
      [] answer.body = "nothing" -> {zero}
      [] answer.body = "garbled" -> {}

\* What a reader makes of a body it could decode.
Success(type, payload) == {[type |-> type, payload |-> The(payload)]}

\* Mutant: the code is not looked at.
ReadResponseAnyCode(answer, zero) ==
    LET payload == Consume(answer, zero) IN
    IF payload = {} THEN {} ELSE Success("OK", payload)

\* ReadResponse of each endpoint: a success has a type, OK for 200 and
\* Default for the other codes 2xx; anything else is an error.
ReadResponse(answer, zero) ==
    LET payload == Consume(answer, zero) IN
    IF payload = {} THEN {}
    ELSE IF answer.code = 200 THEN Success("OK", payload)
    ELSE IF answer.code \div 100 = 2 THEN Success("Default", payload)
    ELSE {}

\* The zero values the bodies are decoded into.
RegisteredQueriesOKBody == [registered_queries |-> {}, next_key |-> {}]
RegisteredQueryOKBody   == [registered_query |-> {}]
ConnectionOKBody        == [connection |-> {}]

RegisteredQueriesReader(answer) == ReadResponse(answer, RegisteredQueriesOKBody)
RegisteredQueryReader(answer)   == ReadResponse(answer, RegisteredQueryOKBody)
ConnectionReader(answer)        == ReadResponse(answer, ConnectionOKBody)

\* The methods of Client: a success that is not of type OK is an error.
Payload(result) == {r.payload : r \in {r \in result : r.type = "OK"}}

NeutronInterchainQueriesRegisteredQueries(answer) == Payload(RegisteredQueriesReader(answer))
NeutronInterchainQueriesRegisteredQuery(answer)   == Payload(RegisteredQueryReader(answer))
IbcCoreConnectionV1Connection(answer)             == Payload(ConnectionReader(answer))

(***************************************************************************)
(* The conversion of a query; a number that cannot be parsed is an error.  *)
(* The remote height is optional, 0-0 without a result.                    *)
(***************************************************************************)
RegisteredQueryItem(id, period, last, remote) ==
    [id |-> id, update_period |-> period, last_local_height |-> last, last_remote_height |-> remote]

ToNeutronRegisteredQuery(o) ==
    LET remote == IF o.last_remote_height = {} THEN [number |-> {0}, height |-> {0}]
                  ELSE The(o.last_remote_height)
        numbers == {o.id, o.update_period, o.last_local_height, remote.number, remote.height}
    IN IF {} \in numbers THEN {}
       ELSE {[id |-> The(o.id), period |-> The(o.update_period), last |-> The(o.last_local_height)]}
=============================================================================
