---------------------------- MODULE ResubmitApi ----------------------------
(***************************************************************************)
(* POST /resubmit-txs from end to end: the operator's client (ICQClient,   *)
(* internal/http/client.go) asks for a list of transactions, the handler   *)
(* (resubmitFailedTxs, internal/http/webserver.go) goes through it and     *)
(* stops at the first that fails.  Each transaction of the list is a       *)
(* resubmission of TxPipeline, interleaved with everything else there; its *)
(* http[h] is "idle" between two transactions.                             *)
(***************************************************************************)
EXTENDS TxPipeline, Sequences

CONSTANT Lists      \* ResubmitRequest.Txs of the requests

\* A request without transactions is answered with 200 and does nothing.
ASSUME ApiAssumption == Lists \subseteq Seq(Keys) \ {<<>>}

(***************************************************************************)
(* request[h].serving: the handler runs.  txs: the list; next: the loop's  *)
(* place in it.  stored: history, the transactions this request sent to    *)
(* Neutron and recorded.  code: the status of the answer, if the last step *)
(* was one that a client waited for, and 0 otherwise.                      *)
(***************************************************************************)
VARIABLE request

apiVars == <<vars, request>>

NoRequest == [serving |-> FALSE, txs |-> <<>>, next |-> 1, stored |-> <<>>, code |-> 0]

ApiTypeOK ==
    /\ TypeOK
    /\ request \in [Handlers -> [serving : BOOLEAN, txs : Seq(Keys), next : Nat,
                                 stored : Seq(Keys), code : {0, 200, 400, 500}]]
    /\ \A h \in Handlers : http[h].pc # "idle" =>
          /\ request[h].serving
          /\ request[h].next \in DOMAIN request[h].txs
          /\ http[h].key = request[h].txs[request[h].next]

ApiInit == Init /\ request = [h \in Handlers |-> NoRequest]

Serving(h) == request[h].serving

\* The requests; an answer is seen for one step.
Unanswered == [h \in Handlers |-> IF Serving(h) THEN request[h] ELSE NoRequest]

\* The transactions of the requests that MaxResubmits still has to allow.
Outstanding ==
    UNION {{h} \X (request[h].next + (IF http[h].pc = "idle" THEN 0 ELSE 1)
                     .. Len(request[h].txs)) : h \in {h \in Handlers : Serving(h)}}

----------------------------------------------------------------------------
(***************************************************************************)
(* The handler.  The client may have left when getTimeout passed, to ask   *)
(* again or not; the handler does not see it and goes on.                  *)
(***************************************************************************)
Respond(h, r, code) ==
    \E heard \in {code, 0} :
       request' = [Unanswered EXCEPT ![h] =
                     IF heard = 0 THEN NoRequest
                     ELSE [r EXCEPT !.serving = FALSE, !.code = code]]

\* The head of the loop: GetCachedTx finds the transaction, or it answers
\* leveldb.ErrNotFound, or the read fails.
Loop(h, r) ==
    LET k == r.txs[r.next] IN
    \/ Resubmit(h, k) /\ request' = [Unanswered EXCEPT ![h] = r]
    \/ ~GetCachedTx(k) /\ Respond(h, r, 400) /\ UNCHANGED vars
    \/ Respond(h, r, 500) /\ UNCHANGED vars

\* ResubmitTxs of the client, and Decode, which fails or not.  A request that
\* was accepted before Shutdown closed the listener is served after it, too.
Request(h, txs) ==
    /\ Running /\ ~Serving(h)
    /\ resubmits + Cardinality(Outstanding) + Len(txs) <= MaxResubmits
    /\ Loop(h, [NoRequest EXCEPT !.serving = TRUE, !.txs = txs])

\* The next transaction of the list.
NextTx(h) ==
    /\ Running /\ Serving(h) /\ http[h].pc = "idle"
    /\ Loop(h, request[h])

\* Mutant: the answer is given before the outcome is recorded.
SentAnswers(h) == (HttpSendAccepted(h) \/ HttpSendIgnored(h)) /\ Respond(h, request[h], 200)

Sent(h) == (HttpSendAccepted(h) \/ HttpSendIgnored(h)) /\ request' = Unanswered

\* ProcessAndSubmit has recorded the transaction.  After the last one the
\* answer is an implicit 200.
Stored(h) ==
    LET r == [request[h] EXCEPT !.stored = Append(@, http[h].key)] IN
    /\ HttpStore(h)
    /\ IF r.next = Len(r.txs) THEN Respond(h, r, 200)
       ELSE request' = [Unanswered EXCEPT ![h] = [r EXCEPT !.next = @ + 1]]

\* Mutant: the loop goes on after an error.
ProcessFailsGoesOn(h) ==
    LET r == request[h] IN
    /\ HttpSendFails(h) \/ HttpStoreFails(h)
    /\ IF r.next = Len(r.txs) THEN Respond(h, r, 200)
       ELSE request' = [Unanswered EXCEPT ![h] = [r EXCEPT !.next = @ + 1]]

\* ProcessAndSubmit returns an error.
ProcessFails(h) ==
    /\ HttpSendFails(h) \/ HttpStoreFails(h)
    /\ Respond(h, request[h], 500)

HandlerStep(h) == NextTx(h) \/ Sent(h) \/ Stored(h) \/ ProcessFails(h)

----------------------------------------------------------------------------
\* The end of the process breaks the connections.
Break ==
    /\ Exit \/ Crash
    /\ request' = [h \in Handlers |-> NoRequest]

\* The steps of TxPipeline that are not of a handler.
PipelineStep ==
    \/ \E q \in Queries : TakeTask(q)
    \/ SearchStep \/ RelStep \/ ChkStep
    \/ \E d \in delayed : DelayedCancelled(d)
    \/ Cancel \/ Start
    \/ ChainStep

ApiNext ==
    \/ \E h \in Handlers : HandlerStep(h) \/ \E txs \in Lists : Request(h, txs)
    \/ PipelineStep /\ request' = Unanswered
    \/ Break

ApiSpec == ApiInit /\ [][ApiNext]_apiVars

----------------------------------------------------------------------------
(***************************************************************************)
(* Properties.                                                             *)
(***************************************************************************)
\* "Tx ... resubmitted successfully" (cmd/exec.go:55) is told only when this
\* request has sent and recorded every transaction of its list, whatever the
\* loop, the checker or another request did to them meanwhile.  Any other
\* answer means that those before the one that failed were, and no later
\* one: the operator asks again for the rest (webserver.go:112-135).
AnswerTruthful ==
    \A h \in Handlers :
        LET r == request[h] IN
        /\ r.code = 200 => r.stored = r.txs
        /\ r.code \in {400, 500} => r.stored = SubSeq(r.txs, 1, r.next - 1)
=============================================================================
