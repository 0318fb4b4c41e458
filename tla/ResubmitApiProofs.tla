------------------------- MODULE ResubmitApiProofs -------------------------
(***************************************************************************)
(* Theorems about ResubmitApi, for every value of its constants.           *)
(***************************************************************************)
EXTENDS ResubmitApi, TxPipelineProofs, SequenceTheorems

USE ApiAssumption

----------------------------------------------------------------------------
(***************************************************************************)
(* The requests are served by resubmissions of TxPipeline: what is true of *)
(* it, with resubmissions in any order, is true next to the real handlers. *)
(***************************************************************************)
LEMMA LoopRefines ==
    ASSUME NEW h \in Handlers, NEW r, r.txs[r.next] \in Keys, Loop(h, r)
    PROVE  (\E k \in Keys : Resubmit(h, k)) \/ UNCHANGED vars
BY DEF Loop

\* A request has a next transaction as long as it is served.
Served(h) ==
    /\ request[h].next \in 1 .. Len(request[h].txs)
    /\ request[h].stored = SubSeq(request[h].txs, 1, request[h].next - 1)
    /\ request[h].code = 0

\* The handler of h is at the transaction of its list that http[h] holds.
InList(h) ==
    http[h].pc # "idle" =>
        /\ request[h].serving
        /\ http[h].key = request[h].txs[request[h].next]

Requests == [serving : BOOLEAN, txs : Seq(Keys), next : Nat,
             stored : Seq(Keys), code : {0, 200, 400, 500}]

\* The records the handler makes of a request r.
Codes == {0, 200, 400, 500}

Answered(r, c) == [r EXCEPT !.serving = FALSE, !.code = c]

LEMMA RequestAnswered ==
    ASSUME NEW r \in Requests, NEW c \in Codes
    PROVE  /\ Answered(r, c) \in Requests
           /\ ~Answered(r, c).serving /\ Answered(r, c).code = c
           /\ Answered(r, c).txs = r.txs /\ Answered(r, c).next = r.next
           /\ Answered(r, c).stored = r.stored
<1> DEFINE S == Seq(Keys)
<1>1. Requests = [serving : BOOLEAN, txs : S, next : Nat, stored : S, code : Codes]
  BY DEF Requests, Codes
<1> HIDE DEF S
<1> QED BY <1>1 DEF Answered

LEMMA RequestStored ==
    ASSUME NEW r \in Requests, NEW st \in Seq(Keys)
    PROVE  LET s == [r EXCEPT !.stored = st] IN
           /\ s \in Requests /\ s.stored = st
           /\ s.serving = r.serving /\ s.code = r.code /\ s.txs = r.txs /\ s.next = r.next
<1> DEFINE S == Seq(Keys)
<1>1. Requests = [serving : BOOLEAN, txs : S, next : Nat, stored : S, code : Codes] /\ st \in S
  BY DEF Requests, Codes
<1> HIDE DEF S
<1> QED BY <1>1

LEMMA RequestAccepted ==
    ASSUME NEW txs \in Seq(Keys)
    PROVE  [NoRequest EXCEPT !.serving = TRUE, !.txs = txs] \in Requests
<1> DEFINE S == Seq(Keys)
<1>1. /\ Requests = [serving : BOOLEAN, txs : S, next : Nat, stored : S, code : Codes]
      /\ txs \in S /\ <<>> \in S /\ 0 \in Codes
  BY EmptySeq DEF Requests, Codes
<1> HIDE DEF S
<1> QED BY <1>1 DEF NoRequest

ListInv ==
    /\ TypeOK
    /\ request \in [Handlers -> Requests]
    /\ \A h \in Handlers : (request[h].serving => Served(h)) /\ InList(h)
    /\ AnswerTruthful

LEMMA ListInit == ApiInit => ListInv
BY TypeInit, EmptySeq
DEF ApiInit, ListInv, Requests, NoRequest, Served, InList, AnswerTruthful, Init, VolatileInit,
    HttpIdle

LEMMA FirstTx ==
    ASSUME NEW txs \in Lists
    PROVE  /\ txs \in Seq(Keys) /\ 1 \in 1 .. Len(txs) /\ txs[1] \in Keys
           /\ SubSeq(txs, 1, 0) = <<>>
<1>1. txs \in Seq(Keys) /\ txs # <<>>
  OBVIOUS
<1>2. Len(txs) \in Nat \ {0}
  BY <1>1, EmptySeq
<1>3. txs[1] \in Keys
  BY <1>1, <1>2, ElementOfSeq
<1> QED BY <1>1, <1>2, <1>3, SubSeqEmpty

\* Every step is a step of TxPipeline or leaves its variables alone.
LEMMA ApiStepRefines == ListInv /\ [ApiNext]_apiVars => [Next]_vars
<1> SUFFICES ASSUME ListInv, [ApiNext]_apiVars PROVE [Next]_vars
  OBVIOUS
<1>1. ASSUME NEW h \in Handlers, HandlerStep(h)
      PROVE  [Next]_vars
  <2>1. CASE NextTx(h)
    <3>1. request[h].txs[request[h].next] \in Keys
      BY <2>1, ElementOfSeq DEF NextTx, Serving, ListInv, Requests, Served
    <3> QED BY <2>1, <3>1, LoopRefines DEF NextTx, Next
  <2>2. CASE Sent(h) \/ Stored(h) \/ ProcessFails(h)
    BY <2>2 DEF Sent, Stored, ProcessFails, HttpStep, Next
  <2> QED BY <1>1, <2>1, <2>2 DEF HandlerStep
<1>2. ASSUME NEW h \in Handlers, NEW txs \in Lists, Request(h, txs)
      PROVE  [Next]_vars
  <2> DEFINE r == [NoRequest EXCEPT !.serving = TRUE, !.txs = txs]
  <2>1. r.txs = txs /\ r.next = 1
    BY DEF NoRequest
  <2>2. Loop(h, r)
    BY <1>2 DEF Request
  <2> HIDE DEF r
  <2>3. r.txs[r.next] \in Keys
    BY <2>1, FirstTx
  <2> QED BY <2>2, <2>3, LoopRefines DEF Next
<1>3. CASE PipelineStep
  BY <1>3 DEF PipelineStep, Next
<1>4. CASE Break
  BY <1>4 DEF Break, Next
<1>5. CASE UNCHANGED apiVars
  BY <1>5 DEF apiVars
<1> QED BY <1>1, <1>2, <1>3, <1>4, <1>5 DEF ApiNext

----------------------------------------------------------------------------
(***************************************************************************)
(* What the answers say.                                                   *)
(***************************************************************************)
\* The other requests of a step that changes request[h] only.
OthersKept(h) ==
    /\ DOMAIN request' = Handlers
    /\ \A g \in Handlers \ {h} : request'[g] = (IF request[g].serving THEN request[g] ELSE NoRequest)
    /\ \A g \in Handlers \ {h} : http'[g] = http[g]

Good(h) == /\ request'[h] \in Requests
           /\ request'[h].serving => Served(h)'
           /\ InList(h)'
           /\ request'[h].code = 200 => request'[h].stored = request'[h].txs
           /\ request'[h].code \in {400, 500} =>
                request'[h].stored = SubSeq(request'[h].txs, 1, request'[h].next - 1)

LEMMA NoRequestType == NoRequest \in Requests /\ ~NoRequest.serving /\ NoRequest.code = 0
BY EmptySeq DEF NoRequest, Requests

\* It is enough to look at the request of the handler that took the step.
LEMMA OneRequest ==
    ASSUME ListInv, TypeOK', NEW h \in Handlers, OthersKept(h), Good(h),
           request' = [g \in Handlers |-> request'[g]]
    PROVE  ListInv'
<1>1. ASSUME NEW g \in Handlers, g # h
      PROVE  Good(g)
  <2>1. CASE request[g].serving
    BY <1>1, <2>1 DEF ListInv, OthersKept, Good, Served, InList
  <2>2. CASE ~request[g].serving
    BY <1>1, <2>2, NoRequestType DEF ListInv, OthersKept, Good, InList
  <2> QED BY <2>1, <2>2
<1>2. \A g \in Handlers : Good(g)
  BY <1>1
<1>3. request' \in [Handlers -> Requests]
  BY <1>2 DEF Good
<1> QED BY <1>2, <1>3 DEF ListInv, Good, AnswerTruthful

\* A step of others than the handlers.
LEMMA NoHandler ==
    ASSUME ListInv, TypeOK', request' = Unanswered, http' = http
    PROVE  ListInv'
<1>1. \A g \in Handlers : request'[g] = IF request[g].serving THEN request[g] ELSE NoRequest
  BY DEF Unanswered, Serving
<1>2. request' \in [Handlers -> Requests]
  BY NoRequestType DEF Unanswered, Serving, ListInv
<1>3. \A g \in Handlers : (request'[g].serving => Served(g)') /\ InList(g)'
  BY <1>1, NoRequestType DEF ListInv, Served, InList
<1>4. AnswerTruthful'
  BY <1>1, NoRequestType DEF ListInv, Served, AnswerTruthful
<1> QED BY <1>2, <1>3, <1>4 DEF ListInv

\* r is a request in the state the loop may find it in.
Fits(r) ==
    /\ r \in Requests /\ r.serving
    /\ r.next \in 1 .. Len(r.txs)
    /\ r.stored = SubSeq(r.txs, 1, r.next - 1)
    /\ r.code = 0

LEMMA RespondGood ==
    ASSUME ListInv, NEW h \in Handlers, NEW r \in Requests, NEW code \in {200, 400, 500},
           Respond(h, r, code),
           code = 200 => r.stored = r.txs,
           code # 200 => r.stored = SubSeq(r.txs, 1, r.next - 1),
           \A g \in Handlers \ {h} : http'[g] = http[g],
           http'[h].pc = "idle"
    PROVE  OthersKept(h) /\ Good(h) /\ request' = [g \in Handlers |-> request'[g]]
<1>1. PICK heard \in {code, 0} :
        request' = [Unanswered EXCEPT ![h] =
                      IF heard = 0 THEN NoRequest
                      ELSE [r EXCEPT !.serving = FALSE, !.code = code]]
  BY DEF Respond
<1>2. OthersKept(h) /\ request' = [g \in Handlers |-> request'[g]]
  BY ZenonT(60), <1>1 DEF OthersKept, Unanswered, Serving
<1>3. request'[h] = IF heard = 0 THEN NoRequest ELSE [r EXCEPT !.serving = FALSE, !.code = code]
  BY <1>1 DEF Unanswered
<1>4. Good(h)
  <2>1. CASE heard = 0
    BY <1>3, <2>1, NoRequestType DEF Good, InList
  <2>2. CASE heard # 0
    <3> DEFINE s == Answered(r, code)
    <3>1. /\ s \in Requests /\ ~s.serving /\ s.code = code
          /\ s.stored = r.stored /\ s.txs = r.txs /\ s.next = r.next
      <4>1. code \in Codes
        BY DEF Codes
      <4> QED BY <4>1, RequestAnswered
    <3>2. request'[h] = s
      BY <1>3, <2>2 DEF Answered
    <3> HIDE DEF s
    <3> QED BY <3>1, <3>2 DEF Good, InList
  <2> QED BY <2>1, <2>2
<1> QED BY <1>2, <1>4

LEMMA LoopGood ==
    ASSUME ListInv, TypeOK', NEW h \in Handlers, NEW r, Fits(r), http[h].pc = "idle", Loop(h, r)
    PROVE  ListInv'
<1> USE DEF Fits
<1>1. CASE Resubmit(h, r.txs[r.next]) /\ request' = [Unanswered EXCEPT ![h] = r]
  <2>1. /\ http' = [http EXCEPT ![h] = [HttpIdle EXCEPT !.pc = "process", !.key = r.txs[r.next]]]
        /\ http \in [Handlers -> HttpType]
    BY <1>1 DEF Resubmit, ListInv, TypeOK
  <2>2. http'[h].key = r.txs[r.next] /\ \A g \in Handlers \ {h} : http'[g] = http[g]
    BY <2>1 DEF HttpIdle
  <2>3. OthersKept(h) /\ request' = [g \in Handlers |-> request'[g]] /\ request'[h] = r
    BY <1>1, <2>2 DEF OthersKept, Unanswered, Serving
  <2>4. Good(h)
    BY <2>2, <2>3 DEF Good, Served, InList
  <2> QED BY <2>3, <2>4, OneRequest
<1>2. ASSUME NEW code \in {400, 500}, Respond(h, r, code), UNCHANGED vars
      PROVE  ListInv'
  <2>1. http' = http
    BY <1>2 DEF vars
  <2> QED BY <1>2, <2>1, RespondGood, OneRequest
<1> QED BY <1>1, <1>2 DEF Loop

LEMMA HandlerGood ==
    ASSUME ListInv, TypeOK', NEW h \in Handlers, HandlerStep(h)
    PROVE  ListInv'
<1>1. http \in [Handlers -> HttpType] /\ request \in [Handlers -> Requests]
  BY DEF ListInv, TypeOK
<1>2. CASE NextTx(h)
  <2>1. Fits(request[h])
    BY <1>1, <1>2 DEF NextTx, Serving, ListInv, Served, Fits
  <2> QED BY <1>2, <2>1, LoopGood DEF NextTx
<1>3. CASE Sent(h)
  <2>1. PICK seq : http' = [http EXCEPT ![h] = [@ EXCEPT !.pc = "store", !.seq = seq]]
    BY <1>3 DEF Sent, HttpSendAccepted, HttpSendIgnored
  <2>2. http[h].pc = "process" /\ http'[h].key = http[h].key
        /\ \A g \in Handlers \ {h} : http'[g] = http[g]
    BY <1>1, <1>3, <2>1 DEF Sent, HttpSendAccepted, HttpSendIgnored, HttpType
  <2>3. Fits(request[h]) /\ http[h].key = request[h].txs[request[h].next]
    BY <1>1, <2>2 DEF ListInv, Served, InList, Fits
  <2>4. request'[h] = request[h]
    BY <1>3, <2>3 DEF Sent, Unanswered, Serving, Fits
  <2>5. OthersKept(h) /\ request' = [g \in Handlers |-> request'[g]]
    BY <1>3, <2>2 DEF Sent, OthersKept, Unanswered, Serving
  <2>6. Good(h)
    BY <2>2, <2>3, <2>4 DEF Good, Served, InList, Fits
  <2> QED BY <2>5, <2>6, OneRequest
<1>4. CASE Stored(h)
  <2> DEFINE old == request[h]
             r   == [old EXCEPT !.stored = Append(@, http[h].key)]
  <2>1. /\ http[h].pc = "store" /\ http' = [http EXCEPT ![h] = HttpIdle]
    BY <1>4 DEF Stored, HttpStore
  <2>2. http'[h].pc = "idle" /\ \A g \in Handlers \ {h} : http'[g] = http[g]
    BY <1>1, <2>1 DEF HttpIdle
  <2>3. Fits(old) /\ http[h].key = old.txs[old.next]
    BY <1>1, <2>1 DEF ListInv, Served, InList, Fits
  <2>4. /\ old.txs \in Seq(Keys) /\ old.next \in 1 .. Len(old.txs) /\ http[h].key \in Keys
    BY <1>1, <2>3 DEF Fits, Requests, HttpType
  <2>5. r \in Requests /\ r.serving /\ r.code = 0 /\ r.next = old.next /\ r.txs = old.txs
        /\ r.stored = Append(old.stored, http[h].key)
    <3>1. old \in Requests /\ Append(old.stored, http[h].key) \in Seq(Keys)
      BY <2>3, <2>4, AppendProperties DEF Fits, Requests
    <3> DEFINE st == Append(old.stored, http[h].key)
    <3>2. st \in Seq(Keys) /\ old \in Requests /\ old.serving /\ old.code = 0
      BY <2>3, <3>1 DEF Fits
    <3> HIDE DEF old, st
    <3>3. LET s == [old EXCEPT !.stored = st] IN
            /\ s \in Requests /\ s.stored = st /\ s.serving = old.serving
            /\ s.code = old.code /\ s.txs = old.txs /\ s.next = old.next
      BY <3>2, RequestStored
    <3> QED BY <3>2, <3>3 DEF st
  <2>6. r.stored = SubSeq(r.txs, 1, r.next)
    <3> HIDE DEF old, r
    <3>1. SubSeq(old.txs, 1, old.next) = SubSeq(old.txs, 1, old.next - 1) \o <<old.txs[old.next]>>
      <4>1. Len(old.txs) \in Nat /\ 1 \in 1 .. Len(old.txs) /\ old.next \in 1 .. Len(old.txs)
        BY <2>4, LenProperties
      <4> QED BY <2>4, <4>1, SubSeqRecursiveSecond
    <3>2. old.stored \in Seq(Keys) /\ old.stored = SubSeq(old.txs, 1, old.next - 1)
      BY <2>3 DEF Fits, Requests
    <3>3. Append(old.stored, http[h].key) = old.stored \o <<http[h].key>>
      BY <2>4, <3>2, AppendIsConcat
    <3> QED BY <2>3, <2>5, <3>1, <3>2, <3>3
  <2>7. IF r.next = Len(r.txs) THEN Respond(h, r, 200)
        ELSE request' = [Unanswered EXCEPT ![h] = [r EXCEPT !.next = @ + 1]]
    BY <1>4 DEF Stored
  <2> HIDE DEF r, old
  <2>8. CASE r.next = Len(r.txs)
    <3>1. r.stored = r.txs
      BY <2>4, <2>5, <2>6, <2>8, SubSeqFull
    <3> QED BY <2>2, <2>5, <2>7, <2>8, <3>1, RespondGood, OneRequest
  <2>9. CASE r.next # Len(r.txs)
    <3> DEFINE s == [r EXCEPT !.next = @ + 1]
    <3>1. /\ s \in Requests /\ s.serving /\ s.code = 0 /\ s.next = r.next + 1
          /\ s.txs = r.txs /\ s.stored = r.stored
      BY SMTT(30), <2>5 DEF Requests
    <3>2. request' = [Unanswered EXCEPT ![h] = s]
      BY <2>7, <2>9
    <3> HIDE DEF s
    <3>3. OthersKept(h) /\ request' = [g \in Handlers |-> request'[g]] /\ request'[h] = s
      BY <2>2, <3>2 DEF OthersKept, Unanswered, Serving
    <3>4. s.next \in 1 .. Len(s.txs) /\ s.next - 1 = r.next
      BY <2>4, <2>5, <2>9, <3>1, LenProperties
    <3>5. Good(h)
      BY <2>2, <2>6, <3>1, <3>3, <3>4 DEF Good, Served, InList
    <3> QED BY <3>3, <3>5, OneRequest
  <2> QED BY <2>8, <2>9
<1>5. CASE ProcessFails(h)
  <2>1. http[h].pc # "idle" /\ http' = [http EXCEPT ![h] = HttpIdle]
    BY <1>5 DEF ProcessFails, HttpSendFails, HttpStoreFails
  <2>2. http'[h].pc = "idle" /\ \A g \in Handlers \ {h} : http'[g] = http[g]
    BY <1>1, <2>1 DEF HttpIdle
  <2>3. Fits(request[h])
    BY <1>1, <2>1 DEF ListInv, Served, InList, Fits
  <2>4. Respond(h, request[h], 500)
    BY <1>5 DEF ProcessFails
  <2> DEFINE r == request[h]
  <2>5. r \in Requests /\ r.stored = SubSeq(r.txs, 1, r.next - 1) /\ Respond(h, r, 500)
    BY <2>3, <2>4 DEF Fits
  <2> HIDE DEF r
  <2>6. OthersKept(h) /\ Good(h) /\ request' = [g \in Handlers |-> request'[g]]
    BY <2>2, <2>5, RespondGood
  <2> QED BY <2>6, OneRequest
<1> QED BY <1>2, <1>3, <1>4, <1>5 DEF HandlerStep

LEMMA ListStep == ListInv /\ [ApiNext]_apiVars => ListInv'
<1> SUFFICES ASSUME ListInv, [ApiNext]_apiVars PROVE ListInv'
  OBVIOUS
<1>1. TypeOK'
  BY ApiStepRefines, TypeStep DEF ListInv
<1>2. ASSUME NEW h \in Handlers, HandlerStep(h) PROVE ListInv'
  BY <1>1, <1>2, HandlerGood
<1>3. ASSUME NEW h \in Handlers, NEW txs \in Lists, Request(h, txs) PROVE ListInv'
  <2> DEFINE r == [NoRequest EXCEPT !.serving = TRUE, !.txs = txs]
  <2>1. /\ Loop(h, r) /\ ~request[h].serving
        /\ r.serving /\ r.txs = txs /\ r.next = 1 /\ r.stored = <<>> /\ r.code = 0
    BY <1>3 DEF Request, NoRequest, Serving
  <2>2. r \in Requests
    BY FirstTx, RequestAccepted
  <2> HIDE DEF r
  <2>3. Fits(r)
    BY <2>1, <2>2, FirstTx DEF Fits
  <2>4. http[h].pc = "idle"
    BY <2>1 DEF ListInv, InList
  <2> QED BY <1>1, <2>1, <2>3, <2>4, LoopGood
<1>4. CASE PipelineStep /\ request' = Unanswered
  <2>1. http' = http
    BY <1>4
    DEF PipelineStep, TakeTask, SearchStep, RelStep, Receive, ReceiveFails, RelHeaderFails,
        RelSendAccepted, RelSendIgnored, RelSendCritical, RelStore, RelStoreFails, Finish,
        FinishFails, RelStop, OthersIdle, ChkStep, ChkReadPending, ChkReadPendingFails, ChkNext,
        ChkReceive, ChkFound, ChkAttemptFails, ChkUpdate, ChkUpdateFails, ChkStop,
        DelayedCancelled, ChkUnchanged, Cancel, Start, ChainStep, TargetBlock, NeutronExecutes,
        NeutronDrops, ChainsOnly
  <2> QED BY <1>1, <1>4, <2>1, NoHandler
<1>5. CASE Break
  <2>1. \A h \in Handlers : request'[h] = NoRequest /\ http'[h].pc = "idle"
    BY <1>5 DEF Break, Exit, Crash, LoseMemory, HttpIdle
  <2>2. request' \in [Handlers -> Requests]
    BY <1>5, NoRequestType DEF Break
  <2> QED
    BY <1>1, <2>1, <2>2, NoRequestType DEF ListInv, InList, AnswerTruthful
<1>6. CASE UNCHANGED apiVars
  <2>1. UNCHANGED <<request, http>>
    BY <1>6 DEF apiVars, vars
  <2> QED BY <1>1, <2>1 DEF ListInv, Served, InList, AnswerTruthful
<1> QED BY <1>2, <1>3, <1>4, <1>5, <1>6 DEF ApiNext

THEOREM ListCorrect == ApiSpec => []ListInv
BY ListInit, ListStep, PTL DEF ApiSpec

\* The handlers with their lists, answers and clients that leave implement
\* the resubmissions of TxPipeline, so that everything proved of its
\* specification holds next to them.
THEOREM ApiImplementsPipeline == ApiSpec => Spec
<1>1. ApiInit => Init
  BY DEF ApiInit
<1> QED BY <1>1, ApiStepRefines, ListCorrect, PTL DEF ApiSpec, Spec

\* So the storage, its statuses and its bodies, the checker and the loop are
\* as correct next to the real handlers, which go through lists, answer and
\* are left by their clients, as next to single resubmissions.
THEOREM PipelineBehindApi ==
    ApiSpec => [](/\ StorageConsistent /\ StatusTruthful /\ PendingTracked
                  /\ ClaimIsFresh /\ UndeliveredIsKept)
BY ApiImplementsPipeline, StorageCorrect, StatusesCorrect, PendingCorrect, ClaimCorrect,
   KeptCorrect, PTL

\* An answer of 200 is given when the request itself has sent and recorded
\* every transaction of its list; another answer tells where it stopped.
THEOREM AnswersCorrect == ApiSpec => []AnswerTruthful
<1>1. ListInv => AnswerTruthful
  BY DEF ListInv
<1> QED BY <1>1, ListCorrect, PTL

\* The records, the requests and the handlers' places in their lists agree.
THEOREM ApiTypeCorrect == ApiSpec => []ApiTypeOK
<1>1. ListInv => ApiTypeOK
  <2> SUFFICES ASSUME ListInv PROVE ApiTypeOK
    OBVIOUS
  <2>1. \A h \in Handlers : DOMAIN request[h].txs = 1 .. Len(request[h].txs)
    BY LenProperties DEF ListInv, Requests
  <2> QED BY <2>1 DEF ListInv, Requests, Served, InList, ApiTypeOK
<1> QED BY <1>1, ListCorrect, PTL
=============================================================================
