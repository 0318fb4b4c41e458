-------------------------- MODULE TxPipelineProofs --------------------------
(***************************************************************************)
(* Theorems about TxPipeline, for every value of its constants.            *)
(***************************************************************************)
EXTENDS TxPipeline, FiniteSetTheorems, TLAPS

USE StorageAssumption, PipelineAssumption

----------------------------------------------------------------------------
(***************************************************************************)
(* Types.                                                                  *)
(***************************************************************************)
LEMMA AnyQueryIn == AnyQuery \in Queries
BY DEF AnyQuery

\* The records of a process that has just started have their types.
LEMMA IdleTypes ==
    /\ NoSearch \in SearchType
    /\ RelIdle \in RelType
    /\ ChkBoot \in ChkType
    /\ HttpIdle \in HttpType
BY AnyQueryIn DEF NoSearch, SearchType, RelIdle, RelType, ChkBoot, ChkType, NoCur,
   NeutronHash, Keys, Txs, HttpIdle, HttpType

LEMMA SetTxStatusType ==
    ASSUME StorageTypeOK, NEW k \in Keys, NEW nh \in NeutronHash, NEW st \in Statuses,
           NEW processed \in BOOLEAN, SetTxStatus(k, nh, st, processed),
           UNCHANGED lastHeight
    PROVE  StorageTypeOK'
BY DEF StorageTypeOK, SetTxStatus, PendingAfter, UnsuccessfulAfter, CachedAfter

LEMMA RecordSubmissionType ==
    ASSUME TypeOK, NEW k \in Keys, NEW seq \in Nat, NEW bg \in BOOLEAN,
           RecordSubmission(k, seq, bg), UNCHANGED lastHeight
    PROVE  StorageTypeOK' /\ delayed' \subseteq DelayedType
<1> DEFINE nh == [key |-> k, seq |-> seq]
<1>1. nh \in NeutronHash
  BY DEF NeutronHash
<1>2. CASE seq = 0
  BY <1>1, <1>2, SetTxStatusType DEF RecordSubmission, TypeOK, Statuses
<1>3. CASE seq # 0
  <2>1. StorageTypeOK'
    BY <1>1, <1>3, SetTxStatusType DEF RecordSubmission, TypeOK, Statuses
  <2>2. delayed' \subseteq DelayedType
    BY <1>1, <1>3 DEF RecordSubmission, TypeOK, DelayedType
  <2> QED BY <2>1, <2>2
<1> QED BY <1>2, <1>3

LEMMA TypeInit == Init => TypeOK
BY IdleTypes, QuerierAssumption DEF Init, TypeOK, StorageInit, StorageTypeOK, QuerierInit, QuerierTypeOK,
   NeutronInit, NeutronTypeOK, VolatileInit, RelIdle

\* Every step preserves the types: first the relayer's loop and its search.
LEMMA InitialHeightType == TypeOK => InitialHeight \in Nat
BY DEF TypeOK, QuerierTypeOK, InitialHeight

LEMMA TakeTaskType ==
    ASSUME TypeOK, NEW q \in Queries, TakeTask(q)
    PROVE  TypeOK'
<1>1. HeightOf(q) \in Nat
  BY InitialHeightType DEF HeightOf, TypeOK, StorageTypeOK
<1>2. rel' \in RelType /\ rel'.pc \in {"idle", "range"}
  BY IdleTypes DEF TakeTask, TypeOK, RelType
<1>3. search' \in SearchType
  <2>1. CASE search' = search
    BY <2>1 DEF TypeOK, QuerierTypeOK
  <2>2. CASE SearchTransactions(q, HeightOf(q))
    BY <1>1, <2>2, IdleTypes DEF SearchTransactions, SearchType
  <2> QED BY <2>1, <2>2 DEF TakeTask
<1>4. lastHeight' \in [Queries -> Nat \cup {NotFound}]
  BY <1>1 DEF SetLastQueryHeight, TakeTask, TypeOK, StorageTypeOK
<1>5. base' \in [Queries -> Nat \cup {NotFound}]
  BY <1>1 DEF TakeTask, TypeOK
<1> QED
  BY <1>2, <1>3, <1>4, <1>5
  DEF TakeTask, OthersIdle, TypeOK, StorageTypeOK, QuerierTypeOK, NeutronTypeOK,
      neutronVars, txStatusVars

LEMMA SearchStepType == TypeOK /\ SearchStep => TypeOK'
<1> SUFFICES ASSUME TypeOK, SearchStep PROVE TypeOK'
  OBVIOUS
<1>1. search \in SearchType /\ chainHeight \in Nat
  BY DEF TypeOK, QuerierTypeOK
<1>2. search' \in SearchType /\ chainHeight' = chainHeight
  <2>1. CASE TxSearch
    <3>1. Page(Remaining) \subseteq Txs
      BY <1>1, QuerierAssumption DEF Page, Remaining, SearchType
    <3> QED BY <1>1, <2>1, <3>1 DEF TxSearch, SearchType
  <2>2. CASE ProofDelivery \/ SearchFails \/ SendCancelled
    BY ZenonT(60), <1>1, <2>2 DEF ProofDelivery, SearchFails, SendCancelled, SearchType
  <2>3. CASE \E t \in Txs : SendTx(t)
    <3>1. PICK t \in Txs : SendTx(t)
      BY <2>3
    <3>2. /\ search.page \ {t} \in SUBSET Txs
          /\ search.chan \cup {t} \in SUBSET Txs
          /\ t \in 0 .. NumTxs
      BY <1>1 DEF SearchType, Txs
    <3> QED BY <1>1, <3>1, <3>2 DEF SendTx, SearchType
  <2> QED BY <2>1, <2>2, <2>3 DEF SearchStep
<1>3. faults' \in 0 .. MaxFaults
  BY DEF SearchStep, CallSucceeds, CallFails, Fault, TypeOK
<1> QED
  BY <1>2, <1>3
  DEF SearchStep, OthersIdle, TypeOK, StorageTypeOK, QuerierTypeOK, NeutronTypeOK,
      neutronVars, storageVars, historyVars

LEMMA RecordHeightBeforeType ==
    ASSUME TypeOK, NEW t \in Txs, RecordHeightBefore(t)
    PROVE  lastHeight' \in [Queries -> Nat \cup {NotFound}]
BY DEF TypeOK, StorageTypeOK, RecordHeightBefore, SetLastQueryHeight, RelType

LEMMA ReceiveType ==
    ASSUME TypeOK, NEW t \in Txs, Receive(t) \/ ReceiveFails(t)
    PROVE  TypeOK'
<1> USE DEF TypeOK, StorageTypeOK, QuerierTypeOK, NeutronTypeOK, OthersIdle,
        neutronVars, txStatusVars, historyVars
<1>1. CASE Receive(t)
  <2>1. search' \in SearchType
    BY <1>1 DEF Receive, SearchType
  <2>2. rel' \in RelType /\ (rel'.pc = "range" \/ rel'.tx = t)
    <3>1. t \in 0 .. NumTxs /\ TxHeight[t] \in Nat
      BY QuerierAssumption DEF Txs
    <3> QED BY <1>1, <3>1 DEF Receive, RelType
  <2>3. rel'.pc \in {"process", "store"} => rel'.tx # 0
    BY <2>2 DEF Txs
  <2> QED BY <1>1, <2>1, <2>2, <2>3, RecordHeightBeforeType DEF Receive
<1>2. CASE ReceiveFails(t)
  BY <1>2, RecordHeightBeforeType, IdleTypes DEF ReceiveFails, Fault, Abort, RelIdle
<1> QED BY <1>1, <1>2

LEMMA RelKeyType ==
    TypeOK /\ rel.pc \in {"process", "store"} => RelKey \in Keys
BY DEF TypeOK, RelType, RelKey, Keys, Txs

LEMMA BroadcastType ==
    ASSUME TypeOK, NEW k \in Keys, BroadcastTxSync(k) \/ UNCHANGED neutronVars
    PROVE  NeutronTypeOK'
<1>1. CASE BroadcastTxSync(k)
  <2>1. NextHash(k) \in NeutronHash
    BY DEF NextHash, NeutronHash, TypeOK, NeutronTypeOK
  <2> QED BY <1>1, <2>1 DEF BroadcastTxSync, TypeOK, NeutronTypeOK
<1>2. CASE UNCHANGED neutronVars
  BY <1>2 DEF neutronVars, TypeOK, NeutronTypeOK
<1> QED BY <1>1, <1>2

LEMMA RelSeqType ==
    ASSUME TypeOK, NEW seq \in Nat, rel.pc \in {"process", "store"},
           rel' = [rel EXCEPT !.pc = "store", !.seq = seq]
    PROVE  rel' \in RelType /\ rel'.tx # 0
BY DEF TypeOK, RelType

LEMMA RelSendType ==
    ASSUME TypeOK,
           RelHeaderFails \/ RelSendAccepted \/ RelSendIgnored \/ RelSendCritical
    PROVE  TypeOK'
<1> USE DEF TypeOK, StorageTypeOK, QuerierTypeOK
<1>1. CASE RelHeaderFails
  BY <1>1, IdleTypes
  DEF RelHeaderFails, CallFails, Fault, Abort, OthersIdle, storageVars, neutronVars,
      historyVars, NeutronTypeOK, RelIdle
<1>2. CASE RelSendAccepted
  <2>1. NeutronTypeOK'
    BY <1>2, RelKeyType, BroadcastType DEF RelSendAccepted
  <2>2. sent + 1 \in Nat
    BY DEF NeutronTypeOK
  <2>3. rel' \in RelType /\ rel'.tx # 0
    BY <1>2, <2>2, RelSeqType DEF RelSendAccepted
  <2> QED
    BY <1>2, <2>1, <2>3
    DEF RelSendAccepted, CallSucceeds, storageVars, querierVars, historyVars
<1>3. CASE RelSendIgnored
  <2>1. rel' \in RelType /\ rel'.tx # 0
    BY <1>3, RelSeqType DEF RelSendIgnored
  <2> QED
    BY <1>3, <2>1
    DEF RelSendIgnored, CallSucceeds, OthersIdle, storageVars, querierVars, neutronVars,
        historyVars, NeutronTypeOK
<1>4. CASE RelSendCritical
  <2>1. NeutronTypeOK'
    BY <1>4, RelKeyType, BroadcastType DEF RelSendCritical
  <2>2. rel' \in RelType /\ rel'.pc = "done"
    BY <1>4, IdleTypes DEF RelSendCritical, RelType
  <2> QED
    BY <1>4, <2>1, <2>2, IdleTypes
    DEF RelSendCritical, CallFails, Fault, storageVars, historyVars
<1> QED BY <1>1, <1>2, <1>3, <1>4

LEMMA RelRangeType ==
    ASSUME rel \in RelType, rel' = [rel EXCEPT !.pc = "range", !.tx = 0, !.seq = 0]
    PROVE  rel' \in RelType /\ rel'.pc = "range"
<1>1. 0 \in 0 .. NumTxs /\ 0 \in Nat
  OBVIOUS
<1> QED BY <1>1 DEF RelType

LEMMA RelStoreType ==
    ASSUME TypeOK, RelStore \/ RelStoreFails
    PROVE  TypeOK'
<1> USE DEF TypeOK, QuerierTypeOK, NeutronTypeOK
<1>1. CASE RelStore
  <2>1. rel.seq \in Nat /\ RelKey \in Keys /\ UNCHANGED lastHeight
    BY <1>1, RelKeyType DEF RelStore, RelType
  <2>2. StorageTypeOK' /\ delayed' \subseteq DelayedType
    BY <1>1, <2>1, RecordSubmissionType DEF RelStore
  <2>3. rel' \in RelType /\ rel'.pc = "range"
    BY <1>1, RelRangeType DEF RelStore
  <2> QED
    BY <1>1, <2>2, <2>3
    DEF RelStore, OthersIdle, querierVars, neutronVars, historyVars
<1>2. CASE RelStoreFails
  BY <1>2, IdleTypes
  DEF RelStoreFails, Fault, Abort, OthersIdle, storageVars, neutronVars, historyVars,
      RelIdle, StorageTypeOK
<1> QED BY <1>1, <1>2

LEMMA FinishType ==
    ASSUME TypeOK, Finish \/ FinishFails \/ RelStop
    PROVE  TypeOK'
<1> USE DEF TypeOK, StorageTypeOK, QuerierTypeOK, NeutronTypeOK, OthersIdle, neutronVars
<1>1. CASE Finish
  <2>1. lastHeight' \in [Queries -> Nat \cup {NotFound}]
    BY <1>1 DEF Finish, SetLastQueryHeight, RelType
  <2>2. cut' \subseteq Queries \X Nat
    BY <1>1 DEF Finish, RelType
  <2> QED
    BY <1>1, <2>1, <2>2, IdleTypes DEF Finish, Abort, txStatusVars, RelIdle
<1>2. CASE FinishFails
  BY <1>2, IdleTypes DEF FinishFails, Fault, Abort, storageVars, historyVars, RelIdle
<1>3. CASE RelStop
  <2>1. rel' \in RelType /\ rel'.pc = "done"
    BY <1>3 DEF RelStop, RelType
  <2> QED
    BY <1>3, <2>1 DEF RelStop, storageVars, querierVars, historyVars
<1> QED BY <1>1, <1>2, <1>3


\* The handlers.
LEMMA HttpStepType ==
    ASSUME TypeOK, NEW h \in Handlers, NEW k \in Keys, HttpStep(h) \/ Resubmit(h, k)
    PROVE  TypeOK'
<1> DEFINE Rest ==
      /\ lastHeight' = lastHeight /\ chainHeight' = chainHeight /\ search' = search
      /\ rel' = rel /\ chk' = chk /\ proc' = proc
      /\ base' = base /\ cut' = cut /\ abandoned' = abandoned
      /\ http' \in [Handlers -> HttpType]
      /\ NeutronTypeOK'
      /\ faults' \in 0 .. MaxFaults /\ resubmits' \in 0 .. MaxResubmits
<1>1. http[h] \in HttpType /\ HttpIdle \in HttpType
  BY IdleTypes DEF TypeOK
<1>2. ASSUME Rest, StorageTypeOK', delayed' \subseteq DelayedType
      PROVE  TypeOK'
  BY <1>2 DEF TypeOK, QuerierTypeOK
<1>3. ASSUME Rest, UNCHANGED <<txStatusVars, delayed>>
      PROVE  TypeOK'
  BY <1>3 DEF TypeOK, QuerierTypeOK, StorageTypeOK, txStatusVars
<1> USE DEF HttpUnchanged, querierVars, historyVars, boundVars
<1>4. CASE Resubmit(h, k)
  <2>1. [HttpIdle EXCEPT !.pc = "process", !.key = k] \in HttpType
    BY <1>1 DEF HttpType
  <2>2. resubmits' \in 0 .. MaxResubmits
    BY <1>4 DEF Resubmit, TypeOK
  <2> QED
    BY <1>3, <1>4, <2>1, <2>2 DEF Resubmit, TypeOK, neutronVars, NeutronTypeOK
<1>5. CASE HttpSendAccepted(h)
  <2>1. NeutronTypeOK' /\ sent + 1 \in Nat
    BY <1>1, <1>5, BroadcastType DEF HttpSendAccepted, TypeOK, NeutronTypeOK, HttpType
  <2>2. [http[h] EXCEPT !.pc = "store", !.seq = sent + 1] \in HttpType
    BY <1>1, <2>1 DEF HttpType
  <2> QED
    BY <1>3, <1>5, <2>1, <2>2 DEF HttpSendAccepted, TypeOK
<1>6. CASE HttpSendIgnored(h)
  <2>1. [http[h] EXCEPT !.pc = "store", !.seq = 0] \in HttpType
    BY <1>1 DEF HttpType
  <2> QED
    BY <1>3, <1>6, <2>1 DEF HttpSendIgnored, TypeOK, neutronVars, NeutronTypeOK
<1>7. CASE HttpSendFails(h)
  <2>1. NeutronTypeOK'
    BY <1>1, <1>7, BroadcastType DEF HttpSendFails, HttpType
  <2>2. faults' \in 0 .. MaxFaults
    BY <1>7 DEF HttpSendFails, Fault, TypeOK
  <2> QED
    BY <1>1, <1>3, <1>7, <2>1, <2>2 DEF HttpSendFails, TypeOK
<1>8. CASE HttpStore(h)
  <2>1. http[h].key \in Keys /\ http[h].seq \in Nat /\ UNCHANGED lastHeight
    BY <1>1, <1>8 DEF HttpType, HttpStore
  <2>2. StorageTypeOK' /\ delayed' \subseteq DelayedType
    BY <1>8, <2>1, RecordSubmissionType DEF HttpStore
  <2> QED
    BY <1>1, <1>2, <1>8, <2>2 DEF HttpStore, TypeOK, neutronVars, NeutronTypeOK
<1>9. CASE HttpStoreFails(h)
  <2>1. faults' \in 0 .. MaxFaults
    BY <1>9 DEF HttpStoreFails, Fault, TypeOK
  <2> QED
    BY <1>1, <1>3, <1>9, <2>1 DEF HttpStoreFails, TypeOK, neutronVars, NeutronTypeOK
<1> QED BY <1>4, <1>5, <1>6, <1>7, <1>8, <1>9 DEF HttpStep

\* The checker.
LEMMA BetweenType ==
    ASSUME NEW todo \in SUBSET NeutronHash
    PROVE  Between(todo) \in ChkType
BY IdleTypes DEF Between, ChkType

LEMMA ChkStepType ==
    ASSUME TypeOK, ChkStep \/ \E d \in delayed : DelayedCancelled(d)
    PROVE  TypeOK'
<1> DEFINE Rest ==
      /\ lastHeight' = lastHeight /\ chainHeight' = chainHeight /\ search' = search
      /\ rel' = rel /\ http' = http /\ resubmits' = resubmits
      /\ base' = base /\ cut' = cut
      /\ NeutronTypeOK'
<1>0. /\ chk \in ChkType /\ chk.todo \in SUBSET NeutronHash /\ chk.cur \in NeutronHash
      /\ pending \in SUBSET NeutronHash /\ abandoned \subseteq NeutronHash
  BY DEF TypeOK, ChkType, StorageTypeOK
<1>1. ASSUME Rest, StorageTypeOK', chk' \in ChkType, delayed' \subseteq DelayedType,
             proc' \in {"up", "stopping", "down"}, faults' \in 0 .. MaxFaults,
             abandoned' \subseteq NeutronHash
      PROVE  TypeOK'
  BY <1>1 DEF TypeOK, QuerierTypeOK
<1>2. ASSUME ChkUnchanged PROVE Rest /\ proc' = proc
  BY <1>2 DEF ChkUnchanged, querierVars, neutronVars, TypeOK, NeutronTypeOK
<1>3. ASSUME UNCHANGED txStatusVars, lastHeight' = lastHeight PROVE StorageTypeOK'
  BY <1>3 DEF txStatusVars, TypeOK, StorageTypeOK
<1>4. ASSUME GiveUp PROVE chk' \in ChkType /\ abandoned' \subseteq NeutronHash
  BY <1>0, <1>4, BetweenType DEF GiveUp
<1>5. ASSUME NEW nh \in NeutronHash, StartCheck(nh) PROVE chk' \in ChkType
  BY <1>0, <1>5 DEF StartCheck, ChkType
<1>6. CASE ChkReadPending
  BY <1>0, <1>1, <1>2, <1>3, <1>6, BetweenType DEF ChkReadPending, GetAllPendingTxs, TypeOK
<1>7. CASE ChkReadPendingFails
  <2>1. chk' \in ChkType
    BY <1>7, IdleTypes DEF ChkReadPendingFails, ChkType
  <2>2. faults' \in 0 .. MaxFaults
    BY <1>7 DEF ChkReadPendingFails, Fault, TypeOK
  <2> QED
    BY <1>1, <1>3, <1>7, <2>1, <2>2
    DEF ChkReadPendingFails, storageVars, txStatusVars, querierVars, neutronVars,
        historyVars, TypeOK, NeutronTypeOK
<1>8. CASE \E nh \in chk.todo : ChkNext(nh)
  BY <1>0, <1>1, <1>2, <1>3, <1>5, <1>8 DEF ChkNext, TypeOK
<1>9. CASE \E d \in delayed : ChkReceive(d)
  <2>1. PICK d \in delayed : ChkReceive(d)
    BY <1>9
  <2>2. d.hash \in NeutronHash
    BY DEF TypeOK, DelayedType
  <2> QED
    BY <1>1, <1>2, <1>3, <1>5, <2>1, <2>2 DEF ChkReceive, TypeOK
<1>10. CASE ChkFound
  <2>1. PICK c \in {"Committed", "ErrorOnCommit"} :
            chk' = [chk EXCEPT !.pc = "update", !.tries = 0, !.code = c]
    BY <1>10 DEF ChkFound
  <2>2. 0 \in 0 .. CheckAttempts
    OBVIOUS
  <2>3. chk' \in ChkType
    BY <1>0, <2>1, <2>2 DEF ChkType
  <2> QED
    BY <1>1, <1>2, <1>3, <1>10, <2>3 DEF ChkFound, CallSucceeds, TypeOK
<1>11. CASE ChkAttemptFails
  <2>1. chk' \in ChkType /\ abandoned' \subseteq NeutronHash
    <3>1. CASE GiveUp
      BY <1>4, <3>1
    <3>2. CASE ~GiveUp
      <4>1. /\ chk.tries \in Nat /\ ~(chk.tries + 1 >= CheckAttempts)
            /\ chk' = [chk EXCEPT !.tries = @ + 1] /\ UNCHANGED abandoned
        BY <1>0, <1>11, <3>2 DEF ChkAttemptFails, ChkType
      <4>2. chk.tries + 1 \in 0 .. CheckAttempts
        BY <4>1
      <4> QED BY <1>0, <4>1, <4>2 DEF ChkType
    <3> QED BY <3>1, <3>2
  <2>2. faults' \in 0 .. MaxFaults
    BY <1>11 DEF ChkAttemptFails, CallFails, Fault, TypeOK
  <2> QED
    BY <1>1, <1>2, <1>3, <1>11, <2>1, <2>2 DEF ChkAttemptFails, TypeOK
<1>12. CASE ChkUpdate
  <2>1. /\ chk.cur.key \in Keys /\ chk.code \in Statuses
        /\ SetTxStatus(chk.cur.key, chk.cur, chk.code, FALSE) /\ UNCHANGED lastHeight
    BY <1>0, <1>12 DEF ChkType, NeutronHash, Statuses, ChkUpdate, ChkUnchanged
  <2>2. StorageTypeOK'
    BY <1>0, <2>1, SetTxStatusType DEF TypeOK
  <2> QED
    BY <1>0, <1>1, <1>2, <1>12, <2>2, BetweenType DEF ChkUpdate, TypeOK
<1>13. CASE ChkUpdateFails
  <2>1. faults' \in 0 .. MaxFaults
    BY <1>13 DEF ChkUpdateFails, Fault, TypeOK
  <2> QED
    BY <1>1, <1>2, <1>3, <1>4, <1>13, <2>1 DEF ChkUpdateFails, TypeOK
<1>14. CASE ChkStop
  <2>1. chk' \in ChkType
    BY <1>14, IdleTypes DEF ChkStop, ChkType
  <2> QED
    BY <1>1, <1>2, <1>3, <1>14, <2>1 DEF ChkStop, TypeOK
<1>15. CASE \E d \in delayed : DelayedCancelled(d)
  BY <1>1, <1>2, <1>3, <1>15 DEF DelayedCancelled, TypeOK
<1> QED
  BY <1>6, <1>7, <1>8, <1>9, <1>10, <1>11, <1>12, <1>13, <1>14, <1>15 DEF ChkStep

\* The process and the chains.
LEMMA ProcessType ==
    ASSUME TypeOK, Cancel \/ Exit \/ Crash \/ Start
    PROVE  TypeOK'
<1> USE DEF TypeOK, StorageTypeOK, QuerierTypeOK, NeutronTypeOK, ProcUnchanged,
        storageVars, neutronVars
<1>1. CASE Cancel
  BY <1>1 DEF Cancel, Fault
<1>2. CASE Exit
  BY <1>2, IdleTypes DEF Exit, LoseMemory, RelIdle
<1>3. CASE Crash
  BY <1>3, IdleTypes DEF Crash, LoseMemory, Fault, RelIdle
<1>4. CASE Start
  BY <1>4 DEF Start
<1> QED BY <1>1, <1>2, <1>3, <1>4

LEMMA ChainStepType ==
    ASSUME TypeOK, ChainStep
    PROVE  TypeOK'
<1> USE DEF TypeOK, StorageTypeOK, QuerierTypeOK, ChainsOnly, storageVars, historyVars
<1>1. CASE TargetBlock
  <2>1. chainHeight' \in 0 .. MaxHeight
    BY <1>1, QuerierAssumption DEF TargetBlock, NewBlock
  <2> QED
    BY <1>1, <2>1 DEF TargetBlock, NeutronTypeOK, neutronVars
<1>2. CASE \E nh \in mempool : NeutronDrops(nh)
  BY <1>2 DEF NeutronDrops, DropTx, Fault, NeutronTypeOK
<1>3. CASE \E nh \in mempool, ok \in BOOLEAN : NeutronExecutes(nh, ok)
  BY <1>3 DEF NeutronExecutes, ExecuteTx, NeutronTypeOK
<1> QED BY <1>1, <1>2, <1>3 DEF ChainStep

LEMMA TypeStutter == TypeOK /\ UNCHANGED vars => TypeOK'
BY DEF TypeOK, StorageTypeOK, QuerierTypeOK, NeutronTypeOK, vars, storageVars,
   querierVars, neutronVars, boundVars, historyVars

LEMMA TypeStep == TypeOK /\ [Next]_vars => TypeOK'
<1> SUFFICES ASSUME TypeOK, Next PROVE TypeOK'
  BY TypeStutter
<1>1. CASE \E q \in Queries : TakeTask(q)
  BY <1>1, TakeTaskType
<1>2. CASE SearchStep
  BY <1>2, SearchStepType
<1>3. CASE RelStep
  BY <1>3, ReceiveType, RelSendType, RelStoreType, FinishType DEF RelStep
<1>4. CASE \E h \in Handlers : HttpStep(h) \/ \E k \in Keys : Resubmit(h, k)
  <2>1. <<AnyQuery, 1>> \in Keys
    BY AnyQueryIn DEF Keys, Txs
  <2> QED BY <1>4, <2>1, HttpStepType
<1>5. CASE ChkStep \/ \E d \in delayed : DelayedCancelled(d)
  BY <1>5, ChkStepType
<1>6. CASE Cancel \/ Exit \/ Crash \/ Start
  BY <1>6, ProcessType
<1>7. CASE ChainStep
  BY <1>7, ChainStepType
<1> QED
  BY <1>1, <1>2, <1>3, <1>4, <1>5, <1>6, <1>7 DEF Next

\* The components of the state keep the shapes declared for them: no step
\* writes a negative height, a count beyond its bound or a stray status.
THEOREM TypeCorrect == Spec => []TypeOK
BY TypeInit, TypeStep, PTL DEF Spec


----------------------------------------------------------------------------
(***************************************************************************)
(* Statuses.  The invariant behind StorageConsistent, ClaimIsFresh,        *)
(* PendingTracked and StatusTruthful: whatever a goroutine, a handler or   *)
(* the startup list holds already has a record, so a record the relayer's  *)
(* loop is about to create can be created by nobody else; and an outcome   *)
(* the checker is about to write is one that Neutron answered.             *)
(***************************************************************************)
RecordsKnown ==
    /\ \A nh \in chk.todo : TxExists(nh.key)
    /\ \A d \in delayed : TxExists(d.hash.key)
    /\ chk.pc \in {"query", "update"} => TxExists(chk.cur.key)
    /\ \A h \in Handlers : http[h].pc # "idle" => TxExists(http[h].key)

OutcomeKnown ==
    chk.pc = "update" => \/ chk.code = "Committed" /\ chk.cur \in executed
                         \/ chk.code = "ErrorOnCommit" /\ chk.cur \in reverted

StatusInv ==
    /\ TypeOK
    /\ StorageConsistent
    /\ RecordsKnown
    /\ OutcomeKnown
    /\ ClaimIsFresh
    /\ PendingTracked
    /\ StatusTruthful
    /\ proc = "down" => chk.pc = "boot"

LEMMA StatusInit == Init => StatusInv
BY TypeInit
DEF StatusInv, Init, VolatileInit, StorageInit, NeutronInit, StorageConsistent,
    SubmittedIsPending, FailedIsListed, CommittedIsForgotten, IndexesHaveRecords,
    RecordsKnown, OutcomeKnown, ClaimIsFresh, PendingTracked, Watched, StatusTruthful,
    TxExists, Absent, RelIdle, ChkBoot, HttpIdle

\* SetTxStatus keeps the indexes consistent with the statuses.
LEMMA SetTxStatusConsistent ==
    ASSUME StorageTypeOK, StorageConsistent,
           NEW k \in Keys, NEW nh \in NeutronHash, nh.key = k, NEW st \in Statuses,
           NEW processed \in BOOLEAN, st \in {"Submitted", "ErrorOnSubmit"} => processed,
           SetTxStatus(k, nh, st, processed)
    PROVE  StorageConsistent'
<1> USE DEF StorageTypeOK, SetTxStatus, Statuses, TxExists, Absent
<1>1. status' \in [Keys -> Statuses \cup {Absent}] /\ status'[k] = st /\ st # Absent
      /\ \A j \in Keys : j # k => status'[j] = status[j]
  OBVIOUS
<1>2. SubmittedIsPending'
  BY <1>1 DEF StorageConsistent, SubmittedIsPending, PendingAfter
<1>3. FailedIsListed'
  BY <1>1 DEF StorageConsistent, FailedIsListed, UnsuccessfulAfter
<1>4. CommittedIsForgotten'
  BY <1>1 DEF StorageConsistent, CommittedIsForgotten, UnsuccessfulAfter, CachedAfter
<1>5. IndexesHaveRecords'
  <2>1. \A j \in unsuccessful' \cup cached' : TxExists(j)'
    BY <1>1 DEF StorageConsistent, IndexesHaveRecords, UnsuccessfulAfter, CachedAfter
  <2>2. \A mh \in pending' : TxExists(mh.key)'
    BY <1>1 DEF StorageConsistent, IndexesHaveRecords, PendingAfter, NeutronHash
  <2>3. \A j \in Keys : status'[j] \in {"Submitted", "ErrorOnSubmit"} => j \in cached'
    BY <1>1 DEF StorageConsistent, IndexesHaveRecords, CachedAfter
  <2> QED BY <2>1, <2>2, <2>3 DEF IndexesHaveRecords
<1> QED BY <1>2, <1>3, <1>4, <1>5 DEF StorageConsistent

\* No operation of the storage removes a record, and SetTxStatus adds one.
LEMMA SetTxStatusRecords ==
    ASSUME StorageTypeOK, NEW k \in Keys, NEW nh, NEW st \in Statuses, NEW processed,
           SetTxStatus(k, nh, st, processed)
    PROVE  \A j \in Keys : TxExists(j)' <=> (TxExists(j) \/ j = k)
BY DEF StorageTypeOK, SetTxStatus, TxExists, Statuses, Absent

\* What a submission of k by the loop or by a handler leaves of the invariant.
LEMMA RecordSubmissionStatus ==
    ASSUME StatusInv, NEW k \in Keys, NEW seq \in Nat, NEW bg \in BOOLEAN,
           RecordSubmission(k, seq, bg)
    PROVE  /\ StorageConsistent'
           /\ \A j \in Keys : TxExists(j)' <=> (TxExists(j) \/ j = k)
           /\ \A d \in delayed' : TxExists(d.hash.key)'
           /\ pending' \ pending \subseteq {d.hash : d \in delayed'}
           /\ delayed \subseteq delayed'
           /\ \A j \in Keys : status'[j] \in {"Committed", "ErrorOnCommit"} => status'[j] = status[j]
<1> DEFINE nh == [key |-> k, seq |-> seq]
           st == IF seq = 0 THEN "ErrorOnSubmit" ELSE "Submitted"
<1>1. nh \in NeutronHash /\ nh.key = k /\ st \in Statuses
      /\ SetTxStatus(k, nh, st, TRUE) /\ StorageTypeOK
  BY DEF NeutronHash, Statuses, RecordSubmission, StatusInv, TypeOK
<1>2. StorageConsistent'
  BY <1>1, SetTxStatusConsistent DEF StatusInv
<1>3. \A j \in Keys : TxExists(j)' <=> (TxExists(j) \/ j = k)
  BY <1>1, SetTxStatusRecords
<1>4. delayed' = IF seq = 0 THEN delayed ELSE delayed \cup {[hash |-> nh, bg |-> bg]}
  BY DEF RecordSubmission
<1>5. \A d \in delayed' : TxExists(d.hash.key)'
  <2>1. \A d \in delayed : d.hash.key \in Keys
    BY DEF StatusInv, TypeOK, DelayedType, NeutronHash
  <2> QED BY <1>1, <1>3, <1>4, <2>1 DEF StatusInv, RecordsKnown
<1>6. pending' \ pending \subseteq {d.hash : d \in delayed'}
  <2>1. pending' = IF seq = 0 THEN pending ELSE pending \cup {nh}
    BY <1>1 DEF SetTxStatus, PendingAfter
  <2>2. seq # 0 => nh \in {d.hash : d \in delayed'}
    <3>1. [hash |-> nh, bg |-> bg].hash = nh
      OBVIOUS
    <3> QED BY <1>4, <3>1
  <2> QED BY <2>1, <2>2
<1>7. \A j \in Keys : status'[j] \in {"Committed", "ErrorOnCommit"} => status'[j] = status[j]
  BY <1>1 DEF SetTxStatus, StorageTypeOK
<1> QED BY <1>2, <1>3, <1>4, <1>5, <1>6, <1>7

\* A step that touches neither the records nor those who hold one.
LEMMA StatusFrame ==
    ASSUME StatusInv, TypeOK', UNCHANGED <<txStatusVars, chk, delayed, http, abandoned>>,
           executed \subseteq executed', reverted \subseteq reverted',
           proc' = proc \/ proc' = "stopping",
           ClaimIsFresh'
    PROVE  StatusInv'
<1> USE DEF StatusInv, txStatusVars
<1>1. StorageConsistent'
  BY DEF StorageConsistent, SubmittedIsPending, FailedIsListed, CommittedIsForgotten,
         IndexesHaveRecords, TxExists
<1>2. RecordsKnown'
  BY DEF RecordsKnown, TxExists
<1>3. OutcomeKnown'
  BY DEF OutcomeKnown
<1>4. PendingTracked'
  BY DEF PendingTracked, Watched
<1>5. StatusTruthful'
  BY DEF StatusTruthful
<1> QED BY <1>1, <1>2, <1>3, <1>4, <1>5

LEMMA ClaimFrame ==
    ASSUME ClaimIsFresh, UNCHANGED status,
           rel' = rel \/ rel'.pc \notin {"process", "store"}
    PROVE  ClaimIsFresh'
BY DEF ClaimIsFresh, TxExists, RelKey

\* A send of the loop keeps the transaction it is about.
LEMMA RelSendKeepsKey ==
    ASSUME rel \in RelType, NEW seq, rel' = [rel EXCEPT !.pc = "store", !.seq = seq]
    PROVE  RelKey' = RelKey /\ rel'.pc = "store"
BY DEF RelType, RelKey

LEMMA LoopStatus ==
    ASSUME StatusInv, TypeOK',
           \/ \E q \in Queries : TakeTask(q)
           \/ SearchStep
           \/ \E t \in Txs : Receive(t) \/ ReceiveFails(t)
           \/ RelHeaderFails \/ RelSendAccepted \/ RelSendIgnored \/ RelSendCritical
           \/ RelStoreFails \/ Finish \/ FinishFails \/ RelStop
    PROVE  StatusInv'
<1> USE DEF storageVars, txStatusVars, historyVars, OthersIdle, neutronVars, Abort
<1>1. rel \in RelType /\ RelIdle.pc = "idle" /\ ClaimIsFresh
  BY DEF StatusInv, TypeOK, RelIdle
<1>2. CASE \E q \in Queries : TakeTask(q)
  <2>1. rel' = rel \/ rel'.pc \notin {"process", "store"}
    BY <1>2, IdleTypes DEF TakeTask, RelType
  <2> QED BY <1>1, <1>2, <2>1, ClaimFrame, StatusFrame DEF TakeTask
<1>3. CASE SearchStep
  BY <1>1, <1>3, ClaimFrame, StatusFrame DEF SearchStep
<1>4. CASE \E t \in Txs : Receive(t)
  <2>1. PICK t \in Txs : Receive(t)
    BY <1>4
  <2>2. rel'.query = rel.query /\ (rel'.pc = "range" \/ (rel'.tx = t /\ ~TxExists(<<rel.query, t>>)))
    BY <1>1, <2>1 DEF Receive, RelType
  <2>3. UNCHANGED status
    BY <2>1 DEF Receive
  <2>4. ClaimIsFresh'
    BY <2>2, <2>3 DEF ClaimIsFresh, TxExists, RelKey
  <2> QED BY <1>1, <2>1, <2>4, StatusFrame DEF Receive
<1>5. CASE \E t \in Txs : ReceiveFails(t)
  BY <1>1, <1>5, ClaimFrame, StatusFrame DEF ReceiveFails
<1>6. CASE RelHeaderFails
  BY <1>1, <1>6, ClaimFrame, StatusFrame DEF RelHeaderFails
<1>7. CASE RelSendAccepted \/ RelSendIgnored
  <2>1. RelKey' = RelKey /\ rel'.pc = "store" /\ rel.pc = "process" /\ UNCHANGED status
    BY <1>1, <1>7, RelSendKeepsKey DEF RelSendAccepted, RelSendIgnored
  <2>2. ClaimIsFresh'
    BY <1>1, <2>1 DEF ClaimIsFresh, TxExists
  <2> QED
    BY <1>7, <2>2, StatusFrame DEF RelSendAccepted, RelSendIgnored, BroadcastTxSync
<1>8. CASE RelSendCritical
  <2>1. rel'.pc = "done" /\ UNCHANGED status
    BY <1>8, IdleTypes DEF RelSendCritical, RelType
  <2>2. ClaimIsFresh'
    BY <1>1, <2>1, ClaimFrame
  <2> QED
    BY <1>8, <2>2, StatusFrame DEF RelSendCritical, BroadcastTxSync
<1>9. CASE RelStoreFails
  BY <1>1, <1>9, ClaimFrame, StatusFrame DEF RelStoreFails
<1>10. CASE Finish
  BY <1>1, <1>10, ClaimFrame, StatusFrame DEF Finish
<1>11. CASE FinishFails
  BY <1>1, <1>11, ClaimFrame, StatusFrame DEF FinishFails
<1>12. CASE RelStop
  <2>1. rel'.pc = "done"
    BY <1>1, <1>12 DEF RelStop, RelType
  <2> QED BY <1>1, <1>12, <2>1, ClaimFrame, StatusFrame DEF RelStop
<1> QED
  BY <1>2, <1>3, <1>4, <1>5, <1>6, <1>7, <1>8, <1>9, <1>10, <1>11, <1>12

LEMMA RelStoreStatus ==
    ASSUME StatusInv, TypeOK', RelStore
    PROVE  StatusInv'
<1>1. RelKey \in Keys /\ rel.seq \in Nat /\ rel' \in RelType /\ rel'.pc = "range"
  BY RelKeyType, RelRangeType DEF StatusInv, TypeOK, RelStore, RelType
<1>2. RecordSubmission(RelKey, rel.seq, FALSE)
  BY DEF RelStore
<1>3. UNCHANGED <<chk, http, proc, executed, reverted, abandoned>>
  BY DEF RelStore, OthersIdle, neutronVars, historyVars
<1>4. /\ StorageConsistent'
      /\ \A j \in Keys : TxExists(j) => TxExists(j)'
      /\ \A d \in delayed' : TxExists(d.hash.key)'
      /\ pending' \ pending \subseteq {d.hash : d \in delayed'}
      /\ delayed \subseteq delayed'
      /\ \A j \in Keys : status'[j] \in {"Committed", "ErrorOnCommit"} => status'[j] = status[j]
  BY <1>1, <1>2, RecordSubmissionStatus
<1>5. RecordsKnown'
  <2>1. \A nh \in chk.todo \cup {chk.cur} : nh.key \in Keys
    BY DEF StatusInv, TypeOK, ChkType, NeutronHash
  <2>2. \A h \in Handlers : http[h].key \in Keys
    BY DEF StatusInv, TypeOK, HttpType
  <2> QED BY <1>3, <1>4, <2>1, <2>2 DEF StatusInv, RecordsKnown
<1>6. OutcomeKnown'
  BY <1>3 DEF StatusInv, OutcomeKnown
<1>7. ClaimIsFresh'
  BY <1>1 DEF ClaimIsFresh
<1>8. PendingTracked'
  BY <1>3, <1>4 DEF StatusInv, PendingTracked, Watched
<1>9. StatusTruthful'
  BY <1>3, <1>4 DEF StatusInv, StatusTruthful
<1> QED BY <1>3, <1>4, <1>5, <1>6, <1>7, <1>8, <1>9 DEF StatusInv

LEMMA HttpStatus ==
    ASSUME StatusInv, TypeOK', NEW h \in Handlers, NEW k \in Keys,
           HttpStep(h) \/ Resubmit(h, k)
    PROVE  StatusInv'
<1>1. UNCHANGED <<rel, chk, proc, abandoned>>
  BY DEF HttpStep, Resubmit, HttpSendAccepted, HttpSendIgnored, HttpSendFails, HttpStore,
         HttpStoreFails, HttpUnchanged, historyVars
<1>2. executed' = executed /\ reverted' = reverted
  BY DEF HttpStep, Resubmit, HttpSendAccepted, HttpSendIgnored, HttpSendFails, HttpStore,
         HttpStoreFails, neutronVars, BroadcastTxSync
<1>3. http \in [Handlers -> HttpType] /\ HttpIdle.pc = "idle"
  BY DEF StatusInv, TypeOK, HttpIdle
<1>4. OutcomeKnown'
  BY <1>1, <1>2 DEF StatusInv, OutcomeKnown
<1>5. ASSUME UNCHANGED <<txStatusVars, delayed>>,
             \A g \in Handlers : http'[g].pc # "idle" => TxExists(http'[g].key)
      PROVE  StatusInv'
  <2> USE <1>1, <1>2, <1>5 DEF StatusInv, txStatusVars
  <2>1. StorageConsistent'
    BY DEF StorageConsistent, SubmittedIsPending, FailedIsListed, CommittedIsForgotten,
           IndexesHaveRecords, TxExists
  <2>2. RecordsKnown'
    BY DEF RecordsKnown, TxExists
  <2>3. ClaimIsFresh' /\ PendingTracked' /\ StatusTruthful'
    BY DEF ClaimIsFresh, RelKey, TxExists, PendingTracked, Watched, StatusTruthful
  <2> QED BY <1>4, <2>1, <2>2, <2>3
<1>6. CASE Resubmit(h, k)
  <2>1. TxExists(k)
    BY <1>6 DEF Resubmit, GetCachedTx, StatusInv, StorageConsistent, IndexesHaveRecords
  <2>2. [HttpIdle EXCEPT !.pc = "process", !.key = k].key = k
    BY DEF HttpIdle
  <2> QED BY <1>3, <1>5, <1>6, <2>1, <2>2 DEF Resubmit, StatusInv, RecordsKnown
<1>7. CASE HttpSendAccepted(h) \/ HttpSendIgnored(h)
  <2>1. PICK seq : http' = [http EXCEPT ![h] = [@ EXCEPT !.pc = "store", !.seq = seq]]
    BY <1>7 DEF HttpSendAccepted, HttpSendIgnored
  <2>2. [http[h] EXCEPT !.pc = "store", !.seq = seq].key = http[h].key /\ http[h].pc = "process"
    BY <1>3, <1>7 DEF HttpSendAccepted, HttpSendIgnored, HttpType
  <2> QED
    BY <1>3, <1>5, <1>7, <2>1, <2>2
    DEF HttpSendAccepted, HttpSendIgnored, StatusInv, RecordsKnown
<1>8. CASE HttpSendFails(h) \/ HttpStoreFails(h)
  BY <1>3, <1>5, <1>8 DEF HttpSendFails, HttpStoreFails, StatusInv, RecordsKnown
<1>9. CASE HttpStore(h)
  <2>1. http[h].key \in Keys /\ http[h].seq \in Nat /\ TxExists(http[h].key)
    BY <1>3, <1>9 DEF HttpStore, HttpType, StatusInv, RecordsKnown
  <2>2. RecordSubmission(http[h].key, http[h].seq, TRUE)
    BY <1>9 DEF HttpStore
  <2>3. /\ StorageConsistent'
        /\ \A j \in Keys : TxExists(j)' <=> TxExists(j)
        /\ \A d \in delayed' : TxExists(d.hash.key)'
        /\ pending' \ pending \subseteq {d.hash : d \in delayed'}
        /\ delayed \subseteq delayed'
        /\ \A j \in Keys : status'[j] \in {"Committed", "ErrorOnCommit"} => status'[j] = status[j]
    BY <2>1, <2>2, RecordSubmissionStatus
  <2>4. RecordsKnown'
    <3>1. \A nh \in chk.todo \cup {chk.cur} : nh.key \in Keys
      BY DEF StatusInv, TypeOK, ChkType, NeutronHash
    <3>2. \A g \in Handlers : http[g].key \in Keys /\ http'[g] \in {http[g], HttpIdle}
      BY <1>3, <1>9 DEF HttpType, HttpStore
    <3> QED BY <1>1, <1>3, <2>3, <3>1, <3>2 DEF StatusInv, RecordsKnown
  <2>5. ClaimIsFresh'
    BY <1>1, <2>3, RelKeyType DEF StatusInv, ClaimIsFresh, RelKey
  <2>6. PendingTracked'
    BY <1>1, <2>3 DEF StatusInv, PendingTracked, Watched
  <2>7. StatusTruthful'
    BY <1>2, <2>3 DEF StatusInv, StatusTruthful
  <2> QED BY <1>1, <1>4, <2>3, <2>4, <2>5, <2>6, <2>7 DEF StatusInv
<1> QED BY <1>6, <1>7, <1>8, <1>9 DEF HttpStep

\* The checker moves on without writing the storage.
LEMMA ChkFrame ==
    ASSUME StatusInv, TypeOK',
           UNCHANGED <<txStatusVars, rel, http, executed, reverted>>,
           proc' = proc \/ proc' = "stopping",
           RecordsKnown', OutcomeKnown',
           proc' = "up" /\ chk'.pc # "boot" => pending \subseteq Watched',
           proc' = "down" => chk'.pc = "boot"
    PROVE  StatusInv'
<1> USE DEF StatusInv, txStatusVars
<1>1. StorageConsistent'
  BY DEF StorageConsistent, SubmittedIsPending, FailedIsListed, CommittedIsForgotten,
         IndexesHaveRecords, TxExists
<1>2. ClaimIsFresh' /\ PendingTracked' /\ StatusTruthful'
  BY DEF ClaimIsFresh, RelKey, TxExists, PendingTracked, StatusTruthful
<1> QED BY <1>1, <1>2

LEMMA ChkStatus ==
    ASSUME StatusInv, TypeOK', ChkStep \/ \E d \in delayed : DelayedCancelled(d)
    PROVE  StatusInv'
<1> DEFINE Quiet == UNCHANGED <<txStatusVars, rel, http, executed, reverted, proc>>
<1>1. /\ chk \in ChkType /\ chk' \in ChkType /\ RecordsKnown /\ OutcomeKnown
      /\ PendingTracked /\ (proc = "down" => chk.pc = "boot") /\ TypeOK
  BY DEF StatusInv, TypeOK
<1>2. ASSUME ChkUnchanged, UNCHANGED txStatusVars PROVE Quiet
  BY <1>2 DEF ChkUnchanged, neutronVars
<1>3. ASSUME NEW todo, chk' = Between(todo)
      PROVE  chk'.pc = "next" /\ chk'.todo = todo
  BY <1>3 DEF Between, ChkBoot
<1>4. ASSUME NEW nh, StartCheck(nh)
      PROVE  chk'.pc = "query" /\ chk'.todo = chk.todo \ {nh} /\ chk'.cur = nh
  BY <1>1, <1>4 DEF StartCheck, ChkType
<1>5. ASSUME GiveUp
      PROVE  chk'.pc = "next" /\ chk'.todo = chk.todo /\ abandoned' = abandoned \cup {chk.cur}
  BY <1>3, <1>5 DEF GiveUp
<1>6. ASSUME Running, chk.pc # "boot" PROVE proc # "down"
  BY <1>6 DEF Running
<1> USE DEF RecordsKnown, OutcomeKnown, PendingTracked, Watched, TxExists, txStatusVars
<1>7. CASE ChkReadPending
  <2>1. Quiet /\ chk'.pc = "next" /\ chk'.todo = pending /\ delayed' = delayed
    BY <1>2, <1>3, <1>7 DEF ChkReadPending, GetAllPendingTxs
  <2>2. \A nh \in pending : TxExists(nh.key)
    BY DEF StatusInv, StorageConsistent, IndexesHaveRecords
  <2>3. Running
    BY <1>7 DEF ChkReadPending
  <2> QED BY <1>1, <2>1, <2>2, <2>3, ChkFrame DEF Running
<1>8. CASE ChkReadPendingFails
  <2>1. chk'.pc = "done" /\ chk'.todo = {}
    BY <1>8 DEF ChkReadPendingFails, ChkBoot
  <2> QED
    BY <1>1, <1>8, <2>1, ChkFrame DEF ChkReadPendingFails, storageVars, neutronVars, historyVars
<1>9. CASE \E nh \in chk.todo : ChkNext(nh)
  <2>1. PICK nh \in chk.todo : ChkNext(nh)
    BY <1>9
  <2>2. /\ Quiet /\ chk'.pc = "query" /\ chk'.todo = chk.todo \ {nh} /\ chk'.cur = nh
        /\ delayed' = delayed /\ abandoned' = abandoned /\ proc # "down" /\ chk.pc = "next"
    BY <1>2, <1>4, <1>6, <2>1 DEF ChkNext
  <2> QED BY <1>1, <2>2, ChkFrame
<1>10. CASE \E d \in delayed : ChkReceive(d)
  <2>1. PICK d \in delayed : ChkReceive(d)
    BY <1>10
  <2>2. /\ Quiet /\ chk'.pc = "query" /\ chk'.todo = chk.todo \ {d.hash} /\ chk'.cur = d.hash
        /\ delayed' = delayed \ {d} /\ abandoned' = abandoned /\ proc # "down" /\ chk.pc = "next"
    BY <1>2, <1>4, <1>6, <2>1 DEF ChkReceive
  <2> QED BY <1>1, <2>2, ChkFrame
<1>11. CASE ChkFound
  <2>1. /\ chk'.pc = "update" /\ chk'.todo = chk.todo /\ chk'.cur = chk.cur
        /\ chk'.code = (IF chk.cur \in executed THEN "Committed" ELSE "ErrorOnCommit")
    BY <1>1, <1>11 DEF ChkFound, ChkType
  <2>2. /\ Quiet /\ delayed' = delayed /\ abandoned' = abandoned /\ proc # "down"
        /\ chk.pc = "query" /\ chk.cur \in executed \cup reverted
    BY <1>2, <1>6, <1>11 DEF ChkFound, InBlock
  <2> QED BY <1>1, <2>1, <2>2, ChkFrame
<1>12. CASE ChkAttemptFails
  <2>1. /\ Quiet /\ delayed' = delayed /\ proc # "down" /\ chk.pc = "query"
    BY <1>2, <1>6, <1>12 DEF ChkAttemptFails
  <2>2. CASE GiveUp
    BY <1>1, <1>5, <2>1, <2>2, ChkFrame
  <2>3. CASE ~GiveUp
    <3>1. /\ chk'.pc = chk.pc /\ chk'.todo = chk.todo /\ chk'.cur = chk.cur
          /\ abandoned' = abandoned
      BY <1>1, <1>12, <2>3 DEF ChkAttemptFails, ChkType
    <3> QED BY <1>1, <2>1, <3>1, ChkFrame
  <2> QED BY <2>2, <2>3
<1>13. CASE ChkUpdate
  <2>1. /\ chk'.pc = "next" /\ chk'.todo = chk.todo /\ chk.pc = "update" /\ proc # "down"
        /\ UNCHANGED <<rel, http, proc, delayed, abandoned, executed, reverted>>
    BY <1>3, <1>6, <1>13 DEF ChkUpdate, ChkUnchanged, neutronVars
  <2>2. /\ chk.cur \in NeutronHash /\ chk.cur.key \in Keys /\ chk.code \in Statuses
        /\ chk.code \in {"Committed", "ErrorOnCommit"} /\ StorageTypeOK /\ StorageConsistent
        /\ SetTxStatus(chk.cur.key, chk.cur, chk.code, FALSE)
    BY <1>1, <1>13 DEF ChkType, NeutronHash, Statuses, ChkUpdate, StatusInv, TypeOK
  <2>3. StorageConsistent'
    BY <2>2, SetTxStatusConsistent
  <2>4. \A j \in Keys : TxExists(j)' <=> TxExists(j)
    BY <1>1, <2>1, <2>2, SetTxStatusRecords
  <2>5. RecordsKnown'
    <3>1. /\ \A nh \in chk.todo : nh.key \in Keys
          /\ \A d \in delayed : d.hash.key \in Keys
          /\ \A h \in Handlers : http[h].key \in Keys
      BY <1>1 DEF TypeOK, ChkType, NeutronHash, DelayedType, HttpType
    <3> QED BY <1>1, <2>1, <2>4, <3>1
  <2>6. ClaimIsFresh'
    BY <2>1, <2>4, RelKeyType DEF StatusInv, ClaimIsFresh, RelKey
  <2>7. pending' = pending \ {chk.cur}
    BY <2>2 DEF SetTxStatus, PendingAfter
  <2>8. PendingTracked'
    BY <1>1, <2>1, <2>7
  <2>9. StatusTruthful'
    BY <1>1, <2>1, <2>2 DEF StatusInv, StatusTruthful, SetTxStatus, StorageTypeOK
  <2> QED BY <1>1, <2>1, <2>3, <2>5, <2>6, <2>8, <2>9 DEF StatusInv
<1>14. CASE ChkUpdateFails
  <2>1. /\ Quiet /\ delayed' = delayed /\ proc # "down" /\ chk.pc = "update"
    BY <1>2, <1>6, <1>14 DEF ChkUpdateFails
  <2> QED BY <1>1, <1>5, <1>14, <2>1, ChkFrame DEF ChkUpdateFails
<1>15. CASE ChkStop
  <2>1. chk'.pc = "done" /\ chk'.todo = {}
    BY <1>15 DEF ChkStop, ChkBoot
  <2>2. Quiet /\ delayed' = delayed /\ proc = "stopping"
    BY <1>2, <1>15 DEF ChkStop, Cancelled
  <2> QED BY <1>1, <2>1, <2>2, ChkFrame
<1>16. CASE \E d \in delayed : DelayedCancelled(d)
  <2>1. Quiet /\ chk' = chk /\ delayed' \subseteq delayed /\ proc = "stopping"
    BY <1>2, <1>16 DEF DelayedCancelled, Cancelled
  <2> QED BY <1>1, <2>1, ChkFrame
<1> QED
  BY <1>7, <1>8, <1>9, <1>10, <1>11, <1>12, <1>13, <1>14, <1>15, <1>16 DEF ChkStep

LEMMA ProcessStatus ==
    ASSUME StatusInv, TypeOK', Cancel \/ Exit \/ Crash \/ Start
    PROVE  StatusInv'
<1>1. /\ UNCHANGED <<txStatusVars, executed, reverted>>
      /\ TypeOK /\ ClaimIsFresh /\ (proc = "down" => chk.pc = "boot")
  BY DEF Cancel, Exit, Crash, Start, ProcUnchanged, storageVars, txStatusVars, neutronVars,
         StatusInv
<1>2. CASE Cancel
  BY <1>1, <1>2, ClaimFrame, StatusFrame DEF Cancel, txStatusVars
<1>3. CASE Exit \/ Crash
  <2>1. /\ proc' = "down" /\ chk'.pc = "boot" /\ chk'.todo = {} /\ delayed' = {}
        /\ rel'.pc = "idle" /\ \A h \in Handlers : http'[h].pc = "idle"
    BY <1>3 DEF Exit, Crash, LoseMemory, ChkBoot, RelIdle, HttpIdle
  <2>2. StorageConsistent'
    BY <1>1 DEF StatusInv, txStatusVars, StorageConsistent, SubmittedIsPending, FailedIsListed,
       CommittedIsForgotten, IndexesHaveRecords, TxExists
  <2>3. RecordsKnown' /\ OutcomeKnown' /\ ClaimIsFresh' /\ PendingTracked'
    BY <2>1 DEF RecordsKnown, OutcomeKnown, ClaimIsFresh, PendingTracked
  <2>4. StatusTruthful'
    BY <1>1 DEF StatusInv, txStatusVars, StatusTruthful
  <2> QED BY <2>1, <2>2, <2>3, <2>4 DEF StatusInv
<1>4. CASE Start
  <2>1. UNCHANGED <<rel, http>> /\ chk'.pc = "boot" /\ delayed' = delayed /\ chk' = chk
    BY <1>1, <1>4 DEF Start
  <2>2. StorageConsistent'
    BY <1>1 DEF StatusInv, txStatusVars, StorageConsistent, SubmittedIsPending, FailedIsListed,
       CommittedIsForgotten, IndexesHaveRecords, TxExists
  <2>3. RecordsKnown'
    BY <1>1, <2>1 DEF StatusInv, txStatusVars, RecordsKnown, TxExists
  <2>4. OutcomeKnown' /\ PendingTracked'
    BY <2>1 DEF OutcomeKnown, PendingTracked
  <2>5. ClaimIsFresh'
    BY <1>1, <2>1, ClaimFrame DEF txStatusVars
  <2>6. StatusTruthful'
    BY <1>1 DEF StatusInv, txStatusVars, StatusTruthful
  <2> QED BY <2>1, <2>2, <2>3, <2>4, <2>5, <2>6 DEF StatusInv
<1> QED BY <1>2, <1>3, <1>4

LEMMA ChainStatus ==
    ASSUME StatusInv, TypeOK', ChainStep
    PROVE  StatusInv'
<1>1. /\ UNCHANGED <<txStatusVars, chk, delayed, http, abandoned, rel, proc>>
      /\ executed \subseteq executed' /\ reverted \subseteq reverted'
  BY DEF ChainStep, TargetBlock, NeutronExecutes, NeutronDrops, ExecuteTx, DropTx, ChainsOnly,
         storageVars, txStatusVars, historyVars, neutronVars
<1>2. ClaimIsFresh'
  BY <1>1, ClaimFrame DEF StatusInv, txStatusVars
<1> QED BY <1>1, <1>2, StatusFrame

LEMMA StatusStutter ==
    ASSUME StatusInv, TypeOK', UNCHANGED vars
    PROVE  StatusInv'
<1>1. /\ UNCHANGED <<txStatusVars, chk, delayed, http, abandoned, rel, proc>>
      /\ executed \subseteq executed' /\ reverted \subseteq reverted'
  BY DEF vars, storageVars, txStatusVars, neutronVars, historyVars
<1>2. ClaimIsFresh'
  BY <1>1, ClaimFrame DEF StatusInv, txStatusVars
<1> QED BY <1>1, <1>2, StatusFrame

LEMMA StatusStep == StatusInv /\ [Next]_vars => StatusInv'
<1> SUFFICES ASSUME StatusInv, [Next]_vars PROVE StatusInv'
  OBVIOUS
<1>0. TypeOK'
  BY TypeStep DEF StatusInv
<1>1. CASE UNCHANGED vars
  BY <1>0, <1>1, StatusStutter
<1>2. CASE (\E q \in Queries : TakeTask(q)) \/ SearchStep
  BY <1>0, <1>2, LoopStatus
<1>3. CASE RelStep
  BY <1>0, <1>3, LoopStatus, RelStoreStatus DEF RelStep
<1>4. CASE \E h \in Handlers : HttpStep(h) \/ \E k \in Keys : Resubmit(h, k)
  <2>1. <<AnyQuery, 1>> \in Keys
    BY AnyQueryIn DEF Keys, Txs
  <2> QED BY <1>0, <1>4, <2>1, HttpStatus
<1>5. CASE ChkStep \/ \E d \in delayed : DelayedCancelled(d)
  BY <1>0, <1>5, ChkStatus
<1>6. CASE Cancel \/ Exit \/ Crash \/ Start
  BY <1>0, <1>6, ProcessStatus
<1>7. CASE ChainStep
  BY <1>0, <1>7, ChainStatus
<1> QED
  BY <1>1, <1>2, <1>3, <1>4, <1>5, <1>6, <1>7 DEF Next

\* The strengthening is an invariant of the specification.
THEOREM StatusCorrect == Spec => []StatusInv
BY StatusInit, StatusStep, PTL DEF Spec

\* However the loop, the checker and the handlers interleave their calls of
\* SetTxStatus, and wherever the process is killed, the four index families
\* of LevelDBStorage agree with the statuses.
THEOREM StorageCorrect == Spec => []StorageConsistent
<1>1. StatusInv => StorageConsistent
  BY DEF StatusInv
<1> QED BY <1>1, StatusCorrect, PTL

\* Between the TxExists of the loop and the record of the submission it
\* allowed, nobody else records that transaction.
THEOREM ClaimCorrect == Spec => []ClaimIsFresh
<1>1. StatusInv => ClaimIsFresh
  BY DEF StatusInv
<1> QED BY <1>1, StatusCorrect, PTL

\* A submission whose outcome is unknown never leaves the sight of the
\* checker of the running process but by the checker giving up.
THEOREM PendingCorrect == Spec => []PendingTracked
<1>1. StatusInv => PendingTracked
  BY DEF StatusInv
<1> QED BY <1>1, StatusCorrect, PTL

\* A transaction has the status Committed or ErrorOnCommit only if Neutron
\* executed or rejected some submission of it.
THEOREM StatusesCorrect == Spec => []StatusTruthful
<1>1. StatusInv => StatusTruthful
  BY DEF StatusInv
<1> QED BY <1>1, StatusCorrect, PTL

----------------------------------------------------------------------------
(***************************************************************************)
(* Resubmission.  The body of a transaction goes with the status           *)
(* "Committed" only, which needs an executed submission of it; a later     *)
(* status of another submission does not bring the need for it back.       *)
(***************************************************************************)
Executed(k) == \E nh \in executed : nh.key = k

\* What any write of a status by the loop, a handler or the checker leaves.
LEMMA SetTxStatusKeeps ==
    ASSUME StatusInv, UndeliveredIsKept, executed' = executed,
           NEW k \in Keys, NEW nh, NEW st \in Statuses, NEW processed \in BOOLEAN,
           SetTxStatus(k, nh, st, processed),
           st \in {"Submitted", "ErrorOnSubmit"} => processed,
           st \in {"Submitted", "ErrorOnSubmit"} \/ TxExists(k),
           st = "Committed" => Executed(k)
    PROVE  UndeliveredIsKept'
<1>1. StorageTypeOK
  BY DEF StatusInv, TypeOK
<1>2. \A j \in Keys : TxExists(j)' <=> (TxExists(j) \/ j = k)
  BY <1>1, SetTxStatusRecords
<1>3. cached' = CachedAfter(k, st, processed)
  BY DEF SetTxStatus
<1>4. SUFFICES ASSUME NEW j \in Keys, TxExists(j)'
               PROVE  j \in cached' \/ Executed(j)
  BY DEF UndeliveredIsKept, GetCachedTx, Executed
<1>5. CASE j # k
  BY <1>2, <1>3, <1>4, <1>5 DEF UndeliveredIsKept, GetCachedTx, Executed, CachedAfter
<1>6. CASE j = k /\ st \in {"Submitted", "ErrorOnSubmit"}
  BY <1>3, <1>6 DEF CachedAfter
<1>7. CASE j = k /\ st \notin {"Submitted", "ErrorOnSubmit"}
  BY <1>3, <1>7 DEF UndeliveredIsKept, GetCachedTx, Executed, CachedAfter
<1> QED BY <1>5, <1>6, <1>7

LEMMA RecordSubmissionKeeps ==
    ASSUME StatusInv, UndeliveredIsKept, executed' = executed,
           NEW k \in Keys, NEW seq \in Nat, NEW bg \in BOOLEAN,
           RecordSubmission(k, seq, bg)
    PROVE  UndeliveredIsKept'
<1>1. SetTxStatus(k, [key |-> k, seq |-> seq],
                  IF seq = 0 THEN "ErrorOnSubmit" ELSE "Submitted", TRUE)
  BY DEF RecordSubmission
<1> QED BY <1>1, SetTxStatusKeeps DEF Statuses

\* The steps that write a status are three; nothing else touches the index.
LEMMA KeptStep ==
    ASSUME StatusInv, UndeliveredIsKept, [Next]_vars
    PROVE  UndeliveredIsKept'
<1>1. TypeOK
  BY DEF StatusInv
<1>2. ASSUME UNCHANGED <<status, cached>>, executed \subseteq executed'
      PROVE  UndeliveredIsKept'
  BY <1>2 DEF UndeliveredIsKept, TxExists, GetCachedTx
<1>3. CASE RelStore
  <2>1. RelKey \in Keys /\ rel.seq \in Nat
    BY <1>1, <1>3, RelKeyType DEF TypeOK, RelStore, RelType
  <2>2. RecordSubmission(RelKey, rel.seq, FALSE) /\ executed' = executed
    BY <1>3 DEF RelStore, OthersIdle, neutronVars
  <2> QED BY <2>1, <2>2, RecordSubmissionKeeps
<1>4. ASSUME NEW h \in Handlers, HttpStore(h)
      PROVE  UndeliveredIsKept'
  <2>1. http[h].key \in Keys /\ http[h].seq \in Nat
    BY <1>1, <1>4 DEF TypeOK, HttpType
  <2>2. RecordSubmission(http[h].key, http[h].seq, TRUE) /\ executed' = executed
    BY <1>4 DEF HttpStore, neutronVars
  <2> QED BY <2>1, <2>2, RecordSubmissionKeeps
<1>5. CASE ChkUpdate
  <2>1. /\ chk.cur.key \in Keys /\ chk.code \in Statuses /\ TxExists(chk.cur.key)
        /\ chk.code \in {"Committed", "ErrorOnCommit"}
        /\ chk.code = "Committed" => Executed(chk.cur.key)
    BY <1>1, <1>5
    DEF ChkUpdate, TypeOK, ChkType, NeutronHash, Statuses, StatusInv, RecordsKnown,
        OutcomeKnown, Executed
  <2>2. SetTxStatus(chk.cur.key, chk.cur, chk.code, FALSE) /\ executed' = executed
    BY <1>5 DEF ChkUpdate, ChkUnchanged, neutronVars
  <2> QED BY <2>1, <2>2, SetTxStatusKeeps
<1>6. CASE (\E q \in Queries : TakeTask(q)) \/ SearchStep
  BY <1>2, <1>6 DEF TakeTask, SearchStep, OthersIdle, txStatusVars, storageVars, neutronVars
<1>7. CASE RelStep /\ ~RelStore
  BY <1>2, <1>7
  DEF RelStep, Receive, ReceiveFails, RelHeaderFails, RelSendAccepted, RelSendIgnored,
      RelSendCritical, RelStoreFails, Finish, FinishFails, RelStop, BroadcastTxSync,
      OthersIdle, txStatusVars, storageVars, neutronVars
<1>8. ASSUME NEW h \in Handlers, (HttpStep(h) /\ ~HttpStore(h)) \/ \E k \in Keys : Resubmit(h, k)
      PROVE  UndeliveredIsKept'
  BY <1>2, <1>8
  DEF HttpStep, Resubmit, HttpSendAccepted, HttpSendIgnored, HttpSendFails, HttpStoreFails,
      BroadcastTxSync, txStatusVars, neutronVars
<1>9. CASE (ChkStep /\ ~ChkUpdate) \/ \E d \in delayed : DelayedCancelled(d)
  BY <1>2, <1>9
  DEF ChkStep, ChkReadPending, ChkReadPendingFails, ChkNext, ChkReceive, ChkFound,
      ChkAttemptFails, ChkUpdateFails, ChkStop, DelayedCancelled, ChkUnchanged,
      txStatusVars, storageVars, neutronVars
<1>10. CASE Cancel \/ Exit \/ Crash \/ Start
  BY <1>2, <1>10 DEF Cancel, Exit, Crash, Start, ProcUnchanged, storageVars, neutronVars
<1>11. CASE ChainStep
  BY <1>2, <1>11
  DEF ChainStep, TargetBlock, NeutronExecutes, NeutronDrops, ExecuteTx, DropTx, ChainsOnly,
      storageVars, neutronVars
<1>12. CASE UNCHANGED vars
  BY <1>2, <1>12 DEF vars, storageVars, neutronVars
<1> QED
  BY <1>3, <1>4, <1>5, <1>6, <1>7, <1>8, <1>9, <1>10, <1>11, <1>12 DEF Next

\* Whatever the order in which the outcomes of several submissions of a
\* transaction are learned, its body is there to be sent again until Neutron
\* has executed one of them.
THEOREM KeptCorrect == Spec => []UndeliveredIsKept
<1>1. Init => UndeliveredIsKept
  BY DEF Init, StorageInit, UndeliveredIsKept, TxExists, Absent
<1>2. StatusInv /\ UndeliveredIsKept /\ [Next]_vars => UndeliveredIsKept'
  BY KeptStep
<1> QED BY <1>1, <1>2, StatusCorrect, PTL DEF Spec
----------------------------------------------------------------------------
(***************************************************************************)
(* The account of the broadcasts.  A handler in ProcessAndSubmit has a     *)
(* request that is counted and a broadcast to come (Owed); a process that  *)
(* is stopping has used a fault, and its loop may broadcast once without   *)
(* another one, when it returns a critical error (Spare).                  *)
(***************************************************************************)
Known == {k \in Keys : TxExists(k) \/ (rel.pc = "store" /\ k = RelKey)}
Owed  == {h \in Handlers : http[h].pc = "process"}
Spare == IF Cancelled /\ rel.pc # "done" THEN 1 ELSE 0

SendsInv ==
    /\ IsFiniteSet(Known) /\ IsFiniteSet(Owed)
    /\ sent + Cardinality(Owed) + Spare <= Cardinality(Known) + faults + resubmits

\* The sets of the account are empty at first, and it begins with zero.
LEMMA SendsInit == Init => SendsInv
<1> SUFFICES ASSUME Init PROVE SendsInv
  OBVIOUS
<1>1. Known = {} /\ Owed = {} /\ Spare = 0
  BY DEF Init, StorageInit, VolatileInit, RelIdle, HttpIdle, Known, Owed, Spare, TxExists, Cancelled
<1> QED BY <1>1, FS_EmptySet DEF Init, NeutronInit, SendsInv

\* The numbers of the account.
LEMMA SendsNumbers ==
    ASSUME TypeOK, SendsInv
    PROVE  /\ {sent, faults, resubmits, Spare, Cardinality(Owed), Cardinality(Known)} \subseteq Nat
           /\ Spare \in 0 .. 1
BY FS_CardinalityType DEF TypeOK, NeutronTypeOK, SendsInv, Spare

\* A set that gains at most one member, and one that loses at most one.
LEMMA Gains ==
    ASSUME NEW S, NEW T, NEW x, IsFiniteSet(S), S \subseteq T, T \subseteq S \cup {x}
    PROVE  IsFiniteSet(T) /\ Cardinality(S) <= Cardinality(T)
<1>1. IsFiniteSet(S \cup {x})
  BY FS_AddElement
<1>2. IsFiniteSet(T)
  BY <1>1, FS_Subset
<1> QED BY <1>2, FS_Subset

LEMMA Loses ==
    ASSUME NEW S, NEW T, NEW x, IsFiniteSet(S), T \subseteq S, S \subseteq T \cup {x}
    PROVE  IsFiniteSet(T) /\ Cardinality(S) <= Cardinality(T) + 1 /\ Cardinality(T) <= Cardinality(S)
<1>1. IsFiniteSet(T) /\ Cardinality(T) <= Cardinality(S)
  BY FS_Subset
<1>2. IsFiniteSet(T \cup {x}) /\ Cardinality(T \cup {x}) <= Cardinality(T) + 1
  <2>1. Cardinality(T) \in Nat
    BY <1>1, FS_CardinalityType
  <2>2. /\ IsFiniteSet(T \cup {x})
        /\ Cardinality(T \cup {x}) = IF x \in T THEN Cardinality(T) ELSE Cardinality(T) + 1
    BY <1>1, FS_AddElement
  <2> QED BY <2>1, <2>2
<1>3. Cardinality(S) <= Cardinality(T \cup {x})
  BY <1>2, FS_Subset
<1> QED BY <1>1, <1>2, <1>3, FS_CardinalityType

\* A step that sends nothing, and adds at most one record.
LEMMA NothingSent ==
    ASSUME TypeOK, TypeOK', SendsInv, NEW k \in Keys,
           Known \subseteq Known', Known' \subseteq Known \cup {k},
           Owed' = Owed, UNCHANGED <<sent, resubmits>>,
           faults' = faults + 1 \/ (faults' = faults /\ Spare' <= Spare)
    PROVE  SendsInv'
<1>1. IsFiniteSet(Known') /\ Cardinality(Known) <= Cardinality(Known')
  BY Gains DEF SendsInv
<1>2. Spare' \in 0 .. 1 /\ faults' \in Nat /\ Cardinality(Known') \in Nat
  BY <1>1, FS_CardinalityType DEF TypeOK, Spare
<1>3. IsFiniteSet(Owed') /\ Cardinality(Owed') = Cardinality(Owed)
  BY DEF SendsInv
<1> QED BY <1>1, <1>2, <1>3, SendsNumbers DEF SendsInv

\* A step that a fault pays for: it loses at most the claim of the loop, and
\* requests.
LEMMA FaultPays ==
    ASSUME TypeOK, TypeOK', SendsInv, NEW k \in Keys,
           Known' \subseteq Known, Known \subseteq Known' \cup {k},
           Owed' \subseteq Owed, UNCHANGED <<sent, resubmits>>,
           Spare' <= Spare, faults' = faults + 1
    PROVE  SendsInv'
<1>1. IsFiniteSet(Known') /\ Cardinality(Known) <= Cardinality(Known') + 1
  BY Loses DEF SendsInv
<1>2. IsFiniteSet(Owed') /\ Cardinality(Owed') <= Cardinality(Owed)
  BY FS_Subset DEF SendsInv
<1>3. Spare' \in 0 .. 1 /\ Cardinality(Known') \in Nat /\ Cardinality(Owed') \in Nat
  BY <1>1, <1>2, FS_CardinalityType DEF Spare
<1> QED BY <1>1, <1>2, <1>3, SendsNumbers DEF SendsInv

\* The records that a step without SetTxStatus leaves, and what the loop adds.
LEMMA KnownKept ==
    ASSUME UNCHANGED status, rel.pc # "store", rel'.pc # "store"
    PROVE  Known' = Known
BY DEF Known, TxExists

\* The steps of the loop and of its search that neither send nor store.
LEMMA LoopSends ==
    ASSUME StatusInv, TypeOK', SendsInv,
           \/ \E q \in Queries : TakeTask(q)
           \/ SearchStep
           \/ \E t \in Txs : Receive(t) \/ ReceiveFails(t)
           \/ RelHeaderFails \/ RelSendIgnored \/ Finish \/ FinishFails \/ RelStop
    PROVE  SendsInv'
<1>1. <<AnyQuery, 1>> \in Keys
  BY AnyQueryIn DEF Keys, Txs
<1>2. PICK k \in Keys : Known' \subseteq Known \cup {k} /\ Known \subseteq Known'
  <2>1. CASE RelSendIgnored
    <3>1. RelKey' = RelKey /\ rel.pc = "process" /\ rel'.pc = "store" /\ UNCHANGED status
      BY <2>1, RelSendKeepsKey DEF RelSendIgnored, storageVars, StatusInv, TypeOK
    <3>2. RelKey \in Keys
      BY <3>1, RelKeyType DEF StatusInv
    <3> QED BY <3>1, <3>2 DEF Known, TxExists
  <2>2. CASE ~RelSendIgnored /\ ~SearchStep
    <3>1. UNCHANGED status /\ rel.pc # "store"
      BY <2>2
      DEF TakeTask, Receive, ReceiveFails, RelHeaderFails, Finish, FinishFails, RelStop,
          storageVars, txStatusVars
    <3>2. rel'.pc # "store"
      <4>1. rel \in RelType
        BY DEF StatusInv, TypeOK
      <4>2. CASE \E q \in Queries : TakeTask(q)
        BY <4>2, <3>1 DEF TakeTask, RelIdle
      <4>3. CASE \E t \in Txs : Receive(t)
        BY <4>1, <4>3, <3>1 DEF Receive, RelType
      <4>4. CASE RelStop
        BY <4>1, <4>4 DEF RelStop, RelType
      <4>5. CASE RelHeaderFails \/ Finish \/ FinishFails \/ \E t \in Txs : ReceiveFails(t)
        BY <4>5 DEF ReceiveFails, RelHeaderFails, Finish, FinishFails, Abort, RelIdle
      <4> QED BY <2>2, <4>2, <4>3, <4>4, <4>5
    <3> QED BY <3>1, <3>2, <1>1, KnownKept
  <2>3. CASE SearchStep
    <3>1. UNCHANGED <<status, rel>>
      BY <2>3 DEF SearchStep, storageVars
    <3> QED BY <3>1, <1>1 DEF Known, TxExists, RelKey
  <2> QED BY <2>1, <2>2, <2>3
<1>3. UNCHANGED <<http, sent, resubmits, proc>>
  BY DEF TakeTask, SearchStep, Receive, ReceiveFails, RelHeaderFails, RelSendIgnored, Finish,
         FinishFails, RelStop, OthersIdle, neutronVars
<1>4. rel.pc = "done" => rel'.pc = "done"
  BY DEF TakeTask, SearchStep, Receive, ReceiveFails, RelHeaderFails, RelSendIgnored, Finish,
         FinishFails, RelStop
<1>5. faults' \in {faults, faults + 1}
  BY DEF TakeTask, SearchStep, Receive, ReceiveFails, RelHeaderFails, RelSendIgnored, Finish,
         FinishFails, RelStop, CallFails, CallSucceeds, Fault
<1>6. Spare' <= Spare
  BY <1>3, <1>4 DEF Spare, Cancelled
<1>7. Owed' = Owed
  BY <1>3 DEF Owed
<1> QED BY <1>2, <1>3, <1>5, <1>6, <1>7, NothingSent DEF StatusInv

\* An accepted broadcast of the loop: its claim, which is fresh, joins the
\* known transactions.
LEMMA RelAcceptedSends == ASSUME StatusInv, TypeOK', SendsInv, RelSendAccepted PROVE SendsInv'
<1>1. RelKey \in Keys
  BY RelKeyType DEF StatusInv, RelSendAccepted
<1>2. RelKey' = RelKey /\ rel'.pc = "store" /\ rel.pc = "process" /\ UNCHANGED status
  <2>1. sent + 1 \in Nat /\ rel \in RelType
    BY DEF StatusInv, TypeOK, NeutronTypeOK
  <2> QED BY <2>1, RelSendKeepsKey DEF RelSendAccepted, storageVars
<1>3. RelKey \notin Known
  BY <1>2 DEF Known, StatusInv, ClaimIsFresh
<1>4. Known' = Known \cup {RelKey}
  BY <1>1, <1>2 DEF Known, TxExists
<1>5. IsFiniteSet(Known') /\ Cardinality(Known') = Cardinality(Known) + 1
  BY <1>3, <1>4, FS_AddElement DEF SendsInv
<1>6. Owed' = Owed /\ Spare' = Spare /\ UNCHANGED <<faults, resubmits>> /\ sent' = sent + 1
  BY <1>2 DEF RelSendAccepted, Owed, Spare, Cancelled, CallSucceeds, BroadcastTxSync
<1> QED BY <1>5, <1>6, SendsNumbers DEF SendsInv, StatusInv

\* A critical error: a broadcast whose answer was lost costs a fault, or, in
\* a process that is stopping already, what the signal left.
LEMMA RelCriticalSends == ASSUME StatusInv, TypeOK', SendsInv, RelSendCritical PROVE SendsInv'
<1>1. Known' = Known
  BY KnownKept DEF RelSendCritical, RelIdle, storageVars, StatusInv, TypeOK, RelType
<1>2. Owed' = Owed /\ Spare' = 0 /\ UNCHANGED resubmits
  BY DEF RelSendCritical, Owed, Spare, RelIdle, StatusInv, TypeOK, RelType
<1>3. sent' \in {sent, sent + 1}
  BY DEF RelSendCritical, BroadcastTxSync, neutronVars
<1>4. faults' + Spare = faults + 1
  <2>1. rel.pc # "done" /\ faults \in Nat
    BY DEF RelSendCritical, StatusInv, TypeOK
  <2> QED BY <2>1 DEF RelSendCritical, CallFails, Fault, Spare
<1>5. faults' \in Nat
  BY DEF TypeOK
<1> QED BY <1>1, <1>2, <1>3, <1>4, <1>5, SendsNumbers DEF SendsInv, StatusInv

\* The record of the loop is that of its claim.
LEMMA RelStoreSends == ASSUME StatusInv, TypeOK', SendsInv, RelStore PROVE SendsInv'
<1>1. RelKey \in Keys /\ rel.seq \in Nat
  BY RelKeyType DEF StatusInv, RelStore, TypeOK, RelType
<1>2. \A j \in Keys : TxExists(j)' <=> (TxExists(j) \/ j = RelKey)
  BY <1>1, RecordSubmissionStatus DEF RelStore
<1>3. rel.pc = "store" /\ rel'.pc = "range" /\ UNCHANGED proc
  BY DEF RelStore, StatusInv, TypeOK, RelType
<1>4. Known' = Known
  BY <1>1, <1>2, <1>3 DEF Known
<1>5. Owed' = Owed /\ Spare' = Spare /\ UNCHANGED <<sent, resubmits, faults>>
  BY <1>3 DEF RelStore, OthersIdle, neutronVars, Owed, Spare, Cancelled
<1> QED BY <1>1, <1>4, <1>5, SendsNumbers DEF SendsInv, StatusInv

\* The loop loses its claim when the storage fails.
LEMMA RelStoreFailsSends == ASSUME StatusInv, TypeOK', SendsInv, RelStoreFails PROVE SendsInv'
<1>1. RelKey \in Keys
  BY RelKeyType DEF StatusInv, RelStoreFails
<1>2. rel.pc = "store" /\ rel'.pc = "idle" /\ UNCHANGED <<status, proc>>
  BY DEF RelStoreFails, Abort, RelIdle, storageVars
<1>3. Known' \subseteq Known /\ Known \subseteq Known' \cup {RelKey}
  BY <1>2 DEF Known, TxExists
<1>4. Owed' = Owed /\ UNCHANGED <<sent, resubmits>> /\ faults' = faults + 1
  BY DEF RelStoreFails, OthersIdle, neutronVars, Owed, Fault
<1>5. Spare' <= Spare
  BY <1>2 DEF Spare, Cancelled
<1> QED BY <1>1, <1>3, <1>4, <1>5, FaultPays DEF StatusInv

\* A request is counted when it begins, and is owed one broadcast.
LEMMA HttpSends ==
    ASSUME StatusInv, TypeOK', SendsInv, NEW h \in Handlers,
           HttpStep(h) \/ \E k \in Keys : Resubmit(h, k)
    PROVE  SendsInv'
<1>1. http \in [Handlers -> HttpType] /\ RelKey' = RelKey /\ Spare' = Spare /\ UNCHANGED rel
  BY DEF HttpStep, Resubmit, HttpSendAccepted, HttpSendIgnored, HttpSendFails, HttpStore,
         HttpStoreFails, HttpUnchanged, RelKey, Spare, Cancelled, StatusInv, TypeOK
<1>2. HttpIdle.pc = "idle"
  BY DEF HttpIdle
<1>3. UNCHANGED status => Known' = Known
  BY <1>1 DEF Known, TxExists
<1>4. /\ IsFiniteSet(Owed \ {h})
      /\ h \in Owed => Cardinality(Owed \ {h}) = Cardinality(Owed) - 1
  BY FS_RemoveElement DEF SendsInv
<1>5. ASSUME NEW k \in Keys, Resubmit(h, k) PROVE SendsInv'
  <2>1. Owed' = Owed \cup {h} /\ h \notin Owed
    BY <1>1, <1>5 DEF Resubmit, Owed, HttpIdle
  <2>2. IsFiniteSet(Owed') /\ Cardinality(Owed') = Cardinality(Owed) + 1
    BY <2>1, FS_AddElement DEF SendsInv
  <2>3. UNCHANGED <<status, sent, faults>> /\ resubmits' = resubmits + 1
    BY <1>5 DEF Resubmit, txStatusVars, neutronVars
  <2> QED BY <1>1, <1>3, <2>2, <2>3, SendsNumbers DEF SendsInv, StatusInv
<1>6. CASE HttpSendAccepted(h) \/ HttpSendIgnored(h) \/ HttpSendFails(h)
  <2>1. Owed' = Owed \ {h} /\ h \in Owed
    <3>1. http[h].pc = "process" /\ http'[h].pc # "process"
      BY <1>1, <1>2, <1>6 DEF HttpSendAccepted, HttpSendIgnored, HttpSendFails, HttpType
    <3>2. \A g \in Handlers : g # h => http'[g] = http[g]
      BY <1>1, <1>6 DEF HttpSendAccepted, HttpSendIgnored, HttpSendFails
    <3> QED BY <3>1, <3>2 DEF Owed
  <2>2. UNCHANGED <<status, resubmits>> /\ sent' \in {sent, sent + 1}
    BY <1>6
    DEF HttpSendAccepted, HttpSendIgnored, HttpSendFails, BroadcastTxSync, txStatusVars,
        boundVars, neutronVars
  <2>3. faults' \in {faults, faults + 1}
    BY <1>6 DEF HttpSendAccepted, HttpSendIgnored, HttpSendFails, boundVars, Fault
  <2>4. IsFiniteSet(Owed') /\ Cardinality(Owed') = Cardinality(Owed) - 1
    BY <1>4, <2>1
  <2>5. TypeOK
    BY DEF StatusInv
  <2>6. Known' = Known
    BY <1>3, <2>2
  <2> QED BY <1>1, <2>2, <2>3, <2>4, <2>5, <2>6, SendsNumbers DEF SendsInv
<1>7. CASE HttpStore(h) \/ HttpStoreFails(h)
  <2>1. Owed' = Owed
    BY <1>1, <1>2, <1>7 DEF HttpStore, HttpStoreFails, Owed
  <2>2. UNCHANGED <<sent, resubmits>> /\ faults' \in {faults, faults + 1}
    BY <1>7 DEF HttpStore, HttpStoreFails, boundVars, neutronVars, Fault
  <2>3. http[h].key \in Keys /\ http[h].seq \in Nat
    BY <1>1 DEF HttpType
  <2>4. Known \subseteq Known' /\ Known' \subseteq Known \cup {http[h].key}
    <3>1. CASE HttpStore(h)
      <4>1. \A j \in Keys : TxExists(j)' <=> (TxExists(j) \/ j = http[h].key)
        BY <2>3, <3>1, RecordSubmissionStatus DEF HttpStore
      <4> QED BY <1>1, <4>1 DEF Known
    <3>2. CASE HttpStoreFails(h)
      BY <1>3, <3>2 DEF HttpStoreFails, txStatusVars
    <3> QED BY <1>7, <3>1, <3>2
  <2>5. Spare' <= Spare
    BY <1>1 DEF Spare
  <2> QED BY <2>1, <2>2, <2>3, <2>4, <2>5, NothingSent DEF StatusInv
<1> QED BY <1>5, <1>6, <1>7 DEF HttpStep

\* The checker sends nothing; when it cannot start, its fault stops the process.
LEMMA ChkSends ==
    ASSUME StatusInv, TypeOK', SendsInv, ChkStep \/ \E d \in delayed : DelayedCancelled(d)
    PROVE  SendsInv'
<1>1. UNCHANGED <<rel, http, sent, resubmits>>
  BY DEF ChkStep, ChkReadPending, ChkReadPendingFails, ChkNext, ChkReceive, ChkFound,
         ChkAttemptFails, ChkUpdate, ChkUpdateFails, ChkStop, DelayedCancelled, ChkUnchanged,
         neutronVars
<1>2. chk.cur.key \in Keys /\ chk.code \in Statuses
  BY DEF StatusInv, TypeOK, ChkType, NeutronHash, Statuses
<1>3. Known \subseteq Known' /\ Known' \subseteq Known \cup {chk.cur.key}
  <2>1. CASE ChkUpdate
    <3>1. \A j \in Keys : TxExists(j)' <=> (TxExists(j) \/ j = chk.cur.key)
      BY <1>2, <2>1, SetTxStatusRecords DEF ChkUpdate, StatusInv, TypeOK
    <3> QED BY <1>1, <3>1 DEF Known, RelKey
  <2>2. CASE ~ChkUpdate
    <3>1. UNCHANGED status
      BY <2>2
      DEF ChkStep, ChkReadPending, ChkReadPendingFails, ChkNext, ChkReceive, ChkFound,
          ChkAttemptFails, ChkUpdateFails, ChkStop, DelayedCancelled, storageVars, txStatusVars
    <3> QED BY <1>1, <3>1 DEF Known, RelKey, TxExists
  <2> QED BY <2>1, <2>2
<1>4. faults' = faults + 1 \/ (faults' = faults /\ Spare' <= Spare)
  <2>1. CASE ChkReadPendingFails \/ ChkUpdateFails
    BY <2>1 DEF ChkReadPendingFails, ChkUpdateFails, Fault
  <2>2. CASE ~(ChkReadPendingFails \/ ChkUpdateFails)
    <3>1. UNCHANGED proc
      BY <2>2
      DEF ChkStep, ChkReadPending, ChkNext, ChkReceive, ChkFound, ChkAttemptFails, ChkUpdate,
          ChkStop, DelayedCancelled, ChkUnchanged
    <3>2. Spare' <= Spare
      BY <1>1, <3>1 DEF Spare, Cancelled
    <3>3. CASE ChkFound
      BY <3>2, <3>3 DEF ChkFound, CallSucceeds
    <3>4. CASE ChkAttemptFails
      BY <3>2, <3>4 DEF ChkAttemptFails, CallFails, Fault
    <3>5. CASE ~ChkFound /\ ~ChkAttemptFails
      BY <2>2, <3>2, <3>5
      DEF ChkStep, ChkReadPending, ChkNext, ChkReceive, ChkUpdate, ChkStop, DelayedCancelled
    <3> QED BY <3>3, <3>4, <3>5
  <2> QED BY <2>1, <2>2
<1>5. Owed' = Owed
  BY <1>1 DEF Owed
<1> QED BY <1>1, <1>2, <1>3, <1>4, <1>5, NothingSent DEF StatusInv

\* A signal leaves a fault to the loop; the end of the process forgets claims
\* and requests.
LEMMA ProcessSends ==
    ASSUME StatusInv, TypeOK', SendsInv, Cancel \/ Exit \/ Crash \/ Start
    PROVE  SendsInv'
<1>1. UNCHANGED <<status, sent, resubmits>>
  BY DEF Cancel, Exit, Crash, Start, ProcUnchanged, storageVars, neutronVars
<1>2. AnyQuery \in Queries
  BY AnyQueryIn
<1>3. CASE Cancel \/ Start
  <2>1. UNCHANGED <<rel, http>>
    BY <1>3 DEF Cancel, Start
  <2>2. Known' = Known /\ Owed' = Owed
    BY <1>1, <2>1 DEF Known, Owed, RelKey, TxExists
  <2>3. faults' = faults + 1 \/ (faults' = faults /\ Spare' <= Spare)
    <3>1. CASE Cancel
      BY <3>1 DEF Cancel, Fault
    <3>2. CASE Start
      BY <3>2 DEF Start, Spare, Cancelled
    <3> QED BY <1>3, <3>1, <3>2
  <2>4. <<AnyQuery, 1>> \in Keys
    BY <1>2 DEF Keys, Txs
  <2> QED BY <1>1, <2>2, <2>3, <2>4, NothingSent DEF StatusInv
<1>4. CASE Exit \/ Crash
  <2>1. Spare' = 0 /\ rel'.pc = "idle" /\ Owed' = {}
    BY <1>4 DEF Exit, Crash, LoseMemory, Spare, Cancelled, RelIdle, HttpIdle, Owed
  <2>2. CASE rel.pc = "store"
    <3>1. RelKey \in Keys
      BY <2>2, RelKeyType DEF StatusInv
    <3>2. Known' \subseteq Known /\ Known \subseteq Known' \cup {RelKey}
      BY <1>1, <2>1 DEF Known, TxExists
    <3>3. faults' = faults + 1
      BY <1>4, <2>2 DEF Exit, Crash, Fault
    <3> QED BY <1>1, <2>1, <3>1, <3>2, <3>3, SendsNumbers, FaultPays DEF StatusInv
  <2>3. CASE rel.pc # "store"
    <3>1. Known' = Known
      BY <1>1, <2>1, <2>3, KnownKept
    <3>2. faults' \in {faults, faults + 1}
      BY <1>4 DEF Exit, Crash, Fault
    <3> QED BY <1>1, <2>1, <3>1, <3>2, SendsNumbers, FS_EmptySet DEF SendsInv, StatusInv
  <2> QED BY <2>2, <2>3
<1> QED BY <1>3, <1>4

\* Blocks, executions and losses on the chains.
LEMMA ChainSends ==
    ASSUME StatusInv, TypeOK', SendsInv, ChainStep \/ UNCHANGED vars
    PROVE  SendsInv'
<1>1. UNCHANGED <<status, sent, resubmits, rel, http, proc>>
  BY DEF ChainStep, TargetBlock, NeutronExecutes, NeutronDrops, ExecuteTx, DropTx, ChainsOnly,
         storageVars, neutronVars, boundVars, vars
<1>2. Known' = Known /\ Owed' = Owed /\ Spare' = Spare
  BY <1>1 DEF Known, Owed, Spare, Cancelled, RelKey, TxExists
<1>3. faults' \in {faults, faults + 1}
  BY DEF ChainStep, TargetBlock, NeutronExecutes, NeutronDrops, Fault, vars, boundVars
<1> QED BY <1>1, <1>2, <1>3, SendsNumbers DEF SendsInv, StatusInv

\* A transaction is sent to Neutron once, unless a call failed, the process
\* was killed or the operator asked for it again: for any number of queries,
\* transactions, handlers and restarts (relayer.go:138-160).
THEOREM SendsCorrect == Spec => []SendsAccounted
<1>1. StatusInv /\ StatusInv' /\ SendsInv /\ [Next]_vars => SendsInv'
  <2> SUFFICES ASSUME StatusInv, StatusInv', SendsInv, [Next]_vars PROVE SendsInv'
    OBVIOUS
  <2>1. TypeOK'
    BY DEF StatusInv
  <2>2. CASE RelStep
    BY <2>1, <2>2, LoopSends, RelAcceptedSends, RelCriticalSends, RelStoreSends,
       RelStoreFailsSends DEF RelStep
  <2>3. CASE ~RelStep
    BY <2>1, <2>3, LoopSends, HttpSends, ChkSends, ProcessSends, ChainSends DEF Next
  <2> QED BY <2>2, <2>3
<1>2. StatusInv /\ SendsInv => SendsAccounted
  <2> SUFFICES ASSUME StatusInv, SendsInv PROVE SendsAccounted
    OBVIOUS
  <2>1. sent <= Cardinality(Known) + faults + resubmits
    BY SendsNumbers DEF SendsInv, StatusInv
  <2> QED BY <2>1 DEF Known, SendsAccounted
<1> QED BY <1>1, <1>2, SendsInit, StatusCorrect, PTL DEF Spec

----------------------------------------------------------------------------
(***************************************************************************)
(* The life of a record.  Without resubmissions a transaction has one      *)
(* submission that anybody knows, and Neutron gives it one outcome; so it  *)
(* does not matter that the checker may ask for it twice, once from the    *)
(* startup list and once from the timer of the submission.                 *)
(***************************************************************************)
Tracked ==
    pending \cup chk.todo \cup {d.hash : d \in delayed}
    \cup (IF chk.pc \in {"query", "update"} THEN {chk.cur} ELSE {})

\* A transaction of Neutron is waiting, executed or reverted.
OneFate ==
    /\ \A nh \in mempool \cup executed \cup reverted : nh.seq <= sent
    /\ mempool \cap (executed \cup reverted) = {}
    /\ executed \cap reverted = {}

OneTracked == \A nh, mh \in Tracked : nh.key = mh.key => nh = mh

TrackedTold ==
    \A nh \in Tracked :
        \/ status[nh.key] = "Submitted"
        \/ status[nh.key] = "Committed" /\ nh \in executed
        \/ status[nh.key] = "ErrorOnCommit" /\ nh \in reverted

NobodyServed == \A h \in Handlers : http[h].pc = "idle"

LifeInv == OneFate /\ (resubmits = 0 => OneTracked /\ TrackedTold /\ NobodyServed)

StepsOfLife ==
    {<<Absent, "Submitted">>, <<Absent, "ErrorOnSubmit">>,
     <<"Submitted", "Committed">>, <<"Submitted", "ErrorOnCommit">>}

Lives == \A k \in Keys : status'[k] # status[k] => <<status[k], status'[k]>> \in StepsOfLife

\* The answers of Neutron to different broadcasts are told apart.
LEMMA FateStep ==
    ASSUME TypeOK, OneFate, [Next]_vars
    PROVE  OneFate' /\ executed \subseteq executed' /\ reverted \subseteq reverted'
<1>1. /\ sent \in Nat
      /\ \A nh \in mempool \cup executed \cup reverted : nh \in NeutronHash
  BY DEF TypeOK, NeutronTypeOK
<1>2. ASSUME NEW k, BroadcastTxSync(k)
      PROVE  OneFate' /\ executed \subseteq executed' /\ reverted \subseteq reverted'
  <2>1. NextHash(k).seq = sent + 1 /\ NextHash(k) \notin executed \cup reverted
    BY <1>1 DEF NextHash, OneFate
  <2>2. \A nh \in mempool \cup executed \cup reverted : nh.seq \in Nat
    BY <1>1 DEF NeutronHash
  <2>3. sent' = sent + 1 /\ mempool' = mempool \cup {NextHash(k)} /\ UNCHANGED <<executed, reverted>>
    BY <1>2 DEF BroadcastTxSync
  <2>4. \A nh \in mempool' \cup executed' \cup reverted' : nh.seq <= sent'
    BY <1>1, <2>1, <2>2, <2>3 DEF OneFate
  <2> QED BY <2>1, <2>3, <2>4 DEF OneFate
<1>3. CASE UNCHANGED neutronVars
  BY <1>3 DEF neutronVars, OneFate
<1>4. CASE RelStep
  <2>1. (\E k \in {RelKey} : BroadcastTxSync(k)) \/ UNCHANGED neutronVars
    BY <1>4
    DEF RelStep, Receive, ReceiveFails, RelHeaderFails, RelSendAccepted, RelSendIgnored,
        RelSendCritical, RelStore, RelStoreFails, Finish, FinishFails, RelStop, OthersIdle
  <2> QED BY <1>2, <1>3, <2>1
<1>5. ASSUME NEW h \in Handlers, HttpStep(h) \/ \E k \in Keys : Resubmit(h, k)
      PROVE  OneFate' /\ executed \subseteq executed' /\ reverted \subseteq reverted'
  <2>1. BroadcastTxSync(http[h].key) \/ UNCHANGED neutronVars
    BY <1>5
    DEF HttpStep, HttpSendAccepted, HttpSendIgnored, HttpSendFails, HttpStore, HttpStoreFails,
        Resubmit
  <2> QED BY <1>2, <1>3, <2>1
<1>6. CASE ChainStep
  <2>1. CASE TargetBlock
    BY <1>3, <2>1 DEF TargetBlock
  <2>2. ASSUME NEW nh \in mempool, NeutronDrops(nh)
        PROVE  OneFate' /\ executed \subseteq executed' /\ reverted \subseteq reverted'
    BY <2>2 DEF NeutronDrops, DropTx, OneFate
  <2>3. ASSUME NEW nh \in mempool, NEW ok \in BOOLEAN, NeutronExecutes(nh, ok)
        PROVE  OneFate' /\ executed \subseteq executed' /\ reverted \subseteq reverted'
    <3>1. nh \notin executed \cup reverted /\ nh.seq <= sent
      BY DEF OneFate
    <3>2. /\ mempool' = mempool \ {nh} /\ sent' = sent
          /\ \/ executed' = executed \cup {nh} /\ reverted' = reverted
             \/ executed' = executed /\ reverted' = reverted \cup {nh}
      BY <2>3 DEF NeutronExecutes, ExecuteTx
    <3> QED BY <3>1, <3>2 DEF OneFate
  <2> QED BY <1>6, <2>1, <2>2, <2>3 DEF ChainStep
<1>7. CASE (\E q \in Queries : TakeTask(q)) \/ SearchStep
  BY <1>3, <1>7 DEF TakeTask, SearchStep, OthersIdle
<1>8. CASE ChkStep \/ \E d \in delayed : DelayedCancelled(d)
  BY <1>3, <1>8
  DEF ChkStep, ChkReadPending, ChkReadPendingFails, ChkNext, ChkReceive, ChkFound,
      ChkAttemptFails, ChkUpdate, ChkUpdateFails, ChkStop, DelayedCancelled, ChkUnchanged
<1>9. CASE Cancel \/ Exit \/ Crash \/ Start \/ UNCHANGED vars
  BY <1>3, <1>9 DEF Cancel, Exit, Crash, Start, ProcUnchanged, vars
<1> QED BY <1>4, <1>5, <1>6, <1>7, <1>8, <1>9 DEF Next

\* A step after which nobody knows a submission that was not known before.
LEMMA LifeFrame ==
    ASSUME LifeInv, OneFate', executed \subseteq executed', reverted \subseteq reverted',
           UNCHANGED <<status, resubmits>>, Tracked' \subseteq Tracked,
           NobodyServed => NobodyServed'
    PROVE  LifeInv' /\ Lives
BY DEF LifeInv, OneTracked, TrackedTold, Lives

\* The loop records a transaction that nobody else knows.
LEMMA RelStoreLife ==
    ASSUME StatusInv, TypeOK', LifeInv, OneFate', RelStore
    PROVE  LifeInv' /\ (resubmits = 0 => Lives)
<1> DEFINE k == RelKey
           nh == [key |-> RelKey, seq |-> rel.seq]
           st == IF rel.seq = 0 THEN "ErrorOnSubmit" ELSE "Submitted"
<1>1. k \in Keys /\ rel.seq \in Nat /\ status[k] = Absent
  BY RelKeyType DEF StatusInv, TypeOK, RelStore, RelType, ClaimIsFresh, TxExists
<1>2. \A mh \in Tracked : mh.key # k /\ mh.key \in Keys
  <2>1. \A mh \in Tracked : TxExists(mh.key)
    BY DEF StatusInv, StorageConsistent, IndexesHaveRecords, RecordsKnown, Tracked
  <2>2. \A mh \in Tracked : mh.key \in Keys
    BY DEF StatusInv, TypeOK, StorageTypeOK, ChkType, DelayedType, NeutronHash, Tracked
  <2> QED BY <1>1, <2>1, <2>2 DEF TxExists
<1>3. status' = [status EXCEPT ![k] = st] /\ status \in [Keys -> Statuses \cup {Absent}]
  BY DEF RelStore, RecordSubmission, SetTxStatus, StatusInv, TypeOK, StorageTypeOK
<1>4. Tracked' \subseteq Tracked \cup (IF rel.seq = 0 THEN {} ELSE {nh})
  <2>1. pending' \subseteq pending \cup (IF rel.seq = 0 THEN {} ELSE {nh})
    BY DEF RelStore, RecordSubmission, SetTxStatus, PendingAfter
  <2>2. {d.hash : d \in delayed'} \subseteq
           {d.hash : d \in delayed} \cup (IF rel.seq = 0 THEN {} ELSE {nh})
    <3>1. delayed' = IF rel.seq = 0 THEN delayed ELSE delayed \cup {[hash |-> nh, bg |-> FALSE]}
      BY DEF RelStore, RecordSubmission
    <3>2. [hash |-> nh, bg |-> FALSE].hash = nh
      OBVIOUS
    <3> HIDE DEF nh
    <3> QED BY <3>1, <3>2
  <2>3. UNCHANGED chk
    BY DEF RelStore, OthersIdle
  <2> QED BY <2>1, <2>2, <2>3 DEF Tracked
<1>5. UNCHANGED <<http, resubmits, executed, reverted>>
  BY DEF RelStore, OthersIdle, neutronVars
<1>6. nh.key = k
  OBVIOUS
<1> HIDE DEF k, nh, st
<1>7. \A mh \in Tracked : status'[mh.key] = status[mh.key]
  BY <1>1, <1>2, <1>3
<1>8. rel.seq # 0 => status'[k] = "Submitted"
  BY <1>1, <1>3 DEF st
<1>9. resubmits = 0 => OneTracked' /\ TrackedTold' /\ NobodyServed'
  BY <1>2, <1>4, <1>5, <1>6, <1>7, <1>8
  DEF LifeInv, OneTracked, TrackedTold, NobodyServed
<1>10. Lives
  BY <1>1, <1>3 DEF Lives, StepsOfLife, st
<1> QED BY <1>5, <1>9, <1>10 DEF LifeInv

\* The outcome that the checker records is the one there was or the first.
LEMMA ChkUpdateLife ==
    ASSUME StatusInv, TypeOK', LifeInv, OneFate', ChkUpdate
    PROVE  LifeInv' /\ (resubmits = 0 => Lives)
<1> DEFINE nh == chk.cur
           k == chk.cur.key
<1>1. nh \in Tracked /\ k \in Keys /\ status \in [Keys -> Statuses \cup {Absent}]
  BY DEF ChkUpdate, Tracked, StatusInv, TypeOK, StorageTypeOK, ChkType, NeutronHash
<1>2. \/ chk.code = "Committed" /\ nh \in executed
      \/ chk.code = "ErrorOnCommit" /\ nh \in reverted
  BY DEF ChkUpdate, StatusInv, OutcomeKnown
<1>3. status' = [status EXCEPT ![k] = chk.code]
  BY DEF ChkUpdate, SetTxStatus
<1>4. Tracked' \subseteq Tracked
  <2>1. pending' \subseteq pending
    BY <1>2 DEF ChkUpdate, SetTxStatus, PendingAfter
  <2>2. chk'.todo = chk.todo /\ chk'.pc = "next"
    BY DEF ChkUpdate, Between, ChkBoot
  <2>3. UNCHANGED delayed
    BY DEF ChkUpdate
  <2> QED BY <2>1, <2>2, <2>3 DEF Tracked
<1>5. UNCHANGED <<http, resubmits, executed, reverted>>
  BY DEF ChkUpdate, ChkUnchanged, neutronVars
<1>6. \A mh \in Tracked : mh.key \in Keys
  BY DEF StatusInv, TypeOK, StorageTypeOK, ChkType, DelayedType, NeutronHash, Tracked
<1> HIDE DEF k, nh
<1>7. SUFFICES ASSUME resubmits = 0
               PROVE  OneTracked' /\ TrackedTold' /\ NobodyServed' /\ Lives
  BY <1>5 DEF LifeInv
<1>8. OneTracked /\ TrackedTold /\ NobodyServed /\ executed \cap reverted = {}
  BY <1>7 DEF LifeInv, OneFate
<1>9. OneTracked' /\ NobodyServed'
  BY <1>4, <1>5, <1>8 DEF OneTracked, NobodyServed
<1>10. TrackedTold'
  <2> SUFFICES ASSUME NEW mh \in Tracked
               PROVE  \/ status'[mh.key] = "Submitted"
                      \/ status'[mh.key] = "Committed" /\ mh \in executed
                      \/ status'[mh.key] = "ErrorOnCommit" /\ mh \in reverted
    BY <1>4, <1>5 DEF TrackedTold
  <2>1. CASE mh.key = k
    <3>1. mh = nh
      BY <1>1, <1>8, <2>1 DEF OneTracked, k, nh
    <3> QED BY <1>1, <1>2, <1>3, <2>1, <3>1
  <2>2. CASE mh.key # k
    BY <1>1, <1>3, <1>6, <1>8, <2>2 DEF TrackedTold
  <2> QED BY <2>1, <2>2
<1>11. Lives
  <2>1. status[k] \in {"Submitted", chk.code}
    <3>1. \/ status[k] = "Submitted"
          \/ status[k] = "Committed" /\ nh \in executed
          \/ status[k] = "ErrorOnCommit" /\ nh \in reverted
      BY <1>1, <1>8 DEF TrackedTold, k, nh
    <3> QED BY <1>2, <1>8, <3>1
  <2> QED BY <1>1, <1>2, <1>3, <2>1 DEF Lives, StepsOfLife
<1> QED BY <1>9, <1>10, <1>11

\* The other steps of the checker pass a known submission on, or drop it.
LEMMA ChkLife ==
    ASSUME StatusInv, TypeOK', LifeInv, OneFate', ChkStep \/ \E d \in delayed : DelayedCancelled(d)
    PROVE  LifeInv' /\ (resubmits = 0 => Lives)
<1>1. CASE ChkUpdate
  BY <1>1, ChkUpdateLife
<1>2. CASE ~ChkUpdate
  <2>1. UNCHANGED <<status, pending, http, resubmits, executed, reverted>>
    BY <1>2
    DEF ChkStep, ChkReadPending, ChkReadPendingFails, ChkNext, ChkReceive, ChkFound,
        ChkAttemptFails, ChkUpdateFails, ChkStop, DelayedCancelled, ChkUnchanged, neutronVars,
        txStatusVars, storageVars
  <2>2. chk \in ChkType
    BY DEF StatusInv, TypeOK
  <2>3. ASSUME NEW todo, chk' = Between(todo) PROVE chk'.pc = "next" /\ chk'.todo = todo
    BY <2>3 DEF Between, ChkBoot
  <2>4. ASSUME NEW nh, StartCheck(nh)
        PROVE  chk'.pc = "query" /\ chk'.todo \subseteq chk.todo /\ chk'.cur = nh
    BY <2>2, <2>4 DEF StartCheck, ChkType
  <2>5. Tracked' \subseteq Tracked
    <3>1. CASE ChkReadPending
      BY <2>1, <2>3, <3>1 DEF ChkReadPending, GetAllPendingTxs, Tracked
    <3>2. CASE ChkReadPendingFails
      BY <2>1, <3>2 DEF ChkReadPendingFails, ChkBoot, Tracked
    <3>3. ASSUME NEW nh \in chk.todo, ChkNext(nh) PROVE Tracked' \subseteq Tracked
      BY <2>1, <2>4, <3>3 DEF ChkNext, Tracked
    <3>4. ASSUME NEW d \in delayed, ChkReceive(d) PROVE Tracked' \subseteq Tracked
      BY <2>1, <2>4, <3>4 DEF ChkReceive, Tracked
    <3>5. CASE ChkFound
      <4>1. chk.pc = "query" /\ chk'.pc = "update" /\ chk'.todo = chk.todo /\ chk'.cur = chk.cur
            /\ delayed' = delayed
        BY <2>2, <3>5 DEF ChkFound, ChkType
      <4> QED BY <2>1, <4>1 DEF Tracked
    <3>6. CASE ChkAttemptFails \/ ChkUpdateFails
      <4>1. delayed' = delayed
        BY <3>6 DEF ChkAttemptFails, ChkUpdateFails
      <4>2. CASE GiveUp
        BY <2>1, <2>3, <4>1, <4>2 DEF GiveUp, Tracked
      <4>3. CASE ~GiveUp
        <5>1. chk.pc = "query" /\ chk' = [chk EXCEPT !.tries = @ + 1]
          BY <3>6, <4>3 DEF ChkAttemptFails, ChkUpdateFails
        <5>2. chk'.pc = chk.pc /\ chk'.todo = chk.todo /\ chk'.cur = chk.cur
          BY <2>2, <5>1 DEF ChkType
        <5> QED BY <2>1, <4>1, <5>2 DEF Tracked
      <4> QED BY <4>2, <4>3
    <3>7. CASE ChkStop
      BY <2>1, <3>7 DEF ChkStop, ChkBoot, Tracked
    <3>8. CASE \E d \in delayed : DelayedCancelled(d)
      BY <2>1, <3>8 DEF DelayedCancelled, Tracked
    <3> QED BY <1>2, <3>1, <3>2, <3>3, <3>4, <3>5, <3>6, <3>7, <3>8 DEF ChkStep
  <2>6. NobodyServed => NobodyServed'
    BY <2>1 DEF NobodyServed
  <2> QED BY <2>1, <2>5, <2>6, LifeFrame
<1> QED BY <1>1, <1>2

\* A step of a handler is one of a resubmission.
LEMMA HttpLife ==
    ASSUME StatusInv, TypeOK', LifeInv, OneFate', NEW h \in Handlers,
           HttpStep(h) \/ \E k \in Keys : Resubmit(h, k)
    PROVE  LifeInv' /\ resubmits' # 0
<1>1. resubmits \in Nat /\ resubmits' \in Nat
  BY DEF StatusInv, TypeOK
<1>2. CASE \E k \in Keys : Resubmit(h, k)
  <2>1. resubmits' = resubmits + 1
    BY <1>2 DEF Resubmit
  <2>2. resubmits' # 0
    BY <1>1, <2>1
  <2> QED BY <2>2 DEF LifeInv
<1>3. CASE HttpStep(h)
  <2>1. http[h].pc # "idle" /\ resubmits' = resubmits
    BY <1>3
    DEF HttpStep, HttpSendAccepted, HttpSendIgnored, HttpSendFails, HttpStore, HttpStoreFails,
        boundVars
  <2>2. resubmits # 0
    BY <2>1 DEF LifeInv, NobodyServed
  <2> QED BY <2>1, <2>2 DEF LifeInv
<1> QED BY <1>2, <1>3

\* A record of a transaction that nobody asks to resubmit goes from nothing
\* to the answer of the submission, and from "Submitted" once to the outcome
\* on Neutron: no restart, second look of the checker or late answer takes
\* it back or changes an outcome (processSuccessfulTxSubmission,
\* txprocessor.go; updateTxStatus, txsubmitchecker.go).
StatusesAdvance == [][resubmits' = 0 => Lives]_vars

THEOREM LifeCorrect == Spec => StatusesAdvance
<1>1. Init => LifeInv
  BY DEF Init, StorageInit, VolatileInit, NeutronInit, ChkBoot, HttpIdle,
         LifeInv, OneFate, OneTracked, TrackedTold, NobodyServed, Tracked
<1>2. StatusInv /\ StatusInv' /\ LifeInv /\ [Next]_vars => LifeInv' /\ (resubmits' = 0 => Lives)
  <2> SUFFICES ASSUME StatusInv, StatusInv', LifeInv, [Next]_vars
               PROVE  LifeInv' /\ (resubmits' = 0 => Lives)
    OBVIOUS
  <2>1. TypeOK' /\ OneFate' /\ executed \subseteq executed' /\ reverted \subseteq reverted'
    BY FateStep DEF StatusInv, LifeInv
  <2>2. ASSUME UNCHANGED <<status, resubmits, pending, chk, delayed, http>>
        PROVE  LifeInv' /\ (resubmits' = 0 => Lives)
    BY <2>1, <2>2, LifeFrame DEF Tracked, NobodyServed
  <2>3. CASE (\E q \in Queries : TakeTask(q)) \/ SearchStep
    BY <2>2, <2>3 DEF TakeTask, SearchStep, OthersIdle, txStatusVars, storageVars
  <2>4. CASE RelStep /\ ~RelStore
    BY <2>2, <2>4
    DEF RelStep, Receive, ReceiveFails, RelHeaderFails, RelSendAccepted, RelSendIgnored,
        RelSendCritical, RelStoreFails, Finish, FinishFails, RelStop, OthersIdle,
        txStatusVars, storageVars
  <2>5. CASE RelStore
    <3>1. UNCHANGED resubmits
      BY <2>5 DEF RelStore, OthersIdle
    <3> QED BY <2>1, <2>5, <3>1, RelStoreLife
  <2>6. CASE ChkStep \/ \E d \in delayed : DelayedCancelled(d)
    <3>1. UNCHANGED resubmits
      BY <2>6
      DEF ChkStep, ChkReadPending, ChkReadPendingFails, ChkNext, ChkReceive, ChkFound,
          ChkAttemptFails, ChkUpdate, ChkUpdateFails, ChkStop, DelayedCancelled, ChkUnchanged
    <3> QED BY <2>1, <2>6, <3>1, ChkLife
  <2>7. CASE \E h \in Handlers : HttpStep(h) \/ \E k \in Keys : Resubmit(h, k)
    BY <2>1, <2>7, HttpLife
  <2>8. CASE Exit \/ Crash
    <3>1. UNCHANGED <<status, pending, resubmits>> /\ delayed' = {} /\ chk' = ChkBoot
          /\ \A h \in Handlers : http'[h] = HttpIdle
      BY <2>8 DEF Exit, Crash, LoseMemory, ProcUnchanged, storageVars
    <3>2. Tracked' \subseteq Tracked /\ NobodyServed'
      BY <3>1 DEF Tracked, NobodyServed, ChkBoot, HttpIdle
    <3> QED BY <2>1, <3>1, <3>2, LifeFrame
  <2>9. CASE Cancel \/ Start \/ ChainStep \/ UNCHANGED vars
    BY <2>2, <2>9
    DEF Cancel, Start, ProcUnchanged, ChainStep, TargetBlock, NeutronExecutes, NeutronDrops,
        ChainsOnly, storageVars, vars, boundVars
  <2> QED BY <2>3, <2>4, <2>5, <2>6, <2>7, <2>8, <2>9 DEF Next
<1>3. LifeInv /\ LifeInv' /\ (resubmits' = 0 => Lives) => [resubmits' = 0 => Lives]_vars
  OBVIOUS
<1>4. Spec => []LifeInv
  BY <1>1, <1>2, StatusCorrect, PTL DEF Spec
<1>5. StatusInv /\ StatusInv' /\ LifeInv /\ [Next]_vars => [resubmits' = 0 => Lives]_vars
  BY <1>2
<1> QED BY <1>4, <1>5, StatusCorrect, PTL DEF Spec, StatusesAdvance
=============================================================================
