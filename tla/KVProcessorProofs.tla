-------------------------- MODULE KVProcessorProofs --------------------------
(***************************************************************************)
(* What is proved about KVProcessor, for any set of queries, any number of *)
(* keys, any period and any bounds.                                        *)
(***************************************************************************)
EXTENDS KVProcessor, TLAPS

USE KVAssumption

Working == kv.pc \in {"onTime", "values", "submit"}
OnItsWay == kv.pc \in {"values", "submit"}

(***************************************************************************)
(* The strengthening.  The height a task works with is one the chain has   *)
(* had, and no result of its query is newer.                               *)
(***************************************************************************)
LatestSeen ==
    Working => kv.latest <= height /\ result[kv.query].header <= kv.latest

\* The values of a task are of the height before the one it works with, or
\* have none; the last of them tells what is said to prove them all.
ValuesOfOneHeight ==
    \/ kv.values = {} /\ kv.proven = 0
    \/ /\ OnItsWay /\ kv.latest > 2
       /\ kv.values \subseteq {NoHeight, kv.latest - 1}
       /\ \/ kv.proven = NoHeight + 1
          \/ kv.proven = kv.latest /\ kv.latest - 1 \in kv.values

\* What Neutron has taken.
TakenIsVerified ==
    \A q \in Queries : result[q] # NoResult =>
        /\ result[q].values \subseteq {result[q].height}
        /\ result[q].header = result[q].height + 1
        /\ result[q].header <= height

\* With a period, its height is stored and the last result is a period old.
PeriodSpent ==
    OnItsWay /\ MinKvUpdatePeriod > 0 =>
        /\ lastHeight[kv.query] = kv.latest
        /\ result[kv.query] # NoResult => result[kv.query].header + MinKvUpdatePeriod <= kv.latest

KVInv ==
    /\ TypeOK /\ ResultCovered /\ TakenIsVerified
    /\ LatestSeen /\ ValuesOfOneHeight /\ PeriodSpent

----------------------------------------------------------------------------
LEMMA IdleType == Idle \in Tasks /\ Idle.pc = "idle" /\ Idle.values = {} /\ Idle.proven = 0
BY DEF Idle, Tasks, Stages

LEMMA InitKV == Init => KVInv
BY IdleType DEF Init, KVInv, TypeOK, Result, NoResult, TakenIsVerified, ResultCovered, LatestSeen,
   ValuesOfOneHeight, PeriodSpent, Working, OnItsWay

\* A task that ends without a result leaves everything as it was.
LEMMA GoIdle ==
  ASSUME KVInv, kv' = Idle, UNCHANGED <<height, lastHeight, result>>, faults' \in 0 .. MaxFaults
  PROVE  KVInv'
BY IdleType DEF KVInv, TypeOK, TakenIsVerified, ResultCovered, LatestSeen, ValuesOfOneHeight,
   PeriodSpent, Working, OnItsWay

\* The steps up to the check of the period.
LEMMA StartStep ==
  ASSUME KVInv, (\E q \in Queries : ProcessMessageKV(q)) \/ QueryLatestHeight \/ IsQueryOnTime
  PROVE  KVInv'
<1> USE DEF KVInv
<1>1. ASSUME NEW q \in Queries, ProcessMessageKV(q) PROVE KVInv'
  <2>1. kv' \in Tasks /\ kv'.pc = "height" /\ kv'.values = {} /\ kv'.proven = 0
    BY <1>1, IdleType DEF ProcessMessageKV, Idle, Tasks, Stages
  <2> QED
    BY <1>1, <2>1 DEF ProcessMessageKV, TypeOK, TakenIsVerified, ResultCovered, LatestSeen,
       ValuesOfOneHeight, PeriodSpent, Working, OnItsWay
<1>2. CASE QueryLatestHeight
  <2>1. CASE kv' = [kv EXCEPT !.pc = "onTime", !.latest = height]
             /\ UNCHANGED <<height, lastHeight, result, faults>>
    <3>1. height \in Nat /\ kv \in Tasks /\ kv.query \in Queries
      BY DEF TypeOK, Tasks
    <3>2. kv' \in Tasks
      BY <2>1, <3>1 DEF Tasks, Stages
    <3>3. /\ kv'.pc = "onTime" /\ kv'.latest = height /\ kv'.query = kv.query
          /\ kv'.values = kv.values /\ kv'.proven = kv.proven
      BY <2>1, <3>1 DEF Tasks
    <3>4. result[kv.query].header <= height
      <4>1. CASE result[kv.query] = NoResult
        BY <3>1, <4>1 DEF NoResult, TypeOK
      <4>2. CASE result[kv.query] # NoResult
        BY <3>1, <4>2 DEF TakenIsVerified
      <4> QED
        BY <4>1, <4>2
    <3>5. kv.values = {} /\ kv.proven = 0
      BY <1>2 DEF QueryLatestHeight, ValuesOfOneHeight, OnItsWay
    <3> QED
      BY <2>1, <3>2, <3>3, <3>4, <3>5 DEF TypeOK, TakenIsVerified, ResultCovered, LatestSeen,
         ValuesOfOneHeight, PeriodSpent, Working, OnItsWay
  <2>2. CASE Fails
    BY <2>2, GoIdle DEF Fails, Fault, TypeOK
  <2> QED
    BY <1>2, <2>1, <2>2 DEF QueryLatestHeight
<1>3. CASE IsQueryOnTime
  <2>1. CASE /\ MinKvUpdatePeriod = 0 \/ OnTime
             /\ kv' = [kv EXCEPT !.pc = "values", !.left = NumKeys[kv.query]]
             /\ lastHeight' = IF MinKvUpdatePeriod = 0 THEN lastHeight
                              ELSE [lastHeight EXCEPT ![kv.query] = kv.latest]
             /\ UNCHANGED faults
    <3>1. UNCHANGED <<height, result>> /\ kv.pc = "onTime" /\ kv.query \in Queries
      BY <1>3 DEF IsQueryOnTime, TypeOK, Tasks
    <3>2. kv' \in Tasks /\ kv' = [kv EXCEPT !.pc = "values", !.left = NumKeys[kv.query]]
      BY <2>1, <3>1 DEF TypeOK, Tasks, Stages
    <3>3. lastHeight' \in [Queries -> 0 .. MaxHeight]
      BY <2>1, <3>1 DEF TypeOK, Tasks, LatestSeen, Working
    <3>4. TypeOK'
      BY <2>1, <3>1, <3>2, <3>3 DEF TypeOK
    <3>5. LatestSeen' /\ TakenIsVerified'
      BY <3>1, <3>2 DEF TypeOK, Tasks, TakenIsVerified, LatestSeen, Working
    <3>6. ValuesOfOneHeight'
      BY <3>1, <3>2 DEF TypeOK, Tasks, ValuesOfOneHeight, OnItsWay
    <3>7. ResultCovered'
      BY <2>1, <3>1 DEF TypeOK, Tasks, Result, ResultCovered, LatestSeen, Working
    <3>8. PeriodSpent'
      BY <2>1, <3>1, <3>2 DEF TypeOK, Tasks, Result, ResultCovered, PeriodSpent, OnItsWay, OnTime
    <3> QED
      BY <3>4, <3>5, <3>6, <3>7, <3>8
  <2>2. CASE kv' = Idle /\ UNCHANGED lastHeight
    BY <1>3, <2>2, GoIdle DEF IsQueryOnTime, Fault, TypeOK
  <2> QED
    BY <1>3, <2>1, <2>2 DEF IsQueryOnTime
<1> QED
  BY <1>1, <1>2, <1>3

\* The loop over the keys: every key is asked for at the same height, whatever
\* the chain has become since.
LEMMA KeysStep ==
  ASSUME KVInv, QueryTendermintProof \/ GetStorageValues
  PROVE  KVInv'
<1> USE DEF KVInv
<1>1. CASE QueryTendermintProof
  <2>1. CASE kv' = Idle
    BY <1>1, <2>1, GoIdle DEF QueryTendermintProof, Fault, TypeOK
  <2>2. ASSUME NEW h \in {NoHeight, kv.latest - 1},
               kv.latest > 2, Answered(h), faults' \in 0 .. MaxFaults
        PROVE  KVInv'
    <3>1. UNCHANGED <<height, lastHeight, result>> /\ kv.pc = "values" /\ kv.left > 0
      BY <1>1 DEF QueryTendermintProof
    <3>2. kv \in Tasks /\ kv.latest \in Nat /\ kv.left \in Nat /\ kv.values \in SUBSET Nat
      BY DEF TypeOK, Tasks
    <3>3. h \in Nat /\ h + 1 \in Nat /\ kv.left - 1 \in Nat /\ kv.values \cup {h} \in SUBSET Nat
      BY <2>2, <3>1, <3>2 DEF NoHeight
    <3>4. /\ kv' \in Tasks /\ kv'.pc = "values" /\ kv'.query = kv.query
          /\ kv'.latest = kv.latest /\ kv'.values = kv.values \cup {h} /\ kv'.proven = h + 1
      BY <2>2, <3>1, <3>2, <3>3 DEF Answered, Tasks
    <3>5. kv.values \subseteq {NoHeight, kv.latest - 1}
      BY DEF ValuesOfOneHeight
    <3>6. ValuesOfOneHeight'
      BY <2>2, <3>2, <3>4, <3>5 DEF ValuesOfOneHeight, OnItsWay
    <3>7. TypeOK'
      BY <2>2, <3>1, <3>4 DEF TypeOK
    <3>8. ResultCovered' /\ TakenIsVerified' /\ LatestSeen' /\ PeriodSpent'
      BY <3>1, <3>4 DEF ResultCovered, TakenIsVerified, LatestSeen, PeriodSpent, Working, OnItsWay
    <3> QED
      BY <3>6, <3>7, <3>8
  <2> QED
    BY <1>1, <2>1, <2>2 DEF QueryTendermintProof, Fault, TypeOK
<1>2. CASE GetStorageValues
  <2>1. kv' \in Tasks /\ kv'.pc = "submit" /\ kv.pc = "values"
    BY <1>2 DEF GetStorageValues, TypeOK, Tasks, Stages
  <2>2. /\ kv'.query = kv.query /\ kv'.latest = kv.latest
        /\ kv'.values = kv.values /\ kv'.proven = kv.proven
    BY <1>2 DEF GetStorageValues, TypeOK, Tasks
  <2> QED
    BY <1>2, <2>1, <2>2 DEF GetStorageValues, TypeOK, TakenIsVerified, ResultCovered, LatestSeen,
       ValuesOfOneHeight, PeriodSpent, Working, OnItsWay
<1> QED
  BY <1>1, <1>2

\* What is submitted, and that it respects the period.
NewResult == [height |-> kv.proven - 1, values |-> kv.values, header |-> kv.proven]

LEMMA SubmitStep ==
  ASSUME KVInv, SubmitKVWithProof
  PROVE  KVInv' /\ \A q \in Queries : result'[q] # result[q] /\ result[q] # NoResult =>
                      result'[q].height >= result[q].height + MinKvUpdatePeriod
<1> USE DEF KVInv
<1>1. CASE UNCHANGED result
  <2>1. kv' = Idle /\ UNCHANGED <<height, lastHeight>> /\ faults' \in 0 .. MaxFaults
    BY DEF SubmitKVWithProof, Fault, TypeOK
  <2> QED
    BY <1>1, <2>1, GoIdle
<1>2. CASE HeaderExists /\ Verified /\ result' = [result EXCEPT ![kv.query] = NewResult]
  <2>1. /\ kv' = Idle /\ kv.pc = "submit" /\ UNCHANGED <<height, lastHeight>>
        /\ faults' \in 0 .. MaxFaults
    BY DEF SubmitKVWithProof, Fault, TypeOK
  <2>2. kv.query \in Queries /\ kv.latest \in Nat /\ kv.latest > 2 /\ kv.proven = kv.latest
        /\ kv.values = {kv.latest - 1}
    BY <1>2, <2>1 DEF TypeOK, Tasks, ValuesOfOneHeight, HeaderExists, Verified, NoHeight
  <2>3. /\ NewResult \in Result
        /\ NewResult.height = kv.latest - 1 /\ NewResult.header = kv.latest
        /\ NewResult.values = {kv.latest - 1}
    BY <2>2 DEF NewResult, Result
  <2>4. /\ result'[kv.query] = NewResult
        /\ \A q \in Queries : q # kv.query => result'[q] = result[q]
    BY <1>2, <2>2 DEF TypeOK
  <2>5. TypeOK'
    BY <1>2, <2>1, <2>2, <2>3, IdleType DEF TypeOK
  <2>6. kv.latest <= height
    BY <2>1 DEF LatestSeen, Working
  <2>7. TakenIsVerified'
    BY <2>1, <2>2, <2>3, <2>4, <2>6 DEF TakenIsVerified
  <2>8. ResultCovered'
    BY <2>1, <2>2, <2>3, <2>4 DEF ResultCovered, PeriodSpent, OnItsWay
  <2>9. LatestSeen' /\ ValuesOfOneHeight' /\ PeriodSpent'
    BY <2>1, IdleType DEF LatestSeen, ValuesOfOneHeight, PeriodSpent, Working, OnItsWay
  <2>10. result[kv.query] # NoResult =>
           NewResult.height >= result[kv.query].height + MinKvUpdatePeriod
    <3> SUFFICES ASSUME result[kv.query] # NoResult
                 PROVE  NewResult.height >= result[kv.query].height + MinKvUpdatePeriod
      OBVIOUS
    <3>1. result[kv.query].header = result[kv.query].height + 1 /\ result[kv.query].height \in Nat
      BY <2>2 DEF TakenIsVerified, TypeOK, Result
    <3>2. result[kv.query].header + MinKvUpdatePeriod <= kv.latest
      BY <2>1, <2>2, <3>1 DEF PeriodSpent, LatestSeen, Working, OnItsWay
    <3> QED
      BY <2>2, <2>3, <3>1, <3>2
  <2> QED
    BY <2>2, <2>4, <2>5, <2>7, <2>8, <2>9, <2>10
<1> QED
  BY <1>1, <1>2 DEF SubmitKVWithProof, NewResult

\* Crashes, and the chain that goes on.
LEMMA OtherStep ==
  ASSUME KVInv, Crash \/ NewBlock
  PROVE  KVInv'
<1>1. CASE Crash
  BY <1>1, GoIdle DEF Crash, Fails, Fault, KVInv, TypeOK
<1>2. CASE NewBlock
  BY <1>2 DEF NewBlock, KVInv, TypeOK, Tasks, Result, TakenIsVerified, ResultCovered, LatestSeen,
     ValuesOfOneHeight, PeriodSpent, Working, OnItsWay
<1> QED
  BY <1>1, <1>2

LEMMA KVStep == KVInv /\ [Next]_vars => KVInv'
<1> SUFFICES ASSUME KVInv, [Next]_vars PROVE KVInv'
  OBVIOUS
<1>1. CASE UNCHANGED vars
  BY <1>1 DEF vars, KVInv, TypeOK, TakenIsVerified, ResultCovered, LatestSeen, ValuesOfOneHeight,
     PeriodSpent, Working, OnItsWay
<1>2. CASE Next
  BY <1>2, StartStep, KeysStep, SubmitStep, OtherStep DEF Next
<1> QED
  BY <1>1, <1>2

\* The strengthened invariant holds in every reachable state.
THEOREM KVCorrect == Spec => []KVInv
BY InitKV, KVStep, PTL DEF Spec

\* The task, the storage and the results keep the shapes declared for them.
THEOREM KVTypeCorrect == Spec => []TypeOK
BY KVCorrect, PTL DEF KVInv

\* Whatever the node answers for the keys, and however many there are, a
\* submission has no proof of another height than the one that it is for
\* (getStorageValues, submitKVWithProof).
THEOREM OneHeightCorrect == Spec => []OneHeight
<1>1. KVInv => OneHeight
  BY DEF KVInv, TypeOK, Tasks, OneHeight, ValuesOfOneHeight, LatestSeen, Working, HeaderExists,
     NoHeight
<1> QED
  BY <1>1, KVCorrect, PTL

\* No crash or lost answer makes the relayer forget a result that Neutron may
\* have (isQueryOnTime, line 108).
THEOREM ResultCoveredCorrect == Spec => []ResultCovered
BY KVCorrect, PTL DEF KVInv

\* Two results of a query are the configured period apart (README line 104).
THEOREM PeriodCorrect == Spec => PeriodRespected
<1> DEFINE A == \A q \in Queries : result'[q] # result[q] /\ result[q] # NoResult =>
                    result'[q].height >= result[q].height + MinKvUpdatePeriod
<1>1. KVInv /\ [Next]_vars => [A]_vars
  <2> SUFFICES ASSUME KVInv, Next PROVE A
    OBVIOUS
  <2>1. CASE SubmitKVWithProof
    BY <2>1, SubmitStep
  <2>2. CASE UNCHANGED result
    BY <2>2
  <2> QED
    BY <2>1, <2>2 DEF Next, ProcessMessageKV, QueryLatestHeight, IsQueryOnTime,
       QueryTendermintProof, GetStorageValues, Crash, Fails, NewBlock
<1> QED
  BY <1>1, KVCorrect, PTL DEF Spec, PeriodRespected
=============================================================================
