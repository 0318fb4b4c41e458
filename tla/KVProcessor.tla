---------------------------- MODULE KVProcessor -----------------------------
(***************************************************************************)
(* A KV task: KVProcessor.ProcessAndSubmit (internal/kvprocessor), with    *)
(* the storage proofs of Querier.QueryTendermintProof (internal/           *)
(* tmquerier), as Relayer.processMessageKV calls it.  Of the storage only  *)
(* LastQueryHeight is used, with the missing value read as 0.              *)
(*                                                                         *)
(* External: the target chain, whose node answers a query for the state    *)
(* after a block with that block's number, or with an error code and no    *)
(* number, and Neutron, which verifies the proofs.                         *)
(***************************************************************************)
EXTENDS Integers

CONSTANTS Queries,            \* KV queries
          NumKeys,            \* query |-> the number of its keys
          MinKvUpdatePeriod,  \* the configuration's, in target blocks
          MaxHeight,          \* bound: target heights the model tells apart
          MaxFaults           \* bound: failed calls and crashes

ASSUME KVAssumption ==
    /\ Queries # {}
    /\ NumKeys \in [Queries -> Nat]
    /\ MinKvUpdatePeriod \in Nat
    /\ MaxHeight \in Nat \ {0}
    /\ MaxFaults \in Nat

VARIABLES height,      \* the last block of the target chain
          lastHeight,  \* storage: query |-> LastQueryHeight
          kv,          \* the task in ProcessAndSubmit
          result,      \* query |-> the last result that Neutron's node has taken
          faults       \* how much of MaxFaults is used

vars == <<height, lastHeight, kv, result, faults>>

(***************************************************************************)
(* kv.pc: "idle"; "height" before QueryLatestHeight, "onTime" before       *)
(* isQueryOnTime, "values" in the loop over the keys with left of them to  *)
(* go, "submit" in submitKVWithProof.  latest: latestHeight.  values: the  *)
(* Response.Height of the values so far.  proven: the height that is said  *)
(* to prove the last.                                                      *)
(***************************************************************************)
Stages == {"idle", "height", "onTime", "values", "submit"}
Tasks == [pc : Stages, query : Queries, latest : Nat, left : Nat,
          values : SUBSET Nat, proven : Nat]
Idle == [pc |-> "idle", query |-> CHOOSE q \in Queries : TRUE, latest |-> 0, left |-> 0,
         values |-> {}, proven |-> 0]

\* Response.Height of an answer with an error code, which has no proof.
NoHeight == 0

\* A result: the height it is said to be of, the heights of its values and
\* of the header that is submitted with it.
Result == [height : Nat, values : SUBSET Nat, header : Nat]
NoResult == [height |-> 0, values |-> {}, header |-> 0]

TypeOK ==
    /\ height \in 1 .. MaxHeight
    /\ lastHeight \in [Queries -> 0 .. MaxHeight]
    /\ kv \in Tasks
    /\ result \in [Queries -> Result]
    /\ faults \in 0 .. MaxFaults

Init ==
    /\ height = 1
    /\ lastHeight = [q \in Queries |-> 0]
    /\ kv = Idle
    /\ result = [q \in Queries |-> NoResult]
    /\ faults = 0

Fault == faults < MaxFaults /\ faults' = faults + 1
Fails == Fault /\ kv' = Idle /\ UNCHANGED <<height, lastHeight, result>>

----------------------------------------------------------------------------
(***************************************************************************)
(* ProcessAndSubmit.                                                       *)
(***************************************************************************)
ProcessMessageKV(q) ==
    /\ kv.pc = "idle"
    /\ kv' = [Idle EXCEPT !.pc = "height", !.query = q]
    /\ UNCHANGED <<height, lastHeight, result, faults>>

QueryLatestHeight ==
    /\ kv.pc = "height"
    /\ \/ /\ kv' = [kv EXCEPT !.pc = "onTime", !.latest = height]
          /\ UNCHANGED <<height, lastHeight, result, faults>>
       \/ Fails

\* Mutant: a block too early.
OnTimeEarly == lastHeight[kv.query] + MinKvUpdatePeriod <= kv.latest + 1

OnTime == lastHeight[kv.query] + MinKvUpdatePeriod <= kv.latest

\* Mutants: nothing is stored, or the height of the next update.
IsQueryOnTimeForgotten ==
    /\ kv.pc = "onTime" /\ OnTime
    /\ kv' = [kv EXCEPT !.pc = "values", !.left = NumKeys[kv.query]]
    /\ UNCHANGED <<height, lastHeight, result, faults>>

IsQueryOnTimeNext ==
    /\ kv.pc = "onTime" /\ lastHeight[kv.query] <= kv.latest
    /\ kv' = [kv EXCEPT !.pc = "values", !.left = NumKeys[kv.query]]
    /\ lastHeight' = [lastHeight EXCEPT ![kv.query] = kv.latest + MinKvUpdatePeriod]
    /\ UNCHANGED <<height, result, faults>>

\* Without a period nothing is read or stored; with one the height is stored
\* before the task does anything else.
IsQueryOnTime ==
    /\ kv.pc = "onTime"
    /\ \/ /\ MinKvUpdatePeriod = 0 \/ OnTime
          /\ kv' = [kv EXCEPT !.pc = "values", !.left = NumKeys[kv.query]]
          /\ lastHeight' = IF MinKvUpdatePeriod = 0 THEN lastHeight
                           ELSE [lastHeight EXCEPT ![kv.query] = kv.latest]
          /\ UNCHANGED faults
       \/ /\ MinKvUpdatePeriod # 0 /\ ~OnTime
          /\ kv' = Idle
          /\ UNCHANGED <<lastHeight, faults>>
       \/ /\ MinKvUpdatePeriod # 0
          /\ Fault /\ kv' = Idle /\ UNCHANGED lastHeight
    /\ UNCHANGED <<height, result>>

\* Mutant: every key is asked for at the last block of the moment.
QueryTendermintProofLatest ==
    /\ kv.pc = "values" /\ kv.left > 0
    /\ kv' = [kv EXCEPT !.left = @ - 1, !.values = @ \cup {height - 1}, !.proven = height]
    /\ UNCHANGED <<height, lastHeight, result, faults>>

\* The answer of the node for the next key, whatever its code.
Answered(responseHeight) ==
    kv' = [kv EXCEPT !.left = @ - 1, !.values = @ \cup {responseHeight},
                     !.proven = responseHeight + 1]

\* The next key.  Proofs at the first two heights are refused; the others are
\* of the state before the block asked for, and proved by that block.  An
\* error of the node, as for a state it has pruned, is not one of the call.
QueryTendermintProof ==
    /\ kv.pc = "values" /\ kv.left > 0
    /\ \/ kv.latest > 2 /\ Answered(kv.latest - 1) /\ UNCHANGED faults
       \/ kv.latest > 2 /\ Answered(NoHeight) /\ Fault
       \/ kv.latest <= 2 /\ kv' = Idle /\ UNCHANGED faults
       \/ Fault /\ kv' = Idle
    /\ UNCHANGED <<height, lastHeight, result>>

GetStorageValues ==
    /\ kv.pc = "values" /\ kv.left = 0
    /\ kv' = [kv EXCEPT !.pc = "submit"]
    /\ UNCHANGED <<height, lastHeight, result, faults>>

\* No consensus state is below height 1, that of a last value without a proof,
\* nor below 0, that of a query without keys.
HeaderExists == kv.proven > 1

\* Neutron takes values that have a proof for the header.
Verified == kv.values \subseteq {kv.proven - 1}

\* SubmitKVWithProof: header, message and Send; the node may take the result
\* although its answer is lost.
SubmitKVWithProof ==
    /\ kv.pc = "submit"
    /\ \/ /\ HeaderExists /\ Verified
          /\ result' = [result EXCEPT ![kv.query] =
                         [height |-> kv.proven - 1, values |-> kv.values, header |-> kv.proven]]
          /\ faults' \in {faults, faults + 1} /\ faults' <= MaxFaults
       \/ HeaderExists /\ Fault /\ UNCHANGED result
       \/ ~(HeaderExists /\ Verified) /\ UNCHANGED <<result, faults>>
    /\ kv' = Idle
    /\ UNCHANGED <<height, lastHeight>>

Crash == kv.pc # "idle" /\ Fails

\* The target chain.
NewBlock ==
    /\ height < MaxHeight
    /\ height' = height + 1
    /\ UNCHANGED <<lastHeight, kv, result, faults>>

Next ==
    \/ \E q \in Queries : ProcessMessageKV(q)
    \/ QueryLatestHeight \/ IsQueryOnTime \/ QueryTendermintProof \/ GetStorageValues
    \/ SubmitKVWithProof \/ Crash \/ NewBlock

Spec == Init /\ [][Next]_vars

----------------------------------------------------------------------------
(***************************************************************************)
(* Properties.                                                             *)
(***************************************************************************)
\* What goes to SubmitKVProof is of one height, that of the task, though the
\* chain grows between the keys and the node answers some of them with an
\* error code: every value with a proof is of the height the result is said
\* to be of, and the header is of the next block, which exists
\* (getStorageValues keeps the height of the last key only, lines 83-90;
\* submitKVWithProof subtracts one).  A value of NoHeight, without a proof,
\* may be among them: the code leaves it to Neutron to refuse it.
OneHeight ==
    kv.pc = "submit" /\ HeaderExists =>
        /\ kv.values \ {NoHeight} = {kv.proven - 1}
        /\ kv.proven = kv.latest /\ kv.latest <= height

\* With a period configured, the storage knows of every result Neutron may
\* have: a crash or a lost answer after the submission cannot make the relayer
\* forget that it spent the period (isQueryOnTime stores before the proofs are
\* fetched, line 108).
ResultCovered ==
    MinKvUpdatePeriod > 0 =>
        \A q \in Queries : result[q].header <= lastHeight[q] /\ lastHeight[q] <= height

\* README, RELAYER_MIN_KV_UPDATE_PERIOD: two results of a query are not less
\* than that many blocks apart.
PeriodRespected ==
    [][\A q \in Queries : result'[q] # result[q] /\ result[q] # NoResult =>
          result'[q].height >= result[q].height + MinKvUpdatePeriod]_vars
=============================================================================
