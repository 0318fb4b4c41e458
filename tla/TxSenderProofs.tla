--------------------------- MODULE TxSenderProofs ---------------------------
(***************************************************************************)
(* What is proved about TxSender, for any set of callers, any number of    *)
(* sends and any bounds.                                                   *)
(***************************************************************************)
EXTENDS TxSender, WellFoundedInduction, TLAPS

(***************************************************************************)
(* The strengthening: who is inside Send holds the lock, so the sequence   *)
(* in its transaction is still that of the sender, and a refused one means *)
(* that something came between; and top is what its name says.             *)
(***************************************************************************)
Inside == {"price", "simulate", "broadcast", "refresh"}

LockHeld == \A c \in Callers : call[c].pc \in Inside => lock = {c}

SignedWithCurrent ==
    \A c \in Callers : call[c].pc \in {"simulate", "broadcast"} => call[c].seq = sequence

RefreshIsNeeded == \A c \in Callers : call[c].pc = "refresh" => ~inStep

TopIsTop == Expected <= top

SenderInv ==
    /\ TypeOK /\ LockHeld /\ SignedWithCurrent /\ RefreshIsNeeded
    /\ InStep /\ TopIsTop /\ SequenceWasExpected

----------------------------------------------------------------------------
\* The sender starts with the chain's sequence and nothing in progress.
LEMMA InitSender == Init => SenderInv
<1> SUFFICES ASSUME Init PROVE SenderInv
  OBVIOUS
<1>1. NoCall \in [pc : Stages, seq : Nat, price : {0} \cup Offers]
  BY DEF NoCall, Stages
<1>2. TypeOK
  <2>1. inStep \in BOOLEAN
    BY DEF Init
  <2>2. call \in [Callers -> [pc : Stages, seq : Nat, price : {0} \cup Offers]] /\ accepted \in [Callers -> Nat]
    BY <1>1, SenderAssumption DEF Init
  <2> QED
    BY <2>1, <2>2, SenderAssumption DEF Init, TypeOK, Expected
<1>3. LockHeld /\ SignedWithCurrent /\ RefreshIsNeeded
  BY DEF Init, LockHeld, SignedWithCurrent, RefreshIsNeeded, NoCall, Inside
<1>4. InStep
  <2>1. inStep => pending = 0
    BY DEF Init
  <2> QED
    BY <2>1 DEF Init, InStep, Expected
<1>5. TopIsTop /\ SequenceWasExpected
  BY SenderAssumption DEF Init, TopIsTop, SequenceWasExpected, Expected
<1> QED
  BY <1>2, <1>3, <1>4, <1>5 DEF SenderInv

\* A caller that leaves Send leaves nobody inside.
LEMMA Leave ==
  ASSUME TypeOK, LockHeld, NEW c \in Callers, call[c].pc \in Inside, Return(c)
  PROVE  /\ call' \in [Callers -> [pc : Stages, seq : Nat, price : {0} \cup Offers]]
         /\ lock' \subseteq Callers
         /\ LockHeld'
         /\ SignedWithCurrent'
         /\ RefreshIsNeeded'
<1>1. NoCall \in [pc : Stages, seq : Nat, price : {0} \cup Offers] /\ NoCall.pc \notin Inside
  BY DEF NoCall, Stages, Inside
<1>2. call' \in [Callers -> [pc : Stages, seq : Nat, price : {0} \cup Offers]]
  BY <1>1 DEF TypeOK, Return
<1>3. \A d \in Callers : call'[d].pc \notin Inside
  <2> SUFFICES ASSUME NEW d \in Callers PROVE call'[d].pc \notin Inside
    OBVIOUS
  <2>1. CASE d = c
    BY <1>1, <2>1 DEF TypeOK, Return
  <2>2. CASE d # c
    <3>1. call'[d] = call[d]
      BY <2>2 DEF TypeOK, Return
    <3>2. call[d].pc \notin Inside
      BY <2>2 DEF LockHeld
    <3> QED
      BY <3>1, <3>2
  <2> QED
    BY <2>1, <2>2
<1>4. lock' \subseteq Callers
  BY DEF Return
<1> QED
  BY <1>2, <1>3, <1>4 DEF LockHeld, SignedWithCurrent, RefreshIsNeeded, Inside

\* No step of a caller breaks the invariant: what a caller counts is what the
\* node has just accepted, because nobody else could change the sequence.
LEMMA CallerStep ==
  ASSUME SenderInv, NEW c \in Callers, Send(c) \/ SendStep(c)
  PROVE  SenderInv'
<1> USE SenderAssumption DEF SenderInv, At
<1>1. CASE Send(c)
  <2>1. TypeOK'
    BY <1>1 DEF Send, TypeOK, Stages, Goto, Return, ReturnError, NoCall, Fault, node
  <2>2. LockHeld'
    BY <1>1 DEF Send, TypeOK, LockHeld, Inside, Goto, Return, ReturnError, NoCall
  <2>3. SignedWithCurrent' /\ RefreshIsNeeded'
    BY <1>1 DEF Send, TypeOK, LockHeld, Inside, SignedWithCurrent, RefreshIsNeeded,
       InStep, Goto, Return, ReturnError, NoCall
  <2>4. InStep' /\ TopIsTop' /\ SequenceWasExpected'
    BY <1>1 DEF Send, TypeOK, SignedWithCurrent, InStep, TopIsTop, SequenceWasExpected, Expected,
         ReturnError, node
  <2> QED
    BY <2>1, <2>2, <2>3, <2>4
<1>2. CASE Lock(c)
  <2>1. TypeOK'
    BY <1>2 DEF Lock, TypeOK, Stages, Goto, Return, ReturnError, NoCall, Fault, node
  <2>2. LockHeld'
    BY <1>2 DEF Lock, TypeOK, LockHeld, Inside, Goto, Return, ReturnError, NoCall
  <2>3. SignedWithCurrent' /\ RefreshIsNeeded'
    BY <1>2 DEF Lock, TypeOK, LockHeld, Inside, SignedWithCurrent, RefreshIsNeeded,
       InStep, Goto, Return, ReturnError, NoCall
  <2>4. InStep' /\ TopIsTop' /\ SequenceWasExpected'
    BY <1>2 DEF Lock, TypeOK, SignedWithCurrent, InStep, TopIsTop, SequenceWasExpected, Expected,
         ReturnError, node
  <2> QED
    BY <2>1, <2>2, <2>3, <2>4
<1>3. CASE GetGasPrice(c)
  <2>1. call[c].pc \in Inside
    BY <1>3 DEF GetGasPrice, Inside
  <2>2. CASE Fault /\ ReturnError(c)
    BY <1>3, <2>1, <2>2, Leave DEF GetGasPrice, TypeOK, ReturnError, Fault, node,
       InStep, TopIsTop, SequenceWasExpected, Expected
  <2>3. CASE /\ \E price \in Offers :
                    call' = [call EXCEPT ![c] = [pc |-> "simulate", seq |-> sequence, price |-> price]]
             /\ UNCHANGED <<sequence, lock, accepted, faults>>
    <3>1. UNCHANGED <<node, sequence, lock, accepted, inStep, top>> /\ faults' \in 0 .. MaxFaults
      BY <1>3, <2>3 DEF GetGasPrice, TypeOK
    <3>2. TypeOK'
      BY <2>3, <3>1 DEF TypeOK, Stages, node
    <3>3. LockHeld' /\ SignedWithCurrent' /\ RefreshIsNeeded'
      BY <2>1, <2>3, <3>1 DEF TypeOK, LockHeld, SignedWithCurrent, RefreshIsNeeded, Inside
    <3> QED
      BY <3>1, <3>2, <3>3 DEF InStep, TopIsTop, SequenceWasExpected, Expected, node
  <2> QED
    BY <1>3, <2>2, <2>3 DEF GetGasPrice
<1>4. CASE CalculateGas(c)
  <2>1. TypeOK'
    BY <1>4 DEF CalculateGas, TypeOK, Stages, Goto, Return, ReturnError, NoCall, Fault, node
  <2>2. LockHeld'
    BY <1>4 DEF CalculateGas, TypeOK, LockHeld, Inside, Goto, Return, ReturnError, NoCall
  <2>3. SignedWithCurrent' /\ RefreshIsNeeded'
    BY <1>4 DEF CalculateGas, TypeOK, LockHeld, Inside, SignedWithCurrent, RefreshIsNeeded,
       InStep, Goto, Return, ReturnError, NoCall
  <2>4. InStep' /\ TopIsTop' /\ SequenceWasExpected'
    BY <1>4 DEF CalculateGas, TypeOK, SignedWithCurrent, InStep, TopIsTop, SequenceWasExpected, Expected,
         ReturnError, node
  <2> QED
    BY <2>1, <2>2, <2>3, <2>4
<1>5. CASE CalculateGasFails(c)
  <2>1. TypeOK'
    BY <1>5 DEF CalculateGasFails, TypeOK, Stages, Goto, Return, ReturnError, NoCall, Fault, node
  <2>2. LockHeld'
    BY <1>5 DEF CalculateGasFails, TypeOK, LockHeld, Inside, Goto, Return, ReturnError, NoCall
  <2>3. SignedWithCurrent' /\ RefreshIsNeeded'
    BY <1>5 DEF CalculateGasFails, TypeOK, LockHeld, Inside, SignedWithCurrent, RefreshIsNeeded,
       InStep, Goto, Return, ReturnError, NoCall
  <2>4. InStep' /\ TopIsTop' /\ SequenceWasExpected'
    BY <1>5 DEF CalculateGasFails, TypeOK, SignedWithCurrent, InStep, TopIsTop, SequenceWasExpected, Expected,
         ReturnError, node
  <2> QED
    BY <2>1, <2>2, <2>3, <2>4
<1>6. CASE Accept(c)
  <2>1. call[c].pc \in Inside /\ Return(c)
    BY <1>6 DEF Accept, Inside, ReturnError
  <2>2. pending' \in 0 .. MaxPending /\ committed' = committed /\ Expected' = Expected + 1
    BY <1>6 DEF Accept, TypeOK, Expected
  <2>3. top' \in Nat /\ Expected' <= top' /\ top <= top'
    BY <1>6, <2>2 DEF Accept, TypeOK, Expected
  <2>4. sequence = Expected
    BY <1>6 DEF Accept, SignedWithCurrent
  <2>5. CASE sequence' = sequence + 1 /\ accepted' = [accepted EXCEPT ![c] = @ + 1]
                /\ UNCHANGED <<faults, inStep>>
    <3>1. accepted' \in [Callers -> Nat]
      BY <2>5 DEF TypeOK
    <3>2. TypeOK'
      BY <2>1, <2>2, <2>3, <2>5, <3>1, Leave DEF TypeOK
    <3>3. InStep' /\ TopIsTop' /\ SequenceWasExpected'
      BY <2>2, <2>3, <2>4, <2>5 DEF TypeOK, InStep, TopIsTop, SequenceWasExpected
    <3> QED
      BY <2>1, <3>2, <3>3, Leave
  <2>6. CASE Fault /\ UNCHANGED <<sequence, accepted>> /\ inStep' = FALSE
    <3>1. inStep' \in BOOLEAN /\ InStep'
      BY <2>6 DEF InStep
    <3>2. TypeOK'
      BY <2>1, <2>2, <2>3, <2>6, <3>1, Leave DEF TypeOK, Fault
    <3>3. TopIsTop' /\ SequenceWasExpected'
      BY <2>2, <2>3, <2>6 DEF TypeOK, TopIsTop, SequenceWasExpected
    <3> QED
      BY <2>1, <3>1, <3>2, <3>3, Leave
  <2> QED
    BY <1>6, <2>5, <2>6 DEF Accept, ReturnError
<1>7. CASE Refuse(c)
  <2>1. TypeOK'
    BY <1>7 DEF Refuse, TypeOK, Stages, Goto, Return, ReturnError, NoCall, Fault, node
  <2>2. LockHeld'
    BY <1>7 DEF Refuse, TypeOK, LockHeld, Inside, Goto, Return, ReturnError, NoCall
  <2>3. SignedWithCurrent' /\ RefreshIsNeeded'
    BY <1>7 DEF Refuse, TypeOK, LockHeld, Inside, SignedWithCurrent, RefreshIsNeeded,
       InStep, Goto, Return, ReturnError, NoCall
  <2>4. InStep' /\ TopIsTop' /\ SequenceWasExpected'
    BY <1>7 DEF Refuse, TypeOK, SignedWithCurrent, InStep, TopIsTop, SequenceWasExpected, Expected,
         ReturnError, node
  <2> QED
    BY <2>1, <2>2, <2>3, <2>4
<1>8. CASE BroadcastFails(c)
  <2>1. TypeOK'
    BY <1>8 DEF BroadcastFails, TypeOK, Stages, Goto, Return, ReturnError, NoCall, Fault, node
  <2>2. LockHeld'
    BY <1>8 DEF BroadcastFails, TypeOK, LockHeld, Inside, Goto, Return, ReturnError, NoCall
  <2>3. SignedWithCurrent' /\ RefreshIsNeeded'
    BY <1>8 DEF BroadcastFails, TypeOK, LockHeld, Inside, SignedWithCurrent, RefreshIsNeeded,
       InStep, Goto, Return, ReturnError, NoCall
  <2>4. InStep' /\ TopIsTop' /\ SequenceWasExpected'
    BY <1>8 DEF BroadcastFails, TypeOK, SignedWithCurrent, InStep, TopIsTop, SequenceWasExpected, Expected,
         ReturnError, node
  <2> QED
    BY <2>1, <2>2, <2>3, <2>4
<1>9. CASE RefreshAccountInfo(c)
  <2>1. call[c].pc \in Inside /\ Return(c) /\ UNCHANGED <<node, accepted, top>>
    BY <1>9 DEF RefreshAccountInfo, Inside, ReturnError
  <2>2. CASE sequence' = committed /\ inStep' = (inStep \/ pending = 0) /\ UNCHANGED faults
    <3>1. ~inStep
      BY <1>9 DEF RefreshAccountInfo, RefreshIsNeeded
    <3>2. inStep' \in BOOLEAN /\ (inStep' => pending = 0)
      BY <2>2, <3>1
    <3> QED
      BY <2>1, <2>2, <3>2, Leave
      DEF TypeOK, InStep, TopIsTop, SequenceWasExpected, Expected, node
  <2>3. CASE Fault /\ UNCHANGED <<sequence, inStep>>
    BY <2>1, <2>3, Leave
    DEF TypeOK, InStep, TopIsTop, SequenceWasExpected, Expected, node, Fault
  <2> QED
    BY <1>9, <2>2, <2>3 DEF RefreshAccountInfo, ReturnError
<1> QED
  BY <1>1, <1>2, <1>3, <1>4, <1>5, <1>6, <1>7, <1>8, <1>9 DEF SendStep

\* Nor does a restart or a step of the node.
LEMMA OtherStep ==
  ASSUME SenderInv, Restart \/ CommitBlock \/ DropPending \/ OtherSigner \/ Done
  PROVE  SenderInv'
<1> USE SenderAssumption DEF SenderInv
<1>1. CASE Restart
  <2>1. TypeOK'
    BY <1>1 DEF Restart, TypeOK, Stages, NoCall, Fault, node, sender, vars
  <2>2. LockHeld' /\ SignedWithCurrent' /\ RefreshIsNeeded'
    BY <1>1 DEF Restart, TypeOK, LockHeld, Inside, SignedWithCurrent,
       RefreshIsNeeded, NoCall, sender, vars
  <2>3. InStep' /\ TopIsTop' /\ SequenceWasExpected'
    <3>1. inStep' => pending = 0
      BY <1>1 DEF Restart
    <3> QED
      BY <1>1, <3>1 DEF Restart, TypeOK, InStep, TopIsTop, SequenceWasExpected, Expected, node, sender, vars
  <2> QED
    BY <2>1, <2>2, <2>3
<1>2. CASE CommitBlock
  <2>1. TypeOK'
    BY <1>2 DEF CommitBlock, TypeOK, Stages, NoCall, Fault, node, sender, vars
  <2>2. LockHeld' /\ SignedWithCurrent' /\ RefreshIsNeeded'
    BY <1>2 DEF CommitBlock, TypeOK, LockHeld, Inside, SignedWithCurrent,
       RefreshIsNeeded, NoCall, sender, vars
  <2>3. InStep' /\ TopIsTop' /\ SequenceWasExpected'
    BY <1>2 DEF CommitBlock, TypeOK, InStep, TopIsTop, SequenceWasExpected, Expected, node, sender, vars
  <2> QED
    BY <2>1, <2>2, <2>3
<1>3. CASE DropPending
  <2>1. TypeOK'
    <3>1. inStep' \in BOOLEAN
      BY <1>3 DEF DropPending
    <3> QED
      BY <1>3, <3>1 DEF DropPending, TypeOK, Expected, Fault, sender
  <2>2. LockHeld' /\ SignedWithCurrent' /\ RefreshIsNeeded'
    BY <1>3 DEF DropPending, TypeOK, LockHeld, Inside, SignedWithCurrent,
       RefreshIsNeeded, NoCall, sender, vars
  <2>3. InStep' /\ TopIsTop' /\ SequenceWasExpected'
    BY <1>3 DEF DropPending, TypeOK, InStep, TopIsTop, SequenceWasExpected, Expected, node, sender, vars
  <2> QED
    BY <2>1, <2>2, <2>3
<1>4. CASE OtherSigner
  <2>1. TypeOK'
    <3>1. inStep' \in BOOLEAN
      BY <1>4 DEF OtherSigner
    <3> QED
      BY <1>4, <3>1 DEF OtherSigner, TypeOK, Expected, Fault, sender
  <2>2. LockHeld' /\ SignedWithCurrent' /\ RefreshIsNeeded'
    BY <1>4 DEF OtherSigner, TypeOK, LockHeld, Inside, SignedWithCurrent,
       RefreshIsNeeded, NoCall, sender, vars
  <2>3. InStep' /\ TopIsTop' /\ SequenceWasExpected'
    BY <1>4 DEF OtherSigner, TypeOK, InStep, TopIsTop, SequenceWasExpected, Expected, node, sender, vars
  <2> QED
    BY <2>1, <2>2, <2>3
<1>5. CASE Done
  <2>1. TypeOK'
    BY <1>5 DEF Done, TypeOK, Stages, NoCall, Fault, node, sender, vars
  <2>2. LockHeld' /\ SignedWithCurrent' /\ RefreshIsNeeded'
    BY <1>5 DEF Done, TypeOK, LockHeld, Inside, SignedWithCurrent,
       RefreshIsNeeded, NoCall, sender, vars
  <2>3. InStep' /\ TopIsTop' /\ SequenceWasExpected'
    BY <1>5 DEF Done, TypeOK, InStep, TopIsTop, SequenceWasExpected, Expected, node, sender, vars
  <2> QED
    BY <2>1, <2>2, <2>3
<1> QED
  BY <1>1, <1>2, <1>3, <1>4, <1>5

\* The strengthened invariant holds in every reachable state.
THEOREM SenderCorrect == Spec => []SenderInv
<1>1. SenderInv /\ [Next]_vars => SenderInv'
  <2> SUFFICES ASSUME SenderInv, [Next]_vars PROVE SenderInv'
    OBVIOUS
  <2>1. CASE UNCHANGED vars
    BY <2>1 DEF SenderInv, TypeOK, LockHeld, SignedWithCurrent, RefreshIsNeeded, InStep, TopIsTop,
         SequenceWasExpected, Expected, vars
  <2>2. CASE Next
    BY <2>2, CallerStep, OtherStep DEF Next
  <2> QED
    BY <2>1, <2>2
<1> QED
  BY <1>1, InitSender, PTL DEF Spec

\* The variables keep their declared shapes: the bound on the mempool is kept,
\* and the sequence never goes below zero.
THEOREM SenderTypeCorrect == Spec => []TypeOK
  BY SenderCorrect, PTL DEF SenderInv

\* Own sends keep the local sequence and the node's in step, for any number
\* of goroutines behind the lock (lines 123-125, 168-169).
THEOREM InStepCorrect == Spec => []InStep
  BY SenderCorrect, PTL DEF SenderInv

\* The local count never runs ahead of every sequence the node has expected
\* (lines 163-170).
THEOREM SequenceCorrect == Spec => []SequenceWasExpected
  BY SenderCorrect, PTL DEF SenderInv

----------------------------------------------------------------------------
(***************************************************************************)
(* The price.  Rounding moves a number by at most half the place of its    *)
(* last digit, and a smaller number has no higher place.                   *)
(***************************************************************************)
\* What the assumption says of each constant.
LEMMA Constants ==
  /\ GasPrices \in Nat /\ GasPriceMultiplier \in Nat /\ MaxGasPrice \in Nat
  /\ Significand \in Nat /\ Prices \subseteq Nat
  /\ \A u \in Places : u \in Nat \ {0} /\ u * Significand \in Nat
BY SenderAssumption

\* A number below the cap has a place for its last digit, the lowest that does.
LEMMA UnitIsLowest ==
  ASSUME NEW p \in Nat, p <= MaxGasPrice
  PROVE  /\ Unit(p) \in Places
         /\ p < Unit(p) * Significand
         /\ \A v \in Places : p < v * Significand => Unit(p) <= v
<1> DEFINE S == {u \in Places : p < u * Significand}
<1>1. PICK w \in Places : MaxGasPrice < w * Significand
  BY SenderAssumption
<1>2. w \in S
  BY <1>1, Constants
<1>3. S \subseteq Nat
  BY Constants
<1>4. PICK u \in S : \A v \in S : ~(v < u)
  <2>1. IsWellFoundedOn(OpToRel(<, Nat), Nat)
    BY NatLessThanWellFounded
  <2> HIDE DEF S
  <2>2. PICK u \in S : \A y \in S : <<y, u>> \notin OpToRel(<, Nat)
    BY <1>2, <1>3, <2>1, WFMin
  <2> QED
    BY <1>3, <2>2 DEF OpToRel
<1>5. u \in Places /\ p < u * Significand /\ \A v \in Places : p < v * Significand => u <= v
  BY <1>4, <1>3
<1> QED
  BY <1>5 DEF Unit

\* Division of a number by a place.
LEMMA Parts ==
  ASSUME NEW p \in Nat, NEW u \in Nat \ {0}
  PROVE  p \div u \in Nat /\ p % u \in 0 .. u - 1 /\ p = u * (p \div u) + (p % u)
OBVIOUS

\* Rounding adds at most half of the last place.
LEMMA FormatFloatNear ==
  ASSUME NEW p \in Nat, p <= MaxGasPrice
  PROVE  FormatFloat(p) \in Nat /\ 2 * (FormatFloat(p) - p) <= Unit(p)
<1> DEFINE u == Unit(p)
           q == p \div u
           r == p % u
<1>1. u \in Nat \ {0}
  BY UnitIsLowest, Constants
<1> HIDE DEF u
<1>2. q \in Nat /\ r \in 0 .. u - 1 /\ p = u * q + r
  BY <1>1, Parts
<1>3. FormatFloat(p) = q * u \/ (2 * r >= u /\ FormatFloat(p) = (q + 1) * u)
  <2> DEFINE up == 2 * r > u \/ (2 * r = u /\ q % 2 = 1)
  <2>1. FormatFloat(p) = (IF up THEN q + 1 ELSE q) * u
    BY DEF FormatFloat, u
  <2>2. up => 2 * r >= u
    BY <1>1, <1>2
  <2> HIDE DEF up
  <2> QED
    BY <2>1, <2>2
<1> HIDE DEF q, r
<1>4. q * u = u * q /\ (q + 1) * u = u * q + u /\ u * q \in Nat
  BY <1>1, <1>2
<1> QED
  BY <1>1, <1>2, <1>3, <1>4 DEF u

\* The place of a smaller number is not higher.
LEMMA UnitOfSmaller ==
  ASSUME NEW p \in Nat, p <= MaxGasPrice
  PROVE  Unit(p) <= Unit(MaxGasPrice) /\ Unit(p) \in Places
<1>1. MaxGasPrice \in Nat /\ MaxGasPrice <= MaxGasPrice
  BY Constants
<1>2. Unit(MaxGasPrice) \in Places /\ MaxGasPrice < Unit(MaxGasPrice) * Significand
  BY <1>1, UnitIsLowest
<1>3. Unit(MaxGasPrice) * Significand \in Nat
  BY <1>2, Constants
<1>4. p < Unit(MaxGasPrice) * Significand
  BY <1>1, <1>2, <1>3
<1> QED
  BY <1>2, <1>4, UnitIsLowest

\* What is not above the cap is formatted to at most half a place above it.
LEMMA FormatFloatCapped ==
  ASSUME NEW p \in Nat, p <= MaxGasPrice
  PROVE  2 * (FormatFloat(p) - MaxGasPrice) <= Unit(MaxGasPrice)
<1>1. MaxGasPrice \in Nat /\ MaxGasPrice <= MaxGasPrice
  BY Constants
<1>2. Unit(p) <= Unit(MaxGasPrice) /\ Unit(p) \in Nat /\ Unit(MaxGasPrice) \in Nat
  BY <1>1, UnitOfSmaller, Constants
<1>3. FormatFloat(p) \in Nat /\ 2 * (FormatFloat(p) - p) <= Unit(p)
  BY FormatFloatNear
<1> QED
  BY <1>1, <1>2, <1>3

\* What multiplyGas formats is a number that is not above the cap.
LEMMA MultiplyGasFormats ==
  ASSUME NEW gas \in Prices
  PROVE  \E p \in Nat : p <= MaxGasPrice /\ MultiplyGas(gas) = FormatFloat(p)
<1> DEFINE m == GasPriceMultiplier * gas
<1>1. m \in Nat /\ MaxGasPrice \in Nat
  BY Constants
<1>2. MultiplyGas(gas) = FormatFloat(IF m > MaxGasPrice THEN MaxGasPrice ELSE m)
  BY DEF MultiplyGas
<1> HIDE DEF m
<1>3. CASE m > MaxGasPrice
  BY <1>1, <1>2, <1>3
<1>4. CASE m <= MaxGasPrice
  BY <1>1, <1>2, <1>4
<1> QED
  BY <1>1, <1>3, <1>4

\* Every price that a transaction may carry is capped up to the rounding.
LEMMA OfferedIsCapped ==
  ASSUME NEW price \in {0} \cup Offers, price # GasPrices
  PROVE  2 * (price - MaxGasPrice) <= Unit(MaxGasPrice)
<1>1. CASE price = 0
  <2>1. MaxGasPrice \in Nat /\ MaxGasPrice <= MaxGasPrice
    BY Constants
  <2>2. Unit(MaxGasPrice) \in Nat
    BY <2>1, UnitIsLowest, Constants
  <2> QED
    BY <1>1, <2>1, <2>2
<1>2. CASE price # 0
  <2>1. PICK gas \in Prices : price = MultiplyGas(gas)
    BY <1>2 DEF Offers
  <2> QED
    BY <2>1, MultiplyGasFormats, FormatFloatCapped
<1> QED
  BY <1>1, <1>2

\* A multiple of a place below a multiple of it is rounded to no more.
LEMMA RoundsBelow ==
  ASSUME NEW p \in Nat, NEW u \in Nat \ {0}, NEW k \in Nat, p <= u * k, FormatFloat(p) \in Nat,
         Unit(p) = u
  PROVE  FormatFloat(p) <= u * k
<1> DEFINE q == p \div u
           r == p % u
           up == 2 * r > u \/ (2 * r = u /\ q % 2 = 1)
<1>1. q \in Nat /\ r \in 0 .. u - 1 /\ p = u * q + r
  BY Parts
<1>2. FormatFloat(p) = (IF up THEN q + 1 ELSE q) * u
  BY DEF FormatFloat
<1>3. up => r > 0
  BY <1>1
<1> HIDE DEF up, q, r
<1>4. q <= k
  <2> SUFFICES ASSUME q >= k + 1 PROVE FALSE
    BY <1>1
  <2>1. u * q = u * k + u * (q - k) /\ u * k \in Nat
    BY <1>1
  <2>2. u * (q - k) >= u
    BY <1>1
  <2> QED
    BY <1>1, <2>1, <2>2
<1>5. CASE ~up
  <2>1. u * k = u * q + u * (k - q) /\ u * (k - q) \in Nat
    BY <1>1, <1>4
  <2> QED
    BY <1>1, <1>2, <1>5, <2>1
<1>6. CASE up
  <2>1. q < k
    <3> SUFFICES ASSUME q = k PROVE FALSE
      BY <1>1, <1>4
    <3> QED
      BY <1>1, <1>3, <1>6
  <2>2. u * k = u * (q + 1) + u * (k - (q + 1)) /\ u * (k - (q + 1)) \in Nat
    BY <1>1, <2>1
  <2>3. (q + 1) * u = u * (q + 1)
    BY <1>1
  <2> QED
    BY <1>1, <1>2, <1>6, <2>2, <2>3
<1> QED
  BY <1>5, <1>6

\* A cap that is written exactly is a multiple of every lower place.
LEMMA ExactCap ==
  ASSUME FormatFloat(MaxGasPrice) = MaxGasPrice, NEW v \in Places, v <= Unit(MaxGasPrice)
  PROVE  \E k \in Nat : MaxGasPrice = v * k
<1> DEFINE M == MaxGasPrice
           u == Unit(M)
           q == M \div u
           r == M % u
           up == 2 * r > u \/ (2 * r = u /\ q % 2 = 1)
<1>1. M \in Nat /\ v \in Nat \ {0} /\ u \in Places /\ u \in Nat \ {0}
  <2>1. M \in Nat /\ M <= MaxGasPrice
    BY Constants
  <2> QED
    BY <2>1, UnitIsLowest, Constants
<1>2. q \in Nat /\ r \in 0 .. u - 1 /\ M = u * q + r
  BY <1>1, Parts
<1>3. M = (IF up THEN q + 1 ELSE q) * u
  BY DEF FormatFloat
<1>4. \E j \in Nat : M = u * j
  <2> HIDE DEF up, q, r, u
  <2>1. CASE up
    <3>1. (q + 1) * u = u * (q + 1) /\ q + 1 \in Nat
      BY <1>1, <1>2
    <3> QED
      BY <1>3, <2>1, <3>1
  <2>2. CASE ~up
    <3>1. q * u = u * q /\ q \in Nat
      BY <1>1, <1>2
    <3> QED
      BY <1>3, <2>2, <3>1
  <2> QED
    BY <1>2, <2>1, <2>2
<1>5. u % v = 0
  BY <1>1, SenderAssumption
<1>6. PICK j \in Nat : M = u * j
  BY <1>4
<1> DEFINE i == u \div v
<1>7. i \in Nat /\ u = v * i
  <2> HIDE DEF u
  <2>1. i \in Nat /\ u = v * i + (u % v)
    BY <1>1, Parts
  <2> HIDE DEF i
  <2> QED
    BY <1>1, <1>5, <2>1
<1> HIDE DEF u, i
<1>8. i * j \in Nat /\ (v * i) * j = v * (i * j)
  BY <1>1, <1>6, <1>7
<1> QED
  BY <1>6, <1>7, <1>8

\* With such a cap no formatted price is above it.
LEMMA ExactlyCapped ==
  ASSUME FormatFloat(MaxGasPrice) = MaxGasPrice, NEW p \in Nat, p <= MaxGasPrice
  PROVE  FormatFloat(p) <= MaxGasPrice
<1>1. Unit(p) \in Places /\ Unit(p) <= Unit(MaxGasPrice) /\ Unit(p) \in Nat \ {0}
  BY UnitOfSmaller, Constants
<1>2. PICK k \in Nat : MaxGasPrice = Unit(p) * k
  BY <1>1, ExactCap
<1>3. FormatFloat(p) \in Nat
  BY FormatFloatNear
<1> DEFINE u == Unit(p)
<1>4. u \in Nat \ {0} /\ p <= u * k /\ Unit(p) = u
  BY <1>1, <1>2
<1> QED
  BY <1>2, <1>3, <1>4, RoundsBelow

\* "if result is bigger than maxGasPrice -> return max gas"
\* (tx_sender.go:277): up to the rounding of the cap, whatever the market
\* answers and however many places the prices have.
THEOREM PriceCappedCorrect == Spec => []PriceCapped
<1>1. TypeOK => PriceCapped
  <2> SUFFICES ASSUME TypeOK, NEW c \in Callers, call[c].price # GasPrices
               PROVE  2 * (call[c].price - MaxGasPrice) <= Unit(MaxGasPrice)
    BY DEF PriceCapped
  <2>1. call[c].price \in {0} \cup Offers
    BY DEF TypeOK
  <2> QED
    BY <2>1, OfferedIsCapped
<1> QED
  BY <1>1, SenderTypeCorrect, PTL

\* No price asked of the market is above the configured maximum at all.
NeverAboveCap == \A c \in Callers : call[c].price # GasPrices => call[c].price <= MaxGasPrice

\* The rounding after the comparison (tx_sender.go:256-271) never matters to
\* an operator whose cap is written in four digits: then no price that was
\* asked of the market is above it.
THEOREM ExactCapIsKept ==
  ASSUME FormatFloat(MaxGasPrice) = MaxGasPrice
  PROVE  Spec => []NeverAboveCap
<1>1. ASSUME NEW price \in {0} \cup Offers, price # GasPrices
      PROVE  price <= MaxGasPrice
  <2>1. CASE price = 0
    BY <2>1, Constants
  <2>2. CASE price # 0
    <3>1. PICK gas \in Prices : price = MultiplyGas(gas)
      BY <1>1, <2>2 DEF Offers
    <3> QED
      BY <3>1, MultiplyGasFormats, ExactlyCapped
  <2> QED
    BY <2>1, <2>2
<1>2. TypeOK => NeverAboveCap
  <2> SUFFICES ASSUME TypeOK, NEW c \in Callers, call[c].price # GasPrices
               PROVE  call[c].price <= MaxGasPrice
    BY DEF NeverAboveCap
  <2>1. call[c].price \in {0} \cup Offers
    BY DEF TypeOK
  <2> QED
    BY <1>1, <2>1
<1> QED
  BY <1>2, SenderTypeCorrect, PTL

----------------------------------------------------------------------------
(***************************************************************************)
(* The lock.                                                               *)
(***************************************************************************)
\* Whoever holds the lock is inside Send, and nobody else is.
LockIsSends == \A c \in Callers : c \in lock <=> call[c].pc \in Inside

\* Send takes the lock at its start and gives it back on every way out, the
\* errors and the restart included (lines 123-125): at most one caller is
\* inside, and one that waits for the lock waits for a caller that can go on.
THEOREM LockCorrect == Spec => []LockIsSends
<1>1. Init => LockIsSends
  <2>1. NoCall.pc \notin Inside
    BY DEF NoCall, Inside
  <2> QED
    BY <2>1 DEF Init, LockIsSends
<1>2. SenderInv /\ LockIsSends /\ [Next]_vars => LockIsSends'
  <2> SUFFICES ASSUME SenderInv, LockIsSends, [Next]_vars PROVE LockIsSends'
    OBVIOUS
  <2>1. ASSUME NEW c \in Callers, call[c].pc \in Inside, Return(c) PROVE LockIsSends'
    <3>1. LockHeld' /\ lock' = {}
      BY <2>1, Leave DEF SenderInv, Return
    <3> QED
      BY <3>1 DEF LockHeld, LockIsSends
  <2>2. ASSUME NEW c \in Callers, NEW pc \in Inside, call[c].pc \in Inside, UNCHANGED lock,
               call' = [call EXCEPT ![c].pc = pc]
        PROVE  LockIsSends'
    BY <2>2 DEF SenderInv, TypeOK, LockIsSends
  <2>3. CASE UNCHANGED <<lock, call>>
    BY <2>3 DEF LockIsSends
  <2>4. ASSUME NEW c \in Callers, Send(c) PROVE LockIsSends'
    BY <2>4 DEF Send, At, Goto, SenderInv, TypeOK, LockIsSends, Inside
  <2>5. ASSUME NEW c \in Callers, Lock(c) PROVE LockIsSends'
    BY <2>5 DEF Lock, At, Goto, SenderInv, TypeOK, LockIsSends, Inside
  <2>6. ASSUME NEW c \in Callers, GetGasPrice(c) PROVE LockIsSends'
    <3>1. call[c].pc \in Inside
      BY <2>6 DEF GetGasPrice, At, Inside
    <3>2. CASE Return(c)
      BY <2>1, <3>1, <3>2
    <3>3. CASE /\ UNCHANGED lock
               /\ \E price \in Offers :
                    call' = [call EXCEPT ![c] = [pc |-> "simulate", seq |-> sequence, price |-> price]]
      BY <3>1, <3>3 DEF SenderInv, TypeOK, LockIsSends, Inside
    <3> QED
      BY <2>6, <3>2, <3>3 DEF GetGasPrice, ReturnError
  <2>7. ASSUME NEW c \in Callers, CalculateGas(c) \/ Refuse(c) PROVE LockIsSends'
    <3>1. call[c].pc \in Inside /\ UNCHANGED lock /\ \E pc \in Inside : call' = [call EXCEPT ![c].pc = pc]
      BY <2>7 DEF CalculateGas, Refuse, At, Goto, Inside
    <3> QED
      BY <2>2, <3>1
  <2>8. ASSUME NEW c \in Callers,
               CalculateGasFails(c) \/ Accept(c) \/ BroadcastFails(c) \/ RefreshAccountInfo(c)
        PROVE  LockIsSends'
    <3>1. call[c].pc \in Inside /\ Return(c)
      BY <2>8 DEF CalculateGasFails, Accept, BroadcastFails, RefreshAccountInfo, ReturnError, At, Inside
    <3> QED
      BY <2>1, <3>1
  <2>9. CASE Restart
    <3>1. NoCall.pc \notin Inside
      BY DEF NoCall, Inside
    <3>2. lock' = {} /\ \A c \in Callers : call'[c] = NoCall
      BY <2>9 DEF Restart
    <3> QED
      BY <3>1, <3>2 DEF LockIsSends
  <2>10. CASE CommitBlock \/ DropPending \/ OtherSigner \/ Done
    BY <2>3, <2>10 DEF CommitBlock, DropPending, OtherSigner, Done, sender, vars
  <2> QED
    BY <2>3, <2>4, <2>5, <2>6, <2>7, <2>8, <2>9, <2>10 DEF Next, SendStep, vars
<1> QED
  BY <1>1, <1>2, SenderCorrect, PTL DEF Spec
=============================================================================
