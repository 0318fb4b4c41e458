------------------------------ MODULE TxSender ------------------------------
(***************************************************************************)
(* The sender of Neutron transactions: TxSender (internal/submit).  It     *)
(* counts the sequence of the relayer's account by itself and reads the    *)
(* chain's sequence again only when a transaction is refused for it.       *)
(*                                                                         *)
(* The node is external.  It simulates and accepts a transaction against   *)
(* the sequence after those in its mempool, and answers the account query  *)
(* with the sequence of the last block.                                    *)
(***************************************************************************)
EXTENDS Integers

CONSTANTS Callers,      \* goroutines that call Send
          Wanted,       \* sends a caller has to get accepted
          Prices,       \* gas prices the fee market may answer, in a unit in
                        \* which they and their multiples are whole
          GasPrices, GasPriceMultiplier, MaxGasPrice,   \* the configuration
          Places,       \* the powers of ten that are the place of a digit
          Significand,  \* the power of ten above the digits of a formatted price
          MaxPending,   \* bound: transactions of the account in the mempool, a
                        \* broadcast waits when there are so many
          MaxFaults     \* bound: failed calls, restarts, mempool and key events

ASSUME SenderAssumption ==
    /\ Wanted \in Nat /\ MaxPending \in Nat /\ MaxFaults \in Nat
    /\ Prices \subseteq Nat
    /\ {GasPrices, GasPriceMultiplier, MaxGasPrice, Significand} \subseteq Nat
    \* Powers of ten: the smaller divides the larger, and they reach the cap.
    /\ Places \subseteq Nat \ {0}
    /\ \A u, v \in Places : u <= v => v % u = 0
    /\ \E u \in Places : MaxGasPrice < u * Significand

VARIABLES committed,   \* the account's sequence in the last block
          pending,     \* transactions of the account in the mempool
          sequence,    \* TxSender.sequence
          lock,        \* TxSender.lock: the callers that hold it
          call,        \* caller |-> its Send, with the sequence put in txf
          accepted,    \* caller |-> sends that returned a hash
          faults,      \* how much of MaxFaults is used
          inStep,      \* history: nothing came between since they agreed
          top          \* history: the highest sequence the node has expected

node   == <<committed, pending>>
sender == <<sequence, lock, call, accepted>>
vars   == <<committed, pending, sequence, lock, call, accepted, faults, inStep, top>>

\* The sequence that the node expects in the next transaction.
Expected == committed + pending

Stages == {"idle", "lock", "price", "simulate", "broadcast", "refresh"}
NoCall == [pc |-> "idle", seq |-> 0, price |-> 0]

(***************************************************************************)
(* The price of a transaction.                                             *)
(***************************************************************************)
\* The place of the last digit that is written.
Unit(p) == CHOOSE u \in Places :
              p < u * Significand /\ \A v \in Places : p < v * Significand => u <= v

\* FormatFloat(p, 'g', 4, 64): to the nearest, a half to the even digit.
FormatFloat(p) ==
    LET u == Unit(p)
        below == p \div u
        up == 2 * (p % u) > u \/ (2 * (p % u) = u /\ below % 2 = 1)
    IN (IF up THEN below + 1 ELSE below) * u

\* Mutant: the cap is applied before the multiplication.
MultiplyGasCapped(gas) ==
    FormatFloat(GasPriceMultiplier * (IF gas > MaxGasPrice THEN MaxGasPrice ELSE gas))

MultiplyGas(gas) ==
    LET multiplied == GasPriceMultiplier * gas
    IN FormatFloat(IF multiplied > MaxGasPrice THEN MaxGasPrice ELSE multiplied)

\* The configured price if the market's cannot be fetched.
Offers == {GasPrices} \cup {MultiplyGas(gas) : gas \in Prices}

TypeOK ==
    /\ committed \in Nat
    /\ pending \in 0 .. MaxPending
    /\ sequence \in Nat
    /\ lock \subseteq Callers
    /\ call \in [Callers -> [pc : Stages, seq : Nat, price : {0} \cup Offers]]
    /\ accepted \in [Callers -> Nat]
    /\ faults \in 0 .. MaxFaults
    /\ inStep \in BOOLEAN
    /\ top \in Nat

\* refreshAccountInfo of NewTxSender: transactions of an earlier process may
\* be in the mempool.
Init ==
    /\ committed = 0
    /\ pending \in 0 .. MaxPending
    /\ sequence = committed
    /\ lock = {}
    /\ call = [c \in Callers |-> NoCall]
    /\ accepted = [c \in Callers |-> 0]
    /\ faults = 0
    /\ inStep = (pending = 0)
    /\ top = Expected

Fault == faults < MaxFaults /\ faults' = faults + 1

At(c, pc) == call[c].pc = pc
Goto(c, pc) == call' = [call EXCEPT ![c].pc = pc]

\* Send returns; its deferred call unlocks.
Return(c) == call' = [call EXCEPT ![c] = NoCall] /\ lock' = {}
ReturnError(c) == Return(c) /\ UNCHANGED <<sequence, accepted>>

----------------------------------------------------------------------------
(***************************************************************************)
(* Send.                                                                   *)
(***************************************************************************)
Send(c) ==
    /\ At(c, "idle") /\ accepted[c] < Wanted
    /\ Goto(c, "lock")
    /\ UNCHANGED <<node, sequence, lock, accepted, faults, inStep, top>>

\* Mutant: Send does not take the lock.
LockNot(c) ==
    /\ At(c, "lock")
    /\ Goto(c, "price")
    /\ UNCHANGED <<node, sequence, lock, accepted, faults, inStep, top>>

Lock(c) ==
    /\ At(c, "lock") /\ lock = {}
    /\ lock' = {c}
    /\ Goto(c, "price")
    /\ UNCHANGED <<node, sequence, accepted, faults, inStep, top>>

\* A price that is no float64 ends the Send.
GetGasPrice(c) ==
    /\ At(c, "price")
    /\ \/ /\ \E price \in Offers :
               call' = [call EXCEPT ![c] = [pc |-> "simulate", seq |-> sequence, price |-> price]]
          /\ UNCHANGED <<sequence, lock, accepted, faults>>
       \/ Fault /\ ReturnError(c)
    /\ UNCHANGED <<node, inStep, top>>

\* Mutant: only code 32 of the broadcast leads to a refresh.
CalculateGasNoRefresh(c) ==
    /\ At(c, "simulate")
    /\ IF call[c].seq = Expected
       THEN Goto(c, "broadcast") /\ UNCHANGED <<sequence, lock, accepted>>
       ELSE ReturnError(c)
    /\ UNCHANGED <<node, faults, inStep, top>>

\* The node's answer to Simulate: "incorrect account sequence" or the gas.
CalculateGas(c) ==
    /\ At(c, "simulate")
    /\ Goto(c, IF call[c].seq = Expected THEN "broadcast" ELSE "refresh")
    /\ UNCHANGED <<node, sequence, lock, accepted, faults, inStep, top>>

\* Another error of the simulation, or more gas than the limit.
CalculateGasFails(c) ==
    /\ At(c, "simulate")
    /\ Fault /\ ReturnError(c)
    /\ UNCHANGED <<node, inStep, top>>

\* The node takes the transaction; the answer with code 0 may be lost.
Accept(c) ==
    /\ At(c, "broadcast")
    /\ call[c].seq = Expected /\ pending < MaxPending
    /\ pending' = pending + 1
    /\ top' = IF top < Expected + 1 THEN Expected + 1 ELSE top
    /\ \/ /\ sequence' = sequence + 1
          /\ accepted' = [accepted EXCEPT ![c] = @ + 1]
          /\ Return(c)
          /\ UNCHANGED <<faults, inStep>>
       \/ /\ Fault /\ ReturnError(c)
          /\ inStep' = FALSE
    /\ UNCHANGED committed

\* Code 32.
Refuse(c) ==
    /\ At(c, "broadcast")
    /\ call[c].seq # Expected
    /\ Goto(c, "refresh")
    /\ UNCHANGED <<node, sequence, lock, accepted, faults, inStep, top>>

\* Mutants: the sequence is counted before the answer is looked at, or taken
\* back without having been counted.
BroadcastFailsCounted(c) ==
    /\ At(c, "broadcast")
    /\ Fault /\ Return(c)
    /\ sequence' = sequence + 1
    /\ UNCHANGED <<node, accepted, inStep, top>>

BroadcastFailsTakenBack(c) ==
    /\ At(c, "broadcast")
    /\ Fault /\ Return(c)
    /\ sequence' = sequence - 1
    /\ UNCHANGED <<node, accepted, inStep, top>>

\* The broadcast fails before the node takes it, or the node answers with
\* another code: its mempool is full, the fee is too low.
BroadcastFails(c) ==
    /\ At(c, "broadcast")
    /\ Fault /\ ReturnError(c)
    /\ UNCHANGED <<node, inStep, top>>

\* refreshAccountInfo, after a simulation or a broadcast that was refused.
RefreshAccountInfo(c) ==
    /\ At(c, "refresh")
    /\ \/ /\ sequence' = committed
          /\ inStep' = (inStep \/ pending = 0)
          /\ Return(c)
          /\ UNCHANGED <<accepted, faults>>
       \/ Fault /\ ReturnError(c) /\ UNCHANGED inStep
    /\ UNCHANGED <<node, top>>

SendStep(c) ==
    \/ Lock(c) \/ GetGasPrice(c) \/ CalculateGas(c) \/ CalculateGasFails(c)
    \/ Accept(c) \/ Refuse(c) \/ BroadcastFails(c) \/ RefreshAccountInfo(c)

\* The process ends and NewTxSender reads the account again.
Restart ==
    /\ Fault
    /\ sequence' = committed
    /\ inStep' = (pending = 0)
    /\ lock' = {}
    /\ call' = [c \in Callers |-> NoCall]
    /\ UNCHANGED <<node, accepted, top>>

----------------------------------------------------------------------------
(***************************************************************************)
(* The node.                                                               *)
(***************************************************************************)
CommitBlock ==
    /\ \E n \in 1 .. pending :
          /\ committed' = committed + n
          /\ pending' = pending - n
    /\ UNCHANGED <<sender, faults, inStep, top>>

\* The last transactions leave the mempool without a block: a restart of the
\* node, an eviction.
DropPending ==
    /\ Fault
    /\ \E n \in 1 .. pending : pending' = pending - n
    /\ inStep' = FALSE
    /\ UNCHANGED <<committed, sender, top>>

\* Somebody else signs with the key of the relayer.
OtherSigner ==
    /\ pending < MaxPending
    /\ Fault
    /\ pending' = pending + 1
    /\ top' = IF top < Expected + 1 THEN Expected + 1 ELSE top
    /\ inStep' = FALSE
    /\ UNCHANGED <<committed, sender>>

Done == (\A c \in Callers : accepted[c] = Wanted) /\ pending = 0 /\ UNCHANGED vars

Next ==
    \/ \E c \in Callers : Send(c) \/ SendStep(c)
    \/ Restart \/ CommitBlock \/ DropPending \/ OtherSigner
    \/ Done

Spec == Init /\ [][Next]_vars

(***************************************************************************)
(* The tasks of the relayer come again, so a caller whose Send failed      *)
(* calls it again; a Send does not stop half way, and the blocks of        *)
(* Neutron empty the mempool.                                              *)
(***************************************************************************)
Fairness ==
    /\ \A c \in Callers : WF_vars(Send(c)) /\ WF_vars(SendStep(c))
    /\ WF_vars(CommitBlock)

FairSpec == Spec /\ Fairness

----------------------------------------------------------------------------
(***************************************************************************)
(* Properties.                                                             *)
(***************************************************************************)
\* Once the local sequence is the one the node expects, the relayer's own
\* sends, however many goroutines make them, never move the two apart: it
\* takes a lost answer, a lost mempool or another signer, and then one read
\* of the account with no transaction of it pending brings them together
\* (the lock, lines 168-169, refreshAccountInfo).
InStep == inStep => sequence = Expected

\* The local count never runs ahead of every sequence the node has expected:
\* a transaction that was not accepted is not counted (lines 163-170).  It
\* may be ahead of what the node expects now when the mempool was lost.
SequenceWasExpected == sequence <= top

\* "if result is bigger than maxGasPrice -> return max gas" (tx_sender.go:277):
\* what a transaction offers exceeds the cap at most by the rounding of the
\* cap, which comes after the comparison; the configured price has no cap.
PriceCapped ==
    \A c \in Callers :
        call[c].price # GasPrices => 2 * (call[c].price - MaxGasPrice) <= Unit(MaxGasPrice)

\* Whatever was lost, dropped or signed by others, the sender gets back in
\* step and the sends of the callers are accepted in the end, with the only
\* help of being called again.
EventuallyAccepted == <>(\A c \in Callers : accepted[c] = Wanted)

=============================================================================
