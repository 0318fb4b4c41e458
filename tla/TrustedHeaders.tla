--------------------------- MODULE TrustedHeaders ---------------------------
(***************************************************************************)
(* The choice of a consensus state that Neutron's light client trusts, for *)
(* the header of a target block: TrustedHeaderFetcher.Fetch (internal/     *)
(* trusted_headers), and the use of that header in a submission.           *)
(*                                                                         *)
(* External: the light client on Neutron, which other relayers update      *)
(* meanwhile, and which forgets consensus states that expired; its         *)
(* listing, in pages, by the text "revision-height" of the keys and        *)
(* backwards; and the target chain, one block per unit of time.            *)
(***************************************************************************)
EXTENDS Integers, FiniteSets

CONSTANTS Revision,        \* thf.revisionNumber, of the target's chain ID
          OldStates,       \* consensus states of the revisions before
          FirstHeight,     \* height and time of the model's first block
          MaxHeight,       \* bound: height and time of its last one
          Wanted,          \* heights the header of which is asked for
          TrustingPeriod,  \* the client's, in blocks
          SubmissionMargin,   \* submissionMarginPeriod, in blocks
          PageSize,        \* consensusPageSize
          Tens,            \* the powers of ten, up to one above all heights
          MaxFaults        \* bound: calls that fail

ASSUME HeadersAssumption ==
    /\ Revision \in Nat
    /\ IsFiniteSet(OldStates)
    /\ OldStates \subseteq [rev : 0 .. Revision - 1, height : Nat, time : Nat]
    /\ \A s, t \in OldStates : s.rev = t.rev /\ s.height = t.height => s = t
    /\ FirstHeight \in Nat \ {0} /\ MaxHeight \in Nat /\ FirstHeight <= MaxHeight
    /\ Wanted \subseteq FirstHeight .. MaxHeight + 1
    /\ TrustingPeriod \in Nat \ {0} /\ SubmissionMargin \in Nat
    /\ PageSize \in Nat \ {0}
    /\ MaxFaults \in Nat

\* Each power is ten times another one, down to 1.
ASSUME TensAssumption ==
    /\ Tens \subseteq Nat \ {0} /\ 1 \in Tens
    /\ \A u \in Tens \ {1} : \E v \in Tens : u = 10 * v
    /\ \E top \in Tens :
          /\ \A u \in Tens : u <= top
          /\ MaxHeight < top /\ \A s \in OldStates : s.height < top

State(h) == [rev |-> Revision, height |-> h, time |-> h]
States == OldStates \cup {State(h) : h \in FirstHeight .. MaxHeight}
NoState == [rev |-> -1, height |-> 0, time |-> 0]

VARIABLES now,      \* time, and the target's last block
          client,   \* consensus states of the client
          fetch,    \* the call of Fetch and the submission after it
          faults,   \* how much of MaxFaults is used
          steady    \* history: in the client since the listing began

vars == <<now, client, fetch, faults, steady>>

(***************************************************************************)
(* fetch.pc: "idle", "page" before a ConsensusStates call from nextKey,    *)
(* "scan" with the page it returned, "header" with trusted found and       *)
(* foundAt the time of that, "submit" with the header, "none" when no page *)
(* is left.                                                                *)
(***************************************************************************)
FetchType == [pc : {"idle", "page", "scan", "header", "submit", "none"},
              height : Nat, nextKey : States \cup {NoState}, page : SUBSET States,
              trusted : States \cup {NoState}, foundAt : Nat]
Idle == [pc |-> "idle", height |-> 0, nextKey |-> NoState, page |-> {},
         trusted |-> NoState, foundAt |-> 0]

TypeOK ==
    /\ now \in FirstHeight .. MaxHeight
    /\ client \subseteq States
    /\ fetch \in FetchType
    /\ fetch.pc \in {"header", "submit"} <=> fetch.trusted # NoState
    /\ faults \in 0 .. MaxFaults
    /\ steady \subseteq client

Init ==
    /\ now = FirstHeight
    /\ client \in SUBSET (OldStates \cup {State(FirstHeight)})
    /\ fetch = Idle
    /\ faults = 0
    /\ steady = {}

----------------------------------------------------------------------------
(***************************************************************************)
(* The light client.                                                       *)
(***************************************************************************)
Expired(s) == s.time + TrustingPeriod <= now

Tick ==
    /\ now < MaxHeight
    /\ now' = now + 1
    /\ UNCHANGED <<client, fetch, faults, steady>>

\* Somebody updates the client with a block, from a state that is trusted; an
\* expired state may go.
UpdateClient ==
    \E h \in FirstHeight .. now, gone \in {{}} \cup {{s} : s \in {s \in client : Expired(s)}} :
        /\ \E s \in client : ~Expired(s)
        /\ client' = (client \cup {State(h)}) \ gone
        /\ client' # client
        /\ steady' = steady \ gone
        /\ UNCHANGED <<now, fetch, faults>>

\* Keys are compared as text: the digits from the left, so that 9 is above 11,
\* and a longer text above its beginning.  Leading fills a number up with
\* zeros to the width of the greatest one there is.
Top == CHOOSE u \in Tens : \A v \in Tens : v <= u
Leading(n) == n * (CHOOSE u \in Tens : n * u < Top /\ \A v \in Tens : n * v < Top => v <= u)
Above(s, t) ==
    \/ s.rev > t.rev
    \/ s.rev = t.rev /\ Leading(s.height) > Leading(t.height)
    \/ s.rev = t.rev /\ Leading(s.height) = Leading(t.height) /\ s.height > t.height

\* A page of the listing, from nextKey on, and the key it ends before.
Rest == {s \in client : fetch.nextKey = NoState \/ ~Above(s, fetch.nextKey)}
Position(s) == Cardinality({t \in Rest : Above(t, s)})
Listed == {s \in Rest : Position(s) < PageSize}
NextKey == IF Cardinality(Rest) <= PageSize THEN NoState
           ELSE CHOOSE s \in Rest : Position(s) = PageSize

----------------------------------------------------------------------------
(***************************************************************************)
(* Fetch.                                                                  *)
(***************************************************************************)
Fails ==
    /\ faults < MaxFaults /\ faults' = faults + 1
    /\ fetch' = Idle
    /\ UNCHANGED <<now, client, steady>>

\* Fetch asks for the trusting period first, and for the first page.  The
\* block after the last one may be asked for, too (prepareHeaders).
Fetch(h) ==
    /\ fetch.pc \in {"idle", "none"} /\ h <= now + 1
    /\ \/ /\ fetch' = [Idle EXCEPT !.pc = "page", !.height = h]
          /\ steady' = client
          /\ UNCHANGED <<now, client, faults>>
       \/ Fails

ConsensusStates ==
    /\ fetch.pc = "page"
    /\ \/ /\ fetch' = [fetch EXCEPT !.pc = "scan", !.page = Listed, !.nextKey = NextKey]
          /\ UNCHANGED <<now, client, faults, steady>>
       \/ Fails

\* Mutant: the margin for the submission is forgotten.
SuitableToTheEnd(s) == s.rev = Revision /\ s.height < fetch.height /\ ~Expired(s)

IsSuitableCS(s) ==
    /\ s.rev = Revision /\ s.height < fetch.height
    /\ s.time + TrustingPeriod - SubmissionMargin > now

\* The first suitable one of the page, in the order of the listing, or the
\* next page.
Suitable == {s \in fetch.page : IsSuitableCS(s)}
FirstSuitable == CHOOSE s \in Suitable : \A t \in Suitable : t = s \/ Above(s, t)

\* Mutants: the first page is the only one; a listing without a suitable state
\* is no error.
GetTrustedHeightOnePage ==
    /\ fetch.pc = "scan"
    /\ fetch' = IF Suitable # {}
                THEN [fetch EXCEPT !.pc = "header", !.trusted = FirstSuitable, !.foundAt = now]
                ELSE [fetch EXCEPT !.pc = "none"]
    /\ UNCHANGED <<now, client, faults, steady>>

GetTrustedHeightNoError ==
    /\ fetch.pc = "scan"
    /\ fetch' = IF Suitable # {}
                THEN [fetch EXCEPT !.pc = "header", !.trusted = FirstSuitable, !.foundAt = now]
                ELSE IF fetch.nextKey # NoState THEN [fetch EXCEPT !.pc = "page"]
                ELSE [fetch EXCEPT !.pc = "header", !.foundAt = now]
    /\ UNCHANGED <<now, client, faults, steady>>

GetTrustedHeight ==
    /\ fetch.pc = "scan"
    /\ fetch' = IF Suitable # {}
                THEN [fetch EXCEPT !.pc = "header", !.trusted = FirstSuitable, !.foundAt = now]
                ELSE IF fetch.nextKey # NoState THEN [fetch EXCEPT !.pc = "page"]
                ELSE [fetch EXCEPT !.pc = "none"]
    /\ UNCHANGED <<now, client, faults, steady>>

\* The header of the block, which may not be there yet, and the one after the
\* trusted height for its validators, which is there if that block is, as
\* trusted is below height.
TrustedHeaderAtHeight ==
    /\ fetch.pc = "header"
    /\ \/ /\ fetch.height <= now /\ fetch.trusted.height + 1 <= now
          /\ fetch' = [fetch EXCEPT !.pc = "submit"]
          /\ UNCHANGED <<now, client, faults, steady>>
       \/ /\ fetch.height > now
          /\ fetch' = Idle
          /\ UNCHANGED <<now, client, faults, steady>>
       \/ Fails

\* The header is used: the client checks it from its trusted state.
Submit ==
    /\ fetch.pc = "submit"
    /\ client' = IF fetch.trusted \in client /\ ~Expired(fetch.trusted)
                 THEN client \cup {State(fetch.height)} ELSE client
    /\ fetch' = Idle
    /\ UNCHANGED <<now, faults, steady>>

Next ==
    \/ Tick \/ UpdateClient
    \/ \E h \in Wanted : Fetch(h)
    \/ ConsensusStates \/ GetTrustedHeight \/ TrustedHeaderAtHeight \/ Submit

Spec == Init /\ [][Next]_vars

----------------------------------------------------------------------------
(***************************************************************************)
(* Properties.                                                             *)
(***************************************************************************)
\* A fetch that gives up has missed nothing: no consensus state that was in
\* the client since its listing began is suitable now, although the listing
\* came in pages and the client changed between them (lines 140-160).
NothingMissed ==
    fetch.pc = "none" => \A s \in steady : ~IsSuitableCS(s)

\* The client takes the header when it is submitted within the margin of the
\* choice: its trusted state is of the target's revision, below the header,
\* still there and not expired (isSuitableCS, submissionMarginPeriod).
TrustedUntilSubmitted ==
    fetch.pc = "submit" /\ now - fetch.foundAt <= SubmissionMargin =>
        /\ fetch.trusted \in client
        /\ fetch.trusted.rev = Revision
        /\ fetch.trusted.height < fetch.height
        /\ ~Expired(fetch.trusted)
=============================================================================
