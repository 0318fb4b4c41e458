--------------------------- MODULE TxSearchProofs ---------------------------
(***************************************************************************)
(* That no transaction is skipped or delivered out of order, for every     *)
(* value of the constants of TxPipeline, whatever fails and wherever the   *)
(* process is killed; and that TxPipeline implements Delivery.             *)
(***************************************************************************)
EXTENDS TxPipelineProofs

USE StorageAssumption, QuerierAssumption

----------------------------------------------------------------------------
(***************************************************************************)
(* The inductive invariant.  Asked: the result of the filter of the task;  *)
(* ToCome: its part that the search has not sent; the rest was received,   *)
(* is in the channel, or is in the hand of the loop.                       *)
(***************************************************************************)
Asked  == {t \in Match[search.query] : TxHeight[t] > search.from}
ToCome == {t \in Asked : t > search.cursor}
InHand == rel.pc \in {"process", "store"}
Ranging == rel.pc \in {"range", "process", "store"}

\* A query gets its records after its first task.
HeightsKnown ==
    \A q \in Queries :
        /\ base[q] <= lastHeight[q]
        /\ base[q] = NotFound => lastHeight[q] = NotFound
        /\ lastHeight[q] = NotFound =>
              base[q] = NotFound /\ \A t \in Match[q] : ~TxExists(<<q, t>>)

\* The search started at or below what is stored meanwhile.
SearchFromStored ==
    /\ search.query = rel.query
    /\ search.top <= chainHeight
    /\ base[rel.query] # NotFound /\ base[rel.query] <= search.from
    /\ search.from <= lastHeight[rel.query]

\* The channel holds sent transactions, later ones than the one in hand.
SentInOrder ==
    /\ search.chan \subseteq Asked \ ToCome
    /\ \A t \in search.chan : TxHeight[t] <= search.top
    /\ InHand => /\ rel.tx \in Asked \ ToCome
                 /\ \A t \in search.chan : rel.tx < t

\* What was sent is recorded, in the channel or in hand.
NoneLost ==
    \A t \in Asked \ ToCome :
        TxExists(<<rel.query, t>>) \/ t \in search.chan \/ (InHand /\ t = rel.tx)

\* What is still to come and not on this page is on a later one, or in a
\* block that came after TxSearch; an orderly end leaves only such blocks.
PageIsNext ==
    /\ search.page \subseteq ToCome
    /\ \A t \in search.page : TxHeight[t] <= search.top
    /\ search.pc \in {"prove", "send"} =>
          \A t \in ToCome \ search.page :
              TxHeight[t] > search.top \/ (search.more /\ \A u \in search.page : u < t)
    /\ search.pc = "closed" /\ ~search.err /\ ~search.silent =>
          \A t \in ToCome : TxHeight[t] > search.top

\* lastProcessedHeight is the block of a transaction that was received.
LastIsBehind ==
    /\ rel.last = 0 => lastHeight[rel.query] = search.from
    /\ rel.last > 0 =>
          /\ lastHeight[rel.query] < rel.last /\ rel.last <= search.top
          /\ \E r \in Asked \ ToCome :
                TxHeight[r] = rel.last /\ \A t \in search.chan : r < t
    /\ InHand => TxHeight[rel.tx] = rel.last

Searched == SearchFromStored /\ SentInOrder /\ NoneLost /\ PageIsNext /\ LastIsBehind

Delivered == HeightsKnown /\ NoTxSkipped /\ RecordedInOrder

SearchInv == StatusInv /\ Delivered /\ (Ranging => Searched)

----------------------------------------------------------------------------
LEMMA Shapes ==
    ASSUME TypeOK
    PROVE  /\ rel.query \in Queries /\ rel.last \in Nat /\ rel.tx \in 0 .. NumTxs
           /\ search.query \in Queries /\ search.from \in Nat /\ search.top \in Nat
           /\ search.cursor \in Nat /\ search.chan \subseteq Txs /\ search.page \subseteq Txs
           /\ chainHeight \in Nat
           /\ \A q \in Queries : lastHeight[q] \in Nat \cup {NotFound}
                                 /\ base[q] \in Nat \cup {NotFound}
           /\ rel \in RelType /\ search \in SearchType
BY DEF TypeOK, StorageTypeOK, QuerierTypeOK, RelType, SearchType

LEMMA Constants ==
    /\ Txs \subseteq Nat
    /\ \A q \in Queries : Match[q] \subseteq Txs
    /\ \A t \in Txs : TxHeight[t] \in Nat /\ TxHeight[t] > 0
    /\ \A s, t \in Txs : s <= t => TxHeight[s] <= TxHeight[t]
BY DEF Txs

LEMMA DeliveredInit == Init => Delivered /\ ~Ranging
<1> SUFFICES ASSUME Init PROVE Delivered /\ ~Ranging
  OBVIOUS
<1>1. \A q \in Queries : lastHeight[q] = NotFound /\ base[q] = NotFound
  BY DEF Init, StorageInit
<1>2. \A q \in Queries : \A t \in Match[q] : ~TxExists(<<q, t>>)
  BY Constants DEF Init, StorageInit, TxExists, Keys
<1>3. \A q \in Queries : \A t \in Match[q] : TxHeight[t] \in Nat
  BY Constants
<1>4. HeightsKnown /\ NoTxSkipped /\ RecordedInOrder
  BY <1>1, <1>2, <1>3 DEF HeightsKnown, NoTxSkipped, RecordedInOrder, NotFound
<1> QED BY <1>4 DEF Delivered, Init, VolatileInit, RelIdle, Ranging

----------------------------------------------------------------------------
(***************************************************************************)
(* Steps that leave the deliveries as they are.                            *)
(***************************************************************************)
\* The same transactions have records.
SameRecords == \A k \in Keys : TxExists(k)' <=> TxExists(k)

LEMMA StatusKept == UNCHANGED status => SameRecords
BY DEF SameRecords, TxExists

LEMMA DeliveredFrame ==
    ASSUME Delivered, SameRecords, UNCHANGED <<lastHeight, base, cut>>
    PROVE  Delivered'
<1>1. \A q \in Queries : \A t \in Match[q] : TxExists(<<q, t>>)' <=> TxExists(<<q, t>>)
  BY Constants DEF SameRecords, Keys
<1> QED BY <1>1 DEF Delivered, HeightsKnown, NoTxSkipped, RecordedInOrder

LEMMA SearchedFrame ==
    ASSUME TypeOK, Searched, SameRecords, UNCHANGED <<lastHeight, base, rel, search>>,
           chainHeight' \in Nat, chainHeight' >= chainHeight
    PROVE  Searched'
<1>1. SearchFromStored'
  BY Shapes DEF Searched, SearchFromStored
<1>2. SentInOrder' /\ PageIsNext' /\ LastIsBehind'
  BY DEF Searched, SentInOrder, PageIsNext, LastIsBehind, Asked, ToCome, InHand
<1>3. NoneLost'
  <2>1. \A t \in Asked : TxExists(<<rel.query, t>>)' <=> TxExists(<<rel.query, t>>)
    BY Shapes, Constants DEF SameRecords, Keys, Asked
  <2> QED BY <2>1, Shapes DEF Searched, NoneLost, Asked, ToCome, InHand
<1> QED BY <1>1, <1>2, <1>3 DEF Searched

\* A step outside the loop and its search.
LEMMA OutsideFrame ==
    ASSUME SearchInv, StatusInv', SameRecords, UNCHANGED <<lastHeight, base, cut, rel, search>>,
           chainHeight' \in Nat, chainHeight' >= chainHeight
    PROVE  SearchInv'
BY DeliveredFrame, SearchedFrame DEF SearchInv, StatusInv, Ranging

\* A step that ends the task and stores nothing.
LEMMA EndFrame ==
    ASSUME SearchInv, StatusInv', UNCHANGED <<status, lastHeight, base, cut>>, ~Ranging'
    PROVE  SearchInv'
BY StatusKept, DeliveredFrame DEF SearchInv

----------------------------------------------------------------------------
(***************************************************************************)
(* The search goroutine.                                                   *)
(***************************************************************************)
\* A page holds the first transactions of the rest.
LEMMA PageIsFirst ==
    ASSUME NEW rest \in SUBSET Txs, NEW u \in rest \ Page(rest), NEW v \in Page(rest)
    PROVE  v < u
<1>1. rest \subseteq Nat /\ u \in Nat /\ v \in Nat /\ v \in rest
  BY DEF Txs, Page
<1>2. SUFFICES ASSUME u <= v PROVE FALSE
  BY <1>1
<1> DEFINE BeforeU == {w \in rest : w < u}
           BeforeV == {w \in rest : w < v}
<1>3. IsFiniteSet(BeforeV)
  <2>1. 1 \in Int /\ NumTxs \in Int
    OBVIOUS
  <2>2. IsFiniteSet(1 .. NumTxs)
    BY <2>1, FS_Interval
  <2> QED BY <2>2, FS_Subset DEF Txs
<1>4. BeforeU \subseteq BeforeV
  <2>1. \A w \in rest : w < u => w < v
    BY <1>1, <1>2
  <2> QED BY <2>1
<1>5. IsFiniteSet(BeforeU) /\ Cardinality(BeforeU) <= Cardinality(BeforeV)
  BY <1>3, <1>4, FS_Subset
<1>6. Cardinality(BeforeU) \in Nat /\ Cardinality(BeforeV) \in Nat
  BY <1>3, <1>5, FS_CardinalityType
<1>7. Cardinality(BeforeV) < PerPage
  BY DEF Page
<1>8. Cardinality(BeforeU) < PerPage
  BY <1>5, <1>6, <1>7
<1> QED BY <1>8 DEF Page

LEMMA TxSearchStep ==
    ASSUME TypeOK, Searched, TxSearch, UNCHANGED <<status, lastHeight, base, rel>>
    PROVE  Searched'
<1> USE DEF Searched
<1>1. /\ search' = [search EXCEPT !.pc = IF Remaining = {} THEN "closed" ELSE "prove",
                                  !.page = Page(Remaining),
                                  !.more = Page(Remaining) # Remaining,
                                  !.top = chainHeight]
      /\ chainHeight' = chainHeight /\ search.pc = "page"
  BY DEF TxSearch
<1>2. /\ search'.query = search.query /\ search'.from = search.from
      /\ search'.cursor = search.cursor /\ search'.chan = search.chan
      /\ search'.top = chainHeight /\ search'.page = Page(Remaining)
      /\ search'.more = (Page(Remaining) # Remaining)
      /\ search'.pc = (IF Remaining = {} THEN "closed" ELSE "prove")
  BY <1>1, Shapes DEF SearchType
<1>3. search.top <= chainHeight
  BY DEF SearchFromStored
<1>4. Asked' = Asked /\ ToCome' = ToCome /\ InHand' = InHand
  BY <1>2 DEF Asked, ToCome, InHand
<1>5. /\ Remaining \subseteq ToCome /\ Page(Remaining) \subseteq Remaining
      /\ Remaining \subseteq Txs
      /\ \A t \in Remaining : TxHeight[t] <= chainHeight
      /\ \A t \in ToCome \ Remaining : TxHeight[t] > chainHeight
  BY Shapes, Constants DEF Remaining, ToCome, Asked, Page
<1>6. SearchFromStored'
  BY <1>1, <1>2, Shapes DEF SearchFromStored
<1>7. SentInOrder'
  <2>1. \A t \in search.chan : TxHeight[t] <= search.top /\ TxHeight[t] \in Nat
    BY Shapes, Constants DEF SentInOrder
  <2>2. \A t \in search.chan : TxHeight[t] <= chainHeight
    BY <1>3, <2>1, Shapes
  <2> QED BY <1>2, <1>4, <2>2 DEF SentInOrder
<1>8. NoneLost'
  BY <1>2, <1>4 DEF NoneLost, TxExists
<1>9. PageIsNext'
  <2>1. \A t \in Remaining \ Page(Remaining) : \A u \in Page(Remaining) : u < t
    BY <1>5, PageIsFirst
  <2>2. \A t \in ToCome \ Page(Remaining) :
           TxHeight[t] > chainHeight \/ t \in Remaining \ Page(Remaining)
    BY <1>5
  <2>3. Remaining # {} =>
           \A t \in ToCome \ Page(Remaining) :
              \/ TxHeight[t] > chainHeight
              \/ Page(Remaining) # Remaining /\ \A u \in Page(Remaining) : u < t
    BY <2>1, <2>2
  <2>4. Remaining = {} => \A t \in ToCome : TxHeight[t] > chainHeight
    BY <1>5
  <2>5. search'.page \subseteq ToCome' /\ \A t \in search'.page : TxHeight[t] <= search'.top
    BY <1>2, <1>4, <1>5
  <2> QED BY <1>2, <1>4, <1>5, <2>3, <2>4, <2>5 DEF PageIsNext
<1>10. LastIsBehind'
  BY <1>2, <1>3, <1>4, Shapes DEF LastIsBehind
<1> QED BY <1>6, <1>7, <1>8, <1>9, <1>10

\* A step that only moves the search on or ends it.
LEMMA SearchMoves ==
    ASSUME TypeOK, Searched, ProofDelivery \/ SearchFails \/ SendCancelled,
           UNCHANGED <<status, lastHeight, base, rel>>
    PROVE  Searched'
<1> USE DEF Searched
<1>1. /\ search'.query = search.query /\ search'.from = search.from
      /\ search'.cursor = search.cursor /\ search'.chan = search.chan
      /\ search'.top = search.top /\ search'.page = search.page /\ search'.more = search.more
      /\ chainHeight' = chainHeight
      /\ \/ search.pc = "prove" /\ search'.pc = "send"
         \/ search'.pc = "closed" /\ (search'.err \/ search'.silent)
  BY ZenonT(60), Shapes DEF SearchType, ProofDelivery, SearchFails, SendCancelled
<1>2. Asked' = Asked /\ ToCome' = ToCome /\ InHand' = InHand
  BY <1>1 DEF Asked, ToCome, InHand
<1>3. SearchFromStored'
  BY <1>1 DEF SearchFromStored
<1>4. SentInOrder'
  BY <1>1, <1>2 DEF SentInOrder
<1>5. NoneLost'
  BY <1>1, <1>2 DEF NoneLost, TxExists
<1>6. PageIsNext'
  BY <1>1, <1>2 DEF PageIsNext
<1>7. LastIsBehind'
  BY <1>1, <1>2 DEF LastIsBehind
<1> QED BY <1>3, <1>4, <1>5, <1>6, <1>7

LEMMA SendTxStep ==
    ASSUME TypeOK, Searched, NEW t \in Txs, SendTx(t), UNCHANGED <<status, lastHeight, base, rel>>
    PROVE  Searched'
<1> USE DEF Searched
<1>1. /\ search'.query = search.query /\ search'.from = search.from
      /\ search'.cursor = t /\ search'.chan = search.chan \cup {t}
      /\ search'.top = search.top /\ search'.page = search.page \ {t}
      /\ search'.more = search.more /\ search'.err = search.err
      /\ search'.silent = search.silent /\ chainHeight' = chainHeight
      /\ search'.pc = (IF search.page # {t} THEN "prove"
                       ELSE IF search.more THEN "page" ELSE "closed")
      /\ search.pc = "send" /\ t \in search.page /\ \A u \in search.page : t <= u
  BY Shapes DEF SearchType, SendTx, IsFirst
<1>2. Asked' = Asked /\ InHand' = InHand /\ Asked \subseteq Txs
  BY <1>1, Shapes, Constants DEF Asked, InHand
<1>3. t \in Asked /\ t > search.cursor /\ TxHeight[t] <= search.top
  BY <1>1 DEF PageIsNext, ToCome
<1>4. ToCome' = {u \in Asked : u > t}
  BY <1>1, <1>2 DEF ToCome
<1>5. ToCome' \subseteq ToCome \ {t} /\ search.page \ {t} \subseteq ToCome'
  <2>1. \A u \in Asked : u \in Nat
    BY <1>2 DEF Txs
  <2>2. search.page \subseteq ToCome
    BY DEF PageIsNext
  <2> QED BY <1>1, <1>3, <1>4, <2>1, <2>2, Shapes DEF ToCome
\* Between the cursor and t there is none: it would be on the page.
<1>6. ToCome \ ToCome' = {t}
  <2>1. t \in ToCome \ ToCome'
    BY <1>3, <1>5 DEF ToCome
  <2>2. ASSUME NEW u \in ToCome \ ToCome', u # t PROVE FALSE
    <3>1. u \in Txs /\ u < t
      BY <1>2, <1>4, <2>2 DEF ToCome, Txs
    <3>2. u \notin search.page
      BY <1>1, <3>1 DEF Txs
    <3>3. TxHeight[u] > search.top \/ u > t
      BY <1>1, <2>2, <3>2 DEF PageIsNext
    <3>4. TxHeight[u] <= TxHeight[t] /\ TxHeight[u] \in Nat /\ TxHeight[t] \in Nat
      BY <3>1, Constants DEF Txs
    <3> QED BY <1>3, <3>1, <3>3, <3>4, Shapes DEF Txs
  <2> QED BY <2>1, <2>2
<1>7. Asked' \ ToCome' = (Asked \ ToCome) \cup {t} /\ t \notin Asked \ ToCome
  BY <1>2, <1>3, <1>5, <1>6 DEF ToCome
<1>8. \A s \in Asked \ ToCome : s < t
  BY <1>2, <1>3, Shapes DEF ToCome, Txs
<1>9. SearchFromStored'
  BY <1>1 DEF SearchFromStored
<1>10. SentInOrder'
  BY <1>1, <1>2, <1>3, <1>7, <1>8 DEF SentInOrder
<1>11. NoneLost'
  BY <1>1, <1>2, <1>7 DEF NoneLost, TxExists
<1>12. PageIsNext'
  <2>1. \A u \in ToCome' \ search.page :
           TxHeight[u] > search.top \/ (search.more /\ \A v \in search.page : v < u)
    BY <1>1, <1>5 DEF PageIsNext
  <2>2. \A u \in search.page : TxHeight[u] <= search.top
    BY DEF PageIsNext
  <2>3. (search'.pc = "closed" => ~search.more /\ search.page = {t}) /\ t \notin ToCome'
    BY <1>1, <1>5
  <2> QED BY <1>1, <1>5, <2>1, <2>2, <2>3 DEF PageIsNext
<1>13. LastIsBehind'
  <2>1. ASSUME rel.last > 0
        PROVE  \E r \in Asked' \ ToCome' :
                  TxHeight[r] = rel.last /\ \A s \in search.chan \cup {t} : r < s
    BY <1>7, <1>8, <2>1 DEF LastIsBehind
  <2> QED BY <1>1, <1>2, <2>1 DEF LastIsBehind
<1> QED BY <1>9, <1>10, <1>11, <1>12, <1>13

LEMMA SearchStepInv ==
    ASSUME SearchInv, StatusInv', SearchStep
    PROVE  SearchInv'
<1>1. TypeOK /\ UNCHANGED <<status, lastHeight, base, cut, rel>> /\ Ranging' = Ranging
  BY DEF SearchInv, StatusInv, SearchStep, storageVars, historyVars, Ranging
<1>2. Delivered'
  BY <1>1, StatusKept, DeliveredFrame DEF SearchInv
<1>3. Ranging => Searched'
  BY <1>1, TxSearchStep, SearchMoves, SendTxStep DEF SearchInv, SearchStep
<1> QED BY <1>1, <1>2, <1>3 DEF SearchInv

----------------------------------------------------------------------------
(***************************************************************************)
(* The relayer's loop.                                                     *)
(***************************************************************************)
\* A greater height may be stored when what it covers was delivered or cut.
LEMMA Advance ==
    ASSUME TypeOK, Delivered, NEW q \in Queries, NEW h \in Nat,
           lastHeight[q] # NotFound, lastHeight[q] <= h, SetLastQueryHeight(q, h),
           UNCHANGED <<status, base>>, cut \subseteq cut',
           \A t \in Match[q] :
              lastHeight[q] < TxHeight[t] /\ TxHeight[t] <= h =>
                 TxExists(<<q, t>>) \/ <<q, TxHeight[t]>> \in cut'
    PROVE  Delivered' /\ \A p \in Queries : lastHeight'[p] >= lastHeight[p]
<1>1. /\ lastHeight'[q] = h
      /\ \A p \in Queries : p # q => lastHeight'[p] = lastHeight[p]
      /\ \A p \in Queries : lastHeight[p] \in Int /\ base[p] \in Int
  BY DEF TypeOK, StorageTypeOK, SetLastQueryHeight, NotFound
<1>2. h # NotFound /\ base[q] # NotFound
  BY DEF NotFound, Delivered, HeightsKnown
<1>3. \A p \in Queries : lastHeight'[p] >= lastHeight[p]
  BY <1>1
<1>4. HeightsKnown'
  BY <1>1, <1>2, <1>3 DEF Delivered, HeightsKnown, TxExists
<1>5. NoTxSkipped'
  <2> SUFFICES ASSUME NEW p \in Queries, NEW t \in Match[p],
                      base[p] < TxHeight[t], TxHeight[t] <= lastHeight'[p]
               PROVE  TxExists(<<p, t>>) \/ <<p, TxHeight[t]>> \in cut'
    BY DEF NoTxSkipped, TxExists
  <2>1. TxHeight[t] \in Nat
    BY Constants
  <2>2. CASE TxHeight[t] <= lastHeight[p]
    BY <2>2 DEF Delivered, NoTxSkipped
  <2>3. CASE ~(TxHeight[t] <= lastHeight[p])
    BY <1>1, <2>1, <2>3
  <2> QED BY <2>2, <2>3
<1>6. RecordedInOrder'
  BY DEF Delivered, RecordedInOrder, TxExists
<1> QED BY <1>3, <1>4, <1>5, <1>6 DEF Delivered

\* What the search sent and the loop has neither before it nor in hand is
\* delivered.
LEMMA ReceivedDelivered ==
    ASSUME TypeOK, Delivered, Searched, rel.pc = "range", NEW u \in Match[rel.query],
           lastHeight[rel.query] < TxHeight[u], u <= search.cursor, u \notin search.chan
    PROVE  TxExists(<<rel.query, u>>)
<1>1. u \in Txs /\ TxHeight[u] \in Nat /\ search.query = rel.query
  BY Shapes, Constants DEF Searched, SearchFromStored
<1>2. u \in Asked
  BY <1>1, Shapes DEF Searched, SearchFromStored, Asked, NotFound
<1>3. u \notin ToCome
  BY <1>1, Shapes DEF ToCome, Txs
<1> QED BY <1>2, <1>3 DEF Searched, NoneLost, InHand

\* When a later block comes, what the block before it held is delivered.
LEMMA BlockDelivered ==
    ASSUME TypeOK, Delivered, Searched, rel.pc = "range", NEW t \in Txs,
           IsFirst(t, search.chan), TxHeight[t] > rel.last,
           NEW u \in Match[rel.query],
           lastHeight[rel.query] < TxHeight[u], TxHeight[u] <= rel.last
    PROVE  TxExists(<<rel.query, u>>)
<1>1. u \in Txs /\ TxHeight[u] \in Nat /\ TxHeight[t] \in Nat /\ rel.last \in Nat
  BY Constants, Shapes
<1>2. u < t
  BY <1>1, Constants DEF Txs
<1>3. u <= search.cursor
  BY <1>1, <1>2, Shapes DEF Searched, SentInOrder, IsFirst, Asked, ToCome, Txs
<1>4. u \notin search.chan
  BY <1>1, <1>2 DEF IsFirst, Txs
<1> QED BY <1>3, <1>4, ReceivedDelivered

\* When the search has ended, only a silent end leaves a rest, of one block.
LEMMA RestIsOfBlock ==
    ASSUME TypeOK, Delivered, Searched, rel.pc = "range",
           search.pc = "closed", search.chan = {}, rel.last > 0, ~search.err,
           NEW u \in Match[rel.query],
           lastHeight[rel.query] < TxHeight[u], TxHeight[u] <= rel.last
    PROVE  TxExists(<<rel.query, u>>) \/ (search.silent /\ TxHeight[u] = rel.last)
<1>1. u \in Txs /\ TxHeight[u] \in Nat
  BY Constants, Shapes
<1>2. CASE u <= search.cursor
  BY <1>2, ReceivedDelivered
<1>3. CASE ~(u <= search.cursor)
  <2>1. PICK r \in Asked \ ToCome : TxHeight[r] = rel.last
    BY DEF Searched, LastIsBehind
  <2>2. /\ search.from <= lastHeight[rel.query] /\ search.query = rel.query
        /\ lastHeight[rel.query] \in Nat /\ rel.last <= search.top
    BY Shapes DEF Searched, LastIsBehind, SearchFromStored, Delivered, HeightsKnown, NotFound
  <2>3. u \in ToCome
    <3>1. search.from \in Nat /\ search.cursor \in Nat
      BY Shapes
    <3>2. u \in Asked
      BY <1>1, <2>2, <3>1 DEF Asked
    <3> QED BY <1>1, <1>3, <3>1, <3>2 DEF ToCome, Txs
  <2>4. search.silent
    BY <1>1, <2>2, <2>3, Shapes DEF Searched, PageIsNext
  <2>5. r \in Txs /\ r <= u
    BY SMTT(30), <1>1, <1>3, <2>1, <2>2, Constants, Shapes DEF ToCome, Asked, Txs
  <2>6. TxHeight[u] = rel.last
    BY <1>1, <2>1, <2>5, Constants, Shapes
  <2> QED BY <2>4, <2>6
<1> QED BY <1>2, <1>3

LEMMA RecordHeight ==
    ASSUME TypeOK, Delivered, Searched, rel.pc = "range", NEW t \in Txs,
           IsFirst(t, search.chan), RecordHeightBefore(t), UNCHANGED <<status, base, cut>>
    PROVE  /\ Delivered'
           /\ \A q \in Queries : lastHeight'[q] >= lastHeight[q]
           /\ lastHeight'[rel.query] < TxHeight[t]
           /\ search.from <= lastHeight'[rel.query]
<1> USE DEF Searched
<1>1. t \in Asked \ ToCome /\ t \in search.chan /\ TxHeight[t] \in Nat
  BY Constants DEF SentInOrder, IsFirst
<1>2. /\ lastHeight[rel.query] \in Nat /\ search.from \in Nat /\ rel.query \in Queries
      /\ search.from <= lastHeight[rel.query] /\ search.query = rel.query
  BY Shapes DEF SearchFromStored, Delivered, HeightsKnown, NotFound
<1>3. CASE ~(TxHeight[t] > rel.last /\ rel.last > 0)
  <2>1. UNCHANGED lastHeight
    BY <1>3 DEF RecordHeightBefore
  <2>2. Delivered'
    BY <2>1, StatusKept, DeliveredFrame
  <2>3. lastHeight[rel.query] < TxHeight[t]
    <3>1. CASE rel.last = 0
      BY <1>1, <1>2, <3>1 DEF LastIsBehind, Asked
    <3>2. CASE rel.last > 0
      <4>1. PICK r \in Asked \ ToCome : TxHeight[r] = rel.last /\ \A s \in search.chan : r < s
        BY <3>2 DEF LastIsBehind
      <4>2. r \in Txs /\ r <= t
        BY <1>1, <1>2, <4>1, Constants DEF Asked, Txs
      <4>3. rel.last <= TxHeight[t]
        BY <4>1, <4>2, Constants
      <4> QED BY <1>1, <1>2, <3>2, <4>3, Shapes DEF LastIsBehind
    <3> QED BY <3>1, <3>2, Shapes
  <2> QED BY <1>2, <2>1, <2>2, <2>3, Shapes DEF NotFound
<1>4. CASE TxHeight[t] > rel.last /\ rel.last > 0
  <2>1. SetLastQueryHeight(rel.query, rel.last) /\ lastHeight[rel.query] < rel.last
    BY <1>4 DEF RecordHeightBefore, LastIsBehind
  <2>3. \A u \in Match[rel.query] :
           lastHeight[rel.query] < TxHeight[u] /\ TxHeight[u] <= rel.last =>
              TxExists(<<rel.query, u>>)
    BY <1>4, BlockDelivered
  <2>4. Delivered' /\ \A q \in Queries : lastHeight'[q] >= lastHeight[q]
    BY <1>2, <2>1, <2>3, Shapes, Advance DEF NotFound
  <2>5. lastHeight'[rel.query] = rel.last
    BY <1>2, <2>1 DEF SetLastQueryHeight, TypeOK, StorageTypeOK
  <2> QED BY <1>1, <1>2, <1>4, <2>1, <2>4, <2>5, Shapes
<1> QED BY <1>3, <1>4

LEMMA ReceiveStep ==
    ASSUME SearchInv, StatusInv', NEW t \in Txs, Receive(t)
    PROVE  SearchInv' /\ \A q \in Queries : lastHeight'[q] >= lastHeight[q]
<1>1. /\ TypeOK /\ Delivered /\ Searched /\ rel.pc = "range" /\ IsFirst(t, search.chan)
      /\ RecordHeightBefore(t) /\ UNCHANGED <<status, base, cut, chainHeight>>
  BY DEF SearchInv, StatusInv, Receive, Ranging, txStatusVars, historyVars
<1> USE <1>1 DEF Searched
<1>2. /\ Delivered' /\ \A q \in Queries : lastHeight'[q] >= lastHeight[q]
      /\ lastHeight'[rel.query] < TxHeight[t] /\ search.from <= lastHeight'[rel.query]
  BY RecordHeight
<1>3. /\ search'.query = search.query /\ search'.from = search.from
      /\ search'.cursor = search.cursor /\ search'.chan = search.chan \ {t}
      /\ search'.top = search.top /\ search'.page = search.page /\ search'.pc = search.pc
      /\ search'.more = search.more /\ search'.err = search.err
      /\ search'.silent = search.silent
  BY Shapes DEF Receive, SearchType
<1>4. /\ rel'.query = rel.query /\ rel'.last = TxHeight[t]
      /\ \/ rel'.pc = "range" /\ TxExists(<<rel.query, t>>)
         \/ rel'.pc = "process" /\ rel'.tx = t
  BY Shapes DEF Receive, RelType
<1>5. Asked' = Asked /\ ToCome' = ToCome
  BY <1>3 DEF Asked, ToCome
<1>6. t \in Asked \ ToCome /\ t \in search.chan /\ TxHeight[t] \in Nat /\ TxHeight[t] > 0
  BY Constants DEF SentInOrder, IsFirst
<1>7. \A u \in search.chan \ {t} : t < u
  BY Shapes DEF IsFirst, Txs
<1>8. SearchFromStored'
  BY <1>2, <1>3, <1>4 DEF SearchFromStored
<1>9. SentInOrder'
  BY <1>3, <1>4, <1>5, <1>6, <1>7 DEF SentInOrder, InHand
<1>10. NoneLost'
  BY <1>3, <1>4, <1>5 DEF NoneLost, InHand, TxExists
<1>11. PageIsNext'
  BY <1>3, <1>5 DEF PageIsNext
<1>12. LastIsBehind'
  <2>1. TxHeight[t] <= search.top
    BY <1>6 DEF SentInOrder
  <2> QED BY <1>2, <1>3, <1>4, <1>5, <1>6, <1>7, <2>1 DEF LastIsBehind, InHand
<1> QED BY <1>2, <1>8, <1>9, <1>10, <1>11, <1>12 DEF SearchInv

LEMMA ReceiveFailsStep ==
    ASSUME SearchInv, StatusInv', NEW t \in Txs, ReceiveFails(t)
    PROVE  SearchInv' /\ \A q \in Queries : lastHeight'[q] >= lastHeight[q]
<1>1. /\ TypeOK /\ Delivered /\ Searched /\ rel.pc = "range" /\ IsFirst(t, search.chan)
      /\ RecordHeightBefore(t) \/ UNCHANGED lastHeight
      /\ UNCHANGED <<status, base, cut>> /\ rel' = RelIdle
  BY DEF SearchInv, StatusInv, ReceiveFails, Abort, Ranging, txStatusVars, historyVars
<1>2. ~Ranging'
  BY <1>1 DEF Ranging, RelIdle
<1>3. CASE RecordHeightBefore(t)
  BY <1>1, <1>2, <1>3, RecordHeight DEF SearchInv
<1>4. CASE UNCHANGED lastHeight
  BY <1>1, <1>2, <1>4, EndFrame, Shapes DEF NotFound
<1> QED BY <1>1, <1>3, <1>4

\* The end of the task: after an orderly search everything up to the block
\* was delivered, after a silent one that block is the one that was cut.
LEMMA FinishStep ==
    ASSUME SearchInv, StatusInv', Finish
    PROVE  SearchInv' /\ \A q \in Queries : lastHeight'[q] >= lastHeight[q]
<1>1. /\ TypeOK /\ Delivered /\ Searched /\ rel.pc = "range"
      /\ search.pc = "closed" /\ search.chan = {} /\ UNCHANGED <<status, base>>
      /\ rel' = RelIdle
  BY DEF SearchInv, StatusInv, Finish, Abort, Ranging, txStatusVars
<1>2. ~Ranging'
  BY <1>1 DEF Ranging, RelIdle
<1>3. CASE ~(rel.last > 0 /\ ~search.err)
  BY <1>1, <1>2, <1>3, EndFrame, Shapes DEF Finish, NotFound
<1>4. CASE rel.last > 0 /\ ~search.err
  <2>1. /\ SetLastQueryHeight(rel.query, rel.last) /\ cut \subseteq cut'
        /\ search.silent => <<rel.query, rel.last>> \in cut'
    BY <1>4 DEF Finish
  <2>2. /\ lastHeight[rel.query] \in Nat /\ lastHeight[rel.query] # NotFound
        /\ lastHeight[rel.query] < rel.last /\ rel.last <= search.top
        /\ search.from <= lastHeight[rel.query] /\ search.query = rel.query
    BY <1>1, <1>4, Shapes DEF Searched, LastIsBehind, SearchFromStored, Delivered, HeightsKnown,
       NotFound
  <2>4. \A u \in Match[rel.query] :
           lastHeight[rel.query] < TxHeight[u] /\ TxHeight[u] <= rel.last =>
              TxExists(<<rel.query, u>>) \/ <<rel.query, TxHeight[u]>> \in cut'
    BY <1>1, <1>4, <2>1, RestIsOfBlock
  <2>5. Delivered' /\ \A q \in Queries : lastHeight'[q] >= lastHeight[q]
    BY <1>1, <2>1, <2>2, <2>4, Shapes, Advance
  <2> QED BY <1>2, <2>5 DEF SearchInv
<1> QED BY <1>3, <1>4

\* What comes before the transaction in hand was sent and received.
LEMMA EarlierDelivered ==
    ASSUME TypeOK, Delivered, Searched, InHand, NEW s \in Match[rel.query],
           lastHeight[rel.query] < TxHeight[s], s < rel.tx
    PROVE  TxExists(<<rel.query, s>>)
<1> USE DEF Searched
<1>1. /\ s \in Txs /\ TxHeight[s] \in Nat /\ search.cursor \in Nat /\ search.from \in Nat
      /\ search.query = rel.query /\ search.chan \subseteq Nat /\ rel.tx \in Nat
  BY SMTT(30), Constants, Shapes DEF SearchFromStored, Txs
<1>2. rel.tx \in Asked \ ToCome /\ \A t \in search.chan : rel.tx < t
  BY DEF SentInOrder
<1>3. s \in Asked
  BY <1>1, Shapes DEF Asked, SearchFromStored, NotFound
<1>4. s \notin ToCome
  BY <1>1, <1>2, <1>3 DEF ToCome, Txs
<1>5. s \notin search.chan /\ s # rel.tx
  BY <1>1, <1>2 DEF Txs
<1> QED BY <1>3, <1>4, <1>5 DEF NoneLost

LEMMA RelStoreRecords ==
    ASSUME TypeOK, RelKey \in Keys, RecordSubmission(RelKey, rel.seq, FALSE)
    PROVE  \A k \in Keys : TxExists(k)' <=> TxExists(k) \/ k = RelKey
<1>1. PICK st \in Statuses : status' = [status EXCEPT ![RelKey] = st]
  BY DEF RecordSubmission, SetTxStatus, Statuses
<1> QED BY <1>1 DEF TxExists, Statuses, Absent, TypeOK, StorageTypeOK

LEMMA RelStoreStep ==
    ASSUME SearchInv, StatusInv', RelStore
    PROVE  SearchInv'
<1>1. /\ TypeOK /\ Delivered /\ Searched /\ rel.pc = "store"
      /\ UNCHANGED <<lastHeight, base, cut, search, chainHeight>>
      /\ RecordSubmission(RelKey, rel.seq, FALSE)
  BY DEF SearchInv, StatusInv, RelStore, Ranging, historyVars, querierVars
<1> USE <1>1 DEF Searched
<1>2. /\ rel'.query = rel.query /\ rel'.last = rel.last /\ rel'.pc = "range"
  BY Shapes DEF RelStore, RelType
<1>3. /\ rel.tx \in Asked \ ToCome /\ \A t \in search.chan : rel.tx < t
      /\ search.query = rel.query /\ rel.query \in Queries
  BY Shapes DEF SentInOrder, InHand, SearchFromStored
<1>4. \A k \in Keys : TxExists(k)' <=> TxExists(k) \/ k = RelKey
  <2>1. RelKey \in Keys
    BY <1>3, Constants DEF RelKey, Keys, Asked
  <2> QED BY <2>1, RelStoreRecords
<1>5. \A q \in Queries : \A t \in Match[q] :
         TxExists(<<q, t>>)' <=> TxExists(<<q, t>>) \/ (q = rel.query /\ t = rel.tx)
  BY <1>3, <1>4, Constants DEF Keys, RelKey
<1>6. Asked' = Asked /\ ToCome' = ToCome
  BY <1>1 DEF Asked, ToCome
<1>7. HeightsKnown'
  BY <1>5, Shapes DEF Delivered, HeightsKnown, SearchFromStored
<1>8. NoTxSkipped'
  BY <1>5 DEF Delivered, NoTxSkipped
\* An earlier transaction is below the search, or it was sent and received.
<1>9. RecordedInOrder'
  <2>1. ASSUME NEW s \in Match[rel.query], base[rel.query] < TxHeight[s], s < rel.tx
        PROVE  TxExists(<<rel.query, s>>) \/ <<rel.query, TxHeight[s]>> \in cut
    <3>1. CASE TxHeight[s] <= lastHeight[rel.query]
      BY <1>3, <2>1, <3>1 DEF Delivered, NoTxSkipped
    <3>2. CASE lastHeight[rel.query] < TxHeight[s]
      BY <2>1, <3>2, EarlierDelivered DEF InHand
    <3>3. TxHeight[s] \in Nat /\ lastHeight[rel.query] \in Int
      BY <1>3, Constants, Shapes DEF NotFound
    <3> QED BY <3>1, <3>2, <3>3
  <2> QED BY <1>3, <1>5, <2>1 DEF Delivered, RecordedInOrder
<1>10. SearchFromStored'
  BY <1>2 DEF SearchFromStored
<1>11. SentInOrder'
  BY <1>2, <1>6 DEF SentInOrder, InHand
<1>12. NoneLost'
  BY <1>2, <1>3, <1>5, <1>6, Constants DEF NoneLost, InHand, Asked
<1>13. PageIsNext'
  BY <1>6 DEF PageIsNext
<1>14. LastIsBehind'
  BY <1>2, <1>6 DEF LastIsBehind, InHand
<1> QED
  BY <1>7, <1>8, <1>9, <1>10, <1>11, <1>12, <1>13, <1>14 DEF SearchInv, Delivered

LEMMA TakeTaskStep ==
    ASSUME SearchInv, StatusInv', NEW q \in Queries, TakeTask(q)
    PROVE  SearchInv' /\ \A p \in Queries : lastHeight'[p] >= lastHeight[p]
<1>1. /\ TypeOK /\ Delivered /\ UNCHANGED <<status, cut, chainHeight>>
      /\ SetLastQueryHeight(q, HeightOf(q))
      /\ base' = [base EXCEPT ![q] = IF lastHeight[q] = NotFound THEN HeightOf(q) ELSE @]
  BY DEF SearchInv, StatusInv, TakeTask, txStatusVars
<1>2. HeightOf(q) \in Nat /\ HeightOf(q) # NotFound
  BY <1>1, InitialHeightType, Shapes DEF HeightOf, NotFound
<1>3. /\ \A p \in Queries : lastHeight'[p] = IF p = q THEN HeightOf(q) ELSE lastHeight[p]
      /\ \A p \in Queries : base'[p] = IF p = q /\ lastHeight[q] = NotFound THEN HeightOf(q)
                                       ELSE base[p]
      /\ \A p \in Queries : lastHeight[p] \in Int /\ base[p] \in Int
  BY <1>1, Shapes DEF SetLastQueryHeight, TypeOK, StorageTypeOK, NotFound
<1>4. lastHeight[q] # NotFound => HeightOf(q) = lastHeight[q]
  BY DEF HeightOf
<1>5. \A p \in Queries : lastHeight'[p] >= lastHeight[p]
  BY <1>2, <1>3, <1>4 DEF NotFound
<1>6. HeightsKnown'
  BY <1>1, <1>2, <1>3, <1>4 DEF Delivered, HeightsKnown, TxExists
<1>7. NoTxSkipped'
  <2> SUFFICES ASSUME NEW p \in Queries, NEW t \in Match[p],
                      base'[p] < TxHeight[t], TxHeight[t] <= lastHeight'[p]
               PROVE  TxExists(<<p, t>>) \/ <<p, TxHeight[t]>> \in cut
    BY <1>1 DEF NoTxSkipped, TxExists
  <2>1. TxHeight[t] \in Nat
    BY Constants
  <2>2. ~(p = q /\ lastHeight[q] = NotFound)
    BY <1>2, <1>3, <2>1
  <2>3. base'[p] = base[p] /\ lastHeight'[p] = lastHeight[p]
    BY <1>3, <1>4, <2>2
  <2> QED BY <1>1, <2>3 DEF Delivered, NoTxSkipped
<1>8. RecordedInOrder'
  <2> SUFFICES ASSUME NEW p \in Queries, NEW s \in Match[p], NEW t \in Match[p],
                      base'[p] < TxHeight[s], s < t, TxExists(<<p, t>>)
               PROVE  TxExists(<<p, s>>) \/ <<p, TxHeight[s]>> \in cut
    BY <1>1 DEF RecordedInOrder, TxExists
  <2>1. lastHeight[p] # NotFound
    BY <1>1 DEF Delivered, HeightsKnown
  <2>2. base'[p] = base[p]
    BY <1>3, <2>1
  <2> QED BY <1>1, <2>2 DEF Delivered, RecordedInOrder
<1>9. Ranging' => Searched'
  <2> SUFFICES ASSUME Ranging' PROVE Searched'
    OBVIOUS
  <2>1. rel.pc = "idle"
    BY DEF TakeTask
  <2>2. /\ rel' = [RelIdle EXCEPT !.pc = "range", !.query = q]
        /\ SearchTransactions(q, HeightOf(q))
    BY <2>1 DEF TakeTask, Ranging
  <2>3. rel'.query = q /\ rel'.last = 0 /\ rel'.pc = "range"
    BY <2>2 DEF RelIdle
  <2>4. /\ search'.query = q /\ search'.from = HeightOf(q) /\ search'.top = 0
        /\ search'.cursor = 0 /\ search'.chan = {} /\ search'.page = {}
        /\ search'.pc = "page"
    BY <2>2 DEF SearchTransactions, NoSearch
  <2>5. \A t \in Match[q] : t > 0
    BY Constants DEF Txs
  <2>6. Asked' \ ToCome' = {}
    BY <2>4, <2>5 DEF Asked, ToCome
  <2>7. SearchFromStored'
    <3>1. base'[q] # NotFound /\ base'[q] <= HeightOf(q)
      BY <1>1, <1>2, <1>3, <1>4 DEF Delivered, HeightsKnown
    <3> QED BY <1>1, <1>2, <1>3, <2>3, <2>4, <3>1, Shapes DEF SearchFromStored
  <2>8. SentInOrder' /\ NoneLost'
    BY <2>3, <2>4, <2>6 DEF SentInOrder, NoneLost, InHand
  <2>9. PageIsNext'
    BY <2>4 DEF PageIsNext
  <2>10. LastIsBehind'
    BY <1>3, <2>3, <2>4 DEF LastIsBehind, InHand
  <2> QED BY <2>7, <2>8, <2>9, <2>10 DEF Searched
<1> QED BY <1>5, <1>6, <1>7, <1>8, <1>9 DEF SearchInv, Delivered

\* A send keeps what is in hand; the other steps of the loop end the task.
LEMMA LoopStep ==
    ASSUME SearchInv, StatusInv',
           \/ RelHeaderFails \/ RelSendAccepted \/ RelSendIgnored \/ RelSendCritical
           \/ RelStoreFails \/ FinishFails \/ RelStop
    PROVE  SearchInv' /\ UNCHANGED lastHeight
<1> USE DEF OthersIdle, storageVars, historyVars, Abort, querierVars
<1>1. TypeOK
  BY DEF SearchInv, StatusInv
<1>2. CASE RelSendAccepted \/ RelSendIgnored
  <2>1. /\ UNCHANGED <<status, lastHeight, base, cut, search, chainHeight>>
        /\ rel.pc = "process" /\ rel'.pc = "store" /\ rel'.query = rel.query
        /\ rel'.last = rel.last /\ rel'.tx = rel.tx
    BY <1>1, <1>2, Shapes DEF RelSendAccepted, RelSendIgnored, RelType
  <2>2. Delivered' /\ Searched
    BY <2>1, StatusKept, DeliveredFrame DEF SearchInv, Ranging
  <2>3. Searched'
    BY <2>1, <2>2
    DEF Searched, SearchFromStored, SentInOrder, NoneLost, PageIsNext, LastIsBehind, Asked,
        ToCome, InHand, TxExists
  <2> QED BY <2>1, <2>2, <2>3 DEF SearchInv
<1>3. CASE RelHeaderFails \/ RelSendCritical \/ RelStoreFails \/ FinishFails \/ RelStop
  <2>1. UNCHANGED <<status, lastHeight, base, cut>>
    BY <1>3 DEF RelHeaderFails, RelSendCritical, RelStoreFails, FinishFails, RelStop
  <2>2. rel'.pc \in {"idle", "done"}
    BY <1>1, <1>3, Shapes
    DEF RelHeaderFails, RelSendCritical, RelStoreFails, FinishFails, RelStop, RelIdle, RelType
  <2> QED BY <2>1, <2>2, EndFrame DEF Ranging
<1> QED BY <1>2, <1>3

----------------------------------------------------------------------------
(***************************************************************************)
(* The others.                                                             *)
(***************************************************************************)
\* Handlers and the checker write only records that exist.
LEMMA WritesKeepRecords ==
    ASSUME TypeOK, NEW k \in Keys, TxExists(k), NEW nh, NEW st \in Statuses, NEW processed,
           SetTxStatus(k, nh, st, processed)
    PROVE  SameRecords
<1>1. status' = [status EXCEPT ![k] = st] /\ st # Absent
  BY DEF SetTxStatus, Statuses, Absent
<1>2. \A j \in Keys : TxExists(j)' <=> TxExists(j)
  BY <1>1 DEF TxExists, TypeOK, StorageTypeOK
<1> QED BY <1>2 DEF SameRecords

LEMMA HandlerStep ==
    ASSUME SearchInv, StatusInv', NEW h \in Handlers,
           HttpStep(h) \/ \E k \in Keys : Resubmit(h, k)
    PROVE  SearchInv' /\ SameRecords /\ UNCHANGED lastHeight
<1> USE DEF HttpUnchanged, historyVars, querierVars, txStatusVars
<1>1. TypeOK
  BY DEF SearchInv, StatusInv
<1>2. UNCHANGED <<lastHeight, base, cut, rel, search, chainHeight>>
  BY DEF HttpStep, Resubmit, HttpSendAccepted, HttpSendIgnored, HttpSendFails, HttpStore,
         HttpStoreFails
<1>3. SameRecords
  <2>1. CASE HttpStore(h)
    <3>1. http[h].key \in Keys /\ TxExists(http[h].key)
      BY <2>1 DEF SearchInv, StatusInv, RecordsKnown, TypeOK, HttpType, HttpStore
    <3>2. PICK st \in Statuses :
             SetTxStatus(http[h].key, [key |-> http[h].key, seq |-> http[h].seq], st, TRUE)
      BY <2>1 DEF HttpStore, RecordSubmission, Statuses
    <3> QED BY <1>1, <3>1, <3>2, WritesKeepRecords
  <2>2. CASE ~HttpStore(h)
    BY <2>2, StatusKept
    DEF HttpStep, Resubmit, HttpSendAccepted, HttpSendIgnored, HttpSendFails, HttpStoreFails
  <2> QED BY <2>1, <2>2
<1> QED BY <1>1, <1>2, <1>3, OutsideFrame, Shapes

LEMMA CheckerStep ==
    ASSUME SearchInv, StatusInv', ChkStep \/ \E d \in delayed : DelayedCancelled(d)
    PROVE  SearchInv' /\ SameRecords /\ UNCHANGED lastHeight
<1> USE DEF ChkUnchanged, storageVars, historyVars, querierVars, txStatusVars
<1>1. TypeOK
  BY DEF SearchInv, StatusInv
<1>2. UNCHANGED <<lastHeight, base, cut, rel, search, chainHeight>>
  BY DEF ChkStep, ChkReadPending, ChkReadPendingFails, ChkNext, ChkReceive, ChkFound,
         ChkAttemptFails, ChkUpdate, ChkUpdateFails, ChkStop, DelayedCancelled
<1>3. SameRecords
  <2>1. CASE ChkUpdate
    <3>1. /\ chk.cur.key \in Keys /\ TxExists(chk.cur.key) /\ chk.code \in Statuses
          /\ SetTxStatus(chk.cur.key, chk.cur, chk.code, FALSE)
      BY <2>1
      DEF SearchInv, StatusInv, RecordsKnown, TypeOK, ChkType, NeutronHash, ChkUpdate, Statuses
    <3> QED BY <1>1, <3>1, WritesKeepRecords
  <2>2. CASE ~ChkUpdate
    BY <2>2, StatusKept
    DEF ChkStep, ChkReadPending, ChkReadPendingFails, ChkNext, ChkReceive, ChkFound,
        ChkAttemptFails, ChkUpdateFails, ChkStop, DelayedCancelled
  <2> QED BY <2>1, <2>2
<1> QED BY <1>1, <1>2, <1>3, OutsideFrame, Shapes

LEMMA ProcessStep ==
    ASSUME SearchInv, StatusInv', Cancel \/ Exit \/ Crash \/ Start
    PROVE  SearchInv' /\ UNCHANGED lastHeight
<1>1. TypeOK /\ UNCHANGED <<status, lastHeight, base, cut, chainHeight>>
  BY DEF SearchInv, StatusInv, Cancel, Exit, Crash, Start, ProcUnchanged, storageVars
<1>2. CASE Cancel \/ Start
  BY <1>1, <1>2, StatusKept, OutsideFrame, Shapes DEF Cancel, Start
<1>3. CASE Exit \/ Crash
  BY <1>1, <1>3, EndFrame DEF Exit, Crash, LoseMemory, RelIdle, Ranging
<1> QED BY <1>2, <1>3

LEMMA ChainsStep ==
    ASSUME SearchInv, StatusInv', ChainStep \/ UNCHANGED vars
    PROVE  SearchInv' /\ UNCHANGED lastHeight
<1>1. TypeOK /\ UNCHANGED <<status, lastHeight, base, cut, rel, search>>
  BY DEF SearchInv, StatusInv, ChainStep, TargetBlock, NeutronExecutes, NeutronDrops,
         ChainsOnly, vars, storageVars, historyVars, querierVars
<1>2. chainHeight' \in Nat /\ chainHeight' >= chainHeight
  BY <1>1, Shapes
  DEF ChainStep, TargetBlock, NewBlock, NeutronExecutes, NeutronDrops, vars, querierVars
<1> QED BY <1>1, <1>2, StatusKept, OutsideFrame

LEMMA SearchInvStep ==
    ASSUME SearchInv, [Next]_vars
    PROVE  SearchInv' /\ \A q \in Queries : lastHeight'[q] >= lastHeight[q]
<1>1. StatusInv' /\ TypeOK
  BY StatusStep DEF SearchInv, StatusInv
<1>2. ASSUME UNCHANGED lastHeight PROVE \A q \in Queries : lastHeight'[q] >= lastHeight[q]
  BY <1>1, <1>2, Shapes DEF NotFound
<1>3. CASE \E q \in Queries : TakeTask(q)
  BY <1>1, <1>3, TakeTaskStep
<1>4. CASE SearchStep
  BY <1>1, <1>2, <1>4, SearchStepInv DEF SearchStep, storageVars
<1>5. CASE RelStep
  <2>1. CASE \E t \in Txs : Receive(t) \/ ReceiveFails(t)
    BY <1>1, <2>1, ReceiveStep, ReceiveFailsStep
  <2>2. CASE Finish
    BY <1>1, <2>2, FinishStep
  <2>3. CASE RelStore
    BY <1>1, <1>2, <2>3, RelStoreStep DEF RelStore
  <2>4. CASE \/ RelHeaderFails \/ RelSendAccepted \/ RelSendIgnored \/ RelSendCritical
             \/ RelStoreFails \/ FinishFails \/ RelStop
    BY <1>1, <1>2, <2>4, LoopStep
  <2> QED BY <1>5, <2>1, <2>2, <2>3, <2>4 DEF RelStep
<1>6. CASE \E h \in Handlers : HttpStep(h) \/ \E k \in Keys : Resubmit(h, k)
  BY <1>1, <1>2, <1>6, HandlerStep
<1>7. CASE ChkStep \/ \E d \in delayed : DelayedCancelled(d)
  BY <1>1, <1>2, <1>7, CheckerStep
<1>8. CASE Cancel \/ Exit \/ Crash \/ Start
  BY <1>1, <1>2, <1>8, ProcessStep
<1>9. CASE ChainStep \/ UNCHANGED vars
  BY <1>1, <1>2, <1>9, ChainsStep
<1> QED BY <1>3, <1>4, <1>5, <1>6, <1>7, <1>8, <1>9 DEF Next

----------------------------------------------------------------------------
\* The strengthening is an invariant of the specification.
THEOREM SearchCorrect == Spec => []SearchInv
<1>1. Init => SearchInv
  BY StatusInit, DeliveredInit DEF SearchInv
<1>2. SearchInv /\ [Next]_vars => SearchInv'
  BY SearchInvStep
<1> QED BY <1>1, <1>2, PTL DEF Spec

\* Whatever fails and wherever the process is killed, the stored height of a
\* query passes no transaction of its filter that has no record, but in a
\* block that was cut by a signal.
THEOREM NoTxSkippedCorrect == Spec => []NoTxSkipped
<1>1. SearchInv => NoTxSkipped
  BY DEF SearchInv, Delivered
<1> QED BY <1>1, SearchCorrect, PTL

\* The transactions of a query get their records in the order of the chain.
THEOREM OrderCorrect == Spec => []RecordedInOrder
<1>1. SearchInv => RecordedInOrder
  BY DEF SearchInv, Delivered
<1> QED BY <1>1, SearchCorrect, PTL

\* No step takes a stored height back.
THEOREM HeightsCorrect == Spec => HeightsGrow
<1>1. SearchInv /\ [Next]_vars => [\A q \in Queries : lastHeight'[q] >= lastHeight[q]]_vars
  BY SearchInvStep
<1> QED BY <1>1, SearchCorrect, PTL DEF Spec, HeightsGrow

----------------------------------------------------------------------------
(***************************************************************************)
(* The goroutines of TxPipeline together implement the delivery that a     *)
(* query is promised (module Delivery).                                    *)
(***************************************************************************)
DeliveryStep == [Promise!Next]_(Promise!vars)

\* Only a process that is told to stop ends a search without an error.
SilentWhenStopped == Ranging /\ search.silent => Cancelled

DeliveryInv == SearchInv /\ SilentWhenStopped

----------------------------------------------------------------------------
LEMMA SilentStep ==
    ASSUME SearchInv, SilentWhenStopped, [Next]_vars
    PROVE  SilentWhenStopped'
<1> USE DEF SilentWhenStopped, Ranging, Cancelled, querierVars
<1>1. TypeOK
  BY DEF SearchInv, StatusInv
<1>2. CASE \E q \in Queries : TakeTask(q)
  BY <1>2 DEF TakeTask, SearchTransactions, NoSearch
<1>3. CASE SearchStep
  <2>1. UNCHANGED <<rel, proc>>
    BY <1>3 DEF SearchStep
  <2>2. CASE SendCancelled /\ Cancelled
    BY <2>1, <2>2
  <2>3. CASE TxSearch \/ ProofDelivery \/ SearchFails \/ \E t \in Txs : SendTx(t)
    BY <1>1, <2>1, <2>3, Shapes DEF TxSearch, ProofDelivery, SearchFails, SendTx, SearchType
  <2> QED BY <1>3, <2>2, <2>3 DEF SearchStep
<1>4. CASE RelStep
  <2>1. CASE \E t \in Txs : Receive(t)
    BY <1>1, <2>1, Shapes DEF Receive, SearchType
  <2>2. CASE RelSendAccepted \/ RelSendIgnored \/ RelStore
    BY <2>2 DEF RelSendAccepted, RelSendIgnored, RelStore
  <2>3. CASE \/ \E t \in Txs : ReceiveFails(t)
             \/ RelHeaderFails \/ RelStoreFails \/ Finish \/ FinishFails
    <3>1. rel' = RelIdle
      BY <2>3 DEF ReceiveFails, RelHeaderFails, RelStoreFails, Finish, FinishFails, Abort
    <3> QED BY <3>1 DEF RelIdle
  <2>4. CASE RelSendCritical
    BY <2>4 DEF RelSendCritical
  <2>5. CASE RelStop
    BY <1>1, <2>5, Shapes DEF RelStop, RelType
  <2> QED BY <1>4, <2>1, <2>2, <2>3, <2>4, <2>5 DEF RelStep
<1>5. CASE \E h \in Handlers : HttpStep(h) \/ \E k \in Keys : Resubmit(h, k)
  BY <1>5
  DEF HttpStep, Resubmit, HttpSendAccepted, HttpSendIgnored, HttpSendFails, HttpStore,
      HttpStoreFails, HttpUnchanged
<1>6. CASE ChkStep \/ \E d \in delayed : DelayedCancelled(d)
  BY <1>6
  DEF ChkStep, ChkReadPending, ChkReadPendingFails, ChkNext, ChkReceive, ChkFound,
      ChkAttemptFails, ChkUpdate, ChkUpdateFails, ChkStop, DelayedCancelled, ChkUnchanged
<1>7. CASE Cancel \/ Exit \/ Crash \/ Start
  BY <1>7 DEF Cancel, Exit, Crash, Start, LoseMemory, RelIdle
<1>8. CASE ChainStep \/ UNCHANGED vars
  BY <1>8 DEF ChainStep, TargetBlock, NewBlock, NeutronExecutes, NeutronDrops, ChainsOnly, vars
<1> QED BY <1>2, <1>3, <1>4, <1>5, <1>6, <1>7, <1>8 DEF Next

----------------------------------------------------------------------------
(***************************************************************************)
(* Steps of the promise.                                                   *)
(***************************************************************************)
LEMMA RecordedKept == SameRecords => UNCHANGED Recorded
BY DEF SameRecords, Recorded

\* A step that neither records nor moves a height.
LEMMA NothingDelivered ==
    ASSUME SameRecords, UNCHANGED lastHeight
    PROVE  DeliveryStep
<1>1. UNCHANGED Recorded
  BY RecordedKept
<1>2. UNCHANGED Cancelled \/ Cancelled' = ~Cancelled
  BY DEF Cancelled
<1> QED BY <1>1, <1>2 DEF DeliveryStep, Promise!Next, Promise!StopOrStart, Promise!vars

\* A height moves to the block of a recorded transaction.
LEMMA HeightMoves ==
    ASSUME TypeOK, NEW q \in Queries, lastHeight[q] # NotFound, NEW r \in Match[q],
           lastHeight[q] < TxHeight[r], TxExists(<<q, r>>),
           SetLastQueryHeight(q, TxHeight[r]), UNCHANGED <<status, proc>>,
           \A u \in Match[q] :
              lastHeight[q] < TxHeight[u] /\ TxHeight[u] <= TxHeight[r] =>
                 TxExists(<<q, u>>) \/ (Cancelled /\ TxHeight[u] = TxHeight[r])
    PROVE  DeliveryStep
<1>1. Match[q] \subseteq Txs /\ \A u \in Match[q] : TxHeight[u] \in Nat /\ <<q, u>> \in Keys
  BY Constants DEF Keys
<1>2. lastHeight[q] \in Nat
  BY Shapes
<1>3. /\ r \in Promise!Above(q) /\ Promise!Above(q) \subseteq Match[q]
      /\ \A s \in Promise!Above(q) : lastHeight[q] < TxHeight[s]
  BY <1>1, <1>2 DEF Promise!Above
<1>4. <<q, r>> \in Recorded
  BY <1>1 DEF Recorded
<1>5. \A s \in Promise!Above(q) :
         /\ TxHeight[s] < TxHeight[r] => <<q, s>> \in Recorded
         /\ TxHeight[s] = TxHeight[r] => <<q, s>> \in Recorded \/ Cancelled
  BY <1>1, <1>3 DEF Recorded
<1>6. lastHeight' = [lastHeight EXCEPT ![q] = TxHeight[r]]
  BY DEF SetLastQueryHeight
<1>7. UNCHANGED <<Recorded, Cancelled>>
  BY DEF Recorded, TxExists, Cancelled
<1>8. Promise!Move(q)
  BY <1>3, <1>4, <1>5, <1>6, <1>7 DEF Promise!Move, Promise!NotFound, NotFound
<1> QED BY <1>8 DEF DeliveryStep, Promise!Next

\* The first transaction of a block moves the height to the block before.
LEMMA BlockBeforeMoves ==
    ASSUME SearchInv, rel.pc = "range", NEW t \in Txs, IsFirst(t, search.chan),
           RecordHeightBefore(t), UNCHANGED <<status, proc>>
    PROVE  DeliveryStep
<1>1. TypeOK /\ Delivered /\ Searched
  BY DEF SearchInv, StatusInv, Ranging
<1>2. rel.query \in Queries /\ lastHeight[rel.query] \in Nat /\ rel.last \in Nat
  BY <1>1, Shapes DEF Searched, SearchFromStored, Delivered, HeightsKnown, NotFound
<1>3. CASE ~(TxHeight[t] > rel.last /\ rel.last > 0)
  BY <1>3, StatusKept, NothingDelivered DEF RecordHeightBefore
<1>4. CASE TxHeight[t] > rel.last /\ rel.last > 0
  <2>1. SetLastQueryHeight(rel.query, rel.last) /\ lastHeight[rel.query] < rel.last
    BY <1>1, <1>4 DEF RecordHeightBefore, Searched, LastIsBehind
  <2>2. PICK r \in Asked \ ToCome : TxHeight[r] = rel.last
    BY <1>1, <1>4 DEF Searched, LastIsBehind
  <2>3. r \in Match[rel.query]
    BY <1>1, <2>2 DEF Asked, Searched, SearchFromStored
  <2>4. \A u \in Match[rel.query] :
           lastHeight[rel.query] < TxHeight[u] /\ TxHeight[u] <= rel.last =>
              TxExists(<<rel.query, u>>)
    BY <1>1, <1>4, BlockDelivered
  <2>5. TxExists(<<rel.query, r>>)
    BY <1>2, <2>1, <2>2, <2>3, <2>4
  <2> QED BY <1>1, <1>2, <2>1, <2>2, <2>3, <2>4, <2>5, HeightMoves DEF NotFound
<1> QED BY <1>3, <1>4

LEMMA FinishMoves ==
    ASSUME DeliveryInv, Finish
    PROVE  DeliveryStep
<1>1. /\ TypeOK /\ Delivered /\ Searched /\ rel.pc = "range"
      /\ search.pc = "closed" /\ search.chan = {} /\ UNCHANGED <<status, proc>>
  BY DEF DeliveryInv, SearchInv, StatusInv, Finish, Ranging, txStatusVars
<1>2. rel.query \in Queries /\ lastHeight[rel.query] \in Nat /\ rel.last \in Nat
  BY <1>1, Shapes DEF Searched, SearchFromStored, Delivered, HeightsKnown, NotFound
<1>3. CASE ~(rel.last > 0 /\ ~search.err)
  BY <1>1, <1>3, StatusKept, NothingDelivered DEF Finish
<1>4. CASE rel.last > 0 /\ ~search.err
  <2>1. SetLastQueryHeight(rel.query, rel.last) /\ lastHeight[rel.query] < rel.last
    BY <1>1, <1>4 DEF Finish, Searched, LastIsBehind
  <2>2. PICK r \in Asked \ ToCome : TxHeight[r] = rel.last
    BY <1>1, <1>4 DEF Searched, LastIsBehind
  <2>3. r \in Match[rel.query]
    BY <1>1, <2>2 DEF Asked, Searched, SearchFromStored
  <2>4. TxExists(<<rel.query, r>>)
    BY <1>1, <2>2 DEF Searched, NoneLost, InHand
  <2>5. search.silent => Cancelled
    BY <1>1 DEF DeliveryInv, SilentWhenStopped, Ranging
  <2>6. \A u \in Match[rel.query] :
           lastHeight[rel.query] < TxHeight[u] /\ TxHeight[u] <= rel.last =>
              TxExists(<<rel.query, u>>) \/ (Cancelled /\ TxHeight[u] = rel.last)
    BY <1>1, <1>4, <2>5, RestIsOfBlock
  <2> QED BY <1>1, <1>2, <2>1, <2>2, <2>3, <2>4, <2>6, HeightMoves DEF NotFound
<1> QED BY <1>3, <1>4

\* The transaction in hand is the first one without a record.
LEMMA StoreRecords ==
    ASSUME SearchInv, RelStore
    PROVE  DeliveryStep
<1>1. /\ TypeOK /\ Delivered /\ Searched /\ InHand /\ ClaimIsFresh /\ rel.pc = "store"
      /\ UNCHANGED <<lastHeight, proc>> /\ RecordSubmission(RelKey, rel.seq, FALSE)
  BY DEF SearchInv, StatusInv, RelStore, Ranging, InHand
<1>2. /\ rel.query \in Queries /\ rel.tx \in Match[rel.query] /\ rel.tx \in Txs
      /\ lastHeight[rel.query] \in Nat /\ rel.last \in Nat
      /\ TxHeight[rel.tx] = rel.last /\ TxHeight[rel.tx] > 0
  BY <1>1, Shapes, Constants
  DEF Searched, SearchFromStored, SentInOrder, LastIsBehind, Asked, Delivered, HeightsKnown,
      NotFound
<1>3. rel.tx \in Promise!Above(rel.query)
  BY <1>1, <1>2 DEF Searched, LastIsBehind, Promise!Above
<1>4. RelKey \in Keys /\ RelKey \notin Recorded
  BY <1>1, <1>2 DEF RelKey, Keys, Recorded, ClaimIsFresh
<1>5. \A s \in Promise!Above(rel.query) : s < rel.tx => <<rel.query, s>> \in Recorded
  <2>1. \A s \in Promise!Above(rel.query) :
           s \in Match[rel.query] /\ lastHeight[rel.query] < TxHeight[s]
    BY <1>2, Constants DEF Promise!Above
  <2>2. \A s \in Match[rel.query] : <<rel.query, s>> \in Keys
    BY <1>2, Constants DEF Keys
  <2> QED BY <1>1, <2>1, <2>2, EarlierDelivered DEF Recorded
<1>6. Recorded' = Recorded \cup {RelKey}
  BY <1>1, <1>4, RelStoreRecords DEF Recorded
<1>7. Promise!Record(rel.query)
  BY <1>1, <1>2, <1>3, <1>4, <1>5, <1>6
  DEF Promise!Record, Promise!NotFound, NotFound, RelKey, Cancelled
<1> QED BY <1>2, <1>7 DEF DeliveryStep, Promise!Next

\* The first task of a query gives it a height.
LEMMA TaskBegins ==
    ASSUME TypeOK, NEW q \in Queries, TakeTask(q)
    PROVE  DeliveryStep
<1>1. /\ SetLastQueryHeight(q, HeightOf(q)) /\ UNCHANGED <<status, proc>>
      /\ lastHeight \in [Queries -> Nat \cup {NotFound}]
  BY DEF TakeTask, txStatusVars, TypeOK, StorageTypeOK
<1>2. CASE lastHeight[q] # NotFound
  BY <1>1, <1>2, StatusKept, NothingDelivered DEF HeightOf, SetLastQueryHeight
<1>3. CASE lastHeight[q] = NotFound
  <2>1. HeightOf(q) \in 0 .. MaxHeight
    BY <1>3, PipelineAssumption, QuerierAssumption DEF HeightOf, InitialHeight, TypeOK, QuerierTypeOK
  <2>2. UNCHANGED <<Recorded, Cancelled>>
    BY <1>1 DEF Recorded, TxExists, Cancelled
  <2>3. Promise!Begin(q)
    BY <1>1, <1>3, <2>1, <2>2 DEF SetLastQueryHeight, Promise!Begin, Promise!NotFound, NotFound
  <2> QED BY <2>3 DEF DeliveryStep, Promise!Next
<1> QED BY <1>2, <1>3

LEMMA EveryStepDelivers ==
    ASSUME DeliveryInv, [Next]_vars
    PROVE  DeliveryStep
<1>1. SearchInv /\ TypeOK /\ StatusInv'
  BY StatusStep DEF DeliveryInv, SearchInv, StatusInv
<1>2. CASE \E q \in Queries : TakeTask(q)
  BY <1>1, <1>2, TaskBegins
<1>3. CASE SearchStep
  BY <1>3, StatusKept, NothingDelivered DEF SearchStep, storageVars
<1>4. CASE RelStep
  <2>1. CASE \E t \in Txs : Receive(t) \/ ReceiveFails(t)
    BY <1>1, <2>1, BlockBeforeMoves, StatusKept, NothingDelivered
    DEF Receive, ReceiveFails, txStatusVars
  <2>2. CASE Finish
    BY <2>2, FinishMoves
  <2>3. CASE RelStore
    BY <1>1, <2>3, StoreRecords
  <2>4. CASE \/ RelHeaderFails \/ RelSendAccepted \/ RelSendIgnored \/ RelSendCritical
             \/ RelStoreFails \/ FinishFails \/ RelStop
    BY <2>4, StatusKept, NothingDelivered
    DEF RelHeaderFails, RelSendAccepted, RelSendIgnored, RelSendCritical, RelStoreFails,
        FinishFails, RelStop, storageVars
  <2> QED BY <1>4, <2>1, <2>2, <2>3, <2>4 DEF RelStep
<1>5. CASE \E h \in Handlers : HttpStep(h) \/ \E k \in Keys : Resubmit(h, k)
  BY <1>1, <1>5, HandlerStep, NothingDelivered
<1>6. CASE ChkStep \/ \E d \in delayed : DelayedCancelled(d)
  BY <1>1, <1>6, CheckerStep, NothingDelivered
<1>7. CASE Cancel \/ Exit \/ Crash \/ Start
  BY <1>7, StatusKept, NothingDelivered DEF Cancel, Exit, Crash, Start, ProcUnchanged, storageVars
<1>8. CASE ChainStep \/ UNCHANGED vars
  BY <1>8, StatusKept, NothingDelivered
  DEF ChainStep, TargetBlock, NeutronExecutes, NeutronDrops, ChainsOnly, vars, storageVars
<1> QED BY <1>2, <1>3, <1>4, <1>5, <1>6, <1>7, <1>8 DEF Next

----------------------------------------------------------------------------
\* The loop, its search, the checker, the handlers and the restarts together
\* keep the promise of module Delivery to every query: records one by one in
\* the order of the chain, and a height that moves over recorded ones only.
THEOREM PromiseKept == Spec => KeepsPromise
<1>1. Init => Promise!Init
  BY DEF Init, StorageInit, Promise!Init, Promise!NotFound, NotFound, Recorded, TxExists,
         Cancelled
<1>2. Init => DeliveryInv
  BY StatusInit, DeliveredInit DEF DeliveryInv, SearchInv, SilentWhenStopped
<1>3. DeliveryInv /\ [Next]_vars => DeliveryInv'
  BY SearchInvStep, SilentStep DEF DeliveryInv
<1>4. DeliveryInv /\ [Next]_vars => [Promise!Next]_(Promise!vars)
  BY EveryStepDelivers DEF DeliveryStep
<1> QED BY <1>1, <1>2, <1>3, <1>4, PTL DEF Spec, KeepsPromise, Promise!Spec

----------------------------------------------------------------------------
(***************************************************************************)
(* The loop and its search never wait for each other.  The search writes   *)
(* to a channel of TxsChanSize and the loop reads it: whatever the page    *)
(* and the channel hold, one of the two can go on.                         *)
(***************************************************************************)
\* There is a search as long as the loop ranges over its channel; it has a
\* transaction to prove or to send; and the channel is never overfull.
SearchWorks ==
    /\ Ranging <=> search.pc # "off"
    /\ search.pc \in {"prove", "send"} => search.page # {}
    /\ IsFiniteSet(search.chan) /\ Cardinality(search.chan) <= TxsChanSize

\* The guards of the loop, and of its search; a call that answers or fails
\* goes on either way.
LoopGoesOn ==
    \/ rel.pc \in {"process", "store"}
    \/ rel.pc = "range" /\ \E t \in Txs : IsFirst(t, search.chan)
    \/ rel.pc = "range" /\ search.pc = "closed" /\ search.chan = {}

SearchGoesOn ==
    \/ search.pc \in {"page", "prove"}
    \/ /\ search.pc = "send" /\ Cardinality(search.chan) < TxsChanSize
       /\ \E t \in Txs : IsFirst(t, search.page)

LEMMA FirstTx ==
    ASSUME NEW S \in SUBSET Txs, S # {}
    PROVE  \E t \in Txs : IsFirst(t, S)
<1>1. S \subseteq Nat
  BY Constants
<1>2. IsWellFoundedOn(OpToRel(<, Nat), Nat)
  BY NatLessThanWellFounded
<1>3. PICK t \in S : \A u \in S : <<u, t>> \notin OpToRel(<, Nat)
  BY <1>1, <1>2, WFMin
<1>4. \A u \in S : u \in Nat /\ t \in Nat /\ ~(u < t)
  BY <1>1, <1>3 DEF OpToRel
<1>5. \A u \in S : t <= u
  BY <1>4
<1> QED BY <1>5 DEF IsFirst

\* A page of a result that is not empty is not empty.
LEMMA PageNotEmpty ==
    ASSUME NEW rest \in SUBSET Txs, rest # {}
    PROVE  Page(rest) # {}
<1>1. PICK t \in Txs : IsFirst(t, rest)
  BY FirstTx
<1>2. {u \in rest : u < t} = {}
  <2>1. \A u \in rest : u \in Nat /\ t \in Nat /\ t <= u
    BY <1>1, Constants DEF IsFirst
  <2>2. \A u \in rest : ~(u < t)
    BY <2>1
  <2> QED BY <2>2
<1>3. Cardinality({u \in rest : u < t}) = 0
  BY <1>2, FS_EmptySet
<1> QED BY <1>1, <1>3 DEF Page, IsFirst

\* A search that begins, and one that ends with its task.
LEMMA NoSearchWorks == NoSearch.pc = "off" /\ NoSearch.chan = {} /\ NoSearch.page = {}
BY DEF NoSearch

LEMMA WorksSearching ==
    ASSUME TypeOK, TypeOK', SearchWorks, SearchStep
    PROVE  SearchWorks'
<1>1. search \in SearchType /\ UNCHANGED rel /\ Ranging' = Ranging
  BY DEF SearchStep, Ranging, TypeOK, QuerierTypeOK
<1>2. CASE TxSearch
  <2>1. /\ search'.pc = (IF Remaining = {} THEN "closed" ELSE "prove")
        /\ search'.page = Page(Remaining) /\ search'.chan = search.chan /\ search.pc = "page"
    BY <1>1, <1>2 DEF TxSearch, SearchType
  <2>2. Remaining \subseteq Txs
    BY <1>1, Constants DEF Remaining, SearchType
  <2>3. Remaining # {} => Page(Remaining) # {}
    BY <2>2, PageNotEmpty
  <2> QED BY <1>1, <2>1, <2>3 DEF SearchWorks
<1>3. CASE ProofDelivery \/ SearchFails \/ SendCancelled
  <2>1. /\ search'.page = search.page /\ search'.chan = search.chan
        /\ search.pc \in {"page", "prove", "send"} /\ search'.pc \in {"send", "closed"}
        /\ search'.pc = "send" => search.pc = "prove"
    BY <1>1, <1>3 DEF ProofDelivery, SearchFails, SendCancelled, SearchType
  <2> QED BY <1>1, <2>1 DEF SearchWorks
<1>4. ASSUME NEW t \in Txs, SendTx(t) PROVE SearchWorks'
  <2>1. /\ search'.page = search.page \ {t} /\ search'.chan = search.chan \cup {t}
        /\ search.pc = "send" /\ search'.pc \in {"prove", "page", "closed"}
        /\ search'.pc = "prove" => search.page # {t}
        /\ Cardinality(search.chan) < TxsChanSize /\ t \in search.page
    BY <1>1, <1>4 DEF SendTx, SearchType, IsFirst
  <2>2. IsFiniteSet(search'.chan) /\ Cardinality(search'.chan) <= Cardinality(search.chan) + 1
    <3>1. IsFiniteSet(search.chan) /\ Cardinality(search.chan) \in Nat
      BY FS_CardinalityType DEF SearchWorks
    <3>2. /\ IsFiniteSet(search.chan \cup {t})
          /\ Cardinality(search.chan \cup {t}) =
                IF t \in search.chan THEN Cardinality(search.chan) ELSE Cardinality(search.chan) + 1
      BY <3>1, FS_AddElement
    <3> QED BY <2>1, <3>1, <3>2
  <2>3. Cardinality(search'.chan) <= TxsChanSize
    <3>1. Cardinality(search.chan) \in Nat /\ Cardinality(search'.chan) \in Nat
      BY <2>2, FS_CardinalityType DEF SearchWorks
    <3> QED BY <2>1, <2>2, <3>1
  <2>4. search'.pc = "prove" => search'.page # {}
    BY <2>1
  <2> QED BY <1>1, <2>1, <2>2, <2>3, <2>4 DEF SearchWorks
<1> QED BY <1>2, <1>3, <1>4 DEF SearchStep

\* The loop takes from the channel, or ends the task and its search.
LEMMA WorksLooping ==
    ASSUME TypeOK, TypeOK', SearchWorks, RelStep \/ \E q \in Queries : TakeTask(q)
    PROVE  SearchWorks'
<1>1. search \in SearchType /\ rel \in RelType
  BY DEF TypeOK, QuerierTypeOK
<1>2. IsFiniteSet({}) /\ Cardinality({}) = 0
  BY FS_EmptySet
<1>3. ASSUME Abort PROVE SearchWorks'
  BY <1>2, <1>3, NoSearchWorks DEF Abort, RelIdle, SearchWorks, Ranging
<1>4. ASSUME NEW q \in Queries, TakeTask(q) PROVE SearchWorks'
  <2>1. CASE q \in Malformed
    BY <1>4, <2>1 DEF TakeTask, SearchWorks, Ranging
  <2>2. CASE q \notin Malformed
    <3>1. search'.pc = "page" /\ search'.chan = {} /\ rel'.pc = "range"
      BY <1>4, <2>2 DEF TakeTask, SearchTransactions, NoSearch, RelIdle
    <3> QED BY <1>2, <3>1 DEF SearchWorks, Ranging
  <2> QED BY <2>1, <2>2
<1>5. ASSUME NEW t \in Txs, Receive(t) PROVE SearchWorks'
  <2>1. /\ search'.pc = search.pc /\ search'.page = search.page
        /\ search'.chan = search.chan \ {t} /\ rel.pc = "range" /\ rel'.pc \in {"range", "process"}
    BY <1>1, <1>5 DEF Receive, SearchType, RelType
  <2>2. /\ IsFiniteSet(search'.chan)
        /\ Cardinality(search'.chan) <= Cardinality(search.chan)
    BY <2>1, FS_Subset DEF SearchWorks
  <2>3. Cardinality(search.chan) \in Nat /\ Cardinality(search'.chan) \in Nat
    BY <2>2, FS_CardinalityType DEF SearchWorks
  <2> QED BY <2>1, <2>2, <2>3 DEF SearchWorks, Ranging
<1>6. CASE RelHeaderFails \/ RelStoreFails \/ Finish \/ FinishFails \/ \E t \in Txs : ReceiveFails(t)
  BY <1>3, <1>6 DEF RelHeaderFails, RelStoreFails, Finish, FinishFails, ReceiveFails
<1>7. CASE RelSendCritical
  <2>1. rel'.pc = "done" /\ search' = NoSearch
    BY <1>7 DEF RelSendCritical, RelIdle
  <2> QED BY <1>2, <2>1, NoSearchWorks DEF SearchWorks, Ranging
<1>8. CASE RelSendAccepted \/ RelSendIgnored \/ RelStore
  <2>1. rel.pc \in {"process", "store"} /\ rel'.pc \in {"store", "range"} /\ UNCHANGED search
    BY <1>1, <1>8 DEF RelSendAccepted, RelSendIgnored, RelStore, RelType, querierVars
  <2> QED BY <2>1 DEF SearchWorks, Ranging
<1>9. CASE RelStop
  <2>1. rel.pc = "idle" /\ rel'.pc = "done" /\ UNCHANGED search
    BY <1>1, <1>9 DEF RelStop, RelType, querierVars
  <2> QED BY <2>1 DEF SearchWorks, Ranging
<1> QED BY <1>4, <1>5, <1>6, <1>7, <1>8, <1>9 DEF RelStep

LEMMA WorksElsewhere ==
    ASSUME SearchWorks,
           \/ \E h \in Handlers : HttpStep(h) \/ \E k \in Keys : Resubmit(h, k)
           \/ ChkStep \/ \E d \in delayed : DelayedCancelled(d)
           \/ Cancel \/ Exit \/ Crash \/ Start \/ ChainStep \/ UNCHANGED vars
    PROVE  SearchWorks'
<1>1. CASE UNCHANGED <<rel, search>>
  BY <1>1 DEF SearchWorks, Ranging
<1>2. CASE \E h \in Handlers : HttpStep(h) \/ \E k \in Keys : Resubmit(h, k)
  BY <1>1, <1>2
  DEF HttpStep, HttpSendAccepted, HttpSendIgnored, HttpSendFails, HttpStore, HttpStoreFails,
      Resubmit, HttpUnchanged, querierVars
<1>3. CASE ChkStep \/ \E d \in delayed : DelayedCancelled(d)
  BY <1>1, <1>3
  DEF ChkStep, ChkReadPending, ChkReadPendingFails, ChkNext, ChkReceive, ChkFound,
      ChkAttemptFails, ChkUpdate, ChkUpdateFails, ChkStop, DelayedCancelled, ChkUnchanged,
      querierVars
<1>4. CASE Exit \/ Crash
  <2>1. rel'.pc = "idle" /\ search' = NoSearch
    BY <1>4 DEF Exit, Crash, LoseMemory, RelIdle
  <2> QED BY <2>1, NoSearchWorks, FS_EmptySet DEF SearchWorks, Ranging
<1>5. CASE Cancel \/ Start \/ ChainStep \/ UNCHANGED vars
  BY <1>1, <1>5
  DEF Cancel, Start, ChainStep, TargetBlock, NewBlock, NeutronExecutes, NeutronDrops,
      ChainsOnly, vars, querierVars
<1> QED BY <1>2, <1>3, <1>4, <1>5

\* The search is there for the loop, and never overfills the channel.
THEOREM SearchWorksCorrect == Spec => []SearchWorks
<1>1. Init => SearchWorks
  BY NoSearchWorks, FS_EmptySet
  DEF Init, QuerierInit, VolatileInit, RelIdle, SearchWorks, Ranging
<1>2. TypeOK /\ TypeOK' /\ SearchWorks /\ [Next]_vars => SearchWorks'
  BY WorksSearching, WorksLooping, WorksElsewhere DEF Next
<1> QED BY <1>1, <1>2, TypeCorrect, PTL DEF Spec

\* A task never hangs: while the loop ranges over the channel, it or its
\* search can go on, though each of them waits for the other at times and
\* pages, transactions and errors come in any number (relayer.go:127-171 and
\* the goroutine of SearchTransactions, txquerier.go:33-83).
TaskGoesOn == Ranging => LoopGoesOn \/ SearchGoesOn

THEOREM TaskNeverHangs == Spec => []TaskGoesOn
<1>1. TypeOK /\ SearchWorks => TaskGoesOn
  <2> SUFFICES ASSUME TypeOK, SearchWorks, rel.pc = "range", search.pc \in {"send", "closed"}
               PROVE  LoopGoesOn \/ SearchGoesOn
    <3>1. TypeOK => search.pc \in {"off", "page", "prove", "send", "closed"}
      BY DEF TypeOK, QuerierTypeOK, SearchType
    <3> QED BY <3>1 DEF TaskGoesOn, Ranging, SearchWorks, LoopGoesOn, SearchGoesOn
  <2>1. search.chan \subseteq Txs /\ search.page \subseteq Txs
    BY Shapes
  <2>2. CASE search.chan # {}
    BY <2>1, <2>2, FirstTx DEF LoopGoesOn
  <2>3. CASE search.chan = {} /\ search.pc = "closed"
    BY <2>3 DEF LoopGoesOn
  <2>4. CASE search.chan = {} /\ search.pc = "send"
    <3>1. search.page # {}
      BY <2>4 DEF SearchWorks
    <3>2. Cardinality(search.chan) < TxsChanSize
      BY <2>4, FS_EmptySet
    <3> QED BY <2>1, <2>4, <3>1, <3>2, FirstTx DEF SearchGoesOn
  <2> QED BY <2>2, <2>3, <2>4
<1> QED BY <1>1, SearchWorksCorrect, TypeCorrect, PTL
=============================================================================
