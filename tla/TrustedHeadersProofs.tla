------------------------ MODULE TrustedHeadersProofs ------------------------
(***************************************************************************)
(* Theorems about TrustedHeaders, for heights of any width, every light    *)
(* client, page size, trusting period and margin.                          *)
(***************************************************************************)
EXTENDS TrustedHeaders, FiniteSetTheorems, TLAPS

----------------------------------------------------------------------------
(***************************************************************************)
(* Sets of natural numbers.                                                *)
(***************************************************************************)
LEMMA LeastOf ==
    ASSUME NEW T \in SUBSET Nat, T # {}
    PROVE  \E k \in T : \A n \in T : k <= n
<1>1. PICK k \in T : \A n \in T : <<n, k>> \notin OpToRel(<, Nat)
  BY NatLessThanWellFounded, WFMin
<1>2. \A n \in T : n \in Nat /\ k \in Nat /\ ~(n < k)
  BY <1>1 DEF OpToRel
<1> QED BY <1>2

LEMMA GreatestOf ==
    ASSUME NEW T \in SUBSET Nat, T # {}, NEW m \in Nat, \A n \in T : n <= m
    PROVE  \E k \in T : \A n \in T : n <= k
<1> DEFINE D == {m - n : n \in T}
<1>1. D \in SUBSET Nat /\ D # {}
  <2>1. \A n \in T : m - n \in Nat
    OBVIOUS
  <2>2. PICK n \in T : TRUE
    OBVIOUS
  <2> QED BY <2>1, <2>2
<1>2. PICK d \in D : \A e \in D : d <= e
  <2> HIDE DEF D
  <2> QED BY <1>1, LeastOf
<1>3. PICK k \in T : d = m - k
  BY <1>2
<1>4. ASSUME NEW n \in T PROVE n <= k
  <2>1. m - k <= m - n
    BY <1>2, <1>3
  <2> QED BY <2>1
<1> QED BY <1>4

----------------------------------------------------------------------------
(***************************************************************************)
(* The order of the listing.  Filled up with zeros, all heights have the   *)
(* width of the greatest power of ten.                                     *)
(***************************************************************************)
LEMMA TopIs ==
    /\ Top \in Tens /\ Top \in Nat \ {0} /\ \A u \in Tens : u <= Top
    /\ MaxHeight < Top /\ \A s \in OldStates : s.height < Top
<1>1. PICK top \in Tens : /\ \A u \in Tens : u <= top
                          /\ MaxHeight < top /\ \A s \in OldStates : s.height < top
  BY TensAssumption
<1>2. Top \in Tens /\ \A u \in Tens : u <= Top
  BY <1>1 DEF Top
<1>3. Top \in Nat \ {0} /\ top \in Nat
  BY <1>2, TensAssumption
<1>4. Top = top
  BY <1>1, <1>2, <1>3
<1> QED BY <1>1, <1>2, <1>3, <1>4

\* The zeros are as many as fit, and that leaves no room in front: so a
\* number is greater than another, filled up, if its first different digit
\* is, whatever widths the two have.
LEMMA LeadingFills ==
    ASSUME NEW n \in Nat, n < Top
    PROVE  /\ Leading(n) \in Nat /\ Leading(n) < Top
           /\ \E u \in Tens : Leading(n) = n * u
           /\ n # 0 => Top <= 10 * Leading(n)
<1> DEFINE Fits == {u \in Tens : n * u < Top}
           u == CHOOSE u \in Tens : n * u < Top /\ \A v \in Tens : n * v < Top => v <= u
<1>1. Fits \in SUBSET Nat /\ Fits # {} /\ \A v \in Fits : v <= Top
  <2>1. 1 \in Fits
    BY TensAssumption
  <2> QED BY <2>1, TensAssumption, TopIs
<1>2. \E k \in Fits : \A v \in Fits : v <= k
  <2> HIDE DEF Fits
  <2> QED BY <1>1, TopIs, GreatestOf
<1>3. u \in Tens /\ n * u < Top /\ \A v \in Tens : n * v < Top => v <= u
  <2>1. \E k \in Tens : n * k < Top /\ \A v \in Tens : n * v < Top => v <= k
    BY <1>2
  <2> QED BY <2>1
<1>4. Leading(n) = n * u
  BY DEF Leading
<1> HIDE DEF u
<1>5. u \in Nat \ {0} /\ n * u \in Nat
  BY <1>3, TensAssumption
<1>6. ASSUME n # 0
      PROVE  Top <= 10 * (n * u)
  <2> DEFINE Greater == {v \in Tens : v > u}
  <2>1. Top \in Greater
    <3>1. n * Top >= Top
      <4>1. (n - 1) * Top \in Nat /\ n * Top = (n - 1) * Top + Top
        BY <1>6, TopIs
      <4> QED BY <4>1, TopIs
    <3>2. u # Top
      BY <1>3, <3>1, <1>5, TopIs
    <3> QED BY <1>3, <1>5, <3>2, TopIs
  <2>2. Greater \in SUBSET Nat
    BY TensAssumption
  <2>3. PICK v \in Greater : \A w \in Greater : v <= w
    <3> HIDE DEF Greater
    <3> QED BY <2>1, <2>2, LeastOf
  <2>4. v \in Tens /\ v \in Nat \ {0} /\ v > u
    BY <2>3, TensAssumption
  <2>5. PICK w \in Tens : v = 10 * w
    BY <1>5, <2>4, TensAssumption
  <2>6. w \in Nat \ {0} /\ w <= u
    <3>1. w \in Nat \ {0} /\ w < v
      BY <2>4, <2>5, TensAssumption
    <3>2. w \notin Greater
      BY <2>3, <2>4, <3>1
    <3> QED BY <1>5, <2>5, <3>1, <3>2
  <2>7. ~(n * v < Top)
    BY <1>3, <1>5, <2>4
  <2>8. n * u = n * w + n * (u - w) /\ n * (u - w) \in Nat /\ n * w \in Nat
    BY <1>5, <2>6
  <2>9. n * v = 10 * (n * w) /\ n * v \in Nat
    BY <2>4, <2>5, <2>6
  <2> QED BY <2>7, <2>8, <2>9, TopIs
<1> QED BY <1>3, <1>4, <1>5, <1>6

LEMMA StateIs ==
    ASSUME NEW s \in States
    PROVE  /\ s.rev \in Nat /\ s.rev <= Revision /\ s.height \in Nat /\ s.height < Top
           /\ s.time \in Nat
           /\ s # NoState
           /\ s.rev = Revision => s = State(s.height)
<1>1. CASE s \in OldStates
  <2>1. s.rev \in 0 .. Revision - 1 /\ s.height \in Nat /\ s.time \in Nat
    BY <1>1, HeadersAssumption
  <2> QED BY <1>1, <2>1, HeadersAssumption, TopIs DEF NoState
<1>2. ASSUME NEW h \in FirstHeight .. MaxHeight, s = State(h)
      PROVE  /\ s.rev = Revision /\ s.height = h /\ s.time = h /\ h \in Nat /\ h < Top
             /\ s = State(s.height)
  <2>1. h \in Nat /\ h < Top
    BY HeadersAssumption, TopIs
  <2> QED BY <1>2, <2>1 DEF State
<1>3. CASE s \in {State(h) : h \in FirstHeight .. MaxHeight}
  BY <1>2, <1>3, HeadersAssumption DEF NoState
<1> QED BY <1>1, <1>3 DEF States

\* Every consensus state has its place in the order.
LEMMA AboveOrders ==
    ASSUME NEW s \in States, NEW t \in States
    PROVE  /\ ~Above(s, s)
           /\ Above(s, t) => ~Above(t, s)
           /\ s = t \/ Above(s, t) \/ Above(t, s)
           /\ \A u \in States : Above(s, t) /\ Above(t, u) => Above(s, u)
<1>1. \A u \in States : u.rev \in Nat /\ u.height \in Nat /\ Leading(u.height) \in Nat
  BY StateIs, LeadingFills
<1>2. ASSUME s.rev = t.rev, s.height = t.height
      PROVE  s = t
  <2>1. CASE s.rev = Revision
    <3>1. s = State(s.height) /\ t = State(t.height)
      BY <1>2, <2>1, StateIs
    <3> QED BY <1>2, <3>1
  <2>2. CASE s.rev # Revision
    <3>1. s \in OldStates /\ t \in OldStates
      BY <1>2, <2>2 DEF States, State
    <3> QED BY <1>2, <3>1, HeadersAssumption
  <2> QED BY <2>1, <2>2
<1>3. ~Above(s, s) /\ (Above(s, t) => ~Above(t, s))
  BY <1>1 DEF Above
<1>4. s = t \/ Above(s, t) \/ Above(t, s)
  BY <1>1, <1>2 DEF Above
<1>5. ASSUME NEW u \in States, Above(s, t), Above(t, u) PROVE Above(s, u)
  BY <1>1, <1>5 DEF Above
<1> QED BY <1>3, <1>4, <1>5

LEMMA StatesFinite == IsFiniteSet(States)
<1> DEFINE T == {State(h) : h \in FirstHeight .. MaxHeight}
           f == [h \in FirstHeight .. MaxHeight |-> State(h)]
<1>1. IsFiniteSet(FirstHeight .. MaxHeight)
  BY FS_Interval, HeadersAssumption
<1>2. f \in Surjection(FirstHeight .. MaxHeight, T)
  BY DEF Surjection
<1>3. IsFiniteSet(T)
  <2> HIDE DEF T, f
  <2> QED BY <1>1, <1>2, FS_Surjection
<1> QED BY ZenonT(60), <1>3, HeadersAssumption, FS_Union DEF States

\* The place of a state is the number of those that it is above.
Below(s) == {t \in States : Above(s, t)}
Key(s) == Cardinality(Below(s))
MaxKey == Cardinality(States)

LEMMA MaxKeyIs == MaxKey \in Nat
BY StatesFinite, FS_CardinalityType DEF MaxKey

LEMMA KeyIs ==
    ASSUME NEW s \in States
    PROVE  Key(s) \in Nat /\ Key(s) <= MaxKey
<1>1. Below(s) \subseteq States
  BY DEF Below
<1>2. IsFiniteSet(Below(s)) /\ Cardinality(Below(s)) <= Cardinality(States)
  BY <1>1, StatesFinite, FS_Subset
<1> QED BY <1>2, FS_CardinalityType DEF Key, MaxKey

LEMMA KeyRises ==
    ASSUME NEW s \in States, NEW t \in States, Above(s, t)
    PROVE  Key(s) > Key(t)
<1>1. Below(t) \subseteq Below(s)
  BY AboveOrders DEF Below
<1>2. t \in Below(s) /\ t \notin Below(t)
  BY AboveOrders DEF Below
<1>3. IsFiniteSet(Below(s))
  <2>1. Below(s) \subseteq States
    BY DEF Below
  <2> QED BY <2>1, StatesFinite, FS_Subset
<1>4. Key(t) <= Key(s) /\ Key(t) # Key(s)
  BY <1>1, <1>2, <1>3, FS_Subset DEF Key
<1> QED BY <1>4, KeyIs

LEMMA KeyOrder ==
    ASSUME NEW s \in States, NEW t \in States
    PROVE  /\ Above(s, t) <=> Key(s) > Key(t)
           /\ Key(s) = Key(t) => s = t
<1>1. Key(s) \in Nat /\ Key(t) \in Nat
  BY KeyIs
<1>2. /\ Above(s, t) => Key(s) > Key(t)
      /\ Above(t, s) => Key(t) > Key(s)
  BY KeyRises
<1>3. s = t \/ Above(s, t) \/ Above(t, s)
  BY AboveOrders
<1> QED BY <1>1, <1>2, <1>3

LEMMA LowestExists ==
    ASSUME NEW S \in SUBSET States, S # {}
    PROVE  \E s \in S : \A t \in S : Key(s) <= Key(t)
<1> DEFINE T == {Key(s) : s \in S}
<1>1. T \in SUBSET Nat /\ T # {}
  BY KeyIs
<1>2. PICK k \in T : \A n \in T : k <= n
  <2> HIDE DEF T
  <2> QED BY <1>1, LeastOf
<1>3. PICK s \in S : k = Key(s)
  BY <1>2
<1> QED BY <1>2, <1>3

LEMMA HighestExists ==
    ASSUME NEW S \in SUBSET States, S # {}
    PROVE  \E s \in S : \A t \in S : Key(t) <= Key(s)
<1> DEFINE T == {Key(s) : s \in S}
<1>1. T \in SUBSET Nat /\ T # {} /\ \A n \in T : n <= MaxKey
  BY KeyIs
<1>2. PICK k \in T : \A n \in T : n <= k
  <2> HIDE DEF T
  <2> QED BY <1>1, MaxKeyIs, GreatestOf
<1>3. PICK s \in S : k = Key(s)
  BY <1>2
<1> QED BY <1>2, <1>3

\* In a set of consensus states every position below its size is taken.
Over(S, s) == {t \in S : Above(t, s)}

LEMMA OverLess ==
    ASSUME NEW S \in SUBSET States, NEW T \in SUBSET S, T # {},
           \A t \in T, u \in S : Above(u, t) => u \in T
    PROVE  \E t \in T : Over(S, t) = T \ {t}
<1>1. PICK t \in T : \A u \in T : Key(t) <= Key(u)
  BY LowestExists
<1>2. \A u \in S : Key(u) \in Nat
  BY KeyIs
<1>3. ASSUME NEW u \in S
      PROVE  Above(u, t) <=> u \in T \ {t}
  <2>1. Above(u, t) <=> Key(u) > Key(t)
    BY KeyOrder
  <2>2. u \in T /\ u # t => Key(u) > Key(t)
    BY <1>1, <1>2, KeyOrder
  <2>3. Key(u) > Key(t) => u \in T /\ u # t
    BY <1>2, <2>1
  <2> QED BY <2>1, <2>2, <2>3
<1>4. Over(S, t) = T \ {t}
  BY <1>3 DEF Over
<1> QED BY <1>4

LEMMA PositionTaken ==
    ASSUME NEW S \in SUBSET States, NEW n \in Nat, Cardinality(S) > n
    PROVE  \E s \in S : Cardinality(Over(S, s)) = n
<1>1. IsFiniteSet(S) /\ \A T \in SUBSET S : IsFiniteSet(T) /\ Cardinality(T) \in Nat
  <2>1. IsFiniteSet(S)
    BY StatesFinite, FS_Subset
  <2> QED BY <2>1, FS_Subset, FS_CardinalityType
<1>2. \A s \in S : Over(S, s) \in SUBSET S
  BY DEF Over
<1> DEFINE Far == {s \in S : Cardinality(Over(S, s)) >= n}
<1>3. Far # {}
  <2>1. S # {}
    BY FS_EmptySet
  <2>2. PICK s \in S : Over(S, s) = S \ {s}
    <3>1. \E s \in S : Over(S, s) = S \ {s}
      BY <2>1, OverLess
    <3> QED BY <3>1
  <2>3. Cardinality(Over(S, s)) = Cardinality(S) - 1
    BY <1>1, <2>2, FS_RemoveElement
  <2> QED BY <1>1, <2>3
<1>4. PICK s \in Far : \A t \in Far : Key(t) <= Key(s)
  <2>1. Far \in SUBSET States
    OBVIOUS
  <2> HIDE DEF Far
  <2> QED BY <1>3, <2>1, HighestExists
<1>5. ASSUME Cardinality(Over(S, s)) > n
      PROVE  FALSE
  <2>1. Over(S, s) # {}
    BY <1>5, FS_EmptySet
  <2>2. PICK t \in Over(S, s) : Over(S, t) = Over(S, s) \ {t}
    <3> DEFINE T == Over(S, s)
    <3>1. s \in S /\ T \in SUBSET S /\ T # {}
      BY <1>2, <2>1
    <3>2. \A t \in T, u \in S : Above(u, t) => u \in T
      <4>1. \A u \in S : Key(u) \in Nat
        BY KeyIs
      <4>2. \A t, u \in S : Above(u, t) <=> Key(u) > Key(t)
        BY KeyOrder
      <4> QED BY <3>1, <4>1, <4>2 DEF Over
    <3> HIDE DEF T, Far
    <3>3. \E t \in T : Over(S, t) = T \ {t}
      BY <3>1, <3>2, OverLess
    <3> QED BY <3>3 DEF T
  <2>3. Cardinality(Over(S, t)) = Cardinality(Over(S, s)) - 1
    BY <1>1, <1>2, <2>2, FS_RemoveElement
  <2>4. t \in Far
    <3>1. s \in S /\ t \in S
      BY <1>2
    <3>2. Cardinality(Over(S, s)) \in Nat /\ Cardinality(Over(S, t)) \in Nat
      BY <1>1, <1>2, <3>1
    <3> QED BY <1>5, <2>3, <3>1, <3>2
  <2>5. t \in States /\ Key(t) > Key(s)
    BY <2>2, KeyOrder DEF Over
  <2> QED BY <1>4, <2>4, <2>5, KeyIs
<1> QED BY <1>1, <1>2, <1>4, <1>5

----------------------------------------------------------------------------
(***************************************************************************)
(* The invariant.  Until the pages end, what was in the client all along   *)
(* and is suitable is still to come; what a page shows is in the client or *)
(* has expired since.                                                      *)
(***************************************************************************)
StillToCome(s) == fetch.nextKey = NoState \/ ~Above(s, fetch.nextKey)

PagesInv ==
    /\ fetch.pc = "page" => \A s \in steady : IsSuitableCS(s) => StillToCome(s)
    /\ fetch.pc = "scan" =>
         /\ \A s \in steady : IsSuitableCS(s) =>
              s \in fetch.page \/ (fetch.nextKey # NoState /\ StillToCome(s))
         /\ \A s \in fetch.page : s \in client \/ Expired(s)

\* The chosen state was suitable when it was chosen.
TrustedInv ==
    fetch.pc \in {"header", "submit"} =>
        /\ fetch.foundAt \in FirstHeight .. now
        /\ fetch.trusted.rev = Revision
        /\ fetch.trusted.height < fetch.height
        /\ fetch.trusted.time + TrustingPeriod - SubmissionMargin > fetch.foundAt
        /\ fetch.trusted \in client \/ Expired(fetch.trusted)

HeadersInv ==
    /\ TypeOK
    /\ fetch.pc # "idle" => fetch.height \in FirstHeight .. MaxHeight + 1
    /\ fetch.pc = "submit" => fetch.height <= now
    /\ PagesInv
    /\ NothingMissed
    /\ TrustedInv

\* What is left of a listing, page by page.
LEMMA PageIs ==
    ASSUME client \subseteq States
    PROVE  /\ Listed \subseteq client
           /\ NextKey # NoState => NextKey \in Rest
           /\ \A s \in Rest : s \in Listed \/ (NextKey # NoState /\ ~Above(s, NextKey))
<1> DEFINE S == Rest
<1>1. S \in SUBSET States /\ S \subseteq client
  BY DEF Rest
<1>2. \A s \in S : Position(s) = Cardinality(Over(S, s))
  BY DEF Position, Over
<1>3. Listed = {s \in S : Position(s) < PageSize}
  BY DEF Listed
<1>4. NextKey = IF Cardinality(S) <= PageSize THEN NoState
                ELSE CHOOSE s \in S : Position(s) = PageSize
  BY DEF NextKey
<1> HIDE DEF S
<1>5. IsFiniteSet(S) /\ \A T \in SUBSET S : IsFiniteSet(T) /\ Cardinality(T) \in Nat
  <2>1. IsFiniteSet(S)
    BY <1>1, StatesFinite, FS_Subset
  <2> QED BY <2>1, FS_Subset, FS_CardinalityType
<1>6. \A s \in S : Over(S, s) \in SUBSET S
  BY DEF Over
<1>7. Cardinality(S) > PageSize => NextKey \in S /\ Position(NextKey) = PageSize
  <2> SUFFICES ASSUME Cardinality(S) > PageSize
               PROVE  NextKey \in S /\ Position(NextKey) = PageSize
    OBVIOUS
  <2>1. PageSize \in Nat /\ Cardinality(S) \in Nat
    BY <1>5, HeadersAssumption
  <2>2. \E s \in S : Cardinality(Over(S, s)) = PageSize
    BY <1>1, <2>1, PositionTaken
  <2>3. \E s \in S : Position(s) = PageSize
    BY <1>2, <2>2
  <2>4. NextKey = CHOOSE s \in S : Position(s) = PageSize
    BY <1>4, <2>1
  <2> QED BY <2>3, <2>4
<1>8. Cardinality(S) > PageSize \/ NextKey = NoState
  BY <1>4, <1>5, HeadersAssumption
<1>9. ASSUME NEW s \in S, s \notin Listed
      PROVE  NextKey # NoState /\ ~Above(s, NextKey)
  <2>1. /\ Over(S, s) \in SUBSET S /\ Cardinality(Over(S, s)) \in Nat /\ Cardinality(S) \in Nat
        /\ PageSize \in Nat /\ Cardinality(Over(S, s)) >= PageSize
    BY <1>2, <1>3, <1>5, <1>6, <1>9, HeadersAssumption
  <2>2. s \notin Over(S, s)
    BY <1>1, KeyIs, KeyOrder DEF Over
  <2>3. Cardinality(S) > PageSize
    <3>1. Cardinality(Over(S, s)) <= Cardinality(S)
      BY <1>5, <2>1, FS_Subset
    <3>2. Cardinality(Over(S, s)) # Cardinality(S)
      BY <1>5, <2>1, <2>2, FS_Subset
    <3> QED BY <2>1, <3>1, <3>2
  <2> DEFINE k == NextKey
  <2>4. k \in S /\ Cardinality(Over(S, k)) = PageSize
    BY <1>2, <1>7, <2>3
  <2>5. k # NoState
    BY <1>1, <2>4, StateIs
  <2> HIDE DEF k
  <2>6. ASSUME Above(s, k)
        PROVE  FALSE
    <3>1. Over(S, s) \subseteq Over(S, k)
      <4>1. \A u \in S : Key(u) \in Nat
        BY <1>1, KeyIs
      <4>2. \A u, v \in S : Above(u, v) <=> Key(u) > Key(v)
        BY <1>1, KeyOrder
      <4>3. Key(s) > Key(k)
        BY <2>4, <2>6, <4>2
      <4>4. \A u \in S : Key(u) > Key(s) => Key(u) > Key(k)
        BY <2>4, <4>1, <4>3
      <4> QED BY <2>4, <4>2, <4>4 DEF Over
    <3>2. s \in Over(S, k)
      BY <2>6 DEF Over
    <3>3. IsFiniteSet(Over(S, k)) /\ Cardinality(Over(S, k)) \in Nat
      BY <1>5, <1>6, <2>4
    <3>4. Cardinality(Over(S, s)) <= Cardinality(Over(S, k))
      BY <3>1, <3>3, FS_Subset
    <3>5. Cardinality(Over(S, s)) # Cardinality(Over(S, k))
      BY <2>2, <3>1, <3>2, <3>3, FS_Subset
    <3> QED BY <2>1, <2>4, <3>3, <3>4, <3>5
  <2> QED BY <2>5, <2>6 DEF k
<1> QED BY <1>1, <1>3, <1>7, <1>8, <1>9 DEF S

LEMMA IdleIs ==
    Idle \in FetchType /\ Idle.pc = "idle" /\ Idle.trusted = NoState
BY DEF Idle, FetchType, NoState

LEMMA HeadersInit == Init => HeadersInv
<1> SUFFICES ASSUME Init PROVE HeadersInv
  OBVIOUS
<1>1. /\ now = FirstHeight /\ FirstHeight \in FirstHeight .. MaxHeight
      /\ fetch = Idle /\ faults \in 0 .. MaxFaults /\ steady = {}
  BY HeadersAssumption DEF Init
<1>2. client \subseteq States
  BY <1>1 DEF Init, States
<1>3. TypeOK
  BY <1>1, <1>2, IdleIs DEF TypeOK
<1> QED BY <1>1, <1>3, IdleIs DEF HeadersInv, PagesInv, NothingMissed, TrustedInv

\* A step after which no fetch is going on.
LEMMA HeadersIdle ==
    ASSUME TypeOK, fetch' = Idle, now' = now, client' \subseteq States,
           steady' \subseteq client', faults' \in 0 .. MaxFaults
    PROVE  HeadersInv'
<1>1. TypeOK'
  BY IdleIs DEF TypeOK
<1> QED BY <1>1, IdleIs DEF HeadersInv, PagesInv, NothingMissed, TrustedInv

LEMMA HeadersFail ==
    ASSUME HeadersInv, Fails
    PROVE  HeadersInv'
<1>1. /\ fetch' = Idle /\ UNCHANGED <<now, client, steady>>
      /\ TypeOK /\ faults' \in 0 .. MaxFaults
  BY HeadersAssumption DEF Fails, HeadersInv, TypeOK
<1>2. client' \subseteq States /\ steady' \subseteq client'
  BY <1>1 DEF TypeOK
<1> QED BY <1>1, <1>2, HeadersIdle

\* Time passes, or the client changes: nothing becomes suitable that was
\* not, and only what has expired goes.
LEMMA HeadersOutside ==
    ASSUME HeadersInv, TypeOK', fetch' = fetch, now' \in {now, now + 1},
           steady' \subseteq steady,
           \A s \in client : s \in client' \/ Expired(s)
    PROVE  HeadersInv'
<1>1. TypeOK /\ now \in Nat /\ now' \in Nat /\ now <= now'
      /\ TrustingPeriod \in Nat /\ SubmissionMargin \in Nat
      /\ client \subseteq States /\ steady \subseteq States /\ fetch.page \subseteq States
  <2>1. TypeOK /\ now \in FirstHeight .. MaxHeight
    BY DEF HeadersInv, TypeOK
  <2>2. FirstHeight \in Nat /\ MaxHeight \in Nat /\ TrustingPeriod \in Nat /\ SubmissionMargin \in Nat
    BY HeadersAssumption
  <2> QED BY <2>1, <2>2 DEF TypeOK, FetchType
<1>2. \A s \in States : s.time \in Nat
  BY StateIs
<1>3. \A s \in States : Expired(s) => Expired(s)'
  BY <1>1, <1>2 DEF Expired
<1>4. \A s \in States : IsSuitableCS(s)' => IsSuitableCS(s)
  BY <1>1, <1>2 DEF IsSuitableCS
<1>5. PagesInv'
  <2>1. \A s : StillToCome(s)' <=> StillToCome(s)
    BY DEF StillToCome
  <2>2. ASSUME fetch.pc = "page", NEW s \in steady', IsSuitableCS(s)'
        PROVE  StillToCome(s)'
    BY <1>1, <1>4, <2>1, <2>2 DEF HeadersInv, PagesInv
  <2>3. ASSUME fetch.pc = "scan", NEW s \in steady', IsSuitableCS(s)'
        PROVE  s \in fetch.page \/ (fetch.nextKey # NoState /\ StillToCome(s)')
    BY <1>1, <1>4, <2>1, <2>3 DEF HeadersInv, PagesInv
  <2>4. ASSUME fetch.pc = "scan", NEW s \in fetch.page
        PROVE  s \in client' \/ Expired(s)'
    BY <1>1, <1>3, <2>4 DEF HeadersInv, PagesInv
  <2> QED BY <2>2, <2>3, <2>4 DEF PagesInv
<1>6. NothingMissed'
  BY <1>1, <1>4 DEF HeadersInv, NothingMissed
<1>7. TrustedInv'
  <2> SUFFICES ASSUME fetch.pc \in {"header", "submit"}
               PROVE  /\ fetch.foundAt \in FirstHeight .. now'
                      /\ fetch.trusted \in client' \/ Expired(fetch.trusted)'
    BY DEF HeadersInv, TrustedInv
  <2>1. /\ fetch.foundAt \in FirstHeight .. now
        /\ fetch.trusted \in client \/ Expired(fetch.trusted)
        /\ fetch.trusted \in States
    BY DEF HeadersInv, TrustedInv, TypeOK, FetchType
  <2>2. fetch.foundAt \in FirstHeight .. now'
    BY <1>1, <2>1, HeadersAssumption
  <2> QED BY <1>3, <2>1, <2>2
<1>8. /\ fetch.pc # "idle" => fetch.height \in FirstHeight .. MaxHeight + 1
      /\ fetch.pc = "submit" => fetch.height <= now'
  <2>1. fetch.height \in Nat
    BY DEF HeadersInv, TypeOK, FetchType
  <2> QED BY <1>1, <2>1 DEF HeadersInv
<1> QED BY <1>5, <1>6, <1>7, <1>8 DEF HeadersInv

LEMMA HeadersClient ==
    ASSUME HeadersInv, Tick \/ UpdateClient
    PROVE  HeadersInv'
<1>1. TypeOK /\ now \in FirstHeight .. MaxHeight
  BY DEF HeadersInv, TypeOK
<1>2. CASE Tick
  <2>1. now' \in FirstHeight .. MaxHeight /\ now' = now + 1
    BY <1>1, <1>2, HeadersAssumption DEF Tick
  <2>2. TypeOK'
    BY <1>1, <1>2, <2>1 DEF Tick, TypeOK, FetchType
  <2> QED BY <1>2, <2>1, <2>2, HeadersOutside DEF Tick
<1>3. CASE UpdateClient
  <2>1. PICK h \in FirstHeight .. now, gone \in {{}} \cup {{s} : s \in {s \in client : Expired(s)}} :
          /\ client' = (client \cup {State(h)}) \ gone
          /\ steady' = steady \ gone
          /\ UNCHANGED <<now, fetch, faults>>
    BY <1>3 DEF UpdateClient
  <2>2. \A s \in gone : Expired(s)
    OBVIOUS
  <2>3. h \in FirstHeight .. MaxHeight
    BY <1>1, HeadersAssumption
  <2>4. client' \subseteq States /\ steady' \subseteq client' /\ steady' \subseteq steady
    BY <1>1, <2>1, <2>3 DEF TypeOK, States
  <2>5. TypeOK'
    BY <1>1, <2>1, <2>4 DEF TypeOK, FetchType
  <2>6. \A s \in client : s \in client' \/ Expired(s)
    BY <2>1, <2>2
  <2> QED BY <2>1, <2>4, <2>5, <2>6, HeadersOutside
<1> QED BY <1>2, <1>3

LEMMA HeadersFetch ==
    ASSUME HeadersInv, NEW h \in Wanted, Fetch(h)
    PROVE  HeadersInv'
<1>1. CASE Fails
  BY <1>1, HeadersFail
<1>2. CASE /\ fetch' = [Idle EXCEPT !.pc = "page", !.height = h]
           /\ steady' = client
           /\ UNCHANGED <<now, client, faults>>
  <2>1. h \in FirstHeight .. MaxHeight + 1 /\ h \in Nat
    BY HeadersAssumption
  <2>2. /\ fetch' \in FetchType /\ fetch'.pc = "page" /\ fetch'.height = h
        /\ fetch'.nextKey = NoState /\ fetch'.trusted = NoState
    BY <1>2, <2>1 DEF Idle, FetchType
  <2>3. TypeOK'
    BY <1>2, <2>2 DEF HeadersInv, TypeOK
  <2> QED
    BY <2>1, <2>2, <2>3 DEF HeadersInv, PagesInv, StillToCome, NothingMissed, TrustedInv
<1> QED BY <1>1, <1>2 DEF Fetch

LEMMA HeadersPage ==
    ASSUME HeadersInv, ConsensusStates
    PROVE  HeadersInv'
<1>1. CASE Fails
  BY <1>1, HeadersFail
<1>2. CASE /\ fetch' = [fetch EXCEPT !.pc = "scan", !.page = Listed, !.nextKey = NextKey]
           /\ UNCHANGED <<now, client, faults, steady>>
  <2>1. /\ TypeOK /\ fetch \in FetchType /\ fetch.pc = "page"
        /\ client \subseteq States /\ steady \subseteq client
    BY DEF HeadersInv, TypeOK, ConsensusStates
  <2>2. /\ Listed \subseteq client
        /\ NextKey \in States \cup {NoState}
        /\ \A s \in Rest : s \in Listed \/ (NextKey # NoState /\ ~Above(s, NextKey))
    <3>1. Rest \subseteq States
      BY <2>1 DEF Rest
    <3> QED BY <2>1, <3>1, PageIs
  <2>3. /\ fetch' \in FetchType /\ fetch'.pc = "scan" /\ fetch'.height = fetch.height
        /\ fetch'.page = Listed /\ fetch'.nextKey = NextKey /\ fetch'.trusted = fetch.trusted
    BY <1>2, <2>1, <2>2 DEF FetchType
  <2>4. TypeOK'
    BY <1>2, <2>1, <2>3 DEF TypeOK
  <2>5. ASSUME NEW s \in steady', IsSuitableCS(s)'
        PROVE  s \in fetch'.page \/ (fetch'.nextKey # NoState /\ StillToCome(s)')
    <3>1. IsSuitableCS(s)
      BY <1>2, <2>3, <2>5 DEF IsSuitableCS
    <3>2. s \in Rest
      BY <1>2, <2>1, <3>1 DEF HeadersInv, PagesInv, StillToCome, Rest
    <3> QED BY <2>2, <2>3, <3>2 DEF StillToCome
  <2>6. PagesInv'
    BY <1>2, <2>2, <2>3, <2>5 DEF PagesInv
  <2> QED BY <2>1, <2>3, <2>4, <2>6 DEF HeadersInv, NothingMissed, TrustedInv
<1> QED BY <1>1, <1>2 DEF ConsensusStates

LEMMA HeadersScan ==
    ASSUME HeadersInv, GetTrustedHeight
    PROVE  HeadersInv'
<1>1. /\ TypeOK /\ fetch \in FetchType /\ fetch.pc = "scan" /\ fetch.trusted = NoState
      /\ UNCHANGED <<now, client, faults, steady>>
      /\ now \in Nat /\ now \in FirstHeight .. now
      /\ fetch.height \in FirstHeight .. MaxHeight + 1
      /\ SubmissionMargin \in Nat /\ TrustingPeriod \in Nat
  <2>1. TypeOK /\ now \in FirstHeight .. MaxHeight
    BY DEF HeadersInv, TypeOK
  <2> QED BY <2>1, HeadersAssumption DEF HeadersInv, TypeOK, GetTrustedHeight
<1>2. CASE Suitable # {}
  <2> DEFINE chosen == FirstSuitable
  <2>1. Suitable \subseteq States /\ Suitable \subseteq fetch.page
    BY <1>1 DEF Suitable, FetchType
  <2>2. \E s \in Suitable : \A t \in Suitable : t = s \/ Above(s, t)
    <3>1. PICK s \in Suitable : \A t \in Suitable : Key(t) <= Key(s)
      BY <1>2, <2>1, HighestExists
    <3>2. \A t \in Suitable : Key(t) \in Nat
      BY <2>1, KeyIs
    <3>3. \A t \in Suitable : t = s \/ Above(s, t)
      BY <2>1, <3>1, <3>2, KeyOrder
    <3> QED BY <3>3
  <2>3. chosen \in Suitable
    BY <2>2 DEF FirstSuitable
  <2>4. fetch' = [fetch EXCEPT !.pc = "header", !.trusted = chosen, !.foundAt = now]
    BY <1>2 DEF GetTrustedHeight
  <2> HIDE DEF chosen
  <2>5. /\ chosen \in States /\ chosen \in fetch.page /\ chosen # NoState /\ chosen.time \in Nat
        /\ chosen.rev = Revision /\ chosen.height < fetch.height
        /\ chosen.time + TrustingPeriod - SubmissionMargin > now
    BY <2>1, <2>3, StateIs DEF Suitable, IsSuitableCS
  <2>6. /\ fetch' \in FetchType /\ fetch'.pc = "header" /\ fetch'.height = fetch.height
        /\ fetch'.trusted = chosen /\ fetch'.foundAt = now
    BY <1>1, <2>4, <2>5 DEF FetchType
  <2>7. TypeOK'
    BY <1>1, <2>5, <2>6 DEF TypeOK
  <2>8. chosen \in client
    BY <1>1, <2>5 DEF HeadersInv, PagesInv, Expired
  <2> QED BY <1>1, <2>5, <2>6, <2>7, <2>8 DEF HeadersInv, PagesInv, NothingMissed, TrustedInv
<1>3. CASE Suitable = {}
  <2>1. \A s \in fetch.page : ~IsSuitableCS(s)
    BY <1>3 DEF Suitable
  <2>2. \A s \in steady : IsSuitableCS(s) => fetch.nextKey # NoState /\ StillToCome(s)
    BY <1>1, <2>1 DEF HeadersInv, PagesInv
  <2>3. /\ fetch' = [fetch EXCEPT !.pc = IF fetch.nextKey # NoState THEN "page" ELSE "none"]
    BY <1>3 DEF GetTrustedHeight
  <2>4. /\ fetch' \in FetchType /\ fetch'.height = fetch.height /\ fetch'.nextKey = fetch.nextKey
        /\ fetch'.trusted = NoState
        /\ fetch'.pc = IF fetch.nextKey # NoState THEN "page" ELSE "none"
    BY <1>1, <2>3 DEF FetchType
  <2>5. TypeOK'
    BY <1>1, <2>4 DEF TypeOK
  <2>6. \A s \in steady' : IsSuitableCS(s)' => fetch.nextKey # NoState /\ StillToCome(s)'
    BY <1>1, <2>2, <2>4 DEF IsSuitableCS, StillToCome
  <2> QED BY <1>1, <2>4, <2>5, <2>6 DEF HeadersInv, PagesInv, NothingMissed, TrustedInv
<1> QED BY <1>2, <1>3

LEMMA HeadersHeader ==
    ASSUME HeadersInv, TrustedHeaderAtHeight
    PROVE  HeadersInv'
<1>1. CASE Fails
  BY <1>1, HeadersFail
<1>2. CASE /\ fetch.height <= now
           /\ fetch' = [fetch EXCEPT !.pc = "submit"]
           /\ UNCHANGED <<now, client, faults, steady>>
  <2>1. TypeOK /\ fetch \in FetchType /\ fetch.pc = "header"
    BY DEF HeadersInv, TypeOK, TrustedHeaderAtHeight
  <2>2. /\ fetch' \in FetchType /\ fetch'.pc = "submit" /\ fetch'.height = fetch.height
        /\ fetch'.trusted = fetch.trusted /\ fetch'.foundAt = fetch.foundAt
    BY <1>2, <2>1 DEF FetchType
  <2>3. TypeOK'
    BY <1>2, <2>1, <2>2 DEF TypeOK
  <2>4. Expired(fetch.trusted)' <=> Expired(fetch.trusted)
    BY <1>2, <2>2 DEF Expired
  <2> QED
    BY <1>2, <2>1, <2>2, <2>3, <2>4 DEF HeadersInv, PagesInv, NothingMissed, TrustedInv, Expired
<1>3. CASE fetch' = Idle /\ UNCHANGED <<now, client, faults, steady>>
  BY <1>3, HeadersIdle DEF HeadersInv, TypeOK
<1> QED BY <1>1, <1>2, <1>3 DEF TrustedHeaderAtHeight

LEMMA HeadersSubmit ==
    ASSUME HeadersInv, Submit
    PROVE  HeadersInv'
<1>1. TypeOK /\ fetch.height \in FirstHeight .. MaxHeight
  <2>1. /\ TypeOK /\ now \in FirstHeight .. MaxHeight
        /\ fetch.height \in FirstHeight .. MaxHeight + 1 /\ fetch.height <= now
    BY DEF HeadersInv, TypeOK, Submit
  <2> QED BY <2>1, HeadersAssumption
<1>2. /\ fetch' = Idle /\ UNCHANGED <<now, faults, steady>>
      /\ client' \in {client, client \cup {State(fetch.height)}}
  BY DEF Submit
<1>3. client' \subseteq States /\ steady' \subseteq client' /\ faults' \in 0 .. MaxFaults
  BY <1>1, <1>2 DEF TypeOK, States
<1> QED BY <1>1, <1>2, <1>3, HeadersIdle

LEMMA HeadersStep == HeadersInv /\ [Next]_vars => HeadersInv'
<1> SUFFICES ASSUME HeadersInv, [Next]_vars PROVE HeadersInv'
  OBVIOUS
<1>1. CASE UNCHANGED vars
  BY <1>1
  DEF vars, HeadersInv, TypeOK, PagesInv, StillToCome, NothingMissed, TrustedInv, IsSuitableCS,
      Expired
<1>2. CASE Next
  BY <1>2, HeadersClient, HeadersFetch, HeadersPage, HeadersScan, HeadersHeader, HeadersSubmit
  DEF Next
<1> QED BY <1>1, <1>2

THEOREM HeadersCorrect == Spec => []HeadersInv
BY HeadersInit, HeadersStep, PTL DEF Spec

\* The fetch, the client and the history keep the shapes declared for them.
\* A header is asked for exactly when a trusted state was found.
THEOREM HeadersTypeCorrect == Spec => []TypeOK
BY HeadersCorrect, PTL DEF HeadersInv

\* A fetch that gives up has missed no suitable state, whatever the size of
\* the pages and whatever comes to the client or leaves it between them.
THEOREM NothingMissedCorrect == Spec => []NothingMissed
BY HeadersCorrect, PTL DEF HeadersInv

\* The client takes a header that is submitted within the margin.
THEOREM TrustedCorrect == Spec => []TrustedUntilSubmitted
<1>1. HeadersInv => TrustedUntilSubmitted
  <2> SUFFICES ASSUME HeadersInv, fetch.pc = "submit", now - fetch.foundAt <= SubmissionMargin
               PROVE  /\ fetch.trusted \in client /\ fetch.trusted.rev = Revision
                      /\ fetch.trusted.height < fetch.height /\ ~Expired(fetch.trusted)
    BY DEF TrustedUntilSubmitted
  <2>1. /\ fetch.trusted \in States /\ now \in FirstHeight .. MaxHeight
        /\ fetch.foundAt \in Nat
    BY DEF HeadersInv, TypeOK, FetchType
  <2>2. fetch.trusted.time \in Nat
    BY <2>1, StateIs
  <2>3. ~Expired(fetch.trusted)
    BY <2>1, <2>2, HeadersAssumption DEF HeadersInv, TrustedInv, Expired
  <2> QED BY <2>3 DEF HeadersInv, TrustedInv
<1> QED BY <1>1, HeadersCorrect, PTL

----------------------------------------------------------------------------
(***************************************************************************)
(* The end of a listing.                                                   *)
(***************************************************************************)
\* The consensus states that later pages may show.
Ahead == {s \in States : StillToCome(s)}

\* A page that is not the last one has a state, and none of its states can
\* be on a later one.
ListingDescends ==
    [][fetch.pc = "page" /\ fetch'.pc = "scan" /\ fetch'.nextKey # NoState =>
          /\ Ahead' \subseteq Ahead
          /\ fetch'.page # {} /\ fetch'.page \subseteq Ahead \ Ahead']_vars

\* The key of a page is a state below all of the page.
LEMMA KeyIsBelow ==
    ASSUME client \subseteq States, NextKey # NoState
    PROVE  /\ NextKey \in Rest
           /\ Listed # {} /\ \A s \in Listed : s \in Rest /\ Above(s, NextKey)
<1> DEFINE S == Rest
           k == NextKey
<1>1. S \in SUBSET States
  BY DEF Rest
<1>2. \A s \in S : Position(s) = Cardinality(Over(S, s))
  BY DEF Position, Over
<1>3. Listed = {s \in S : Position(s) < PageSize}
  BY DEF Listed
<1>4. ~(Cardinality(S) <= PageSize) /\ k = CHOOSE s \in S : Position(s) = PageSize
  BY DEF NextKey
<1> HIDE DEF S, k
<1>5. IsFiniteSet(S) /\ \A T \in SUBSET S : IsFiniteSet(T) /\ Cardinality(T) \in Nat
  <2>1. IsFiniteSet(S)
    BY <1>1, StatesFinite, FS_Subset
  <2> QED BY <2>1, FS_Subset, FS_CardinalityType
<1>6. Cardinality(S) > PageSize /\ PageSize \in Nat \ {0}
  BY <1>4, <1>5, HeadersAssumption
<1>7. k \in S /\ Cardinality(Over(S, k)) = PageSize
  <2>1. \E s \in S : Cardinality(Over(S, s)) = PageSize
    BY <1>1, <1>6, PositionTaken
  <2>2. \E s \in S : Position(s) = PageSize
    BY <1>2, <2>1
  <2>3. k \in S /\ Position(k) = PageSize
    BY <1>4, <2>2
  <2> QED BY <1>2, <2>3
<1>8. Listed # {}
  <2>1. PICK s \in S : Cardinality(Over(S, s)) = 0
    <3>1. 0 \in Nat /\ Cardinality(S) > 0
      BY <1>5, <1>6
    <3> QED BY <1>1, <3>1, PositionTaken
  <2> QED BY <1>2, <1>3, <1>6, <2>1
<1>9. ASSUME NEW s \in Listed
      PROVE  s \in S /\ Above(s, k)
  <2>1. s \in S /\ Cardinality(Over(S, s)) < PageSize
    BY <1>2, <1>3
  <2>2. Over(S, s) \in SUBSET S /\ Over(S, k) \in SUBSET S
    BY DEF Over
  <2>3. Cardinality(Over(S, s)) \in Nat /\ IsFiniteSet(Over(S, s))
    BY <1>5, <2>2
  <2>4. SUFFICES ASSUME ~Above(s, k) PROVE FALSE
    BY <2>1
  <2>5. Over(S, k) \subseteq Over(S, s)
    <3>1. \A u \in S : Key(u) \in Nat
      BY <1>1, KeyIs
    <3>2. \A u, v \in S : Above(u, v) <=> Key(u) > Key(v)
      BY <1>1, KeyOrder
    <3>3. Key(s) <= Key(k)
      BY <1>7, <2>1, <2>4, <3>1, <3>2
    <3>4. \A u \in S : Key(u) > Key(k) => Key(u) > Key(s)
      BY <1>7, <2>1, <3>1, <3>3
    <3> QED BY <1>7, <2>1, <3>2, <3>4 DEF Over
  <2>6. Cardinality(Over(S, k)) <= Cardinality(Over(S, s))
    BY <2>3, <2>5, FS_Subset
  <2> QED BY <1>6, <1>7, <2>1, <2>3, <2>6
<1> QED BY <1>7, <1>8, <1>9 DEF S, k

\* getTrustedHeight ends: the pages of one listing go down the order of the
\* keys without showing a state twice, however other relayers add states to
\* the client above and below and the client forgets the key itself, so that
\* it asks for no more pages than the client can have states.
THEOREM DescentCorrect == Spec => ListingDescends
<1>1. ASSUME TypeOK, [Next]_vars, fetch.pc = "page", fetch'.pc = "scan",
             fetch'.nextKey # NoState
      PROVE  /\ Ahead' \subseteq Ahead
             /\ fetch'.page # {} /\ fetch'.page \subseteq Ahead \ Ahead'
  <2>1. fetch' = [fetch EXCEPT !.pc = "scan", !.page = Listed, !.nextKey = NextKey]
    <3>1. fetch' # fetch /\ fetch' # Idle
      BY <1>1, IdleIs
    <3>2. ~\E h \in Wanted : Fetch(h)
      BY <1>1 DEF Fetch
    <3> QED
      BY <1>1, <3>1, <3>2
      DEF Next, vars, Tick, UpdateClient, ConsensusStates, GetTrustedHeight,
          TrustedHeaderAtHeight, Submit, Fails
  <2>2. /\ client \subseteq States /\ fetch \in FetchType
        /\ fetch'.page = Listed /\ fetch'.nextKey = NextKey
    BY <1>1, <2>1 DEF TypeOK, FetchType
  <2>3. /\ NextKey \in Rest /\ NextKey \in States
        /\ Listed # {} /\ \A s \in Listed : s \in Rest /\ s \in States /\ Above(s, NextKey)
    BY <1>1, <2>2, KeyIsBelow DEF Rest
  <2> DEFINE k == NextKey
             old == fetch.nextKey
  <2>4. \A s \in Rest : StillToCome(s)
    BY DEF Rest, StillToCome
  <2>5. \A s : StillToCome(s)' <=> ~Above(s, k)
    BY <1>1, <2>2 DEF StillToCome
  <2>6. \A s \in Listed : s \in Ahead /\ s \notin Ahead'
    BY <2>3, <2>4, <2>5 DEF Ahead
  <2>7. ASSUME NEW s \in States, ~Above(s, k)
        PROVE  StillToCome(s)
    <3>1. CASE old = NoState
      BY <3>1 DEF StillToCome
    <3>2. CASE old # NoState
      <4>1. old \in States /\ ~Above(k, old)
        BY <2>2, <2>3, <2>4, <3>2 DEF FetchType, StillToCome
      <4>2. k \in States
        BY <2>3
      <4> HIDE DEF k, old
      <4>3. Key(s) \in Nat /\ Key(k) \in Nat /\ Key(old) \in Nat
        BY <4>1, <4>2, KeyIs
      <4>4. Key(s) <= Key(k) /\ Key(k) <= Key(old)
        BY <2>7, <4>1, <4>2, <4>3, KeyOrder
      <4>5. ~Above(s, old)
        BY <4>1, <4>3, <4>4, KeyOrder
      <4> QED BY <4>5 DEF StillToCome, old
    <3> QED BY <3>1, <3>2
  <2>8. Ahead' \subseteq Ahead
    BY <2>5, <2>7 DEF Ahead
  <2> QED BY <2>2, <2>3, <2>6, <2>8
<1>2. TypeOK /\ [Next]_vars =>
        [fetch.pc = "page" /\ fetch'.pc = "scan" /\ fetch'.nextKey # NoState =>
           /\ Ahead' \subseteq Ahead
           /\ fetch'.page # {} /\ fetch'.page \subseteq Ahead \ Ahead']_vars
  BY <1>1
<1> QED BY <1>2, HeadersTypeCorrect, PTL DEF Spec, ListingDescends
=============================================================================
