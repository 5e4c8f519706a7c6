-------------------------- MODULE MCPublishedProofs --------------------------
(***************************************************************************)
(* Proofs about a listing walked page by page, for any rows, sort keys and *)
(* page sizes and any changes made meanwhile; about the cluster buys, for  *)
(* any purchases and any grid, and any number of runs that overlap; and    *)
(* about everything that is published, together.                           *)
(***************************************************************************)
EXTENDS MCPublished, RecomputeProofs, PublishedProofs, SequenceTheorems, TLAPS

-----------------------------------------------------------------------------
(* Pages.                                                                  *)

\* The sort keys of a row, its id last.
RowKeys == {Append(v, l) : v \in SortValues, l \in Lines}
Width == Len(keyset)

LEMMA KeysAre ==
    ASSUME keyset \in Keysets, NEW v \in SortValues, NEW l \in Lines
    PROVE  LET p == Append(v, l) IN
           /\ Width \in Nat \ {0, 1} /\ DOMAIN keyset = 1 .. Width
           /\ \A i \in 1 .. Width : keyset[i] \in BOOLEAN
           /\ p \in RowKeys /\ DOMAIN p = 1 .. Width /\ p \in Seq(Int) /\ Len(p) = Width
           /\ p[Width] = l /\ \A i \in 1 .. Width : p[i] \in Int
           /\ p # FirstPage /\ p # LastPage
<1>1. v \in Seq(Int) /\ v # <<>> /\ keyset \in Seq(BOOLEAN) /\ Len(keyset) = Len(v) + 1 /\ l \in Int
  BY PagesAssumption
<1>2. Len(v) \in Nat \ {0}
  BY <1>1
<1>3. Append(v, l) \in Seq(Int) /\ Len(Append(v, l)) = Len(v) + 1 /\ Append(v, l)[Len(v) + 1] = l
  BY <1>1
<1>4. Len(FirstPage) = 1 /\ Len(LastPage) = 1
  BY DEF FirstPage, LastPage
<1> DEFINE p == Append(v, l)
<1>5. p \in RowKeys
  BY DEF RowKeys
<1> HIDE DEF p
<1>6. p \in Seq(Int) /\ Len(p) = Width /\ Width = Len(v) + 1 /\ p[Width] = l
  BY <1>1, <1>3 DEF p, Width
<1>7. Width \in Nat \ {0, 1}
  BY <1>2, <1>6
<1>8. DOMAIN keyset = 1 .. Width /\ \A i \in 1 .. Width : keyset[i] \in BOOLEAN
  BY <1>1, LenProperties, ElementOfSeq DEF Width
<1>9. DOMAIN p = 1 .. Width /\ \A i \in 1 .. Width : p[i] \in Int
  BY <1>6, LenProperties, ElementOfSeq
<1>10. p # FirstPage /\ p # LastPage
  BY <1>4, <1>6, <1>7
<1> QED  BY <1>5, <1>6, <1>7, <1>8, <1>9, <1>10 DEF p

LEMMA KeyFacts ==
    ASSUME keyset \in Keysets, NEW p \in RowKeys
    PROVE  /\ Width \in Nat \ {0, 1} /\ DOMAIN keyset = 1 .. Width
           /\ \A i \in 1 .. Width : keyset[i] \in BOOLEAN
           /\ DOMAIN p = 1 .. Width /\ p \in Seq(Int) /\ Len(p) = Width
           /\ \A i \in 1 .. Width : p[i] \in Int
           /\ p # FirstPage /\ p # LastPage
<1>1. PICK v \in SortValues, l \in Lines : p = Append(v, l)
  BY DEF RowKeys
<1> QED  BY <1>1, KeysAre

\* The first key by which two differ.
LEMMA FirstDiffer ==
    ASSUME keyset \in Keysets, NEW p \in RowKeys, NEW q \in RowKeys, p # q
    PROVE  \E i \in 1 .. Width : p[i] # q[i] /\ \A j \in 1 .. i - 1 : p[j] = q[j]
<1> DEFINE differ == {i \in 1 .. Width : p[i] # q[i]}
<1>1. differ # {} /\ differ \in SUBSET Nat
  BY KeyFacts
<1>2. PICK i \in differ : \A j \in differ : i <= j
  BY <1>1, LeastOf
<1> QED  BY <1>2, KeyFacts

LEMMA SortsTotal ==
    ASSUME keyset \in Keysets, NEW p \in RowKeys, NEW q \in RowKeys, p # q
    PROVE  Sorts(p, q) \/ Sorts(q, p)
<1>1. PICK i \in 1 .. Width : p[i] # q[i] /\ \A j \in 1 .. i - 1 : p[j] = q[j]
  BY FirstDiffer
<1>2. p[i] \in Int /\ q[i] \in Int /\ i \in DOMAIN keyset
  BY KeyFacts
<1>3. p[i] < q[i] \/ q[i] < p[i]
  BY <1>1, <1>2
<1> QED  BY <1>1, <1>2, <1>3 DEF Sorts

LEMMA SortsStrict ==
    ASSUME keyset \in Keysets, NEW p \in RowKeys
    PROVE  ~Sorts(p, p)
  BY KeyFacts DEF Sorts

LEMMA SortsTransitive ==
    ASSUME keyset \in Keysets, NEW p \in RowKeys, NEW q \in RowKeys, NEW o \in RowKeys,
           Sorts(p, q), Sorts(q, o)
    PROVE  Sorts(p, o)
<1>1. PICK i \in 1 .. Width : /\ \A j \in 1 .. i - 1 : p[j] = q[j]
                              /\ IF keyset[i] THEN p[i] > q[i] ELSE p[i] < q[i]
  BY KeyFacts DEF Sorts
<1>2. PICK k \in 1 .. Width : /\ \A j \in 1 .. k - 1 : q[j] = o[j]
                              /\ IF keyset[k] THEN q[k] > o[k] ELSE q[k] < o[k]
  BY KeyFacts DEF Sorts
<1>3. Width \in Nat /\ DOMAIN keyset = 1 .. Width
      /\ \A j \in 1 .. Width : p[j] \in Int /\ q[j] \in Int /\ o[j] \in Int
  BY KeyFacts
<1>4. CASE i < k
  <2>1. \A j \in 1 .. i - 1 : p[j] = o[j]
    BY <1>1, <1>2, <1>3, <1>4
  <2>2. q[i] = o[i]
    BY <1>2, <1>3, <1>4
  <2> QED  BY <1>1, <1>3, <2>1, <2>2 DEF Sorts
<1>5. CASE k < i
  <2>1. \A j \in 1 .. k - 1 : p[j] = o[j]
    BY <1>1, <1>2, <1>3, <1>5
  <2>2. p[k] = q[k]
    BY <1>1, <1>3, <1>5
  <2> QED  BY <1>2, <1>3, <2>1, <2>2 DEF Sorts
<1>6. CASE i = k
  <2>1. \A j \in 1 .. i - 1 : p[j] = o[j]
    BY <1>1, <1>2, <1>3, <1>6
  <2>2. IF keyset[i] THEN p[i] > o[i] ELSE p[i] < o[i]
    BY <1>1, <1>2, <1>3, <1>6
  <2> QED  BY <1>3, <2>1, <2>2 DEF Sorts
<1> QED  BY <1>3, <1>4, <1>5, <1>6

\* The row comparison of PostgreSQL, and the clause a key, are what the order has after.
LEMMA RowLessIs ==
    ASSUME keyset \in Keysets, NEW p \in RowKeys, NEW q \in RowKeys
    PROVE  RowLess(p, q) <=> \E i \in 1 .. Width : (\A j \in 1 .. i - 1 : p[j] = q[j]) /\ p[i] < q[i]
<1> DEFINE differ == {i \in DOMAIN p : p[i] # q[i]}
<1>1. DOMAIN p = 1 .. Width /\ Width \in Nat /\ \A j \in 1 .. Width : p[j] \in Int /\ q[j] \in Int
  BY KeyFacts
<1>2. CASE differ = {}
  <2>1. ~RowLess(p, q)
    BY <1>2 DEF RowLess
  <2> QED  BY <1>1, <1>2, <2>1
<1>3. CASE differ # {}
  <2>0. differ \in SUBSET Nat
    BY <1>1
  <2>1. \E i \in differ : \A j \in differ : i <= j
    <3> HIDE DEF differ
    <3> QED  BY <1>3, <2>0, LeastOf
  <2> DEFINE first == CHOOSE i \in differ : \A j \in differ : i <= j
  <2>2. first \in differ /\ \A j \in differ : first <= j
    BY <2>1
  <2>3. RowLess(p, q) <=> p[first] < q[first]
    BY <1>3 DEF RowLess
  <2> HIDE DEF first
  <2>4. \A j \in 1 .. first - 1 : p[j] = q[j]
    <3> SUFFICES ASSUME NEW j \in 1 .. first - 1 PROVE p[j] = q[j]
      OBVIOUS
    <3>1. first \in 1 .. Width
      BY <1>1, <2>2
    <3>2. j \in 1 .. Width /\ ~(first <= j)
      BY <1>1, <3>1
    <3> QED  BY <1>1, <2>2, <3>2
  <2>5. ASSUME NEW i \in 1 .. Width, \A j \in 1 .. i - 1 : p[j] = q[j], p[i] < q[i]
        PROVE  i = first
    BY <1>1, <2>2, <2>5
  <2> QED  BY <1>1, <2>2, <2>3, <2>4, <2>5
<1> QED  BY <1>2, <1>3

LEMMA AfterIs ==
    ASSUME keyset \in Keysets, NEW p \in RowKeys, NEW q \in RowKeys
    PROVE  After(p, q) <=> Sorts(q, p)
<1>1. DOMAIN keyset = 1 .. Width /\ Width \in Nat \ {0, 1}
      /\ \A j \in 1 .. Width : p[j] \in Int /\ q[j] \in Int
  BY KeyFacts
<1>2. CASE ~OneWay
  BY <1>1, <1>2 DEF After, Beyond, Sorts
<1>3. CASE OneWay /\ keyset[1]
  <2>1. \A i \in 1 .. Width : keyset[i]
    BY <1>1, <1>3 DEF OneWay
  <2>2. After(p, q) <=> RowLess(p, q)
    BY <1>3 DEF After
  <2> QED  BY <1>1, <2>1, <2>2, RowLessIs DEF Sorts
<1>4. CASE OneWay /\ ~keyset[1]
  <2>1. \A i \in 1 .. Width : ~keyset[i]
    BY <1>1, <1>4, KeyFacts DEF OneWay
  <2>2. After(p, q) <=> RowLess(q, p)
    BY <1>4 DEF After
  <2> QED  BY <1>1, <2>1, <2>2, RowLessIs DEF Sorts
<1> QED  BY <1>2, <1>3, <1>4

-----------------------------------------------------------------------------
(* A page.                                                                 *)

LEMMA KeysOfRows ==
    ASSUME keyset \in Keysets, row \in [Lines -> SortValues \cup {Absent}]
    PROVE  /\ There \subseteq Lines /\ IsFiniteSet(There)
           /\ \A l \in There : KeysOf(l) \in RowKeys
           /\ \A l, m \in There : l # m => Sorts(KeysOf(l), KeysOf(m)) \/ Sorts(KeysOf(m), KeysOf(l))
<1>1. There \subseteq Lines /\ IsFiniteSet(There)
  BY PagesAssumption, FS_Subset DEF There
<1>2. ASSUME NEW l \in There PROVE KeysOf(l) \in RowKeys /\ KeysOf(l)[Width] = l
  <2>1. row[l] \in SortValues /\ l \in Lines
    BY DEF There
  <2> QED  BY <2>1, KeysAre DEF KeysOf
<1>3. ASSUME NEW l \in There, NEW m \in There, l # m
      PROVE  Sorts(KeysOf(l), KeysOf(m)) \/ Sorts(KeysOf(m), KeysOf(l))
  <2>1. KeysOf(l) # KeysOf(m)
    BY <1>2, <1>3
  <2> QED  BY <1>2, <2>1, SortsTotal
<1> QED  BY <1>1, <1>2, <1>3

LEMMA PlaceIs ==
    ASSUME keyset \in Keysets, row \in [Lines -> SortValues \cup {Absent}], NEW S \in SUBSET There
    PROVE  /\ Cardinality(S) \in Nat
           /\ \A l \in S : Place(l, S) \in 1 .. Cardinality(S)
           /\ \A l, m \in S : Sorts(KeysOf(l), KeysOf(m)) => Place(l, S) < Place(m, S)
           /\ \A i \in 1 .. Cardinality(S) : \E l \in S : Place(l, S) = i
<1> DEFINE upTo(l) == {m \in S : m = l \/ Sorts(KeysOf(m), KeysOf(l))}
<1>1. IsFiniteSet(S) /\ Cardinality(S) \in Nat /\ \A l \in S : KeysOf(l) \in RowKeys
  BY KeysOfRows, FS_Subset, FS_CardinalityType
<1>2. ASSUME NEW l \in S PROVE IsFiniteSet(upTo(l)) /\ Place(l, S) = Cardinality(upTo(l))
                               /\ Place(l, S) \in 1 .. Cardinality(S)
  <2>1. upTo(l) \subseteq S /\ l \in upTo(l)
    OBVIOUS
  <2>2. IsFiniteSet(upTo(l)) /\ Cardinality(upTo(l)) <= Cardinality(S)
    BY <1>1, <2>1, FS_Subset
  <2>3. Cardinality(upTo(l)) \in Nat /\ Cardinality(upTo(l)) # 0
    BY <2>1, <2>2, FS_CardinalityType, FS_EmptySet
  <2>4. Place(l, S) = Cardinality(upTo(l))
    BY DEF Place
  <2> HIDE DEF upTo
  <2> QED  BY <1>1, <2>2, <2>3, <2>4
<1>3. ASSUME NEW l \in S, NEW m \in S, Sorts(KeysOf(l), KeysOf(m))
      PROVE  Place(l, S) < Place(m, S)
  <2>1. upTo(l) \subseteq upTo(m)
    BY <1>1, <1>3, SortsTransitive
  <2>2. m \in upTo(m) /\ m \notin upTo(l)
    <3>1. ~Sorts(KeysOf(m), KeysOf(m)) /\ ~Sorts(KeysOf(m), KeysOf(l))
      BY <1>1, <1>3, SortsTransitive, SortsStrict
    <3> QED  BY <1>3, <3>1
  <2> HIDE DEF upTo
  <2>3. Cardinality(upTo(l)) <= Cardinality(upTo(m)) /\ Cardinality(upTo(l)) # Cardinality(upTo(m))
    BY <1>2, <2>1, <2>2, FS_Subset
  <2> QED  BY <1>1, <1>2, <2>3
<1>5. \A l \in S : Place(l, S) \in 1 .. Cardinality(S)
  BY <1>2
<1> HIDE DEF upTo
<1>4. ASSUME NEW i \in 1 .. Cardinality(S) PROVE \E l \in S : Place(l, S) = i
  <2> DEFINE f == [l \in S |-> Place(l, S)]
  <2>1. \A l, m \in S : l # m => Place(l, S) # Place(m, S)
    <3> SUFFICES ASSUME NEW l \in S, NEW m \in S, l # m PROVE Place(l, S) # Place(m, S)
      OBVIOUS
    <3>1. Place(l, S) \in Int /\ Place(m, S) \in Int
      BY <1>1, <1>5
    <3>2. Sorts(KeysOf(l), KeysOf(m)) \/ Sorts(KeysOf(m), KeysOf(l))
      BY KeysOfRows
    <3> QED  BY <1>3, <3>1, <3>2
  <2>2. f \in Injection(S, 1 .. Cardinality(S))
    BY <1>2, <2>1 DEF Injection, IsInjective
  <2>3. IsFiniteSet(1 .. Cardinality(S)) /\ Cardinality(1 .. Cardinality(S)) = Cardinality(S)
    BY <1>1, FS_Interval
  <2>4. f \in Surjection(S, 1 .. Cardinality(S))
    <3> HIDE DEF f
    <3> QED  BY <2>2, <2>3, FS_Injection
  <2> QED  BY <2>4 DEF Surjection
<1> QED  BY <1>1, <1>2, <1>3, <1>4

\* The first k rows in the order.
FirstOf(k, S) == [i \in 1 .. k |-> CHOOSE l \in S : Place(l, S) = i]

LEMMA FirstOfIs ==
    ASSUME keyset \in Keysets, row \in [Lines -> SortValues \cup {Absent}], NEW S \in SUBSET There,
           NEW k \in 0 .. Cardinality(S)
    PROVE  LET page == FirstOf(k, S) IN
           /\ page \in Seq(Lines) /\ Len(page) = k /\ DOMAIN page = 1 .. k
           /\ \A i \in 1 .. k : page[i] \in S /\ Place(page[i], S) = i
           /\ \A i, j \in 1 .. k : i < j => Sorts(KeysOf(page[i]), KeysOf(page[j]))
           /\ \A l \in S : \/ \E i \in 1 .. k : page[i] = l
                           \/ \A i \in 1 .. k : Sorts(KeysOf(page[i]), KeysOf(l))
<1> DEFINE page == FirstOf(k, S)
<1>1. Cardinality(S) \in Nat /\ k \in Nat /\ S \subseteq Lines
  BY PlaceIs, KeysOfRows
<1>2. \A i \in 1 .. k : i \in 1 .. Cardinality(S)
  BY <1>1
<1>3. \A i \in 1 .. k : page[i] \in S /\ Place(page[i], S) = i
  BY <1>2, PlaceIs DEF FirstOf
<1>4. page \in [1 .. k -> Lines]
  BY <1>1, <1>3 DEF FirstOf
<1> HIDE DEF page
<1>5. page \in Seq(Lines) /\ Len(page) = k /\ DOMAIN page = 1 .. k
  BY <1>1, <1>4, SeqDef
<1>6. \A l \in S : Place(l, S) \in Int
  BY <1>1, PlaceIs
<1>7. ASSUME NEW l \in S, NEW m \in S, Place(l, S) < Place(m, S) PROVE Sorts(KeysOf(l), KeysOf(m))
  <2>1. l # m
    BY <1>6, <1>7
  <2>2. Sorts(KeysOf(m), KeysOf(l)) => Place(m, S) < Place(l, S)
    BY PlaceIs
  <2>3. Sorts(KeysOf(l), KeysOf(m)) \/ Sorts(KeysOf(m), KeysOf(l))
    BY <2>1, KeysOfRows
  <2> QED  BY <1>6, <1>7, <2>2, <2>3
<1>8. \A i, j \in 1 .. k : i < j => Sorts(KeysOf(page[i]), KeysOf(page[j]))
  BY <1>3, <1>7
<1>9. ASSUME NEW l \in S, ~\E i \in 1 .. k : page[i] = l
      PROVE  \A i \in 1 .. k : Sorts(KeysOf(page[i]), KeysOf(l))
  <2>1. ~(Place(l, S) \in 1 .. k)
    <3> SUFFICES ASSUME Place(l, S) \in 1 .. k PROVE FALSE
      OBVIOUS
    <3> DEFINE i == Place(l, S)
    <3>1. Place(page[i], S) = Place(l, S) /\ page[i] \in S /\ page[i] # l
      BY <1>3, <1>9
    <3>2. Sorts(KeysOf(page[i]), KeysOf(l)) \/ Sorts(KeysOf(l), KeysOf(page[i]))
      BY <3>1, KeysOfRows
    <3> QED  BY <1>6, <3>1, <3>2, PlaceIs
  <2>2. Place(l, S) \in 1 .. Cardinality(S)
    BY PlaceIs
  <2>3. \A i \in 1 .. k : i < Place(l, S)
    BY <1>1, <2>1, <2>2
  <2> QED  BY <1>3, <1>7, <2>3
<1> QED  BY <1>3, <1>5, <1>8, <1>9 DEF page

-----------------------------------------------------------------------------
(* A walk.                                                                 *)

\* The rows that are as they were when the walk began, or when they were inserted.
Still == {l \in There : changed[l] # "changed"}
InWalk(l) == \E i \in DOMAIN walked : walked[i] = l
InOrderAsked ==
    \A i, j \in DOMAIN walked :
        i < j /\ {walked[i], walked[j]} \subseteq Still => Sorts(KeysOf(walked[i]), KeysOf(walked[j]))

\* The walk has every row up to the cursor that stayed, and none beyond it.
PagesInv ==
    /\ keyset \in Keysets /\ row \in [Lines -> SortValues \cup {Absent}]
    /\ cursor \in {FirstPage, LastPage} \cup RowKeys
    /\ walked \in Seq(Lines) /\ changed \in [Lines -> {"kept", "inserted", "changed"}]
    /\ cursor = FirstPage => walked = <<>>
    /\ \A l \in Lines : row[l] = Absent /\ changed[l] = "kept" => ~InWalk(l)
    /\ InOrderAsked
    /\ cursor \in RowKeys =>
        /\ \A i \in DOMAIN walked : walked[i] \in Still => ~Sorts(cursor, KeysOf(walked[i]))
        /\ \A l \in Still : changed[l] = "kept" /\ ~InWalk(l) => Sorts(cursor, KeysOf(l))
    /\ cursor = LastPage => \A l \in Still : changed[l] = "kept" => InWalk(l)

LEMMA PagesInitHolds == PagesInit => PagesInv
<1> SUFFICES ASSUME PagesInit PROVE PagesInv
  OBVIOUS
<1>1. walked = <<>> /\ DOMAIN walked = {} /\ walked \in Seq(Lines) /\ cursor = FirstPage
  BY DEF PagesInit
<1>2. cursor \notin RowKeys /\ cursor # LastPage
  BY <1>1, KeyFacts DEF PagesInit, FirstPage, LastPage
<1> QED  BY <1>1, <1>2 DEF PagesInit, PagesInv, InOrderAsked, InWalk

LEMMA NextPageHolds ==
    ASSUME PagesInv, NEW limit \in Limits, NextPage(limit)
    PROVE  PagesInv'
<1> DEFINE wanted == {l \in There : cursor = FirstPage \/ After(KeysOf(l), cursor)}
           rows == Cardinality(wanted)
           fetched == RowsFetched(limit)
           k == IF rows <= limit THEN rows ELSE limit
           page == FirstOf(k, wanted)
<1>1. keyset \in Keysets /\ row \in [Lines -> SortValues \cup {Absent}] /\ limit \in Nat \ {0}
      /\ walked \in Seq(Lines) /\ cursor \in {FirstPage} \cup RowKeys
  BY PagesAssumption DEF PagesInv, NextPage
<1>2. wanted \in SUBSET There /\ rows \in Nat
  BY <1>1, PlaceIs
<1>3. fetched = FirstOf(IF rows <= limit THEN rows ELSE limit + 1, wanted)
  BY DEF RowsFetched, FirstOf
<1> HIDE DEF wanted, rows, fetched
<1>4. (IF rows <= limit THEN rows ELSE limit + 1) \in 0 .. rows /\ k \in 0 .. rows
      /\ rows = Cardinality(wanted)
  BY <1>1, <1>2 DEF rows
<1>5. fetched \in Seq(Lines) /\ Len(fetched) = (IF rows <= limit THEN rows ELSE limit + 1)
  BY <1>1, <1>2, <1>3, <1>4, FirstOfIs
<1>6. SubSeq(fetched, 1, IF Len(fetched) <= limit THEN Len(fetched) ELSE limit) = page
  <2>1. (IF Len(fetched) <= limit THEN Len(fetched) ELSE limit) = k /\ (Len(fetched) > limit <=> rows > limit)
    BY <1>1, <1>2, <1>5
  <2>2. page \in Seq(Lines) /\ Len(page) = k
    BY <1>1, <1>2, <1>4, FirstOfIs
  <2>3. k \in Nat /\ k <= Len(fetched)
    BY <1>1, <1>2, <1>5
  <2>4. \A i \in 1 .. k : fetched[i] \in Lines /\ page[i] = fetched[i]
    BY <1>1, <1>2, <1>3, <1>5, <2>3 DEF FirstOf
  <2> HIDE DEF k, page
  <2>5. /\ SubSeq(fetched, 1, k) \in Seq(Lines) /\ Len(SubSeq(fetched, 1, k)) = k
        /\ \A i \in 1 .. k : SubSeq(fetched, 1, k)[i] = fetched[i]
    BY <2>3, <2>4, SubSeqProperties
  <2>6. SubSeq(fetched, 1, k) = page
    BY <2>2, <2>4, <2>5, SeqEqual
  <2> QED  BY <2>1, <2>6
<1>7. walked' = walked \o page /\ cursor' = (IF rows > limit THEN KeysOf(page[Len(page)]) ELSE LastPage)
      /\ UNCHANGED <<keyset, row, changed>>
  <2> HIDE DEF k, page
  <2>1. walked' = walked \o page
        /\ cursor' = (IF Len(fetched) > limit THEN EndsAt(page) ELSE LastPage)
        /\ UNCHANGED <<keyset, row, changed>>
    BY <1>6 DEF NextPage, fetched
  <2>2. Len(fetched) > limit <=> rows > limit
    BY <1>1, <1>2, <1>5
  <2> QED  BY <2>1, <2>2 DEF EndsAt
<1>8. /\ page \in Seq(Lines) /\ Len(page) = k /\ DOMAIN page = 1 .. k
      /\ \A i \in 1 .. k : page[i] \in wanted
      /\ \A i, j \in 1 .. k : i < j => Sorts(KeysOf(page[i]), KeysOf(page[j]))
      /\ \A l \in wanted : \/ \E i \in 1 .. k : page[i] = l
                           \/ \A i \in 1 .. k : Sorts(KeysOf(page[i]), KeysOf(l))
  <2> HIDE DEF k
  <2> QED  BY <1>1, <1>2, <1>4, FirstOfIs
<1>9. k \in Nat /\ (rows > limit => k = limit) /\ (rows <= limit => k = rows)
  BY <1>1, <1>2
<1>10. \A l \in There : l \in wanted <=> cursor = FirstPage \/ Sorts(cursor, KeysOf(l))
  BY <1>1, AfterIs, KeysOfRows DEF wanted
<1> HIDE DEF k, page
<1>11. Still' = Still /\ There' = There /\ \A l : KeysOf(l)' = KeysOf(l)
  BY <1>7 DEF Still, There, KeysOf
<1>20. /\ \A p, q : Sorts(p, q)' <=> Sorts(p, q)
       /\ \A i : KeysOf(walked[i])' = KeysOf(walked'[i])
  BY <1>7 DEF Sorts, KeysOf
<1> DEFINE n == Len(walked)
<1>12. /\ n \in Nat /\ DOMAIN walked = 1 .. n /\ walked' \in Seq(Lines) /\ DOMAIN walked' = 1 .. n + k
       /\ \A i \in 1 .. n : walked'[i] = walked[i]
       /\ \A i \in n + 1 .. n + k : walked'[i] = page[i - n] /\ i - n \in 1 .. k
  <2>1. walked' \in Seq(Lines) /\ Len(walked') = n + k /\ n \in Nat
        /\ \A i \in 1 .. n + k : walked'[i] = IF i <= n THEN walked[i] ELSE page[i - n]
    BY <1>1, <1>7, <1>8, ConcatProperties, LenProperties
  <2> QED  BY <1>1, <1>9, <2>1, LenProperties
<1> HIDE DEF n
<1>13. \A l : InWalk(l)' <=> InWalk(l) \/ \E i \in 1 .. k : page[i] = l
  <2>1. ASSUME NEW i \in 1 .. k PROVE walked'[n + i] = page[i] /\ n + i \in DOMAIN walked'
    <3>1. n + i \in n + 1 .. n + k /\ (n + i) - n = i /\ n + i \in 1 .. n + k
      BY <1>9, <1>12
    <3> QED  BY <1>12, <3>1
  <2>2. \A i \in 1 .. n + k : i \in 1 .. n \/ i \in n + 1 .. n + k
    BY <1>9, <1>12
  <2>3. \A i \in 1 .. n : i \in 1 .. n + k
    BY <1>9, <1>12
  <2> QED  BY <1>12, <2>1, <2>2, <2>3 DEF InWalk
<1>14. ASSUME NEW i \in 1 .. n, walked[i] \in Still, NEW j \in 1 .. k
       PROVE  Sorts(KeysOf(walked[i]), KeysOf(page[j]))
  <2>1. cursor # FirstPage
    BY <1>12, <1>14 DEF PagesInv
  <2>2. cursor \in RowKeys /\ ~Sorts(cursor, KeysOf(walked[i]))
    BY <1>1, <1>12, <1>14, <2>1 DEF PagesInv
  <2>3. walked[i] \in There /\ page[j] \in There /\ page[j] \in wanted
    BY <1>2, <1>8, <1>14 DEF Still
  <2>4. Sorts(cursor, KeysOf(page[j])) /\ KeysOf(page[j]) \in RowKeys /\ KeysOf(walked[i]) \in RowKeys
    BY <1>1, <1>10, <2>1, <2>3, KeysOfRows
  <2>5. CASE KeysOf(walked[i]) = cursor
    BY <2>4, <2>5
  <2>6. CASE KeysOf(walked[i]) # cursor
    BY <1>1, <2>2, <2>4, <2>6, SortsTotal, SortsTransitive
  <2> QED  BY <2>5, <2>6
<1>15. InOrderAsked'
  <2>1. ASSUME NEW i \in 1 .. n + k, NEW j \in 1 .. n + k, i < j,
               walked'[i] \in Still, walked'[j] \in Still
        PROVE  Sorts(KeysOf(walked'[i]), KeysOf(walked'[j]))
    <3>1. CASE i \in 1 .. n /\ j \in 1 .. n
      BY <1>12, <2>1, <3>1 DEF PagesInv, InOrderAsked
    <3>2. CASE i \in 1 .. n /\ j \in n + 1 .. n + k
      BY <1>12, <1>14, <2>1, <3>2
    <3>3. CASE i \in n + 1 .. n + k /\ j \in n + 1 .. n + k
      <4>1. i - n < j - n
        BY <1>12, <2>1, <3>3
      <4> QED  BY <1>8, <1>12, <3>3, <4>1
    <3> QED  BY <1>9, <1>12, <2>1, <3>1, <3>2, <3>3
  <2>2. ASSUME NEW i \in 1 .. n + k, NEW j \in 1 .. n + k, i < j,
               walked'[i] \in Still', walked'[j] \in Still'
        PROVE  Sorts(KeysOf(walked[i]), KeysOf(walked[j]))'
    <3>1. Sorts(KeysOf(walked'[i]), KeysOf(walked'[j]))
      BY <1>11, <2>1, <2>2
    <3> QED  BY <1>20, <3>1
  <2> QED  BY <1>12, <2>2 DEF InOrderAsked
<1>16. ASSUME NEW l \in Lines, row[l] = Absent, changed[l] = "kept" PROVE ~InWalk(l)'
  <2>1. l \notin There
    BY <1>16 DEF There
  <2> QED  BY <1>2, <1>8, <1>13, <1>16, <2>1 DEF PagesInv
<1>17. ASSUME NEW l \in Still, changed[l] = "kept", ~InWalk(l) PROVE l \in wanted
  <2>1. l \in There
    BY DEF Still
  <2> QED  BY <1>1, <1>10, <1>17, <2>1 DEF PagesInv
<1>18. CASE rows > limit
  <2> DEFINE last == KeysOf(page[k])
  <2>1. k \in 1 .. k /\ cursor' = last /\ page[k] \in There
    BY <1>1, <1>2, <1>7, <1>8, <1>9, <1>18
  <2>2. last \in RowKeys /\ cursor' # FirstPage /\ cursor' # LastPage
    BY <1>1, <2>1, KeysOfRows, KeyFacts
  <2>3. ASSUME NEW i \in 1 .. n + k, walked'[i] \in Still PROVE ~Sorts(last, KeysOf(walked'[i]))
    <3>1. walked'[i] \in There
      BY <2>3 DEF Still
    <3>2. KeysOf(walked'[i]) \in RowKeys
      BY <1>1, <3>1, KeysOfRows
    <3>3. KeysOf(walked'[i]) = last \/ Sorts(KeysOf(walked'[i]), last)
      <4>1. CASE i \in 1 .. n
        BY <1>12, <1>14, <2>1, <2>3, <4>1
      <4>2. CASE i \in n + 1 .. n + k
        <5>1. i - n = k \/ i - n < k
          BY <1>9, <1>12, <4>2
        <5> QED  BY <1>8, <1>12, <2>1, <4>2, <5>1
      <4> QED  BY <1>9, <1>12, <4>1, <4>2
    <3> QED  BY <1>1, <2>2, <3>2, <3>3, SortsStrict, SortsTransitive
  <2>4. ASSUME NEW l \in Still, changed[l] = "kept", ~InWalk(l)' PROVE Sorts(last, KeysOf(l))
    BY <1>8, <1>13, <1>17, <2>1, <2>4
  <2> HIDE DEF last
  <2>5. /\ \A i \in DOMAIN walked' : walked'[i] \in Still' => ~Sorts(cursor, KeysOf(walked[i]))'
        /\ \A l \in Still' : changed'[l] = "kept" /\ ~InWalk(l)' => Sorts(cursor, KeysOf(l))'
    <3>1. ASSUME NEW i \in 1 .. n + k, walked'[i] \in Still' PROVE ~Sorts(cursor, KeysOf(walked[i]))'
      BY <1>11, <1>20, <2>1, <2>3, <3>1
    <3>2. ASSUME NEW l \in Still', changed'[l] = "kept", ~InWalk(l)' PROVE Sorts(cursor, KeysOf(l))'
      BY <1>7, <1>11, <1>20, <2>1, <2>4, <3>2
    <3> QED  BY <1>12, <3>1, <3>2
  <2>6. RowKeys' = RowKeys /\ cursor' \in RowKeys
    BY <2>1, <2>2 DEF RowKeys
  <2> QED  BY <1>7, <1>12, <1>15, <1>16, <2>2, <2>5, <2>6 DEF PagesInv
<1>19. CASE rows <= limit
  <2>1. cursor' = LastPage
    BY <1>1, <1>2, <1>7, <1>19
  <2>2. cursor' \notin RowKeys /\ cursor' # FirstPage
    BY <1>1, <2>1, KeyFacts DEF FirstPage, LastPage
  <2>3. ASSUME NEW l \in wanted PROVE \E i \in 1 .. k : page[i] = l
    <3>1. page = FirstOf(rows, wanted) /\ k = rows
      BY <1>9, <1>19 DEF page
    <3>2. Place(l, wanted) \in 1 .. k
      BY <1>1, <1>2, <1>4, <3>1, PlaceIs
    <3>3. Place(page[Place(l, wanted)], wanted) = Place(l, wanted) /\ page[Place(l, wanted)] \in wanted
      BY <1>1, <1>2, <1>4, <3>1, <3>2, FirstOfIs
    <3>4. Sorts(KeysOf(page[Place(l, wanted)]), KeysOf(l)) => Place(l, wanted) < Place(l, wanted)
      BY <1>1, <1>2, <3>3, PlaceIs
    <3> QED  BY <1>8, <3>2, <3>4
  <2>4. ASSUME NEW l \in Still, changed[l] = "kept" PROVE InWalk(l)'
    BY <1>13, <1>17, <2>3, <2>4
  <2> QED  BY <1>7, <1>11, <1>12, <1>15, <1>16, <2>1, <2>2, <2>4 DEF PagesInv
<1> QED  BY <1>1, <1>2, <1>18, <1>19

LEMMA TouchRowHolds ==
    ASSUME PagesInv, NEW l \in Lines, NEW value \in SortValues \cup {Absent}, TouchRow(l, value)
    PROVE  PagesInv'
<1>1. /\ keyset \in Keysets /\ row \in [Lines -> SortValues \cup {Absent}]
      /\ cursor \in RowKeys /\ cursor # FirstPage /\ cursor # LastPage
      /\ changed \in [Lines -> {"kept", "inserted", "changed"}]
  BY DEF PagesInv, TouchRow
<1>2. /\ changed' = [changed EXCEPT ![l] = IF row[l] = Absent /\ @ = "kept" THEN "inserted" ELSE "changed"]
      /\ row' = [row EXCEPT ![l] = value] /\ value # row[l]
      /\ UNCHANGED <<keyset, cursor, walked>>
  BY DEF TouchRow
<1>3. changed' \in [Lines -> {"kept", "inserted", "changed"}] /\ row' \in [Lines -> SortValues \cup {Absent}]
  BY <1>1, <1>2
<1>4. ASSUME NEW m \in Still', m # l
      PROVE  m \in Still /\ KeysOf(m)' = KeysOf(m) /\ changed'[m] = changed[m]
  BY <1>1, <1>2, <1>4 DEF Still, There, KeysOf
<1>5. ASSUME l \in Still'
      PROVE  changed'[l] = "inserted" /\ ~InWalk(l)
  <2>1. row[l] = Absent /\ changed[l] = "kept"
    BY <1>1, <1>2, <1>5 DEF Still, There
  <2> QED  BY <1>1, <1>2, <2>1 DEF PagesInv
<1>6. \A m : InWalk(m)' <=> InWalk(m)
  BY <1>2 DEF InWalk
<1>7. \A p, q : Sorts(p, q)' <=> Sorts(p, q)
  BY <1>2 DEF Sorts
<1>8. ASSUME NEW i \in DOMAIN walked, walked[i] \in Still'
      PROVE  walked[i] \in Still /\ KeysOf(walked[i])' = KeysOf(walked[i])
  <2>1. walked[i] # l
    BY <1>5, <1>8 DEF InWalk
  <2>2. walked[i] \in Still /\ row'[walked[i]] = row[walked[i]]
    BY <1>1, <1>2, <1>8, <2>1 DEF Still, There
  <2> QED  BY <1>2, <2>2 DEF KeysOf
<1>9. InOrderAsked'
  <2>1. ASSUME NEW i \in DOMAIN walked, NEW j \in DOMAIN walked, i < j,
               walked[i] \in Still', walked[j] \in Still'
        PROVE  Sorts(KeysOf(walked[i]), KeysOf(walked[j]))'
    <3>1. Sorts(KeysOf(walked[i]), KeysOf(walked[j]))
      BY <1>8, <2>1 DEF PagesInv, InOrderAsked
    <3> QED  BY <1>7, <1>8, <2>1, <3>1
  <2> QED  BY <1>2, <2>1 DEF InOrderAsked
<1>10. ASSUME NEW m \in Lines, row'[m] = Absent, changed'[m] = "kept" PROVE ~InWalk(m)
  <2>1. m # l /\ row[m] = Absent /\ changed[m] = "kept"
    BY <1>1, <1>2, <1>10
  <2> QED  BY <2>1 DEF PagesInv
<1>11. ASSUME NEW i \in DOMAIN walked, walked[i] \in Still' PROVE ~Sorts(cursor, KeysOf(walked[i]))'
  <2>1. ~Sorts(cursor, KeysOf(walked[i]))
    BY <1>1, <1>8, <1>11 DEF PagesInv
  <2> QED  BY <1>2, <1>7, <1>8, <1>11, <2>1
<1>12. ASSUME NEW m \in Still', changed'[m] = "kept", ~InWalk(m) PROVE Sorts(cursor, KeysOf(m))'
  <2>1. m # l
    BY <1>5, <1>12
  <2>2. Sorts(cursor, KeysOf(m))
    BY <1>1, <1>4, <1>12, <2>1 DEF PagesInv
  <2> QED  BY <1>2, <1>4, <1>7, <2>1, <2>2
<1>13. RowKeys' = RowKeys
  BY DEF RowKeys
<1> QED  BY <1>1, <1>2, <1>3, <1>6, <1>9, <1>10, <1>11, <1>12, <1>13 DEF PagesInv

LEMMA PagesHold == PagesSpec => []PagesInv
<1>1. PagesInv /\ [PagesNext]_pagesVars => PagesInv'
  <2> SUFFICES ASSUME PagesInv, [PagesNext]_pagesVars PROVE PagesInv'
    OBVIOUS
  <2>1. CASE PagesNext
    BY <2>1, NextPageHolds, TouchRowHolds DEF PagesNext
  <2>2. CASE UNCHANGED pagesVars
    <3>1. UNCHANGED <<keyset, row, cursor, walked, changed>>
      BY <2>2 DEF pagesVars
    <3>2. Still' = Still /\ RowKeys' = RowKeys /\ \A l : InWalk(l)' <=> InWalk(l)
      BY <3>1 DEF Still, There, RowKeys, InWalk
    <3>3. (\A p, q : Sorts(p, q)' <=> Sorts(p, q)) /\ \A l : KeysOf(l)' = KeysOf(l)
      BY <3>1 DEF Sorts, KeysOf
    <3>4. \A i : KeysOf(walked[i])' = KeysOf(walked[i])
      BY <3>1 DEF KeysOf
    <3>5. InOrderAsked'
      BY <3>1, <3>2, <3>3, <3>4 DEF PagesInv, InOrderAsked
    <3>6. cursor' \in RowKeys' =>
             /\ \A i \in DOMAIN walked' : walked'[i] \in Still' => ~Sorts(cursor, KeysOf(walked[i]))'
             /\ \A l \in Still' : changed'[l] = "kept" /\ ~InWalk(l)' => Sorts(cursor, KeysOf(l))'
      BY <3>1, <3>2, <3>3, <3>4 DEF PagesInv
    <3> QED  BY <3>1, <3>2, <3>5, <3>6 DEF PagesInv
  <2> QED  BY <2>1, <2>2
<1> QED  BY <1>1, PagesInitHolds, PTL DEF PagesSpec

\* A walk page by page returns, in the order asked for and once, what stays.
THEOREM WalkOnce == PagesSpec => []WalkSeesOnce
<1>1. PagesInv => WalkSeesOnce
  BY DEF PagesInv, InOrderAsked, InWalk, Still, WalkSeesOnce
<1> QED  BY <1>1, PagesHold, PTL

-----------------------------------------------------------------------------
(* InsiderClusters: gaps and islands find the bursts.                      *)

\* A finite set of days has a first and a last.
LEMMA EarliestIs ==
    ASSUME NEW S, S \subseteq Int, IsFiniteSet(S), S # {}
    PROVE  Min(S) \in S /\ \A x \in S : Min(S) <= x
<1> DEFINE before(q) == {x \in S : x < q}
           B == {before(q) : q \in S}
<1>1. (\A T \in B : T \subseteq S) /\ B # {}
  OBVIOUS
<1>2. PICK T \in B : \A U \in B : U \subseteq T => U = T
  <2> HIDE DEF B
  <2> QED  BY <1>1, SmallestSet
<1>3. PICK q \in S : T = before(q)
  OBVIOUS
<1>4. ASSUME NEW r \in S, r < q PROVE FALSE
  <2>0. r \in Int /\ q \in Int /\ \A x \in S : x \in Int
    OBVIOUS
  <2>1. \A x \in S : x < r => x < q
    BY <1>4, <2>0
  <2>2. before(r) \subseteq before(q)
    BY <2>1
  <2>3. r \in before(q)
    BY <1>4
  <2>4. r \notin before(r)
    BY <2>0
  <2> HIDE DEF before
  <2> QED  BY <1>2, <1>3, <2>2, <2>3, <2>4
<1>5. \A x \in S : q <= x
  BY <1>4
<1> QED  BY <1>5 DEF Min

LEMMA LatestOneIs ==
    ASSUME NEW S, S \subseteq Int, IsFiniteSet(S), S # {}
    PROVE  Max(S) \in S /\ \A x \in S : x <= Max(S)
<1> DEFINE after(q) == {x \in S : q < x}
           B == {after(q) : q \in S}
<1>1. (\A T \in B : T \subseteq S) /\ B # {}
  OBVIOUS
<1>2. PICK T \in B : \A U \in B : U \subseteq T => U = T
  <2> HIDE DEF B
  <2> QED  BY <1>1, SmallestSet
<1>3. PICK q \in S : T = after(q)
  OBVIOUS
<1>4. ASSUME NEW r \in S, q < r PROVE FALSE
  <2>0. r \in Int /\ q \in Int /\ \A x \in S : x \in Int
    OBVIOUS
  <2>1. \A x \in S : r < x => q < x
    BY <1>4, <2>0
  <2>2. after(r) \subseteq after(q)
    BY <2>1
  <2>3. r \in after(q)
    BY <1>4
  <2>4. r \notin after(r)
    BY <2>0
  <2> HIDE DEF after
  <2> QED  BY <1>2, <1>3, <2>2, <2>3, <2>4
<1>5. \A x \in S : q >= x
  BY <1>4
<1>6. \A x \in S : Max(S) >= x /\ Max(S) \in S
  BY <1>5 DEF Max
<1> QED  BY <1>6

\* Windows by the days they end on: "lo" is where each starts.
Spread(D, E, lo) ==
    /\ D \subseteq Int /\ IsFiniteSet(D) /\ E \subseteq D
    /\ \A e \in D : lo[e] \in D /\ lo[e] <= e
    /\ \A e, f \in D : e <= f => lo[e] <= lo[f]
StartsOne(e, E, lo) == \A f \in E : f < e => f < lo[e]
StartOf(e, E, lo) == Max({f \in E : f <= e /\ StartsOne(f, E, lo)})
EndsOf(s, E, lo) == {e \in E : StartOf(e, E, lo) = s}
LastOfIsland(s, E, lo) == Max(EndsOf(s, E, lo))
IslandDays(s, D, E, lo) == {d \in D : lo[s] <= d /\ d <= LastOfIsland(s, E, lo)}

LEMMA StartOfIs ==
    ASSUME NEW D, NEW E, NEW lo, Spread(D, E, lo), NEW e \in E
    PROVE  LET s == StartOf(e, E, lo)
           IN  /\ s \in E /\ s <= e /\ StartsOne(s, E, lo)
               /\ \A f \in E : f <= e /\ StartsOne(f, E, lo) => f <= s
<1> DEFINE F == {f \in E : f <= e}
           S == {f \in E : f <= e /\ StartsOne(f, E, lo)}
<1>0. D \subseteq Int /\ E \subseteq D /\ e \in Int
  BY DEF Spread
<1>1. F \subseteq Int /\ F # {} /\ F \subseteq D /\ S \subseteq Int /\ S \subseteq D
  <2>1. e \in F
    BY <1>0
  <2> QED  BY <1>0, <2>1
<1>2. IsFiniteSet(F) /\ IsFiniteSet(S)
  BY <1>1, FS_Subset DEF Spread
<1>3. Min(F) \in F /\ \A x \in F : Min(F) <= x
  <2> HIDE DEF F
  <2> QED  BY <1>1, <1>2, EarliestIs
<1>4. Min(F) \in S
  <2>1. \A f \in E : f < Min(F) => FALSE
    BY <1>1, <1>3 DEF Spread
  <2> QED  BY <1>3, <2>1 DEF StartsOne
<1>5. Max(S) \in S /\ \A x \in S : x <= Max(S)
  <2> HIDE DEF S
  <2> QED  BY <1>1, <1>2, <1>4, LatestOneIs
<1> QED  BY <1>5 DEF StartOf

\* An island is one of a window that starts it; one that does not starts before
\* the window before it in the island ends.
LEMMA IslandIs ==
    ASSUME NEW D, NEW E, NEW lo, Spread(D, E, lo), NEW s \in E, EndsOf(s, E, lo) # {}
    PROVE  /\ s \in EndsOf(s, E, lo) /\ StartsOne(s, E, lo) /\ s \in D
           /\ \A e \in EndsOf(s, E, lo) : s <= e /\ lo[s] <= lo[e]
           /\ LastOfIsland(s, E, lo) \in EndsOf(s, E, lo)
           /\ \A e \in EndsOf(s, E, lo) : e <= LastOfIsland(s, E, lo)
           /\ \A e \in EndsOf(s, E, lo) : e # s =>
                \E f \in EndsOf(s, E, lo) : f < e /\ lo[e] <= f /\ lo[f] <= lo[e]
<1> DEFINE M == EndsOf(s, E, lo)
<1>1. /\ M \subseteq E /\ E \subseteq D /\ D \subseteq Int /\ \A e \in M : StartOf(e, E, lo) = s
      /\ \A x \in E : x \in D /\ x \in Int
  BY DEF EndsOf, Spread
<1>2. StartsOne(s, E, lo) /\ \A e \in M : s <= e
  <2>1. PICK e \in M : TRUE
    OBVIOUS
  <2> QED  BY <1>1, <2>1, StartOfIs
<1>3. s \in M
  <2>1. s \in Int /\ s <= s
    BY <1>1
  <2>2. StartOf(s, E, lo) \in E /\ StartOf(s, E, lo) <= s /\ s <= StartOf(s, E, lo)
    BY <1>2, <2>1, StartOfIs
  <2>3. StartOf(s, E, lo) \in Int
    BY <1>1, <2>2
  <2>4. StartOf(s, E, lo) = s
    BY <2>1, <2>2, <2>3
  <2> QED  BY <2>4 DEF EndsOf
<1>4. \A e \in M : s <= e /\ lo[s] <= lo[e]
  BY <1>1, <1>2 DEF Spread
<1>5. LastOfIsland(s, E, lo) \in M /\ \A e \in M : e <= LastOfIsland(s, E, lo)
  <2>1. M \subseteq Int /\ IsFiniteSet(M)
    <3>1. M \subseteq D
      BY <1>1
    <3> QED  BY <1>1, <3>1, FS_Subset DEF Spread
  <2> HIDE DEF M
  <2>2. Max(M) \in M /\ \A e \in M : e <= Max(M)
    BY <1>3, <2>1, LatestOneIs
  <2> QED  BY <2>2 DEF LastOfIsland, M
<1>6. ASSUME NEW e \in M, e # s
      PROVE  \E f \in M : f < e /\ lo[e] <= f /\ lo[f] <= lo[e]
  <2> DEFINE F == {f \in E : f < e}
  <2>0. s \in Int /\ e \in Int /\ e \in E /\ s <= e /\ e <= e
    <3>1. s \in Int /\ e \in Int /\ e \in E
      BY <1>1
    <3>2. s <= e
      BY <1>4
    <3> QED  BY <3>1, <3>2
  <2>1. s \in F
    <3>1. s < e
      BY <1>6, <2>0
    <3> QED  BY <3>1
  <2>2. F \subseteq Int /\ IsFiniteSet(F)
    <3>1. F \subseteq D
      BY <1>1
    <3> QED  BY <1>1, <3>1, FS_Subset DEF Spread
  <2>3. Max(F) \in F /\ \A x \in F : x <= Max(F)
    <3> HIDE DEF F
    <3> QED  BY <2>1, <2>2, LatestOneIs
  <2> DEFINE f == Max(F)
  <2>4. f \in E /\ f < e /\ s <= f /\ \A x \in E : x < e => x <= f
    BY <2>1, <2>3
  <2> HIDE DEF f, F
  <2>5. ~StartsOne(e, E, lo)
    <3>1. StartsOne(e, E, lo) => e <= StartOf(e, E, lo)
      BY <2>0, StartOfIs
    <3>2. StartOf(e, E, lo) = s
      BY <1>1
    <3> QED  BY <1>6, <2>0, <3>1, <3>2
  <2>6. PICK x \in E : x < e /\ ~(x < lo[e])
    BY <2>5 DEF StartsOne
  <2>7. lo[e] \in Int /\ lo[e] <= x /\ x <= f /\ f \in Int /\ x \in Int
    <3>1. e \in D /\ x \in Int /\ f \in Int
      BY <1>1, <2>4
    <3>2. lo[e] \in Int
      BY <1>1, <3>1 DEF Spread
    <3> QED  BY <2>4, <2>6, <3>1, <3>2
  <2>8. StartOf(f, E, lo) = s
    <3>1. StartOf(f, E, lo) \in E /\ StartOf(f, E, lo) <= f /\ StartsOne(StartOf(f, E, lo), E, lo)
          /\ s <= StartOf(f, E, lo)
      BY <1>1, <1>2, <2>4, StartOfIs
    <3>2. StartOf(f, E, lo) <= e /\ StartOf(f, E, lo) \in Int
      <4>1. StartOf(f, E, lo) \in Int
        BY <1>1, <3>1
      <4> QED  BY <2>0, <2>4, <2>7, <3>1, <4>1
    <3>3. StartOf(f, E, lo) <= StartOf(e, E, lo)
      BY <2>0, <3>1, <3>2, StartOfIs
    <3> QED  BY <1>1, <2>0, <3>1, <3>2, <3>3
  <2>9. lo[e] <= f /\ lo[f] <= lo[e]
    <3>1. e \in D /\ f \in D /\ f <= e
      BY <1>1, <2>0, <2>4, <2>7
    <3>2. lo[f] <= lo[e]
      BY <3>1 DEF Spread
    <3> QED  BY <2>7, <3>2
  <2> QED  BY <2>4, <2>8, <2>9 DEF EndsOf
<1> QED  BY <1>1, <1>2, <1>3, <1>4, <1>5, <1>6

\* A window that has a day of an island's span is one of the island, and every
\* day of the span is in one of its windows.
LEMMA IslandClosed ==
    ASSUME NEW D, NEW E, NEW lo, Spread(D, E, lo), NEW s \in E, EndsOf(s, E, lo) # {},
           NEW d \in IslandDays(s, D, E, lo)
    PROVE  /\ \A e \in E : lo[e] <= d /\ d <= e => e \in EndsOf(s, E, lo)
           /\ \E e \in EndsOf(s, E, lo) : lo[e] <= d /\ d <= e
<1> DEFINE M == EndsOf(s, E, lo)
           top == LastOfIsland(s, E, lo)
<1>1. /\ M \subseteq E /\ E \subseteq D /\ D \subseteq Int /\ \A e \in M : StartOf(e, E, lo) = s
      /\ \A x \in E : x \in D /\ x \in Int /\ lo[x] \in Int /\ lo[x] <= x
  BY DEF EndsOf, Spread
<1>2. d \in D /\ d \in Int /\ lo[s] <= d /\ d <= top
  BY <1>1 DEF IslandDays
<1>3. /\ s \in M /\ StartsOne(s, E, lo) /\ s \in D
      /\ \A e \in M : s <= e /\ lo[s] <= lo[e]
      /\ top \in M
      /\ \A e \in M : e <= top
      /\ \A e \in M : e # s => \E f \in M : f < e /\ lo[e] <= f /\ lo[f] <= lo[e]
  BY IslandIs
<1> HIDE DEF M, top
<1>4. s \in Int /\ top \in Int /\ lo[s] \in Int /\ top \in E
  BY <1>1, <1>3
<1>5. ASSUME NEW e \in E, lo[e] <= d, d <= e PROVE e \in M
  <2> DEFINE t == StartOf(e, E, lo)
  <2>1. t \in E /\ t <= e /\ StartsOne(t, E, lo) /\ \A f \in E : f <= e /\ StartsOne(f, E, lo) => f <= t
    BY StartOfIs
  <2> HIDE DEF t
  <2>2. t \in Int /\ e \in Int /\ lo[t] \in Int /\ lo[e] \in Int
    BY <1>1, <2>1
  <2>3. ASSUME s < t PROVE FALSE
    <3>1. top < t
      <4>1. t <= top => t <= StartOf(top, E, lo)
        BY <1>4, <2>1, StartOfIs
      <4>2. StartOf(top, E, lo) = s
        BY <1>1, <1>3
      <4> QED  BY <1>4, <2>2, <2>3, <4>1, <4>2
    <3>2. top < lo[t]
      BY <1>4, <2>1, <3>1 DEF StartsOne
    <3>3. lo[t] <= lo[e]
      <4>1. t \in D /\ e \in D
        BY <1>1, <2>1
      <4> QED  BY <2>1, <4>1 DEF Spread
    <3> QED  BY <1>2, <1>4, <1>5, <2>2, <3>2, <3>3
  <2>4. ASSUME t < s PROVE FALSE
    <3>1. ~(s <= e)
      <4>1. s <= e => s <= t
        BY <1>3, <2>1
      <4> QED  BY <1>4, <2>2, <2>4, <4>1
    <3>2. e < s
      BY <1>4, <2>2, <3>1
    <3>3. e < lo[s]
      BY <1>3, <3>2 DEF StartsOne
    <3> QED  BY <1>2, <1>4, <1>5, <2>2, <3>3
  <2>5. t = s
    BY <1>4, <2>2, <2>3, <2>4
  <2> QED  BY <2>5 DEF M, t, EndsOf
<1>6. \E e \in M : lo[e] <= d /\ d <= e
  <2> DEFINE F == {e \in M : d <= e}
             e == Min(F)
  <2>1. F \subseteq D /\ F \subseteq Int /\ top \in F
    BY <1>1, <1>2, <1>3
  <2>2. IsFiniteSet(F)
    BY <2>1, FS_Subset DEF Spread
  <2>3. Min(F) \in F /\ \A x \in F : Min(F) <= x
    <3> HIDE DEF F
    <3> QED  BY <2>1, <2>2, EarliestIs
  <2>4. e \in M /\ d <= e /\ \A x \in M : d <= x => e <= x
    BY <2>3
  <2> HIDE DEF e, F
  <2>5. e \in Int /\ lo[e] \in Int
    BY <1>1, <2>4
  <2>6. ASSUME ~(lo[e] <= d) PROVE FALSE
    <3>1. e # s
      BY <1>2, <2>6
    <3>2. PICK f \in M : f < e /\ lo[e] <= f
      BY <1>3, <2>4, <3>1
    <3>3. f \in Int
      BY <1>1, <3>2
    <3>4. d <= f
      BY <1>2, <2>5, <2>6, <3>2, <3>3
    <3>5. e <= f
      BY <2>4, <3>4
    <3> QED  BY <2>5, <3>2, <3>3, <3>5
  <2> QED  BY <2>4, <2>6
<1> QED  BY <1>5, <1>6 DEF M

\* Days that hold, with one day of a window, all of them, hold all of an island
\* if they hold one day of it.
LEMMA IslandLinked ==
    ASSUME NEW D, NEW E, NEW lo, Spread(D, E, lo), NEW s \in E, EndsOf(s, E, lo) # {},
           NEW S, \A e \in E : (\E x \in S : lo[e] <= x /\ x <= e)
                            => {x \in D : lo[e] <= x /\ x <= e} \subseteq S,
           NEW d \in IslandDays(s, D, E, lo), d \in S
    PROVE  IslandDays(s, D, E, lo) \subseteq S
<1> DEFINE M == EndsOf(s, E, lo)
           daysOf(e) == {x \in D : lo[e] <= x /\ x <= e}
           good == {e \in M : daysOf(e) \subseteq S}
           bad == M \ good
<1>1. /\ M \subseteq E /\ E \subseteq D /\ D \subseteq Int /\ IsFiniteSet(D)
      /\ \A x \in E : x \in D /\ x \in Int /\ lo[x] \in Int /\ lo[x] \in D /\ lo[x] <= x
  BY DEF EndsOf, Spread
<1>2. \A e \in M : e # s => \E f \in M : f < e /\ lo[e] <= f /\ lo[f] <= lo[e]
  BY IslandIs
<1>3. PICK first \in M : lo[first] <= d /\ d <= first
  BY IslandClosed
<1> HIDE DEF M
<1>4. ASSUME NEW e \in M, NEW x \in S, lo[e] <= x, x <= e PROVE e \in good
  <2>1. e \in E
    BY <1>1
  <2>2. daysOf(e) \subseteq S
    BY <1>4, <2>1
  <2> QED  BY <2>2
<1>5. first \in good
  BY <1>3, <1>4
<1>6. ASSUME NEW e \in M, NEW x \in daysOf(e), e \in good PROVE x \in S
  BY <1>6
<1>7. \A e \in M : e \in Int /\ lo[e] \in daysOf(e)
  <2> SUFFICES ASSUME NEW e \in M PROVE e \in Int /\ lo[e] \in daysOf(e)
    OBVIOUS
  <2>1. e \in E
    BY <1>1
  <2>2. lo[e] <= lo[e]
    BY <1>1, <2>1
  <2> QED  BY <1>1, <2>1, <2>2
<1>8. good \subseteq Int /\ IsFiniteSet(good) /\ bad \subseteq Int /\ IsFiniteSet(bad)
  <2>1. good \subseteq D /\ bad \subseteq D
    BY <1>1
  <2> QED  BY <1>1, <2>1, FS_Subset
<1> HIDE DEF good
<1>9. s \in good
  <2> DEFINE m == Min(good)
  <2>1. m \in good /\ \A x \in good : m <= x
    BY <1>5, <1>8, EarliestIs
  <2> HIDE DEF m
  <2>2. m \in M
    BY <2>1 DEF good
  <2>3. ASSUME m # s PROVE FALSE
    <3>1. PICK f \in M : f < m /\ lo[m] <= f /\ lo[f] <= lo[m]
      BY <1>2, <2>2, <2>3
    <3>2. lo[m] \in S
      BY <1>6, <1>7, <2>1, <2>2
    <3>3. f \in good
      BY <1>4, <3>1, <3>2
    <3>4. m <= f /\ m \in Int /\ f \in Int
      BY <1>7, <2>1, <2>2, <3>3
    <3> QED  BY <3>1, <3>4
  <2> QED  BY <2>1, <2>3
<1>10. bad = {}
  <2> SUFFICES ASSUME bad # {} PROVE FALSE
    OBVIOUS
  <2> DEFINE e == Min(bad)
  <2>1. e \in bad /\ \A x \in bad : e <= x
    <3> HIDE DEF bad
    <3> QED  BY <1>8, EarliestIs
  <2> HIDE DEF e
  <2>2. e \in M /\ e \notin good /\ e # s
    BY <1>9, <2>1
  <2>3. PICK f \in M : f < e /\ lo[e] <= f /\ lo[f] <= lo[e]
    BY <1>2, <2>2
  <2>4. f \in good
    <3>1. f \in Int /\ e \in Int
      BY <1>7, <2>2
    <3>2. ~(e <= f)
      BY <2>3, <3>1
    <3>3. f \notin bad
      BY <2>1, <3>2
    <3> QED  BY <3>3
  <2>5. lo[e] \in daysOf(f)
    <3>1. lo[e] \in D
      BY <1>7, <2>2
    <3> QED  BY <2>3, <3>1
  <2>6. lo[e] \in S
    BY <1>6, <2>4, <2>5
  <2>7. lo[e] <= lo[e] /\ lo[e] <= e
    BY <1>7, <2>2
  <2>8. e \in good
    BY <1>4, <2>2, <2>6, <2>7
  <2> QED  BY <2>2, <2>8
<1>11. ASSUME NEW x \in IslandDays(s, D, E, lo) PROVE x \in S
  <2>1. PICK e \in EndsOf(s, E, lo) : lo[e] <= x /\ x <= e
    BY IslandClosed
  <2>2. e \in M /\ e \in good
    BY <1>10 DEF M
  <2>3. x \in daysOf(e)
    BY <2>1 DEF IslandDays
  <2> QED  BY <1>6, <2>2, <2>3
<1> QED  BY <1>11

\* The purchases of one issuer.
Buys == SUBSET (Insiders \X TradeDays)
Points == DOMAIN Grid

\* Where the window that ends on each day starts, and which of them qualify.
FromOf(g, buys) ==
    [e \in DaysOf(buys) |-> Min({d \in DaysOf(buys) : e - Grid[g].window <= d})]
EndsIn(g, buys) ==
    {e \in DaysOf(buys) :
        Cardinality(BuyersIn([from |-> FromOf(g, buys)[e], to |-> e], buys)) >= Grid[g].insiders}

LEMMA BuysAre ==
    ASSUME NEW buys \in Buys
    PROVE  /\ DaysOf(buys) \subseteq Int /\ IsFiniteSet(DaysOf(buys))
           /\ DaysOf(buys) \subseteq TradeDays
           /\ \A w : BuyersIn(w, buys) \subseteq Insiders /\ IsFiniteSet(BuyersIn(w, buys))
                        /\ Cardinality(BuyersIn(w, buys)) \in Nat
<1>1. \A b \in buys : b[1] \in Insiders /\ b[2] \in TradeDays
  BY DEF Buys
<1>2. DaysOf(buys) \subseteq TradeDays
  BY <1>1 DEF DaysOf
<1>3. TradeDays \subseteq Int /\ IsFiniteSet(TradeDays) /\ IsFiniteSet(Insiders)
  BY ClusterAssumption
<1>4. IsFiniteSet(DaysOf(buys))
  BY <1>2, <1>3, FS_Subset
<1>5. ASSUME NEW w PROVE BuyersIn(w, buys) \subseteq Insiders /\ IsFiniteSet(BuyersIn(w, buys))
                            /\ Cardinality(BuyersIn(w, buys)) \in Nat
  <2>1. BuyersIn(w, buys) \subseteq Insiders
    BY <1>1 DEF BuyersIn
  <2> QED  BY <1>3, <2>1, FS_Subset, FS_CardinalityType
<1> QED  BY <1>2, <1>3, <1>4, <1>5

LEMMA PointIs ==
    ASSUME NEW g \in Points
    PROVE  Grid[g].window \in Nat /\ Grid[g].insiders \in Nat \ {0, 1}
<1>1. Grid \in Seq([window : Nat, insiders : Nat \ {0, 1}])
  BY ClusterAssumption
<1>2. g \in 1 .. Len(Grid)
  BY <1>1, LenProperties DEF Points
<1> DEFINE S == [window : Nat, insiders : Nat \ {0, 1}]
<1>3. Grid[g] \in S
  <2> HIDE DEF S
  <2>1. Grid \in Seq(S)
    BY <1>1 DEF S
  <2> QED  BY <1>2, <2>1, ElementOfSeq
<1> QED  BY <1>3

LEMMA FromIs ==
    ASSUME NEW buys \in Buys, NEW g \in Points, NEW e \in DaysOf(buys)
    PROVE  LET from == FromOf(g, buys)[e]
           IN  /\ from \in DaysOf(buys) /\ from <= e /\ e - Grid[g].window <= from
               /\ from \in Int /\ e \in Int
               /\ \A d \in DaysOf(buys) : e - Grid[g].window <= d => from <= d
<1> DEFINE S == {d \in DaysOf(buys) : e - Grid[g].window <= d}
<1>1. DaysOf(buys) \subseteq Int /\ IsFiniteSet(DaysOf(buys)) /\ Grid[g].window \in Nat
  BY BuysAre, PointIs
<1>2. e \in Int /\ e - Grid[g].window <= e
  <2>1. e \in Int
    BY <1>1
  <2> QED  BY <1>1, <2>1
<1>3. e \in S
  BY <1>2
<1>4. S \subseteq DaysOf(buys) /\ S \subseteq Int
  BY <1>1
<1>5. IsFiniteSet(S)
  BY <1>1, <1>4, FS_Subset
<1>6. Min(S) \in S /\ \A x \in S : Min(S) <= x
  <2> HIDE DEF S
  <2> QED  BY <1>3, <1>4, <1>5, EarliestIs
<1>7. FromOf(g, buys)[e] = Min(S)
  BY DEF FromOf
<1>8. Min(S) \in DaysOf(buys) /\ e - Grid[g].window <= Min(S) /\ Min(S) <= e
        /\ \A d \in DaysOf(buys) : e - Grid[g].window <= d => Min(S) <= d
  BY <1>3, <1>6
<1> HIDE DEF S
<1>9. Min(S) \in Int
  BY <1>1, <1>8
<1> QED  BY <1>2, <1>7, <1>8, <1>9

LEMMA SpreadIs ==
    ASSUME NEW buys \in Buys, NEW g \in Points
    PROVE  Spread(DaysOf(buys), EndsIn(g, buys), FromOf(g, buys))
<1> DEFINE lo == FromOf(g, buys)
<1>1. DaysOf(buys) \subseteq Int /\ IsFiniteSet(DaysOf(buys)) /\ Grid[g].window \in Nat
  BY BuysAre, PointIs
<1>2. EndsIn(g, buys) \subseteq DaysOf(buys)
  BY DEF EndsIn
<1> HIDE DEF lo
<1>3. \A e \in DaysOf(buys) : lo[e] \in DaysOf(buys) /\ lo[e] <= e
  BY FromIs DEF lo
<1>4. ASSUME NEW e \in DaysOf(buys), NEW f \in DaysOf(buys), e <= f PROVE lo[e] <= lo[f]
  <2>1. lo[f] \in DaysOf(buys) /\ f - Grid[g].window <= lo[f] /\ lo[f] \in Int /\ f \in Int
    BY FromIs DEF lo
  <2>2. e \in Int /\ \A d \in DaysOf(buys) : e - Grid[g].window <= d => lo[e] <= d
    BY FromIs DEF lo
  <2>3. e - Grid[g].window <= lo[f]
    BY <1>1, <1>4, <2>1, <2>2
  <2> QED  BY <2>1, <2>2, <2>3
<1> QED  BY <1>1, <1>2, <1>3, <1>4 DEF Spread, lo

LEMMA QualifyingIs ==
    ASSUME NEW buys \in Buys, NEW g \in Points
    PROVE  Qualifying(g, buys) =
                {[from |-> FromOf(g, buys)[e], to |-> e] : e \in EndsIn(g, buys)}
<1>1. Windows(g, buys) = {[from |-> FromOf(g, buys)[e], to |-> e] : e \in DaysOf(buys)}
  BY DEF Windows, FromOf
<1> QED  BY <1>1 DEF Qualifying, EndsIn

\* The episodes, island by island.
SpanOf(s, g, buys) ==
    [from |-> FromOf(g, buys)[s], to |-> LastOfIsland(s, EndsIn(g, buys), FromOf(g, buys))]
StartsIn(g, buys) == {StartOf(e, EndsIn(g, buys), FromOf(g, buys)) : e \in EndsIn(g, buys)}

LEMMA StartsAre ==
    ASSUME NEW buys \in Buys, NEW g \in Points, NEW e \in EndsIn(g, buys)
    PROVE  LET w == [from |-> FromOf(g, buys)[e], to |-> e]
           IN  /\ Starts(w, Qualifying(g, buys)) <=> StartsOne(e, EndsIn(g, buys), FromOf(g, buys))
               /\ IslandOf(w, Qualifying(g, buys)) = StartOf(e, EndsIn(g, buys), FromOf(g, buys))
<1> DEFINE E == EndsIn(g, buys)
           lo == FromOf(g, buys)
           D == DaysOf(buys)
           Q == Qualifying(g, buys)
           win(f) == [from |-> lo[f], to |-> f]
<1>1. Spread(D, E, lo)
  BY SpreadIs
<1>2. Q = {win(f) : f \in E}
  BY QualifyingIs
<1>3. \A f \in E : win(f).from = lo[f] /\ win(f).to = f
  OBVIOUS
<1>4. E \subseteq D /\ D \subseteq Int /\ IsFiniteSet(D) /\ \A f \in E : f \in Int /\ lo[f] \in Int
  BY <1>1 DEF Spread
<1> HIDE DEF E, lo, D, Q
<1>5. ASSUME NEW f \in E PROVE Starts(win(f), Q) <=> StartsOne(f, E, lo)
  <2> DEFINE before == {v \in Q : v.to < f}
             F == {h \in E : h < f}
             last == CHOOSE v \in before : \A u \in before : u.to <= v.to
  <2>1. before = {win(h) : h \in F}
    BY <1>2, <1>3
  <2>2. Starts(win(f), Q) <=> before = {} \/ lo[f] > last.to
    BY DEF Starts, StartsAfter
  <2>3. CASE F = {}
    BY <2>1, <2>2, <2>3 DEF StartsOne
  <2>4. CASE F # {}
    <3>1. F \subseteq Int /\ IsFiniteSet(F)
      <4>1. F \subseteq D
        BY <1>4
      <4> QED  BY <1>4, <4>1, FS_Subset
    <3>2. Max(F) \in F /\ \A x \in F : x <= Max(F)
      <4> HIDE DEF F
      <4> QED  BY <2>4, <3>1, LatestOneIs
    <3> DEFINE m == Max(F)
    <3>3. m \in E /\ m < f /\ m \in F /\ \A h \in F : h <= m
      BY <3>2
    <3> HIDE DEF m, F
    <3>4. win(m) \in before /\ \A u \in before : u.to <= win(m).to
      BY <2>1, <3>3
    <3> HIDE DEF before
    <3>5. last \in before /\ \A u \in before : u.to <= last.to
      BY <3>4
    <3>6. PICK h \in F : last = win(h)
      BY <2>1, <3>5
    <3>7. m <= h /\ h <= m
      BY <3>3, <3>4, <3>5, <3>6
    <3>8. h \in Int /\ m \in Int
      BY <3>1, <3>3
    <3>9. last.to = m
      <4>1. h = m
        BY <3>7, <3>8
      <4> HIDE DEF last
      <4> QED  BY <3>6, <4>1
    <3>10. Starts(win(f), Q) <=> lo[f] > m
      BY <2>2, <3>4, <3>9
    <3>11. StartsOne(f, E, lo) <=> m < lo[f]
      <4>1. ASSUME m < lo[f], NEW x \in E, x < f PROVE x < lo[f]
        <5>1. x \in F
          BY <4>1 DEF F
        <5>2. x <= m /\ x \in Int /\ lo[f] \in Int
          BY <1>4, <3>3, <5>1
        <5> QED  BY <3>8, <4>1, <5>2
      <4> QED  BY <3>3, <4>1 DEF StartsOne
    <3> QED  BY <1>4, <3>8, <3>10, <3>11
  <2> QED  BY <2>3, <2>4
<1>6. IslandOf(win(e), Q) = Max({v.to : v \in {u \in Q : u.to <= e /\ Starts(u, Q)}})
  BY DEF IslandOf
<1>7. {v.to : v \in {u \in Q : u.to <= e /\ Starts(u, Q)}} = {f \in E : f <= e /\ StartsOne(f, E, lo)}
  <2>1. ASSUME NEW f \in E
        PROVE  f \in {v.to : v \in {u \in Q : u.to <= e /\ Starts(u, Q)}}
                        <=> f <= e /\ StartsOne(f, E, lo)
    <3>1. win(f) \in Q /\ win(f).to = f /\ \A v \in Q : v.to = f => v = win(f)
      BY <1>2
    <3> HIDE DEF win
    <3> QED  BY <1>5, <3>1
  <2>2. \A v \in Q : v.to \in E
    BY <1>2
  <2> QED  BY <2>1, <2>2
<1>8. IslandOf(win(e), Q) = StartOf(e, E, lo)
  BY <1>6, <1>7 DEF StartOf
<1>9. e \in E
  BY DEF E
<1> QED  BY <1>5, <1>8, <1>9 DEF E, lo, Q

LEMMA EpisodesAre ==
    ASSUME NEW buys \in Buys, NEW g \in Points
    PROVE  Episodes(g, buys) =
            {[from |-> s.from, to |-> s.to, insiders |-> BuyersIn(s, buys)] :
                s \in {SpanOf(t, g, buys) : t \in StartsIn(g, buys)}}
<1> DEFINE E == EndsIn(g, buys)
           lo == FromOf(g, buys)
           D == DaysOf(buys)
           Q == Qualifying(g, buys)
           win(f) == [from |-> lo[f], to |-> f]
           span(island) == [from |-> Min({w.from : w \in island}), to |-> Max({w.to : w \in island})]
           islandAt(t) == {w \in Q : IslandOf(w, Q) = t}
           firsts == {IslandOf(w, Q) : w \in Q}
<1>1. Spread(D, E, lo)
  BY SpreadIs
<1>2. Q = {win(f) : f \in E} /\ \A f \in E : win(f).from = lo[f] /\ win(f).to = f
  BY QualifyingIs
<1>3. \A f \in E : IslandOf(win(f), Q) = StartOf(f, E, lo)
  BY StartsAre
<1>4. firsts = StartsIn(g, buys)
  <2>1. \A w \in Q : \E f \in E : w = win(f)
    BY <1>2
  <2>2. \A f \in E : win(f) \in Q
    BY <1>2
  <2>3. StartsIn(g, buys) = {StartOf(f, E, lo) : f \in E}
    BY DEF StartsIn
  <2> HIDE DEF Q, win, E, lo
  <2> QED  BY <1>3, <2>1, <2>2, <2>3
<1>5. Episodes(g, buys) = {[from |-> s.from, to |-> s.to, insiders |-> BuyersIn(s, buys)] :
                            s \in {span(island) : island \in {islandAt(t) : t \in firsts}}}
  BY DEF Episodes
<1> HIDE DEF Q, win
<1>6. ASSUME NEW t \in firsts PROVE span(islandAt(t)) = SpanOf(t, g, buys)
  <2> DEFINE M == EndsOf(t, E, lo)
  <2>1. islandAt(t) = {win(f) : f \in M}
    BY <1>2, <1>3 DEF EndsOf
  <2>2. M \subseteq E
    BY DEF EndsOf
  <2>3. {w.to : w \in islandAt(t)} = M
    <3> HIDE DEF islandAt, M
    <3> QED  BY <1>2, <2>1, <2>2
  <2>4. {w.from : w \in islandAt(t)} = {lo[f] : f \in M}
    <3> HIDE DEF islandAt, M
    <3> QED  BY <1>2, <2>1, <2>2
  <2>5. PICK e \in E : t = StartOf(e, E, lo)
    BY <1>2, <1>3
  <2>6. t \in E /\ M # {}
    BY <1>1, <2>5, StartOfIs DEF EndsOf
  <2>7. t \in M /\ \A f \in M : lo[t] <= lo[f]
    BY <1>1, <2>6, IslandIs
  <2>8. Min({lo[f] : f \in M}) = lo[t]
    <3> DEFINE S == {lo[f] : f \in M}
    <3>1. lo[t] \in S /\ \A x \in S : lo[t] <= x
      BY <2>7
    <3>2. \A x \in S : x \in Int
      BY <1>1, <2>2 DEF Spread
    <3> HIDE DEF S
    <3>3. Min(S) \in S /\ \A x \in S : Min(S) <= x
      BY <3>1 DEF Min
    <3>4. Min(S) <= lo[t] /\ lo[t] <= Min(S) /\ Min(S) \in Int /\ lo[t] \in Int
      BY <3>1, <3>2, <3>3
    <3>5. Min(S) = lo[t]
      BY <3>4
    <3> QED  BY <3>5 DEF S
  <2>9. span(islandAt(t)) = [from |-> lo[t], to |-> Max(M)]
    <3> HIDE DEF islandAt, M
    <3> QED  BY <2>3, <2>4, <2>8
  <2> QED  BY <2>9 DEF SpanOf, LastOfIsland
<1> HIDE DEF span, islandAt, firsts
<1>7. {span(island) : island \in {islandAt(t) : t \in firsts}} = {SpanOf(t, g, buys) : t \in firsts}
  BY <1>6
<1> QED  BY <1>4, <1>5, <1>7

\* A day is beside those of the windows that qualify and have it.
LEMMA BesideIs ==
    ASSUME NEW buys \in Buys, NEW g \in Points, NEW d \in DaysOf(buys)
    PROVE  Beside(d, g, buys) =
            {x \in DaysOf(buys) : \E e \in EndsIn(g, buys) :
                /\ FromOf(g, buys)[e] <= d /\ d <= e
                /\ FromOf(g, buys)[e] <= x /\ x <= e}
<1> DEFINE E == EndsIn(g, buys)
           lo == FromOf(g, buys)
           D == DaysOf(buys)
           N == Grid[g].window
           k == Grid[g].insiders
           at(x) == [from |-> x, to |-> x + N]
           win(e) == [from |-> lo[e], to |-> e]
           beside == {x \in D : \E e \in E : lo[e] <= d /\ d <= e /\ lo[e] <= x /\ x <= e}
<1>1. /\ D \subseteq Int /\ IsFiniteSet(D) /\ N \in Nat /\ k \in Nat
      /\ \A w : IsFiniteSet(BuyersIn(w, buys)) /\ Cardinality(BuyersIn(w, buys)) \in Nat
  BY BuysAre, PointIs
<1>2. \A x \in D : x \in Int
  BY <1>1
<1>3. \A e \in D : /\ lo[e] \in D /\ lo[e] <= e /\ e - N <= lo[e] /\ lo[e] \in Int
                   /\ \A x \in D : e - N <= x => lo[e] <= x
  BY FromIs
<1>4. E = {e \in D : Cardinality(BuyersIn(win(e), buys)) >= k}
  BY DEF EndsIn
<1>5. BusyStretches(g, buys) = {w \in {at(a - b) : a \in D, b \in 0 .. N} :
                                    Cardinality(BuyersIn(w, buys)) >= k}
  BY DEF BusyStretches
<1>6. ASSUME NEW w, NEW v, \A x \in D : w.from <= x /\ x <= w.to => v.from <= x /\ x <= v.to
      PROVE  Cardinality(BuyersIn(w, buys)) <= Cardinality(BuyersIn(v, buys))
  <2>1. \A b \in buys : b[2] \in D
    BY DEF DaysOf
  <2>2. BuyersIn(w, buys) \subseteq BuyersIn(v, buys)
    BY <1>6, <2>1 DEF BuyersIn
  <2> QED  BY <1>1, <2>2, FS_Subset
<1>7. Beside(d, g, buys) = UNION {D \cap (w.from .. w.to) :
            w \in {v \in BusyStretches(g, buys) : d \in v.from .. v.to}}
  BY DEF Beside
<1> HIDE DEF E, lo, D, N, k
<1>8. ASSUME NEW x \in Beside(d, g, buys) PROVE x \in beside
  <2>1. PICK w \in BusyStretches(g, buys) : x \in D /\ x \in w.from .. w.to /\ d \in w.from .. w.to
    BY <1>7
  <2>2. PICK a \in D, b \in 0 .. N : w = at(a - b) /\ Cardinality(BuyersIn(w, buys)) >= k
    BY <1>5
  <2> DEFINE p == a - b
             F == {e \in D : p <= e /\ e <= p + N}
             e == Max(F)
  <2>3. p \in Int /\ N \in Int /\ w.from = p /\ w.to = p + N
    <3>1. a \in Int /\ b \in Int
      BY <1>1, <1>2
    <3> QED  BY <1>1, <2>2, <3>1
  <2> HIDE DEF p
  <2>4. p <= x /\ x <= p + N /\ p <= d /\ d <= p + N /\ d \in D
    BY <2>1, <2>3 DEF D
  <2>5. F \subseteq Int /\ IsFiniteSet(F) /\ d \in F /\ x \in F
    <3>1. F \subseteq D
      OBVIOUS
    <3>2. d \in F /\ x \in F
      BY <2>1, <2>4
    <3> QED  BY <1>1, <3>1, <3>2, FS_Subset
  <2>6. e \in F /\ \A y \in F : y <= e
    <3> HIDE DEF F
    <3> QED  BY <2>5, LatestOneIs
  <2> HIDE DEF e
  <2>7. e \in D /\ p <= e /\ e <= p + N /\ d <= e /\ x <= e
    BY <2>5, <2>6
  <2>8. e \in Int /\ e - N <= p
    BY <1>2, <2>3, <2>7
  <2>9. \A y \in D : p <= y /\ y <= p + N => lo[e] <= y /\ y <= e
    <3> SUFFICES ASSUME NEW y \in D, p <= y, y <= p + N PROVE lo[e] <= y /\ y <= e
      OBVIOUS
    <3>1. y \in F
      OBVIOUS
    <3>2. y <= e /\ y \in Int
      BY <1>2, <2>6, <3>1
    <3>3. e - N <= y
      BY <2>3, <2>8, <3>2
    <3> QED  BY <1>3, <2>7, <3>2, <3>3
  <2>10. Cardinality(BuyersIn(w, buys)) <= Cardinality(BuyersIn(win(e), buys))
    BY <1>6, <2>3, <2>9
  <2>11. e \in E
    BY <1>1, <1>4, <2>2, <2>7, <2>10
  <2> QED  BY <2>1, <2>4, <2>9, <2>11
<1>9. ASSUME NEW x \in D, NEW e \in E, lo[e] <= d, d <= e, lo[e] <= x, x <= e
      PROVE  x \in Beside(d, g, buys)
  <2>1. e \in D /\ Cardinality(BuyersIn(win(e), buys)) >= k
    BY <1>4
  <2>2. e \in Int /\ N \in Int /\ (e - N) + N = e /\ x \in Int /\ d \in Int /\ lo[e] \in Int
        /\ e - N <= lo[e]
    BY <1>1, <1>2, <1>3, <2>1 DEF D
  <2> DEFINE w == at(e - N)
  <2>3. w.from = e - N /\ w.to = e
    BY <2>2
  <2>4. \A y \in D : lo[e] <= y /\ y <= e => e - N <= y /\ y <= e
    BY <1>2, <2>2
  <2>5. Cardinality(BuyersIn(win(e), buys)) <= Cardinality(BuyersIn(w, buys))
    <3> HIDE DEF w
    <3> QED  BY <1>6, <2>3, <2>4
  <2>6. w \in BusyStretches(g, buys)
    <3>1. N \in 0 .. N
      BY <1>1
    <3>2. Cardinality(BuyersIn(w, buys)) >= k
      <4> HIDE DEF w
      <4> QED  BY <1>1, <2>1, <2>5
    <3> QED  BY <1>5, <2>1, <3>1, <3>2
  <2>7. d \in w.from .. w.to /\ x \in w.from .. w.to
    <3> HIDE DEF w
    <3> QED  BY <1>9, <2>2, <2>3
  <2> QED  BY <1>7, <2>6, <2>7
<1>10. Beside(d, g, buys) = beside
  BY <1>8, <1>9
<1> QED  BY <1>10 DEF E, lo, D

\* What is together with a day of an island is the island.
LEMMA TogetherIs ==
    ASSUME NEW buys \in Buys, NEW g \in Points, NEW s \in EndsIn(g, buys),
           EndsOf(s, EndsIn(g, buys), FromOf(g, buys)) # {},
           NEW d \in IslandDays(s, DaysOf(buys), EndsIn(g, buys), FromOf(g, buys))
    PROVE  Together(d, g, buys) = IslandDays(s, DaysOf(buys), EndsIn(g, buys), FromOf(g, buys))
<1> DEFINE E == EndsIn(g, buys)
           lo == FromOf(g, buys)
           D == DaysOf(buys)
           M == EndsOf(s, E, lo)
           I == IslandDays(s, D, E, lo)
           last == LastOfIsland(s, E, lo)
           closed(days) == \A x \in days : Beside(x, g, buys) \subseteq days
<1>1. Spread(D, E, lo)
  BY SpreadIs
<1>2. \A x \in D : Beside(x, g, buys) =
        {y \in D : \E e \in E : lo[e] <= x /\ x <= e /\ lo[e] <= y /\ y <= e}
  BY BesideIs
<1>3. Together(d, g, buys) = {e \in D : \A days \in SUBSET D : d \in days /\ closed(days) => e \in days}
  BY DEF Together
<1>4. I \subseteq D /\ I = {x \in D : lo[s] <= x /\ x <= last}
  BY DEF IslandDays
<1> HIDE DEF E, lo, D, I, last
<1>5. /\ \A e \in M : lo[s] <= lo[e] /\ e <= last /\ lo[e] \in Int /\ e \in Int
      /\ lo[s] \in Int /\ last \in Int
      /\ \A x \in D : x \in Int
  <2>1. /\ \A e \in M : s <= e /\ lo[s] <= lo[e] /\ e <= last
        /\ last \in M /\ s \in M
    BY <1>1, IslandIs DEF E, lo, D, last
  <2>2. \A e \in M : e \in D
    BY <1>1 DEF EndsOf, Spread
  <2>3. \A x \in D : x \in Int /\ lo[x] \in Int
    BY <1>1 DEF Spread
  <2> QED  BY <2>1, <2>2, <2>3
<1>6. closed(I)
  <2> SUFFICES ASSUME NEW x \in I, NEW y \in Beside(x, g, buys) PROVE y \in I
    OBVIOUS
  <2>1. PICK e \in E : lo[e] <= x /\ x <= e /\ lo[e] <= y /\ y <= e /\ y \in D
    BY <1>2, <1>4
  <2>2. e \in M
    <3>1. s \in E /\ M # {}
      BY DEF E, lo
    <3>2. x \in IslandDays(s, D, E, lo)
      BY DEF I
    <3> QED  BY <1>1, <2>1, <3>1, <3>2, IslandClosed
  <2>3. y \in Int /\ lo[s] <= lo[e] /\ e <= last /\ lo[e] \in Int /\ e \in Int
    BY <1>5, <2>1, <2>2
  <2>4. lo[s] <= y /\ y <= last
    BY <1>5, <2>1, <2>3
  <2> QED  BY <1>4, <2>1, <2>4
<1>7. Together(d, g, buys) \subseteq I
  <2>1. d \in I
    BY DEF I, D, E, lo
  <2>2. I \in SUBSET D
    BY <1>4
  <2> QED  BY <1>3, <1>6, <2>1, <2>2
<1>8. ASSUME NEW e \in I, NEW days \in SUBSET D, d \in days, closed(days) PROVE e \in days
  <2>1. ASSUME NEW f \in E, NEW x \in days, lo[f] <= x, x <= f, NEW y \in D, lo[f] <= y, y <= f
        PROVE  y \in days
    <3>1. y \in Beside(x, g, buys)
      BY <1>2, <2>1
    <3> QED  BY <1>8, <3>1
  <2>2. \A f \in E : (\E x \in days : lo[f] <= x /\ x <= f)
                        => {y \in D : lo[f] <= y /\ y <= f} \subseteq days
    BY <2>1
  <2>3. I \subseteq days
    BY <1>1, <1>8, <2>2, IslandLinked DEF I, E, D, lo
  <2> QED  BY <2>3
<1>9. I \subseteq Together(d, g, buys)
  BY <1>3, <1>4, <1>8
<1> QED  BY <1>7, <1>9 DEF I, D, E, lo

LEMMA ClusterOf ==
    ASSUME NEW buys \in Buys, NEW g \in Points, NEW d \in DaysOf(buys),
           NEW e \in EndsIn(g, buys), FromOf(g, buys)[e] <= d, d <= e
    PROVE  LET t == StartOf(e, EndsIn(g, buys), FromOf(g, buys))
           IN  [from |-> Min(Together(d, g, buys)), to |-> Max(Together(d, g, buys))]
                    = SpanOf(t, g, buys)
<1> DEFINE E == EndsIn(g, buys)
           lo == FromOf(g, buys)
           D == DaysOf(buys)
           t == StartOf(e, E, lo)
           M == EndsOf(t, E, lo)
           I == IslandDays(t, D, E, lo)
           last == LastOfIsland(t, E, lo)
<1>1. Spread(D, E, lo) /\ e \in E
  BY SpreadIs
<1> HIDE DEF E, lo, D
<1>2. t \in E /\ e \in M
  BY <1>1, StartOfIs DEF EndsOf
<1>3. M # {}
  BY <1>2
<1> HIDE DEF t
<1>4. /\ t \in M /\ t \in D /\ lo[t] <= lo[e] /\ e <= last /\ last \in M
      /\ \A f \in M : lo[t] <= lo[f] /\ f <= last
  BY <1>1, <1>2, <1>3, IslandIs
<1>5. M \subseteq D /\ D \subseteq Int /\ IsFiniteSet(D) /\ \A x \in D : lo[x] \in D /\ lo[x] <= x
  BY <1>1 DEF EndsOf, Spread
<1>6. I = {x \in D : lo[t] <= x /\ x <= last}
  BY DEF IslandDays
<1>7. /\ lo[t] \in D /\ lo[t] \in Int /\ last \in D /\ last \in Int /\ t \in Int
      /\ lo[e] \in Int /\ e \in Int /\ d \in Int /\ lo[t] <= t /\ t <= last /\ d \in D
  <2>1. d \in D
    BY DEF D
  <2>2. t <= last /\ last \in D /\ e \in D
    BY <1>2, <1>4, <1>5
  <2>3. lo[t] \in D /\ lo[e] \in D /\ lo[t] <= t
    BY <1>4, <1>5, <2>2
  <2> QED  BY <1>4, <1>5, <2>1, <2>2, <2>3
<1>8. lo[e] <= d /\ d <= e
  BY DEF lo
<1> HIDE DEF I, last, M
<1>9. d \in I /\ lo[t] \in I /\ last \in I
  <2>1. lo[t] <= d /\ d <= last
    BY <1>4, <1>7, <1>8
  <2>2. lo[t] <= last /\ lo[t] <= lo[t] /\ last <= last
    BY <1>7
  <2> QED  BY <1>6, <1>7, <2>1, <2>2
<1>10. Together(d, g, buys) = I
  BY <1>2, <1>3, <1>9, TogetherIs DEF I, M, E, D, lo
<1>11. I \subseteq Int /\ IsFiniteSet(I) /\ I # {}
  <2>1. I \subseteq D
    BY <1>6
  <2> QED  BY <1>5, <1>9, <2>1, FS_Subset
<1>12. Min(I) \in I /\ (\A x \in I : Min(I) <= x) /\ Max(I) \in I /\ \A x \in I : x <= Max(I)
  BY <1>11, EarliestIs, LatestOneIs
<1>13. Min(I) \in Int /\ Max(I) \in Int /\ Min(I) <= lo[t] /\ lo[t] <= Min(I)
       /\ Max(I) <= last /\ last <= Max(I)
  BY <1>6, <1>9, <1>11, <1>12
<1>14. Min(I) = lo[t] /\ Max(I) = last
  BY <1>7, <1>13
<1>15. SpanOf(t, g, buys) = [from |-> lo[t], to |-> last]
  BY DEF SpanOf, last, E, lo
<1> QED  BY <1>10, <1>14, <1>15 DEF t, E, lo

\* Gaps and islands find the bursts.
LEMMA EpisodesAreBursts ==
    ASSUME NEW buys \in Buys, NEW g \in Points
    PROVE  Episodes(g, buys) = Bursts(g, buys)
<1> DEFINE E == EndsIn(g, buys)
           lo == FromOf(g, buys)
           D == DaysOf(buys)
           near == {x \in D : Beside(x, g, buys) # {}}
           linked == {Together(d, g, buys) : d \in near}
           span(c) == [from |-> Min(c), to |-> Max(c)]
           spans == {span(c) : c \in linked}
           found == {SpanOf(t, g, buys) : t \in StartsIn(g, buys)}
<1>1. ASSUME NEW d \in near PROVE span(Together(d, g, buys)) \in found
  <2>1. PICK e \in E : lo[e] <= d /\ d <= e
    BY BesideIs
  <2>2. span(Together(d, g, buys)) = SpanOf(StartOf(e, E, lo), g, buys)
    BY <2>1, ClusterOf
  <2>3. StartOf(e, E, lo) \in StartsIn(g, buys)
    BY DEF StartsIn
  <2> QED  BY <2>2, <2>3
<1>2. ASSUME NEW t \in StartsIn(g, buys) PROVE SpanOf(t, g, buys) \in spans
  <2>1. PICK e \in E : t = StartOf(e, E, lo)
    BY DEF StartsIn
  <2>2. e \in D /\ lo[e] <= e /\ e <= e
    <3>1. e \in D
      BY DEF EndsIn
    <3> QED  BY <3>1, FromIs
  <2>3. e \in near
    <3>1. e \in Beside(e, g, buys)
      BY <2>2, BesideIs
    <3> QED  BY <2>2, <3>1
  <2>4. span(Together(e, g, buys)) = SpanOf(t, g, buys)
    BY <2>1, <2>2, ClusterOf
  <2> HIDE DEF span, near
  <2> QED  BY <2>3, <2>4
<1>3. \A x \in spans : x \in found
  <2> HIDE DEF found, near, span
  <2> QED  BY <1>1
<1>4. spans = found
  <2> HIDE DEF spans
  <2> QED  BY <1>2, <1>3
<1>5. Bursts(g, buys) = {[from |-> s.from, to |-> s.to, insiders |-> BuyersIn(s, buys)] : s \in spans}
  BY DEF Bursts
<1>6. Episodes(g, buys) = {[from |-> s.from, to |-> s.to, insiders |-> BuyersIn(s, buys)] : s \in found}
  BY EpisodesAre
<1> HIDE DEF spans, found
<1> QED  BY <1>4, <1>5, <1>6

\* A wider point of the grid has every day a narrower one has beside a day.
LEMMA BesideWider ==
    ASSUME NEW buys \in Buys, NEW g \in Points, NEW h \in Points, Wider(g, h),
           NEW d \in DaysOf(buys)
    PROVE  Beside(d, h, buys) \subseteq Beside(d, g, buys)
<1> DEFINE D == DaysOf(buys)
           lo(p) == FromOf(p, buys)
           N(p) == Grid[p].window
           k(p) == Grid[p].insiders
           win(p, e) == [from |-> lo(p)[e], to |-> e]
           count(p, e) == Cardinality(BuyersIn(win(p, e), buys))
<1>1. /\ N(g) \in Nat /\ N(h) \in Nat /\ k(g) \in Nat /\ k(h) \in Nat
      /\ N(h) <= N(g) /\ k(g) <= k(h)
  <2>1. N(g) \in Nat /\ N(h) \in Nat /\ k(g) \in Nat /\ k(h) \in Nat
    BY PointIs
  <2>2. N(g) >= N(h) /\ k(g) <= k(h)
    BY DEF Wider
  <2> QED  BY <2>1, <2>2
<1> HIDE DEF N, k
<1>2. \A p \in {g, h} : EndsIn(p, buys) = {e \in D : count(p, e) >= k(p)}
  BY DEF EndsIn, k
<1>3. ASSUME NEW e \in D PROVE lo(g)[e] <= lo(h)[e] /\ count(h, e) <= count(g, e)
  <2>1. lo(h)[e] \in D /\ e - N(h) <= lo(h)[e] /\ lo(h)[e] \in Int /\ e \in Int
    BY FromIs DEF N
  <2>2. (\A x \in D : e - N(g) <= x => lo(g)[e] <= x) /\ lo(g)[e] \in Int
    BY FromIs DEF N
  <2>3. e - N(g) <= lo(h)[e]
    BY <1>1, <2>1
  <2>4. lo(g)[e] <= lo(h)[e]
    BY <2>1, <2>2, <2>3
  <2>5. BuyersIn(win(h, e), buys) \subseteq BuyersIn(win(g, e), buys)
    <3>1. \A c \in buys : c[2] \in Int
      BY BuysAre DEF DaysOf
    <3>2. \A c \in buys : lo(h)[e] <= c[2] /\ c[2] <= e => lo(g)[e] <= c[2] /\ c[2] <= e
      BY <2>1, <2>2, <2>4, <3>1
    <3> QED  BY <3>2 DEF BuyersIn
  <2>6. count(h, e) <= count(g, e)
    BY <2>5, BuysAre, FS_Subset
  <2> QED  BY <2>4, <2>6
<1>4. \A e \in D : count(h, e) \in Nat /\ count(g, e) \in Nat
  BY BuysAre
<1>5. \A p \in {g, h} : Beside(d, p, buys) =
        {x \in D : \E e \in EndsIn(p, buys) : lo(p)[e] <= d /\ d <= e /\ lo(p)[e] <= x /\ x <= e}
  BY BesideIs
<1>6. \A x \in D : x \in Int /\ lo(g)[x] \in Int /\ lo(h)[x] \in Int
  BY FromIs
<1> SUFFICES ASSUME NEW x \in Beside(d, h, buys) PROVE x \in Beside(d, g, buys)
  OBVIOUS
<1>7. PICK e \in EndsIn(h, buys) : lo(h)[e] <= d /\ d <= e /\ lo(h)[e] <= x /\ x <= e /\ x \in D
  BY <1>5
<1>8. e \in D /\ count(h, e) >= k(h)
  BY <1>2
<1> HIDE DEF D, lo, count
<1>9. d \in D
  BY DEF D
<1>10. count(g, e) >= k(g)
  BY <1>1, <1>3, <1>4, <1>8
<1>11. lo(g)[e] <= d /\ lo(g)[e] <= x
  BY <1>3, <1>6, <1>7, <1>8, <1>9
<1> QED  BY <1>2, <1>5, <1>7, <1>8, <1>10, <1>11

BurstOf(days, buys) ==
    [from |-> Min(days), to |-> Max(days),
     insiders |-> BuyersIn([from |-> Min(days), to |-> Max(days)], buys)]

LEMMA BurstsAre ==
    ASSUME NEW buys \in Buys, NEW g \in Points
    PROVE  Bursts(g, buys) =
            {BurstOf(Together(d, g, buys), buys) : d \in {x \in DaysOf(buys) : Beside(x, g, buys) # {}}}
<1> DEFINE near == {x \in DaysOf(buys) : Beside(x, g, buys) # {}}
           c(d) == Together(d, g, buys)
           span(a) == [from |-> Min(a), to |-> Max(a)]
           full(s) == [from |-> s.from, to |-> s.to, insiders |-> BuyersIn(s, buys)]
<1>1. Bursts(g, buys) = {full(s) : s \in {span(a) : a \in {c(d) : d \in near}}}
  BY Zenon DEF Bursts
<1>2. \A a : full(span(a)) = BurstOf(a, buys)
  BY DEF BurstOf
<1> HIDE DEF near, span, full, c
<1>3. {full(s) : s \in {span(a) : a \in {c(d) : d \in near}}} = {BurstOf(c(d), buys) : d \in near}
  BY <1>2
<1> QED  BY <1>1, <1>3 DEF near, c

LEMMA TogetherSpans ==
    ASSUME NEW buys \in Buys, NEW g \in Points, NEW d \in DaysOf(buys)
    PROVE  LET c == Together(d, g, buys)
           IN  /\ d \in c /\ c \subseteq DaysOf(buys) /\ c \subseteq Int
               /\ Min(c) \in c /\ \A x \in c : Min(c) <= x
               /\ Max(c) \in c /\ \A x \in c : x <= Max(c)
<1> DEFINE c == Together(d, g, buys)
<1>1. d \in c /\ c \subseteq DaysOf(buys)
  BY DEF Together
<1>2. c \subseteq Int /\ IsFiniteSet(c) /\ c # {}
  BY <1>1, BuysAre, FS_Subset
<1> HIDE DEF c
<1>3. Min(c) \in c /\ (\A x \in c : Min(c) <= x) /\ Max(c) \in c /\ \A x \in c : x <= Max(c)
  BY <1>2, EarliestIs, LatestOneIs
<1> QED  BY <1>1, <1>2, <1>3 DEF c

LEMMA BurstsNested ==
    ASSUME NEW buys \in Buys, NEW g \in Points, NEW h \in Points, Wider(g, h),
           NEW e \in Bursts(h, buys)
    PROVE  \E f \in Bursts(g, buys) : Inside(e, f)
<1> DEFINE D == DaysOf(buys)
           burst(a) == BurstOf(a, buys)
           c(d, p) == Together(d, p, buys)
<1>1. \A p \in {g, h} : \A b : b \in Bursts(p, buys) <=>
            \E d \in D : Beside(d, p, buys) # {} /\ b = burst(c(d, p))
  BY BurstsAre
<1>2. PICK d \in D : Beside(d, h, buys) # {} /\ e = burst(c(d, h))
  BY <1>1
<1>3. \A x \in D : Beside(x, h, buys) \subseteq Beside(x, g, buys)
  BY BesideWider
<1>4. Beside(d, g, buys) # {}
  BY <1>2, <1>3
<1>5. \A p \in {g, h} : d \in c(d, p) /\ c(d, p) \subseteq D
  BY DEF Together
<1>6. c(d, h) \subseteq c(d, g)
  <2> SUFFICES ASSUME NEW x \in c(d, h), NEW days \in SUBSET D, d \in days,
                      \A y \in days : Beside(y, g, buys) \subseteq days
               PROVE  x \in days
    BY <1>5 DEF Together
  <2>1. \A y \in days : Beside(y, h, buys) \subseteq days
    BY <1>3
  <2> QED  BY <2>1 DEF Together
<1>7. burst(c(d, g)) \in Bursts(g, buys)
  BY <1>1, <1>4
<1>8. \A b \in buys : b[2] \in Int
  BY BuysAre DEF DaysOf
<1>9. \A p \in {g, h} : /\ c(d, p) \subseteq Int
                        /\ Min(c(d, p)) \in c(d, p) /\ \A x \in c(d, p) : Min(c(d, p)) <= x
                        /\ Max(c(d, p)) \in c(d, p) /\ \A x \in c(d, p) : x <= Max(c(d, p))
  BY TogetherSpans
<1> HIDE DEF c, D
<1> DEFINE min(p) == Min(c(d, p))
           max(p) == Max(c(d, p))
<1>10. min(g) <= min(h) /\ max(h) <= max(g)
  BY <1>6, <1>9
<1>11. \A p \in {g, h} : min(p) \in Int /\ max(p) \in Int
  BY <1>9
<1> HIDE DEF min, max
<1>12. \A b \in buys : min(h) <= b[2] /\ b[2] <= max(h) => min(g) <= b[2] /\ b[2] <= max(g)
  BY <1>8, <1>10, <1>11
<1>13. BuyersIn([from |-> min(h), to |-> max(h)], buys)
          \subseteq BuyersIn([from |-> min(g), to |-> max(g)], buys)
  BY <1>12 DEF BuyersIn
<1>14. Inside(burst(c(d, h)), burst(c(d, g)))
  BY <1>10, <1>13 DEF Inside, BurstOf, min, max
<1> QED  BY <1>2, <1>7, <1>14

LEMMA EpisodesTyped ==
    ASSUME NEW buys \in Buys, NEW g \in Points
    PROVE  Episodes(g, buys) \in SUBSET Episode
<1>1. \A d \in DaysOf(buys) : BurstOf(Together(d, g, buys), buys) \in Episode
  BY TogetherSpans, BuysAre DEF BurstOf, Episode
<1> QED  BY <1>1, EpisodesAreBursts, BurstsAre

LEMMA NoneFollowNone ==
    ASSUME NEW g \in Points
    PROVE  {} \in Buys /\ Episodes(g, {}) = {}
<1>1. {} \in Buys /\ DaysOf({}) = {}
  BY DEF Buys, DaysOf
<1> QED  BY <1>1, EpisodesAreBursts, BurstsAre

-----------------------------------------------------------------------------
(* InsiderClusters: the rebuilds.                                          *)

Clusters == [Points -> SUBSET Episode]
DetectRecords ==
    [step : {"idle", "loading", "rebuilding"}, loaded : BOOLEAN,
     deletes : Clusters \cup {<<>>}, writes : Seq(SUBSET Episode), covers : BOOLEAN]
ClusterTypes ==
    /\ bought \in Buys /\ unloaded \subseteq Filed
    /\ cluster \in Clusters
    /\ detect \in [Detectors -> DetectRecords]
    /\ orphaned \in BOOLEAN

Rebuilding(r) == detect[r].step = "rebuilding"
Followed == [g \in Points |-> Episodes(g, bought)]

\* One rebuild has the lock, and deletes what is there.
OneRebuilds ==
    /\ \A r, q \in Detectors : Rebuilding(r) /\ Rebuilding(q) => r = q
    /\ \A r \in Detectors : Rebuilding(r) =>
        detect[r].deletes = cluster /\ Len(detect[r].writes) <= Len(Grid)

\* Loads are a run's until its rebuild commits, or it dies with them.
LoadsHeld ==
    \A r \in Detectors :
        /\ detect[r].loaded => detect[r].step # "idle"
        /\ Rebuilding(r) /\ ~detect[r].covers => orphaned

\* Once no run has loads, the table follows what is bought; and so do the
\* statements of a rebuild there has been no load since.
TableFollows == ~orphaned /\ (\A r \in Detectors : ~detect[r].loaded) => cluster = Followed
WritesFollow ==
    \A q \in Detectors :
        Rebuilding(q) /\ detect[q].covers /\ (\A r \in Detectors \ {q} : ~detect[r].loaded) =>
            \A i \in 1 .. Len(detect[q].writes) : detect[q].writes[i] = Followed[i]

ClusterInv ==
    /\ ClusterTypes
    /\ OneRebuilds
    /\ LoadsHeld
    /\ TableFollows
    /\ WritesFollow

LEMMA PointsAre == Points = 1 .. Len(Grid) /\ Len(Grid) \in Nat
<1>1. Grid \in Seq([window : Nat, insiders : Nat \ {0, 1}])
  BY ClusterAssumption
<1> DEFINE S == [window : Nat, insiders : Nat \ {0, 1}]
<1> HIDE DEF S
<1>2. Grid \in Seq(S)
  BY <1>1 DEF S
<1> QED  BY <1>2, LenProperties DEF Points

LEMMA ClusterInitInv == ClusterInit => ClusterInv
<1> SUFFICES ASSUME ClusterInit PROVE ClusterInv
  OBVIOUS
<1>1. ClusterTypes
  <2>1. bought \in Buys /\ unloaded \subseteq Filed /\ orphaned \in BOOLEAN
    BY ClusterAssumption DEF ClusterInit, Buys
  <2>2. cluster \in Clusters
    BY DEF ClusterInit, Clusters, Points
  <2>3. NoRebuild \in DetectRecords
    BY EmptySeq DEF NoRebuild, DetectRecords
  <2>4. detect \in [Detectors -> DetectRecords]
    BY <2>3 DEF ClusterInit
  <2> QED  BY <2>1, <2>2, <2>4 DEF ClusterTypes
<1>2. \A r \in Detectors : detect[r].step = "idle" /\ ~detect[r].loaded
  BY DEF ClusterInit, NoRebuild
<1>3. TableFollows
  <2> SUFFICES ASSUME ~orphaned PROVE cluster = Followed
    BY DEF TableFollows
  <2>1. bought = {}
    BY DEF ClusterInit
  <2>2. \A g \in Points : Episodes(g, {}) = {}
    BY NoneFollowNone
  <2> QED  BY <2>1, <2>2 DEF ClusterInit, Followed, Points
<1> QED  BY <1>1, <1>2, <1>3 DEF ClusterInv, OneRebuilds, LoadsHeld, WritesFollow, Rebuilding

LEMMA ClusterKept == ClusterInv /\ [ClusterNext]_clusterVars => ClusterInv'
<1> SUFFICES ASSUME ClusterInv, [ClusterNext]_clusterVars PROVE ClusterInv'
  OBVIOUS
<1>1. /\ ClusterTypes /\ OneRebuilds /\ LoadsHeld /\ TableFollows /\ WritesFollow
      /\ detect \in [Detectors -> DetectRecords] /\ \A s \in Detectors : detect[s] \in DetectRecords
  BY DEF ClusterInv, ClusterTypes
<1>2. ASSUME NEW r \in Detectors, StartIngestForm4(r) PROVE ClusterInv'
  <2>1. /\ detect[r].step = "idle" /\ ~detect[r].loaded
        /\ UNCHANGED <<bought, unloaded, cluster, orphaned>>
    BY <1>1, <1>2 DEF StartIngestForm4, LoadsHeld
  <2>2. detect' = [detect EXCEPT ![r] = [detect[r] EXCEPT !.step = "loading"]]
    BY <1>2 DEF StartIngestForm4
  <2>3. /\ detect' \in [Detectors -> DetectRecords]
        /\ \A s \in Detectors \ {r} : detect'[s] = detect[s]
        /\ detect'[r].step = "loading" /\ ~detect'[r].loaded
        /\ detect'[r].loaded = detect[r].loaded
    BY <1>1, <2>1, <2>2 DEF DetectRecords
  <2>4. Followed' = Followed
    BY <2>1 DEF Followed
  <2>5. ClusterTypes'
    BY <1>1, <2>1, <2>3 DEF ClusterTypes
  <2>6. \A s \in Detectors : /\ Rebuilding(s)' => Rebuilding(s) /\ detect'[s] = detect[s]
                             /\ detect'[s].loaded = detect[s].loaded
    BY <2>1, <2>3 DEF Rebuilding
  <2>7. OneRebuilds' /\ LoadsHeld'
    BY <1>1, <2>1, <2>3, <2>6 DEF OneRebuilds, LoadsHeld
  <2>8. TableFollows' /\ WritesFollow'
    BY <1>1, <2>1, <2>4, <2>6 DEF TableFollows, WritesFollow
  <2> QED  BY <2>5, <2>7, <2>8 DEF ClusterInv

<1>3. ASSUME NEW r \in Detectors, BeginRebuild(r) PROVE ClusterInv'
  <2>1. /\ UNCHANGED <<bought, unloaded, cluster, orphaned>>
        /\ \A s \in Detectors : ~Rebuilding(s)
    BY <1>3 DEF BeginRebuild, ClusterLocked, Rebuilding
  <2>2. detect' = [detect EXCEPT ![r] = [detect[r] EXCEPT !.step = "rebuilding", !.deletes = cluster,
                                                          !.writes = <<>>, !.covers = TRUE]]
    BY <1>3 DEF BeginRebuild
  <2>3. cluster \in Clusters /\ <<>> \in Seq(SUBSET Episode)
    BY <1>1, EmptySeq DEF ClusterTypes
  <2>4. /\ detect' \in [Detectors -> DetectRecords]
        /\ \A s \in Detectors \ {r} : detect'[s] = detect[s]
        /\ detect'[r].step = "rebuilding" /\ detect'[r].loaded = detect[r].loaded
        /\ detect'[r].deletes = cluster /\ detect'[r].writes = <<>> /\ detect'[r].covers = TRUE
    <3> DEFINE q == [detect[r] EXCEPT !.step = "rebuilding", !.deletes = cluster,
                                      !.writes = <<>>, !.covers = TRUE]
    <3>1. /\ q \in DetectRecords /\ q.step = "rebuilding" /\ q.loaded = detect[r].loaded
          /\ q.deletes = cluster /\ q.writes = <<>> /\ q.covers = TRUE
      BY <1>1, <2>3 DEF DetectRecords
    <3> HIDE DEF q
    <3> QED  BY <1>1, <2>2, <3>1 DEF q
  <2>5. Followed' = Followed
    BY <2>1 DEF Followed
  <2>6. ClusterTypes'
    BY <1>1, <2>1, <2>4 DEF ClusterTypes
  <2>7. /\ \A s \in Detectors : detect'[s].loaded = detect[s].loaded
        /\ \A s \in Detectors : Rebuilding(s)' => s = r
    BY <2>1, <2>4 DEF Rebuilding
  <2>8. OneRebuilds'
    <3>1. Len(<<>>) <= Len(Grid)
      BY PointsAre
    <3> QED  BY <2>1, <2>4, <2>7, <3>1 DEF OneRebuilds
  <2>9. LoadsHeld'
    BY <1>1, <2>4, <2>7 DEF LoadsHeld
  <2>10. TableFollows'
    BY <1>1, <2>1, <2>5, <2>7 DEF TableFollows
  <2>11. WritesFollow'
    <3>1. 1 .. Len(detect'[r].writes) = {}
      BY <2>4
    <3> QED  BY <2>7, <3>1 DEF WritesFollow
  <2> QED  BY <2>6, <2>8, <2>9, <2>10, <2>11 DEF ClusterInv
<1>4. ASSUME NEW r \in Detectors, EndWithoutLoads(r) PROVE ClusterInv'
  <2>1. /\ detect[r].step = "loading" /\ ~detect[r].loaded
        /\ UNCHANGED <<bought, unloaded, cluster, orphaned>>
        /\ detect' = [detect EXCEPT ![r] = NoRebuild]
    BY <1>4 DEF EndWithoutLoads, MayRebuild
  <2>2. NoRebuild \in DetectRecords /\ NoRebuild.step = "idle" /\ NoRebuild.loaded = FALSE
    BY EmptySeq DEF NoRebuild, DetectRecords
  <2>3. /\ detect' \in [Detectors -> DetectRecords]
        /\ \A s \in Detectors \ {r} : detect'[s] = detect[s]
        /\ detect'[r].step = "idle" /\ ~detect'[r].loaded
        /\ detect'[r].loaded = detect[r].loaded
    <3>1. detect[r].loaded = FALSE
      BY <1>1, <2>1 DEF DetectRecords
    <3> QED  BY <1>1, <2>1, <2>2, <3>1
  <2>4. Followed' = Followed
    BY <2>1 DEF Followed
  <2>5. ClusterTypes'
    BY <1>1, <2>1, <2>3 DEF ClusterTypes
  <2>6. \A s \in Detectors : /\ Rebuilding(s)' => Rebuilding(s) /\ detect'[s] = detect[s]
                             /\ detect'[s].loaded = detect[s].loaded
    BY <2>1, <2>3 DEF Rebuilding
  <2>7. OneRebuilds' /\ LoadsHeld'
    BY <1>1, <2>1, <2>3, <2>6 DEF OneRebuilds, LoadsHeld
  <2>8. TableFollows' /\ WritesFollow'
    BY <1>1, <2>1, <2>4, <2>6 DEF TableFollows, WritesFollow
  <2> QED  BY <2>5, <2>7, <2>8 DEF ClusterInv
<1>5. ASSUME NEW r \in Detectors, InsertEpisodes(r) PROVE ClusterInv'
  <2> DEFINE q == detect[r]
             n == Len(q.writes)
             new == Episodes(n + 1, bought)
  <2>1. /\ Rebuilding(r) /\ n < Len(Grid)
        /\ UNCHANGED <<bought, unloaded, cluster, orphaned>>
        /\ detect' = [detect EXCEPT ![r] = [q EXCEPT !.writes = Append(q.writes, new)]]
    BY <1>5 DEF InsertEpisodes, Rebuilding
  <2>2. q.writes \in Seq(SUBSET Episode) /\ n \in Nat /\ q \in DetectRecords
    BY <1>1, LenProperties DEF DetectRecords
  <2>3. n + 1 \in Points /\ bought \in Buys
    BY <1>1, <2>1, <2>2, PointsAre DEF ClusterTypes
  <2>4. new \in SUBSET Episode
    BY <2>3, EpisodesTyped
  <2> DEFINE w == Append(q.writes, new)
  <2>5. /\ w \in Seq(SUBSET Episode) /\ Len(w) = n + 1
        /\ \A i \in 1 .. n : w[i] = q.writes[i]
        /\ w[n + 1] = new
    <3> HIDE DEF new
    <3> QED  BY <2>2, <2>4, AppendProperties
  <2> HIDE DEF w
  <2>6. /\ detect' \in [Detectors -> DetectRecords]
        /\ \A s \in Detectors \ {r} : detect'[s] = detect[s]
        /\ detect'[r].step = q.step /\ detect'[r].loaded = q.loaded
        /\ detect'[r].deletes = q.deletes /\ detect'[r].writes = w /\ detect'[r].covers = q.covers
    <3> DEFINE q2 == [q EXCEPT !.writes = w]
    <3>1. /\ q2 \in DetectRecords /\ q2.step = q.step /\ q2.loaded = q.loaded
          /\ q2.deletes = q.deletes /\ q2.writes = w /\ q2.covers = q.covers
      BY <2>2, <2>5 DEF DetectRecords
    <3>2. detect' = [detect EXCEPT ![r] = q2]
      BY <2>1 DEF w
    <3> HIDE DEF q2
    <3> QED  BY <1>1, <3>1, <3>2
  <2> HIDE DEF q
  <2>7. Followed' = Followed
    BY <2>1 DEF Followed
  <2>8. ClusterTypes'
    BY <1>1, <2>1, <2>6 DEF ClusterTypes
  <2>9. \A s \in Detectors : /\ Rebuilding(s)' <=> Rebuilding(s)
                             /\ detect'[s].loaded = detect[s].loaded
                             /\ detect'[s].covers = detect[s].covers
                             /\ detect'[s].deletes = detect[s].deletes
                             /\ detect'[s].step = detect[s].step
    BY <2>6 DEF Rebuilding, q
  <2>10. \A s \in Detectors : Rebuilding(s) => s = r
    BY <1>1, <2>1 DEF OneRebuilds
  <2>11. OneRebuilds'
    <3>1. Len(detect'[r].writes) <= Len(Grid)
      <4>1. n + 1 <= Len(Grid)
        BY <2>1, <2>2, PointsAre
      <4> QED  BY <2>5, <2>6, <4>1
    <3> QED  BY <1>1, <2>1, <2>9, <2>10, <3>1 DEF OneRebuilds
  <2>12. LoadsHeld'
    BY <1>1, <2>1, <2>9 DEF LoadsHeld
  <2>13. TableFollows'
    BY <1>1, <2>1, <2>7, <2>9 DEF TableFollows
  <2>14. WritesFollow'
    <3> SUFFICES ASSUME detect[r].covers, \A s \in Detectors \ {r} : ~detect[s].loaded,
                        NEW i \in 1 .. Len(w)
                 PROVE  w[i] = Followed[i]
      BY <2>6, <2>7, <2>9, <2>10 DEF WritesFollow
    <3>1. \A j \in 1 .. n : q.writes[j] = Followed[j]
      BY <1>1, <2>1 DEF WritesFollow, q
    <3>2. Followed[n + 1] = new
      BY <2>3 DEF Followed
    <3>3. i \in 1 .. n \/ i = n + 1
      <4> HIDE DEF n
      <4> QED  BY <2>2, <2>5
    <3> HIDE DEF n, new
    <3> QED  BY <2>5, <3>1, <3>2, <3>3
  <2> QED  BY <2>8, <2>11, <2>12, <2>13, <2>14 DEF ClusterInv
<1>6. ASSUME NEW r \in Detectors, CommitClusters(r) PROVE ClusterInv'
  <2> DEFINE q == detect[r]
  <2>1. /\ Rebuilding(r) /\ Len(q.writes) = Len(Grid)
        /\ cluster' = [g \in DOMAIN Grid |-> (cluster[g] \ q.deletes[g]) \cup q.writes[g]]
        /\ detect' = [detect EXCEPT ![r] = NoRebuild]
        /\ orphaned' = (orphaned /\ ~q.covers)
        /\ UNCHANGED <<bought, unloaded>>
    BY <1>6 DEF CommitClusters, Rebuilding
  <2>2. NoRebuild \in DetectRecords /\ NoRebuild.step = "idle" /\ NoRebuild.loaded = FALSE
    BY EmptySeq DEF NoRebuild, DetectRecords
  <2>3. /\ detect' \in [Detectors -> DetectRecords]
        /\ \A s \in Detectors \ {r} : detect'[s] = detect[s]
        /\ detect'[r].step = "idle" /\ ~detect'[r].loaded
    BY <1>1, <2>1, <2>2
  <2>4. q.deletes = cluster /\ q.writes \in Seq(SUBSET Episode) /\ q.covers \in BOOLEAN
    BY <1>1, <2>1 DEF OneRebuilds, DetectRecords
  <2>5. \A g \in Points : q.writes[g] \in SUBSET Episode
    <3>1. Points = 1 .. Len(q.writes)
      BY <2>1, PointsAre
    <3> DEFINE S == SUBSET Episode
    <3> HIDE DEF S, q
    <3>2. q.writes \in Seq(S)
      BY <2>4 DEF S
    <3>3. \A g \in 1 .. Len(q.writes) : q.writes[g] \in S
      BY <3>2, ElementOfSeq
    <3> QED  BY <3>1, <3>3 DEF S
  <2>6. cluster' = [g \in Points |-> q.writes[g]]
    BY <2>1, <2>4 DEF Points
  <2>7. Followed' = Followed
    BY <2>1 DEF Followed
  <2>8. ClusterTypes'
    <3>1. cluster' \in Clusters
      BY <2>5, <2>6 DEF Clusters
    <3>2. orphaned' \in BOOLEAN
      BY <2>1
    <3> QED  BY <1>1, <2>1, <2>3, <3>1, <3>2 DEF ClusterTypes
  <2>9. \A s \in Detectors : ~Rebuilding(s)'
    BY <1>1, <2>1, <2>3 DEF OneRebuilds, Rebuilding
  <2>10. OneRebuilds' /\ WritesFollow'
    BY <2>9 DEF OneRebuilds, WritesFollow
  <2>11. LoadsHeld'
    BY <1>1, <2>3, <2>9 DEF LoadsHeld
  <2>12. TableFollows'
    <3> SUFFICES ASSUME ~orphaned', \A s \in Detectors : ~detect'[s].loaded
                 PROVE  cluster' = Followed
      BY <2>7 DEF TableFollows
    <3>1. q.covers
      BY <1>1, <2>1 DEF LoadsHeld
    <3>2. \A s \in Detectors \ {r} : ~detect[s].loaded
      BY <2>3
    <3>3. \A i \in 1 .. Len(q.writes) : q.writes[i] = Followed[i]
      BY <1>1, <2>1, <3>1, <3>2 DEF WritesFollow
    <3>4. \A g \in Points : q.writes[g] = Followed[g]
      BY <2>1, <3>3, PointsAre
    <3>5. Followed = [g \in Points |-> Followed[g]]
      BY DEF Followed
    <3> HIDE DEF q
    <3> QED  BY <2>6, <3>4, <3>5
  <2> QED  BY <2>8, <2>10, <2>11, <2>12 DEF ClusterInv
<1>7. ASSUME NEW r \in Detectors, FailIngestForm4(r) PROVE ClusterInv'
  <2> DEFINE diesLoaded == detect[r].loaded
             left(s) == IF s = r THEN NoRebuild
                        ELSE IF diesLoaded THEN [detect[s] EXCEPT !.covers = FALSE] ELSE detect[s]
  <2>1. /\ orphaned' = (orphaned \/ diesLoaded)
        /\ detect' = [s \in Detectors |-> left(s)]
        /\ UNCHANGED <<bought, unloaded, cluster>>
    BY <1>7 DEF FailIngestForm4
  <2>2. NoRebuild \in DetectRecords /\ NoRebuild.step = "idle" /\ NoRebuild.loaded = FALSE
    BY EmptySeq DEF NoRebuild, DetectRecords
  <2>3. \A s \in Detectors \ {r} :
            /\ detect'[s] \in DetectRecords /\ detect'[s].step = detect[s].step
            /\ detect'[s].loaded = detect[s].loaded /\ detect'[s].deletes = detect[s].deletes
            /\ detect'[s].writes = detect[s].writes
            /\ detect'[s].covers = (detect[s].covers /\ ~diesLoaded)
    <3> SUFFICES ASSUME NEW s \in Detectors \ {r}
                 PROVE  /\ detect'[s] \in DetectRecords /\ detect'[s].step = detect[s].step
                        /\ detect'[s].loaded = detect[s].loaded /\ detect'[s].deletes = detect[s].deletes
                        /\ detect'[s].writes = detect[s].writes
                        /\ detect'[s].covers = (detect[s].covers /\ ~diesLoaded)
      OBVIOUS
    <3>1. detect'[s] = IF diesLoaded THEN [detect[s] EXCEPT !.covers = FALSE] ELSE detect[s]
      BY <2>1
    <3>2. detect[s] \in DetectRecords
      BY <1>1
    <3> HIDE DEF diesLoaded
    <3>3. CASE diesLoaded
      BY <3>1, <3>2, <3>3 DEF DetectRecords
    <3>4. CASE ~diesLoaded
      BY <3>1, <3>2, <3>4 DEF DetectRecords
    <3> QED  BY <3>3, <3>4
  <2>4. detect'[r] = NoRebuild
    BY <2>1
  <2>5. detect' \in [Detectors -> DetectRecords]
    BY <2>1, <2>2, <2>3, <2>4
  <2>6. diesLoaded \in BOOLEAN
    BY <1>1 DEF DetectRecords
  <2> HIDE DEF diesLoaded, left
  <2>7. Followed' = Followed
    BY <2>1 DEF Followed
  <2>8. ClusterTypes'
    BY <1>1, <2>1, <2>5, <2>6 DEF ClusterTypes
  <2>9. \A s \in Detectors : Rebuilding(s)' => Rebuilding(s) /\ s # r
    BY <2>2, <2>3, <2>4 DEF Rebuilding
  <2>10. OneRebuilds'
    BY <1>1, <2>1, <2>3, <2>9 DEF OneRebuilds
  <2>11. LoadsHeld'
    BY <1>1, <2>1, <2>2, <2>3, <2>4, <2>9 DEF LoadsHeld
  <2>12. TableFollows'
    <3> SUFFICES ASSUME ~orphaned', \A s \in Detectors : ~detect'[s].loaded
                 PROVE  cluster = Followed
      BY <2>1, <2>7 DEF TableFollows
    <3>1. ~orphaned /\ ~diesLoaded
      BY <2>1
    <3>2. \A s \in Detectors : ~detect[s].loaded
      BY <2>3, <3>1 DEF diesLoaded
    <3> QED  BY <1>1, <3>1, <3>2 DEF TableFollows
  <2>13. WritesFollow'
    <3> SUFFICES ASSUME NEW q \in Detectors, Rebuilding(q)', detect'[q].covers,
                        \A s \in Detectors \ {q} : ~detect'[s].loaded
                 PROVE  \A i \in 1 .. Len(detect'[q].writes) : detect'[q].writes[i] = Followed[i]
      BY <2>7 DEF WritesFollow
    <3>1. Rebuilding(q) /\ q # r /\ detect[q].covers /\ ~diesLoaded /\ detect'[q].writes = detect[q].writes
      BY <2>3, <2>9
    <3>2. \A s \in Detectors \ {q} : ~detect[s].loaded
      BY <2>3, <3>1 DEF diesLoaded
    <3> QED  BY <1>1, <3>1, <3>2 DEF WritesFollow
  <2> QED  BY <2>8, <2>10, <2>11, <2>12, <2>13 DEF ClusterInv
<1>8. ASSUME NEW r \in Detectors, NEW f \in Filed, LoadLines(r, f) PROVE ClusterInv'
  <2>1. /\ detect[r].step = "loading"
        /\ unloaded' = unloaded \ {f} /\ bought' = (bought \ f.drops) \cup f.adds
        /\ detect' = [detect EXCEPT ![r] = [detect[r] EXCEPT !.loaded = TRUE]]
        /\ UNCHANGED <<cluster, orphaned>>
    BY <1>8 DEF LoadLines
  <2>2. /\ detect' \in [Detectors -> DetectRecords]
        /\ \A s \in Detectors \ {r} : detect'[s] = detect[s]
        /\ detect'[r].step = "loading" /\ detect'[r].loaded
    BY <1>1, <2>1 DEF DetectRecords
  <2>3. ClusterTypes'
    <3>1. f.adds \in Buys
      BY ClusterAssumption DEF Buys
    <3>2. bought' \in Buys /\ unloaded' \subseteq Filed
      BY <1>1, <2>1, <3>1 DEF ClusterTypes, Buys
    <3> QED  BY <1>1, <2>1, <2>2, <3>2 DEF ClusterTypes
  <2>4. \A s \in Detectors : Rebuilding(s)' => s # r /\ Rebuilding(s) /\ detect'[s] = detect[s]
    BY <2>2 DEF Rebuilding
  <2>5. OneRebuilds' /\ LoadsHeld'
    BY <1>1, <2>1, <2>2, <2>4 DEF OneRebuilds, LoadsHeld
  <2>6. TableFollows' /\ WritesFollow'
    BY <2>2, <2>4 DEF TableFollows, WritesFollow
  <2> QED  BY <2>3, <2>5, <2>6 DEF ClusterInv
<1>9. ASSUME UNCHANGED clusterVars PROVE ClusterInv'
  <2>1. /\ bought' = bought /\ unloaded' = unloaded /\ cluster' = cluster
        /\ detect' = detect /\ orphaned' = orphaned
    BY <1>9 DEF clusterVars
  <2>2. Followed' = Followed /\ \A r \in Detectors : Rebuilding(r)' <=> Rebuilding(r)
    BY <2>1 DEF Followed, Rebuilding
  <2>3. ClusterTypes' /\ OneRebuilds' /\ LoadsHeld'
    BY <1>1, <2>1, <2>2 DEF ClusterTypes, OneRebuilds, LoadsHeld
  <2>4. TableFollows' /\ WritesFollow'
    BY <1>1, <2>1, <2>2 DEF TableFollows, WritesFollow
  <2> QED  BY <2>3, <2>4 DEF ClusterInv
<1> QED
  BY <1>2, <1>3, <1>4, <1>5, <1>6, <1>7, <1>8, <1>9 DEF ClusterNext

\* Once no Form 4 run is left with loads, and none died with them, the clusters
\* of every point of the grid are its bursts of buying, a narrower point's each
\* inside one of a wider's, however many runs loaded and rebuilt at once.
THEOREM ClustersFollowBuys == ClusterSpec => []ClustersFollow
<1>1. ClusterInv => ClustersFollow
  <2> SUFFICES ASSUME ClusterInv, ~orphaned, \A r \in Detectors : detect[r].step = "idle"
               PROVE  \A g \in DOMAIN Grid :
                        /\ cluster[g] = Bursts(g, bought)
                        /\ \A h \in DOMAIN Grid : Wider(g, h) =>
                                \A e \in cluster[h] : \E f \in cluster[g] : Inside(e, f)
    BY DEF ClustersFollow
  <2>1. cluster = Followed /\ bought \in Buys
    BY DEF ClusterInv, ClusterTypes, LoadsHeld, TableFollows
  <2>2. \A g \in Points : cluster[g] = Bursts(g, bought)
    <3>1. \A g \in Points : cluster[g] = Episodes(g, bought)
      BY <2>1 DEF Followed
    <3> QED  BY <2>1, <3>1, EpisodesAreBursts
  <2>3. ASSUME NEW g \in Points, NEW h \in Points, Wider(g, h), NEW e \in cluster[h]
        PROVE  \E f \in cluster[g] : Inside(e, f)
    BY <2>1, <2>2, <2>3, BurstsNested
  <2> QED  BY <2>2, <2>3 DEF Points
<1> QED  BY <1>1, ClusterInitInv, ClusterKept, PTL DEF ClusterSpec

LEMMA ClustersTyped == ClusterInv => ClusterTypeOK
BY DEF ClusterInv, ClusterTypes, ClusterTypeOK, Buys, Clusters, DetectRecords, Points

-----------------------------------------------------------------------------
(* Everything that is published, together.                                 *)

\* A step of a scenario is a step of the part it is of, and leaves the others.
PartsStep ==
    /\ [Next]_vars /\ [InsiderNext]_insiderVars /\ [ClusterNext]_clusterVars
    /\ [CrawlNext]_crawlVars /\ [PtrNext]_ptrVars /\ [ListingsNext]_listingVars
    /\ [PagesNext]_pagesVars

LEMMA TablesStep == AmendNext \/ SplitNext \/ OverlapNext => Next
<1>1. \A a \in DOMAIN AmendOrder \cup DOMAIN SplitOrder \cup DOMAIN OverlapOrder : a \in Accessions
  BY PublishedAssumption
<1>2. \A f \in {f1, f2, f3} : f \in Filers
  BY PublishedAssumption
<1>3. \A c \in {c1, c2, c3} : c \in Ciks
  BY PublishedAssumption
<1>4. 1 \in Periods
  BY PeriodsAssumption DEF Periods
<1>5. ASSUME NEW a, a \in DOMAIN AmendOrder \cup DOMAIN SplitOrder \cup DOMAIN OverlapOrder, Load(a)
      PROVE  Next
  BY <1>1, <1>5 DEF Next
<1>6. ASSUME NEW F, F \subseteq {f1, f2, f3}, NEW P, P \subseteq Periods, Rebuilds(F, P)
      PROVE  Next
  <2>1. \A f \in F : f \in Filers
    BY <1>2, <1>6
  <2> QED  BY <1>6, <2>1 DEF Rebuilds, Next
<1>7. ASSUME NEW f \in {f1, f2, f3}, NEW c \in {c1, c2, c3}, SetOverlap(f) \/ ClaimCik(f, c)
      PROVE  Next
  BY <1>2, <1>3, <1>7 DEF Next
<1>8. RecomputePairs => Next
  BY DEF Next
<1>9. AmendNext => Next
  BY <1>5, <1>6, <1>7, <1>8 DEF AmendNext, Loads
<1>10. SplitNext => Next
  BY <1>5, <1>6, <1>8 DEF SplitNext, Loads
<1>11. OverlapNext => Next
  BY <1>4, <1>5, <1>6, <1>7 DEF OverlapNext, Loads
<1> QED  BY <1>9, <1>10, <1>11

LEMMA PublishedStep ==
    ASSUME [PublishedNext]_<<scenario, vars, form4Vars, congressVars, pagesVars>>
    PROVE  PartsStep
<1>1. UNCHANGED <<scenario, vars, form4Vars, congressVars, pagesVars>> => PartsStep
  BY DEF PartsStep, form4Vars, congressVars
<1>2. ASSUME AmendNext \/ SplitNext \/ OverlapNext, UNCHANGED <<form4Vars, congressVars, pagesVars>>
      PROVE  PartsStep
  BY <1>2, TablesStep DEF PartsStep, form4Vars, congressVars
<1>3. ASSUME InsiderNext, UNCHANGED <<vars, clusterVars, crawlVars, congressVars, pagesVars>>
      PROVE  PartsStep
  BY <1>3 DEF PartsStep, congressVars
<1>4. ASSUME ClusterNext, UNCHANGED <<vars, insiderVars, crawlVars, congressVars, pagesVars>>
      PROVE  PartsStep
  BY <1>4 DEF PartsStep, congressVars
<1>5. ASSUME CrawlNext, UNCHANGED <<vars, insiderVars, clusterVars, congressVars, pagesVars>>
      PROVE  PartsStep
  BY <1>5 DEF PartsStep, congressVars
<1>6. ASSUME PtrNext, UNCHANGED <<vars, form4Vars, listingVars, pagesVars>>
      PROVE  PartsStep
  BY <1>6 DEF PartsStep, form4Vars
<1>7. ASSUME ListingsNext, UNCHANGED <<vars, form4Vars, ptrVars, pagesVars>>
      PROVE  PartsStep
  BY <1>7 DEF PartsStep, form4Vars
<1>8. ASSUME PagesNext, UNCHANGED <<vars, form4Vars, congressVars>>
      PROVE  PartsStep
  BY <1>8 DEF PartsStep, form4Vars, congressVars
<1>9. PublishedNext => PartsStep
  BY <1>2, <1>3, <1>4, <1>5, <1>6, <1>7, <1>8 DEF PublishedNext
<1> QED  BY <1>1, <1>9

\* What a part's own specification has, it has here too.
THEOREM EachPart ==
    PublishedSpec =>
        /\ Spec /\ InsiderSpec /\ ClusterSpec /\ CrawlSpec /\ PtrSpec /\ ListingsSpec /\ PagesSpec
<1>1. PublishedInit =>
        /\ Init /\ InsiderInit /\ ClusterInit /\ CrawlInit /\ PtrInit /\ ListingsInit /\ PagesInit
  BY DEF PublishedInit
<1>2. [PublishedNext]_<<scenario, vars, form4Vars, congressVars, pagesVars>> => PartsStep
  BY PublishedStep
<1> QED
  BY <1>1, <1>2, PTL DEF PublishedSpec, Spec, InsiderSpec, ClusterSpec, CrawlSpec, PtrSpec,
                         ListingsSpec, PagesSpec, PartsStep

\* No run has read a report of after today, nor a day after the last.
NewestInTime == date <= LastDate /\ \A r \in HouseRuns : houseRun[r].newest \in Dates

LEMMA NewestStaysInTime ==
    ASSUME ListingsInv, NewestInTime, [ListingsNext]_listingVars PROVE NewestInTime'
<1>1. /\ date \in Nat \ {0} /\ date <= LastDate /\ LastDate \in Nat
      /\ houseRun \in [HouseRuns -> HouseRecords]
      /\ \A r \in HouseRuns : houseRun[r] \in HouseRecords /\ houseRun[r].newest \in Dates
  BY ListingsAssumption DEF ListingsInv, NewestInTime
<1>2. 0 \in Dates /\ NoHouseRun.newest = 0 /\ NoHouseRun \in HouseRecords
  BY <1>1, NoRunHolds DEF Dates, NoHouseRun
<1>3. ASSUME NEW r \in HouseRuns, NEW run, houseRun' = [houseRun EXCEPT ![r] = run],
             run.newest \in Dates, date' = date
      PROVE  NewestInTime'
  <2>1. \A s \in HouseRuns : houseRun'[s] = IF s = r THEN run ELSE houseRun[s]
    BY <1>1, <1>3
  <2> QED  BY <1>1, <1>3, <2>1 DEF NewestInTime
<1>4. ASSUME NEW r \in HouseRuns, NEW years, NEW moves, NEW byHand, BeginHouse(r, years, moves, byHand)
      PROVE  NewestInTime'
  <2> DEFINE run == [NoHouseRun EXCEPT !.step = "reading", !.years = years, !.today = date,
                        !.moves = moves, !.byHand = byHand, !.first = Head(years), !.before = houseMark]
  <2>1. run.newest = 0
    BY DEF NoHouseRun
  <2>2. houseRun' = [houseRun EXCEPT ![r] = run] /\ date' = date
    BY <1>4 DEF BeginHouse
  <2> HIDE DEF run
  <2> QED  BY <1>2, <1>3, <2>1, <2>2
<1>5. ASSUME NEW r \in HouseRuns, ReadYear(r) PROVE NewestInTime'
  <2> DEFINE q == houseRun[r]
             index == {p \in onList \cap HousePtrs : IndexYear[p] = Head(q.years)}
             newest == Max({q.newest, Newest(q.today, index)})
             run == [q EXCEPT !.years = Tail(@), !.newest = newest]
  <2>1. q.step = "reading" /\ houseRun' = [houseRun EXCEPT ![r] = run] /\ date' = date
    BY <1>5 DEF ReadYear
  <2>2. q.today \in 1 .. date /\ q \in HouseRecords /\ q.newest \in Dates
    BY <1>1, <2>1 DEF ListingsInv, HouseKnows, HouseBegan
  <2>3. Newest(q.today, index) \in 0 .. q.today
    <3>1. index \in SUBSET Ptrs /\ q.today \in Nat
      BY <1>1, <2>2 DEF Ptrs
    <3> HIDE DEF index, q
    <3> QED  BY <3>1, NewestIs
  <2>4. newest \in Dates
    <3> DEFINE other == Newest(q.today, index)
    <3>1. other \in Dates /\ other \in Int /\ q.newest \in Int
      BY <1>1, <2>2, <2>3 DEF Dates
    <3> HIDE DEF other, q
    <3> QED  BY <2>2, <3>1, MaxOfTwo DEF other
  <2>5. run.newest = newest
    BY <2>2 DEF HouseRecords
  <2> HIDE DEF run, newest
  <2> QED  BY <1>3, <2>1, <2>4, <2>5
<1>6. ASSUME NEW r \in HouseRuns, FailYear(r) PROVE NewestInTime'
  <2> DEFINE q == houseRun[r]
             run == [q EXCEPT !.years = Tail(@), !.failed = TRUE]
  <2>1. houseRun' = [houseRun EXCEPT ![r] = run] /\ date' = date
    BY <1>6 DEF FailYear
  <2>2. run.newest = q.newest
    BY <1>1 DEF HouseRecords
  <2> HIDE DEF run
  <2> QED  BY <1>1, <1>3, <2>1, <2>2
<1>7. ASSUME NEW r \in HouseRuns, EndHouse(r) \/ KillHouse(r) PROVE NewestInTime'
  BY <1>2, <1>3, <1>7 DEF EndHouse, KillHouse
<1>8. CASE NextDate
  <2>1. date + 1 <= LastDate
    BY <1>1, <1>8 DEF NextDate
  <2> QED  BY <1>1, <1>8, <2>1 DEF NextDate, NewestInTime
<1>9. ASSUME UNCHANGED <<date, houseRun>> PROVE NewestInTime'
  BY <1>9 DEF NewestInTime
<1>10. ASSUME NEW r \in HouseRuns, CatchUpYears(r) \/ HouseByHand(r) PROVE NewestInTime'
  BY <1>4, <1>10 DEF CatchUpYears, HouseByHand
<1>11. ASSUME NEW p \in Ptrs, List(p) \/ Withdraw(p) PROVE NewestInTime'
  BY <1>9, <1>11 DEF List, Withdraw
<1>12. ASSUME NEW r \in SenateRuns,
              \/ CatchUpFrom(r) \/ SearchByHand(r) \/ ReadSearchPage(r)
              \/ StoreSearched(r) \/ EndSearch(r) \/ FailSearch(r)
       PROVE  NewestInTime'
  BY <1>9, <1>12 DEF CatchUpFrom, SearchByHand, BeginSearch, ReadSearchPage, StoreSearched,
                     EndSearch, FailSearch
<1>13. UNCHANGED listingVars => NewestInTime'
  BY <1>9 DEF listingVars
<1> QED
  BY <1>5, <1>6, <1>7, <1>8, <1>10, <1>11, <1>12, <1>13 DEF ListingsNext

LEMMA ListingsTyped == ListingsSpec => []ListingsTypeOK
<1>1. ListingsInit => NewestInTime
  BY ListingsAssumption DEF ListingsInit, NewestInTime, NoHouseRun, Dates
<1>2. ListingsInv /\ NewestInTime => ListingsTypeOK
  <2> SUFFICES ASSUME ListingsInv, NewestInTime PROVE ListingsTypeOK
    OBVIOUS
  <2>1. date \in Dates /\ houseMark \in Dates /\ senateMark \in Dates
    BY ListingsAssumption DEF ListingsInv, NewestInTime, Dates
  <2>2. \A r \in HouseRuns : houseRun[r] \in HouseRecords
    BY DEF ListingsInv
  <2>3. \A r \in SenateRuns : search[r] \in SearchRecords
    BY DEF ListingsInv
  <2>4. \A r \in HouseRuns : houseRun[r].step \in {"idle", "reading"}
    BY <2>2 DEF HouseRecords
  <2>5. \A r \in SenateRuns :
          /\ search[r].step \in {"idle", "searching", "listed", "stored"}
          /\ search[r].rows \subseteq Ptrs /\ search[r].passed \subseteq SenatePtrs
    BY <2>3 DEF SearchRecords, Ptrs
  <2> QED  BY <2>1, <2>4, <2>5 DEF ListingsTypeOK, ListingsInv, NewestInTime
<1>3. ListingsInv /\ NewestInTime /\ [ListingsNext]_listingVars => NewestInTime'
  BY NewestStaysInTime
<1> QED  BY <1>1, <1>2, <1>3, ListingsHold, PTL DEF ListingsSpec

\* Every table, run and listing keeps its type, in whichever order runs, loads,
\* rebuilds and people change them.
THEOREM PublishedTyped == PublishedSpec => []PublishedTypeOK
<1>1. Spec => []TypeOK
  BY TypeCorrect
<1>2. InsiderSpec => []InsiderTypeOK
  <2>1. InsiderInv => InsiderTypeOK
    BY DEF InsiderInv
  <2> QED  BY <2>1, InsiderHolds, PTL
<1>3. ClusterSpec => []ClusterTypeOK
  BY ClustersTyped, ClusterInitInv, ClusterKept, PTL DEF ClusterSpec
<1>4. CrawlSpec => []CrawlTypeOK
  <2>1. CrawlInv => CrawlTypeOK
    BY DEF CrawlInv
  <2> QED  BY <2>1, CrawlInitHolds, CrawlStepHolds, PTL DEF CrawlSpec
<1>5. PtrSpec => []PtrTypeOK
  <2>1. LinesInv => PtrTypeOK
    BY DEF LinesInv, PtrTypeOK, LineRecords, ReadingRecords, ReviewRecords, PassRecords
  <2> QED  BY <2>1, LinesHold, PTL
<1>6. PagesSpec => []PagesTypeOK
  <2>1. PagesInv => PagesTypeOK
    BY DEF PagesInv, PagesTypeOK, RowKeys
  <2> QED  BY <2>1, PagesHold, PTL
<1> QED
  BY <1>1, <1>2, <1>3, <1>4, <1>5, <1>6, ListingsTyped, EachPart, PTL DEF PublishedTypeOK
=============================================================================
