--------------------------- MODULE RecomputeProofs ---------------------------
(***************************************************************************)
(* Proofs about Recompute, for any number of filers, quarters, securities  *)
(* and filings, and for any price and split detection that find nothing    *)
(* where nobody holds anything.                                            *)
(*                                                                         *)
(* The main result is that a rebuild of one scope leaves the four derived  *)
(* tables what a full rebuild would: InStep is inductive because           *)
(*   - a price can move only at a key the scope held, before or after;     *)
(*   - a split can move only there or one quarter later;                   *)
(*   - a change can move only in the scope, in the next published period   *)
(*     after it, or across a split that moved.                             *)
(***************************************************************************)
EXTENDS Recompute, FiniteSetTheorems, WellFoundedInduction, TLAPS

-----------------------------------------------------------------------------
(* Lemmas about the definitions of PublishedTables.                        *)

\* A non-empty set of quarters has a last one.
LEMMA LastOf ==
    ASSUME NEW D \in SUBSET Periods, D # {}
    PROVE  \E q \in D : \A r \in D : r <= q
<1> DEFINE After(q) == {r \in Periods : q < r}
           T == {After(q) : q \in D}
<1>1. IsWellFoundedOn(StrictSubsetOrdering(Periods), FiniteSubsetsOf(Periods))
  BY FS_StrictSubsetOrderingWellFounded
<1>2. IsFiniteSet(Periods)
  BY PeriodsAssumption, FS_Interval DEF Periods
<1>3. T \subseteq FiniteSubsetsOf(Periods)
  <2> SUFFICES ASSUME NEW q \in D PROVE After(q) \in FiniteSubsetsOf(Periods)
    OBVIOUS
  <2>1. After(q) \subseteq Periods
    OBVIOUS
  <2>2. IsFiniteSet(After(q))
    BY <1>2, <2>1, FS_Subset
  <2> QED  BY <2>1, <2>2 DEF FiniteSubsetsOf
<1>4. T # {}
  OBVIOUS
<1> HIDE DEF T
<1>5. \E x \in T : \A y \in T : <<y, x>> \notin StrictSubsetOrdering(Periods)
  BY <1>1, <1>3, <1>4, WFMin
<1>6. PICK q \in D : \A r \in D : <<After(r), After(q)>> \notin StrictSubsetOrdering(Periods)
  BY <1>5 DEF T
<1>7. ASSUME NEW r \in D, q < r PROVE FALSE
  <2>1. q \in Int /\ r \in Int /\ r \in Periods
    BY PeriodsAssumption DEF Periods
  <2>2. After(r) \subseteq After(q) /\ r \in After(q) /\ r \notin After(r)
    BY <1>7, <2>1, PeriodsAssumption DEF Periods
  <2> QED  BY <1>6, <2>2 DEF StrictSubsetOrdering
<1> QED  BY <1>6, <1>7, PeriodsAssumption DEF Periods

\* A quarter's holdings of a security depend on the rows that list it alone.
LEMMA HoldingsUnmoved ==
    ASSUME NEW before, NEW after, NEW s, NEW p,
           \A f \in Filers : \/ after[f][p] = before[f][p]
                             \/ s \notin Listed(before[f][p]) /\ s \notin Listed(after[f][p])
    PROVE  Holdings(after, s, p) = Holdings(before, s, p)
<1>1. ASSUME NEW f \in Filers
      PROVE  {r \in after[f][p] : r.security = s} = {r \in before[f][p] : r.security = s}
  BY DEF Listed
<1> QED  BY <1>1 DEF Holdings

\* No rows, no changes, whatever came before.
LEMMA NothingPublished ==
    ASSUME NEW snap, NEW splits, NEW f, NEW p, snap[f][p] = {}
    PROVE  ChangesFor(snap, splits, f, p) = {}
BY DEF ChangesFor, Compare

\* A position held now has a row that names the period it is compared with.
LEMMA ComparesEach ==
    ASSUME NEW now, NEW before, NEW q, NEW splits, NEW s \in Listed(now)
    PROVE  \E r \in Compare(now, before, q, splits) : r.security = s /\ r.prev = q
<1>1. PICK n \in now : n.security = s
  BY DEF Listed
<1>2. CASE s \in Listed(before)
  <2> DEFINE suspect == \E b \in now \cup before : b.suspect
  <2>1. InBoth(n, before, q, splits, suspect) \in Compare(now, before, q, splits)
    BY <1>1, <1>2 DEF Compare
  <2> QED  BY <1>1, <2>1 DEF InBoth, ChangeRow
<1>3. CASE s \notin Listed(before)
  <2> DEFINE suspect == \E b \in now \cup before : b.suspect
  <2>1. Opened(n, q, suspect) \in Compare(now, before, q, splits)
    BY <1>1, <1>3 DEF Compare
  <2> QED  BY <1>1, <2>1 DEF Opened, ChangeRow
<1> QED  BY <1>2, <1>3

\* The period a published one is compared with moves only if the scope holds
\* a period the published one comes next after.
LEMMA PreviousUnmoved ==
    ASSUME NEW before, NEW after, NEW scope \in SUBSET Pairs, NEW f \in Filers,
           NEW p \in Periods,
           \A r \in Periods : <<f, r>> \notin scope => after[f][r] = before[f][r],
           <<f, p>> \notin scope, <<f, p>> \notin Following(after, scope),
           IsPublished(after, f, p)
    PROVE  /\ Previous(after, f, p) = Previous(before, f, p)
           /\ \A q \in Previous(after, f, p) : <<f, q>> \notin scope
<1> USE PeriodsAssumption DEF Periods
<1> DEFINE between(q) == {m \in Periods : q < m /\ m < p /\ IsPublished(after, f, m)}
<1>1. ASSUME NEW r \in Periods, r < p, <<f, r>> \in scope
      PROVE  between(r) # {}
  BY <1>1 DEF Following, Pairs
<1>2. ASSUME NEW q \in Previous(after, f, p), NEW r \in Periods, q <= r, r < p
      PROVE  <<f, r>> \notin scope
  BY <1>1, <1>2 DEF Previous
<1>3. ASSUME NEW q \in Previous(after, f, p) PROVE q \in Previous(before, f, p)
  <2>1. q \in Periods /\ q < p /\ q <= q /\ IsPublished(after, f, q)
    BY DEF Previous
  <2>2. IsPublished(before, f, q)
    BY <1>2, <2>1 DEF IsPublished
  <2>3. ASSUME NEW r \in Periods, q < r, r < p PROVE ~IsPublished(before, f, r)
    <3>1. ~IsPublished(after, f, r)
      BY <2>3 DEF Previous
    <3>2. <<f, r>> \notin scope
      BY <1>2, <2>1, <2>3
    <3> QED  BY <3>1, <3>2 DEF IsPublished
  <2> QED  BY <2>1, <2>2, <2>3 DEF Previous
<1>4. ASSUME NEW q \in Previous(before, f, p), NEW r \in Periods, q <= r, r < p
      PROVE  <<f, r>> \notin scope
  <2> SUFFICES ASSUME <<f, r>> \in scope PROVE FALSE
    OBVIOUS
  <2>1. PICK m \in between(r) : \A n \in between(r) : n <= m
    BY <1>1, <1>4, LastOf
  <2>2. m \in Previous(after, f, p)
    BY <2>1 DEF Previous
  <2>3. <<f, m>> \notin scope
    BY <1>2, <2>1, <2>2
  <2>4. IsPublished(before, f, m)
    BY <2>1, <2>3 DEF IsPublished
  <2> QED  BY <1>4, <2>1, <2>4 DEF Previous
<1>5. ASSUME NEW q \in Previous(before, f, p) PROVE q \in Previous(after, f, p)
  <2>1. q \in Periods /\ q < p /\ q <= q /\ IsPublished(before, f, q)
    BY DEF Previous
  <2>2. IsPublished(after, f, q)
    BY <1>4, <2>1 DEF IsPublished
  <2>3. ASSUME NEW r \in Periods, q < r, r < p PROVE ~IsPublished(after, f, r)
    <3>1. ~IsPublished(before, f, r)
      BY <2>3 DEF Previous
    <3>2. <<f, r>> \notin scope
      BY <1>4, <2>1, <2>3
    <3> QED  BY <3>1, <3>2 DEF IsPublished
  <2> QED  BY <2>1, <2>2, <2>3 DEF Previous
<1>6. \A q \in Previous(after, f, p) : q \in Periods /\ q <= q /\ q < p
  BY DEF Previous
<1> QED  BY <1>2, <1>3, <1>5, <1>6

\* Only a split of a security held now, since the previous period, adjusts a
\* pair's changes.
LEMMA ChangesUnmoved ==
    ASSUME NEW f \in Filers, NEW p \in Periods,
           snapshot'[f][p] = snapshot[f][p],
           Previous(snapshot', f, p) = Previous(snapshot, f, p),
           \A q \in Previous(snapshot', f, p) : snapshot'[f][q] = snapshot[f][q],
           Listed(snapshot'[f][p]) \subseteq Securities,
           \A s \in Listed(snapshot'[f][p]), q \in Previous(snapshot', f, p), x \in Periods :
                q < x /\ x <= p => split'[s][x] = split[s][x]
    PROVE  ChangesFor(snapshot', split', f, p) = ChangesFor(snapshot, split, f, p)
<1> DEFINE q == PreviousPeriod(snapshot', f, p)
           now == Listed(snapshot'[f][p])
<1>1. q = PreviousPeriod(snapshot, f, p)
  BY DEF PreviousPeriod
<1>2. CASE q = 0
  BY <1>1, <1>2 DEF ChangesFor
<1>3. CASE q # 0
  <2>1. q \in Previous(snapshot', f, p)
    BY <1>3 DEF PreviousPeriod
  <2> HIDE DEF q
  <2>2. snapshot'[f][q] = snapshot[f][q]
    BY <2>1
  <2>3. SplitsAcross(split', now, q, p) = SplitsAcross(split, now, q, p)
    <3>1. \A s \in now, x \in Periods : q < x /\ x <= p => split'[s][x] = split[s][x]
      BY <2>1
    <3> HIDE DEF now
    <3> QED  BY <3>1 DEF SplitsAcross
  <2> QED  BY <1>1, <1>3, <2>2, <2>3 DEF ChangesFor, q
<1> QED  BY <1>2, <1>3

\* What is published lists securities the filings that count list.
LEMMA PublishedSecurities ==
    ASSUME NEW rows, NEW ros, NEW f, NEW p, NEW inc,
           \A a \in Accessions : rows[a] = Unloaded \/ IsFilingRow(rows[a])
    PROVE  Listed(PublishedRows(rows, ros, f, p, inc)) \subseteq Securities
<1> DEFINE counted == [a \in Effective(rows, ros, f, p) |-> rows[a]]
<1>1. \A a \in DOMAIN counted : DOMAIN counted[a].held \subseteq Securities
  BY DEF Effective, CountsForCik, Candidates, FiledFor, IsFilingRow
<1> HIDE DEF counted
<1>2. Listed(RowsFrom(counted, inc)) \subseteq UNION {DOMAIN counted[a].held : a \in DOMAIN counted}
  <2>1. \A s : RowOf(counted, s).security = s
    BY DEF RowOf
  <2> QED  BY <2>1 DEF Listed, RowsFrom
<1> QED  BY <1>1, <1>2 DEF PublishedRows, counted

-----------------------------------------------------------------------------
(* The steps: every action that changes a table rebuilds one scope, or     *)
(* redetects splits.                                                       *)

LEMMA FilingPairsArePairs ==
    ASSUME NEW rows, NEW a \in Accessions, rows[a] = Unloaded \/ IsFilingRow(rows[a])
    PROVE  FilingPairs(rows, a) \subseteq Pairs
BY DEF FilingPairs, IsFilingRow, Pairs

LEMMA LoadTypes ==
    ASSUME TypeOK, NEW a \in Accessions, Load(a)
    PROVE  FilingsOK' /\ LoadScope(a) \subseteq Pairs
<1>1. PICK document \in Parses[a] :
        filing' = [filing EXCEPT ![a] =
            [cik |-> document.cik, filer |-> LinkedFiler(a, document),
             period |-> document.period, kind |-> document.kind, suspect |-> document.suspect,
             held |-> IF LinkedFiler(a, document) = NoFiler THEN NoHoldings ELSE document.held]]
  BY DEF Load
<1>2. LinkedFiler(a, document) \in Filers \cup {NoFiler}
  BY ParsesAssumption DEF TypeOK, FilingsOK, LinkedFiler, Roster, IsFilingRow
<1>3. IsFilingRow(filing'[a])
  BY <1>1, <1>2, ParsesAssumption DEF TypeOK, FilingsOK, IsFilingRow, NoHoldings
<1>4. FilingsOK'
  BY <1>1, <1>3 DEF TypeOK, FilingsOK
<1> QED  BY <1>4, FilingPairsArePairs DEF TypeOK, FilingsOK, LoadScope

LEMMA RebuildTypes ==
    ASSUME TypeOK, FilingsOK', NEW scope \in SUBSET Pairs, NEW inc, Rebuild(scope, inc)
    PROVE  /\ SnapshotOK'
           /\ IsTable(price', Securities) /\ IsTable(split', Securities) /\ IsTable(change', Filers)
           /\ announced' \in SUBSET Pairs
<1>1. ASSUME NEW f \in Filers, NEW p \in Periods
      PROVE  Listed(snapshot'[f][p]) \subseteq Securities
  <2>1. CASE <<f, p>> \in scope
    <3>1. snapshot'[f][p] = PublishedRows(filing', roster, f, p, inc)
      BY <2>1 DEF Rebuild
    <3> QED  BY <3>1, PublishedSecurities DEF FilingsOK
  <2>2. CASE <<f, p>> \notin scope
    BY <2>2 DEF Rebuild, TypeOK, SnapshotOK
  <2> QED  BY <2>1, <2>2
<1>2. SnapshotOK'
  BY <1>1 DEF Rebuild, SnapshotOK, IsTable
<1>3. announced' \in SUBSET Pairs
  BY DEF Rebuild, Touched, Following, Crossing
<1> QED  BY <1>2, <1>3 DEF Rebuild, RedetectSplits, RebuildChanges, IsTable

\* Where the scope holds no row of a security in a quarter, before or after,
\* that quarter's holdings of it are the same.
LEMMA UnheldUnmoved ==
    ASSUME NEW scope \in SUBSET Pairs, NEW inc, Rebuild(scope, inc),
           NEW s \in Securities, NEW p \in Periods, <<s, p>> \notin HeldAcross(scope)
    PROVE  Holdings(snapshot', s, p) = Holdings(snapshot, s, p)
<1>1. ASSUME NEW f \in Filers
      PROVE  \/ snapshot'[f][p] = snapshot[f][p]
             \/ s \notin Listed(snapshot[f][p]) /\ s \notin Listed(snapshot'[f][p])
  <2>1. CASE <<f, p>> \notin scope
    BY <2>1 DEF Rebuild
  <2>2. CASE <<f, p>> \in scope
    BY <2>2 DEF HeldAcross, HeldIn, Keys
  <2> QED  BY <2>1, <2>2
<1> QED  BY <1>1, HoldingsUnmoved

LEMMA RebuildPrices ==
    ASSUME PricesInStep, NEW scope \in SUBSET Pairs, NEW inc, Rebuild(scope, inc)
    PROVE  PricesInStep'
<1> SUFFICES ASSUME NEW s \in Securities, NEW p \in Periods
             PROVE  price'[s][p] = PriceFor(snapshot', s, p)
  BY DEF PricesInStep
<1>1. CASE <<s, p>> \in HeldAcross(scope)
  BY <1>1 DEF Rebuild
<1>2. CASE <<s, p>> \notin HeldAcross(scope)
  <2>1. price'[s][p] = price[s][p]
    BY <1>2 DEF Rebuild
  <2> QED  BY <1>2, <2>1, UnheldUnmoved DEF PricesInStep, PriceFor
<1> QED  BY <1>1, <1>2

LEMMA RebuildSplits ==
    ASSUME PricesInStep, SplitsInStep, NEW scope \in SUBSET Pairs, NEW inc, Rebuild(scope, inc)
    PROVE  SplitsInStep'
<1> SUFFICES ASSUME NEW s \in Securities, NEW p \in Periods
             PROVE  split'[s][p] = SplitFor(snapshot', price', s, p)
  BY DEF SplitsInStep
<1> DEFINE keys == SplitKeys(HeldAcross(scope))
<1>1. split'[s][p] = IF <<s, p>> \in keys THEN SplitFor(snapshot', price', s, p) ELSE split[s][p]
  BY DEF Rebuild, RedetectSplits
<1>2. CASE <<s, p>> \notin keys
  <2>1. <<s, p>> \notin HeldAcross(scope)
    BY <1>2 DEF SplitKeys
  <2>2. Holdings(snapshot', s, p) = Holdings(snapshot, s, p) /\ price'[s][p] = price[s][p]
    BY <2>1, UnheldUnmoved DEF Rebuild
  <2>3. CASE p = 1
    BY <1>1, <1>2, <2>3 DEF SplitsInStep, SplitFor
  <2>4. CASE p # 1
    <3>1. p - 1 \in Periods
      BY <2>4, PeriodsAssumption DEF Periods
    <3>2. <<s, p - 1>> \notin HeldAcross(scope)
      BY <1>2 DEF SplitKeys, Keys
    <3>3. /\ Holdings(snapshot', s, p - 1) = Holdings(snapshot, s, p - 1)
          /\ price'[s][p - 1] = price[s][p - 1]
      BY <3>1, <3>2, UnheldUnmoved DEF Rebuild
    <3> QED  BY <1>1, <1>2, <2>2, <2>4, <3>3 DEF SplitsInStep, SplitFor
  <2> QED  BY <2>3, <2>4
<1> QED  BY <1>1, <1>2

\* crossing_pairs reads the changes before they are rebuilt, and misses none:
\* a pair it leaves out has no split of a security it holds that moved.
LEMMA UncrossedSplits ==
    ASSUME ChangesInStep, NEW f \in Filers, NEW p \in Periods, <<f, p>> \notin Crossing(Moved),
           NEW s \in Listed(snapshot[f][p]), s \in Securities,
           NEW q \in Previous(snapshot, f, p), NEW x \in Periods, q < x, x <= p
    PROVE  split'[s][x] = split[s][x]
<1> SUFFICES ASSUME split'[s][x] # split[s][x] PROVE FALSE
  OBVIOUS
<1>1. <<s, x>> \in Moved
  BY DEF Moved, Keys
<1>2. PreviousPeriod(snapshot, f, p) = q /\ q # 0 /\ q \in Periods
  <2>1. q \in Periods /\ \A r \in Previous(snapshot, f, p) : r = q
    BY PeriodsAssumption DEF Previous, Periods
  <2>2. q # 0
    BY <2>1, PeriodsAssumption DEF Periods
  <2> QED  BY <2>1, <2>2 DEF PreviousPeriod
<1>3. change[f][p] = Compare(snapshot[f][p], snapshot[f][q], q,
                             SplitsAcross(split, Listed(snapshot[f][p]), q, p))
  BY <1>2 DEF ChangesInStep, ChangesFor
<1>4. \E r \in change[f][p] : r.security = s /\ r.prev = q
  BY <1>3, ComparesEach
<1> QED  BY <1>1, <1>2, <1>4 DEF Crossing, Pairs

LEMMA RebuiltChanges ==
    ASSUME TypeOK, ChangesInStep, SnapshotOK', NEW scope \in SUBSET Pairs, NEW inc,
           Rebuild(scope, inc)
    PROVE  ChangesInStep'
<1> SUFFICES ASSUME NEW f \in Filers, NEW p \in Periods
             PROVE  change'[f][p] = ChangesFor(snapshot', split', f, p)
  BY DEF ChangesInStep
<1> DEFINE following == Following(snapshot', scope)
           rebuilt == scope \cup following \cup (Crossing(Moved) \ (scope \cup following))
<1>1. change'[f][p] = IF <<f, p>> \in rebuilt THEN ChangesFor(snapshot', split', f, p)
                      ELSE change[f][p]
  BY DEF Rebuild, RebuildChanges
<1>2. CASE <<f, p>> \notin rebuilt
  <2>1. <<f, p>> \notin scope /\ <<f, p>> \notin following /\ <<f, p>> \notin Crossing(Moved)
    BY <1>2
  <2>2. \A r \in Periods : <<f, r>> \notin scope => snapshot'[f][r] = snapshot[f][r]
    BY DEF Rebuild
  <2>3. CASE snapshot'[f][p] = {}
    <3>1. ChangesFor(snapshot', split', f, p) = {}
      BY <2>3, NothingPublished
    <3>2. ChangesFor(snapshot, split, f, p) = {}
      BY <2>1, <2>2, <2>3, NothingPublished
    <3> QED  BY <1>1, <1>2, <3>1, <3>2 DEF ChangesInStep
  <2>4. CASE snapshot'[f][p] # {}
    <3>1. /\ Previous(snapshot', f, p) = Previous(snapshot, f, p)
          /\ \A q \in Previous(snapshot', f, p) : <<f, q>> \notin scope
      BY <2>1, <2>2, <2>4, PreviousUnmoved DEF IsPublished
    <3>2. \A q \in Previous(snapshot', f, p) : snapshot'[f][q] = snapshot[f][q]
      BY <2>2, <3>1 DEF Previous
    <3>3. Listed(snapshot'[f][p]) \subseteq Securities
      BY DEF SnapshotOK
    <3>4. \A s \in Listed(snapshot'[f][p]), q \in Previous(snapshot', f, p), x \in Periods :
            q < x /\ x <= p => split'[s][x] = split[s][x]
      BY <2>1, <2>2, <3>1, <3>3, UncrossedSplits
    <3>5. ChangesFor(snapshot', split', f, p) = ChangesFor(snapshot, split, f, p)
      BY <2>1, <2>2, <3>1, <3>2, <3>3, <3>4, ChangesUnmoved
    <3> QED  BY <1>1, <1>2, <3>5 DEF ChangesInStep
  <2> QED  BY <2>3, <2>4
<1> QED  BY <1>1, <1>2

LEMMA DetectedChanges ==
    ASSUME TypeOK, ChangesInStep, UNCHANGED snapshot, RebuildChanges(Crossing(Moved))
    PROVE  ChangesInStep'
<1> SUFFICES ASSUME NEW f \in Filers, NEW p \in Periods
             PROVE  change'[f][p] = ChangesFor(snapshot', split', f, p)
  BY DEF ChangesInStep
<1>1. change'[f][p] = IF <<f, p>> \in Crossing(Moved) THEN ChangesFor(snapshot', split', f, p)
                      ELSE change[f][p]
  BY DEF RebuildChanges
<1>2. CASE <<f, p>> \notin Crossing(Moved)
  <2>1. Listed(snapshot[f][p]) \subseteq Securities
    BY DEF TypeOK, SnapshotOK
  <2>2. \A s \in Listed(snapshot[f][p]), q \in Previous(snapshot, f, p), x \in Periods :
          q < x /\ x <= p => split'[s][x] = split[s][x]
    BY <1>2, <2>1, UncrossedSplits
  <2>3. ChangesFor(snapshot', split', f, p) = ChangesFor(snapshot, split, f, p)
    BY <2>1, <2>2, ChangesUnmoved
  <2> QED  BY <1>1, <1>2, <2>3 DEF ChangesInStep
<1> QED  BY <1>1, <1>2

\* What the actions have in common: each rebuilds one scope in a transaction
\* that may also load a filing, or detects splits, or writes the roster alone.
LEMMA StepCases ==
    ASSUME TypeOK, [Next]_vars
    PROVE  \/ \E scope \in SUBSET Pairs, inc \in BOOLEAN : FilingsOK' /\ Rebuild(scope, inc)
           \/ DetectSplits
           \/ UNCHANGED <<filing, snapshot, price, split, change, announced>>
<1>1. ASSUME UNCHANGED filing PROVE FilingsOK'
  BY <1>1 DEF TypeOK, FilingsOK
<1>2. ASSUME NEW a \in Accessions, Load(a)
      PROVE  \E scope \in SUBSET Pairs, inc \in BOOLEAN : FilingsOK' /\ Rebuild(scope, inc)
  <2>1. FilingsOK' /\ LoadScope(a) \in SUBSET Pairs
    BY <1>2, LoadTypes
  <2>2. Rebuild(LoadScope(a), FALSE)
    BY <1>2 DEF Load
  <2> QED  BY <2>1, <2>2
<1>3. CASE RecomputeAll
  BY <1>1, <1>3 DEF RecomputeAll
<1>4. ASSUME NEW f \in Filers, RecomputeFiler(f)
      PROVE  \E scope \in SUBSET Pairs, inc \in BOOLEAN : FilingsOK' /\ Rebuild(scope, inc)
  <2> DEFINE scope == {x \in Pairs : x[1] = f /\ Exists(f, x[2])}
  <2>1. scope \in SUBSET Pairs
    OBVIOUS
  <2> QED  BY <1>1, <1>4, <2>1 DEF RecomputeFiler
<1>5. ASSUME NEW p \in Periods, RecomputePeriod(p)
      PROVE  \E scope \in SUBSET Pairs, inc \in BOOLEAN : FilingsOK' /\ Rebuild(scope, inc)
  <2> DEFINE scope == {x \in Pairs : x[2] = p /\ Exists(x[1], p)}
  <2>1. scope \in SUBSET Pairs
    OBVIOUS
  <2> QED  BY <1>1, <1>5, <2>1 DEF RecomputePeriod
<1>6. CASE RecomputePairs
  <2>1. PICK x \in Pairs, inc \in BOOLEAN : UNCHANGED filing /\ Rebuild({x}, inc)
    BY <1>6 DEF RecomputePairs
  <2> QED  BY <1>1, <2>1
<1>7. CASE \E f \in Filers, c \in Ciks : SetOverlap(f) \/ Reprioritise(f) \/ ClaimCik(f, c)
  BY <1>7 DEF SetOverlap, Reprioritise, ClaimCik, Reseed
<1>8. CASE \E f \in Filers : SetOverlap(f) \/ Reprioritise(f)
  BY <1>8 DEF SetOverlap, Reprioritise, Reseed
<1>9. CASE UNCHANGED vars
  BY <1>9 DEF vars
<1> QED  BY <1>2, <1>3, <1>4, <1>5, <1>6, <1>7, <1>8, <1>9 DEF Next

\* A filer's CIKs, however many it has, are ranked below the number of CIKs.
LEMMA RankBound ==
    ASSUME NEW S \in SUBSET Ciks
    PROVE  Cardinality(S) \in 0..Cardinality(Ciks)
BY FiniteCiksAssumption, FS_Subset, FS_CardinalityType

LEMMA RosterStep ==
    ASSUME TypeOK, [Next]_vars
    PROVE  roster' \in Roster /\ reseeded' \in SUBSET Filers
<1> USE DEF TypeOK
<1>1. ASSUME NEW f \in Filers, SetOverlap(f)
      PROVE  roster' \in Roster /\ reseeded' \in SUBSET Filers
  BY <1>1 DEF SetOverlap, Reseed, Roster
<1>2. ASSUME NEW f \in Filers, NEW c \in Ciks, ClaimCik(f, c)
      PROVE  roster' \in Roster /\ reseeded' \in SUBSET Filers
  <2>1. Cardinality({d \in Ciks : roster.owner[d] = f}) \in 0..Cardinality(Ciks)
    BY RankBound
  <2> QED  BY <1>2, <2>1 DEF ClaimCik, Reseed, Roster
<1>3. ASSUME NEW f \in Filers, Reprioritise(f)
      PROVE  roster' \in Roster /\ reseeded' \in SUBSET Filers
  <2>1. PICK c \in Ciks, d \in Ciks :
            Reseed(f, [roster EXCEPT !.priority[c] = roster.priority[d],
                                     !.priority[d] = roster.priority[c]])
    BY <1>3 DEF Reprioritise
  <2>2. roster.priority[c] \in 0..Cardinality(Ciks) /\ roster.priority[d] \in 0..Cardinality(Ciks)
    BY DEF Roster
  <2>3. [[roster.priority EXCEPT ![c] = roster.priority[d]] EXCEPT ![d] = roster.priority[c]]
            \in [Ciks -> 0..Cardinality(Ciks)]
    BY <2>2 DEF Roster
  <2>4. roster' = [roster EXCEPT !.priority =
            [[roster.priority EXCEPT ![c] = roster.priority[d]] EXCEPT ![d] = roster.priority[c]]]
    BY <2>1 DEF Reseed, Roster
  <2> QED  BY <2>1, <2>3, <2>4 DEF Reseed, Roster
<1>4. ASSUME NEW a \in Accessions, Load(a)
      PROVE  UNCHANGED roster /\ reseeded' \in SUBSET Filers
  BY <1>4 DEF Load
<1>5. CASE \/ RecomputeAll \/ RecomputePairs \/ DetectSplits
           \/ \E f \in Filers : RecomputeFiler(f)
           \/ \E p \in Periods : RecomputePeriod(p)
  BY <1>5 DEF RecomputeAll, RecomputeFiler, RecomputePeriod, RecomputePairs, DetectSplits
<1>6. CASE UNCHANGED vars
  BY <1>6 DEF vars
<1> QED  BY <1>1, <1>2, <1>3, <1>4, <1>5, <1>6 DEF Next

-----------------------------------------------------------------------------
(* Theorems.                                                               *)

\* Every table stays typed: what is announced is a pair of a tracked filer
\* and a quarter, and what is published lists known securities.
THEOREM TypeCorrect == Spec => []TypeOK
<1>1. Init => TypeOK
  <2> SUFFICES ASSUME Init PROVE TypeOK
    OBVIOUS
  <2>1. roster \in Roster
    <3>1. \A owner : \A c \in Ciks : Cardinality(EarlierListed(owner, c)) \in 0..Cardinality(Ciks)
      BY RankBound DEF EarlierListed
    <3>2. 0 \in 0..Cardinality(Ciks)
      BY FiniteCiksAssumption, FS_CardinalityType
    <3> QED  BY <3>1, <3>2, ClaimsAssumption, PoliciesAssumption DEF Init, Roster
  <2>2. SnapshotOK
    BY DEF Init, SnapshotOK, Listed, IsTable
  <2> QED  BY <2>1, <2>2 DEF Init, TypeOK, FilingsOK, IsTable
<1>2. TypeOK /\ [Next]_vars => TypeOK'
  <2> SUFFICES ASSUME TypeOK, [Next]_vars PROVE TypeOK'
    OBVIOUS
  <2>1. roster' \in Roster /\ reseeded' \in SUBSET Filers
    BY RosterStep
  <2>2. CASE \E scope \in SUBSET Pairs, inc \in BOOLEAN : FilingsOK' /\ Rebuild(scope, inc)
    BY <2>1, <2>2, RebuildTypes DEF TypeOK
  <2>3. CASE DetectSplits
    <3>1. announced' \in SUBSET Pairs
      BY <2>3 DEF DetectSplits, Crossing
    <3> QED  BY <2>1, <2>3, <3>1
             DEF TypeOK, FilingsOK, SnapshotOK, DetectSplits, RedetectSplits, RebuildChanges, IsTable
  <2>4. CASE UNCHANGED <<filing, snapshot, price, split, change, announced>>
    BY <2>1, <2>4 DEF TypeOK, FilingsOK, SnapshotOK
  <2> QED  BY <2>2, <2>3, <2>4, StepCases
<1> QED  BY <1>1, <1>2, PTL DEF Spec

LEMMA InStepInit == Init => InStep
<1> SUFFICES ASSUME Init PROVE InStep
  OBVIOUS
<1>1. \A s, p : p \in Periods => Holdings(snapshot, s, p) = {}
  BY DEF Init, Holdings
<1>2. PricesInStep
  BY <1>1, NoHoldersAssumption DEF Init, PricesInStep, PriceFor
<1>3. SplitsInStep
  <2> SUFFICES ASSUME NEW s \in Securities, NEW p \in Periods, p # 1
               PROVE  SplitFor(snapshot, price, s, p) = NoSplit
    BY DEF SplitsInStep, SplitFor, Init
  <2>1. p - 1 \in Periods
    BY PeriodsAssumption DEF Periods
  <2> QED  BY <1>1, <2>1, NoHoldersAssumption DEF SplitFor, Init
<1>4. ChangesInStep
  BY NothingPublished DEF Init, ChangesInStep
<1> QED  BY <1>2, <1>3, <1>4 DEF InStep

LEMMA InStepNext == TypeOK /\ TypeOK' /\ InStep /\ [Next]_vars => InStep'
<1> SUFFICES ASSUME TypeOK, TypeOK', InStep, [Next]_vars PROVE InStep'
  OBVIOUS
<1>1. CASE \E scope \in SUBSET Pairs, inc \in BOOLEAN : FilingsOK' /\ Rebuild(scope, inc)
  <2>1. PICK scope \in SUBSET Pairs, inc \in BOOLEAN : Rebuild(scope, inc)
    BY <1>1
  <2>2. SnapshotOK'
    BY DEF TypeOK
  <2> QED  BY <2>1, <2>2, RebuildPrices, RebuildSplits, RebuiltChanges DEF InStep
<1>2. CASE DetectSplits
  <2>1. UNCHANGED <<snapshot, price>> /\ RebuildChanges(Crossing(Moved))
    BY <1>2 DEF DetectSplits
  <2>2. PricesInStep'
    BY <2>1 DEF InStep, PricesInStep
  <2>3. SplitsInStep'
    <3> SUFFICES ASSUME NEW s \in Securities, NEW p \in Periods
                 PROVE  split'[s][p] = SplitFor(snapshot, price, s, p)
      BY <2>1 DEF SplitsInStep
    <3>1. PICK keys : RedetectSplits(snapshot, price, keys)
      BY <1>2 DEF DetectSplits
    <3> QED  BY <3>1 DEF InStep, SplitsInStep, RedetectSplits
  <2>4. ChangesInStep'
    BY <2>1, DetectedChanges DEF InStep
  <2> QED  BY <2>2, <2>3, <2>4 DEF InStep
<1>3. CASE UNCHANGED <<filing, snapshot, price, split, change, announced>>
  BY <1>3 DEF InStep, PricesInStep, SplitsInStep, ChangesInStep
<1> QED  BY <1>1, <1>2, <1>3, StepCases

\* After any commit, every implied price, split and position change is what a
\* rebuild of everything would write: walking forward from the scope misses
\* nothing.
THEOREM AlwaysInStep == Spec => []InStep
<1>1. Spec => []TypeOK
  BY TypeCorrect
<1> QED  BY <1>1, InStepInit, InStepNext, PTL DEF Spec

\* The rebuild of one scope at a time implements the rebuild of everything: a
\* reader of the four tables cannot tell the two apart.
THEOREM Refinement == Spec => ImplementsFullRebuild
<1>1. TypeOK /\ InStep => Full!InStep
  <2> SUFFICES ASSUME TypeOK, InStep PROVE Full!InStep
    OBVIOUS
  <2>1. price = [s \in Securities |-> [p \in Periods |-> PriceFor(snapshot, s, p)]]
    BY DEF TypeOK, IsTable, InStep, PricesInStep
  <2>2. split = [s \in Securities |-> [p \in Periods |-> SplitFor(snapshot, price, s, p)]]
    BY DEF TypeOK, IsTable, InStep, SplitsInStep
  <2>3. change = [f \in Filers |-> [p \in Periods |-> ChangesFor(snapshot, split, f, p)]]
    BY DEF TypeOK, IsTable, InStep, ChangesInStep
  <2> QED  BY <2>1, <2>2, <2>3 DEF Full!InStep
<1>2. TypeOK /\ InStep => Full!Init
  BY <1>1 DEF Full!Init
<1>3. (TypeOK /\ InStep)' => [Full!Rebuild]_(Full!tables)
  <2>1. (TypeOK /\ InStep)' => Full!InStep'
    BY <1>1, PTL
  <2> QED  BY <2>1 DEF Full!Rebuild
<1>4. Spec => []TypeOK /\ []InStep
  BY TypeCorrect, AlwaysInStep, PTL
<1> QED  BY <1>2, <1>3, <1>4, PTL DEF Spec, ImplementsFullRebuild, Full!Spec

\* A commit that alters a pair's published rows or changes announces it.
THEOREM Announces == Spec => AnnouncesWhatChanged
<1> DEFINE Announced == \A f \in Filers, p \in Periods :
                (snapshot[f][p]' # snapshot[f][p] \/ change[f][p]' # change[f][p])
                    => <<f, p>> \in announced'
<1>1. TypeOK /\ [Next]_vars => Announced
  <2> SUFFICES ASSUME TypeOK, [Next]_vars, NEW f \in Filers, NEW p \in Periods,
                      <<f, p>> \notin announced'
               PROVE  snapshot[f][p]' = snapshot[f][p] /\ change[f][p]' = change[f][p]
    OBVIOUS
  <2>1. CASE \E scope \in SUBSET Pairs, inc \in BOOLEAN : FilingsOK' /\ Rebuild(scope, inc)
    BY <2>1 DEF Rebuild, Touched, RebuildChanges
  <2>2. CASE DetectSplits
    BY <2>2 DEF DetectSplits, RebuildChanges
  <2>3. CASE UNCHANGED <<filing, snapshot, price, split, change, announced>>
    BY <2>3
  <2> QED  BY <2>1, <2>2, <2>3, StepCases
<1>2. Spec => []TypeOK
  BY TypeCorrect
<1> QED  BY <1>1, <1>2, PTL DEF Spec, AnnouncesWhatChanged

-----------------------------------------------------------------------------
(* The published portfolio.                                                *)

\* A rebuild that includes suspect periods and one that leaves them out both
\* leave the rows their own marks account for.
LEMMA RowsSelfMarked ==
    ASSUME NEW counted, NEW inc \in BOOLEAN
    PROVE  RowsFrom(counted, inc) = RowsFrom(counted, MarkedSuspect(RowsFrom(counted, inc)))
<1> DEFINE suspect == \E a \in DOMAIN counted : counted[a].suspect
           all == {RowOf(counted, s) : s \in UNION {DOMAIN counted[a].held : a \in DOMAIN counted}}
<1>1. \A i : RowsFrom(counted, i) = IF suspect /\ ~i THEN {} ELSE all
  BY DEF RowsFrom
<1>2. ASSUME suspect, NEW r \in all PROVE r.suspect
  <2>1. PICK s : r = RowOf(counted, s)
    OBVIOUS
  <2>2. suspect = TRUE
    BY <1>2
  <2> QED  BY <2>1, <2>2, Zenon DEF RowOf
<1> HIDE DEF suspect, all
<1>3. CASE ~suspect
  BY <1>1, <1>3
<1>4. CASE suspect /\ ~inc
  BY <1>1, <1>4 DEF MarkedSuspect
<1>5. CASE suspect /\ inc
  <2>1. RowsFrom(counted, inc) = all
    BY <1>1, <1>5
  <2>2. CASE all = {}
    BY <1>1, <2>1, <2>2
  <2>3. CASE all # {}
    BY <1>1, <1>2, <1>5, <2>1, <2>3 DEF MarkedSuspect
  <2> QED  BY <2>2, <2>3
<1> QED  BY <1>3, <1>4, <1>5

\* What counts for a pair depends on the filings filed for it alone.
LEMMA PublishedByItsFilings ==
    ASSUME NEW before, NEW after, NEW ros, NEW f, NEW p, NEW inc,
           FiledFor(after, f, p) = FiledFor(before, f, p),
           \A a \in FiledFor(before, f, p) : after[a] = before[a]
    PROVE  PublishedRows(after, ros, f, p, inc) = PublishedRows(before, ros, f, p, inc)
<1>1. Candidates(after, f, p) = Candidates(before, f, p)
  BY DEF Candidates
<1>2. \A a \in Candidates(before, f, p) : after[a] = before[a]
  BY DEF Candidates
<1>3. CountsForCik(after, f, p) = CountsForCik(before, f, p)
  BY <1>1, <1>2 DEF CountsForCik
<1>4. \A a \in CountsForCik(before, f, p) : after[a] = before[a]
  BY <1>2 DEF CountsForCik
<1>5. Effective(after, ros, f, p) = Effective(before, ros, f, p)
  BY <1>3, <1>4 DEF Effective
<1>6. \A a \in Effective(before, ros, f, p) : after[a] = before[a]
  BY <1>4 DEF Effective
<1>7. [a \in Effective(after, ros, f, p) |-> after[a]]
        = [a \in Effective(before, ros, f, p) |-> before[a]]
  BY <1>5, <1>6
<1> QED  BY <1>7 DEF PublishedRows

\* One filer's roster entry has no say in what another's filings add up to.
LEMMA PublishedByItsRoster ==
    ASSUME NEW rows, NEW before \in Roster, NEW after \in Roster, NEW f \in Filers, NEW p, NEW inc,
           \A a \in Accessions : rows[a] = Unloaded \/ IsFilingRow(rows[a]),
           after.overlap[f] = before.overlap[f],
           \A c \in Ciks : (after.owner[c] = f) = (before.owner[c] = f),
           \A c \in Ciks : before.owner[c] = f => after.priority[c] = before.priority[c]
    PROVE  PublishedRows(rows, after, f, p, inc) = PublishedRows(rows, before, f, p, inc)
<1>1. ASSUME NEW c \in Ciks, NEW d \in Ciks
      PROVE  Outranks(after, f, c, d) = Outranks(before, f, c, d)
  BY DEF Outranks
<1>2. \A a \in CountsForCik(rows, f, p) : rows[a].cik \in Ciks
  BY DEF CountsForCik, Candidates, FiledFor, IsFilingRow
<1>3. Effective(rows, after, f, p) = Effective(rows, before, f, p)
  BY <1>1, <1>2 DEF Effective
<1> QED  BY <1>3 DEF PublishedRows

Lagging(f, p) == snapshot[f][p] # PublishedRows(filing, roster, f, p, MarkedSuspect(snapshot[f][p]))

\* A rebuild of a scope settles the pairs in it, and leaves a settled pair
\* outside it settled when none of its filings moved.
LEMMA RebuildSettles ==
    ASSUME NEW scope \in SUBSET Pairs, NEW inc \in BOOLEAN, Rebuild(scope, inc), UNCHANGED roster,
           NEW f \in Filers, NEW p \in Periods,
           <<f, p>> \in scope
    PROVE  ~Lagging(f, p)'
<1> DEFINE counted == [a \in Effective(filing', roster', f, p) |-> filing'[a]]
<1>1. snapshot'[f][p] = RowsFrom(counted, inc)
  BY DEF Rebuild, PublishedRows
<1>2. PublishedRows(filing', roster', f, p, MarkedSuspect(snapshot'[f][p]))
        = RowsFrom(counted, MarkedSuspect(snapshot'[f][p]))
  BY DEF PublishedRows
<1> HIDE DEF counted
<1> QED  BY <1>1, <1>2, RowsSelfMarked DEF Lagging

LEMMA UnscopedSettled ==
    ASSUME NEW scope \in SUBSET Pairs, NEW inc, Rebuild(scope, inc), UNCHANGED <<filing, roster>>,
           NEW f \in Filers, NEW p \in Periods, <<f, p>> \notin scope, ~Lagging(f, p)
    PROVE  ~Lagging(f, p)'
<1>1. snapshot'[f][p] = snapshot[f][p]
  BY DEF Rebuild
<1> QED  BY <1>1 DEF Lagging

\* A load leaves the pairs it does not rebuild the filings they had.
LEMMA LoadLeavesOthers ==
    ASSUME TypeOK, NEW a \in Accessions, Load(a), NEW f \in Filers, NEW p \in Periods,
           <<f, p>> \notin LoadScope(a), ~Lagging(f, p)
    PROVE  ~Lagging(f, p)'
<1>1. Rebuild(LoadScope(a), FALSE) /\ UNCHANGED roster
  BY DEF Load
<1>2. snapshot'[f][p] = snapshot[f][p]
  BY <1>1 DEF Rebuild
<1>3. PICK row : filing' = [filing EXCEPT ![a] = row]
  BY DEF Load
<1>4. FilingsOK'
  BY LoadTypes
<1>5. a \notin FiledFor(filing, f, p) /\ a \notin FiledFor(filing', f, p)
  BY NullAssumption DEF LoadScope, FilingPairs, FiledFor
<1>6. \A b \in Accessions : b # a => filing'[b] = filing[b]
  BY <1>3 DEF TypeOK, FilingsOK
<1>7. FiledFor(filing', f, p) = FiledFor(filing, f, p)
  BY <1>5, <1>6 DEF FiledFor
<1>8. \A b \in FiledFor(filing, f, p) : filing'[b] = filing[b]
  BY <1>5, <1>6 DEF FiledFor
<1> DEFINE i == MarkedSuspect(snapshot[f][p])
<1>9. PublishedRows(filing', roster, f, p, i) = PublishedRows(filing, roster, f, p, i)
  <2> HIDE DEF i
  <2> QED  BY <1>7, <1>8, PublishedByItsFilings
<1> QED  BY <1>1, <1>2, <1>9 DEF Lagging

\* Editing one filer's roster entry leaves the others' settled.
LEMMA ReseedLeavesOthers ==
    ASSUME TypeOK, TypeOK', UNCHANGED <<filing, snapshot>>, NEW f \in Filers, NEW p \in Periods,
           roster'.overlap[f] = roster.overlap[f],
           \A c \in Ciks : (roster'.owner[c] = f) = (roster.owner[c] = f),
           \A c \in Ciks : roster.owner[c] = f => roster'.priority[c] = roster.priority[c],
           ~Lagging(f, p)
    PROVE  ~Lagging(f, p)'
<1> DEFINE i == MarkedSuspect(snapshot[f][p])
           old == roster
           new == roster'
<1>1. old \in Roster /\ new \in Roster
  BY DEF TypeOK
<1>2. \A a \in Accessions : filing[a] = Unloaded \/ IsFilingRow(filing[a])
  BY DEF TypeOK, FilingsOK
<1>3. PublishedRows(filing, new, f, p, i) = PublishedRows(filing, old, f, p, i)
  <2>1. /\ new.overlap[f] = old.overlap[f]
        /\ \A c \in Ciks : (new.owner[c] = f) = (old.owner[c] = f)
        /\ \A c \in Ciks : old.owner[c] = f => new.priority[c] = old.priority[c]
    OBVIOUS
  <2> HIDE DEF i, old, new
  <2> QED  BY <1>1, <1>2, <2>1, PublishedByItsRoster
<1> QED  BY <1>3 DEF Lagging

\* A pair that does not exist has nothing filed and nothing published.
LEMMA NothingToRebuild ==
    ASSUME NEW f \in Filers, NEW p \in Periods, ~Exists(f, p)
    PROVE  ~Lagging(f, p)
<1> DEFINE i == MarkedSuspect(snapshot[f][p])
           counted == [a \in Effective(filing, roster, f, p) |-> filing[a]]
<1>1. snapshot[f][p] = {} /\ Effective(filing, roster, f, p) = {}
  BY DEF Exists, IsPublished, Effective, CountsForCik, Candidates
<1>2. DOMAIN counted = {}
  BY <1>1
<1> HIDE DEF counted
<1>3. RowsFrom(counted, i) = {}
  BY <1>2 DEF RowsFrom
<1> QED  BY <1>1, <1>3 DEF Lagging, PublishedRows, counted

Settled == \A f \in Filers \ reseeded : \A p \in Periods : ~Lagging(f, p)

LEMMA SettledNext == TypeOK /\ TypeOK' /\ Settled /\ [Next]_vars => Settled'
<1> SUFFICES ASSUME TypeOK, TypeOK', Settled, [Next]_vars,
                    NEW f \in Filers, f \notin reseeded', NEW p \in Periods
             PROVE  ~Lagging(f, p)'
  BY DEF Settled
<1>1. ASSUME NEW a \in Accessions, Load(a) PROVE ~Lagging(f, p)'
  <2>1. ~Lagging(f, p)
    BY <1>1 DEF Settled, Load
  <2>2. LoadScope(a) \in SUBSET Pairs /\ Rebuild(LoadScope(a), FALSE) /\ UNCHANGED roster
    BY <1>1, LoadTypes DEF Load
  <2> QED  BY <1>1, <2>1, <2>2, LoadLeavesOthers, RebuildSettles
<1>2. CASE RecomputeAll
  <2>1. PICK inc \in BOOLEAN : Rebuild(Pairs, inc) /\ UNCHANGED roster
    BY <1>2 DEF RecomputeAll
  <2> QED  BY <2>1, RebuildSettles DEF Pairs
<1>3. ASSUME NEW g \in Filers, RecomputeFiler(g) PROVE ~Lagging(f, p)'
  <2> DEFINE scope == {x \in Pairs : x[1] = g /\ Exists(g, x[2])}
  <2>1. PICK inc \in BOOLEAN : Rebuild(scope, inc)
    BY <1>3 DEF RecomputeFiler
  <2>2. UNCHANGED <<filing, roster>> /\ reseeded' = reseeded \ {g} /\ scope \in SUBSET Pairs
    BY <1>3 DEF RecomputeFiler
  <2>3. <<f, p>> \in scope \/ ~Lagging(f, p)
    BY <2>2, NothingToRebuild DEF Settled, Pairs
  <2> HIDE DEF scope
  <2>4. CASE <<f, p>> \in scope
    BY <2>1, <2>2, <2>4, RebuildSettles
  <2>5. CASE <<f, p>> \notin scope
    BY <2>1, <2>2, <2>3, <2>5, UnscopedSettled
  <2> QED  BY <2>4, <2>5
<1>4. ASSUME NEW scope \in SUBSET Pairs, NEW inc \in BOOLEAN, Rebuild(scope, inc),
             UNCHANGED <<filing, roster, reseeded>>
      PROVE  ~Lagging(f, p)'
  <2>1. ~Lagging(f, p)
    BY <1>4 DEF Settled
  <2> QED  BY <1>4, <2>1, RebuildSettles, UnscopedSettled
<1>5. ASSUME NEW r \in Periods, RecomputePeriod(r) PROVE ~Lagging(f, p)'
  <2> DEFINE scope == {x \in Pairs : x[2] = r /\ Exists(x[1], r)}
  <2>1. scope \in SUBSET Pairs
    OBVIOUS
  <2>2. PICK inc \in BOOLEAN : Rebuild(scope, inc) /\ UNCHANGED <<filing, roster, reseeded>>
    BY <1>5 DEF RecomputePeriod
  <2> HIDE DEF scope
  <2> QED  BY <1>4, <2>1, <2>2
<1>6. CASE RecomputePairs
  <2>1. PICK x \in Pairs, inc \in BOOLEAN : Rebuild({x}, inc) /\ UNCHANGED <<filing, roster, reseeded>>
    BY <1>6 DEF RecomputePairs
  <2> QED  BY <1>4, <2>1
<1>7. CASE DetectSplits \/ UNCHANGED vars
  BY <1>7 DEF DetectSplits, vars, Settled, Lagging
<1>8. ASSUME NEW g \in Filers, SetOverlap(g) PROVE ~Lagging(f, p)'
  <2>1. f # g /\ ~Lagging(f, p)
    BY <1>8 DEF SetOverlap, Reseed, Settled
  <2>2. PICK policy \in Policies : roster' = [roster EXCEPT !.overlap[g] = policy]
    BY <1>8 DEF SetOverlap, Reseed
  <2> QED  BY <1>8, <2>1, <2>2, ReseedLeavesOthers DEF SetOverlap, Reseed, TypeOK, Roster
<1>9. ASSUME NEW g \in Filers, NEW c \in Ciks, ClaimCik(g, c) PROVE ~Lagging(f, p)'
  <2>1. f # g /\ ~Lagging(f, p)
    BY <1>9 DEF ClaimCik, Reseed, Settled
  <2>2. \A d \in Ciks : /\ (roster'.owner[d] = f) = (roster.owner[d] = f)
                        /\ roster.owner[d] = f => roster'.priority[d] = roster.priority[d]
    BY <1>9, <2>1, NullAssumption DEF ClaimCik, Reseed, TypeOK, Roster
  <2>3. roster'.overlap[f] = roster.overlap[f]
    BY <1>9 DEF ClaimCik, Reseed, TypeOK, Roster
  <2> QED  BY <1>9, <2>1, <2>2, <2>3, ReseedLeavesOthers DEF ClaimCik, Reseed
<1>10. ASSUME NEW g \in Filers, Reprioritise(g) PROVE ~Lagging(f, p)'
  <2>1. f # g /\ ~Lagging(f, p)
    BY <1>10 DEF Reprioritise, Reseed, Settled
  <2>2. PICK c \in Ciks, d \in Ciks :
            /\ roster.owner[c] = g /\ roster.owner[d] = g
            /\ roster' = [roster EXCEPT !.priority[c] = roster.priority[d],
                                        !.priority[d] = roster.priority[c]]
    BY <1>10 DEF Reprioritise, Reseed
  <2>3. /\ roster'.owner = roster.owner /\ roster'.overlap = roster.overlap
        /\ \A e \in Ciks : e # c /\ e # d => roster'.priority[e] = roster.priority[e]
    BY <2>2 DEF TypeOK, Roster
  <2> QED  BY <1>10, <2>1, <2>2, <2>3, ReseedLeavesOthers DEF Reprioritise, Reseed
<1> QED  BY <1>1, <1>2, <1>3, <1>5, <1>6, <1>7, <1>8, <1>9, <1>10 DEF Next

\* What is published for a pair is what its filings add up to, whichever
\* order they were loaded, re-parsed and moved in: only a filer whose roster
\* entry was edited may lag.
THEOREM Effectiveness == Spec => []SnapshotIsEffective
<1>1. Init => Settled
  <2> SUFFICES ASSUME Init, NEW f \in Filers, NEW p \in Periods PROVE ~Lagging(f, p)
    BY DEF Settled
  <2>1. ~Exists(f, p)
    BY DEF Init, Exists, FiledFor, IsPublished
  <2> QED  BY <2>1, NothingToRebuild
<1>2. Settled => SnapshotIsEffective
  BY DEF Settled, Lagging, SnapshotIsEffective
<1>3. Spec => []TypeOK
  BY TypeCorrect
<1> QED  BY <1>1, <1>2, <1>3, SettledNext, PTL DEF Spec

\* Of two CIKs one always outranks the other, so under the successor policy a
\* period draws on one of them, and on the last of its whole-period filings.
THEOREM OneBook == Spec => []OneBookPerPeriod
<1>1. TypeOK => OneBookPerPeriod
  <2> SUFFICES ASSUME TypeOK, NEW f \in Filers, NEW p \in Periods,
                      roster.overlap[f] = "successor",
                      NEW a \in Effective(filing, roster, f, p),
                      NEW b \in Effective(filing, roster, f, p)
               PROVE  /\ filing[a].cik = filing[b].cik
                      /\ ReplacesPeriod(filing[a]) /\ ReplacesPeriod(filing[b]) => a = b
    BY DEF OneBookPerPeriod
  <2>1. a \in CountsForCik(filing, f, p) /\ b \in CountsForCik(filing, f, p)
    BY DEF Effective
  <2>2. /\ a \in Accessions /\ b \in Accessions
        /\ filing[a].cik \in Ciks /\ filing[b].cik \in Ciks
    BY <2>1 DEF CountsForCik, Candidates, FiledFor, TypeOK, FilingsOK, IsFilingRow
  <2>3. /\ ~Outranks(roster, f, filing[b].cik, filing[a].cik)
        /\ ~Outranks(roster, f, filing[a].cik, filing[b].cik)
    BY <2>1 DEF Effective
  <2>4. \A c \in Ciks : roster.priority[c] \in Int
    BY FiniteCiksAssumption, FS_CardinalityType DEF TypeOK, Roster
  <2>5. filing[a].cik = filing[b].cik
    BY <2>2, <2>3, <2>4, OrderAssumption DEF Outranks
  <2>6. a \in Candidates(filing, f, p) /\ b \in Candidates(filing, f, p)
    BY <2>1 DEF CountsForCik
  <2>7. ASSUME ReplacesPeriod(filing[a]), ReplacesPeriod(filing[b]) PROVE a = b
    <3>1. FiledOrder[a] <= FiledOrder[b] /\ FiledOrder[b] <= FiledOrder[a]
      BY <2>1, <2>5, <2>6, <2>7 DEF CountsForCik
    <3> QED  BY <2>2, <3>1, OrderAssumption
  <2> QED  BY <2>5, <2>7
<1> QED  BY <1>1, TypeCorrect, PTL

-----------------------------------------------------------------------------
(* Sums over finite sets.                                                  *)

\* A set of numbers that is not empty has a least.
LEMMA LeastOf ==
    ASSUME NEW S \in SUBSET Nat, S # {}
    PROVE  \E i \in S : \A j \in S : i <= j
<1>1. IsWellFoundedOn(OpToRel(<, Nat), Nat)
  BY NatLessThanWellFounded
<1>2. PICK i \in S : \A j \in S : <<j, i>> \notin OpToRel(<, Nat)
  BY <1>1, WFMin
<1>3. \A j \in S : ~(j < i)
  BY <1>2 DEF OpToRel
<1> QED  BY <1>3

\* g computes the sums of fun over the subsets of S, an element at a time.
OneOf(T) == CHOOSE x \in T : TRUE
Folding(g, fun, S) ==
    g = [T \in SUBSET S |-> IF T = {} THEN 0 ELSE fun[OneOf(T)] + g[T \ {OneOf(T)}]]

LEMMA SmallestSet ==
    ASSUME NEW S, IsFiniteSet(S), NEW B, B # {}, \A T \in B : T \subseteq S
    PROVE  \E T \in B : \A U \in B : U \subseteq T => U = T
<1>1. IsWellFoundedOn(StrictSubsetOrdering(S), FiniteSubsetsOf(S))
  BY FS_StrictSubsetOrderingWellFounded
<1>2. B \subseteq FiniteSubsetsOf(S)
  BY FS_Subset DEF FiniteSubsetsOf
<1>3. PICK T \in B : \A U \in B : <<U, T>> \notin StrictSubsetOrdering(S)
  BY <1>1, <1>2, WFMin
<1> QED  BY <1>3 DEF StrictSubsetOrdering

LEMMA FoldsAgree ==
    ASSUME NEW S, IsFiniteSet(S), NEW fun, NEW V \in SUBSET S, NEW g, NEW h,
           Folding(g, fun, S), Folding(h, fun, V)
    PROVE  \A T \in SUBSET V : g[T] = h[T]
<1> DEFINE B == {T \in SUBSET V : g[T] # h[T]}
<1> SUFFICES ASSUME B # {} PROVE FALSE
  OBVIOUS
<1>1. PICK T \in B : \A U \in B : U \subseteq T => U = T
  <2>1. \A T \in B : T \subseteq S
    OBVIOUS
  <2> HIDE DEF B
  <2> QED  BY <2>1, SmallestSet
<1>2. T # {}
  BY <1>1 DEF Folding
<1>3. OneOf(T) \in T
  BY <1>2 DEF OneOf
<1>4. T \ {OneOf(T)} \notin B /\ T \ {OneOf(T)} \in SUBSET V /\ T \in SUBSET S
  BY <1>1, <1>3
<1>5. g[T] = fun[OneOf(T)] + g[T \ {OneOf(T)}]
  BY <1>2, <1>4 DEF Folding
<1>6. h[T] = fun[OneOf(T)] + h[T \ {OneOf(T)}]
  BY <1>1, <1>2 DEF Folding
<1> QED  BY <1>1, <1>4, <1>5, <1>6

LEMMA FoldExists ==
    ASSUME NEW S, IsFiniteSet(S), NEW fun
    PROVE  \E g : Folding(g, fun, S)
<1> DEFINE B == {V \in SUBSET S : ~\E g : Folding(g, fun, V)}
<1> SUFFICES ASSUME B # {} PROVE FALSE
  OBVIOUS
<1>1. PICK V \in B : \A U \in B : U \subseteq V => U = V
  <2>1. \A T \in B : T \subseteq S
    OBVIOUS
  <2> HIDE DEF B
  <2> QED  BY <2>1, SmallestSet
<1> DEFINE of(T) == CHOOSE g : Folding(g, fun, T)
           sum(T) == of(T)[T]
           below == (SUBSET V) \ {V}
           g == [T \in SUBSET V |-> IF T = {} THEN 0
                    ELSE fun[OneOf(T)] + sum(T \ {OneOf(T)})]
<1>2. ASSUME NEW T \in below PROVE Folding(of(T), fun, T) /\ IsFiniteSet(T)
  <2>1. T \in SUBSET S /\ T \subseteq V /\ T # V /\ T \notin B
    BY <1>1, <1>2
  <2> QED  BY <2>1, FS_Subset
<1> HIDE DEF of
<1>3. ASSUME NEW T \in below PROVE g[T] = sum(T)
  <2>1. CASE T = {}
    <3>1. sum(T) = 0
      BY <1>2, <1>3, <2>1 DEF Folding
    <3> QED  BY <2>1, <3>1
  <2>2. CASE T # {}
    <3> DEFINE U == T \ {OneOf(T)}
    <3>1. OneOf(T) \in T
      BY <2>2 DEF OneOf
    <3>2. U \in below /\ U \in SUBSET T /\ T \in SUBSET T
      BY <1>3, <3>1
    <3>3. sum(T) = fun[OneOf(T)] + of(T)[U]
      BY <1>2, <1>3, <2>2, <3>2 DEF Folding
    <3>4. of(T)[U] = sum(U)
      <4>1. Folding(of(T), fun, T) /\ Folding(of(U), fun, U) /\ IsFiniteSet(T)
        BY <1>2, <1>3, <3>2
      <4> HIDE DEF U
      <4> QED  BY <4>1, <3>2, FoldsAgree
    <3> QED  BY <2>2, <3>2, <3>3, <3>4, <1>3
  <2> QED  BY <2>1, <2>2
<1> DEFINE h == [T \in SUBSET V |-> IF T = {} THEN 0 ELSE fun[OneOf(T)] + g[T \ {OneOf(T)}]]
<1>4. ASSUME NEW T \in SUBSET V PROVE g[T] = h[T]
  <2>1. CASE T = {}
    BY <2>1
  <2>2. CASE T # {}
    <3> DEFINE U == T \ {OneOf(T)}
    <3>1. OneOf(T) \in T
      BY <2>2 DEF OneOf
    <3>2. U \in below
      BY <3>1
    <3>3. g[U] = sum(U)
      BY <1>3, <3>2
    <3>4. g[T] = fun[OneOf(T)] + sum(U) /\ h[T] = fun[OneOf(T)] + g[U]
      BY <2>2
    <3> QED  BY <3>3, <3>4
  <2> QED  BY <2>1, <2>2
<1>5. Folding(g, fun, V)
  <2>1. g = h
    <3> HIDE DEF sum
    <3> QED  BY <1>4
  <2> QED  BY <2>1 DEF Folding
<1> QED  BY <1>1, <1>5

\* The library's sum of a function over a set is its recursion's value there.
LEMMA SumFolds ==
    ASSUME NEW S, IsFiniteSet(S), NEW fun
    PROVE  \E g : Folding(g, fun, S) /\ SumFunctionOnSet(fun, S) = g[S]
<1> DEFINE g == CHOOSE g : Folding(g, fun, S)
<1>1. Folding(g, fun, S)
  BY FoldExists
<1>2. SumFunctionOnSet(fun, S) = g[S]
  BY DEF SumFunctionOnSet, FoldFunctionOnSet, MapThenFoldSet, Folding, OneOf
<1> QED  BY <1>1, <1>2

LEMMA SumEmpty == \A fun : SumFunctionOnSet(fun, {}) = 0
BY FS_EmptySet, SumFolds DEF Folding

LEMMA SumChosen ==
    ASSUME NEW S, IsFiniteSet(S), S # {}, NEW fun
    PROVE  SumFunctionOnSet(fun, S) =
                fun[OneOf(S)] + SumFunctionOnSet(fun, S \ {OneOf(S)})
<1> DEFINE U == S \ {OneOf(S)}
<1>1. PICK g : Folding(g, fun, S) /\ SumFunctionOnSet(fun, S) = g[S]
  BY SumFolds
<1>2. IsFiniteSet(U) /\ U \in SUBSET S
  BY FS_Subset
<1> HIDE DEF U
<1>3. PICK h : Folding(h, fun, U) /\ SumFunctionOnSet(fun, U) = h[U]
  BY <1>2, SumFolds
<1>4. g[U] = h[U]
  BY <1>1, <1>2, <1>3, FoldsAgree
<1>5. g[S] = fun[OneOf(S)] + g[U]
  BY <1>1 DEF Folding, U
<1> QED  BY <1>1, <1>3, <1>4, <1>5 DEF U

\* Any element can be taken out of a sum of integers first.
LEMMA SumTakesOut ==
    ASSUME NEW S, IsFiniteSet(S), NEW fun, \A x \in S : fun[x] \in Int
    PROVE  /\ SumFunctionOnSet(fun, S) \in Int
           /\ \A x \in S : SumFunctionOnSet(fun, S) = fun[x] + SumFunctionOnSet(fun, S \ {x})
<1> DEFINE sum(T) == SumFunctionOnSet(fun, T)
           ok(T) == sum(T) \in Int /\ \A x \in T : sum(T) = fun[x] + sum(T \ {x})
           B == {T \in SUBSET S : ~ok(T)}
<1> SUFFICES ASSUME B # {} PROVE FALSE
  OBVIOUS
<1>1. PICK T \in B : \A U \in B : U \subseteq T => U = T
  <2>1. \A T \in B : T \subseteq S
    OBVIOUS
  <2> HIDE DEF B
  <2> QED  BY <2>1, SmallestSet
<1>2. ASSUME NEW U \in SUBSET T, U # T PROVE ok(U)
  <2>1. U \in SUBSET S /\ U \notin B
    BY <1>1, <1>2
  <2> HIDE DEF ok
  <2> QED  BY <2>1
<1>3. T # {}
  <2>1. ok({})
    BY SumEmpty
  <2> HIDE DEF ok
  <2> QED  BY <1>1, <2>1
<1> DEFINE y == OneOf(T)
<1>4. y \in T
  BY <1>3 DEF OneOf
<1>5. IsFiniteSet(T)
  BY <1>1, FS_Subset
<1>6. sum(T) = fun[y] + sum(T \ {y})
  BY <1>3, <1>5, SumChosen
<1> HIDE DEF y, sum
<1>7. sum(T \ {y}) \in Int /\ fun[y] \in Int /\ \A x \in T : fun[x] \in Int
  BY <1>1, <1>2, <1>4
<1>8. ASSUME NEW x \in T, x # y PROVE sum(T) = fun[x] + sum(T \ {x})
  <2>1. (T \ {y}) \ {x} = (T \ {x}) \ {y}
    OBVIOUS
  <2>2. sum(T \ {y}) = fun[x] + sum((T \ {y}) \ {x})
    <3>1. ok(T \ {y}) /\ x \in T \ {y}
      BY <1>2, <1>4, <1>8
    <3> QED  BY <3>1
  <2>3. sum(T \ {x}) = fun[y] + sum((T \ {x}) \ {y})
    <3>1. ok(T \ {x}) /\ y \in T \ {x}
      BY <1>2, <1>4, <1>8
    <3> QED  BY <3>1
  <2>4. sum((T \ {x}) \ {y}) \in Int /\ fun[x] \in Int
    <3>1. ok((T \ {x}) \ {y})
      BY <1>2, <1>4
    <3> QED  BY <3>1, <1>7
  <2> DEFINE rest == sum((T \ {x}) \ {y})
             a == sum(T \ {x})
             b == sum(T \ {y})
  <2>5. b = fun[x] + rest
    BY <2>1, <2>2
  <2>6. a = fun[y] + rest /\ rest \in Int /\ fun[x] \in Int /\ fun[y] \in Int
    BY <1>7, <2>3, <2>4
  <2>7. sum(T) = fun[y] + b
    BY <1>6
  <2> HIDE DEF rest, a, b
  <2>8. sum(T) = fun[x] + a
    BY <2>5, <2>6, <2>7
  <2> QED  BY <2>8 DEF a
<1>9. ok(T)
  <2>1. sum(T) \in Int
    BY <1>6, <1>7
  <2> QED  BY <1>6, <1>8, <2>1
<1> QED  BY <1>1, <1>9

LEMMA SumOfNaturals ==
    ASSUME NEW S, IsFiniteSet(S), NEW fun, \A x \in S : fun[x] \in Nat
    PROVE  SumFunctionOnSet(fun, S) \in Nat
<1> DEFINE B == {T \in SUBSET S : SumFunctionOnSet(fun, T) \notin Nat}
<1> SUFFICES ASSUME B # {} PROVE FALSE
  OBVIOUS
<1>1. PICK T \in B : \A U \in B : U \subseteq T => U = T
  <2>1. \A T \in B : T \subseteq S
    OBVIOUS
  <2> HIDE DEF B
  <2> QED  BY <2>1, SmallestSet
<1>2. T # {}
  <2>1. SumFunctionOnSet(fun, {}) \in Nat
    BY SumEmpty
  <2> QED  BY <1>1, <2>1
<1>3. OneOf(T) \in T
  BY <1>2 DEF OneOf
<1>4. T \ {OneOf(T)} \notin B /\ T \ {OneOf(T)} \in SUBSET S
  BY <1>1, <1>3
<1>5. IsFiniteSet(T)
  BY <1>1, FS_Subset
<1>6. SumFunctionOnSet(fun, T) = fun[OneOf(T)] + SumFunctionOnSet(fun, T \ {OneOf(T)})
  BY <1>2, <1>5, SumChosen
<1> QED  BY <1>1, <1>3, <1>4, <1>6

-----------------------------------------------------------------------------
(* DeltasAddUp: each published period's change of a security is its        *)
(* position less the one before, so the changes telescope.                 *)

\* The rows of one pair: one for each security, with a number of shares.
Tidy(rows) ==
    /\ \A r, t \in rows : r.security = t.security => r = t
    /\ \A r \in rows : r.shares \in Nat

\* What a rebuild reads: finitely many filings, each holding so many shares.
Sound(rows) ==
    /\ IsFiniteSet({a \in Accessions : rows[a] # Unloaded})
    /\ \A a \in Accessions : rows[a] # Unloaded =>
            \A s \in DOMAIN rows[a].held : rows[a].held[s] \in Position
FilingsSound == Sound(filing)

SnapshotTidy == \A f \in Filers, p \in Periods : Tidy(snapshot[f][p])

ShareOf(rows, s) ==
    IF s \in Listed(rows) THEN (CHOOSE r \in rows : r.security = s).shares ELSE 0

LEMMA TotalIsNatural ==
    ASSUME NEW counted, NEW s, NEW listing, IsFiniteSet(listing),
           \A a \in listing : counted[a].held[s] \in Position
    PROVE  Total("shares", [a \in listing |-> counted[a]], s) \in Nat
<1> DEFINE rows == [a \in listing |-> counted[a]]
           fun == [a \in DOMAIN rows |-> rows[a].held[s]["shares"]]
<1>1. \A a \in listing : fun[a] \in Nat
  BY DEF Position
<1>2. DOMAIN fun = listing
  OBVIOUS
<1>3. Total("shares", rows, s) = SumFunctionOnSet(fun, DOMAIN fun)
  BY DEF Total, SumFunction
<1> HIDE DEF fun, rows
<1>4. SumFunctionOnSet(fun, listing) \in Nat
  BY <1>1, SumOfNaturals
<1> QED  BY <1>2, <1>3, <1>4 DEF rows

LEMMA RowsTidy ==
    ASSUME NEW counted, NEW inc, IsFiniteSet(DOMAIN counted),
           \A a \in DOMAIN counted : \A s \in DOMAIN counted[a].held :
                counted[a].held[s] \in Position
    PROVE  Tidy(RowsFrom(counted, inc))
<1>1. ASSUME NEW s PROVE RowOf(counted, s).security = s /\ RowOf(counted, s).shares \in Nat
  <2> DEFINE listing == {a \in DOMAIN counted : s \in DOMAIN counted[a].held}
  <2>1. IsFiniteSet(listing)
    BY FS_Subset
  <2>2. \A a \in listing : counted[a].held[s] \in Position
    OBVIOUS
  <2>3. RowOf(counted, s).security = s
          /\ RowOf(counted, s).shares = Total("shares", [a \in listing |-> counted[a]], s)
    BY DEF RowOf
  <2> HIDE DEF listing
  <2> QED  BY <2>1, <2>2, <2>3, TotalIsNatural
<1>2. \A r \in RowsFrom(counted, inc) : \E s : r = RowOf(counted, s)
  BY DEF RowsFrom
<1> QED  BY <1>1, <1>2 DEF Tidy

LEMMA PublishedTidy ==
    ASSUME NEW rows, Sound(rows), NEW ros, NEW f, NEW p, NEW inc
    PROVE  Tidy(PublishedRows(rows, ros, f, p, inc))
<1> DEFINE loaded == {a \in Accessions : rows[a] # Unloaded}
           counted == [a \in Effective(rows, ros, f, p) |-> rows[a]]
<1>1. Effective(rows, ros, f, p) \subseteq loaded
  BY DEF Effective, CountsForCik, Candidates, FiledFor
<1>2. IsFiniteSet(Effective(rows, ros, f, p))
  BY <1>1, FS_Subset DEF Sound
<1>3. DOMAIN counted = Effective(rows, ros, f, p)
         /\ \A a \in DOMAIN counted : counted[a] = rows[a]
  OBVIOUS
<1>4. \A a \in DOMAIN counted : \A s \in DOMAIN counted[a].held : counted[a].held[s] \in Position
  BY <1>1, <1>3 DEF Sound
<1> HIDE DEF counted
<1>5. Tidy(RowsFrom(counted, inc))
  BY <1>2, <1>3, <1>4, RowsTidy
<1> QED  BY <1>5 DEF PublishedRows, counted

\* One more filing is loaded, with the positions of a document.
LEMMA FilingsStaySound ==
    ASSUME TypeOK, FilingsSound, [Next]_vars
    PROVE  FilingsSound'
<1>1. ASSUME NEW a \in Accessions, Load(a) PROVE FilingsSound'
  <2>0. PICK document \in Parses[a] :
          \E filer : filing' = [filing EXCEPT ![a] =
            [cik |-> document.cik, filer |-> filer,
             period |-> document.period, kind |-> document.kind, suspect |-> document.suspect,
             held |-> IF filer = NoFiler THEN NoHoldings ELSE document.held]]
    BY <1>1 DEF Load
  <2>1. PICK filer :
          filing' = [filing EXCEPT ![a] =
            [cik |-> document.cik, filer |-> filer,
             period |-> document.period, kind |-> document.kind, suspect |-> document.suspect,
             held |-> IF filer = NoFiler THEN NoHoldings ELSE document.held]]
    BY <2>0
  <2> DEFINE loaded == {b \in Accessions : filing[b] # Unloaded}
  <2>2. DOMAIN filing = Accessions
    BY DEF TypeOK, FilingsOK
  <2>3. {b \in Accessions : filing'[b] # Unloaded} \subseteq loaded \cup {a}
    BY <2>1, <2>2
  <2>4. IsFiniteSet(loaded \cup {a})
    BY FS_AddElement DEF FilingsSound, Sound
  <2>5. IsFiniteSet({b \in Accessions : filing'[b] # Unloaded})
    BY <2>3, <2>4, FS_Subset
  <2>6. \A s \in DOMAIN filing'[a].held : filing'[a].held[s] \in Position
    <3>1. filing'[a].held = IF filer = NoFiler THEN NoHoldings ELSE document.held
      BY <2>1, <2>2
    <3>2. DOMAIN NoHoldings = {}
      BY DEF NoHoldings
    <3> QED  BY <3>1, <3>2, ParsesAssumption
  <2>7. \A b \in Accessions : b # a => filing'[b] = filing[b]
    BY <2>1, <2>2
  <2> QED  BY <2>5, <2>6, <2>7 DEF FilingsSound, Sound
<1>2. CASE UNCHANGED filing
  BY <1>2 DEF FilingsSound, Sound
<1>3. (\E a \in Accessions : Load(a)) \/ UNCHANGED filing
  BY DEF Next, vars, RecomputeAll, RecomputeFiler, RecomputePeriod, RecomputePairs, DetectSplits,
         SetOverlap, ClaimCik, Reprioritise, Reseed
<1> QED  BY <1>1, <1>2, <1>3

LEMMA StaysTidy ==
    ASSUME TypeOK, FilingsSound', SnapshotTidy, [Next]_vars
    PROVE  SnapshotTidy'
<1>1. ASSUME NEW scope \in SUBSET Pairs, NEW inc \in BOOLEAN, Rebuild(scope, inc)
      PROVE  SnapshotTidy'
  <2> SUFFICES ASSUME NEW f \in Filers, NEW p \in Periods PROVE Tidy(snapshot'[f][p])
    BY DEF SnapshotTidy, Tidy
  <2>1. CASE <<f, p>> \in scope
    <3>1. snapshot'[f][p] = PublishedRows(filing', roster, f, p, inc)
      BY <1>1, <2>1 DEF Rebuild
    <3>2. Tidy(PublishedRows(filing', roster, f, p, inc))
      BY PublishedTidy DEF FilingsSound
    <3> QED  BY <3>1, <3>2
  <2>2. CASE <<f, p>> \notin scope
    BY <1>1, <2>2 DEF Rebuild, SnapshotTidy
  <2> QED  BY <2>1, <2>2
<1>2. CASE UNCHANGED snapshot
  BY <1>2 DEF SnapshotTidy
<1> QED  BY <1>1, <1>2, StepCases DEF DetectSplits

\* Each security of a tidy pair has one row, the one its share count is of.
LEMMA TidyRow ==
    ASSUME NEW rows, Tidy(rows), NEW s
    PROVE  /\ ShareOf(rows, s) \in Nat
           /\ \A r \in rows : r.security = s =>
                /\ s \in Listed(rows) /\ r = CHOOSE x \in rows : x.security = s
                /\ ShareOf(rows, s) = r.shares
           /\ s \notin Listed(rows) => ShareOf(rows, s) = 0
<1>1. ASSUME NEW r \in rows, r.security = s
      PROVE  /\ s \in Listed(rows) /\ r = CHOOSE x \in rows : x.security = s
             /\ r.shares \in Nat
  <2>1. (CHOOSE x \in rows : x.security = s) \in rows
          /\ (CHOOSE x \in rows : x.security = s).security = s
    BY <1>1
  <2> QED  BY <1>1, <2>1 DEF Tidy, Listed
<1> QED  BY <1>1 DEF ShareOf, Listed

\* The comparison of two tidy pairs has one row of a security at most, whose
\* share counts differ by as much as the positions do.
LEMMA ComparesOnce ==
    ASSUME NEW now, Tidy(now), now # {}, NEW before, Tidy(before), NEW q, NEW splits, NEW s
    PROVE  LET mine == RowsListing(Compare(now, before, q, splits), s)
           IN  \/ mine = {} /\ ShareOf(now, s) = ShareOf(before, s)
               \/ \E x : mine = {x} /\ x.shares \in Nat /\ x.prevShares \in Nat
                            /\ x.shares - x.prevShares = ShareOf(now, s) - ShareOf(before, s)
<1> DEFINE all == Compare(now, before, q, splits)
           mine == RowsListing(all, s)
           suspect == \E b \in now \cup before : b.suspect
           both == {InBoth(r, before, q, splits, suspect) :
                        r \in {r \in now : r.security \in Listed(before)}}
           opened == {Opened(r, q, suspect) :
                        r \in now \ {r \in now : r.security \in Listed(before)}}
           exited == {Exited(b, q, suspect) : b \in {b \in before : b.security \notin Listed(now)}}
<1>1. all = both \cup opened \cup exited
  BY DEF Compare
<1>2. /\ \A r : InBoth(r, before, q, splits, suspect).security = r.security
      /\ \A r : InBoth(r, before, q, splits, suspect).shares = r.shares
      /\ \A r : InBoth(r, before, q, splits, suspect).prevShares
                    = (CHOOSE x \in before : x.security = r.security).shares
  BY DEF InBoth, ChangeRow
<1>3. /\ \A r : Opened(r, q, suspect).security = r.security
      /\ \A r : Opened(r, q, suspect).shares = r.shares
      /\ \A r : Opened(r, q, suspect).prevShares = 0
      /\ \A b : Exited(b, q, suspect).security = b.security
      /\ \A b : Exited(b, q, suspect).shares = 0
      /\ \A b : Exited(b, q, suspect).prevShares = b.shares
  BY DEF Opened, Exited, ChangeRow, Nothing
<1>4. mine = {x \in all : x.security = s}
  BY DEF RowsListing
<1> HIDE DEF all, mine, suspect
<1>5. CASE s \in Listed(now) /\ s \in Listed(before)
  <2>1. PICK r \in now : r.security = s
    BY <1>5 DEF Listed
  <2>2. PICK b \in before : b.security = s
    BY <1>5 DEF Listed
  <2> DEFINE x == InBoth(r, before, q, splits, suspect)
  <2>3. \A t \in now : t.security = s => t = r
    BY <2>1 DEF Tidy
  <2>4. x \in mine
    BY <1>1, <1>2, <1>4, <1>5, <2>1
  <2>5. \A y \in mine : y = x
    BY <1>1, <1>2, <1>3, <1>4, <1>5, <2>1, <2>3
  <2>6. mine = {x}
    BY <2>4, <2>5
  <2>7. x.shares = ShareOf(now, s)
    BY <1>2, <2>1, TidyRow
  <2>8. x.prevShares = ShareOf(before, s)
    <3>1. b = CHOOSE y \in before : y.security = s
      BY <2>2, TidyRow
    <3>2. ShareOf(before, s) = b.shares
      BY <2>2, TidyRow
    <3>3. x.prevShares = (CHOOSE y \in before : y.security = r.security).shares
      BY <1>2
    <3>4. r.security = s
      BY <2>1
    <3> HIDE DEF x
    <3> QED  BY <3>1, <3>2, <3>3, <3>4
  <2> HIDE DEF x
  <2> QED  BY <2>6, <2>7, <2>8, TidyRow DEF all, mine
<1>6. CASE s \in Listed(now) /\ s \notin Listed(before)
  <2>1. PICK r \in now : r.security = s
    BY <1>6 DEF Listed
  <2> DEFINE x == Opened(r, q, suspect)
  <2>3. \A t \in now : t.security = s => t = r
    BY <2>1 DEF Tidy
  <2>4. x \in mine
    BY <1>1, <1>3, <1>4, <1>6, <2>1
  <2>5. \A y \in mine : y = x
    BY <1>1, <1>2, <1>3, <1>4, <1>6, <2>1, <2>3
  <2>6. mine = {x}
    BY <2>4, <2>5
  <2>7. x.shares = ShareOf(now, s)
    BY <1>3, <2>1, TidyRow
  <2>8. x.prevShares = ShareOf(before, s)
    BY <1>3, <1>6, TidyRow
  <2> HIDE DEF x
  <2> QED  BY <2>6, <2>7, <2>8, TidyRow DEF all, mine
<1>7. CASE s \notin Listed(now) /\ s \in Listed(before)
  <2>1. PICK r \in before : r.security = s
    BY <1>7 DEF Listed
  <2> DEFINE x == Exited(r, q, suspect)
  <2>3. \A t \in before : t.security = s => t = r
    BY <2>1 DEF Tidy
  <2>4. x \in mine
    BY <1>1, <1>3, <1>4, <1>7, <2>1
  <2>5. \A y \in mine : y = x
    BY <1>1, <1>2, <1>3, <1>4, <1>7, <2>1, <2>3 DEF Listed
  <2>6. mine = {x}
    BY <2>4, <2>5
  <2>7. x.shares = ShareOf(now, s)
    BY <1>3, <1>7, TidyRow
  <2>8. x.prevShares = ShareOf(before, s)
    BY <1>3, <2>1, TidyRow
  <2> HIDE DEF x
  <2> QED  BY <2>6, <2>7, <2>8, TidyRow DEF all, mine
<1>8. CASE s \notin Listed(now) /\ s \notin Listed(before)
  <2>1. mine = {}
    BY <1>1, <1>2, <1>3, <1>4, <1>8 DEF Listed
  <2> QED  BY <1>8, <2>1, TidyRow DEF all, mine
<1> QED  BY <1>5, <1>6, <1>7, <1>8

\* The published periods before p end with the one p is compared with.
PublishedBy(f, n) == {p \in Periods : p <= n /\ IsPublished(snapshot, f, p)}
Latest(f, n) == CHOOSE p \in PublishedBy(f, n) : \A q \in PublishedBy(f, n) : q <= p

\* The filer's position once the period n is over.
Held(f, s, n) == IF PublishedBy(f, n) = {} THEN 0 ELSE ShareOf(snapshot[f][Latest(f, n)], s)

LEMMA LatestIs ==
    ASSUME NEW f \in Filers, NEW n, NEW p \in PublishedBy(f, n),
           \A q \in PublishedBy(f, n) : q <= p
    PROVE  Latest(f, n) = p
<1> DEFINE L == Latest(f, n)
<1>1. L \in PublishedBy(f, n) /\ \A q \in PublishedBy(f, n) : q <= L
  BY DEF Latest
<1>2. L <= p /\ p <= L /\ L \in Int /\ p \in Int
  BY <1>1, PeriodsAssumption DEF PublishedBy, Periods
<1> QED  BY <1>2

LEMMA HeldAt ==
    ASSUME NEW f \in Filers, NEW s, NEW p \in Periods, IsPublished(snapshot, f, p)
    PROVE  Held(f, s, p) = ShareOf(snapshot[f][p], s)
<1>1. p \in PublishedBy(f, p) /\ \A q \in PublishedBy(f, p) : q <= p
  BY PeriodsAssumption DEF PublishedBy, Periods
<1>2. Latest(f, p) = p
  BY <1>1, LatestIs
<1> QED  BY <1>1, <1>2 DEF Held

LEMMA HeldStill ==
    ASSUME NEW f \in Filers, NEW s, NEW p \in Periods, ~IsPublished(snapshot, f, p)
    PROVE  Held(f, s, p) = Held(f, s, p - 1)
<1>1. PublishedBy(f, p) = PublishedBy(f, p - 1)
  BY PeriodsAssumption DEF PublishedBy, Periods
<1> QED  BY <1>1 DEF Held, Latest

\* What a published period is compared with is what was held before it.
LEMMA HeldBefore ==
    ASSUME NEW f \in Filers, NEW s, NEW p \in Periods
    PROVE  LET q == PreviousPeriod(snapshot, f, p)
           IN  \/ q = 0 /\ Held(f, s, p - 1) = 0
               \/ q \in Periods /\ q # 0 /\ Held(f, s, p - 1) = ShareOf(snapshot[f][q], s)
<1> DEFINE q == PreviousPeriod(snapshot, f, p)
<1>1. CASE PublishedBy(f, p - 1) = {}
  <2>1. Previous(snapshot, f, p) = {}
    BY <1>1, PeriodsAssumption DEF Previous, PublishedBy, Periods
  <2> QED  BY <1>1, <2>1 DEF PreviousPeriod, Held
<1>2. CASE PublishedBy(f, p - 1) # {}
  <2>1. PublishedBy(f, p - 1) \in SUBSET Periods
    BY DEF PublishedBy
  <2>2. PICK m \in PublishedBy(f, p - 1) : \A n \in PublishedBy(f, p - 1) : n <= m
    BY <1>2, <2>1, LastOf
  <2>3. m \in Previous(snapshot, f, p)
    <3>1. m \in Periods /\ m < p /\ IsPublished(snapshot, f, m)
      BY PeriodsAssumption DEF PublishedBy, Periods
    <3>2. ASSUME NEW r \in Periods, m < r, r < p, IsPublished(snapshot, f, r) PROVE FALSE
      <4>1. r \in PublishedBy(f, p - 1)
        BY <3>2, PeriodsAssumption DEF PublishedBy, Periods
      <4> QED  BY <2>2, <3>1, <3>2, <4>1, PeriodsAssumption DEF Periods
    <3> QED  BY <3>1, <3>2 DEF Previous
  <2>4. \A n \in Previous(snapshot, f, p) : n = m
    <3>1. ASSUME NEW n \in Previous(snapshot, f, p) PROVE n \in PublishedBy(f, p - 1) /\ ~(n < m)
      BY <2>3, PeriodsAssumption DEF Previous, PublishedBy, Periods
    <3> QED  BY <2>2, <2>1, <3>1, PeriodsAssumption DEF Periods
  <2>5. q = m
    BY <2>3, <2>4 DEF PreviousPeriod
  <2>6. Latest(f, p - 1) = m
    BY <2>2, LatestIs
  <2>7. m \in Periods /\ m # 0
    BY <2>1, PeriodsAssumption DEF Periods
  <2> QED  BY <1>2, <2>5, <2>6, <2>7 DEF Held
<1> QED  BY <1>1, <1>2

\* One period's change of a security is the move of the filer's position.
LEMMA PeriodMoves ==
    ASSUME SnapshotTidy, ChangesInStep, NEW f \in Filers, NEW s, NEW p \in Periods
    PROVE  LET mine == RowsListing(change[f][p], s)
           IN  \/ mine = {} /\ Held(f, s, p) = Held(f, s, p - 1)
               \/ \E x : mine = {x} /\ x.shares \in Nat /\ x.prevShares \in Nat
                            /\ Held(f, s, p) = Held(f, s, p - 1) + (x.shares - x.prevShares)
<1>1. change[f][p] = ChangesFor(snapshot, split, f, p)
  BY DEF ChangesInStep
<1>2. CASE ~IsPublished(snapshot, f, p)
  <2>1. change[f][p] = {}
    BY <1>1, <1>2, NothingPublished DEF IsPublished
  <2> QED  BY <1>2, <2>1, HeldStill DEF RowsListing
<1>3. CASE IsPublished(snapshot, f, p)
  <2> DEFINE now == snapshot[f][p]
             q == PreviousPeriod(snapshot, f, p)
             before == IF q = 0 THEN {} ELSE snapshot[f][q]
             splits == IF q = 0 THEN {}
                       ELSE SplitsAcross(split, Listed(snapshot[f][p]), q, p)
             mine == RowsListing(change[f][p], s)
  <2>1. change[f][p] = Compare(now, before, q, splits)
    BY <1>1 DEF ChangesFor
  <2>2. Tidy({}) /\ ShareOf({}, s) = 0
    BY DEF Tidy, ShareOf, Listed
  <2>3. Tidy(now) /\ now # {} /\ Held(f, s, p) = ShareOf(now, s)
    BY <1>3, HeldAt DEF SnapshotTidy, IsPublished
  <2>4. Tidy(before) /\ Held(f, s, p - 1) = ShareOf(before, s)
    <3>1. CASE q = 0
      BY <2>2, <3>1, HeldBefore
    <3>2. CASE q # 0
      BY <3>2, HeldBefore DEF SnapshotTidy
    <3> QED  BY <3>1, <3>2
  <2> HIDE DEF now, before, splits, q
  <2>5. \/ mine = {} /\ ShareOf(now, s) = ShareOf(before, s)
        \/ \E x : mine = {x} /\ x.shares \in Nat /\ x.prevShares \in Nat
                    /\ x.shares - x.prevShares = ShareOf(now, s) - ShareOf(before, s)
    BY <2>1, <2>3, <2>4, ComparesOnce
  <2>6. ShareOf(now, s) \in Nat /\ ShareOf(before, s) \in Nat
    BY <2>3, <2>4, TidyRow
  <2> HIDE DEF mine
  <2>7. CASE mine = {} /\ ShareOf(now, s) = ShareOf(before, s)
    BY <2>3, <2>4, <2>7 DEF mine
  <2>8. ASSUME NEW x, mine = {x}, x.shares \in Nat, x.prevShares \in Nat,
               x.shares - x.prevShares = ShareOf(now, s) - ShareOf(before, s)
        PROVE  Held(f, s, p) = Held(f, s, p - 1) + (x.shares - x.prevShares)
    BY <2>3, <2>4, <2>6, <2>8
  <2> QED  BY <2>5, <2>7, <2>8 DEF mine
<1> QED  BY <1>2, <1>3

MovesUpto(f, s, n) == {d \in Deltas(f, s) : d[1] <= n}
Delta(f, s) == [d \in Deltas(f, s) |-> d[2].shares - d[2].prevShares]

LEMMA DeltaIs ==
    ASSUME SnapshotTidy, ChangesInStep, NEW f \in Filers, NEW s
    PROVE  /\ \A d \in Deltas(f, s) : d[1] \in Periods /\ Delta(f, s)[d] \in Int
           /\ \A p \in Periods : \A x \in RowsListing(change[f][p], s) :
                <<p, x>> \in Deltas(f, s) /\ Delta(f, s)[<<p, x>>] = x.shares - x.prevShares
           /\ \A d \in Deltas(f, s) : \E p \in Periods :
                \E x \in RowsListing(change[f][p], s) : d = <<p, x>>
<1>1. ASSUME NEW p \in Periods, NEW x \in RowsListing(change[f][p], s)
      PROVE  x.shares \in Nat /\ x.prevShares \in Nat
  <2> DEFINE mine == RowsListing(change[f][p], s)
  <2>1. mine # {}
    BY <1>1
  <2>2. PICK y : mine = {y} /\ y.shares \in Nat /\ y.prevShares \in Nat
    BY <2>1, PeriodMoves
  <2>3. x = y
    BY <1>1, <2>2
  <2> QED  BY <2>2, <2>3
<1>2. \A p \in Periods : \A x \in RowsListing(change[f][p], s) : <<p, x>> \in Deltas(f, s)
  BY DEF Deltas
<1>3. \A d \in Deltas(f, s) : \E p \in Periods :
                \E x \in RowsListing(change[f][p], s) : d = <<p, x>>
  BY DEF Deltas
<1>4. \A d \in Deltas(f, s) : Delta(f, s)[d] = d[2].shares - d[2].prevShares
  BY DEF Delta
<1> QED  BY <1>1, <1>2, <1>3, <1>4

\* The changes up to a period are finitely many, and add up to the position
\* the filer had then.
LEMMA MovesTelescope ==
    ASSUME SnapshotTidy, ChangesInStep, NEW f \in Filers, NEW s, NEW n \in 0 .. LastPeriod
    PROVE  /\ IsFiniteSet(MovesUpto(f, s, n))
           /\ SumFunctionOnSet(Delta(f, s), MovesUpto(f, s, n)) = Held(f, s, n)
<1> DEFINE ok(k) == /\ IsFiniteSet(MovesUpto(f, s, k))
                    /\ SumFunctionOnSet(Delta(f, s), MovesUpto(f, s, k)) = Held(f, s, k)
           B == {k \in 0 .. LastPeriod : ~ok(k)}
<1> SUFFICES ASSUME B # {} PROVE FALSE
  OBVIOUS
<1>1. PICK k \in B : \A j \in B : k <= j
  <2>1. B \in SUBSET Nat
    BY PeriodsAssumption
  <2> HIDE DEF B
  <2> QED  BY <2>1, LeastOf
<1>2. k # 0
  <2>1. MovesUpto(f, s, 0) = {}
    BY DeltaIs, PeriodsAssumption DEF MovesUpto, Periods
  <2>2. Held(f, s, 0) = 0
    BY PeriodsAssumption DEF Held, PublishedBy, Periods
  <2>3. ok(0)
    BY <2>1, <2>2, SumEmpty, FS_EmptySet
  <2> HIDE DEF ok
  <2> QED  BY <1>1, <2>3
<1>3. k \in Periods /\ k - 1 \in 0 .. LastPeriod /\ k - 1 \notin B
  BY <1>1, <1>2, PeriodsAssumption DEF Periods
<1>4. ok(k - 1)
  BY <1>3
<1> DEFINE mine == RowsListing(change[f][k], s)
<1>5. MovesUpto(f, s, k) = MovesUpto(f, s, k - 1) \cup {<<k, x>> : x \in mine}
  BY <1>3, DeltaIs, PeriodsAssumption DEF MovesUpto, Periods
<1>6. CASE mine = {} /\ Held(f, s, k) = Held(f, s, k - 1)
  <2>1. MovesUpto(f, s, k) = MovesUpto(f, s, k - 1)
    BY <1>5, <1>6
  <2>2. ok(k)
    BY <1>4, <1>6, <2>1
  <2> QED  BY <1>1, <2>2
<1>7. ASSUME NEW x, mine = {x}, x.shares \in Nat, x.prevShares \in Nat,
             Held(f, s, k) = Held(f, s, k - 1) + (x.shares - x.prevShares)
      PROVE  FALSE
  <2> DEFINE d == <<k, x>>
             S == MovesUpto(f, s, k)
  <2>1. S = MovesUpto(f, s, k - 1) \cup {d} /\ d \notin MovesUpto(f, s, k - 1)
    BY <1>3, <1>5, <1>7, PeriodsAssumption DEF MovesUpto, Periods
  <2>2. IsFiniteSet(S) /\ S \ {d} = MovesUpto(f, s, k - 1) /\ d \in S
    BY <1>4, <2>1, FS_AddElement
  <2>3. \A y \in S : Delta(f, s)[y] \in Int
    BY DeltaIs DEF MovesUpto
  <2>4. Delta(f, s)[d] = x.shares - x.prevShares
    BY <1>3, <1>7, DeltaIs
  <2> HIDE DEF S, d
  <2>5. SumFunctionOnSet(Delta(f, s), S)
            = Delta(f, s)[d] + SumFunctionOnSet(Delta(f, s), S \ {d})
    BY <2>2, <2>3, SumTakesOut
  <2>6. SumFunctionOnSet(Delta(f, s), S \ {d}) \in Int
    <3>1. IsFiniteSet(S \ {d}) /\ \A y \in S \ {d} : Delta(f, s)[y] \in Int
      BY <2>2, <2>3, FS_Subset
    <3> QED  BY <3>1, SumTakesOut
  <2>7. SumFunctionOnSet(Delta(f, s), S \ {d}) = Held(f, s, k - 1)
    BY <1>4, <2>2
  <2>8. SumFunctionOnSet(Delta(f, s), S) = Held(f, s, k)
    BY <1>7, <2>4, <2>5, <2>6, <2>7
  <2>9. ok(k)
    BY <2>2, <2>8 DEF S
  <2> QED  BY <1>1, <2>9
<1> QED  BY <1>3, <1>6, <1>7, PeriodMoves

LEMMA LatestSharesAre ==
    ASSUME SnapshotTidy, NEW f \in Filers, NEW s
    PROVE  LatestShares(f, s) = Held(f, s, LastPeriod)
<1> DEFINE published == {p \in Periods : IsPublished(snapshot, f, p)}
           latest == CHOOSE p \in published : \A q \in published : q <= p
<1>1. published = PublishedBy(f, LastPeriod)
  BY PeriodsAssumption DEF PublishedBy, Periods
<1>2. latest = Latest(f, LastPeriod)
  BY <1>1 DEF Latest
<1>3. CASE published = {}
  BY <1>1, <1>3 DEF LatestShares, Held
<1>4. CASE published # {}
  <2>1. latest \in published
    <3>1. published \in SUBSET Periods
      OBVIOUS
    <3> HIDE DEF published
    <3>2. \E p \in published : \A q \in published : q <= p
      BY <1>4, <3>1, LastOf
    <3> QED  BY <3>2
  <2> DEFINE rows == snapshot[f][latest]
             mine == RowsListing(rows, s)
             fun == [r \in mine |-> r.shares]
  <2>2. Tidy(rows)
    BY <2>1 DEF SnapshotTidy
  <2>3. LatestShares(f, s) = SumFunctionOnSet(fun, mine)
    BY <1>4 DEF LatestShares, SumFunction
  <2>4. Held(f, s, LastPeriod) = ShareOf(rows, s)
    BY <1>1, <1>2, <1>4 DEF Held
  <2> HIDE DEF rows
  <2>5. CASE s \in Listed(rows)
    <3>1. PICK r \in rows : r.security = s
      BY <2>5 DEF Listed
    <3>2. mine = {r}
      BY <2>2, <3>1 DEF Tidy, RowsListing
    <3>3. fun[r] = r.shares /\ r.shares \in Nat /\ ShareOf(rows, s) = r.shares
      BY <2>2, <3>1, <3>2, TidyRow DEF Tidy
    <3> HIDE DEF fun, mine
    <3>4. IsFiniteSet(mine) /\ mine \ {r} = {} /\ \A x \in mine : fun[x] \in Int
      <4>1. mine \ {r} = {} /\ \A x \in mine : x = r
        BY <3>2
      <4>2. IsFiniteSet({r})
        BY FS_Singleton
      <4>3. r.shares \in Int
        BY <3>3
      <4>4. \A x \in mine : fun[x] \in Int
        BY <3>3, <4>1, <4>3
      <4> QED  BY <3>2, <4>1, <4>2, <4>4
    <3>5. SumFunctionOnSet(fun, mine) = fun[r] + SumFunctionOnSet(fun, mine \ {r})
      BY <3>2, <3>4, SumTakesOut
    <3>6. SumFunctionOnSet(fun, mine \ {r}) = 0
      BY <3>4, SumEmpty
    <3> QED  BY <2>3, <2>4, <3>3, <3>5, <3>6 DEF mine, fun
  <2>6. CASE s \notin Listed(rows)
    <3>1. mine = {}
      BY <2>6 DEF Listed, RowsListing
    <3>2. SumFunctionOnSet(fun, {}) = 0
      BY SumEmpty
    <3> HIDE DEF fun
    <3>3. SumFunctionOnSet(fun, mine) = 0
      BY <3>1, <3>2
    <3> QED  BY <2>2, <2>3, <2>4, <2>6, <3>3, TidyRow DEF fun, mine
  <2> QED  BY <2>5, <2>6
<1> QED  BY <1>3, <1>4

\* A security's share deltas over a filer's published periods add up to the
\* position it ends with, whatever is loaded, re-parsed, withheld or rebuilt:
\* what the incremental rebuilds of position_change leave never skips a
\* period, counts one twice or compares with a withheld one.
THEOREM Telescoping == Spec => []DeltasAddUp
<1>1. Init => FilingsSound /\ SnapshotTidy
  <2> SUFFICES ASSUME Init PROVE FilingsSound /\ SnapshotTidy
    OBVIOUS
  <2>1. {a \in Accessions : filing[a] # Unloaded} = {}
    BY DEF Init
  <2>2. \A a \in Accessions : filing[a] = Unloaded
    BY DEF Init
  <2>3. \A f \in Filers, p \in Periods : snapshot[f][p] = {}
    BY DEF Init
  <2> QED  BY <2>1, <2>2, <2>3, FS_EmptySet DEF FilingsSound, Sound, SnapshotTidy, Tidy
<1>2. TypeOK /\ FilingsSound /\ SnapshotTidy /\ [Next]_vars => (FilingsSound /\ SnapshotTidy)'
  BY FilingsStaySound, StaysTidy
<1>3. SnapshotTidy /\ ChangesInStep => DeltasAddUp
  <2> SUFFICES ASSUME SnapshotTidy, ChangesInStep, NEW f \in Filers, NEW s \in Securities
               PROVE  SumFunction(Delta(f, s)) = LatestShares(f, s)
    BY DEF DeltasAddUp, Delta
  <2>1. DOMAIN Delta(f, s) = Deltas(f, s)
    BY DEF Delta
  <2>2. MovesUpto(f, s, LastPeriod) = Deltas(f, s)
    BY DeltaIs, PeriodsAssumption DEF MovesUpto, Periods
  <2>3. LastPeriod \in 0 .. LastPeriod
    BY PeriodsAssumption
  <2>4. SumFunctionOnSet(Delta(f, s), Deltas(f, s)) = Held(f, s, LastPeriod)
    BY <2>2, <2>3, MovesTelescope
  <2> QED  BY <2>1, <2>4, LatestSharesAre DEF SumFunction
<1>4. InStep => ChangesInStep
  BY DEF InStep
<1> QED  BY <1>1, <1>2, <1>3, <1>4, TypeCorrect, AlwaysInStep, PTL DEF Spec
=============================================================================
