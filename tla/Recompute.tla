------------------------------ MODULE Recompute ------------------------------
(***************************************************************************)
(* Loading 13Fs and keeping the derived tables in step with them, one      *)
(* scope at a time.                                                        *)
(*                                                                         *)
(* Every writer of these tables takes the RECOMPUTE_LOCK advisory lock     *)
(* before it reads what it rebuilds from, and holds it until it commits,   *)
(* so a transaction is one step here.  A rolled back one is no step.       *)
(*                                                                         *)
(* The seed (data/investors.yaml) changes overlap policies and which filer *)
(* claims a CIK without taking the lock and without rebuilding anything:   *)
(* "reseeded" holds the filers whose snapshot it may have left behind.     *)
(***************************************************************************)
EXTENDS PublishedTables

CONSTANTS
    Claims,     \* the owners investors.yaml may first give the CIKs
    Policies    \* the overlap policies it may give a filer

ASSUME ClaimsAssumption == Claims \subseteq [Ciks -> Filers \cup {NoFiler}]
ASSUME PoliciesAssumption == "successor" \in Policies /\ Policies \subseteq {"successor", "sum"}

VARIABLES
    filing,     \* filing and holding: accession -> what was last loaded
    roster,     \* filer and filer_cik, as the seed last wrote them
    snapshot,   \* position_snapshot: filer -> period -> rows
    price,      \* implied_price: security -> period -> price
    split,      \* security_split: security -> period -> ratio
    change,     \* position_change: filer -> period -> rows
    announced,  \* the pairs the last commit sent to emit_alerts
    reseeded    \* history: filers seeded since they were rebuilt in full

tables == <<snapshot, price, split, change>>
vars == <<filing, roster, snapshot, price, split, change,
          announced, reseeded>>

Roster == [owner : [Ciks -> Filers \cup {NoFiler}],
           priority : [Ciks -> 0..Cardinality(Ciks)],
           overlap : [Filers -> Policies]]

\* _ranked: a filer's CIKs are prioritised in the order they are listed.
EarlierListed(owner, c) == {d \in Ciks : owner[d] = owner[c] /\ CikOrder[d] < CikOrder[c]}

IsFilingRow(row) ==
    /\ row.cik \in Ciks /\ row.filer \in Filers \cup {NoFiler}
    /\ row.period \in Periods /\ row.kind \in Kinds /\ row.suspect \in BOOLEAN
    /\ DOMAIN row.held \subseteq Securities

FilingsOK ==
    /\ DOMAIN filing = Accessions
    /\ \A a \in Accessions : filing[a] = Unloaded \/ IsFilingRow(filing[a])

\* A table with a cell for each row key and quarter.
IsTable(table, rows) == table = [x \in rows |-> [p \in Periods |-> table[x][p]]]

SnapshotOK ==
    /\ IsTable(snapshot, Filers)
    /\ \A f \in Filers, p \in Periods : Listed(snapshot[f][p]) \subseteq Securities

TypeOK ==
    /\ FilingsOK
    /\ roster \in Roster
    /\ SnapshotOK
    /\ IsTable(price, Securities) /\ IsTable(split, Securities) /\ IsTable(change, Filers)
    /\ announced \in SUBSET Pairs
    /\ reseeded \in SUBSET Filers

Init ==
    /\ filing = [a \in Accessions |-> Unloaded]
    /\ \E owner \in Claims :
            roster = [owner |-> owner,
                      priority |-> [c \in Ciks |-> IF owner[c] = NoFiler THEN 0
                                        ELSE Cardinality(EarlierListed(owner, c))],
                      overlap |-> [f \in Filers |-> "successor"]]
    /\ snapshot = [f \in Filers |-> [p \in Periods |-> {}]]
    /\ price = [s \in Securities |-> [p \in Periods |-> NoPrice]]
    /\ split = [s \in Securities |-> [p \in Periods |-> NoSplit]]
    /\ change = [f \in Filers |-> [p \in Periods |-> {}]]
    /\ announced = {}
    /\ reseeded = {}

-----------------------------------------------------------------------------
(* The rebuild of one scope, in the order recompute() runs it.             *)

\* held_in: the securities the pairs in scope hold, in the scope's periods.
HeldIn(snap, scope) ==
    {k \in Keys : \E f \in Filers :
        <<f, k[2]>> \in scope /\ k[1] \in Listed(snap[f][k[2]])}

\* The prices a rebuild can change: a security it drops from a period still
\* has one there that counted it.
HeldAcross_AfterOnly(scope) == HeldIn(snapshot', scope)
HeldAcross(scope) ==
    IF scope = Pairs THEN Keys ELSE HeldIn(snapshot, scope) \cup HeldIn(snapshot', scope)

\* split_keys: a filing at a quarter moves the detection at the one after it.
SplitKeys(held) == held \cup {k \in Keys : <<k[1], k[2] - 1>> \in held}

\* _following: each filer's next published period after each one in scope.
Following(snap, scope) ==
    {x \in Pairs : \E p \in Periods :
        /\ <<x[1], p>> \in scope
        /\ p < x[2] /\ IsPublished(snap, x[1], x[2])
        /\ \A r \in Periods : p < r /\ r < x[2] => ~IsPublished(snap, x[1], r)} \ scope

\* crossing_pairs: the pairs with a change across a split that moved, read
\* from position_change as it is before the rebuild.
Crossing(moved) ==
    {x \in Pairs : \E r \in change[x[1]][x[2]] : \E k \in moved :
        /\ r.security = k[1]
        /\ r.prev # 0 /\ r.prev < k[2] /\ k[2] <= x[2]}

\* recompute_security_split at keys, from the snapshot and the prices given:
\* the keys left out keep their row.
RedetectSplits(snap, prices, keys) ==
    split' = [s \in Securities |-> [p \in Periods |->
                IF <<s, p>> \in keys THEN SplitFor(snap, prices, s, p) ELSE split[s][p]]]

\* SplitRebuild.moved: added, removed or re-rated.
Moved == {k \in Keys : split'[k[1]][k[2]] # split[k[1]][k[2]]}

RebuildChanges(scope) ==
    change' = [f \in Filers |-> [p \in Periods |->
                IF <<f, p>> \in scope THEN ChangesFor(snapshot', split', f, p)
                ELSE change[f][p]]]

\* Recomputed.touched: the pairs sent to the alerts task on commit.
Touched_ScopeOnly(scope, following, crossing) == scope
Touched(scope, following, crossing) == scope \cup following \cup crossing

\* recompute: the snapshot, then the prices of what the scope held before or
\* after, then the splits, then the changes.
Rebuild(scope, includeSuspect) ==
    LET held == HeldAcross(scope)
        following == Following(snapshot', scope)
        crossing == Crossing(Moved) \ (scope \cup following)
    IN  /\ snapshot' = [f \in Filers |-> [p \in Periods |->
                IF <<f, p>> \in scope
                THEN PublishedRows(filing', roster, f, p, includeSuspect)
                ELSE snapshot[f][p]]]
        /\ price' = [s \in Securities |-> [p \in Periods |->
                IF <<s, p>> \in held THEN PriceFor(snapshot', s, p) ELSE price[s][p]]]
        /\ RedetectSplits(snapshot', price', SplitKeys(held))
        /\ RebuildChanges(scope \cup following \cup crossing)
        /\ announced' = Touched(scope, following, crossing)

-----------------------------------------------------------------------------
(* The transactions.                                                       *)

\* filing_pairs: none while the filing is unloaded or linked to no filer.
FilingPairs_Unlinked(rows, a) ==
    IF rows[a] = Unloaded THEN {} ELSE {<<rows[a].filer, rows[a].period>>}
FilingPairs(rows, a) ==
    IF rows[a] = Unloaded \/ rows[a].filer = NoFiler THEN {}
    ELSE {<<rows[a].filer, rows[a].period>>}

\* _upsert_filing: a CIK lookup that missed keeps the link the row has.
LinkedFiler(a, document) ==
    IF roster.owner[document.cik] # NoFiler THEN roster.owner[document.cik]
    ELSE IF filing[a] = Unloaded THEN NoFiler ELSE filing[a].filer

\* The pair a filing is filed under now, and the one a re-ingest moved it from.
LoadScope_Now(a) == FilingPairs(filing', a)
LoadScope(a) == FilingPairs(filing, a) \cup FilingPairs(filing', a)

NoHoldings == [s \in {} |-> [shares |-> 0, value |-> 0]]

\* write_13f: load_filing replaces the filing's row and holdings, deferring
\* the holdings of a filing with no filer, and its pairs are rebuilt in the
\* same transaction.
Load(a) ==
    \E document \in Parses[a] :
        LET filer == LinkedFiler(a, document)
            row == [cik |-> document.cik, filer |-> filer, period |-> document.period,
                    kind |-> document.kind, suspect |-> document.suspect,
                    held |-> IF filer = NoFiler THEN NoHoldings ELSE document.held]
        IN  /\ filing' = [filing EXCEPT ![a] = row]
            /\ Rebuild(LoadScope(a), FALSE)
            /\ UNCHANGED <<roster, reseeded>>

\* A pair exists when a filing is filed for it or the snapshot published it.
Exists(f, p) == FiledFor(filing, f, p) # {} \/ IsPublished(snapshot, f, p)

\* recompute --all.
RecomputeAll ==
    \E includeSuspect \in BOOLEAN :
        /\ UNCHANGED <<filing, roster>>
        /\ Rebuild(Pairs, includeSuspect)
        /\ reseeded' = {}

\* recompute --filer: resolve_scope picks out the pairs that exist.
RecomputeFiler(f) ==
    \E includeSuspect \in BOOLEAN :
        /\ UNCHANGED <<filing, roster>>
        /\ Rebuild({x \in Pairs : x[1] = f /\ Exists(f, x[2])}, includeSuspect)
        /\ reseeded' = reseeded \ {f}

\* recompute --period.
RecomputePeriod(p) ==
    \E includeSuspect \in BOOLEAN :
        /\ UNCHANGED <<filing, roster, reseeded>>
        /\ Rebuild({x \in Pairs : x[2] = p /\ Exists(x[1], p)}, includeSuspect)

\* recompute --filer --period, and the second link of an ingest's chain, which
\* names the pairs its loads published into: one pair here.
RecomputePairs ==
    \E x \in Pairs, includeSuspect \in BOOLEAN :
        /\ UNCHANGED <<filing, roster, reseeded>>
        /\ Rebuild({x}, includeSuspect)

\* detect_splits for one quarter's securities, or everywhere.
DetectSplits ==
    \E keys \in {Keys} \cup {{k \in Keys : k[2] = p /\ \E f \in Filers :
                                k[1] \in Listed(snapshot[f][p])} : p \in Periods} :
        /\ UNCHANGED <<filing, roster, snapshot, price, reseeded>>
        /\ RedetectSplits(snapshot, price, keys)
        /\ RebuildChanges(Crossing(Moved))
        /\ announced' = Crossing(Moved)

\* The seed writes filer and filer_cik alone, and rebuilds nothing.
Reseed(f, new) ==
    /\ roster' = new
    /\ reseeded' = reseeded \cup {f}
    /\ UNCHANGED <<filing, snapshot, price, split, change, announced>>

\* A filer's overlap policy edited.
SetOverlap(f) ==
    \E policy \in Policies \ {roster.overlap[f]} :
        Reseed(f, [roster EXCEPT !.overlap[f] = policy])

\* A CIK added to the end of a filer's list.  One that another filer has is
\* refused (_refuse_moved_ciks).
ClaimCik(f, c) ==
    /\ roster.owner[c] = NoFiler
    /\ Reseed(f, [roster EXCEPT
            !.owner[c] = f,
            !.priority[c] = Cardinality({d \in Ciks : roster.owner[d] = f})])

\* Two of a filer's CIKs listed the other way round.
Reprioritise(f) ==
    \E c, d \in Ciks :
        /\ roster.owner[c] = f /\ roster.owner[d] = f
        /\ CikOrder[c] < CikOrder[d]
        /\ Reseed(f, [roster EXCEPT !.priority[c] = roster.priority[d],
                                    !.priority[d] = roster.priority[c]])

Next ==
    \/ \E a \in Accessions : Load(a)
    \/ RecomputeAll
    \/ \E f \in Filers : RecomputeFiler(f)
    \/ \E p \in Periods : RecomputePeriod(p)
    \/ RecomputePairs
    \/ DetectSplits
    \/ \E f \in Filers : SetOverlap(f) \/ Reprioritise(f)
    \/ \E f \in Filers, c \in Ciks : ClaimCik(f, c)

Spec == Init /\ [][Next]_vars

-----------------------------------------------------------------------------
(* Properties.                                                             *)

\* What is published for a pair is what its filings now add up to, by
\* amendment kind, filing order, overlap policy and suspicion, however the
\* filings arrived, were re-parsed or moved to another pair: no load leaves
\* rows behind under the pair a filing left.  A suspect quarter is published
\* marked or not at all.  Only a filer whose roster entry was edited may lag,
\* until it is rebuilt.
MarkedSuspect(rows) == \E r \in rows : r.suspect
SnapshotIsEffective ==
    \A f \in Filers \ reseeded : \A p \in Periods :
        snapshot[f][p] = PublishedRows(filing, roster, f, p, MarkedSuspect(snapshot[f][p]))

\* Rebuilding the prices of the securities the scope held, before or after,
\* leaves no stale price in any period.
PricesInStep ==
    \A s \in Securities, p \in Periods : price[s][p] = PriceFor(snapshot, s, p)

\* Redetecting splits at those prices' keys and the quarter after each leaves
\* every other split what a detection over everything would find.
SplitsInStep ==
    \A s \in Securities, p \in Periods : split[s][p] = SplitFor(snapshot, price, s, p)

\* Walking forward one published period, and across the splits that moved, is
\* enough: no filer's changes anywhere differ from a full rebuild's.
ChangesInStep ==
    \A f \in Filers, p \in Periods : change[f][p] = ChangesFor(snapshot, split, f, p)

\* After any commit the derived tables hold what a rebuild of everything would
\* write: walking forward from the scope misses nothing.
InStep == PricesInStep /\ SplitsInStep /\ ChangesInStep

\* The incremental rebuild implements the full one.
Full == INSTANCE FullRebuild WITH
    snapshot <- snapshot, price <- price, split <- split, change <- change
ImplementsFullRebuild == Full!Spec

\* Every pair whose published rows or changes a commit altered is in the
\* message it sends to the alerts task, so no follower's news is missed.
AnnouncesWhatChanged ==
    [][\A f \in Filers, p \in Periods :
        (snapshot[f][p]' # snapshot[f][p] \/ change[f][p]' # change[f][p])
            => <<f, p>> \in announced']_vars

\* A security's share deltas over a filer's published periods, as filed, add up
\* to the position it ends with: no quarter is skipped, counted twice or compared
\* with a withheld one, and a position sold out is taken out once.
RowsListing(rows, s) == {r \in rows : r.security = s}
Deltas(f, s) == UNION {{p} \X RowsListing(change[f][p], s) : p \in Periods}
LatestShares(f, s) ==
    LET published == {p \in Periods : IsPublished(snapshot, f, p)}
        latest == CHOOSE p \in published : \A q \in published : q <= p
    IN  IF published = {} THEN 0
        ELSE SumFunction([r \in RowsListing(snapshot[f][latest], s) |-> r.shares])
DeltasAddUp ==
    \A f \in Filers, s \in Securities :
        SumFunction([d \in Deltas(f, s) |-> d[2].shares - d[2].prevShares]) = LatestShares(f, s)

\* Under the successor policy one book is never counted twice: a published
\* period draws on one CIK's filings, at most one of them whole-period.
OneBookPerPeriod ==
    \A f \in Filers, p \in Periods :
        roster.overlap[f] = "successor" =>
            \A a, b \in Effective(filing, roster, f, p) :
                /\ filing[a].cik = filing[b].cik
                /\ ReplacesPeriod(filing[a]) /\ ReplacesPeriod(filing[b]) => a = b
=============================================================================
