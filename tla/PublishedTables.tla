--------------------------- MODULE PublishedTables ---------------------------
(***************************************************************************)
(* What the derived 13F tables should hold, as functions of what was      *)
(* filed: the filings that count for a (filer, period), the published      *)
(* portfolio, the implied prices, the detected splits and the position     *)
(* changes.  Pure definitions: Recompute maintains the tables one scope    *)
(* at a time, FullRebuild all at once, and both are written with these.    *)
(*                                                                         *)
(* Quarters are numbered 1..LastPeriod, so the quarter before p is p - 1.  *)
(* Share counts and dollar values are naturals; a ratio is a pair          *)
(* <<numerator, denominator>>.  Weights and deltas are left out: each is   *)
(* arithmetic on the columns kept here.                                    *)
(***************************************************************************)
EXTENDS Integers, FiniteSets, FiniteSetsExt

CONSTANTS
    Filers,         \* tracked filers
    Ciks,           \* the identities they file under
    Securities,
    Accessions,     \* one per filing, as EDGAR numbers them
    LastPeriod,     \* the newest quarter anything is filed for
    FiledOrder,     \* accession -> place in (filed_at, accession_no) order
    CikOrder,       \* cik -> its place in the order of CIKs
    Parses,         \* accession -> the documents its bytes may parse to
    NoFiler,        \* a CIK no filer claims
    Unloaded,       \* an accession with no loaded filing row
    NoPrice,        \* a security nobody held with a value
    PriceOf(_),         \* the implied price of one security in one quarter
    SplitOf(_, _, _, _) \* the split detected between two quarters

Periods == 1..LastPeriod
Pairs == Filers \X Periods
Keys == Securities \X Periods

NoSplit == <<1, 1>>

\* A parsed filing.  "held" is its common stock after lines sharing a natural
\* key are summed: a function from the securities it lists to their position.
Kinds == {"original", "restatement", "new_holdings", "unclassified", "notice"}
Position == [shares : Nat, value : Nat]
Document == [cik : Ciks, period : Periods, kind : Kinds, suspect : BOOLEAN,
             held : UNION {[listed -> Position] : listed \in SUBSET Securities}]

ASSUME PeriodsAssumption == LastPeriod \in Nat \ {0}
ASSUME OrderAssumption ==
    /\ \A a \in Accessions : FiledOrder[a] \in Nat
    /\ \A a, b \in Accessions : FiledOrder[a] = FiledOrder[b] => a = b
    /\ \A c \in Ciks : CikOrder[c] \in Nat
    /\ \A c, d \in Ciks : CikOrder[c] = CikOrder[d] => c = d
ASSUME FiniteCiksAssumption == IsFiniteSet(Ciks)
ASSUME NullAssumption == NoFiler \notin Filers
ASSUME NoHoldersAssumption ==
    /\ PriceOf({}) = NoPrice
    /\ SplitOf({}, {}, NoPrice, NoPrice) = NoSplit
ASSUME ParsesAssumption ==
    \A a \in Accessions : \A d \in Parses[a] :
        /\ d.cik \in Ciks /\ d.period \in Periods /\ d.kind \in Kinds
        /\ d.suspect \in BOOLEAN /\ DOMAIN d.held \subseteq Securities
        /\ \A s \in DOMAIN d.held : d.held[s] \in Position

-----------------------------------------------------------------------------
(* Which filings count: the effective_filing views.  "filing" maps each    *)
(* accession to its row, "roster" is what the seed loads of investors.yaml: *)
(* a record of each CIK's owner and priority, and each filer's policy.     *)

\* The filings loaded for a pair, by filing.filer_id and period_of_report.
FiledFor(filing, f, p) ==
    {a \in Accessions : /\ filing[a] # Unloaded
                        /\ filing[a].filer = f
                        /\ filing[a].period = p}

\* The view's "candidate" CTE: a notice has no holdings, and an amendment
\* whose kind the cover page does not give is left out, not guessed at.
Candidates(filing, f, p) ==
    {a \in FiledFor(filing, f, p) :
        filing[a].kind \in {"original", "restatement", "new_holdings"}}

ReplacesPeriod(document) == document.kind \in {"original", "restatement"}

\* effective_filing_by_cik: the latest whole-period filing of each CIK, and
\* the additions filed after it.
CountsForCik_AllVersions(filing, f, p) == Candidates(filing, f, p)
CountsForCik(filing, f, p) ==
    {a \in Candidates(filing, f, p) :
        \A b \in Candidates(filing, f, p) :
            (filing[b].cik = filing[a].cik /\ ReplacesPeriod(filing[b]))
                => FiledOrder[b] <= FiledOrder[a]}

\* cik_rank: by priority, a CIK the filer does not claim last, then by CIK.
Outranks(roster, f, c, d) ==
    LET rank(x) == IF roster.owner[x] = f THEN roster.priority[x] ELSE -1
    IN  \/ rank(c) > rank(d)
        \/ rank(c) = rank(d) /\ CikOrder[c] > CikOrder[d]

\* effective_filing: one CIK's filings, or under the sum policy every CIK's.
Effective(filing, roster, f, p) ==
    {a \in CountsForCik(filing, f, p) :
        \/ roster.overlap[f] = "sum"
        \/ ~\E b \in CountsForCik(filing, f, p) :
                Outranks(roster, f, filing[b].cik, filing[a].cik)}

-----------------------------------------------------------------------------
(* position_snapshot: the effective filings' positions, summed.            *)

Total(column, filings, s) == SumFunction([a \in DOMAIN filings |-> filings[a].held[s][column]])

\* One security's row: "counted" maps each filing that counts to its row.
RowOf(counted, s) ==
    LET listing == {a \in DOMAIN counted : s \in DOMAIN counted[a].held}
        filings == [a \in listing |-> counted[a]]
    IN  [security |-> s,
         shares |-> Total("shares", filings, s),
         value |-> Total("value", filings, s),
         source |-> CHOOSE a \in listing :
                        \A b \in listing : FiledOrder[b] <= FiledOrder[a],
         suspect |-> \E a \in DOMAIN counted : counted[a].suspect]

\* One suspect filing among those that count withholds the whole period,
\* unless the rebuild includes suspect periods and marks their rows.
RowsFrom(counted, includeSuspect) ==
    IF (\E a \in DOMAIN counted : counted[a].suspect) /\ ~includeSuspect THEN {}
    ELSE {RowOf(counted, s) : s \in UNION {DOMAIN counted[a].held : a \in DOMAIN counted}}

PublishedRows(filing, roster, f, p, includeSuspect) ==
    RowsFrom([a \in Effective(filing, roster, f, p) |-> filing[a]], includeSuspect)

\* filer_period: a period is one with rows, so a withheld quarter is none.
IsPublished(snapshot, f, p) == snapshot[f][p] # {}

\* The filer's published period before p, as a set of at most one.
Previous_QuarterBefore(snapshot, f, p) ==
    {q \in Periods : q = p - 1 /\ IsPublished(snapshot, f, q)}
Previous(snapshot, f, p) ==
    {q \in Periods :
        /\ q < p
        /\ IsPublished(snapshot, f, q)
        /\ \A r \in Periods : q < r /\ r < p => ~IsPublished(snapshot, f, r)}

-----------------------------------------------------------------------------
(* implied_price and security_split: across every filer that held it.      *)

\* The snapshot's rows for one security in one quarter, with their filers.
Holdings(snapshot, s, p) ==
    UNION {{[filer |-> f, shares |-> r.shares, value |-> r.value] :
                r \in {x \in snapshot[f][p] : x.security = s}} : f \in Filers}

PriceFor(snapshot, s, p) == PriceOf(Holdings(snapshot, s, p))

\* The detection at p compares the holders and the prices with those of p - 1.
SplitFor(snapshot, price, s, p) ==
    IF p = 1 THEN NoSplit
    ELSE SplitOf(Holdings(snapshot, s, p - 1), Holdings(snapshot, s, p),
                 price[s][p - 1], price[s][p])

-----------------------------------------------------------------------------
(* position_change: a period's rows against the filer's previous period.   *)

\* The splits of the securities held now, after period q and until p.
SplitsAcross(split, securities, q, p) ==
    {[security |-> k[1], period |-> k[2], ratio |-> split[k[1]][k[2]]] :
        k \in {x \in securities \X Periods :
                    q < x[2] /\ x[2] <= p /\ split[x[1]][x[2]] # NoSplit}}

\* Every ratio multiplied, when the filer skipped a quarter that had another.
SplitRatio(splits, s) ==
    FoldSet(LAMBDA x, r : <<x.ratio[1] * r[1], x.ratio[2] * r[2]>>,
            NoSplit, {x \in splits : x.security = s})

Distance(m, n) == IF m >= n THEN m - n ELSE n - m

\* The hold band is 0.01% of the previous shares, in today's shares.
Action(shares, previous, ratio) ==
    LET now == shares * ratio[2]
        adjusted == previous * ratio[1]
    IN  IF Distance(now, adjusted) * 10000 <= adjusted THEN "hold"
        ELSE IF now > adjusted THEN "add" ELSE "trim"

ChangeRow(security, action, now, prev, before, ratio, suspect) ==
    [security |-> security, action |-> action, shares |-> now.shares, value |-> now.value,
     prev |-> prev, prevShares |-> before.shares, prevValue |-> before.value,
     ratio |-> ratio, suspect |-> suspect]

Nothing == [shares |-> 0, value |-> 0]

InBoth(r, before, q, splits, suspect) ==
    LET b == CHOOSE x \in before : x.security = r.security
        ratio == SplitRatio(splits, r.security)
    IN  ChangeRow(r.security, Action(r.shares, b.shares, ratio), r, q, b, ratio, suspect)
Opened(r, q, suspect) == ChangeRow(r.security, "new", r, q, Nothing, NoSplit, suspect)
Exited(b, q, suspect) == ChangeRow(b.security, "exit", Nothing, q, b, NoSplit, suspect)

Listed(rows) == {r.security : r \in rows}

\* One row per position held now, and one per position gone since "before",
\* which is dated this period.  "q" is the previous period, 0 for none.
Compare(now, before, q, splits) ==
    LET suspect == \E b \in now \cup before : b.suspect
        kept == {r \in now : r.security \in Listed(before)}
        gone == {b \in before : b.security \notin Listed(now)}
    IN  IF now = {} THEN {}
        ELSE {InBoth(r, before, q, splits, suspect) : r \in kept}
             \cup {Opened(r, q, suspect) : r \in now \ kept}
             \cup {Exited(b, q, suspect) : b \in gone}

\* The filer's previous published period, 0 when this is its first.
PreviousPeriod(snapshot, f, p) ==
    LET previous == Previous(snapshot, f, p)
    IN  IF previous = {} THEN 0 ELSE CHOOSE q \in previous : TRUE

ChangesFor(snapshot, split, f, p) ==
    LET q == PreviousPeriod(snapshot, f, p)
    IN  IF q = 0 THEN Compare(snapshot[f][p], {}, 0, {})
        ELSE Compare(snapshot[f][p], snapshot[f][q], q,
                     SplitsAcross(split, Listed(snapshot[f][p]), q, p))
=============================================================================
