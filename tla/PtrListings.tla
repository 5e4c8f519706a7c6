----------------------------- MODULE PtrListings -----------------------------
(***************************************************************************)
(* Which reports of Congress are known of.  The House Clerk publishes an   *)
(* index a year, which keeps gaining reports after it; Senate eFD answers  *)
(* a search page by page, while its list changes.  Each chamber's runs     *)
(* keep a watermark, and a catch-up reads again from before it.            *)
(***************************************************************************)
EXTENDS Integers, Sequences, FiniteSets, FiniteSetsExt

CONSTANTS
    HousePtrs, SenatePtrs,  \* reports
    PlaceOf,                \* of a Senate report: the order eFD lists them in
    DateOf,                 \* each report's filing date, which may be mistyped
    IndexYear,              \* the year a House report is indexed under
    DaysAYear,
    LookbackDays, LookbackYears,
    SearchPage,             \* MAX_SEARCH_PAGE
    HouseRuns, SenateRuns,  \* at once if a run has lost its lock's connection
    LastDate                \* bounds time, which starts on day 1

ASSUME ListingsAssumption ==
    /\ HousePtrs \cap SenatePtrs = {} /\ IsFiniteSet(SenatePtrs)
    /\ PlaceOf \in [SenatePtrs -> Nat]
    /\ \A p, o \in SenatePtrs : PlaceOf[p] = PlaceOf[o] => p = o
    /\ DateOf \in [HousePtrs \cup SenatePtrs -> Nat \ {0}] /\ IndexYear \in [HousePtrs -> Nat]
    /\ {DaysAYear, SearchPage, LastDate} \subseteq Nat \ {0}
    /\ {LookbackDays, LookbackYears} \subseteq Nat

VARIABLES
    date,           \* New York's
    onList,         \* what the Clerk and eFD list
    known,          \* congress_filing
    houseMark, senateMark,      \* crawl_watermark: a filing date, 0 for none
    houseRun, search,           \* each run
    leftOut         \* history: reports listed later than a catch-up looks back, left
                    \* before a run by hand, or shifted past a search's page unnoticed

listingVars == <<date, onList, known, houseMark, senateMark, houseRun, search, leftOut>>

Ptrs == HousePtrs \cup SenatePtrs
YearOf(d) == d \div DaysAYear
Dates == 0 .. LastDate

NoHouseRun == [step |-> "idle", years |-> <<>>, today |-> 0, moves |-> FALSE, byHand |-> FALSE,
               first |-> 0, before |-> 0, newest |-> 0, failed |-> FALSE]
NoSearch == [step |-> "idle", from |-> 0, last |-> 0, today |-> 0, moves |-> FALSE, byHand |-> FALSE,
             before |-> 0, counted |-> -1, rows |-> {}, start |-> 0, pages |-> 0,
             gained |-> FALSE, passed |-> {}]     \* history: how its list has shifted

ListingsTypeOK ==
    /\ date \in Dates /\ houseMark \in Dates /\ senateMark \in Dates
    /\ onList \subseteq Ptrs /\ known \subseteq Ptrs /\ leftOut \subseteq Ptrs
    /\ \A r \in HouseRuns : houseRun[r].step \in {"idle", "reading"} /\ houseRun[r].newest \in Dates
    /\ \A r \in SenateRuns :
        /\ search[r].step \in {"idle", "searching", "listed", "stored"}
        /\ search[r].rows \subseteq Ptrs /\ search[r].passed \subseteq SenatePtrs

ListingsInit ==
    /\ date = 1 /\ onList = {} /\ known = {} /\ leftOut = {}
    /\ houseMark = 0 /\ senateMark = 0
    /\ houseRun = [r \in HouseRuns |-> NoHouseRun]
    /\ search = [r \in SenateRuns |-> NoSearch]

-----------------------------------------------------------------------------
(* The Clerk and eFD.                                                      *)

\* Midnight in New York.
NextDate ==
    /\ date < LastDate /\ date' = date + 1
    /\ UNCHANGED <<onList, known, houseMark, senateMark, houseRun, search, leftOut>>

\* A report is listed once it is filed, however long after the year the Clerk
\* indexes it under, or the day eFD does; which for a catch-up may be too late.
MayBeListed(p) == IF p \in HousePtrs THEN IndexYear[p] <= YearOf(date) ELSE DateOf[p] <= date
Late(p) ==
    IF p \in HousePtrs THEN IndexYear[p] < YearOf(date) - LookbackYears
    ELSE DateOf[p] < date - LookbackDays

Listing(q) == {p \in onList \cap SenatePtrs : DateOf[p] \in q.from .. q.last}
Rank(p, list) == Cardinality({o \in list : PlaceOf[o] <= PlaceOf[p]})

\* A search between pages is answered from a list that may have shifted: a
\* withdrawal may move a report it has yet to read to before where it has got.
Gains(q, p) == q.step = "searching" /\ q.pages > 0 /\ p \in SenatePtrs /\ DateOf[p] \in q.from .. q.last
ShiftedPast(q, o) ==
    {p \in Listing(q) \ {o} :
        q.step = "searching" /\ Rank(p, Listing(q)) > q.start /\ Rank(p, Listing(q) \ {o}) <= q.start}

List(p) ==
    /\ p \notin onList /\ p \notin known /\ MayBeListed(p)
    /\ onList' = onList \cup {p}
    /\ leftOut' = IF Late(p) THEN leftOut \cup {p} ELSE leftOut \ {p}
    /\ search' = [r \in SenateRuns |-> [search[r] EXCEPT !.gained = @ \/ Gains(search[r], p)]]
    /\ UNCHANGED <<date, known, houseMark, senateMark, houseRun>>
Withdraw(p) ==
    /\ p \in onList \ HousePtrs
    /\ onList' = onList \ {p}
    /\ search' = [r \in SenateRuns |-> [search[r] EXCEPT !.passed = @ \cup ShiftedPast(search[r], p)]]
    /\ UNCHANGED <<date, known, houseMark, senateMark, houseRun, leftOut>>

-----------------------------------------------------------------------------
(* ingest-house-index.                                                     *)

UpTo(today, dates) == {d \in dates : d <= today}
Newest(today, ptrs) == Max({0} \cup UpTo(today, {DateOf[p] : p \in ptrs}))

BeginHouse(r, years, moves, byHand) ==
    /\ houseRun[r].step = "idle"
    /\ houseRun' = [houseRun EXCEPT ![r] =
            [NoHouseRun EXCEPT !.step = "reading", !.years = years, !.today = date, !.moves = moves,
                               !.byHand = byHand, !.first = Head(years), !.before = houseMark]]
    /\ UNCHANGED <<date, onList, known, houseMark, senateMark, search, leftOut>>

YearsFrom(first) == [i \in 1 .. YearOf(date) - first + 1 |-> first + i - 1]
CatchUpYears(r) ==
    LET back == YearOf(houseMark) - LookbackYears IN
    houseMark # 0 /\ BeginHouse(r, YearsFrom(IF back < 0 THEN 0 ELSE back), TRUE, FALSE)
HouseByHand(r) ==
    \E y \in 0 .. YearOf(date) : BeginHouse(r, YearsFrom(y), TRUE, TRUE) \/ BeginHouse(r, <<y>>, FALSE, TRUE)

\* A year of its own transaction; a year that fails is passed.
ReadYear(r) ==
    LET run == houseRun[r]
        index == {p \in onList \cap HousePtrs : IndexYear[p] = Head(run.years)}
    IN
    /\ run.step = "reading" /\ run.years # <<>>
    /\ houseRun' = [houseRun EXCEPT ![r].years = Tail(@), ![r].newest = Max({@, Newest(run.today, index)})]
    /\ known' = known \cup index
    /\ UNCHANGED <<date, onList, houseMark, senateMark, search, leftOut>>
FailYear(r) ==
    /\ houseRun[r].step = "reading" /\ houseRun[r].years # <<>>
    /\ houseRun' = [houseRun EXCEPT ![r].years = Tail(@), ![r].failed = TRUE]
    /\ UNCHANGED <<date, onList, known, houseMark, senateMark, search, leftOut>>

\* Only a sweep that starts after the years a catch-up would read leaves any out.
MovesHouse(run) == run.moves /\ ~run.failed /\ run.newest > run.before
EndHouse(r) ==
    LET run == houseRun[r] IN
    /\ run.step = "reading" /\ run.years = <<>>
    /\ houseMark' = IF MovesHouse(run) THEN run.newest ELSE houseMark
    /\ leftOut' =
        IF MovesHouse(run) /\ run.byHand
             /\ (run.before = 0 \/ run.first > YearOf(run.before) - LookbackYears)
        THEN leftOut \cup {p \in HousePtrs : IndexYear[p] < run.first} ELSE leftOut
    /\ houseRun' = [houseRun EXCEPT ![r] = NoHouseRun]
    /\ UNCHANGED <<date, onList, known, senateMark, search>>

KillHouse(r) ==
    /\ houseRun[r].step # "idle"
    /\ houseRun' = [houseRun EXCEPT ![r] = NoHouseRun]
    /\ UNCHANGED <<date, onList, known, houseMark, senateMark, search, leftOut>>

-----------------------------------------------------------------------------
(* ingest-senate-ptrs: the search.                                         *)

BeginSearch(r, from, last, byHand) ==
    /\ search[r].step = "idle"
    /\ search' = [search EXCEPT ![r] =
            [NoSearch EXCEPT !.step = "searching", !.from = from, !.last = last, !.today = date,
                             !.moves = last >= date, !.byHand = byHand, !.before = senateMark]]
    /\ UNCHANGED <<date, onList, known, houseMark, senateMark, houseRun, leftOut>>
CatchUpFrom(r) ==
    senateMark # 0 /\ BeginSearch(r, Max({1, senateMark - LookbackDays}), date, FALSE)
SearchByHand(r) == \E from \in 1 .. date : \E last \in from .. date : BeginSearch(r, from, last, TRUE)

\* A search counts what eFD said at its first page, and ends by what it says at
\* its last, or fails if that never comes.
Counts_Last(q, total) == total
Counts(q, total) == IF q.counted = -1 THEN total ELSE q.counted
ReadSearchPage(r) ==
    LET q == search[r]
        list == Listing(q)
        total == Cardinality(list)
        start == Max({q.start, Min({total, q.start + SearchPage})})
        read == {p \in list : Rank(p, list) \in q.start + 1 .. start}
        over == start >= total      \* a page with no rows, too
    IN
    /\ q.step = "searching"
    /\ over \/ q.pages + 1 <= Counts(q, total) \div SearchPage + 2
    /\ search' = [search EXCEPT ![r] =
            [q EXCEPT !.step = IF over THEN "listed" ELSE "searching", !.counted = Counts(q, total),
                      !.rows = q.rows \cup read, !.start = start, !.pages = q.pages + 1]]
    /\ UNCHANGED <<date, onList, known, houseMark, senateMark, houseRun, leftOut>>

StoreSearched(r) ==
    /\ search[r].step = "listed"
    /\ known' = known \cup search[r].rows
    /\ search' = [search EXCEPT ![r].step = "stored"]
    /\ UNCHANGED <<date, onList, houseMark, senateMark, houseRun, leftOut>>

Short(q) == q.counted > Cardinality(q.rows)
MovesSenate(q) == q.moves /\ ~Short(q) /\ Newest(q.today, q.rows) > q.before
EndSearch(r) ==
    LET q == search[r] IN
    /\ q.step = "stored"
    /\ senateMark' = IF MovesSenate(q) THEN Newest(q.today, q.rows) ELSE senateMark
    /\ leftOut' =
        leftOut \cup {p \in SenatePtrs :
            /\ MovesSenate(q)
            /\ \/ q.gained /\ p \in q.passed
               \/ q.byHand /\ (q.before = 0 \/ q.from > q.before - LookbackDays) /\ DateOf[p] < q.from}
    /\ search' = [search EXCEPT ![r] = NoSearch]
    /\ UNCHANGED <<date, onList, known, houseMark, houseRun>>

\* eFD's session or layout, the fetcher, or the process.
FailSearch(r) ==
    /\ search[r].step # "idle"
    /\ search' = [search EXCEPT ![r] = NoSearch]
    /\ UNCHANGED <<date, onList, known, houseMark, senateMark, houseRun, leftOut>>

ListingsNext ==
    \/ NextDate \/ \E p \in Ptrs : List(p) \/ Withdraw(p)
    \/ \E r \in HouseRuns :
        CatchUpYears(r) \/ HouseByHand(r) \/ ReadYear(r) \/ FailYear(r) \/ EndHouse(r) \/ KillHouse(r)
    \/ \E r \in SenateRuns :
        \/ CatchUpFrom(r) \/ SearchByHand(r) \/ ReadSearchPage(r)
        \/ StoreSearched(r) \/ EndSearch(r) \/ FailSearch(r)

ListingsSpec == ListingsInit /\ [][ListingsNext]_listingVars

-----------------------------------------------------------------------------
(* Properties.                                                             *)

\* Whatever year fails, and though eFD's list shifts under a search, a report is
\* one already known of or the next catch-up reads where it is listed: no watermark
\* has left it behind.  But for those in leftOut: a report listed later than a
\* catch-up looks back, one of before where a run by hand moved the mark, and one
\* that a withdrawal shifted past the page of a search whose count a report listed
\* meanwhile made up.
NoneOverlooked ==
    \A p \in onList \ (known \cup leftOut) :
        /\ p \in HousePtrs /\ houseMark # 0 => IndexYear[p] >= YearOf(houseMark) - LookbackYears
        /\ p \notin HousePtrs /\ senateMark # 0 => DateOf[p] >= senateMark - LookbackDays
=============================================================================
