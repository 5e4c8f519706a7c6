---------------------------- MODULE ResponseCache ----------------------------
(***************************************************************************)
(* Answers kept in Redis while jobs publish what they are built from: a    *)
(* page of one screen and, under a key of its own that its pages share,    *)
(* the count it shows.  A request reads the page; if there is none it      *)
(* builds one, from the count it reads or builds, and writes what it has   *)
(* built.  A job commits, and then deletes every key it finds.             *)
(***************************************************************************)
EXTENDS Integers, FiniteSetsExt

CONSTANTS
    Readers,        \* requests for the page in progress at once
    PageFor,        \* how long a page is kept
    CountFor,       \* and a count: TTL[period_lifetime(period)], both
    BuildTime,      \* bounds how long a request takes
    CacheMishaps,   \* "unreachable": Redis, by a request or a job
    LastVersion,    \* bounds how often jobs publish
    LastTick        \* bounds the clock

ASSUME CacheAssumption ==
    /\ PageFor \in Nat \ {0} /\ CountFor \in Nat \ {0}
    /\ BuildTime \in Nat /\ LastVersion \in Nat /\ LastTick \in Nat

VARIABLES
    tick,
    version,        \* of what answers are built from: how often it was published
    cachedPage,     \* ww:v1:screener.*
    cachedCount,    \* ww:v1:screener.matches
    reader,         \* requests
    publisher,      \* the job: where it is, and the keys its SCAN has found
    replaced,       \* history: when each version was replaced
    cleared         \* history: the version the last completed invalidation was after

cacheVars == <<tick, version, cachedPage, cachedCount, reader, publisher, replaced, cleared>>

Ticks == 0 .. LastTick
Versions == 0 .. LastVersion
Kinds == {"page", "count"}

\* A value in Redis: the oldest version it shows, when it expires, and whether
\* the request that wrote it had begun before an invalidation was over.
Entries == [version : Versions, until : 0 .. LastTick + PageFor + CountFor, late : BOOLEAN]
Unkept == [version |-> 0, until |-> 0, late |-> FALSE]
NoReader == [step |-> "idle", since |-> 0, reachable |-> TRUE, version |-> 0, late |-> FALSE]

CacheTypeOK ==
    /\ tick \in Ticks /\ version \in Versions /\ cleared \in Versions
    /\ cachedPage \in Entries /\ cachedCount \in Entries
    /\ reader \in [Readers -> [step : {"idle", "missed", "counting", "counted", "built"},
                               since : Ticks, reachable : BOOLEAN,
                               version : Versions, late : BOOLEAN]]
    /\ publisher \in [step : {"idle", "committed", "scanned"}, found : SUBSET Kinds]
    /\ replaced \in [Versions -> Ticks]

CacheInit ==
    /\ tick = 0 /\ version = 0 /\ cleared = 0
    /\ cachedPage = Unkept /\ cachedCount = Unkept
    /\ reader = [r \in Readers |-> NoReader]
    /\ publisher = [step |-> "idle", found |-> {}]
    /\ replaced = [v \in Versions |-> 0]

Live_Ever(entry) == entry.until > 0
Live(entry) == entry.until > tick

NextTick ==
    /\ tick < LastTick
    /\ \A r \in Readers : reader[r].step # "idle" => tick - reader[r].since < BuildTime
    /\ tick' = tick + 1
    /\ UNCHANGED <<version, cachedPage, cachedCount, reader, publisher, replaced, cleared>>

-----------------------------------------------------------------------------
(* cached, over remember.                                                  *)

Going(r, step) == [reader EXCEPT ![r].step = step]
ReaderLeaves == UNCHANGED <<tick, version, publisher, replaced, cleared>>
Written(r, seconds) ==
    [version |-> reader[r].version, until |-> tick + seconds, late |-> reader[r].late]

\* _read: a hit is answered as it is.  A read that failed builds, and does not
\* write.
ReadPage(r, reachable) ==
    /\ reader[r].step = "idle"
    /\ IF reachable THEN ~Live(cachedPage) ELSE "unreachable" \in CacheMishaps
    /\ reader' = [reader EXCEPT ![r] = [NoReader EXCEPT !.step = "missed", !.since = tick,
                                                        !.reachable = reachable,
                                                        !.late = publisher.step = "scanned"]]
    /\ ReaderLeaves /\ UNCHANGED <<cachedPage, cachedCount>>

\* remember: the count kept, or one built now.
ReadCount(r) ==
    /\ reader[r].step = "missed"
    /\ reader' = IF reader[r].reachable /\ Live(cachedCount)
                 THEN [Going(r, "counted") EXCEPT ![r].version = cachedCount.version,
                                                  ![r].late = @ \/ cachedCount.late]
                 ELSE [Going(r, "counting") EXCEPT ![r].version = version]
    /\ ReaderLeaves /\ UNCHANGED <<cachedPage, cachedCount>>

WriteCount(r, written) ==
    /\ reader[r].step = "counting"
    /\ IF written THEN reader[r].reachable ELSE "unreachable" \in CacheMishaps
    /\ cachedCount' = IF written THEN Written(r, CountFor) ELSE cachedCount
    /\ reader' = Going(r, "counted")
    /\ ReaderLeaves /\ UNCHANGED cachedPage

\* The page's rows are read, no earlier than its count was.
BuildPage(r) ==
    /\ reader[r].step = "counted"
    /\ reader' = Going(r, "built")
    /\ ReaderLeaves /\ UNCHANGED <<cachedPage, cachedCount>>

WritePage(r, written) ==
    /\ reader[r].step = "built"
    /\ IF written THEN reader[r].reachable ELSE "unreachable" \in CacheMishaps
    /\ cachedPage' = IF written THEN Written(r, PageFor) ELSE cachedPage
    /\ reader' = [reader EXCEPT ![r] = NoReader]
    /\ ReaderLeaves /\ UNCHANGED cachedCount

-----------------------------------------------------------------------------
(* A job that changes what is served, and invalidate_cache after it.       *)

PublisherLeaves == UNCHANGED <<tick, cachedPage, cachedCount, reader>>

Publish ==
    /\ publisher.step = "idle" /\ version < LastVersion
    /\ publisher' = [step |-> "committed", found |-> {}]
    /\ version' = version + 1 /\ replaced' = [replaced EXCEPT ![version] = tick]
    /\ PublisherLeaves /\ UNCHANGED cleared

Overtaken == [r \in Readers |->
                IF reader[r].step = "idle" THEN reader[r] ELSE [reader[r] EXCEPT !.late = TRUE]]

\* SCAN finds the keys that are there from its start to its end, and UNLINK
\* deletes them, whoever wrote them again meanwhile.
KeysFound == {kind \in Kinds : Live(IF kind = "page" THEN cachedPage ELSE cachedCount)}
ScanKeys ==
    /\ publisher.step = "committed"
    /\ publisher' = [step |-> "scanned", found |-> KeysFound]
    /\ reader' = Overtaken
    /\ UNCHANGED <<tick, version, cachedPage, cachedCount, replaced, cleared>>
UnlinkKeys ==
    /\ publisher.step = "scanned"
    /\ cachedPage' = IF "page" \in publisher.found THEN Unkept ELSE cachedPage
    /\ cachedCount' = IF "count" \in publisher.found THEN Unkept ELSE cachedCount
    /\ publisher' = [step |-> "idle", found |-> {}]
    /\ reader' = Overtaken /\ cleared' = version
    /\ UNCHANGED <<tick, version, replaced>>

\* Logged, and what is cached served until it expires.
InvalidateFails ==
    /\ "unreachable" \in CacheMishaps /\ publisher.step # "idle"
    /\ publisher' = [step |-> "idle", found |-> {}]
    /\ PublisherLeaves /\ UNCHANGED <<version, replaced, cleared>>

CacheNext ==
    \/ NextTick
    \/ \E r \in Readers :
        \/ ReadCount(r) \/ BuildPage(r)
        \/ \E done \in BOOLEAN : ReadPage(r, done) \/ WriteCount(r, done) \/ WritePage(r, done)
    \/ Publish \/ ScanKeys \/ UnlinkKeys \/ InvalidateFails

CacheSpec == CacheInit /\ [][CacheNext]_cacheVars

-----------------------------------------------------------------------------
(* Properties.                                                             *)

Cached == {entry \in {cachedPage, cachedCount} : Live(entry)}

\* Whatever overlaps it, and though an invalidation is lost, nothing is served
\* that stopped being so longer ago than a page, the count in it and the
\* requests that wrote them can take; and once a job has invalidated the cache,
\* what is still served of before it was written, or its count was, by a request
\* under way meanwhile.
ServedIsRecent ==
    \A entry \in Cached :
        entry.version < version =>
            /\ tick - replaced[entry.version] < PageFor + CountFor + 2 * BuildTime
            /\ entry.version < cleared => entry.late
=============================================================================
