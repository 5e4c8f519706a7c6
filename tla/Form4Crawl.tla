------------------------------ MODULE Form4Crawl ------------------------------
(***************************************************************************)
(* The Form 4 crawl: EDGAR's daily index read a day at a time into the     *)
(* queue, and the watermark, which every day up to must have been read:    *)
(* the daily run catches up from it, runs by hand read any days, each may  *)
(* fail at any day or be killed, and two overlap once the job's lock is    *)
(* lost.  EDGAR publishes in order, at most one index during a run.        *)
(***************************************************************************)
EXTENDS Integers

CONSTANTS
    LastDay,
    Weekend, Holidays,  \* days that never have an index
    QuarterStart,       \* the first day of the second of two quarters
    Crawlers,           \* runs of crawl-form4
    HandRanges,          \* the ranges of days somebody may give one
    CrawlMishaps        \* "fails", "killed", "lock lost"

Days == 1 .. LastDay

ASSUME CrawlAssumption ==
    /\ LastDay \in Nat /\ QuarterStart \in Days
    /\ HandRanges \subseteq Days \X Days
    /\ Weekend \subseteq Days /\ Holidays \subseteq Days \ Weekend

VARIABLES
    today,      \* the day it is in New York
    published,  \* the days EDGAR has an index of
    queuedFor,  \* the days whose Form 4s are in pending_filing, or loaded
    watermark,  \* crawl_watermark: its last_date
    crawl       \* each run

crawlVars == <<today, published, queuedFor, watermark, crawl>>

Unasked == {0}      \* a quarter whose listing the run has not fetched
Quarters == {1, 2}
QuarterOf(day) == IF day < QuarterStart THEN 1 ELSE 2
NotRunning == [step |-> "none", next |-> 1, last |-> 0, mark |-> 0, today |-> 1,
               listing |-> [q \in Quarters |-> Unasked], news |-> FALSE]

Listings == [Quarters -> (SUBSET Days) \cup {Unasked}]
CrawlRecords ==
    [step : {"none", "chosen", "walking", "read"}, next : 1 .. LastDay + 1,
     last : 0 .. LastDay, mark : 0 .. LastDay, today : Days, listing : Listings, news : BOOLEAN]

CrawlTypeOK ==
    /\ today \in Days /\ published \subseteq Days /\ queuedFor \subseteq Days
    /\ watermark \in 0 .. LastDay
    /\ crawl \in [Crawlers -> CrawlRecords]

\* The first run set the watermark, to the day before these.
CrawlInit ==
    /\ today = 1 /\ published = {} /\ queuedFor = {} /\ watermark = 0
    /\ crawl = [r \in Crawlers |-> NotRunning]

-----------------------------------------------------------------------------
(* EDGAR and the clock.                                                    *)

Business == Days \ (Weekend \cup Holidays)

PublishIndex(day) ==
    /\ day \in Business \ published /\ day <= today
    /\ \A earlier \in Business : earlier < day => earlier \in published
    /\ \A r \in Crawlers : ~crawl[r].news
    /\ published' = published \cup {day}
    /\ crawl' = [r \in Crawlers |->
                    IF crawl[r].step = "none" THEN crawl[r] ELSE [crawl[r] EXCEPT !.news = TRUE]]
    /\ UNCHANGED <<today, queuedFor, watermark>>

Midnight ==
    /\ today < LastDay /\ today' = today + 1
    /\ UNCHANGED <<published, queuedFor, watermark, crawl>>

-----------------------------------------------------------------------------
(* A run.                                                                  *)

\* The job's lock: one run at a time, until it is lost.
MayRun == "lock lost" \in CrawlMishaps \/ \A r \in Crawlers : crawl[r].step = "none"

Start(r, first, last) ==
    /\ crawl[r].step = "none" /\ MayRun /\ first <= last
    /\ crawl' = [crawl EXCEPT ![r] = [NotRunning EXCEPT !.step = "chosen", !.next = first,
                                                        !.last = last, !.today = today]]
    /\ UNCHANGED <<today, published, queuedFor, watermark>>

\* catch_up_days; and --date, --from and --to.
StartDaily(r) == Start(r, watermark + 1, today)
StartByHand(r, first, last) == last <= today /\ Start(r, first, last)

\* crawl_form4 reads the watermark again, and does not after.
ReadMark(r) ==
    /\ crawl[r].step = "chosen"
    /\ crawl' = [crawl EXCEPT ![r].step = "walking", ![r].mark = watermark]
    /\ UNCHANGED <<today, published, queuedFor, watermark>>

\* IndexCalendar: a quarter's listing is fetched once.
Fetched(listing, q) ==
    IF listing[q] = Unasked
    THEN [listing EXCEPT ![q] = {d \in published : QuarterOf(d) = q}] ELSE listing
\* latest_published: in today's quarter, or the one before when it has none yet.
FetchedLatest(listing, q) ==
    LET its == Fetched(listing, q)
    IN  IF its[q] = {} /\ q > 1 THEN Fetched(its, q - 1) ELSE its
IsBehind(listing, day) == \E q \in Quarters : listing[q] # Unasked /\ \E d \in listing[q] : day < d

Stop(r) == crawl' = [crawl EXCEPT ![r] = NotRunning]

\* _crawl_day.  A day not published yet stops the walk.
ReadDay(r) ==
    LET q == crawl[r]
        its == Fetched(q.listing, QuarterOf(q.next))
        known == q.next \in its[QuarterOf(q.next)] \/ q.next \in Weekend
        all == IF known THEN its ELSE FetchedLatest(its, QuarterOf(q.today))
    IN
    /\ q.step = "walking" /\ q.next <= q.last
    /\ IF known \/ IsBehind(all, q.next)
       THEN crawl' = [crawl EXCEPT ![r].step = "read", ![r].listing = all]
       ELSE Stop(r)
    /\ UNCHANGED <<today, published, queuedFor, watermark>>

\* The day's commit: its Form 4s queued, and the watermark if it follows.
Follows_Later(mark, day) == day > mark
Follows(mark, day) == day = mark + 1
CommitDay(r) ==
    LET q == crawl[r] IN
    /\ q.step = "read"
    /\ queuedFor' = queuedFor \cup (q.listing[QuarterOf(q.next)] \cap {q.next})
    /\ IF Follows(q.mark, q.next)
       THEN /\ watermark' = q.next
            /\ crawl' = [crawl EXCEPT ![r].step = "walking", ![r].next = @ + 1, ![r].mark = q.next]
       ELSE /\ UNCHANGED watermark
            /\ crawl' = [crawl EXCEPT ![r].step = "walking", ![r].next = @ + 1]
    /\ UNCHANGED <<today, published>>

EndCrawl(r) ==
    /\ crawl[r].step = "walking" /\ crawl[r].next > crawl[r].last
    /\ Stop(r)
    /\ UNCHANGED <<today, published, queuedFor, watermark>>

\* EDGAR fails a listing or an index: the walk stops.
FailDay(r) ==
    /\ "fails" \in CrawlMishaps /\ crawl[r].step = "walking" /\ crawl[r].next <= crawl[r].last
    /\ Stop(r)
    /\ UNCHANGED <<today, published, queuedFor, watermark>>

\* Killed between any two steps, before the day's commit or after.
KillCrawl(r) ==
    /\ "killed" \in CrawlMishaps /\ crawl[r].step # "none"
    /\ Stop(r)
    /\ UNCHANGED <<today, published, queuedFor, watermark>>

CrawlNext ==
    \/ \E day \in Days : PublishIndex(day)
    \/ Midnight
    \/ \E r \in Crawlers :
        \/ StartDaily(r) \/ \E range \in HandRanges : StartByHand(r, range[1], range[2])
        \/ ReadMark(r) \/ ReadDay(r) \/ CommitDay(r) \/ EndCrawl(r) \/ FailDay(r) \/ KillCrawl(r)

CrawlSpec == CrawlInit /\ [][CrawlNext]_crawlVars

-----------------------------------------------------------------------------
(* Properties.                                                             *)

\* The watermark never passes a day whose Form 4s are not queued, be it one EDGAR
\* publishes only later: not where runs read days out of order, stop, are killed
\* or overlap, nor where a listing fetched before a day was published is asked
\* of it after.  So catching up from it misses no filing.
NothingSteppedOver == Business \cap (1 .. watermark) \subseteq queuedFor
=============================================================================
