--------------------------- MODULE PublishedProofs ---------------------------
(***************************************************************************)
(* Proofs about Form4Crawl, for any number of overlapping runs over any    *)
(* days, holidays and ranges given by hand; about PtrLines, for any number *)
(* of lines and of overlapping passes, readings and reviews; about         *)
(* InsiderLines, for any number of filings, their owners and their days;   *)
(* and about PtrListings, for any number of reports and overlapping runs.  *)
(***************************************************************************)
EXTENDS Form4Crawl, PtrLines, PtrListings, InsiderLines,
        FiniteSetTheorems, WellFoundedInduction, NaturalsInduction, TLAPS

-----------------------------------------------------------------------------
(* Form4Crawl.                                                             *)

\* EDGAR publishes in order.
InOrder ==
    /\ published \subseteq Business
    /\ \A d \in published : \A e \in Business : e < d => e \in published

\* What a run's listings lack is what was published since it began: the newest.
Recent(listing, news, days) ==
    \A q \in Quarters : listing[q] # Unasked =>
        /\ listing[q] \subseteq days
        /\ \A d \in days : QuarterOf(d) = q /\ d \notin listing[q] =>
                news /\ \A e \in days : e <= d

\* A day a run has read has its Form 4s in the run's listing, or none at all.
WasRead(q) ==
    /\ q.next <= q.last
    /\ q.next \in Business => q.next \in q.listing[QuarterOf(q.next)]

\* Every day up to a run's own mark is queued, as up to the watermark.
QueuedTo(day, queued) == Business \cap (1 .. day) \subseteq queued

CrawlRunHolds(q, days, queued) ==
    /\ q.step # "none" => Recent(q.listing, q.news, days)
    /\ q.step \in {"walking", "read"} => QueuedTo(q.mark, queued)
    /\ q.step = "read" => WasRead(q)

CrawlInv ==
    /\ CrawlTypeOK /\ InOrder /\ QueuedTo(watermark, queuedFor)
    /\ \A r \in Crawlers : CrawlRunHolds(crawl[r], published, queuedFor)

LEMMA NotRunningHolds ==
    NotRunning \in CrawlRecords /\ \A days, queued : CrawlRunHolds(NotRunning, days, queued)
<1>1. 1 \in Days /\ 1 \in 1 .. LastDay + 1 /\ 0 \in 0 .. LastDay
  BY CrawlAssumption DEF CrawlAssumption, Days
<1>2. [q \in Quarters |-> Unasked] \in Listings
  BY DEF Listings
<1> HIDE DEF Listings
<1> QED  BY <1>1, <1>2 DEF NotRunning, CrawlRecords, CrawlRunHolds

LEMMA ARunsDay ==
    ASSUME NEW q \in CrawlRecords, q.next <= q.last
    PROVE  q.next \in Days
<1>1. q.next \in 1 .. LastDay + 1 /\ q.last \in 0 .. LastDay
  BY DEF CrawlRecords
<1> QED  BY <1>1, CrawlAssumption DEF CrawlAssumption, Days

-----------------------------------------------------------------------------
(* The calendar.                                                           *)

LEMMA FetchedIsRecent ==
    ASSUME NEW listing \in Listings, NEW news \in BOOLEAN, NEW q \in Quarters,
           published \subseteq Days, Recent(listing, news, published)
    PROVE  /\ Fetched(listing, q) \in Listings
           /\ Recent(Fetched(listing, q), news, published)
           /\ Fetched(listing, q)[q] # Unasked
           /\ \A p \in Quarters : listing[p] # Unasked => Fetched(listing, q)[p] = listing[p]
<1> DEFINE its == {d \in published : QuarterOf(d) = q}
<1>1. its \subseteq Days /\ its # Unasked
  <2>1. 0 \notin its
    BY DEF Days
  <2>2. 0 \in Unasked
    BY DEF Unasked
  <2> QED  BY <2>1, <2>2
<1>2. CASE listing[q] = Unasked
  <2>1. Fetched(listing, q) = [listing EXCEPT ![q] = its]
    BY <1>2 DEF Fetched
  <2> QED  BY <1>1, <1>2, <2>1 DEF Listings, Recent
<1>3. CASE listing[q] # Unasked
  BY <1>3 DEF Fetched
<1> QED  BY <1>2, <1>3

LEMMA LatestIsRecent ==
    ASSUME NEW listing \in Listings, NEW news \in BOOLEAN, NEW q \in Quarters,
           published \subseteq Days, Recent(listing, news, published)
    PROVE  /\ FetchedLatest(listing, q) \in Listings
           /\ Recent(FetchedLatest(listing, q), news, published)
           /\ \A p \in Quarters : listing[p] # Unasked => FetchedLatest(listing, q)[p] = listing[p]
<1> DEFINE its == Fetched(listing, q)
<1>1. /\ its \in Listings /\ Recent(its, news, published)
      /\ \A p \in Quarters : listing[p] # Unasked => its[p] = listing[p]
  BY FetchedIsRecent
<1>2. CASE its[q] = {} /\ q > 1
  <2>1. q - 1 \in Quarters
    BY <1>2 DEF Quarters
  <2>2. FetchedLatest(listing, q) = Fetched(its, q - 1)
    BY <1>2 DEF FetchedLatest
  <2> HIDE DEF its
  <2> QED  BY <1>1, <2>1, <2>2, FetchedIsRecent
<1>3. CASE ~(its[q] = {} /\ q > 1)
  BY <1>1, <1>3 DEF FetchedLatest
<1> QED  BY <1>2, <1>3

\* A day without an index is never one that will have it, once a later one has.
LEMMA NoIndexForGood ==
    ASSUME NEW listing \in Listings, NEW news \in BOOLEAN, NEW day \in Days,
           InOrder, Recent(listing, news, published), published \subseteq Days,
           listing[QuarterOf(day)] # Unasked, day \notin listing[QuarterOf(day)],
           IsBehind(listing, day)
    PROVE  day \notin Business
<1>1. QuarterOf(day) \in Quarters
  BY DEF QuarterOf, Quarters
<1>2. PICK q \in Quarters : listing[q] # Unasked /\ \E d \in listing[q] : day < d
  BY DEF IsBehind
<1>3. PICK d \in listing[q] : day < d
  BY <1>2
<1>4. d \in published
  BY <1>2 DEF Recent
<1>5. SUFFICES ASSUME day \in Business PROVE FALSE
  OBVIOUS
<1>6. day \in published
  BY <1>3, <1>4, <1>5 DEF InOrder
<1>7. d <= day
  BY <1>1, <1>4, <1>6 DEF Recent
<1> QED  BY <1>3, <1>4, <1>7 DEF Days

-----------------------------------------------------------------------------
(* The steps.                                                              *)

LEMMA CrawlInitHolds == CrawlInit => CrawlInv
<1> SUFFICES ASSUME CrawlInit PROVE CrawlInv
  OBVIOUS
<1>1. CrawlTypeOK
  BY NotRunningHolds, CrawlAssumption
  DEF CrawlInit, CrawlTypeOK, CrawlRecords, Listings, Days
<1>2. InOrder /\ QueuedTo(watermark, queuedFor)
  BY CrawlAssumption DEF CrawlInit, InOrder, QueuedTo
<1> QED  BY <1>1, <1>2, NotRunningHolds DEF CrawlInv, CrawlInit

\* A step of one run that commits nothing.
LEMMA CrawlOneRunMoves ==
    ASSUME CrawlInv, NEW r \in Crawlers, NEW record \in CrawlRecords,
           CrawlRunHolds(record, published, queuedFor),
           crawl' = [crawl EXCEPT ![r] = record],
           UNCHANGED <<today, published, queuedFor, watermark>>
    PROVE  CrawlInv'
<1>1. CrawlTypeOK'
  BY DEF CrawlInv, CrawlTypeOK
<1>2. InOrder' /\ QueuedTo(watermark', queuedFor')
  BY DEF CrawlInv, InOrder, QueuedTo
<1>3. ASSUME NEW s \in Crawlers PROVE CrawlRunHolds(crawl'[s], published', queuedFor')
  <2>1. crawl'[s] = IF s = r THEN record ELSE crawl[s]
    BY DEF CrawlInv, CrawlTypeOK
  <2> QED  BY <2>1 DEF CrawlInv, CrawlRunHolds, Recent, QueuedTo, WasRead
<1> QED  BY <1>1, <1>2, <1>3 DEF CrawlInv

LEMMA PublishHolds ==
    ASSUME CrawlInv, NEW day \in Days, PublishIndex(day)
    PROVE  CrawlInv'
<1>1. CrawlTypeOK'
  <2>1. ASSUME NEW r \in Crawlers PROVE crawl'[r] \in CrawlRecords
    <3>1. crawl[r] \in CrawlRecords
      BY DEF CrawlInv, CrawlTypeOK
    <3>2. [crawl[r] EXCEPT !.news = TRUE] \in CrawlRecords
      BY <3>1 DEF CrawlRecords
    <3> QED  BY <3>1, <3>2 DEF PublishIndex
  <2>2. crawl' \in [Crawlers -> CrawlRecords]
    BY <2>1 DEF PublishIndex
  <2> QED  BY <2>2 DEF CrawlInv, CrawlTypeOK, PublishIndex
<1>2. InOrder' /\ QueuedTo(watermark', queuedFor')
  BY DEF CrawlInv, InOrder, QueuedTo, PublishIndex, Business
<1>3. ASSUME NEW r \in Crawlers PROVE CrawlRunHolds(crawl'[r], published', queuedFor')
  <2> DEFINE q == crawl[r]
  <2>1. crawl'[r] = IF q.step = "none" THEN q ELSE [q EXCEPT !.news = TRUE]
    BY DEF PublishIndex
  <2>2. q \in CrawlRecords /\ crawl'[r] \in CrawlRecords
    BY <1>1 DEF CrawlInv, CrawlTypeOK
  <2>3. /\ crawl'[r].step = q.step /\ crawl'[r].listing = q.listing /\ crawl'[r].mark = q.mark
        /\ crawl'[r].next = q.next /\ crawl'[r].last = q.last
        /\ q.step # "none" => crawl'[r].news
    BY <2>1, <2>2 DEF CrawlRecords
  <2>4. ~q.news /\ CrawlRunHolds(q, published, queuedFor)
    BY DEF PublishIndex, CrawlInv
  <2>5. \A e \in published : e <= day
    BY DEF PublishIndex, CrawlInv, InOrder, Business, Days
  <2>6. ASSUME q.step # "none" PROVE Recent(q.listing, TRUE, published')
    BY <2>4, <2>5, <2>6 DEF CrawlRunHolds, Recent, PublishIndex, Days
  <2>7. q.step # "none" => Recent(crawl'[r].listing, crawl'[r].news, published')
    BY <2>3, <2>6 DEF Recent
  <2> QED  BY <2>3, <2>4, <2>7 DEF CrawlRunHolds, QueuedTo, WasRead, PublishIndex
<1> QED  BY <1>1, <1>2, <1>3 DEF CrawlInv

LEMMA StartHolds ==
    ASSUME CrawlInv, NEW r \in Crawlers, NEW first \in 1 .. LastDay + 1, NEW last \in 0 .. LastDay,
           Start(r, first, last)
    PROVE  CrawlInv'
<1> DEFINE record == [NotRunning EXCEPT !.step = "chosen", !.next = first, !.last = last,
                                        !.today = today]
<1>1. record \in CrawlRecords
  BY NotRunningHolds DEF CrawlRecords, CrawlInv, CrawlTypeOK
<1>2. CrawlRunHolds(record, published, queuedFor)
  BY DEF NotRunning, CrawlRunHolds, Recent, CrawlInv, CrawlTypeOK
<1> HIDE DEF record
<1> QED  BY <1>1, <1>2, CrawlOneRunMoves DEF Start, record

LEMMA ReadDayHolds ==
    ASSUME CrawlInv, NEW r \in Crawlers, ReadDay(r)
    PROVE  CrawlInv'
<1> DEFINE q == crawl[r]
           its == Fetched(q.listing, QuarterOf(q.next))
           listed == q.next \in its[QuarterOf(q.next)] \/ q.next \in Weekend
           all == IF listed THEN its ELSE FetchedLatest(its, QuarterOf(q.today))
           record == [q EXCEPT !.step = "read", !.listing = all]
<1>1. q \in CrawlRecords /\ q.next \in Days /\ q.step = "walking" /\ q.next <= q.last
  <2>1. q \in CrawlRecords
    BY DEF CrawlInv, CrawlTypeOK
  <2>2. q.step = "walking" /\ q.next <= q.last
    BY DEF ReadDay
  <2> QED  BY <2>1, <2>2, ARunsDay
<1>2. q.listing \in Listings /\ q.news \in BOOLEAN /\ published \subseteq Days
      /\ QuarterOf(q.next) \in Quarters /\ QuarterOf(q.today) \in Quarters
  BY <1>1 DEF CrawlRecords, CrawlInv, CrawlTypeOK, QuarterOf, Quarters
<1>3. Recent(q.listing, q.news, published) /\ QueuedTo(q.mark, queuedFor) /\ InOrder
  BY <1>1 DEF CrawlInv, CrawlRunHolds
<1>4. its \in Listings /\ Recent(its, q.news, published) /\ its[QuarterOf(q.next)] # Unasked
  BY <1>2, <1>3, FetchedIsRecent
<1>5. /\ all \in Listings /\ Recent(all, q.news, published)
      /\ all[QuarterOf(q.next)] = its[QuarterOf(q.next)]
  BY <1>2, <1>4, LatestIsRecent
<1>6. CASE ~(listed \/ IsBehind(all, q.next))
  BY <1>6, NotRunningHolds, CrawlOneRunMoves DEF ReadDay, Stop
<1>7. CASE listed \/ IsBehind(all, q.next)
  <2>1. q.next \in Business => q.next \in all[QuarterOf(q.next)]
    BY <1>1, <1>2, <1>3, <1>4, <1>5, <1>7, NoIndexForGood DEF Business
  <2> HIDE DEF its, listed, all
  <2>2. record \in CrawlRecords /\ record.step = "read" /\ record.listing = all
        /\ record.news = q.news /\ record.mark = q.mark /\ record.next = q.next
        /\ record.last = q.last
    BY <1>1, <1>5 DEF CrawlRecords
  <2> HIDE DEF record, q
  <2>3. CrawlRunHolds(record, published, queuedFor)
    BY <1>1, <1>3, <1>5, <2>1, <2>2 DEF CrawlRunHolds, WasRead
  <2>4. crawl' = [crawl EXCEPT ![r] = record]
    BY <1>7 DEF ReadDay, record, q, all, listed, its
  <2> QED  BY <2>2, <2>3, <2>4, CrawlOneRunMoves DEF ReadDay
<1> QED  BY <1>6, <1>7

LEMMA CommitDayHolds ==
    ASSUME CrawlInv, NEW r \in Crawlers, CommitDay(r)
    PROVE  CrawlInv'
<1> DEFINE q == crawl[r]
<1>1. /\ q \in CrawlRecords /\ q.step = "read" /\ CrawlRunHolds(q, published, queuedFor)
      /\ WasRead(q) /\ QueuedTo(q.mark, queuedFor)
  BY DEF CommitDay, CrawlInv, CrawlTypeOK, CrawlRunHolds
<1>2. q.next \in Days
  BY <1>1, ARunsDay DEF WasRead
<1>3. crawl' \in [Crawlers -> CrawlRecords] /\ crawl'[r].step = "walking"
      /\ crawl'[r].listing = q.listing /\ crawl'[r].news = q.news
      /\ crawl'[r].mark = IF Follows(q.mark, q.next) THEN q.next ELSE q.mark
  BY <1>1, <1>2 DEF CommitDay, CrawlInv, CrawlTypeOK, CrawlRecords, Days
<1>4. CrawlTypeOK'
  BY <1>2, <1>3 DEF CommitDay, CrawlInv, CrawlTypeOK, CrawlRecords, Days
<1>5. queuedFor \subseteq queuedFor' /\ (q.next \in Business => q.next \in queuedFor')
  BY <1>1 DEF CommitDay, WasRead
<1>6. \A day \in 0 .. LastDay : QueuedTo(day, queuedFor) => QueuedTo(day, queuedFor')
  BY <1>5 DEF QueuedTo
<1>7. ASSUME Follows(q.mark, q.next) PROVE QueuedTo(q.next, queuedFor')
  BY <1>1, <1>2, <1>5, <1>7 DEF QueuedTo, Follows, Business, CrawlRecords, Days
<1>8. InOrder'
  BY DEF CrawlInv, InOrder, CommitDay
<1>9. QueuedTo(watermark', queuedFor')
  <2>1. CASE Follows(q.mark, q.next)
    BY <1>7, <2>1 DEF CommitDay, QueuedTo
  <2>2. CASE ~Follows(q.mark, q.next)
    BY <1>5, <2>2 DEF CrawlInv, CommitDay, QueuedTo
  <2> QED  BY <2>1, <2>2
<1>10. ASSUME NEW s \in Crawlers PROVE CrawlRunHolds(crawl'[s], published', queuedFor')
  <2>1. CASE s = r
    <3>1. QueuedTo(crawl'[r].mark, queuedFor')
      BY <1>1, <1>3, <1>5, <1>7 DEF QueuedTo
    <3>2. Recent(crawl'[r].listing, crawl'[r].news, published')
      BY <1>1, <1>3 DEF CrawlRunHolds, Recent, CommitDay
    <3> QED  BY <1>3, <2>1, <3>1, <3>2 DEF CrawlRunHolds
  <2>2. CASE s # r
    <3>1. crawl'[s] = crawl[s]
      BY <2>2 DEF CommitDay, CrawlInv, CrawlTypeOK
    <3> QED  BY <1>5, <3>1 DEF CrawlInv, CrawlRunHolds, Recent, QueuedTo, WasRead, CommitDay
  <2> QED  BY <2>1, <2>2
<1> QED  BY <1>4, <1>8, <1>9, <1>10 DEF CrawlInv

LEMMA CrawlStepHolds == CrawlInv /\ [CrawlNext]_crawlVars => CrawlInv'
<1> SUFFICES ASSUME CrawlInv, [CrawlNext]_crawlVars PROVE CrawlInv'
  OBVIOUS
<1>1. CASE \E day \in Days : PublishIndex(day)
  BY <1>1, PublishHolds
<1>2. CASE Midnight
  <2>1. CrawlTypeOK'
    BY <1>2, CrawlAssumption DEF CrawlAssumption, Midnight, CrawlInv, CrawlTypeOK, Days
  <2>2. InOrder' /\ QueuedTo(watermark', queuedFor')
    BY <1>2 DEF Midnight, CrawlInv, InOrder, QueuedTo
  <2>3. \A r \in Crawlers : CrawlRunHolds(crawl'[r], published', queuedFor')
    BY <1>2 DEF Midnight, CrawlInv
  <2> QED  BY <2>1, <2>2, <2>3 DEF CrawlInv
<1>3. ASSUME NEW r \in Crawlers, StartDaily(r) PROVE CrawlInv'
  <2>1. watermark \in 0 .. LastDay /\ today \in 1 .. LastDay
    BY DEF CrawlInv, CrawlTypeOK, Days
  <2>2. watermark + 1 \in 1 .. LastDay + 1 /\ today \in 0 .. LastDay
    BY <2>1, CrawlAssumption DEF CrawlAssumption
  <2> QED  BY <1>3, <2>2, StartHolds DEF StartDaily
<1>4. ASSUME NEW r \in Crawlers, NEW range \in HandRanges, StartByHand(r, range[1], range[2])
      PROVE CrawlInv'
  <2>1. range[1] \in Days /\ range[2] \in Days
    BY CrawlAssumption DEF CrawlAssumption
  <2> QED  BY <1>4, <2>1, CrawlAssumption, StartHolds DEF StartByHand, Days, CrawlAssumption
<1>5. ASSUME NEW r \in Crawlers, ReadMark(r) PROVE CrawlInv'
  <2> DEFINE record == [crawl[r] EXCEPT !.step = "walking", !.mark = watermark]
  <2>1. crawl[r] \in CrawlRecords /\ crawl[r].step = "chosen" /\ watermark \in 0 .. LastDay
    BY <1>5 DEF ReadMark, CrawlInv, CrawlTypeOK
  <2>2. record \in CrawlRecords /\ record.step = "walking" /\ record.mark = watermark
        /\ record.listing = crawl[r].listing /\ record.news = crawl[r].news
    BY <2>1 DEF CrawlRecords
  <2>3. CrawlRunHolds(record, published, queuedFor)
    BY <2>1, <2>2 DEF CrawlInv, CrawlRunHolds
  <2>4. crawl' = [crawl EXCEPT ![r] = record]
    BY <1>5 DEF ReadMark, CrawlInv, CrawlTypeOK
  <2> QED  BY <1>5, <2>2, <2>3, <2>4, CrawlOneRunMoves DEF ReadMark
<1>6. ASSUME NEW r \in Crawlers, ReadDay(r) \/ CommitDay(r) PROVE CrawlInv'
  BY <1>6, ReadDayHolds, CommitDayHolds
<1>7. ASSUME NEW r \in Crawlers, EndCrawl(r) \/ FailDay(r) \/ KillCrawl(r) PROVE CrawlInv'
  BY <1>7, NotRunningHolds, CrawlOneRunMoves DEF EndCrawl, FailDay, KillCrawl, Stop
<1>8. CASE UNCHANGED crawlVars
  BY <1>8 DEF crawlVars, CrawlInv, CrawlTypeOK, InOrder
<1> QED  BY <1>1, <1>2, <1>3, <1>4, <1>5, <1>6, <1>7, <1>8 DEF CrawlNext

\* However many crawls overlap, fail or die, the watermark passes no day whose
\* Form 4s are not queued.
THEOREM SteppedOver == CrawlSpec => []NothingSteppedOver
<1>1. CrawlInv => NothingSteppedOver
  BY DEF CrawlInv, QueuedTo, NothingSteppedOver
<1> QED  BY CrawlInitHolds, CrawlStepHolds, <1>1, PTL DEF CrawlSpec

-----------------------------------------------------------------------------
(* PtrLines.                                                               *)

LineRecords ==
    [id : 0 .. LastReading, status : LineStatuses, asset : {None} \cup Assets,
     key : {None} \cup Assets, answer : Resolutions, reviewed : BOOLEAN]
ReadingRecords == [report : {None} \cup Reports, checked : BOOLEAN, raced : BOOLEAN]
ReviewRecords ==
    [report : {None} \cup Reports, asset : {None} \cup Assets,
     overrides : {<<>>} \cup Overrides, overlapped : BOOLEAN]
PassRecords ==
    [step : {"idle", "begun", "read"}, scope : {None, "new", "all"} \cup Assets,
     to : {None} \cup Meanings, overrides : {<<>>} \cup Overrides,
     chosen : {<<>>} \cup [Reports -> Chosen], overlapped : BOOLEAN]

\* A line read from its filing names an asset; one answered, and not mixed, has the
\* answer the overrides give it.
WasLine(l) == IsLine(l) => l.id # 0 /\ l.asset \in Assets
Answered(l) == IsLine(l) /\ l.answer # "none"
AsSaid ==
    \A r \in Reports \ mixed : Answered(line[r]) =>
        line[r].key = line[r].asset /\ line[r].answer = Resolution(line[r].asset, override)

\* A reading that has checked its filing has not seen a review of it but one since.
ReadingKnows ==
    reading.report # None =>
        /\ line[reading.report].id < LastReading
        /\ reading.checked => ~line[reading.report].reviewed \/ reading.raced

\* What nothing committed has overlapped has the overrides there are, with its own.
ReviewKnows ==
    review.report # None =>
        /\ line[review.report].id # 0 /\ review.asset \in Assets
        /\ review.overrides \in Overrides
        /\ ~review.overlapped => review.overrides = override
Saying(q, overrides) ==
    IF q.scope \in Assets THEN [overrides EXCEPT ![q.scope] = q.to] ELSE overrides
PassKnows(q, overrides) ==
    q.step # "idle" =>
        q.overrides \in Overrides /\ (~q.overlapped => q.overrides = Saying(q, overrides))

\* And the lines it has chosen, while they are not read again, name what they did;
\* a change of an override has chosen every answered line that names its asset.
ChoseOf(choice, l) == choice.id = l.id /\ l.id # 0 => choice.asset = l.asset
Chose(q, rows, blended) ==
    q.step = "read" =>
        /\ q.chosen \in [Reports -> Chosen]
        /\ \A r \in Reports :
            /\ q.chosen[r].id <= rows[r].id
            /\ q.chosen[r].id # 0 => q.chosen[r].asset \in Assets
        /\ ~q.overlapped => \A r \in Reports :
            /\ ChoseOf(q.chosen[r], rows[r])
            /\ r \notin blended /\ Answered(rows[r]) /\ rows[r].asset = q.scope =>
                    q.chosen[r].id = rows[r].id

LinesInv ==
    /\ line \in [Reports -> LineRecords] /\ override \in Overrides
    /\ reading \in ReadingRecords /\ review \in ReviewRecords
    /\ pass \in [Passes -> PassRecords] /\ mixed \subseteq Reports /\ lost = {}
    /\ \A r \in Reports : WasLine(line[r])
    /\ AsSaid /\ ReadingKnows /\ ReviewKnows
    /\ \A p \in Passes : PassKnows(pass[p], override) /\ Chose(pass[p], line, mixed)

LEMMA UnreadIs ==
    ASSUME NEW id \in 0 .. LastReading, NEW status \in LineStatuses,
           NEW asset \in {None} \cup Assets
    PROVE  LET l == [Unread EXCEPT !.id = id, !.status = status, !.asset = asset]
           IN  /\ l \in LineRecords /\ l.id = id /\ l.status = status /\ l.asset = asset
               /\ l.answer = "none" /\ ~l.reviewed
<1>1. "none" \in Resolutions /\ None \in {None} \cup Assets
  BY DEF Resolutions
<1> QED  BY <1>1 DEF LineRecords, Unread

LEMMA PtrInitHolds == PtrInit => LinesInv
<1> SUFFICES ASSUME PtrInit PROVE LinesInv
  OBVIOUS
<1>1. line \in [Reports -> LineRecords] /\ \A r \in Reports : WasLine(line[r])
  <2>1. 0 \in 0 .. LastReading
    <3>1. LastReading \in Nat
      BY PtrAssumption DEF PtrAssumption
    <3> QED  BY <3>1
  <2>2. Unread \in LineRecords
    BY <2>1 DEF Unread, LineRecords, LineStatuses, Resolutions
  <2>3. WasLine(Unread)
    BY DEF WasLine, IsLine, Unread
  <2> HIDE DEF LineRecords
  <2> QED  BY <2>2, <2>3 DEF PtrInit
<1>2. override \in Overrides
  BY DEF PtrInit, Overrides
<1>3. reading \in ReadingRecords /\ ReadingKnows
  BY DEF PtrInit, ReadingRecords, NotReading, ReadingKnows
<1>4. review \in ReviewRecords /\ ReviewKnows
  BY DEF PtrInit, ReviewRecords, NotReviewing, ReviewKnows
<1>5. pass \in [Passes -> PassRecords]
  BY DEF PtrInit, PassRecords, NoPass
<1>6. \A p \in Passes : PassKnows(pass[p], override) /\ Chose(pass[p], line, mixed)
  BY DEF PtrInit, PassKnows, Chose, NoPass
<1>7. AsSaid
  BY DEF PtrInit, AsSaid, Answered, IsLine, Unread
<1> QED  BY <1>1, <1>2, <1>3, <1>4, <1>5, <1>6, <1>7 DEF LinesInv, PtrInit

LEMMA ReadingHolds ==
    ASSUME LinesInv, CheckReport \/ GiveUpReading \/ \E r \in Reports : ChooseReport(r)
    PROVE  LinesInv'
<1>1. reading' \in ReadingRecords
  <2>1. NotReading \in ReadingRecords
    BY DEF NotReading, ReadingRecords
  <2>2. \A q \in ReadingRecords :
          /\ \A r \in Reports : [q EXCEPT !.report = r] \in ReadingRecords
          /\ [q EXCEPT !.checked = TRUE] \in ReadingRecords
    BY DEF ReadingRecords
  <2>3. reading \in ReadingRecords
    BY DEF LinesInv
  <2> HIDE DEF ReadingRecords
  <2>4. CASE GiveUpReading
    BY <2>1, <2>4 DEF GiveUpReading, StopReading
  <2>5. CASE CheckReport
    <3>1. reading' = NotReading \/ reading' = [reading EXCEPT !.checked = TRUE]
      BY <2>5 DEF CheckReport, StopReading
    <3> QED  BY <2>1, <2>2, <2>3, <3>1, Zenon
  <2>6. CASE \E r \in Reports : ChooseReport(r)
    <3>1. PICK r \in Reports : reading' = [NotReading EXCEPT !.report = r]
      BY <2>6 DEF ChooseReport
    <3> QED  BY <2>1, <2>2, <3>1, Zenon
  <2> QED  BY <2>4, <2>5, <2>6
<1>2. UNCHANGED <<line, override, review, pass, mixed, lost>>
  BY DEF ChooseReport, CheckReport, GiveUpReading
<1>3. \/ reading'.report = None
      \/ \E r \in Reports :
            reading'.report = r /\ line[r].id < LastReading /\ ~reading'.checked
      \/ /\ reading'.report = reading.report /\ reading.report # None
         /\ ~line[reading.report].reviewed
  BY DEF LinesInv, ReadingRecords, ChooseReport, CheckReport, GiveUpReading, StopReading,
         NotReading, KeepsReviewed
<1>4. ReadingKnows'
  BY <1>2, <1>3 DEF LinesInv, ReadingKnows
<1> QED  BY <1>1, <1>2, <1>4 DEF LinesInv, AsSaid, ReviewKnows

LEMMA ReplaceHolds ==
    ASSUME LinesInv, NEW status \in {"parsed", "needs_review", "placeholder"},
           NEW asset \in {None} \cup Assets, status # "placeholder" => asset \in Assets,
           ReplaceLine(status, asset)
    PROVE  LinesInv'
<1> DEFINE r == reading.report
           l == [Unread EXCEPT !.id = line[r].id + 1, !.status = status, !.asset = asset]
<1>1. r \in Reports /\ line[r] \in LineRecords /\ line[r].id < LastReading
  BY DEF LinesInv, ReadingRecords, ReplaceLine, ReadingKnows
<1>2. line[r].id \in Nat /\ LastReading \in Nat
  <2>1. line[r].id \in 0 .. LastReading
    BY <1>1 DEF LineRecords
  <2>2. LastReading \in Nat
    BY PtrAssumption DEF PtrAssumption
  <2> QED  BY <2>1, <2>2
<1>3. /\ l \in LineRecords /\ l.id = line[r].id + 1 /\ l.status = status /\ l.asset = asset
      /\ l.answer = "none" /\ ~l.reviewed
  <2>1. line[r].id + 1 \in 0 .. LastReading /\ status \in LineStatuses
    BY <1>1, <1>2 DEF LineStatuses
  <2> QED  BY <2>1, UnreadIs
<1>4. line' = [line EXCEPT ![r] = l] /\ UNCHANGED <<override, review, pass>>
  BY DEF ReplaceLine
<1> HIDE DEF l
<1>5. \A s \in Reports : line'[s] = IF s = r THEN l ELSE line[s]
  BY <1>4 DEF LinesInv
<1>6. line' \in [Reports -> LineRecords] /\ \A s \in Reports : WasLine(line'[s])
  <2>1. WasLine(l)
    BY <1>2, <1>3 DEF WasLine, IsLine
  <2>2. line' \in [Reports -> LineRecords]
    BY <1>3, <1>4 DEF LinesInv
  <2> QED  BY <1>5, <2>1, <2>2 DEF LinesInv
<1>7. mixed' = mixed \ {r} /\ reading' = NotReading /\ review.report # r
  BY DEF ReplaceLine, StopReading, LineFree
<1>8. lost' = {}
  BY DEF ReplaceLine, LinesInv, ReadingKnows
<1>9. AsSaid'
  BY <1>3, <1>4, <1>5, <1>7 DEF LinesInv, AsSaid, Answered
<1>10. ReviewKnows' /\ ReadingKnows' /\ reading' \in ReadingRecords
  BY <1>4, <1>5, <1>7 DEF LinesInv, ReviewKnows, ReviewRecords, ReadingKnows, NotReading,
      ReadingRecords
<1>11. ASSUME NEW q \in PassRecords, Chose(q, line, mixed) PROVE Chose(q, line', mixed')
  <2> SUFFICES ASSUME q.step = "read"
               PROVE  /\ \A s \in Reports : q.chosen[s].id <= line'[s].id
                      /\ ~q.overlapped => \A s \in Reports :
                            /\ ChoseOf(q.chosen[s], line'[s])
                            /\ s \notin mixed' /\ Answered(line'[s]) /\ line'[s].asset = q.scope =>
                                    q.chosen[s].id = line'[s].id
    BY <1>11 DEF Chose
  <2>1. /\ q.chosen \in [Reports -> Chosen]
        /\ \A s \in Reports : q.chosen[s].id <= line[s].id
        /\ ~q.overlapped => \A s \in Reports :
            /\ ChoseOf(q.chosen[s], line[s])
            /\ s \notin mixed /\ Answered(line[s]) /\ line[s].asset = q.scope =>
                    q.chosen[s].id = line[s].id
    BY <1>11 DEF Chose
  <2>2. q.chosen[r].id \in Nat /\ q.chosen[r].id <= line[r].id
    BY <1>1, <2>1 DEF Chosen
  <2>3. q.chosen[r].id <= l.id /\ q.chosen[r].id # l.id
    BY <1>2, <1>3, <2>2
  <2>4. ~Answered(l)
    BY <1>3 DEF Answered
  <2> QED  BY <1>5, <1>7, <2>1, <2>3, <2>4 DEF ChoseOf
<1>12. \A p \in Passes : PassKnows(pass[p], override)' /\ Chose(pass[p], line, mixed)'
  BY <1>4, <1>11 DEF LinesInv
<1> QED  BY <1>4, <1>6, <1>7, <1>8, <1>9, <1>10, <1>12 DEF LinesInv

\* A pass that is overlapped keeps no promise but of its type.
LEMMA OverlappedHolds ==
    ASSUME LinesInv, NEW p \in Passes, pass'[p] = [pass[p] EXCEPT !.overlapped = TRUE],
           \A r \in Reports : line'[r].id = line[r].id
    PROVE  /\ pass'[p] \in PassRecords
           /\ PassKnows(pass'[p], override') /\ Chose(pass'[p], line', mixed')
<1> DEFINE q == pass[p]
           o == pass'[p]
<1>1. q \in PassRecords /\ PassKnows(q, override) /\ Chose(q, line, mixed)
  BY DEF LinesInv
<1>2. /\ o \in PassRecords /\ o.overlapped /\ o.step = q.step /\ o.overrides = q.overrides
      /\ o.chosen = q.chosen
  BY <1>1 DEF PassRecords
<1> HIDE DEF o, q
<1>3. PassKnows(o, override')
  BY <1>1, <1>2 DEF PassKnows
<1>4. Chose(o, line', mixed')
  BY <1>1, <1>2 DEF Chose
<1> QED  BY <1>2, <1>3, <1>4 DEF o

LEMMA RejectHolds ==
    ASSUME LinesInv, NEW r \in Reports, Reject(r)
    PROVE  LinesInv'
<1> DEFINE l == [line[r] EXCEPT !.status = "rejected", !.reviewed = TRUE]
<1>1. /\ l \in LineRecords /\ l.id = line[r].id /\ l.status = "rejected" /\ l.asset = line[r].asset
  BY DEF LinesInv, LineRecords, LineStatuses
<1>2. line' = [line EXCEPT ![r] = l] /\ UNCHANGED <<override, review, pass, mixed, lost>>
  BY DEF Reject, LinesInv, LineRecords
<1> HIDE DEF l
<1>3. \A s \in Reports : line'[s] = IF s = r THEN l ELSE line[s]
  BY <1>2 DEF LinesInv
<1>4. line' \in [Reports -> LineRecords] /\ ~IsLine(l) /\ \A s \in Reports : line'[s].id = line[s].id
  BY <1>1, <1>2, <1>3 DEF LinesInv, IsLine
<1>5. \A s \in Reports : WasLine(line'[s])
  BY <1>3, <1>4 DEF LinesInv, WasLine
<1>6. AsSaid'
  BY <1>2, <1>3, <1>4 DEF LinesInv, AsSaid, Answered
<1>7. ReviewKnows'
  BY <1>2, <1>4 DEF LinesInv, ReviewKnows, ReviewRecords
<1>8. /\ reading' \in ReadingRecords /\ reading'.report = reading.report
      /\ reading'.checked = reading.checked
      /\ reading'.raced = (reading.raced \/ (reading.report = r /\ reading.checked))
  BY DEF Reject, Reviewed, LinesInv, ReadingRecords
<1>9. ReadingKnows'
  BY <1>3, <1>4, <1>8 DEF LinesInv, ReadingKnows, ReadingRecords
<1>10. ASSUME NEW q \in PassRecords, Chose(q, line, mixed) PROVE Chose(q, line', mixed')
  BY <1>1, <1>2, <1>3, <1>4, <1>10 DEF Chose, ChoseOf, Answered
<1>11. \A p \in Passes : PassKnows(pass[p], override)' /\ Chose(pass[p], line, mixed)'
  BY <1>2, <1>10 DEF LinesInv
<1> QED  BY <1>2, <1>4, <1>5, <1>6, <1>7, <1>8, <1>9, <1>11 DEF LinesInv

LEMMA ReviewHolds ==
    ASSUME LinesInv,
           RollBackAccept \/ \E r \in Reports, asset \in Assets : BeginAccept(r, asset)
    PROVE  LinesInv'
<1>1. UNCHANGED <<line, override, reading, pass, mixed, lost>>
  BY DEF RollBackAccept, BeginAccept
<1>2. review' \in ReviewRecords /\ ReviewKnows'
  <2>1. CASE RollBackAccept
    BY <2>1 DEF RollBackAccept, NotReviewing, ReviewRecords, ReviewKnows
  <2>2. CASE \E r \in Reports, asset \in Assets : BeginAccept(r, asset)
    <3>1. PICK r \in Reports, asset \in Assets :
            /\ review' = [report |-> r, asset |-> asset, overrides |-> override,
                          overlapped |-> FALSE]
            /\ line[r].status = "needs_review"
      BY <2>2 DEF BeginAccept
    <3>2. line[r].id # 0 /\ override \in Overrides
      BY <3>1 DEF LinesInv, WasLine, IsLine
    <3> QED  BY <1>1, <3>1, <3>2 DEF ReviewRecords, ReviewKnows
  <2> QED  BY <2>1, <2>2
<1> QED  BY <1>1, <1>2 DEF LinesInv, AsSaid, ReadingKnows

LEMMA ResolutionIs ==
    ASSUME NEW asset \in Assets, NEW overrides \in Overrides
    PROVE  Resolution(asset, overrides) \in Resolutions \ {"none"}
  BY PtrAssumption DEF PtrAssumption, Resolution, Resolutions, Overrides, None

LEMMA AcceptHolds ==
    ASSUME LinesInv, CommitAccept
    PROVE  LinesInv'
<1> DEFINE r == review.report
           l == Accepted(line[r])
<1>1. /\ r \in Reports /\ review.asset \in Assets /\ review.overrides \in Overrides
      /\ line[r] \in LineRecords /\ line[r].id # 0
      /\ ~review.overlapped => review.overrides = override
  BY DEF LinesInv, ReviewRecords, CommitAccept, ReviewKnows
<1>2. Resolution(review.asset, review.overrides) \in Resolutions
  BY <1>1, ResolutionIs
<1>3. /\ l \in LineRecords /\ l.id = line[r].id /\ l.status = "parsed"
      /\ l.asset = review.asset /\ l.key = review.asset
      /\ l.answer = Resolution(review.asset, review.overrides)
  BY <1>1, <1>2 DEF Accepted, LineRecords, LineStatuses
<1>4. line' = [line EXCEPT ![r] = l] /\ UNCHANGED <<override, lost>>
  BY DEF CommitAccept
<1>5. /\ mixed' = IF review.overlapped THEN mixed \cup {r} ELSE mixed \ {r}
      /\ pass' = Overlap(Passes) /\ review' = NotReviewing
  BY DEF CommitAccept
<1>6. /\ reading' \in ReadingRecords /\ reading'.report = reading.report
      /\ reading'.checked = reading.checked
      /\ reading'.raced = (reading.raced \/ (reading.report = r /\ reading.checked))
  BY DEF CommitAccept, Reviewed, LinesInv, ReadingRecords
<1> HIDE DEF l
<1>7. \A s \in Reports : line'[s] = IF s = r THEN l ELSE line[s]
  BY <1>4 DEF LinesInv
<1>8. line' \in [Reports -> LineRecords] /\ \A s \in Reports : line'[s].id = line[s].id
  BY <1>3, <1>4, <1>7 DEF LinesInv
<1>9. \A s \in Reports : WasLine(line'[s])
  BY <1>1, <1>3, <1>7 DEF LinesInv, WasLine
<1>10. AsSaid'
  <2>1. ASSUME NEW s \in Reports \ mixed', Answered(line'[s])
        PROVE  /\ line'[s].key = line'[s].asset
               /\ line'[s].answer = Resolution(line'[s].asset, override')
    <3>1. CASE s = r
      <4>1. ~review.overlapped
        BY <1>1, <1>5, <2>1, <3>1
      <4> QED  BY <1>1, <1>3, <1>4, <1>7, <3>1, <4>1
    <3>2. CASE s # r
      <4>1. s \notin mixed
        BY <1>5, <2>1, <3>2
      <4> QED  BY <1>4, <1>7, <2>1, <3>2, <4>1 DEF LinesInv, AsSaid
    <3> QED  BY <3>1, <3>2
  <2> QED  BY <2>1 DEF AsSaid
<1>11. ReadingKnows'
  BY <1>6, <1>7, <1>8 DEF LinesInv, ReadingKnows, ReadingRecords
<1>12. review' \in ReviewRecords /\ ReviewKnows'
  BY <1>5 DEF NotReviewing, ReviewRecords, ReviewKnows
<1>13. mixed' \subseteq Reports
  BY <1>1, <1>5 DEF LinesInv
<1>14. ASSUME NEW p \in Passes
       PROVE  /\ pass'[p] \in PassRecords
              /\ PassKnows(pass'[p], override') /\ Chose(pass'[p], line', mixed')
  <2>1. /\ pass[p] \in PassRecords /\ PassKnows(pass[p], override) /\ Chose(pass[p], line, mixed)
    BY DEF LinesInv
  <2>2. CASE pass[p].step = "idle"
    <3>1. pass'[p] = pass[p]
      BY <1>5, <2>2 DEF Overlap
    <3> QED  BY <2>1, <2>2, <3>1 DEF PassKnows, Chose
  <2>3. CASE pass[p].step # "idle"
    <3>1. pass'[p] = [pass[p] EXCEPT !.overlapped = TRUE]
      BY <1>5, <2>3 DEF Overlap
    <3> QED  BY <1>8, <2>1, <3>1, OverlappedHolds
  <2> QED  BY <2>2, <2>3
<1>15. pass' \in [Passes -> PassRecords]
  BY <1>5, <1>14 DEF Overlap
<1> QED
  BY <1>4, <1>6, <1>8, <1>9, <1>10, <1>11, <1>12, <1>13, <1>14, <1>15 DEF LinesInv

\* One pass moves, and nothing is written.
LEMMA PassMoves ==
    ASSUME LinesInv, NEW p \in Passes, NEW q \in PassRecords,
           pass' = [pass EXCEPT ![p] = q],
           UNCHANGED <<line, override, reading, review, mixed, lost>>,
           PassKnows(q, override), Chose(q, line, mixed)
    PROVE  LinesInv'
<1>1. \A s \in Passes : pass'[s] = IF s = p THEN q ELSE pass[s]
  BY DEF LinesInv
<1>2. \A s \in Passes : PassKnows(pass[s], override)' /\ Chose(pass[s], line, mixed)'
  BY <1>1 DEF LinesInv
<1>3. pass' \in [Passes -> PassRecords]
  BY DEF LinesInv
<1> QED  BY <1>2, <1>3 DEF LinesInv, AsSaid, ReadingKnows, ReviewKnows

LEMMA BeginHolds ==
    ASSUME LinesInv, NEW p \in Passes,
           \/ \E scope \in {"new", "all"} : BeginPass(p, scope)
           \/ \E asset \in Assets, to \in {None} \cup Meanings : BeginOverride(p, asset, to)
           \/ RollBackPass(p)
    PROVE  LinesInv'
<1>1. CASE RollBackPass(p)
  <2>1. NoPass \in PassRecords /\ PassKnows(NoPass, override) /\ Chose(NoPass, line, mixed)
    BY DEF NoPass, PassRecords, PassKnows, Chose
  <2> QED  BY <1>1, <2>1, PassMoves DEF RollBackPass
<1>2. ASSUME NEW scope \in {"new", "all"}, BeginPass(p, scope) PROVE LinesInv'
  <2> DEFINE q == [NoPass EXCEPT !.step = "begun", !.scope = scope, !.overrides = override]
  <2>1. q \in PassRecords /\ q.step = "begun" /\ q.overrides = override /\ q.scope = scope
    BY DEF LinesInv, NoPass, PassRecords
  <2>2. scope \notin Assets
    BY PtrAssumption DEF PtrAssumption
  <2> HIDE DEF q
  <2>3. PassKnows(q, override) /\ Chose(q, line, mixed)
    BY <2>1, <2>2 DEF LinesInv, PassKnows, Chose, Saying
  <2>4. pass' = [pass EXCEPT ![p] = q] /\ UNCHANGED <<line, override, reading, review, mixed, lost>>
    BY <1>2 DEF BeginPass, q
  <2> QED  BY <2>1, <2>3, <2>4, PassMoves
<1>3. ASSUME NEW asset \in Assets, NEW to \in {None} \cup Meanings, BeginOverride(p, asset, to)
      PROVE  LinesInv'
  <2> DEFINE changed == [override EXCEPT ![asset] = to]
             q == [NoPass EXCEPT !.step = "begun", !.scope = asset, !.to = to,
                                 !.overrides = changed]
  <2>1. changed \in Overrides
    BY DEF LinesInv, Overrides
  <2> HIDE DEF changed
  <2>2. q \in PassRecords /\ q.step = "begun" /\ q.overrides = changed /\ q.scope = asset /\ q.to = to
    BY <2>1 DEF NoPass, PassRecords
  <2> HIDE DEF q
  <2>3. PassKnows(q, override) /\ Chose(q, line, mixed)
    BY <2>1, <2>2 DEF PassKnows, Chose, Saying, changed
  <2>4. pass' = [pass EXCEPT ![p] = q] /\ UNCHANGED <<line, override, reading, review, mixed, lost>>
    BY <1>3 DEF BeginOverride, q, changed
  <2> QED  BY <2>2, <2>3, <2>4, PassMoves
<1> QED  BY <1>1, <1>2, <1>3

LEMMA ReadHolds ==
    ASSUME LinesInv, NEW p \in Passes, ReadLines(p)
    PROVE  LinesInv'
<1> DEFINE chosen == [r \in Reports |-> IF Selected(pass[p].scope, line[r])
                                        THEN [id |-> line[r].id, asset |-> line[r].asset]
                                        ELSE [id |-> 0, asset |-> None]]
           q == [pass[p] EXCEPT !.step = "read", !.chosen = chosen]
<1>1. /\ pass[p] \in PassRecords /\ PassKnows(pass[p], override) /\ pass[p].step = "begun"
  BY DEF LinesInv, ReadLines
<1>2. \A r \in Reports : line[r].id \in 0 .. LastReading /\ line[r].asset \in {None} \cup Assets
  BY DEF LinesInv, LineRecords
<1>3. LastReading \in Nat
  BY PtrAssumption DEF PtrAssumption
<1>4. chosen \in [Reports -> Chosen]
  <2>1. 0 \in 0 .. LastReading
    BY <1>3
  <2> QED  BY <1>2, <2>1 DEF Chosen
<1>5. \A r \in Reports :
        \/ Selected(pass[p].scope, line[r]) /\ chosen[r].id = line[r].id
                /\ chosen[r].asset = line[r].asset
        \/ ~Selected(pass[p].scope, line[r]) /\ chosen[r].id = 0
  OBVIOUS
<1> HIDE DEF chosen
<1>6. /\ q \in PassRecords /\ q.step = "read" /\ q.chosen = chosen /\ q.scope = pass[p].scope
      /\ q.to = pass[p].to /\ q.overrides = pass[p].overrides
      /\ q.overlapped = pass[p].overlapped
  BY <1>1, <1>4 DEF PassRecords
<1>7. /\ pass' = [pass EXCEPT ![p] = q]
      /\ UNCHANGED <<line, override, reading, review, mixed, lost>>
  BY <1>1 DEF ReadLines, chosen, LinesInv
<1> HIDE DEF q
<1>8. PassKnows(q, override)
  BY <1>1, <1>6 DEF PassKnows, Saying
<1>9. \A r \in Reports : chosen[r].id <= line[r].id
  BY <1>2, <1>3, <1>5
<1>10. \A r \in Reports :
         /\ ChoseOf(chosen[r], line[r])
         /\ chosen[r].id # 0 => chosen[r].asset \in Assets
  BY <1>5 DEF ChoseOf, Selected, LinesInv, WasLine
<1>11. ASSUME NEW r \in Reports \ mixed, Answered(line[r]), line[r].asset = q.scope
       PROVE  chosen[r].id = line[r].id
  <2>1. line[r].key = q.scope /\ q.scope \in Assets
    BY <1>11 DEF LinesInv, AsSaid, Answered, WasLine
  <2>2. q.scope \notin {"all", "new"}
    BY <2>1, PtrAssumption DEF PtrAssumption
  <2>3. Selected(q.scope, line[r])
    BY <1>11, <2>1, <2>2 DEF Selected, Answered
  <2> QED  BY <1>5, <1>6, <2>3
<1>12. Chose(q, line, mixed)
  BY <1>4, <1>6, <1>9, <1>10, <1>11 DEF Chose
<1> QED  BY <1>6, <1>7, <1>8, <1>12, PassMoves

\* A line is written the answer of what it names; a line that a change leaves is one
\* that does not name its asset.
LEMMA CommitHolds ==
    ASSUME LinesInv, NEW p \in Passes, CommitPass(p)
    PROVE  LinesInv'
<1> DEFINE q == pass[p]
           changed == Saying(q, override)
           Written == LinesWritten(p)
           After(r) == [line[r] EXCEPT !.key = q.chosen[r].asset,
                                       !.answer = Resolution(q.chosen[r].asset, q.overrides)]
           Others == {s \in Passes \ {p} : Changes(p) \/ Changes(s)}
<1>1. /\ q \in PassRecords /\ PassKnows(q, override) /\ Chose(q, line, mixed) /\ q.step = "read"
      /\ q.chosen \in [Reports -> Chosen] /\ q.overrides \in Overrides
      /\ q.to \in {None} \cup Meanings
  BY DEF LinesInv, CommitPass, PassKnows, Chose, PassRecords
<1>2. /\ line' = [r \in Reports |-> IF r \in Written THEN After(r) ELSE line[r]]
      /\ UNCHANGED <<reading, lost>>
      /\ pass' = [Overlap(Others) EXCEPT ![p] = NoPass]
  BY DEF CommitPass
<1>3. override' = changed /\ changed \in Overrides
  <2>1. override' = changed
    BY DEF CommitPass, Changes, Saying
  <2>2. changed \in Overrides
    BY <1>1 DEF LinesInv, Saying, Overrides
  <2> QED  BY <2>1, <2>2
<1>4. ~q.overlapped => q.overrides = changed
  BY <1>1 DEF PassKnows
<1>5. \A r \in Written : r \in Reports /\ q.chosen[r].id = line[r].id /\ line[r].id # 0
  BY DEF LinesWritten
<1>6. ASSUME NEW r \in Written
      PROVE  /\ q.chosen[r].asset \in Assets
             /\ After(r) \in LineRecords /\ After(r).id = line[r].id
             /\ After(r).status = line[r].status /\ After(r).asset = line[r].asset
             /\ After(r).reviewed = line[r].reviewed
             /\ After(r).key = q.chosen[r].asset
             /\ After(r).answer = Resolution(q.chosen[r].asset, q.overrides)
  <2>1. q.chosen[r].asset \in Assets
    BY <1>1, <1>5 DEF Chose
  <2>2. Resolution(q.chosen[r].asset, q.overrides) \in Resolutions
    BY <1>1, <2>1, ResolutionIs
  <2>3. line[r] \in LineRecords
    BY <1>5 DEF LinesInv
  <2> QED  BY <2>1, <2>2, <2>3 DEF LineRecords
<1> HIDE DEF After, changed, Written
<1>7. \A r \in Reports : line'[r] = IF r \in Written THEN After(r) ELSE line[r]
  BY <1>2
<1>8. /\ line' \in [Reports -> LineRecords]
      /\ \A r \in Reports : /\ line'[r].id = line[r].id /\ line'[r].status = line[r].status
                            /\ line'[r].asset = line[r].asset
                            /\ line'[r].reviewed = line[r].reviewed
  BY <1>2, <1>6, <1>7 DEF LinesInv
<1>9. /\ ~q.overlapped => mixed' = mixed \ Written
      /\ q.overlapped =>
            mixed' = (mixed \ Written)
                        \cup (Written \cup {r \in Reports : Changes(p) /\ line[r].asset = q.scope})
      /\ mixed' \subseteq Reports
  BY <1>5 DEF CommitPass, LinesInv, Written
<1>10. \A r \in Reports : WasLine(line'[r])
  BY <1>8 DEF LinesInv, WasLine, IsLine
<1>11. ASSUME NEW r \in Reports \ mixed', Answered(line'[r])
       PROVE  line'[r].key = line'[r].asset /\ line'[r].answer = Resolution(line'[r].asset, changed)
  <2>1. CASE r \in Written
    <3>1. ~q.overlapped
      BY <1>9, <1>11, <2>1
    <3>2. q.chosen[r].asset = line[r].asset
      BY <1>1, <1>5, <2>1, <3>1 DEF Chose, ChoseOf
    <3> QED  BY <1>4, <1>6, <1>7, <2>1, <3>1, <3>2
  <2>2. CASE r \notin Written
    <3>1. r \notin mixed /\ line'[r] = line[r] /\ Answered(line[r])
      BY <1>7, <1>9, <1>11, <2>2
    <3>2. /\ line[r].key = line[r].asset
          /\ line[r].answer = Resolution(line[r].asset, override) /\ line[r].asset \in Assets
          /\ line[r].id # 0
      BY <3>1 DEF LinesInv, AsSaid, WasLine, Answered
    <3>3. ~(Changes(p) /\ line[r].asset = q.scope)
      <4>1. CASE q.overlapped
        BY <1>9, <1>11, <4>1
      <4>2. CASE ~q.overlapped /\ line[r].asset = q.scope
        <5>1. q.chosen[r].id = line[r].id
          BY <1>1, <3>1, <4>2 DEF Chose
        <5> QED  BY <2>2, <3>2, <5>1 DEF LinesWritten, Written
      <4> QED  BY <4>1, <4>2
    <3>4. changed[line[r].asset] = override[line[r].asset]
      BY <3>2, <3>3 DEF changed, Saying, Changes, LinesInv, Overrides
    <3> QED  BY <3>1, <3>2, <3>4 DEF Resolution
  <2> QED  BY <2>1, <2>2
<1>12. AsSaid'
  BY <1>3, <1>11 DEF AsSaid
<1>13. ReadingKnows'
  BY <1>2, <1>8 DEF LinesInv, ReadingKnows, ReadingRecords
<1>14. review' \in ReviewRecords /\ ReviewKnows'
  <2>1. CASE Changes(p) /\ review.report # None
    <3>1. review' = [review EXCEPT !.overlapped = TRUE]
      BY <2>1 DEF CommitPass
    <3>2. /\ review' \in ReviewRecords /\ review'.overlapped /\ review'.report = review.report
          /\ review'.asset = review.asset /\ review'.overrides = review.overrides
      BY <3>1 DEF LinesInv, ReviewRecords
    <3> QED  BY <1>8, <3>2 DEF LinesInv, ReviewKnows, ReviewRecords
  <2>2. CASE ~(Changes(p) /\ review.report # None)
    <3>1. review' = review /\ (Changes(p) => review.report = None)
      BY <2>2 DEF CommitPass
    <3>2. ~Changes(p) => changed = override
      BY DEF Changes, changed, Saying
    <3> QED  BY <1>3, <1>8, <3>1, <3>2 DEF LinesInv, ReviewKnows, ReviewRecords
  <2> QED  BY <2>1, <2>2
<1>15. ASSUME NEW s \in Passes
       PROVE  /\ pass'[s] \in PassRecords
              /\ PassKnows(pass'[s], override') /\ Chose(pass'[s], line', mixed')
  <2>1. CASE s = p
    <3>1. pass'[s] = NoPass
      BY <1>2, <2>1 DEF Overlap
    <3> QED  BY <3>1 DEF NoPass, PassRecords, PassKnows, Chose
  <2>2. CASE s # p /\ s \in Others /\ pass[s].step # "idle"
    <3>1. pass'[s] = [pass[s] EXCEPT !.overlapped = TRUE]
      BY <1>2, <2>2 DEF Overlap
    <3> QED  BY <1>8, <3>1, OverlappedHolds
  <2>3. CASE s # p /\ pass[s].step = "idle"
    <3>1. pass'[s] = pass[s]
      BY <1>2, <2>3 DEF Overlap
    <3> QED  BY <2>3, <3>1 DEF LinesInv, PassKnows, Chose
  <2>4. CASE s # p /\ s \notin Others
    <3>1. pass'[s] = pass[s] /\ ~Changes(p) /\ ~Changes(s)
      BY <1>2, <2>4 DEF Overlap
    <3>2. changed = override /\ pass[s].scope \notin Assets
      BY <3>1 DEF Changes, changed, Saying
    <3>3. pass[s] \in PassRecords /\ PassKnows(pass[s], override) /\ Chose(pass[s], line, mixed)
      BY DEF LinesInv
    <3>4. \A r \in Reports : Answered(line'[r]) => line'[r].asset # pass[s].scope
      BY <1>10, <3>2 DEF WasLine, Answered
    <3>5. Chose(pass[s], line', mixed')
      BY <1>8, <3>3, <3>4 DEF Chose, ChoseOf
    <3> QED  BY <1>3, <3>1, <3>2, <3>3, <3>5
  <2> QED  BY <2>1, <2>2, <2>3, <2>4
<1>16. pass' \in [Passes -> PassRecords]
  BY <1>2, <1>15 DEF Overlap
<1> QED
  BY <1>2, <1>3, <1>8, <1>9, <1>10, <1>12, <1>13, <1>14, <1>15, <1>16 DEF LinesInv

LEMMA LinesHold == PtrSpec => []LinesInv
<1>1. LinesInv /\ [PtrNext]_ptrVars => LinesInv'
  <2> SUFFICES ASSUME LinesInv, [PtrNext]_ptrVars PROVE LinesInv'
    OBVIOUS
  <2>1. CASE UNCHANGED ptrVars
    BY <2>1 DEF ptrVars, LinesInv, AsSaid, ReadingKnows, ReviewKnows
  <2>2. CASE \/ \E status \in {"parsed", "needs_review"}, asset \in Assets :
                    ReplaceLine(status, asset)
             \/ ReplaceLine("placeholder", None)
    BY <2>2, ReplaceHolds
  <2>3. CASE \/ \E p \in Runs, scope \in {"new", "all"} : BeginPass(p, scope)
             \/ \E p \in Admins, asset \in Assets, to \in {None} \cup Meanings :
                    BeginOverride(p, asset, to)
             \/ \E p \in Passes : RollBackPass(p)
    BY <2>3, BeginHolds DEF Passes
  <2> QED
    BY <2>1, <2>2, <2>3, ReadingHolds, RejectHolds, ReviewHolds, AcceptHolds, ReadHolds,
       CommitHolds DEF PtrNext
<1> QED  BY <1>1, PtrInitHolds, PTL DEF PtrSpec

\* However readings, reviews, overrides and the jobs' passes overlap, a reviewed line is
\* never read again, and an override is the answer of every line that names its asset,
\* but for the two races the property excepts, which no row's lock closes.
THEOREM PersonsWordHolds == PtrSpec => []PersonsWordStands
<1>1. LinesInv => PersonsWordStands
  BY DEF LinesInv, AsSaid, Answered, PersonsWordStands, OverridesApply, ReviewsKept
<1> QED  BY <1>1, LinesHold, PTL

-----------------------------------------------------------------------------
(* InsiderLines: chains of amendments.                                     *)

\* Induction, over a set.
LEMMA Induction ==
    ASSUME NEW S, 0 \in S, \A n \in Nat : n \in S => n + 1 \in S
    PROVE  Nat \subseteq S
<1> SUFFICES ASSUME Nat \ S # {} PROVE FALSE
  OBVIOUS
<1> DEFINE T == Nat \ S
<1>1. IsWellFoundedOn(OpToRel(<, Nat), Nat)
  BY NatLessThanWellFounded
<1>2. T \subseteq Nat /\ T # {}
  OBVIOUS
<1> HIDE DEF T
<1>3. PICK k \in T : \A m \in T : <<m, k>> \notin OpToRel(<, Nat)
  BY <1>1, <1>2, WFMin
<1>4. k \in Nat /\ k \notin S
  BY <1>3 DEF T
<1>5. k - 1 \in Nat
  BY <1>4
<1>6. k - 1 \notin T
  <2>1. \A m \in T : ~(m < k)
    BY <1>2, <1>3 DEF OpToRel
  <2>2. k - 1 < k
    BY <1>4
  <2> QED  BY <2>1, <2>2
<1>7. k - 1 \in S
  BY <1>5, <1>6 DEF T
<1> QED  BY <1>4, <1>5, <1>7

LEMMA FormsFacts ==
    /\ IsFiniteSet(Forms) /\ Cardinality(Forms) \in Nat /\ Forms = 1 .. Cardinality(Forms)
    /\ NoForm \notin Forms /\ Forms \subseteq Nat
<1>1. IsFiniteSet(Forms) /\ Forms = 1 .. Cardinality(Forms)
  BY FormsAssumption
<1>2. Cardinality(Forms) \in Nat
  BY <1>1, FS_CardinalityType
<1> QED  BY <1>1, <1>2 DEF NoForm

Links == [Forms -> Forms \cup {NoForm}]

\* The forms within n links of f.
Reached(f, link, c, n) == c = [i \in 0 .. n |-> IF i = 0 THEN {f} ELSE Near(c[i - 1], link)]

LEMMA ReachedIs ==
    ASSUME NEW f, NEW link
    PROVE  \A n \in Nat : \E c : Reached(f, link, c, n)
<1> DEFINE S == {n \in Nat : \E c : Reached(f, link, c, n)}
<1>1. 0 \in S
  <2> DEFINE c == [i \in 0 .. 0 |-> {f}]
  <2>1. Reached(f, link, c, 0)
    BY DEF Reached
  <2> QED  BY <2>1
<1>2. ASSUME NEW n \in Nat, n \in S
      PROVE  n + 1 \in S
  <2>1. PICK c : Reached(f, link, c, n)
    BY <1>2
  <2> DEFINE d == [i \in 0 .. n + 1 |-> IF i = n + 1 THEN Near(c[n], link) ELSE c[i]]
  <2>2. c = [i \in 0 .. n |-> IF i = 0 THEN {f} ELSE Near(c[i - 1], link)]
    BY <2>1 DEF Reached
  <2>3. \A i \in 0 .. n + 1 : d[i] = IF i = 0 THEN {f} ELSE Near(d[i - 1], link)
    <3> SUFFICES ASSUME NEW i \in 0 .. n + 1
                 PROVE  d[i] = IF i = 0 THEN {f} ELSE Near(d[i - 1], link)
      OBVIOUS
    <3>1. CASE i = n + 1
      BY <3>1
    <3>2. CASE i # n + 1
      <4>1. i \in 0 .. n /\ d[i] = c[i]
        BY <3>2
      <4>2. i # 0 => i - 1 \in 0 .. n + 1 /\ i - 1 # n + 1 /\ d[i - 1] = c[i - 1]
        BY <4>1
      <4>3. c[i] = IF i = 0 THEN {f} ELSE Near(c[i - 1], link)
        BY <2>2, <4>1
      <4> HIDE DEF d
      <4> QED  BY <4>1, <4>2, <4>3
    <3> QED  BY <3>1, <3>2
  <2>4. Reached(f, link, d, n + 1)
    <3>1. d = [i \in 0 .. n + 1 |-> d[i]]
      OBVIOUS
    <3> HIDE DEF d
    <3> QED  BY <2>3, <3>1 DEF Reached
  <2> QED  BY <2>4
<1> HIDE DEF S
<1>3. Nat \subseteq S
  BY <1>1, <1>2, Induction
<1> QED  BY <1>3 DEF S

\* A chain is the least set that holds the form and what its members link to or
\* are linked from: as many steps as there are forms reach all of it.
LEMMA ChainIs ==
    ASSUME NEW f \in Forms, NEW link \in Links
    PROVE  /\ f \in Chain(f, link) /\ Chain(f, link) \subseteq Forms
           /\ Near(Chain(f, link), link) = Chain(f, link)
           /\ \A S : f \in S /\ Near(S, link) \subseteq S => Chain(f, link) \subseteq S
<1> DEFINE last == Cardinality(Forms)
<1> DEFINE c == CHOOSE c : Reached(f, link, c, last)
<1>1. last \in Nat
  BY FormsFacts
<1>2. Reached(f, link, c, last)
  BY <1>1, ReachedIs
<1>3. Chain(f, link) = c[last]
  BY DEF Chain, Reached
<1> HIDE DEF c, last
<1>4. c[0] = {f} /\ \A n \in 0 .. last : n # 0 => c[n] = Near(c[n - 1], link)
  <2>1. c = [n \in 0 .. last |-> IF n = 0 THEN {f} ELSE Near(c[n - 1], link)]
    BY <1>2 DEF Reached
  <2>2. 0 \in 0 .. last
    BY <1>1
  <2> QED  BY <2>1, <2>2
<1> DEFINE Grown(n) ==
      /\ f \in c[n] /\ c[n] \subseteq Forms
      /\ \A S : f \in S /\ Near(S, link) \subseteq S => c[n] \subseteq S
      /\ Near(c[n], link) = c[n] \/ Cardinality(c[n]) >= n + 1
<1> DEFINE I == {n \in Nat : n <= last => Grown(n)}
<1>5. 0 \in I
  <2>1. Cardinality({f}) = 1
    BY FS_Singleton
  <2> QED  BY <1>4, <2>1
<1>6. ASSUME NEW n \in Nat, n \in I
      PROVE  n + 1 \in I
  <2> SUFFICES ASSUME n + 1 <= last PROVE Grown(n + 1)
    OBVIOUS
  <2>1. Grown(n)
    BY <1>1, <1>6
  <2>2. c[n + 1] = Near(c[n], link)
    <3>1. n + 1 \in 0 .. last /\ n + 1 # 0 /\ (n + 1) - 1 = n
      BY <1>1
    <3> QED  BY <1>4, <3>1
  <2>3. c[n] \subseteq c[n + 1] /\ c[n + 1] \subseteq Forms
    BY <2>1, <2>2 DEF Near, Links
  <2>4. ASSUME NEW S, f \in S, Near(S, link) \subseteq S
        PROVE  c[n + 1] \subseteq S
    <3>1. c[n] \subseteq S
      BY <2>1, <2>4
    <3>2. Near(c[n], link) \subseteq Near(S, link)
      BY <3>1 DEF Near
    <3> QED  BY <2>2, <2>4, <3>2
  <2>5. Near(c[n + 1], link) = c[n + 1] \/ Cardinality(c[n + 1]) >= n + 2
    <3>1. CASE Near(c[n], link) = c[n]
      BY <2>2, <3>1
    <3>2. CASE Near(c[n], link) # c[n]
      <4>1. IsFiniteSet(c[n + 1]) /\ IsFiniteSet(c[n])
        BY <2>3, FormsFacts, FS_Subset
      <4>2. Cardinality(c[n]) <= Cardinality(c[n + 1]) /\ Cardinality(c[n]) # Cardinality(c[n + 1])
        BY <2>2, <2>3, <3>2, <4>1, FS_Subset
      <4>3. Cardinality(c[n]) \in Nat /\ Cardinality(c[n + 1]) \in Nat
        BY <4>1, FS_CardinalityType
      <4> QED  BY <2>1, <3>2, <4>2, <4>3
    <3> QED  BY <3>1, <3>2
  <2>6. f \in c[n + 1]
    BY <2>1, <2>3
  <2>7. (n + 1) + 1 = n + 2
    OBVIOUS
  <2> QED  BY <2>3, <2>4, <2>5, <2>6, <2>7
<1> HIDE DEF I
<1>7. Nat \subseteq I
  BY <1>5, <1>6, Induction
<1> USE DEF I
<1>8. Grown(last)
  BY <1>1, <1>7
<1>9. Near(c[last], link) = c[last]
  <2>1. IsFiniteSet(Forms) /\ Cardinality(Forms) = last
    BY FormsFacts DEF last
  <2>2. IsFiniteSet(c[last]) /\ Cardinality(c[last]) <= last
    BY <1>8, <2>1, FS_Subset
  <2>3. Cardinality(c[last]) \in Nat
    BY <2>2, FS_CardinalityType
  <2> QED  BY <1>1, <1>8, <2>2, <2>3
<1> QED  BY <1>3, <1>8, <1>9

\* Forms of one chain have the same.
LEMMA ChainSame ==
    ASSUME NEW f \in Forms, NEW link \in Links, NEW g \in Chain(f, link)
    PROVE  Chain(g, link) = Chain(f, link)
<1>1. g \in Forms
  BY ChainIs
<1>2. Chain(g, link) \subseteq Chain(f, link)
  <2>1. Near(Chain(f, link), link) \subseteq Chain(f, link)
    BY ChainIs
  <2> QED  BY <1>1, <2>1, ChainIs
<1>3. f \in Chain(g, link)
  <2> DEFINE S == {h \in Forms : f \in Chain(h, link)}
  <2>1. ASSUME NEW h \in S, NEW k \in Forms, link[k] = h \/ link[h] = k
        PROVE  k \in S
    <3>1. Near(Chain(k, link), link) \subseteq Chain(k, link) /\ k \in Chain(k, link)
      BY ChainIs
    <3>2. h \in Forms /\ h # NoForm
      BY FormsFacts
    <3>3. h \in Near(Chain(k, link), link)
      BY <2>1, <3>1, <3>2 DEF Near
    <3>4. Chain(h, link) \subseteq Chain(k, link)
      BY <3>1, <3>2, <3>3, ChainIs
    <3> QED  BY <3>4
  <2>2. Near(S, link) \subseteq S
    <3> SUFFICES ASSUME NEW k \in Near(S, link) PROVE k \in S
      OBVIOUS
    <3>1. CASE k \in S
      BY <3>1
    <3>2. CASE k \in Forms /\ link[k] \in S
      BY <2>1, <3>2
    <3>3. CASE \E h \in S : k = link[h] /\ k # NoForm
      <4>1. PICK h \in S : k = link[h] /\ k # NoForm
        BY <3>3
      <4>2. k \in Forms
        BY <4>1 DEF Links
      <4> QED  BY <2>1, <4>1, <4>2
    <3> QED  BY <3>1, <3>2, <3>3 DEF Near
  <2>3. f \in S
    BY ChainIs
  <2> HIDE DEF S
  <2>4. Chain(f, link) \subseteq S
    BY <2>2, <2>3, ChainIs
  <2> QED  BY <2>4 DEF S
<1>4. Chain(f, link) \subseteq Chain(g, link)
  <2>1. Near(Chain(g, link), link) \subseteq Chain(g, link)
    BY <1>1, ChainIs
  <2> QED  BY <1>3, <2>1, ChainIs
<1> QED  BY <1>2, <1>4

\* A set of numbers up to n that is not empty has a largest.
LEMMA BoundedMax ==
    ASSUME NEW n \in Nat, NEW S \in SUBSET (0 .. n), S # {}
    PROVE  Max(S) \in S /\ \A x \in S : x <= Max(S)
<1> DEFINE T == {n - x : x \in S}
<1>1. T \subseteq Nat /\ T # {}
  <2>1. \A x \in S : n - x \in Nat
    OBVIOUS
  <2> QED  BY <2>1
<1>2. PICK y \in T : \A z \in T : ~(z < y)
  <2>1. IsWellFoundedOn(OpToRel(<, Nat), Nat)
    BY NatLessThanWellFounded
  <2> HIDE DEF T
  <2>2. PICK y \in T : \A z \in T : <<z, y>> \notin OpToRel(<, Nat)
    BY <1>1, <2>1, WFMin
  <2> QED  BY <1>1, <2>2 DEF OpToRel
<1>3. PICK x \in S : y = n - x
  OBVIOUS
<1>4. \A z \in S : x >= z
  <2> SUFFICES ASSUME NEW z \in S PROVE x >= z
    OBVIOUS
  <2>1. ~(n - z < n - x)
    BY <1>2, <1>3
  <2> QED  BY <2>1
<1>5. \A z \in S : Max(S) >= z /\ Max(S) \in S
  BY <1>4 DEF Max
<1> QED  BY <1>5

LEMMA FormsMax ==
    ASSUME NEW S \in SUBSET Forms, S # {}
    PROVE  Max(S) \in S /\ \A x \in S : x <= Max(S)
<1>1. Cardinality(Forms) \in Nat /\ S \in SUBSET (0 .. Cardinality(Forms))
  BY FormsFacts
<1> QED  BY <1>1, BoundedMax

\* What new links do, all of them to or from f: chains that f is not in are as
\* they were, and its own takes in those it joins.
LEMMA ChainsJoin ==
    ASSUME NEW f \in Forms, NEW old \in Links, NEW new \in Links,
           \A a \in Forms : new[a] # old[a] => old[a] = NoForm /\ (a = f \/ new[a] = f),
           NEW g \in Forms
    PROVE  /\ Chain(g, old) \subseteq Chain(g, new)
           /\ g \notin Chain(f, new) => Chain(g, new) = Chain(g, old)
<1>1. Chain(g, old) \subseteq Chain(g, new)
  <2>1. g \in Chain(g, new) /\ Chain(g, new) \subseteq Forms
        /\ Near(Chain(g, new), new) = Chain(g, new)
    BY ChainIs
  <2>2. \A a \in Forms : old[a] # NoForm => new[a] = old[a]
    OBVIOUS
  <2>3. Near(Chain(g, new), old) \subseteq Near(Chain(g, new), new)
    BY <2>1, <2>2, FormsFacts DEF Near
  <2> QED  BY <2>1, <2>3, ChainIs
<1>2. ASSUME g \notin Chain(f, new)
      PROVE  Chain(g, new) \subseteq Chain(g, old)
  <2> DEFINE C == Chain(g, old)
  <2>1. g \in C /\ C \subseteq Forms /\ Near(C, old) = C
    BY ChainIs
  <2>2. f \notin Chain(g, new)
    <3>1. g \in Chain(g, new)
      BY ChainIs
    <3> QED  BY <1>2, <3>1, ChainSame
  <2>3. Near(Chain(g, new), new) = Chain(g, new)
    BY ChainIs
  <2> HIDE DEF C
  <2>4. C \subseteq Chain(g, new)
    BY <1>1 DEF C
  <2>5. ASSUME NEW k \in Forms, new[k] \in C PROVE k \in C
    <3>1. new[k] # f /\ k # f
      BY <2>2, <2>3, <2>4, <2>5 DEF Near
    <3>2. old[k] \in C
      BY <2>5, <3>1
    <3> QED  BY <2>1, <3>2 DEF Near
  <2>6. ASSUME NEW k \in C, new[k] # NoForm PROVE new[k] \in C
    <3>1. new[k] # f /\ k # f
      BY <2>2, <2>3, <2>4, <2>6 DEF Near
    <3>2. old[k] = new[k]
      BY <2>1, <3>1
    <3> QED  BY <2>1, <2>6, <3>2 DEF Near
  <2>7. Near(C, new) \subseteq C
    BY <2>5, <2>6 DEF Near
  <2> QED  BY <2>1, <2>7, ChainIs DEF C
<1> QED  BY <1>1, <1>2

-----------------------------------------------------------------------------
(* The links.                                                              *)

\* Every link is of a loaded amendment to what it may amend, and one with none has
\* none, or no best, to be linked to; one load goes on at a time, and sees
\* all there is.
InsiderInv ==
    /\ InsiderTypeOK
    /\ \A a \in Forms : amends[a] # NoForm =>
        a \in form4 \cap Amendments /\ amends[a] \in MayAmend(a, form4)
    /\ \A a \in form4 \cap Amendments :
        amends[a] = NoForm => BestOf(a, MayAmend(a, form4)) = NoForm
    /\ \A f \in Forms : form4Load[f].going =>
        form4Load[f].seen = form4 /\ \A g \in Forms : form4Load[g].going => g = f
    /\ LatestHasTheLines

LEMMA MayAmendIs ==
    ASSUME NEW a \in Forms, NEW seen \in SUBSET Forms
    PROVE  MayAmend(a, seen) \subseteq seen /\ IsFiniteSet(MayAmend(a, seen))
<1>1. MayAmend(a, seen) \subseteq seen
  BY DEF MayAmend
<1> QED  BY <1>1, FormsFacts, FS_Subset

\* The best of some is one of them, and of one it is that one.
LEMMA BestIs ==
    ASSUME NEW a \in Forms, NEW candidates \in SUBSET Forms
    PROVE  /\ BestOf(a, candidates) \in candidates \cup {NoForm}
           /\ \A f \in Forms : candidates = {f} => BestOf(a, candidates) = f
<1> DEFINE best == IF Cardinality(candidates) <= 1 THEN candidates
                   ELSE {f \in candidates : OwnersOf[f] = OwnersOf[a]}
<1>1. BestOf(a, candidates) = IF Cardinality(best) = 1 THEN CHOOSE f \in best : TRUE ELSE NoForm
  BY DEF BestOf
<1>2. best \subseteq candidates
  OBVIOUS
<1>3. IsFiniteSet(best)
  BY <1>2, FormsFacts, FS_Subset
<1>4. \A f : candidates = {f} => best = {f} /\ Cardinality(best) = 1
  BY FS_Singleton
<1> HIDE DEF best
<1>5. Cardinality(best) = 1 => best # {}
  BY FS_EmptySet
<1> QED  BY <1>1, <1>2, <1>4, <1>5

LEMMA BestOfSeveral ==
    ASSUME NEW a, NEW C, ~(Cardinality(C) <= 1),
           NEW S, S = {g \in C : OwnersOf[g] = OwnersOf[a]}
    PROVE  BestOf(a, C) = IF Cardinality(S) = 1 THEN CHOOSE g \in S : TRUE ELSE NoForm
<1> DEFINE best == IF Cardinality(C) <= 1 THEN C
                   ELSE {f \in C : OwnersOf[f] = OwnersOf[a]}
<1>1. BestOf(a, C) = IF Cardinality(best) = 1 THEN CHOOSE f \in best : TRUE ELSE NoForm
  BY DEF BestOf
<1>2. best = S
  OBVIOUS
<1> HIDE DEF best
<1> QED  BY <1>1, <1>2

\* One more to choose from is either itself the best, or leaves none where there
\* was none.
LEMMA BestOfMore ==
    ASSUME NEW a \in Forms, NEW C \in SUBSET Forms, NEW f \in Forms,
           BestOf(a, C) = NoForm
    PROVE  BestOf(a, C \cup {f}) \in {NoForm, f}
<1>1. CASE f \in C
  <2>1. C \cup {f} = C
    BY <1>1
  <2> QED  BY <2>1
<1>2. CASE C = {}
  <2>1. C \cup {f} = {f}
    BY <1>2
  <2> QED  BY <2>1, BestIs
<1>3. CASE f \notin C /\ C # {}
  <2> DEFINE Same == {g \in C : OwnersOf[g] = OwnersOf[a]}
  <2> DEFINE Now == {g \in C \cup {f} : OwnersOf[g] = OwnersOf[a]}
  <2>1. IsFiniteSet(C) /\ IsFiniteSet(Same)
    BY FormsFacts, FS_Subset
  <2>2. Cardinality(C) \in Nat /\ Cardinality(Same) \in Nat
    BY <2>1, FS_CardinalityType
  <2>3. Cardinality(C) # 0
    BY <1>3, <2>1, FS_EmptySet
  <2>4. Cardinality(C) # 1
    <3> SUFFICES ASSUME Cardinality(C) = 1 PROVE FALSE
      OBVIOUS
    <3>1. PICK g : C = {g}
      BY <2>1, FS_Singleton
    <3>2. g \in Forms /\ BestOf(a, C) = g
      BY <3>1, BestIs
    <3> QED  BY <3>2, FormsFacts
  <2>5. Cardinality(C \cup {f}) = Cardinality(C) + 1
    BY <1>3, <2>1, FS_AddElement
  <2>6. BestOf(a, C) = IF Cardinality(Same) = 1 THEN CHOOSE g \in Same : TRUE ELSE NoForm
    <3>1. ~(Cardinality(C) <= 1)
      BY <2>2, <2>3, <2>4
    <3> QED  BY <3>1, Zenon DEF BestOf
  <2>7. BestOf(a, C \cup {f}) = IF Cardinality(Now) = 1 THEN CHOOSE g \in Now : TRUE ELSE NoForm
    <3> DEFINE D == C \cup {f}
    <3>1. ~(Cardinality(D) <= 1)
      BY <2>2, <2>3, <2>5
    <3>2. Now = {g \in D : OwnersOf[g] = OwnersOf[a]}
      OBVIOUS
    <3> HIDE DEF D, Now
    <3>3. BestOf(a, D) = IF Cardinality(Now) = 1 THEN CHOOSE g \in Now : TRUE ELSE NoForm
      BY <3>1, <3>2, BestOfSeveral
    <3> QED  BY <3>3 DEF D
  <2>8. Same \subseteq Forms /\ Now \in {Same, Same \cup {f}} /\ f \notin Same
    BY <1>3
  <2> HIDE DEF Same, Now
  <2>9. Cardinality(Same) # 1
    <3> SUFFICES ASSUME Cardinality(Same) = 1 PROVE FALSE
      OBVIOUS
    <3>1. Same # {}
      BY FS_EmptySet
    <3> QED  BY <2>6, <2>8, <3>1, FormsFacts
  <2>10. CASE Now = Same
    BY <2>7, <2>9, <2>10
  <2>11. CASE Now = Same \cup {f} /\ Same # {}
    <3>1. Cardinality(Now) = Cardinality(Same) + 1
      BY <2>1, <2>8, <2>11, FS_AddElement
    <3>2. Cardinality(Same) # 0
      BY <2>1, <2>11, FS_EmptySet
    <3> QED  BY <2>2, <2>7, <3>1, <3>2
  <2>12. CASE Now = Same \cup {f} /\ Same = {}
    BY <2>7, <2>12
  <2> QED  BY <2>8, <2>10, <2>11, <2>12
<1> QED  BY <1>1, <1>2, <1>3

\* What loading f links: amendments with no link yet, loaded, to what they may
\* amend, f at one end; and it leaves none that has a best.
LEMMA LinksOf ==
    ASSUME InsiderInv, NEW f \in Forms,
           NEW now, now = form4 \cup {f}, NEW link, link = Linked(f, now)
    PROVE  /\ link \in Links
           /\ \A a \in Forms : link[a] # amends[a] =>
                /\ amends[a] = NoForm /\ (a = f \/ link[a] = f)
                /\ a \in now \cap Amendments /\ link[a] \in MayAmend(a, now)
           /\ \A a \in now \cap Amendments :
                link[a] = NoForm => BestOf(a, MayAmend(a, now)) = NoForm
<1>1. now \subseteq Forms /\ Amendments \subseteq Forms
      /\ amends \in [Forms -> Forms \cup {NoForm}]
  BY FormsAssumption DEF InsiderInv, InsiderTypeOK
<1>2. \A a \in Forms : MayAmend(a, now) \in SUBSET Forms
                       /\ MayAmend(a, now) \subseteq now
                       /\ BestOf(a, MayAmend(a, now)) \in MayAmend(a, now) \cup {NoForm}
  BY <1>1, MayAmendIs, BestIs
<1>3. \A a \in Forms : link[a] = IF a \in ToLink(f, now) THEN Link(a, now) ELSE amends[a]
  BY DEF Linked
<1>4. \A a \in Forms : Link(a, now) = IF amends[a] # NoForm THEN amends[a]
                                      ELSE BestOf(a, MayAmend(a, now))
  BY DEF Link
<1>5. ToLink(f, now) \subseteq now \cap Amendments
  BY DEF ToLink
<1>6. ASSUME NEW a \in form4 \cap Amendments, amends[a] = NoForm
      PROVE  /\ BestOf(a, MayAmend(a, now)) \in {NoForm, f}
             /\ f \notin MayAmend(a, now) => BestOf(a, MayAmend(a, now)) = NoForm
  <2>1. MayAmend(a, now) \in {MayAmend(a, form4), MayAmend(a, form4) \cup {f}}
        /\ (f \notin MayAmend(a, now) => MayAmend(a, now) = MayAmend(a, form4))
    BY DEF MayAmend
  <2>2. BestOf(a, MayAmend(a, form4)) = NoForm
    BY <1>6 DEF InsiderInv
  <2>3. a \in Forms /\ MayAmend(a, form4) \in SUBSET Forms
    BY <1>1, MayAmendIs
  <2>4. BestOf(a, MayAmend(a, form4) \cup {f}) \in {NoForm, f}
    BY <2>2, <2>3, BestOfMore
  <2> QED  BY <2>1, <2>2, <2>4
<1>7. link \in Links
  <2>1. ASSUME NEW a \in Forms PROVE link[a] \in Forms \cup {NoForm}
    <3>1. amends[a] \in Forms \cup {NoForm}
      BY <1>1
    <3>2. BestOf(a, MayAmend(a, now)) \in Forms \cup {NoForm}
      BY <1>2
    <3> QED  BY <1>3, <1>4, <3>1, <3>2
  <2>2. link = [a \in Forms |-> link[a]]
    BY DEF Linked
  <2> QED  BY <2>1, <2>2 DEF Links
<1>8. ASSUME NEW a \in Forms, link[a] # amends[a]
      PROVE  /\ amends[a] = NoForm /\ (a = f \/ link[a] = f)
             /\ a \in now \cap Amendments /\ link[a] \in MayAmend(a, now)
  <2>1. a \in now \cap Amendments /\ amends[a] = NoForm
        /\ link[a] = BestOf(a, MayAmend(a, now))
    BY <1>3, <1>4, <1>5, <1>8
  <2>2. link[a] \in MayAmend(a, now)
    BY <1>2, <1>8, <2>1
  <2>3. a # f => link[a] = f
    BY <1>6, <1>8, <2>1
  <2> QED  BY <2>1, <2>2, <2>3
<1>9. ASSUME NEW a \in now \cap Amendments, link[a] = NoForm
      PROVE  BestOf(a, MayAmend(a, now)) = NoForm
  <2>1. a \in Forms
    BY <1>1
  <2>2. CASE a \in ToLink(f, now)
    BY <1>3, <1>4, <1>9, <2>1, <2>2
  <2>3. CASE a \notin ToLink(f, now)
    <3>1. amends[a] = NoForm /\ a # f /\ ~(f < a /\ OriginalOn[a] = FiledOn[f])
      BY <1>3, <1>9, <2>1, <2>3 DEF ToLink
    <3>2. f \notin MayAmend(a, now)
      BY <3>1 DEF MayAmend
    <3> QED  BY <1>6, <3>1, <3>2
  <2> QED  BY <2>2, <2>3
<1> QED  BY <1>7, <1>8, <1>9

\* What a load commits keeps the latest filed of each chain, and no other, with
\* its lines.
LEMMA InsiderCommits ==
    ASSUME InsiderInv, NEW f \in Forms, CommitForm4(f)
    PROVE  InsiderInv'
<1> DEFINE now == form4Load[f].seen \cup {f}
           link == Linked(f, now)
           C == Chain(f, link)
<1>1. form4 \subseteq Forms /\ lines \subseteq form4 /\ amends \in Links
      /\ form4Load \in [Forms -> [going : BOOLEAN, seen : SUBSET Forms]]
  BY DEF InsiderInv, InsiderTypeOK, Links
<1>2. now = form4 \cup {f} /\ form4' = now /\ amends' = link
      /\ lines' = (lines \cup {f}) \ (C \ {Max(C)})
      /\ form4Load' = [form4Load EXCEPT ![f] = NotLoading]
  BY DEF CommitForm4, InsiderInv, Superseded
<1>3. /\ link \in Links
      /\ \A a \in Forms : link[a] # amends[a] =>
            /\ amends[a] = NoForm /\ (a = f \/ link[a] = f)
            /\ a \in now \cap Amendments /\ link[a] \in MayAmend(a, now)
      /\ \A a \in now \cap Amendments :
            link[a] = NoForm => BestOf(a, MayAmend(a, now)) = NoForm
  BY <1>2, LinksOf
<1> HIDE DEF now, link, C
<1>4. ASSUME NEW a \in Forms, link[a] # NoForm
      PROVE  a \in now \cap Amendments /\ link[a] \in MayAmend(a, now)
  <2>1. CASE link[a] # amends[a]
    BY <1>3, <2>1
  <2>2. CASE link[a] = amends[a]
    <3>1. a \in form4 \cap Amendments /\ link[a] \in MayAmend(a, form4)
      BY <1>4, <2>2 DEF InsiderInv
    <3> QED  BY <1>2, <3>1 DEF MayAmend
  <2> QED  BY <2>1, <2>2
<1>5. now \subseteq Forms /\ f \in now
  BY <1>1, <1>2
<1>6. f \in C /\ C \subseteq now
  <2>1. \A k \in Forms : link[k] # NoForm => k \in now /\ link[k] \in now
    BY <1>4, <1>5, MayAmendIs
  <2>2. Near(now, link) \subseteq now
    BY <1>5, <2>1, FormsFacts DEF Near
  <2> QED  BY <1>3, <1>5, <2>2, ChainIs DEF C
<1>7. Max(C) \in C /\ \A x \in C : x <= Max(C)
  BY <1>5, <1>6, FormsMax
<1>8. \A g \in Forms : /\ Chain(g, amends) \subseteq Chain(g, link)
                       /\ g \notin C => Chain(g, link) = Chain(g, amends)
  BY <1>1, <1>3, ChainsJoin DEF C
<1>9. Max(C) \in lines \cup {f}
  <2> DEFINE m == Max(C)
  <2>1. m \in C /\ m \in Forms /\ \A x \in C : x <= m
    BY <1>5, <1>6, <1>7
  <2> HIDE DEF m
  <2>2. Chain(m, link) = C
    BY <1>3, <2>1, ChainSame DEF C
  <2>3. m \in Chain(m, amends) /\ Chain(m, amends) \subseteq C
    BY <1>1, <1>8, <2>1, <2>2, ChainIs
  <2>4. Max(Chain(m, amends)) = m
    <3>1. Max(Chain(m, amends)) \in Chain(m, amends) /\ m <= Max(Chain(m, amends))
      BY <1>5, <1>6, <2>3, FormsMax
    <3>2. Max(Chain(m, amends)) <= m
      BY <2>1, <2>3, <3>1
    <3>3. m \in Nat /\ Max(Chain(m, amends)) \in Nat
      BY <1>5, <1>6, <2>1, <2>3, <3>1, FormsFacts
    <3> QED  BY <3>1, <3>2, <3>3
  <2>5. m \in form4 => m \in lines
    BY <2>4 DEF InsiderInv, LatestHasTheLines
  <2> QED  BY <1>2, <1>6, <2>1, <2>5 DEF m
<1>10. LatestHasTheLines'
  <2> SUFFICES ASSUME NEW g \in now
               PROVE  g \in lines' <=> g = Max(Chain(g, link))
    BY <1>2 DEF LatestHasTheLines
  <2>1. CASE g \in C
    <3>1. Chain(g, link) = C
      BY <1>3, <2>1, ChainSame DEF C
    <3> QED  BY <1>2, <1>9, <2>1, <3>1
  <2>2. CASE g \notin C
    <3>1. g # f /\ g \in form4 /\ Chain(g, link) = Chain(g, amends)
      BY <1>1, <1>2, <1>6, <1>8, <2>2
    <3>2. g \in lines <=> g = Max(Chain(g, amends))
      BY <3>1 DEF InsiderInv, LatestHasTheLines
    <3> QED  BY <1>2, <2>2, <3>1, <3>2
  <2> QED  BY <2>1, <2>2
<1>11. InsiderTypeOK'
  <2>1. lines' \subseteq now
    BY <1>1, <1>2
  <2>2. form4Load' \in [Forms -> [going : BOOLEAN, seen : SUBSET Forms]]
    BY <1>1, <1>2 DEF NotLoading
  <2> QED  BY <1>2, <1>3, <1>5, <2>1, <2>2 DEF InsiderTypeOK, Links
<1>12. \A g \in Forms : ~form4Load'[g].going
  BY <1>1, <1>2 DEF InsiderInv, CommitForm4, NotLoading
<1>13. \A a \in Forms : amends'[a] # NoForm =>
         a \in form4' \cap Amendments /\ amends'[a] \in MayAmend(a, form4')
  BY <1>2, <1>4
<1>14. \A a \in form4' \cap Amendments :
         amends'[a] = NoForm => BestOf(a, MayAmend(a, form4')) = NoForm
  BY <1>2, <1>3
<1> QED  BY <1>10, <1>11, <1>12, <1>13, <1>14 DEF InsiderInv, MayAmend, BestOf

LEMMA InsiderHolds == InsiderSpec => []InsiderInv
<1>1. InsiderInit => InsiderInv
  <2> SUFFICES ASSUME InsiderInit PROVE InsiderInv
    OBVIOUS
  <2>1. InsiderTypeOK
    BY DEF InsiderInit, InsiderTypeOK, NotLoading
  <2> QED  BY <2>1 DEF InsiderInit, InsiderInv, LatestHasTheLines, NotLoading
<1>2. InsiderInv /\ [InsiderNext]_insiderVars => InsiderInv'
  <2> SUFFICES ASSUME InsiderInv, [InsiderNext]_insiderVars PROVE InsiderInv'
    OBVIOUS
  <2>1. form4Load \in [Forms -> [going : BOOLEAN, seen : SUBSET Forms]]
    BY DEF InsiderInv, InsiderTypeOK
  <2>2. ASSUME NEW f \in Forms, BeginForm4(f) \/ FailForm4(f) PROVE InsiderInv'
    <3>1. InsiderTypeOK'
      <4>1. form4 \subseteq Forms
        BY DEF InsiderInv, InsiderTypeOK
      <4>2. form4Load' \in [Forms -> [going : BOOLEAN, seen : SUBSET Forms]]
        <5>1. PICK l \in {[going |-> TRUE, seen |-> form4], NotLoading} :
                form4Load' = [form4Load EXCEPT ![f] = l]
          BY <2>2 DEF BeginForm4, FailForm4
        <5>2. l \in [going : BOOLEAN, seen : SUBSET Forms]
          <6>1. CASE l = [going |-> TRUE, seen |-> form4]
            BY <4>1, <6>1
          <6>2. CASE l = [going |-> FALSE, seen |-> {}]
            BY <6>2
          <6> QED  BY <5>1, <6>1, <6>2 DEF NotLoading
        <5> QED  BY <2>1, <5>1, <5>2
      <4>3. UNCHANGED <<form4, amends, lines>>
        BY <2>2 DEF BeginForm4, FailForm4
      <4> QED  BY <4>2, <4>3 DEF InsiderInv, InsiderTypeOK
    <3>2. \A g \in Forms : form4Load'[g].going =>
            form4Load'[g].seen = form4' /\ \A h \in Forms : form4Load'[h].going => h = g
      BY <2>1, <2>2 DEF InsiderInv, BeginForm4, FailForm4, NotLoading, IssuerLocked
    <3>3. UNCHANGED <<form4, amends, lines>>
      BY <2>2 DEF BeginForm4, FailForm4
    <3> QED  BY <3>1, <3>2, <3>3 DEF InsiderInv, LatestHasTheLines
  <2>3. ASSUME NEW f \in Forms, CommitForm4(f) PROVE InsiderInv'
    BY <2>3, InsiderCommits
  <2>4. CASE UNCHANGED insiderVars
    BY <2>4 DEF insiderVars, InsiderInv, InsiderTypeOK, LatestHasTheLines
  <2> QED  BY <2>2, <2>3, <2>4 DEF InsiderNext
<1> QED  BY <1>1, <1>2, PTL DEF InsiderSpec

\* However an issuer's Form 4s and their amendments are loaded, and loaded again,
\* each amendment that could be of one filing only is linked to it, and of each
\* chain the latest filed alone has its lines.
THEOREM InPlace == InsiderSpec => []AmendmentsInPlace
<1>1. InsiderInv => AmendmentsInPlace
  <2> SUFFICES ASSUME InsiderInv PROVE AmendmentsInPlace
    OBVIOUS
  <2>1. form4 \subseteq Forms
    BY DEF InsiderInv, InsiderTypeOK
  <2>2. ASSUME NEW a \in form4 \cap Amendments, NEW f \in form4, MayAmend(a, form4) = {f}
        PROVE  amends[a] = f
    <3>1. BestOf(a, MayAmend(a, form4)) = f /\ f # NoForm
      BY <2>1, <2>2, BestIs, FormsFacts
    <3> QED  BY <2>1, <2>2, <3>1 DEF InsiderInv
  <2> QED  BY <2>2 DEF AmendmentsInPlace, OriginalIsFound, InsiderInv
<1> QED  BY <1>1, InsiderHolds, PTL

-----------------------------------------------------------------------------
(* PtrListings.                                                            *)

LEMMA YearsFollow ==
    ASSUME NEW d \in Nat, NEW e \in Nat, d <= e
    PROVE  YearOf(d) \in Nat /\ YearOf(e) \in Nat /\ YearOf(d) <= YearOf(e)
<1>1. DaysAYear \in Nat \ {0}
  BY ListingsAssumption
<1> QED  BY <1>1, Z3 DEF YearOf

LEMMA NewestIs ==
    ASSUME NEW now \in Nat, NEW ptrs \in SUBSET Ptrs
    PROVE  Newest(now, ptrs) \in 0 .. now
<1> DEFINE S == {0} \cup UpTo(now, {DateOf[p] : p \in ptrs})
<1>1. S \in SUBSET (0 .. now) /\ S # {}
  BY ListingsAssumption DEF UpTo, Ptrs
<1> HIDE DEF S
<1>2. Max(S) \in 0 .. now
  BY <1>1, BoundedMax
<1> QED  BY <1>2 DEF Newest, S

LEMMA MaxOfTwo ==
    ASSUME NEW a \in Int, NEW b \in Int
    PROVE  Max({a, b}) = IF a >= b THEN a ELSE b
  BY DEF Max

LEMMA MinOfTwo ==
    ASSUME NEW a \in Int, NEW b \in Int
    PROVE  Min({a, b}) = IF a <= b THEN a ELSE b
  BY DEF Min

HouseRecords ==
    [step : {"idle", "reading"}, years : Seq(Nat), today : Nat, moves : BOOLEAN, byHand : BOOLEAN,
     first : Nat, before : Nat, newest : Nat, failed : BOOLEAN]
SearchRecords ==
    [step : {"idle", "searching", "listed", "stored"}, from : Nat, last : Nat, today : Nat,
     moves : BOOLEAN, byHand : BOOLEAN, before : Nat, counted : Int, rows : SUBSET SenatePtrs,
     start : Nat, pages : Nat, gained : BOOLEAN, passed : SUBSET SenatePtrs]

Unknown == onList \ (known \cup leftOut)

\* A report listed since a run began was filed late enough for what the run makes the
\* mark; any other is where the mark the run began with has a catch-up look, or a run
\* by hand that began with none leaves it out.
HouseBegan(h, day) ==
    /\ h.today \in 1 .. day /\ h.before \in 0 .. h.today /\ h.newest \in 0 .. h.today
    /\ ~h.byHand => h.before # 0
         /\ (h.first = 0 \/ h.first = YearOf(h.before) - LookbackYears)
ToRead(h, p) ==
    \/ IndexYear[p] \in Range(h.years) \/ IndexYear[p] < h.first
    \/ IndexYear[p] >= YearOf(h.today) - LookbackYears
HouseKnows(h, unknown, day) ==
    h.step = "reading" =>
        /\ HouseBegan(h, day)
        /\ \A p \in unknown \cap HousePtrs :
            /\ h.before # 0 => IndexYear[p] >= YearOf(h.before) - LookbackYears
            /\ h.moves /\ ~h.failed => ToRead(h, p)

\* What a search has read and has yet to is all it counted, unless its list has gained
\* any; and what it has passed, of before the days it looks back, it has read, unless
\* a withdrawal moved that past it.
SearchBegan(q, day) ==
    /\ q.today \in 1 .. day /\ q.before \in 0 .. q.today
    /\ q.moves => q.last >= q.today
    /\ ~q.byHand => q.before # 0 /\ (q.from = 1 \/ q.from = q.before - LookbackDays)
    /\ q.pages = 0 => q.step = "searching" /\ q.rows = {} /\ q.start = 0 /\ q.counted = -1
ListedFor(q, listed) == {p \in listed \cap SenatePtrs : DateOf[p] \in q.from .. q.last}
Owed(q, unknown) == {p \in ListedFor(q, unknown) : DateOf[p] < q.today - LookbackDays}
CountedAll(q, list, owed) ==
    \E all \in SUBSET SenatePtrs :
        /\ owed \subseteq all /\ q.rows \subseteq all /\ q.counted = Cardinality(all)
        /\ q.step = "searching" => list \subseteq all
Passed(q, list, owed) ==
    \A p \in owed : \/ p \in q.rows \/ p \in q.passed
                    \/ q.step = "searching" /\ Rank(p, list) > q.start
SearchKnows(q, unknown, listed, stored, day) ==
    q.step # "idle" =>
        /\ SearchBegan(q, day)
        /\ q.step = "stored" => q.rows \subseteq stored
        /\ \A p \in unknown \cap SenatePtrs :
            q.before # 0 => DateOf[p] >= q.before - LookbackDays
        /\ q.pages > 0 =>
            /\ q.counted \in Nat
            /\ ~q.gained => CountedAll(q, ListedFor(q, listed), Owed(q, unknown))
            /\ Passed(q, ListedFor(q, listed), Owed(q, unknown))

ListingsInv ==
    /\ date \in Nat \ {0} /\ houseMark \in 0 .. date /\ senateMark \in 0 .. date
    /\ onList \subseteq Ptrs /\ known \subseteq Ptrs /\ leftOut \subseteq Ptrs
    /\ houseRun \in [HouseRuns -> HouseRecords] /\ search \in [SenateRuns -> SearchRecords]
    /\ \A r \in HouseRuns : HouseKnows(houseRun[r], Unknown, date)
    /\ \A r \in SenateRuns : SearchKnows(search[r], Unknown, onList, known, date)
    /\ NoneOverlooked

LEMMA NoRunHolds ==
    /\ NoHouseRun \in HouseRecords /\ NoSearch \in SearchRecords
    /\ NoHouseRun.step = "idle" /\ NoSearch.step = "idle"
  BY DEF NoHouseRun, NoSearch, HouseRecords, SearchRecords

\* What a House run knows goes on being so while reports are listed and become known.
LEMMA HouseStays ==
    ASSUME NEW h \in HouseRecords, NEW unknown, NEW day \in Nat, HouseKnows(h, unknown, day),
           NEW unknownNow \in SUBSET Ptrs, NEW now \in Nat, day <= now,
           \A p \in unknownNow \cap HousePtrs :
              p \in unknown \/ IndexYear[p] >= YearOf(day) - LookbackYears
    PROVE  HouseKnows(h, unknownNow, now)
<1> SUFFICES ASSUME h.step = "reading" PROVE HouseKnows(h, unknownNow, now)
  BY DEF HouseKnows
<1>1. HouseBegan(h, now)
  BY DEF HouseKnows, HouseBegan
<1>2. ASSUME NEW p \in unknownNow \cap HousePtrs
      PROVE  /\ h.before # 0 => IndexYear[p] >= YearOf(h.before) - LookbackYears
             /\ h.moves /\ ~h.failed => ToRead(h, p)
  <2>1. CASE p \in unknown
    BY <2>1 DEF HouseKnows
  <2>2. CASE IndexYear[p] >= YearOf(day) - LookbackYears
    <3>1. h.before <= day /\ h.today <= day /\ h.before \in Nat /\ h.today \in Nat
      BY DEF HouseKnows, HouseBegan, HouseRecords
    <3>2. YearOf(h.before) <= YearOf(day) /\ YearOf(h.today) <= YearOf(day)
          /\ YearOf(day) \in Nat /\ YearOf(h.before) \in Nat /\ YearOf(h.today) \in Nat
      BY <3>1, YearsFollow
    <3>3. IndexYear[p] \in Nat /\ LookbackYears \in Nat
      BY ListingsAssumption
    <3> QED  BY <2>2, <3>2, <3>3 DEF ToRead
  <2> QED  BY <1>2, <2>1, <2>2
<1> QED  BY <1>1, <1>2 DEF HouseKnows

LEMMA RankIs ==
    ASSUME NEW list \in SUBSET SenatePtrs, NEW more \in SUBSET SenatePtrs, list \subseteq more,
           NEW p \in list
    PROVE  /\ Rank(p, list) \in 1 .. Cardinality(list) /\ Cardinality(list) \in Nat
           /\ Rank(p, list) <= Rank(p, more) /\ Rank(p, more) \in Nat
<1> DEFINE upTo == {o \in list : PlaceOf[o] <= PlaceOf[p]}
<1> DEFINE upToNow == {o \in more : PlaceOf[o] <= PlaceOf[p]}
<1>1. IsFiniteSet(SenatePtrs) /\ PlaceOf[p] \in Nat
  BY ListingsAssumption
<1>2. p \in upTo /\ upTo \subseteq list /\ upTo \subseteq upToNow /\ upToNow \subseteq more
  BY <1>1
<1>3. Rank(p, list) = Cardinality(upTo) /\ Rank(p, more) = Cardinality(upToNow)
  BY DEF Rank
<1> HIDE DEF upTo, upToNow
<1>4. IsFiniteSet(list) /\ IsFiniteSet(more)
  BY <1>1, FS_Subset
<1>5. IsFiniteSet(upTo) /\ IsFiniteSet(upToNow)
  BY <1>2, <1>4, FS_Subset
<1>6. Cardinality(upTo) <= Cardinality(list) /\ Cardinality(upTo) <= Cardinality(upToNow)
  BY <1>2, <1>4, <1>5, FS_Subset
<1>7. Cardinality(upTo) \in Nat /\ Cardinality(upToNow) \in Nat /\ Cardinality(list) \in Nat
  BY <1>4, <1>5, FS_CardinalityType
<1>8. Cardinality(upTo) # 0
  BY <1>2, <1>5, FS_EmptySet
<1> QED  BY <1>3, <1>6, <1>7, <1>8

\* So does a search while its list changes: what has become unknown is recent, what
\* its list has gained between its pages it is told of, and so of what has moved.
LateEnough(now, before, day) ==
    \A p \in now \cap SenatePtrs : p \in before \/ DateOf[p] >= day - LookbackDays
IsTold(q, told, listed, now) ==
    /\ told = [q EXCEPT !.gained = told.gained, !.passed = told.passed]
    /\ q.gained => told.gained
    /\ q.step = "searching" /\ q.pages > 0 /\ ~told.gained => ListedFor(q, now) \subseteq ListedFor(q, listed)
    /\ q.passed \subseteq told.passed
    /\ q.step = "searching" =>
        \A p \in ListedFor(q, listed) \cap ListedFor(q, now) :
            Rank(p, ListedFor(q, listed)) > q.start =>
                p \in told.passed \/ Rank(p, ListedFor(q, now)) > q.start
LEMMA SearchStays ==
    ASSUME NEW q \in SearchRecords, NEW listed \in SUBSET Ptrs, NEW now \in SUBSET Ptrs,
           NEW unknown \in SUBSET listed, NEW unknownNow \in SUBSET now,
           NEW stored, NEW day \in Nat,
           SearchKnows(q, unknown, listed, stored, day), LateEnough(unknownNow, unknown, day),
           NEW told \in SearchRecords, IsTold(q, told, listed, now)
    PROVE  SearchKnows(told, unknownNow, now, stored, day)
<1>2. /\ told.step = q.step /\ told.from = q.from /\ told.last = q.last /\ told.today = q.today
      /\ told.moves = q.moves /\ told.byHand = q.byHand /\ told.before = q.before
      /\ told.counted = q.counted /\ told.rows = q.rows /\ told.start = q.start
      /\ told.pages = q.pages
  BY DEF SearchRecords, IsTold
<1> SUFFICES ASSUME q.step # "idle" PROVE SearchKnows(told, unknownNow, now, stored, day)
  BY <1>2 DEF SearchKnows
<1>3. q.today \in Nat /\ q.before \in Nat /\ q.start \in Nat /\ q.today <= day /\ q.before <= day
  BY DEF SearchKnows, SearchBegan, SearchRecords
<1>4. \A p \in SenatePtrs : DateOf[p] \in Nat
  BY ListingsAssumption
<1>5. LookbackDays \in Nat
  BY ListingsAssumption
<1> DEFINE L == ListedFor(q, listed)
           M == ListedFor(q, now)
<1>6. ListedFor(told, now) = M
      /\ Owed(told, unknownNow) = Owed(q, unknownNow)
  BY <1>2 DEF ListedFor, Owed
<1>61. Owed(q, unknownNow) \subseteq Owed(q, unknown) /\ Owed(q, unknown) \subseteq L
       /\ Owed(q, unknownNow) \subseteq M
  BY <1>3, <1>4, <1>5 DEF LateEnough, Owed, ListedFor
<1>7. SearchBegan(told, day)
  BY <1>2 DEF SearchKnows, SearchBegan
<1>8. q.step = "stored" => q.rows \subseteq stored
  BY DEF SearchKnows
<1>9. \A p \in unknownNow \cap SenatePtrs : q.before # 0 => DateOf[p] >= q.before - LookbackDays
  BY <1>3, <1>4, <1>5 DEF SearchKnows, LateEnough
<1>10. ASSUME q.pages > 0, ~told.gained PROVE CountedAll(told, M, Owed(q, unknownNow))
  <2>1. q.step = "searching" => M \subseteq L
    BY <1>10 DEF IsTold
  <2>2. CountedAll(q, L, Owed(q, unknown))
    BY <1>10 DEF SearchKnows, IsTold
  <2> HIDE DEF L, M
  <2> QED  BY <1>2, <1>61, <2>1, <2>2 DEF CountedAll
<1>11. ASSUME q.pages > 0 PROVE Passed(told, M, Owed(q, unknownNow))
  <2>1. Passed(q, L, Owed(q, unknown))
    BY <1>11 DEF SearchKnows
  <2>2. /\ q.passed \subseteq told.passed
        /\ q.step = "searching" =>
            \A p \in L \cap M : Rank(p, L) > q.start => p \in told.passed \/ Rank(p, M) > q.start
    BY DEF IsTold
  <2> HIDE DEF L, M
  <2> QED  BY <1>2, <1>61, <2>1, <2>2 DEF Passed
<1>12. q.pages > 0 => q.counted \in Nat
  BY DEF SearchKnows
<1> HIDE DEF L, M
<1> QED  BY <1>2, <1>6, <1>7, <1>8, <1>9, <1>10, <1>11, <1>12 DEF SearchKnows

LEMMA SearchGoesOn ==
    ASSUME NEW q \in SearchRecords, NEW unknown, NEW unknownNow \in SUBSET Ptrs,
           unknownNow \subseteq unknown, NEW listed \in SUBSET Ptrs,
           NEW stored, NEW storedNow, stored \subseteq storedNow,
           NEW day \in Nat, NEW now \in Nat, day <= now,
           SearchKnows(q, unknown, listed, stored, day)
    PROVE  SearchKnows(q, unknownNow, listed, storedNow, now)
<1>1. q.step # "idle" => SearchBegan(q, now)
  BY DEF SearchKnows, SearchBegan
<1>2. Owed(q, unknownNow) \subseteq Owed(q, unknown)
  BY DEF Owed, ListedFor
<1>3. q.pages > 0 /\ q.step # "idle" =>
        /\ q.counted \in Nat
        /\ ~q.gained => CountedAll(q, ListedFor(q, listed), Owed(q, unknownNow))
        /\ Passed(q, ListedFor(q, listed), Owed(q, unknownNow))
  BY <1>2 DEF SearchKnows, CountedAll, Passed
<1> QED  BY <1>1, <1>3 DEF SearchKnows

\* Steps other than EDGAR's and eFD's only make reports known or left out.
LEMMA RunsStay ==
    ASSUME ListingsInv, date' = date, onList' = onList,
           known \subseteq known', leftOut \subseteq leftOut'
    PROVE  /\ \A r \in HouseRuns : HouseKnows(houseRun[r], Unknown', date')
           /\ \A r \in SenateRuns : SearchKnows(search[r], Unknown', onList', known', date')
<1>1. date \in Nat /\ onList \in SUBSET Ptrs
  BY DEF ListingsInv
<1>2. Unknown' \in SUBSET Ptrs /\ Unknown' \subseteq Unknown
  BY <1>1 DEF Unknown
<1>3. ASSUME NEW r \in HouseRuns PROVE HouseKnows(houseRun[r], Unknown', date')
  <2>1. houseRun[r] \in HouseRecords /\ HouseKnows(houseRun[r], Unknown, date)
    BY DEF ListingsInv
  <2> QED  BY <1>1, <1>2, <2>1, HouseStays
<1>4. ASSUME NEW r \in SenateRuns PROVE SearchKnows(search[r], Unknown', onList', known', date')
  <2> DEFINE q == search[r]
  <2>1. q \in SearchRecords /\ SearchKnows(q, Unknown, onList, known, date)
    BY DEF ListingsInv
  <2> HIDE DEF q
  <2>3. SearchKnows(q, Unknown', onList, known', date)
    BY <1>1, <1>2, <2>1, SearchGoesOn
  <2> QED  BY <2>3 DEF q
<1> QED  BY <1>3, <1>4

LEMMA OneHouseRunMoves ==
    ASSUME ListingsInv, NEW r \in HouseRuns, NEW h \in HouseRecords,
           houseRun' = [houseRun EXCEPT ![r] = h], UNCHANGED search,
           date' = date, onList' = onList,
           known \subseteq known', known' \subseteq Ptrs,
           leftOut \subseteq leftOut', leftOut' \subseteq Ptrs,
           HouseKnows(h, Unknown', date),
           houseMark' \in 0 .. date, senateMark' = senateMark, NoneOverlooked'
    PROVE  ListingsInv'
<1>1. houseRun \in [HouseRuns -> HouseRecords]
  BY DEF ListingsInv
<1>2. houseRun' \in [HouseRuns -> HouseRecords]
      /\ \A s \in HouseRuns : houseRun'[s] = IF s = r THEN h ELSE houseRun[s]
  BY <1>1
<1>3. /\ \A s \in HouseRuns : HouseKnows(houseRun[s], Unknown', date')
      /\ \A s \in SenateRuns : SearchKnows(search[s], Unknown', onList', known', date')
  BY RunsStay
<1>4. \A s \in HouseRuns : HouseKnows(houseRun'[s], Unknown', date')
  BY <1>2, <1>3
<1> QED  BY <1>2, <1>3, <1>4 DEF ListingsInv

LEMMA OneSearchMoves ==
    ASSUME ListingsInv, NEW r \in SenateRuns, NEW q \in SearchRecords,
           search' = [search EXCEPT ![r] = q], UNCHANGED houseRun,
           date' = date, onList' = onList,
           known \subseteq known', known' \subseteq Ptrs,
           leftOut \subseteq leftOut', leftOut' \subseteq Ptrs,
           SearchKnows(q, Unknown', onList, known', date),
           senateMark' \in 0 .. date, houseMark' = houseMark, NoneOverlooked'
    PROVE  ListingsInv'
<1>1. search \in [SenateRuns -> SearchRecords]
  BY DEF ListingsInv
<1>2. search' \in [SenateRuns -> SearchRecords]
      /\ \A s \in SenateRuns : search'[s] = IF s = r THEN q ELSE search[s]
  BY <1>1
<1>3. /\ \A s \in HouseRuns : HouseKnows(houseRun[s], Unknown', date')
      /\ \A s \in SenateRuns : SearchKnows(search[s], Unknown', onList', known', date')
  BY RunsStay
<1>4. \A s \in SenateRuns : SearchKnows(search'[s], Unknown', onList', known', date')
  BY <1>2, <1>3
<1> QED  BY <1>2, <1>3, <1>4 DEF ListingsInv

\* With the watermarks as they were, none is left behind them that was not.
LEMMA NoneLeft ==
    ASSUME ListingsInv, UNCHANGED <<onList, houseMark, senateMark>>,
           known \subseteq known', leftOut \subseteq leftOut'
    PROVE  NoneOverlooked'
  BY DEF ListingsInv, NoneOverlooked

-----------------------------------------------------------------------------

LEMMA ListingsInitHolds == ListingsInit => ListingsInv
<1> SUFFICES ASSUME ListingsInit PROVE ListingsInv
  OBVIOUS
<1>1. /\ houseRun \in [HouseRuns -> HouseRecords] /\ search \in [SenateRuns -> SearchRecords]
      /\ \A r \in HouseRuns : houseRun[r].step = "idle"
      /\ \A r \in SenateRuns : search[r].step = "idle"
  BY NoRunHolds DEF ListingsInit
<1>2. NoneOverlooked
  BY DEF ListingsInit, NoneOverlooked
<1> QED  BY <1>1, <1>2 DEF ListingsInit, ListingsInv, HouseKnows, SearchKnows

LEMMA NextDateHolds == ListingsInv /\ NextDate => ListingsInv'
<1> SUFFICES ASSUME ListingsInv, NextDate PROVE ListingsInv'
  OBVIOUS
<1>1. date \in Nat /\ date' \in Nat \ {0} /\ date <= date' /\ onList \in SUBSET Ptrs
      /\ UNCHANGED <<onList, known, houseMark, senateMark, houseRun, search, leftOut>>
  BY DEF NextDate, ListingsInv
<1>2. Unknown \in SUBSET Ptrs /\ Unknown' = Unknown
  BY <1>1 DEF Unknown
<1>3. ASSUME NEW r \in HouseRuns PROVE HouseKnows(houseRun[r], Unknown, date')
  <2>1. houseRun[r] \in HouseRecords /\ HouseKnows(houseRun[r], Unknown, date)
    BY DEF ListingsInv
  <2> QED  BY <1>1, <1>2, <2>1, HouseStays
<1>4. ASSUME NEW r \in SenateRuns PROVE SearchKnows(search[r], Unknown, onList, known, date')
  <2> DEFINE q == search[r]
  <2>1. q \in SearchRecords /\ SearchKnows(q, Unknown, onList, known, date)
    BY DEF ListingsInv
  <2> HIDE DEF q
  <2>3. SearchKnows(q, Unknown, onList, known, date')
    BY <1>1, <1>2, <2>1, SearchGoesOn
  <2> QED  BY <2>3 DEF q
<1>5. NoneOverlooked'
  BY <1>1 DEF ListingsInv, NoneOverlooked
<1>6. houseMark' \in 0 .. date' /\ senateMark' \in 0 .. date'
  BY <1>1 DEF ListingsInv
<1> QED  BY <1>1, <1>2, <1>3, <1>4, <1>5, <1>6 DEF ListingsInv

\* What the Clerk or eFD lists is near enough to the day for any watermark, or late.
LEMMA ListHolds == ASSUME ListingsInv, NEW p \in Ptrs, List(p) PROVE ListingsInv'
<1>1. date \in Nat \ {0} /\ onList' = onList \cup {p} /\ onList \in SUBSET Ptrs /\ onList' \in SUBSET Ptrs
      /\ UNCHANGED <<date, known, houseMark, senateMark, houseRun>>
  BY DEF List, ListingsInv
<1>11. search' = [r \in SenateRuns |-> [search[r] EXCEPT !.gained = @ \/ Gains(search[r], p)]]
  BY Zenon DEF List
<1>12. leftOut' \subseteq Ptrs /\ leftOut \ {p} \subseteq leftOut'
  BY DEF List, ListingsInv, Late
<1>2. /\ Unknown \in SUBSET onList /\ Unknown' \in SUBSET onList' /\ Unknown' \in SUBSET Ptrs
      /\ Unknown' \subseteq Unknown \cup {p} /\ (p \in Unknown' => p \notin leftOut')
  BY <1>1, <1>12 DEF Unknown
<1>3. p \notin leftOut' =>
        /\ p \in HousePtrs => p \notin SenatePtrs /\ IndexYear[p] >= YearOf(date) - LookbackYears
        /\ p \in SenatePtrs => p \notin HousePtrs /\ DateOf[p] >= date - LookbackDays
  <2>1. HousePtrs \cap SenatePtrs = {} /\ IndexYear \in [HousePtrs -> Nat]
        /\ DateOf \in [HousePtrs \cup SenatePtrs -> Nat \ {0}]
        /\ LookbackYears \in Nat /\ LookbackDays \in Nat
    BY ListingsAssumption
  <2>2. YearOf(date) \in Nat
    BY <1>1, YearsFollow
  <2>3. CASE p \in HousePtrs
    BY <2>1, <2>2, <2>3 DEF List, Late
  <2>4. CASE p \notin HousePtrs
    BY <1>1, <2>1, <2>4 DEF List, Late
  <2> QED  BY <2>3, <2>4
<1>4. ASSUME NEW r \in HouseRuns PROVE HouseKnows(houseRun[r], Unknown', date)
  <2>1. houseRun[r] \in HouseRecords /\ HouseKnows(houseRun[r], Unknown, date)
    BY DEF ListingsInv
  <2>2. \A o \in Unknown' \cap HousePtrs :
            o \in Unknown \/ IndexYear[o] >= YearOf(date) - LookbackYears
    BY <1>2, <1>3
  <2> QED  BY <1>1, <1>2, <2>1, <2>2, HouseStays
<1>5. ASSUME NEW r \in SenateRuns
      PROVE  search'[r] \in SearchRecords /\ SearchKnows(search'[r], Unknown', onList', known, date)
  <2> DEFINE q == search[r]
             told == search'[r]
  <2>1. q \in SearchRecords /\ SearchKnows(q, Unknown, onList, known, date)
    BY DEF ListingsInv
  <2>11. told = [q EXCEPT !.gained = @ \/ Gains(q, p)]
    BY <1>11, Zenon
  <2> HIDE DEF q, told
  <2>2. told \in SearchRecords /\ told.passed = q.passed /\ told.start = q.start
        /\ (told.gained <=> q.gained \/ Gains(q, p))
    BY <2>1, <2>11, Zenon DEF SearchRecords
  <2>3. told = [q EXCEPT !.gained = told.gained, !.passed = told.passed]
    BY <2>1, <2>11 DEF SearchRecords, Gains
  <2>4. LateEnough(Unknown', Unknown, date)
    BY <1>2, <1>3 DEF LateEnough
  <2>5. q.step = "searching" /\ q.pages > 0 /\ ~told.gained => ListedFor(q, onList') \subseteq ListedFor(q, onList)
    BY <1>1, <2>2 DEF Gains, ListedFor
  <2>6. ASSUME NEW o \in ListedFor(q, onList) \cap ListedFor(q, onList'), Rank(o, ListedFor(q, onList)) > q.start
        PROVE  Rank(o, ListedFor(q, onList')) > q.start
    <3>1. ListedFor(q, onList) \in SUBSET SenatePtrs /\ ListedFor(q, onList') \in SUBSET SenatePtrs
          /\ ListedFor(q, onList) \subseteq ListedFor(q, onList')
      BY <1>1 DEF ListedFor
    <3>2. Rank(o, ListedFor(q, onList)) \in Nat /\ Rank(o, ListedFor(q, onList')) \in Nat
          /\ Rank(o, ListedFor(q, onList)) <= Rank(o, ListedFor(q, onList'))
      BY <3>1, RankIs
    <3>3. q.start \in Nat
      BY <2>1 DEF SearchRecords
    <3> QED  BY <2>6, <3>2, <3>3
  <2>8. IsTold(q, told, onList, onList')
    BY <2>2, <2>3, <2>5, <2>6 DEF IsTold
  <2>9. SearchKnows(told, Unknown', onList', known, date)
    BY <1>1, <1>2, <2>1, <2>2, <2>4, <2>8, SearchStays
  <2> QED  BY <2>2, <2>9 DEF told
<1>6. search' \in [SenateRuns -> SearchRecords]
  BY <1>5, <1>11
<1>7. NoneOverlooked'
  <2> SUFFICES ASSUME NEW o \in Unknown'
               PROVE  /\ o \in HousePtrs /\ houseMark # 0 => IndexYear[o] >= YearOf(houseMark) - LookbackYears
                      /\ o \notin HousePtrs /\ senateMark # 0 => DateOf[o] >= senateMark - LookbackDays
    BY <1>1 DEF NoneOverlooked, Unknown
  <2>1. CASE o \in Unknown
    BY <2>1 DEF ListingsInv, NoneOverlooked, Unknown
  <2>2. CASE o = p
    <3>1. /\ LookbackYears \in Nat /\ LookbackDays \in Nat
          /\ o \in HousePtrs => IndexYear[o] \in Nat
          /\ o \in SenatePtrs => DateOf[o] \in Nat
      BY ListingsAssumption
    <3>2. houseMark \in Nat /\ houseMark <= date /\ senateMark \in Nat /\ senateMark <= date
      BY DEF ListingsInv
    <3>3. YearOf(houseMark) <= YearOf(date) /\ YearOf(houseMark) \in Nat /\ YearOf(date) \in Nat
      BY <1>1, <3>2, YearsFollow
    <3>4. o \in HousePtrs \/ o \in SenatePtrs
      BY <2>2 DEF Ptrs
    <3> QED  BY <1>1, <1>2, <1>3, <2>2, <3>1, <3>2, <3>3, <3>4
  <2> QED  BY <1>2, <2>1, <2>2
<1> QED  BY <1>1, <1>4, <1>5, <1>6, <1>7, <1>12 DEF ListingsInv

LEMMA WithdrawHolds == ASSUME ListingsInv, NEW p \in Ptrs, Withdraw(p) PROVE ListingsInv'
<1>1. date \in Nat \ {0} /\ onList' = onList \ {p} /\ p \notin HousePtrs
      /\ onList \in SUBSET Ptrs /\ onList' \in SUBSET Ptrs
      /\ UNCHANGED <<date, known, houseMark, senateMark, houseRun, leftOut>>
      /\ search' = [r \in SenateRuns |-> [search[r] EXCEPT !.passed = @ \cup ShiftedPast(search[r], p)]]
  BY DEF Withdraw, ListingsInv
<1>2. /\ Unknown \in SUBSET onList /\ Unknown' \in SUBSET onList'
      /\ Unknown' \in SUBSET Ptrs /\ Unknown' \subseteq Unknown
  BY <1>1 DEF Unknown
<1>3. ASSUME NEW r \in HouseRuns PROVE HouseKnows(houseRun[r], Unknown', date)
  <2>1. houseRun[r] \in HouseRecords /\ HouseKnows(houseRun[r], Unknown, date)
    BY DEF ListingsInv
  <2> QED  BY <1>1, <1>2, <2>1, HouseStays
<1>4. ASSUME NEW r \in SenateRuns
      PROVE  search'[r] \in SearchRecords /\ SearchKnows(search'[r], Unknown', onList', known, date)
  <2> DEFINE q == search[r]
             told == search'[r]
             past == ShiftedPast(q, p)
  <2>1. q \in SearchRecords /\ SearchKnows(q, Unknown, onList, known, date)
    BY DEF ListingsInv
  <2>11. told = [q EXCEPT !.passed = @ \cup past]
    BY <1>1
  <2> HIDE DEF q, told
  <2>12. ListedFor(q, onList) = Listing(q) /\ ListedFor(q, onList') = Listing(q) \ {p}
         /\ Listing(q) \in SUBSET SenatePtrs
    BY <1>1 DEF ListedFor, Listing
  <2>13. past \in SUBSET SenatePtrs
    BY <2>12 DEF ShiftedPast
  <2>14. ASSUME NEW o \in Listing(q) \cap (Listing(q) \ {p}), q.step = "searching",
                Rank(o, Listing(q)) > q.start
         PROVE  o \in past \/ Rank(o, Listing(q) \ {p}) > q.start
    <3>1. Rank(o, Listing(q) \ {p}) \in Nat /\ q.start \in Nat
      BY <2>1, <2>12, RankIs DEF SearchRecords
    <3> QED  BY <2>14, <3>1 DEF ShiftedPast
  <2> HIDE DEF past
  <2>2. told \in SearchRecords /\ told.passed = q.passed \cup past /\ told.gained = q.gained
    BY <2>1, <2>11, <2>13 DEF SearchRecords
  <2>3. told = [q EXCEPT !.gained = told.gained, !.passed = told.passed]
    BY <2>1, <2>11 DEF SearchRecords
  <2>4. LateEnough(Unknown', Unknown, date)
    BY <1>2 DEF LateEnough
  <2>5. ListedFor(q, onList') \subseteq ListedFor(q, onList)
    BY <1>1 DEF ListedFor
  <2>8. IsTold(q, told, onList, onList')
    BY <2>2, <2>3, <2>5, <2>12, <2>14 DEF IsTold
  <2>9. SearchKnows(told, Unknown', onList', known, date)
    BY <1>1, <1>2, <2>1, <2>2, <2>4, <2>8, SearchStays
  <2> QED  BY <2>2, <2>9 DEF told
<1>5. search' \in [SenateRuns -> SearchRecords]
  BY <1>1, <1>4
<1>6. NoneOverlooked'
  BY <1>1 DEF ListingsInv, NoneOverlooked
<1> QED  BY <1>1, <1>3, <1>4, <1>5, <1>6 DEF ListingsInv

-----------------------------------------------------------------------------
(* The House's runs.                                                       *)

LEMMA YearsFromIs ==
    ASSUME date \in Nat, NEW first \in 0 .. YearOf(date)
    PROVE  /\ YearsFrom(first) \in Seq(Nat) /\ Head(YearsFrom(first)) = first
           /\ \A y \in first .. YearOf(date) : y \in Range(YearsFrom(first))
<1> DEFINE n == YearOf(date) - first + 1
           years == YearsFrom(first)
<1>1. YearOf(date) \in Nat
  BY YearsFollow
<1>2. n \in Nat \ {0} /\ first \in Nat
  BY <1>1
<1>3. years = [i \in 1 .. n |-> first + i - 1]
  BY DEF YearsFrom
<1>4. years \in Seq(Nat) /\ Len(years) = n /\ DOMAIN years = 1 .. n
  BY <1>2, <1>3
<1>5. Head(years) = years[1] /\ years[1] = first
  BY <1>2, <1>3, <1>4
<1>6. ASSUME NEW y \in first .. YearOf(date) PROVE y \in Range(years)
  <2>1. y - first + 1 \in 1 .. n /\ years[y - first + 1] = y
    BY <1>1, <1>2, <1>3
  <2> QED  BY <1>4, <2>1 DEF Range
<1> QED  BY <1>4, <1>5, <1>6

LEMMA BeganIs ==
    ASSUME date \in Nat, houseMark \in Nat, NEW years \in Seq(Nat), Head(years) \in Nat,
           NEW moves \in BOOLEAN, NEW byHand \in BOOLEAN, NEW r, BeginHouse(r, years, moves, byHand)
    PROVE  \E h \in HouseRecords :
             /\ houseRun' = [houseRun EXCEPT ![r] = h]
             /\ UNCHANGED <<date, onList, known, houseMark, senateMark, search, leftOut>>
             /\ h.step = "reading" /\ h.today = date /\ h.before = houseMark /\ h.newest = 0
             /\ h.first = Head(years) /\ h.years = years
             /\ (h.moves <=> moves) /\ (h.byHand <=> byHand)
<1>1. PICK h :
        /\ h = [NoHouseRun EXCEPT !.step = "reading", !.years = years, !.today = date,
                    !.moves = moves, !.byHand = byHand, !.first = Head(years), !.before = houseMark]
        /\ houseRun' = [houseRun EXCEPT ![r] = h]
        /\ UNCHANGED <<date, onList, known, houseMark, senateMark, search, leftOut>>
  BY DEF BeginHouse
<1>2. h \in HouseRecords
  BY <1>1, NoRunHolds DEF HouseRecords
<1>3. /\ h.step = "reading" /\ h.today = date /\ h.before = houseMark /\ h.newest = 0
      /\ h.first = Head(years) /\ h.years = years
      /\ (h.moves <=> moves) /\ (h.byHand <=> byHand)
  BY <1>1 DEF NoHouseRun
<1> QED  BY <1>1, <1>2, <1>3

LEMMA BeginHouseHolds ==
    ASSUME ListingsInv, NEW r \in HouseRuns, NEW first \in 0 .. YearOf(date),
           NEW years \in Seq(Nat), Head(years) = first,
           NEW moves \in BOOLEAN, moves => years = YearsFrom(first), NEW byHand \in BOOLEAN,
           ~byHand => houseMark # 0 /\ (first = 0 \/ first = YearOf(houseMark) - LookbackYears),
           BeginHouse(r, years, moves, byHand)
    PROVE  ListingsInv'
<1>2. date \in Nat \ {0} /\ houseMark \in 0 .. date /\ senateMark \in 0 .. date
      /\ known \subseteq Ptrs /\ leftOut \subseteq Ptrs
  BY DEF ListingsInv
<1>3. YearOf(date) \in Nat /\ LookbackYears \in Nat
      /\ \A p \in HousePtrs : IndexYear[p] \in Nat
  BY <1>2, YearsFollow, ListingsAssumption
<1>4. first \in Nat /\ houseMark \in Nat
  BY <1>2, <1>3
<1>5. PICK h \in HouseRecords :
        /\ houseRun' = [houseRun EXCEPT ![r] = h]
        /\ UNCHANGED <<date, onList, known, houseMark, senateMark, search, leftOut>>
        /\ h.step = "reading" /\ h.today = date /\ h.before = houseMark /\ h.newest = 0
        /\ h.first = first /\ h.years = years
        /\ (h.moves <=> moves) /\ (h.byHand <=> byHand)
  BY <1>2, <1>4, BeganIs
<1>6. HouseBegan(h, date)
  BY <1>2, <1>5 DEF HouseBegan
<1>7. ASSUME NEW p \in Unknown \cap HousePtrs
      PROVE  houseMark # 0 => IndexYear[p] >= YearOf(houseMark) - LookbackYears
  BY DEF ListingsInv, NoneOverlooked, Unknown
<1>8. ASSUME NEW p \in HousePtrs, h.moves PROVE ToRead(h, p)
  <2>1. CASE IndexYear[p] \in first .. YearOf(date)
    BY <1>2, <1>5, <1>8, <2>1, YearsFromIs DEF ToRead
  <2>2. CASE IndexYear[p] < first \/ IndexYear[p] > YearOf(date)
    BY <1>3, <1>5, <2>2 DEF ToRead
  <2> QED  BY <1>3, <1>4, <2>1, <2>2
<1>9. HouseKnows(h, Unknown, date)
  BY <1>5, <1>6, <1>7, <1>8 DEF HouseKnows
<1>10. Unknown' = Unknown
  BY <1>5 DEF Unknown
<1> QED  BY <1>2, <1>5, <1>9, <1>10, NoneLeft, OneHouseRunMoves

LEMMA HouseBeginsHolds ==
    ASSUME ListingsInv, NEW r \in HouseRuns, CatchUpYears(r) \/ HouseByHand(r)
    PROVE  ListingsInv'
<1>1. date \in Nat /\ houseMark \in 0 .. date /\ YearOf(date) \in Nat /\ houseMark \in Nat
      /\ YearOf(houseMark) \in Nat /\ YearOf(houseMark) <= YearOf(date) /\ LookbackYears \in Nat
  <2>1. date \in Nat /\ houseMark \in Nat /\ houseMark <= date
    BY DEF ListingsInv
  <2> QED  BY <2>1, YearsFollow, ListingsAssumption
<1>2. CASE CatchUpYears(r)
  <2> DEFINE back == YearOf(houseMark) - LookbackYears
             first == IF back < 0 THEN 0 ELSE back
  <2>1. houseMark # 0 /\ BeginHouse(r, YearsFrom(first), TRUE, FALSE)
    BY <1>2 DEF CatchUpYears
  <2>2. first \in 0 .. YearOf(date) /\ (first = 0 \/ first = YearOf(houseMark) - LookbackYears)
    BY <1>1
  <2> HIDE DEF first
  <2>3. YearsFrom(first) \in Seq(Nat) /\ Head(YearsFrom(first)) = first /\ first \in Nat
    BY <1>1, <2>2, YearsFromIs
  <2> QED  BY <1>1, <2>1, <2>2, <2>3, BeginHouseHolds
<1>3. CASE HouseByHand(r)
  <2>1. PICK y \in 0 .. YearOf(date) :
          BeginHouse(r, YearsFrom(y), TRUE, TRUE) \/ BeginHouse(r, <<y>>, FALSE, TRUE)
    BY <1>3 DEF HouseByHand
  <2>2. CASE BeginHouse(r, YearsFrom(y), TRUE, TRUE)
    <3>1. YearsFrom(y) \in Seq(Nat) /\ Head(YearsFrom(y)) = y /\ y \in Nat
      BY <1>1, YearsFromIs
    <3> QED  BY <1>1, <2>2, <3>1, BeginHouseHolds
  <2>3. CASE BeginHouse(r, <<y>>, FALSE, TRUE)
    <3>1. <<y>> \in Seq(Nat) /\ Head(<<y>>) = y /\ y \in Nat
      BY <1>1
    <3> QED  BY <1>1, <2>3, <3>1, BeginHouseHolds
  <2> QED  BY <2>1, <2>2, <2>3
<1> QED  BY <1>2, <1>3

LEMMA YearsLeft ==
    ASSUME NEW years \in Seq(Nat), years # <<>>
    PROVE  /\ Tail(years) \in Seq(Nat) /\ Head(years) \in Nat
           /\ \A y \in Range(years) : y = Head(years) \/ y \in Range(Tail(years))
<1>1. Tail(years) \in Seq(Nat) /\ Head(years) = years[1] /\ Head(years) \in Nat
      /\ Len(years) \in Nat \ {0} /\ DOMAIN years = 1 .. Len(years)
      /\ Len(Tail(years)) = Len(years) - 1
      /\ \A i \in 1 .. Len(years) - 1 : Tail(years)[i] = years[i + 1]
  OBVIOUS
<1>2. ASSUME NEW i \in 1 .. Len(years), i # 1 PROVE years[i] \in Range(Tail(years))
  <2>1. i - 1 \in DOMAIN Tail(years) /\ Tail(years)[i - 1] = years[i]
    BY <1>1, <1>2
  <2> QED  BY <2>1 DEF Range
<1> QED  BY <1>1, <1>2 DEF Range

LEMMA ReadYearHolds ==
    ASSUME ListingsInv, NEW r \in HouseRuns, ReadYear(r)
    PROVE  ListingsInv'
<1> DEFINE run == houseRun[r]
           index == {p \in onList \cap HousePtrs : IndexYear[p] = Head(run.years)}
           years == Tail(run.years)
           newest == Max({run.newest, Newest(run.today, index)})
<1>1. run \in HouseRecords /\ HouseKnows(run, Unknown, date) /\ run.step = "reading" /\ run.years # <<>>
  BY DEF ListingsInv, ReadYear
<1>2. PICK h : h = [run EXCEPT !.years = years, !.newest = newest]
  OBVIOUS
<1>3. houseRun' = [houseRun EXCEPT ![r] = h] /\ known' = known \cup index
      /\ UNCHANGED <<date, onList, houseMark, senateMark, search, leftOut>>
  BY <1>1, <1>2 DEF ReadYear, ListingsInv
<1>4. date \in Nat \ {0} /\ onList \subseteq Ptrs /\ known \subseteq Ptrs /\ leftOut \subseteq Ptrs
      /\ houseMark \in 0 .. date /\ senateMark \in 0 .. date
  BY DEF ListingsInv
<1> HIDE DEF run
<1>5. index \in SUBSET Ptrs /\ index \cap SenatePtrs = {}
  BY <1>4, ListingsAssumption
<1>6. \A p \in (onList \cap HousePtrs) \ index : IndexYear[p] # Head(run.years)
  OBVIOUS
<1> HIDE DEF index, years, newest
<1>7. run.today \in Nat /\ run.newest \in 0 .. run.today /\ run.newest \in Nat
  BY <1>1 DEF HouseKnows, HouseBegan, HouseRecords
<1>8. newest \in 0 .. run.today /\ newest \in Nat
  <2>1. Newest(run.today, index) \in 0 .. run.today
    BY <1>5, <1>7, NewestIs
  <2> QED  BY <1>7, <2>1, MaxOfTwo DEF newest
<1>9. years \in Seq(Nat) /\ \A y \in Range(run.years) : y = Head(run.years) \/ y \in Range(years)
  <2>1. run.years \in Seq(Nat)
    BY <1>1 DEF HouseRecords
  <2> QED  BY <1>1, <2>1, YearsLeft DEF years
<1>10. h \in HouseRecords
  BY <1>1, <1>2, <1>7, <1>8, <1>9 DEF HouseRecords
<1>11. /\ h.step = run.step /\ h.years = years /\ h.today = run.today /\ h.moves = run.moves
       /\ h.byHand = run.byHand /\ h.first = run.first /\ h.before = run.before
       /\ h.newest \in 0 .. run.today /\ h.failed = run.failed
  BY <1>1, <1>2, <1>8 DEF HouseRecords
<1>12. Unknown' \subseteq Unknown /\ Unknown' \cap index = {} /\ Unknown' \subseteq onList
  BY <1>3 DEF Unknown
<1>13. HouseBegan(h, date)
  BY <1>1, <1>11 DEF HouseKnows, HouseBegan
<1>14. ASSUME NEW p \in Unknown' \cap HousePtrs
       PROVE  /\ h.before # 0 => IndexYear[p] >= YearOf(h.before) - LookbackYears
              /\ h.moves /\ ~h.failed => ToRead(h, p)
  <2>1. /\ run.before # 0 => IndexYear[p] >= YearOf(run.before) - LookbackYears
        /\ run.moves /\ ~run.failed => ToRead(run, p)
    BY <1>1, <1>12 DEF HouseKnows
  <2>2. IndexYear[p] # Head(run.years)
    BY <1>6, <1>12
  <2> QED  BY <1>9, <1>11, <2>1, <2>2 DEF ToRead
<1>15. HouseKnows(h, Unknown', date)
  BY <1>13, <1>14 DEF HouseKnows
<1>16. known \subseteq known' /\ known' \subseteq Ptrs
  BY <1>3, <1>4, <1>5
<1>17. NoneOverlooked'
  BY <1>3, <1>16, NoneLeft
<1> QED  BY <1>3, <1>4, <1>10, <1>15, <1>16, <1>17, OneHouseRunMoves

LEMMA FailYearHolds ==
    ASSUME ListingsInv, NEW r \in HouseRuns, FailYear(r)
    PROVE  ListingsInv'
<1> DEFINE run == houseRun[r]
<1>1. run \in HouseRecords /\ HouseKnows(run, Unknown, date) /\ run.step = "reading" /\ run.years # <<>>
  BY DEF ListingsInv, FailYear
<1>2. PICK h : h = [run EXCEPT !.years = Tail(@), !.failed = TRUE]
  OBVIOUS
<1>3. houseRun' = [houseRun EXCEPT ![r] = h]
      /\ UNCHANGED <<date, onList, known, houseMark, senateMark, search, leftOut>>
  BY <1>1, <1>2 DEF FailYear, ListingsInv
<1>4. date \in Nat \ {0} /\ known \subseteq Ptrs /\ leftOut \subseteq Ptrs
      /\ houseMark \in 0 .. date /\ senateMark \in 0 .. date
  BY DEF ListingsInv
<1> HIDE DEF run
<1>5. Tail(run.years) \in Seq(Nat)
  <2>1. run.years \in Seq(Nat)
    BY <1>1 DEF HouseRecords
  <2> QED  BY <1>1, <2>1, YearsLeft
<1>6. h \in HouseRecords
  BY <1>1, <1>2, <1>5 DEF HouseRecords
<1>7. /\ h.step = run.step /\ h.today = run.today
      /\ h.byHand = run.byHand /\ h.first = run.first /\ h.before = run.before
      /\ h.newest = run.newest /\ h.failed
  BY <1>1, <1>2 DEF HouseRecords
<1>8. HouseKnows(h, Unknown, date)
  BY <1>1, <1>7 DEF HouseKnows, HouseBegan
<1>9. Unknown' = Unknown
  BY <1>3 DEF Unknown
<1>10. NoneOverlooked'
  BY <1>3, NoneLeft
<1> QED  BY <1>3, <1>4, <1>6, <1>8, <1>9, <1>10, OneHouseRunMoves

\* The mark a run moves is of a date no later than the day it began, from which a
\* catch-up reads any year of what it has not read.
LEMMA EndHouseHolds ==
    ASSUME ListingsInv, NEW r \in HouseRuns, EndHouse(r)
    PROVE  ListingsInv'
<1> DEFINE run == houseRun[r]
           gone == {p \in HousePtrs : IndexYear[p] < run.first}
<1>1. run \in HouseRecords /\ HouseKnows(run, Unknown, date) /\ run.step = "reading" /\ run.years = <<>>
  BY DEF ListingsInv, EndHouse
<1>2. houseRun' = [houseRun EXCEPT ![r] = NoHouseRun]
      /\ UNCHANGED <<date, onList, known, senateMark, search>>
  BY DEF EndHouse
<1>3. houseMark' = IF MovesHouse(run) THEN run.newest ELSE houseMark
  BY DEF EndHouse
<1>4. leftOut' \in {leftOut, leftOut \cup gone}
  BY DEF EndHouse
<1>5. MovesHouse(run) /\ run.byHand /\ (run.before = 0 \/ run.first > YearOf(run.before) - LookbackYears)
         => leftOut' = leftOut \cup gone
  BY DEF EndHouse
<1>6. date \in Nat \ {0} /\ onList \subseteq Ptrs /\ known \subseteq Ptrs /\ leftOut \subseteq Ptrs
      /\ houseMark \in 0 .. date /\ senateMark \in 0 .. date
  BY DEF ListingsInv
<1> HIDE DEF run
<1>7. leftOut \subseteq leftOut' /\ leftOut' \subseteq Ptrs
  BY <1>6, <1>4 DEF Ptrs
<1>8. run.today \in Nat /\ run.today <= date /\ run.newest \in Nat /\ run.newest <= run.today
      /\ run.before \in Nat /\ run.before <= run.today /\ run.first \in Nat
  BY <1>1 DEF HouseKnows, HouseBegan, HouseRecords
<1>9. houseMark' \in 0 .. date
  BY <1>6, <1>8, <1>3
<1>10. NoneOverlooked'
  <2> SUFFICES ASSUME MovesHouse(run)
               PROVE  NoneOverlooked'
    BY <1>2, <1>7, <1>3, NoneLeft
  <2>1. \A p \in onList \ (known \cup leftOut) :
            p \notin HousePtrs /\ senateMark # 0 => DateOf[p] >= senateMark - LookbackDays
    BY DEF ListingsInv, NoneOverlooked
  <2>2. ASSUME NEW p \in (onList \ (known \cup leftOut')) \cap HousePtrs
        PROVE  IndexYear[p] >= YearOf(houseMark') - LookbackYears
    <3>1. p \in Unknown \cap HousePtrs
      BY <1>7, <2>2 DEF Unknown
    <3>2. /\ run.before # 0 => IndexYear[p] >= YearOf(run.before) - LookbackYears
          /\ ToRead(run, p)
      BY <1>1, <3>1 DEF HouseKnows, MovesHouse
    <3>3. YearOf(run.newest) <= YearOf(run.today) /\ YearOf(run.newest) \in Nat
          /\ YearOf(run.today) \in Nat /\ YearOf(run.before) \in Nat
          /\ IndexYear[p] \in Nat /\ LookbackYears \in Nat
      BY <1>8, YearsFollow, ListingsAssumption
    <3>4. IndexYear[p] \notin Range(run.years)
      BY <1>1 DEF Range
    <3>5. CASE IndexYear[p] >= YearOf(run.today) - LookbackYears
      BY <1>3, <3>3, <3>5
    <3>6. CASE IndexYear[p] < run.first
      <4>1. run.byHand => run.before # 0 /\ ~(run.first > YearOf(run.before) - LookbackYears)
        BY <1>5, <2>2, <3>6
      <4>2. ~run.byHand => run.before # 0
              /\ (run.first = 0 \/ run.first = YearOf(run.before) - LookbackYears)
        BY <1>1 DEF HouseKnows, HouseBegan
      <4> QED  BY <1>8, <1>3, <3>2, <3>3, <3>6, <4>1, <4>2
    <3> QED  BY <3>2, <3>4, <3>5, <3>6 DEF ToRead
  <2> QED  BY <1>2, <1>7, <2>1, <2>2 DEF NoneOverlooked
<1>11. HouseKnows(NoHouseRun, Unknown', date)
  BY NoRunHolds DEF HouseKnows
<1> QED  BY <1>2, <1>6, <1>7, <1>9, <1>10, <1>11, NoRunHolds, OneHouseRunMoves

LEMMA KillHouseHolds ==
    ASSUME ListingsInv, NEW r \in HouseRuns, KillHouse(r)
    PROVE  ListingsInv'
<1>1. houseRun' = [houseRun EXCEPT ![r] = NoHouseRun]
      /\ UNCHANGED <<date, onList, known, houseMark, senateMark, search, leftOut>>
  BY DEF KillHouse
<1>2. HouseKnows(NoHouseRun, Unknown', date)
  BY NoRunHolds DEF HouseKnows
<1>3. NoneOverlooked'
  BY <1>1, NoneLeft
<1>4. known \subseteq Ptrs /\ leftOut \subseteq Ptrs /\ houseMark \in 0 .. date
  BY DEF ListingsInv
<1> QED  BY <1>1, <1>2, <1>3, <1>4, NoRunHolds, OneHouseRunMoves

-----------------------------------------------------------------------------
(* The Senate's searches.                                                  *)

LEMMA BeginSearchHolds ==
    ASSUME ListingsInv, NEW r \in SenateRuns, NEW from \in Nat, NEW last \in Nat,
           NEW byHand \in BOOLEAN,
           ~byHand => senateMark # 0 /\ (from = 1 \/ from = senateMark - LookbackDays),
           BeginSearch(r, from, last, byHand)
    PROVE  ListingsInv'
<1> DEFINE moves == last >= date
<1>1. date \in Nat \ {0} /\ houseMark \in 0 .. date /\ senateMark \in 0 .. date
      /\ senateMark \in Nat /\ known \subseteq Ptrs /\ leftOut \subseteq Ptrs
  BY DEF ListingsInv
<1>2. moves \in BOOLEAN
  OBVIOUS
<1>3. PICK q :
        /\ q = [NoSearch EXCEPT !.step = "searching", !.from = from, !.last = last, !.today = date,
                    !.moves = moves, !.byHand = byHand, !.before = senateMark]
        /\ search' = [search EXCEPT ![r] = q]
        /\ UNCHANGED <<date, onList, known, houseMark, senateMark, houseRun, leftOut>>
  BY DEF BeginSearch
<1> HIDE DEF moves
<1>4. q \in SearchRecords
  BY <1>1, <1>2, <1>3, NoRunHolds DEF SearchRecords
<1>5. /\ q.step = "searching" /\ q.from = from /\ q.last = last /\ q.today = date
      /\ (q.moves <=> moves) /\ (q.byHand <=> byHand) /\ q.before = senateMark
      /\ q.pages = 0 /\ q.rows = {} /\ q.start = 0 /\ q.counted = -1
  BY <1>3 DEF NoSearch
<1>6. SearchBegan(q, date)
  BY <1>1, <1>5 DEF SearchBegan, moves
<1>7. \A p \in Unknown \cap SenatePtrs : senateMark # 0 => DateOf[p] >= senateMark - LookbackDays
  BY ListingsAssumption DEF ListingsInv, NoneOverlooked, Unknown
<1>8. SearchKnows(q, Unknown, onList, known, date)
  BY <1>5, <1>6, <1>7 DEF SearchKnows
<1>9. Unknown' = Unknown
  BY <1>3 DEF Unknown
<1>10. NoneOverlooked'
  BY <1>3, NoneLeft
<1> QED  BY <1>1, <1>3, <1>4, <1>8, <1>9, <1>10, OneSearchMoves

LEMMA SearchBeginsHolds ==
    ASSUME ListingsInv, NEW r \in SenateRuns, CatchUpFrom(r) \/ SearchByHand(r)
    PROVE  ListingsInv'
<1>1. date \in Nat \ {0} /\ senateMark \in Nat /\ LookbackDays \in Nat
  BY ListingsAssumption DEF ListingsInv
<1>2. CASE CatchUpFrom(r)
  <2> DEFINE from == Max({1, senateMark - LookbackDays})
  <2>1. senateMark # 0 /\ BeginSearch(r, from, date, FALSE)
    BY <1>2 DEF CatchUpFrom
  <2>2. from \in Nat /\ (from = 1 \/ from = senateMark - LookbackDays)
    BY <1>1, MaxOfTwo
  <2> HIDE DEF from
  <2> QED  BY <1>1, <2>1, <2>2, BeginSearchHolds
<1>3. CASE SearchByHand(r)
  <2>0. PICK from \in 1 .. date : \E last \in from .. date : BeginSearch(r, from, last, TRUE)
    BY <1>3 DEF SearchByHand
  <2>1. PICK last \in from .. date : BeginSearch(r, from, last, TRUE)
    BY <2>0
  <2>2. from \in Nat /\ last \in Nat
    BY <1>1
  <2> QED  BY <2>1, <2>2, BeginSearchHolds
<1> QED  BY <1>2, <1>3

LEMMA StoreSearchedHolds ==
    ASSUME ListingsInv, NEW r \in SenateRuns, StoreSearched(r)
    PROVE  ListingsInv'
<1> DEFINE old == search[r]
<1>1. old \in SearchRecords /\ SearchKnows(old, Unknown, onList, known, date) /\ old.step = "listed"
  BY DEF ListingsInv, StoreSearched
<1>2. PICK q : q = [old EXCEPT !.step = "stored"]
  OBVIOUS
<1>3. search' = [search EXCEPT ![r] = q] /\ known' = known \cup old.rows
      /\ UNCHANGED <<date, onList, houseMark, senateMark, houseRun, leftOut>>
  BY <1>1, <1>2 DEF StoreSearched, ListingsInv
<1>4. date \in Nat \ {0} /\ onList \in SUBSET Ptrs /\ known \subseteq Ptrs /\ leftOut \subseteq Ptrs
      /\ houseMark \in 0 .. date /\ senateMark \in 0 .. date
  BY DEF ListingsInv
<1> HIDE DEF old
<1>5. q \in SearchRecords
  BY <1>1, <1>2 DEF SearchRecords
<1>6. /\ q.step = "stored" /\ q.from = old.from /\ q.last = old.last /\ q.today = old.today
      /\ q.moves = old.moves /\ q.byHand = old.byHand /\ q.before = old.before
      /\ q.counted = old.counted /\ q.rows = old.rows /\ q.start = old.start
      /\ q.pages = old.pages /\ q.gained = old.gained /\ q.passed = old.passed
  BY <1>1, <1>2 DEF SearchRecords
<1>7. old.rows \subseteq Ptrs /\ known \subseteq known' /\ known' \subseteq Ptrs
  BY <1>1, <1>3, <1>4 DEF SearchRecords, Ptrs
<1>8. Unknown' \subseteq Unknown
  BY <1>3 DEF Unknown
<1>9. SearchBegan(q, date)
  BY <1>1, <1>6 DEF SearchKnows, SearchBegan
<1>10. ListedFor(q, onList) = ListedFor(old, onList) /\ Owed(q, Unknown') \subseteq Owed(old, Unknown)
  BY <1>6, <1>8 DEF ListedFor, Owed
<1>11. old.pages > 0 => /\ old.counted \in Nat
                        /\ ~old.gained => CountedAll(q, ListedFor(q, onList), Owed(q, Unknown'))
                        /\ Passed(q, ListedFor(q, onList), Owed(q, Unknown'))
  BY <1>1, <1>6, <1>10 DEF SearchKnows, CountedAll, Passed
<1>12. SearchKnows(q, Unknown', onList, known', date)
  BY <1>1, <1>3, <1>6, <1>8, <1>9, <1>11 DEF SearchKnows
<1>13. NoneOverlooked'
  BY <1>3, <1>7, NoneLeft
<1> QED  BY <1>3, <1>4, <1>5, <1>7, <1>12, <1>13, OneSearchMoves

LEMMA FailSearchHolds ==
    ASSUME ListingsInv, NEW r \in SenateRuns, FailSearch(r)
    PROVE  ListingsInv'
<1>1. search' = [search EXCEPT ![r] = NoSearch]
      /\ UNCHANGED <<date, onList, known, houseMark, senateMark, houseRun, leftOut>>
  BY DEF FailSearch
<1>2. SearchKnows(NoSearch, Unknown', onList, known', date)
  BY NoRunHolds DEF SearchKnows
<1>3. NoneOverlooked'
  BY <1>1, NoneLeft
<1>4. known \subseteq Ptrs /\ leftOut \subseteq Ptrs /\ senateMark \in 0 .. date
  BY DEF ListingsInv
<1> QED  BY <1>1, <1>2, <1>3, <1>4, NoRunHolds, OneSearchMoves

AfterPage(old, step, counted, rows, start, pages) ==
    [old EXCEPT !.step = step, !.counted = counted, !.rows = rows, !.start = start, !.pages = pages]

LEMMA ReadIs ==
    ASSUME NEW old \in SearchRecords, NEW step \in {"listed", "searching"}, NEW counted \in Nat,
           NEW rows \in SUBSET SenatePtrs, NEW start \in Nat, NEW pages \in Nat,
           NEW q, q = AfterPage(old, step, counted, rows, start, pages)
    PROVE  /\ q \in SearchRecords
           /\ q.step = step /\ q.from = old.from /\ q.last = old.last /\ q.today = old.today
           /\ q.moves = old.moves /\ q.byHand = old.byHand /\ q.before = old.before
           /\ q.counted = counted /\ q.rows = rows /\ q.start = start /\ q.pages = pages
           /\ q.gained = old.gained /\ q.passed = old.passed
<1>1. q \in SearchRecords
  <2>1. step \in {"idle", "searching", "listed", "stored"} /\ counted \in Int
    OBVIOUS
  <2> QED  BY <2>1, Zenon DEF SearchRecords, AfterPage
<1>2. /\ q.step = step /\ q.from = old.from /\ q.last = old.last /\ q.today = old.today
      /\ q.moves = old.moves /\ q.byHand = old.byHand /\ q.before = old.before
  BY DEF SearchRecords, AfterPage
<1>3. q.counted = counted /\ q.rows = rows /\ q.start = start /\ q.pages = pages
      /\ q.gained = old.gained /\ q.passed = old.passed
  BY DEF SearchRecords, AfterPage
<1> QED  BY <1>1, <1>2, <1>3

\* A page reads the ranks from where the last one ended: what was listed behind them
\* since is recent, and what is ahead is to be read.
LEMMA ReadSearchPageHolds ==
    ASSUME ListingsInv, NEW r \in SenateRuns, ReadSearchPage(r)
    PROVE  ListingsInv'
<1> DEFINE old == search[r]
           list == Listing(old)
           total == Cardinality(list)
           start == Max({old.start, Min({total, old.start + SearchPage})})
           read == {p \in list : Rank(p, list) \in old.start + 1 .. start}
           over == start >= total
           step == IF over THEN "listed" ELSE "searching"
           counted == Counts(old, total)
           rows == old.rows \cup read
           pages == old.pages + 1
<1>1. old \in SearchRecords /\ SearchKnows(old, Unknown, onList, known, date) /\ old.step = "searching"
  BY DEF ListingsInv, ReadSearchPage
<1>2. UNCHANGED <<date, onList, known, houseMark, senateMark, houseRun, leftOut>>
  BY DEF ReadSearchPage
<1>23. search' = [search EXCEPT ![r] =
                    [old EXCEPT !.step = step, !.counted = counted, !.rows = rows, !.start = start,
                                !.pages = pages]]
  BY Zenon DEF ReadSearchPage
<1>24. PICK q :
        /\ q = [old EXCEPT !.step = step, !.counted = counted, !.rows = rows, !.start = start,
                           !.pages = pages]
        /\ search' = [search EXCEPT ![r] = q]
  <2> HIDE DEF old, start, read, step, counted, rows, pages
  <2> QED  BY <1>23, Zenon
<1>3. date \in Nat \ {0} /\ onList \in SUBSET Ptrs /\ known \subseteq Ptrs /\ leftOut \subseteq Ptrs
      /\ houseMark \in 0 .. date /\ senateMark \in 0 .. date
  BY DEF ListingsInv
<1>4. list = ListedFor(old, onList) /\ list \in SUBSET SenatePtrs
  BY DEF Listing, ListedFor
<1> HIDE DEF old, list
<1>5. IsFiniteSet(list)
  BY <1>4, ListingsAssumption, FS_Subset
<1>6. total \in Nat
  BY <1>5, FS_CardinalityType
<1> HIDE DEF total
<1>7. old.start \in Nat /\ SearchPage \in Nat \ {0} /\ old.pages \in Nat /\ old.counted \in Int
  BY <1>1, ListingsAssumption DEF SearchRecords
<1>8. start \in Nat
  <2> DEFINE end == Min({total, old.start + SearchPage})
  <2>1. end \in Nat
    BY <1>6, <1>7, MinOfTwo
  <2> HIDE DEF end
  <2>2. Max({old.start, end}) \in Nat
    BY <1>7, <2>1, MaxOfTwo
  <2> QED  BY <2>2 DEF end
<1> HIDE DEF start
<1>9. read \subseteq list /\ \A p \in list : Rank(p, list) \in 1 .. total
      /\ (Rank(p, list) > old.start /\ Rank(p, list) <= start => p \in read)
  <2>1. \A p \in list : Rank(p, list) \in 1 .. total
    BY <1>4, RankIs DEF total
  <2> QED  BY <1>6, <1>7, <1>8, <2>1
<1>10. step \in {"listed", "searching"} /\ (step = "listed" => start >= total)
       /\ (step = "searching" => start < total)
  BY <1>6, <1>8
<1>11. counted \in Nat /\ (old.pages = 0 => counted = total) /\ (old.pages > 0 => counted = old.counted)
  BY <1>1, <1>6, <1>7 DEF SearchKnows, SearchBegan, Counts
<1>13. rows \in SUBSET SenatePtrs /\ pages \in Nat
  BY <1>1, <1>4, <1>7, <1>9 DEF SearchRecords
<1> HIDE DEF read, step, counted, rows, pages
<1>14. q \in SearchRecords
       /\ q.step = step /\ q.from = old.from /\ q.last = old.last /\ q.today = old.today
       /\ q.moves = old.moves /\ q.byHand = old.byHand /\ q.before = old.before
       /\ q.counted = counted /\ q.rows = rows /\ q.start = start /\ q.pages = pages
       /\ q.gained = old.gained /\ q.passed = old.passed
  <2>1. old \in SearchRecords /\ step \in {"listed", "searching"} /\ counted \in Nat
        /\ rows \in SUBSET SenatePtrs /\ start \in Nat /\ pages \in Nat
    BY <1>1, <1>8, <1>10, <1>11, <1>13
  <2>2. q = AfterPage(old, step, counted, rows, start, pages)
    BY <1>24, Zenon DEF AfterPage
  <2> QED  BY <2>1, <2>2, ReadIs
<1>15. /\ q.step = step /\ q.from = old.from /\ q.last = old.last /\ q.today = old.today
       /\ q.moves = old.moves /\ q.byHand = old.byHand /\ q.before = old.before
       /\ q.counted = counted /\ q.rows = old.rows \cup read /\ q.start = start
       /\ q.pages = old.pages + 1
  BY <1>14 DEF rows, pages
<1>17. ListedFor(q, onList) = list /\ Owed(q, Unknown) = Owed(old, Unknown)
       /\ Owed(old, Unknown) \subseteq list
  BY <1>4, <1>15 DEF ListedFor, Owed, Unknown
<1>18. SearchBegan(q, date)
  BY <1>1, <1>7, <1>15 DEF SearchKnows, SearchBegan
<1>19. ~q.gained => CountedAll(q, list, Owed(q, Unknown))
  <2>1. CASE old.pages = 0
    <3>1. q.rows \subseteq list /\ q.counted = Cardinality(list)
      BY <1>1, <1>9, <1>11, <1>15, <2>1 DEF SearchKnows, SearchBegan, total
    <3> QED  BY <1>4, <1>17, <3>1 DEF CountedAll
  <2>2. CASE old.pages > 0 /\ ~old.gained
    <3>1. PICK all \in SUBSET SenatePtrs :
            /\ list \subseteq all /\ old.rows \subseteq all /\ old.counted = Cardinality(all)
            /\ Owed(old, Unknown) \subseteq all
      BY <1>1, <1>4, <2>2 DEF SearchKnows, CountedAll
    <3>2. q.rows \subseteq all /\ q.counted = Cardinality(all)
      BY <1>9, <1>11, <1>15, <2>2, <3>1
    <3> QED  BY <1>17, <3>1, <3>2 DEF CountedAll
  <2> QED  BY <1>7, <1>14, <2>1, <2>2
<1>20. Passed(q, list, Owed(q, Unknown))
  <2> SUFFICES ASSUME NEW p \in Owed(old, Unknown)
               PROVE  \/ p \in q.rows \/ p \in q.passed
                      \/ q.step = "searching" /\ Rank(p, list) > q.start
    BY <1>17 DEF Passed
  <2>0. p \in list
    BY <1>17
  <2>1. \/ p \in old.rows \/ p \in old.passed \/ Rank(p, list) > old.start
    <3>1. CASE old.pages = 0
      BY <1>1, <1>6, <1>9, <2>0, <3>1 DEF SearchKnows, SearchBegan
    <3>2. CASE old.pages > 0
      BY <1>1, <1>4, <3>2 DEF SearchKnows, Passed
    <3> QED  BY <1>7, <3>1, <3>2
  <2>2. CASE Rank(p, list) > old.start /\ Rank(p, list) <= start
    BY <1>9, <1>15, <2>0, <2>2
  <2>3. CASE Rank(p, list) > start
    BY <1>6, <1>8, <1>9, <1>10, <1>15, <2>0, <2>3
  <2> QED  BY <1>6, <1>7, <1>8, <1>9, <1>14, <1>15, <2>0, <2>1, <2>2, <2>3
<1>21. Unknown' = Unknown
  BY <1>2 DEF Unknown
<1>22. SearchKnows(q, Unknown', onList, known', date)
  BY <1>1, <1>2, <1>7, <1>10, <1>11, <1>15, <1>17, <1>18, <1>19, <1>20, <1>21 DEF SearchKnows
<1>26. NoneOverlooked'
  BY <1>2, NoneLeft
<1> QED  BY <1>2, <1>24, <1>3, <1>14, <1>22, <1>26, OneSearchMoves

\* A search that has counted no more than it has read has read all that was listed
\* as it began, unless it has gained some, when it has read what was not moved past it.
LEMMA EndSearchHolds ==
    ASSUME ListingsInv, NEW r \in SenateRuns, EndSearch(r)
    PROVE  ListingsInv'
<1> DEFINE q == search[r]
<1>1. q \in SearchRecords /\ SearchKnows(q, Unknown, onList, known, date) /\ q.step = "stored"
  BY DEF ListingsInv, EndSearch
<1>2. search' = [search EXCEPT ![r] = NoSearch]
      /\ UNCHANGED <<date, onList, known, houseMark, houseRun>>
  BY DEF EndSearch
<1>3. senateMark' = IF MovesSenate(q) THEN Newest(q.today, q.rows) ELSE senateMark
  BY DEF EndSearch
<1>4. leftOut \subseteq leftOut' /\ leftOut' \subseteq leftOut \cup SenatePtrs
  BY DEF EndSearch
<1>5. ASSUME NEW p \in SenatePtrs \ leftOut', MovesSenate(q)
      PROVE  ~(q.gained /\ p \in q.passed)
             /\ (q.byHand /\ (q.before = 0 \/ q.from > q.before - LookbackDays) => ~(DateOf[p] < q.from))
  BY <1>5, Zenon DEF EndSearch
<1>6. date \in Nat \ {0} /\ onList \in SUBSET Ptrs /\ known \subseteq Ptrs /\ leftOut \subseteq Ptrs
      /\ houseMark \in 0 .. date /\ senateMark \in 0 .. date
  BY DEF ListingsInv
<1> HIDE DEF q
<1>7. leftOut' \subseteq Ptrs
  BY <1>4, <1>6 DEF Ptrs
<1>8. /\ q.today \in Nat /\ q.today <= date /\ q.before \in Nat /\ q.from \in Nat /\ q.last \in Nat
      /\ q.rows \in SUBSET SenatePtrs /\ q.counted \in Int /\ q.pages \in Nat /\ q.pages # 0
  BY <1>1 DEF SearchKnows, SearchBegan, SearchRecords
<1> DEFINE newest == Newest(q.today, q.rows)
<1>9. newest \in 0 .. q.today
  BY <1>8, NewestIs DEF Ptrs
<1> HIDE DEF newest
<1>10. senateMark' \in 0 .. date
  BY <1>3, <1>6, <1>8, <1>9 DEF newest
<1>11. NoneOverlooked'
  <2> SUFFICES ASSUME MovesSenate(q)
               PROVE  NoneOverlooked'
    BY <1>2, <1>3, <1>4, NoneLeft
  <2>1. \A p \in onList \ (known \cup leftOut) :
            p \in HousePtrs /\ houseMark # 0 => IndexYear[p] >= YearOf(houseMark) - LookbackYears
    BY DEF ListingsInv, NoneOverlooked
  <2>2. ASSUME NEW p \in onList \ (known \cup leftOut'), p \notin HousePtrs
        PROVE  DateOf[p] >= senateMark' - LookbackDays
    <3>1. p \in SenatePtrs /\ p \in Unknown /\ p \notin q.rows
      BY <1>1, <1>4, <1>6, <2>2 DEF Ptrs, Unknown, SearchKnows
    <3>2. DateOf[p] \in Nat \ {0} /\ LookbackDays \in Nat
      BY <3>1, ListingsAssumption
    <3>3. senateMark' = newest /\ newest \in Nat /\ newest <= q.today
      BY <1>3, <1>8, <1>9 DEF newest
    <3>4. CASE DateOf[p] \in q.from .. q.last
      <4> SUFFICES ASSUME ~(DateOf[p] >= q.today - LookbackDays) PROVE FALSE
        BY <1>8, <3>2, <3>3
      <4>1. p \in Owed(q, Unknown)
        BY <1>8, <3>1, <3>2, <3>4 DEF Owed, ListedFor
      <4>2. CASE ~q.gained
        <5>1. PICK all \in SUBSET SenatePtrs :
                p \in all /\ q.rows \subseteq all /\ q.counted = Cardinality(all)
          BY <1>1, <1>8, <4>1, <4>2 DEF SearchKnows, CountedAll
        <5>2. IsFiniteSet(all) /\ IsFiniteSet(q.rows)
          BY <1>8, ListingsAssumption, FS_Subset
        <5>3. Cardinality(q.rows) <= Cardinality(all) /\ Cardinality(q.rows) # Cardinality(all)
          BY <3>1, <5>1, <5>2, FS_Subset
        <5>4. Cardinality(all) \in Nat /\ Cardinality(q.rows) \in Nat
          BY <5>2, FS_CardinalityType
        <5>5. ~(q.counted > Cardinality(q.rows))
          BY DEF MovesSenate, Short
        <5> QED  BY <5>1, <5>3, <5>4, <5>5
      <4>3. p \in q.passed
        BY <1>1, <1>8, <3>1, <4>1 DEF SearchKnows, Passed
      <4>4. ~(q.gained /\ p \in q.passed)
        BY <1>5, <2>2, <3>1
      <4> QED  BY <4>2, <4>3, <4>4
    <3>5. CASE DateOf[p] > q.last
      <4>1. q.last >= q.today
        BY <1>1 DEF SearchKnows, SearchBegan, MovesSenate
      <4> QED  BY <1>8, <3>2, <3>3, <3>5, <4>1
    <3>6. CASE DateOf[p] < q.from
      <4>1. q.byHand => q.before # 0 /\ ~(q.from > q.before - LookbackDays)
        BY <1>5, <2>2, <3>1, <3>6
      <4>2. ~q.byHand => q.before # 0 /\ (q.from = 1 \/ q.from = q.before - LookbackDays)
        BY <1>1 DEF SearchKnows, SearchBegan
      <4>3. q.before # 0 => DateOf[p] >= q.before - LookbackDays
        BY <1>1, <3>1 DEF SearchKnows
      <4> QED  BY <1>8, <3>2, <3>6, <4>1, <4>2, <4>3
    <3> QED  BY <1>8, <3>2, <3>4, <3>5, <3>6
  <2> QED  BY <1>2, <1>4, <2>1, <2>2 DEF NoneOverlooked
<1>12. SearchKnows(NoSearch, Unknown', onList, known', date)
  BY NoRunHolds DEF SearchKnows
<1> QED  BY <1>2, <1>4, <1>6, <1>7, <1>10, <1>11, <1>12, NoRunHolds, OneSearchMoves

LEMMA ListingsHold == ListingsSpec => []ListingsInv
<1>1. ListingsInv /\ [ListingsNext]_listingVars => ListingsInv'
  <2> SUFFICES ASSUME ListingsInv, [ListingsNext]_listingVars PROVE ListingsInv'
    OBVIOUS
  <2>1. CASE NextDate
    BY <2>1, NextDateHolds
  <2>2. CASE \E p \in Ptrs : List(p) \/ Withdraw(p)
    BY <2>2, ListHolds, WithdrawHolds
  <2>3. ASSUME NEW r \in HouseRuns,
               \/ CatchUpYears(r) \/ HouseByHand(r) \/ ReadYear(r) \/ FailYear(r)
               \/ EndHouse(r) \/ KillHouse(r)
        PROVE  ListingsInv'
    BY <2>3, HouseBeginsHolds, ReadYearHolds, FailYearHolds, EndHouseHolds, KillHouseHolds
  <2>4. ASSUME NEW r \in SenateRuns,
               \/ CatchUpFrom(r) \/ SearchByHand(r) \/ ReadSearchPage(r)
               \/ StoreSearched(r) \/ EndSearch(r) \/ FailSearch(r)
        PROVE  ListingsInv'
    BY <2>4, SearchBeginsHolds, ReadSearchPageHolds, StoreSearchedHolds, EndSearchHolds, FailSearchHolds
  <2>5. CASE UNCHANGED listingVars
    <3>1. Unknown' = Unknown /\ UNCHANGED <<date, onList, known, houseMark, senateMark, houseRun, search, leftOut>>
      BY <2>5 DEF listingVars, Unknown
    <3> QED  BY <3>1 DEF ListingsInv, NoneOverlooked
  <2> QED  BY <2>1, <2>2, <2>3, <2>4, <2>5 DEF ListingsNext
<1> QED  BY <1>1, ListingsInitHolds, PTL DEF ListingsSpec

\* However many runs overlap, by hand or catching up, whatever of them fails, and
\* though eFD's list shifts under a search, no watermark leaves behind a report that
\* was listed in time for a catch-up: but one of before where a run by hand moved the
\* mark, or one that a withdrawal shifted past a search whose list gained another.
THEOREM NoneLeftBehind == ListingsSpec => []NoneOverlooked
<1>1. ListingsInv => NoneOverlooked
  BY DEF ListingsInv
<1> QED  BY <1>1, ListingsHold, PTL
=============================================================================
