--------------------------- MODULE ServicesProofs ---------------------------
(***************************************************************************)
(* Proofs about the jobs and the response cache, for any number of workers,*)
(* shells, messages, requests and versions, and any times; and about all   *)
(* the services together.                                                  *)
(***************************************************************************)
EXTENDS MCServices, AccountProofs, BillingProofs, TLAPS

-----------------------------------------------------------------------------
(* JobRuns.                                                                *)

\* From the lock taken to the lock released, a run has it or has lost it.
UnderLock == {"locked", "body", "ended", "recorded"}
HasLock(record, w, lock) == record.step \in UnderLock => lock = w \/ record.dropped

WorkerRecords ==
    [step : {"idle", "starting", "locked", "body", "ended", "recorded", "over", "retried"},
     of : Deliveries \cup {ByHand}, outcome : Outcomes,
     row : {"none", "running", "success", "partial", "failed"}, dropped : BOOLEAN]

JobInv ==
    /\ worker \in [Runners -> WorkerRecords]
    /\ \A w \in Runners : HasLock(worker[w], w, jobLock)

-----------------------------------------------------------------------------
(* The steps.                                                              *)

LEMMA JobInitHolds == JobInit => JobInv
  BY DEF JobInit, JobInv, AtRest, WorkerRecords, Outcomes, HasLock, UnderLock

\* A step of one run that takes the lock from no other.
LEMMA JobOneRunMoves ==
    ASSUME JobInv, NEW w \in Runners, NEW record \in WorkerRecords,
           worker' = [worker EXCEPT ![w] = record],
           HasLock(record, w, jobLock'),
           \A v \in Runners \ {w} : jobLock = v => jobLock' = v
    PROVE  JobInv'
<1>1. worker' \in [Runners -> WorkerRecords]
  BY DEF JobInv
<1>2. ASSUME NEW v \in Runners PROVE HasLock(worker'[v], v, jobLock')
  <2>1. worker'[v] = IF v = w THEN record ELSE worker[v]
    BY DEF JobInv
  <2> QED  BY <2>1 DEF JobInv, HasLock
<1> QED  BY <1>1, <1>2 DEF JobInv

\* The steps under the lock, and after it.
LEMMA JobRunStepHolds ==
    ASSUME JobInv, NEW w \in Runners, RunStep(w)
    PROVE  JobInv'
<1> DEFINE q == worker[w]
<1>1. q \in WorkerRecords /\ HasLock(q, w, jobLock) /\ w # NoOne
  BY JobAssumption DEF JobInv, JobAssumption
<1> USE DEF WorkerTo
<1>2. CASE TryJobLock(w)
  <2>1. CASE Locked
    <3> DEFINE record == [q EXCEPT !.step = "over", !.outcome = "skipped"]
    <3>1. record \in WorkerRecords /\ HasLock(record, w, jobLock)
      BY <1>1 DEF WorkerRecords, Outcomes, HasLock, UnderLock
    <3>2. worker' = [worker EXCEPT ![w] = record] /\ jobLock' = jobLock
      BY <1>2, <2>1 DEF TryJobLock
    <3> QED  BY <3>1, <3>2, JobOneRunMoves
  <2>2. CASE ~Locked
    <3> DEFINE record == [q EXCEPT !.step = "locked"]
    <3>1. record \in WorkerRecords /\ jobLock' = w /\ worker' = [worker EXCEPT ![w] = record]
      BY <1>1, <1>2, <2>2 DEF WorkerRecords, TryJobLock
    <3>2. \A v \in Runners : jobLock # v
      BY <2>2, JobAssumption DEF Locked, JobAssumption
    <3> QED  BY <3>1, <3>2, JobOneRunMoves DEF HasLock
  <2> QED  BY <2>1, <2>2
<1>3. CASE StartRow(w) \/ FinishRow(w) \/ \E o \in Outcomes \ {"none", "skipped"} : EndBody(w, o)
  <2>1. PICK record \in WorkerRecords :
            /\ record.step \in UnderLock /\ record.dropped = q.dropped
            /\ worker' = [worker EXCEPT ![w] = record]
    <3>1. CASE StartRow(w)
      <4>1. CASE worker' = [worker EXCEPT ![w].step = "body", ![w].row = "running"]
        <5> DEFINE record == [q EXCEPT !.step = "body", !.row = "running"]
        <5>1. /\ record \in WorkerRecords /\ record.step \in UnderLock
              /\ record.dropped = q.dropped /\ worker' = [worker EXCEPT ![w] = record]
          BY <1>1, <4>1 DEF WorkerRecords, UnderLock
        <5> QED  BY <5>1
      <4>2. CASE worker' = [worker EXCEPT ![w].step = "recorded", ![w].outcome = "transient"]
        <5> DEFINE record == [q EXCEPT !.step = "recorded", !.outcome = "transient"]
        <5>1. /\ record \in WorkerRecords /\ record.step \in UnderLock
              /\ record.dropped = q.dropped /\ worker' = [worker EXCEPT ![w] = record]
          BY <1>1, <4>2 DEF WorkerRecords, UnderLock, Outcomes
        <5> QED  BY <5>1
      <4> QED  BY <3>1, <4>1, <4>2 DEF StartRow
    <3>2. CASE FinishRow(w)
      <4>1. CASE worker' = [worker EXCEPT ![w].step = "recorded", ![w].row = StatusOf(q.outcome)]
        <5> DEFINE record == [q EXCEPT !.step = "recorded", !.row = StatusOf(q.outcome)]
        <5>1. /\ record \in WorkerRecords /\ record.step \in UnderLock
              /\ record.dropped = q.dropped /\ worker' = [worker EXCEPT ![w] = record]
          BY <1>1, <4>1 DEF WorkerRecords, UnderLock, StatusOf
        <5> QED  BY <5>1
      <4>2. CASE worker' = [worker EXCEPT ![w].step = "recorded"]
        <5> DEFINE record == [q EXCEPT !.step = "recorded"]
        <5>1. /\ record \in WorkerRecords /\ record.step \in UnderLock
              /\ record.dropped = q.dropped /\ worker' = [worker EXCEPT ![w] = record]
          BY <1>1, <4>2 DEF WorkerRecords, UnderLock
        <5> QED  BY <5>1
      <4> QED  BY <3>2, <4>1, <4>2 DEF FinishRow
    <3>3. ASSUME NEW o \in Outcomes \ {"none", "skipped"}, EndBody(w, o)
          PROVE  \E record \in WorkerRecords :
                    /\ record.step \in UnderLock /\ record.dropped = q.dropped
                    /\ worker' = [worker EXCEPT ![w] = record]
      <4> DEFINE record == [q EXCEPT !.step = "ended", !.outcome = o]
      <4>1. /\ record \in WorkerRecords /\ record.step \in UnderLock
            /\ record.dropped = q.dropped /\ worker' = [worker EXCEPT ![w] = record]
        BY <1>1, <3>3 DEF WorkerRecords, UnderLock, EndBody
      <4> QED  BY <4>1
    <3> QED  BY <1>3, <3>1, <3>2, <3>3
  <2>2. jobLock' = jobLock /\ q.step \in UnderLock
    BY <1>3 DEF StartRow, FinishRow, EndBody, UnderLock
  <2> QED  BY <1>1, <2>1, <2>2, JobOneRunMoves DEF HasLock
<1>4. CASE ReleaseJobLock(w) \/ \E d \in Deliveries : SendRetry(w, d)
  <2>1. PICK record \in WorkerRecords :
            record.step \notin UnderLock /\ worker' = [worker EXCEPT ![w] = record]
    <3>1. ASSUME NEW step \in {"over", "retried"}
          PROVE  /\ [q EXCEPT !.step = step] \in WorkerRecords
                 /\ [q EXCEPT !.step = step].step \notin UnderLock
      BY <1>1 DEF WorkerRecords, UnderLock
    <3> QED  BY <1>4, <3>1 DEF ReleaseJobLock, SendRetry
  <2>2. \A v \in Runners \ {w} : jobLock = v => jobLock' = v
    BY <1>4 DEF ReleaseJobLock, SendRetry, Release
  <2> QED  BY <2>1, <2>2, JobOneRunMoves DEF HasLock
<1>5. CASE EndTask(w)
  <2>1. AtRest \in WorkerRecords /\ HasLock(AtRest, w, jobLock)
    BY DEF AtRest, WorkerRecords, Outcomes, HasLock, UnderLock
  <2> QED  BY <1>5, <2>1, JobOneRunMoves DEF EndTask
<1> QED  BY <1>2, <1>3, <1>4, <1>5 DEF RunStep, Outcomes

LEMMA JobStepHolds == JobInv /\ [JobNext]_jobVars => JobInv'
<1> SUFFICES ASSUME JobInv, [JobNext]_jobVars PROVE JobInv'
  OBVIOUS
<1>1. ASSUME NEW d \in Deliveries, SendTask(d) PROVE JobInv'
  BY <1>1 DEF SendTask, JobInv
<1>2. AtRest \in WorkerRecords
  BY DEF AtRest, WorkerRecords, Outcomes
<1>3. ASSUME NEW w \in Runners, NEW d \in Deliveries, TakeTask(w, d) PROVE JobInv'
  <2> DEFINE record == [AtRest EXCEPT !.step = "starting", !.of = d]
  <2>1. record \in WorkerRecords /\ HasLock(record, w, jobLock)
    BY <1>2 DEF WorkerRecords, HasLock, UnderLock
  <2> QED  BY <1>3, <2>1, JobOneRunMoves DEF TakeTask
<1>4. ASSUME NEW w \in Runners, RunByHand(w) PROVE JobInv'
  <2> DEFINE record == [AtRest EXCEPT !.step = "starting"]
  <2>1. record \in WorkerRecords /\ HasLock(record, w, jobLock)
    BY <1>2 DEF WorkerRecords, HasLock, UnderLock
  <2> QED  BY <1>4, <2>1, JobOneRunMoves DEF RunByHand
<1>5. ASSUME NEW w \in Runners, KillWorker(w) PROVE JobInv'
  <2>1. HasLock(AtRest, w, jobLock')
    BY DEF AtRest, HasLock, UnderLock
  <2> QED  BY <1>2, <1>5, <2>1, JobOneRunMoves DEF KillWorker, Release
<1>6. ASSUME NEW w \in Runners, DropLock(w) PROVE JobInv'
  <2> DEFINE record == [worker[w] EXCEPT !.dropped = TRUE]
  <2>1. record \in WorkerRecords /\ HasLock(record, w, jobLock')
    BY DEF JobInv, WorkerRecords, HasLock
  <2>2. worker' = [worker EXCEPT ![w] = record] /\ jobLock = w
    BY <1>6 DEF DropLock
  <2> QED  BY <2>1, <2>2, JobOneRunMoves
<1>7. CASE UNCHANGED jobVars
  BY <1>7 DEF jobVars, JobInv
<1> QED  BY <1>1, <1>3, <1>4, <1>5, <1>6, <1>7, JobRunStepHolds DEF JobNext

\* For any workers and shells, two runs of the job are never in it at once but
\* where one has lost its lock's connection.
THEOREM OneRun == JobSpec => []OneRunAtATime
<1>1. JobInv => OneRunAtATime
  BY DEF JobInv, HasLock, UnderLock, OneRunAtATime, InBody
<1> QED  BY JobInitHolds, JobStepHolds, <1>1, PTL DEF JobSpec

-----------------------------------------------------------------------------
(* ResponseCache.                                                          *)

\* A request takes no longer than BuildTime; what it has read was current when it
\* began or after, or was a count that was kept then.
Building(r) ==
    reader[r].step # "idle" =>
        /\ reader[r].since <= tick /\ tick <= reader[r].since + BuildTime
        /\ reader[r].step # "missed" => reader[r].version <= version
        /\ reader[r].step = "counting" /\ reader[r].version < version =>
             reader[r].since <= replaced[reader[r].version]
        /\ reader[r].step \in {"counted", "built"} /\ reader[r].version < version =>
             reader[r].since < replaced[reader[r].version] + CountFor + BuildTime

\* A count that is stale was built when it was not, and a page from such a count.
CountKept ==
    /\ cachedCount.version <= version /\ cachedCount.until <= tick + CountFor
    /\ cachedCount.version < version /\ cachedCount.until > 0 =>
         cachedCount.until <= replaced[cachedCount.version] + CountFor + BuildTime
PageKept ==
    /\ cachedPage.version <= version /\ cachedPage.until <= tick + PageFor
    /\ cachedPage.version < version /\ cachedPage.until > 0 =>
         cachedPage.until < replaced[cachedPage.version] + PageFor + CountFor + 2 * BuildTime

RecentInv ==
    /\ CacheTypeOK
    /\ \A r \in Readers : Building(r)
    /\ CountKept /\ PageKept
    /\ cleared <= version

\* What is kept, or being built, of before the last invalidation is late; while one is
\* between its scan and its delete, everything is but the keys it has found.
LateInv ==
    /\ \A entry \in {cachedPage, cachedCount} :
         Live(entry) /\ ~entry.late => entry.version >= cleared
    /\ \A r \in Readers :
         reader[r].step \notin {"idle", "missed"} /\ ~reader[r].late => reader[r].version >= cleared
    /\ publisher.step = "scanned" =>
        /\ \A r \in Readers : reader[r].step # "idle" => reader[r].late
        /\ Live(cachedPage) /\ ~cachedPage.late => "page" \in publisher.found
        /\ Live(cachedCount) /\ ~cachedCount.late => "count" \in publisher.found

-----------------------------------------------------------------------------
(* The steps.                                                              *)

ReaderRecords ==
    [step : {"idle", "missed", "counting", "counted", "built"}, since : Ticks,
     reachable : BOOLEAN, version : Versions, late : BOOLEAN]

LEMMA CacheNumbers ==
    ASSUME CacheTypeOK
    PROVE  /\ tick \in Nat /\ version \in Nat /\ cleared \in Nat /\ LastTick \in Nat
           /\ LastVersion \in Nat /\ version <= LastVersion /\ tick <= LastTick
           /\ PageFor \in Nat /\ PageFor > 0 /\ CountFor \in Nat /\ CountFor > 0
           /\ BuildTime \in Nat
           /\ \A v \in Versions : replaced[v] \in Nat /\ v \in Nat
           /\ \A r \in Readers : /\ reader[r] \in ReaderRecords /\ reader[r].since \in Nat
                                 /\ reader[r].version \in Nat /\ reader[r].version \in Versions
           /\ \A entry \in {cachedPage, cachedCount} :
                entry.version \in Nat /\ entry.version \in Versions /\ entry.until \in Nat
BY CacheAssumption DEF CacheAssumption, CacheTypeOK, Ticks, Versions, Entries, ReaderRecords

\* Nothing changes but one request, to a record that is as one should be.
LEMMA ReaderMoves ==
    ASSUME RecentInv, LateInv, NEW r \in Readers, NEW record \in ReaderRecords,
           reader' = [reader EXCEPT ![r] = record],
           UNCHANGED <<tick, version, publisher, replaced, cleared>>,
           Building(r)',
           record.step \notin {"idle", "missed"} /\ ~record.late => record.version >= cleared,
           publisher.step = "scanned" => record.step = "idle" \/ record.late
    PROVE  /\ reader' \in [Readers -> ReaderRecords]
           /\ \A q \in Readers : Building(q)'
           /\ \A q \in Readers : reader'[q].step \notin {"idle", "missed"} /\ ~reader'[q].late =>
                reader'[q].version >= cleared'
           /\ publisher'.step = "scanned" =>
                \A q \in Readers : reader'[q].step # "idle" => reader'[q].late
<1>1. /\ reader' \in [Readers -> ReaderRecords]
      /\ \A q \in Readers : reader'[q] = IF q = r THEN record ELSE reader[q]
  BY DEF RecentInv, CacheTypeOK, ReaderRecords
<1>2. \A q \in Readers \ {r} : Building(q)'
  BY <1>1 DEF RecentInv, Building
<1> QED  BY <1>1, <1>2 DEF LateInv

LEMMA ReadPageHolds ==
    ASSUME RecentInv, LateInv, NEW r \in Readers, NEW reachable \in BOOLEAN, ReadPage(r, reachable)
    PROVE  RecentInv' /\ LateInv'
<1> DEFINE record == [NoReader EXCEPT !.step = "missed", !.since = tick, !.reachable = reachable,
                                      !.late = publisher.step = "scanned"]
<1>1. 0 \in Versions /\ tick \in Ticks
  BY CacheAssumption DEF CacheAssumption, RecentInv, CacheTypeOK, Versions
<1>2. /\ record \in ReaderRecords /\ record.step = "missed" /\ record.since = tick
      /\ record.late = (publisher.step = "scanned")
  BY <1>1 DEF NoReader, ReaderRecords
<1>3. /\ reader' = [reader EXCEPT ![r] = record]
      /\ UNCHANGED <<tick, version, publisher, replaced, cleared, cachedPage, cachedCount>>
  BY DEF ReadPage, ReaderLeaves
<1> HIDE DEF record
<1>4. reader'[r] = record
  BY <1>3 DEF RecentInv, CacheTypeOK
<1>5. Building(r)'
  BY <1>2, <1>3, <1>4, CacheNumbers DEF Building, RecentInv
<1>6. /\ reader' \in [Readers -> ReaderRecords]
      /\ \A q \in Readers : Building(q)'
      /\ \A q \in Readers : reader'[q].step \notin {"idle", "missed"} /\ ~reader'[q].late =>
           reader'[q].version >= cleared'
      /\ publisher'.step = "scanned" =>
           \A q \in Readers : reader'[q].step # "idle" => reader'[q].late
  BY <1>2, <1>3, <1>5, ReaderMoves
<1> QED  BY <1>3, <1>6
         DEF RecentInv, LateInv, CacheTypeOK, CountKept, PageKept, Live, ReaderRecords

LEMMA ReadCountHolds ==
    ASSUME RecentInv, LateInv, NEW r \in Readers, ReadCount(r)
    PROVE  RecentInv' /\ LateInv'
<1> DEFINE hit == [reader[r] EXCEPT !.step = "counted", !.version = cachedCount.version,
                                    !.late = @ \/ cachedCount.late]
           miss == [reader[r] EXCEPT !.step = "counting", !.version = version]
           found == reader[r].reachable /\ Live(cachedCount)
           record == IF found THEN hit ELSE miss
<1>1. /\ reader[r] \in ReaderRecords /\ reader[r].step = "missed" /\ version \in Versions
      /\ cachedCount.version \in Versions /\ cachedCount.late \in BOOLEAN
      /\ reader \in [Readers -> ReaderRecords]
  BY DEF RecentInv, CacheTypeOK, ReaderRecords, Entries, ReadCount
<1>2. hit \in ReaderRecords /\ miss \in ReaderRecords
  BY <1>1 DEF ReaderRecords
<1>3. /\ reader' = [reader EXCEPT ![r] = record]
      /\ UNCHANGED <<tick, version, publisher, replaced, cleared, cachedPage, cachedCount>>
  BY <1>1 DEF ReadCount, ReaderLeaves, Going
<1>4. /\ reader'[r] = record /\ record \in ReaderRecords
      /\ record.since = reader[r].since
      /\ found => /\ record.step = "counted" /\ record.version = cachedCount.version
                  /\ record.late = (reader[r].late \/ cachedCount.late)
      /\ ~found => /\ record.step = "counting" /\ record.version = version
                   /\ record.late = reader[r].late
  BY <1>1, <1>2, <1>3 DEF ReaderRecords
<1> HIDE DEF record, hit, miss
<1>5. Building(r)'
  BY <1>1, <1>3, <1>4, CacheNumbers DEF Building, RecentInv, CountKept, Live
<1>6. record.step \notin {"idle", "missed"} /\ ~record.late => record.version >= cleared
  BY <1>4, CacheNumbers DEF RecentInv, LateInv
<1>7. publisher.step = "scanned" => record.late
  BY <1>1, <1>4 DEF LateInv
<1>8. /\ reader' \in [Readers -> ReaderRecords]
      /\ \A q \in Readers : Building(q)'
      /\ \A q \in Readers : reader'[q].step \notin {"idle", "missed"} /\ ~reader'[q].late =>
           reader'[q].version >= cleared'
      /\ publisher'.step = "scanned" =>
           \A q \in Readers : reader'[q].step # "idle" => reader'[q].late
  BY <1>3, <1>4, <1>5, <1>6, <1>7, ReaderMoves
<1> QED  BY <1>3, <1>8
         DEF RecentInv, LateInv, CacheTypeOK, CountKept, PageKept, Live, ReaderRecords

LEMMA BuildPageHolds ==
    ASSUME RecentInv, LateInv, NEW r \in Readers, BuildPage(r)
    PROVE  RecentInv' /\ LateInv'
<1> DEFINE record == [reader[r] EXCEPT !.step = "built"]
<1>1. /\ reader[r] \in ReaderRecords /\ reader[r].step = "counted"
      /\ reader' = [reader EXCEPT ![r] = record] /\ reader \in [Readers -> ReaderRecords]
      /\ UNCHANGED <<tick, version, publisher, replaced, cleared, cachedPage, cachedCount>>
  BY DEF RecentInv, CacheTypeOK, ReaderRecords, BuildPage, ReaderLeaves, Going
<1>2. /\ record \in ReaderRecords /\ record.step = "built" /\ reader'[r] = record
      /\ record.since = reader[r].since /\ record.version = reader[r].version
      /\ record.late = reader[r].late
  BY <1>1 DEF ReaderRecords
<1> HIDE DEF record
<1>3. Building(r)'
  BY <1>1, <1>2 DEF Building, RecentInv
<1>4. /\ reader' \in [Readers -> ReaderRecords]
      /\ \A q \in Readers : Building(q)'
      /\ \A q \in Readers : reader'[q].step \notin {"idle", "missed"} /\ ~reader'[q].late =>
           reader'[q].version >= cleared'
      /\ publisher'.step = "scanned" =>
           \A q \in Readers : reader'[q].step # "idle" => reader'[q].late
  BY <1>1, <1>2, <1>3, ReaderMoves DEF LateInv
<1> QED  BY <1>1, <1>4
         DEF RecentInv, LateInv, CacheTypeOK, CountKept, PageKept, Live, ReaderRecords

\* What a request writes is what it has read.
LEMMA WrittenIs ==
    ASSUME RecentInv, NEW r \in Readers, NEW seconds \in 0 .. PageFor + CountFor
    PROVE  /\ Written(r, seconds) \in Entries /\ Written(r, seconds).version = reader[r].version
           /\ Written(r, seconds).until = tick + seconds
           /\ Written(r, seconds).late = reader[r].late
<1>1. tick + seconds \in 0 .. LastTick + PageFor + CountFor
  BY CacheNumbers DEF RecentInv
<1> QED  BY <1>1, CacheNumbers DEF RecentInv, Written, Entries, ReaderRecords

LEMMA WriteCountHolds ==
    ASSUME RecentInv, LateInv, NEW r \in Readers, NEW written \in BOOLEAN, WriteCount(r, written)
    PROVE  RecentInv' /\ LateInv'
<1> DEFINE record == [reader[r] EXCEPT !.step = "counted"]
<1>1. /\ reader[r] \in ReaderRecords /\ reader[r].step = "counting"
      /\ reader' = [reader EXCEPT ![r] = record] /\ reader \in [Readers -> ReaderRecords]
      /\ UNCHANGED <<tick, version, publisher, replaced, cleared, cachedPage>>
      /\ cachedCount' = IF written THEN Written(r, CountFor) ELSE cachedCount
  BY DEF RecentInv, CacheTypeOK, ReaderRecords, WriteCount, ReaderLeaves, Going
<1>2. /\ record \in ReaderRecords /\ record.step = "counted" /\ reader'[r] = record
      /\ record.since = reader[r].since /\ record.version = reader[r].version
      /\ record.late = reader[r].late
  BY <1>1 DEF ReaderRecords
<1> HIDE DEF record
<1>3. Building(r)'
  <2>1. reader[r].version < version =>
          reader[r].since < replaced[reader[r].version] + CountFor + BuildTime
    <3>1. reader[r].version < version => reader[r].since <= replaced[reader[r].version]
      BY <1>1 DEF Building, RecentInv
    <3>2. replaced[reader[r].version] \in Nat /\ reader[r].since \in Nat
      BY CacheNumbers DEF RecentInv
    <3> QED  BY <3>1, <3>2, CacheNumbers DEF RecentInv
  <2> QED  BY <1>1, <1>2, <2>1 DEF Building, RecentInv
<1>4. /\ reader' \in [Readers -> ReaderRecords]
      /\ \A q \in Readers : Building(q)'
      /\ \A q \in Readers : reader'[q].step \notin {"idle", "missed"} /\ ~reader'[q].late =>
           reader'[q].version >= cleared'
      /\ publisher'.step = "scanned" =>
           \A q \in Readers : reader'[q].step # "idle" => reader'[q].late
  BY <1>1, <1>2, <1>3, ReaderMoves DEF LateInv
<1>5. CASE ~written
  BY <1>1, <1>4, <1>5
  DEF RecentInv, LateInv, CacheTypeOK, CountKept, PageKept, Live, ReaderRecords
<1>6. CASE written
  <2>1. CountFor \in 0 .. PageFor + CountFor
    BY CacheNumbers DEF RecentInv
  <2>2. /\ cachedCount' \in Entries /\ cachedCount'.version = reader[r].version
        /\ cachedCount'.until = tick + CountFor /\ cachedCount'.late = reader[r].late
    BY <1>1, <1>6, <2>1, WrittenIs
  <2>3. CountKept'
    BY <1>1, <2>2, CacheNumbers DEF RecentInv, Building, CountKept
  <2>4. RecentInv'
    BY <1>1, <1>4, <2>2, <2>3 DEF RecentInv, CacheTypeOK, PageKept, ReaderRecords
  <2>5. LateInv'
    BY <1>1, <1>4, <2>2 DEF LateInv, Live
  <2> QED  BY <2>4, <2>5
<1> QED  BY <1>5, <1>6

LEMMA WritePageHolds ==
    ASSUME RecentInv, LateInv, NEW r \in Readers, NEW written \in BOOLEAN, WritePage(r, written)
    PROVE  RecentInv' /\ LateInv'
<1>1. /\ reader[r] \in ReaderRecords /\ reader[r].step = "built"
      /\ reader' = [reader EXCEPT ![r] = NoReader] /\ reader \in [Readers -> ReaderRecords]
      /\ UNCHANGED <<tick, version, publisher, replaced, cleared, cachedCount>>
      /\ cachedPage' = IF written THEN Written(r, PageFor) ELSE cachedPage
  BY DEF RecentInv, CacheTypeOK, ReaderRecords, WritePage, ReaderLeaves
<1>2. NoReader \in ReaderRecords /\ NoReader.step = "idle" /\ reader'[r] = NoReader
  <2>1. 0 \in Versions /\ 0 \in Ticks
    BY CacheAssumption DEF CacheAssumption, Versions, Ticks
  <2> QED  BY <1>1, <2>1 DEF NoReader, ReaderRecords
<1>3. Building(r)'
  BY <1>2 DEF Building
<1>4. /\ reader' \in [Readers -> ReaderRecords]
      /\ \A q \in Readers : Building(q)'
      /\ \A q \in Readers : reader'[q].step \notin {"idle", "missed"} /\ ~reader'[q].late =>
           reader'[q].version >= cleared'
      /\ publisher'.step = "scanned" =>
           \A q \in Readers : reader'[q].step # "idle" => reader'[q].late
  BY <1>1, <1>2, <1>3, ReaderMoves
<1>5. CASE ~written
  BY <1>1, <1>4, <1>5
  DEF RecentInv, LateInv, CacheTypeOK, CountKept, PageKept, Live, ReaderRecords
<1>6. CASE written
  <2>1. PageFor \in 0 .. PageFor + CountFor
    BY CacheNumbers DEF RecentInv
  <2>2. /\ cachedPage' \in Entries /\ cachedPage'.version = reader[r].version
        /\ cachedPage'.until = tick + PageFor /\ cachedPage'.late = reader[r].late
    BY <1>1, <1>6, <2>1, WrittenIs
  <2>3. PageKept'
    BY <1>1, <2>2, CacheNumbers DEF RecentInv, Building, PageKept
  <2>4. RecentInv'
    BY <1>1, <1>4, <2>2, <2>3 DEF RecentInv, CacheTypeOK, CountKept, ReaderRecords
  <2>5. LateInv'
    BY <1>1, <1>4, <2>2 DEF LateInv, Live
  <2> QED  BY <2>4, <2>5
<1> QED  BY <1>5, <1>6

LEMMA NextTickHolds ==
    ASSUME RecentInv, LateInv, NextTick
    PROVE  RecentInv' /\ LateInv'
<1>1. tick' = tick + 1 /\ tick < LastTick
      /\ UNCHANGED <<version, cachedPage, cachedCount, reader, publisher, replaced, cleared>>
  BY DEF NextTick
<1>2. CacheTypeOK'
  BY <1>1, CacheNumbers DEF RecentInv, CacheTypeOK, Ticks
<1>3. \A r \in Readers : Building(r)'
  BY <1>1, CacheNumbers DEF RecentInv, Building, NextTick
<1>4. CountKept' /\ PageKept'
  BY <1>1, CacheNumbers DEF RecentInv, CountKept, PageKept
<1>5. Live(cachedPage)' => Live(cachedPage)
  BY <1>1, CacheNumbers DEF RecentInv, Live
<1>6. Live(cachedCount)' => Live(cachedCount)
  BY <1>1, CacheNumbers DEF RecentInv, Live
<1>7. LateInv'
  BY <1>1, <1>5, <1>6 DEF LateInv, Live
<1> QED  BY <1>1, <1>2, <1>3, <1>4, <1>7 DEF RecentInv

LEMMA PublishHolds ==
    ASSUME RecentInv, LateInv, Publish
    PROVE  RecentInv' /\ LateInv'
<1>1. /\ version < LastVersion /\ version' = version + 1
      /\ replaced' = [replaced EXCEPT ![version] = tick]
      /\ publisher' = [step |-> "committed", found |-> {}]
      /\ UNCHANGED <<tick, cachedPage, cachedCount, reader, cleared>>
  BY DEF Publish, PublisherLeaves
<1>2. /\ version \in Versions /\ version' \in Versions /\ tick \in Ticks /\ tick \in Nat
      /\ replaced \in [Versions -> Ticks]
      /\ \A v \in Versions : replaced'[v] = IF v = version THEN tick ELSE replaced[v]
  BY <1>1, CacheNumbers DEF RecentInv, CacheTypeOK, Versions
<1>3. CacheTypeOK'
  BY <1>1, <1>2 DEF RecentInv, CacheTypeOK
<1>4. ASSUME NEW r \in Readers PROVE Building(r)'
  <2>1. CASE reader[r].version = version
    <3>1. replaced'[reader[r].version] = tick /\ reader[r].version < version'
      BY <1>1, <1>2, <2>1, CacheNumbers DEF RecentInv
    <3> QED  BY <1>1, <2>1, <3>1, CacheNumbers DEF RecentInv, Building
  <2>2. CASE reader[r].version # version
    <3>1. replaced'[reader[r].version] = replaced[reader[r].version]
      BY <1>2, <2>2, CacheNumbers DEF RecentInv
    <3>2. reader[r].version < version' <=> reader[r].version < version
      BY <1>1, <2>2, CacheNumbers DEF RecentInv
    <3>3. reader[r].version <= version => reader[r].version <= version'
      BY <1>1, CacheNumbers DEF RecentInv
    <3> QED  BY <1>1, <3>1, <3>2, <3>3 DEF RecentInv, Building
  <2> QED  BY <2>1, <2>2
<1>5. \A entry \in {cachedPage, cachedCount} :
        /\ entry.version <= version' /\ (entry.version < version' => entry.version <= version)
        /\ replaced'[entry.version] = IF entry.version = version THEN tick
                                      ELSE replaced[entry.version]
        /\ entry.version # version => (entry.version < version' <=> entry.version < version)
  BY <1>1, <1>2, CacheNumbers DEF RecentInv, CountKept, PageKept
<1>6. CountKept' /\ PageKept'
  <2>1. CountKept'
    BY <1>1, <1>2, <1>5, CacheNumbers DEF RecentInv, CountKept
  <2>2. PageKept'
    BY <1>1, <1>2, <1>5, CacheNumbers DEF RecentInv, PageKept
  <2> QED  BY <2>1, <2>2
<1>7. LateInv'
  BY <1>1 DEF LateInv, Live
<1>8. cleared' <= version'
  BY <1>1, CacheNumbers DEF RecentInv
<1> QED  BY <1>3, <1>4, <1>6, <1>7, <1>8 DEF RecentInv

LEMMA OvertakenIs ==
    ASSUME RecentInv, reader' = Overtaken, UNCHANGED <<tick, version, replaced>>
    PROVE  /\ reader' \in [Readers -> ReaderRecords]
           /\ \A r \in Readers : Building(r)'
           /\ \A r \in Readers : reader'[r].step # "idle" => reader'[r].late
<1>1. ASSUME NEW r \in Readers
      PROVE  /\ reader'[r] \in ReaderRecords /\ reader'[r].step = reader[r].step
             /\ reader'[r].since = reader[r].since /\ reader'[r].version = reader[r].version
             /\ reader'[r].step # "idle" => reader'[r].late
  BY DEF Overtaken, RecentInv, CacheTypeOK, ReaderRecords
<1>2. reader' \in [Readers -> ReaderRecords]
  BY <1>1 DEF Overtaken
<1> QED  BY <1>1, <1>2 DEF RecentInv, Building

LEMMA InvalidateHolds ==
    ASSUME RecentInv, LateInv, ScanKeys \/ UnlinkKeys \/ InvalidateFails
    PROVE  RecentInv' /\ LateInv'
<1>1. CASE ScanKeys
  <2>1. /\ publisher' = [step |-> "scanned", found |-> KeysFound] /\ reader' = Overtaken
        /\ UNCHANGED <<tick, version, cachedPage, cachedCount, replaced, cleared>>
        /\ KeysFound \in SUBSET Kinds
    BY <1>1 DEF ScanKeys, KeysFound
  <2>2. /\ Live(cachedPage) => "page" \in KeysFound
        /\ Live(cachedCount) => "count" \in KeysFound
    BY DEF KeysFound, Kinds
  <2>3. RecentInv'
    BY <2>1, OvertakenIs DEF RecentInv, CacheTypeOK, CountKept, PageKept, ReaderRecords
  <2>4. LateInv'
    BY <2>1, <2>2, OvertakenIs DEF LateInv, Live
  <2> QED  BY <2>3, <2>4
<1>2. CASE UnlinkKeys
  <2>1. /\ publisher.step = "scanned" /\ publisher' = [step |-> "idle", found |-> {}]
        /\ reader' = Overtaken /\ cleared' = version
        /\ cachedPage' = IF "page" \in publisher.found THEN Unkept ELSE cachedPage
        /\ cachedCount' = IF "count" \in publisher.found THEN Unkept ELSE cachedCount
        /\ UNCHANGED <<tick, version, replaced>>
    BY <1>2 DEF UnlinkKeys
  <2>2. /\ Unkept.version = 0 /\ Unkept.until = 0 /\ Unkept \in Entries
    BY CacheNumbers DEF Unkept, Entries, Versions, RecentInv
  <2>3. CacheTypeOK'
    BY <2>1, <2>2, OvertakenIs DEF RecentInv, CacheTypeOK, ReaderRecords
  <2>4. CountKept'
    BY <2>1, <2>2, CacheNumbers DEF RecentInv, CountKept
  <2>5. PageKept'
    BY <2>1, <2>2, CacheNumbers DEF RecentInv, PageKept
  <2>6. ~Live(Unkept)
    BY <2>2, CacheNumbers DEF RecentInv, Live
  <2>7. (Live(cachedPage)' => cachedPage'.late) /\ (Live(cachedCount)' => cachedCount'.late)
    BY <2>1, <2>6 DEF LateInv, Live
  <2>8. LateInv'
    BY <2>1, <2>7, OvertakenIs DEF LateInv
  <2> QED  BY <2>1, <2>3, <2>4, <2>5, <2>8, OvertakenIs, CacheNumbers DEF RecentInv
<1>3. CASE InvalidateFails
  BY <1>3 DEF InvalidateFails, PublisherLeaves, RecentInv, LateInv, CacheTypeOK, CountKept,
              PageKept, Building, Live
<1> QED  BY <1>1, <1>2, <1>3

LEMMA CacheHolds == CacheSpec => [](RecentInv /\ LateInv)
<1>1. CacheInit => RecentInv /\ LateInv
  <2> SUFFICES ASSUME CacheInit PROVE RecentInv /\ LateInv
    OBVIOUS
  <2>1. 0 \in Versions /\ 0 \in Ticks /\ Unkept \in Entries /\ NoReader \in ReaderRecords
    BY CacheAssumption
    DEF CacheAssumption, Versions, Ticks, Unkept, Entries, NoReader, ReaderRecords
  <2>2. CacheTypeOK
    BY <2>1 DEF CacheInit, CacheTypeOK, ReaderRecords
  <2> QED  BY <2>2, CacheAssumption
           DEF CacheInit, RecentInv, LateInv, CountKept, PageKept, Building, Live, Unkept,
               NoReader, CacheAssumption
<1>2. RecentInv /\ LateInv /\ [CacheNext]_cacheVars => RecentInv' /\ LateInv'
  <2> SUFFICES ASSUME RecentInv, LateInv, [CacheNext]_cacheVars PROVE RecentInv' /\ LateInv'
    OBVIOUS
  <2>1. CASE UNCHANGED cacheVars
    BY <2>1 DEF cacheVars, RecentInv, LateInv, CacheTypeOK, CountKept, PageKept, Building, Live
  <2> QED  BY <2>1, NextTickHolds, ReadPageHolds, ReadCountHolds, WriteCountHolds, BuildPageHolds,
              WritePageHolds, PublishHolds, InvalidateHolds
           DEF CacheNext
<1> QED  BY <1>1, <1>2, PTL DEF CacheSpec

\* Every key, request and history keeps its type.
THEOREM CacheTypeCorrect == CacheSpec => []CacheTypeOK
<1>1. RecentInv => CacheTypeOK
  BY DEF RecentInv
<1> QED  BY <1>1, CacheHolds, PTL

\* Nothing is served long after it stopped being so, and nothing of before a completed
\* invalidation but what a request under way meanwhile wrote.
THEOREM ServedRecently == CacheSpec => []ServedIsRecent
<1>1. RecentInv /\ LateInv => ServedIsRecent
  <2> SUFFICES ASSUME RecentInv, LateInv, NEW entry \in Cached, entry.version < version
               PROVE  /\ tick - replaced[entry.version] < PageFor + CountFor + 2 * BuildTime
                      /\ entry.version < cleared => entry.late
    BY DEF ServedIsRecent
  <2>1. entry \in {cachedPage, cachedCount} /\ Live(entry)
    BY DEF Cached
  <2>2. tick - replaced[entry.version] < PageFor + CountFor + 2 * BuildTime
    BY <2>1, CacheNumbers DEF RecentInv, CountKept, PageKept, Live
  <2> QED  BY <2>1, <2>2, CacheNumbers DEF RecentInv, LateInv
<1> QED  BY <1>1, CacheHolds, PTL

-----------------------------------------------------------------------------
(* The services together.                                                  *)

\* Every step of the whole is a step of the one part, and leaves the others.
LEMMA PartsHold ==
    Spec => /\ BillingSpec /\ SessionsSpec /\ GrantSpec /\ MeterSpec
            /\ MailSpec /\ RoomSpec /\ JobSpec /\ CacheSpec
<1> DEFINE vars == <<part, accountVars, userVars, workVars>>
<1>1. Init => /\ BillingInit /\ SessionsInit /\ GrantInit /\ MeterInit
              /\ MailInit /\ RoomInit /\ JobInit /\ CacheInit
  BY DEF Init
<1>2. [Next]_vars =>
        /\ [BillingNext]_billingVars /\ [SessionsNext]_sessionVars /\ [GrantNext]_grantVars
        /\ [MeterNext]_meterVars /\ [MailNext]_mailVars /\ [RoomNext]_roomVars
        /\ [JobNext]_jobVars /\ [CacheNext]_cacheVars
  BY DEF Next, accountVars, userVars, workVars
<1> QED
  BY <1>1, <1>2, PTL
  DEF Spec, BillingSpec, SessionsSpec, GrantSpec, MeterSpec, MailSpec, RoomSpec, JobSpec, CacheSpec

\* A message's retries stay within the most there are, and the lock with a run.
LEMMA JobTypeHolds == JobSpec => []JobTypeOK
<1>1. JobInit => JobTypeOK
  BY JobAssumption DEF JobAssumption, JobInit, JobTypeOK, AtRest, Outcomes
<1>2. ASSUME JobInv, JobInv', JobTypeOK, [JobNext]_jobVars PROVE JobTypeOK'
  <2>1. jobLock' \in Runners \cup {NoOne}
    BY <1>2
    DEF JobNext, jobVars, JobTypeOK, SendTask, TakeTask, RunByHand, RunStep, KillWorker,
        DropLock, TryJobLock, StartRow, EndBody, FinishRow, ReleaseJobLock, EndTask, SendRetry,
        Release
  <2>2. delivery' \in [Deliveries -> [state : {"unsent", "queued", "taken", "acked"},
                                     retries : 0 .. MaxRetries]]
    <3>1. ASSUME NEW d \in Deliveries,
                 NEW state \in {"unsent", "queued", "taken", "acked"},
                 delivery' = [delivery EXCEPT ![d].state = state]
          PROVE  delivery' \in [Deliveries -> [state : {"unsent", "queued", "taken", "acked"},
                                              retries : 0 .. MaxRetries]]
      BY <1>2, <3>1 DEF JobTypeOK
    <3>2. ASSUME NEW w \in Runners, NEW d \in Deliveries, SendRetry(w, d)
          PROVE  delivery' \in [Deliveries -> [state : {"unsent", "queued", "taken", "acked"},
                                              retries : 0 .. MaxRetries]]
      <4>1. worker[w].of \in Deliveries
        BY <1>2, <3>2 DEF SendRetry, ToRetry, JobTypeOK
      <4>2. delivery[worker[w].of].retries \in 0 .. MaxRetries
        BY <1>2, <4>1 DEF JobTypeOK
      <4>3. Retries(worker[w].of) \in 0 .. MaxRetries
        BY <3>2, <4>2, JobAssumption DEF JobAssumption, SendRetry, ToRetry, Retries
      <4> QED  BY <1>2, <3>2, <4>3 DEF SendRetry, JobTypeOK
    <3>3. ASSUME NEW w \in Runners, KillWorker(w) \/ EndTask(w)
          PROVE  \/ delivery' = delivery
                 \/ \E d \in Deliveries, state \in {"acked", "queued"} :
                        delivery' = [delivery EXCEPT ![d].state = state]
      <4>1. worker[w].of = ByHand \/ worker[w].of \in Deliveries
        BY <1>2 DEF JobTypeOK
      <4> QED  BY <3>3, <4>1 DEF KillWorker, EndTask
    <3>4. ASSUME NEW d \in Deliveries, SendTask(d) \/ \E w \in Runners : TakeTask(w, d)
          PROVE  \E state \in {"queued", "taken"} :
                    delivery' = [delivery EXCEPT ![d].state = state]
      BY <3>4 DEF SendTask, TakeTask
    <3>5. ASSUME NEW w \in Runners,
                 \/ RunByHand(w) \/ DropLock(w) \/ TryJobLock(w) \/ StartRow(w)
                 \/ \E outcome \in {"success", "partial", "transient", "permanent"} :
                        EndBody(w, outcome)
                 \/ FinishRow(w) \/ ReleaseJobLock(w)
          PROVE  delivery' = delivery
      BY <3>5 DEF RunByHand, DropLock, TryJobLock, StartRow, EndBody, FinishRow, ReleaseJobLock
    <3>6. delivery' = delivery =>
            delivery' \in [Deliveries -> [state : {"unsent", "queued", "taken", "acked"},
                                         retries : 0 .. MaxRetries]]
      BY <1>2 DEF JobTypeOK
    <3> QED  BY <1>2, <3>1, <3>2, <3>3, <3>4, <3>5, <3>6 DEF JobNext, RunStep, jobVars
  <2> QED  BY <1>2, <2>1, <2>2 DEF JobTypeOK, JobInv, WorkerRecords
<1> QED  BY <1>1, <1>2, JobInitHolds, JobStepHolds, PTL DEF JobSpec

\* Every service keeps its types, whatever the others do.
THEOREM ServicesTypeCorrect == Spec => []TypeOK
<1>1. SessionsInv => SessionsTypeOK
  BY DEF SessionsInv
<1>2. GrantInv => GrantTypeOK
  BY DEF GrantInv
<1>3. MeterInv => MeterTypeOK
  BY DEF MeterInv
<1>4. SessionsSpec => []SessionsTypeOK
  BY <1>1, SessionsInitHolds, SessionsStepHolds, PTL DEF SessionsSpec
<1>5. GrantSpec => []GrantTypeOK
  BY <1>2, GrantInitHolds, GrantStepHolds, PTL DEF GrantSpec
<1>6. MeterSpec => []MeterTypeOK
  BY <1>3, MeterInitHolds, MeterStepHolds, PTL DEF MeterSpec
<1>7. BillingTypeOK /\ SessionsTypeOK /\ GrantTypeOK /\ MeterTypeOK /\ MailTypeOK /\ RoomTypeOK
        /\ JobTypeOK /\ CacheTypeOK => TypeOK
  BY DEF TypeOK
<1> QED
  BY <1>4, <1>5, <1>6, <1>7, PartsHold, BillingTypeCorrect, MailTypeCorrect, RoomTypeCorrect,
     JobTypeHolds, CacheTypeCorrect, PTL
=============================================================================
