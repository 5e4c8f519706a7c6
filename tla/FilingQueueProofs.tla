-------------------------- MODULE FilingQueueProofs --------------------------
(***************************************************************************)
(* Proofs about FilingQueue, for any set of filings, any number of slots   *)
(* and whatever people run by hand and whatever goes wrong.                *)
(***************************************************************************)
EXTENDS FilingQueue, TLAPS

\* The steps that write no row of the queue, and what the others write.
LEMMA QueueStep ==
    ASSUME TypeOK, Next
    PROVE  \/ UNCHANGED <<queue, stored>>
           \/ Enqueue
           \/ \E scope, work \in SUBSET Filings : Plan(scope, work)
           \/ \E a \in Filings : Write(a)
           \/ \E a \in Filings : RecordFailure(a) /\ UNCHANGED stored
           \/ \E a \in Filings : SkipLoaded(a)
<1> USE DEF Next
<1>1. CASE \E a \in Filings : File(a) \/ Track(a)
  BY <1>1 DEF File, Track
<1>2. CASE \E found \in SUBSET Filings :
              DiscoverLink(found) \/ ("discover" \in People /\ Find("hand", found))
  BY <1>2 DEF DiscoverLink, Find
<1>3. CASE ReadLoaded
  BY <1>3 DEF ReadLoaded
<1>4. CASE \E force \in BOOLEAN : "backfill" \in People /\ StartRun("hand", force)
  BY <1>4 DEF StartRun
<1>5. CASE \E scope \in SUBSET Filings : \E work \in SUBSET scope : Plan(scope, work)
  BY <1>5
<1>6. CASE \E a \in Filings : Start(a) \/ Fail(a) \/ Block(a)
  BY <1>6 DEF Start, Fail, Block
<1>7. CASE \E a \in Filings : Load(a) \/ LoadIngest(a)
  BY <1>7 DEF Load, LoadIngest
<1>8. CASE \E a \in Filings : RecordAttempt(a)
  BY <1>8 DEF RecordAttempt
<1>9. CASE \E a \in Filings : FailIngest(a)
  BY <1>9 DEF FailIngest
<1>10. CASE \E a \in Filings : StartIngest(a)
  BY <1>10 DEF StartIngest
<1>11. CASE Finish \/ Interrupt \/ Poll \/ DiscoverSkips \/ DiscoverFails \/ IngestLink
            \/ IngestSkips \/ RecomputeLink \/ RefreshLink \/ LastLinksFail
            \/ KillDiscovery \/ KillRun \/ StartRecompute \/ FinishRecompute
            \/ StartRefresh \/ RefreshViews \/ EndRefresh
  BY <1>11 DEF Finish, Interrupt, Poll, DiscoverSkips, DiscoverFails, IngestLink, StartRun,
       IngestSkips, RecomputeLink, RefreshLink, LastLinksFail, StartRefresh, RefreshViews,
       EndRefresh, KillDiscovery, KillRun, StartRecompute, FinishRecompute
<1> QED  BY <1>1, <1>2, <1>3, <1>4, <1>5, <1>6, <1>7, <1>8, <1>9, <1>10, <1>11

-----------------------------------------------------------------------------

\* The steps of a discovery.
LEMMA DiscoveryStep ==
    ASSUME [Next]_vars
    PROVE  UNCHANGED discovery \/ ReadLoaded \/ ~discovery'.reading
<1>1. \A by, found : Find(by, found) => ~discovery'.reading
  BY DEF Find, Idle
<1>2. Enqueue \/ KillDiscovery \/ DiscoverFails => ~discovery'.reading
  BY DEF Enqueue, KillDiscovery, DiscoverFails, Idle
<1>3. \A a \in Filings :
        File(a) \/ Track(a) \/ Start(a) \/ Load(a) \/ Fail(a) \/ Block(a) \/ RecordAttempt(a)
        \/ SkipLoaded(a) \/ StartIngest(a) \/ LoadIngest(a) \/ FailIngest(a)
            => UNCHANGED discovery
  BY DEF File, Track, Start, Load, Fail, Block, RecordAttempt, SkipLoaded, StartIngest,
         LoadIngest, FailIngest
<1>4. \A by, force : StartRun(by, force) => UNCHANGED discovery
  BY DEF StartRun
<1>5. \A scope, work : Plan(scope, work) => UNCHANGED discovery
  BY DEF Plan
<1>6. Finish \/ Interrupt \/ Poll \/ DiscoverSkips \/ IngestSkips \/ RecomputeLink \/ RefreshLink
      \/ LastLinksFail \/ StartRefresh \/ RefreshViews \/ EndRefresh \/ KillRun
      \/ StartRecompute \/ FinishRecompute
        => UNCHANGED discovery
  BY DEF Finish, Interrupt, Poll, DiscoverSkips, IngestSkips, RecomputeLink, RefreshLink,
         LastLinksFail, StartRefresh, RefreshViews, EndRefresh, KillRun, StartRecompute,
         FinishRecompute
<1> QED  BY <1>1, <1>2, <1>3, <1>4, <1>5, <1>6 DEF Next, DiscoverLink, IngestLink, vars

\* The steps of a backfill run.
LEMMA RunStep ==
    ASSUME [Next]_vars
    PROVE  \/ UNCHANGED run \/ Finish \/ Interrupt \/ KillRun
           \/ \E by, force : StartRun(by, force)
           \/ \E scope, work : Plan(scope, work)
           \/ \E a \in Filings : Start(a) \/ Load(a) \/ Fail(a) \/ Block(a) \/ RecordAttempt(a)
<1>1. \A by, found : Find(by, found) => UNCHANGED run
  BY DEF Find
<1>2. \A a \in Filings :
        File(a) \/ Track(a) \/ SkipLoaded(a) \/ StartIngest(a) \/ LoadIngest(a) \/ FailIngest(a)
            => UNCHANGED run
  BY DEF File, Track, SkipLoaded, StartIngest, LoadIngest, FailIngest
<1>3. ReadLoaded \/ Enqueue \/ KillDiscovery \/ DiscoverFails \/ Poll \/ DiscoverSkips
      \/ IngestSkips \/ RecomputeLink \/ RefreshLink \/ LastLinksFail \/ StartRefresh
      \/ RefreshViews \/ EndRefresh \/ StartRecompute \/ FinishRecompute => UNCHANGED run
  BY DEF ReadLoaded, Enqueue, KillDiscovery, DiscoverFails, Poll, DiscoverSkips, IngestSkips,
         RecomputeLink, RefreshLink, LastLinksFail, StartRefresh, RefreshViews, EndRefresh,
         StartRecompute, FinishRecompute
<1> QED  BY <1>1, <1>2, <1>3 DEF Next, DiscoverLink, IngestLink, vars

LEMMA EmptyRuns == Idle \in DiscoveryRun /\ NoRun \in BackfillRun
<1>1. [a \in Filings |-> "unplanned"] \in [Filings -> Fates]
  BY DEF Fates
<1> QED  BY <1>1 DEF Idle, DiscoveryRun, NoRun, BackfillRun

LEMMA FateType ==
    ASSUME run \in BackfillRun, NEW a \in Filings, NEW fate \in Fates
    PROVE  Fate(a, fate) \in BackfillRun
<1>1. [run.fate EXCEPT ![a] = fate] \in [Filings -> Fates]
  BY DEF BackfillRun
<1> QED  BY <1>1 DEF Fate, BackfillRun

\* Every variable stays in its type: a filing's fate, its queue row and what is
\* stored of it are always one of the states named for them.
THEOREM TypeCorrect == Spec => []TypeOK
<1>1. Init => TypeOK
  BY EmptyRuns DEF Init, TypeOK
<1>2. TypeOK /\ [Next]_vars => TypeOK'
  <2> SUFFICES ASSUME TypeOK, [Next]_vars PROVE TypeOK'
    OBVIOUS
  <2> USE DEF TypeOK
  <2>1. ASSUME NEW a \in Filings, File(a) \/ Track(a) PROVE TypeOK'
    BY <2>1 DEF File, Track
  <2>2. ASSUME NEW found \in SUBSET Filings, NEW by \in {"chain", "hand"}, Find(by, found)
        PROVE  TypeOK'
    BY <2>2 DEF Find, Idle, DiscoveryRun
  <2>3. CASE ReadLoaded
    BY <2>3 DEF ReadLoaded, DiscoveryRun
  <2>4. CASE Enqueue
    BY <2>4, EmptyRuns DEF Enqueue, Enqueued
  <2>5. ASSUME NEW by \in {"chain", "hand"}, NEW force \in BOOLEAN, StartRun(by, force)
        PROVE  TypeOK'
    BY <2>5, EmptyRuns DEF StartRun, BackfillRun
  <2>6. ASSUME NEW scope \in SUBSET Filings, NEW work \in SUBSET scope, Plan(scope, work)
        PROVE  TypeOK'
    BY <2>6 DEF Plan, BackfillRun, Fates
  <2>7. ASSUME NEW a \in Filings, Start(a) \/ Fail(a) PROVE TypeOK'
    BY <2>7, FateType DEF Start, Fail, Fates
  <2>8. ASSUME NEW a \in Filings, Block(a) PROVE TypeOK'
    <3>1. Fate(a, "failing") \in BackfillRun
      BY FateType DEF Fates
    <3> QED  BY <2>8, <3>1 DEF Block, BackfillRun
  <2>20. refresh \in {"none", "running", "committed"} /\ RefreshAfter
            => refresh' \in {"none", "running", "committed"}
    BY DEF RefreshAfter
  <2>9. ASSUME NEW a \in Filings, Load(a) PROVE TypeOK'
    <3>1. Fate(a, "over") \in BackfillRun
      BY FateType DEF Fates
    <3>2. run' \in BackfillRun
      BY <2>9, <3>1 DEF Load, BackfillRun
    <3> QED  BY <2>9, <3>2 DEF Load, Write, MarkIngested
  <2>10. ASSUME NEW a \in Filings, RecordAttempt(a) PROVE TypeOK'
    BY <2>10, FateType DEF RecordAttempt, RecordFailure, Fates
  <2>11. CASE Finish
    BY <2>11, <2>20, EmptyRuns DEF Finish
  <2>12. CASE Interrupt
    BY <2>12 DEF Interrupt, BackfillRun
  <2>13. ASSUME NEW a \in Filings, SkipLoaded(a) \/ StartIngest(a) PROVE TypeOK'
    BY <2>13 DEF SkipLoaded, StartIngest, MarkIngested
  <2>14. ASSUME NEW a \in Filings, LoadIngest(a) PROVE TypeOK'
    BY <2>14, <2>20 DEF LoadIngest, Write, MarkIngested
  <2>15. ASSUME NEW a \in Filings, FailIngest(a) PROVE TypeOK'
    BY <2>15 DEF FailIngest, RecordFailure
  <2>16. CASE Poll \/ DiscoverSkips \/ IngestSkips \/ RecomputeLink \/ RefreshLink
              \/ LastLinksFail \/ StartRecompute \/ FinishRecompute \/ StartRefresh
              \/ RefreshViews \/ EndRefresh
    BY <2>16, <2>20 DEF Poll, DiscoverSkips, IngestSkips, RecomputeLink, RefreshLink,
                LastLinksFail, StartRecompute, FinishRecompute, StartRefresh, RefreshViews,
                EndRefresh
  <2>17. CASE DiscoverFails \/ KillDiscovery \/ KillRun
    BY <2>17, EmptyRuns DEF DiscoverFails, KillDiscovery, KillRun
  <2>18. CASE IngestLink
    BY <2>5, <2>18 DEF IngestLink
  <2>19. CASE UNCHANGED vars
    BY <2>19 DEF vars
  <2> HIDE DEF TypeOK
  <2> QED  BY <2>1, <2>2, <2>3, <2>4, <2>5, <2>6, <2>7, <2>8, <2>9, <2>10, <2>11, <2>12,
              <2>13, <2>14, <2>15, <2>16, <2>17, <2>18, <2>19 DEF Next, DiscoverLink
<1> QED  BY <1>1, <1>2, PTL DEF Spec

-----------------------------------------------------------------------------

\* What discovery read as loaded stays loaded until it writes its rows.
SeenLoaded == discovery.reading => \A a \in discovery.loaded : Loaded(a)

\* The queue never says done of a filing that is not loaded, however
\* discoveries, plans, loads and failures interleave and whichever of them dies:
\* a load marks its row in its own transaction, and the two transactions that
\* mark rows they did not load read the filing as loaded first.
THEOREM DoneLoaded == Spec => []DoneIsLoaded
<1> DEFINE Inv == DoneIsLoaded /\ SeenLoaded
<1>1. Init => Inv
  BY DEF Init, DoneIsLoaded, SeenLoaded, Idle
<1>2. TypeOK /\ Inv /\ [Next]_vars => Inv'
  <2> SUFFICES ASSUME TypeOK, Inv, [Next]_vars PROVE Inv'
    OBVIOUS
  <2>1. \A a \in Filings : Loaded(a) => Loaded(a)'
    <3>1. CASE \E a \in Filings : Write(a)
      BY <3>1 DEF Write, Loaded, TypeOK
    <3>2. CASE UNCHANGED vars
      BY <3>2 DEF vars, Loaded
    <3> QED  BY <3>1, <3>2, QueueStep DEF Loaded, Enqueue, Plan, SkipLoaded
  <2>2. DoneIsLoaded'
    <3>1. CASE UNCHANGED <<queue, stored>> \/ UNCHANGED vars
      BY <3>1 DEF vars, DoneIsLoaded, Loaded
    <3>2. CASE Enqueue
      BY <2>1, <3>2 DEF Enqueue, Enqueued, DoneIsLoaded, SeenLoaded, TypeOK
    <3>3. ASSUME NEW scope \in SUBSET Filings, NEW work \in SUBSET Filings, Plan(scope, work)
          PROVE  DoneIsLoaded'
      BY <2>1, <3>3 DEF Plan, Stale, DoneIsLoaded, TypeOK
    <3>4. ASSUME NEW a \in Filings, Write(a) PROVE DoneIsLoaded'
      BY <2>1, <3>4 DEF Write, MarkIngested, DoneIsLoaded, Loaded, TypeOK
    <3>5. ASSUME NEW a \in Filings, RecordFailure(a) PROVE DoneIsLoaded'
      BY <2>1, <3>5 DEF RecordFailure, DoneIsLoaded, TypeOK
    <3>6. ASSUME NEW a \in Filings, SkipLoaded(a) PROVE DoneIsLoaded'
      BY <2>1, <3>6 DEF SkipLoaded, MarkIngested, DoneIsLoaded, TypeOK
    <3> QED  BY <3>1, <3>2, <3>3, <3>4, <3>5, <3>6, QueueStep
  <2>3. SeenLoaded'
    <3>1. CASE UNCHANGED discovery
      BY <2>1, <3>1 DEF SeenLoaded, TypeOK, DiscoveryRun
    <3>2. CASE ReadLoaded
      BY <2>1, <3>2 DEF ReadLoaded, TypeOK, SeenLoaded, DiscoveryRun
    <3>3. CASE ~discovery'.reading
      BY <3>3 DEF SeenLoaded
    <3> QED  BY <3>1, <3>2, <3>3, DiscoveryStep
  <2> QED  BY <2>2, <2>3
<1>3. Inv => DoneIsLoaded
  OBVIOUS
<1> QED  BY <1>1, <1>2, <1>3, TypeCorrect, PTL DEF Spec

\* Only a discovery that read a filing as not loaded reopens a row a load has
\* marked done since: no failed reload does.
THEOREM Reopening == Spec => OnlyDiscoveryReopens
<1>1. TypeOK /\ [Next]_vars =>
        \A a \in Filings :
            queue[a] = "done" /\ queue'[a] # "done" =>
                discovery.reading /\ a \in discovery.found \ discovery.loaded
  <2> SUFFICES ASSUME TypeOK, [Next]_vars, NEW a \in Filings,
                      queue[a] = "done", queue'[a] # "done"
               PROVE  discovery.reading /\ a \in discovery.found \ discovery.loaded
    OBVIOUS
  <2>1. ~UNCHANGED queue /\ ~UNCHANGED vars
    BY DEF vars
  <2>2. \A b \in Filings : ~Write(b) /\ ~RecordFailure(b) /\ ~SkipLoaded(b)
    BY DEF Write, RecordFailure, SkipLoaded, MarkIngested, TypeOK
  <2>3. \A scope, work \in SUBSET Filings : ~Plan(scope, work)
    BY DEF Plan
  <2>4. Enqueue
    BY <2>1, <2>2, <2>3, QueueStep
  <2> QED  BY <2>4 DEF Enqueue, Enqueued, TypeOK
<1> QED  BY <1>1, TypeCorrect, PTL DEF Spec, OnlyDiscoveryReopens

\* A run EDGAR has blocked starts no filing that was waiting for a slot, because
\* the exception's handler stops the run before it awaits anything.
THEOREM Blocked == Spec => BlockedRunStartsNothing
<1> DEFINE Inv == run.blocked => run.stop
<1>1. Init => Inv
  BY DEF Init, NoRun
<1>2. TypeOK /\ Inv /\ [Next]_vars => Inv'
  <2> SUFFICES ASSUME TypeOK, Inv, [Next]_vars PROVE Inv'
    OBVIOUS
  <2>1. CASE UNCHANGED run
    BY <2>1
  <2>2. ASSUME NEW by, NEW force, StartRun(by, force) PROVE Inv'
    BY <2>2 DEF StartRun, NoRun
  <2>3. ASSUME NEW scope, NEW work, Plan(scope, work) PROVE Inv'
    BY <2>3 DEF Plan, TypeOK
  <2>4. ASSUME NEW a \in Filings, Start(a) \/ Load(a) \/ Fail(a) \/ Block(a) \/ RecordAttempt(a)
        PROVE  Inv'
    BY <2>4 DEF Start, Load, Fail, Block, RecordAttempt, Fate, TypeOK, BackfillRun
  <2>5. CASE Finish \/ Interrupt \/ KillRun
    BY <2>5 DEF Finish, Interrupt, KillRun, NoRun, TypeOK, BackfillRun
  <2> QED  BY <2>1, <2>2, <2>3, <2>4, <2>5, RunStep
<1>3. TypeOK /\ Inv /\ [Next]_vars =>
        \A a \in Filings :
            run.fate[a] = "waiting" /\ run'.fate[a] = "inflight" => ~run.blocked
  <2> SUFFICES ASSUME TypeOK, Inv, [Next]_vars, NEW a \in Filings,
                      run.fate[a] = "waiting", run'.fate[a] = "inflight"
               PROVE  ~run.blocked
    OBVIOUS
  <2>1. \E b \in Filings : Start(b)
    <3>1. ~UNCHANGED run
      OBVIOUS
    <3>2. ASSUME run' = NoRun PROVE FALSE
      <4>1. run'.fate[a] = "unplanned"
        BY <3>2 DEF NoRun
      <4> QED  BY <4>1
    <3>3. ~Finish /\ ~KillRun
      BY <3>2 DEF Finish, KillRun
    <3>4. ASSUME NEW by, NEW force, StartRun(by, force) PROVE FALSE
      <4>1. run'.fate = NoRun.fate
        BY <3>4 DEF StartRun, NoRun
      <4> QED  BY <4>1 DEF NoRun
    <3>5. ~Interrupt
      <4>1. SUFFICES ASSUME Interrupt PROVE FALSE
        OBVIOUS
      <4>2. run'.fate = run.fate
        BY <4>1 DEF Interrupt, TypeOK, BackfillRun
      <4> QED  BY <4>2
    <3>6. ASSUME NEW scope, NEW work, Plan(scope, work) PROVE FALSE
      <4>1. run'.fate = [b \in Filings |-> IF b \in work THEN "waiting" ELSE "unplanned"]
        BY <3>6 DEF Plan, TypeOK, BackfillRun
      <4> QED  BY <4>1
    <3>7. ASSUME NEW b \in Filings, Load(b) \/ Fail(b) \/ Block(b) \/ RecordAttempt(b)
          PROVE  FALSE
      <4>1. run.fate[b] # "waiting"
        BY <3>7 DEF Load, Fail, Block, RecordAttempt
      <4>2. CASE Load(b) \/ RecordAttempt(b)
        <5>1. run'.fate = [run.fate EXCEPT ![b] = "over"]
          BY <4>2 DEF Load, RecordAttempt, Fate, TypeOK, BackfillRun
        <5> QED  BY <5>1, <4>1 DEF TypeOK, BackfillRun
      <4>3. CASE Fail(b) \/ Block(b)
        <5>1. run'.fate = [run.fate EXCEPT ![b] = "failing"]
          BY <4>3 DEF Fail, Block, Fate, TypeOK, BackfillRun
        <5> QED  BY <5>1, <4>1 DEF TypeOK, BackfillRun
      <4> QED  BY <3>7, <4>2, <4>3
    <3> QED  BY <3>1, <3>3, <3>4, <3>5, <3>6, <3>7, RunStep
  <2> QED  BY <2>1 DEF Start
<1> QED  BY <1>1, <1>2, <1>3, TypeCorrect, PTL DEF Spec, BlockedRunStartsNothing

-----------------------------------------------------------------------------

\* Of the chain's tasks, one at a time runs: the one whose message is
\* outstanding.
Chained ==
    /\ run.by = "chain" => link = "ingest"
    /\ discovery.by = "chain" => link = "discover"

\* The step of ChainRefreshes.
KeepsFollowed ==
    Followed => \/ Followed'
                \/ KillRun
                \/ LastLinksFail
                \/ FinishRecompute
                \/ EndRefresh
                \/ RefreshLink /\ refresh = "committed"

\* Views behind what the chain ingested have a refresh to come, whatever else runs
\* or goes wrong beside it, a blocked run's loads included, until the run that was
\* to refresh them dies, fails for good or ends without, be it the chain's or the
\* one that holds a lock its link skips for; or a skipped refresh link met a run
\* that had just committed.
THEOREM Refreshed == Spec => ChainRefreshes
<1>1. Init => Chained
  BY DEF Init, Chained, Idle, NoRun
<1>2. TypeOK /\ Chained /\ [Next]_vars => Chained' /\ KeepsFollowed
  <2> SUFFICES ASSUME TypeOK, Chained, [Next]_vars PROVE Chained' /\ KeepsFollowed
    OBVIOUS
  <2> USE DEF Chained, KeepsFollowed, Followed, RefreshToCome
  <2>1. CASE UNCHANGED <<discovery, run, recompute, refresh, link, stale>> \/ UNCHANGED vars
    BY <2>1 DEF vars
  <2>2. ASSUME NEW found, NEW by \in {"chain", "hand"}, Find(by, found),
               by = "chain" => link = "discover"
        PROVE  Chained' /\ KeepsFollowed
    BY <2>2 DEF Find, Idle
  <2>3. CASE ReadLoaded
    <3>1. discovery'.by = discovery.by
      BY <2>3 DEF ReadLoaded, TypeOK, DiscoveryRun
    <3> QED  BY <2>3, <3>1 DEF ReadLoaded
  <2>4. CASE Enqueue
    BY <2>4 DEF Enqueue, Idle
  <2>5. ASSUME NEW by \in {"chain", "hand"}, NEW force, StartRun(by, force),
               by = "chain" => link = "ingest"
        PROVE  Chained' /\ KeepsFollowed
    BY <2>5 DEF StartRun, NoRun
  <2>6. ASSUME NEW scope, NEW work, Plan(scope, work) PROVE Chained' /\ KeepsFollowed
    BY <2>6 DEF Plan, TypeOK, BackfillRun
  <2>7. ASSUME NEW a \in Filings, Start(a) \/ Fail(a) \/ Block(a) \/ RecordAttempt(a)
        PROVE  Chained' /\ KeepsFollowed
    <3>1. run'.by = run.by /\ run'.published = run.published
      BY <2>7 DEF Start, Fail, Block, RecordAttempt, Fate, TypeOK, BackfillRun
    <3> QED  BY <2>7, <3>1 DEF Start, Fail, Block, RecordAttempt
  <2>8. ASSUME NEW a \in Filings, Load(a) PROVE Chained' /\ KeepsFollowed
    <3>1. run'.by = run.by /\ run'.published = (run.published \/ a \in tracked)
      BY <2>8 DEF Load, Fate, TypeOK, BackfillRun
    <3> QED  BY <2>8, <3>1 DEF Load
  <2>9. CASE Finish
    BY <2>9 DEF Finish, Publishes, RefreshAfter, NoRun, TypeOK, BackfillRun
  <2>10. CASE Interrupt
    BY <2>10 DEF Interrupt, TypeOK, BackfillRun
  <2>11. CASE Poll \/ DiscoverSkips \/ IngestSkips \/ RecomputeLink \/ RefreshLink
              \/ LastLinksFail
    BY <2>11 DEF Poll, DiscoverSkips, IngestSkips, RecomputeLink, RefreshLink, LastLinksFail,
                 TypeOK
  <2>12. CASE StartRecompute \/ FinishRecompute \/ StartRefresh \/ RefreshViews \/ EndRefresh
    BY <2>12 DEF StartRecompute, FinishRecompute, StartRefresh, RefreshViews, EndRefresh
  <2>13. CASE DiscoverFails \/ KillDiscovery \/ KillRun
    BY <2>13 DEF DiscoverFails, KillDiscovery, KillRun, Idle, NoRun
  <2>14. ASSUME NEW a \in Filings,
                File(a) \/ Track(a) \/ SkipLoaded(a) \/ StartIngest(a) \/ FailIngest(a)
         PROVE  Chained' /\ KeepsFollowed
    BY <2>1, <2>14 DEF File, Track, SkipLoaded, StartIngest, FailIngest
  <2>15. ASSUME NEW a \in Filings, LoadIngest(a) PROVE Chained' /\ KeepsFollowed
    BY <2>15 DEF LoadIngest, RefreshAfter
  <2> HIDE DEF Chained, KeepsFollowed
  <2> QED  BY <2>1, <2>2, <2>3, <2>4, <2>5, <2>6, <2>7, <2>8, <2>9, <2>10, <2>11, <2>12, <2>13,
              <2>14, <2>15 DEF Next, DiscoverLink, IngestLink
<1>3. KeepsFollowed => [Followed => \/ Followed'
                                    \/ KillRun
                                    \/ LastLinksFail
                                    \/ FinishRecompute
                                    \/ EndRefresh
                                    \/ RefreshLink /\ refresh = "committed"]_vars
  BY DEF KeepsFollowed
<1> QED  BY <1>1, <1>2, <1>3, TypeCorrect, PTL DEF Spec, ChainRefreshes
=============================================================================
