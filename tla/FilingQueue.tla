----------------------------- MODULE FilingQueue -----------------------------
(***************************************************************************)
(* From EDGAR's listing to the database: discovery queues what is not      *)
(* loaded, a backfill drains the queue several filings at a time, a person *)
(* ingests one by hand, and the chain of tasks beat polls with refreshes   *)
(* the materialised views after them.                                      *)
(*                                                                         *)
(* Each database transaction is one step, except that the two whose later  *)
(* statements write by what an earlier one read (enqueue, plan_backfill)   *)
(* are two: other transactions commit in between.  What a load stores is   *)
(* Recompute's concern; here it is only whether the holdings are there.    *)
(***************************************************************************)
EXTENDS Integers, FiniteSets

CONSTANTS
    Filings,        \* what one tracked filer will have filed
    Concurrency,    \* filings a backfill has in flight at once
    People,         \* what people run by hand: "discover", "backfill",
                    \* "ingest", "recompute", "refresh" (beat's daily one, and one
                    \* after any of the others, too)
    Mishaps         \* what goes wrong: "kill", "fail", "block", and "exhaust", a task
                    \* of the chain that fails for good

ASSUME FilingsAssumption == IsFiniteSet(Filings)
ASSUME ConcurrencyAssumption == Concurrency \in Nat \ {0}

VARIABLES
    listed,     \* filings EDGAR's submissions index has
    tracked,    \* filings under a CIK that investors.yaml gives a filer
    stored,     \* filing and holding: not loaded, loaded bare of its holdings, or in full
    queue,      \* pending_filing.status, or "absent" with no row
    discovery,  \* the discover-filings run in progress
    run,        \* the backfill run in progress, which holds the job's lock
    ingest,     \* ingest-filing commands in progress
    recompute,  \* whether a recompute run by hand holds that job's lock
    refresh,    \* the refresh-views run beside the chain, which holds that job's
                \* lock until after it has committed: "none", "running", "committed"
    link,       \* the task of the 13F chain whose message is outstanding
    stale       \* whether the views are behind a load of the chain's

vars == <<listed, tracked, stored, queue, discovery, run, ingest, recompute, refresh, link, stale>>

\* "failing" is between the exception and the queue row's update.
Fates == {"unplanned", "waiting", "inflight", "failing", "over"}

Idle == [by |-> "nobody", found |-> {}, reading |-> FALSE, loaded |-> {}]
NoRun == [by |-> "nobody", planned |-> FALSE, force |-> FALSE, queued |-> {}, open |-> {},
          fate |-> [a \in Filings |-> "unplanned"], archived |-> {},
          stop |-> FALSE, blocked |-> FALSE, published |-> FALSE]

DiscoveryRun ==
    [by : {"nobody", "chain", "hand"}, found : SUBSET Filings,
     reading : BOOLEAN, loaded : SUBSET Filings]
BackfillRun ==
    [by : {"nobody", "chain", "hand"}, planned : BOOLEAN, force : BOOLEAN,
     queued : SUBSET Filings, open : SUBSET Filings, fate : [Filings -> Fates],
     archived : SUBSET Filings, stop : BOOLEAN, blocked : BOOLEAN, published : BOOLEAN]

TypeOK ==
    /\ listed \in SUBSET Filings /\ tracked \in SUBSET Filings
    /\ stored \in [Filings -> {"none", "bare", "full"}]
    /\ queue \in [Filings -> {"absent", "pending", "failed", "done"}]
    /\ discovery \in DiscoveryRun
    /\ run \in BackfillRun
    /\ ingest \in [Filings -> {"idle", "queued", "unqueued"}]
    /\ recompute \in BOOLEAN
    /\ refresh \in {"none", "running", "committed"}
    /\ link \in {"none", "discover", "ingest", "recompute", "refresh"}
    /\ stale \in BOOLEAN

Init ==
    /\ listed = {} /\ tracked = {}
    /\ stored = [a \in Filings |-> "none"]
    /\ queue = [a \in Filings |-> "absent"]
    /\ discovery = Idle /\ run = NoRun
    /\ ingest = [a \in Filings |-> "idle"]
    /\ recompute = FALSE /\ refresh = "none" /\ link = "none" /\ stale = FALSE

\* LOADED_STATUSES, which a filing with its holdings deferred has too.
Loaded(a) == stored[a] # "none"

-----------------------------------------------------------------------------
(* The world: EDGAR accepts a filing, the seed lists its CIK.              *)

File(a) ==
    /\ a \notin listed
    /\ listed' = listed \cup {a}
    /\ UNCHANGED <<tracked, stored, queue, discovery, run, ingest, recompute, refresh, link,
                   stale>>

Track(a) ==
    /\ a \notin tracked
    /\ tracked' = tracked \cup {a}
    /\ UNCHANGED <<listed, stored, queue, discovery, run, ingest, recompute, refresh, link,
                   stale>>

-----------------------------------------------------------------------------
(* What every way of loading a filing does to its queue row.               *)

\* mark_ingested, in the load's transaction; none to mark if never queued.
MarkIngested_FilingStatus(a) ==
    queue' = [queue EXCEPT ![a] = IF @ = "absent" THEN "absent" ELSE "ingested"]
MarkIngested(a) ==
    queue' = [queue EXCEPT ![a] = IF @ = "absent" THEN "absent" ELSE "done"]

\* record_failure, on a row that is not done.
RecordFailure_AnyRow(a) ==
    queue' = [queue EXCEPT ![a] = IF @ = "absent" THEN @ ELSE "failed"]
RecordFailure(a) ==
    queue' = [queue EXCEPT ![a] = IF @ \in {"absent", "done"} THEN @ ELSE "failed"]

\* write_13f: the holdings of a filing under no filer's CIK are deferred, and
\* nothing is published for it.
Write(a) ==
    /\ stored' = [stored EXCEPT ![a] = IF a \in tracked THEN "full" ELSE "bare"]
    /\ MarkIngested(a)

\* _refresh_after, which a command run by hand ends with when it published: a
\* refresh-views run, unless it is told not to or dies, or another has the lock.
RefreshAfter ==
    refresh' \in {refresh} \cup
        (IF "refresh" \in People /\ refresh = "none" THEN {"running"} ELSE {})

-----------------------------------------------------------------------------
(* discover-filings.                                                       *)

\* find_filings: a CIK that could not be read leaves its filings out.
Find(by, found) ==
    /\ discovery.by = "nobody"
    /\ found \subseteq listed \cap tracked
    /\ discovery' = [Idle EXCEPT !.by = by, !.found = found]
    /\ UNCHANGED <<listed, tracked, stored, queue, run, ingest, recompute, refresh, link,
                   stale>>

\* The read of enqueue, and then its two writes: rows for what it saw was not
\* loaded, a done one reopened, and "done" for what it saw was.
ReadLoaded ==
    /\ discovery.by # "nobody" /\ ~discovery.reading
    /\ discovery' = [discovery EXCEPT !.reading = TRUE,
                                      !.loaded = {a \in discovery.found : Loaded(a)}]
    /\ UNCHANGED <<listed, tracked, stored, queue, run, ingest, recompute, refresh, link,
                   stale>>

Enqueued(a, status, seenLoaded) ==
    IF seenLoaded THEN (IF status = "absent" THEN "absent" ELSE "done")
    ELSE IF status \in {"absent", "done"} THEN "pending" ELSE status

Enqueue ==
    /\ discovery.reading
    /\ queue' = [a \in Filings |->
                    IF a \in discovery.found THEN Enqueued(a, queue[a], a \in discovery.loaded)
                    ELSE queue[a]]
    /\ discovery' = Idle
    /\ link' = IF discovery.by = "chain" THEN "ingest" ELSE link
    /\ UNCHANGED <<listed, tracked, stored, run, ingest, recompute, refresh, stale>>

-----------------------------------------------------------------------------
(* backfill.                                                               *)

\* plan_backfill's first read: the queue rows, and which are not done.
StartRun(by, force) ==
    /\ run.by = "nobody"
    /\ run' = [NoRun EXCEPT !.by = by, !.force = force,
                            !.queued = {a \in Filings : queue[a] # "absent"},
                            !.open = {a \in Filings : queue[a] \notin {"absent", "done"}}]
    /\ UNCHANGED <<listed, tracked, stored, queue, discovery, ingest, recompute, refresh, link,
                   stale>>

\* The filings it plans, queued or loaded, within --filer and --since.
Planned(scope) == {a \in scope : a \in run.queued \/ Loaded(a)}

\* A loaded filing is skipped unless the run is forced.
Work_PendingOnly(scope) == {a \in Planned(scope) : queue[a] = "pending" \/ run.force}
Work(scope) == {a \in Planned(scope) : run.force \/ ~Loaded(a)}

\* Rows of loaded filings that something else loaded.
Stale_Queued(scope) == Planned(scope) \cap run.open
Stale(scope) == {a \in Planned(scope) \cap run.open : Loaded(a)}

\* Its second read, of the filings, and the commit.  --limit leaves some out.
Plan(scope, work) ==
    /\ run.by # "nobody" /\ ~run.planned
    /\ work \subseteq Work(scope)
    /\ run.by = "chain" => scope = Filings /\ work = Work(scope)
    /\ queue' = [a \in Filings |-> IF a \in Stale(scope) THEN "done" ELSE queue[a]]
    /\ run' = [run EXCEPT !.planned = TRUE, !.open = {},
                          !.fate = [a \in Filings |-> IF a \in work THEN "waiting"
                                                      ELSE "unplanned"],
                          !.archived = {a \in work : Loaded(a)}]
    /\ UNCHANGED <<listed, tracked, stored, discovery, ingest, recompute, refresh, link, stale>>

Fate(a, fate) == [run EXCEPT !.fate[a] = fate]
Busy == {a \in Filings : run.fate[a] \in {"inflight", "failing"}}

\* A filing takes a slot of the semaphore, and sees that nothing said stop.
Start(a) ==
    /\ run.fate[a] = "waiting" /\ Cardinality(Busy) < Concurrency /\ ~run.stop
    /\ run' = Fate(a, "inflight")
    /\ UNCHANGED <<listed, tracked, stored, queue, discovery, ingest, recompute, refresh, link,
                   stale>>

\* Fetched, archived, parsed and loaded, or reprocessed from the archive.
Load(a) ==
    /\ run.fate[a] = "inflight"
    /\ Write(a)
    /\ run' = [Fate(a, "over") EXCEPT !.published = @ \/ a \in tracked]
    /\ stale' = (stale \/ (run.by = "chain" /\ a \in tracked))
    /\ UNCHANGED <<listed, tracked, discovery, ingest, recompute, refresh, link>>

\* Whatever one filing raises, which rolls its load back.
Fail(a) ==
    /\ "fail" \in Mishaps /\ run.fate[a] = "inflight"
    /\ run' = Fate(a, "failing")
    /\ UNCHANGED <<listed, tracked, stored, queue, discovery, ingest, recompute, refresh, link,
                   stale>>

\* EDGAR blocks the run: "stop" is set before anything is awaited.
Block_NoStop(a) ==
    /\ "block" \in Mishaps /\ run.fate[a] = "inflight" /\ a \notin run.archived
    /\ run' = [Fate(a, "failing") EXCEPT !.blocked = TRUE]
    /\ UNCHANGED <<listed, tracked, stored, queue, discovery, ingest, recompute, refresh, link,
                   stale>>
Block(a) ==
    /\ "block" \in Mishaps /\ run.fate[a] = "inflight" /\ a \notin run.archived
    /\ run' = [Fate(a, "failing") EXCEPT !.blocked = TRUE, !.stop = TRUE]
    /\ UNCHANGED <<listed, tracked, stored, queue, discovery, ingest, recompute, refresh, link,
                   stale>>

\* record_attempt, best effort, for a filing the plan saw in the queue.
RecordAttempt(a) ==
    /\ run.fate[a] = "failing"
    /\ run' = Fate(a, "over")
    /\ \/ a \in run.queued /\ RecordFailure(a)
       \/ UNCHANGED queue
    /\ UNCHANGED <<listed, tracked, stored, discovery, ingest, recompute, refresh, link, stale>>

\* What the ingest task's summary gives the next link, a blocked run's too.
Publishes_Clean == run.published /\ ~run.blocked
Publishes == run.published

\* Every filing is over, or not started because the run was stopped.  A run by
\* hand that loaded something then refreshes the views, unless told not to; in
\* the chain, a link with nothing published skips, and so does the one after.
Finish ==
    /\ run.planned /\ Busy = {}
    /\ run.stop \/ \A a \in Filings : run.fate[a] # "waiting"
    /\ run' = NoRun
    /\ IF run.by = "chain"
       THEN /\ link' = IF Publishes THEN "recompute" ELSE "none"
            /\ UNCHANGED refresh
       ELSE /\ IF run.published THEN RefreshAfter ELSE UNCHANGED refresh
            /\ UNCHANGED link
    /\ UNCHANGED <<listed, tracked, stored, queue, discovery, ingest, recompute, stale>>

\* The first Ctrl-C.
Interrupt ==
    /\ run.by = "hand" /\ run.planned /\ ~run.stop
    /\ run' = [run EXCEPT !.stop = TRUE]
    /\ UNCHANGED <<listed, tracked, stored, queue, discovery, ingest, recompute, refresh, link,
                   stale>>

-----------------------------------------------------------------------------
(* ingest-filing: no job lock, so beside a backfill or another of itself.  *)

\* A filing already loaded is left alone, its queue row marked.
SkipLoaded(a) ==
    /\ "ingest" \in People /\ ingest[a] = "idle" /\ Loaded(a)
    /\ MarkIngested(a)
    /\ UNCHANGED <<listed, tracked, stored, discovery, run, ingest, recompute, refresh, link,
                   stale>>

\* Any listed filing, with --cik; with --force, a loaded one too.
StartIngest(a) ==
    /\ "ingest" \in People /\ ingest[a] = "idle" /\ a \in listed
    /\ ingest' = [ingest EXCEPT ![a] = IF queue[a] = "absent" THEN "unqueued" ELSE "queued"]
    /\ UNCHANGED <<listed, tracked, stored, queue, discovery, run, recompute, refresh, link,
                   stale>>

LoadIngest(a) ==
    /\ ingest[a] # "idle"
    /\ Write(a)
    /\ ingest' = [ingest EXCEPT ![a] = "idle"]
    /\ IF a \in tracked THEN RefreshAfter ELSE UNCHANGED refresh
    /\ UNCHANGED <<listed, tracked, discovery, run, recompute, link, stale>>

FailIngest(a) ==
    /\ "fail" \in Mishaps /\ ingest[a] # "idle"
    /\ \/ ingest[a] = "queued" /\ RecordFailure(a)
       \/ UNCHANGED queue
    /\ ingest' = [ingest EXCEPT ![a] = "idle"]
    /\ UNCHANGED <<listed, tracked, stored, discovery, run, recompute, refresh, link, stale>>

-----------------------------------------------------------------------------
(* The 13F chain: discover, ingest, recompute, refresh, one message at a   *)
(* time.  A link whose job another run holds returns "skipped: locked".    *)

\* Beat's poll.
Poll ==
    /\ link = "none"
    /\ link' = "discover"
    /\ UNCHANGED <<listed, tracked, stored, queue, discovery, run, ingest, recompute, refresh,
                   stale>>

\* Discovery skipped or failed: the ingest is only sent after a task that
\* succeeded, as a skipped one does.
DiscoverLink(found) == link = "discover" /\ Find("chain", found)
DiscoverSkips ==
    /\ link = "discover" /\ discovery.by = "hand"
    /\ link' = "ingest"
    /\ UNCHANGED <<listed, tracked, stored, queue, discovery, run, ingest, recompute, refresh,
                   stale>>
DiscoverFails ==
    /\ "fail" \in Mishaps /\ link = "discover" /\ discovery.by = "chain"
    /\ link' = "none" /\ discovery' = Idle
    /\ UNCHANGED <<listed, tracked, stored, queue, run, ingest, recompute, refresh, stale>>

IngestLink == link = "ingest" /\ StartRun("chain", FALSE)
IngestSkips ==
    /\ link = "ingest" /\ run.by = "hand"
    /\ link' = "none"
    /\ UNCHANGED <<listed, tracked, stored, queue, discovery, run, ingest, recompute, refresh,
                   stale>>

\* The loads published themselves, so this rebuild finds nothing to change, and
\* the refresh is sent all the same; but after a skipped link there is none.
RecomputeLink ==
    /\ link = "recompute"
    /\ link' = IF recompute THEN "none" ELSE "refresh"
    /\ UNCHANGED <<listed, tracked, stored, queue, discovery, run, ingest, recompute, refresh,
                   stale>>

\* A refresh holds the recompute lock that every load and rebuild takes, so it
\* is of everything that had committed when it did: one step.
RefreshLink ==
    /\ link = "refresh"
    /\ link' = "none"
    /\ stale' = (stale /\ refresh # "none")
    /\ UNCHANGED <<listed, tracked, stored, queue, discovery, run, ingest, recompute, refresh>>

\* Either of the last two fails for good, its retries included.
LastLinksFail ==
    /\ "exhaust" \in Mishaps /\ link \in {"recompute", "refresh"}
    /\ link' = "none"
    /\ UNCHANGED <<listed, tracked, stored, queue, discovery, run, ingest, recompute, refresh,
                   stale>>

-----------------------------------------------------------------------------
(* recompute and refresh-views beside the chain: by hand, or beat's daily  *)
(* refresh.  Each holds the lock of its job, which makes a link skip.      *)

StartRecompute ==
    /\ "recompute" \in People /\ ~recompute
    /\ recompute' = TRUE
    /\ UNCHANGED <<listed, tracked, stored, queue, discovery, run, ingest, refresh, link, stale>>

\* It ends, or dies.
FinishRecompute ==
    /\ recompute
    /\ recompute' = FALSE
    /\ RefreshAfter
    /\ UNCHANGED <<listed, tracked, stored, queue, discovery, run, ingest, link, stale>>

StartRefresh ==
    /\ "refresh" \in People /\ refresh = "none"
    /\ refresh' = "running"
    /\ UNCHANGED <<listed, tracked, stored, queue, discovery, run, ingest, recompute, link, stale>>

RefreshViews ==
    /\ refresh = "running"
    /\ refresh' = "committed" /\ stale' = FALSE
    /\ UNCHANGED <<listed, tracked, stored, queue, discovery, run, ingest, recompute, link>>

\* It drops the cached responses, writes its row and lets go of the lock.  Or
\* it never refreshed every view: it failed, died or was told --view.
EndRefresh ==
    /\ refresh # "none"
    /\ refresh' = "none"
    /\ UNCHANGED <<listed, tracked, stored, queue, discovery, run, ingest, recompute, link, stale>>

-----------------------------------------------------------------------------

\* A process dies.  What it had in flight rolls back, what it loaded stays, its
\* lock goes with its connection, and a chain's message is delivered again.
KillDiscovery ==
    /\ "kill" \in Mishaps /\ discovery.by # "nobody"
    /\ discovery' = Idle
    /\ UNCHANGED <<listed, tracked, stored, queue, run, ingest, recompute, refresh, link,
                   stale>>
KillRun ==
    /\ "kill" \in Mishaps /\ run.by # "nobody"
    /\ run' = NoRun
    /\ UNCHANGED <<listed, tracked, stored, queue, discovery, ingest, recompute, refresh, link,
                   stale>>

Next ==
    \/ \E a \in Filings : File(a) \/ Track(a)
    \/ \E found \in SUBSET Filings :
            DiscoverLink(found) \/ ("discover" \in People /\ Find("hand", found))
    \/ ReadLoaded \/ Enqueue
    \/ \E force \in BOOLEAN : "backfill" \in People /\ StartRun("hand", force)
    \/ \E scope \in SUBSET Filings : \E work \in SUBSET scope : Plan(scope, work)
    \/ \E a \in Filings : Start(a) \/ Load(a) \/ Fail(a) \/ Block(a) \/ RecordAttempt(a)
    \/ Finish \/ Interrupt
    \/ \E a \in Filings : SkipLoaded(a) \/ StartIngest(a) \/ LoadIngest(a) \/ FailIngest(a)
    \/ Poll \/ DiscoverSkips \/ DiscoverFails \/ IngestLink \/ IngestSkips
    \/ RecomputeLink \/ RefreshLink \/ LastLinksFail
    \/ StartRecompute \/ FinishRecompute
    \/ StartRefresh \/ RefreshViews \/ EndRefresh
    \/ KillDiscovery \/ KillRun

Spec == Init /\ [][Next]_vars

\* Beat polls, a worker takes each message again until it is acknowledged, and
\* no filing is unlucky for ever: now and then the listing it is in is queued,
\* and it is started, fetched and loaded before a failure, block or kill.
Fairness ==
    /\ WF_vars(Poll) /\ WF_vars(ReadLoaded) /\ WF_vars(Enqueue)
    /\ WF_vars(IngestLink) /\ SF_vars(Finish)
    /\ WF_vars(RecomputeLink) /\ WF_vars(RefreshLink)
    /\ SF_vars(Plan(Filings, Work(Filings)))
    /\ \A a \in Filings :
        /\ SF_vars(\E found \in SUBSET Filings : a \in found /\ DiscoverLink(found))
        /\ SF_vars(a \in discovery.found /\ ReadLoaded)
        /\ SF_vars(a \in discovery.found /\ Enqueue)
        /\ SF_vars(Start(a)) /\ SF_vars(Load(a)) /\ WF_vars(RecordAttempt(a))

FairSpec == Spec /\ Fairness

-----------------------------------------------------------------------------
(* Properties.                                                             *)

\* The queue never says done of a filing that is not loaded, whichever of
\* discovery, plans, loads and failures ran beside each other or died.
DoneIsLoaded == \A a \in Filings : queue[a] = "done" => Loaded(a)

\* A done row is reopened only by a discovery that read the filing as not
\* loaded before its load committed: never by a reload that failed.
OnlyDiscoveryReopens ==
    [][\A a \in Filings :
        queue[a] = "done" /\ queue'[a] # "done" =>
            discovery.reading /\ a \in discovery.found \ discovery.loaded]_vars

\* Once EDGAR has blocked a run, no filing waiting for a slot of it starts, not
\* even while the blocked filing's failure is still being written.
BlockedRunStartsNothing ==
    [][\A a \in Filings :
        run.fate[a] = "waiting" /\ run'.fate[a] = "inflight" => ~run.blocked]_vars

\* Whatever fails, dies, is blocked or is loaded by hand meanwhile, a filing of
\* a tracked filer is in the end loaded, with nothing outstanding in the queue
\* and nothing reopening it.
Settles ==
    \A a \in Filings :
        <>[](a \in listed \cap tracked => Loaded(a) /\ queue[a] \in {"absent", "done"})

\* Views behind a load of the chain's are to be refreshed by its own tasks, or
\* by a run that holds a lock a task would find taken.
RefreshToCome ==
    \/ run.by = "chain" /\ run.published
    \/ link \in {"recompute", "refresh"}
    \/ recompute \/ refresh = "running"
Followed == stale => RefreshToCome

\* The loads of the chain, a blocked, stopped or partial run's too, go without a
\* refresh to come in five ways only: its own run dies; one of its last two
\* tasks fails for good; the recompute by hand that its recompute may have
\* skipped for ends and starts no refresh (--no-refresh-views, or it dies, or
\* that lock is taken too); the refresh that its own may have skipped for ends
\* without one of every view; or that refresh had committed before the load, and
\* not yet let go of the lock.
ChainRefreshes ==
    [][Followed =>
        \/ Followed'
        \/ KillRun
        \/ LastLinksFail
        \/ FinishRecompute
        \/ EndRefresh
        \/ RefreshLink /\ refresh = "committed"]_vars

\* The chain refreshes the views after every ingest that published.
RedeliveredChainRefreshes == link = "none" => ~stale

\* Ingesting a loaded filing again has nothing to add.
NothingToAdd == \A a \in tracked : Loaded(a) => stored[a] = "full"
=============================================================================
