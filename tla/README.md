# WhaleWatch: a verification development

WhaleWatch publishes what institutional managers (13F), company insiders
(Form 4) and members of Congress (PTRs) report holding and trading. This
directory models the parts of it where a wrong interleaving, a wrong scope or a
lost message would publish wrong numbers, in TLA+: TLC checks the models on
small instances, and TLAPS proves the main results for every instance.

- [The system](#the-system): components, state, how they interact
- [The modules](#the-modules): which models what, and how it maps to the code
- [The runs](#the-runs): what each shows, its bounds
- [Fairness](#fairness)
- [The proofs](#the-proofs)
- [Where code and documentation disagree](#where-code-and-documentation-disagree)
- [What is left out](#what-is-left-out)
- [The plan](#the-plan)

`tlc -config X.cfg M` runs one of the checks listed below, `tlapm M.tla`
checks the proofs of a module. `PROJECT.json` lists the runs, the source lines
each definition stands for, the hazards each property is about, and for each
property a mutation of the code that it catches.

## The system

A FastAPI application and Celery workers share PostgreSQL (the data, advisory
locks) and Redis (broker, sessions, response cache, usage counters). A command
line (`app/cli.py`) runs every job by hand, beside the workers.

| Component | State | Operations | Talks to | Hard because | Correct when |
|---|---|---|---|---|---|
| **13F discovery** `ingestion/discovery.py` | `pending_filing` | `find_filings`, `enqueue`, `mark_ingested`, `record_failure` | EDGAR; read by the backfill | its read and its upsert have other transactions between | done means loaded; nothing loaded stays queued |
| **13F backfill** `ingestion/backfill.py`, `jobs/thirteen_f.py` | the plan and each filing's outcome, in memory | `plan_backfill`, `run_backfill`, `write_13f`, `record_attempt` | queue, loader, raw store, EDGAR | concurrent filings, a block, Ctrl-C, kills, `ingest-filing` beside it | every filing ends loaded; a blocked run starts nothing |
| **13F loader, roster seed** `ingestion/loaders/filing.py`, `ingestion/investors.py` | `filing`, `holding`, `filer`, `filer_cik` | `load_filing` (insert, re-parse, re-link), `seed_investors` | recompute, in the load's transaction | a filing moves from one pair to another | both pairs are rebuilt |
| **Effective filings** `alembic/versions/…0006…` | views | which filings of a pair count | snapshot | amendments of four kinds, suspect filings, two CIKs with one book | one book, once |
| **Derived tables** `derived/*.py` | `position_snapshot`, `implied_price`, `security_split`, `position_change` | `recompute` by load, filer, period, everything; `detect_splits` | alerts (`after_commit`) | a scope's rebuild has effects outside it | the tables are what a full rebuild writes |
| **Materialised views** `derived/views.py` | five views | `refresh_views` | the 13F chain, the daily refresh | refreshed after, not in, the commits they read | no ingest leaves them behind |
| **Task chain and schedule** `jobs/tasks.py`, `schedule.py`, `celery_app.py` | broker messages | poll → discover → ingest → recompute → refresh | every job | at-least-once delivery, locked links that skip, retries | what a link published reaches the next |
| **Job locks and run log** `jobs/locks.py`, `tracking.py` | advisory session locks, `ingestion_run` | `job_lock`, `track_run` | every job | the lock's connection may drop under a live job | one run of a job at a time |
| **Form 4 crawl and load** `ingestion/insider_discovery.py`, `jobs/form4.py`, `loaders/insider.py` | `crawl_watermark`, the queue's Form 4 rows, transactions | `crawl_form4`, `ingest_form4`, cluster detection | the same queue and backfill engine | a day that fails, a day out of order | the watermark never passes an unread day |
| **Congress** `ingestion/congress/`, `jobs/congress.py` | filings, members, PTR lines, assets | index, PTRs, member matching, asset resolution | House Clerk, Senate eFD (through `ingestion/remote/`) | retries of half-resolved lines | a retry resolves what was left, once |
| **Enrichment** `ingestion/enrichment/` | `security` names, tickers, quotes | `resolve_cusips`, `fetch_prices` | OpenFIGI | manual overrides beside automatic ones | an override is not overwritten |
| **Alert events and rules** `alerts/events.py`, `firing.py`, `accounts/alert_rules.py` | `alert_rule`, `notification` | `emit_alerts`, `fire`; rules on follow and unfollow | dispatched after commit by recompute; the outbox | a message redelivered, a rule limit raced | one delivery per user and event |
| **Alert outbox** `alerts/outbox.py`, `jobs/alerts.py` | `alert_outbox` items, `alert_delivery` | `decide_due`, `send_due`, `_forget` | rules, plans, courier | daily cap, batching, digests, quiet hours; a crash between commit and send | never mailed twice, nothing waits for ever, the cap holds |
| **Email delivery** `accounts/delivery.py`, `postmark.py` | `email_log`, `email_suppression` | `Courier.send`, `record_event`, `suppress`, `lift` | Postmark and its webhooks | webhooks out of order, or before the send's own write | a status only moves up |
| **Billing** `accounts/billing.py`, `paddle.py` | `subscription`, `paddle_event`, dunning | `handle`, `run_dunning`, `cancel_for_deleted` | Paddle's webhooks and API, account deletion | duplicated, reordered webhooks; hourly job beside them | the row is the newest event's; no one is billed once erased |
| **Plans and entitlements** `accounts/entitlements.py`, `admin/plans.py` | `plan_entitlement`, `plan_override`; a catalog per process, a grant per session | `limit`, `can`, `keep_fresh`, `grant_for` | sessions, billing, API | two caches with different lifetimes | a change reaches every request in bounded time |
| **Sessions and tokens** `accounts/sessions.py`, `routers/auth.py` | Redis sessions, `auth_token` | start, find, keep and forget grants, end all, redeem | entitlements, accounts | a grant kept after it was forgotten | ended means ended |
| **Account privacy** `accounts/privacy.py`, `jobs/accounts.py` | `app_user.deleted_at`, consents | delete, restore, purge | billing, sessions, keys | restore racing the purge | no purge within the grace, none while billed |
| **Usage metering** `accounts/usage.py`, `api/metering.py` | Redis counters, `usage_counter` | spend, seed, flush, `claim_warning` | API, plans, mail | Redis lost between flushes; two flushers | a count never goes down, one warning a period |
| **Response cache** `api/cache.py`, `jobs/cache.py` | Redis entries and build locks | `remember`, `invalidate` | every published table | a body built before, and stored after, an invalidation | nothing outlives its invalidation |
| **Rate limits** `core/rate_limit.py`, `api/rate_limit.py`, `ingestion/edgar/client.py` | token buckets, sliding windows | `acquire`, `hit`, retry policy | EDGAR, OpenFIGI, clients | concurrent takers, clocks | the rate holds in every window |
| **Raw archive** `storage/raw.py`, `ingestion/archive.py` | documents | put once, get, list | loaders | half-archived filings | the first copy is kept |
| **Parsers, API reads, admin console, exports, CLI printing** | none of their own | pure, or reads | | | tested directly |

The two hardest interactions are the core of this development:

1. **Scoped rebuilds.** A 13F load rebuilds, in its own transaction and under
   the `RECOMPUTE_LOCK` advisory lock, only the (filer, quarter) pairs it
   touched. But an implied price is a median over every holder, a split is
   detected from two neighbouring quarters of every holder, and a position
   change compares two published quarters that need not be neighbours and
   crosses any split between them. So one filing may alter rows of another
   filer, years later. `recompute()` walks forward to find them
   (`held_in` → `split_keys` → `_following` → `crossing_pairs`), and the
   question is whether it finds them all.
2. **The queue.** Discovery, backfills, hand ingests and forced reloads write
   one `pending_filing` row without a lock between them, EDGAR blocks runs, and
   workers die. The question is whether a row can say `done` wrongly, whether a
   filing can be forgotten, and whether the chain's later links always run for
   what its earlier ones published.

## The modules

**`PublishedTables`** holds the pure part: for a set of loaded filings and a
roster, which filings count for a pair (`Effective`, the SQL views of migration
0006), the snapshot's rows (`PublishedRows`, with `_agg`'s withholding of
suspect quarters), and the price, split and change rows that go with a snapshot
(`PriceFor`, `SplitFor`, `ChangesFor`). What a median or a split ratio *is* stays
a parameter (`PriceOf`, `SplitOf`): the scoped rebuild must be right whatever
the numbers are. Two assumptions constrain them: no holders, no price and no split.

**`SplitDetection`** is what the code puts there: `percentile_disc(0.5)` of
value over shares, and the split rule of `security_split.py` (the snapped
fractions, the agreeing holders, the corroborating price) in exact
cross-multiplied integers, as the SQL's `numeric`.

**`FullRebuild`** is the abstract specification: whenever the snapshot changes,
prices, splits and changes are, at once and everywhere, what
`recompute --all` writes.

**`Recompute`** is the detailed one. One action is one transaction: `Load` (with
the re-parse and re-link cases), `RecomputeAll/Filer/Period/Pairs` (with and
without `--include-suspect`), `DetectSplits`, and the seed's edits
(`SetOverlap`, `ClaimCik`, `Reprioritise`), which rebuild nothing. Each rebuild
action is `Rebuild(scope)`, in the order of `recompute()`: keys held before,
snapshot, keys held after, prices, splits, following pairs, crossing pairs,
changes, announcement. One transaction is one step because every writer takes
the advisory lock before its first read and holds it until commit.
`reseeded` is a history variable.

**`FilingQueue`** models discovery, the backfill, `ingest-filing`, the 13F
chain, and the views' staleness. A database transaction is a step, but `enqueue`
and `plan_backfill` are two each (`ReadLoaded`/`Enqueue`, `StartRun`/`Plan`):
under READ COMMITTED their statements see different snapshots, and their writes
depend on the first. A backfill is a record `run` with a fate for each filing;
`failing` is the gap between the exception and `record_attempt`'s transaction,
in which `stop` must already be set. `link` is the outstanding message of the
chain: it is only moved on when a task acknowledges, so a kill (`KillRun`,
`KillDiscovery`) leaves it to be delivered again. `stored = "bare"` is a filing
loaded with its holdings deferred. A recompute by hand (`recompute`) and a
refresh beside the chain (`refresh`: by hand, beat's, or after a command that
published) hold their jobs' locks, which make a link skip: a refresh until after
it has committed. `People` and `Mishaps` say who else acts and what goes wrong
in a run.

**`AlertOutbox`** models one user's alerts: the emission (`Emit`: which events are
fresh, which rules hear them, what the notification's and the outbox row's
unique keys let through), the sender's run in four phases (`Begin` reads the
clock; `Decide` is `_decide_for`'s transaction, with the user's row locked;
`Forget`; `Send`, one email a step), and what the user does meanwhile: rules
deleted and made again, switched, the address verified or changed, the plan, the
account, the zone and quiet hours. Users share nothing but a run, so one is
enough: a run that fails on another user is `Kill`. Time is in ticks,
`SlotsPerDay` to a day, as `DigestAt`, quiet hours and the batch window are; a
run decides by the tick it began in however late it gets to decide, as the
code's `now` does, and an emission's `queued_at` may be a tick older than its
commit. `filed` is the *latest* filing of an event's pair, which is what
`_published` compares. Events of the rules mailed in batches are `Instant`,
filings counted by the season digest `Season`; each list has one rule. Rows of
`alert_delivery` appear as what the code reads of them: emails per day of the
user's clock, and the last digest's wall clock. They outlive two days
(`KeepFor`), so forgetting them changes neither.

The services around the pipeline are smaller modules, one each:

**`Mirror`** is an abstract specification: a copy kept from an owner's
notifications shows a state the owner has published, and only moves to one
published no earlier.

**`Billing`** is one user's subscriptions as Paddle's webhooks, the hourly dunning
run, the cancellation for deleted accounts, and the deletion, restore and erasure
of the account leave them. `Deliver` is `handle`'s transaction,
which holds the subscription's row; `RunDunning` the job's, which claims its rows
and then mails; `CancelForDeleted` asks Paddle first, and may fail before it
writes; a purge reads (`BeginPurge`) and then deletes (`Erase`). `sent` is
what Paddle has to tell and `landed` what has been recorded of it: the events
of `RetryFor` come in any order, and one recorded is not handled again. It
implements `Mirror`.

**`Sessions`** is one user's sessions in Redis: each Redis call or `MULTI`, and each
database commit, is a step, so that a sign-in overlaps the password change that
ends all the others. **`KeptGrant`** is what one of them remembers of its user's
plan: read, forgotten and written back whole, by overlapping requests.

**`UsageMeter`** is one counter of one month: the spend script, the seed from
Postgres, the flush of every API process with its lock's lifetime, the claim of
the 80% email, and a Redis that loses its data.

**`ResponseCache`** is a page and the count its pages share, built and written by
requests while a job commits and then invalidates.

**`JobRuns`** is `job_lock`, `track_run` and the task's retries around any job's
body: killed workers, redelivered messages, a person's shell, a lock whose
connection drops while its job lives on.

**`InsiderLines`** is one issuer's Form 4s and 4/As: what a load links, relinks and
supersedes, in any order. **`InsiderClusters`** is the cluster buys that follow:
`Episodes` is `_EPISODES`, the windows each purchase day anchors and the gaps and
islands made of them; a rebuild takes the lock, deletes what it sees, inserts a point of
the grid at a time and commits, while other runs load between its statements.
`orphaned` remembers a run that died between its loads and its rebuild.
**`Form4Crawl`** is the daily index and its watermark:
daily runs that catch up, runs by hand, failures, kills, holidays, and two runs
once a lock is lost.

**`PtrListings`** is what is known of Congress's filings: the House's yearly indexes,
read a year at a time, and the Senate's search, read a page at a time while its list
gains and loses reports (`Rank` is a report's place in what eFD answers, and
`ShiftedPast` what a withdrawal moves to before where a search has got); each
chamber's watermark, its catch-ups, and runs by hand.
A report may be listed at any time once it is filed. `leftOut` remembers those listed later
than a catch-up looks back (`Late`), those a sweep by hand chose to leave unread, and those
a search shifted past without its count showing it; one withdrawn and listed again in time
is not among them any more.

**`PtrLines`** is a filing of a member of Congress read, read again by a newer
reader, reviewed, its line resolved by a pass or by an override of its asset; each
statement that reads and each commit that writes is a step, with the row locks the
code takes and no others.

**`Pages`** is a client's walk of a listing: the order, the position a page ends at, the
rows after it, and the page sizes, each page one statement, with rows inserted,
deleted and changed between.

**`Courier`** is the log of an email against its webhooks and the address's
suppressions. **`PlanRoom`** is one user's alert rules and saved filters under a
plan's limits, counted and then written under the user's row, beside writers
without it.

**`MCPublished`, `MCFilingQueue`, `MCAlertOutbox`, `MCServices`** instantiate them.
`MCPublished` has what is published from EDGAR and Congress, and `MCServices` the
accounts and the workers: a behaviour is of one `scenario` (or `part`), and the others
stay as they began, so that they share a run without multiplying one another's states.

The theorems are in **`RecomputeProofs`**, **`FilingQueueProofs`**,
**`AlertOutboxProofs`**, **`BillingProofs`**, **`AccountProofs`** (`Sessions`, `KeptGrant`,
`UsageMeter`, `Courier`, `PlanRoom`), **`ServicesProofs`** (`JobRuns`, `ResponseCache`, and all
of `MCServices`), **`PublishedProofs`** (`Form4Crawl`, `InsiderLines`, `PtrListings`,
`PtrLines`) and **`MCPublishedProofs`** (`Pages`, `InsiderClusters`, and all of
`MCPublished`).

## The runs

| Run | Instance | Shows |
|---|---|---|
| `tables` | every scenario of `MCPublished` | the table below; and `PublishedTypeOK` |
| `queue` | two filings, discoveries, backfills, recomputes and refreshes by hand, kills, failures, blocks and tasks failing for good | `TypeOK`, `DoneIsLoaded`, `ChainRefreshes` |
| `settle` | two filings, two slots, kills, failures, blocks, tasks failing for good, ingests and reloads by hand, under fairness | `Settles`: every filing of a tracked filer ends loaded, and its row closed; `BlockedRunStartsNothing`; `OnlyDiscoveryReopens` |
| `chain_killed` | one filing, kills | a violation, below |
| `deferred` | one filing, a hand ingest | a violation, below |
| `evenings` | two filings for the digest, two runs at once, one email a day, a user changing zone, address and plan, switching rules off and their emails, deleted and restored, emails refused | `OneDigestAnEvening` |
| `once` | one event of each list, two runs, kills at every step, an amendment, rules deleted and made again, items forgotten after two days | `TypeOK`, `CapHolds`, `AtMostOnce` |
| `wait` | one instant event, two filings, two emails a day, quiet in the night, or from the digest's hour through it, decisions prompt | `NoLongWait`: nothing waits past its second digest but for quiet hours, and the digest keeps its email |
| `restated` | one filing amended later | a violation, below |
| `services` | every part of `MCServices` | the second table below |
| `recovered` | one subscription, five moments | a violation, below |
| `order` | five Form 4s | a violation, below |

| Scenario of `tables` | Instance | Shows |
|---|---|---|
| amend | one filer over three quarters and two securities: re-parses onto another quarter, a suspect quarter withheld or published, restatements, additions, an amendment of unknown kind | with the two below: `SnapshotIsEffective`, `OneBookPerPeriod`, `DeltasAddUp`, `AnnouncesWhatChanged`, and `ImplementsFullRebuild`, the refinement of `FullRebuild`, whose step says that prices, splits and changes are in step (`InStep`) at every commit |
| split | three filers and a 4-for-1 split that comes and goes as filings load in any order, and adjusts a filer that skipped its quarter | |
| overlap | two filers with three CIKs, both overlap policies, a re-link, CIKs claimed and reordered | |
| insider | five filings of one issuer: two originals of a day, three amendments of different owners, one of an amendment | `AmendmentsInPlace` |
| clusters | every history of two buyers on four days, or of four purchases by three on five; or four filings loaded by two runs, one of them removing a purchase, beside a rebuild by hand; three points of the grid | `ClustersFollow`: what is left once nobody has loads to rebuild for is the bursts there are, by a definition that has no windows' ends or islands in it |
| crawl | four days with a holiday, two crawls at once, one publication during a run | `NothingSteppedOver` |
| house | three reports, two indexed a year before they are filed, a lookback of a year of two days, four days: one may be listed two years after its index's | `NoneOverlooked` |
| senate | three reports, one filed ahead of the others, a page a report, a lookback of a day, three days: any may be listed two days after it is filed | `NoneOverlooked` |
| lines | one line read by two readers, two assets, one pass, one person, two transactions at once | `PersonsWordStands` |
| pages | three rows with ties, orders that fall, rise, and rise with ties falling, pages of one and two rows, two rows changed | `WalkSeesOnce` |

| Part of `services` | Instance | Shows |
|---|---|---|
| billing | two subscriptions, four moments, grace of two, events repeated and reordered | `RowIsPaddles`: all delivered, the row is the newest event's; `NoticeOnce`: no email of the dunning twice for one failure, but for two exceptions; `NoErasedPayer`; `DeletedStopsPaying` (liveness); `MirrorsPaddle` (refinement) |
| sessions | two cookies, a password changed or reset, or the account deleted, grants kept and forgotten meanwhile | `OldSessionsEnd`, `EndedStaysEnded` |
| grants | two plans, two requests, one forgetter | `GrantIsRecent` |
| usage | a quota of two, two requests, two flushers (two of the four at once), one loss of Redis | `QuotaHolds`, `StoredNeverFalls`, `WarnedOnce` |
| mail | one message, a plain one or an alert, every webhook about it and its address | `WebhooksConverge` |
| limits | two requests racing each kind of write, three rules, two plans | `RoomHolds` |
| runs | one worker, one shell, two messages, one retry | `OneRunAtATime`, `TasksEnd` (liveness) |
| cache | one page and its count, one reader, one publication, four ticks | `ServedIsRecent`: for two lifetimes at most, and after an invalidation only what requests under way then had read |

Why these bounds are enough to be interesting. Three quarters are the fewest
with a quarter skipped between two published ones, and with a split in the
skipped one; two split witnesses are `MIN_AGREEING`, and a third filer is one
that the scope of neither names. Amendments need an original, a restatement
before or after it and an addition. Two CIKs of one filer are the overlap and
the third is a re-link's destination. Filings share nothing but a
run's `stop`, slots, what it published, and locks: in `queue` two make a run that loads
one and is blocked at or interrupted before the other; in `settle` they fill both slots,
so that one is under way when EDGAR blocks the other. The people are dealt out between
the two runs, since all of them at once over two filings is out of TLC's reach: whom
neither run puts together, the proofs do. No
counter in either model is unbounded. `CHECK_DEADLOCK FALSE` is set where
everything may be in its final state with nobody obliged to act: the 13F models
have no step that must happen; the outbox model ends with its clock.

For the outbox: two runs are the fewest that overlap, and their clocks differ.
In `evenings` a day is three ticks, so that a zone of one tick moves the user
over the digest's hour; in `once` a day is one tick, so that an item is
delivered, forgotten and amended within the four ticks of the run. Two events of one list are needed to want a second digest in an
evening, one of each list to want a digest and a batch at once, and a cap of one
makes the second refused. `Prompt` (in `wait` only) says that what is
due is decided before the clock moves on, which is beat's every minute against
ticks of hours: it makes waiting times meaningful without fairness. `wait` is an
instance of `Steady`, which `ShortWait` is proved from (its digest hour is the third of
four ticks); it needs
eight ticks of a four-tick day, and has nine: a late transaction, a digest in quiet hours that
the item just misses, the batch it overflows from, the second digest, and quiet
hours again. A cap of one is too small there, and the module's promise does not
hold of it: the two digests a user may have on one day (last evening's, put off
by quiet hours, and today's) are then one too many. The code's is three.

For the services: two sessions are the one a password change is made from and
another; two requests are the fewest of which one writes over the other; two
subscriptions are an old one and the one a user bought after it. Four moments
reach a failed renewal, its grace and its collection beside a deletion; the
violation in `recovered` needs a fifth. A second of `KeptGrant` is its unit
of both the grant's age and a request's time. A House watermark is a filing date and
an index a year, so that years of two days put a report in an index over when it is
listed; a search of a report a page is one whose list shifts at every page. Three rows are
a page that ends on a tie and a row on either side of it. Two crawls and four days have a day
that failed behind one that was read, on either side of a quarter and a holiday.
`MostInProgress` (two metered requests or flushes, and two PTR transactions, at
once) keeps `services` and `tables` within minutes: a third adds interleavings of the same
pairs, as each transaction conflicts with one other at a time. `LastTick`, `LastVersion`,
`LastMoment`, `LastSecond`, `LastDay`, `LastDate`, `MostLosses` and `MostChanged` end the clocks. Deadlock is not checked
there: clocks end, and most parts have nothing that must happen.

`OnlyDiscoveryReopens` is worth a word. A `done` row *can* be reopened for a
loaded filing: discovery reads `filing` before a load commits, and upserts after.
The code accepts this (the next discovery or plan closes it); the property says
it is the only way, and `Settles` that it always heals.

## Fairness

The 13F tables are checked for safety only: nothing in them must happen.
`FilingQueue!Fairness` is what the deployment provides. Beat sends the poll every
half hour or every day (weak fairness of `Poll`, and of each link: Celery
delivers a message until a worker acknowledges it, `task_acks_late` and
`task_reject_on_worker_lost`). Strong fairness of starting, loading and planning,
and of a discovery whose listing has the filing, says that no filing is unlucky
for ever: a kill, an EDGAR block or a failure may undo any attempt, but not every
one. That excludes a filing whose parse always fails, which in the code too
stays `failed` for good. People owe nothing: no action of theirs is fair.

`BillingFairness`: Paddle delivers an event until it is answered 200, and the hourly
task cancels what a deleted account still pays for, once Paddle can be reached. `JobFairness`: a worker that is alive takes the next step of its run, and an
outstanding message is delivered; nobody's shell is fair. All the rest of `services`
is checked without fairness.

## The proofs

Everything is proved for any values of the constants meeting the modules'
assumptions: any finite set of CIKs and any filers, securities, accessions, parses
and quarters, any `PriceOf` and `SplitOf` with the two facts above; any filings,
concurrency, people and mishaps; and likewise for the services. `Pages` assumes that all
of a listing's sort keys have as many parts as its order has, its row's id the last;
`InsiderClusters` that an issuer's insiders and trading days are finite, and that the grid is
a sequence whose thresholds are of two insiders or more.

`RecomputeProofs`:

- `TypeCorrect`: `Spec => []TypeOK`.
- `AlwaysInStep`: prices, splits and changes are at every commit those of a full
  rebuild. `InStep` is inductive given `TypeOK`. The argument follows the walk: a
  key the scope did not hold before or after has the same holdings, hence the
  same price (`UnheldUnmoved`, `RebuildPrices`); a key whose own and previous
  quarter did not move has the same split (`RebuildSplits`); a pair whose period,
  previous period, rows and crossed splits did not move has the same changes
  (`PreviousUnmoved`, `ChangesUnmoved`), and the changes stored *before* the
  rebuild name every split a pair crosses, so reading them suffices
  (`UncrossedSplits`: it uses `InStep` before the step, which is why that is in
  the induction).
- `Refinement`: `Spec => ImplementsFullRebuild`, from the same invariant, which
  maps every step to a rebuild of everything or a stutter.
- `Announces`: what a commit alters outside the announced pairs is nothing.
- `Effectiveness`: the snapshot of a filer not reseeded since is what its filings
  add up to. The invariant that is inductive speaks of each pair "settled", for
  the suspect mark its rows carry (`RowsSelfMarked`, `RebuildSettles`), and needs
  that the pair a filing leaves is in the scope with the one it enters.
- `OneBook`: under `successor`, the filings that count are of one CIK, with one
  whole-period filing at most. It needs priorities to be distinct within a filer
  (`RosterStep`) and the filing order to be total.
- `Telescoping`: the share deltas of a filer's history add up to what it last held
  (`DeltasAddUp`). A position is published once a period and security, with a natural
  number of shares (`SnapshotTidy`, from the filings' holdings, `FilingsSound`), so that a
  published period's deltas of a security are what it holds less what the last published
  one held (`PeriodMoves`); the sum up to each period is then what is held there
  (`MovesTelescope`), by induction on periods. A sum over a finite set is a choice among
  functions that satisfy a recursion, so the lemmas about sums come first: such a
  function exists (`FoldExists`, from the least set that would not have one), any two
  agree (`FoldsAgree`), and what is summed may be taken out in any order (`SumTakesOut`).

`FilingQueueProofs`:

- `TypeCorrect`.
- `DoneLoaded`: `queue[a] = "done" => Loaded(a)`, with the strengthening that
  what a discovery in progress saw loaded still is: loads are never undone, so
  a stale read errs on the side of reopening.
- `Reopening`: an action property, from types alone.
- `Blocked`: `run.blocked => run.stop` is inductive because `Block` sets both
  before any other step.
- `Refreshed`: `Spec => ChainRefreshes`. While the views are behind a load of the chain's,
  its run, its message or a run that holds a lock has a refresh to come (`Followed`), and
  every step keeps that but the five the property names (`KeepsFollowed`). What makes it
  so is that a run which has loaded says it published however it ends, and that nobody but
  the chain moves its message (`Chained`: its run is in progress only while its message is
  the ingest's).

`AlertOutboxProofs`, for any items, senders, day, zones and edits:

- `TypeCorrect`.
- `Capped`: what a decision adds to a day is a digest only if there is room for
  it and a batch only if there is room for both; every other step leaves the
  counts alone (`CountStep`).
- `OneDigest`: the strengthening `Dated` says that the last digest's wall clock
  is at or after the hour of every evening that has had one. A decision's
  evening is that of its own clock, and it sends only when the last digest is
  before that hour; the clock of the digest it records is not before the hour
  (`ClockFacts`). So neither a run that is behind nor a change of zone brings an
  evening back.
- `Once`: no event is emailed twice, if no filing of the season's digest is amended
  in a later quarter; with one that is, `restated` refutes it, and instant events may
  be amended. An item is spoken for (`Spoken`) once a decision has handed it to its run,
  and is in one email of one run (`HandedOnce`). What is spoken for is `Over`: its row is
  settled, so that no decision takes it again; and when the row is forgotten, or goes with
  its rule, nothing queues it again: an instant event has its notification, a
  season's filing is older than any rule made since, or no longer fresh to any
  emission to come. The last needs `KEEP_FOR` longer than `FRESH_FOR`, which the
  module assumes and the code says (35 days and 30), and that a sender's clock is
  behind the time (`Behind`).
- `ShortWait`: `Steady => (Spec => []NoLongWait)`, for any items, senders, length of the
  day, zone and quiet hours. `Steady` is a user who edits nothing, decided for promptly in
  a filing window, two emails a day or more, a batch window that closes in the next tick
  at the latest, and a digest hour that is not the day's last tick; the code has three
  emails, a quarter of an hour, and 19:00. The strengthening (`WaitInv`) says what the day
  has sent, by where the digest hour lies (`RoomBefore`, `RoomAfter`, `RoomAt`,
  `RoomLate`): a day's email is never missing to a digest that is due. It rests on two
  facts. A batch waits through quiet hours only (`BatchWaits`), so one put off into the
  digest was queued within a day of it, for hours quiet for a whole day are always quiet
  (`SameHour`); and a day that has been quiet so far has had no email (`Loud`). What
  fails without `Steady` is real: TLC finds a long wait with one email a day, and with the
  digest in the day's last tick. The clock's divisions are kept to four lemmas
  (`DaysApart`, `Mornings`, `HoursApart`, `SameHour`); above them all is linear.

`BillingProofs`, for any subscriptions, moments, grace and retries; the account's
grace outlasts Paddle's retries, as 30 days do three:

- `BillingTypeCorrect`.
- `RowFollowsPaddle`: events of one subscription are of different moments
  (`EventsApart`), the last of them has Paddle's state (`LastEvent`), a row is as the newest
  event recorded left it (`RowsInv`), and `past_due` follows its `payment_failed`
  (`UnpaidFailed`), so whichever arrives first starts the dunning.
- `NoPayerErased`: what was bought before the deletion has been heard of by the end of the
  account's grace, and a row not cancelled holds the purge back (`PayersInv`).
- `MailedOnce`: a notice that went is told by the row, or is of a failure no dunning to come
  is of (`NoticesInv`). This failed to be inductive as first stated, and the
  state it failed in is reachable: hence the second exception of `NoticeOnce`,
  described below.
- `BillingMirrors`: `BillingSpec => MirrorsPaddle`, the refinement of `Mirror`: a row's
  time never goes back, and its status at each change is one published at that time.

`AccountProofs`, of what users are sent and may keep:

- `MailTypeCorrect`, `WebhooksAgree`: what has been heard of a message is of what
  happened to it, and its row says the furthest of that (`Logged`); a bounce or a
  complaint heard has stopped the address unless the stop was lifted (`Stopped`).
- `RoomTypeCorrect`, `RoomKept` (an action property): what a request counted, under the
  user's row, still bounds what is on when it writes (`Counted`), since all that happens
  without the row turns rules off. The arithmetic is on cardinalities of finite sets
  (`Sizes`, `FitsInRoom`), so rules and presets may be any in number; presets are
  distinct, as the code's are.

`ServicesProofs`:

- `OneRun`, for any workers, shells and messages. A run past the
  lock either is the one that holds it or has lost its connection (`UnderLock`).
- `CacheTypeCorrect`, `ServedRecently`: a count kept when it is stale was built before
  it was replaced, or soon after from rows read before, and a page is stale by its own
  lifetime more (`RecentInv`); what is kept of before a completed invalidation was written
  by a request that was under way, or the invalidation has found its key (`LateInv`).
- `ServicesTypeCorrect`: the types of all the services, of `MCServices`' specification.
  `PartsHold` says that this specification implies each service's own, as what one
  does leaves the others' variables alone: so every theorem above holds of it too.

`PublishedProofs`:

- `SteppedOver`, for any calendar and crawls. A run's listing
  lacks at most the newest publication (`Recent`), so a day answered without an index
  that lies behind the last one published never gets one; days up to the run's own
  mark are queued (`QueuedTo`); and the mark a run starts from was read from the
  watermark, which only crawls write, each no further than its own mark.
- `PersonsWordHolds`, for any reports, assets, readings and passes at once: what a pass,
  a reading or a review in progress has read is still so when it writes, or the line has
  been answered, replaced or overridden since, which its write's guard or its row's
  lock sees (`ReadingKnows`, `ReviewKnows`, `PassKnows`); `raced` and `mixed` are the
  lines where no lock does.
- `InPlace`, for any filings, owners and days of an issuer. Every link is to what may be
  amended, an amendment without one has no best candidate among what is loaded, and a load
  has seen all that is loaded (`InsiderInv`). A load may link many to itself at once, and
  itself to one: the chains it is not in are as they were and its own takes in those it
  joins (`ChainsJoin`), and what was the one best candidate stays so when more are loaded
  (`BestOfMore`). Chains are proved about without recursion: one is the least set closed
  under links (`ChainIs`, `ChainSame`), by induction from the least counterexample
  (`Induction`, which follows from the naturals being well founded).
- `NoneLeftBehind`, for any reports, dates, lookbacks, page size and overlapping runs. A
  report listed since a run began was filed late enough to be within the lookback of what
  that run can make the mark, and any other is where the mark it began with has a catch-up
  look, or a run by hand leaves it out (`HouseKnows`, `SearchKnows`). What a search owes
  (`Owed`) is what is listed of its window and older than what a catch-up from its own day
  would read again. If its list has gained nothing, what it owes, what it has read and what
  it counted are of one set, so that reading all it counted is reading that set
  (`CountedAll`); and in any case it has passed over nothing it owes but what it read and
  what a withdrawal shifted past it (`Passed`). So one that moves the mark has missed
  nothing it owed, or just that report, while a gain made up its count: which is what
  `leftOut` excepts, with the reports listed too late and the runs by hand.

`MCPublishedProofs`:

- `WalkOnce`, for any rows, sort keys, directions and page sizes, and any changes during the
  walk. The order is total on keys that end in an id (`SortsTotal`); what has been returned
  and stays does not sort after the cursor, and what stays put and has not been sorts after
  it (`PagesInv`), so a page, which is the next rows after the cursor by their place among
  those, returns none twice and passes none over.
- `ClustersFollowBuys`, for any purchases and grid, and any runs that load, rebuild, fail and
  overlap. It has two halves. Gaps and islands find the bursts (`EpisodesAreBursts`): the
  window of each day starts no earlier than that of a day before (`Spread`), so an
  island starts where every window before has ended (`StartOfIs`), has every window that
  touches its days (`IslandClosed`), and no set that windows link lacks a part of it
  (`IslandLinked`); a stretch of days that is busy has its days in the window of its last
  purchase, so what it links is what windows link (`BesideIs`). A wider point's bursts
  hold a narrower's because what is linked at one is at the other (`BesideWider`,
  `BurstsNested`). And the rebuilds: once no run has loads, and none died with them,
  the table is what the purchases give, and so is what a rebuild has inserted so far while
  it covers every load and no other run has any (`TableFollows`, `WritesFollow`); the lock
  makes what it deletes what is there when it commits (`OneRebuilds`).
- `EachPart`: `PublishedSpec` implies each part's own specification, as a step of one
  scenario leaves the others' variables alone; so every theorem about a part holds in
  `tables` too. `PublishedTyped`: with it, every part keeps its types.

`AccountProofs`, of sessions, plans and usage:

- `StaysEnded` and `OldEnd`, for any sessions and passwords. What
  ends all the sessions lists every live one (`LiveListed`), no session is listed
  before it is started (`NotListedUnborn`), and one of an older password still live is
  then that of a sign-in which had checked the password before (`OldRaced`).
- `GrantRecent`, for any requests, forgetters and times. A grant a
  request holds was read at most a request's time after it was held or kept
  (`WasHeld`), and a session's is answered with only while `GrantEvery` old: the two bounds add.
- `QuotaKept`, `NeverFalls`, `WarnsOnce`, for any quota, calls and
  flushers. What has been admitted is at most a quota for each loss of Redis and what
  the counter shows since (`CountsAdmitted`); the stored count is the greatest
  flushed; a warning is sent only once its claim is committed in the row, which
  lets one in (`ClaimedFirst`).

Only model-checked:

- the liveness of `Settles`, `DeletedStopsPaying` and `TasksEnd`, which TLAPS does not
  reach: `ENABLED` is not supported.

## Where code and documentation disagree

- **A killed ingest is not followed by a refresh** (`chain_killed`).
  `schedule.py` says the views are refreshed after every ingest that published, by
  the chain. When a worker dies after a load committed, the message is delivered
  again, the second run finds nothing left to load, its summary has no published
  pairs, and `recompute_positions` and `refresh_matviews` both skip. The views are
  behind until the daily refresh at 04:00.
- **A link that skips for a lock may leave the views behind** (the exceptions of
  `ChainRefreshes`). `JobLocked` (`jobs/tracking.py:207`) is "Not a failure": "the run that
  holds the lock is doing what this one would have done", and `cli.py:3982` says a refresh
  already running "is left to finish what this one would have done". A recompute by hand
  that holds its lock when the chain's recompute comes ends the chain, and refreshes nothing
  itself if it was given `--no-refresh-views` or dies. A refresh that holds its lock may be
  of one `--view`, or die; or it may have committed before the load, and be writing its row
  or dropping cached responses: then what the skipped one would have refreshed, it has not.
  In each case the views are behind until the next run that refreshes them, the daily one
  at the latest. `RedeliveredChainRefreshes` fails of these too, without a kill.
- **A deferred filing counts as loaded** (`deferred`). `LOADED_STATUSES` is
  documented as "in the database with its holdings, so ingesting it again has
  nothing to add", and README.md tells the operator to re-run a deferred filing
  once its filer is resolved. Its status is `ok` all the same, so discovery,
  backfill and `ingest-filing` without `--force` skip it, and its holdings never come.

- **A restated filing may be counted by two digests** (`restated`).
  `alerts/events.py` says of `filer_filed` "Once per pair, ever, by its dedupe key,
  so a restatement of a quarter already told about is nothing new", and
  `alerts/outbox.py` that items are kept longer than events are fresh "so no event
  can be emitted again once the item that stops it being queued twice is gone".
  But a pair is fresh by its latest filing: an amendment months later, in another
  filing window, makes the event fresh again, and the outbox row that would have
  stopped it was deleted after `KEEP_FOR`. The bell's notification is kept, so
  instant alerts are told once (`once`, with an amendment); the season digest has only the row.

- **A subscriber who has paid may be dunned** (`recovered`).
  `accounts/billing.py` says that if a later retry pays a renewal "the subscription
  turns ``active``, the plan is back", and that an event "carries the whole
  subscription, so the newest one is the truth". But `_apply_payment_failed` starts the
  dunning without taking the event's time, and a newer `active` ends it only of a
  row that says `past_due`. Delivered as failed, active, past due, the last is stale, and
  the row is active with its dunning going on: reminded, and off the plan at the end
  of the grace. What `RowIsPaddles` says of the status holds all the same.
- **The order Form 4s are loaded in does matter** (`order`).
  `loaders/insider.py` heads "Order does not matter". A 4/A linked to the only
  candidate loaded so far stays linked when a better one, with all of its owners,
  is loaded, so that one's lines stay beside the amendment's and the first one's
  are lost. With what is linked, only the latest of a chain has its lines
  (`AmendmentsInPlace`).

Smaller ones the models take in, each an exception in the statement of a property:

- An override of an asset made while a pass resolves lines is left under the pass's
  automatic answer if the pass commits last, where `db/models/congress_asset_override.py:8`
  says nothing automatic overrides it; a correction accepted between a pass's
  read and its write is left with the uncorrected name's answer (`mixed` in
  `PtrLines`).
- `ingestion/congress/ptrs.py:363` locks the filing "so a review cannot land between
  the check and the write". Reviews lock the line only: one committed in between
  is deleted with it, though `admin/congress.py:16` says a reviewed filing
  is never read again by a run (`raced` in `PtrLines`).
- A login that verified the old password before a change, and commits after it,
  starts a session; and if its hash is of older parameters it writes the old
  password back (`raced` in `Sessions`).
- The cache's lifetimes are called "a backstop rather than a staleness anyone sees".
  A body built from before a publication and written after its invalidation is
  served until its lifetime ends (`ServedIsRecent`: only those).
- A flush that outlives its lock of 60 seconds deletes the set of names the next
  one has moved: those counts wait for their account's next request (`UsageMeter`).
- A Form 4 run killed between its loads and its rebuild leaves the clusters without what it
  loaded, and the next run rebuilds only if it loads something itself: `ingest_form4`'s
  "a run that loaded anything rebuilds it" holds of runs that end (`orphaned` in
  `InsiderClusters`).
- A search of eFD compares what it listed with what it counted at the first page:
  "one that came up short (eFD's list shifting under the pages) leaves it"
  (`ingestion/congress/senate_ptrs.py:32`). A list that both loses and gains a report while
  it is searched may skip one and still count right, and the watermark moves (`leftOut` in
  `PtrListings`: the report shifted past); the next reads again from two weeks
  before, which is what usually finds it.
- A report listed later than a catch-up looks back is never read by one. The House's is said
  so in `ingestion/congress/filings.py:19`: of the indexes of 2020 to 2026 one PTR was filed
  three years after the year it is indexed under, and "Two years back catches all but that
  last kind; a ``--from-year`` sweep now and then catches the rest". Nothing schedules that
  sweep. Nor may a Senate one posted more than two weeks after the day it is listed
  under be read, though `senate_ptrs.py:27` gives the days between as the reason to
  look back (`Late` in `PtrListings`, which `NoneOverlooked` excepts).
- A dunning run that dies between its commit and its emails loses them. Each email "is sent
  at most once per failure" (`accounts/billing.py:47`) but for two cases
  (`NoticeOnce`). A subscription cancelled for a deletion that is then undone may be
  told of the last failure again. And `_apply_payment_failed` does not take the
  event's time: of a subscription paused, resumed and failing to renew whose
  `payment_failed` is handled before its `paused`, that older event is not stale, and ends the
  dunning and clears `dunning_notified`; `past_due` then starts it again, with the
  same email (`Crossed`).
- A crawl that runs over two publications may take the second day for one
  without an index; and two first-ever crawls that overlap may leave days between
  their starts unread. Both need a run of more than a day or an empty database,
  and the models exclude them (at most one publication during a run; the
  watermark there from the start).
- Presets may pass `MAX_ALERT_RULES` by one rule, and `add_watchlist_item` counts
  without a lock (`api/routers/watchlist.py`), so two at once may pass its limit.

## What is left out

In the 13F parts: weights, deltas' arithmetic and confidence grades (columns
computed row by row from modelled ones); the rounding of split-adjusted shares
and prices; a chain's recompute names one pair at a time; discovery's transactions
are one filer's; the text of errors and the attempts counter; two 13F chains
outstanding at once; a link killed by its hard time limit, which is acknowledged as
failed and not delivered again. The lock of the
13F job is assumed to last as long as its run; what happens when it does not is
`JobRuns`'. In the outbox: what an alert says, targets and thresholds, the ten changes a
filing is told in, the digest's own notification in the bell, and the dispatch of
an emission after a load commits. Other users are seen only as a run that fails.

In the services: plans and prices, the portal and the snapshot at a period's end
(`Billing`); emailed links, API keys and the admin's own sessions (`Sessions`); the
catalog of plans each process keeps (`KeptGrant`); more than one counter, and plans
without limits (`UsageMeter`); ETags (`ResponseCache`); countdowns of retries, which
may run at once (`JobRuns`); issuers' universe (`InsiderLines`); which lines count
as purchases, and a cluster's sums (`InsiderClusters`); what a cursor is refused for, its
encoding, and a listing's filters (`Pages`);
unsubscribe tokens and retries within a send (`Courier`); a rule's settings, its
test and the watchlist's count (`PlanRoom`); malformed rows of an index, and which
filings are chosen to be read (`PtrListings`); what a document reads as, and the matching
of members, which locks every name it decides (`PtrLines`).

Services that share a run share no state. Where one writes what another reads, the
reader takes it as given to change at any time: a plan in `KeptGrant` and
`PlanRoom`, a job's publication in `ResponseCache`, an account deleted in
`Sessions`; so their properties do not depend on how the other does it.

Not modelled: the components with status `not_modelled` in `PROJECT.json`, with
the reason. Enrichment upserts the results of lookups, guarded in each statement.
Rate limits are Redis scripts and in-process buckets, atomic by construction; the
EDGAR bucket is a process's own, so that a command run beside the ingestion
worker has its own allowance. The archive puts once. Parsers, the queries of API reads, exports,
the admin console's reads and printing are pure functions or queries that unit
tests reach, and most of the repository's lines.

## The plan

Done, in this order: the tables (`PublishedTables`, `SplitDetection`, `FullRebuild`,
`Recompute`), the queue, the outbox; then `Billing` against `Mirror`, `Sessions`,
`KeptGrant`, `UsageMeter`, `ResponseCache`, `JobRuns`, `InsiderLines`, `Courier`,
`PlanRoom`, `Form4Crawl`, `PtrLines`, `InsiderClusters`, `PtrListings`, `Pages`. A new
service is a part of `MCServices`, a new table a scenario of `MCPublished`.

Left, in order of worth:

1. An abstract mailbox that the outbox implements.
2. The matching of members.
3. The catalog of plans beside the grants.
4. The pacing of EDGAR's client: a bucket shared by a process's fetches, with its
   retries.
5. Enrichment: overrides beside automatic lookups.
