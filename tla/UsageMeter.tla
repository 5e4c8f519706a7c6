------------------------------ MODULE UsageMeter ------------------------------
(***************************************************************************)
(* One account's month of one metered thing: counted in Redis, flushed to  *)
(* Postgres by every API process, and the email at 80% of it.  Each script *)
(* or MULTI Redis runs, and each transaction, is a step.                   *)
(*                                                                         *)
(* A plan without a limit counts the same and refuses nothing; with Redis  *)
(* out of reach a request is let through uncounted.  Neither is a step.    *)
(***************************************************************************)
EXTENDS Integers, FiniteSetsExt

CONSTANTS
    Quota,          \* the plan's limit
    Calls,          \* metered requests in progress at once
    Flushers,       \* API processes
    MeterMishaps,   \* "redis loses", "postgres fails", "dies", "lock expires"
    MostLosses      \* bounds how often Redis loses its data

ASSUME MeterAssumption == Quota \in Nat \ {0} /\ MostLosses \in Nat

VARIABLES
    counter,    \* ww:usage:*
    warnFlag,   \* ww:usage-warned:*
    dirty,      \* whether ww:usage-dirty names the counter
    moved,      \* whether ww:usage-flushing does
    flushLock,  \* ww:usage-flush-lock
    usageRow,   \* usage_counter: its count, and whether warned_at is written
    call,       \* requests: where each is, and the count it has read
    flusher,    \* flushes: where each is, and the count it has read
    admitted,   \* history: requests admitted
    losses,     \* history: how often Redis lost its data
    warnings    \* history: emails sent

meterVars == <<counter, warnFlag, dirty, moved, flushLock, usageRow, call, flusher,
               admitted, losses, warnings>>

Missing == Quota + 1        \* a counter Redis does not have
Counts == 0 .. Quota
Nobody == "nobody"
Resting == [step |-> "idle", count |-> 0]

MeterTypeOK ==
    /\ counter \in Counts \cup {Missing}
    /\ warnFlag \in BOOLEAN /\ dirty \in BOOLEAN /\ moved \in BOOLEAN
    /\ flushLock \in Flushers \cup {Nobody}
    /\ usageRow \in [count : Counts, warned : BOOLEAN]
    /\ call \in [Calls -> [step : {"idle", "missed", "read", "seeded", "claiming"}, count : Counts]]
    /\ flusher \in [Flushers -> [step : {"idle", "locked", "moved", "got", "written"},
                                 count : Counts \cup {Missing}]]
    /\ admitted \in Nat /\ losses \in 0 .. MostLosses
    /\ warnings \in Nat

MeterInit ==
    /\ counter = Missing /\ warnFlag = FALSE /\ dirty = FALSE /\ moved = FALSE
    /\ flushLock = Nobody
    /\ usageRow = [count |-> 0, warned |-> FALSE]
    /\ call = [r \in Calls |-> Resting] /\ flusher = [f \in Flushers |-> Resting]
    /\ admitted = 0 /\ losses = 0 /\ warnings = 0

-----------------------------------------------------------------------------
(* A metered request.                                                      *)

\* warn_threshold: 80%, rounded up.
WarnAt == Max({1, (Quota * 4 + 4) \div 5})

ToStep(r, step, count) == call' = [call EXCEPT ![r] = [step |-> step, count |-> count]]

\* _SPEND, of a counter Redis has.
Refused429_After(count) == count > Quota
Refused429(count) == count >= Quota
RunScript(r) ==
    IF Refused429(counter)
    THEN /\ ToStep(r, "idle", 0)
         /\ UNCHANGED <<counter, dirty, warnFlag, admitted>>
    ELSE /\ counter' = counter + 1 /\ dirty' = TRUE /\ admitted' = admitted + 1
         /\ IF counter' >= WarnAt /\ ~warnFlag
            THEN warnFlag' = TRUE /\ ToStep(r, "claiming", counter')
            ELSE ToStep(r, "idle", 0) /\ UNCHANGED warnFlag

SpendCall(r) ==
    /\ call[r].step = "idle"
    /\ IF counter = Missing
       THEN /\ ToStep(r, "missed", 0)
            /\ UNCHANGED <<counter, dirty, warnFlag, admitted>>
       ELSE RunScript(r)
    /\ UNCHANGED <<moved, flushLock, usageRow, flusher, losses, warnings>>

\* stored_count, and the seed: NX, so that the first of two stands.
ReadStored(r) ==
    /\ call[r].step = "missed"
    /\ ToStep(r, "read", usageRow.count)
    /\ UNCHANGED <<counter, warnFlag, dirty, moved, flushLock, usageRow, flusher,
                   admitted, losses, warnings>>
SeedValue_Overwrites(r) == call[r].count
SeedValue(r) == IF counter = Missing THEN call[r].count ELSE counter
Seed(r) ==
    /\ call[r].step = "read"
    /\ counter' = SeedValue(r)
    /\ ToStep(r, "seeded", 0)
    /\ UNCHANGED <<warnFlag, dirty, moved, flushLock, usageRow, flusher,
                   admitted, losses, warnings>>

\* A counter lost again since it was seeded refuses the request.
SpendSeeded(r) ==
    /\ call[r].step = "seeded"
    /\ IF counter = Missing
       THEN /\ ToStep(r, "idle", 0)
            /\ UNCHANGED <<counter, dirty, warnFlag, admitted>>
       ELSE RunScript(r)
    /\ UNCHANGED <<moved, flushLock, usageRow, flusher, losses, warnings>>

\* claim_warning, committed; the email is sent after the answer, if its process
\* lives to send it.
Claims_OnFlag(row) == TRUE
Claims(row) == ~row.warned
ClaimWarning(r) ==
    /\ call[r].step = "claiming"
    /\ IF Claims(usageRow)
       THEN /\ usageRow' = [count |-> Max({usageRow.count, call[r].count}), warned |-> TRUE]
            /\ \/ warnings' = warnings + 1
               \/ "dies" \in MeterMishaps /\ UNCHANGED warnings
       ELSE UNCHANGED <<usageRow, warnings>>
    /\ ToStep(r, "idle", 0)
    /\ UNCHANGED <<counter, warnFlag, dirty, moved, flushLock, flusher, admitted, losses>>

\* Postgres fails the claim: the flag is taken back, if Redis can be reached.
ClaimUnmade(r) ==
    /\ "postgres fails" \in MeterMishaps /\ call[r].step = "claiming"
    /\ warnFlag' \in {warnFlag, FALSE}
    /\ ToStep(r, "idle", 0)
    /\ UNCHANGED <<counter, dirty, moved, flushLock, usageRow, flusher,
                   admitted, losses, warnings>>

-----------------------------------------------------------------------------
(* flush.                                                                  *)

FlushStep(f, step, count) == flusher' = [flusher EXCEPT ![f] = [step |-> step, count |-> count]]
FlushLeaves == UNCHANGED <<counter, warnFlag, call, admitted, losses, warnings>>

TakeFlushLock(f) ==
    /\ flusher[f].step = "idle" /\ flushLock = Nobody
    /\ flushLock' = f /\ FlushStep(f, "locked", 0)
    /\ FlushLeaves /\ UNCHANGED <<dirty, moved, usageRow>>

\* The MULTI: the changed set moved aside, with what a flush before left there.
MoveAside(f) ==
    /\ flusher[f].step = "locked"
    /\ moved' = (moved \/ dirty) /\ dirty' = FALSE
    /\ FlushStep(f, "moved", 0)
    /\ FlushLeaves /\ UNCHANGED <<flushLock, usageRow>>

GetCounts(f) ==
    /\ flusher[f].step = "moved"
    /\ FlushStep(f, "got", IF moved THEN counter ELSE Missing)
    /\ FlushLeaves /\ UNCHANGED <<dirty, moved, flushLock, usageRow>>

\* write_counts, committed: the larger of the row's and Redis's.
Kept_Last(row, count) == count
Kept(row, count) == Max({row, count})
WriteCounts(f) ==
    /\ flusher[f].step = "got"
    /\ usageRow' = IF flusher[f].count = Missing THEN usageRow
                   ELSE [usageRow EXCEPT !.count = Kept(@, flusher[f].count)]
    /\ FlushStep(f, "written", 0)
    /\ FlushLeaves /\ UNCHANGED <<dirty, moved, flushLock>>

\* The lock is released only while it is still this flush's.
Released(f) == IF flushLock = f THEN Nobody ELSE flushLock

\* The set aside is deleted, and then the lock.
EndFlush(f) ==
    /\ flusher[f].step = "written"
    /\ moved' = FALSE /\ flushLock' = Released(f)
    /\ FlushStep(f, "idle", 0)
    /\ FlushLeaves /\ UNCHANGED <<dirty, usageRow>>

\* A flush that raises leaves the set for the next.
FlushFails(f) ==
    /\ "postgres fails" \in MeterMishaps /\ flusher[f].step = "got"
    /\ flushLock' = Released(f) /\ FlushStep(f, "idle", 0)
    /\ FlushLeaves /\ UNCHANGED <<dirty, moved, usageRow>>

\* Its process dies, and leaves the lock to expire.
FlusherDies(f) ==
    /\ "dies" \in MeterMishaps /\ flusher[f].step # "idle"
    /\ FlushStep(f, "idle", 0)
    /\ FlushLeaves /\ UNCHANGED <<dirty, moved, flushLock, usageRow>>

\* FLUSH_LOCK_SECONDS: of a flush that died, or one still going on.
LockExpires ==
    /\ flushLock # Nobody
    /\ flusher[flushLock].step = "idle" \/ "lock expires" \in MeterMishaps
    /\ flushLock' = Nobody
    /\ FlushLeaves /\ UNCHANGED <<dirty, moved, usageRow, flusher>>

-----------------------------------------------------------------------------

\* Redis comes back with nothing.
LoseRedis ==
    /\ "redis loses" \in MeterMishaps /\ losses < MostLosses
    /\ counter' = Missing /\ warnFlag' = FALSE
    /\ dirty' = FALSE /\ moved' = FALSE /\ flushLock' = Nobody
    /\ losses' = losses + 1
    /\ UNCHANGED <<usageRow, call, flusher, admitted, warnings>>

MeterNext ==
    \/ \E r \in Calls :
        \/ SpendCall(r) \/ ReadStored(r) \/ Seed(r) \/ SpendSeeded(r)
        \/ ClaimWarning(r) \/ ClaimUnmade(r)
    \/ \E f \in Flushers :
        \/ TakeFlushLock(f) \/ MoveAside(f) \/ GetCounts(f) \/ WriteCounts(f)
        \/ EndFlush(f) \/ FlushFails(f) \/ FlusherDies(f)
    \/ LockExpires \/ LoseRedis

MeterSpec == MeterInit /\ [][MeterNext]_meterVars

-----------------------------------------------------------------------------
(* Properties.                                                             *)

\* However many requests seed the counter at once, a month admits no more than
\* the plan's limit, and no more than that again for each time Redis lost it.
QuotaHolds == admitted <= Quota * (1 + losses)

\* What is flushed stays: no flush that arrives after a later one, none begun
\* before Redis lost its data, and no claim sets the month's count back.
StoredNeverFalls == [][usageRow'.count >= usageRow.count]_meterVars

\* The email at 80% goes once a month at the most, though Redis forgets that it
\* was asked for and requests claim it at once.
WarnedOnce == warnings <= 1
=============================================================================
