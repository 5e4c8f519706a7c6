----------------------------- MODULE AlertOutbox -----------------------------
(***************************************************************************)
(* One user's alerts, from the emission that hears an event to the email   *)
(* that tells it: what waits in alert_outbox, and when it is decided that  *)
(* it goes.  Users are decided apart from each other, each in a            *)
(* transaction that holds their row.                                       *)
(*                                                                         *)
(* Time is counted in ticks, SlotsPerDay to a day; a sender decides by the *)
(* clock it read when it began.  A user's wall clock is the time plus      *)
(* their zone's offset.                                                    *)
(***************************************************************************)
EXTENDS Integers

CONSTANTS
    Instant,        \* events of the rules emailed in batches
    Season,         \* filings the season digest counts
    Senders,        \* runs of send_alert_emails
    SlotsPerDay, DigestAt, BatchWindow, EmailsPerDay,
    KeepFor, FreshFor,
    Windows,        \* the days in filing windows
    Zones, Hours,   \* offsets, and pairs of quiet hours, a user may choose
    Settings,       \* the switches and channels a user may give a rule
    Edits,          \* what else the user does: "rule", "account", "move"
    Amended,        \* the items whose quarter may be amended later
    Mishaps,        \* "kill", "refuse"
    Prompt,         \* whether what is due is decided before time moves on
    LastTick        \* bounds the clock

Items == Instant \cup Season
Lists == {"instant", "season"}
ListOf(i) == IF i \in Season THEN "season" ELSE "instant"
Start == 2 * SlotsPerDay
Ticks == Start .. LastTick
LocalTimes == 0 .. LastTick + 2 * SlotsPerDay
Days == 0 .. (LastTick + 2 * SlotsPerDay) \div SlotsPerDay

ASSUME ClockAssumption ==
    /\ SlotsPerDay \in Nat \ {0} /\ DigestAt \in 0 .. SlotsPerDay - 1
    /\ BatchWindow \in Nat /\ EmailsPerDay \in Nat
    /\ LastTick \in Nat /\ LastTick >= Start
    /\ KeepFor \in Nat /\ KeepFor >= 2 * SlotsPerDay /\ FreshFor \in 0 .. KeepFor - 1
    /\ Zones \subseteq -SlotsPerDay .. SlotsPerDay
\* A rule has one channel at least.
ASSUME SettingsAssumption ==
    /\ Settings \subseteq [on : BOOLEAN, email : BOOLEAN, bell : BOOLEAN]
    /\ \A setting \in Settings : setting.email \/ setting.bell
ASSUME ItemsAssumption == Instant \cap Season = {} /\ Prompt \in BOOLEAN

VARIABLES
    now,
    user,       \* app_user: verified address, instant alerts in the plan, zone, quiet hours
    rule,       \* alert_rule: the rules of each list, made 0 when there is none
    filed,      \* when the filing behind an event was filed, 0 when not yet
    told,       \* notification: the events written to the bell
    outbox,     \* alert_outbox: an item's row, or NoRow
    emailed,    \* alert_delivery: emails by the user's day
    lastDigest, \* alert_delivery: the wall clock of the last digest, 0 for none
    digests,    \* history: digests by the evening they are of
    sender,     \* the runs in progress: the clock each began by, and its emails
    mailed      \* history: how often an event was emailed

vars == <<now, user, rule, filed, told, outbox, emailed, lastDigest, digests, sender, mailed>>

NoRow == [route |-> "none", queued |-> 0, settled |-> 0, delivered |-> FALSE]
NoRule == [made |-> 0, on |-> FALSE, email |-> FALSE, bell |-> FALSE]
Resting == [phase |-> "idle", now |-> Start, due |-> {}]

Accounts == [verified : BOOLEAN, instant : BOOLEAN, deleted : BOOLEAN, zone : Zones, quiet : Hours]
Rules == [made : Ticks \cup {0}, on : BOOLEAN, email : BOOLEAN, bell : BOOLEAN]
Rows == [route : {"none", "instant", "digest"}, queued : Ticks \cup {0},
         settled : Ticks \cup {0}, delivered : BOOLEAN]
Runs == [phase : {"idle", "deciding", "forgetting", "sending"}, now : Ticks,
         due : SUBSET SUBSET Items]

TypeOK ==
    /\ now \in Ticks
    /\ user \in Accounts
    /\ rule \in [Lists -> Rules]
    /\ filed \in [Items -> Ticks \cup {0}]
    /\ told \subseteq Instant
    /\ outbox \in [Items -> Rows]
    /\ emailed \in [Days -> Nat] /\ digests \in [Days -> Nat]
    /\ lastDigest \in LocalTimes
    /\ sender \in [Senders -> Runs]
    /\ mailed \in [Items -> 0 .. 2]

Init ==
    /\ now = Start
    /\ user \in [verified : {TRUE}, instant : {TRUE}, deleted : {FALSE},
                 zone : Zones, quiet : Hours]
    /\ rule = [k \in Lists |-> [made |-> Start, on |-> TRUE, email |-> TRUE, bell |-> TRUE]]
    /\ filed = [i \in Items |-> 0]
    /\ told = {}
    /\ outbox = [i \in Items |-> NoRow]
    /\ emailed = [d \in Days |-> 0] /\ digests = [d \in Days |-> 0]
    /\ lastDigest = 0
    /\ sender = [s \in Senders |-> Resting]
    /\ mailed = [i \in Items |-> 0]

Queued(i) == outbox[i] # NoRow
Waiting == {i \in Items : Queued(i) /\ outbox[i].settled = 0}

-----------------------------------------------------------------------------
(* The user's clock.                                                       *)

Local(t) == t + user.zone
Day(local) == local \div SlotsPerDay
Clock(local) == local % SlotsPerDay

\* is_quiet: from the one hour to the other, past midnight when it is later.
IsQuiet(local) ==
    LET start == user.quiet[1]
        end == user.quiet[2]
    IN  IF start <= end THEN start <= Clock(local) /\ Clock(local) < end
        ELSE Clock(local) >= start \/ Clock(local) < end

LastDigestTime_TodayOnly(local) ==
    LET today == Day(local) * SlotsPerDay + DigestAt
    IN  IF local >= today THEN today ELSE 0
LastDigestTime(local) ==
    LET today == Day(local) * SlotsPerDay + DigestAt
    IN  IF local >= today THEN today ELSE today - SlotsPerDay

\* The day of the digest hour it is the digest of.
Evening(local) ==
    IF local >= Day(local) * SlotsPerDay + DigestAt THEN Day(local) ELSE Day(local) - 1

-----------------------------------------------------------------------------
(* The emission.                                                           *)

File(i) ==
    /\ filed[i] = 0
    /\ filed' = [filed EXCEPT ![i] = now]
    /\ UNCHANGED <<now, user, rule, told, outbox, emailed, lastDigest, digests, sender, mailed>>

\* An amendment of the same quarter: the pair's latest filing is a later one.
Restate(i) ==
    /\ i \in Amended /\ filed[i] # 0 /\ filed[i] < now
    /\ filed' = [filed EXCEPT ![i] = now]
    /\ UNCHANGED <<now, user, rule, told, outbox, emailed, lastDigest, digests, sender, mailed>>

\* _published: the pairs whose latest filing is recent.
IsFresh(i, at) == filed[i] # 0 /\ filed[i] <= at /\ filed[i] >= at - FreshFor

\* A rule that is on and was made before the filing, of an account not deleted.
Hears_AnyAge(i) ==
    LET r == rule[ListOf(i)] IN r.made # 0 /\ r.on /\ ~user.deleted
Hears(i) ==
    LET r == rule[ListOf(i)] IN r.made # 0 /\ r.made <= filed[i] /\ r.on /\ ~user.deleted

\* The notifications not written before; the instant ones among them whose
\* rule emails, and the season's filings, not queued before.
Written_Season(events) == {i \in events : Hears(i) /\ user.instant} \ told
Written(events) == {i \in events \cap Instant : Hears(i) /\ user.instant} \ told
ToQueue(events) ==
    {i \in Written(events) : rule["instant"].email /\ user.verified /\ ~Queued(i)}
        \cup {i \in events \cap Season :
                Hears(i) /\ Day(filed[i]) \in Windows /\ ~Queued(i)}

\* emit_alerts, for some of the recent events.  queued_at is when its
\* transaction began: this tick or the one before.
Emit ==
    \E at \in {now, now - 1} \cap Ticks : \E events \in SUBSET {i \in Items : IsFresh(i, at)} :
        /\ told' = told \cup Written(events)
        /\ outbox' = [i \in Items |->
                IF i \in ToQueue(events)
                THEN [route |-> IF i \in Season THEN "digest" ELSE "instant",
                      queued |-> at, settled |-> 0, delivered |-> FALSE]
                ELSE outbox[i]]
        /\ UNCHANGED <<now, user, rule, filed, emailed, lastDigest, digests, sender, mailed>>

-----------------------------------------------------------------------------
(* decide: what goes, by the clock "at" a run began by.                    *)

Emails(i) == rule[ListOf(i)].email /\ user.verified

\* _may_go: the rule is on and sent still, and asks for an email, or, the
\* season's, for the bell.
MayGo(i) ==
    /\ rule[ListOf(i)].on
    /\ i \in Instant => user.instant
    /\ Emails(i) \/ (i \in Season /\ rule["season"].bell)

Live == {i \in Waiting : MayGo(i)}
On(route) == {i \in Live : outbox[i].route = route}

\* The digest: what waited on its route at its hour, once, unless its email
\* has no room in the day.
Due(at) == {i \in On("digest") : Local(outbox[i].queued) <= LastDigestTime(Local(at))}
Listed(items) == {i \in items : i \in Instant \/ Emails(i)}
Digest_Again(at) ==
    IF IsQuiet(Local(at)) \/ (Listed(Due(at)) # {} /\ emailed[Day(Local(at))] >= EmailsPerDay)
    THEN {} ELSE Due(at)
Digest(at) ==
    IF \/ IsQuiet(Local(at))
       \/ lastDigest >= LastDigestTime(Local(at))
       \/ Listed(Due(at)) # {} /\ emailed[Day(Local(at))] >= EmailsPerDay
    THEN {} ELSE Due(at)

\* What the day has spent once the digest is decided.
Spent_BatchApart(at) == emailed[Day(Local(at))]
Spent(at) == emailed[Day(Local(at))] + (IF Listed(Digest(at)) = {} THEN 0 ELSE 1)

\* Today's digest is to come and will have something to email.
DigestAhead(at) ==
    LET digestEmails == rule["season"].on /\ rule["season"].email /\ user.verified
    IN  /\ Clock(Local(at)) < DigestAt
        /\ \/ \E i \in On("digest") \ Digest(at) : i \in Instant \/ digestEmails
           \/ digestEmails /\ Day(Local(at)) \in Windows

\* The window of the first instant item waiting has closed.
BatchDue(at) ==
    ~IsQuiet(Local(at)) /\ \E i \in On("instant") : outbox[i].queued + BatchWindow <= at
HasRoom(at) == Spent(at) + (IF DigestAhead(at) THEN 1 ELSE 0) < EmailsPerDay
Batch(at) == IF BatchDue(at) /\ HasRoom(at) THEN On("instant") ELSE {}
Overflow(at) == IF BatchDue(at) /\ ~HasRoom(at) THEN On("instant") ELSE {}
Dropped == Waiting \ Live

NothingToDecide(at) ==
    /\ Dropped = {} /\ Digest(at) = {} /\ ~BatchDue(at)

-----------------------------------------------------------------------------
(* A run of the sender: decide, forget, send.                              *)

\* The user is among those to decide for when something of theirs waits.
Begin(s) ==
    /\ sender[s].phase = "idle"
    /\ sender' = [sender EXCEPT ![s] =
            [phase |-> IF Waiting = {} THEN "forgetting" ELSE "deciding", now |-> now, due |-> {}]]
    /\ UNCHANGED <<now, user, rule, filed, told, outbox, emailed, lastDigest, digests, mailed>>

\* _decide_for, with the user's row locked.  A deleted user is left alone.
Settled(i, at) ==
    LET row == outbox[i] IN
    CASE i \in Dropped -> [row EXCEPT !.settled = at]
      [] i \in Digest(at) \cup Batch(at) -> [row EXCEPT !.settled = now, !.delivered = TRUE]
      [] i \in Overflow(at) -> [row EXCEPT !.route = "digest"]
      [] OTHER -> row

Decide(s) ==
    LET at == sender[s].now
        today == Day(Local(at))
        mails == {Listed(Digest(at)), Batch(at)} \ {{}}
    IN  /\ sender[s].phase = "deciding" /\ ~user.deleted
        /\ outbox' = [i \in Items |-> Settled(i, at)]
        /\ emailed' = [emailed EXCEPT ![today] = @
                + (IF Listed(Digest(at)) = {} THEN 0 ELSE 1) + (IF Batch(at) = {} THEN 0 ELSE 1)]
        /\ IF Digest(at) = {} THEN UNCHANGED <<lastDigest, digests>>
           ELSE /\ lastDigest' = IF lastDigest > Local(at) THEN lastDigest ELSE Local(at)
                /\ digests' = [digests EXCEPT ![Evening(Local(at))] = @ + 1]
        /\ sender' = [sender EXCEPT ![s].phase = "forgetting", ![s].due = mails]
        /\ UNCHANGED <<now, user, rule, filed, told, mailed>>

\* The user is deleted, or locked by another run, and skipped.
Skip(s) ==
    /\ sender[s].phase = "deciding"
    /\ user.deleted \/ \E t \in Senders \ {s} : sender[t].phase = "deciding"
    /\ sender' = [sender EXCEPT ![s].phase = "forgetting"]
    /\ UNCHANGED <<now, user, rule, filed, told, outbox, emailed, lastDigest, digests, mailed>>

\* _forget: what was settled longer ago than KeepFor, delivered or dropped.
Forget(s) ==
    /\ sender[s].phase = "forgetting"
    /\ outbox' = [i \in Items |->
            IF outbox[i].settled # 0 /\ outbox[i].settled < sender[s].now - KeepFor
            THEN NoRow ELSE outbox[i]]
    /\ sender' = [sender EXCEPT ![s] = IF @.due = {} THEN Resting ELSE [@ EXCEPT !.phase = "sending"]]
    /\ UNCHANGED <<now, user, rule, filed, told, emailed, lastDigest, digests, mailed>>

AfterEmail(s, email) ==
    IF sender[s].due = {email} THEN Resting
    ELSE [sender[s] EXCEPT !.due = sender[s].due \ {email}]

\* send_due: each email after the commits, once; the courier may refuse it.
Send(s) ==
    /\ sender[s].phase = "sending"
    /\ \E email \in sender[s].due :
        /\ sender' = [sender EXCEPT ![s] = AfterEmail(s, email)]
        /\ \/ mailed' = [i \in Items |-> IF i \in email /\ mailed[i] < 2 THEN mailed[i] + 1
                                         ELSE mailed[i]]
           \/ "refuse" \in Mishaps /\ UNCHANGED mailed
    /\ UNCHANGED <<now, user, rule, filed, told, outbox, emailed, lastDigest, digests>>

\* The worker dies, or the run fails, another user's decision included: its
\* emails are lost, and the task that retries it begins again.
Kill(s) ==
    /\ "kill" \in Mishaps /\ sender[s].phase # "idle"
    /\ sender' = [sender EXCEPT ![s] = Resting]
    /\ UNCHANGED <<now, user, rule, filed, told, outbox, emailed, lastDigest, digests, mailed>>

-----------------------------------------------------------------------------
(* The user, and the clock.                                                *)

\* A deleted rule takes its rows with it; one made again is a new rule, and
\* the filings of a tick come after the rules made in it.
DeleteRule(k) ==
    /\ "rule" \in Edits /\ rule[k] # NoRule
    /\ rule' = [rule EXCEPT ![k] = NoRule]
    /\ outbox' = [i \in Items |-> IF ListOf(i) = k THEN NoRow ELSE outbox[i]]
    /\ UNCHANGED <<now, user, filed, told, emailed, lastDigest, digests, sender, mailed>>
MakeRule(k) ==
    /\ "rule" \in Edits /\ rule[k] = NoRule
    /\ \A i \in Items : filed[i] # now
    /\ rule' = [rule EXCEPT ![k] = [made |-> now, on |-> TRUE, email |-> TRUE, bell |-> TRUE]]
    /\ UNCHANGED <<now, user, filed, told, outbox, emailed, lastDigest, digests, sender, mailed>>

EditRule(k) ==
    /\ rule[k] # NoRule
    /\ \E setting \in Settings :
        rule' = [rule EXCEPT ![k].on = setting.on, ![k].email = setting.email,
                             ![k].bell = setting.bell]
    /\ UNCHANGED <<now, user, filed, told, outbox, emailed, lastDigest, digests, sender, mailed>>

\* The address changed or verified, the plan, the account deleted or restored.
EditAccount ==
    /\ "account" \in Edits
    /\ \/ user' = [user EXCEPT !.verified = ~@]
       \/ user' = [user EXCEPT !.instant = ~@]
       \/ user' = [user EXCEPT !.deleted = ~@]
    /\ UNCHANGED <<now, rule, filed, told, outbox, emailed, lastDigest, digests, sender, mailed>>

Move ==
    /\ "move" \in Edits
    /\ \E zone \in Zones, quiet \in Hours :
        user' = [user EXCEPT !.zone = zone, !.quiet = quiet]
    /\ UNCHANGED <<now, rule, filed, told, outbox, emailed, lastDigest, digests, sender, mailed>>

Tick ==
    /\ now < LastTick
    /\ Prompt => NothingToDecide(now)
    /\ now' = now + 1
    /\ UNCHANGED <<user, rule, filed, told, outbox, emailed, lastDigest, digests, sender, mailed>>

Next ==
    \/ \E i \in Items : File(i) \/ Restate(i)
    \/ Emit
    \/ \E s \in Senders : Begin(s) \/ Decide(s) \/ Skip(s) \/ Forget(s) \/ Send(s) \/ Kill(s)
    \/ \E k \in Lists : DeleteRule(k) \/ MakeRule(k) \/ EditRule(k)
    \/ EditAccount \/ Move \/ Tick

Spec == Init /\ [][Next]_vars

-----------------------------------------------------------------------------
(* Properties.                                                             *)

\* No day of the user's clock has more alert emails than the cap, digest and
\* batches together, wherever the user moves and however two runs overlap.
CapHolds == \A d \in Days : emailed[d] <= EmailsPerDay

\* Each evening has one digest at most, though the clock a run decides by may
\* be behind another's, and the user's clock may go back.
OneDigestAnEvening == \A d \in Days : digests[d] <= 1

\* No event is emailed twice: not by two runs, a redelivered emission, a worker
\* killed after its commit, or a rule deleted and made again.
AtMostOnce == \A i \in Items : mailed[i] <= 1

\* The first digest hour of the user's clock at or after a moment of it.
DigestHour(local) ==
    LET today == Day(local) * SlotsPerDay + DigestAt
    IN  IF local <= today THEN today ELSE today + SlotsPerDay

\* Nothing but quiet hours from a moment of the user's clock until now.
QuietSince(local) == \A t \in local .. Local(now) - 1 : IsQuiet(t)

\* When what is due is decided before time moves on, and a filing window leaves
\* the digest its email: an item can miss its first digest, queued late in a
\* transaction or moved to the digest after it went, and no more than one; from
\* the second it waits for quiet hours only.  In a filing window the day's last
\* email is kept for the digest: the batches of a day never put off what the
\* digest of the evening has to say.  There an item is seen a tick after it is
\* queued at the latest, so before the hour.
NoLongWait ==
    \A i \in Waiting :
        LET queued == Local(outbox[i].queued)
            evening == DigestHour(queued + 2)
        IN  /\ QuietSince(DigestHour(queued) + SlotsPerDay)
            /\ outbox[i].route = "digest" /\ i \in Season /\ lastDigest < evening
                => QuietSince(evening)
=============================================================================
