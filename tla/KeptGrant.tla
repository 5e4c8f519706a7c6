------------------------------ MODULE KeptGrant ------------------------------
(***************************************************************************)
(* What a session remembers of its user's plan.  The grant is read from    *)
(* the database on the session's first request, again once GrantEvery old, *)
(* and again after whoever changed the plan has had it forgotten.  A       *)
(* request reads the whole record from Redis and writes it whole, and so   *)
(* does a forgetting.                                                      *)
(***************************************************************************)
EXTENDS Integers

CONSTANTS
    Grants,         \* what the user may have: subscriptions, overrides, none
    Requests,       \* requests in progress with one session's cookie
    Forgetters,     \* webhooks and admins that change the plan
    GrantEvery,     \* how long a session keeps its grant
    RequestTime,    \* bounds the time from a request's read to its write
    LastSecond      \* bounds the clock

ASSUME GrantAssumption ==
    GrantEvery \in Nat /\ RequestTime \in Nat /\ LastSecond \in Nat /\ Grants # {}

VARIABLES
    second,
    granted,    \* subscription and plan_override, as grant_for reads them
    held,       \* history: when each grant was last the user's
    kept,       \* the record in Redis
    asking,     \* find_session of each request: the record and the grant it has read
    forget      \* forget_grants of each forgetter

grantVars == <<second, granted, held, kept, asking, forget>>

Never == -1                 \* granted_at of a record that was never read, or was forgotten
Records == [grant : Grants, readAt : Never .. LastSecond]
Seconds == 0 .. LastSecond

GrantTypeOK ==
    /\ second \in Seconds /\ granted \in Grants /\ held \in [Grants -> Seconds]
    /\ kept \in Records
    /\ asking \in [Requests -> [step : {"none", "found", "read"}, record : Records,
                                grant : Grants, at : Seconds]]
    /\ forget \in [Forgetters -> {"none", "owed", "got"}]

AskingNothing(g) ==
    [step |-> "none", record |-> [grant |-> g, readAt |-> Never], grant |-> g, at |-> 0]

GrantInit ==
    /\ second = 0 /\ granted \in Grants /\ held = [g \in Grants |-> 0]
    /\ kept = [grant |-> granted, readAt |-> Never]
    /\ asking = [r \in Requests |-> AskingNothing(granted)]
    /\ forget = [f \in Forgetters |-> "none"]

\* A request takes no longer than RequestTime from its read to its write.
NextSecond ==
    /\ second < LastSecond
    /\ \A r \in Requests : asking[r].step = "none" \/ second - asking[r].at < RequestTime
    /\ second' = second + 1
    /\ held' = [held EXCEPT ![granted] = second']
    /\ UNCHANGED <<granted, kept, asking, forget>>

\* Committed first, and then forgotten.
ChangeGrant(f, g) ==
    /\ forget[f] = "none" /\ g # granted
    /\ granted' = g /\ held' = [held EXCEPT ![g] = second]
    /\ forget' = [forget EXCEPT ![f] = "owed"]
    /\ UNCHANGED <<second, kept, asking>>

\* find: the record as it is now.
Ask(r) ==
    /\ asking[r].step = "none"
    /\ asking' = [asking EXCEPT ![r].step = "found", ![r].record = kept, ![r].at = second]
    /\ UNCHANGED <<second, granted, held, kept, forget>>

\* grant_is_stale.
GrantIsStale_OnceRead(record) == record.readAt = Never
GrantIsStale(record) == record.readAt = Never \/ second - record.readAt >= GrantEvery

AnswerKept(r) ==
    /\ asking[r].step = "found" /\ ~GrantIsStale(asking[r].record)
    /\ asking' = [asking EXCEPT ![r] = AskingNothing(granted)]
    /\ UNCHANGED <<second, granted, held, kept, forget>>

\* grant_for.
ReadGrant(r) ==
    /\ asking[r].step = "found" /\ GrantIsStale(asking[r].record)
    /\ asking' = [asking EXCEPT ![r].step = "read", ![r].grant = granted, ![r].at = second]
    /\ UNCHANGED <<second, granted, held, kept, forget>>

\* keep_grant, over whatever another request or a forgetting has written since.
AnswerRead(r) ==
    /\ asking[r].step = "read"
    /\ kept' = [grant |-> asking[r].grant, readAt |-> second]
    /\ asking' = [asking EXCEPT ![r] = AskingNothing(granted)]
    /\ UNCHANGED <<second, granted, held, forget>>

\* forget_grants: it reads the record, and writes it back without its grant.
ForgetRead(f) ==
    /\ forget[f] = "owed"
    /\ forget' = [forget EXCEPT ![f] = "got"]
    /\ UNCHANGED <<second, granted, held, kept, asking>>
ForgetWrite(f) ==
    /\ forget[f] = "got"
    /\ kept' = [kept EXCEPT !.readAt = Never]
    /\ forget' = [forget EXCEPT ![f] = "none"]
    /\ UNCHANGED <<second, granted, held, asking>>

\* Redis out of reach: logged, and left to GrantEvery.
ForgetFails(f) ==
    /\ forget[f] # "none"
    /\ forget' = [forget EXCEPT ![f] = "none"]
    /\ UNCHANGED <<second, granted, held, kept, asking>>

GrantNext ==
    \/ NextSecond
    \/ \E f \in Forgetters :
        (\E g \in Grants : ChangeGrant(f, g)) \/ ForgetRead(f) \/ ForgetWrite(f) \/ ForgetFails(f)
    \/ \E r \in Requests : Ask(r) \/ AnswerKept(r) \/ ReadGrant(r) \/ AnswerRead(r)

GrantSpec == GrantInit /\ [][GrantNext]_grantVars

-----------------------------------------------------------------------------
(* Properties.                                                             *)

\* However requests, changes of plan and forgettings overlap, or fail, no
\* request is answered by a grant that stopped being the user's longer ago than
\* a session keeps one and a request takes.
GrantIsRecent ==
    \A record \in {kept} \cup {asking[r].record : r \in Requests} :
        record.readAt # Never /\ ~GrantIsStale(record) =>
            \/ record.grant = granted
            \/ second - held[record.grant] < GrantEvery + RequestTime
=============================================================================
