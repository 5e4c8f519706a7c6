------------------------------ MODULE MCServices ------------------------------
(***************************************************************************)
(* The services beside the 13F pipeline, checked in one run of TLC: each   *)
(* behaviour is of the one part "part" names, on an instance of its own,   *)
(* and the others stay as they begin.                                      *)
(***************************************************************************)
EXTENDS Billing, Sessions, KeptGrant, UsageMeter, Courier, PlanRoom, JobRuns, ResponseCache

CONSTANT Parts      \* those the run checks

VARIABLE part

\* Everything that may be done in Postmark's dashboard.
WholeDashboard == [kind : {"suppressed", "reactivated"}, stream : Streams]

\* Two requests, which between them race each kind with another.
RaceAsks ==
    [r1 |-> {"presets", "save filter"}, r2 |-> {"save", "turn on", "follow", "save filter"}]
RaceRuleLimit == [free |-> 1, pro |-> 2]
RaceFilterLimit == [free |-> 1, pro |-> 1]
RacePresets == <<"filed", "change">>

accountVars == <<billingVars, sessionVars, grantVars, meterVars>>
userVars == <<mailVars, roomVars>>
workVars == <<jobVars, cacheVars>>

\* Of the metered requests and the flushes.
MostInProgress == 2
InProgress ==
    Cardinality({r \in Calls : call[r].step # "idle"})
        + Cardinality({f \in Flushers : flusher[f].step # "idle"})

Init ==
    /\ part \in Parts
    /\ BillingInit /\ SessionsInit /\ GrantInit /\ MeterInit
    /\ MailInit /\ RoomInit
    /\ JobInit /\ CacheInit
    /\ part # "grants" => granted = "free"
    /\ part # "limits" => plan = "free"
    \* One message a behaviour: what another does to the address, the dashboard does.
    /\ Cardinality({m \in Messages : sending[m] = "unsent"}) = IF part = "mail" THEN 1 ELSE 0

Next ==
    /\ UNCHANGED part
    /\ \/ /\ part = "billing" /\ BillingNext
          /\ UNCHANGED <<sessionVars, grantVars, meterVars, userVars, workVars>>
       \/ /\ part = "sessions" /\ SessionsNext
          /\ UNCHANGED <<billingVars, grantVars, meterVars, userVars, workVars>>
       \/ /\ part = "grants" /\ GrantNext
          /\ UNCHANGED <<billingVars, sessionVars, meterVars, userVars, workVars>>
       \/ /\ part = "usage" /\ MeterNext /\ InProgress' <= MostInProgress
          /\ UNCHANGED <<billingVars, sessionVars, grantVars, userVars, workVars>>
       \/ part = "mail" /\ MailNext /\ UNCHANGED <<accountVars, roomVars, workVars>>
       \/ part = "limits" /\ RoomNext /\ UNCHANGED <<accountVars, mailVars, workVars>>
       \/ part = "runs" /\ JobNext /\ UNCHANGED <<accountVars, userVars, cacheVars>>
       \/ part = "cache" /\ CacheNext /\ UNCHANGED <<accountVars, userVars, jobVars>>

Spec ==
    /\ Init /\ [][Next]_<<part, accountVars, userVars, workVars>>
    /\ BillingFairness /\ JobFairness

TypeOK ==
    /\ BillingTypeOK /\ SessionsTypeOK /\ GrantTypeOK /\ MeterTypeOK
    /\ MailTypeOK /\ RoomTypeOK
    /\ JobTypeOK /\ CacheTypeOK
=============================================================================
