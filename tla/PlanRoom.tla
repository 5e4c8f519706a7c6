------------------------------- MODULE PlanRoom -------------------------------
(***************************************************************************)
(* One user's alert rules and saved filters under the limits of a plan:    *)
(* requests that turn rules on, or save a filter, count and then write     *)
(* holding the user's row, while others turn rules off or delete them      *)
(* without it, and the plan changes.  MAX_ALERT_RULES is left out.         *)
(***************************************************************************)
EXTENDS Sequences, FiniteSets, Integers

CONSTANTS
    Savers,         \* the requests
    Asks,           \* what each may ask for
    Rules,          \* the kinds and targets there may be a rule of
    Digest,         \* the season digest's
    Presets,        \* INVESTOR_PRESETS of one investor, in order
    RuleLimit,      \* of each plan: alert_rules
    FilterLimit,    \* of each plan: screener_saved_filters
    InstantPlans    \* the plans with alerts_instant

Doing == {"save", "turn on", "presets", "follow", "save filter"}
Plans == DOMAIN RuleLimit
OfInvestor == {Presets[i] : i \in DOMAIN Presets}

ASSUME PlanRoomAssumption ==
    /\ Asks \in [Savers -> SUBSET Doing]
    /\ IsFiniteSet(Rules) /\ Digest \in Rules /\ Presets \in Seq(Rules \ {Digest})
    /\ \A i, j \in DOMAIN Presets : Presets[i] = Presets[j] => i = j
    /\ RuleLimit \in [Plans -> Nat] /\ FilterLimit \in [Plans -> Nat] /\ InstantPlans \subseteq Plans

VARIABLES
    plan,       \* the user's
    rule,       \* alert_rule: each rule "on", "off", or "none"
    filters,    \* how many saved_filter rows
    req         \* each request

roomVars == <<plan, rule, filters, req>>

Idle == [step |-> "idle", doing |-> "save", plan |-> CHOOSE p \in Plans : TRUE, todo |-> {},
         more |-> 0, on |-> 0]

RoomTypeOK ==
    /\ plan \in Plans /\ rule \in [Rules -> {"none", "off", "on"}] /\ filters \in Nat
    /\ \A r \in Savers :
        /\ req[r].step \in {"idle", "asked", "looked", "counted"} /\ req[r].doing \in Doing
        /\ req[r].plan \in Plans /\ req[r].todo \in SUBSET Rules
        /\ req[r].more \in Nat /\ req[r].on \in Nat

RoomInit ==
    /\ plan \in Plans /\ rule = [x \in Rules |-> "none"] /\ filters = 0
    /\ req = [r \in Savers |-> Idle]

\* sent_kinds and rules_on.
Sent(p) == IF p \in InstantPlans THEN Rules ELSE {Digest}
RulesOn(p) == Cardinality({x \in Sent(p) : rule[x] = "on"})

Ends(r) == req' = [req EXCEPT ![r] = Idle]

-----------------------------------------------------------------------------
(* A request: asked with the plan the session says, then under the lock    *)
(* looks at what there is, counts, and writes.                             *)

\* What follows an investor on a plan that sends no filings is the digest.
Wanted(doing, x) ==
    CASE doing = "presets" -> OfInvestor
      [] doing = "follow" -> IF plan \in InstantPlans THEN OfInvestor ELSE {Digest}
      [] doing = "save filter" -> {}
      [] OTHER -> {x}

AskFor(r, doing, x) ==
    /\ req[r].step = "idle" /\ doing \in Asks[r]
    /\ doing \in {"save", "presets"} =>                       \* _require_sent
            Wanted(doing, x) \subseteq Sent(plan)
    /\ req' = [req EXCEPT ![r] = [Idle EXCEPT !.step = "asked", !.doing = doing, !.plan = plan,
                                              !.todo = Wanted(doing, x)]]
    /\ UNCHANGED <<plan, rule, filters>>

\* lock: the user's row, until the request commits.
LockFree_Never(r) == TRUE
LockFree(r) == \A s \in Savers : req[s].step \in {"idle", "asked"}

\* pending, or the one rule: save writes its rule whatever it is, and turning
\* on is for one that is off; the digest a follow makes is left off if it was.
Pending(q) ==
    {x \in q.todo :
        CASE q.doing = "save" -> TRUE
          [] q.doing = "turn on" -> rule[x] = "off" /\ x \in Sent(q.plan)
          [] q.doing = "follow" /\ q.plan \notin InstantPlans -> rule[x] = "none"
          [] OTHER -> rule[x] # "on"}
Look(r) ==
    LET q == req[r]
        todo == Pending(q)
    IN
    /\ q.step = "asked" /\ LockFree(r)
    /\ req' = [req EXCEPT ![r] = [q EXCEPT !.step = "looked", !.todo = todo,
            !.more = Cardinality({x \in todo : rule[x] # "on"}),
            !.on = RulesOn(q.plan)]]                              \* history, of the lock
    /\ UNCHANGED <<plan, rule, filters>>

\* _require_room and _make_room refuse; a follow takes what fits.
Room(q) == IF RulesOn(q.plan) < RuleLimit[q.plan] THEN RuleLimit[q.plan] - RulesOn(q.plan) ELSE 0
Earlier(y, x) == \E i, j \in DOMAIN Presets : i < j /\ Presets[i] = y /\ Presets[j] = x
Fits(q) == {x \in q.todo : Cardinality({y \in q.todo : Earlier(y, x)}) < Room(q)}
Refuses(q) ==
    CASE q.doing = "follow" -> FALSE
      [] q.doing = "save filter" -> filters >= FilterLimit[q.plan]
      [] OTHER -> q.more > 0 /\ q.more > Room(q)
Count(r) ==
    LET q == req[r] IN
    /\ q.step = "looked"
    /\ IF Refuses(q) THEN Ends(r)
       ELSE req' = [req EXCEPT ![r].step = "counted",
                               ![r].todo = IF q.doing = "follow" THEN Fits(q) ELSE @]
    /\ UNCHANGED <<plan, rule, filters>>

Write(r) ==
    LET q == req[r] IN
    /\ q.step = "counted"
    /\ rule' = [x \in Rules |-> IF x \in q.todo THEN "on" ELSE rule[x]]
    /\ filters' = IF q.doing = "save filter" THEN filters + 1 ELSE filters
    /\ Ends(r)
    /\ UNCHANGED plan

-----------------------------------------------------------------------------
(* Without the lock.  Only a row that is being turned on is waited for.    *)

Waits(xs) ==
    \E r \in Savers :
        /\ req[r].doing = "turn on" /\ req[r].step \in {"looked", "counted"}
        /\ req[r].todo \cap xs # {}

\* on_unfollow.
Unfollow ==
    /\ \E x \in OfInvestor : rule[x] = "on"
    /\ ~Waits(OfInvestor)
    /\ rule' = [x \in Rules |-> IF x \in OfInvestor /\ rule[x] = "on" THEN "off" ELSE rule[x]]
    /\ UNCHANGED <<plan, filters, req>>

\* _stop_emailing of a rule that only emails, and change_alert_rule turning one
\* off, which takes the lock and lowers all the same.
TurnOff(x) ==
    /\ rule[x] = "on" /\ ~Waits({x})
    /\ rule' = [rule EXCEPT ![x] = "off"]
    /\ UNCHANGED <<plan, filters, req>>

DeleteRule(x) ==
    /\ rule[x] # "none" /\ ~Waits({x})
    /\ rule' = [rule EXCEPT ![x] = "none"]
    /\ UNCHANGED <<plan, filters, req>>

DeleteFilter ==
    /\ filters > 0 /\ filters' = filters - 1
    /\ UNCHANGED <<plan, rule, req>>

\* A subscription bought or ended.
SetPlan(p) ==
    /\ plan' = p
    /\ UNCHANGED <<rule, filters, req>>

RoomNext ==
    \/ \E r \in Savers :
        \/ \E doing \in {"save", "turn on"}, x \in Rules : AskFor(r, doing, x)
        \/ \E doing \in {"presets", "follow", "save filter"} : AskFor(r, doing, Digest)
        \/ Look(r) \/ Count(r) \/ Write(r)
    \/ Unfollow \/ DeleteFilter
    \/ \E x \in Rules : TurnOff(x) \/ DeleteRule(x)
    \/ \E p \in Plans : SetPlan(p)

RoomSpec == RoomInit /\ [][RoomNext]_roomVars

-----------------------------------------------------------------------------
(* Properties.                                                             *)

\* Whatever two requests do at once, and whatever is turned off or deleted
\* between a request's look, its count and its write, what it commits leaves no
\* more rules on than its plan keeps on, unless that many were when it took the
\* lock, as a plan since left allows; and no more filters than its plan saves.
Within(now, most, before) == now <= (IF most > before THEN most ELSE before)
RoomHolds ==
    [][\A r \in Savers, p \in Plans :
        req[r].plan = p /\ req[r].step = "counted" /\ req'[r].step = "idle" =>
            /\ Within(RulesOn(p)', RuleLimit[p], req[r].on)
            /\ filters' > filters => filters' <= FilterLimit[p]]_roomVars
=============================================================================
