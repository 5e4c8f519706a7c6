------------------------------- MODULE Billing -------------------------------
(***************************************************************************)
(* One user's subscriptions, kept from Paddle's webhooks: the dunning of a *)
(* renewal that failed, and what happens to them when the account is       *)
(* deleted, restored or erased.                                            *)
(*                                                                         *)
(* Paddle is the environment.  It delivers each event any number of times, *)
(* in any order, until it is answered 200, and gives up no sooner than     *)
(* RetryFor after it.  Handling one is a transaction that holds the        *)
(* subscription's row.                                                     *)
(***************************************************************************)
EXTENDS Integers, FiniteSets, FiniteSetsExt

CONSTANTS
    Subscriptions,
    GracePeriod,    \* BILLING_GRACE_DAYS
    RemindBefore,   \* BILLING_REMINDER_DAYS
    DeletionGrace,  \* how long a deleted account is kept
    RetryFor,       \* how long Paddle delivers an event again
    PaddleDoes,     \* what happens in Paddle: "pause", "update", "cancel", "recover"
    OperatorDoes,   \* what happens to the account: "delete", "restore"
    LastMoment      \* bounds the clock

ASSUME BillingAssumption ==
    /\ GracePeriod \in Nat \ {0} /\ RemindBefore \in 1 .. GracePeriod
    /\ RetryFor \in Nat \ {0} /\ DeletionGrace \in Nat /\ DeletionGrace > RetryFor
    /\ LastMoment \in Nat

VARIABLES
    moment,
    charge,     \* Paddle's subscriptions
    sent,       \* the events Paddle has to deliver
    landed,     \* paddle_event: those recorded
    sub,        \* subscription
    account,    \* app_user and account_deletion
    mailed,     \* history: the dunning emails, each with the failure it is of
    repeated    \* history: those sent more than once

billingVars == <<moment, charge, sent, landed, sub, account, mailed, repeated>>

Moments == 0 .. LastMoment + 2
LiveStatuses == {"active", "past_due"}      \* trialing is dealt with as active
BillableStatuses == LiveStatuses \cup {"paused"}
Statuses == BillableStatuses \cup {"canceled"}
DunningSteps == {"payment_failed", "grace_ending", "downgraded"}

Events == [sub : Subscriptions, kind : {"state", "failed"}, status : Statuses, at : Moments]
SubscriptionRows ==
    [status : Statuses \cup {"none"}, at : Moments, since : Moments,
     notified : DunningSteps \cup {"none"}]
NoSubscription == [status |-> "none", at |-> 0, since |-> 0, notified |-> "none"]

BillingTypeOK ==
    /\ moment \in Moments
    /\ charge \in [Subscriptions -> Statuses \cup {"none"}]
    /\ sent \subseteq Events /\ landed \subseteq sent
    /\ sub \in [Subscriptions -> SubscriptionRows]
    /\ account \in [state : {"here", "deleted", "erasing", "erased"}, purgeAfter : Nat]
    /\ repeated \subseteq mailed

BillingInit ==
    /\ moment = 0
    /\ charge = [s \in Subscriptions |-> "none"]
    /\ sent = {} /\ landed = {}
    /\ sub = [s \in Subscriptions |-> NoSubscription]
    /\ account = [state |-> "here", purgeAfter |-> 0]
    /\ mailed = {} /\ repeated = {}

State(s, status, at) == [sub |-> s, kind |-> "state", status |-> status, at |-> at]
Failed(s, at) == [sub |-> s, kind |-> "failed", status |-> "past_due", at |-> at]
EventsOf(s) == {e \in sent : e.sub = s}

Mailable == account.state = "here"

-----------------------------------------------------------------------------
(* The clock and Paddle.                                                   *)

\* Time passes, and every event older than RetryFor has been recorded.
Pass(ticks) ==
    /\ moment < LastMoment
    /\ moment' = moment + ticks
    /\ \A e \in sent \ landed : moment' - e.at <= RetryFor

Wait ==
    /\ Pass(1)
    /\ UNCHANGED <<charge, sent, landed, sub, account, mailed, repeated>>

\* Paddle's subscription changes, or is changed in Paddle.
Becomes(s, status) ==
    /\ Pass(1)
    /\ charge' = [charge EXCEPT ![s] = status]
    /\ sent' = sent \cup {State(s, status, moment')}
    /\ UNCHANGED <<landed, sub, account, mailed, repeated>>

\* A checkout is paid; one opened before the account was deleted may still be,
\* while there is time to hear of it before the account is erased.
Checkout(s) ==
    /\ charge[s] = "none"
    /\ account.state = "here"
       \/ (account.state = "deleted" /\ moment + 1 + RetryFor < account.purgeAfter)
    /\ Becomes(s, "active")

\* A renewal's payment fails: two events, the second with the status.
FailRenewal(s) ==
    /\ charge[s] = "active"
    /\ Pass(2)
    /\ charge' = [charge EXCEPT ![s] = "past_due"]
    /\ sent' = sent \cup {Failed(s, moment + 1), State(s, "past_due", moment + 2)}
    /\ UNCHANGED <<landed, sub, account, mailed, repeated>>

Recover(s) == "recover" \in PaddleDoes /\ charge[s] = "past_due" /\ Becomes(s, "active")
Pause(s) == "pause" \in PaddleDoes /\ charge[s] \in LiveStatuses /\ Becomes(s, "paused")
Resume(s) == charge[s] = "paused" /\ Becomes(s, "active")
Update(s) == "update" \in PaddleDoes /\ charge[s] \in LiveStatuses /\ Becomes(s, charge[s])
EndInPaddle(s) ==
    "cancel" \in PaddleDoes /\ charge[s] \in BillableStatuses /\ Becomes(s, "canceled")

-----------------------------------------------------------------------------
(* handle: an event not recorded yet.                                      *)

\* An event older than the last one applied to the row.
IsStale_Never(e) == FALSE
IsStale(e) == sub[e.sub].status # "none" /\ e.at < sub[e.sub].at

\* The renewal a row's dunning is of.
FailureAt(s, since) == Max({0} \cup {e.at : e \in {f \in EventsOf(s) :
                                                  f.kind = "failed" /\ f.at <= since}})

Mail(notices) ==
    /\ mailed' = mailed \cup notices
    /\ repeated' = repeated \cup (notices \cap mailed)
Notices(s, since, step) == IF Mailable THEN {<<s, FailureAt(s, since), step>>} ELSE {}

\* _start_dunning and _end_dunning.
Started(row, at) ==
    [row EXCEPT !.since = at, !.notified = IF Mailable THEN "payment_failed" ELSE @]
Undunned(row) == [row EXCEPT !.since = 0, !.notified = "none"]

\* A subscription paid for, whose row was past due before, is out of dunning;
\* one that is past due starts it, and any other state ends it.
EndsDunning_Paid(row, status) == status # "past_due"
EndsDunning(row, status) ==
    status \notin LiveStatuses \/ (status = "active" /\ row.status = "past_due")
Applied_Untimed(row, e) == [row EXCEPT !.status = e.status]
Applied(row, e) ==
    LET fresh == [row EXCEPT !.status = e.status, !.at = e.at]
    IN  IF e.status = "past_due" /\ row.since = 0 THEN Started(fresh, e.at)
        ELSE IF EndsDunning(row, e.status) THEN Undunned(fresh)
        ELSE fresh

\* Another live subscription of the user: a BillingError, rolled back and
\* answered 500.
Refused(e) ==
    /\ e.status \in LiveStatuses
    /\ \E t \in Subscriptions \ {e.sub} : sub[t].status \in LiveStatuses

\* The erased user's events are unmatched: recorded, and nothing else.
Unmatched(e) == account.state = "erased" /\ sub[e.sub].status = "none"

\* _apply_subscription.
ApplyState(e) ==
    /\ e.kind = "state"
    /\ IF IsStale(e) \/ Unmatched(e) THEN UNCHANGED <<sub, mailed, repeated>>
       ELSE /\ ~Refused(e)
            /\ sub' = [sub EXCEPT ![e.sub] = Applied(@, e)]
            /\ Mail(IF e.status = "past_due" /\ sub[e.sub].since = 0
                    THEN Notices(e.sub, e.at, "payment_failed") ELSE {})

\* _apply_payment_failed, which leaves the row's status and time alone.
ApplyFailed(e) ==
    /\ e.kind = "failed"
    /\ IF IsStale(e) \/ sub[e.sub].status \notin LiveStatuses \/ sub[e.sub].since # 0
       THEN UNCHANGED <<sub, mailed, repeated>>
       ELSE /\ sub' = [sub EXCEPT ![e.sub] = Started(@, e.at)]
            /\ Mail(Notices(e.sub, e.at, "payment_failed"))

Deliver(e) ==
    /\ e \in sent \ landed
    /\ ApplyState(e) \/ ApplyFailed(e)
    /\ landed' = landed \cup {e}
    /\ UNCHANGED <<moment, charge, sent, account>>

-----------------------------------------------------------------------------
(* The hourly billing job.                                                 *)

GraceEnds(s) == sub[s].since + GracePeriod
InDunning(s) == sub[s].since # 0 /\ sub[s].status \in LiveStatuses

Remindable_AnyStep(s) ==
    /\ InDunning(s) /\ GraceEnds(s) > moment /\ GraceEnds(s) <= moment + RemindBefore
Remindable(s) ==
    /\ InDunning(s) /\ GraceEnds(s) > moment /\ GraceEnds(s) <= moment + RemindBefore
    /\ sub[s].notified \in {"none", "payment_failed"}
Downgradable(s) ==
    /\ InDunning(s) /\ GraceEnds(s) <= moment
    /\ sub[s].notified # "downgraded"

\* run_dunning: claimed, and then sent, once; a crash in between loses them.
RunDunning ==
    LET step(s) == IF Remindable(s) THEN "grace_ending" ELSE "downgraded"
        due == {s \in Subscriptions : Remindable(s) \/ Downgradable(s)}
    IN  /\ due # {}
        /\ sub' = [s \in Subscriptions |->
                      IF s \in due THEN [sub[s] EXCEPT !.notified = step(s)] ELSE sub[s]]
        /\ Mail(UNION {Notices(s, sub[s].since, step(s)) : s \in due})
        /\ UNCHANGED <<moment, charge, sent, landed, account>>

\* cancel_for_deleted, at once after a deletion and then hourly.  Paddle's
\* answer, or the commit of what it says, may be lost.
CancelForDeleted_Live(s, committed) ==
    /\ account.state = "deleted" /\ sub[s].status \in LiveStatuses
    /\ IF charge[s] = "canceled" THEN UNCHANGED sent
       ELSE sent' = sent \cup {State(s, "canceled", moment + 1)}
    /\ charge' = [charge EXCEPT ![s] = "canceled"]
    /\ sub' = IF committed THEN [sub EXCEPT ![s] = [Undunned(@) EXCEPT !.status = "canceled"]]
              ELSE sub
    /\ UNCHANGED <<moment, landed, account, mailed, repeated>>
CancelForDeleted(s, committed) ==
    /\ account.state = "deleted" /\ sub[s].status \in BillableStatuses
    /\ IF charge[s] = "canceled" THEN UNCHANGED sent
       ELSE sent' = sent \cup {State(s, "canceled", moment + 1)}
    /\ charge' = [charge EXCEPT ![s] = "canceled"]
    /\ sub' = IF committed THEN [sub EXCEPT ![s] = [Undunned(@) EXCEPT !.status = "canceled"]]
              ELSE sub
    /\ UNCHANGED <<moment, landed, account, mailed, repeated>>

-----------------------------------------------------------------------------
(* The account.                                                            *)

DeleteAccount ==
    /\ "delete" \in OperatorDoes /\ account.state = "here"
    /\ account' = [state |-> "deleted", purgeAfter |-> moment + DeletionGrace]
    /\ UNCHANGED <<moment, charge, sent, landed, sub, mailed, repeated>>

\* restore_account takes the deletion's row, and so waits out a purge.
RestoreAccount ==
    /\ "restore" \in OperatorDoes /\ account.state = "deleted"
    /\ account' = [state |-> "here", purgeAfter |-> 0]
    /\ UNCHANGED <<moment, charge, sent, landed, sub, mailed, repeated>>

\* still_billing holds the purge back.
StillBilling_Live == \E s \in Subscriptions : sub[s].status \in LiveStatuses
StillBilling == \E s \in Subscriptions : sub[s].status \in BillableStatuses

\* purge_due: the read that picks the account, and the delete that cascades.
BeginPurge ==
    /\ account.state = "deleted" /\ account.purgeAfter <= moment /\ ~StillBilling
    /\ account' = [account EXCEPT !.state = "erasing"]
    /\ UNCHANGED <<moment, charge, sent, landed, sub, mailed, repeated>>
Erase ==
    /\ account.state = "erasing"
    /\ account' = [account EXCEPT !.state = "erased"]
    /\ sub' = [s \in Subscriptions |-> NoSubscription]
    /\ UNCHANGED <<moment, charge, sent, landed, mailed, repeated>>

BillingNext ==
    \/ Wait
    \/ \E s \in Subscriptions :
        \/ Checkout(s) \/ FailRenewal(s) \/ Recover(s)
        \/ Pause(s) \/ Resume(s) \/ Update(s) \/ EndInPaddle(s)
    \/ \E e \in sent : Deliver(e)
    \/ RunDunning
    \/ \E s \in Subscriptions, committed \in BOOLEAN : CancelForDeleted(s, committed)
    \/ DeleteAccount \/ RestoreAccount \/ BeginPurge \/ Erase

BillingSpec == BillingInit /\ [][BillingNext]_billingVars

\* Paddle delivers until it is answered, and the job runs every hour until Paddle
\* has been reached.
BillingFairness ==
    /\ WF_billingVars(\E e \in sent : Deliver(e))
    /\ \A s \in Subscriptions : WF_billingVars(CancelForDeleted(s, TRUE))

-----------------------------------------------------------------------------
(* Properties.                                                             *)

\* Each row mirrors its subscription in Paddle: it moves only to states Paddle
\* has published, none older than the last, but for a cancellation, which it
\* shows before the event.
Copy == INSTANCE Mirror WITH
    Things <- Subscriptions, Ended <- "canceled", Nothing <- "none",
    published <- {[of |-> e.sub, at |-> e.at, shown |-> e.status] :
                    e \in {f \in sent : f.kind = "state"}},
    shown <- [s \in Subscriptions |-> sub[s].status],
    version <- [s \in Subscriptions |-> sub[s].at]
MirrorsPaddle == Copy!Spec

HeardAll(s) == EventsOf(s) \subseteq landed

\* However its events were repeated and reordered, and whatever was cancelled
\* meanwhile, a subscription whose events have all been handled has the status
\* Paddle has it in, and an unpaid one is in dunning, so that its grace ends.
RowIsPaddles ==
    \A s \in Subscriptions :
        HeardAll(s) /\ sub[s].status # "none" =>
            /\ sub[s].status = charge[s]
            /\ charge[s] = "past_due" => sub[s].since # 0

\* A renewal that failed while a change that ends a dunning, a pause or a recovery,
\* may still have been on its way.
Crossed(s, failure) ==
    \E e \in EventsOf(s) :
        /\ e.kind = "state" /\ e.at < failure /\ failure < e.at + RetryFor
        /\ \/ e.status = "paused"
           \/ e.status = "active" /\ \E f \in EventsOf(s) : f.status = "past_due" /\ f.at < e.at

\* Each dunning email goes once per failed renewal, however often the failure is
\* heard of and the job runs, but for two: a subscription cancelled for a deletion
\* that was then undone may be told of its last failure again, and so may one
\* whose failure was heard of before the pause or the recovery it followed.
NoticeOnce ==
    \A notice \in repeated :
        charge[notice[1]] = "canceled" \/ Crossed(notice[1], notice[2])

\* A paid subscription is not in dunning: nobody who pays is taken off their plan.
PaidIsNotDunned ==
    \A s \in Subscriptions :
        HeardAll(s) /\ charge[s] = "active" => sub[s].since = 0

Charges == \E s \in Subscriptions : charge[s] \in BillableStatuses

\* No account is erased with a subscription that Paddle may still charge: its
\* row was the only record of what to cancel.
NoErasedPayer ==
    account.state = "erased" => ~Charges

\* Nobody who has deleted their account goes on being charged, a second
\* subscription refused until the first was cancelled included.
DeletedStopsPaying ==
    (account.state = "deleted" /\ Charges)
        ~> (account.state = "here" \/ ~Charges)
=============================================================================
