---------------------------- MODULE BillingProofs ----------------------------
(***************************************************************************)
(* Proofs about one user's subscriptions, for any number of them, any      *)
(* number, order and repetition of Paddle's events, and any length of the  *)
(* grace and of Paddle's retries.                                          *)
(***************************************************************************)
EXTENDS Billing, TLAPS, WellFoundedInduction, NaturalsInduction

-----------------------------------------------------------------------------
(* The inductive invariant: Paddle's events.                               *)

\* An event is of a moment that has come, but for a cancellation for a deletion;
\* the two of a failed renewal are one moment apart.
EventTimes ==
    /\ moment <= LastMoment + 1
    /\ \A e \in sent :
        /\ e.at >= 1
        /\ e.at <= moment \/ (e.status = "canceled" /\ e.at = moment + 1)
        /\ e.kind = "failed" => e.status = "past_due" /\ e.at + 1 <= moment
        /\ e \notin landed => moment <= e.at + RetryFor

\* No two events of a subscription are of one moment.
EventsApart == \A e \in sent, f \in sent : e.sub = f.sub /\ e.at = f.at => e = f

\* Paddle's subscription has the state its last event gave it, and none before
\* the first; nothing follows a cancellation.
LastEvent ==
    /\ \A e \in sent : charge[e.sub] # "none"
    /\ \A e \in sent : e.status = "canceled" => charge[e.sub] = "canceled"
    /\ \A s \in Subscriptions : charge[s] # "none" =>
        \E e \in EventsOf(s) :
            /\ e.kind = "state" /\ e.status = charge[s]
            /\ \A f \in EventsOf(s) : f.at <= e.at

\* A subscription is unpaid only after a renewal that failed since it was paid.
UnpaidFailed ==
    \A e \in sent, g \in sent :
        e.sub = g.sub /\ e.status = "past_due" /\ g.status # "past_due" /\ g.at < e.at =>
            \E f \in EventsOf(e.sub) : f.kind = "failed" /\ g.at < f.at /\ f.at <= e.at

EventsInv == BillingTypeOK /\ EventTimes /\ EventsApart /\ LastEvent /\ UnpaidFailed

-----------------------------------------------------------------------------
(* The rows.                                                               *)

\* A row is as the last event recorded gave it, or cancelled with Paddle's
\* subscription; there is none before the first event and after the erasure.
RowsInv ==
    \A s \in Subscriptions :
        /\ sub[s].status = "none" =>
            /\ sub[s] = NoSubscription
            /\ account.state = "erased" \/ \A e \in landed : e.sub = s => e.kind # "state"
        /\ account.state = "erased" => sub[s].status = "none"
        /\ sub[s].status # "none" =>
            \E e \in landed :
                /\ e.sub = s /\ e.kind = "state" /\ e.at = sub[s].at
                /\ sub[s].status = e.status \/ (sub[s].status = "canceled" /\ charge[s] = "canceled")
                /\ \A f \in landed : f.sub = s /\ f.kind = "state" => f.at <= e.at

\* Of its dunning.
DunningInv ==
    \A s \in Subscriptions :
        /\ sub[s].status = "past_due" => sub[s].since # 0
        /\ sub[s].since = 0 => sub[s].notified = "none"
        /\ sub[s].since <= moment

\* What is charged when the account is deleted will have been heard of in time.
PayersInv ==
    /\ account.state \in {"erasing", "erased"} => ~Charges
    /\ account.state = "deleted" =>
        \A s \in Subscriptions : charge[s] \in BillableStatuses =>
            \E e \in EventsOf(s) : e.kind = "state" /\ e.at + RetryFor < account.purgeAfter

-----------------------------------------------------------------------------
(* The emails.                                                             *)

Rank == [none |-> 0, payment_failed |-> 1, grace_ending |-> 2, downgraded |-> 3]

\* A mailed notice will not be mailed again: its failure is the one the row's dunning
\* is of, and the row says that it went, or every dunning to come is of a later one.
Told(s, failure, step) ==
    \/ charge[s] = "canceled" \/ account.state = "erased" \/ Crossed(s, failure)
    \/ /\ sub[s].since # 0
       /\ \/ failure < FailureAt(s, sub[s].since)
          \/ failure = FailureAt(s, sub[s].since) /\ Rank[step] <= Rank[sub[s].notified]
    \/ /\ sub[s].since = 0
       /\ \A e \in EventsOf(s) :
            e.status = "past_due" /\ e.at >= sub[s].at => failure < FailureAt(s, e.at)

\* It is of a renewal that failed, and of a row there is.
Placed(notice) ==
    /\ notice[2] = 0 \/ notice[2] < moment
    /\ account.state = "erased" \/ sub[notice[1]].status # "none"
    /\ Told(notice[1], notice[2], notice[3])

NoticesInv ==
    /\ mailed \subseteq Subscriptions \X Nat \X DunningSteps
    /\ \A notice \in mailed : Placed(notice)
    /\ NoticeOnce

-----------------------------------------------------------------------------
(* The renewal a dunning is of.                                            *)

LEMMA HasMax ==
    ASSUME NEW n \in Nat, NEW S \in SUBSET (0 .. n), S # {}
    PROVE  /\ Max(S) \in S
           /\ \A x \in S : x <= Max(S)
<1> DEFINE T == {n - x : x \in S}
<1>1. T \in SUBSET Nat /\ T # {}
  <2>1. \A x \in S : x \in Int /\ 0 <= x /\ x <= n
    OBVIOUS
  <2>2. \A x \in S : n - x \in Nat
    BY <2>1
  <2> QED  BY <2>2
<1>2. PICK y \in T : \A z \in T : <<z, y>> \notin OpToRel(<, Nat)
  <2>1. IsWellFoundedOn(OpToRel(<, Nat), Nat)
    BY NatLessThanWellFounded
  <2> HIDE DEF T
  <2> QED  BY <1>1, <2>1, WFMin
<1>3. \A z \in T : ~(z < y)
  BY <1>1, <1>2 DEF OpToRel
<1>4. PICK x \in S : y = n - x
  OBVIOUS
<1>5. \A z \in S : x >= z
  <2> SUFFICES ASSUME NEW z \in S PROVE x >= z
    OBVIOUS
  <2>1. n - z \in T
    OBVIOUS
  <2>2. ~(n - z < n - x)
    BY <1>3, <1>4, <2>1
  <2> QED  BY <2>2
<1> QED  BY <1>5 DEF Max

\* FailureAt is of the last failed renewal up to a moment, and 0 when there is none.
FailureFound(s, t) ==
    /\ FailureAt(s, t) \in 0 .. t
    /\ FailureAt(s, t) = 0
       \/ \E f \in EventsOf(s) : f.kind = "failed" /\ f.at = FailureAt(s, t)
    /\ \A f \in EventsOf(s) : f.kind = "failed" /\ f.at <= t => f.at <= FailureAt(s, t)

LEMMA FailureIs == BillingTypeOK => \A s \in Subscriptions, t \in Nat : FailureFound(s, t)
<1> SUFFICES ASSUME BillingTypeOK, NEW s \in Subscriptions, NEW t \in Nat PROVE FailureFound(s, t)
  OBVIOUS
<1> DEFINE failed == {f \in EventsOf(s) : f.kind = "failed" /\ f.at <= t}
           S == {0} \cup {e.at : e \in failed}
<1>1. \A e \in failed : e.at \in 0 .. t
  BY DEF BillingTypeOK, Events, EventsOf, Moments
<1>2. S \in SUBSET (0 .. t) /\ S # {}
  BY <1>1
<1>3. FailureAt(s, t) = Max(S)
  BY DEF FailureAt
<1> HIDE DEF S
<1>4. FailureAt(s, t) \in S /\ \A x \in S : x <= FailureAt(s, t)
  BY <1>2, <1>3, HasMax
<1> QED  BY <1>2, <1>4 DEF S, FailureFound

LEMMA FailureIsNext == (BillingTypeOK => \A s \in Subscriptions, t \in Nat : FailureFound(s, t))'
BY FailureIs, PTL

LEMMA SameFailure ==
    ASSUME NEW s, NEW t,
           \A e \in EventsOf(s)' : e \in EventsOf(s) \/ ~(e.kind = "failed" /\ e.at <= t),
           EventsOf(s) \subseteq EventsOf(s)'
    PROVE  FailureAt(s, t)' = FailureAt(s, t)
<1>1. {f \in EventsOf(s)' : f.kind = "failed" /\ f.at <= t}
        = {f \in EventsOf(s) : f.kind = "failed" /\ f.at <= t}
  OBVIOUS
<1> QED  BY <1>1 DEF FailureAt

-----------------------------------------------------------------------------
(* Paddle's events.                                                        *)

LEMMA EventsInit == BillingInit => EventsInv
<1> SUFFICES ASSUME BillingInit PROVE EventsInv
  OBVIOUS
<1>1. LastMoment \in Nat /\ 0 \in Nat /\ 0 \in Moments /\ NoSubscription \in SubscriptionRows
  BY BillingAssumption DEF BillingAssumption, Moments, NoSubscription, SubscriptionRows
<1>2. BillingTypeOK
  BY <1>1 DEF BillingInit, BillingTypeOK
<1> QED  BY <1>1, <1>2
         DEF BillingInit, EventsInv, EventTimes, EventsApart, LastEvent, UnpaidFailed, EventsOf

\* What a step may do with Paddle's events: none, one or two of a renewal that
\* failed, or the cancellation for a deletion.
Quiet == UNCHANGED <<moment, charge, sent, landed>>
Changes(s, status) ==
    /\ Pass(1) /\ UNCHANGED landed
    /\ charge[s] # "canceled" /\ (status = "past_due" => charge[s] = "past_due")
    /\ charge' = [charge EXCEPT ![s] = status]
    /\ sent' = sent \cup {State(s, status, moment + 1)}
Fails(s) ==
    /\ charge[s] = "active"
    /\ Pass(2) /\ UNCHANGED landed
    /\ charge' = [charge EXCEPT ![s] = "past_due"]
    /\ sent' = sent \cup {Failed(s, moment + 1), State(s, "past_due", moment + 2)}
Cancels(s) ==
    /\ account.state = "deleted" /\ sub[s].status \in BillableStatuses
    /\ IF charge[s] = "canceled" THEN UNCHANGED sent
       ELSE sent' = sent \cup {State(s, "canceled", moment + 1)}
    /\ charge' = [charge EXCEPT ![s] = "canceled"]
    /\ UNCHANGED <<moment, landed>>

LEMMA EventSteps ==
    ASSUME EventsInv, [BillingNext]_billingVars
    PROVE  \/ Quiet
           \/ Wait
           \/ \E s \in Subscriptions, status \in Statuses : Changes(s, status)
           \/ \E s \in Subscriptions : Fails(s) \/ Cancels(s)
           \/ \E e \in sent : Deliver(e)
<1>1. ASSUME NEW s \in Subscriptions, NEW status \in Statuses, Becomes(s, status),
             charge[s] # "canceled", status = "past_due" => charge[s] = "past_due"
      PROVE  Changes(s, status)
  BY <1>1 DEF Becomes, Changes, Pass
<1>2. ASSUME NEW s \in Subscriptions,
             Checkout(s) \/ FailRenewal(s) \/ Recover(s) \/ Pause(s) \/ Resume(s) \/ Update(s)
               \/ EndInPaddle(s)
      PROVE  Fails(s) \/ \E status \in Statuses : Changes(s, status)
  <2>1. CASE FailRenewal(s)
    BY <2>1 DEF FailRenewal, Fails
  <2>2. CASE ~FailRenewal(s)
    BY <1>1, <1>2, <2>2
    DEF Checkout, Recover, Pause, Resume, Update, EndInPaddle, Statuses, BillableStatuses,
        LiveStatuses
  <2> QED  BY <2>1, <2>2
<1>3. ASSUME NEW s \in Subscriptions, NEW committed \in BOOLEAN, CancelForDeleted(s, committed)
      PROVE  Cancels(s)
  BY <1>3 DEF CancelForDeleted, Cancels
<1>4. CASE RunDunning \/ DeleteAccount \/ RestoreAccount \/ BeginPurge \/ Erase
           \/ UNCHANGED billingVars
  BY <1>4 DEF RunDunning, DeleteAccount, RestoreAccount, BeginPurge, Erase, billingVars, Quiet
<1> QED  BY <1>2, <1>3, <1>4 DEF BillingNext

LEMMA EventTypes ==
    ASSUME EventsInv,
           \/ Quiet \/ Wait \/ \E s \in Subscriptions, status \in Statuses : Changes(s, status)
           \/ \E s \in Subscriptions : Fails(s) \/ Cancels(s)
           \/ \E e \in sent : Deliver(e)
    PROVE  /\ moment' \in Moments /\ moment' <= LastMoment + 1
           /\ charge' \in [Subscriptions -> Statuses \cup {"none"}]
           /\ sent' \subseteq Events /\ landed' \subseteq sent'
           /\ sent \subseteq sent' /\ landed \subseteq landed'
<1>1. moment \in Nat /\ LastMoment \in Nat /\ moment <= LastMoment + 1
  BY BillingAssumption DEF BillingAssumption, EventsInv, BillingTypeOK, EventTimes, Moments
<1>2. /\ charge \in [Subscriptions -> Statuses \cup {"none"}]
      /\ sent \subseteq Events /\ landed \subseteq sent
  BY DEF EventsInv, BillingTypeOK
<1>3. CASE Quiet \/ \E e \in sent : Deliver(e)
  BY <1>1, <1>2, <1>3 DEF Quiet, Deliver, EventsInv, BillingTypeOK
<1>4. CASE Wait
  BY <1>1, <1>2, <1>4 DEF Wait, Pass, Moments
<1>5. ASSUME NEW s \in Subscriptions, NEW status \in Statuses, Changes(s, status)
      PROVE  /\ moment' = moment + 1 /\ moment < LastMoment
             /\ charge' \in [Subscriptions -> Statuses \cup {"none"}]
             /\ sent' \subseteq Events /\ landed' = landed /\ sent \subseteq sent'
  <2>1. State(s, status, moment + 1) \in Events
    BY <1>1, <1>5 DEF Changes, Pass, Events, State, Moments
  <2> QED  BY <1>2, <1>5, <2>1 DEF Changes, Pass
<1>6. ASSUME NEW s \in Subscriptions, Fails(s)
      PROVE  /\ moment' = moment + 2 /\ moment < LastMoment
             /\ charge' \in [Subscriptions -> Statuses \cup {"none"}]
             /\ sent' \subseteq Events /\ landed' = landed /\ sent \subseteq sent'
  <2>1. moment + 1 \in Moments /\ moment + 2 \in Moments /\ "past_due" \in Statuses
    BY <1>1, <1>6 DEF Fails, Pass, Moments, Statuses, BillableStatuses, LiveStatuses
  <2>2. State(s, "past_due", moment + 2) \in Events /\ Failed(s, moment + 1) \in Events
    BY <2>1 DEF Events, State, Failed
  <2> QED  BY <1>2, <1>6, <2>1, <2>2 DEF Fails, Pass
<1>7. ASSUME NEW s \in Subscriptions, Cancels(s)
      PROVE  /\ moment' = moment
             /\ charge' \in [Subscriptions -> Statuses \cup {"none"}]
             /\ sent' \subseteq Events /\ landed' = landed /\ sent \subseteq sent'
  <2>1. moment + 1 \in Moments /\ "canceled" \in Statuses
    BY <1>1 DEF Moments, Statuses
  <2>2. State(s, "canceled", moment + 1) \in Events
    BY <2>1 DEF Events, State
  <2> QED  BY <1>2, <1>7, <2>1, <2>2 DEF Cancels
<1> QED  BY <1>1, <1>2, <1>3, <1>4, <1>5, <1>6, <1>7 DEF Moments

\* An account's row, and a subscription's, keep their shape.
LEMMA RowTypes ==
    ASSUME EventsInv, [BillingNext]_billingVars
    PROVE  /\ sub' \in [Subscriptions -> SubscriptionRows]
           /\ account' \in [state : {"here", "deleted", "erasing", "erased"}, purgeAfter : Nat]
           /\ repeated' \subseteq mailed'
<1>1. moment \in Nat /\ DeletionGrace \in Nat /\ LastMoment \in Nat /\ 0 \in Moments
  BY BillingAssumption DEF BillingAssumption, EventsInv, BillingTypeOK, Moments
<1>2. /\ sub \in [Subscriptions -> SubscriptionRows]
      /\ account \in [state : {"here", "deleted", "erasing", "erased"}, purgeAfter : Nat]
      /\ repeated \subseteq mailed
  BY DEF EventsInv, BillingTypeOK
<1>3. /\ NoSubscription \in SubscriptionRows /\ "canceled" \in Statuses
      /\ \A row \in SubscriptionRows : Undunned(row) \in SubscriptionRows
      /\ \A row \in SubscriptionRows, at \in Moments : Started(row, at) \in SubscriptionRows
  BY <1>1 DEF SubscriptionRows, NoSubscription, Undunned, Started, DunningSteps, Statuses
<1>4. ASSUME NEW e \in sent, Deliver(e)
      PROVE  /\ sub' \in [Subscriptions -> SubscriptionRows]
             /\ repeated' \subseteq mailed' /\ account' = account
  <2>1. e.sub \in Subscriptions /\ e.at \in Moments /\ e.status \in Statuses
    BY DEF EventsInv, BillingTypeOK, Events
  <2>2. Applied(sub[e.sub], e) \in SubscriptionRows
    <3>1. sub[e.sub] \in SubscriptionRows
      BY <1>2, <2>1
    <3>2. [sub[e.sub] EXCEPT !.status = e.status, !.at = e.at] \in SubscriptionRows
      BY <2>1, <3>1 DEF SubscriptionRows
    <3> QED  BY <1>3, <2>1, <3>2 DEF Applied
  <2>3. Started(sub[e.sub], e.at) \in SubscriptionRows
    BY <1>2, <1>3, <2>1
  <2> QED  BY <1>2, <1>4, <2>1, <2>2, <2>3 DEF Deliver, ApplyState, ApplyFailed, Mail
<1>5. CASE RunDunning
  <2>1. ASSUME NEW s \in Subscriptions, NEW step \in DunningSteps
        PROVE  [sub[s] EXCEPT !.notified = step] \in SubscriptionRows
    BY <1>2, <2>1 DEF SubscriptionRows
  <2> QED  BY <1>2, <1>5, <2>1 DEF RunDunning, Mail, DunningSteps
<1>6. ASSUME NEW s \in Subscriptions, NEW committed \in BOOLEAN, CancelForDeleted(s, committed)
      PROVE  sub' \in [Subscriptions -> SubscriptionRows]
  <2>1. Undunned(sub[s]) \in SubscriptionRows
    BY <1>2, <1>3
  <2>2. [Undunned(sub[s]) EXCEPT !.status = "canceled"] \in SubscriptionRows
    BY <1>3, <2>1 DEF SubscriptionRows
  <2> QED  BY <1>2, <1>6, <2>2 DEF CancelForDeleted
<1>7. CASE DeleteAccount \/ RestoreAccount \/ BeginPurge \/ Erase
  <2>1. moment + DeletionGrace \in Nat /\ 0 \in Nat
    BY <1>1
  <2> QED  BY <1>2, <1>3, <1>7, <2>1 DEF DeleteAccount, RestoreAccount, BeginPurge, Erase
<1>8. CASE UNCHANGED billingVars \/ Wait
           \/ \E s \in Subscriptions : \/ Checkout(s) \/ FailRenewal(s) \/ Recover(s)
                                       \/ Pause(s) \/ Resume(s) \/ Update(s) \/ EndInPaddle(s)
  BY <1>2, <1>8
  DEF billingVars, Wait, Checkout, FailRenewal, Recover, Pause, Resume, Update, EndInPaddle,
      Becomes
<1>9. ASSUME NEW s \in Subscriptions, NEW committed \in BOOLEAN, CancelForDeleted(s, committed)
      PROVE  account' = account /\ mailed' = mailed /\ repeated' = repeated
  BY <1>9 DEF CancelForDeleted
<1> QED  BY <1>2, <1>4, <1>5, <1>6, <1>7, <1>8, <1>9
         DEF BillingNext, RunDunning, DeleteAccount, RestoreAccount, BeginPurge, Erase

\* What is sent of another subscription stays as it was, and of this one is added to.
LEMMA ChangesHold ==
    ASSUME EventsInv, NEW s \in Subscriptions, NEW status \in Statuses, Changes(s, status)
    PROVE  EventTimes' /\ EventsApart' /\ LastEvent' /\ UnpaidFailed'
<1> DEFINE new == State(s, status, moment + 1)
<1>1. /\ moment \in Nat /\ LastMoment \in Nat /\ RetryFor \in Nat \ {0}
      /\ moment < LastMoment /\ moment' = moment + 1
      /\ \A e \in sent : e.at \in Nat /\ e.sub \in Subscriptions
      /\ \A e \in sent \ landed : moment' - e.at <= RetryFor
  BY BillingAssumption
  DEF BillingAssumption, EventsInv, BillingTypeOK, Events, Moments, Changes, Pass
<1>2. /\ new.sub = s /\ new.kind = "state" /\ new.status = status /\ new.at = moment + 1
      /\ sent' = sent \cup {new} /\ landed' = landed
      /\ charge[s] # "canceled" /\ (status = "past_due" => charge[s] = "past_due")
      /\ \A t \in Subscriptions : charge'[t] = IF t = s THEN status ELSE charge[t]
      /\ status # "none"
  BY DEF Changes, State, EventsInv, BillingTypeOK, Statuses, BillableStatuses, LiveStatuses
<1>3. \A e \in EventsOf(s) : e.at <= moment /\ e.status # "canceled"
  BY <1>2 DEF EventsInv, EventTimes, LastEvent, EventsOf
<1> HIDE DEF new
<1>4. EventTimes'
  BY <1>1, <1>2, <1>3 DEF EventsInv, EventTimes, EventsOf
<1>5. EventsApart'
  BY <1>1, <1>2, <1>3 DEF EventsInv, EventsApart, EventsOf
<1>6. \A t \in Subscriptions : EventsOf(t)' = IF t = s THEN EventsOf(t) \cup {new} ELSE EventsOf(t)
  BY <1>2 DEF EventsOf
<1>7. LastEvent'
  <2>1. \A e \in sent' : charge'[e.sub] # "none"
    BY <1>1, <1>2 DEF EventsInv, LastEvent
  <2>2. \A e \in sent' : e.status = "canceled" => charge'[e.sub] = "canceled"
    BY <1>1, <1>2 DEF EventsInv, LastEvent
  <2>3. ASSUME NEW t \in Subscriptions, charge'[t] # "none"
        PROVE  \E e \in EventsOf(t)' : /\ e.kind = "state" /\ e.status = charge'[t]
                                       /\ \A f \in EventsOf(t)' : f.at <= e.at
    <3>1. CASE t = s
      <4>1. \A f \in EventsOf(t)' : f.at <= new.at
        BY <1>1, <1>2, <1>3, <1>6, <3>1 DEF EventsOf
      <4> QED  BY <1>2, <1>6, <3>1, <4>1
    <3>2. CASE t # s
      BY <1>2, <1>6, <2>3, <3>2 DEF EventsInv, LastEvent
    <3> QED  BY <3>1, <3>2
  <2> QED  BY <2>1, <2>2, <2>3 DEF LastEvent
<1>8. UnpaidFailed'
  <2> SUFFICES ASSUME NEW e \in sent', NEW g \in sent', e.sub = g.sub, e.status = "past_due",
                      g.status # "past_due", g.at < e.at
               PROVE  \E f \in EventsOf(e.sub)' : f.kind = "failed" /\ g.at < f.at /\ f.at <= e.at
    BY DEF UnpaidFailed
  <2>1. CASE e \in sent /\ g \in sent
    BY <1>1, <1>6, <2>1 DEF EventsInv, UnpaidFailed
  <2>2. CASE e = new
    <3>1. charge[s] = "past_due" /\ g \in EventsOf(s)
      BY <1>1, <1>2, <2>2 DEF EventsOf
    <3>2. PICK h \in EventsOf(s) : h.kind = "state" /\ h.status = "past_due" /\ g.at <= h.at
      BY <3>1 DEF EventsInv, LastEvent
    <3>3. g.at # h.at
      BY <3>1, <3>2 DEF EventsInv, EventsApart, EventsOf
    <3>4. PICK f \in EventsOf(s) : f.kind = "failed" /\ g.at < f.at /\ f.at <= h.at
      BY <1>1, <3>1, <3>2, <3>3 DEF EventsInv, UnpaidFailed, EventsOf
    <3> QED  BY <1>1, <1>2, <1>3, <1>6, <2>2, <3>2, <3>4 DEF EventsOf
  <2>3. CASE e # new /\ g = new
    BY <1>1, <1>2, <1>3, <2>3 DEF EventsOf
  <2> QED  BY <1>2, <2>1, <2>2, <2>3
<1> QED  BY <1>4, <1>5, <1>7, <1>8

LEMMA FailsHold ==
    ASSUME EventsInv, NEW s \in Subscriptions, Fails(s)
    PROVE  EventTimes' /\ EventsApart' /\ LastEvent' /\ UnpaidFailed'
<1> DEFINE first == Failed(s, moment + 1)
           then == State(s, "past_due", moment + 2)
<1>1. /\ moment \in Nat /\ LastMoment \in Nat /\ RetryFor \in Nat \ {0}
      /\ moment < LastMoment /\ moment' = moment + 2
      /\ \A e \in sent : e.at \in Nat /\ e.sub \in Subscriptions
      /\ \A e \in sent \ landed : moment' - e.at <= RetryFor
  BY BillingAssumption
  DEF BillingAssumption, EventsInv, BillingTypeOK, Events, Moments, Fails, Pass
<1>2. /\ first.sub = s /\ first.kind = "failed" /\ first.status = "past_due"
      /\ first.at = moment + 1
      /\ then.sub = s /\ then.kind = "state" /\ then.status = "past_due" /\ then.at = moment + 2
      /\ sent' = sent \cup {first, then} /\ landed' = landed /\ charge[s] = "active"
      /\ \A t \in Subscriptions : charge'[t] = IF t = s THEN "past_due" ELSE charge[t]
  BY DEF Fails, State, Failed, EventsInv, BillingTypeOK
<1>3. \A e \in EventsOf(s) : e.at <= moment /\ e.status # "canceled"
  BY <1>2 DEF EventsInv, EventTimes, LastEvent, EventsOf
<1> HIDE DEF first, then
<1>4. EventTimes'
  BY <1>1, <1>2, <1>3 DEF EventsInv, EventTimes, EventsOf
<1>5. EventsApart'
  BY <1>1, <1>2, <1>3 DEF EventsInv, EventsApart, EventsOf
<1>6. \A t \in Subscriptions :
        EventsOf(t)' = IF t = s THEN EventsOf(t) \cup {first, then} ELSE EventsOf(t)
  BY <1>2 DEF EventsOf
<1>7. LastEvent'
  <2>1. \A e \in sent' : charge'[e.sub] # "none"
    BY <1>1, <1>2 DEF EventsInv, LastEvent
  <2>2. \A e \in sent' : e.status = "canceled" => charge'[e.sub] = "canceled"
    BY <1>1, <1>2 DEF EventsInv, LastEvent
  <2>3. ASSUME NEW t \in Subscriptions, charge'[t] # "none"
        PROVE  \E e \in EventsOf(t)' : /\ e.kind = "state" /\ e.status = charge'[t]
                                       /\ \A f \in EventsOf(t)' : f.at <= e.at
    <3>1. CASE t = s
      <4>1. \A f \in EventsOf(t)' : f.at <= then.at
        BY <1>1, <1>2, <1>3, <1>6, <3>1 DEF EventsOf
      <4> QED  BY <1>2, <1>6, <3>1, <4>1
    <3>2. CASE t # s
      BY <1>2, <1>6, <2>3, <3>2 DEF EventsInv, LastEvent
    <3> QED  BY <3>1, <3>2
  <2> QED  BY <2>1, <2>2, <2>3 DEF LastEvent
<1>8. UnpaidFailed'
  <2> SUFFICES ASSUME NEW e \in sent', NEW g \in sent', e.sub = g.sub, e.status = "past_due",
                      g.status # "past_due", g.at < e.at
               PROVE  \E f \in EventsOf(e.sub)' : f.kind = "failed" /\ g.at < f.at /\ f.at <= e.at
    BY DEF UnpaidFailed
  <2>1. CASE e \in sent
    BY <1>1, <1>2, <1>6, <2>1 DEF EventsInv, UnpaidFailed
  <2>2. CASE e \in {first, then}
    <3>1. g \in EventsOf(s)
      BY <1>2, <2>2 DEF EventsOf
    <3>2. g.at <= moment /\ first \in EventsOf(s)'
      BY <1>3, <1>6, <3>1
    <3> QED  BY <1>1, <1>2, <2>2, <3>1, <3>2 DEF EventsOf
  <2> QED  BY <1>2, <2>1, <2>2
<1> QED  BY <1>4, <1>5, <1>7, <1>8

LEMMA CancelsHold ==
    ASSUME EventsInv, NEW s \in Subscriptions, Cancels(s), charge[s] # "none"
    PROVE  EventTimes' /\ EventsApart' /\ LastEvent' /\ UnpaidFailed'
<1> DEFINE new == State(s, "canceled", moment + 1)
<1>1. /\ moment \in Nat /\ LastMoment \in Nat /\ RetryFor \in Nat \ {0} /\ moment' = moment
      /\ \A e \in sent : e.at \in Nat /\ e.sub \in Subscriptions
      /\ landed' = landed
      /\ charge \in [Subscriptions -> Statuses \cup {"none"}]
  BY BillingAssumption DEF BillingAssumption, EventsInv, BillingTypeOK, Events, Moments, Cancels
<1>2. CASE charge[s] = "canceled"
  <2>1. sent' = sent /\ charge' = charge
    BY <1>1, <1>2 DEF Cancels
  <2> QED  BY <1>1, <2>1
           DEF EventsInv, EventTimes, EventsApart, LastEvent, UnpaidFailed, EventsOf
<1>3. CASE charge[s] # "canceled"
  <2>1. /\ new.sub = s /\ new.kind = "state" /\ new.status = "canceled" /\ new.at = moment + 1
        /\ sent' = sent \cup {new}
        /\ \A t \in Subscriptions : charge'[t] = IF t = s THEN "canceled" ELSE charge[t]
    BY <1>1, <1>3 DEF Cancels, State
  <2>2. \A e \in EventsOf(s) : e.at <= moment /\ e.status # "canceled"
    BY <1>3 DEF EventsInv, EventTimes, LastEvent, EventsOf
  <2> HIDE DEF new
  <2>3. EventTimes'
    BY <1>1, <2>1, <2>2 DEF EventsInv, EventTimes, EventsOf
  <2>4. EventsApart'
    BY <1>1, <2>1, <2>2 DEF EventsInv, EventsApart, EventsOf
  <2>5. \A t \in Subscriptions :
          EventsOf(t)' = IF t = s THEN EventsOf(t) \cup {new} ELSE EventsOf(t)
    BY <2>1 DEF EventsOf
  <2>6. LastEvent'
    <3>1. \A e \in sent' : /\ charge'[e.sub] # "none"
                           /\ e.status = "canceled" => charge'[e.sub] = "canceled"
      BY <1>1, <2>1 DEF EventsInv, LastEvent
    <3>2. ASSUME NEW t \in Subscriptions, charge'[t] # "none"
          PROVE  \E e \in EventsOf(t)' : /\ e.kind = "state" /\ e.status = charge'[t]
                                         /\ \A f \in EventsOf(t)' : f.at <= e.at
      <4>1. CASE t = s
        <5>1. \A f \in EventsOf(t)' : f.at <= new.at
          BY <1>1, <2>1, <2>2, <2>5, <4>1 DEF EventsOf
        <5> QED  BY <2>1, <2>5, <4>1, <5>1
      <4>2. CASE t # s
        BY <2>1, <2>5, <3>2, <4>2 DEF EventsInv, LastEvent
      <4> QED  BY <4>1, <4>2
    <3> QED  BY <3>1, <3>2 DEF LastEvent
  <2>7. UnpaidFailed'
    BY <1>1, <2>1, <2>2, <2>5 DEF EventsInv, UnpaidFailed, EventsOf
  <2> QED  BY <2>3, <2>4, <2>6, <2>7
<1> QED  BY <1>2, <1>3

LEMMA DeliverEventsHold ==
    ASSUME EventsInv, landed \subseteq landed', UNCHANGED <<moment, charge, sent>>
    PROVE  EventTimes' /\ EventsApart' /\ LastEvent' /\ UnpaidFailed'
BY DEF EventsInv, EventTimes, EventsApart, LastEvent, UnpaidFailed, EventsOf

LEMMA WaitEventsHold ==
    ASSUME EventsInv, Wait
    PROVE  EventTimes' /\ EventsApart' /\ LastEvent' /\ UnpaidFailed'
<1>1. /\ moment \in Nat /\ LastMoment \in Nat /\ RetryFor \in Nat
      /\ moment < LastMoment /\ moment' = moment + 1
      /\ \A e \in sent : e.at \in Nat
      /\ \A e \in sent \ landed : moment' - e.at <= RetryFor
      /\ UNCHANGED <<charge, sent, landed>>
  BY BillingAssumption
  DEF BillingAssumption, EventsInv, BillingTypeOK, Events, Moments, Wait, Pass
<1>2. ASSUME NEW e \in sent PROVE e.status = "canceled" \/ e.at <= moment
  BY DEF EventsInv, EventTimes
<1>3. EventTimes'
  BY <1>1, <1>2 DEF EventsInv, EventTimes
<1> QED  BY <1>1, <1>3 DEF EventsInv, EventsApart, LastEvent, UnpaidFailed, EventsOf

-----------------------------------------------------------------------------
(* The rows.                                                               *)

\* What there is to charge has been heard of, so that a row's charge is known.
LEMMA RowHasCharge ==
    ASSUME EventsInv, RowsInv, NEW s \in Subscriptions, sub[s].status # "none"
    PROVE  charge[s] # "none"
<1>1. PICK e \in landed : e.sub = s
  BY DEF RowsInv
<1>2. e \in sent
  BY DEF EventsInv, BillingTypeOK
<1> QED  BY <1>1, <1>2 DEF EventsInv, LastEvent

LEMMA EventsHold ==
    ASSUME EventsInv, RowsInv, [BillingNext]_billingVars
    PROVE  EventsInv'
<1>1. EventTimes' /\ EventsApart' /\ LastEvent' /\ UnpaidFailed'
  <2>1. ASSUME NEW s \in Subscriptions, Cancels(s)
        PROVE  EventTimes' /\ EventsApart' /\ LastEvent' /\ UnpaidFailed'
    <3>1. sub[s].status # "none"
      BY <2>1 DEF Cancels, BillableStatuses, LiveStatuses
    <3> QED  BY <2>1, <3>1, RowHasCharge, CancelsHold
  <2>2. ASSUME NEW e \in sent, Deliver(e)
        PROVE  EventTimes' /\ EventsApart' /\ LastEvent' /\ UnpaidFailed'
    BY <2>2, DeliverEventsHold DEF Deliver
  <2>3. CASE Quiet
    BY <2>3, DeliverEventsHold DEF Quiet
  <2> QED  BY <2>1, <2>2, <2>3, EventSteps, ChangesHold, FailsHold, WaitEventsHold
<1>2. BillingTypeOK'
  BY EventSteps, EventTypes, RowTypes DEF BillingTypeOK
<1> QED  BY <1>1, <1>2 DEF EventsInv

\* A step that handles no event and touches no row.
LEMMA RowsKept ==
    ASSUME EventsInv, RowsInv, DunningInv, UNCHANGED <<sub, landed>>,
           moment \in Nat, moment' \in Nat, moment <= moment',
           account'.state = "erased" <=> account.state = "erased",
           \A s \in Subscriptions : charge[s] = "canceled" => charge'[s] = "canceled"
    PROVE  RowsInv' /\ DunningInv'
<1>1. RowsInv'
  <2>1. ASSUME NEW s \in Subscriptions, sub[s].status # "none"
        PROVE  \E d \in landed :
                  /\ d.sub = s /\ d.kind = "state" /\ d.at = sub[s].at
                  /\ sub[s].status = d.status
                     \/ (sub[s].status = "canceled" /\ charge'[s] = "canceled")
                  /\ \A f \in landed : f.sub = s /\ f.kind = "state" => f.at <= d.at
    <3>1. PICK d \in landed :
                  /\ d.sub = s /\ d.kind = "state" /\ d.at = sub[s].at
                  /\ sub[s].status = d.status
                     \/ (sub[s].status = "canceled" /\ charge[s] = "canceled")
                  /\ \A f \in landed : f.sub = s /\ f.kind = "state" => f.at <= d.at
      BY <2>1 DEF RowsInv
    <3> QED  BY <3>1
  <2>2. ASSUME NEW s \in Subscriptions, sub[s].status = "none"
        PROVE  /\ sub[s] = NoSubscription
               /\ account'.state = "erased" \/ \A e \in landed : e.sub = s => e.kind # "state"
    BY <2>2 DEF RowsInv
  <2> QED  BY <2>1, <2>2 DEF RowsInv
<1>2. \A s \in Subscriptions : sub[s].since \in Nat
  BY DEF EventsInv, BillingTypeOK, SubscriptionRows, Moments
<1>3. DunningInv'
  BY <1>2 DEF DunningInv
<1> QED  BY <1>1, <1>3

LEMMA ApplyStateHolds ==
    ASSUME EventsInv, RowsInv, DunningInv, NEW e \in sent, Deliver(e), ApplyState(e)
    PROVE  RowsInv' /\ DunningInv'
<1> DEFINE s == e.sub
<1>1. /\ s \in Subscriptions /\ e \notin landed /\ landed' = landed \cup {e}
      /\ UNCHANGED <<moment, charge, sent, account>>
      /\ e.kind = "state" /\ e.status \in Statuses /\ e.at \in Nat \ {0}
      /\ sub[s] \in SubscriptionRows /\ sub[s].at \in Nat /\ sub[s].since \in Nat
      /\ sub \in [Subscriptions -> SubscriptionRows] /\ moment \in Nat
      /\ \A f \in landed : f.at \in Nat
  BY DEF Deliver, ApplyState, EventsInv, EventTimes, BillingTypeOK, Events, SubscriptionRows,
         Moments
<1>2. \A t \in Subscriptions : t # s => sub'[t] = sub[t]
  BY <1>1 DEF ApplyState
<1>3. CASE IsStale(e) \/ Unmatched(e)
  <2>1. sub' = sub
    BY <1>3 DEF ApplyState
  <2>2. ASSUME NEW t \in Subscriptions, sub[t].status = "none", account.state # "erased"
        PROVE  t # s
    BY <1>3, <2>2 DEF IsStale, Unmatched
  <2>3. ASSUME sub[s].status # "none" PROVE e.at < sub[s].at
    BY <1>3, <2>3 DEF IsStale, Unmatched
  <2>4. RowsInv'
    <3>1. ASSUME NEW t \in Subscriptions, sub[t].status # "none"
          PROVE  \E d \in landed' :
                    /\ d.sub = t /\ d.kind = "state" /\ d.at = sub[t].at
                    /\ sub[t].status = d.status
                       \/ (sub[t].status = "canceled" /\ charge[t] = "canceled")
                    /\ \A f \in landed' : f.sub = t /\ f.kind = "state" => f.at <= d.at
      <4>1. PICK d \in landed :
                    /\ d.sub = t /\ d.kind = "state" /\ d.at = sub[t].at
                    /\ sub[t].status = d.status
                       \/ (sub[t].status = "canceled" /\ charge[t] = "canceled")
                    /\ \A f \in landed : f.sub = t /\ f.kind = "state" => f.at <= d.at
        BY <3>1 DEF RowsInv
      <4>2. t = s => e.at <= d.at
        BY <1>1, <2>3, <3>1, <4>1
      <4> QED  BY <1>1, <4>1, <4>2
    <3> QED  BY <1>1, <2>1, <2>2, <3>1 DEF RowsInv
  <2> QED  BY <1>1, <2>1, <2>4 DEF DunningInv
<1>4. CASE ~(IsStale(e) \/ Unmatched(e))
  <2>1. sub'[s] = Applied(sub[s], e)
    BY <1>1, <1>4 DEF ApplyState
  <2>2. /\ sub'[s].status = e.status /\ sub'[s].at = e.at
        /\ sub'[s].since \in {0, sub[s].since} \/ (e.status = "past_due" /\ sub'[s].since = e.at)
        /\ e.status = "past_due" => sub'[s].since # 0
        /\ sub'[s].since = 0 => sub'[s].notified = "none"
    BY <1>1, <2>1 DEF Applied, Started, Undunned, EndsDunning, SubscriptionRows, LiveStatuses,
                      DunningInv
  <2>3. \A f \in landed : f.sub = s /\ f.kind = "state" => f.at <= e.at
    <3>1. sub[s].status = "none" => sub[s].at = 0 /\ account.state # "erased"
      BY <1>1, <1>4 DEF Unmatched, RowsInv, NoSubscription
    <3>2. sub[s].status # "none" => sub[s].at <= e.at
      BY <1>1, <1>4 DEF IsStale
    <3>3. CASE sub[s].status = "none"
      BY <1>1, <3>1, <3>3 DEF RowsInv
    <3>4. CASE sub[s].status # "none"
      BY <1>1, <3>2, <3>4 DEF RowsInv
    <3> QED  BY <3>3, <3>4
  <2>4. e.status = "past_due" => e.at <= moment
    BY <1>1 DEF EventsInv, EventTimes
  <2>5. account.state # "erased"
    BY <1>1, <1>4 DEF Unmatched, RowsInv
  <2>6. e.status # "none"
    BY <1>1 DEF Statuses, BillableStatuses, LiveStatuses
  <2>7. RowsInv'
    <3>1. ASSUME NEW t \in Subscriptions, t # s
          PROVE  /\ sub'[t].status = "none" =>
                      /\ sub'[t] = NoSubscription
                      /\ account'.state = "erased"
                         \/ \A f \in landed' : f.sub = t => f.kind # "state"
                 /\ sub'[t].status # "none" =>
                      \E d \in landed' :
                        /\ d.sub = t /\ d.kind = "state" /\ d.at = sub'[t].at
                        /\ sub'[t].status = d.status
                           \/ (sub'[t].status = "canceled" /\ charge'[t] = "canceled")
                        /\ \A f \in landed' : f.sub = t /\ f.kind = "state" => f.at <= d.at
      BY <1>1, <1>2, <3>1 DEF RowsInv
    <3>2. \E d \in landed' :
            /\ d.sub = s /\ d.kind = "state" /\ d.at = sub'[s].at /\ sub'[s].status = d.status
            /\ \A f \in landed' : f.sub = s /\ f.kind = "state" => f.at <= d.at
      BY <1>1, <2>2, <2>3
    <3> QED  BY <1>1, <2>2, <2>5, <2>6, <3>1, <3>2 DEF RowsInv
  <2>8. DunningInv'
    BY <1>1, <1>2, <2>2, <2>4 DEF DunningInv
  <2> QED  BY <2>7, <2>8
<1> QED  BY <1>3, <1>4

LEMMA ApplyFailedHolds ==
    ASSUME EventsInv, RowsInv, DunningInv, NEW e \in sent, Deliver(e), ApplyFailed(e)
    PROVE  RowsInv' /\ DunningInv'
<1> DEFINE s == e.sub
<1>1. /\ s \in Subscriptions /\ landed' = landed \cup {e} /\ e.kind = "failed"
      /\ UNCHANGED <<moment, charge, sent, account>>
      /\ e.at \in Nat \ {0} /\ e.at <= moment
      /\ sub \in [Subscriptions -> SubscriptionRows] /\ sub[s] \in SubscriptionRows
  BY DEF Deliver, ApplyFailed, EventsInv, EventTimes, BillingTypeOK, Events, Moments
<1>2. \A t \in Subscriptions :
        /\ sub'[t].status = sub[t].status /\ sub'[t].at = sub[t].at
        /\ sub'[t] = sub[t] \/ (sub[t].status \in LiveStatuses /\ sub'[t].since = e.at)
  <2>1. CASE UNCHANGED sub
    BY <2>1
  <2>2. CASE ~UNCHANGED sub
    <3>1. sub' = [sub EXCEPT ![s] = Started(@, e.at)] /\ sub[s].status \in LiveStatuses
      BY <2>2 DEF ApplyFailed
    <3>2. /\ Started(sub[s], e.at).status = sub[s].status
          /\ Started(sub[s], e.at).at = sub[s].at /\ Started(sub[s], e.at).since = e.at
      BY <1>1 DEF Started, SubscriptionRows
    <3> QED  BY <1>1, <3>1, <3>2
  <2> QED  BY <2>1, <2>2
<1>3. RowsInv'
  BY <1>1, <1>2 DEF RowsInv, LiveStatuses
<1>4. DunningInv'
  BY <1>1, <1>2 DEF DunningInv
<1> QED  BY <1>3, <1>4

LEMMA RunDunningHolds ==
    ASSUME EventsInv, RowsInv, DunningInv, RunDunning
    PROVE  RowsInv' /\ DunningInv'
<1>1. \A t \in Subscriptions :
        /\ sub'[t].status = sub[t].status /\ sub'[t].at = sub[t].at
        /\ sub'[t].since = sub[t].since
        /\ sub'[t] = sub[t] \/ (sub[t].status \in LiveStatuses /\ sub[t].since # 0)
  BY DEF RunDunning, Remindable, Downgradable, InDunning, EventsInv, BillingTypeOK,
         SubscriptionRows
<1>2. UNCHANGED <<moment, charge, landed, account>>
  BY DEF RunDunning
<1>3. RowsInv'
  BY <1>1, <1>2 DEF RowsInv, LiveStatuses
<1> QED  BY <1>1, <1>2, <1>3 DEF DunningInv

LEMMA CancelHolds ==
    ASSUME EventsInv, RowsInv, DunningInv,
           NEW s \in Subscriptions, NEW committed \in BOOLEAN, CancelForDeleted(s, committed)
    PROVE  RowsInv' /\ DunningInv'
<1>1. /\ \A t \in Subscriptions : charge'[t] = IF t = s THEN "canceled" ELSE charge[t]
      /\ \A t \in Subscriptions : t # s => sub'[t] = sub[t]
      /\ sub[s].status # "none" /\ UNCHANGED <<moment, landed, account>>
      /\ moment \in Nat /\ account.state # "erased"
  BY DEF CancelForDeleted, EventsInv, BillingTypeOK, BillableStatuses, LiveStatuses, Moments
<1>2. \/ sub'[s] = sub[s]
      \/ /\ sub'[s].status = "canceled" /\ sub'[s].at = sub[s].at /\ sub'[s].since = 0
         /\ sub'[s].notified = "none"
  BY DEF CancelForDeleted, Undunned, EventsInv, BillingTypeOK, SubscriptionRows
<1>3. RowsInv'
  <2>1. ASSUME NEW t \in Subscriptions, t # s
        PROVE  /\ sub'[t].status = "none" =>
                    /\ sub'[t] = NoSubscription
                    /\ account'.state = "erased"
                       \/ \A f \in landed' : f.sub = t => f.kind # "state"
               /\ sub'[t].status # "none" =>
                    \E d \in landed' :
                      /\ d.sub = t /\ d.kind = "state" /\ d.at = sub'[t].at
                      /\ sub'[t].status = d.status
                         \/ (sub'[t].status = "canceled" /\ charge'[t] = "canceled")
                      /\ \A f \in landed' : f.sub = t /\ f.kind = "state" => f.at <= d.at
    BY <1>1, <2>1 DEF RowsInv
  <2>2. \E d \in landed' :
          /\ d.sub = s /\ d.kind = "state" /\ d.at = sub'[s].at
          /\ sub'[s].status = d.status \/ (sub'[s].status = "canceled" /\ charge'[s] = "canceled")
          /\ \A f \in landed' : f.sub = s /\ f.kind = "state" => f.at <= d.at
    BY <1>1, <1>2 DEF RowsInv
  <2> QED  BY <1>1, <1>2, <2>1, <2>2 DEF RowsInv
<1>4. DunningInv'
  BY <1>1, <1>2 DEF DunningInv
<1> QED  BY <1>3, <1>4

LEMMA EraseHolds ==
    ASSUME EventsInv, RowsInv, DunningInv, Erase
    PROVE  RowsInv' /\ DunningInv'
<1>1. \A s \in Subscriptions : sub'[s] = NoSubscription
  BY DEF Erase
<1>2. account'.state = "erased" /\ moment' = moment /\ moment \in Nat
  BY DEF Erase, EventsInv, BillingTypeOK, Moments
<1> QED  BY <1>1, <1>2 DEF RowsInv, DunningInv, NoSubscription

LEMMA RowsHold ==
    ASSUME EventsInv, EventsInv', RowsInv, DunningInv, [BillingNext]_billingVars
    PROVE  RowsInv' /\ DunningInv'
<1>1. moment \in Nat /\ moment' \in Nat
  BY DEF EventsInv, BillingTypeOK, Moments
<1>2. ASSUME NEW s \in Subscriptions,
             Checkout(s) \/ FailRenewal(s) \/ Recover(s) \/ Pause(s) \/ Resume(s) \/ Update(s)
               \/ EndInPaddle(s)
      PROVE  /\ UNCHANGED <<sub, landed, account>> /\ moment <= moment'
             /\ \A t \in Subscriptions : charge[t] = "canceled" => charge'[t] = "canceled"
  <2>1. UNCHANGED <<sub, landed, account>> /\ (moment' = moment + 1 \/ moment' = moment + 2)
    BY <1>2 DEF Checkout, FailRenewal, Recover, Pause, Resume, Update, EndInPaddle, Becomes, Pass
  <2>2. charge[s] # "canceled"
    BY <1>2 DEF Checkout, FailRenewal, Recover, Pause, Resume, Update, EndInPaddle,
                LiveStatuses, BillableStatuses
  <2>3. \A t \in Subscriptions : t # s => charge'[t] = charge[t]
    BY <1>2 DEF Checkout, FailRenewal, Recover, Pause, Resume, Update, EndInPaddle, Becomes,
                EventsInv, BillingTypeOK
  <2> QED  BY <1>1, <2>1, <2>2, <2>3
<1>3. CASE UNCHANGED billingVars \/ Wait \/ DeleteAccount \/ RestoreAccount \/ BeginPurge
  <2>1. /\ UNCHANGED <<sub, landed, charge>> /\ (moment' = moment + 1 \/ moment' = moment)
        /\ account'.state = "erased" <=> account.state = "erased"
    BY <1>3 DEF billingVars, Wait, Pass, DeleteAccount, RestoreAccount, BeginPurge, EventsInv,
                BillingTypeOK
  <2> QED  BY <1>1, <2>1, RowsKept
<1>4. ASSUME NEW e \in sent, Deliver(e) PROVE RowsInv' /\ DunningInv'
  BY <1>4, ApplyStateHolds, ApplyFailedHolds DEF Deliver
<1>5. ASSUME NEW s \in Subscriptions,
             Checkout(s) \/ FailRenewal(s) \/ Recover(s) \/ Pause(s) \/ Resume(s) \/ Update(s)
               \/ EndInPaddle(s)
      PROVE  RowsInv' /\ DunningInv'
  BY <1>1, <1>2, <1>5, RowsKept
<1> QED  BY <1>3, <1>4, <1>5, RunDunningHolds, CancelHolds, EraseHolds DEF BillingNext

BillingInv == EventsInv /\ RowsInv /\ DunningInv

LEMMA BillingHolds == BillingSpec => []BillingInv
<1>1. BillingInit => BillingInv
  <2> SUFFICES ASSUME BillingInit PROVE BillingInv
    OBVIOUS
  <2>1. 0 \in Nat /\ \A s \in Subscriptions : sub[s] = NoSubscription
    BY DEF BillingInit
  <2>2. RowsInv /\ DunningInv
    BY <2>1 DEF BillingInit, RowsInv, DunningInv, NoSubscription
  <2> QED  BY <2>2, EventsInit DEF BillingInv
<1>2. BillingInv /\ [BillingNext]_billingVars => BillingInv'
  BY EventsHold, RowsHold DEF BillingInv
<1> QED  BY <1>1, <1>2, PTL DEF BillingSpec

\* Every row, event and history keeps its type, whatever is delivered.
THEOREM BillingTypeCorrect == BillingSpec => []BillingTypeOK
<1>1. BillingInv => BillingTypeOK
  BY DEF BillingInv, EventsInv
<1> QED  BY <1>1, BillingHolds, PTL

\* A subscription whose events have all been handled has the status Paddle has it
\* in, and an unpaid one is in dunning: the row is as the last event recorded gave
\* it, and that is the last there is.
THEOREM RowFollowsPaddle == BillingSpec => []RowIsPaddles
<1>1. BillingInv => RowIsPaddles
  <2> SUFFICES ASSUME BillingInv, NEW s \in Subscriptions, HeardAll(s), sub[s].status # "none"
               PROVE  /\ sub[s].status = charge[s]
                      /\ charge[s] = "past_due" => sub[s].since # 0
    BY DEF RowIsPaddles
  <2>1. PICK e \in landed :
            /\ e.sub = s /\ e.kind = "state" /\ e.at = sub[s].at
            /\ sub[s].status = e.status \/ (sub[s].status = "canceled" /\ charge[s] = "canceled")
            /\ \A f \in landed : f.sub = s /\ f.kind = "state" => f.at <= e.at
    BY DEF BillingInv, RowsInv
  <2>2. PICK last \in EventsOf(s) :
            /\ last.kind = "state" /\ last.status = charge[s]
            /\ \A f \in EventsOf(s) : f.at <= last.at
    BY RowHasCharge DEF BillingInv, EventsInv, LastEvent
  <2>3. e \in EventsOf(s) /\ last \in landed /\ last.sub = s /\ e.at \in Nat /\ last.at \in Nat
    BY <2>1 DEF HeardAll, EventsOf, BillingInv, EventsInv, BillingTypeOK, Events, Moments
  <2>4. e = last
    BY <2>1, <2>2, <2>3 DEF BillingInv, EventsInv, EventsApart, EventsOf
  <2> QED  BY <2>1, <2>2, <2>4 DEF BillingInv, DunningInv
<1> QED  BY <1>1, BillingHolds, PTL

-----------------------------------------------------------------------------
(* Nobody is erased who still pays.                                        *)

\* A subscription's charge comes to be one of Paddle's only through its own changes.
LEMMA ChargeSteps ==
    ASSUME EventsInv, [BillingNext]_billingVars, NEW s \in Subscriptions,
           charge'[s] \in BillableStatuses, charge[s] \notin BillableStatuses
    PROVE  Checkout(s)
<1>1. ASSUME NEW t \in Subscriptions, NEW status \in Statuses, Becomes(t, status)
      PROVE  charge'[s] = IF s = t THEN status ELSE charge[s]
  BY <1>1 DEF Becomes, EventsInv, BillingTypeOK
<1>2. ASSUME NEW t \in Subscriptions,
             FailRenewal(t) \/ Recover(t) \/ Pause(t) \/ Resume(t) \/ Update(t) \/ EndInPaddle(t)
      PROVE  FALSE
  <2>1. charge[t] \in BillableStatuses
    BY <1>2 DEF FailRenewal, Recover, Pause, Resume, Update, EndInPaddle, BillableStatuses,
                LiveStatuses
  <2>2. \A u \in Subscriptions : u # t => charge'[u] = charge[u]
    BY <1>2 DEF FailRenewal, Recover, Pause, Resume, Update, EndInPaddle, Becomes, EventsInv,
                BillingTypeOK
  <2> QED  BY <2>1, <2>2
<1>3. ASSUME NEW t \in Subscriptions, Checkout(t) PROVE s = t
  BY <1>3 DEF Checkout, Becomes, EventsInv, BillingTypeOK
<1>4. ASSUME NEW t \in Subscriptions, NEW committed \in BOOLEAN, CancelForDeleted(t, committed)
      PROVE  FALSE
  <2>1. charge'[s] = IF s = t THEN "canceled" ELSE charge[s]
    BY <1>4 DEF CancelForDeleted, EventsInv, BillingTypeOK
  <2> QED  BY <2>1 DEF BillableStatuses, LiveStatuses
<1> QED  BY <1>2, <1>3, <1>4
         DEF BillingNext, billingVars, Wait, Deliver, RunDunning, DeleteAccount, RestoreAccount,
             BeginPurge, Erase

\* What is erased: a live row holds it back, and one that is not has been cancelled.
LEMMA PurgedPaysNothing ==
    ASSUME BillingInv, PayersInv, BeginPurge
    PROVE  ~Charges
<1> SUFFICES ASSUME NEW s \in Subscriptions, charge[s] \in BillableStatuses PROVE FALSE
  BY DEF Charges
<1>1. /\ moment \in Nat /\ RetryFor \in Nat /\ account.purgeAfter \in Nat
      /\ account.state = "deleted" /\ account.purgeAfter <= moment
      /\ sub[s].status \notin BillableStatuses
  BY BillingAssumption DEF BillingAssumption, BillingInv, EventsInv, BillingTypeOK, Moments,
                           BeginPurge, StillBilling
<1>2. PICK e \in EventsOf(s) : e.kind = "state" /\ e.at + RetryFor < account.purgeAfter
  BY <1>1 DEF PayersInv
<1>3. e \in landed /\ e.sub = s
  <2>1. e \in sent /\ e.at \in Nat /\ e.sub = s
    BY DEF EventsOf, BillingInv, EventsInv, BillingTypeOK, Events, Moments
  <2>2. e \notin landed => moment <= e.at + RetryFor
    BY <2>1 DEF BillingInv, EventsInv, EventTimes
  <2> QED  BY <1>1, <1>2, <2>1, <2>2
<1>4. sub[s].status # "none"
  BY <1>1, <1>2, <1>3 DEF BillingInv, RowsInv
<1>5. sub[s].status = "canceled"
  BY <1>1, <1>4 DEF BillingInv, EventsInv, BillingTypeOK, SubscriptionRows, Statuses
<1>6. charge[s] = "canceled"
  <2>1. PICK d \in landed : d.sub = s /\ (sub[s].status = d.status \/ charge[s] = "canceled")
    BY <1>4 DEF BillingInv, RowsInv
  <2>2. d \in sent
    BY DEF BillingInv, EventsInv, BillingTypeOK
  <2> QED  BY <1>5, <2>1, <2>2 DEF BillingInv, EventsInv, LastEvent
<1> QED  BY <1>6 DEF BillableStatuses, LiveStatuses

LEMMA PayersHold ==
    ASSUME BillingInv, BillingInv', PayersInv, [BillingNext]_billingVars
    PROVE  PayersInv'
<1>1. ASSUME account'.state \in {"erasing", "erased"} PROVE ~Charges'
  <2>1. \A s \in Subscriptions : ~Checkout(s)
    BY <1>1 DEF Checkout, Becomes
  <2>2. ~Charges
    <3>1. account.state \in {"erasing", "erased"} \/ BeginPurge
      BY <1>1 DEF BillingNext, billingVars, Wait, Checkout, FailRenewal, Recover, Pause, Resume,
                  Update, EndInPaddle, Becomes, Deliver, RunDunning, CancelForDeleted,
                  DeleteAccount, RestoreAccount, BeginPurge, Erase
    <3> QED  BY <3>1, PurgedPaysNothing DEF PayersInv
  <2> QED  BY <2>1, <2>2, ChargeSteps DEF Charges, BillingInv
<1>2. ASSUME account'.state = "deleted", NEW s \in Subscriptions,
             charge'[s] \in BillableStatuses
      PROVE  \E e \in EventsOf(s)' : e.kind = "state" /\ e.at + RetryFor < account'.purgeAfter
  <2>1. EventsOf(s) \subseteq EventsOf(s)'
    BY EventSteps, EventTypes DEF EventsOf, BillingInv
  <2>2. /\ moment \in Nat /\ RetryFor \in Nat /\ DeletionGrace \in Nat /\ RetryFor < DeletionGrace
        /\ \A e \in EventsOf(s) : e.at \in Nat
    BY BillingAssumption DEF BillingAssumption, BillingInv, EventsInv, BillingTypeOK, Moments,
                             Events, EventsOf
  <2>3. CASE DeleteAccount
    <3>1. /\ charge[s] \in BillableStatuses
          /\ account'.purgeAfter = moment + DeletionGrace
      BY <1>2, <2>3 DEF DeleteAccount
    <3>2. PICK e \in EventsOf(s) : e.kind = "state" /\ e.status = charge[s]
      BY <3>1 DEF BillingInv, EventsInv, LastEvent, BillableStatuses, LiveStatuses
    <3>3. e.at <= moment
      BY <3>1, <3>2 DEF BillingInv, EventsInv, EventTimes, EventsOf, BillableStatuses, LiveStatuses
    <3> QED  BY <2>1, <2>2, <3>1, <3>2, <3>3
  <2>4. CASE Checkout(s)
    <3>1. /\ moment' = moment + 1 /\ account' = account
          /\ sent' = sent \cup {State(s, "active", moment + 1)}
      BY <2>4 DEF Checkout, Becomes, Pass
    <3>2. moment + 1 + RetryFor < account.purgeAfter
      BY <1>2, <2>4, <3>1 DEF Checkout
    <3>3. /\ State(s, "active", moment + 1) \in EventsOf(s)'
          /\ State(s, "active", moment + 1).kind = "state"
          /\ State(s, "active", moment + 1).at = moment + 1
      BY <3>1 DEF EventsOf, State
    <3> QED  BY <3>1, <3>2, <3>3
  <2>5. CASE ~DeleteAccount /\ ~Checkout(s)
    <3>1. account' = account
      <4>1. account \in [state : {"here", "deleted", "erasing", "erased"}, purgeAfter : Nat]
        BY DEF BillingInv, EventsInv, BillingTypeOK
      <4>2. ~RestoreAccount /\ ~BeginPurge /\ ~Erase
        BY <1>2, <4>1 DEF RestoreAccount, BeginPurge, Erase
      <4> QED  BY <2>5, <4>2
               DEF BillingNext, billingVars, Wait, Checkout, FailRenewal, Recover, Pause, Resume,
                   Update, EndInPaddle, Becomes, Deliver, RunDunning, CancelForDeleted
    <3>2. charge[s] \in BillableStatuses
      BY <1>2, <2>5, ChargeSteps DEF BillingInv
    <3> QED  BY <1>2, <2>1, <3>1, <3>2 DEF PayersInv
  <2> QED  BY <2>3, <2>4, <2>5
<1> QED  BY <1>1, <1>2 DEF PayersInv

\* No account is erased with a subscription that Paddle may still charge: what was
\* paid for when it was deleted has been heard of by then, and its row, unless it
\* was cancelled in Paddle, holds the purge back.
THEOREM NoPayerErased == BillingSpec => []NoErasedPayer
<1>1. BillingInit => PayersInv
  BY DEF BillingInit, PayersInv
<1>2. PayersInv => NoErasedPayer
  BY DEF PayersInv, NoErasedPayer
<1>3. BillingInv /\ BillingInv' /\ PayersInv /\ [BillingNext]_billingVars => PayersInv'
  BY PayersHold
<1> QED  BY <1>1, <1>2, <1>3, BillingHolds, PTL DEF BillingSpec

-----------------------------------------------------------------------------
(* The emails.                                                             *)

LEMMA CrossedStays ==
    ASSUME NEW s, NEW failure, sent \subseteq sent', Crossed(s, failure)
    PROVE  Crossed(s, failure)'
<1>1. EventsOf(s) \subseteq EventsOf(s)'
  BY DEF EventsOf
<1> QED  BY <1>1 DEF Crossed

\* Told is of a subscription's row, its events, its charge and the account's state.
LEMMA ToldStays ==
    ASSUME NEW s, NEW failure, NEW step, Told(s, failure, step),
           UNCHANGED <<sent, account>>, sub'[s] = sub[s],
           charge[s] = "canceled" => charge'[s] = "canceled"
    PROVE  Told(s, failure, step)'
<1>1. EventsOf(s)' = EventsOf(s) /\ \A t : FailureAt(s, t)' = FailureAt(s, t)
  BY DEF EventsOf, FailureAt
<1> QED  BY <1>1 DEF Told, Crossed

\* What Paddle sends is of moments to come, and of a subscription that is not unpaid
\* already only with the failure.
LEMMA NewEvents ==
    ASSUME EventsInv, [BillingNext]_billingVars, NEW s \in Subscriptions,
           NEW e \in EventsOf(s)', e \notin EventsOf(s)
    PROVE  /\ e.at \in Nat /\ moment < e.at
           /\ e.status = "past_due" /\ charge[s] # "past_due" =>
                \E f \in EventsOf(s)' : f.kind = "failed" /\ moment < f.at /\ f.at <= e.at
<1>1. moment \in Nat
  BY DEF EventsInv, BillingTypeOK, Moments
<1>2. ~Quiet /\ ~Wait /\ ~\E d \in sent : Deliver(d)
  BY DEF Quiet, Wait, Deliver, EventsOf
<1>3. ASSUME NEW t \in Subscriptions, NEW status \in Statuses, Changes(t, status)
      PROVE  /\ e.at = moment + 1 /\ (e.status = "past_due" => charge[s] = "past_due")
  BY <1>3 DEF Changes, State, EventsOf
<1>4. ASSUME NEW t \in Subscriptions, Cancels(t)
      PROVE  e.at = moment + 1 /\ e.status = "canceled"
  BY <1>4 DEF Cancels, State, EventsOf
<1>5. ASSUME NEW t \in Subscriptions, Fails(t)
      PROVE  /\ e.at = moment + 1 \/ e.at = moment + 2
             /\ \E f \in EventsOf(s)' : f.kind = "failed" /\ f.at = moment + 1
  <2>1. e = Failed(t, moment + 1) \/ e = State(t, "past_due", moment + 2)
    BY <1>5 DEF Fails, EventsOf
  <2>2. s = t
    BY <2>1 DEF Failed, State, EventsOf
  <2>3. Failed(t, moment + 1) \in EventsOf(s)'
    BY <1>5, <2>2 DEF Fails, Failed, EventsOf
  <2> QED  BY <2>1, <2>3 DEF Failed, State
<1> QED  BY <1>1, <1>2, <1>3, <1>4, <1>5, EventSteps

\* What Paddle sends makes no notice due again.
LEMMA ToldOutlives ==
    ASSUME BillingInv, BillingInv', [BillingNext]_billingVars,
           NEW s \in Subscriptions, NEW failure \in Nat, NEW step,
           Told(s, failure, step), failure <= moment,
           account.state = "erased" \/ sub[s].status # "none",
           sub'[s] = sub[s], account'.state = "erased" <=> account.state = "erased",
           charge[s] = "canceled" => charge'[s] = "canceled"
    PROVE  Told(s, failure, step)'
<1>1. /\ moment \in Nat /\ sub[s].since \in Nat /\ sub[s].at \in Nat
      /\ sub[s].since <= moment /\ BillingTypeOK /\ BillingTypeOK'
  BY DEF BillingInv, EventsInv, BillingTypeOK, SubscriptionRows, Moments, DunningInv
<1>2. /\ sent \subseteq sent' /\ EventsOf(s) \subseteq EventsOf(s)'
      /\ \A e \in EventsOf(s)' : e \in EventsOf(s) \/ moment < e.at
  BY EventSteps, EventTypes, NewEvents DEF BillingInv, EventsOf
<1>3. ASSUME NEW t \in Nat, t <= moment PROVE FailureAt(s, t)' = FailureAt(s, t)
  <2>1. \A e \in EventsOf(s)' : e \in EventsOf(s) \/ ~(e.kind = "failed" /\ e.at <= t)
    BY <1>1, <1>2, <1>3 DEF EventsOf, BillingTypeOK, Events, Moments
  <2> QED  BY <1>2, <2>1, SameFailure
<1>4. CASE charge[s] = "canceled" \/ account.state = "erased" \/ Crossed(s, failure)
  BY <1>2, <1>4, CrossedStays DEF Told
<1>5. CASE /\ sub[s].since # 0
           /\ \/ failure < FailureAt(s, sub[s].since)
              \/ failure = FailureAt(s, sub[s].since) /\ Rank[step] <= Rank[sub[s].notified]
  BY <1>1, <1>3, <1>5 DEF Told
<1>6. CASE /\ sub[s].since = 0 /\ account.state # "erased"
           /\ \A e \in EventsOf(s) :
                e.status = "past_due" /\ e.at >= sub[s].at => failure < FailureAt(s, e.at)
  <2> SUFFICES ASSUME NEW e \in EventsOf(s)', e.status = "past_due", e.at >= sub[s].at
               PROVE  failure < FailureAt(s, e.at)'
    BY <1>6 DEF Told
  <2>1. e.at \in Nat
    BY DEF EventsOf, BillingInv, EventsInv, BillingTypeOK, Events, Moments
  <2>2. /\ FailureAt(s, e.at)' \in Nat
        /\ \A f \in EventsOf(s)' : f.kind = "failed" /\ f.at <= e.at => f.at <= FailureAt(s, e.at)'
    BY <1>1, <2>1, FailureIsNext DEF FailureFound
  <2>3. \A f \in EventsOf(s)' : f.at \in Nat
    BY DEF EventsOf, BillingInv, EventsInv, BillingTypeOK, Events, Moments
  <2>4. CASE e \in EventsOf(s)
    <3>1. e.at <= moment
      BY <2>4 DEF EventsOf, BillingInv, EventsInv, EventTimes
    <3> QED  BY <1>3, <1>6, <2>1, <2>4, <3>1
  <2>5. CASE e \notin EventsOf(s) /\ charge[s] # "past_due"
    <3>1. PICK f \in EventsOf(s)' : f.kind = "failed" /\ moment < f.at /\ f.at <= e.at
      BY <2>5, NewEvents DEF BillingInv
    <3> QED  BY <1>1, <2>2, <2>3, <3>1
  <2>6. CASE e \notin EventsOf(s) /\ charge[s] = "past_due"
    <3>1. PICK last \in EventsOf(s) : last.status = "past_due" /\ \A f \in EventsOf(s) : f.at <= last.at
      BY <2>6 DEF BillingInv, EventsInv, LastEvent
    <3>2. last.at \in Nat /\ last.at <= moment
      BY <3>1 DEF EventsOf, BillingInv, EventsInv, BillingTypeOK, EventTimes, Events, Moments
    <3>3. sub[s].at <= last.at
      <4>1. PICK d \in landed : d.sub = s /\ d.at = sub[s].at
        BY <1>6 DEF BillingInv, RowsInv
      <4>2. d \in EventsOf(s)
        BY <1>1, <4>1 DEF BillingTypeOK, EventsOf
      <4> QED  BY <3>1, <4>1, <4>2
    <3>4. failure < FailureAt(s, last.at)
      BY <1>1, <1>6, <3>1, <3>2, <3>3
    <3>5. PICK f \in EventsOf(s) : f.kind = "failed" /\ f.at = FailureAt(s, last.at) /\ f.at <= last.at
      BY <1>1, <3>2, <3>4, FailureIs DEF FailureFound
    <3>6. moment < e.at
      BY <1>2, <2>6
    <3> QED  BY <1>1, <1>2, <2>1, <2>2, <2>3, <3>2, <3>4, <3>5, <3>6
  <2> QED  BY <2>4, <2>5, <2>6
<1> QED  BY <1>4, <1>5, <1>6 DEF Told

\* The mailing of notices that are placed, none of them a repetition but those allowed.
LEMMA MailHolds ==
    ASSUME NoticesInv, NEW notices, Mail(notices), sent \subseteq sent',
           \A s \in Subscriptions : charge[s] = "canceled" => charge'[s] = "canceled",
           \A notice \in mailed : Placed(notice)',
           \A notice \in notices :
                /\ notice \in Subscriptions \X Nat \X DunningSteps /\ Placed(notice)'
                /\ notice \in mailed =>
                     charge[notice[1]] = "canceled" \/ Crossed(notice[1], notice[2]),
           repeated \subseteq mailed
    PROVE  NoticesInv'
<1>1. mailed' = mailed \cup notices /\ repeated' = repeated \cup (notices \cap mailed)
  BY DEF Mail
<1>2. ASSUME NEW notice \in repeated'
      PROVE  charge'[notice[1]] = "canceled" \/ Crossed(notice[1], notice[2])'
  <2>1. notice[1] \in Subscriptions
    BY <1>1, <1>2 DEF NoticesInv
  <2>2. charge[notice[1]] = "canceled" \/ Crossed(notice[1], notice[2])
    BY <1>1, <1>2 DEF NoticesInv, NoticeOnce
  <2> QED  BY <2>1, <2>2, CrossedStays
<1>3. mailed' \subseteq Subscriptions \X Nat \X DunningSteps /\ \A notice \in mailed' : Placed(notice)'
  BY <1>1 DEF NoticesInv
<1> QED  BY <1>2, <1>3 DEF NoticesInv, NoticeOnce

\* A dunning that starts.
LEMMA StartHolds ==
    ASSUME BillingInv, BillingInv', NoticesInv, NEW e \in sent,
           UNCHANGED <<moment, charge, sent, account>>,
           e.status = "past_due", sub[e.sub].since = 0, sub[e.sub].at <= e.at,
           \A t \in Subscriptions \ {e.sub} : sub'[t] = sub[t],
           sub'[e.sub].status # "none", sub'[e.sub].since = e.at,
           Mailable => sub'[e.sub].notified = "payment_failed",
           Mail(Notices(e.sub, e.at, "payment_failed"))
    PROVE  NoticesInv'
<1> DEFINE s == e.sub
<1>1. /\ s \in Subscriptions /\ e.at \in Nat /\ e.at # 0 /\ BillingTypeOK
      /\ moment \in Nat /\ e \in EventsOf(s)
  BY DEF BillingInv, EventsInv, BillingTypeOK, EventTimes, Events, Moments, EventsOf
<1>2. PICK F \in Nat : F = FailureAt(s, e.at) /\ (F = 0 \/ F < moment)
  <2>1. FailureFound(s, e.at)
    BY <1>1, FailureIs
  <2>2. \A f \in EventsOf(s) : f.kind = "failed" => f.at \in Nat /\ f.at + 1 <= moment
    BY DEF BillingInv, EventsInv, BillingTypeOK, EventTimes, Events, Moments, EventsOf
  <2> QED  BY <1>1, <2>1, <2>2 DEF FailureFound
<1>3. EventsOf(s)' = EventsOf(s) /\ \A t : FailureAt(s, t)' = FailureAt(s, t)
  BY DEF EventsOf, FailureAt
<1>4. ASSUME NEW notice \in mailed, notice[1] = s
      PROVE  \/ charge[s] = "canceled" \/ account.state = "erased" \/ Crossed(s, notice[2])
             \/ notice[2] < F
  BY <1>1, <1>2, <1>4 DEF NoticesInv, Placed, Told
<1>5. ASSUME NEW notice \in mailed PROVE Placed(notice)'
  <2>1. notice[1] \in Subscriptions
    BY DEF NoticesInv
  <2>2. CASE notice[1] # s
    BY <2>1, <2>2, ToldStays DEF NoticesInv, Placed
  <2>3. CASE notice[1] = s
    <3>1. \/ charge'[s] = "canceled" \/ account'.state = "erased" \/ Crossed(s, notice[2])'
          \/ notice[2] < FailureAt(s, sub[s].since)'
      BY <1>2, <1>3, <1>4, <2>3 DEF Crossed
    <3>2. sub'[s].since # 0
      BY <1>1
    <3>3. Told(s, notice[2], notice[3])'
      BY <3>1, <3>2 DEF Told
    <3> QED  BY <2>3, <3>3 DEF NoticesInv, Placed
  <2> QED  BY <2>2, <2>3
<1>6. ASSUME NEW notice \in Notices(s, e.at, "payment_failed")
      PROVE  /\ notice \in Subscriptions \X Nat \X DunningSteps /\ Placed(notice)'
             /\ notice \in mailed => charge[notice[1]] = "canceled" \/ Crossed(notice[1], notice[2])
  <2>1. Mailable /\ notice = <<s, F, "payment_failed">>
    BY <1>2, <1>6 DEF Notices
  <2>2. Told(s, F, "payment_failed")'
    BY <1>1, <1>2, <1>3, <2>1 DEF Told, Rank
  <2>3. Placed(notice)'
    BY <1>2, <2>1, <2>2 DEF Placed
  <2>4. account.state # "erased"
    BY <2>1 DEF Mailable
  <2>5. "payment_failed" \in DunningSteps
    BY DEF DunningSteps
  <2> QED  BY <1>1, <1>2, <1>4, <2>1, <2>3, <2>4, <2>5
<1> QED  BY <1>5, <1>6, MailHolds DEF BillingInv, EventsInv, BillingTypeOK

\* A dunning that ends: a failure the change comes after is past, and one it comes
\* before crossed it.
LEMMA EndHolds ==
    ASSUME BillingInv, NEW e \in sent \ landed, e.kind = "state", EndsDunning(sub[e.sub], e.status),
           e.status # "past_due", sub[e.sub].status # "none", sub[e.sub].at <= e.at,
           NEW failure \in Nat, failure = 0 \/ failure < moment
    PROVE  \/ charge[e.sub] = "canceled" \/ Crossed(e.sub, failure)
           \/ \A g \in EventsOf(e.sub) :
                g.status = "past_due" /\ g.at >= e.at => failure < FailureAt(e.sub, g.at)
<1> DEFINE s == e.sub
<1>1. /\ s \in Subscriptions /\ e.at \in Nat /\ e.at # 0 /\ e \in EventsOf(s) /\ BillingTypeOK
      /\ RetryFor \in Nat /\ moment \in Nat /\ moment <= e.at + RetryFor
      /\ e.status \in Statuses
      /\ \A g \in EventsOf(s) : g.at \in Nat /\ g \in sent /\ g.sub = s
  BY BillingAssumption
  DEF BillingAssumption, BillingInv, EventsInv, BillingTypeOK, EventTimes, Events, Moments,
      EventsOf
<1>2. CASE failure <= e.at
  <2> SUFFICES ASSUME NEW g \in EventsOf(s), g.status = "past_due", g.at >= e.at
               PROVE  failure < FailureAt(s, g.at)
    OBVIOUS
  <2>1. e.at < g.at
    BY <1>1 DEF BillingInv, EventsInv, EventsApart
  <2>2. PICK f \in EventsOf(s) : f.kind = "failed" /\ e.at < f.at /\ f.at <= g.at
    BY <1>1, <2>1 DEF BillingInv, EventsInv, UnpaidFailed
  <2>3. FailureFound(s, g.at)
    BY <1>1, FailureIs
  <2> QED  BY <1>1, <1>2, <2>2, <2>3 DEF FailureFound
<1>3. CASE e.at < failure /\ charge[s] # "canceled"
  <2>1. failure < e.at + RetryFor
    BY <1>1, <1>3
  <2>2. e.status \in {"paused", "active"}
    BY <1>1, <1>3 DEF BillingInv, EventsInv, LastEvent, Statuses, BillableStatuses, LiveStatuses
  <2>3. ASSUME e.status = "active"
        PROVE  \E f \in EventsOf(s) : f.status = "past_due" /\ f.at < e.at
    <3>1. sub[s].status = "past_due"
      BY <2>3 DEF EndsDunning, LiveStatuses
    <3>2. PICK d \in landed : /\ d.sub = s /\ d.kind = "state" /\ d.at = sub[s].at
                              /\ sub[s].status = d.status
      BY <1>1, <3>1 DEF BillingInv, RowsInv
    <3>3. d \in EventsOf(s) /\ d.status = "past_due" /\ d.at <= e.at
      BY <1>1, <3>1, <3>2 DEF EventsOf, BillingTypeOK
    <3>4. d.at # e.at
      BY <1>1, <3>2, <3>3 DEF BillingInv, EventsInv, EventsApart
    <3> QED  BY <1>1, <3>3, <3>4
  <2> QED  BY <1>1, <1>3, <2>1, <2>2, <2>3 DEF Crossed
<1> QED  BY <1>1, <1>2, <1>3

\* A row with dunning that goes on, or none that goes on being none.
LEMMA SameDunning ==
    ASSUME BillingInv, NEW s \in Subscriptions, NEW failure, NEW step,
           Told(s, failure, step), UNCHANGED <<charge, sent, account>>,
           sub'[s].since = sub[s].since, sub'[s].notified = sub[s].notified,
           sub[s].at <= sub'[s].at, sub'[s].at \in Nat
    PROVE  Told(s, failure, step)'
<1>1. EventsOf(s)' = EventsOf(s) /\ \A t : FailureAt(s, t)' = FailureAt(s, t)
  BY DEF EventsOf, FailureAt
<1>2. sub[s].at \in Nat /\ \A e \in EventsOf(s) : e.at \in Nat
  BY DEF BillingInv, EventsInv, BillingTypeOK, SubscriptionRows, Events, EventsOf, Moments
<1>3. \A e \in EventsOf(s) : e.at >= sub'[s].at => e.at >= sub[s].at
  BY <1>2
<1> QED  BY <1>1, <1>3 DEF Told, Crossed

LEMMA StateNotices ==
    ASSUME BillingInv, BillingInv', NoticesInv, NEW e \in sent, Deliver(e), ApplyState(e),
           ~(IsStale(e) \/ Unmatched(e))
    PROVE  NoticesInv'
<1> DEFINE s == e.sub
<1>1. /\ s \in Subscriptions /\ e \notin landed /\ e.kind = "state"
      /\ UNCHANGED <<moment, charge, sent, account>>
      /\ e.status \in Statuses /\ e.at \in Nat \ {0} /\ moment \in Nat
      /\ sub[s] \in SubscriptionRows /\ sub[s].at \in Nat /\ repeated \subseteq mailed
  BY DEF Deliver, ApplyState, BillingInv, EventsInv, EventTimes, BillingTypeOK, Events,
         SubscriptionRows, Moments
<1>2. /\ sub'[s] = Applied(sub[s], e)
      /\ \A t \in Subscriptions \ {s} : sub'[t] = sub[t]
      /\ Mail(IF e.status = "past_due" /\ sub[s].since = 0
              THEN Notices(s, e.at, "payment_failed") ELSE {})
  BY <1>1 DEF ApplyState, BillingInv, EventsInv, BillingTypeOK
<1>3. sub[s].at <= e.at
  <2>1. sub[s].status = "none" => sub[s].at = 0
    BY <1>1 DEF BillingInv, RowsInv, NoSubscription
  <2> QED  BY <1>1, <2>1 DEF IsStale
<1>4. sub'[s].status = e.status /\ sub'[s].at = e.at /\ e.status # "none"
  BY <1>1, <1>2 DEF Applied, Started, Undunned, SubscriptionRows, Statuses, BillableStatuses,
                    LiveStatuses
<1>5. CASE e.status = "past_due" /\ sub[s].since = 0
  <2>1. sub'[s].since = e.at /\ (Mailable => sub'[s].notified = "payment_failed")
    BY <1>1, <1>2, <1>5 DEF Applied, Started, SubscriptionRows
  <2> QED  BY <1>1, <1>2, <1>3, <1>4, <1>5, <2>1, StartHolds
<1>6. CASE ~(e.status = "past_due" /\ sub[s].since = 0)
  <2>1. ASSUME NEW notice \in mailed, notice[1] = s, sub[s].status # "none" \/ account.state = "erased"
        PROVE  Told(s, notice[2], notice[3])'
    <3>1. notice[2] \in Nat /\ (notice[2] = 0 \/ notice[2] < moment) /\ Told(s, notice[2], notice[3])
      BY <2>1 DEF NoticesInv, Placed
    <3>2. CASE EndsDunning(sub[s], e.status)
      <4>1. sub'[s].since = 0 /\ e.status # "past_due"
        BY <1>1, <1>2, <1>6, <3>2 DEF Applied, Undunned, EndsDunning, LiveStatuses,
            SubscriptionRows
      <4>2. \/ charge[s] = "canceled" \/ Crossed(s, notice[2]) \/ account.state = "erased"
            \/ \A g \in EventsOf(s) :
                 g.status = "past_due" /\ g.at >= e.at => notice[2] < FailureAt(s, g.at)
        BY <1>1, <1>3, <2>1, <3>1, <3>2, <4>1, EndHolds
      <4>3. EventsOf(s)' = EventsOf(s) /\ \A t : FailureAt(s, t)' = FailureAt(s, t)
        BY <1>1 DEF EventsOf, FailureAt
      <4> QED  BY <1>1, <1>4, <4>1, <4>2, <4>3 DEF Told, Crossed
    <3>3. CASE ~EndsDunning(sub[s], e.status)
      <4>1. sub'[s].since = sub[s].since /\ sub'[s].notified = sub[s].notified
        BY <1>1, <1>2, <1>6, <3>3 DEF Applied, SubscriptionRows
      <4> QED  BY <1>1, <1>3, <1>4, <3>1, <4>1, SameDunning
    <3> QED  BY <3>2, <3>3
  <2>2. ASSUME NEW notice \in mailed PROVE Placed(notice)'
    <3>1. notice[1] \in Subscriptions
      BY DEF NoticesInv
    <3>2. CASE notice[1] = s
      BY <1>1, <1>4, <2>1, <3>2 DEF NoticesInv, Placed
    <3>3. CASE notice[1] # s
      BY <1>1, <1>2, <3>1, <3>3, ToldStays DEF NoticesInv, Placed
    <3> QED  BY <3>2, <3>3
  <2>3. Mail({})
    BY <1>2, <1>6
  <2> QED  BY <1>1, <2>2, <2>3, MailHolds
<1> QED  BY <1>5, <1>6

LEMMA DeliverNotices ==
    ASSUME BillingInv, BillingInv', NoticesInv, NEW e \in sent, Deliver(e)
    PROVE  NoticesInv'
<1>1. /\ e.sub \in Subscriptions /\ UNCHANGED <<moment, charge, sent, account>>
      /\ repeated \subseteq mailed /\ e.at \in Nat /\ sub[e.sub].at \in Nat
  BY DEF Deliver, BillingInv, EventsInv, BillingTypeOK, Events, SubscriptionRows, Moments
<1>2. CASE ApplyState(e) /\ ~(IsStale(e) \/ Unmatched(e))
  BY <1>2, StateNotices
<1>3. CASE UNCHANGED <<sub, mailed, repeated>>
  <2>1. Mail({}) /\ \A notice \in mailed : Placed(notice)'
    BY <1>1, <1>3, ToldStays DEF Mail, NoticesInv, Placed
  <2> QED  BY <1>1, <2>1, MailHolds
<1>4. CASE ApplyFailed(e) /\ ~UNCHANGED <<sub, mailed, repeated>>
  <2>1. /\ e.kind = "failed" /\ ~IsStale(e) /\ sub[e.sub].status \in LiveStatuses
        /\ sub[e.sub].since = 0 /\ sub' = [sub EXCEPT ![e.sub] = Started(@, e.at)]
        /\ Mail(Notices(e.sub, e.at, "payment_failed"))
    BY <1>4 DEF ApplyFailed
  <2>2. e.status = "past_due" /\ sub[e.sub].at <= e.at /\ sub[e.sub].status # "none"
    BY <1>1, <2>1 DEF IsStale, LiveStatuses, BillingInv, EventsInv, EventTimes
  <2>3. sub \in [Subscriptions -> SubscriptionRows] /\ sub[e.sub] \in SubscriptionRows
    BY <1>1 DEF BillingInv, EventsInv, BillingTypeOK
  <2>4. sub'[e.sub] = Started(sub[e.sub], e.at)
        /\ \A t \in Subscriptions \ {e.sub} : sub'[t] = sub[t]
    BY <1>1, <2>1, <2>3
  <2>5. /\ sub'[e.sub].status = sub[e.sub].status /\ sub'[e.sub].since = e.at
        /\ Mailable => sub'[e.sub].notified = "payment_failed"
    BY <2>3, <2>4 DEF Started, SubscriptionRows
  <2> QED  BY <1>1, <2>1, <2>2, <2>4, <2>5, StartHolds
<1> QED  BY <1>2, <1>3, <1>4 DEF Deliver, ApplyState

LEMMA RunDunningNotices ==
    ASSUME BillingInv, BillingInv', NoticesInv, RunDunning
    PROVE  NoticesInv'
<1> DEFINE step(s) == IF Remindable(s) THEN "grace_ending" ELSE "downgraded"
           due == {s \in Subscriptions : Remindable(s) \/ Downgradable(s)}
           notices == UNION {Notices(s, sub[s].since, step(s)) : s \in due}
<1>1. /\ sub' = [s \in Subscriptions |->
                   IF s \in due THEN [sub[s] EXCEPT !.notified = step(s)] ELSE sub[s]]
      /\ Mail(notices) /\ UNCHANGED <<moment, charge, sent, landed, account>>
  BY DEF RunDunning
<1>2. /\ \A s \in Subscriptions : sub[s] \in SubscriptionRows /\ sub[s].at \in Nat
                                  /\ sub[s].since \in Nat /\ sub[s].since <= moment
      /\ BillingTypeOK /\ repeated \subseteq mailed /\ moment \in Nat
  BY DEF BillingInv, EventsInv, BillingTypeOK, SubscriptionRows, Moments, DunningInv
<1>3. ASSUME NEW s \in Subscriptions
      PROVE  /\ sub'[s].since = sub[s].since /\ sub'[s].at = sub[s].at
             /\ sub'[s].status = sub[s].status
             /\ s \in due => /\ sub'[s].notified = step(s) /\ sub[s].since # 0
                             /\ sub[s].status # "none"
                             /\ Rank[sub[s].notified] < Rank[step(s)]
                             /\ Rank[sub[s].notified] \in Nat /\ Rank[step(s)] \in Nat
             /\ s \notin due => sub'[s] = sub[s]
  BY <1>1, <1>2 DEF Remindable, Downgradable, InDunning, LiveStatuses, SubscriptionRows,
                    DunningSteps, Rank
<1>4. \A s \in Subscriptions : EventsOf(s)' = EventsOf(s)
                               /\ \A t : FailureAt(s, t)' = FailureAt(s, t)
  BY <1>1 DEF EventsOf, FailureAt
<1> HIDE DEF step, due
<1>5. ASSUME NEW notice \in mailed PROVE Placed(notice)'
  <2>1. PICK s \in Subscriptions, F \in Nat, n \in DunningSteps : notice = <<s, F, n>>
    BY DEF NoticesInv
  <2>2. Told(s, F, n) /\ (F = 0 \/ F < moment) /\ (account.state = "erased" \/ sub[s].status # "none")
    BY <2>1 DEF NoticesInv, Placed
  <2>3. Rank[n] \in Nat
    BY DEF Rank, DunningSteps
  <2>4. Told(s, F, n)'
    <3>1. CASE s \notin due
      BY <1>1, <1>3, <2>2, <3>1, ToldStays
    <3>2. CASE s \in due
      <4>1. \/ charge[s] = "canceled" \/ account.state = "erased" \/ Crossed(s, F)
            \/ F < FailureAt(s, sub[s].since)
            \/ F = FailureAt(s, sub[s].since) /\ Rank[n] <= Rank[sub[s].notified]
        BY <1>3, <2>2, <3>2 DEF Told
      <4>2. Rank[n] <= Rank[sub[s].notified] => Rank[n] <= Rank[sub'[s].notified]
        BY <1>3, <2>3, <3>2
      <4>3. sub'[s].since # 0 /\ FailureAt(s, sub[s].since)' = FailureAt(s, sub[s].since)
        BY <1>3, <1>4, <3>2
      <4>4. Crossed(s, F) => Crossed(s, F)'
        BY <1>1, CrossedStays
      <4> QED  BY <1>1, <4>1, <4>2, <4>3, <4>4 DEF Told
    <3> QED  BY <3>1, <3>2
  <2> QED  BY <1>1, <1>3, <2>1, <2>2, <2>4 DEF Placed
<1>6. ASSUME NEW notice \in notices
      PROVE  /\ notice \in Subscriptions \X Nat \X DunningSteps /\ Placed(notice)'
             /\ notice \in mailed => charge[notice[1]] = "canceled" \/ Crossed(notice[1], notice[2])
  <2>1. PICK s \in due : notice \in Notices(s, sub[s].since, step(s))
    OBVIOUS
  <2>2. s \in Subscriptions
    BY DEF due
  <2>3. PICK F \in Nat : F = FailureAt(s, sub[s].since) /\ (F = 0 \/ F < moment)
    <3>1. FailureFound(s, sub[s].since)
      BY <1>2, <2>2, FailureIs
    <3>2. \A f \in EventsOf(s) : f.kind = "failed" => f.at \in Nat /\ f.at + 1 <= moment
      BY DEF BillingInv, EventsInv, BillingTypeOK, EventTimes, Events, Moments, EventsOf
    <3> QED  BY <1>2, <2>2, <3>1, <3>2 DEF FailureFound
  <2>4. Mailable /\ notice = <<s, F, step(s)>>
    BY <2>1, <2>3 DEF Notices
  <2>5. step(s) \in DunningSteps
    BY DEF step, DunningSteps
  <2>6. Told(s, F, step(s))
          => charge[s] = "canceled" \/ account.state = "erased" \/ Crossed(s, F)
    BY <1>3, <2>1, <2>2, <2>3 DEF Told
  <2>7. Placed(notice)'
    <3>1. PICK n : n = step(s)
      OBVIOUS
    <3>2. F = FailureAt(s, sub[s].since)' /\ Rank[n] <= Rank[sub'[s].notified] /\ sub'[s].since # 0
      BY <1>3, <1>4, <2>1, <2>2, <2>3, <3>1
    <3>3. Told(s, F, n)'
      BY <3>2 DEF Told
    <3> QED  BY <1>1, <1>3, <2>1, <2>2, <2>3, <2>4, <3>1, <3>3 DEF Placed
  <2> QED  BY <2>2, <2>4, <2>5, <2>6, <2>7 DEF NoticesInv, Placed, Mailable
<1> QED  BY <1>1, <1>2, <1>5, <1>6, MailHolds

LEMMA CancelNotices ==
    ASSUME BillingInv, BillingInv', NoticesInv,
           NEW s \in Subscriptions, NEW committed \in BOOLEAN, CancelForDeleted(s, committed)
    PROVE  NoticesInv'
<1>1. /\ charge'[s] = "canceled" /\ sent \subseteq sent' /\ UNCHANGED <<moment, account>>
      /\ Mail({}) /\ repeated \subseteq mailed
      /\ \A t \in Subscriptions : charge[t] = "canceled" => charge'[t] = "canceled"
      /\ \A t \in Subscriptions \ {s} : sub'[t] = sub[t] /\ charge'[t] = charge[t]
      /\ sub'[s].status # "none"
  BY DEF CancelForDeleted, Undunned, Mail, BillingInv, EventsInv, BillingTypeOK, SubscriptionRows,
         BillableStatuses, LiveStatuses
<1>2. ASSUME NEW notice \in mailed PROVE Placed(notice)'
  <2>1. CASE notice[1] = s
    BY <1>1, <2>1 DEF NoticesInv, Placed, Told
  <2>2. CASE notice[1] # s
    <3>1. notice[1] \in Subscriptions /\ notice[2] \in Nat /\ moment \in Nat
          /\ notice[2] <= moment
      BY DEF NoticesInv, Placed, BillingInv, EventsInv, BillingTypeOK, Moments
    <3>2. BillingNext
      BY DEF BillingNext
    <3> QED  BY <1>1, <2>2, <3>1, <3>2, ToldOutlives DEF NoticesInv, Placed
  <2> QED  BY <2>1, <2>2
<1> QED  BY <1>1, <1>2, MailHolds

\* A step that touches no row.
LEMMA OtherNotices ==
    ASSUME BillingInv, BillingInv', NoticesInv, [BillingNext]_billingVars,
           UNCHANGED <<sub, mailed, repeated>>,
           account'.state = "erased" <=> account.state = "erased",
           \A s \in Subscriptions : charge[s] = "canceled" => charge'[s] = "canceled"
    PROVE  NoticesInv'
<1>1. moment \in Nat /\ moment' \in Nat /\ repeated \subseteq mailed
  BY DEF BillingInv, EventsInv, BillingTypeOK, Moments
<1>2. sent \subseteq sent' /\ Mail({})
  BY EventSteps, EventTypes DEF BillingInv, Mail
<1>3. moment <= moment'
  BY <1>1, EventSteps DEF Quiet, Wait, Changes, Fails, Cancels, Deliver, Pass, BillingInv
<1>4. ASSUME NEW notice \in mailed PROVE Placed(notice)'
  <2>1. /\ notice[1] \in Subscriptions /\ notice[2] \in Nat /\ notice[2] <= moment
        /\ notice[2] = 0 \/ notice[2] < moment'
    BY <1>1, <1>3 DEF NoticesInv, Placed
  <2>2. Told(notice[1], notice[2], notice[3])'
    BY <2>1, ToldOutlives DEF NoticesInv, Placed
  <2> QED  BY <2>1, <2>2 DEF NoticesInv, Placed
<1> QED  BY <1>1, <1>2, <1>4, MailHolds

LEMMA EraseNotices ==
    ASSUME BillingInv, NoticesInv, Erase
    PROVE  NoticesInv'
<1>1. account'.state = "erased" /\ Mail({}) /\ sent \subseteq sent' /\ repeated \subseteq mailed
      /\ UNCHANGED <<moment, charge>>
  BY DEF Erase, Mail, BillingInv, EventsInv, BillingTypeOK
<1>2. \A notice \in mailed : Placed(notice)'
  BY <1>1 DEF NoticesInv, Placed, Told
<1> QED  BY <1>1, <1>2, MailHolds

\* Each dunning email goes once per failed renewal, but for the two it may go twice
\* for: what was mailed is told by the row, or is of a failure that no dunning to
\* come is of.
THEOREM MailedOnce == BillingSpec => []NoticeOnce
<1>1. BillingInit => NoticesInv
  BY DEF BillingInit, NoticesInv, NoticeOnce
<1>2. BillingInv /\ BillingInv' /\ NoticesInv /\ [BillingNext]_billingVars => NoticesInv'
  <2> SUFFICES ASSUME BillingInv, BillingInv', NoticesInv, [BillingNext]_billingVars
               PROVE  NoticesInv'
    OBVIOUS
  <2>1. ASSUME NEW s \in Subscriptions,
               Checkout(s) \/ FailRenewal(s) \/ Recover(s) \/ Pause(s) \/ Resume(s) \/ Update(s)
                 \/ EndInPaddle(s)
        PROVE  NoticesInv'
    <3>1. UNCHANGED <<sub, account, mailed, repeated>>
      BY <2>1 DEF Checkout, FailRenewal, Recover, Pause, Resume, Update, EndInPaddle, Becomes
    <3>2. \A t \in Subscriptions : t # s => charge'[t] = charge[t]
      BY <2>1 DEF Checkout, FailRenewal, Recover, Pause, Resume, Update, EndInPaddle, Becomes,
                  BillingInv, EventsInv, BillingTypeOK
    <3>3. charge[s] # "canceled"
      BY <2>1 DEF Checkout, FailRenewal, Recover, Pause, Resume, Update, EndInPaddle,
                  LiveStatuses, BillableStatuses
    <3> QED  BY <3>1, <3>2, <3>3, OtherNotices
  <2>2. CASE Wait \/ DeleteAccount \/ RestoreAccount \/ BeginPurge \/ UNCHANGED billingVars
    <3>1. /\ UNCHANGED <<sub, charge, mailed, repeated>>
          /\ account'.state = "erased" <=> account.state = "erased"
      BY <2>2 DEF Wait, DeleteAccount, RestoreAccount, BeginPurge, billingVars,
                  BillingInv, EventsInv, BillingTypeOK
    <3> QED  BY <3>1, OtherNotices
  <2> QED  BY <2>1, <2>2, DeliverNotices, RunDunningNotices, CancelNotices, EraseNotices
           DEF BillingNext
<1>3. NoticesInv => NoticeOnce
  BY DEF NoticesInv
<1> QED  BY <1>1, <1>2, <1>3, BillingHolds, PTL DEF BillingSpec

-----------------------------------------------------------------------------
(* The mirror.                                                             *)

Published == {[of |-> e.sub, at |-> e.at, shown |-> e.status] :
                e \in {f \in sent : f.kind = "state"}}

\* A row that changes does so as Mirror lets a copy.
LEMMA RowsMirror ==
    ASSUME BillingInv, BillingInv', [BillingNext]_billingVars, NEW s \in Subscriptions
    PROVE  \/ sub'[s].status = sub[s].status /\ sub'[s].at = sub[s].at
           \/ \E p \in Published : /\ p.of = s /\ p.at >= sub[s].at
                                   /\ sub'[s].at = p.at /\ sub'[s].status = p.shown
           \/ /\ \E p \in Published' : p.of = s /\ p.shown = "canceled"
              /\ sub'[s].status = "canceled" /\ sub'[s].at = sub[s].at
           \/ sub'[s].status = "none" /\ sub'[s].at = 0
<1>1. /\ sub \in [Subscriptions -> SubscriptionRows] /\ sub[s] \in SubscriptionRows
      /\ \A e \in sent : e.sub \in Subscriptions /\ e.at \in Nat
      /\ charge \in [Subscriptions -> Statuses \cup {"none"}] /\ sub[s].at \in Nat
  BY DEF BillingInv, EventsInv, BillingTypeOK, Events, Moments, SubscriptionRows
<1>2. ASSUME NEW e \in sent, Deliver(e), ~UNCHANGED <<sub[s].status, sub[s].at>>
      PROVE  \E p \in Published : /\ p.of = s /\ p.at >= sub[s].at
                                  /\ sub'[s].at = p.at /\ sub'[s].status = p.shown
  <2>1. \A row \in SubscriptionRows, at \in Nat : /\ Started(row, at).status = row.status
                                                  /\ Started(row, at).at = row.at
    BY DEF Started, SubscriptionRows
  <2>2. ~ApplyFailed(e)
    BY <1>1, <1>2, <2>1 DEF ApplyFailed
  <2>3. /\ e.kind = "state" /\ ~IsStale(e) /\ ~Unmatched(e)
        /\ sub' = [sub EXCEPT ![e.sub] = Applied(@, e)]
    BY <1>2, <2>2 DEF Deliver, ApplyState
  <2>4. e.sub = s /\ sub'[s] = Applied(sub[s], e)
    BY <1>1, <1>2, <2>3
  <2>5. sub'[s].status = e.status /\ sub'[s].at = e.at
    BY <1>1, <2>4 DEF Applied, Started, Undunned, SubscriptionRows
  <2>6. e.at >= sub[s].at
    BY <1>1, <2>3, <2>4 DEF IsStale, BillingInv, RowsInv, NoSubscription
  <2> DEFINE p == [of |-> e.sub, at |-> e.at, shown |-> e.status]
  <2>7. p \in Published
    BY <2>3 DEF Published
  <2> QED  BY <2>4, <2>5, <2>6, <2>7
<1>3. ASSUME NEW t \in Subscriptions, NEW committed \in BOOLEAN, CancelForDeleted(t, committed),
             ~UNCHANGED <<sub[s].status, sub[s].at>>
      PROVE  /\ \E p \in Published' : p.of = s /\ p.shown = "canceled"
             /\ sub'[s].status = "canceled" /\ sub'[s].at = sub[s].at
  <2>1. s = t /\ sub'[s].status = "canceled" /\ sub'[s].at = sub[s].at /\ charge'[s] = "canceled"
    BY <1>1, <1>3 DEF CancelForDeleted, Undunned, SubscriptionRows
  <2>2. PICK e \in EventsOf(s)' : e.kind = "state" /\ e.status = "canceled"
    BY <2>1 DEF BillingInv, EventsInv, LastEvent
  <2> DEFINE p == [of |-> e.sub, at |-> e.at, shown |-> e.status]
  <2>3. p \in Published' /\ p.of = s /\ p.shown = "canceled"
    BY <2>2 DEF Published, EventsOf
  <2> QED  BY <2>1, <2>3
<1>4. CASE RunDunning
  BY <1>1, <1>4 DEF RunDunning, SubscriptionRows
<1>5. CASE Erase
  BY <1>5 DEF Erase, NoSubscription
<1>6. CASE UNCHANGED sub
  BY <1>6
<1>7. ASSUME NEW t \in Subscriptions,
             Checkout(t) \/ FailRenewal(t) \/ Recover(t) \/ Pause(t) \/ Resume(t) \/ Update(t)
               \/ EndInPaddle(t)
      PROVE  UNCHANGED sub
  BY <1>7 DEF Checkout, FailRenewal, Recover, Pause, Resume, Update, EndInPaddle, Becomes
<1>8. CASE Wait \/ DeleteAccount \/ RestoreAccount \/ BeginPurge \/ UNCHANGED billingVars
  BY <1>8 DEF Wait, DeleteAccount, RestoreAccount, BeginPurge, billingVars
<1> QED  BY <1>2, <1>3, <1>4, <1>5, <1>6, <1>7, <1>8 DEF BillingNext

\* The rows implement copies kept from unordered, repeated notifications.
THEOREM BillingMirrors == BillingSpec => MirrorsPaddle
<1>1. BillingInit => Copy!Init
  BY DEF BillingInit, Copy!Init, NoSubscription
<1>2. BillingInv /\ BillingInv' /\ [BillingNext]_billingVars => [Copy!Next]_Copy!copies
  <2> SUFFICES ASSUME BillingInv, BillingInv', [BillingNext]_billingVars PROVE Copy!Next
    OBVIOUS
  <2>1. Published \subseteq Published'
    BY EventSteps, EventTypes DEF Published, BillingInv
  <2> QED  BY <2>1, RowsMirror
           DEF Published, Copy!Next, Copy!Stay, Copy!Follow, Copy!Foresee, Copy!Forget
<1> QED  BY <1>1, <1>2, BillingHolds, PTL DEF BillingSpec, MirrorsPaddle, Copy!Spec
=============================================================================
