------------------------------- MODULE Courier -------------------------------
(***************************************************************************)
(* Emails to one address: each is checked, logged, handed to Postmark and  *)
(* its answer logged, while Postmark's webhooks about it, and about the    *)
(* address, come in any order, repeated, and before the answer is logged.  *)
(***************************************************************************)
EXTENDS Integers

CONSTANTS
    Messages,
    Alerts,         \* those on the broadcast stream; the others are the account's own
    Dashboard,      \* the SubscriptionChanges somebody may make in Postmark's dashboard
    MailMishaps     \* "unlogged", "dies"

Streams == {"broadcast", "transactional"}

ASSUME AlertsAssumption == Alerts \subseteq Messages
ASSUME DashboardAssumption ==
    Dashboard \subseteq [kind : {"suppressed", "reactivated"}, stream : Streams]

VARIABLES
    emailLog,   \* email_log: each message's status, "none" with no row
    suppressed, \* email_suppression: the address's scope, "none" with no row
    sending,    \* each message, in the Courier's hands
    subscribed, \* whether the user is on the alerts' list
    stopped,    \* the streams Postmark has stopped for the address
    happened,   \* what has become of each message, as Postmark knows it
    changes,    \* the SubscriptionChanges Postmark has sent
    heard,      \* the webhooks handled of what happened to each message
    lifts       \* history: whether a suppression was ever lifted

mailVars == <<emailLog, suppressed, sending, subscribed, stopped, happened, changes, heard, lifts>>

StreamOf(m) == IF m \in Alerts THEN "broadcast" ELSE "transactional"
EventKinds == {"soft_bounced", "delivered", "bounced", "complained"}
Answers == {"sent", "failed", "suppressed"}
STATUS_RANKS ==
    [sending |-> 0, failed |-> 0, sent |-> 1, soft_bounced |-> 2, delivered |-> 3,
     bounced |-> 4, complained |-> 5, suppressed |-> 9]

MailTypeOK ==
    /\ emailLog \in [Messages -> DOMAIN STATUS_RANKS \cup {"none"}]
    /\ suppressed \in {"none", "broadcast", "all"}
    /\ sending \in [Messages -> {"unsent", "handed", "over"} \cup Answers]
    /\ subscribed \in BOOLEAN /\ stopped \subseteq Streams
    /\ happened \in [Messages -> SUBSET (EventKinds \cup {"arrived"})]
    /\ changes \subseteq Dashboard
    /\ heard \in [Messages -> SUBSET EventKinds]
    /\ lifts \in BOOLEAN

MailInit ==
    /\ emailLog = [m \in Messages |-> "none"] /\ suppressed = "none"
    /\ sending \in [Messages -> {"unsent", "over"}]      \* those there are to send
    /\ subscribed = TRUE /\ stopped = {}
    /\ happened = [m \in Messages |-> {}] /\ changes = {} /\ heard = [m \in Messages |-> {}]
    /\ lifts = FALSE

\* suppress: a scope only widens.
ScopeOf(stream) == IF stream = "broadcast" THEN "broadcast" ELSE "all"
Widened(scope, by) == IF "all" \in {scope, by} THEN "all" ELSE by

\* lift: of all, any suppression; of broadcast, only a broadcast one.
Lifted(scope, of) == IF scope = "all" /\ of = "broadcast" THEN "all" ELSE "none"

-----------------------------------------------------------------------------
(* The Courier.                                                            *)

\* _refusal, as the message is about to go and not before.
Refusal(m) ==
    \/ suppressed = "all" \/ (m \in Alerts /\ suppressed = "broadcast")
    \/ m \in Alerts /\ ~subscribed

ToMailer(m, step) == sending' = [sending EXCEPT ![m] = step]

LogSend(m) ==
    /\ sending[m] = "unsent"
    /\ IF Refusal(m)
       THEN emailLog' = [emailLog EXCEPT ![m] = "suppressed"] /\ ToMailer(m, "over")
       ELSE emailLog' = [emailLog EXCEPT ![m] = "sending"] /\ ToMailer(m, "handed")
    /\ UNCHANGED <<suppressed, subscribed, stopped, happened, changes, heard, lifts>>

\* Not even the log could be written: nothing is sent.
Unlogged(m) ==
    /\ "unlogged" \in MailMishaps /\ sending[m] = "unsent"
    /\ ToMailer(m, "over")
    /\ UNCHANGED <<emailLog, suppressed, subscribed, stopped, happened, changes, heard, lifts>>

\* Postmark takes it, and says so or is not heard; refuses it; or refuses the
\* address on its stream.
Answer(m, answer) ==
    /\ sending[m] = "handed"
    /\ answer = "suppressed" <=> StreamOf(m) \in stopped
    /\ \/ answer = "sent" /\ happened' = [happened EXCEPT ![m] = {"arrived"}]
       \/ answer = "failed" /\ happened' \in {happened, [happened EXCEPT ![m] = {"arrived"}]}
       \/ answer = "suppressed" /\ UNCHANGED happened
    /\ ToMailer(m, answer)
    /\ UNCHANGED <<emailLog, suppressed, subscribed, stopped, changes, heard, lifts>>

\* The row takes the answer only while it says sending: a webhook may have been
\* first.
Answered_Always(m) == sending[m]
Answered(m) == IF emailLog[m] = "sending" THEN sending[m] ELSE emailLog[m]
LogAnswer(m) ==
    /\ sending[m] \in Answers
    /\ emailLog' = [emailLog EXCEPT ![m] = Answered(m)]
    /\ suppressed' = IF sending[m] = "suppressed"
                     THEN Widened(suppressed, ScopeOf(StreamOf(m))) ELSE suppressed
    /\ ToMailer(m, "over")
    /\ UNCHANGED <<subscribed, stopped, happened, changes, heard, lifts>>

AnswerLost(m) ==
    /\ "dies" \in MailMishaps /\ sending[m] \in Answers
    /\ ToMailer(m, "over")
    /\ UNCHANGED <<emailLog, suppressed, subscribed, stopped, happened, changes, heard, lifts>>

\* leave, by the link of the email or by hand.
Leave ==
    /\ subscribed' = FALSE
    /\ UNCHANGED <<emailLog, suppressed, sending, stopped, happened, changes, heard, lifts>>

-----------------------------------------------------------------------------
(* Postmark.                                                               *)

\* A message bounces softly, and is delivered or bounces for good; one
\* delivered may be complained of.  The last two stop its stream.
Happen(m, e) ==
    /\ "arrived" \in happened[m] /\ e \notin happened[m]
    /\ e = "soft_bounced" => happened[m] = {"arrived"}
    /\ e = "delivered" => "bounced" \notin happened[m]
    /\ e = "bounced" => "delivered" \notin happened[m]
    /\ e = "complained" => "delivered" \in happened[m]
    /\ happened' = [happened EXCEPT ![m] = @ \cup {e}]
    /\ stopped' = IF e \in {"bounced", "complained"} THEN stopped \cup {StreamOf(m)} ELSE stopped
    /\ UNCHANGED <<emailLog, suppressed, sending, subscribed, changes, heard, lifts>>

\* Somebody stops or reactivates the address in Postmark's dashboard.
Change(c) ==
    /\ stopped' = IF c.kind = "suppressed" THEN stopped \cup {c.stream} ELSE stopped \ {c.stream}
    /\ stopped' # stopped
    /\ changes' = changes \cup {c}
    /\ UNCHANGED <<emailLog, suppressed, sending, subscribed, happened, heard, lifts>>

-----------------------------------------------------------------------------
(* record_event, of any webhook Postmark has sent, as often as it likes.   *)

\* A status only moves up.
MovesUp(m, e) == STATUS_RANKS[emailLog[m]] < STATUS_RANKS[e]

HearEvent(m, e) ==
    /\ e \in happened[m] \cap EventKinds
    /\ emailLog' = IF MovesUp(m, e) THEN [emailLog EXCEPT ![m] = e] ELSE emailLog
    /\ suppressed' = CASE e = "bounced" -> Widened(suppressed, "all")
                       [] e = "complained" -> Widened(suppressed, ScopeOf(StreamOf(m)))
                       [] OTHER -> suppressed
    /\ heard' = [heard EXCEPT ![m] = @ \cup {e}]
    /\ UNCHANGED <<sending, subscribed, stopped, happened, changes, lifts>>

HearChange(c) ==
    /\ c \in changes
    /\ suppressed' = IF c.kind = "suppressed" THEN Widened(suppressed, ScopeOf(c.stream))
                     ELSE Lifted(suppressed, ScopeOf(c.stream))
    /\ lifts' = (lifts \/ c.kind = "reactivated")
    /\ UNCHANGED <<emailLog, sending, subscribed, stopped, happened, changes, heard>>

\* email-suppression --lift.
LiftByHand ==
    /\ suppressed # "none"
    /\ suppressed' = Lifted(suppressed, "all") /\ lifts' = TRUE
    /\ UNCHANGED <<emailLog, sending, subscribed, stopped, happened, changes, heard>>

MailNext ==
    \/ \E m \in Messages :
        \/ LogSend(m) \/ Unlogged(m) \/ LogAnswer(m) \/ AnswerLost(m)
        \/ \E answer \in Answers : Answer(m, answer)
        \/ \E e \in EventKinds : Happen(m, e) \/ HearEvent(m, e)
    \/ Leave
    \/ \E c \in Dashboard : Change(c)
    \/ \E c \in changes : HearChange(c)
    \/ LiftByHand

MailSpec == MailInit /\ [][MailNext]_mailVars

-----------------------------------------------------------------------------
(* Properties.                                                             *)

\* Whatever order its webhooks and the answer to its send were handled in, and
\* however often, a message's row ends at the furthest it got; and unless one
\* was lifted, a hard bounce anywhere, and a complaint about the account's own
\* mail, stop the address for everything, a complaint about an alert the alerts.
Furthest(m) ==
    CHOOSE e \in heard[m] : \A f \in heard[m] : STATUS_RANKS[f] <= STATUS_RANKS[e]
WebhooksConverge ==
    \A m \in Messages :
        /\ heard[m] # {} /\ sending[m] = "over" => emailLog[m] = Furthest(m)
        /\ "bounced" \in heard[m] /\ ~lifts => suppressed = "all"
        /\ "complained" \in heard[m] /\ ~lifts =>
                suppressed \in {"all", ScopeOf(StreamOf(m))}
=============================================================================
