------------------------------- MODULE JobRuns -------------------------------
(***************************************************************************)
(* One job: the lock, the row and the retries around its body, whoever     *)
(* starts it.  A worker takes a task's message and acknowledges it once    *)
(* its run is over, so a message whose worker died is delivered again; a   *)
(* retry is a message of its own, sent before the one it is for is         *)
(* acknowledged.  A person runs the same job from a shell.                 *)
(***************************************************************************)
EXTENDS Integers, FiniteSets

CONSTANTS
    Workers,        \* worker processes
    Shells,         \* where people run the job by hand
    Deliveries,     \* messages the task may come to have
    MaxRetries,
    JobMishaps      \* "kill", "drop" (a lock's connection), "unrecorded"

VARIABLES
    jobLock,    \* whose connection has the job's advisory lock
    delivery,   \* the broker's messages
    worker      \* runs in progress

jobVars == <<jobLock, delivery, worker>>

Runners == Workers \cup Shells
NoOne == "no one"
ByHand == "by hand"

ASSUME JobAssumption == MaxRetries \in Nat /\ NoOne \notin Runners

Outcomes == {"success", "partial", "transient", "permanent", "skipped", "none"}
AtRest == [step |-> "idle", of |-> ByHand, outcome |-> "none", row |-> "none", dropped |-> FALSE]

JobTypeOK ==
    /\ jobLock \in Runners \cup {NoOne}
    /\ delivery \in [Deliveries -> [state : {"unsent", "queued", "taken", "acked"},
                                    retries : 0 .. MaxRetries]]
    /\ worker \in [Runners ->
                    [step : {"idle", "starting", "locked", "body", "ended", "recorded", "over",
                             "retried"},
                     of : Deliveries \cup {ByHand}, outcome : Outcomes,
                     row : {"none", "running", "success", "partial", "failed"},
                     dropped : BOOLEAN]]

JobInit ==
    /\ jobLock = NoOne
    /\ delivery = [d \in Deliveries |-> [state |-> "unsent", retries |-> 0]]
    /\ worker = [w \in Runners |-> AtRest]

WorkerTo(w, step) == worker' = [worker EXCEPT ![w].step = step]
Release(w) == IF jobLock = w THEN NoOne ELSE jobLock

\* Bounds the messages: one of them stays free for a retry.
Spare(d) == \E e \in Deliveries \ {d} : delivery[e].state \in {"unsent", "acked"}

\* Beat sends the task.
SendTask(d) ==
    /\ delivery[d].state = "unsent" /\ Spare(d)
    /\ delivery' = [delivery EXCEPT ![d].state = "queued"]
    /\ UNCHANGED <<jobLock, worker>>

TakeTask(w, d) ==
    /\ w \in Workers /\ worker[w].step = "idle" /\ delivery[d].state = "queued"
    /\ delivery' = [delivery EXCEPT ![d].state = "taken"]
    /\ worker' = [worker EXCEPT ![w] = [AtRest EXCEPT !.step = "starting", !.of = d]]
    /\ UNCHANGED jobLock
RunByHand(w) ==
    /\ w \in Shells /\ worker[w].step = "idle"
    /\ worker' = [worker EXCEPT ![w] = [AtRest EXCEPT !.step = "starting"]]
    /\ UNCHANGED <<jobLock, delivery>>

\* job_lock never waits: JobLocked, which a task returns as skipped.
Locked_Never == FALSE
Locked == jobLock # NoOne
TryJobLock(w) ==
    /\ worker[w].step = "starting"
    /\ IF Locked
       THEN /\ worker' = [worker EXCEPT ![w].step = "over", ![w].outcome = "skipped"]
            /\ UNCHANGED jobLock
       ELSE jobLock' = w /\ WorkerTo(w, "locked")
    /\ UNCHANGED delivery

\* track_run: the row, or no run at all.
StartRow(w) ==
    /\ worker[w].step = "locked"
    /\ \/ /\ worker' = [worker EXCEPT ![w].step = "body", ![w].row = "running"]
       \/ /\ "unrecorded" \in JobMishaps
          /\ worker' = [worker EXCEPT ![w].step = "recorded", ![w].outcome = "transient"]
    /\ UNCHANGED <<jobLock, delivery>>

EndBody(w, outcome) ==
    /\ worker[w].step = "body"
    /\ worker' = [worker EXCEPT ![w].step = "ended", ![w].outcome = outcome]
    /\ UNCHANGED <<jobLock, delivery>>

\* _finish: best effort.
StatusOf(outcome) == IF outcome \in {"success", "partial"} THEN outcome ELSE "failed"
FinishRow(w) ==
    /\ worker[w].step = "ended"
    /\ \/ worker' = [worker EXCEPT ![w].step = "recorded",
                                   ![w].row = StatusOf(worker[w].outcome)]
       \/ "unrecorded" \in JobMishaps /\ WorkerTo(w, "recorded")
    /\ UNCHANGED <<jobLock, delivery>>

ReleaseJobLock(w) ==
    /\ worker[w].step = "recorded"
    /\ jobLock' = Release(w) /\ WorkerTo(w, "over")
    /\ UNCHANGED delivery

\* _retry_or_raise: a transient failure, until its retries run out.
Retries_Always(d) == delivery[d].retries
Retries(d) == delivery[d].retries + 1
ToRetry(w) ==
    /\ worker[w].of # ByHand /\ worker[w].outcome = "transient"
    /\ Retries(worker[w].of) <= MaxRetries
SendRetry(w, d) ==
    /\ worker[w].step = "over" /\ ToRetry(w) /\ delivery[d].state \in {"unsent", "acked"}
    /\ delivery' = [delivery EXCEPT ![d] = [state |-> "queued",
                                            retries |-> Retries(worker[w].of)]]
    /\ WorkerTo(w, "retried")
    /\ UNCHANGED jobLock

\* Acknowledged, with the retry sent first if there is one.
EndTask(w) ==
    /\ worker[w].step \in {"over", "retried"}
    /\ worker[w].step = "over" => ~ToRetry(w)
    /\ worker' = [worker EXCEPT ![w] = AtRest]
    /\ delivery' = IF worker[w].of = ByHand THEN delivery
                   ELSE [delivery EXCEPT ![worker[w].of].state = "acked"]
    /\ UNCHANGED jobLock

\* The process dies: its connections go with it, its row stays "running", and its
\* message is delivered again, or acknowledged where a hard time limit killed it.
KillWorker(w) ==
    /\ "kill" \in JobMishaps /\ worker[w].step # "idle"
    /\ worker[w].step = "retried" => Spare(worker[w].of)
    /\ jobLock' = Release(w)
    /\ worker' = [worker EXCEPT ![w] = AtRest]
    /\ \E state \in {"queued", "acked"} :
        delivery' = IF worker[w].of = ByHand THEN delivery
                    ELSE [delivery EXCEPT ![worker[w].of].state = state]

\* The lock's connection drops, and the job goes on without it.
DropLock(w) ==
    /\ "drop" \in JobMishaps /\ jobLock = w
    /\ jobLock' = NoOne
    /\ worker' = [worker EXCEPT ![w].dropped = TRUE]
    /\ UNCHANGED delivery

RunStep(w) ==
    \/ TryJobLock(w) \/ StartRow(w)
    \/ \E outcome \in {"success", "partial", "transient", "permanent"} : EndBody(w, outcome)
    \/ FinishRow(w) \/ ReleaseJobLock(w) \/ EndTask(w)
    \/ \E d \in Deliveries : SendRetry(w, d)

JobNext ==
    \/ \E d \in Deliveries : SendTask(d)
    \/ \E w \in Runners :
        \/ \E d \in Deliveries : TakeTask(w, d)
        \/ RunByHand(w) \/ RunStep(w) \/ KillWorker(w) \/ DropLock(w)

JobSpec == JobInit /\ [][JobNext]_jobVars

\* A worker's run that is not killed goes on until it is over, and a worker at
\* rest takes some message there is.
JobFairness ==
    /\ \A w \in Workers : WF_jobVars(RunStep(w))
    /\ WF_jobVars(\E w \in Workers, d \in Deliveries : TakeTask(w, d))

-----------------------------------------------------------------------------
(* Properties.                                                             *)

InBody(w) == worker[w].step \in {"body", "ended"}

\* However a task is sent, retried, redelivered or run by hand, two runs of the
\* job are never in it at once, but where one has lost its lock's connection.
OneRunAtATime ==
    \A v, w \in Runners :
        InBody(v) /\ InBody(w) /\ v # w => worker[v].dropped \/ worker[w].dropped

\* A task that always fails is not run for ever: unless its workers go on being
\* killed, it and its retries come to an end.
TasksEnd ==
    \/ []<><<\E w \in Workers : KillWorker(w)>>_jobVars
    \/ <>[](\A d \in Deliveries : delivery[d].state \in {"unsent", "acked"})
=============================================================================
