----------------------------- MODULE SessionLedger -----------------------------
(******************************************************************************)
(* The SQLite session store: the tables jobs, job_recovery, ingress_messages   *)
(* and delivery_attempts, and every transaction of its three writers.          *)
(*                                                                            *)
(*   src/engine/discord/store-job-writer.mjs           jobs and attempts       *)
(*   src/engine/discord/store-conversation-writer.mjs  ingress, deliveries,    *)
(*                                                     startup recovery        *)
(*   src/engine/discord/store-event-writer.mjs         recordEvent             *)
(*                                                                            *)
(* One action is one committed transaction; a transaction that throws rolls    *)
(* back and is no step.  Transactions may be called in ANY order, with stale   *)
(* attempt ids, after any other: what holds here holds whatever the router and *)
(* the runner do, provided they record only the kinds of events in CallerKinds.*)
(******************************************************************************)
EXTENDS JobEvents

CONSTANTS Jobs, NoJob, Messages

ASSUME NoJobIsNoJob == NoJob \notin Jobs /\ NoJob \notin Row

VARIABLES jobs,        \* the jobs and job_recovery tables: a row, or NoJob
          deliveries,  \* delivery_attempts: status by job_id and attempt_id
          ingress      \* ingress_messages by source_message_id

vars == <<jobs, deliveries, ingress>>

DeliveryStatus == {"none", "started", "confirmed", "unknown", "failed"}
Decided == {"accepted", "rejected", "handled"}

\* No caller of recordEvent passes any other kind: the router, the runner and the
\* backend adapters.  Those of transactions below come from their own writer.
CallerKinds ==
    (RunningKinds \ {"attempt_started", "checkpoint_saved"})
      \cup {"prompt_cache_observed", "result_reported", "attempt_exited",
            "cancel_requested", "watchdog_intervened", "operator_response_sent",
            "operator_response_missed", "attempt_succeeded", "profile_replaced",
            "recovered", "failed", "cancelled"}

TypeOK ==
    /\ jobs \in [Jobs -> Row \cup {NoJob}]
    /\ deliveries \in [Jobs -> [Attempts -> DeliveryStatus]]
    /\ ingress \in [Messages -> [status : Decided \cup {"none"},
                                 job : Jobs \cup {NoJob}]]

Exists(j) == jobs[j] # NoJob
StartedAttempts(j) == {a \in Attempts : deliveries[j][a] = "started"}

Init ==
    /\ jobs = [j \in Jobs |-> NoJob]
    /\ deliveries = [j \in Jobs |-> [a \in Attempts |-> "none"]]
    /\ ingress = [m \in Messages |-> [status |-> "none", job |-> NoJob]]

--------------------------------------------------------------------------------
(* Ingress and job creation *)

\* reserveIngress; a known message is a duplicate and changes nothing
ReserveIngress(m, status) ==
    /\ ingress[m].status = "none"
    /\ ingress' = [ingress EXCEPT ![m].status = status]
    /\ UNCHANGED <<jobs, deliveries>>

\* mutant: the message commits before the job that answers it
AcceptIngressFirst(m, j, envelope) ==
    /\ ingress[m].status = "none"
    /\ ~Exists(j)
    /\ ingress' = [ingress EXCEPT ![m] = [status |-> "accepted", job |-> j]]
    /\ UNCHANGED <<jobs, deliveries>>

\* acceptIngressAndCreateJob: the message and its job in one transaction
AcceptIngress(m, j, envelope) ==
    /\ ingress[m].status = "none"
    /\ ~Exists(j)
    /\ ingress' = [ingress EXCEPT ![m] = [status |-> "accepted", job |-> j]]
    /\ jobs' = [jobs EXCEPT ![j] = FreshRow(envelope)]
    /\ UNCHANGED deliveries

\* createJob: a replacement job, which no message names
CreateJob(j, envelope) ==
    /\ ~Exists(j)
    /\ jobs' = [jobs EXCEPT ![j] = FreshRow(envelope)]
    /\ UNCHANGED <<deliveries, ingress>>

--------------------------------------------------------------------------------
(* Attempts and events *)

Append(j, kind, attempt) ==
    /\ Exists(j)
    /\ Appendable(jobs[j], kind, attempt)
    /\ jobs' = [jobs EXCEPT ![j] = Appended(@, kind, attempt)]

RecordEvent(j, kind, attempt) ==
    /\ kind \in CallerKinds
    /\ Append(j, kind, attempt)
    /\ UNCHANGED <<deliveries, ingress>>

\* reserveAttempt: nothing here looks at the lifecycle
ReserveAttempt(j, a) ==
    /\ Exists(j)
    /\ jobs[j].attempt = NoAttempt
    /\ ~jobs[j].childAlive
    /\ Append(j, "attempt_reserved", a)
    /\ UNCHANGED <<deliveries, ingress>>

\* attachAttempt
AttachAttempt(j, a) ==
    /\ Exists(j)
    /\ jobs[j].attempt = a
    /\ ~jobs[j].childAlive
    /\ Append(j, "attempt_started", a)
    /\ UNCHANGED <<deliveries, ingress>>

\* failAttempt, and failReservedAttempt with its unattached guard
FailAttempt(j, a, requireUnattached) ==
    /\ Exists(j)
    /\ jobs[j].attempt = a
    /\ requireUnattached => ~jobs[j].childAlive
    /\ Appendable(jobs[j], "failed", a)
    /\ jobs' = [jobs EXCEPT ![j] = Detached(Appended(@, "failed", a))]
    /\ UNCHANGED <<deliveries, ingress>>

--------------------------------------------------------------------------------
(* Deliveries *)

\* reserveDelivery, no row for this attempt yet
StartDelivery(j, a) ==
    /\ Exists(j)
    /\ deliveries[j][a] = "none"
    /\ deliveries' = [deliveries EXCEPT ![j][a] = "started"]
    /\ Append(j, "delivery_started", a)
    /\ UNCHANGED ingress

\* reserveDelivery, finding the started row of an interrupted send
RediscoverDelivery(j, a) ==
    /\ Exists(j)
    /\ deliveries[j][a] = "started"
    /\ deliveries' = [deliveries EXCEPT ![j][a] = "unknown"]
    /\ Append(j, "delivery_unknown", a)
    /\ UNCHANGED ingress

\* mutant: a confirmed send is recorded by the bare completion of the job
EndsAsCompleted(status) == IF status = "confirmed" THEN "completed" ELSE "delivery_unknown"

\* mutant: a send with an unknown end is to be tried again
RetriesUnknown(status) ==
    CASE status = "confirmed" -> "delivery_confirmed"
      [] status = "unknown"   -> "retry_scheduled"
      [] status = "failed"    -> "delivery_failed"

DeliveryEndKind(status) ==
    CASE status = "confirmed" -> "delivery_confirmed"
      [] status = "unknown"   -> "delivery_unknown"
      [] status = "failed"    -> "delivery_failed"

\* finishDelivery
FinishDelivery(j, a, status) ==
    /\ deliveries[j][a] = "started"
    /\ deliveries' = [deliveries EXCEPT ![j][a] = status]
    /\ Append(j, DeliveryEndKind(status), a)
    /\ UNCHANGED ingress

--------------------------------------------------------------------------------
(* Recovery *)

Interrupted(j) ==
    /\ Exists(j)
    /\ jobs[j].lifecycle \notin Absorbing \cup {"recovery_review"}

\* mutant: the sealed request is looked for before the open send
EnvelopeFirst(j) ==
    IF jobs[j].envelope THEN "recovered"
    ELSE IF StartedAttempts(j) # {} THEN "delivery_unknown"
    ELSE "recovery_review_required"

\* the event recoverInterruptedWork appends to an interrupted job
RecoveryKind(j) ==
    IF StartedAttempts(j) # {} THEN "delivery_unknown"
    ELSE IF jobs[j].envelope THEN "recovered"
    ELSE "recovery_review_required"

\* the attempt that event names: of the started delivery, or the row's own
RecoveryAttempt(j) ==
    IF StartedAttempts(j) # {} THEN CHOOSE a \in Attempts : deliveries[j][a] = "started"
    ELSE jobs[j].attempt

RecoveredRow(j) ==
    LET row == Appended(jobs[j], RecoveryKind(j), RecoveryAttempt(j))
    IN  IF RecoveryKind(j) = "recovered" THEN Detached(row) ELSE row

\* its started deliveries become unknown
Rediscovered(j) ==
    [a \in Attempts |-> IF deliveries[j][a] = "started" THEN "unknown"
                                                       ELSE deliveries[j][a]]

\* one illegal append rolls the whole recovery back, and with it the startup
RecoveryLegal ==
    \A j \in Jobs :
        Interrupted(j) =>
            /\ Appendable(jobs[j], RecoveryKind(j), RecoveryAttempt(j))
            /\ \A a, b \in StartedAttempts(j) : a = b

\* recoverInterruptedWork: all interrupted jobs in one transaction
RecoverInterruptedWork ==
    /\ RecoveryLegal
    /\ jobs' = [j \in Jobs |-> IF Interrupted(j) THEN RecoveredRow(j) ELSE jobs[j]]
    /\ deliveries' = [j \in Jobs |-> IF Interrupted(j) THEN Rediscovered(j)
                                                       ELSE deliveries[j]]
    /\ UNCHANGED ingress

\* resumeRecovered parks a job recoverInterruptedWork has just made queued
ParkRecovered(j) ==
    /\ Exists(j)
    /\ jobs[j].lifecycle = "queued"
    /\ Append(j, "recovery_review_required", NoAttempt)
    /\ UNCHANGED <<deliveries, ingress>>

\* deleteJobRecovery
DeleteRecovery(j) ==
    /\ Exists(j)
    /\ jobs[j].envelope
    /\ jobs' = [jobs EXCEPT ![j].envelope = FALSE]
    /\ UNCHANGED <<deliveries, ingress>>

--------------------------------------------------------------------------------

Next ==
    \/ \E m \in Messages, status \in {"rejected", "handled"} : ReserveIngress(m, status)
    \/ \E m \in Messages, j \in Jobs, envelope \in BOOLEAN : AcceptIngress(m, j, envelope)
    \/ \E j \in Jobs, envelope \in BOOLEAN : CreateJob(j, envelope)
    \/ \E j \in Jobs, kind \in CallerKinds, a \in Attempts \cup {NoAttempt} :
            RecordEvent(j, kind, a)
    \/ \E j \in Jobs, a \in Attempts : ReserveAttempt(j, a)
    \/ \E j \in Jobs, a \in Attempts : AttachAttempt(j, a)
    \/ \E j \in Jobs, a \in Attempts, unattached \in BOOLEAN : FailAttempt(j, a, unattached)
    \/ \E j \in Jobs, a \in Attempts : StartDelivery(j, a)
    \/ \E j \in Jobs, a \in Attempts : RediscoverDelivery(j, a)
    \/ \E j \in Jobs, a \in Attempts, status \in {"confirmed", "unknown", "failed"} :
            FinishDelivery(j, a, status)
    \/ RecoverInterruptedWork
    \/ \E j \in Jobs : ParkRecovered(j)
    \/ \E j \in Jobs : DeleteRecovery(j)

Spec == Init /\ [][Next]_vars

--------------------------------------------------------------------------------
(* Properties *)

\* An answer is sent at most once: over every attempt of a job, across failures,
\* recoveries and retries, delivery_attempts holds at most one row of the job.
\* ("If a send result is unknown, it is not automatically resent".)
OneDelivery ==
    \A j \in Jobs : \A a, b \in Attempts :
        deliveries[j][a] # "none" /\ deliveries[j][b] # "none" => a = b

\* Startup recovery never throws: no order of transactions leaves a row whose
\* recovery event is an illegal transition or names a stale attempt. One such
\* row would roll back the recovery of every job at every start of the service.
RecoveryCannotFail == RecoveryLegal

\* The two tables tell one story of a send. A job has a delivery row only from its
\* send on; it is delivering exactly while the row of its current attempt is open
\* (a failure may leave an open row behind); and the outcome the operator is shown
\* is that of the row.
Agree(row, sends) ==
    /\ \A a \in Attempts :
          /\ sends[a] # "none" =>
                row # NoJob /\ row.lifecycle \in {"delivering", "completed", "failed"}
          /\ sends[a] = "started" =>
                row.lifecycle \in {"delivering", "failed"} /\ row.deliveryState = "sending"
          /\ sends[a] = "confirmed" =>
                row.lifecycle = "completed" /\ row.deliveryState = "delivered"
    /\ row # NoJob /\ row.lifecycle = "delivering" =>
          row.attempt \in Attempts /\ sends[row.attempt] = "started"

DeliveryTablesAgree == \A j \in Jobs : Agree(jobs[j], deliveries[j])

\* The sealed request survives only where it may still be used: never in a
\* cancelled or parked job (which nothing may re-execute), and in a completed job
\* only when its delivery was not confirmed.
EnvelopeOnlyWhileUseful ==
    \A j \in Jobs :
        Exists(j) /\ jobs[j].envelope =>
            /\ jobs[j].lifecycle \notin {"cancelled", "recovery_review"}
            /\ jobs[j].lifecycle = "completed"
                  => jobs[j].deliveryState \in {"unknown", "failed"}

\* A decision about a message is made once; a replayed dispatch never changes it.
\* (This one is proved and in no run: it follows from one guard of each transaction.)
DecidedOnce ==
    [][\A m \in Messages : ingress[m].status # "none" => ingress'[m] = ingress[m]]_vars

\* An accepted message has its job, and no two messages share one, whatever is
\* replayed in the middle of an admission (acceptIngressAndCreateJob).
OneJobPerMessage ==
    \A m, n \in Messages :
        /\ ingress[m].status = "accepted" => Exists(ingress[m].job)
        /\ ingress[m].status = "accepted" /\ ingress[n].status = "accepted"
             /\ ingress[m].job = ingress[n].job => m = n

\* What was said about a finished job is final: no transaction of any later
\* attempt, stale or not, changes its lifecycle or its delivery outcome.
FinishedIsFinal ==
    [][\A j \in Jobs :
          Exists(j) /\ jobs[j].lifecycle \in Absorbing =>
              /\ jobs'[j].lifecycle = jobs[j].lifecycle
              /\ jobs[j].lifecycle = "completed" =>
                    jobs'[j].deliveryState = jobs[j].deliveryState]_vars
================================================================================
