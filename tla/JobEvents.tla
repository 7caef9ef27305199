------------------------------- MODULE JobEvents -------------------------------
(******************************************************************************)
(* The row of the `jobs` table and what appending one event does to it:        *)
(* src/engine/discord/store-event-writer.mjs (transitionFor, appendEvent) over *)
(* the tables of src/engine/discord/constants.mjs.                             *)
(*                                                                            *)
(* A row is a record.  `attempt` is the attempt_id column (NoAttempt is NULL), *)
(* `envelope` says whether job_recovery holds the sealed request of the job.   *)
(* Timestamps, summaries and metrics are left out, and so is the dedupe key: a *)
(* second attempt_reserved or attempt_started of one attempt id is a duplicate *)
(* that leaves the row alone.  No caller draws an id twice (randomUUID); where *)
(* a model lets it, it has more behaviours than the code, never fewer.         *)
(*                                                                            *)
(* An operator whose comment says "mutant" is a bug the code does not have; it *)
(* is used by no specification.                                               *)
(******************************************************************************)
EXTENDS FiniteSets

CONSTANTS Attempts,     \* the attempt ids (randomUUID) the runs may draw
          NoAttempt     \* attempt_id IS NULL

ASSUME NoAttemptIsNoAttempt == NoAttempt \notin Attempts

--------------------------------------------------------------------------------
(* constants.mjs *)

Absorbing == {"completed", "failed", "cancelled"}

Lifecycles ==
    {"queued", "running", "waiting_approval", "retry_wait", "result_ready",
     "delivering", "recovery_review"} \cup Absorbing

\* mutant: a failed job may be started again in place
RestartableTransitions ==
  [ l \in Lifecycles |->
      CASE l \in {"queued", "running", "failed"} -> Lifecycles
        [] l \in {"completed", "cancelled"}      -> {l}
        [] OTHER                                 -> Lifecycles \ {"queued", "running"} ]

AllowedTransitions ==
  [ queued           |-> {"queued", "running", "cancelled", "failed", "recovery_review"},
    running          |-> {"queued", "running", "waiting_approval", "retry_wait",
                          "result_ready", "delivering", "failed", "cancelled",
                          "recovery_review"},
    waiting_approval |-> {"queued", "waiting_approval", "running", "cancelled",
                          "failed", "recovery_review"},
    retry_wait       |-> {"retry_wait", "queued", "running", "cancelled", "failed",
                          "recovery_review"},
    result_ready     |-> {"queued", "result_ready", "delivering", "completed",
                          "cancelled", "failed", "recovery_review"},
    delivering       |-> {"delivering", "completed", "retry_wait",
                          "recovery_review", "failed"},
    recovery_review  |-> {"recovery_review", "queued", "completed", "failed",
                          "cancelled"},
    completed        |-> {"completed"},
    failed           |-> {"failed"},
    cancelled        |-> {"cancelled"} ]

--------------------------------------------------------------------------------
(* store-event-writer.mjs *)

RunningKinds ==
    {"attempt_started", "backend_ready", "phase_changed", "output_activity",
     "progress_reported", "tool_started", "tool_finished", "checkpoint_saved"}

DeliveryEndKinds == {"delivery_unknown", "delivery_failed", "delivery_confirmed"}

\* transitionFor: kinds that name no lifecycle leave the current one
TransitionFor(kind, current) ==
    CASE kind \in RunningKinds                        -> "running"
      [] kind \in {"recovered", "profile_replaced"}   -> "queued"
      [] kind = "recovery_review_required"            -> "recovery_review"
      [] kind = "attempt_succeeded"                   -> "result_ready"
      [] kind = "approval_required"                   -> "waiting_approval"
      [] kind = "retry_scheduled"                     -> "retry_wait"
      [] kind = "delivery_started"                    -> "delivering"
      [] kind \in DeliveryEndKinds \cup {"completed"} -> "completed"
      [] kind = "failed"                              -> "failed"
      [] kind = "cancelled"                           -> "cancelled"
      [] OTHER                                        -> current

DeliveryStates == {"not_started", "sending", "delivered", "unknown", "failed"}
RecoveryStates == {"none", "resuming", "review_required"}

Row == [ lifecycle     : Lifecycles,
         attempt       : Attempts \cup {NoAttempt},
         childAlive    : BOOLEAN,
         deliveryState : DeliveryStates,
         recoveryState : RecoveryStates,
         envelope      : BOOLEAN ]

\* the row a job is inserted with, its job_accepted event included
FreshRow(envelope) ==
    [ lifecycle |-> "queued", attempt |-> NoAttempt, childAlive |-> FALSE,
      deliveryState |-> "not_started", recoveryState |-> "none",
      envelope |-> envelope ]

\* mutant: a late event of an earlier attempt is let through
StaleUnchecked(row, kind, attempt) == FALSE

\* an event that names an attempt other than the current one is stale
Stale(row, kind, attempt) ==
    /\ attempt # NoAttempt
    /\ kind \notin {"attempt_reserved", "attempt_started"}
    /\ row.attempt # NoAttempt
    /\ attempt # row.attempt

\* appendEvent throws (and its transaction rolls back) unless this holds
Appendable(row, kind, attempt) ==
    /\ ~Stale(row, kind, attempt)
    /\ TransitionFor(kind, row.lifecycle) \in AllowedTransitions[row.lifecycle]

EndsChild(kind) ==
    kind \in {"attempt_exited", "failed", "completed", "cancelled", "recovered",
              "recovery_review_required", "delivery_unknown", "delivery_failed"}

\* mutant: a cancelled job keeps its sealed request
DropsEnvelopeWhenDone(kind) ==
    kind \in {"delivery_confirmed", "completed", "recovery_review_required"}

DropsEnvelope(kind) ==
    kind \in {"delivery_confirmed", "completed", "cancelled",
              "recovery_review_required"}

\* the UPDATE and the DELETE of appendEvent
Appended(row, kind, attempt) ==
    [ lifecycle     |-> TransitionFor(kind, row.lifecycle),
      attempt       |-> IF attempt = NoAttempt THEN row.attempt ELSE attempt,
      childAlive    |-> (kind = "attempt_started")
                        \/ (row.childAlive /\ ~EndsChild(kind)),
      deliveryState |-> CASE kind = "delivery_started"   -> "sending"
                          [] kind = "delivery_confirmed" -> "delivered"
                          [] kind = "delivery_unknown"   -> "unknown"
                          [] kind = "delivery_failed"    -> "failed"
                          [] OTHER                       -> row.deliveryState,
      recoveryState |-> CASE kind = "recovered"                -> "resuming"
                          [] kind = "recovery_review_required" -> "review_required"
                          [] OTHER                             -> row.recoveryState,
      envelope      |-> row.envelope /\ ~DropsEnvelope(kind) ]

\* UPDATE jobs SET attempt_id = NULL, child_alive = 0
Detached(row) == [row EXCEPT !.attempt = NoAttempt, !.childAlive = FALSE]
================================================================================
