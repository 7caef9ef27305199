----------------------------- MODULE DiscordService -----------------------------
(******************************************************************************)
(* The running Discord service over its session store: admission of messages,  *)
(* the scoped queue, one #run per active job with its backend child and the     *)
(* send of the answer, operator control, the watchdog, clean shutdown, crash    *)
(* and startup recovery.                                                      *)
(*                                                                            *)
(*   src/engine/discord/discord-router.mjs    DiscordMessageRouter             *)
(*   src/engine/discord/backend-runner.mjs    runBackendAttempt                *)
(*   src/engine/discord/discord-delivery.mjs  deliverJobResult                 *)
(*   src/engine/discord/service-runtime.mjs   startup and cleanup              *)
(*                                                                            *)
(* An action is what one turn of the event loop does up to its next await.     *)
(* A turn with several store transactions is one action per transaction, and   *)
(* while it is between two of them nothing but a crash may happen (Turn).      *)
(* What the store does is SessionLedger's: Ledger!RecordEvent and so on.       *)
(******************************************************************************)
EXTENDS JobEvents, Sequences, Naturals

CONSTANTS
    Jobs, NoJob, Messages,
    ScopeOf,          \* the conversation scope of a message
    NoScope,
    MaxConcurrent,    \* runtime.maxConcurrentJobs
    MaxQueued,        \* MAX_QUEUED_TURNS
    MaxScopeQueued,   \* MAX_SCOPE_QUEUED_TURNS
    AutoRetry,        \* recovery.autoRetry
    SlowHook,         \* an attention hook that really awaits
    StoreFaults,      \* SQLite may refuse a write (SQLITE_BUSY)
    MaxStarts         \* bound: how often the service is started

ASSUME LimitsArePositive == /\ MaxConcurrent \in Nat \ {0} /\ MaxQueued \in Nat \ {0}
                            /\ MaxStarts \in Nat
ASSUME SwitchesAreBoolean == {AutoRetry, SlowHook, StoreFaults} \subseteq BOOLEAN
ASSUME NoJobIsNoRow == NoJob \notin Jobs /\ NoJob \notin Row

VARIABLES
    jobs, deliveries, ingress,   \* the store, as in SessionLedger
    about,      \* by job: its scope_key, and whether its profile may write
    drawn,      \* by attempt id: the job that drew it
    executed,   \* attempts whose child was attached
    status,     \* where the process is between start and stop
    admitting,  \* dispatches awaiting the attention hook
    queue,      \* the router's queue of jobs
    run,        \* by job: its #run, or Idle
    replacing,  \* the turn inside replaceJob: <<old, new>>, or <<>>
    toResume,   \* the turn inside resumeRecovered: the jobs still to be looked at
    wire,       \* attempts whose answer is on its way to Discord
    posted,     \* attempts whose answer Discord has
    starts      \* how often the service was started

store == <<jobs, deliveries, ingress>>
facts == <<about, drawn, executed>>
network == <<wire, posted>>
process == <<status, admitting, queue, run, replacing, toResume, starts>>
vars == <<store, facts, network, process>>

Ledger == INSTANCE SessionLedger

Statuses == {"down", "resuming", "up", "flushing", "stopping", "draining"}
Stages == {"idle", "starting", "spawning", "child", "exited", "answering", "dm",
           "sending", "unsent", "reporting"}

Idle == [stage |-> "idle", attempt |-> NoAttempt, abort |-> "none", term |-> "none",
         outcome |-> "none"]
Starting == [Idle EXCEPT !.stage = "starting"]

RunState ==
    [ stage   : Stages,
      attempt : Attempts \cup {NoAttempt},
      abort   : {"none", "cancel", "no_progress", "recovery"},   \* signal.reason
      term    : {"none", "cancelled", "recovery", "failed"},     \* terminationReason
      outcome : {"none", "success", "failure"} ]                 \* backendOutcome

TypeOK ==
    /\ Ledger!TypeOK
    /\ about \in [Jobs -> [scope : {ScopeOf[m] : m \in Messages} \cup {NoScope},
                           writable : BOOLEAN]]
    /\ drawn \in [Attempts -> Jobs \cup {NoJob}]
    /\ executed \subseteq Attempts
    /\ status \in Statuses
    /\ admitting \subseteq Messages
    /\ queue \in Seq(Jobs)
    /\ run \in [Jobs -> RunState]
    /\ replacing \in {<<>>} \cup (Jobs \X Jobs)
    /\ toResume \subseteq Jobs
    /\ wire \subseteq Attempts /\ posted \subseteq Attempts
    /\ starts \in 0..MaxStarts

Init ==
    /\ Ledger!Init
    /\ about = [j \in Jobs |-> [scope |-> NoScope, writable |-> FALSE]]
    /\ drawn = [a \in Attempts |-> NoJob]
    /\ executed = {}
    /\ status = "down" /\ admitting = {} /\ queue = <<>> /\ run = [j \in Jobs |-> Idle]
    /\ replacing = <<>> /\ toResume = {}
    /\ wire = {} /\ posted = {}
    /\ starts = 0

--------------------------------------------------------------------------------
(* The queue and the event loop *)

Stage(j) == run[j].stage
Active(r) == {j \in Jobs : r[j].stage # "idle"}
Queued(j) == \E i \in DOMAIN queue : queue[i] = j

\* q without the jobs in gone: the n-th item is the one with n - 1 that stay before it
Minus(q, gone) ==
    LET left == {i \in DOMAIN q : q[i] \notin gone}
    IN  [n \in 1..Cardinality(left) |->
            q[CHOOSE i \in left : Cardinality({k \in left : k < i}) = n - 1]]

Without(q, j) == Minus(q, {j})

\* A turn of the event loop may begin: none is between two of its transactions.
Turn ==
    /\ status \in {"up", "stopping", "draining"}
    /\ replacing = <<>>
    /\ \A j \in Jobs : Stage(j) \notin {"exited", "answering"}

\* mutant: the scopes that are busy are not looked at
StartedAnyScope(q, r) ==
    {q[i] : i \in {n \in DOMAIN q : Cardinality(Active(r)) + n <= MaxConcurrent}}

\* what #drain starts: per free scope the first item, while there is room
Started(q, r) ==
    LET busy == {about'[j].scope : j \in Active(r)}
        startable == {i \in DOMAIN q :
                        /\ about'[q[i]].scope \notin busy
                        /\ \A k \in 1..(i - 1) : about'[q[k]].scope # about'[q[i]].scope}
    IN  {q[i] : i \in {n \in startable :
                         Cardinality(Active(r))
                           + Cardinality({k \in startable : k < n}) < MaxConcurrent}}

\* #drain: the queue and the runs after it
Drain(q, r) ==
    /\ queue' = Minus(q, Started(q, r))
    /\ run' = [j \in Jobs |-> IF j \in Started(q, r) THEN Starting ELSE r[j]]

\* mutant: the finally does not drain
EndRunOnly(j) == run' = [run EXCEPT ![j] = Idle] /\ UNCHANGED queue

\* the finally of #run, and #drain after it
EndRun(j) == Drain(queue, [run EXCEPT ![j] = Idle])

To(j, stage) ==
    /\ run' = [run EXCEPT ![j].stage = stage]
    /\ UNCHANGED queue

\* #reportFailure: a notice is sent, and awaited, only of a failed or parked job
Report(j) ==
    IF jobs'[j].lifecycle \in {"failed", "recovery_review"}
    THEN To(j, "reporting")
    ELSE EndRun(j)

Ended(row) == row.lifecycle \in Absorbing \cup {"recovery_review"}

\* the catch of #run; an event that is refused is forgotten
Catch(j) ==
    LET kind == IF run[j].abort = "cancel" THEN "cancelled" ELSE "failed"
        refusable == StoreFaults \/ ~Appendable(jobs[j], kind, jobs[j].attempt)
    IN  /\ \/ ~Ended(jobs[j]) /\ Ledger!RecordEvent(j, kind, jobs[j].attempt)
           \/ (Ended(jobs[j]) \/ refusable) /\ UNCHANGED store
        /\ Report(j)

\* abort of the controller of j: a second abort keeps the first reason, and only
\* an attached child listens
Aborted(r, why) ==
    IF r.stage = "idle" \/ r.abort # "none" THEN r
    ELSE [r EXCEPT !.abort = why,
                   !.term = IF r.stage # "child" \/ r.term # "none" THEN @
                            ELSE CASE why = "cancel"      -> "cancelled"
                                   [] why = "recovery"    -> "recovery"
                                   [] why = "no_progress" -> "failed"]

Abort(j, why) == run' = [run EXCEPT ![j] = Aborted(@, why)] /\ UNCHANGED queue

\* what every turn of a run leaves alone
RunOnly == UNCHANGED <<status, admitting, replacing, toResume, starts>>

--------------------------------------------------------------------------------
(* Admission: onDispatch *)

QueueFull(scope) ==
    \/ Len(queue) >= MaxQueued
    \/ Cardinality({i \in DOMAIN queue : about[queue[i]].scope = scope}) >= MaxScopeQueued

\* onDispatch up to the await of the attention hook: the only look at `accepting`
BeginDispatch(m) ==
    /\ SlowHook
    /\ Turn
    /\ status = "up"
    /\ m \notin admitting
    /\ admitting' = admitting \cup {m}
    /\ UNCHANGED <<store, facts, network, status, queue, run, replacing, toResume, starts>>

\* the rest of onDispatch is one turn; without a hook that awaits, all of it is
Dispatching(m) ==
    /\ Turn
    /\ IF SlowHook THEN m \in admitting ELSE status = "up"
    /\ admitting' = admitting \ {m}

\* unauthorized, queue full, invalid prompt, policy...; or the hook or a command
DecideMessage(m, decision) ==
    /\ Dispatching(m)
    /\ Ledger!ReserveIngress(m, decision)
    /\ UNCHANGED <<facts, network, status, queue, run, replacing, toResume, starts>>

\* a replayed message; nothing is decided again
DropDuplicate(m) ==
    /\ Dispatching(m)
    /\ ingress[m].status # "none"
    /\ UNCHANGED <<store, facts, network, status, queue, run, replacing, toResume, starts>>

AdmitMessage(m, j, writable) ==
    /\ Dispatching(m)
    /\ ~QueueFull(ScopeOf[m])
    /\ Ledger!AcceptIngress(m, j, TRUE)
    /\ about' = [about EXCEPT ![j] = [scope |-> ScopeOf[m], writable |-> writable]]
    /\ Drain(Append(queue, j), run)
    /\ UNCHANGED <<drawn, executed, network, status, replacing, toResume, starts>>

--------------------------------------------------------------------------------
(* One run: #run and runBackendAttempt *)

\* aborted while loading the history or probing: abortedResult, which knows only
\* "recovery" and calls every other reason cancelled
AbortedStart(j) ==
    /\ Turn
    /\ Stage(j) = "starting"
    /\ run[j].abort # "none"
    /\ Ledger!RecordEvent(j, IF run[j].abort = "recovery" THEN "recovered" ELSE "cancelled",
                          NoAttempt)
    /\ RunOnly /\ UNCHANGED <<facts, network>>
    /\ EndRun(j)

\* context changed, policy, probe, authentication, invocation...
StartFails(j) ==
    /\ Turn
    /\ Stage(j) = "starting"
    /\ RunOnly /\ UNCHANGED <<facts, network>>
    /\ Catch(j)

Reserve(j, a) ==
    /\ Turn
    /\ Stage(j) = "starting"
    /\ run[j].abort = "none"
    /\ drawn[a] = NoJob
    /\ Ledger!ReserveAttempt(j, a)
    /\ drawn' = [drawn EXCEPT ![a] = j]
    /\ run' = [run EXCEPT ![j] = [@ EXCEPT !.stage = "spawning", !.attempt = a]]
    /\ RunOnly /\ UNCHANGED <<queue, about, executed, network>>

\* the second preSpawnCheck, the spawn, the ownership or the attach failed; the
\* reservation is released, unless the child could not be confirmed dead
SpawnFails(j) ==
    /\ Turn
    /\ Stage(j) = "spawning"
    /\ RunOnly /\ UNCHANGED <<facts, network>>
    /\ \/ Ledger!FailAttempt(j, run[j].attempt, TRUE) /\ Report(j)
       \/ Catch(j)

\* attachAttempt; the signal is looked at again once the listener is installed
Attach(j) ==
    /\ Turn
    /\ Stage(j) = "spawning"
    /\ Ledger!AttachAttempt(j, run[j].attempt)
    /\ executed' = executed \cup {run[j].attempt}
    /\ run' = [run EXCEPT ![j] =
                 LET attached == [@ EXCEPT !.stage = "child", !.abort = "none"]
                 IN  IF @.abort = "none" THEN attached ELSE Aborted(attached, @.abort)]
    /\ RunOnly /\ UNCHANGED <<queue, about, drawn, network>>

\* recordLine: failure is sticky
Output(j, outcome) ==
    /\ Turn
    /\ Stage(j) = "child"
    /\ run[j].outcome \in {"none", "success"} \ {outcome}
    /\ run' = [run EXCEPT ![j].outcome = outcome]
    /\ RunOnly /\ UNCHANGED <<queue, store, facts, network>>

\* terminate: timeout, approval prompt, broken stream, stdin error
EndEarly(j) ==
    /\ Turn
    /\ Stage(j) = "child"
    /\ run[j].term = "none"
    /\ run' = [run EXCEPT ![j].term = "failed"]
    /\ RunOnly /\ UNCHANGED <<queue, store, facts, network>>

\* The child is gone and its streams are drained: attempt_exited. A bad exit, an
\* invalid result file or a pending failure reason may spoil what the backend said,
\* and an unconfirmed cleanup spoils everything.
ChildExits(j, spoiled, unconfirmed) ==
    /\ Turn
    /\ Stage(j) = "child"
    /\ RunOnly /\ UNCHANGED <<facts, network>>
    /\ Ledger!RecordEvent(j, "attempt_exited", run[j].attempt)
    /\ \E term \in IF unconfirmed THEN {"failed"}
                   ELSE IF run[j].term = "none" THEN {"none", "failed"} ELSE {run[j].term} :
          run' = [run EXCEPT ![j] =
                    [@ EXCEPT !.stage = "exited", !.term = term,
                              !.outcome = IF spoiled \/ unconfirmed THEN "failure"
                                          ELSE run[j].outcome]]
    /\ UNCHANGED queue

\* mutant: what the backend said counts before why it ended
FinalKindByOutcome(r) ==
    CASE r.outcome = "success" -> "attempt_succeeded"
      [] r.term = "cancelled"  -> "cancelled"
      [] r.term = "recovery"   -> "recovered"
      [] OTHER                 -> "failed"

FinalKind(r) ==
    CASE r.term = "cancelled" -> "cancelled"
      [] r.term = "recovery"  -> "recovered"
      [] r.term = "failed"    -> "failed"
      [] r.term = "none"      -> IF r.outcome = "success" THEN "attempt_succeeded" ELSE "failed"

\* Then the final event. The router looks at backendOutcome only: a backend that
\* reported success before it was terminated, or exited badly, goes on to its answer.
EndAttempt(j) ==
    /\ Stage(j) = "exited"
    /\ RunOnly /\ UNCHANGED <<facts, network>>
    /\ Ledger!RecordEvent(j, FinalKind(run[j]), run[j].attempt)
    /\ IF run[j].outcome = "success" THEN To(j, "answering") ELSE Report(j)

\* one of the two is refused, and the runner throws
EndUnrecorded(j) ==
    /\ StoreFaults
    /\ \/ Turn /\ Stage(j) = "child"
       \/ Stage(j) = "exited"
    /\ RunOnly /\ UNCHANGED <<facts, network>>
    /\ Catch(j)

--------------------------------------------------------------------------------
(* The answer: the rest of #run, and deliverJobResult *)

\* the request to Discord is on its way, unless the signal was aborted already
Send(j) ==
    /\ Ledger!StartDelivery(j, run[j].attempt)
    /\ IF run[j].abort = "none"
       THEN To(j, "sending") /\ wire' = wire \cup {run[j].attempt}
       ELSE To(j, "unsent") /\ UNCHANGED wire

Sendable(j) ==
    /\ deliveries[j][run[j].attempt] = "none"
    /\ Appendable(jobs[j], "delivery_started", run[j].attempt)

Deliver(j) ==
    /\ \/ Stage(j) = "answering"
       \/ Turn /\ Stage(j) = "dm"
    /\ RunOnly /\ UNCHANGED <<facts, posted>>
    /\ \/ Sendable(j) /\ Send(j)
       \/ (StoreFaults \/ ~Sendable(j)) /\ Catch(j) /\ UNCHANGED wire

\* a direct message was asked for, and is awaited first
AskDirectMessage(j) ==
    /\ Stage(j) = "answering"
    /\ To(j, "dm")
    /\ RunOnly /\ UNCHANGED <<store, facts, network>>

\* success without a final result
NoResult(j) ==
    /\ Stage(j) = "answering"
    /\ RunOnly /\ UNCHANGED <<facts, network>>
    /\ Catch(j)

\* Discord takes the message, or never gets it
Arrives(a) ==
    /\ a \in wire
    /\ wire' = wire \ {a}
    /\ posted' = posted \cup {a}
    /\ UNCHANGED <<store, facts, process>>

IsLost(a) ==
    /\ a \in wire
    /\ wire' = wire \ {a}
    /\ UNCHANGED <<store, facts, process, posted>>

\* what the one HTTP attempt may report
Receipts(j) ==
    {s \in {"confirmed", "failed", "unknown"} :
        /\ Stage(j) = "unsent" => s = "unknown"
        /\ s = "confirmed" => run[j].attempt \in posted
        /\ s = "failed" => run[j].attempt \notin posted \cup wire}

SendEnds(j, receipt) ==
    /\ Turn
    /\ Stage(j) \in {"sending", "unsent"}
    /\ receipt \in Receipts(j)
    /\ RunOnly /\ UNCHANGED <<facts, network>>
    /\ Ledger!FinishDelivery(j, run[j].attempt, receipt)
    /\ EndRun(j)

\* mutant: a receipt that cannot be stored is stored as a failure
SendEndsAsFailed(j, receipt) ==
    /\ StoreFaults
    /\ Turn
    /\ Stage(j) \in {"sending", "unsent"}
    /\ receipt \in Receipts(j)
    /\ RunOnly /\ UNCHANGED <<facts, network>>
    /\ Ledger!FinishDelivery(j, run[j].attempt, "failed")
    /\ EndRun(j)

\* The receipt cannot be stored. A confirmed one is stored as unknown if that
\* works, and forgotten if not; any other reaches the catch of #run.
SendEndsUnstored(j, receipt) ==
    /\ StoreFaults
    /\ Turn
    /\ Stage(j) \in {"sending", "unsent"}
    /\ receipt \in Receipts(j)
    /\ RunOnly /\ UNCHANGED <<facts, network>>
    /\ IF receipt = "confirmed"
       THEN /\ \/ Ledger!FinishDelivery(j, run[j].attempt, "unknown")
               \/ UNCHANGED store
            /\ EndRun(j)
       ELSE Catch(j)

\* mutant: a notice that is aborted by the shutdown never settles
ReportEndsWhileUp(j) ==
    /\ Turn
    /\ status = "up"
    /\ Stage(j) = "reporting"
    /\ RunOnly /\ UNCHANGED <<store, facts, network>>
    /\ EndRun(j)

ReportEnds(j) ==
    /\ Turn
    /\ Stage(j) = "reporting"
    /\ RunOnly /\ UNCHANGED <<store, facts, network>>
    /\ EndRun(j)

--------------------------------------------------------------------------------
(* Operator control and the watchdog; their timers run while the service is up *)

\* what these turns leave alone
ControlOnly == UNCHANGED <<network, drawn, executed, status, admitting, toResume, starts>>

\* cancelJob of a queued job: out of the queue first, recorded then
CancelQueued(j) ==
    /\ Turn
    /\ status = "up"
    /\ Queued(j)
    /\ queue' = Without(queue, j)
    /\ \/ Ledger!RecordEvent(j, "cancelled", NoAttempt)
       \/ StoreFaults /\ UNCHANGED store
    /\ ControlOnly /\ UNCHANGED <<about, run, replacing>>

\* cancelJob of a running one
CancelActive(j) ==
    /\ Turn
    /\ status = "up"
    /\ Stage(j) # "idle"
    /\ run[j].abort = "none"
    /\ Abort(j, "cancel")
    /\ ControlOnly /\ UNCHANGED <<store, about, replacing>>

\* the job whose request replaceJob may take over
Replaceable(j) ==
    \/ Queued(j)
    \/ Stage(j) # "idle"
    \/ Ledger!Exists(j) /\ jobs[j].lifecycle = "failed" /\ jobs[j].envelope

\* replaceJob: the replacement is created ...
Replace(j, r, writable) ==
    /\ Turn
    /\ status = "up"
    /\ Replaceable(j)
    /\ Ledger!CreateJob(r, TRUE)
    /\ about' = [about EXCEPT ![r] = [scope |-> about[j].scope, writable |-> writable]]
    /\ replacing' = <<j, r>>
    /\ ControlOnly /\ UNCHANGED <<queue, run>>

\* ... the job it replaces is withdrawn (what cancelJob answers is not looked at),
\* and it is queued, whatever the length of the queue
FinishReplace(old, new) ==
    /\ replacing = <<old, new>>
    /\ replacing' = <<>>
    /\ ControlOnly /\ UNCHANGED about
    /\ \/ /\ Queued(old)
          /\ Ledger!RecordEvent(old, "cancelled", NoAttempt)
          /\ Drain(Append(Without(queue, old), new), run)
       \/ /\ ~Queued(old) /\ Stage(old) # "idle"
          /\ UNCHANGED store
          /\ Drain(Append(queue, new), [run EXCEPT ![old] = Aborted(@, "cancel")])
       \/ /\ ~Queued(old) /\ Stage(old) = "idle"
          /\ Ledger!DeleteRecovery(old)
          /\ Drain(Append(queue, new), run)
       \/ /\ StoreFaults
          /\ queue' = Without(queue, old)
          /\ UNCHANGED <<store, run>>

\* watchdog: only a running job is ever found without progress; the ones that wait
\* are not, whatever they wait for
Watchdog(j) ==
    /\ Turn
    /\ status = "up"
    /\ Ledger!Exists(j) /\ jobs[j].lifecycle = "running"
    /\ \/ /\ Stage(j) # "idle" /\ run[j].abort = "none"
          /\ Abort(j, "no_progress")
          /\ UNCHANGED store
       \/ /\ Stage(j) = "idle"
          /\ Ledger!RecordEvent(j, "failed", jobs[j].attempt)
          /\ UNCHANGED <<queue, run>>
    /\ ControlOnly /\ UNCHANGED <<about, replacing>>

--------------------------------------------------------------------------------
(* Shutdown, crash and start *)

\* cleanupDiscordServiceResources calls shutdown: every controller is aborted ...
Shutdown ==
    /\ Turn
    /\ status = "up"
    /\ status' = IF queue = <<>> THEN "stopping" ELSE "flushing"
    /\ run' = [j \in Jobs |-> Aborted(run[j], "recovery")]
    /\ UNCHANGED <<store, facts, network, admitting, queue, replacing, toResume, starts>>

\* ... and the queue is handed to the next start, job by job
FlushQueue(j) ==
    /\ status = "flushing"
    /\ j = Head(queue)
    /\ \/ Ledger!RecordEvent(j, "recovered", NoAttempt)
       \/ StoreFaults /\ UNCHANGED store
    /\ queue' = Tail(queue)
    /\ status' = IF Len(queue) = 1 THEN "stopping" ELSE "flushing"
    /\ UNCHANGED <<facts, network, admitting, run, replacing, toResume, starts>>

\* mutant: only the queue is waited for
IdleByQueue ==
    /\ Turn
    /\ status = "stopping"
    /\ queue = <<>>
    /\ status' = "draining"
    /\ UNCHANGED <<store, facts, network, admitting, queue, run, replacing, toResume, starts>>

\* waitForIdle has seen nothing to wait for; outbound messages and the dispatches of
\* the last gateway session are waited for next
IdleReached ==
    /\ Turn
    /\ status = "stopping"
    /\ queue = <<>> /\ Active(run) = {}
    /\ status' = "draining"
    /\ UNCHANGED <<store, facts, network, admitting, queue, run, replacing, toResume, starts>>

\* what a process that ends takes with it
Gone ==
    /\ status' = "down"
    /\ admitting' = {} /\ queue' = <<>> /\ run' = [j \in Jobs |-> Idle]
    /\ replacing' = <<>> /\ toResume' = {}
    /\ UNCHANGED <<store, facts, network, starts>>

\* the store is closed and the token released
Close ==
    /\ Turn
    /\ status = "draining"
    /\ Gone

Crash ==
    /\ status # "down"
    /\ Gone

\* recoverInterruptedWork, before anything else happens
Start ==
    /\ status = "down"
    /\ starts < MaxStarts
    /\ starts' = starts + 1
    /\ Ledger!RecoverInterruptedWork
    /\ toResume' = {j \in Jobs : Ledger!Interrupted(j) /\ Ledger!RecoveryKind(j) = "recovered"}
    /\ status' = IF toResume' = {} THEN "up" ELSE "resuming"
    /\ UNCHANGED <<facts, network, admitting, queue, run, replacing>>

\* mutant: a recovered job may write again
ResumeWritable(j) ==
    /\ status = "resuming"
    /\ j \in toResume
    /\ toResume' = toResume \ {j}
    /\ status' = IF toResume' = {} THEN "up" ELSE "resuming"
    /\ UNCHANGED <<store, facts, network, admitting, replacing, starts>>
    /\ IF toResume' = {} THEN Drain(Append(queue, j), run)
                         ELSE queue' = Append(queue, j) /\ UNCHANGED run

\* mutant: a job that may not be queued again is passed over
ResumeSkips(j) ==
    /\ status = "resuming"
    /\ j \in toResume
    /\ toResume' = toResume \ {j}
    /\ status' = IF toResume' = {} THEN "up" ELSE "resuming"
    /\ UNCHANGED <<store, facts, network, admitting, queue, run, replacing, starts>>

\* resumeRecovered looks at one job: only a read-only one may be queued again, and
\* that only if nothing it depends on has changed
ResumeOne(j) ==
    /\ status = "resuming"
    /\ j \in toResume
    /\ toResume' = toResume \ {j}
    /\ status' = IF toResume' = {} THEN "up" ELSE "resuming"
    /\ UNCHANGED <<facts, network, admitting, replacing, starts>>
    /\ \E again \in BOOLEAN :
          /\ again => AutoRetry /\ ~about[j].writable
          /\ IF again THEN UNCHANGED store ELSE Ledger!ParkRecovered(j)
          /\ LET q == IF again THEN Append(queue, j) ELSE queue
             IN  IF toResume' = {} THEN Drain(q, run) ELSE queue' = q /\ UNCHANGED run

--------------------------------------------------------------------------------

Admission ==
    \E m \in Messages :
        \/ BeginDispatch(m)
        \/ \E decision \in {"rejected", "handled"} : DecideMessage(m, decision)
        \/ DropDuplicate(m)
        \/ \E j \in Jobs, writable \in BOOLEAN : AdmitMessage(m, j, writable)

\* what a run does by itself, and must get on with
RunStep(j) ==
    \/ AbortedStart(j) \/ StartFails(j)
    \/ \E a \in Attempts : Reserve(j, a)
    \/ SpawnFails(j) \/ Attach(j)
    \/ \E spoiled, unconfirmed \in BOOLEAN : ChildExits(j, spoiled, unconfirmed)
    \/ EndAttempt(j) \/ EndUnrecorded(j)
    \/ Deliver(j) \/ AskDirectMessage(j) \/ NoResult(j)
    \/ \E receipt \in {"confirmed", "failed", "unknown"} :
          SendEnds(j, receipt) \/ SendEndsUnstored(j, receipt)
    \/ ReportEnds(j)

Child(j) == EndEarly(j) \/ \E outcome \in {"success", "failure"} : Output(j, outcome)

Control ==
    \/ \E j \in Jobs : CancelQueued(j) \/ CancelActive(j) \/ Watchdog(j)
    \/ \E j, r \in Jobs, writable \in BOOLEAN : Replace(j, r, writable)
    \/ \E old, new \in Jobs : FinishReplace(old, new)

Stopping == (\E j \in Jobs : FlushQueue(j)) \/ IdleReached \/ Close

Next ==
    \/ Admission
    \/ \E j \in Jobs : RunStep(j) \/ Child(j)
    \/ \E a \in Attempts : Arrives(a) \/ IsLost(a)
    \/ Control
    \/ Shutdown \/ Stopping \/ Crash
    \/ Start \/ \E j \in Jobs : ResumeOne(j)

Spec == Init /\ [][Next]_vars

\* The scheduling the code has: a run gets on, because what it awaits ends by a
\* timer (the child at its time limit and SIGKILL, an HTTP request at 15 s, a
\* failure notice likewise) or at once, and a turn runs to its end. Nothing is
\* assumed of messages, operators, the watchdog, or of what the child prints.
Fairness ==
    /\ \A j \in Jobs : WF_vars(RunStep(j)) /\ WF_vars(ResumeOne(j))
    /\ \A old, new \in Jobs : WF_vars(FinishReplace(old, new))
    /\ WF_vars(Stopping)

FairSpec == Spec /\ Fairness

--------------------------------------------------------------------------------
(* Properties *)

\* Every step is one transaction of SessionLedger or none: so it is written, since the
\* code writes to the store in transactions only. What holds of the ledger under any
\* order of transactions therefore holds here. (The calls of router, runner and delivery
\* on SessionStore.)
ImplementsLedger == Ledger!Spec

\* Turns of one conversation run one at a time, and no more than maxConcurrentJobs
\* run at all: after any end of a run, replacement, recovery or late admission.
\* (#drain and the finally behind it.)
ScopeSerial ==
    /\ Cardinality(Active(run)) <= MaxConcurrent
    /\ \A i, j \in Active(run) : about[i].scope = about[j].scope => i = j

\* While the service is up no job is forgotten: between two turns, one that has not
\* ended is in the queue, once, or has a run. (What #run, replaceJob and
\* resumeRecovered leave behind when a step in their middle fails.)
NoOrphan ==
    status = "up" /\ Turn =>
        \A j \in Jobs :
            LET places == {i \in DOMAIN queue : queue[i] = j}
            IN  /\ Cardinality(places) <= 1
                /\ Ledger!Exists(j) /\ ~Ended(jobs[j])
                     => places # {} <=> Stage(j) = "idle"

Outgoing == wire \cup posted

\* A request is answered once: whatever was retried, recovered or sent with an
\* unknown end, Discord never gets the answers of two attempts of one job.
OneAnswer ==
    \A a, b \in Outgoing : drawn[a] = drawn[b] => a = b

\* The three outcomes are told apart truthfully: a job whose answer may be with
\* Discord is never shown as not sent or failed to send, and one shown as delivered
\* has an answer there. ("Confirmed, failed, and unknown are never merged.")
TruthfulOutcome ==
    \A a \in Attempts, j \in Jobs :
        drawn[a] = j =>
            /\ a \in Outgoing => jobs[j].deliveryState \in {"sending", "delivered", "unknown"}
            /\ a \notin posted => deliveries[j][a] # "confirmed"

\* A job whose profile may write is executed at most once, over every crash,
\* shutdown and start: what it wrote may not be written again.
WritableRunsOnce ==
    \A a, b \in executed : drawn[a] = drawn[b] /\ about[drawn[a]].writable => a = b

\* Once the send of an answer was begun, no backend is started for that job again.
NoRunAfterSend ==
    [][\A a \in executed' \ executed, b \in Attempts : deliveries[drawn[a]][b] = "none"]_vars

\* An answer sets out only for an attempt that ended by itself and reported success.
\* (The router looks at backendOutcome only, and so comes to deliverJobResult with an
\* attempt that was cancelled, recovered or failed as well; that no request leaves
\* then is the store's doing, which refuses delivery_started after such an end.)
SendEarned ==
    [][\A a \in wire' \ wire :
          LET r == run[drawn[a]]
          IN  r.attempt = a /\ r.term = "none" /\ r.outcome = "success"]_vars

\* The store is never closed, and the token never released, under a running child.
CleanStop ==
    [][status = "draining" /\ status' = "down" => Active(run) = {}]_vars

\* Every admitted job ends: as long as the service stays up, no request is left
\* hanging, whatever is cancelled, replaced or found without progress meanwhile.
EveryJobEnds ==
    \A j \in Jobs :
        status = "up" /\ Ledger!Exists(j)
          ~> status # "up" \/ (Ledger!Exists(j) /\ Ended(jobs[j]))

\* A shutdown comes to its end: no run is waited for that never comes back.
StopEnds == status \in {"flushing", "stopping"} ~> status = "down"
================================================================================
