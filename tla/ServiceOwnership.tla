------------------------ MODULE ServiceOwnership ------------------------
(***************************************************************************)
(* Which process owns the store of one instance, and who believes it: the   *)
(* service_state row with its heartbeats, the launches that write it (a     *)
(* generation each), the supervisor that projects health from it, the stop  *)
(* command of Windows and the cutover canary.  The token lock keeps two     *)
(* launches with one token apart; after the credential changed only the row *)
(* does.  A job of the canary is stamped with the generation the row names. *)
(* The specification has names of its own (OwnershipInit, OwnershipSpec): a  *)
(* service also holds a TokenOwnerLock, and one module proves of both.       *)
(***************************************************************************)
EXTENDS Naturals

CONSTANTS
    Launches,       \* launches 1..n, in order; a launch's generation is its number
    Tokens,         \* credentials a launch can find
    NoToken,
    MaxTime,        \* bound on the clock
    StaleAfter,     \* DEFAULT_SERVICE_STALE_MS
    FreshFor        \* DEFAULT_SUPERVISOR_FRESH_MS

ASSUME OwnershipAssumption ==
    /\ Launches \subseteq Nat \ {0} /\ NoToken \notin Tokens
    /\ MaxTime \in Nat \ {0} /\ StaleAfter \in Nat /\ FreshFor \in Nat

VARIABLES
    now,
    proc,       \* per launch: its step, revision, token and whether it fails
    reused,     \* dead launches whose pid another program now has
    booted,     \* launches of the current boot
    row,        \* service_state
    failed,     \* the startup failure file exists
    request,    \* generation in the stop request file, 0 if there is none
    job,        \* the canary's job
    snapshot,   \* the supervisor's last snapshot
    canary,     \* an evaluation of the canary
    stop        \* a stop command

ownershipVars == <<now, proc, reused, booted, row, failed, request, job, snapshot, canary, stop>>

Source == 1
Candidate == 2
Revisions == {Source, Candidate}
Times == 0..MaxTime
Generations == Launches \union {0}

NotLaunched == [at |-> "new", rev |-> 0, token |-> NoToken, error |-> FALSE]
Over(p) == [NotLaunched EXCEPT !.at = "gone", !.rev = p.rev]
NoJob == [at |-> "none", by |-> 0, runner |-> 0, accepting |-> 0, executing |-> 0,
          final |-> 0, recovered |-> FALSE]
NoSnapshot == [healthy |-> FALSE, time |-> 0, gen |-> 0]
NoCanary == [at |-> "none", time |-> 0, gen |-> 0, ok |-> FALSE, job |-> NoJob, snap |-> NoSnapshot]
NoStop == [at |-> "none", gen |-> 0, seen |-> 0]

OwnershipTypeOK ==
    /\ now \in Times /\ failed \in BOOLEAN /\ request \in Generations
    /\ proc \in [Launches ->
         [at : {"new", "starting", "up", "draining", "closing", "gone"},
          rev : Revisions \union {0}, token : Tokens \union {NoToken}, error : BOOLEAN]]
    /\ reused \subseteq Launches /\ booted \subseteq Launches
    /\ row \in [gen : Generations, running : BOOLEAN, beat : Times]
    /\ job.at \in {"none", "queued", "reserved", "running", "done", "failed"}
    /\ {job.by, job.runner, job.accepting, job.executing} \subseteq Generations
    /\ snapshot \in [healthy : BOOLEAN, time : Times, gen : Generations]
    /\ canary.at \in {"none", "read", "continue", "stop"}
    /\ stop \in [at : {"none", "waiting", "stopped", "failed"}, gen : Generations,
                 seen : Generations]

-----------------------------------------------------------------------------
(* Observing the owner.                                                     *)

Live(l) == proc[l].at \in {"starting", "up", "draining", "closing"}

\* observeOwnedProcess for the pid, boot and start identity of the row.
Observed(l) ==
    IF Live(l) THEN "owned" ELSE IF l \in reused THEN "conflict" ELSE "missing"

\* projectServiceHealth.  Clocks that run backwards are left out.
Health ==
    IF row.gen = 0 \/ ~row.running \/ Observed(row.gen) = "missing" THEN "stopped"
    ELSE IF Observed(row.gen) = "conflict" THEN "degraded"
    ELSE IF now - row.beat > StaleAfter THEN "stale"
    ELSE "running"

\* heartbeatService: same generation, other boot, or an owner that is over.
MayOwn(l) ==
    \/ row.gen \in {0, l}
    \/ row.gen \notin booted
    \/ Health \in {"stopped", "stale"}

\* The generation createJob and reserveAttempt stamp on a job.
RowGeneration == IF row.running THEN row.gen ELSE 0

-----------------------------------------------------------------------------
(* The service.                                                             *)

OwnershipInit ==
    /\ now = 1
    /\ proc = [l \in Launches |-> NotLaunched]
    /\ reused = {} /\ booted = {}
    /\ row = [gen |-> 0, running |-> FALSE, beat |-> 0]
    /\ failed = FALSE /\ request = 0
    /\ job = NoJob /\ snapshot = NoSnapshot /\ canary = NoCanary /\ stop = NoStop

\* runDiscordService up to the token lock; a held token ends the launch.
Launch(l, t, r) ==
    /\ proc[l].at = "new"
    /\ \A k \in Launches : k < l => proc[k].at # "new"
    /\ LET held == \E k \in Launches : Live(k) /\ proc[k].token = t
           p == [at |-> "starting", rev |-> r, token |-> t, error |-> FALSE]
       IN /\ proc' = [proc EXCEPT ![l] = IF held THEN Over(p) ELSE p]
          /\ failed' = (failed \/ held)
    /\ booted' = booted \union {l}
    /\ UNCHANGED <<now, reused, row, request, job, snapshot, canary, stop>>

\* recoverInterruptedWork leaves a recovery event on every unfinished job.
Recovered(j) ==
    IF j.at \in {"queued", "reserved", "running"} THEN [j EXCEPT !.recovered = TRUE] ELSE j

\* The first heartbeat takes the row, or throws and the launch cleans up.
FirstHeartbeat(l) ==
    /\ proc[l].at = "starting"
    /\ IF MayOwn(l)
       THEN /\ row' = [gen |-> l, running |-> TRUE, beat |-> now]
            /\ proc' = [proc EXCEPT ![l].at = "up"]
            /\ failed' = FALSE
            /\ job' = Recovered(job)
       ELSE /\ proc' = [proc EXCEPT ![l].at = "draining", ![l].error = TRUE]
            /\ UNCHANGED <<row, failed, job>>
    /\ UNCHANGED <<now, reused, booted, request, snapshot, canary, stop>>

\* The timer's heartbeat; a busy database skips it, which is no step at all.
\* A conflict is thrown in a timer's callback and ends the process there.
Heartbeat(l) ==
    /\ proc[l].at = "up"
    /\ IF MayOwn(l)
       THEN row' = [gen |-> l, running |-> TRUE, beat |-> now] /\ UNCHANGED proc
       ELSE proc' = [proc EXCEPT ![l] = Over(@)] /\ UNCHANGED row
    /\ UNCHANGED <<now, reused, booted, failed, request, job, snapshot, canary, stop>>

\* mutant: the heartbeat timer goes on while the service drains
StoppingReports(l) ==
    /\ proc[l].at = "up"
    /\ proc' = [proc EXCEPT ![l].at = "draining"]
    /\ row' = IF row.gen = l THEN [row EXCEPT !.running = FALSE] ELSE row
    /\ request' = IF request = l THEN 0 ELSE request
    /\ UNCHANGED <<now, reused, booted, failed, job, snapshot, canary, stop>>

\* SIGTERM, or a close of the Gateway that cannot be resumed.
Stopping(l) ==
    /\ proc[l].at = "up"
    /\ proc' = [proc EXCEPT ![l].at = "draining"]
    /\ UNCHANGED <<now, reused, booted, row, failed, request, job, snapshot, canary, stop>>

\* The control timer obeys a stop request for its own generation only.
StopRequested(l) ==
    /\ proc[l].at = "up" /\ request = l
    /\ request' = 0
    /\ proc' = [proc EXCEPT ![l].at = "draining"]
    /\ UNCHANGED <<now, reused, booted, row, failed, job, snapshot, canary, stop>>

\* cleanupDiscordServiceResources after the router and the Gateway are down:
\* the "stopped" heartbeat, which may be skipped (busy) or thrown (conflict).
ReportStopped(l) ==
    /\ proc[l].at = "draining"
    /\ \/ /\ MayOwn(l)
          /\ row' = [gen |-> l, running |-> FALSE, beat |-> now]
          /\ proc' = [proc EXCEPT ![l].at = "closing"]
       \/ /\ proc' = [proc EXCEPT ![l].at = "closing", ![l].error = @ \/ ~MayOwn(l)]
          /\ UNCHANGED row
    /\ UNCHANGED <<now, reused, booted, failed, request, job, snapshot, canary, stop>>

\* The token lock is released and serviceMain exits, naming the failure if any.
Exit(l) ==
    /\ proc[l].at = "closing"
    /\ proc' = [proc EXCEPT ![l] = Over(@)]
    /\ failed' = (failed \/ proc[l].error)
    /\ UNCHANGED <<now, reused, booted, row, request, job, snapshot, canary, stop>>

Killed(l) ==
    /\ Live(l)
    /\ proc' = [proc EXCEPT ![l] = Over(@)]
    /\ UNCHANGED <<now, reused, booted, row, failed, request, job, snapshot, canary, stop>>

PidReused(l) ==
    /\ proc[l].at = "gone" /\ l \notin reused
    /\ reused' = reused \union {l}
    /\ UNCHANGED <<now, proc, booted, row, failed, request, job, snapshot, canary, stop>>

Reboot ==
    /\ booted # {}
    /\ booted' = {} /\ reused' = {}
    /\ proc' = [l \in Launches |-> IF Live(l) THEN Over(proc[l]) ELSE proc[l]]
    /\ stop' = IF stop.at = "waiting" THEN [stop EXCEPT !.at = "failed"] ELSE stop
    /\ canary' = IF canary.at = "read" THEN [canary EXCEPT !.at = "stop"] ELSE canary
    /\ UNCHANGED <<now, row, failed, request, job, snapshot>>

Tick ==
    /\ now < MaxTime
    /\ now' = now + 1
    /\ UNCHANGED <<proc, reused, booted, row, failed, request, job, snapshot, canary, stop>>

-----------------------------------------------------------------------------
(* The canary's job.  Its revision is its process's, its generations are     *)
(* the row's.                                                                *)

createJob(l) ==
    /\ proc[l].at = "up" /\ job.at = "none" /\ stop.at = "none"
    /\ job' = [NoJob EXCEPT !.at = "queued", !.by = l, !.accepting = RowGeneration]
    /\ UNCHANGED <<now, proc, reused, booted, row, failed, request, snapshot, canary, stop>>

reserveAttempt(l) ==
    /\ proc[l].at = "up" /\ job.at = "queued"
    /\ job.by = l \/ job.recovered
    /\ job' = [job EXCEPT !.at = "reserved", !.runner = l, !.executing = RowGeneration]
    /\ UNCHANGED <<now, proc, reused, booted, row, failed, request, snapshot, canary, stop>>

\* attachAttempt refuses a row that changed hands since the reservation.
attachAttempt(l) ==
    /\ proc[l].at \in {"up", "draining"} /\ job.at = "reserved" /\ job.runner = l
    /\ job' = [job EXCEPT !.at = IF job.executing = RowGeneration THEN "running" ELSE "failed",
                          !.final = now]
    /\ UNCHANGED <<now, proc, reused, booted, row, failed, request, snapshot, canary, stop>>

\* Completed, delivered and reported to the operator once.
JobDone(l) ==
    /\ proc[l].at \in {"up", "draining"} /\ job.at = "running" /\ job.runner = l
    /\ job' = [job EXCEPT !.at = "done", !.final = now]
    /\ UNCHANGED <<now, proc, reused, booted, row, failed, request, snapshot, canary, stop>>

-----------------------------------------------------------------------------
(* The supervisor and the canary.                                           *)

\* projectUnattendedHealth: the service, and what else is evidence (the Gateway's
\* ACK, which names no generation, and the age of the jobs).
Healthy(evidence) == Health = "running" /\ evidence

\* observeOnce: that, then the failure file.  Of a snapshot that is not healthy
\* only that is kept.
Observe(evidence) ==
    /\ stop.at = "none"
    /\ snapshot' = IF Healthy(evidence) /\ ~failed
                   THEN [healthy |-> TRUE, time |-> now, gen |-> row.gen]
                   ELSE NoSnapshot
    /\ UNCHANGED <<now, proc, reused, booted, row, failed, request, job, canary, stop>>

\* The prefix of the row's generation is the candidate's revision.
CandidateRuns ==
    /\ Health = "running" /\ row.gen # 0
    /\ proc[row.gen].rev = Candidate

\* evaluateCutoverCanary reads the store ...
CanaryReadsStore ==
    /\ canary.at = "none" /\ job.at # "none"
    /\ canary' = [at |-> "read", time |-> now, gen |-> row.gen, job |-> job,
                  snap |-> NoSnapshot,
                  ok |-> /\ CandidateRuns
                         /\ proc[job.by].rev = Candidate
                         /\ job.accepting = row.gen /\ job.executing = row.gen
                         /\ job.at = "done" /\ ~job.recovered]
    /\ UNCHANGED <<now, proc, reused, booted, row, failed, request, job, snapshot, stop>>

\* mutant: any generation's snapshot will do
SnapshotOfAnyone ==
    /\ snapshot.healthy
    /\ snapshot.time >= canary.job.final
    /\ snapshot.time <= canary.time /\ canary.time - snapshot.time <= FreshFor

SnapshotAccepted ==
    /\ snapshot.healthy
    /\ snapshot.gen = canary.gen
    /\ snapshot.time >= canary.job.final
    /\ snapshot.time <= canary.time /\ canary.time - snapshot.time <= FreshFor

\* ... and then the snapshot, which a supervisor may have written in between.
CanaryDecides ==
    /\ canary.at = "read"
    /\ canary' = [canary EXCEPT !.at = IF canary.ok /\ SnapshotAccepted THEN "continue" ELSE "stop",
                                !.snap = snapshot]
    /\ UNCHANGED <<now, proc, reused, booted, row, failed, request, job, snapshot, stop>>

-----------------------------------------------------------------------------
(* The stop command of Windows.                                             *)

\* getServiceOwner: the row names a pid only while its service runs.
Owner == IF row.running THEN row.gen ELSE 0

\* stopOwnedWindowsService asks the generation that the row names to stop.
StopBegins ==
    /\ stop.at = "none" /\ Owner # 0 /\ job.at = "none" /\ ~snapshot.healthy
    /\ CASE Observed(Owner) = "owned" ->
              stop' = [at |-> "waiting", gen |-> Owner, seen |-> 0] /\ request' = Owner
         [] Observed(Owner) # "owned" ->
              stop' = [at |-> "failed", gen |-> Owner, seen |-> 0] /\ UNCHANGED request
    /\ UNCHANGED <<now, proc, reused, booted, row, failed, job, snapshot, canary>>

\* classifyWindowsStopObservation: what a poll that does not wait answers.
StopAnswer ==
    IF Owner = 0 THEN "stopped"
    ELSE IF Owner # stop.gen THEN "failed"
    ELSE IF Observed(stop.gen) = "missing" THEN "stopped"
    ELSE IF Observed(stop.gen) = "conflict" THEN "failed"
    ELSE "waiting"

StopPolls ==
    /\ stop.at = "waiting" /\ StopAnswer # "waiting"
    /\ stop' = [stop EXCEPT !.at = StopAnswer, !.seen = row.gen]
    /\ UNCHANGED <<now, proc, reused, booted, row, failed, request, job, snapshot, canary>>

\* Fifty polls have passed; the request stays behind.
StopGivesUp ==
    /\ stop.at = "waiting"
    /\ stop' = [stop EXCEPT !.at = "failed"]
    /\ UNCHANGED <<now, proc, reused, booted, row, failed, request, job, snapshot, canary>>

-----------------------------------------------------------------------------
OwnershipStep(l) ==
    \/ FirstHeartbeat(l) \/ Heartbeat(l)
    \/ Stopping(l) \/ StopRequested(l) \/ ReportStopped(l) \/ Exit(l)
    \/ Killed(l) \/ PidReused(l)
    \/ createJob(l) \/ reserveAttempt(l) \/ attachAttempt(l) \/ JobDone(l)

\* Bound: the operator gives one command, a stop (then there is no job and no
\* snapshot) or a canary, and its answer is the end.
Open == canary.at \in {"none", "read"} /\ stop.at \in {"none", "waiting"}

OwnershipNext ==
    /\ Open
    /\ \/ \E l \in Launches, t \in Tokens, r \in Revisions : Launch(l, t, r)
       \/ \E l \in Launches : OwnershipStep(l)
       \/ Reboot \/ Tick
       \/ \E evidence \in BOOLEAN : Observe(evidence)
       \/ CanaryReadsStore \/ CanaryDecides
       \/ StopBegins \/ StopPolls \/ StopGivesUp

OwnershipSpec == OwnershipInit /\ [][OwnershipNext]_ownershipVars

-----------------------------------------------------------------------------
(* A canary that says "continue" has a job that the candidate accepted and   *)
(* that nothing had to recover, and the supervisor saw the candidate's       *)
(* generation healthy after the job's last update (evaluateCutoverCanary).   *)
CanaryTrue ==
    canary.at = "continue" =>
        /\ proc[canary.job.by].rev = Candidate /\ proc[canary.gen].rev = Candidate
        /\ canary.job.at = "done" /\ canary.job.runner = canary.job.by
        /\ canary.snap.healthy /\ canary.snap.gen = canary.gen
        /\ canary.snap.time >= canary.job.final

(* A stop command that answers "stopped" on the evidence of the row of the   *)
(* launch it asked to stop finds that launch past its last job: the cleanup  *)
(* reports "stopped" only when the router and the Gateway are down.          *)
StoppedIsSilent ==
    stop.at = "stopped" /\ stop.seen = stop.gen => proc[stop.gen].at \in {"closing", "gone"}
=============================================================================
