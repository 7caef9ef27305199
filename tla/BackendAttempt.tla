---------------------------- MODULE BackendAttempt ----------------------------
(***************************************************************************)
(* What becomes of one execution of a backend: the lines it prints         *)
(* (inspectBackendLine), what runBackendAttempt makes of them together with *)
(* time limits, aborts, the exit, the cleanup of the process group and the *)
(* draining of the pipes, and what it answers - to the router, or to a host *)
(* that claimed a task (runClaimedBackendTask).  DiscordService leaves the  *)
(* outcome of an attempt to a choice; here is what decides it.             *)
(*                                                                         *)
(* Linux, where a group leader outlives the backend (backend-process-host). *)
(* Hosts and the leader may die at any time; a write of the store may be   *)
(* refused while a line is handled.                                        *)
(***************************************************************************)
EXTENDS Naturals

CONSTANTS
    Hosts,          \* processes that run the attempt, or claim the task
    Backends,       \* those the router uses; a claimed task is for codex
    AbortReasons    \* of cancelled, recovery, no_progress

ASSUME BackendAssumption ==
    /\ Backends \subseteq {"codex", "claude", "grok", "opencode"}
    /\ AbortReasons \subseteq {"cancelled", "recovery", "no_progress"}

\* A task asks for strictStructuredOutput.
Kinds == [backend : Backends, task : {FALSE}] \cup {[backend |-> "codex", task |-> TRUE]}

VARIABLES
    kind,       \* which backend, and for whom
    host,       \* host -> idle, checked (no row found), running, answered, dead
    answer,     \* host -> what the caller was told
    job,        \* the row: none, open, or how the attempt was recorded
    starts,     \* how often the backend was started
    group,      \* the process group: its leader (lost: died before it), other members
    attempt,    \* the local variables of runBackendAttempt
    said        \* history: what the attempt under way has heard from the backend

vars == <<kind, host, answer, job, starts, group, attempt, said>>

Texts == {"draft", "final", "file"}

NotStarted == [at |-> "none", exit |-> "none", outcome |-> "none", failure |-> "none",
               pending |-> FALSE, text |-> "none", reason |-> "none", signalled |-> FALSE,
               error |-> FALSE, file |-> "none"]
Silence == [success |-> FALSE, failure |-> FALSE, quota |-> FALSE, hint |-> FALSE,
            asked |-> FALSE, last |-> "none"]
Unanswered == [ok |-> FALSE, text |-> "none"]

-----------------------------------------------------------------------------
(* Lines.                                                                   *)

\* A line is no JSON (perhaps with words about a quota or an approval), JSON of no
\* use (also: too long), or a message.  A bad end names an error, "other" is any
\* status without meaning, and quota says that the line holds a quota's code.
Raw == [form |-> "raw", quota |-> FALSE, approval |-> FALSE]
Message(type, status) ==
    [form : {"json"}, type : {type}, status : {status}, quota : BOOLEAN, text : {"draft", "final"}]

Lines ==
    {Raw, [Raw EXCEPT !.quota = TRUE], [Raw EXCEPT !.approval = TRUE], [form |-> "misshapen"]}
    \cup Message("message", "other") \cup Message("end", "good")
    \cup {m \in UNION {Message("tool", "bad"), Message("end", "bad"), Message("end", "other"),
                       Message("error", "bad"), Message("approval", "other")} : m.text = "draft"}

\* classifyBackendFailure: only a failure that says so itself counts, never a
\* message that merely quotes one.
QuotaFailure(m) == m.quota /\ (m.type = "error" \/ (m.type = "end" /\ m.status = "bad"))

\* A tool's error is for the model to recover from, an aborted tool is not.
OpenCodeOutcome(m) ==
    CASE m.type = "error" -> "failure"
      [] m.type = "tool" -> IF m.status = "bad" THEN "failure" ELSE "none"
      [] m.type = "end" -> IF m.status = "good" THEN "success"
                           ELSE IF m.status = "bad" THEN "failure" ELSE "none"
      [] OTHER -> "none"

\* Codex tells a failure by a message of its own, claude and grok by their result.
ObservedOutcome(b, m) ==
    CASE b = "codex" -> IF m.type = "end" /\ m.status = "good" THEN "success"
                        ELSE IF m.type = "error" THEN "failure" ELSE "none"
      [] b = "opencode" -> OpenCodeOutcome(m)
      [] OTHER -> IF m.type # "end" \/ m.status = "other" THEN "none"
                  ELSE IF m.status = "good" THEN "success" ELSE "failure"

Outcome(b, m) == IF QuotaFailure(m) THEN "failure" ELSE ObservedOutcome(b, m)

\* Codex and opencode speak their answer, claude and grok put it into the result.
TransientResult(b, m) ==
    IF \/ b \in {"codex", "opencode"} /\ m.type = "message"
       \/ b \in {"claude", "grok"} /\ m.type = "end" /\ Outcome(b, m) = "success"
    THEN m.text ELSE "none"

inspectBackendLine(b, m) ==
    CASE m.form = "raw" ->
           [structured |-> FALSE, outcome |-> "none", quota |-> FALSE, pending |-> m.quota,
            text |-> "none", approval |-> m.approval]
      [] m.form = "misshapen" ->
           [structured |-> FALSE, outcome |-> "none", quota |-> FALSE, pending |-> FALSE,
            text |-> "none", approval |-> FALSE]
      [] m.form = "json" ->
           [structured |-> TRUE, outcome |-> Outcome(b, m), quota |-> QuotaFailure(m),
            pending |-> FALSE, text |-> TransientResult(b, m), approval |-> m.type = "approval"]

\* What a backend's lines can be read as.
Readings == [b \in Backends \cup {"codex"} |-> {inspectBackendLine(b, m) : m \in Lines}]

-----------------------------------------------------------------------------
(* What the runner makes of them.                                           *)

\* terminate: the first reason stays.  It is recorded before the group is
\* signalled; when that write is refused the signal never comes.
Terminated(a, reason, refused) ==
    IF a.reason # "none" THEN a
    ELSE [a EXCEPT !.reason = reason, !.signalled = ~refused]

\* mutant: the last outcome counts
HeardLast(a, i) ==
    [a EXCEPT !.outcome = IF i.outcome = "none" THEN @ ELSE i.outcome,
              !.text = IF i.text = "none" THEN @ ELSE i.text]

\* A failure is never taken back; the last text is the answer.
Heard(a, i) ==
    [a EXCEPT !.outcome = IF i.outcome = "failure" \/ (i.outcome = "success" /\ @ # "failure")
                          THEN i.outcome ELSE @,
              !.text = IF i.text = "none" THEN @ ELSE i.text]

StreamFails(a, refused) == [Terminated(a, "internal_error", refused) EXCEPT !.error = TRUE]

\* recordLine.  A write refused inside it fails the stream; one refused inside
\* terminate is caught with it, and the reason has been taken.
Recorded(a, i, refused) ==
    LET noted == [a EXCEPT !.failure = IF @ = "none" /\ i.quota THEN "quota" ELSE @,
                           !.pending = @ \/ i.pending]
    IN  IF kind.task /\ ~i.structured THEN StreamFails(a, refused)
        ELSE IF i.approval
             THEN [Terminated(noted, "approval_ui", refused) EXCEPT
                       !.error = @ \/ (refused /\ a.reason = "none")]
        ELSE IF refused THEN StreamFails(Heard(noted, i), FALSE)
        ELSE Heard(noted, i)

\* mutant: what stderr says is taken for a fact
RecordedStderrAsFact(a, i, refused) ==
    LET noted == [a EXCEPT !.failure = IF @ = "none" /\ (i.quota \/ i.pending)
                                       THEN "quota" ELSE @]
    IN  IF i.approval THEN Terminated(noted, "approval_ui", refused)
        ELSE IF refused THEN StreamFails(noted, FALSE)
        ELSE noted

\* On stderr only words about a quota, for a failed exit, and an approval count.
RecordedStderr(a, i, refused) ==
    LET noted == [a EXCEPT !.pending = @ \/ i.quota \/ i.pending]
    IN  IF i.approval
        THEN [Terminated(noted, "approval_ui", refused) EXCEPT
                  !.error = @ \/ (refused /\ a.reason = "none")]
        ELSE IF refused THEN StreamFails(noted, FALSE)
        ELSE noted

Listening == attempt.at \in {"running", "cleaning", "draining", "forcing"}

ReadStdout(i, refused) ==
    /\ Listening
    /\ attempt' = Recorded(attempt, i, refused)
    /\ said' = [said EXCEPT !.success = @ \/ i.outcome = "success",
                            !.failure = @ \/ i.outcome = "failure",
                            !.quota = @ \/ i.quota, !.hint = @ \/ i.pending,
                            !.asked = @ \/ i.approval,
                            !.last = IF i.text = "none" THEN @ ELSE i.text]
    /\ UNCHANGED <<kind, host, answer, job, starts, group>>

ReadStderr(i, refused) ==
    /\ Listening
    /\ attempt' = RecordedStderr(attempt, i, refused)
    /\ said' = [said EXCEPT !.hint = @ \/ i.quota \/ i.pending, !.asked = @ \/ i.approval]
    /\ UNCHANGED <<kind, host, answer, job, starts, group>>

-----------------------------------------------------------------------------
(* Claiming a task, starting the backend.                                   *)

\* The host whose router runs the attempt when it is no task.
Service == CHOOSE h \in Hosts : TRUE

Init == /\ kind \in Kinds
        /\ host = [h \in Hosts |-> IF kind.task THEN "idle"
                                   ELSE IF h = Service THEN "preparing" ELSE "dead"]
        /\ job = IF kind.task THEN "none" ELSE "open"
        /\ answer = [h \in Hosts |-> Unanswered]
        /\ starts = 0
        /\ group = [leader |-> "none", members |-> FALSE]
        /\ attempt = NotStarted
        /\ said = Silence

\* A task with a row is never executed again.
Claim(h) ==
    /\ host[h] = "idle"
    /\ host' = [host EXCEPT ![h] = IF job = "none" THEN "checked" ELSE "answered"]
    /\ UNCHANGED <<kind, answer, job, starts, group, attempt, said>>

\* mutant: another host's row is taken for one's own
CreateJobOrJoin(h) ==
    /\ host[h] = "checked"
    /\ host' = [host EXCEPT ![h] = "preparing"]
    /\ job' = "open"
    /\ UNCHANGED <<kind, answer, starts, group, attempt, said>>

\* createJob throws when another host was faster.
CreateJob(h) ==
    /\ host[h] = "checked"
    /\ host' = [host EXCEPT ![h] = IF job = "none" THEN "preparing" ELSE "answered"]
    /\ job' = IF job = "none" THEN "open" ELSE job
    /\ UNCHANGED <<kind, answer, starts, group, attempt, said>>

\* The version probe, the environment, the invocation or the spawn fails.
PreparationFails(h) ==
    /\ host[h] = "preparing"
    /\ host' = [host EXCEPT ![h] = "answered"]
    /\ UNCHANGED <<kind, answer, job, starts, group, attempt, said>>

\* Reserved, spawned behind its leader and attached (DiscordService).
Start(h) ==
    /\ host[h] = "preparing"
    /\ host' = [host EXCEPT ![h] = "running"]
    /\ starts' = starts + 1
    /\ group' = [leader |-> "alive", members |-> TRUE]
    /\ attempt' = [NotStarted EXCEPT !.at = "running"]
    /\ said' = Silence
    /\ UNCHANGED <<kind, answer, job>>

-----------------------------------------------------------------------------
(* Ends.                                                                    *)

Timeout ==
    /\ Listening
    /\ attempt' = Terminated(attempt, "timeout", FALSE)
    /\ UNCHANGED <<kind, host, answer, job, starts, group, said>>

\* A cancellation, the watchdog, a shutdown; a broken stdin or channel.
Abort ==
    /\ Listening
    /\ \/ \E reason \in AbortReasons \cup {"internal_error"} :
            attempt' = Terminated(attempt, reason, FALSE)
       \/ attempt' = [Terminated(attempt, "internal_error", FALSE) EXCEPT !.error = TRUE]
    /\ UNCHANGED <<kind, host, answer, job, starts, group, said>>

\* The backend ends, by itself or by SIGTERM, with 0 or not; descendants may be left.
BackendExits ==
    /\ attempt.at = "running" /\ group.leader = "alive"
    /\ \E exit \in {"zero", "failed"}, left \in BOOLEAN :
         /\ attempt' = [attempt EXCEPT !.at = "cleaning", !.exit = exit]
         /\ group' = [group EXCEPT !.members = left]
    /\ UNCHANGED <<kind, host, answer, job, starts, said>>

\* SIGKILL to the whole group once the grace is over.  The leader's end without
\* a receipt of the backend's is an error.
ForceKill ==
    /\ attempt.at = "running" /\ attempt.signalled /\ group.leader = "alive"
    /\ group' = [leader |-> "gone", members |-> FALSE]
    /\ attempt' = [attempt EXCEPT !.at = "cleaning", !.exit = "failed", !.error = TRUE]
    /\ UNCHANGED <<kind, host, answer, job, starts, said>>

LeaderDies ==
    /\ group.leader = "alive"
    /\ group' = [group EXCEPT !.leader = "lost"]
    /\ attempt' = IF attempt.at = "running"
                  THEN [attempt EXCEPT !.at = "cleaning", !.exit = "failed", !.error = TRUE]
                  ELSE attempt
    /\ UNCHANGED <<kind, host, answer, job, starts, said>>

\* killAndWaitForChild: an unconfirmed end of the group overrides everything.
CleanedUp(gone) ==
    IF gone THEN [attempt EXCEPT !.at = "draining"]
    ELSE [attempt EXCEPT !.at = "draining", !.error = TRUE, !.reason = "internal_error",
                         !.outcome = "failure", !.failure = "internal_error"]

Cleanup ==
    /\ attempt.at = "cleaning"
    /\ \E gone \in BOOLEAN :
         /\ group' = [leader |-> IF group.leader # "alive" THEN group.leader
                                   ELSE IF gone THEN "gone" ELSE "lost",
                       members |-> group.members /\ ~gone]
         /\ attempt' = CleanedUp(gone)
    /\ UNCHANGED <<kind, host, answer, job, starts, said>>

\* Somebody still holds the pipes after half a second.
DrainTimeout ==
    /\ attempt.at = "draining"
    /\ attempt' = [Terminated(attempt, "internal_error", FALSE) EXCEPT !.at = "forcing"]
    /\ UNCHANGED <<kind, host, answer, job, starts, group, said>>

-----------------------------------------------------------------------------
(* The verdict.                                                             *)

\* mutant: without a result file the last text will do, for a task too
FileReadLeniently(a, file) ==
    IF kind.backend # "codex" \/ a.exit # "zero" \/ a.outcome # "success" THEN a
    ELSE IF file = "text" THEN [a EXCEPT !.text = "file"]
    ELSE IF file = "unfit" THEN [a EXCEPT !.outcome = "failure", !.failure = "internal_error"]
    ELSE a

\* Codex writes its last message to a file; a task has no other answer.
FileRead(a, file) ==
    IF kind.backend # "codex" \/ a.exit # "zero" \/ a.outcome # "success" THEN a
    ELSE IF file = "text" THEN [a EXCEPT !.text = "file"]
    ELSE IF file = "unfit" \/ kind.task
         THEN [a EXCEPT !.outcome = "failure", !.failure = "internal_error"]
    ELSE a

PendingUsed(a) ==
    IF a.failure = "none" /\ a.exit # "zero" /\ a.pending
    THEN [a EXCEPT !.failure = "quota", !.outcome = "failure"] ELSE a

FinalEvent(a) ==
    IF a.reason # "none" THEN a.reason
    ELSE IF a.error THEN "internal_error"
    ELSE IF a.exit = "zero" /\ a.outcome = "success" THEN "succeeded"
    ELSE IF a.failure # "none" THEN a.failure
    ELSE IF a.exit = "zero" THEN "internal_error" ELSE "process_exit"

\* The router's delivery is refused unless the attempt is recorded as succeeded;
\* a task's result is looked at once more.
Answer(a) ==
    LET ok == /\ a.outcome = "success" /\ a.text # "none"
              /\ IF kind.task THEN a.exit = "zero" /\ a.reason = "none"
                 ELSE FinalEvent(a) = "succeeded"
    IN  [ok |-> ok, text |-> IF ok THEN a.text ELSE "none"]

\* From the end of the streams on nothing is awaited.  They end when nobody
\* holds them, or are destroyed.
Drained(h) ==
    /\ host[h] = "running"
    /\ attempt.at = "forcing" \/ (attempt.at = "draining" /\ ~group.members)
    /\ \E file \in {"none", "empty", "unfit", "text"} :
         LET a == PendingUsed(FileRead(attempt, file))
         IN  /\ attempt' = [a EXCEPT !.at = "ended", !.file = file]
             /\ job' = FinalEvent(a)
             /\ answer' = [answer EXCEPT ![h] = Answer(a)]
    /\ host' = [host EXCEPT ![h] = "answered"]
    /\ UNCHANGED <<kind, starts, group, said>>

-----------------------------------------------------------------------------
(* Crashes.                                                                 *)

Crash(h) ==
    /\ host[h] \in {"checked", "preparing", "running"}
    /\ host' = [host EXCEPT ![h] = "dead"]
    /\ IF host[h] = "running"
       THEN attempt' = [NotStarted EXCEPT !.at = "abandoned"] /\ said' = Silence
       ELSE UNCHANGED <<attempt, said>>
    /\ UNCHANGED <<kind, answer, job, starts, group>>

\* mutant: the leader just leaves
LeaderLeaves ==
    /\ attempt.at = "abandoned" /\ group.leader = "alive"
    /\ group' = [group EXCEPT !.leader = "gone"]
    /\ UNCHANGED <<kind, host, answer, job, starts, attempt, said>>

\* The private channel is closed: the leader kills its group and itself.
LeaderCleansUp ==
    /\ attempt.at = "abandoned" /\ group.leader = "alive"
    /\ group' = [leader |-> "gone", members |-> FALSE]
    /\ UNCHANGED <<kind, host, answer, job, starts, attempt, said>>

Next == \/ \E i \in Readings[kind.backend], refused \in BOOLEAN :
             ReadStdout(i, refused) \/ ReadStderr(i, refused)
        \/ \E h \in Hosts : \/ Claim(h) \/ CreateJob(h) \/ PreparationFails(h) \/ Start(h)
                            \/ Drained(h) \/ Crash(h)
        \/ Timeout \/ Abort \/ BackendExits \/ ForceKill \/ LeaderDies
        \/ Cleanup \/ DrainTimeout \/ LeaderCleansUp

Spec == Init /\ [][Next]_vars

\* Timers strike, the kernel kills, and the leader sees its channel close.
FairSpec ==
    /\ Spec
    /\ WF_vars(Timeout) /\ WF_vars(ForceKill) /\ WF_vars(Cleanup)
    /\ WF_vars(DrainTimeout) /\ WF_vars(\E h \in Hosts : Drained(h))
    /\ WF_vars(LeaderCleansUp)

-----------------------------------------------------------------------------
TypeOK ==
    /\ kind \in Kinds
    /\ host \in [Hosts -> {"idle", "checked", "preparing", "running", "answered", "dead"}]
    /\ answer \in [Hosts -> [ok : BOOLEAN, text : Texts \cup {"none"}]]
    /\ job \in {"none", "open", "succeeded", "quota", "process_exit", "timeout", "cancelled",
                "recovery", "no_progress", "approval_ui", "internal_error"}
    /\ starts \in Nat
    /\ group \in [leader : {"none", "alive", "gone", "lost"}, members : BOOLEAN]
    /\ attempt.at \in {"none", "running", "cleaning", "draining", "forcing", "ended",
                       "abandoned"}
    /\ attempt.outcome \in {"none", "success", "failure"}
    /\ attempt.failure \in {"none", "quota", "internal_error"}
    /\ said.last \in Texts \cup {"none"}

\* Recorded as succeeded: the backend said so, ended with 0, said nothing else in
\* whatever order - no failure, no request for an approval - and nothing of its
\* process group is left.  (runBackendAttempt)
SuccessEarned ==
    job = "succeeded" =>
        /\ attempt.exit = "zero" /\ attempt.reason = "none"
        /\ said.success /\ ~said.failure /\ ~said.asked
        /\ ~group.members

\* An answer is handed on only for an attempt recorded as succeeded.  It is the
\* last thing the backend said, or what codex left in its file, if it did; a host
\* that claimed a task gets nothing else.  (runBackendAttempt, backend-task.mjs)
AnswerTrue ==
    \A h \in Hosts : answer[h].ok =>
        /\ job = "succeeded"
        /\ answer[h].text = IF kind.backend = "codex" /\ attempt.file = "text"
                            THEN "file" ELSE said.last
        /\ kind.task => attempt.file = "text"
        /\ answer[h].text # "none"

\* An attempt that ended by itself is put down to the provider's quota exactly
\* if the provider said so in a failure, or in passing before a failed exit.
\* (classifyBackendFailure: "prevents a successful response that merely prints an
\* illustrative envelope from becoming a provider failure")
QuotaTold ==
    attempt.at = "ended" /\ attempt.reason = "none" /\ ~attempt.error =>
        (job = "quota" <=> said.quota \/ (said.hint /\ attempt.exit # "zero"))

\* However many hosts claim a task and crash over it, it is executed once.
ExecutedOnce == starts <= 1

\* terminate was cut short by a refused write: no later reason signals either.
Muted == attempt.at = "running" /\ attempt.reason # "none" /\ ~attempt.signalled

\* A started backend ends, and with a host that crashed its group - unless a
\* refused write has muted terminate, or the leader died before its group.
EveryAttemptEnds ==
    attempt.at = "running" ~> \/ attempt.at = "ended" \/ Muted
                              \/ /\ attempt.at = "abandoned"
                                 /\ ~group.members \/ group.leader = "lost"
=============================================================================
