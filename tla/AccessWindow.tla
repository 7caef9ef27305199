----------------------------- MODULE AccessWindow -----------------------------
(***************************************************************************)
(* With what access does a turn run?  discord-router.mjs computes it when   *)
(* a message is admitted, seals it into the recovery envelope, recomputes  *)
(* it when the queue reaches the turn and checks it again just before the  *)
(* backend is spawned (execution-profile.mjs, mutation-window.mjs,         *)
(* project-policy-*.mjs, createRuntimeInputVerifier in service-runtime.mjs *)
(* and the command lines of adapters.mjs).                                 *)
(*                                                                         *)
(* Between those points the owner edits the configuration and the context  *)
(* files on disk, the mutation window opens and closes, the project policy *)
(* changes its mind, jobs are retried, and the service stops, crashes and  *)
(* starts with whatever the disk holds then.  Schema v2 only: a v1         *)
(* configuration has no participant authority and recovers nothing.        *)
(*                                                                         *)
(* A configuration is reduced to what decides access.  What a job did      *)
(* besides (delivery, ledger, scopes, limits) is DiscordService.           *)
(***************************************************************************)
EXTENDS Naturals, FiniteSets

CONSTANTS Agents,       \* agent profiles: each has a workspace and its context files
          Jobs,         \* job ids
          Configs,      \* the configurations the owner ever writes
          MaxEdits      \* bound: edits of the disk in a behaviour

Mutations == {"write", "execute"}
Backends == {"codex", "claude", "opencode", "grok"}

ASSUME ConfigsAssumption ==
    Configs \subseteq [backend : Backends, trusted : BOOLEAN, network : BOOLEAN,
                       allowed : SUBSET (Mutations \cup {"reply"}),
                       approval : SUBSET Mutations,
                       participant : SUBSET (Mutations \cup {"reply"}),
                       operator : BOOLEAN, hours : BOOLEAN,
                       policy : BOOLEAN, autoRetry : BOOLEAN]
ASSUME BoundAssumption == MaxEdits \in Nat

VARIABLES disk,      \* what the files hold: configuration, contexts, policy manifest
          router,    \* up; loaded: the disk as the running service read it; latched
          open,      \* the clock is inside the participants' mutation window
          allows,    \* the project policy would answer "allowed" now
          job,       \* job id -> the work item, its stored row and its envelope
          edits
vars == <<disk, router, open, allows, job, edits>>

Config == router.loaded.config

-----------------------------------------------------------------------------
(* Effective access. *)

\* The role's actions that need no approval, limited to the participant's;
\* writing and executing only together, and only for an operator of the binding.
EffectiveActions(c) ==
    LET global == c.allowed \ c.approval
        bundle == c.operator /\ Mutations \subseteq global \cap c.participant
    IN  (global \cap c.participant) \ (IF bundle THEN {} ELSE Mutations)

Access(c, ceiling) ==
    IF ceiling = "read-only" \/ EffectiveActions(c) \cap Mutations = {} THEN "read-only"
    ELSE IF c.trusted THEN "danger-full-access" ELSE "workspace-write"

Shut(c) == c.hours /\ ~open

\* A closed window lowers a writable request, unless a project policy owns it.
EffectiveCeiling(c, asked) ==
    IF Access(c, asked) # "read-only" /\ Shut(c) /\ ~c.policy THEN "read-only" ELSE asked

\* What configurationRevision, the authority revision and the binding identity
\* distinguish; the project policy is in none of them.
Revision(c) ==
    [backend |-> c.backend, trusted |-> c.trusted, network |-> c.network, hours |-> c.hours,
     participant |-> c.participant, operator |-> c.operator, autoRetry |-> c.autoRetry,
     actions |-> EffectiveActions(c)]

CommandOptions(backend, access) ==
    LET mode == IF access = "read-only" THEN "plan" ELSE "bypassPermissions"
    IN  CASE backend = "codex"    -> [sandbox |-> access]
          [] backend = "opencode" -> [auto |-> access # "read-only"]
          [] backend = "claude"   -> [mode |-> mode]
          [] backend = "grok"     -> [mode |-> mode,
                 sandbox |-> IF access = "read-only" THEN "read-only" ELSE "workspace"]

ReadOnlyOptions(backend, o) ==
    CASE backend = "codex"    -> o.sandbox = "read-only"
      [] backend = "opencode" -> ~o.auto
      [] backend = "claude"   -> o.mode # "bypassPermissions"
      [] backend = "grok"     -> o.mode = "plan" /\ o.sandbox = "read-only"

\* Network and credentials never reach a read-only child.
BackendOptions(c, access) ==
    LET o == CommandOptions(c.backend, access)
    IN  [command |-> o, grants |-> c.network /\ ~ReadOnlyOptions(c.backend, o)]

\* The adapters' command lines: may the child write, does it get the network and
\* the credentials, or is the combination refused.
Invocation(backend, options) ==
    [writes  |-> ~ReadOnlyOptions(backend, options.command),
     grants  |-> options.grants,
     refused |-> \/ backend = "codex" /\ options.grants /\ options.command.sandbox = "read-only"
                 \/ backend = "grok" /\ (options.command.mode = "plan")
                                        # (options.command.sandbox = "read-only")]

-----------------------------------------------------------------------------
(* The runtime inputs: every check latches what it found until a restart. *)

LatchedFor(a) == router.latched \cap {a, "global"} # {}
GlobalDiffers == disk.config # Config
\* The hash of the context files' bytes.
ContextDiffers(a) == disk.context[a] # router.loaded.context[a]
\* The digest of the routes and of the bridge; an answer of a route is not in it.
ManifestDiffers == Config.policy /\ disk.manifest # router.loaded.manifest
AgentDiffers(a) == ContextDiffers(a) \/ ManifestDiffers

Unchanged(a) == ~LatchedFor(a) /\ ~GlobalDiffers /\ ~AgentDiffers(a)

VerifyRuntimeInputs(a) ==
    router' = [router EXCEPT !.latched = @ \cup
                   (IF LatchedFor(a) THEN {} ELSE IF GlobalDiffers THEN {"global"}
                    ELSE IF AgentDiffers(a) THEN {a} ELSE {})]

\* A writable job runs only while the window is open; with a policy bound only
\* a writable job the policy allows runs.
WindowOpenFor(access) == access = "read-only" \/ ~Shut(Config)
\* The bridge refuses a read-only request, and an answer that narrows or widens it.
BridgeAllows(access) == access # "read-only" /\ allows
PolicyAllows(access) == ~Config.policy \/ BridgeAllows(access)

\* The same checks without the window's: a plausible slip of the last check.
CheckedWithoutWindow(j) == Unchanged(job[j].agent) /\ PolicyAllows(job[j].access)

\* preSpawnCheck: synchronous, right before the attempt is reserved and again
\* right before the child is spawned.
PreSpawnCheck(j) ==
    /\ Unchanged(job[j].agent)
    /\ WindowOpenFor(job[j].access)
    /\ PolicyAllows(job[j].access)

-----------------------------------------------------------------------------
NoEnvelope == [kept |-> FALSE]
Unused == [at |-> "unused"]
Pending == {"queued", "loading", "preparing"}
Active == Pending \cup {"running"}

\* Recovery is over before the first message or job control is taken.
Serving == router.up /\ \A j \in Jobs : job[j].at # "interrupted"

Disk == [config : Configs, context : [Agents -> {0, 1}], manifest : {0, 1}]

Init == /\ disk \in {d \in Disk : d.manifest = 0 /\ \A a \in Agents : d.context[a] = 0}
        /\ router = [up |-> TRUE, loaded |-> disk, latched |-> {}]
        /\ open \in BOOLEAN
        /\ allows \in BOOLEAN
        /\ job = [j \in Jobs |-> Unused]
        /\ edits = 0

Envelope(a, asked, ceiling) ==
    [kept |-> TRUE, asked |-> asked, ceiling |-> ceiling,
     revision |-> Revision(Config), context |-> router.loaded.context[a]]

WorkItem(a, from, source, asked, ceiling) ==
    [at |-> "queued", agent |-> a, backend |-> Config.backend, from |-> from, source |-> source,
     asked |-> asked, ceiling |-> ceiling, access |-> Access(Config, ceiling),
     options |-> BackendOptions(Config, Access(Config, ceiling)),
     envelope |-> Envelope(a, asked, ceiling)]

Child(item) == Invocation(item.backend, item.options)

NextUnused(j) == /\ job[j] = Unused
                 /\ \A i \in Jobs : i < j => job[i] # Unused

\* An authorized message, or an operator's submission that asks for read-only.
Admit(j, a, asked) ==
    LET item == WorkItem(a, "message", j, asked, EffectiveCeiling(Config, asked))
    IN  /\ Serving /\ NextUnused(j)
        /\ VerifyRuntimeInputs(a)
        /\ IF Unchanged(a) /\ PolicyAllows(item.access)
              /\ (Config.policy => WindowOpenFor(item.access))
           THEN job' = [job EXCEPT ![j] = item]
           ELSE job' = job               \* a rejected ingress, never a job
        /\ UNCHANGED <<disk, open, allows, edits>>

WithCeiling(item, ceiling) ==
    [item EXCEPT !.ceiling = ceiling, !.access = Access(Config, ceiling),
                 !.options = BackendOptions(Config, Access(Config, ceiling))]

\* A slip: the window alone decides, also for a job lowered at admission.
ReconciledByClock(item) ==
    IF Config.policy THEN item ELSE WithCeiling(item, EffectiveCeiling(Config, item.asked))
Reconciled(item) ==
    IF Config.policy \/ (item.asked = "none" /\ item.ceiling = "read-only"
                            /\ item.access = "read-only")
    THEN item
    ELSE WithCeiling(item, EffectiveCeiling(Config, item.asked))

RunBegins(j) ==
    LET item == Reconciled(job[j])
    IN  /\ Serving /\ job[j].at = "queued"
        /\ VerifyRuntimeInputs(job[j].agent)
        /\ job' = [job EXCEPT ![j] =
               IF ~Unchanged(@.agent) THEN [@ EXCEPT !.at = "failed"]
               ELSE IF ~WindowOpenFor(item.access) \/ ~PolicyAllows(item.access)
                    THEN [item EXCEPT !.at = "failed"]
               ELSE [item EXCEPT !.at =
                        IF item.from = "message" THEN "loading" ELSE "preparing"]]
        /\ UNCHANGED <<disk, open, allows, edits>>

\* The channel history arrived; the context files are hashed once more.
HistoryLoaded(j) ==
    /\ Serving /\ job[j].at = "loading"
    /\ \E loaded \in BOOLEAN :
         job' = [job EXCEPT ![j].at =
             IF loaded /\ ~ContextDiffers(job[j].agent)
             THEN "preparing" ELSE "failed"]
    /\ UNCHANGED <<disk, router, open, allows, edits>>

\* The version probe and the child environment are done: spawn, or fail.
Spawn(j) ==
    /\ Serving /\ job[j].at = "preparing"
    /\ VerifyRuntimeInputs(job[j].agent)
    /\ job' = [job EXCEPT ![j].at =
           IF PreSpawnCheck(j) /\ ~Child(job[j]).refused
           THEN "running" ELSE "failed"]
    /\ UNCHANGED <<disk, open, allows, edits>>

\* The child ends: its answer goes out (DiscordService), or the job failed and
\* keeps its envelope.
Ends(j) ==
    /\ Serving /\ job[j].at = "running"
    /\ \E at \in {"done", "failed"} : job' = [job EXCEPT ![j].at = at]
    /\ UNCHANGED <<disk, router, open, allows, edits>>

\* The version probe, the child environment or the authentication fails first.
PreparationFails(j) ==
    /\ Serving /\ job[j].at = "preparing"
    /\ job' = [job EXCEPT ![j].at = "failed"]
    /\ UNCHANGED <<disk, router, open, allows, edits>>

Cancel(j) ==
    /\ Serving /\ job[j].at \in Active
    /\ job' = [job EXCEPT ![j].at = "done"]
    /\ UNCHANGED <<disk, router, open, allows, edits>>

-----------------------------------------------------------------------------
(* Retries and recovery. *)

Current(e, a) ==
    e.kept /\ e.revision = Revision(Config) /\ e.context = router.loaded.context[a]

\* A slip: the successor is asked again as if nobody had attenuated the request.
ReplacementForgetful(j) ==
    WorkItem(job[j].agent, "retry", j, "none", EffectiveCeiling(Config, "none"))
Replacement(j) ==
    WorkItem(job[j].agent, "retry", j, job[j].asked, EffectiveCeiling(Config, job[j].asked))

\* replaceJob: an explicit retry of an active job, which is then cancelled, or
\* of a failed one whose envelope still fits; the successor gets a new envelope.
Replace(j, k) ==
    /\ Serving /\ k # j /\ NextUnused(k)
    /\ \/ job[j].at \in Active
       \/ job[j].at = "failed" /\ Current(job[j].envelope, job[j].agent)
    /\ job' = [job EXCEPT ![k] = Replacement(j),
                          ![j].at = IF @ \in Active THEN "done" ELSE @,
                          ![j].envelope = NoEnvelope]
    /\ UNCHANGED <<disk, router, open, allows, edits>>

\* A slip: the stored configuration is compared, the access is not looked at.
ResumableAtAnyAccess(item) == Config.autoRetry /\ Current(item.envelope, item.agent)
Resumable(item) ==
    /\ Config.autoRetry
    /\ Current(item.envelope, item.agent)
    /\ Access(Config, item.envelope.ceiling) = "read-only"

Resumed(item) ==
    IF Resumable(item)
    THEN [WithCeiling(item, item.envelope.ceiling) EXCEPT !.at = "queued", !.from = "recovery"]
    ELSE [item EXCEPT !.at = "review"]

\* A crash or a stop: nothing of the router survives, the rows stay unfinished.
Stop ==
    /\ router.up
    /\ router' = [router EXCEPT !.up = FALSE, !.latched = {}]
    /\ job' = [j \in Jobs |-> IF job[j].at \in Active
                              THEN [job[j] EXCEPT !.at = "interrupted"] ELSE job[j]]
    /\ UNCHANGED <<disk, open, allows, edits>>

\* The service starts on what the disk holds now, then takes up what was left.
Start ==
    /\ ~router.up
    /\ router' = [up |-> TRUE, loaded |-> disk, latched |-> {}]
    /\ UNCHANGED <<disk, open, allows, job, edits>>

Resume(j) ==
    /\ router.up /\ job[j].at = "interrupted"
    /\ job' = [job EXCEPT ![j] = Resumed(@)]
    /\ UNCHANGED <<disk, router, open, allows, edits>>

-----------------------------------------------------------------------------
(* The world. *)

Edit == /\ edits < MaxEdits
        /\ edits' = edits + 1
        /\ \/ \E c \in Configs \ {disk.config} : disk' = [disk EXCEPT !.config = c]
           \/ \E a \in Agents : disk' = [disk EXCEPT !.context[a] = 1 - @]
           \/ disk' = [disk EXCEPT !.manifest = 1 - @]
        /\ UNCHANGED <<router, open, allows, job>>

Tick == open' = ~open /\ UNCHANGED <<disk, router, allows, job, edits>>
Decide == allows' = ~allows /\ UNCHANGED <<disk, router, open, job, edits>>

Next == \/ \E j \in Jobs, a \in Agents, asked \in {"none", "read-only"} : Admit(j, a, asked)
        \/ \E j \in Jobs : \/ RunBegins(j) \/ HistoryLoaded(j) \/ Spawn(j) \/ Ends(j)
                           \/ PreparationFails(j) \/ Cancel(j) \/ Resume(j)
        \/ \E j, k \in Jobs : Replace(j, k)
        \/ Stop \/ Start \/ Edit \/ Tick \/ Decide

Spec == Init /\ [][Next]_vars

-----------------------------------------------------------------------------
(* What must hold.  All of it is said of the child's command line, not of the *)
(* profile the checks look at.                                               *)

Bare(item) == ~Child(item).writes /\ ~Child(item).grants

\* A child starts only under the inputs now on the disk.  It can write only if
\* these allow it, nobody attenuated the request, the window is open and the
\* policy, when there is one, allows it; with a policy no other child starts.
SpawnAuthorized ==
    [][\A j \in Jobs : job[j].at # "running" /\ job'[j].at = "running" =>
         LET c == disk.config
         IN  /\ c = Config
             /\ disk.context[job[j].agent] = router.loaded.context[job[j].agent]
             /\ \/ Bare(job[j]) /\ ~c.policy
                \/ /\ job[j].asked = "none"
                   /\ EffectiveActions(c) \cap Mutations # {}
                   /\ ~Shut(c)
                   /\ c.policy => allows]_vars

\* Once admitted a job is only ever lowered: a window that opens, a restart with
\* another configuration and a recovery widen nothing.  (An explicit retry is a
\* new job.)
NeverWidened ==
    [][\A j \in Jobs : job[j] # Unused /\ job'[j].at \in Active /\ Bare(job[j])
                        => Bare(job'[j])]_vars

\* An operator's read-only submission stays read-only through every retry.
AttenuationHolds ==
    \A j \in Jobs : job[j] # Unused /\ job[job[j].source].asked = "read-only" =>
        /\ job[j].asked = "read-only"
        /\ job[j].access = "read-only"

\* What runs by itself after a restart is read-only and was sealed under the
\* configuration and the context the service now runs with.
RecoveredReadOnly ==
    \A j \in Jobs : job[j].at \in Active /\ job[j].from = "recovery" =>
        /\ Bare(job[j])
        /\ Current(job[j].envelope, job[j].agent)
=============================================================================
