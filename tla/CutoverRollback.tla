------------------------- MODULE CutoverRollback -------------------------
(***************************************************************************)
(* Cutover of the Linux service of one instance: prepare saves a rollback   *)
(* bundle, install puts the next revision in its place, restore brings the  *)
(* saved one back, prune deletes what nothing refers to.  All four hold the *)
(* flock of acquireDiscordArtifactOperationLock, which the kernel gives     *)
(* back when the operator's process dies; the service, systemd and the      *)
(* `service start|stop` commands hold nothing and go on between the steps.  *)
(***************************************************************************)
EXTENDS Naturals

CONSTANTS
    Dirs,           \* names of managed-runtimes/* and rollback-bundles/*
    NoDir

ASSUME DirsAssumption == NoDir \notin Dirs

VARIABLES
    art,        \* what lies in each directory
    pointer,    \* the bundle active-rollback.json names
    units,      \* the unit files: the service's and the supervisor's pair
    loaded,     \* the service unit systemd read at its last reload
    enabled, active, timer,     \* registration: what systemd is told to run
    process,    \* revision of the running service, 0 if none runs
    config,     \* content of the config file
    schema,     \* schema version of the database, 0 before it exists
    job,        \* revision that accepted a nonterminal job, 0 if there is none
    head,       \* revision checked out in the target workspace
    old,        \* what the old revision can do
    op,         \* the operation that holds the artifact lock
    halfway,    \* history: a restore has written a unit and not succeeded since
    dangling,   \* history: the last prepare removed the bundle it had just named
    late        \* history: the open job was accepted after a restore last looked

files == <<art, pointer, units, config, head, old, halfway, dangling>>
manager == <<loaded, enabled, active, timer>>
work == <<job, late>>
service == <<process, schema, work>>
vars == <<art, pointer, units, loaded, enabled, active, timer, process,
          config, schema, job, head, old, op, halfway, dangling, late>>

Source == 1
Candidate == 2
Revisions == {Source, Candidate}
Configs == {1, 2}

Unit(mode, d) == [mode |-> mode, dir |-> d]
Absent == Unit("absent", NoDir)
Legacy == Unit("legacy", NoDir)     \* runs the workspace's own, mutable files
UnitValues == {Absent, Legacy} \union {Unit(m, d) : m \in {"managed", "compat"}, d \in Dirs}

NoSaved == [enabled |-> FALSE, active |-> FALSE, timer |-> FALSE]
Artifact(kind, rev, mode, from, cfg, saved) ==
    [kind |-> kind, rev |-> rev, mode |-> mode, from |-> from, config |-> cfg, saved |-> saved]
Runtime(rev) == Artifact("runtime", rev, "managed", "none", 0, NoSaved)
Gone == Artifact("none", 0, "managed", "none", 0, NoSaved)
Partial == Artifact("partial", 0, "managed", "none", 0, NoSaved)
Artifacts ==
    [kind : {"none", "partial", "runtime", "bundle"}, rev : Revisions \union {0},
     mode : {"managed", "compat"}, from : {"none", "managed", "legacy"},
     config : Configs \union {0}, saved : [enabled : BOOLEAN, active : BOOLEAN, timer : BOOLEAN]]

NoOp == [kind |-> "none", step |-> "none", dir |-> NoDir, plan |-> Gone]

-----------------------------------------------------------------------------
(* What the code verifies before it trusts a directory or a registration.   *)

\* The manifest is written last, so a directory without it never verifies.
Verified(d) == art[d].kind \in {"runtime", "bundle"}
VerifiedBundle(d) == d # NoDir /\ art[d].kind = "bundle"

SchemaOf(rev) == IF rev = Candidate THEN 2 ELSE old.schema
RevOf(u) == IF u.mode = "legacy" THEN head ELSE art[u.dir].rev

ManagedRegistered ==
    /\ units.service.mode = "managed"
    /\ Verified(units.service.dir)
    /\ units.supervisor = units.service
LegacyRegistered == units.service = Legacy /\ units.supervisor = Legacy

\* A unit starts: its files verify and its runtime opens the database.
Launchable(u) ==
    /\ u.mode # "absent"
    /\ u.dir # NoDir => Verified(u.dir)
    /\ schema <= SchemaOf(RevOf(u))

Started(u) ==
    IF Launchable(u)
    THEN process' = RevOf(u) /\ schema' = SchemaOf(RevOf(u))
    ELSE process' = 0 /\ UNCHANGED schema

\* A directory gets a name (randomUUID) that nothing else has.
Fresh == {d \in Dirs : art[d] = Gone /\ d \notin {pointer, loaded.dir}
                          /\ \A u \in {units.service, units.supervisor} : d # u.dir}

At(kind, step) == op.kind = kind /\ op.step = step
Goto(step) == op' = [op EXCEPT !.step = step]
Done == op' = NoOp

-----------------------------------------------------------------------------
Init ==
    /\ art = [d \in Dirs |-> Gone]
    /\ pointer = NoDir
    /\ \/ /\ units = [service |-> Absent, supervisor |-> Absent]
          /\ old \in [schema : {1, 2}, managed : {TRUE}]
          /\ process = 0
       \/ /\ units = [service |-> Legacy, supervisor |-> Legacy]
          /\ old \in [schema : {1, 2}, managed : BOOLEAN]
          /\ process = Source
    /\ loaded = units.service
    /\ active = (process # 0) /\ enabled = active /\ timer = active
    /\ schema = (IF process = 0 THEN 0 ELSE old.schema)
    /\ config = 1
    /\ job = 0
    /\ head = Source
    /\ op = NoOp
    /\ halfway = FALSE /\ dangling = FALSE /\ late = FALSE

-----------------------------------------------------------------------------
(* prepareManagedDiscordCutover, run from a checkout of the candidate.      *)

\* A running service must be the one the registration names.
SourceIdentity(rev, managed) == process # 0 => ~managed \/ process = rev

PrepareBegins ==
    /\ op = NoOp
    /\ head # Candidate
    /\ ManagedRegistered \/ LegacyRegistered
    /\ LET managed == ManagedRegistered
           rev == RevOf(units.service)
       IN /\ SourceIdentity(rev, managed)
          /\ active => process # 0
          /\ rev # Candidate
          /\ \E d \in Fresh :
                op' = [kind |-> "prepare", step |-> "make", dir |-> d,
                       plan |-> Artifact("bundle", rev,
                           IF managed \/ old.managed THEN "managed" ELSE "compat",
                           IF managed THEN "managed" ELSE "legacy", config,
                           [enabled |-> enabled, active |-> active, timer |-> timer])]
    /\ UNCHANGED <<files, manager, service>>

\* The directory and the Git runtime in it, as yet without manifest.
DirectoryMade ==
    /\ op.kind \in {"prepare", "install"} /\ op.step = "make"
    /\ art' = [art EXCEPT ![op.dir] = Partial]
    /\ Goto("finish")
    /\ UNCHANGED <<pointer, units, config, head, old, halfway, dangling, manager, service>>

BundleFinished ==
    /\ At("prepare", "finish")
    /\ schema <= SchemaOf(op.plan.rev)
    /\ art' = [art EXCEPT ![op.dir] = op.plan]
    /\ Goto("switch")
    /\ UNCHANGED <<pointer, units, config, head, old, halfway, dangling, manager, service>>

PointerSwitched ==
    /\ At("prepare", "switch")
    /\ config = op.plan.config
    /\ pointer' = op.dir /\ dangling' = FALSE
    /\ Goto("protect")
    /\ UNCHANGED <<art, units, config, head, old, halfway, manager, service>>

\* protectOwnerOnly after that rename, which may still throw; then prepare is done.
PointerProtected ==
    /\ At("prepare", "protect")
    /\ Done
    /\ UNCHANGED <<files, manager, service>>

\* One catch for all of it: the new bundle is removed, also when the pointer has been
\* switched to it.
PrepareFails ==
    /\ op.kind = "prepare"
    /\ art' = [art EXCEPT ![op.dir] = Gone]
    /\ dangling' = (dangling \/ op.step = "protect")
    /\ Done
    /\ UNCHANGED <<pointer, units, config, head, old, halfway, manager, service>>

-----------------------------------------------------------------------------
(* manageLinuxService install.                                              *)

ExistingRegistration ==
    schema > 0 \/ units.service # Absent \/ units.supervisor # Absent \/ enabled \/ timer

\* An upgrade needs the prepared bundle of exactly what is installed.
VerifiedUpgrade ==
    /\ VerifiedBundle(pointer)
    /\ head = Candidate
    /\ IF art[pointer].from = "legacy" THEN LegacyRegistered
       ELSE ManagedRegistered /\ RevOf(units.service) = art[pointer].rev

InstallBegins ==
    /\ op = NoOp
    /\ ExistingRegistration => VerifiedUpgrade
    /\ \E d \in Fresh :
        op' = [kind |-> "install", step |-> "make", dir |-> d, plan |-> Runtime(head)]
    /\ UNCHANGED <<files, manager, service>>

RuntimeFinished ==
    /\ At("install", "finish")
    /\ art' = [art EXCEPT ![op.dir] = op.plan]
    /\ Goto("service unit")
    /\ UNCHANGED <<pointer, units, config, head, old, halfway, dangling, manager, service>>

RuntimeFails ==
    /\ op.kind = "install" /\ op.step \in {"make", "finish"}
    /\ art' = [art EXCEPT ![op.dir] = Gone]
    /\ Done
    /\ UNCHANGED <<pointer, units, config, head, old, halfway, dangling, manager, service>>

\* Both install and restore write the service's unit, then the supervisor's
\* two, then let systemd read them.
OpUnit == Unit(IF op.kind = "install" THEN "managed" ELSE art[op.dir].mode, op.dir)
WritesUnits == op.kind \in {"install", "restore"}

ServiceUnitWritten ==
    /\ WritesUnits /\ op.step = "service unit"
    /\ units' = [units EXCEPT !.service = OpUnit]
    /\ Goto("supervisor units")
    /\ halfway' = (halfway \/ op.kind = "restore")
    /\ UNCHANGED <<art, pointer, config, head, old, dangling, manager, service>>

SupervisorUnitsWritten ==
    /\ WritesUnits /\ op.step = "supervisor units"
    /\ units' = [units EXCEPT !.supervisor = OpUnit]
    /\ Goto("reload")
    /\ UNCHANGED <<art, pointer, config, head, old, halfway, dangling, manager, service>>

ReloadedForInstall ==
    /\ WritesUnits /\ op.step = "reload"
    /\ loaded' = IF op.kind = "install" THEN units.service ELSE loaded
    /\ Goto(IF op.kind = "install" THEN "timer" ELSE "check")
    /\ UNCHANGED <<files, enabled, active, timer, service>>

Reloaded ==
    /\ WritesUnits /\ op.step = "reload"
    /\ loaded' = units.service
    /\ Goto(IF op.kind = "install" THEN "timer" ELSE "check")
    /\ UNCHANGED <<files, enabled, active, timer, service>>

TimerStarted ==
    /\ At("install", "timer")
    /\ timer' = TRUE
    /\ Goto("restart")
    /\ UNCHANGED <<files, loaded, enabled, active, service>>

\* service.autoStart of the config: enable and restart, or disable --now.
ServiceRestarted ==
    /\ At("install", "restart")
    /\ \E autoStart \in BOOLEAN :
        /\ enabled' = autoStart /\ active' = autoStart
        /\ IF autoStart THEN Started(loaded) ELSE process' = 0 /\ UNCHANGED schema
    /\ Goto("verify")
    /\ UNCHANGED <<files, loaded, timer, work>>

InstallVerified ==
    /\ At("install", "verify")
    /\ ManagedRegistered /\ timer
    /\ enabled = active
    /\ enabled => process = op.plan.rev
    /\ Done
    /\ UNCHANGED <<files, manager, service>>

\* installSupervisedPair quarantines both units, whatever was running.
InstallFails ==
    /\ op.kind = "install" /\ op.step \notin {"make", "finish", "remove"}
    /\ enabled' = FALSE /\ active' = FALSE /\ timer' = FALSE
    /\ process' = 0
    /\ Goto("remove")
    /\ UNCHANGED <<files, loaded, schema, work>>

\* removeUnreferencedManagedRuntimeArtifact
UnreferencedRemoved ==
    /\ At("install", "remove")
    /\ art' = [art EXCEPT ![op.dir] = IF units.service.dir = op.dir THEN @ ELSE Gone]
    /\ Done
    /\ UNCHANGED <<pointer, units, config, head, old, halfway, dangling, manager, service>>

-----------------------------------------------------------------------------
(* restoreManagedDiscordCutover                                             *)

LedgerIdle == job = 0
RollbackSafe(d) == schema <= SchemaOf(art[d].rev) /\ LedgerIdle

RestoreBegins ==
    /\ op = NoOp
    /\ VerifiedBundle(pointer)
    /\ RollbackSafe(pointer)
    /\ op' = [kind |-> "restore", step |-> "stop", dir |-> pointer, plan |-> Gone]
    /\ UNCHANGED <<files, manager, service>>

\* systemctl stop of the service: before the config is restored, and once more as
\* the first command after the last check.
ServiceStopped ==
    /\ op.kind = "restore" /\ op.step \in {"stop", "stop again"}
    /\ active' = FALSE /\ process' = 0
    /\ Goto(IF op.step = "stop" THEN "config" ELSE "stop timer")
    /\ UNCHANGED <<files, loaded, enabled, timer, schema, work>>

ConfigRestored ==
    /\ At("restore", "config")
    /\ RollbackSafe(op.dir)
    /\ config' = art[op.dir].config
    /\ Goto("service unit")
    /\ UNCHANGED <<art, pointer, units, head, old, halfway, dangling, manager, service>>

\* mutant: the last check forgets the open jobs
RestoreSchemaChecked ==
    /\ At("restore", "check")
    /\ schema <= SchemaOf(art[op.dir].rev)
    /\ Goto("stop again")
    /\ UNCHANGED <<files, manager, service>>

\* The last look at database and ledger.  What runs goes on until the stop after it.
RestoreChecked ==
    /\ At("restore", "check")
    /\ RollbackSafe(op.dir)
    /\ Goto("stop again")
    /\ UNCHANGED <<files, manager, service>>

\* The other commands of cutoverRegistrationRestoreCommands, one process each.
TimerStopped ==
    /\ At("restore", "stop timer")
    /\ timer' = FALSE
    /\ Goto("timer")
    /\ UNCHANGED <<files, loaded, enabled, active, service>>

TimerRestored ==
    /\ At("restore", "timer")
    /\ timer' = art[op.dir].saved.timer
    /\ Goto("enable")
    /\ UNCHANGED <<files, loaded, enabled, active, service>>

EnabledRestored ==
    /\ At("restore", "enable")
    /\ enabled' = art[op.dir].saved.enabled
    /\ Goto("start")
    /\ UNCHANGED <<files, loaded, active, timer, service>>

\* `systemctl start` changes nothing if the service runs, and succeeds as soon as a
\* Type=simple unit was started: that the process stays is not known then.
RestoreStarted ==
    /\ At("restore", "start")
    /\ LET saved == art[op.dir].saved
       IN /\ active' = (active \/ saved.active)
          /\ IF saved.active /\ process = 0 THEN Started(loaded)
             ELSE UNCHANGED <<process, schema>>
    /\ Done
    /\ halfway' = FALSE
    /\ UNCHANGED <<art, pointer, units, config, head, old, dangling, loaded, enabled, timer, work>>

\* Whatever fails, nothing is undone and nothing is started again.
RestoreFails ==
    /\ op.kind = "restore"
    /\ Done
    /\ UNCHANGED <<files, manager, service>>

-----------------------------------------------------------------------------
(* pruneManagedDiscordArtifacts: one call of it, one directory at a time.   *)

RetainedIfInstalled(d) == d = units.service.dir

Retained(d) == d = units.service.dir \/ d = pointer

Prune ==
    /\ op = NoOp
    /\ ManagedRegistered \/ (units.service = Absent /\ units.supervisor = Absent)
    /\ pointer # NoDir => VerifiedBundle(pointer)
    /\ \E d \in Dirs :
        /\ Verified(d) /\ ~Retained(d)
        /\ art' = [art EXCEPT ![d] = Gone]
    /\ UNCHANGED <<pointer, units, config, head, old, halfway, dangling, manager, service, op>>

-----------------------------------------------------------------------------
(* systemd, the service, the operator's other commands, and deaths.         *)

ServiceStarts ==
    /\ active /\ process = 0 /\ Launchable(loaded)
    /\ Started(loaded)
    /\ UNCHANGED <<files, manager, work, op>>

ServiceDies ==
    /\ process # 0
    /\ process' = 0
    /\ UNCHANGED <<files, manager, schema, work, op>>

AcceptJob ==
    /\ process # 0 /\ job = 0
    /\ job' = process
    /\ late' = At("restore", "stop again")
    /\ UNCHANGED <<files, manager, process, schema, op>>

JobEnds ==
    /\ process # 0 /\ job # 0
    /\ job' = 0 /\ late' = FALSE
    /\ UNCHANGED <<files, manager, process, schema, op>>

ServiceCommand ==
    /\ ManagedRegistered
    /\ \/ timer /\ active' = TRUE /\ UNCHANGED <<process, enabled>>
       \/ active' = FALSE /\ process' = 0 /\ UNCHANGED enabled
       \/ timer /\ enabled' = TRUE /\ UNCHANGED <<process, active>>
       \/ enabled' = FALSE /\ UNCHANGED <<process, active>>
    /\ UNCHANGED <<files, loaded, timer, schema, work, op>>

\* Assumed of the owner: the configuration is not edited while a restore writes it, and the
\* workspace is not taken back to the old revision while a legacy unit, which runs the
\* workspace's own files, is installed or loaded.
EditConfig ==
    /\ op.kind # "restore"
    /\ config' \in Configs \ {config}
    /\ UNCHANGED <<art, pointer, units, head, old, halfway, dangling, manager, service, op>>

Checkout ==
    /\ head' \in Revisions \ {head}
    /\ Legacy \in {units.service, loaded} => head' = Candidate
    /\ UNCHANGED <<art, pointer, units, config, old, halfway, dangling, manager, service, op>>

OperatorDies ==
    /\ op # NoOp
    /\ Done
    /\ UNCHANGED <<files, manager, service>>

Reboot ==
    /\ process' = 0
    /\ Done
    /\ loaded' = units.service
    /\ active' = enabled
    /\ UNCHANGED <<files, enabled, timer, schema, work>>

Next ==
    \/ PrepareBegins \/ DirectoryMade \/ BundleFinished \/ PointerSwitched
    \/ PointerProtected \/ PrepareFails
    \/ InstallBegins \/ RuntimeFinished \/ RuntimeFails
    \/ ServiceUnitWritten \/ SupervisorUnitsWritten \/ Reloaded
    \/ TimerStarted \/ ServiceRestarted \/ InstallVerified \/ InstallFails \/ UnreferencedRemoved
    \/ RestoreBegins \/ ServiceStopped \/ ConfigRestored \/ RestoreChecked
    \/ TimerStopped \/ TimerRestored \/ EnabledRestored \/ RestoreStarted \/ RestoreFails
    \/ Prune
    \/ ServiceStarts \/ ServiceDies \/ AcceptJob \/ JobEnds
    \/ ServiceCommand \/ EditConfig \/ Checkout \/ OperatorDies \/ Reboot

Spec == Init /\ [][Next]_vars

-----------------------------------------------------------------------------
\* Every variable holds a value the files, systemd and the store can hold.
TypeOK ==
    /\ art \in [Dirs -> Artifacts]
    /\ pointer \in Dirs \union {NoDir}
    /\ units \in [service : UnitValues, supervisor : UnitValues]
    /\ loaded \in UnitValues
    /\ enabled \in BOOLEAN /\ active \in BOOLEAN /\ timer \in BOOLEAN
    /\ process \in Revisions \union {0} /\ job \in Revisions \union {0}
    /\ config \in Configs /\ schema \in 0 .. 2 /\ head \in Revisions
    /\ old \in [schema : {1, 2}, managed : BOOLEAN]
    /\ op.dir \in Dirs \union {NoDir} /\ op.plan \in Artifacts
    /\ halfway \in BOOLEAN /\ dangling \in BOOLEAN /\ late \in BOOLEAN

\* "An old router must never reinterpret a nonterminal v2 envelope under v1
\* authority" (cutover-rollback.mjs:328): no runtime older than the one that
\* accepted a job runs while that job is open.
OldNeverReinterprets == process # 0 /\ job # 0 => job <= process

\* The three checks of restore keep that promise against a service that is started,
\* dies and accepts jobs between any two of its steps, but for two kinds of histories.
\* A restore that has written a unit file and then failed leaves the old units behind a
\* ledger nobody looks at again (cutover-rollback.mjs:334). And a candidate that still
\* runs at the last check may accept a job before the stop that follows it (342, then
\* service-cutover-controller.mjs:203): there the promise is broken, as it is in the first.
NoDowngrade == ~halfway /\ ~late => OldNeverReinterprets

\* What the active pointer and the unit files name is there and complete,
\* after every failure and death in the middle of a prepare, an install, a
\* restore or a prune: the service can start again and the way back is open.  Only a
\* prepare whose very last call fails leaves a pointer to the bundle it removes.
ArtifactsKept ==
    /\ pointer # NoDir /\ ~dangling => VerifiedBundle(pointer)
    /\ \A u \in {units.service, units.supervisor} : u.dir # NoDir => Verified(u.dir)

\* A restore that reports success has brought back the units, the config and
\* the registration of the bundle, and if the service ran when the bundle was
\* prepared, the old revision runs now.
RollbackRuns ==
    [][RestoreStarted =>
        LET b == art[op.dir]
        IN /\ units.service = Unit(b.mode, op.dir) /\ units.supervisor = units.service
           /\ config' = b.config
           /\ b.saved.active => process' = b.rev]_vars
=============================================================================
