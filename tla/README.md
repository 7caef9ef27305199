# Naia messaging: a verification development

TLA+ models of the messaging engine under `src/`, checked with TLC on small instances
and, where it matters most, proved with TLAPS for every instance. Every definition is
translated from the code; `PROJECT.json` maps each to its lines.

The questions are those a reviewer of this code would ask and a test can hardly answer:
can a message be lost or answered twice over crashes, reconnects, retries and
cancellations? Is an unknown send ever shown as something else? Do runs of one
conversation overlap? Can two processes own one bot token? Does a stop end? Can a backend's
words be taken for more than they say, a task be executed twice, access rise while a job
waits, a rollback run an old program on a new job?

## 1. The system

The engine takes messages from Discord, admits some as **jobs**, lets a coding backend
(codex, claude, opencode, grok) work on each in a child process, an **attempt**, and
sends the answer, a **delivery**, at most once. All durable state of the service is one
SQLite store. Alternatively a host with a ledger of its own runs only the Gateway
session, in a bridge process.

```
 Discord ──events──> DiscordGatewaySession ──onDispatch──> DiscordMessageRouter
    ^                     │ checkpoint                        │ queue, #run
    │                     v                                   v
    │                SessionStore <──transactions──── runBackendAttempt ── child
    └───────────────────────────────── deliverJobResult <─────┘

 token owner lock: one service per bot token on a machine
 host bridge:      DiscordGatewaySession <──JSONL──> a host with its own ledger
```

| component | state it keeps | operations | what is hard |
|---|---|---|---|
| Session store: writers (`store*.mjs`, `constants.mjs`) | tables jobs, job_recovery, ingress_messages, delivery_attempts, gateway_state, service_state | one SQLite transaction each: reserve or accept a message, create a job, reserve/attach/fail an attempt, record an event, reserve/finish a delivery, recover at startup | any order of calls, stale attempt ids, one bad row stops recovery |
| Message router (`discord-router.mjs`) | `queue`, `controllers`, `workItems`, `running`, `accepting` | onDispatch, #drain, #run, cancelJob, replaceJob, watchdog, shutdown, waitForIdle, resumeRecovered | awaits between check and use, several causes of one end, steps without a transaction around |
| Backend runner (`backend-runner.mjs`) | the child, timers, `terminationReason` | runBackendAttempt | time limit, abort and exit race; a write fails between two events |
| Answer delivery (`discord-delivery.mjs`) | the delivery row | deliverJobResult | lost receipts; a commit that fails after Discord has answered |
| Service process (`service-runtime.mjs`) | `stopping`, timers, the current session | start, reconnect loop, ordered cleanup | crash, shutdown in the middle of everything |
| Gateway session (`discord-gateway.mjs`) | `dispatchChain`, `resumeEpoch`, sequence | connect, #receive, drain, close | replay, invalid sessions, late callbacks, order of checkpoint writes |
| Token owner lock (`token-owner-lock.mjs`) | a lock directory and a guard directory | acquire, reclaim, release | processes interleave between file system calls and die there |
| Host bridge (`runtime/host-bridge.mjs`) | `pending`, `draining`, `drained`, timers | request, stop, drain | acknowledgements late, refused or missing during a drain |
| Backend processes (`adapters.mjs`, `backend-*.mjs`), backend task of a host (`runtime/backend-task.mjs`) | the process group, what was heard so far; the row of the task | inspect a line, terminate, clean up, drain, give a verdict; claim | lines in any order on two streams, descendants that stay, a leader or a host that dies, a write refused while a line is handled |
| Service ownership, health, supervisor, canary, stop command | service_state, status and request files | heartbeatService, projections, evaluateCutoverCanary, the Windows stop | old generations, reused pids, reboots, evidence read in two steps |
| Cutover, rollback, artifact lock | bundles, runtimes, pointer, unit files, what systemd has loaded | prepare, install, restore, prune | each can die anywhere while service, systemd and operators go on |
| Access: profile, mutation window, project policy, agent context | decisions taken at admission, latches, the recovery envelope | verify at admission, run, spawn, recovery | decisions that are stale when used |
| Engine snapshot, status projections | a directory; posts | stage and rename; post and edit | little: sequential, or read-only |
| Transport-neutral rules (`core/`) | none | pure functions | boundaries |
| Texts, credentials, platform, CLI, service managers | none of the above | – | – |

**Interactions.** The session calls the router for each event and saves the sequence only
when that call returns. The router calls the store for every decision and the runner for
every attempt; the runner and the delivery write to the same rows of the same store. Store
calls are synchronous, so a turn of the event loop is interrupted between two transactions
by a crash only; everything else interleaves at awaits. Several processes meet only at the
token lock and in the SQLite file. The host bridge replaces router and store by a host
behind a pipe.

**What makes each correct**: the store never disagrees with itself and can always be
recovered; the router runs each conversation serially, forgets no job and executes a
writing job once; a send is begun once and its outcome told truthfully; the checkpoint is
never ahead of the decisions; one process owns a token; a drain's receipt is earned; a
success is earned and told as it was; a canary and a stop believe only the launch they ask
about; nothing a unit or the pointer names is deleted; access only falls. The
hazards, each at its line and with the properties aimed at it, are `hazards` in
`PROJECT.json`.

## 2. Modules

| module | models | state and actions against the code |
|---|---|---|
| `JobEvents` | a row of `jobs` and what one event does to it | `TransitionFor`, `AllowedTransitions`, `Appendable`, `Appended`: transitionFor, ALLOWED_TRANSITIONS, appendEvent |
| `SessionLedger` | the store | variables are the tables; an action is one committed transaction, in any order, with any attempt id. One that throws rolls back and is no step |
| `DiscordService` | router, runner, delivery, startup and cleanup over the store | `run[j]` is the stage of #run and of the attempt in it, `queue`, `status` (accepting, flushing, waiting for idle, cleanup), `replacing` and `toResume` the loops that a crash can cut; `wire` and `posted` are Discord |
| `DiscordGateway` | the session objects, the reconnect loop, the checkpoint | `conn[c]` is one DiscordGatewaySession: `doing`/`done`/`stale` is the link of its dispatch chain; `log` is what Discord has numbered |
| `TokenOwnerLock` | the lock among processes | `lock`, `guard`, `aside` are directories, `pc` the place in acquire or release; an action is one file system call that others can see |
| `HostBridge` | bridge, pipe and host | `outbox`/`inbox` is the pipe, `chain` the dispatch in progress, `mode` the process; the host answers in order |
| `ResumableFeed` | what a durable checkpoint promises, whoever keeps it | abstract: events, decisions and a place to resume from; `DiscordGateway` and `HostBridge` implement it |
| `BackendAttempt` | what the outcome of an attempt is made of, and a task that several hosts claim | `attempt` is the local state of runBackendAttempt, `group` the process group, `said` a history of what was heard; a line is a reading of `inspectBackendLine` |
| `AccessWindow` | the access of a job from admission to spawn | `disk` against `router.loaded` is what was edited since the start; `job[j]` has profile, ceiling and envelope; checks are those of `#run` and of the verifier, in their order |
| `ServiceOwnership` | launches, the row they write, and who reads it | `proc[l]` is a launch, `row` is service_state, `Observed` is observeOwnedProcess, `canary` and `stop` are read in the two steps the code reads in |
| `CutoverRollback` | the four operations on artifacts, on Linux | `op.step` is the place in the operation that holds the artifact lock; `units` are files, `loaded` what systemd read last; deaths, reboots and commands come in between |
| `MC*` | the instances for TLC | values and symmetries |
| `*Proofs` | inductive invariants and theorems | see 5 |

`DiscordService` instantiates `SessionLedger` and uses its transactions as they stand. That
each of its steps is one of them or leaves the store alone (`ImplementsLedger`) is how it is
written, as the code reaches the store through these methods only; it says nothing of the
router, and is not asked of a run. But it lets what holds of the ledger under any order of
transactions be carried over to the service (section 5).

`ResumableFeed` is what the keepers of a checkpoint promise, with data of their own and a
refinement mapping: within a session the place to resume from only moves on, and only past
what is decided (`ImplementsFeed` of the bridge, and of the gateway while its callbacks end
before the next connection); or, as long as callbacks outlive their connections, it may also
fall back (`ReplaysOnly`, of `ReplaySpec`). Either way nothing is skipped: `FeedSkipsNothing`
is proved of the abstract module. `BackendAttempt` opens the choice of outcome
`DiscordService` makes, and `AccessWindow` its choice to throw before a run.

`TypeOK` of the ledger, the service, the attempt, the gateway, the bridge, the lock, the row and
the cutover is a theorem (section 5); the types of `AccessWindow` are part of its invariant.

Conventions. An operator whose comment begins with *mutant* is a bug the code does not
have; no specification uses it. It is there to show that the property named with it in
`PROJECT.json` would notice that bug. A bound is a constant whose comment says so.

Abstractions, and why they are harmless for what is asked:
* Text, prompts and answers: no property looks inside. An answer is one message; the loop
  over chunks is not modelled.
* Time: a time limit may strike at any moment, which covers every real duration.
* The checks of profile, context, mutation window and policy before a run are a choice to
  throw in `DiscordService`, which must keep its promises however they turn out; what they
  decide is `AccessWindow`.
* A line of a backend is reduced to what the readers distinguish: its kind, its status,
  whether it speaks of a quota or asks for an approval. Sizes are lines of no use.
* A directory of the cutover is complete, partial or gone; hashing tells these apart. Each
  file is written in one step, but for the pointer, whose rename takes effect before the call
  that may still fail.
* `systemctl start` of a `Type=simple` unit succeeds as soon as the process was started: a
  restore that reports success has started the old revision, and that is what `RollbackRuns`
  says. Whether it stays is `ServiceDies`.
* Of the owner of a workspace two things are assumed in `CutoverRollback`: the config is not
  edited while a restore writes it (`EditConfig`), and the workspace is not checked out back
  to the old revision while a legacy unit, which runs the workspace's own files, is installed
  or loaded (`Checkout`). Any other checkout may come at any time.
* Attempt ids and job ids are drawn from finite sets and, as with randomUUID, never twice.
* Notices to people (acknowledgement, failure report) matter only as awaits, and are kept
  as such where #run awaits them.

## 3. Runs

| run | question | bounds, and why they are enough |
|---|---|---|
| `ledger` | do the tables stay consistent under every order of transactions, and can startup always recover them? | 2 jobs, 2 attempt ids, 2 messages: a job can be retried and be disturbed by its own first attempt and by the other job; a message can come twice |
| `service` | one conversation through everything the service can do, with crash and restart, when SQLite may refuse a write in any place; does one answer leave, and only one an attempt earned? | 2 jobs, 2 messages, 2 attempts, 2 starts, 2 places to run so that only the scope keeps turns apart, 1 place to wait: the limit is reached |
| `service_liveness` | is no job forgotten, does every job and every shutdown end, also when an attention hook really awaits? | 1 message, 2 jobs (its replacement), 1 place to run, 2 starts |
| `gateway` | does the session implement the feed, and is every message decided about? | 3 messages, 2 objects, 2 sessions: a session replaced, a chain in progress while the next object connects |
| `gateway_stale` | *violation*: may a late callback write into the next session's checkpoint? | 2 messages |
| `token_lock` | one owner, one reclaimer, nothing left behind, when calls of several processes come in any order and any call may fail | 4 processes: owner, reclaimer, loser, newcomer |
| `token_lock_race` | *violation*: is there one owner, whatever comes between the calls of an inspection? | 4 processes |
| `host_bridge` | feed and receipt when host, process and socket may fail anywhere; does a stop end? | 2 messages, 2 sessions |
| `backend_attempt` | are verdict and answer earned, is a task executed once, does every started backend end? | codex, claude and opencode (grok's lines are read as claude's), one reason to abort (the others are treated alike), and the task with 2 hosts: a look before and a look after the other's createJob |
| `access` | does access only fall from admission to spawn? | 1 agent profile, a job and its successor, 4 configurations (writable in a window, read-only, under a policy, another backend without a window), 2 edits: one before and one after a restart, or one undone |
| `ownership` | can a canary or a stop be misled? | 2 launches, 2 credentials, so that the token lock may or may not keep them apart, 3 moments, one command: what it answers is the end of a behaviour |
| `cutover` | is what is needed kept, and does a rollback bring back what it promises? | 2 directories, 2 revisions: the one that runs and the candidate, for each a bundle or a runtime |

Deadlock is not checked: a service that is stopped for good, bounded ids that are used up
and a finished exchange are proper ends. That nothing hangs is what the liveness
properties say.

### What the violations say

* `gateway_stale`. `resumeEpoch` belongs to one session object, and the reconnect loop
  makes the next object without draining the old one. A callback of an invalidated session
  that ends after the READY of the next saves its old sequence beside the new session id.
  With callbacks that end within the reconnect delay, or without invalidated sessions, the
  checkpoint is sound (`gateway`, theorem `NeverAhead`).
* `token_lock_race`. The owner record is read, then the process is looked for, then the
  directory is renamed. If the owner leaves and another process makes its lock in between,
  the new lock is taken for the stale one.

Each needs a rare interleaving; each contradicts a sentence of a comment, a test or
`src/README.md` quoted in `findings`.

### What the passing runs except

Some histories are excluded because the property would be violated in them. Each exclusion
is a history variable or a named predicate, and is noted at its hazard.

* `misled` (`token_lock`). A lock was moved away that is not the one inspected: the history of
  `token_lock_race`, after which there may be two owners.
* `undone` (`token_lock`). A reclaimer that cannot write its own lock renames the stale one
  back; rename(2) replaces an empty directory another process has just made, and both end
  with the token.
* `broken` (`token_lock`). Nothing removes the guard again when it was made and cannot be
  protected, or when its removal fails; from then on nobody can reclaim the token. (Nor, as
  a comment at `token-owner-lock.mjs:56` accepts, after a death in the middle of a call.)
* `halfway` (`cutover`). A restore that fails or dies after writing a unit file leaves the
  old units behind while systemd still has the new one loaded. A service started from that
  accepts a job, and after the next reload or reboot the old revision runs on it, which the
  comment at `cutover-rollback.mjs:328` rules out.
* `late` (`cutover`). The last check of a restore (`cutover-rollback.mjs:342`) is followed by
  one more `systemctl stop` (`service-cutover-controller.mjs:203`). A candidate that `service
  start` has started since the first stop still runs at that check, with an idle ledger; it
  accepts a job before it is stopped, and the old revision is started on that job, in a
  restore that reports success. This breaks the promise of the comments at 328 and 339, like
  `halfway`; without `late` TLC finds it within seconds.
* `dangling` (`cutover`). The last call of a prepare, which protects the pointer it has just
  renamed (`cutover-managed-runtime.mjs:43-44`), fails: the catch at
  `cutover-rollback.mjs:296-298` removes the bundle the pointer names. Restore and prune
  refuse such a pointer, and the next prepare replaces it. Of the units nothing is excepted.
* `Muted` (`backend_attempt`). terminate takes its reason before it records and signals. If
  the record is refused while a line is handled, no signal is ever sent and the time limit
  finds the reason taken: that backend ends only by itself.
* `NoOrphan` is asked without refused writes, `CleanStop` without a hook that awaits: a
  refused write between the two halves of replaceJob leaves a job in no queue, and a hook
  that awaits can admit a job after the shutdown found everything idle.
* Not stated at all: what becomes of a requested direct message when its attempt is not
  recorded as succeeded. The router sends it (`discord-router.mjs:594-604`) before delivery
  is refused. `SendEarned` is about the answer in the channel only.

## 4. Fairness

* `DiscordService`: weak fairness of what a run does by itself, since everything it awaits
  ends by a timer of the code: the child by its time limit and SIGKILL, requests by 15 s,
  notices by theirs; and of the turns that are under way. None of messages, operators,
  watchdog or child output. `EveryJobEnds` lets the service stop first: a crash ends
  nothing.
* `DiscordGateway`: weak fairness of connecting (the loop sleeps at most 30 s), strong
  fairness of identifying, taking, deciding and finishing: connections may be lost again
  and again, but not for ever at the same point. That is an assumption on Discord and the
  network; without it nothing can be promised. A peer that accepts a connection and stays
  silent is outside it: the code has no time limit there (listed as a hazard).
* `HostBridge`: weak fairness of reading lines, of the drain's end and of the timers
  (`GiveUp`): `StopEnds` holds by them whatever the host does (`TimedSpec`).
* `BackendAttempt`: weak fairness of the time limit, of SIGKILL after the grace, of the
  cleanup (it waits for a bounded time and then says so), of the drain's time limit and of
  the verdict; and of the leader that sees its private channel close when the host died.
  None of the backend: it may print for ever or never end by itself.
* `SessionLedger`, `TokenOwnerLock`, `AccessWindow`, `ServiceOwnership`, `CutoverRollback`:
  safety only. `acquire` never waits; a command polls a fixed number of times.

## 5. Proofs

| module | theorems | assuming |
|---|---|---|
| `SessionLedgerProofs` | `TypeCorrect`, `DeliveredOnce`, `OneStoryOfASend`, `AlwaysRecoverable`, `FinishedForever`, `RequestsAreDropped`, `OneJobEach`, `DecidedForever` | the named assumptions on constants |
| `DiscordServiceProofs` | `ServiceImplementsLedger`, `AnsweredOnce`, `ServiceTyped`, `OneTurnPerConversation`, `OneAnswerEach`, `OutcomesAreTrue`, `WritesOnce`, `NeverAgainAfterSend`, `NoJobForgotten`, `StopsClean`, `SentWhenEarned`, `ServiceKeepsLedgerPromises` | the same; for `NoJobForgotten`: `StoreFaults = FALSE`; for `StopsClean`: `SlowHook = FALSE` |
| `DiscordGatewayProofs` | `GatewayTypes`, `NeverAhead`, `GatewayOnlyReplays`, and `GatewayImplementsFeed` | for `NeverAhead` and `GatewayOnlyReplays`: `Invalidates = FALSE` or `QuickCallbacks = TRUE`; for `GatewayImplementsFeed`: `QuickCallbacks = TRUE` |
| `HostBridgeProofs` | `BridgeTypes`, `ReceiptsAreEarned`, `BridgeImplementsFeed`, `BridgeSkipsNothing`, and of the abstract feed `FeedSkipsNothing` | READY is no message |
| `OwnershipProofs` | of the lock: `LockTypes`, `OneOwner`, `OneReclaims`, `NothingIsLeft`; of the row: `OwnershipTypes`, `CanaryIsTrue`, `StopsAreSilent` | the named assumptions that `NoProc` and `NoDir` are none; for the row: the one on launches and the clock. What `OneOwner` and `NothingIsLeft` except (`misled`, `undone`, `broken`) is in the properties |
| `BackendAttemptProofs` | `AttemptTypes`, `NeverTwice`, `SuccessIsEarned`, `AnswersAreTrue`, `QuotaIsTold` | the named assumption on backends and reasons |
| `AccessWindowProofs` | `ReadOnlyStaysReadOnly`, `RecoveryIsReadOnly`, `SpawnIsAuthorized`, `OnlyEverLowered` | the named assumptions on configurations and edits |
| `CutoverRollbackProofs` | `CutoverTypes`, `NothingNeededIsDeleted`, `OldNeverRuns`, `RestoreBringsBack` | `NoDir` is no directory. What they except (`halfway`, `late`, `dangling`) is in the properties |

*Ledger.* `OneDelivery` is not inductive: a second delivery row is refused only because
the job's lifecycle and delivery state agree with the rows it has. `IInv` therefore joins
to the types, for each job, `Agree` (what the row of `jobs` says about its send is what its
delivery rows say) and `OneOf` (at most one row); it is stated over a row and its sends as
values, so that what one append does is a lemma without state (`AppendKeepsOneStory`) and a
transaction cites it. `AlwaysRecoverable` follows because an interrupted row that agrees
with its sends is in no lifecycle from which its recovery event is illegal. That an envelope is
dropped with the job it was for, that an accepted message has one job and that a decision of
the ingress stays are about two tables at once; each follows from what a transaction does to
one row of either.

*Service.* Every action is a transaction of the ledger or leaves the store alone, for any
number of jobs, messages and attempts (`ServiceImplementsLedger`). The step has to know that
an event names an attempt that exists and that a run past its reservation has one: `SInv`
is the ledger's `IInv` and the second of these. `AnsweredOnce` carries `DeliveredOnce` over
to the tables of the running service, and `ServiceKeepsLedgerPromises` the other properties of
the ledger: a step of the service is a step of the instance they were proved of (`SameLedger`).

*The router's run.* What a conversation is doing is spread over the queue, the waiting and
active jobs, the outbox, the continuations of the stop and the rows of the store, and every
step that frees a place ends in `#drain`. None of `ScopeSerial`, `OneAnswer`, `TruthfulOutcome`,
`WritableRunsOnce`, `NoRunAfterSend`, `NoOrphan` and `CleanStop` is inductive. `Whole` joins
to `SInv` what makes them so, in four parts:

* `FactsTyped`: the types of the router's own state, beside the ledger's `TypesOK`;
* `Standing`: a job waits in one place only, and while it waits its row is queued and it has
  no run (`Keeps`); the jobs under way are of different conversations and not more than
  `MaxConcurrent` (`Serial`); a run's stage fits the row (`Fits`) and the state of the process
  (`Timely`, `Between`); a writable job that waits or is being started was never executed. It
  is an operator of a queue `q` and the runs `r`, because most steps first change those and
  then drain: a step shows it of what it hands to `#drain`, and `DrainKeeps` carries it over
  to what comes out;
* `Drawn`: an attempt was drawn for a job that exists, and an executed one was drawn;
* `Sent`: an answer that left has its delivery row, and its job says that it may be there.
  With the ledger's one row for each job that is `OneAnswer` and `NoRunAfterSend`.

`#drain` starts every job whose conversation is free and which no job of the same conversation
precedes, as long as there is room. `Minus` says which of the queue are left by counting the
positions before them (`Ranks`), so that order and distinctness of what is left are facts about
numbers and need no induction over a filter (`DrainIsSerial`, `StartedFits`). The two
assumptions are those of the runs, and the code is why they are there: a refused write between
the two halves of `replaceJob` does leave a job in no queue, and a hook that awaits can admit a
job after the shutdown has found everything idle.

`SendEarned` needs one part more (`Earned`). The router goes on to the answer when the last
outcome it was told is success, whatever ended the attempt. But an attempt that did not end by
itself has this in its row first: a run that has come to its answer with it stands in a row that
is queued, failed or cancelled, and from none of these the store takes `delivery_started`. So
only a run without such an end passes `reserveDelivery` (`OnlyDeliverSends`).

*Gateway.* `CheckpointCovered` needs to know what is in progress. `GInv` adds to it that
every dispatch belongs to the session of the checkpoint and that all events before it are
decided (`DispatchInv`), that an open connection either waits for its READY or has
dispatched exactly the events before its next (`ConnInv`), that a log begins with READY
and has it nowhere else (`LogInv`), and that a checkpoint names the session Discord would
resume (`CheckpointInv`). It holds for any number of objects whose callbacks outlive them, while Discord keeps its
session. `SInv` is the other half: Discord may invalidate a session, and callbacks end before
the next connection. Then at most one object is in use (`Alone`), and it has no session, waits
for a READY that the checkpoint does not know, dispatches what comes right after the checkpoint
(`Current`), or works on for a session whose place is gone (`Lost`), so that what it saves is
the place of none. With that each step is one of `ResumableFeed` or none (`FeedStep`), which is
`GatewayImplementsFeed`. No timer of the code enforces `QuickCallbacks`, so the theorem that
counts is `GatewayOnlyReplays`: under `GInv` what a late callback saves is decided, and is the
place after the checkpoint, the checkpoint or a place behind it, where events come again
(`ReplayFinish`); that a READY adopts another session than the one named so far is `FreshInv`.
Without either assumption `CheckpointCovered` itself fails, as `gateway_stale` shows. `GatewayTypes` needs neither: that a callback in progress is about a message in the log
(`InWork`) is enough.

*Feed.* `NothingSkipped` of the abstract feed is inductive with the types: a session's log only
grows, decisions are never taken back, `Advance` has just looked and `Adopt` stops at READY.
A fall back within the session keeps it too, so it is proved of `ReplaySpec`, and the bridge
inherits it through `ImplementsFeed`, the gateway through `ReplaysOnly`.

*Bridge.* The host acts on requests whose sender may have died, so the invariant is about the
pipe. At most one step of a dispatch is on its way, out or back (`PipeInv`), and it is the one the
chain waits for (`Awaited`). `RequestInv` says what holds until the host carries a request out:
what is asked to be saved is decided up to there, and in the session the checkpoint names, if it
names one. `LineInv` says what an answer proves when it is read, and `ChainInv` how far the
process has come (`Place`) and what the checkpoint has of it (`Saved`): one event behind the last
begun when the chain is idle, unless something was refused or a request to forget the session is
on its way. Nothing adopts a session behind such a request (`ClearIsLast`), and a refusal lies in
the pipe until the process that reads it ends (`RefusalIsTold`). `ReceiptEarned` is what is left
of this when the pipe is empty. With `RequestInv` each request that is carried out is a step of
`ResumableFeed`, or none (`FeedAnswers`): a sequence saved after the session was forgotten is a
checkpoint of no session.

*Lock.* A process that reclaims has made the guard (`GuardInv`): `OneReclaims`, whatever
fails. For `OneOwner`, who holds the token or is making its lock made the directory that
lies there (`MakersInv`), and an inspected lock is still the one inspected, made by a
process that is gone if it was found stale (`InspectedInv`). Both fail once a dead lock has
been put back over a new one, or a lock was moved that is not the one inspected, so the
invariant is `~undone /\ ~misled => Rest`; nothing is assumed of when the calls of an
inspection come. `token_lock_race` shows that the second exception is needed. For `NoLeftovers`, who made the guard or a lock
without an owner is still in the middle of a call, and what was moved aside has an owner
(`LeftInv`): what is found stale was made by a process that is gone, so it was published.

*Row.* Launches only age (`Ages`): one is not taken back, keeps its revision, and does not
return from its end, so what was once read of it stays true. The row names a launch, and
says "stopped" only if that one is past its last job (`RowInv`); a job that nobody had to
recover is run by the launch that accepted it (`JobInv`). `CanaryTrue` follows from what the
canary's first read put into its record (`CanaryInv`), since the second read changes only the
snapshot in it. For `StoppedIsSilent`, "stopped" means that no launch owns the row, or that
the process asked is not there (`StopKeeps`): either way the launch has ended or is closing.

*Attempt.* `ExecutedOnce` needs to know that one host at a time has the attempt in hand,
under a row that is still open, and that nobody has while there is no row (`HostInv`); the
verdict never takes the row away (`WhatIsRecorded`). `SuccessEarned` needs that what was heard
is in what decides: a failure heard is the outcome, a request for an approval has led to a
reason, and a success was said (`Told`); and that who drains without a reason has confirmed
the end of the group (`DrainInv`). The lemmas are about the operators of the runner on values
(`RecordedAndTold`, `NothingGetsBetter`), so each action cites them. `AnswerTrue` and `QuotaTold`
compare with what was heard, which until the verdict is in `attempt`: `Noted` says that its text
is the last one heard and, as long as no reason and no error decide, that `failure` and `pending` are
what both streams said about a quota. `TheVerdict` is what the exit, the file and the hints make
of that; afterwards nobody has the attempt in hand (`Fate`).

*Access.* What a child may do is its command line, so the properties speak of options, and the
invariant has to say whose they are: a job's options are those of one configuration for its
backend and access (`Sound`), and are bare exactly if that access is read-only (`BareIsReadOnly`),
whatever the backend. A job that may still run was sealed under what the service has loaded,
and has the access this makes of its ceiling (`InUse`): a start drops the others, and an edit
changes only the disk. A successor was asked for as the job it replaces (`Descends`), which is
how an operator's read-only request survives any number of retries. A running job had all checks
pass in that very step, so `SpawnAuthorized` and `NeverWidened` are about what one step does
(`Kept`).

*Cutover.* What a step deletes must not be named by a unit or the pointer, and that follows
from how far the operation has come: `PrepareStage`, `InstallStage` and `RestoreStage` say
what its directory holds and who names it at each step. An install writes the service's unit
first, so while the supervisor's names the new directory the service's does too.
For `NoDowngrade` it must be known what systemd would start. `LoadedInv`: what it has loaded is
the unit file, nothing, or what the candidate is just replacing, since an install replaces only
what the source revision runs on (`Replaces`) and an install of the source is the first of all
(`First`). `Upgraded`: once the candidate ran or took a job, only it can be started. These
hold until a restore has written a unit (`halfway`), hence the condition in `NoDowngrade`. From
its last stop on, a restore has its own unit loaded and no candidate runs (`Written`), which
brings them back; the ledger is still as its last check saw it unless a job came in between
(`late`). `RollbackRuns` adds to that what a restore has put in place at each of its
steps (`Restored`), which a start, a job or a command of the operator in between does not undo.
`CutoverTypes` has to know what a restore reads: that a bundle has a config (`Filled`), in its
directory as in the plan of the operation under way.

*Checked by TLC only*: all liveness (fairness and ENABLED are beyond TLAPS).

*Proved only*: `GatewayOnlyReplays`, since the run `gateway` keeps callbacks short so that
sessions may be given up, and with both `gateway_stale` shows the violation; `DecidedOnce`, which follows from one guard of each transaction, and
`BridgeSkipsNothing`, which is `ImplementsFeed` and a property of the feed together.

## 6. Not modelled

Why each component is not modelled, or only partly, is its note in `PROJECT.json`. In short:

* The rules of `src/core` are pure functions for other hosts; nothing modelled calls them.
* Texts, prompts, history, attachments, sanitizing, credentials, envelopes' cryptography,
  configuration and command lines: conversions without a state of their own.
* `EngineSnapshot` is one sequential installer; projections and queries only read.
* Windows: of its service manager only the stop command; of its backends nothing.
* The protocol of the project policy's process: `AccessWindow` has its answers.
* Answers of several messages: one message stands for an answer, so what a partial post is
  recorded as is not asked.

Worth adding next: those chunks in `DiscordService`, and the proofs that depend on them.
