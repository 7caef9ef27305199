-------------------------- MODULE DiscordServiceProofs --------------------------
(******************************************************************************)
(* The service implements the session ledger: each of its steps is one          *)
(* transaction of SessionLedger or none, so what is proved of the ledger under  *)
(* every order of transactions holds of the service.  The step needs to know     *)
(* that a recorded event names an attempt or none, and that a run past its       *)
(* reservation has an attempt.  RunTyped says the second; the first comes from   *)
(* the ledger's own invariant, carried along in SInv.                           *)
(*                                                                            *)
(* And what the service keeps true of its queue, its runs, its attempts and its  *)
(* answers, for any number of jobs, attempts, messages and scopes: Whole.        *)
(* Standing says where every job is: in the queue, with a run, or between the    *)
(* two (what a turn in its middle and a process that stops or starts allow).     *)
(* Drawn says of which job an attempt is and that a writable job has one at      *)
(* most; Sent says what the rows show of the answers that left.  Standing is      *)
(* about values (a queue q and runs r), because most steps change them and call   *)
(* #drain on the result: the step is shown to keep Standing(q, r), and #drain to  *)
(* keep it after that (DrainKeeps).                                             *)
(******************************************************************************)
EXTENDS DiscordService, FiniteSetTheorems, SequenceTheorems, TLAPS

LP == INSTANCE SessionLedgerProofs

RunsTyped(r) ==
    /\ r \in [Jobs -> RunState]
    /\ \A j \in Jobs :
          r[j].stage \notin {"idle", "starting", "reporting"} => r[j].attempt \in Attempts

RunTyped == RunsTyped(run)

SInv == LP!IInv /\ RunTyped

--------------------------------------------------------------------------------
(* The store *)

StoreStep == Ledger!Next \/ UNCHANGED store

\* The ledger the service is built on and the one the proofs are about are two
\* instances of one module: their definitions expand to the same formula.
LEMMA SameLedger == LP!Next <=> Ledger!Next
BY DEF
   Ledger!Absorbing, LP!Absorbing, Ledger!Lifecycles, LP!Lifecycles,
   Ledger!AllowedTransitions, LP!AllowedTransitions, Ledger!RunningKinds,
   LP!RunningKinds, Ledger!DeliveryEndKinds, LP!DeliveryEndKinds,
   Ledger!TransitionFor, LP!TransitionFor, Ledger!DeliveryStates,
   LP!DeliveryStates, Ledger!RecoveryStates, LP!RecoveryStates, Ledger!Row,
   LP!Row, Ledger!FreshRow, LP!FreshRow, Ledger!Stale, LP!Stale,
   Ledger!Appendable, LP!Appendable, Ledger!EndsChild, LP!EndsChild,
   Ledger!DropsEnvelope, LP!DropsEnvelope, Ledger!Appended, LP!Appended,
   Ledger!Detached, LP!Detached, Ledger!vars, LP!vars, Ledger!DeliveryStatus,
   LP!DeliveryStatus, Ledger!Decided, LP!Decided, Ledger!CallerKinds,
   LP!CallerKinds, Ledger!Exists, LP!Exists, Ledger!StartedAttempts,
   LP!StartedAttempts, Ledger!ReserveIngress, LP!ReserveIngress,
   Ledger!AcceptIngress, LP!AcceptIngress, Ledger!CreateJob, LP!CreateJob,
   Ledger!Append, LP!Append, Ledger!RecordEvent, LP!RecordEvent,
   Ledger!ReserveAttempt, LP!ReserveAttempt, Ledger!AttachAttempt,
   LP!AttachAttempt, Ledger!FailAttempt, LP!FailAttempt,
   Ledger!StartDelivery, LP!StartDelivery, Ledger!RediscoverDelivery,
   LP!RediscoverDelivery, Ledger!DeliveryEndKind, LP!DeliveryEndKind,
   Ledger!FinishDelivery, LP!FinishDelivery, Ledger!Interrupted,
   LP!Interrupted, Ledger!RecoveryKind, LP!RecoveryKind,
   Ledger!RecoveryAttempt, LP!RecoveryAttempt, Ledger!RecoveredRow,
   LP!RecoveredRow, Ledger!Rediscovered, LP!Rediscovered,
   Ledger!RecoveryLegal, LP!RecoveryLegal, Ledger!RecoverInterruptedWork,
   LP!RecoverInterruptedWork, Ledger!ParkRecovered, LP!ParkRecovered,
   Ledger!DeleteRecovery, LP!DeleteRecovery, Ledger!Next, LP!Next

LEMMA SameRow == LP!Row = Row
BY DEF LP!Row, Row, LP!Lifecycles, Lifecycles, LP!Absorbing, Absorbing,
       LP!DeliveryStates, DeliveryStates, LP!RecoveryStates, RecoveryStates

\* The ledger's invariant survives a step of the store.
LEMMA StoreKeepsInvariant ==
    ASSUME LP!IInv, StoreStep
    PROVE  LP!IInv'
<1>1. NoJob \notin Jobs /\ NoJob \notin LP!Row
  BY NoJobIsNoRow, SameRow
<1>2. LP!IInv /\ [LP!Next]_(LP!vars) => LP!IInv'
  BY <1>1, NoAttemptIsNoAttempt, LP!NextInvariant
<1>3. [LP!Next]_(LP!vars)
  BY SameLedger DEF StoreStep, store, LP!vars
<1>4. QED
  BY <1>2, <1>3

LEMMA AttemptOfRow ==
    ASSUME LP!IInv, NEW j \in Jobs, Ledger!Exists(j)
    PROVE  jobs[j].attempt \in Attempts \cup {NoAttempt}
BY SameRow DEF LP!IInv, LP!TypeOK, Ledger!Exists, Row

\* Every event the service records is one transaction of the ledger.
LEMMA RecordIsStep ==
    ASSUME NEW j \in Jobs, NEW kind, NEW a \in Attempts \cup {NoAttempt},
           Ledger!RecordEvent(j, kind, a)
    PROVE  StoreStep
BY DEF StoreStep, Ledger!Next, Ledger!RecordEvent

LEMMA RecordOwnIsStep ==
    ASSUME LP!IInv, NEW j \in Jobs, NEW kind, Ledger!RecordEvent(j, kind, jobs[j].attempt)
    PROVE  StoreStep
<1>1. Ledger!Exists(j)
  BY DEF Ledger!RecordEvent, Ledger!Append
<1>2. QED
  BY <1>1, AttemptOfRow, RecordIsStep

--------------------------------------------------------------------------------
(* The runs *)

\* An aborted run keeps its stage and its attempt.
LEMMA AbortedTyped ==
    ASSUME NEW r \in RunState, NEW why \in {"cancel", "no_progress", "recovery"}
    PROVE  /\ Aborted(r, why) \in RunState
           /\ Aborted(r, why).stage = r.stage
           /\ Aborted(r, why).attempt = r.attempt
<1>1. CASE r.stage = "idle" \/ r.abort # "none"
  BY <1>1 DEF Aborted
<1>2. CASE ~(r.stage = "idle" \/ r.abort # "none")
  <2>1. PICK term \in {"none", "cancelled", "recovery", "failed"} :
           Aborted(r, why) = [r EXCEPT !.abort = why, !.term = term]
    <3>1. CASE r.stage # "child" \/ r.term # "none"
      BY <1>2, <3>1 DEF Aborted, RunState
    <3>2. CASE ~(r.stage # "child" \/ r.term # "none")
      BY <1>2, <3>2 DEF Aborted
    <3>3. QED
      BY <3>1, <3>2
  <2>2. QED
    BY <2>1 DEF RunState
<1>3. QED
  BY <1>1, <1>2

\* One run changes.
LEMMA OneRunChanges ==
    ASSUME RunTyped, NEW j \in Jobs, NEW r \in RunState,
           r.stage \notin {"idle", "starting", "reporting"} => r.attempt \in Attempts,
           NEW runs, runs = [run EXCEPT ![j] = r]
    PROVE  RunsTyped(runs)
BY DEF RunTyped, RunsTyped

LEMMA IdleTyped == Idle \in RunState /\ Starting \in RunState
                   /\ Idle.stage = "idle" /\ Starting.stage = "starting"
BY DEF Idle, Starting, RunState, Stages

LEMMA DrainKeepsTyped ==
    ASSUME NEW q, NEW r, RunsTyped(r), Drain(q, r)
    PROVE  RunTyped'
<1>1. run' = [j \in Jobs |-> IF j \in Started(q, r) THEN Starting ELSE r[j]]
  BY DEF Drain
<1>2. QED
  BY <1>1, IdleTyped DEF RunTyped, RunsTyped

LEMMA EndRunKeepsTyped ==
    ASSUME RunTyped, NEW j \in Jobs, EndRun(j)
    PROVE  RunTyped'
BY IdleTyped, OneRunChanges, DrainKeepsTyped DEF EndRun

LEMMA ToKeepsTyped ==
    ASSUME RunTyped, NEW j \in Jobs, NEW stage \in Stages, To(j, stage),
           stage \in {"idle", "starting", "reporting"} \/ run[j].attempt \in Attempts
    PROVE  RunTyped'
<1> DEFINE r == [run[j] EXCEPT !.stage = stage]
<1>1. r \in RunState /\ r.stage = stage /\ r.attempt = run[j].attempt
  BY DEF RunTyped, RunsTyped, RunState
<1>2. run' = [run EXCEPT ![j] = r]
  BY DEF To, RunTyped, RunsTyped
<1>3. QED
  BY <1>1, <1>2, OneRunChanges DEF RunTyped

LEMMA AbortKeepsTyped ==
    ASSUME RunTyped, NEW j \in Jobs, NEW why \in {"cancel", "no_progress", "recovery"},
           NEW runs, runs = [run EXCEPT ![j] = Aborted(@, why)]
    PROVE  RunsTyped(runs)
<1>1. run[j] \in RunState /\ runs = [run EXCEPT ![j] = Aborted(run[j], why)]
  BY DEF RunTyped, RunsTyped
<1>2. QED
  BY <1>1, AbortedTyped, OneRunChanges DEF RunTyped, RunsTyped

LEMMA ReportKeepsTyped ==
    ASSUME RunTyped, NEW j \in Jobs, Report(j)
    PROVE  RunTyped'
BY EndRunKeepsTyped, ToKeepsTyped DEF Report, Stages

\* The catch of #run records one event of its own job, or nothing.
LEMMA CatchSteps ==
    ASSUME SInv, NEW j \in Jobs, Catch(j)
    PROVE  StoreStep /\ RunTyped'
<1>1. RunTyped'
  BY ReportKeepsTyped DEF Catch, SInv
<1>2. StoreStep
  BY RecordOwnIsStep DEF Catch, SInv, StoreStep
<1>3. QED
  BY <1>1, <1>2

--------------------------------------------------------------------------------
(* The steps of the service, one lemma per action or group of actions *)

LEMMA AdmissionSteps ==
    ASSUME SInv, Admission
    PROVE  StoreStep /\ RunTyped'
<1> SUFFICES ASSUME NEW m \in Messages,
                    \/ BeginDispatch(m)
                    \/ \E decision \in {"rejected", "handled"} : DecideMessage(m, decision)
                    \/ DropDuplicate(m)
                    \/ \E j \in Jobs, writable \in BOOLEAN : AdmitMessage(m, j, writable)
             PROVE  StoreStep /\ RunTyped'
  BY DEF Admission
<1>1. CASE BeginDispatch(m) \/ DropDuplicate(m)
  BY <1>1 DEF BeginDispatch, DropDuplicate, StoreStep, SInv, RunTyped, RunsTyped
<1>2. ASSUME NEW decision \in {"rejected", "handled"}, DecideMessage(m, decision)
      PROVE  StoreStep /\ RunTyped'
  BY <1>2 DEF DecideMessage, StoreStep, Ledger!Next, SInv, RunTyped, RunsTyped
<1>3. ASSUME NEW j \in Jobs, NEW writable \in BOOLEAN, AdmitMessage(m, j, writable)
      PROVE  StoreStep /\ RunTyped'
  <2>1. RunTyped'
    BY <1>3, DrainKeepsTyped DEF AdmitMessage, SInv, RunTyped
  <2>2. Ledger!AcceptIngress(m, j, TRUE)
    BY <1>3 DEF AdmitMessage
  <2>3. StoreStep
    BY <2>2 DEF StoreStep, Ledger!Next
  <2>4. QED
    BY <2>1, <2>3
<1>4. QED
  BY <1>1, <1>2, <1>3

\* From the start of a run to its child.
LEMMA StartSteps ==
    ASSUME SInv, NEW j \in Jobs,
           \/ AbortedStart(j) \/ StartFails(j)
           \/ \E a \in Attempts : Reserve(j, a)
           \/ SpawnFails(j) \/ Attach(j)
    PROVE  StoreStep /\ RunTyped'
<1>1. CASE AbortedStart(j)
  <2>1. RunTyped'
    BY <1>1, EndRunKeepsTyped DEF AbortedStart, SInv
  <2>2. StoreStep
    BY <1>1, RecordIsStep DEF AbortedStart
  <2>3. QED
    BY <2>1, <2>2
<1>2. CASE StartFails(j)
  BY <1>2, CatchSteps DEF StartFails
<1>3. ASSUME NEW a \in Attempts, Reserve(j, a)
      PROVE  StoreStep /\ RunTyped'
  <2> DEFINE r == [run[j] EXCEPT !.stage = "spawning", !.attempt = a]
  <2>1. r \in RunState /\ r.attempt = a
    BY DEF SInv, RunTyped, RunsTyped, RunState, Stages
  <2>2. run' = [run EXCEPT ![j] = r]
    BY <1>3 DEF Reserve, SInv, RunTyped, RunsTyped
  <2>3. RunTyped'
    BY <2>1, <2>2, OneRunChanges DEF SInv, RunTyped
  <2>4. Ledger!ReserveAttempt(j, a)
    BY <1>3 DEF Reserve
  <2>5. QED
    BY <2>3, <2>4 DEF StoreStep, Ledger!Next
<1>4. CASE SpawnFails(j)
  <2>1. run[j].attempt \in Attempts
    BY <1>4 DEF SpawnFails, Stage, SInv, RunTyped, RunsTyped
  <2>2. CASE Ledger!FailAttempt(j, run[j].attempt, TRUE) /\ Report(j)
    BY <2>1, <2>2, ReportKeepsTyped DEF StoreStep, Ledger!Next, SInv
  <2>3. QED
    BY <1>4, <2>2, CatchSteps DEF SpawnFails
<1>5. CASE Attach(j)
  <2>1. run[j] \in RunState /\ run[j].attempt \in Attempts
    BY <1>5 DEF Attach, Stage, SInv, RunTyped, RunsTyped
  <2> DEFINE attached == [run[j] EXCEPT !.stage = "child", !.abort = "none"]
             r == IF run[j].abort = "none" THEN attached
                  ELSE Aborted(attached, run[j].abort)
  <2>2. attached \in RunState /\ attached.attempt = run[j].attempt
    BY <2>1 DEF RunState, Stages
  <2>3. r \in RunState /\ r.attempt = run[j].attempt
    <3> HIDE DEF attached
    <3>1. run[j].abort \in {"none", "cancel", "no_progress", "recovery"}
      BY <2>1 DEF RunState
    <3>2. QED
      BY <2>2, <3>1, AbortedTyped
  <2>4. run' = [run EXCEPT ![j] = r]
    BY <1>5 DEF Attach, SInv, RunTyped, RunsTyped
  <2> HIDE DEF r
  <2>5. RunTyped'
    BY <2>1, <2>3, <2>4, OneRunChanges DEF SInv, RunTyped
  <2>6. Ledger!AttachAttempt(j, run[j].attempt)
    BY <1>5 DEF Attach
  <2>7. QED
    BY <2>1, <2>5, <2>6 DEF StoreStep, Ledger!Next
<1>6. QED
  BY <1>1, <1>2, <1>3, <1>4, <1>5

\* What the child does.
LEMMA ChildSteps ==
    ASSUME SInv, NEW j \in Jobs, Child(j)
    PROVE  StoreStep /\ RunTyped'
<1>1. UNCHANGED store
  BY DEF Child, EndEarly, Output
<1>2. PICK r \in RunState :
         run' = [run EXCEPT ![j] = r] /\ r.attempt = run[j].attempt /\ r.stage = run[j].stage
  <2>1. run[j] \in RunState /\ DOMAIN run = Jobs
    BY DEF SInv, RunTyped, RunsTyped
  <2>2. CASE EndEarly(j)
    <3>1. run' = [run EXCEPT ![j] = [run[j] EXCEPT !.term = "failed"]]
      BY <2>1, <2>2 DEF EndEarly, SInv, RunTyped, RunsTyped
    <3>2. [run[j] EXCEPT !.term = "failed"] \in RunState
      BY <2>1 DEF RunState
    <3>3. QED
      BY <2>1, <3>1, <3>2 DEF RunState
  <2>3. ASSUME NEW outcome \in {"success", "failure"}, Output(j, outcome)
        PROVE  run' = [run EXCEPT ![j] = [run[j] EXCEPT !.outcome = outcome]]
               /\ [run[j] EXCEPT !.outcome = outcome] \in RunState
    BY <2>1, <2>3 DEF Output, RunState, SInv, RunTyped, RunsTyped
  <2>4. QED
    BY <2>1, <2>2, <2>3 DEF Child, RunState
<1>3. RunTyped'
  BY <1>2, OneRunChanges DEF SInv, RunTyped, RunsTyped
<1>4. QED
  BY <1>1, <1>3 DEF StoreStep

\* From the exit of the child to the decision to answer.
LEMMA ExitSteps ==
    ASSUME SInv, NEW j \in Jobs,
           \/ \E spoiled, unconfirmed \in BOOLEAN : ChildExits(j, spoiled, unconfirmed)
           \/ EndAttempt(j) \/ EndUnrecorded(j)
    PROVE  StoreStep /\ RunTyped'
<1>1. ASSUME NEW spoiled \in BOOLEAN, NEW unconfirmed \in BOOLEAN,
             ChildExits(j, spoiled, unconfirmed)
      PROVE  StoreStep /\ RunTyped'
  <2>1. run[j] \in RunState /\ run[j].attempt \in Attempts /\ DOMAIN run = Jobs
    BY <1>1 DEF ChildExits, Stage, SInv, RunTyped, RunsTyped
  <2> DEFINE terms == IF unconfirmed THEN {"failed"}
                      ELSE IF run[j].term = "none" THEN {"none", "failed"} ELSE {run[j].term}
             outcome == IF spoiled \/ unconfirmed THEN "failure" ELSE run[j].outcome
             after(term) ==
               [run[j] EXCEPT !.stage = "exited", !.term = term, !.outcome = outcome]
  <2>2. PICK term \in terms : run' = [run EXCEPT ![j] = after(term)]
    BY <1>1, <2>1 DEF ChildExits
  <2>3. terms \subseteq {"none", "cancelled", "recovery", "failed"}
        /\ outcome \in {"none", "success", "failure"}
    BY <2>1 DEF RunState
  <2>4. after(term) \in RunState /\ after(term).attempt \in Attempts
    <3> HIDE DEF terms, outcome
    <3>1. QED
      BY <2>1, <2>3 DEF RunState, Stages
  <2> HIDE DEF after
  <2>5. RunTyped'
    BY <2>2, <2>4, OneRunChanges DEF SInv, RunTyped
  <2>6. StoreStep
    BY <1>1, <2>1, RecordIsStep DEF ChildExits
  <2>7. QED
    BY <2>5, <2>6
<1>2. CASE EndAttempt(j)
  <2>1. run[j].attempt \in Attempts
    BY <1>2 DEF EndAttempt, Stage, SInv, RunTyped, RunsTyped
  <2>2. RunTyped'
    BY <1>2, <2>1, ToKeepsTyped, ReportKeepsTyped DEF EndAttempt, SInv, Stages
  <2>3. StoreStep
    BY <1>2, <2>1, RecordIsStep DEF EndAttempt
  <2>4. QED
    BY <2>2, <2>3
<1>3. CASE EndUnrecorded(j)
  BY <1>3, CatchSteps DEF EndUnrecorded
<1>4. QED
  BY <1>1, <1>2, <1>3

\* The answer and its send.
LEMMA AnswerSteps ==
    ASSUME SInv, NEW j \in Jobs,
           \/ Deliver(j) \/ AskDirectMessage(j) \/ NoResult(j)
           \/ \E receipt \in {"confirmed", "failed", "unknown"} :
                SendEnds(j, receipt) \/ SendEndsUnstored(j, receipt)
           \/ ReportEnds(j)
    PROVE  StoreStep /\ RunTyped'
<1>1. CASE Deliver(j)
  <2>1. run[j].attempt \in Attempts
    BY <1>1 DEF Deliver, Stage, SInv, RunTyped, RunsTyped
  <2>2. CASE Send(j)
    <3>1. RunTyped'
      BY <2>1, <2>2, ToKeepsTyped DEF Send, SInv, Stages
    <3>2. Ledger!StartDelivery(j, run[j].attempt)
      BY <2>2 DEF Send
    <3>3. QED
      BY <2>1, <3>1, <3>2 DEF StoreStep, Ledger!Next
  <2>3. QED
    BY <1>1, <2>2, CatchSteps DEF Deliver
<1>2. CASE AskDirectMessage(j)
  <2>1. run[j].attempt \in Attempts
    BY <1>2 DEF AskDirectMessage, Stage, SInv, RunTyped, RunsTyped
  <2>2. RunTyped'
    BY <1>2, <2>1, ToKeepsTyped DEF AskDirectMessage, SInv, Stages
  <2>3. QED
    BY <1>2, <2>2 DEF AskDirectMessage, StoreStep
<1>3. CASE NoResult(j)
  BY <1>3, CatchSteps DEF NoResult
<1>4. ASSUME NEW receipt \in {"confirmed", "failed", "unknown"},
             SendEnds(j, receipt) \/ SendEndsUnstored(j, receipt)
      PROVE  StoreStep /\ RunTyped'
  <2>1. run[j].attempt \in Attempts
    BY <1>4 DEF SendEnds, SendEndsUnstored, Stage, SInv, RunTyped, RunsTyped
  <2>2. ASSUME NEW stored \in {"confirmed", "failed", "unknown"},
               Ledger!FinishDelivery(j, run[j].attempt, stored)
        PROVE  StoreStep
    BY <2>1, <2>2 DEF StoreStep, Ledger!Next
  <2>3. CASE SendEnds(j, receipt)
    BY <2>2, <2>3, EndRunKeepsTyped DEF SendEnds, SInv
  <2>4. CASE SendEndsUnstored(j, receipt)
    <3>1. CASE receipt = "confirmed"
      <4>1. EndRun(j)
        BY <2>4, <3>1 DEF SendEndsUnstored
      <4>2. Ledger!FinishDelivery(j, run[j].attempt, "unknown") \/ UNCHANGED store
        BY <2>4, <3>1 DEF SendEndsUnstored
      <4>3. QED
        BY <2>2, <4>1, <4>2, EndRunKeepsTyped DEF SInv, StoreStep
    <3>2. CASE receipt # "confirmed"
      BY <2>4, <3>2, CatchSteps DEF SendEndsUnstored
    <3>3. QED
      BY <3>1, <3>2
  <2>5. QED
    BY <1>4, <2>3, <2>4
<1>5. CASE ReportEnds(j)
  BY <1>5, EndRunKeepsTyped DEF ReportEnds, StoreStep, SInv
<1>6. QED
  BY <1>1, <1>2, <1>3, <1>4, <1>5

\* What Discord does with a request on its way.
LEMMA NetworkSteps ==
    ASSUME SInv, NEW a \in Attempts, Arrives(a) \/ IsLost(a)
    PROVE  StoreStep /\ RunTyped'
BY DEF Arrives, IsLost, StoreStep, process, SInv, RunTyped, RunsTyped

\* Operators and the watchdog.
LEMMA ControlSteps ==
    ASSUME SInv, Control
    PROVE  StoreStep /\ RunTyped'
<1>1. ASSUME NEW j \in Jobs, CancelQueued(j)
      PROVE  StoreStep /\ RunTyped'
  <2>1. RunTyped'
    BY <1>1 DEF CancelQueued, SInv, RunTyped, RunsTyped
  <2>2. StoreStep
    BY <1>1, RecordIsStep DEF CancelQueued, StoreStep
  <2>3. QED
    BY <2>1, <2>2
<1>2. ASSUME NEW j \in Jobs, CancelActive(j)
      PROVE  StoreStep /\ RunTyped'
  BY <1>2, AbortKeepsTyped DEF CancelActive, Abort, StoreStep, SInv, RunTyped
<1>3. ASSUME NEW j \in Jobs, Watchdog(j)
      PROVE  StoreStep /\ RunTyped'
  <2>1. CASE Abort(j, "no_progress") /\ UNCHANGED store
    BY <2>1, AbortKeepsTyped DEF Abort, StoreStep, SInv, RunTyped
  <2>2. CASE Ledger!RecordEvent(j, "failed", jobs[j].attempt) /\ UNCHANGED <<queue, run>>
    BY <2>2, RecordOwnIsStep DEF SInv, RunTyped, RunsTyped
  <2>3. QED
    BY <1>3, <2>1, <2>2 DEF Watchdog
<1>4. ASSUME NEW j \in Jobs, NEW r \in Jobs, NEW writable \in BOOLEAN,
             Replace(j, r, writable)
      PROVE  StoreStep /\ RunTyped'
  BY <1>4 DEF Replace, StoreStep, Ledger!Next, SInv, RunTyped, RunsTyped
<1>5. ASSUME NEW old \in Jobs, NEW new \in Jobs, FinishReplace(old, new)
      PROVE  StoreStep /\ RunTyped'
  <2>1. CASE /\ Ledger!RecordEvent(old, "cancelled", NoAttempt)
             /\ Drain(Append(Without(queue, old), new), run)
    BY <2>1, RecordIsStep, DrainKeepsTyped DEF SInv, RunTyped
  <2>2. CASE /\ UNCHANGED store
             /\ Drain(Append(queue, new), [run EXCEPT ![old] = Aborted(@, "cancel")])
    BY <2>2, AbortKeepsTyped, DrainKeepsTyped DEF StoreStep, SInv
  <2>3. CASE /\ Ledger!DeleteRecovery(old)
             /\ Drain(Append(queue, new), run)
    BY <2>3, DrainKeepsTyped DEF StoreStep, Ledger!Next, SInv, RunTyped
  <2>4. CASE UNCHANGED <<store, run>>
    BY <2>4 DEF StoreStep, SInv, RunTyped, RunsTyped
  <2>5. QED
    BY <1>5, <2>1, <2>2, <2>3, <2>4 DEF FinishReplace
<1>6. QED
  BY <1>1, <1>2, <1>3, <1>4, <1>5 DEF Control

\* Shutdown, crash and start.
LEMMA LifeSteps ==
    ASSUME SInv,
           Shutdown \/ Stopping \/ Crash \/ Start \/ \E j \in Jobs : ResumeOne(j)
    PROVE  StoreStep /\ RunTyped'
<1>1. CASE Shutdown
  <2>1. UNCHANGED store /\ run' = [j \in Jobs |-> Aborted(run[j], "recovery")]
    BY <1>1 DEF Shutdown
  <2>2. RunTyped'
    BY <2>1, AbortedTyped DEF SInv, RunTyped, RunsTyped
  <2>3. QED
    BY <2>1, <2>2 DEF StoreStep
<1>2. ASSUME NEW j \in Jobs, FlushQueue(j)
      PROVE  StoreStep /\ RunTyped'
  <2>1. RunTyped'
    BY <1>2 DEF FlushQueue, SInv, RunTyped, RunsTyped
  <2>2. StoreStep
    BY <1>2, RecordIsStep DEF FlushQueue, StoreStep
  <2>3. QED
    BY <2>1, <2>2
<1>3. CASE IdleReached
  BY <1>3 DEF IdleReached, StoreStep, SInv, RunTyped, RunsTyped
<1>4. CASE Gone
  BY <1>4, IdleTyped DEF Gone, StoreStep, RunTyped, RunsTyped
<1>5. CASE Start
  BY <1>5 DEF Start, StoreStep, Ledger!Next, SInv, RunTyped, RunsTyped
<1>6. ASSUME NEW j \in Jobs, ResumeOne(j)
      PROVE  StoreStep /\ RunTyped'
  <2>1. UNCHANGED store \/ Ledger!ParkRecovered(j)
    BY <1>6 DEF ResumeOne
  <2>2. (\E q : Drain(q, run)) \/ UNCHANGED run
    BY <1>6 DEF ResumeOne
  <2>3. RunTyped'
    BY <2>2, DrainKeepsTyped DEF SInv, RunTyped
  <2>4. StoreStep
    BY <2>1 DEF StoreStep, Ledger!Next
  <2>5. QED
    BY <2>3, <2>4
<1>7. QED
  BY <1>1, <1>2, <1>3, <1>4, <1>5, <1>6 DEF Stopping, Close, Crash

--------------------------------------------------------------------------------
(* The service implements the ledger *)

LEMMA InitSteps ==
    ASSUME Init
    PROVE  Ledger!Init /\ SInv
<1>1. NoJob \notin Jobs /\ NoJob \notin LP!Row
  BY NoJobIsNoRow, SameRow
<1>2. LP!Init
  BY DEF Init, Ledger!Init, LP!Init
<1>3. LP!IInv
  BY <1>1, <1>2, NoAttemptIsNoAttempt, LP!InitInvariant
<1>4. RunTyped
  BY IdleTyped DEF Init, RunTyped, RunsTyped
<1>5. QED
  BY <1>3, <1>4 DEF Init, SInv

LEMMA NextSteps ==
    ASSUME SInv, [Next]_vars
    PROVE  StoreStep /\ SInv'
<1>1. StoreStep /\ RunTyped'
  <2>1. CASE UNCHANGED vars
    BY <2>1 DEF vars, process, StoreStep, SInv, RunTyped, RunsTyped
  <2>2. ASSUME NEW j \in Jobs, RunStep(j)
        PROVE  StoreStep /\ RunTyped'
    BY <2>2, StartSteps, ExitSteps, AnswerSteps DEF RunStep
  <2>3. CASE Next
    BY <2>2, <2>3, AdmissionSteps, ChildSteps, NetworkSteps, ControlSteps, LifeSteps
       DEF Next
  <2>4. QED
    BY <2>1, <2>3
<1>2. QED
  BY <1>1, StoreKeepsInvariant DEF SInv

\* Every step of the service, crashes and failing writes included, is one
\* transaction of the session store or none (router, runner and delivery against
\* the three store writers).
THEOREM ServiceImplementsLedger == Spec => ImplementsLedger
<1>1. Init => Ledger!Init /\ SInv
  BY InitSteps
<1>2. SInv /\ [Next]_vars => SInv' /\ [Ledger!Next]_(Ledger!vars)
  BY NextSteps DEF StoreStep, store, Ledger!vars
<1>3. QED
  BY <1>1, <1>2, PTL DEF Spec, ImplementsLedger, Ledger!Spec

\* Over every interleaving of runs, operators, crashes and restarts, the store
\* records the send of at most one answer to a job.
THEOREM AnsweredOnce == Spec => []Ledger!OneDelivery
<1>1. Init => SInv
  BY InitSteps
<1>2. SInv /\ [Next]_vars => SInv'
  BY NextSteps
<1>3. SInv => Ledger!OneDelivery
  BY DEF SInv, LP!IInv, LP!OneStory, LP!OneOf, Ledger!OneDelivery
<1>4. QED
  BY <1>1, <1>2, <1>3, PTL DEF Spec

--------------------------------------------------------------------------------
(* Counting positions *)

\* how many members of S are below i
Rank(S, i) == Cardinality({k \in S : k < i})

\* The members of a finite set of positions are numbered from 0, in their order.
LEMMA Ranks ==
    ASSUME NEW S \in SUBSET Nat, IsFiniteSet(S)
    PROVE  /\ Cardinality(S) \in Nat
           /\ \A i \in S : Rank(S, i) \in 0..(Cardinality(S) - 1)
           /\ \A i, k \in S : i < k => Rank(S, i) < Rank(S, k)
           /\ \A n \in 0..(Cardinality(S) - 1) : \E i \in S : Rank(S, i) = n
<1> DEFINE below(i) == {k \in S : k < i}
           N == Cardinality(S)
<1>1. N \in Nat
  BY FS_CardinalityType
<1>2. ASSUME NEW i \in S
      PROVE  IsFiniteSet(below(i)) /\ Cardinality(below(i)) \in Nat /\ Cardinality(below(i)) < N
  <2>1. below(i) \in SUBSET S /\ below(i) # S
    OBVIOUS
  <2>2. IsFiniteSet(below(i)) /\ Cardinality(below(i)) <= N /\ Cardinality(below(i)) # N
    BY <2>1, FS_Subset
  <2>3. QED
    BY <1>1, <2>2, FS_CardinalityType
<1>3. ASSUME NEW i \in S, NEW k \in S, i < k
      PROVE  Cardinality(below(i)) < Cardinality(below(k))
  <2>1. below(i) \in SUBSET below(k) /\ below(i) # below(k)
    <3>1. i \in below(k) /\ i \notin below(i)
      BY <1>3
    <3>2. \A m \in Nat : m < i => m < k
      BY <1>3
    <3>3. below(i) \subseteq below(k)
      BY <3>2
    <3> HIDE DEF below
    <3>4. QED
      BY <3>1, <3>3
  <2>2. Cardinality(below(i)) <= Cardinality(below(k))
        /\ Cardinality(below(i)) # Cardinality(below(k))
    BY <1>2, <2>1, FS_Subset
  <2>3. QED
    BY <1>2, <2>2
<1> DEFINE rank == [i \in S |-> Cardinality(below(i))]
           places == 0..(N - 1)
<1>4. rank \in [S -> places]
  BY <1>1, <1>2
<1>5. rank \in Injection(S, places)
  <2>1. \A i, k \in S : rank[i] = rank[k] => i = k
    <3> SUFFICES ASSUME NEW i \in S, NEW k \in S, rank[i] = rank[k], i # k PROVE FALSE
      OBVIOUS
    <3>1. rank[i] \in Nat /\ rank[k] \in Nat
      BY <1>2
    <3>2. CASE i < k
      BY <1>3, <3>1, <3>2
    <3>3. CASE k < i
      BY <1>3, <3>1, <3>3
    <3>4. QED
      BY <3>2, <3>3
  <2> HIDE DEF rank, places
  <2>2. QED
    BY <1>4, <2>1 DEF Injection, IsInjective
<1>6. IsFiniteSet(places) /\ Cardinality(places) = N
  <2>1. IsFiniteSet(0..(N - 1))
        /\ Cardinality(0..(N - 1)) = IF 0 > N - 1 THEN 0 ELSE (N - 1) - 0 + 1
    <3> HIDE DEF rank, places, N, below
    <3>1. N - 1 \in Int /\ 0 \in Int
      BY <1>1
    <3>2. QED
      BY <3>1, FS_Interval
  <2>2. QED
    BY <1>1, <2>1
<1>7. rank \in Surjection(S, places)
  <2> HIDE DEF rank, places, N
  <2>1. IsFiniteSet(places)
    BY <1>6
  <2>2. Cardinality(S) = Cardinality(places) <=> rank \in Surjection(S, places)
    BY <1>5, <2>1, FS_Injection
  <2>3. Cardinality(S) = Cardinality(places)
    BY <1>6 DEF N
  <2>4. QED
    BY <2>2, <2>3
<1>8. \A n \in places : \E i \in S : rank[i] = n
  <2> HIDE DEF rank, places
  <2>1. QED
    BY <1>7 DEF Surjection
<1>9. QED
  BY <1>1, <1>2, <1>3, <1>8 DEF Rank

\* As many members of S as there is room for: those with fewer than room before them.
LEMMA RoomFor ==
    ASSUME NEW S \in SUBSET Nat, IsFiniteSet(S), NEW room \in Nat
    PROVE  LET first == {i \in S : Rank(S, i) < room}
           IN  IsFiniteSet(first) /\ Cardinality(first) <= room
<1> DEFINE first == {i \in S : Rank(S, i) < room}
           rank == [i \in first |-> Rank(S, i)]
           places == 0..(room - 1)
<1>1. \A i \in S : Rank(S, i) \in Nat
  BY Ranks
<1>2. rank \in [first -> places]
  <2>1. \A i \in first : Rank(S, i) \in places
    BY <1>1
  <2> HIDE DEF first, places
  <2>2. QED
    BY <2>1
<1>3. \A i, k \in first : rank[i] = rank[k] => i = k
  <2> SUFFICES ASSUME NEW i \in S, NEW k \in S, Rank(S, i) = Rank(S, k), i # k PROVE FALSE
    OBVIOUS
  <2>1. i \in Nat /\ k \in Nat /\ Rank(S, i) \in Nat
    BY <1>1
  <2>2. i < k \/ k < i
    BY <2>1
  <2>3. ~(Rank(S, i) < Rank(S, k)) /\ ~(Rank(S, k) < Rank(S, i))
    BY <2>1
  <2>4. QED
    BY <2>2, <2>3, Ranks
<1>4. rank \in Injection(first, places)
  <2> HIDE DEF rank, first, places
  <2>1. QED
    BY <1>2, <1>3 DEF Injection, IsInjective
<1>5. IsFiniteSet(places) /\ Cardinality(places) = room
  <2>1. IsFiniteSet(0..(room - 1))
        /\ Cardinality(0..(room - 1)) = IF 0 > room - 1 THEN 0 ELSE (room - 1) - 0 + 1
    BY FS_Interval
  <2>2. QED
    BY <2>1
<1>6. QED
  <2> HIDE DEF rank, first, places
  <2>1. IsFiniteSet(first) /\ Cardinality(first) <= room
    BY <1>4, <1>5, FS_Injection
  <2>2. QED
    BY <2>1 DEF first

--------------------------------------------------------------------------------
(* The queue *)

In(q, j) == \E i \in DOMAIN q : q[i] = j

\* a queue holds jobs, and none twice
Lined(q) == q \in Seq(Jobs) /\ \A i, k \in DOMAIN q : q[i] = q[k] => i = k

\* What leaves the queue is gone, the others stay, in the queue once each.
LEMMA MinusKeepsRest ==
    ASSUME NEW q, Lined(q), NEW gone
    PROVE  /\ Lined(Minus(q, gone))
           /\ \A j : In(Minus(q, gone), j) <=> In(q, j) /\ j \notin gone
<1> DEFINE left == {i \in DOMAIN q : q[i] \notin gone}
           N == Cardinality(left)
           nth(n) == CHOOSE i \in left : Rank(left, i) = n - 1
           rest == [n \in 1..N |-> q[nth(n)]]
<1>1. Len(q) \in Nat /\ DOMAIN q = 1..Len(q) /\ \A i \in DOMAIN q : q[i] \in Jobs
  BY LenProperties, ElementOfSeq DEF Lined
<1>2. left \in SUBSET Nat /\ IsFiniteSet(left) /\ N \in Nat
  <2>1. IsFiniteSet(1..Len(q))
    BY <1>1, FS_Interval
  <2>2. left \in SUBSET (1..Len(q)) /\ left \in SUBSET Nat
    BY <1>1
  <2>3. QED
    BY <2>1, <2>2, FS_Subset, FS_CardinalityType
<1>3. /\ \A i \in left : Rank(left, i) \in 0..(N - 1)
      /\ \A n \in 0..(N - 1) : \E i \in left : Rank(left, i) = n
      /\ \A i, k \in left : i < k => Rank(left, i) < Rank(left, k)
  <2> HIDE DEF left
  <2>1. QED
    BY <1>2, Ranks
<1>4. ASSUME NEW n \in 1..N
      PROVE  nth(n) \in left /\ Rank(left, nth(n)) = n - 1
  <2> HIDE DEF left, N
  <2>1. n - 1 \in 0..(N - 1)
    BY <1>2
  <2>2. \E i \in left : Rank(left, i) = n - 1
    BY <1>3, <2>1
  <2>3. QED
    BY <2>2
<1>5. Minus(q, gone) = rest
  BY DEF Minus, Rank
<1> HIDE DEF nth
<1>6. rest \in [1..N -> Jobs] /\ DOMAIN rest = 1..N
  BY <1>1, <1>4
<1>7. rest \in Seq(Jobs)
  <2> HIDE DEF rest, N
  <2>1. QED
    BY <1>2, <1>6
<1>8. ASSUME NEW n \in 1..N, NEW o \in 1..N, rest[n] = rest[o]
      PROVE  n = o
  <2>1. nth(n) = nth(o)
    BY <1>4, <1>8 DEF Lined
  <2>2. QED
    BY <1>2, <1>4, <2>1
<1>9. ASSUME NEW j, In(q, j), j \notin gone
      PROVE  \E n \in 1..N : rest[n] = j
  <2>1. PICK i \in left : q[i] = j
    BY <1>9 DEF In
  <2> HIDE DEF left, N
  <2>2. Rank(left, i) \in 0..(N - 1)
    BY <1>3, <2>1
  <2> DEFINE n == Rank(left, i) + 1
  <2>3. n \in 1..N /\ n - 1 = Rank(left, i)
    BY <1>2, <2>2
  <2> HIDE DEF n
  <2>4. nth(n) \in left /\ Rank(left, nth(n)) = Rank(left, i)
    BY <1>4, <2>3
  <2>5. nth(n) = i
    <3>1. nth(n) \in Nat /\ i \in Nat
      BY <1>2, <2>1, <2>4
    <3>2. nth(n) < i \/ i < nth(n) \/ nth(n) = i
      BY <3>1
    <3>3. ~(Rank(left, i) < Rank(left, i))
      BY <2>2
    <3>4. QED
      BY <1>3, <2>1, <2>4, <3>2, <3>3
  <2>6. QED
    BY <2>1, <2>3, <2>5
<1>10. ASSUME NEW n \in 1..N
       PROVE  In(q, rest[n]) /\ rest[n] \notin gone
  BY <1>4 DEF In
<1>11. QED
  <2>1. Lined(rest)
    BY <1>6, <1>7, <1>8 DEF Lined
  <2>2. \A j : In(rest, j) <=> In(q, j) /\ j \notin gone
    <3> HIDE DEF rest
    <3>1. QED
      BY <1>6, <1>9, <1>10 DEF In
  <2>3. QED
    BY <1>5, <2>1, <2>2

\* A job that was not in the queue is put at its end.
LEMMA AppendedIsLined ==
    ASSUME NEW q, Lined(q), NEW j \in Jobs, ~In(q, j)
    PROVE  /\ Lined(Append(q, j))
           /\ \A i : In(Append(q, j), i) <=> In(q, i) \/ i = j
<1>1. Len(q) \in Nat /\ DOMAIN q = 1..Len(q)
  BY LenProperties DEF Lined
<1>2. /\ Append(q, j) \in Seq(Jobs)
      /\ Len(Append(q, j)) = Len(q) + 1
      /\ \A i \in 1..Len(q) : Append(q, j)[i] = q[i]
      /\ Append(q, j)[Len(q) + 1] = j
  BY AppendProperties DEF Lined
<1>3. DOMAIN Append(q, j) = 1..(Len(q) + 1)
  BY <1>2, LenProperties
<1> DEFINE new == Append(q, j)
<1> HIDE DEF new
<1>4. Lined(new)
  BY <1>1, <1>2, <1>3 DEF Lined, In, new
<1>5. \A i : In(new, i) <=> In(q, i) \/ i = j
  BY <1>1, <1>2, <1>3 DEF In, new
<1>6. QED
  BY <1>4, <1>5 DEF new

\* The empty queue is in order.
LEMMA EmptyIsLined == Lined(<<>>) /\ \A j : ~In(<<>>, j)
BY EmptySeq DEF Lined, In

\* The next of a queue that is handed over leaves it.
LEMMA TailIsLined ==
    ASSUME NEW q, Lined(q), q # <<>>
    PROVE  /\ Head(q) \in Jobs /\ In(q, Head(q))
           /\ Lined(Tail(q))
           /\ \A j : In(Tail(q), j) <=> In(q, j) /\ j # Head(q)
           /\ Len(q) = 1 <=> Tail(q) = <<>>
<1>1. Len(q) \in Nat /\ DOMAIN q = 1..Len(q) /\ Len(q) # 0
  BY LenProperties, EmptySeq DEF Lined
<1>2. /\ Head(q) = q[1] /\ Head(q) \in Jobs
      /\ Tail(q) \in Seq(Jobs)
      /\ Len(Tail(q)) = Len(q) - 1
      /\ \A i \in 1..Len(Tail(q)) : Tail(q)[i] = q[i + 1]
  BY <1>1, HeadTailProperties DEF Lined
<1>3. DOMAIN Tail(q) = 1..(Len(q) - 1)
  BY <1>2, LenProperties
<1> DEFINE new == Tail(q)
<1> HIDE DEF new
<1>4. \A i \in 1..(Len(q) - 1) : new[i] = q[i + 1] /\ i + 1 \in 1..Len(q)
  BY <1>1, <1>2 DEF new
<1>5. \A i \in 1..Len(q) : i # 1 => i - 1 \in 1..(Len(q) - 1) /\ new[i - 1] = q[i]
  BY <1>1, <1>4
<1>6. Lined(new)
  BY <1>1, <1>2, <1>3, <1>4 DEF Lined, new
<1>7. \A j : In(new, j) <=> In(q, j) /\ j # Head(q)
  <2>1. ASSUME NEW j, In(new, j) PROVE In(q, j) /\ j # Head(q)
    BY <1>1, <1>2, <1>3, <1>4, <2>1 DEF In, Lined, new
  <2>2. ASSUME NEW j, In(q, j), j # Head(q) PROVE In(new, j)
    <3>1. PICK i \in 1..Len(q) : q[i] = j /\ i # 1
      BY <1>1, <1>2, <2>2 DEF In
    <3>2. QED
      BY <1>3, <1>5, <3>1 DEF In, new
  <2>3. QED
    BY <2>1, <2>2
<1>8. Len(q) = 1 <=> Tail(q) = <<>>
  <2>1. Tail(q) = <<>> <=> Len(Tail(q)) = 0
    BY <1>2, EmptySeq
  <2>2. QED
    BY <1>1, <1>2, <2>1
<1>9. QED
  BY <1>1, <1>2, <1>6, <1>7, <1>8 DEF new, In

--------------------------------------------------------------------------------
(* The invariant: who waits for a run, and who has one *)

\* j is the replacement that replaceJob has created and not queued yet
Replaces(j) == replacing # <<>> /\ j = replacing[2]

\* a job that is to get a run, with the queue q
Waits(q, j) == In(q, j) \/ j \in toResume \/ Replaces(j)

\* The runs are those of different conversations, and not too many.
Serial(r) ==
    /\ IsFiniteSet(Active(r))
    /\ Cardinality(Active(r)) <= MaxConcurrent
    /\ \A i, j \in Active(r) : about[i].scope = about[j].scope => i = j

\* what the row of a job is at the stages of its run
Fits(row, r) ==
    /\ r.stage # "idle" => row # NoJob
    /\ r.stage \in {"starting", "spawning"} => row.lifecycle = "queued"
    /\ r.stage \in {"answering", "dm"} => row.lifecycle # "delivering"
    /\ r.stage = "reporting" => Ended(row)

\* what the state of the process says of a run
Timely(r) ==
    /\ status \in {"down", "resuming", "flushing"} \/ replacing # <<>> =>
          r.stage \notin {"exited", "answering"}
    /\ status \in {"down", "resuming"} => r.stage = "idle"
    /\ status \in {"up", "resuming", "down"} => r.abort # "recovery" /\ r.term # "recovery"
    /\ ~SlowHook /\ status = "draining" => r.stage = "idle"

\* One job, with the queue q and the run r: it waits in one place at most and only
\* while its row is queued; a writable one that may still start was never executed;
\* and none that has not ended is forgotten while the service is up.
Keeps(q, r, j) ==
    /\ Waits(q, j) => jobs[j] # NoJob /\ jobs[j].lifecycle = "queued" /\ r.stage = "idle"
    /\ In(q, j) => j \notin toResume /\ ~Replaces(j)
    /\ Fits(jobs[j], r)
    /\ Timely(r)
    /\ r.stage \notin {"idle", "starting", "reporting"} => drawn[r.attempt] = j
    /\ about[j].writable /\ (In(q, j) \/ Replaces(j) \/ r.stage \in {"starting", "spawning"})
         => \A a \in executed : drawn[a] # j
    /\ ~StoreFaults /\ status \in {"up", "resuming"} /\ jobs[j] # NoJob /\ ~Ended(jobs[j])
         => Waits(q, j) \/ r.stage # "idle"

\* the queue between start and stop
Between(q) ==
    /\ status = "down" => q = <<>>
    /\ status = "flushing" => q # <<>>
    /\ replacing # <<>> => status = "up"
    /\ toResume # {} => status = "resuming"
    /\ ~SlowHook /\ status \in {"stopping", "draining"} => q = <<>>

Standing(q, r) ==
    Lined(q) /\ Serial(r) /\ Between(q) /\ \A j \in Jobs : Keeps(q, r[j], j)

\* An attempt was drawn for a job that exists; one that was executed was drawn, and a
\* writable job has no two of them.
Drawn ==
    /\ \A a \in Attempts : drawn[a] # NoJob => jobs[drawn[a]] # NoJob
    /\ \A a \in executed : drawn[a] # NoJob
    /\ WritableRunsOnce

\* An answer that left has its delivery row, and its job says that it may be there.
Sent ==
    /\ \A a \in Outgoing : /\ drawn[a] # NoJob
                           /\ deliveries[drawn[a]][a] # "none"
                           /\ jobs[drawn[a]].deliveryState \in {"sending", "delivered", "unknown"}
    /\ \A j \in Jobs, a \in Attempts : deliveries[j][a] = "confirmed" => a \in posted

--------------------------------------------------------------------------------
(* #drain *)

\* What #drain starts is in the queue, each of a conversation that is free, and
\* there is room for all of it.
LEMMA StartedFits ==
    ASSUME NEW q, Lined(q), NEW r, Serial(r)'
    PROVE  LET S == Started(q, r) IN
           /\ \A j \in S : j \in Jobs /\ In(q, j)
           /\ \A i \in Active(r), j \in S : about'[i].scope # about'[j].scope
           /\ \A i, j \in S : about'[i].scope = about'[j].scope => i = j
           /\ IsFiniteSet(S)
           /\ Cardinality(Active(r)) \in Nat /\ Cardinality(S) \in Nat
           /\ Cardinality(Active(r)) + Cardinality(S) <= MaxConcurrent
<1> DEFINE busy == {about'[j].scope : j \in Active(r)}
           startable == {i \in DOMAIN q :
                           /\ about'[q[i]].scope \notin busy
                           /\ \A k \in 1..(i - 1) : about'[q[k]].scope # about'[q[i]].scope}
           room == MaxConcurrent - Cardinality(Active(r))
           first == {i \in startable : Rank(startable, i) < room}
           S == {q[i] : i \in first}
<1>1. /\ IsFiniteSet(Active(r)) /\ Cardinality(Active(r)) <= MaxConcurrent
      /\ Cardinality(Active(r)) \in Nat /\ room \in Nat
  <2>1. IsFiniteSet(Active(r)) /\ Cardinality(Active(r)) <= MaxConcurrent
    BY DEF Serial, Active
  <2>2. Cardinality(Active(r)) \in Nat
    BY <2>1, FS_CardinalityType
  <2>3. QED
    BY <2>1, <2>2, LimitsArePositive
<1>2. DOMAIN q = 1..Len(q) /\ Len(q) \in Nat /\ \A i \in DOMAIN q : q[i] \in Jobs
  BY LenProperties, ElementOfSeq DEF Lined
<1>3. startable \in SUBSET Nat /\ IsFiniteSet(startable)
  <2>1. startable \in SUBSET (1..Len(q)) /\ startable \in SUBSET Nat
    BY <1>2
  <2> HIDE DEF startable
  <2>2. IsFiniteSet(1..Len(q))
    BY <1>2, FS_Interval
  <2>3. QED
    BY <2>1, <2>2, FS_Subset
<1>4. Started(q, r) = S
  <2>1. ASSUME NEW n \in startable
        PROVE  Cardinality(Active(r)) + Cardinality({k \in startable : k < n}) < MaxConcurrent
                 <=> Rank(startable, n) < room
    <3> HIDE DEF startable
    <3>1. Rank(startable, n) \in Nat
      BY <1>3, Ranks
    <3>2. Cardinality({k \in startable : k < n}) = Rank(startable, n)
      BY DEF Rank
    <3>3. QED
      BY <1>1, <3>1, <3>2, LimitsArePositive
  <2>2. {n \in startable : Cardinality(Active(r))
                             + Cardinality({k \in startable : k < n}) < MaxConcurrent} = first
    <3> HIDE DEF startable, room
    <3>1. QED
      BY <2>1
  <2>3. Started(q, r)
          = {q[i] : i \in {n \in startable :
                             Cardinality(Active(r))
                               + Cardinality({k \in startable : k < n}) < MaxConcurrent}}
    BY DEF Started
  <2> HIDE DEF startable, first
  <2>4. QED
    BY <2>2, <2>3
<1>5. IsFiniteSet(first) /\ Cardinality(first) <= room
  <2> HIDE DEF startable, room
  <2>1. QED
    BY <1>1, <1>3, RoomFor
<1>6. IsFiniteSet(S) /\ Cardinality(S) <= room /\ Cardinality(S) \in Nat
  <2> DEFINE f == [i \in first |-> q[i]]
  <2>1. f \in Surjection(first, S)
    <3> HIDE DEF first
    <3>1. QED
      BY DEF Surjection
  <2>2. IsFiniteSet(S) /\ Cardinality(S) <= Cardinality(first)
    <3> HIDE DEF first, S, f
    <3>1. QED
      BY <1>5, <2>1, FS_Surjection
  <2> HIDE DEF first, S, room
  <2>3. Cardinality(S) \in Nat /\ Cardinality(first) \in Nat
    BY <1>5, <2>2, FS_CardinalityType
  <2>4. QED
    BY <1>1, <1>5, <2>2, <2>3
<1>7. \A i \in first : q[i] \in Jobs /\ In(q, q[i]) /\ about'[q[i]].scope \notin busy
  BY <1>2 DEF In
<1>8. ASSUME NEW i \in first, NEW k \in first, about'[q[i]].scope = about'[q[k]].scope
      PROVE  i = k
  <2>1. i \in 1..Len(q) /\ k \in 1..Len(q)
    BY <1>2
  <2>2. /\ \A n \in 1..(i - 1) : about'[q[n]].scope # about'[q[i]].scope
        /\ \A n \in 1..(k - 1) : about'[q[n]].scope # about'[q[k]].scope
    OBVIOUS
  <2> HIDE DEF first
  <2>3. i \notin 1..(k - 1) /\ k \notin 1..(i - 1)
    BY <1>8, <2>2
  <2>4. QED
    BY <1>2, <2>1, <2>3
<1>9. /\ \A j \in S : j \in Jobs /\ In(q, j)
      /\ \A i \in Active(r), j \in S : about'[i].scope # about'[j].scope
      /\ \A i, j \in S : about'[i].scope = about'[j].scope => i = j
  <2> HIDE DEF first
  <2>1. QED
    BY <1>7, <1>8
<1>10. Cardinality(Active(r)) + Cardinality(S) <= MaxConcurrent
  <2> HIDE DEF S
  <2>1. QED
    BY <1>1, <1>6, LimitsArePositive
<1>11. QED
  <2> HIDE DEF S
  <2>1. QED
    BY <1>1, <1>4, <1>6, <1>9, <1>10

\* After #drain the runs are those there were and those it started.
LEMMA DrainIsSerial ==
    ASSUME NEW q, Lined(q), NEW r, RunsTyped(r), Serial(r)', Drain(q, r)
    PROVE  Serial(run)'
<1> DEFINE S == Started(q, r)
<1>1. /\ \A j \in S : j \in Jobs
      /\ \A i \in Active(r), j \in S : about'[i].scope # about'[j].scope
      /\ \A i, j \in S : about'[i].scope = about'[j].scope => i = j
      /\ IsFiniteSet(S)
      /\ Cardinality(Active(r)) \in Nat /\ Cardinality(S) \in Nat
      /\ Cardinality(Active(r)) + Cardinality(S) <= MaxConcurrent
  BY StartedFits
<1>2. /\ IsFiniteSet(Active(r))
      /\ \A i, j \in Active(r) : about'[i].scope = about'[j].scope => i = j
  BY DEF Serial, Active
<1>3. run' = [j \in Jobs |-> IF j \in S THEN Starting ELSE r[j]]
  BY DEF Drain
<1> HIDE DEF S
<1>4. Active(run') = Active(r) \cup S
  BY <1>1, <1>3, IdleTyped DEF Active
<1>5. Active(r) \cap S = {}
  BY <1>1
<1>6. /\ IsFiniteSet(Active(run'))
      /\ Cardinality(Active(run')) = Cardinality(Active(r)) + Cardinality(S)
                                       - Cardinality(Active(r) \cap S)
  BY <1>1, <1>2, <1>4, FS_Union
<1>7. Cardinality(Active(r) \cap S) = 0
  BY <1>5, FS_EmptySet
<1>8. Cardinality(Active(run')) <= MaxConcurrent
  BY <1>1, <1>6, <1>7
<1>9. \A i, j \in Active(run') : about'[i].scope = about'[j].scope => i = j
  BY <1>1, <1>2, <1>4
<1>10. QED
  BY <1>6, <1>8, <1>9 DEF Serial, Active

\* #drain keeps every job where it belongs: what it takes out of the queue it starts.
LEMMA DrainKeeps ==
    ASSUME NEW q, NEW r, RunsTyped(r), Standing(q, r)', Drain(q, r),
           status' \in {"up", "stopping", "draining"}
    PROVE  Standing(queue, run)'
<1> DEFINE S == Started(q, r)
<1>1. Lined(q) /\ Serial(r)' /\ Between(q)'
  BY DEF Standing, Lined
<1>2. \A j \in Jobs : Keeps(q, r[j], j)'
  BY DEF Standing
<1>3. /\ run' = [j \in Jobs |-> IF j \in S THEN Starting ELSE r[j]]
      /\ queue' = Minus(q, S)
  BY DEF Drain
<1>4. \A j \in S : j \in Jobs /\ In(q, j)
  BY <1>1, StartedFits
<1>5. Lined(queue') /\ \A j : In(queue', j) <=> In(q, j) /\ j \notin S
  BY <1>1, <1>3, MinusKeepsRest
<1> HIDE DEF S
<1>6. q = <<>> => queue' = <<>>
  <2> SUFFICES ASSUME q = <<>> PROVE queue' = <<>>
    OBVIOUS
  <2>1. \A j : ~In(queue', j)
    BY <1>5, EmptyIsLined
  <2>2. queue' \in Seq(Jobs) /\ DOMAIN queue' = {}
    BY <1>5, <2>1 DEF Lined, In
  <2>3. QED
    BY <2>2, EmptySeq, LenProperties
<1>7. ASSUME NEW j \in Jobs PROVE Keeps(queue, run[j], j)'
  <2>1. Keeps(q, r[j], j)'
    BY <1>2
  <2>2. CASE j \in S
    <3>1. In(q, j) /\ run'[j] = Starting /\ ~In(queue', j)
      BY <1>3, <1>4, <1>5, <2>2
    <3>2. /\ jobs'[j] # NoJob /\ jobs'[j].lifecycle = "queued"
          /\ j \notin toResume' /\ ~Replaces(j)'
          /\ about'[j].writable => \A a \in executed' : drawn'[a] # j
      BY <2>1, <3>1 DEF Keeps, Waits, In, Replaces
    <3>3. ~Waits(queue, j)'
      BY <3>1, <3>2 DEF Waits, In, Replaces
    <3>4. Starting.stage = "starting" /\ Starting.abort = "none" /\ Starting.term = "none"
      BY DEF Starting, Idle
    <3>5. ~SlowHook => status' # "draining"
      <4>1. q # <<>>
        BY <3>1, EmptyIsLined
      <4>2. QED
        BY <1>1, <4>1 DEF Between
    <3>6. Timely(Starting)'
      BY <3>4, <3>5 DEF Timely
    <3>7. Fits(jobs'[j], Starting)
      BY <3>2, <3>4 DEF Fits
    <3>8. QED
      BY <3>1, <3>2, <3>3, <3>4, <3>6, <3>7 DEF Keeps, Fits, Timely, Ended, Waits, In, Replaces
  <2>3. CASE j \notin S
    <3>1. run'[j] = r[j] /\ (In(queue', j) <=> In(q, j))
      BY <1>3, <1>5, <2>3
    <3>2. QED
      BY <2>1, <3>1 DEF Keeps, Fits, Timely, Ended, Waits, In, Replaces
  <2>4. QED
    BY <2>2, <2>3
<1>8. Between(queue)'
  BY <1>1, <1>6 DEF Between
<1>9. Serial(run)'
  BY <1>1, DrainIsSerial
<1>10. QED
  BY <1>5, <1>7, <1>8, <1>9 DEF Standing, Lined

--------------------------------------------------------------------------------
(* The rows *)

\* The service sees the events as its two instances of the ledger do.
LEMMA SameEvent ==
    ASSUME NEW row, NEW kind, NEW a
    PROVE  /\ Ledger!Appended(row, kind, a) = Appended(row, kind, a)
           /\ LP!Appended(row, kind, a) = Appended(row, kind, a)
           /\ Ledger!Appendable(row, kind, a) <=> Appendable(row, kind, a)
           /\ LP!Appendable(row, kind, a) <=> Appendable(row, kind, a)
BY DEF Ledger!Appended, LP!Appended, Appended, Ledger!Appendable, LP!Appendable, Appendable,
       Ledger!TransitionFor, LP!TransitionFor, TransitionFor, Ledger!RunningKinds,
       LP!RunningKinds, RunningKinds, Ledger!DeliveryEndKinds, LP!DeliveryEndKinds,
       DeliveryEndKinds, Ledger!EndsChild, LP!EndsChild, EndsChild, Ledger!DropsEnvelope,
       LP!DropsEnvelope, DropsEnvelope, Ledger!Stale, LP!Stale, Stale,
       Ledger!AllowedTransitions, LP!AllowedTransitions, AllowedTransitions

\* The types of the store, as the ledger keeps them.
LEMMA StoreTyped ==
    ASSUME LP!IInv
    PROVE  /\ jobs \in [Jobs -> Row \cup {NoJob}]
           /\ deliveries \in [Jobs -> [Attempts -> LP!DeliveryStatus]]
           /\ NoJob \notin Row
BY SameRow, NoJobIsNoRow DEF LP!IInv, LP!TypeOK

\* A transaction that appends an event to one row: every other row stays.
LEMMA AppendedRow ==
    ASSUME LP!IInv, NEW j \in Jobs, NEW kind, NEW a \in Attempts \cup {NoAttempt},
           Ledger!Append(j, kind, a)
    PROVE  /\ jobs[j] \in Row /\ jobs[j] # NoJob
           /\ jobs'[j] \in Row /\ jobs'[j] # NoJob
           /\ jobs'[j] = Appended(jobs[j], kind, a)
           /\ jobs'[j].lifecycle = TransitionFor(kind, jobs[j].lifecycle)
           /\ \A i \in Jobs : i # j => jobs'[i] = jobs[i]
<1>1. jobs \in [Jobs -> Row \cup {NoJob}] /\ NoJob \notin Row
  BY StoreTyped
<1>2. jobs[j] \in Row /\ jobs[j] # NoJob
  BY <1>1 DEF Ledger!Append, Ledger!Exists
<1>3. jobs' = [jobs EXCEPT ![j] = Appended(jobs[j], kind, a)]
  BY SameEvent DEF Ledger!Append
<1>4. Appended(jobs[j], kind, a) \in Row
  BY <1>2, SameRow, SameEvent, LP!AppendedType, NoAttemptIsNoAttempt, NoJobIsNoRow
<1>5. Appended(jobs[j], kind, a).lifecycle = TransitionFor(kind, jobs[j].lifecycle)
  BY DEF Appended
<1>6. QED
  BY <1>1, <1>2, <1>3, <1>4, <1>5

\* What the service records changes the lifecycle of one job, and no send.
LEMMA RecordedRow ==
    ASSUME LP!IInv, NEW j \in Jobs, NEW kind, NEW a \in Attempts \cup {NoAttempt},
           Ledger!RecordEvent(j, kind, a)
    PROVE  /\ jobs[j] \in Row /\ jobs[j] # NoJob
           /\ jobs'[j] \in Row /\ jobs'[j] # NoJob
           /\ jobs'[j].lifecycle = TransitionFor(kind, jobs[j].lifecycle)
           /\ jobs'[j].deliveryState = jobs[j].deliveryState
           /\ \A i \in Jobs : i # j => jobs'[i] = jobs[i]
           /\ UNCHANGED <<deliveries, ingress>>
<1>1. /\ jobs[j] \in Row /\ jobs[j] # NoJob
      /\ jobs'[j] \in Row /\ jobs'[j] # NoJob
      /\ jobs'[j] = Appended(jobs[j], kind, a)
      /\ jobs'[j].lifecycle = TransitionFor(kind, jobs[j].lifecycle)
      /\ \A i \in Jobs : i # j => jobs'[i] = jobs[i]
  BY AppendedRow DEF Ledger!RecordEvent
<1>2. kind \notin {"delivery_started", "delivery_confirmed", "delivery_unknown", "delivery_failed"}
  BY DEF Ledger!RecordEvent, Ledger!CallerKinds, Ledger!RunningKinds
<1>3. jobs'[j].deliveryState = jobs[j].deliveryState
  BY <1>1, <1>2 DEF Appended
<1>4. QED
  BY <1>1, <1>3 DEF Ledger!RecordEvent

\* A job that has not ended may be failed, and cancelled unless it is delivering.
LEMMA MayEnd ==
    ASSUME NEW row \in Row, ~Ended(row)
    PROVE  /\ Appendable(row, "failed", row.attempt)
           /\ row.lifecycle # "delivering" => Appendable(row, "cancelled", row.attempt)
<1>1. row.lifecycle \in {"queued", "running", "waiting_approval", "retry_wait", "result_ready",
                         "delivering"}
  BY DEF Row, Lifecycles, Ended, Absorbing
<1>2. ~Stale(row, "failed", row.attempt) /\ ~Stale(row, "cancelled", row.attempt)
  BY DEF Stale
<1>3. TransitionFor("failed", row.lifecycle) = "failed"
      /\ TransitionFor("cancelled", row.lifecycle) = "cancelled"
  BY DEF TransitionFor, RunningKinds, DeliveryEndKinds
<1>4. QED
  BY <1>1, <1>2, <1>3 DEF Appendable, AllowedTransitions

\* The kinds that end a job, and those that put it back.
LEMMA EndingKinds ==
    ASSUME NEW l
    PROVE  /\ TransitionFor("failed", l) = "failed"
           /\ TransitionFor("cancelled", l) = "cancelled"
           /\ TransitionFor("recovered", l) = "queued"
           /\ TransitionFor("attempt_succeeded", l) = "result_ready"
           /\ TransitionFor("attempt_reserved", l) = l
           /\ TransitionFor("attempt_started", l) = "running"
           /\ TransitionFor("attempt_exited", l) = l
           /\ TransitionFor("recovery_review_required", l) = "recovery_review"
           /\ TransitionFor("delivery_started", l) = "delivering"
           /\ \A kind \in DeliveryEndKinds : TransitionFor(kind, l) = "completed"
BY DEF TransitionFor, RunningKinds, DeliveryEndKinds

--------------------------------------------------------------------------------
(* One run moves *)

\* One turn of the run of j: only the row of j and the facts about its attempts change.
TurnOf(j) ==
    /\ run[j].stage # "idle"
    /\ status \in {"up", "stopping", "draining"} /\ replacing = <<>>
    /\ RunOnly /\ UNCHANGED about
    /\ jobs'[j] # NoJob
    /\ \A i \in Jobs : i # j => jobs'[i] = jobs[i]
    /\ \A a \in Attempts : drawn[a] # NoJob => drawn'[a] = drawn[a]
    /\ \A a \in executed' : drawn'[a] = j \/ (a \in executed /\ drawn'[a] = drawn[a])

\* r may follow as the run of j
Follows(j, r) ==
    /\ Fits(jobs'[j], r)
    /\ r.stage \in {"starting", "spawning"} =>
          run[j].stage \in {"starting", "spawning"} /\ executed' = executed
            /\ \A a \in executed : drawn'[a] = drawn[a]
    /\ r.stage \notin {"idle", "starting", "reporting"} => drawn'[r.attempt] = j
    /\ status = "up" => r.abort # "recovery" /\ r.term # "recovery"
    /\ r.stage = "idle" => Ended(jobs'[j]) \/ StoreFaults \/ status # "up"

\* After a turn of a run the queue and the runs stand as before, the others untouched.
LEMMA RunMoves ==
    ASSUME RunTyped, Standing(queue, run), NEW j \in Jobs, TurnOf(j), NEW r, Follows(j, r),
           NEW q, q = queue, NEW runs, runs = [run EXCEPT ![j] = r]
    PROVE  Standing(q, runs)'
<1>1. /\ Lined(queue) /\ Serial(run) /\ Between(queue)
      /\ \A i \in Jobs : Keeps(queue, run[i], i)
  BY DEF Standing
<1>2. runs[j] = r /\ \A i \in Jobs : i # j => runs[i] = run[i]
  BY DEF RunTyped, RunsTyped
<1>3. UNCHANGED <<status, replacing, toResume, about>>
  BY DEF TurnOf, RunOnly
<1>4. ASSUME NEW i \in Jobs PROVE Keeps(q, runs[i], i)'
  <2>1. Keeps(queue, run[i], i)
    BY <1>1
  <2>2. CASE i # j
    <3>1. runs[i] = run[i] /\ jobs'[i] = jobs[i]
      BY <1>2, <2>2 DEF TurnOf
    <3>2. run[i].stage \notin {"idle", "starting", "reporting"} =>
             drawn'[run[i].attempt] = i
      <4> SUFFICES ASSUME run[i].stage \notin {"idle", "starting", "reporting"}
                   PROVE  drawn'[run[i].attempt] = i
        OBVIOUS
      <4>1. drawn[run[i].attempt] = i /\ run[i].attempt \in Attempts
        BY <2>1 DEF Keeps, RunTyped, RunsTyped
      <4>2. i # NoJob
        BY NoJobIsNoRow
      <4>3. QED
        BY <4>1, <4>2 DEF TurnOf
    <3>3. \A a \in executed' : drawn'[a] = i => a \in executed /\ drawn[a] = i
      BY <2>2 DEF TurnOf
    <3>4. QED
      BY <1>3, <2>1, <3>1, <3>2, <3>3
         DEF Keeps, Waits, In, Replaces, Fits, Timely, Ended
  <2>3. CASE i = j
    <3>1. runs[i] = r
      BY <1>2, <2>3
    <3>2. run[i].stage # "idle" /\ status \in {"up", "stopping", "draining"}
          /\ replacing = <<>> /\ jobs'[i] # NoJob
      BY <2>3 DEF TurnOf
    <3>3. ~Waits(queue, i) /\ ~In(queue, i)
      BY <2>1, <3>2 DEF Keeps, Waits
    <3>4. ~Waits(q, i)' /\ ~In(q, i)' /\ ~Replaces(i)'
      BY <1>3, <3>3 DEF Waits, In, Replaces
    <3>5. Timely(r)'
      <4>1. ~(~SlowHook /\ status = "draining")
        BY <2>1, <3>2 DEF Keeps, Timely
      <4>2. QED
        BY <1>3, <2>3, <3>2, <4>1 DEF Timely, Follows
    <3>6. Fits(jobs[i], r)'
      BY <2>3 DEF Fits, Follows
    <3>7. r.stage \in {"starting", "spawning"} /\ about[i].writable
             => \A a \in executed' : drawn'[a] # i
      BY <2>1, <2>3 DEF Keeps, Follows
    <3>8. ~StoreFaults /\ status' \in {"up", "resuming"} /\ ~Ended(jobs'[i]) => r.stage # "idle"
      BY <1>3, <2>3, <3>2 DEF Follows
    <3>9. QED
      BY <1>3, <2>3, <3>1, <3>4, <3>5, <3>6, <3>7, <3>8 DEF Keeps, Follows, Ended
  <2>4. QED
    BY <2>2, <2>3
<1>5. Serial(runs)'
  <2>1. Active(runs) \subseteq Active(run)
    BY <1>2 DEF Active, TurnOf
  <2>2. /\ IsFiniteSet(Active(run)) /\ Cardinality(Active(run)) <= MaxConcurrent
        /\ \A i, k \in Active(run) : about[i].scope = about[k].scope => i = k
    BY <1>1 DEF Serial
  <2>3. IsFiniteSet(Active(runs)) /\ Cardinality(Active(runs)) <= Cardinality(Active(run))
    BY <2>1, <2>2, FS_Subset
  <2>4. Cardinality(Active(runs)) \in Nat /\ Cardinality(Active(run)) \in Nat
    BY <2>2, <2>3, FS_CardinalityType
  <2>5. Cardinality(Active(runs)) <= MaxConcurrent
    BY <2>2, <2>3, <2>4, LimitsArePositive
  <2>6. QED
    BY <1>3, <2>1, <2>2, <2>3, <2>5 DEF Serial, Active
<1>6. Between(q)'
  BY <1>1, <1>3 DEF Between
<1>7. QED
  BY <1>1, <1>4, <1>5, <1>6 DEF Standing, Lined

\* The turn goes on to another stage.
LEMMA RunGoesOn ==
    ASSUME RunTyped, Standing(queue, run), NEW j \in Jobs, TurnOf(j), NEW r, Follows(j, r),
           run' = [run EXCEPT ![j] = r], queue' = queue
    PROVE  Standing(queue, run)'
<1>1. \A q, runs : q = queue /\ runs = [run EXCEPT ![j] = r] => Standing(q, runs)'
  BY RunMoves
<1>2. PICK q, runs : q = queue /\ runs = [run EXCEPT ![j] = r]
  OBVIOUS
<1>3. Standing(q, runs)' /\ queue' = q /\ run' = runs
  BY <1>1, <1>2
<1>4. QED
  BY <1>3

\* The same, for a turn that changes nothing but the stage.
LEMMA RunGoesTo ==
    ASSUME RunTyped, Standing(queue, run), NEW j \in Jobs, TurnOf(j), NEW stage \in Stages,
           Follows(j, [run[j] EXCEPT !.stage = stage]), To(j, stage)
    PROVE  Standing(queue, run)'
<1>1. run' = [run EXCEPT ![j] = [run[j] EXCEPT !.stage = stage]] /\ queue' = queue
  BY DEF To, RunTyped, RunsTyped
<1>2. QED
  BY <1>1, RunGoesOn

\* The turn is the last one, and #drain follows.
LEMMA RunEnds ==
    ASSUME RunTyped, Standing(queue, run), NEW j \in Jobs, TurnOf(j), EndRun(j),
           Ended(jobs'[j]) \/ StoreFaults \/ status # "up"
    PROVE  Standing(queue, run)'
<1>1. PICK q, runs : q = queue /\ runs = [run EXCEPT ![j] = Idle]
  OBVIOUS
<1>2. Idle.stage = "idle" /\ Idle.abort = "none" /\ Idle.term = "none"
  BY DEF Idle
<1>3. Follows(j, Idle)
  BY <1>2 DEF Follows, Fits
<1>4. Standing(q, runs)'
  BY <1>1, <1>3, RunMoves
<1>5. Drain(q, runs)
  BY <1>1 DEF EndRun
<1>6. RunsTyped(runs)
  BY <1>1, IdleTyped, OneRunChanges
<1>7. status' \in {"up", "stopping", "draining"}
  BY DEF TurnOf, RunOnly
<1>8. QED
  BY <1>4, <1>5, <1>6, <1>7, DrainKeeps

\* A failed or parked job is reported first.
LEMMA RunReports ==
    ASSUME RunTyped, Standing(queue, run), NEW j \in Jobs, TurnOf(j), Report(j),
           Ended(jobs'[j]) \/ StoreFaults \/ status # "up"
    PROVE  Standing(queue, run)'
<1>1. CASE jobs'[j].lifecycle \in {"failed", "recovery_review"}
  <2>1. To(j, "reporting") /\ "reporting" \in Stages
    BY <1>1 DEF Report, Stages
  <2> DEFINE r == [run[j] EXCEPT !.stage = "reporting"]
  <2>2. /\ r.stage = "reporting" /\ r.abort = run[j].abort /\ r.term = run[j].term
    BY DEF RunTyped, RunsTyped, RunState
  <2>3. Keeps(queue, run[j], j)
    BY DEF Standing
  <2>4. status = "up" => run[j].abort # "recovery" /\ run[j].term # "recovery"
    BY <2>3 DEF Keeps, Timely
  <2>5. Ended(jobs'[j])
    BY <1>1 DEF Ended, Absorbing
  <2>6. jobs'[j] # NoJob
    BY DEF TurnOf
  <2> HIDE DEF r
  <2>7. Follows(j, r)
    BY <2>2, <2>4, <2>5, <2>6 DEF Follows, Fits
  <2>8. QED
    BY <2>1, <2>7, RunGoesTo DEF r
<1>2. CASE jobs'[j].lifecycle \notin {"failed", "recovery_review"}
  BY <1>2, RunEnds DEF Report
<1>3. QED
  BY <1>1, <1>2

--------------------------------------------------------------------------------
(* The turns of a run *)

FactsTyped ==
    /\ about \in [Jobs -> [scope : {ScopeOf[m] : m \in Messages} \cup {NoScope},
                           writable : BOOLEAN]]
    /\ drawn \in [Attempts -> Jobs \cup {NoJob}]
    /\ executed \subseteq Attempts
    /\ status \in Statuses
    /\ admitting \subseteq Messages
    /\ replacing \in {<<>>} \cup (Jobs \X Jobs)
    /\ toResume \subseteq Jobs
    /\ wire \subseteq Attempts /\ posted \subseteq Attempts
    /\ starts \in 0..MaxStarts

Whole == SInv /\ FactsTyped /\ Standing(queue, run) /\ Drawn /\ Sent

\* Between two transactions of a turn, too, the service is up or stopping.
LEMMA InATurn ==
    ASSUME Whole, NEW j \in Jobs,
           (Turn /\ Stage(j) # "idle") \/ Stage(j) \in {"exited", "answering"}
    PROVE  /\ run[j].stage # "idle" /\ jobs[j] # NoJob /\ run[j] \in RunState
           /\ status \in {"up", "stopping", "draining"} /\ replacing = <<>>
           /\ Fits(jobs[j], run[j])
           /\ run[j].stage \notin {"starting", "reporting"} =>
                 run[j].attempt \in Attempts /\ drawn[run[j].attempt] = j
           /\ status = "up" => run[j].abort # "recovery" /\ run[j].term # "recovery"
<1>1. Keeps(queue, run[j], j)
  BY DEF Whole, Standing
<1>2. run[j] \in RunState /\ status \in Statuses
  BY DEF Whole, SInv, RunTyped, RunsTyped, FactsTyped
<1>3. run[j].stage # "idle" /\ jobs[j] # NoJob
  BY <1>1 DEF Stage, Keeps, Fits
<1>4. status \in {"up", "stopping", "draining"} /\ replacing = <<>>
  BY <1>1, <1>2 DEF Turn, Stage, Keeps, Timely, Statuses
<1>5. run[j].stage \notin {"starting", "reporting"} =>
         run[j].attempt \in Attempts /\ drawn[run[j].attempt] = j
  BY <1>1, <1>3 DEF Keeps, Whole, SInv, RunTyped, RunsTyped
<1>6. QED
  BY <1>1, <1>2, <1>3, <1>4, <1>5 DEF Keeps, Timely

\* A turn that draws and starts no attempt.
LEMMA QuietTurn ==
    ASSUME Whole, NEW j \in Jobs,
           (Turn /\ Stage(j) # "idle") \/ Stage(j) \in {"exited", "answering"},
           RunOnly, UNCHANGED facts, jobs'[j] # NoJob,
           \A i \in Jobs : i # j => jobs'[i] = jobs[i]
    PROVE  TurnOf(j)
BY InATurn DEF TurnOf, facts, Stage

\* A turn that records one event.
LEMMA RecordingTurn ==
    ASSUME Whole, NEW j \in Jobs,
           (Turn /\ Stage(j) # "idle") \/ Stage(j) \in {"exited", "answering"},
           RunOnly, UNCHANGED facts,
           NEW kind, NEW a \in Attempts \cup {NoAttempt}, Ledger!RecordEvent(j, kind, a)
    PROVE  TurnOf(j) /\ jobs'[j].lifecycle = TransitionFor(kind, jobs[j].lifecycle)
BY RecordedRow, QuietTurn DEF Whole, SInv

\* The catch of #run ends its job, unless the store refuses.
LEMMA CatchKeeps ==
    ASSUME Whole, NEW j \in Jobs,
           (Turn /\ Stage(j) # "idle") \/ Stage(j) \in {"exited", "answering"},
           RunOnly, UNCHANGED facts, Catch(j),
           jobs[j].lifecycle # "delivering" \/ StoreFaults
    PROVE  Standing(queue, run)'
<1> DEFINE kind == IF run[j].abort = "cancel" THEN "cancelled" ELSE "failed"
<1>1. jobs[j] # NoJob /\ jobs[j] \in Row /\ jobs[j].attempt \in Attempts \cup {NoAttempt}
  BY InATurn, StoreTyped DEF Whole, SInv, Row
<1>2. Report(j)
  BY DEF Catch
<1>3. RunTyped /\ Standing(queue, run)
  BY DEF Whole, SInv
<1>4. CASE Ledger!RecordEvent(j, kind, jobs[j].attempt)
  <2>1. TurnOf(j) /\ jobs'[j].lifecycle = TransitionFor(kind, jobs[j].lifecycle)
    BY <1>1, <1>4, RecordingTurn
  <2>2. Ended(jobs'[j])
    BY <2>1, EndingKinds DEF Ended, Absorbing
  <2>3. QED
    BY <1>2, <1>3, <2>1, <2>2, RunReports
<1>5. CASE /\ Ended(jobs[j]) \/ StoreFaults \/ ~Appendable(jobs[j], kind, jobs[j].attempt)
           /\ UNCHANGED store
  <2>1. jobs' = jobs
    BY <1>5 DEF store
  <2>2. TurnOf(j)
    BY <1>1, <2>1, QuietTurn
  <2>3. Ended(jobs[j]) \/ StoreFaults
    BY <1>1, <1>5, MayEnd
  <2>4. Ended(jobs'[j]) \/ StoreFaults
    BY <2>1, <2>3
  <2>5. QED
    BY <1>2, <1>3, <2>2, <2>4, RunReports
<1>6. QED
  BY <1>4, <1>5 DEF Catch

\* From the start of a run to its child.
LEMMA StartingTurns ==
    ASSUME Whole, NEW j \in Jobs,
           \/ AbortedStart(j) \/ StartFails(j)
           \/ \E a \in Attempts : Reserve(j, a)
           \/ SpawnFails(j) \/ Attach(j)
    PROVE  Standing(queue, run)'
<1>1. RunTyped /\ Standing(queue, run) /\ LP!IInv
  BY DEF Whole, SInv
<1>2. CASE AbortedStart(j)
  <2> DEFINE kind == IF run[j].abort = "recovery" THEN "recovered" ELSE "cancelled"
  <2>1. /\ Turn /\ Stage(j) # "idle" /\ RunOnly /\ UNCHANGED facts
        /\ Ledger!RecordEvent(j, kind, NoAttempt) /\ EndRun(j)
    BY <1>2 DEF AbortedStart
  <2>2. TurnOf(j) /\ jobs'[j].lifecycle = TransitionFor(kind, jobs[j].lifecycle)
    BY <2>1, RecordingTurn
  <2>3. status = "up" => run[j].abort # "recovery"
    BY <2>1, InATurn
  <2>4. status = "up" => Ended(jobs'[j])
    BY <2>2, <2>3, EndingKinds DEF Ended, Absorbing
  <2>5. QED
    BY <1>1, <2>1, <2>2, <2>4, RunEnds
<1>3. CASE StartFails(j)
  <2>1. /\ Turn /\ Stage(j) = "starting" /\ RunOnly /\ UNCHANGED facts /\ Catch(j)
    BY <1>3 DEF StartFails
  <2>2. Fits(jobs[j], run[j])
    BY <2>1, InATurn
  <2>3. jobs[j].lifecycle # "delivering"
    BY <2>1, <2>2 DEF Fits, Stage
  <2>4. QED
    BY <2>1, <2>3, CatchKeeps
<1>4. ASSUME NEW a \in Attempts, Reserve(j, a)
      PROVE  Standing(queue, run)'
  <2> DEFINE r == [run[j] EXCEPT !.stage = "spawning", !.attempt = a]
  <2>1. /\ Turn /\ Stage(j) = "starting" /\ RunOnly /\ UNCHANGED <<queue, about, executed>>
        /\ drawn[a] = NoJob /\ drawn' = [drawn EXCEPT ![a] = j]
        /\ Ledger!Append(j, "attempt_reserved", a)
    BY <1>4 DEF Reserve, Ledger!ReserveAttempt
  <2>2. run' = [run EXCEPT ![j] = r]
    BY <1>4 DEF Reserve, RunTyped, RunsTyped
  <2>3. /\ jobs'[j] # NoJob /\ \A i \in Jobs : i # j => jobs'[i] = jobs[i]
        /\ jobs'[j].lifecycle = jobs[j].lifecycle
    BY <1>1, <2>1, AppendedRow, EndingKinds
  <2>4. /\ run[j].stage # "idle" /\ run[j] \in RunState
        /\ status \in {"up", "stopping", "draining"} /\ replacing = <<>>
        /\ Fits(jobs[j], run[j])
        /\ status = "up" => run[j].abort # "recovery" /\ run[j].term # "recovery"
    BY <2>1, InATurn DEF Stage
  <2>5. /\ \A b \in Attempts : drawn[b] # NoJob => drawn'[b] = drawn[b]
        /\ drawn'[a] = j
    BY <2>1 DEF Whole, FactsTyped
  <2>6. \A b \in executed : drawn'[b] = drawn[b]
    BY <2>5 DEF Whole, FactsTyped, Drawn
  <2>7. TurnOf(j)
    BY <2>1, <2>3, <2>4, <2>5, <2>6 DEF TurnOf
  <2>8. r.stage = "spawning" /\ r.attempt = a /\ r.abort = run[j].abort /\ r.term = run[j].term
    BY <2>4 DEF RunState
  <2>9. jobs'[j].lifecycle = "queued"
    BY <2>1, <2>3, <2>4 DEF Fits, Stage
  <2> HIDE DEF r
  <2>10. Follows(j, r)
    BY <2>1, <2>3, <2>4, <2>5, <2>6, <2>8, <2>9 DEF Follows, Fits, Stage
  <2>11. QED
    BY <1>1, <2>1, <2>2, <2>7, <2>10, RunGoesOn
<1>5. CASE SpawnFails(j)
  <2>1. Turn /\ Stage(j) = "spawning" /\ RunOnly /\ UNCHANGED facts
    BY <1>5 DEF SpawnFails
  <2>2. /\ jobs[j] # NoJob /\ Fits(jobs[j], run[j]) /\ run[j].attempt \in Attempts
    BY <2>1, InATurn DEF Stage
  <2>3. CASE Catch(j)
    <3>1. jobs[j].lifecycle # "delivering"
      BY <2>1, <2>2 DEF Fits, Stage
    <3>2. QED
      BY <2>1, <2>3, <3>1, CatchKeeps
  <2>4. CASE Ledger!FailAttempt(j, run[j].attempt, TRUE) /\ Report(j)
    <3> DEFINE row == Appended(jobs[j], "failed", run[j].attempt)
    <3>1. jobs \in [Jobs -> Row \cup {NoJob}] /\ jobs[j] \in Row /\ NoJob \notin Row
      BY <1>1, <2>2, StoreTyped
    <3>2. jobs' = [jobs EXCEPT ![j] = Detached(row)]
      BY <2>4, SameEvent DEF Ledger!FailAttempt, Ledger!Detached, Detached
    <3>3. row \in Row
      BY <2>2, <3>1, SameRow, SameEvent, LP!AppendedType, NoAttemptIsNoAttempt, NoJobIsNoRow
    <3>4. row.lifecycle = "failed"
      BY EndingKinds DEF Appended
    <3>5. Detached(row) \in Row /\ Detached(row).lifecycle = "failed"
      <4> HIDE DEF row
      <4>1. QED
        BY <3>3, <3>4 DEF Detached, Row
    <3> HIDE DEF row
    <3>6. /\ jobs'[j] # NoJob /\ jobs'[j].lifecycle = "failed"
          /\ \A i \in Jobs : i # j => jobs'[i] = jobs[i]
      BY <3>1, <3>2, <3>5
    <3>7. TurnOf(j) /\ Ended(jobs'[j])
      BY <2>1, <3>6, QuietTurn DEF Ended, Absorbing
    <3>8. QED
      BY <1>1, <2>4, <3>7, RunReports
  <2>5. QED
    BY <1>5, <2>3, <2>4 DEF SpawnFails
<1>6. CASE Attach(j)
  <2> DEFINE attached == [run[j] EXCEPT !.stage = "child", !.abort = "none"]
             r == IF run[j].abort = "none" THEN attached
                  ELSE Aborted(attached, run[j].abort)
  <2>1. /\ Turn /\ Stage(j) = "spawning" /\ RunOnly /\ UNCHANGED <<queue, about, drawn>>
        /\ executed' = executed \cup {run[j].attempt}
        /\ Ledger!Append(j, "attempt_started", run[j].attempt)
    BY <1>6 DEF Attach, Ledger!AttachAttempt
  <2>2. run' = [run EXCEPT ![j] = r]
    BY <1>6 DEF Attach, RunTyped, RunsTyped
  <2>3. /\ run[j].stage # "idle" /\ run[j] \in RunState /\ jobs[j] # NoJob
        /\ run[j].attempt \in Attempts /\ drawn[run[j].attempt] = j
        /\ status \in {"up", "stopping", "draining"} /\ replacing = <<>>
        /\ status = "up" => run[j].abort # "recovery" /\ run[j].term # "recovery"
    BY <2>1, InATurn DEF Stage
  <2>4. jobs'[j] # NoJob /\ \A i \in Jobs : i # j => jobs'[i] = jobs[i]
    BY <1>1, <2>1, <2>3, AppendedRow
  <2>5. TurnOf(j)
    BY <2>1, <2>3, <2>4 DEF TurnOf
  <2>6. /\ attached \in RunState /\ attached.stage = "child" /\ attached.abort = "none"
        /\ attached.attempt = run[j].attempt /\ attached.term = run[j].term
    BY <2>3 DEF RunState, Stages
  <2>7. run[j].abort \in {"none", "cancel", "no_progress", "recovery"}
    BY <2>3 DEF RunState
  <2> HIDE DEF attached
  <2>8. /\ r.stage = "child" /\ r.attempt = run[j].attempt
        /\ status = "up" => r.abort # "recovery" /\ r.term # "recovery"
    <3>1. CASE run[j].abort = "none"
      BY <2>3, <2>6, <3>1
    <3>2. CASE run[j].abort # "none"
      <4>1. r = Aborted(attached, run[j].abort)
        BY <3>2
      <4>2. r.stage = "child" /\ r.attempt = run[j].attempt
        BY <2>6, <2>7, <3>2, <4>1, AbortedTyped
      <4>3. run[j].abort # "recovery" /\ run[j].term # "recovery"
              => r.abort # "recovery" /\ r.term # "recovery"
        BY <2>6, <2>7, <3>2, <4>1 DEF Aborted, RunState
      <4>4. QED
        BY <2>3, <4>2, <4>3
    <3>3. QED
      BY <3>1, <3>2
  <2> HIDE DEF r
  <2>9. Follows(j, r)
    BY <2>1, <2>3, <2>4, <2>8 DEF Follows, Fits
  <2>10. QED
    BY <1>1, <2>1, <2>2, <2>5, <2>9, RunGoesOn
<1>7. QED
  BY <1>2, <1>3, <1>4, <1>5, <1>6

\* What the child prints, and how it is ended early, moves nothing but its run.
LEMMA ChildTurns ==
    ASSUME Whole, NEW j \in Jobs, Child(j)
    PROVE  Standing(queue, run)'
<1>1. /\ Turn /\ Stage(j) = "child" /\ RunOnly /\ UNCHANGED <<queue, store, facts>>
  BY DEF Child, EndEarly, Output
<1>2. /\ run[j] \in RunState /\ jobs[j] # NoJob
      /\ run[j].attempt \in Attempts /\ drawn[run[j].attempt] = j
      /\ status = "up" => run[j].abort # "recovery" /\ run[j].term # "recovery"
  BY <1>1, InATurn DEF Stage
<1>3. PICK r : /\ run' = [run EXCEPT ![j] = r]
               /\ r.stage = "child" /\ r.attempt = run[j].attempt
               /\ r.abort = run[j].abort /\ r.term \in {run[j].term, "failed"}
  <2>1. DOMAIN run = Jobs
    BY DEF Whole, SInv, RunTyped, RunsTyped
  <2>2. CASE EndEarly(j)
    <3>1. run' = [run EXCEPT ![j] = [run[j] EXCEPT !.term = "failed"]]
      BY <2>1, <2>2 DEF EndEarly
    <3> DEFINE r == [run[j] EXCEPT !.term = "failed"]
    <3>2. r.stage = "child" /\ r.attempt = run[j].attempt /\ r.abort = run[j].abort
          /\ r.term = "failed"
      BY <1>1, <1>2 DEF RunState, Stage
    <3> HIDE DEF r
    <3>3. run' = [run EXCEPT ![j] = r]
      BY <3>1 DEF r
    <3>4. QED
      BY <3>2, <3>3
  <2>3. ASSUME NEW outcome \in {"success", "failure"}, Output(j, outcome)
        PROVE  run' = [run EXCEPT ![j] = [run[j] EXCEPT !.outcome = outcome]]
    BY <2>1, <2>3 DEF Output
  <2>4. QED
    BY <1>1, <1>2, <2>2, <2>3 DEF Child, RunState, Stage
<1>4. jobs' = jobs
  BY <1>1 DEF store
<1>5. TurnOf(j)
  BY <1>1, <1>2, <1>4, QuietTurn DEF Stage
<1>6. Follows(j, r)
  BY <1>1, <1>2, <1>3, <1>4 DEF Follows, Fits, facts
<1>7. QED
  BY <1>1, <1>3, <1>5, <1>6, RunGoesOn DEF Whole, SInv

\* The exit of the child and its final event.
LEMMA ExitTurns ==
    ASSUME Whole, NEW j \in Jobs,
           \/ \E spoiled, unconfirmed \in BOOLEAN : ChildExits(j, spoiled, unconfirmed)
           \/ EndAttempt(j) \/ EndUnrecorded(j)
    PROVE  Standing(queue, run)'
<1>1. RunTyped /\ Standing(queue, run) /\ LP!IInv
  BY DEF Whole, SInv
<1>2. ASSUME NEW spoiled \in BOOLEAN, NEW unconfirmed \in BOOLEAN,
             ChildExits(j, spoiled, unconfirmed)
      PROVE  Standing(queue, run)'
  <2> DEFINE terms == IF unconfirmed THEN {"failed"}
                      ELSE IF run[j].term = "none" THEN {"none", "failed"} ELSE {run[j].term}
             outcome == IF spoiled \/ unconfirmed THEN "failure" ELSE run[j].outcome
             after(term) ==
               [run[j] EXCEPT !.stage = "exited", !.term = term, !.outcome = outcome]
  <2>1. /\ Turn /\ Stage(j) = "child" /\ RunOnly /\ UNCHANGED facts /\ UNCHANGED queue
        /\ Ledger!RecordEvent(j, "attempt_exited", run[j].attempt)
    BY <1>2 DEF ChildExits
  <2>2. /\ run[j] \in RunState /\ jobs[j] # NoJob
        /\ run[j].attempt \in Attempts /\ drawn[run[j].attempt] = j
        /\ status = "up" => run[j].abort # "recovery" /\ run[j].term # "recovery"
    BY <2>1, InATurn DEF Stage
  <2>3. PICK term \in terms : run' = [run EXCEPT ![j] = after(term)]
    BY <1>1, <1>2 DEF ChildExits, RunTyped, RunsTyped
  <2>4. TurnOf(j)
    BY <2>1, <2>2, RecordingTurn
  <2>5. jobs'[j] # NoJob
    BY <2>4 DEF TurnOf
  <2>6. term \in {"none", "failed", run[j].term}
    BY <2>3
  <2>7. /\ after(term).stage = "exited" /\ after(term).attempt = run[j].attempt
        /\ after(term).abort = run[j].abort /\ after(term).term = term
    BY <2>2 DEF RunState
  <2> HIDE DEF after, terms
  <2>8. Follows(j, after(term))
    BY <2>1, <2>2, <2>5, <2>6, <2>7 DEF Follows, Fits, facts
  <2>9. QED
    BY <1>1, <2>1, <2>3, <2>4, <2>8, RunGoesOn
<1>3. CASE EndAttempt(j)
  <2> DEFINE kind == FinalKind(run[j])
  <2>1. /\ Stage(j) = "exited" /\ RunOnly /\ UNCHANGED facts
        /\ Ledger!RecordEvent(j, kind, run[j].attempt)
        /\ IF run[j].outcome = "success" THEN To(j, "answering") ELSE Report(j)
    BY <1>3 DEF EndAttempt
  <2>2. /\ run[j] \in RunState
        /\ run[j].attempt \in Attempts /\ drawn[run[j].attempt] = j
        /\ status = "up" => run[j].abort # "recovery" /\ run[j].term # "recovery"
    BY <2>1, InATurn DEF Stage
  <2>3. TurnOf(j) /\ jobs'[j].lifecycle = TransitionFor(kind, jobs[j].lifecycle)
    BY <2>1, <2>2, RecordingTurn
  <2>4. kind \in {"cancelled", "recovered", "failed", "attempt_succeeded"}
        /\ (kind = "recovered" => run[j].term = "recovery")
        /\ (kind = "attempt_succeeded" => run[j].outcome = "success")
    BY <2>2 DEF FinalKind, RunState
  <2>5. /\ jobs'[j].lifecycle # "delivering"
        /\ jobs'[j].lifecycle = "queued" => run[j].term = "recovery"
        /\ jobs'[j].lifecycle = "result_ready" => run[j].outcome = "success"
        /\ jobs'[j].lifecycle \in {"cancelled", "queued", "failed", "result_ready"}
    BY <2>3, <2>4, EndingKinds
  <2> HIDE DEF kind
  <2>6. CASE run[j].outcome = "success"
    <3> DEFINE r == [run[j] EXCEPT !.stage = "answering"]
    <3>1. /\ r.stage = "answering" /\ r.attempt = run[j].attempt
          /\ r.abort = run[j].abort /\ r.term = run[j].term
      BY <2>2 DEF RunState
    <3>2. jobs'[j] # NoJob
      BY <2>3 DEF TurnOf
    <3> HIDE DEF r
    <3>3. Follows(j, r)
      BY <2>1, <2>2, <2>5, <3>1, <3>2 DEF Follows, Fits, facts
    <3>4. QED
      BY <1>1, <2>1, <2>3, <2>6, <3>3, RunGoesTo DEF r, Stages
  <2>7. CASE run[j].outcome # "success"
    <3>1. status = "up" => Ended(jobs'[j])
      BY <2>2, <2>5, <2>7 DEF Ended, Absorbing
    <3>2. QED
      BY <1>1, <2>1, <2>3, <2>7, <3>1, RunReports
  <2>8. QED
    BY <2>6, <2>7
<1>4. CASE EndUnrecorded(j)
  <2>1. /\ StoreFaults /\ RunOnly /\ UNCHANGED facts /\ Catch(j)
        /\ (Turn /\ Stage(j) # "idle") \/ Stage(j) \in {"exited", "answering"}
    BY <1>4 DEF EndUnrecorded
  <2>2. QED
    BY <2>1, CatchKeeps
<1>5. QED
  BY <1>2, <1>3, <1>4

\* The answer: asked for, sent, and its end recorded.
LEMMA AnswerTurns ==
    ASSUME Whole, NEW j \in Jobs,
           \/ Deliver(j) \/ AskDirectMessage(j) \/ NoResult(j)
           \/ \E receipt \in {"confirmed", "failed", "unknown"} :
                SendEnds(j, receipt) \/ SendEndsUnstored(j, receipt)
           \/ ReportEnds(j)
    PROVE  Standing(queue, run)'
<1>1. RunTyped /\ Standing(queue, run) /\ LP!IInv
  BY DEF Whole, SInv
<1>2. CASE Deliver(j)
  <2>1. /\ RunOnly /\ UNCHANGED facts
        /\ (Turn /\ Stage(j) # "idle") \/ Stage(j) \in {"exited", "answering"}
        /\ Stage(j) \in {"answering", "dm"}
    BY <1>2 DEF Deliver
  <2>2. /\ run[j] \in RunState /\ Fits(jobs[j], run[j])
        /\ run[j].attempt \in Attempts /\ drawn[run[j].attempt] = j
        /\ status = "up" => run[j].abort # "recovery" /\ run[j].term # "recovery"
    BY <2>1, InATurn DEF Stage
  <2>3. CASE Catch(j)
    <3>1. jobs[j].lifecycle # "delivering"
      BY <2>1, <2>2 DEF Fits, Stage
    <3>2. QED
      BY <2>1, <2>3, <3>1, CatchKeeps
  <2>4. CASE Send(j)
    <3>1. jobs'[j] # NoJob /\ \A i \in Jobs : i # j => jobs'[i] = jobs[i]
      BY <1>1, <2>2, <2>4, AppendedRow DEF Send, Ledger!StartDelivery
    <3>2. TurnOf(j)
      BY <2>1, <3>1, QuietTurn
    <3>3. ASSUME NEW stage \in {"sending", "unsent"}, To(j, stage)
          PROVE  Standing(queue, run)'
      <4> DEFINE r == [run[j] EXCEPT !.stage = stage]
      <4>1. /\ r.stage = stage /\ r.attempt = run[j].attempt
            /\ r.abort = run[j].abort /\ r.term = run[j].term
        BY <2>2 DEF RunState
      <4> HIDE DEF r
      <4>2. Follows(j, r)
        BY <2>1, <2>2, <3>1, <3>3, <4>1 DEF Follows, Fits, facts
      <4>3. QED
        BY <1>1, <3>2, <3>3, <4>2, RunGoesTo DEF r, Stages
    <3>4. QED
      BY <2>4, <3>3 DEF Send
  <2>5. QED
    BY <1>2, <2>3, <2>4 DEF Deliver
<1>3. CASE AskDirectMessage(j)
  <2>1. Stage(j) = "answering" /\ To(j, "dm") /\ RunOnly /\ UNCHANGED <<store, facts>>
    BY <1>3 DEF AskDirectMessage
  <2>2. /\ run[j] \in RunState /\ jobs[j] # NoJob /\ Fits(jobs[j], run[j])
        /\ run[j].attempt \in Attempts /\ drawn[run[j].attempt] = j
        /\ status = "up" => run[j].abort # "recovery" /\ run[j].term # "recovery"
    BY <2>1, InATurn DEF Stage
  <2>3. jobs' = jobs
    BY <2>1 DEF store
  <2>4. TurnOf(j)
    BY <2>1, <2>2, <2>3, QuietTurn
  <2> DEFINE r == [run[j] EXCEPT !.stage = "dm"]
  <2>5. /\ r.stage = "dm" /\ r.attempt = run[j].attempt
        /\ r.abort = run[j].abort /\ r.term = run[j].term
    BY <2>2 DEF RunState
  <2> HIDE DEF r
  <2>6. Follows(j, r)
    BY <2>1, <2>2, <2>3, <2>5 DEF Follows, Fits, facts, Stage
  <2>7. QED
    BY <1>1, <2>1, <2>4, <2>6, RunGoesTo DEF r, Stages
<1>4. CASE NoResult(j)
  <2>1. Stage(j) = "answering" /\ RunOnly /\ UNCHANGED facts /\ Catch(j)
    BY <1>4 DEF NoResult
  <2>2. Fits(jobs[j], run[j])
    BY <2>1, InATurn
  <2>3. jobs[j].lifecycle # "delivering"
    BY <2>1, <2>2 DEF Fits, Stage
  <2>4. QED
    BY <2>1, <2>3, CatchKeeps
<1>5. ASSUME NEW stored \in {"confirmed", "failed", "unknown"},
             Turn, Stage(j) \in {"sending", "unsent"}, RunOnly, UNCHANGED facts,
             Ledger!FinishDelivery(j, run[j].attempt, stored), EndRun(j)
      PROVE  Standing(queue, run)'
  <2>1. run[j].attempt \in Attempts
    BY <1>5, InATurn DEF Stage
  <2>2. Ledger!DeliveryEndKind(stored) \in DeliveryEndKinds
    BY DEF Ledger!DeliveryEndKind, DeliveryEndKinds
  <2>3. /\ jobs'[j] # NoJob /\ \A i \in Jobs : i # j => jobs'[i] = jobs[i]
        /\ jobs'[j].lifecycle = "completed"
    BY <1>1, <1>5, <2>1, <2>2, AppendedRow, EndingKinds DEF Ledger!FinishDelivery
  <2>4. TurnOf(j) /\ Ended(jobs'[j])
    BY <1>5, <2>3, QuietTurn DEF Ended, Absorbing
  <2>5. QED
    BY <1>1, <1>5, <2>4, RunEnds
<1>6. ASSUME NEW receipt \in {"confirmed", "failed", "unknown"}, SendEnds(j, receipt)
      PROVE  Standing(queue, run)'
  BY <1>5, <1>6 DEF SendEnds
<1>7. ASSUME NEW receipt \in {"confirmed", "failed", "unknown"}, SendEndsUnstored(j, receipt)
      PROVE  Standing(queue, run)'
  <2>1. /\ StoreFaults /\ Turn /\ Stage(j) \in {"sending", "unsent"}
        /\ RunOnly /\ UNCHANGED facts
    BY <1>7 DEF SendEndsUnstored
  <2>2. CASE Catch(j)
    BY <2>1, <2>2, CatchKeeps
  <2>3. CASE Ledger!FinishDelivery(j, run[j].attempt, "unknown") /\ EndRun(j)
    BY <1>5, <2>1, <2>3
  <2>4. CASE UNCHANGED store /\ EndRun(j)
    <3>1. jobs' = jobs /\ jobs[j] # NoJob
      BY <2>1, <2>4, InATurn DEF store, Stage
    <3>2. TurnOf(j)
      BY <2>1, <3>1, QuietTurn
    <3>3. QED
      BY <1>1, <2>1, <2>4, <3>2, RunEnds
  <2>5. QED
    BY <1>7, <2>2, <2>3, <2>4 DEF SendEndsUnstored
<1>8. CASE ReportEnds(j)
  <2>1. Turn /\ Stage(j) = "reporting" /\ RunOnly /\ UNCHANGED <<store, facts>> /\ EndRun(j)
    BY <1>8 DEF ReportEnds
  <2>2. jobs[j] # NoJob /\ Fits(jobs[j], run[j]) /\ jobs' = jobs
    BY <2>1, InATurn DEF store, Stage
  <2>3. TurnOf(j)
    BY <2>1, <2>2, QuietTurn
  <2>4. Ended(jobs'[j])
    BY <2>1, <2>2 DEF Fits, Stage
  <2>5. QED
    BY <1>1, <2>1, <2>3, <2>4, RunEnds
<1>9. QED
  BY <1>2, <1>3, <1>4, <1>6, <1>7, <1>8

--------------------------------------------------------------------------------
(* Admission, control, stop and start *)

\* A step that is about other jobs keeps i where it was.
LEMMA KeptApart ==
    ASSUME NEW q, NEW r, NEW i \in Jobs, Keeps(queue, run[i], i), r = run[i],
           In(q, i) <=> In(queue, i),
           i \in toResume' <=> i \in toResume,
           Replaces(i)' <=> Replaces(i),
           jobs'[i] = NoJob <=> jobs[i] = NoJob,
           jobs'[i].lifecycle = jobs[i].lifecycle,
           about'[i] = about[i], UNCHANGED <<drawn, executed>>,
           Timely(r)', status' \in {"up", "resuming"} => status \in {"up", "resuming"}
    PROVE  Keeps(q, r, i)'
BY DEF Keeps, Waits, In, Replaces, Fits, Ended

\* The runs are of different conversations still, when no run was added and only
\* jobs without a run have a new conversation.
LEMMA StillSerial ==
    ASSUME Serial(run), NEW r, Active(r) \subseteq Active(run),
           \A i \in Active(run) : about'[i] = about[i]
    PROVE  Serial(r)'
<1>1. /\ IsFiniteSet(Active(run)) /\ Cardinality(Active(run)) <= MaxConcurrent
      /\ \A i, k \in Active(run) : about[i].scope = about[k].scope => i = k
  BY DEF Serial
<1>2. IsFiniteSet(Active(r)) /\ Cardinality(Active(r)) <= Cardinality(Active(run))
  BY <1>1, FS_Subset
<1>3. Cardinality(Active(r)) \in Nat /\ Cardinality(Active(run)) \in Nat
  BY <1>1, <1>2, FS_CardinalityType
<1>4. Cardinality(Active(r)) <= MaxConcurrent
  BY <1>1, <1>2, <1>3, LimitsArePositive
<1>5. QED
  BY <1>1, <1>2, <1>4 DEF Serial, Active

\* Standing of the values the queue and the runs become.
LEMMA SameStanding ==
    ASSUME NEW q, NEW r, Standing(q, r)', queue' = q, run' = r
    PROVE  Standing(queue, run)'
OBVIOUS

\* What leaves the rows, the queue and the runs alone.
LEMMA NothingMoves ==
    ASSUME Standing(queue, run),
           UNCHANGED <<jobs, about, drawn, executed, status, queue, run, replacing, toResume>>
    PROVE  Standing(queue, run)'
BY DEF Standing, Lined, Serial, Active, Between, Keeps, Waits, In, Replaces, Fits, Timely, Ended

\* The row a job is created with.
LEMMA FreshIsQueued ==
    ASSUME NEW envelope \in BOOLEAN
    PROVE  /\ Ledger!FreshRow(envelope) # NoJob
           /\ Ledger!FreshRow(envelope).lifecycle = "queued"
           /\ Ledger!FreshRow(envelope).deliveryState = "not_started"
<1>1. Ledger!FreshRow(envelope) = FreshRow(envelope)
  BY DEF Ledger!FreshRow, FreshRow
<1>2. FreshRow(envelope) \in Row
  BY DEF FreshRow, Row, Lifecycles, DeliveryStates, RecoveryStates
<1>3. Ledger!FreshRow(envelope) # NoJob
  BY <1>1, <1>2, NoJobIsNoRow
<1>4. FreshRow(envelope).lifecycle = "queued"
      /\ FreshRow(envelope).deliveryState = "not_started"
  BY DEF FreshRow
<1>5. QED
  BY <1>1, <1>3, <1>4

\* An id that names no job names none that waits, runs or was ever executed.
LEMMA UnknownJob ==
    ASSUME Whole, NEW j \in Jobs, jobs[j] = NoJob
    PROVE  /\ ~In(queue, j) /\ j \notin toResume /\ ~Replaces(j)
           /\ run[j].stage = "idle"
           /\ \A a \in Attempts : drawn[a] # j
           /\ \A a \in executed : drawn[a] # j
<1>1. Keeps(queue, run[j], j)
  BY DEF Whole, Standing
<1>2. \A a \in Attempts : drawn[a] # j
  BY NoJobIsNoRow DEF Whole, Drawn
<1>3. QED
  BY <1>1, <1>2 DEF Keeps, Waits, Fits, Whole, FactsTyped

\* Admission: the new job is the last of the queue, and #drain follows.
LEMMA AdmissionStands ==
    ASSUME Whole, Admission
    PROVE  Standing(queue, run)'
<1> SUFFICES ASSUME NEW m \in Messages,
                    \/ BeginDispatch(m)
                    \/ \E decision \in {"rejected", "handled"} : DecideMessage(m, decision)
                    \/ DropDuplicate(m)
                    \/ \E j \in Jobs, writable \in BOOLEAN : AdmitMessage(m, j, writable)
             PROVE  Standing(queue, run)'
  BY DEF Admission
<1>1. ASSUME NEW decision,
             BeginDispatch(m) \/ DropDuplicate(m) \/ DecideMessage(m, decision)
      PROVE  Standing(queue, run)'
  BY <1>1, NothingMoves DEF Whole, BeginDispatch, DropDuplicate, DecideMessage, store, facts,
                            Ledger!ReserveIngress
<1>2. ASSUME NEW j \in Jobs, NEW writable \in BOOLEAN, AdmitMessage(m, j, writable)
      PROVE  Standing(queue, run)'
  <2>1. /\ jobs[j] = NoJob /\ jobs' = [jobs EXCEPT ![j] = Ledger!FreshRow(TRUE)]
        /\ Turn /\ (~SlowHook => status = "up")
        /\ UNCHANGED <<drawn, executed, status, replacing, toResume>>
        /\ about' = [about EXCEPT ![j] = [scope |-> ScopeOf[m], writable |-> writable]]
        /\ Drain(Append(queue, j), run)
    BY <1>2 DEF AdmitMessage, Dispatching, Ledger!AcceptIngress, Ledger!Exists
  <2>2. /\ ~In(queue, j) /\ j \notin toResume /\ ~Replaces(j)
        /\ run[j].stage = "idle" /\ \A a \in executed : drawn[a] # j
    BY <2>1, UnknownJob
  <2>3. /\ Lined(queue) /\ Serial(run) /\ Between(queue)
        /\ \A i \in Jobs : Keeps(queue, run[i], i)
    BY DEF Whole, Standing
  <2>4. PICK q, r : q = Append(queue, j) /\ r = run
    OBVIOUS
  <2>5. Lined(q) /\ \A i : In(q, i) <=> In(queue, i) \/ i = j
    BY <2>2, <2>3, <2>4, AppendedIsLined
  <2>6. /\ jobs'[j] = Ledger!FreshRow(TRUE) /\ \A i \in Jobs : i # j => jobs'[i] = jobs[i]
        /\ \A i \in Jobs : i # j => about'[i] = about[i]
    BY <2>1, StoreTyped DEF Whole, SInv, FactsTyped
  <2>7. status \in {"up", "stopping", "draining"} /\ replacing = <<>>
    BY <2>1 DEF Turn
  <2>8. Serial(r)'
    <3>1. Active(r) \subseteq Active(run) /\ \A i \in Active(run) : about'[i] = about[i]
      BY <2>2, <2>4, <2>6 DEF Active
    <3>2. QED
      BY <2>3, <3>1, StillSerial
  <2>9. Between(q)'
    BY <2>1, <2>3, <2>7 DEF Between
  <2>10. ASSUME NEW i \in Jobs PROVE Keeps(q, r[i], i)'
    <3>1. Keeps(queue, run[i], i) /\ r[i] = run[i]
      BY <2>3, <2>4
    <3>2. Timely(r[i])'
      BY <2>1, <3>1 DEF Keeps, Timely
    <3>3. CASE i # j
      BY <2>1, <2>5, <2>6, <3>1, <3>2, <3>3, KeptApart DEF Replaces
    <3>4. CASE i = j
      <4>1. jobs'[j] # NoJob /\ jobs'[j].lifecycle = "queued"
        BY <2>6, FreshIsQueued
      <4>2. In(q, j)' /\ Waits(q, j)' /\ j \notin toResume' /\ ~Replaces(j)'
        BY <2>1, <2>2, <2>5 DEF Waits, In, Replaces
      <4>3. r[j].stage = "idle" /\ \A a \in executed' : drawn'[a] # j
        BY <2>1, <2>2, <2>4
      <4>4. QED
        BY <3>2, <3>4, <4>1, <4>2, <4>3 DEF Keeps, Fits
    <3>5. QED
      BY <3>3, <3>4
  <2>11. Standing(q, r)'
    BY <2>5, <2>8, <2>9, <2>10 DEF Standing, Lined
  <2>12. QED
    BY <2>1, <2>4, <2>7, <2>11, DrainKeeps DEF Whole, SInv, RunTyped
<1>3. QED
  BY <1>1, <1>2

\* A second reason to abort a run changes neither its stage nor its attempt.
LEMMA AbortStands ==
    ASSUME Whole, NEW j \in Jobs, Turn, status = "up", Stage(j) # "idle",
           NEW why \in {"cancel", "no_progress"}, Abort(j, why), UNCHANGED <<store, facts>>, RunOnly
    PROVE  Standing(queue, run)'
<1> DEFINE r == Aborted(run[j], why)
<1>1. run' = [run EXCEPT ![j] = r] /\ queue' = queue /\ jobs' = jobs
  BY DEF Abort, Whole, SInv, RunTyped, RunsTyped, store
<1>2. /\ run[j] \in RunState /\ jobs[j] # NoJob /\ Fits(jobs[j], run[j])
      /\ run[j].abort # "recovery" /\ run[j].term # "recovery"
  BY InATurn DEF Stage
<1>3. r.stage = run[j].stage /\ r.attempt = run[j].attempt
  BY <1>2, AbortedTyped
<1>4. r.abort # "recovery" /\ r.term # "recovery"
  BY <1>2 DEF Aborted, RunState
<1> HIDE DEF r
<1>5. TurnOf(j)
  BY <1>1, <1>2, QuietTurn DEF Stage
<1>6. Keeps(queue, run[j], j)
  BY DEF Whole, Standing
<1>7. Follows(j, r)
  BY <1>1, <1>2, <1>3, <1>4, <1>6 DEF Follows, Fits, Keeps, facts, Stage
<1>8. QED
  BY <1>1, <1>5, <1>7, RunGoesOn DEF Whole, SInv

\* replaceJob: the job it creates waits outside the queue.
LEMMA ReplaceStands ==
    ASSUME Whole, NEW j \in Jobs, NEW k \in Jobs, NEW writable \in BOOLEAN,
           Replace(j, k, writable)
    PROVE  Standing(queue, run)'
<1>1. /\ Turn /\ status = "up" /\ replacing' = <<j, k>>
      /\ jobs[k] = NoJob /\ jobs' = [jobs EXCEPT ![k] = Ledger!FreshRow(TRUE)]
      /\ about' = [about EXCEPT ![k] = [scope |-> about[j].scope, writable |-> writable]]
      /\ UNCHANGED <<drawn, executed, status, toResume, queue, run>>
  BY DEF Replace, ControlOnly, Ledger!CreateJob, Ledger!Exists
<1>2. /\ ~In(queue, k) /\ k \notin toResume /\ ~Replaces(k)
      /\ run[k].stage = "idle" /\ \A a \in executed : drawn[a] # k
  BY <1>1, UnknownJob
<1>3. /\ Lined(queue) /\ Serial(run) /\ Between(queue)
      /\ \A i \in Jobs : Keeps(queue, run[i], i)
  BY DEF Whole, Standing
<1>4. PICK q, r : q = queue /\ r = run
  OBVIOUS
<1>5. /\ jobs'[k] = Ledger!FreshRow(TRUE) /\ \A i \in Jobs : i # k => jobs'[i] = jobs[i]
      /\ \A i \in Jobs : i # k => about'[i] = about[i]
  BY <1>1, StoreTyped DEF Whole, SInv, FactsTyped
<1>6. \A i : (Replaces(i)' <=> i = k) /\ ~Replaces(i)
  <2>1. replacing' # <<>> /\ replacing'[2] = k /\ replacing = <<>>
    BY <1>1 DEF Turn
  <2>2. QED
    BY <2>1 DEF Replaces
<1>7. Serial(r)'
  <2>1. Active(r) \subseteq Active(run) /\ \A i \in Active(run) : about'[i] = about[i]
    BY <1>2, <1>4, <1>5 DEF Active
  <2>2. QED
    BY <1>3, <2>1, StillSerial
<1>8. Between(q)'
  BY <1>1, <1>3, <1>4 DEF Between
<1>9. ASSUME NEW i \in Jobs PROVE Keeps(q, r[i], i)'
  <2>1. Keeps(queue, run[i], i) /\ r[i] = run[i]
    BY <1>3, <1>4
  <2>2. Timely(r[i])'
    BY <1>1, <2>1 DEF Keeps, Timely, Turn, Stage
  <2>3. CASE i # k
    BY <1>1, <1>4, <1>5, <1>6, <2>1, <2>2, <2>3, KeptApart
  <2>4. CASE i = k
    <3>1. jobs'[k] # NoJob /\ jobs'[k].lifecycle = "queued"
      BY <1>5, FreshIsQueued
    <3>2. ~In(q, k)' /\ Waits(q, k)'
      BY <1>2, <1>4, <1>6 DEF Waits, In
    <3>3. r[k].stage = "idle" /\ \A a \in executed' : drawn'[a] # k
      BY <1>1, <1>2, <1>4
    <3>4. QED
      BY <2>2, <2>4, <3>1, <3>2, <3>3 DEF Keeps, Fits
  <2>5. QED
    BY <2>3, <2>4
<1>10. Standing(q, r)'
  BY <1>3, <1>4, <1>7, <1>8, <1>9 DEF Standing, Lined
<1>11. QED
  BY <1>1, <1>4, <1>10, SameStanding

\* ... and is queued when the one it replaces was withdrawn.
LEMMA FinishReplaceStands ==
    ASSUME Whole, NEW old \in Jobs, NEW new \in Jobs, FinishReplace(old, new)
    PROVE  Standing(queue, run)'
<1>1. /\ replacing = <<old, new>> /\ replacing' = <<>>
      /\ UNCHANGED <<drawn, executed, status, toResume, about>>
  BY DEF FinishReplace, ControlOnly
<1>2. /\ Lined(queue) /\ Serial(run) /\ Between(queue)
      /\ \A i \in Jobs : Keeps(queue, run[i], i)
  BY DEF Whole, Standing
<1>3. status = "up" /\ replacing # <<>> /\ replacing[2] = new
  BY <1>1, <1>2 DEF Between
<1>4. /\ Replaces(new) /\ \A i : Replaces(i) => i = new
      /\ \A i : ~Replaces(i)'
  BY <1>1, <1>3 DEF Replaces
<1>5. /\ jobs[new] # NoJob /\ jobs[new].lifecycle = "queued" /\ run[new].stage = "idle"
      /\ ~In(queue, new) /\ new \notin toResume
      /\ about[new].writable => \A a \in executed : drawn[a] # new
  BY <1>1, <1>2, <1>3, <1>4 DEF Keeps, Waits, Between
<1>6. /\ RunTyped /\ run \in [Jobs -> RunState]
      /\ jobs \in [Jobs -> Row \cup {NoJob}] /\ LP!IInv
  BY StoreTyped DEF Whole, SInv, RunTyped, RunsTyped
\* the new one is in the queue; the rows and the runs of the others stay, but for one
\* that was cancelled there
<1> DEFINE Requeued(q, r) ==
             /\ Lined(q) /\ RunsTyped(r) /\ In(q, new)
             /\ \A i : In(q, i) => In(queue, i) \/ i = new
             /\ \A i : In(queue, i) => In(q, i) \/ Ended(jobs'[i])
             /\ jobs'[new] # NoJob /\ jobs'[new].lifecycle = "queued"
             /\ \A i \in Jobs :
                   /\ jobs'[i] = NoJob <=> jobs[i] = NoJob
                   /\ \/ jobs'[i].lifecycle = jobs[i].lifecycle
                      \/ run[i].stage = "idle" /\ ~In(q, i) /\ Ended(jobs'[i])
                   /\ r[i].stage = run[i].stage /\ r[i].attempt = run[i].attempt
                   /\ r[i].abort # "recovery" /\ r[i].term # "recovery"
<1>7. ASSUME NEW q, NEW r, Requeued(q, r), Drain(q, r)
      PROVE  Standing(queue, run)'
  <2>1. Serial(r)'
    <3>1. Active(r) \subseteq Active(run)
      BY <1>7 DEF Active
    <3>2. QED
      BY <1>1, <1>2, <3>1, StillSerial
  <2>2. Between(q)'
    BY <1>1, <1>2, <1>3 DEF Between
  <2>3. ASSUME NEW i \in Jobs PROVE Keeps(q, r[i], i)'
    <3>1. Keeps(queue, run[i], i)
      BY <1>2
    <3>2. Timely(r[i])'
      BY <1>1, <1>3, <1>7 DEF Timely
    <3>3. r[i].stage = run[i].stage /\ r[i].attempt = run[i].attempt
          /\ (jobs'[i] = NoJob <=> jobs[i] = NoJob)
      BY <1>7
    <3>4. toResume' = {} /\ toResume = {}
      BY <1>1, <1>2, <1>3 DEF Between
    <3>5. CASE i = new
      <4>1. r[i].stage = "idle" /\ In(q, i)' /\ Waits(q, i)' /\ ~Replaces(i)' /\ i \notin toResume'
        BY <1>1, <1>4, <1>5, <1>7, <3>5 DEF Waits, In
      <4>2. about'[i].writable => \A a \in executed' : drawn'[a] # i
        BY <1>1, <1>5, <3>5
      <4>3. QED
        BY <1>7, <3>2, <3>5, <4>1, <4>2 DEF Keeps, Fits
    <3>6. CASE i # new /\ jobs'[i].lifecycle = jobs[i].lifecycle
      <4>1. ~Replaces(i) /\ ~Replaces(i)'
        BY <1>4, <3>6
      <4>2. In(q, i) => In(queue, i)
        BY <1>7, <3>6
      <4>3. In(queue, i) => In(q, i) \/ Ended(jobs'[i])
        BY <1>7
      <4>4. Fits(jobs'[i], r[i])
        BY <3>1, <3>3, <3>6 DEF Keeps, Fits, Ended
      <4>5. /\ Waits(q, i)' <=> In(q, i)
            /\ Waits(queue, i) <=> In(queue, i)
            /\ In(q, i)' <=> In(q, i)
        BY <3>4, <4>1 DEF Waits, In
      <4>6. QED
        BY <1>1, <1>3, <3>1, <3>2, <3>3, <3>4, <3>6, <4>1, <4>2, <4>3, <4>4, <4>5
           DEF Keeps, Ended, Fits
    <3>7. CASE i # new /\ run[i].stage = "idle" /\ ~In(q, i) /\ Ended(jobs'[i])
      <4>1. ~Replaces(i)' /\ ~In(q, i)' /\ ~Waits(q, i)'
        BY <1>4, <3>4, <3>7 DEF Waits, In
      <4>2. QED
        BY <3>2, <3>3, <3>7, <4>1 DEF Keeps, Fits, Ended
    <3>8. QED
      BY <1>7, <3>5, <3>6, <3>7
  <2>4. Standing(q, r)'
    BY <1>7, <2>1, <2>2, <2>3 DEF Standing, Lined
  <2>5. QED
    BY <1>1, <1>3, <1>7, <2>4, DrainKeeps
<1> HIDE DEF Requeued
<1>8. \A i \in Jobs : run[i].abort # "recovery" /\ run[i].term # "recovery"
  BY <1>2, <1>3 DEF Keeps, Timely
<1>9. CASE /\ Queued(old)
           /\ Ledger!RecordEvent(old, "cancelled", NoAttempt)
           /\ Drain(Append(Without(queue, old), new), run)
  <2>1. In(queue, old) /\ old # new
    BY <1>5, <1>9 DEF Queued, In
  <2>2. /\ jobs'[old] # NoJob /\ jobs'[old].lifecycle = "cancelled" /\ jobs[old] # NoJob
        /\ \A i \in Jobs : i # old => jobs'[i] = jobs[i]
    BY <1>6, <1>9, RecordedRow, EndingKinds
  <2>3. PICK q, r : q = Append(Without(queue, old), new) /\ r = run
    OBVIOUS
  <2>4. /\ Lined(Without(queue, old))
        /\ \A i : In(Without(queue, old), i) <=> In(queue, i) /\ i # old
    BY <1>2, MinusKeepsRest DEF Without
  <2>5. Lined(q) /\ \A i : In(q, i) <=> (In(queue, i) /\ i # old) \/ i = new
    BY <1>5, <2>3, <2>4, AppendedIsLined
  <2>6. run[old].stage = "idle" /\ old \notin toResume /\ Ended(jobs'[old])
    BY <1>2, <2>1, <2>2 DEF Keeps, Waits, Ended, Absorbing
  <2>7. Requeued(q, r)
    BY <1>5, <1>6, <1>8, <2>1, <2>2, <2>3, <2>5, <2>6 DEF Requeued, RunTyped
  <2>8. QED
    BY <1>7, <1>9, <2>3, <2>7
<1>10. CASE /\ ~Queued(old) /\ Stage(old) # "idle"
            /\ UNCHANGED store
            /\ Drain(Append(queue, new), [run EXCEPT ![old] = Aborted(@, "cancel")])
  <2>1. PICK q, r : q = Append(queue, new) /\ r = [run EXCEPT ![old] = Aborted(run[old], "cancel")]
    OBVIOUS
  <2>2. Lined(q) /\ \A i : In(q, i) <=> In(queue, i) \/ i = new
    BY <1>2, <1>5, <2>1, AppendedIsLined
  <2>3. RunsTyped(r)
    BY <1>6, <2>1, AbortKeepsTyped
  <2>4. jobs' = jobs
    BY <1>10 DEF store
  <2>5. /\ Aborted(run[old], "cancel").stage = run[old].stage
        /\ Aborted(run[old], "cancel").attempt = run[old].attempt
    BY <1>6, AbortedTyped
  <2>6. Aborted(run[old], "cancel").abort # "recovery"
        /\ Aborted(run[old], "cancel").term # "recovery"
    <3>1. run[old] \in RunState
      BY <1>6
    <3>2. QED
      BY <1>8, <3>1 DEF Aborted, RunState
  <2>7. \A i \in Jobs : /\ r[i].stage = run[i].stage /\ r[i].attempt = run[i].attempt
                        /\ r[i].abort # "recovery" /\ r[i].term # "recovery"
    BY <1>6, <1>8, <2>1, <2>5, <2>6
  <2>8. Drain(q, r)
    BY <1>6, <1>10, <2>1
  <2>9. Requeued(q, r)
    BY <1>5, <2>2, <2>3, <2>4, <2>7 DEF Requeued
  <2>10. QED
    BY <1>7, <2>8, <2>9
<1>11. CASE /\ Ledger!DeleteRecovery(old)
            /\ Drain(Append(queue, new), run)
  <2>1. PICK q, r : q = Append(queue, new) /\ r = run
    OBVIOUS
  <2>2. Lined(q) /\ \A i : In(q, i) <=> In(queue, i) \/ i = new
    BY <1>2, <1>5, <2>1, AppendedIsLined
  <2>3. /\ jobs[old] # NoJob
        /\ jobs' = [jobs EXCEPT ![old] = [jobs[old] EXCEPT !.envelope = FALSE]]
    BY <1>6, <1>11 DEF Ledger!DeleteRecovery, Ledger!Exists
  <2>4. jobs[old] \in Row
    BY <1>6, <2>3
  <2>5. [jobs[old] EXCEPT !.envelope = FALSE] \in Row
        /\ [jobs[old] EXCEPT !.envelope = FALSE].lifecycle = jobs[old].lifecycle
    BY <2>4 DEF Row
  <2>6. \A i \in Jobs : /\ jobs'[i] = NoJob <=> jobs[i] = NoJob
                        /\ jobs'[i].lifecycle = jobs[i].lifecycle
    BY <1>6, <2>3, <2>5, NoJobIsNoRow
  <2>7. Requeued(q, r)
    BY <1>5, <1>6, <1>8, <2>1, <2>2, <2>6 DEF Requeued, RunTyped
  <2>8. QED
    BY <1>7, <1>11, <2>1, <2>7
<1>12. CASE /\ StoreFaults
            /\ queue' = Without(queue, old)
            /\ UNCHANGED <<store, run>>
  <2>1. PICK q, r : q = Without(queue, old) /\ r = run
    OBVIOUS
  <2>2. Lined(q) /\ \A i : In(q, i) <=> In(queue, i) /\ i # old
    BY <1>2, <2>1, MinusKeepsRest DEF Without
  <2>3. Serial(r)'
    BY <1>1, <1>2, <2>1, StillSerial
  <2>4. Between(q)'
    BY <1>1, <1>2, <1>3 DEF Between
  <2>5. ASSUME NEW i \in Jobs PROVE Keeps(q, r[i], i)'
    <3>1. Keeps(queue, run[i], i) /\ r[i] = run[i] /\ jobs'[i] = jobs[i]
      BY <1>2, <1>12, <2>1 DEF store
    <3>2. Timely(r[i])'
      BY <1>1, <1>3, <3>1 DEF Keeps, Timely
    <3>3. In(q, i) => In(queue, i)
      BY <2>2
    <3>4. QED
      BY <1>1, <1>4, <1>12, <3>1, <3>2, <3>3 DEF Keeps, Waits, In, Fits, Ended
  <2>6. Standing(q, r)'
    BY <2>2, <2>3, <2>4, <2>5 DEF Standing, Lined
  <2>7. QED
    BY <1>12, <2>1, <2>6, SameStanding
<1>13. QED
  BY <1>9, <1>10, <1>11, <1>12 DEF FinishReplace

\* One job that waited or had been forgotten ends; nothing else moves.
LEMMA OneEnds ==
    ASSUME Whole, NEW j \in Jobs, NEW q, Lined(q),
           \A i : In(q, i) <=> In(queue, i) /\ i # j,
           j \notin toResume, ~Replaces(j), run[j].stage = "idle", jobs'[j] # NoJob,
           Ended(jobs'[j]) \/ StoreFaults,
           \A i \in Jobs : i # j => jobs'[i] = jobs[i],
           queue = <<>> => q = <<>>, status = "up",
           UNCHANGED <<about, drawn, executed, status, run, replacing, toResume>>, queue' = q
    PROVE  Standing(queue, run)'
<1>1. /\ Lined(queue) /\ Serial(run) /\ Between(queue)
      /\ \A i \in Jobs : Keeps(queue, run[i], i)
  BY DEF Whole, Standing
<1>2. PICK p, r : p = q /\ r = run
  OBVIOUS
<1>3. Serial(r)'
  BY <1>1, <1>2, StillSerial
<1>4. Between(p)'
  BY <1>1, <1>2 DEF Between
<1>5. ASSUME NEW i \in Jobs PROVE Keeps(p, r[i], i)'
  <2>1. Keeps(queue, run[i], i) /\ r[i] = run[i]
    BY <1>1, <1>2
  <2>2. Timely(r[i])'
    BY <2>1 DEF Keeps, Timely
  <2>3. Replaces(i)' <=> Replaces(i)
    BY DEF Replaces
  <2>4. CASE i # j
    BY <1>2, <2>1, <2>2, <2>3, <2>4, KeptApart
  <2>5. CASE i = j
    <3>1. ~In(p, i)' /\ ~Replaces(i)' /\ ~Waits(p, i)'
      BY <1>2, <2>3, <2>5 DEF Waits, In
    <3>2. QED
      BY <2>1, <2>2, <2>5, <3>1 DEF Keeps, Fits, Ended
  <2>6. QED
    BY <2>4, <2>5
<1>6. Standing(p, r)'
  BY <1>2, <1>3, <1>4, <1>5 DEF Standing, Lined
<1>7. QED
  BY <1>2, <1>6, SameStanding

\* Nothing can be taken out of an empty queue.
LEMMA MinusOfEmpty ==
    ASSUME NEW q, Lined(q), NEW gone, q = <<>>
    PROVE  Minus(q, gone) = <<>>
<1>1. /\ Lined(Minus(q, gone))
      /\ \A j : In(Minus(q, gone), j) <=> In(q, j) /\ j \notin gone
  BY MinusKeepsRest
<1>2. \A j : ~In(Minus(q, gone), j)
  BY <1>1, EmptyIsLined
<1>3. Minus(q, gone) \in Seq(Jobs) /\ DOMAIN Minus(q, gone) = {}
  BY <1>1, <1>2 DEF Lined, In
<1>4. QED
  BY <1>3, EmptySeq, LenProperties

\* Operators and the watchdog.
LEMMA ControlStands ==
    ASSUME Whole, Control
    PROVE  Standing(queue, run)'
<1>0. /\ Lined(queue) /\ \A i \in Jobs : Keeps(queue, run[i], i)
      /\ LP!IInv /\ jobs \in [Jobs -> Row \cup {NoJob}]
  BY StoreTyped DEF Whole, Standing, SInv
<1>1. ASSUME NEW j \in Jobs, CancelQueued(j)
      PROVE  Standing(queue, run)'
  <2>1. /\ Turn /\ status = "up" /\ In(queue, j) /\ queue' = Without(queue, j)
        /\ UNCHANGED <<about, drawn, executed, status, run, replacing, toResume>>
        /\ Ledger!RecordEvent(j, "cancelled", NoAttempt) \/ (StoreFaults /\ UNCHANGED store)
    BY <1>1 DEF CancelQueued, ControlOnly, Queued, In
  <2>2. j \notin toResume /\ ~Replaces(j) /\ run[j].stage = "idle" /\ jobs[j] # NoJob
    BY <1>0, <2>1 DEF Keeps, Waits
  <2>3. /\ jobs'[j] # NoJob /\ (Ended(jobs'[j]) \/ StoreFaults)
        /\ \A i \in Jobs : i # j => jobs'[i] = jobs[i]
    <3>1. CASE Ledger!RecordEvent(j, "cancelled", NoAttempt)
      BY <1>0, <3>1, RecordedRow, EndingKinds DEF Ended, Absorbing
    <3>2. CASE StoreFaults /\ UNCHANGED store
      BY <2>2, <3>2 DEF store
    <3>3. QED
      BY <2>1, <3>1, <3>2
  <2>4. /\ Lined(queue') /\ \A i : In(queue', i) <=> In(queue, i) /\ i # j
        /\ queue = <<>> => queue' = <<>>
    BY <1>0, <2>1, MinusKeepsRest, MinusOfEmpty DEF Without
  <2>5. PICK q : q = queue'
    OBVIOUS
  <2>6. QED
    BY <2>1, <2>2, <2>3, <2>4, <2>5, OneEnds
<1>2. ASSUME NEW j \in Jobs, CancelActive(j)
      PROVE  Standing(queue, run)'
  BY <1>2, AbortStands DEF CancelActive, ControlOnly, facts, RunOnly
<1>3. ASSUME NEW j \in Jobs, Watchdog(j)
      PROVE  Standing(queue, run)'
  <2>1. /\ Turn /\ status = "up" /\ jobs[j] # NoJob /\ jobs[j].lifecycle = "running"
        /\ ControlOnly /\ UNCHANGED <<about, replacing>>
    BY <1>3 DEF Watchdog, Ledger!Exists
  <2>2. CASE Stage(j) # "idle" /\ Abort(j, "no_progress") /\ UNCHANGED store
    BY <2>1, <2>2, AbortStands DEF ControlOnly, facts, RunOnly
  <2>3. CASE /\ Stage(j) = "idle"
             /\ Ledger!RecordEvent(j, "failed", jobs[j].attempt)
             /\ UNCHANGED <<queue, run>>
    <3>1. jobs[j].attempt \in Attempts \cup {NoAttempt}
      BY <1>0, <2>1 DEF Row
    <3>2. /\ jobs'[j] # NoJob /\ Ended(jobs'[j])
          /\ \A i \in Jobs : i # j => jobs'[i] = jobs[i]
      BY <1>0, <2>3, <3>1, RecordedRow, EndingKinds DEF Ended, Absorbing
    <3>3. ~In(queue, j) /\ j \notin toResume /\ ~Replaces(j)
      BY <1>0, <2>1 DEF Keeps, Waits
    <3>4. PICK q : q = queue
      OBVIOUS
    <3>5. Lined(q) /\ \A i : In(q, i) <=> In(queue, i) /\ i # j
      BY <1>0, <3>3, <3>4
    <3>6. QED
      BY <2>1, <2>3, <3>2, <3>3, <3>4, <3>5, OneEnds DEF ControlOnly, Stage
  <2>4. QED
    BY <1>3, <2>2, <2>3 DEF Watchdog
<1>4. QED
  BY <1>1, <1>2, <1>3, ReplaceStands, FinishReplaceStands DEF Control

\* Every run is aborted, and the queue is flushed next, if there is one.
LEMMA ShutdownStands ==
    ASSUME Whole, Shutdown
    PROVE  Standing(queue, run)'
<1>1. /\ Lined(queue) /\ Serial(run) /\ Between(queue)
      /\ \A i \in Jobs : Keeps(queue, run[i], i)
      /\ run \in [Jobs -> RunState]
  BY DEF Whole, Standing, SInv, RunTyped, RunsTyped
<1>2. /\ Turn /\ status = "up" /\ status' = (IF queue = <<>> THEN "stopping" ELSE "flushing")
      /\ run' = [i \in Jobs |-> Aborted(run[i], "recovery")]
      /\ UNCHANGED <<jobs, about, drawn, executed, queue, replacing, toResume>>
  BY DEF Shutdown, store, facts
<1>3. PICK q, r : q = queue /\ r = [i \in Jobs |-> Aborted(run[i], "recovery")]
  OBVIOUS
<1>4. \A i \in Jobs : r[i].stage = run[i].stage /\ r[i].attempt = run[i].attempt
  BY <1>1, <1>3, AbortedTyped
<1>5. replacing' = <<>> /\ toResume' = {} /\ \A i : ~Replaces(i) /\ ~Replaces(i)'
  BY <1>1, <1>2 DEF Turn, Between, Replaces
<1>6. Serial(r)'
  <2>1. Active(r) \subseteq Active(run)
    BY <1>4 DEF Active
  <2>2. QED
    BY <1>1, <1>2, <2>1, StillSerial
<1>7. Between(q)'
  BY <1>2, <1>3, <1>5 DEF Between
<1>8. ASSUME NEW i \in Jobs PROVE Keeps(q, r[i], i)'
  <2>1. Keeps(queue, run[i], i) /\ r[i].stage = run[i].stage /\ r[i].attempt = run[i].attempt
    BY <1>1, <1>4
  <2>2. run[i].stage \notin {"exited", "answering"}
    BY <1>2 DEF Turn, Stage
  <2>3. Timely(r[i])'
    BY <1>2, <1>5, <2>1, <2>2 DEF Timely
  <2>4. (In(q, i)' <=> In(queue, i)) /\ (Waits(q, i)' <=> Waits(queue, i))
    BY <1>2, <1>3, <1>5 DEF In, Waits
  <2>5. QED
    BY <1>2, <1>3, <1>5, <2>1, <2>3, <2>4 DEF Keeps, Fits, Ended
<1>9. Standing(q, r)'
  BY <1>1, <1>3, <1>6, <1>7, <1>8 DEF Standing, Lined
<1>10. QED
  BY <1>2, <1>3, <1>9, SameStanding

\* One job of the queue is handed to the next start.
LEMMA FlushStands ==
    ASSUME Whole, NEW j \in Jobs, FlushQueue(j)
    PROVE  Standing(queue, run)'
<1>1. /\ Lined(queue) /\ Serial(run) /\ Between(queue)
      /\ \A i \in Jobs : Keeps(queue, run[i], i)
  BY DEF Whole, Standing
<1>2. /\ status = "flushing" /\ j = Head(queue) /\ queue' = Tail(queue)
      /\ status' = (IF Len(queue) = 1 THEN "stopping" ELSE "flushing")
      /\ UNCHANGED <<about, drawn, executed, run, replacing, toResume>>
      /\ Ledger!RecordEvent(j, "recovered", NoAttempt) \/ (StoreFaults /\ UNCHANGED store)
  BY DEF FlushQueue, facts
<1>3. queue # <<>> /\ replacing = <<>> /\ toResume = {}
  BY <1>1, <1>2 DEF Between
<1>4. /\ In(queue, j) /\ Lined(queue') /\ \A i : In(queue', i) <=> In(queue, i) /\ i # j
      /\ Len(queue) = 1 <=> queue' = <<>>
  BY <1>1, <1>2, <1>3, TailIsLined
<1>5. PICK q, r : q = queue' /\ r = run
  OBVIOUS
<1>6. jobs[j] # NoJob /\ run[j].stage = "idle"
  BY <1>1, <1>4 DEF Keeps, Waits
<1>7. jobs'[j] # NoJob /\ \A i \in Jobs : i # j => jobs'[i] = jobs[i]
  BY <1>2, <1>6, RecordedRow DEF Whole, SInv, store
<1>8. Serial(r)'
  BY <1>1, <1>2, <1>5, StillSerial
<1>9. Between(q)'
  BY <1>2, <1>3, <1>4, <1>5 DEF Between
<1>10. ASSUME NEW i \in Jobs PROVE Keeps(q, r[i], i)'
  <2>1. Keeps(queue, run[i], i) /\ r[i] = run[i]
    BY <1>1, <1>5
  <2>2. Timely(r[i])'
    BY <1>2, <1>3, <2>1 DEF Keeps, Timely
  <2>3. ~Replaces(i) /\ ~Replaces(i)' /\ status' \notin {"up", "resuming"}
    BY <1>2, <1>3 DEF Replaces
  <2>4. CASE i # j
    BY <1>2, <1>4, <1>5, <1>7, <2>1, <2>2, <2>3, <2>4, KeptApart
  <2>5. CASE i = j
    <3>1. ~In(q, i)' /\ ~Waits(q, i)'
      BY <1>2, <1>3, <1>4, <1>5, <2>3, <2>5 DEF In, Waits
    <3>2. QED
      BY <1>5, <1>6, <2>2, <2>3, <2>5, <3>1 DEF Keeps, Fits
  <2>6. QED
    BY <2>4, <2>5
<1>11. Standing(q, r)'
  BY <1>4, <1>5, <1>8, <1>9, <1>10 DEF Standing, Lined
<1>12. QED
  BY <1>2, <1>5, <1>11, SameStanding

\* The drain begins when nothing is queued and nothing runs.
LEMMA IdleReachedStands ==
    ASSUME Whole, IdleReached
    PROVE  Standing(queue, run)'
<1>1. /\ Lined(queue) /\ Serial(run) /\ Between(queue)
      /\ \A i \in Jobs : Keeps(queue, run[i], i)
  BY DEF Whole, Standing
<1>2. /\ Turn /\ status = "stopping" /\ queue = <<>> /\ status' = "draining"
      /\ \A i \in Jobs : run[i].stage = "idle"
      /\ UNCHANGED <<jobs, about, drawn, executed, queue, run, replacing, toResume>>
  BY DEF IdleReached, store, facts, Active
<1>3. PICK q, r : q = queue /\ r = run
  OBVIOUS
<1>4. Serial(r)'
  BY <1>1, <1>2, <1>3, StillSerial
<1>5. Between(q)'
  BY <1>1, <1>2, <1>3 DEF Between
<1>6. ASSUME NEW i \in Jobs PROVE Keeps(q, r[i], i)'
  <2>1. Keeps(queue, run[i], i) /\ r[i] = run[i] /\ r[i].stage = "idle"
    BY <1>1, <1>2, <1>3
  <2>2. Timely(r[i])'
    BY <1>2, <2>1 DEF Timely
  <2>3. Replaces(i)' <=> Replaces(i)
    BY <1>2 DEF Replaces
  <2>4. QED
    BY <1>2, <1>3, <2>1, <2>2, <2>3, KeptApart
<1>7. Standing(q, r)'
  BY <1>1, <1>3, <1>4, <1>5, <1>6 DEF Standing, Lined
<1>8. QED
  BY <1>2, <1>3, <1>7, SameStanding

\* A process that is gone has no queue and no runs.
LEMMA GoneStands ==
    ASSUME Gone
    PROVE  Standing(queue, run)'
<1>1. /\ status' = "down" /\ queue' = <<>> /\ run' = [j \in Jobs |-> Idle]
      /\ replacing' = <<>> /\ toResume' = {}
  BY DEF Gone
<1>2. PICK q, r : q = <<>> /\ r = [j \in Jobs |-> Idle]
  OBVIOUS
<1>3. Idle.stage = "idle" /\ Idle.abort = "none" /\ Idle.term = "none"
  BY DEF Idle
<1>4. Lined(q) /\ \A j : ~In(q, j)
  BY <1>2, EmptyIsLined
<1>5. Serial(r)'
  <2>1. Active(r) = {}
    BY <1>2, <1>3 DEF Active
  <2>2. IsFiniteSet(Active(r)) /\ Cardinality(Active(r)) = 0
    BY <2>1, FS_EmptySet
  <2>3. QED
    BY <2>1, <2>2, LimitsArePositive DEF Serial, Active
<1>6. Between(q)'
  BY <1>1, <1>2 DEF Between
<1>7. ASSUME NEW j \in Jobs PROVE Keeps(q, r[j], j)'
  <2>1. r[j].stage = "idle" /\ r[j].abort = "none" /\ r[j].term = "none"
    BY <1>2, <1>3
  <2>2. ~In(q, j)' /\ ~Replaces(j)' /\ ~Waits(q, j)'
    BY <1>1, <1>4 DEF Waits, In, Replaces
  <2>3. Timely(r[j])'
    BY <1>1, <2>1 DEF Timely
  <2>4. QED
    BY <1>1, <2>1, <2>2, <2>3 DEF Keeps, Fits
<1>8. Standing(q, r)'
  BY <1>4, <1>5, <1>6, <1>7 DEF Standing, Lined
<1>9. QED
  BY <1>1, <1>2, <1>8, SameStanding

\* What startup recovery makes of the row of one job.
LEMMA RecoveredJob ==
    ASSUME LP!IInv, NEW j \in Jobs, Ledger!RecoverInterruptedWork
    PROVE  /\ jobs[j] # NoJob <=> jobs'[j] # NoJob
           /\ jobs[j] # NoJob /\ ~Ended(jobs'[j]) =>
                /\ Ledger!Interrupted(j) /\ Ledger!RecoveryKind(j) = "recovered"
           /\ Ledger!Interrupted(j) /\ Ledger!RecoveryKind(j) = "recovered" =>
                jobs'[j] # NoJob /\ jobs'[j].lifecycle = "queued"
           /\ jobs'[j] # NoJob => jobs'[j] \in Row
           /\ jobs[j] # NoJob =>
                jobs'[j].deliveryState \in {jobs[j].deliveryState, "unknown"}
           /\ \A a \in Attempts :
                 \/ deliveries'[j][a] = deliveries[j][a]
                 \/ deliveries[j][a] = "started" /\ deliveries'[j][a] = "unknown"
<1>1. /\ jobs \in [Jobs -> Row \cup {NoJob}] /\ NoJob \notin Row
      /\ deliveries \in [Jobs -> [Attempts -> LP!DeliveryStatus]]
  BY StoreTyped
<1>2. CASE ~Ledger!Interrupted(j)
  <2>1. jobs'[j] = jobs[j] /\ deliveries'[j] = deliveries[j]
    BY <1>2 DEF Ledger!RecoverInterruptedWork
  <2>2. jobs[j] # NoJob => Ended(jobs[j])
    BY <1>2 DEF Ledger!Interrupted, Ledger!Exists, Ended, Ledger!Absorbing, Absorbing
  <2>3. QED
    BY <1>1, <1>2, <2>1, <2>2
<1>3. CASE Ledger!Interrupted(j)
  <2> DEFINE kind == Ledger!RecoveryKind(j)
             a == Ledger!RecoveryAttempt(j)
             row == Appended(jobs[j], kind, a)
  <2>1. jobs[j] # NoJob /\ jobs[j] \in Row
    BY <1>1, <1>3 DEF Ledger!Interrupted, Ledger!Exists
  <2>2. kind \in {"delivery_unknown", "recovered", "recovery_review_required"}
    BY DEF Ledger!RecoveryKind
  <2>3. a \in Attempts \cup {NoAttempt}
    <3>1. jobs[j].attempt \in Attempts \cup {NoAttempt}
      BY <2>1 DEF Row
    <3>2. QED
      BY <3>1 DEF Ledger!RecoveryAttempt, Ledger!StartedAttempts
  <2>4. /\ jobs'[j] = (IF kind = "recovered" THEN Detached(row) ELSE row)
        /\ deliveries'[j] = Ledger!Rediscovered(j)
    <3>1. jobs'[j] = Ledger!RecoveredRow(j) /\ deliveries'[j] = Ledger!Rediscovered(j)
      BY <1>3 DEF Ledger!RecoverInterruptedWork
    <3>2. Ledger!RecoveredRow(j) = (IF kind = "recovered" THEN Detached(row) ELSE row)
      BY SameEvent DEF Ledger!RecoveredRow, Ledger!Detached, Detached
    <3>3. QED
      BY <3>1, <3>2
  <2> HIDE DEF kind, a
  <2>5. row \in Row
    BY <2>1, <2>3, SameRow, SameEvent, LP!AppendedType, NoAttemptIsNoAttempt, NoJobIsNoRow
  <2>6. /\ row.lifecycle = TransitionFor(kind, jobs[j].lifecycle)
        /\ row.deliveryState \in {jobs[j].deliveryState, "unknown"}
    BY <2>2 DEF Appended
  <2>7. /\ kind = "delivery_unknown" => row.lifecycle = "completed"
        /\ kind = "recovered" => row.lifecycle = "queued"
        /\ kind = "recovery_review_required" => row.lifecycle = "recovery_review"
    BY <2>6, EndingKinds DEF DeliveryEndKinds
  <2> HIDE DEF row
  <2>8. /\ Detached(row) \in Row /\ Detached(row).lifecycle = row.lifecycle
        /\ Detached(row).deliveryState = row.deliveryState
    BY <2>5 DEF Detached, Row
  <2>9. /\ jobs'[j] \in Row /\ jobs'[j].lifecycle = row.lifecycle
        /\ jobs'[j].deliveryState = row.deliveryState
    BY <2>4, <2>5, <2>8
  <2>10. \A b \in Attempts : deliveries'[j][b] = deliveries[j][b]
                               \/ (deliveries[j][b] = "started" /\ deliveries'[j][b] = "unknown")
    BY <2>4 DEF Ledger!Rediscovered
  <2>11. Ended(jobs'[j]) \/ kind = "recovered"
    BY <2>2, <2>7, <2>9 DEF Ended, Absorbing
  <2>12. kind = "recovered" => jobs'[j].lifecycle = "queued"
    BY <2>7, <2>9
  <2>13. jobs'[j] # NoJob
    BY <1>1, <2>9
  <2>14. QED
    BY <1>3, <2>1, <2>6, <2>9, <2>10, <2>11, <2>12, <2>13 DEF kind
<1>4. QED
  BY <1>2, <1>3

\* What recovery has made queued is to be looked at.
LEMMA StartStands ==
    ASSUME Whole, Start
    PROVE  Standing(queue, run)'
<1>1. /\ Lined(queue) /\ Serial(run) /\ Between(queue)
      /\ \A i \in Jobs : Keeps(queue, run[i], i)
      /\ LP!IInv
  BY DEF Whole, Standing, SInv
<1>2. /\ status = "down" /\ Ledger!RecoverInterruptedWork
      /\ toResume' = {j \in Jobs : Ledger!Interrupted(j) /\ Ledger!RecoveryKind(j) = "recovered"}
      /\ status' = (IF toResume' = {} THEN "up" ELSE "resuming")
      /\ UNCHANGED <<about, drawn, executed, queue, run, replacing>>
  BY DEF Start, facts
<1>3. queue = <<>> /\ replacing = <<>> /\ toResume = {}
  BY <1>1, <1>2 DEF Between
<1>4. PICK q, r : q = queue /\ r = run
  OBVIOUS
<1>5. Serial(r)'
  BY <1>1, <1>2, <1>4, StillSerial
<1>6. Between(q)'
  BY <1>2, <1>3, <1>4 DEF Between
<1>7. ASSUME NEW i \in Jobs PROVE Keeps(q, r[i], i)'
  <2>1. Keeps(queue, run[i], i) /\ r[i] = run[i]
    BY <1>1, <1>4
  <2>2. r[i].stage = "idle" /\ r[i].abort # "recovery" /\ r[i].term # "recovery"
    BY <1>2, <2>1 DEF Keeps, Timely
  <2>3. Timely(r[i])'
    BY <1>2, <1>3, <2>2 DEF Timely
  <2>4. ~In(q, i)' /\ ~Replaces(i)' /\ (Waits(q, i)' <=> i \in toResume')
    BY <1>2, <1>3, <1>4, EmptyIsLined DEF Waits, In, Replaces
  <2>5. /\ i \in toResume' => jobs'[i] # NoJob /\ jobs'[i].lifecycle = "queued"
        /\ jobs'[i] # NoJob /\ ~Ended(jobs'[i]) => i \in toResume'
    BY <1>1, <1>2, RecoveredJob
  <2>6. QED
    BY <2>2, <2>3, <2>4, <2>5 DEF Keeps, Fits, Ended
<1>8. Standing(q, r)'
  BY <1>1, <1>4, <1>5, <1>6, <1>7 DEF Standing, Lined
<1>9. QED
  BY <1>2, <1>4, <1>8, SameStanding

\* A recovered job is queued again or parked; after the last, #drain.
LEMMA ResumeStands ==
    ASSUME Whole, NEW j \in Jobs, ResumeOne(j)
    PROVE  Standing(queue, run)'
<1>1. /\ Lined(queue) /\ Serial(run) /\ Between(queue)
      /\ \A i \in Jobs : Keeps(queue, run[i], i)
      /\ LP!IInv /\ RunTyped /\ NoAttempt \in Attempts \cup {NoAttempt}
  BY DEF Whole, Standing, SInv
<1>2. /\ status = "resuming" /\ j \in toResume /\ toResume' = toResume \ {j}
      /\ status' = (IF toResume' = {} THEN "up" ELSE "resuming")
      /\ UNCHANGED <<about, drawn, executed, replacing>>
  BY DEF ResumeOne, facts
<1>3. PICK again \in BOOLEAN, q \in {queue, Append(queue, j)}, r \in {run} :
         /\ again => ~about[j].writable
         /\ IF again THEN UNCHANGED store ELSE Ledger!ParkRecovered(j)
         /\ q = (IF again THEN Append(queue, j) ELSE queue) /\ r = run
         /\ IF toResume' = {} THEN Drain(q, r) ELSE queue' = q /\ UNCHANGED run
  BY DEF ResumeOne
<1>4. replacing = <<>> /\ \A i : ~Replaces(i) /\ ~Replaces(i)'
  BY <1>1, <1>2 DEF Between, Replaces
<1>5. /\ jobs[j] # NoJob /\ jobs[j].lifecycle = "queued" /\ run[j].stage = "idle"
      /\ ~In(queue, j)
  BY <1>1, <1>2 DEF Keeps, Waits
<1>6. /\ Lined(q) /\ \A i : In(q, i) <=> In(queue, i) \/ (again /\ i = j)
  BY <1>1, <1>3, <1>5, AppendedIsLined
<1>7. /\ jobs'[j] # NoJob /\ \A i \in Jobs : i # j => jobs'[i] = jobs[i]
      /\ again => jobs'[j] = jobs[j]
      /\ ~again => Ended(jobs'[j])
  <2>1. CASE again
    BY <1>3, <1>5, <2>1 DEF store
  <2>2. CASE ~again
    <3>1. Ledger!Append(j, "recovery_review_required", NoAttempt)
      BY <1>3, <2>2 DEF Ledger!ParkRecovered
    <3>2. QED
      BY <1>1, <2>2, <3>1, AppendedRow, EndingKinds DEF Ended
  <2>3. QED
    BY <2>1, <2>2
<1>8. Serial(r)'
  BY <1>1, <1>2, <1>3, StillSerial
<1>9. Between(q)'
  BY <1>2, <1>4 DEF Between
<1>10. ASSUME NEW i \in Jobs PROVE Keeps(q, r[i], i)'
  <2>1. Keeps(queue, run[i], i) /\ r[i] = run[i]
    BY <1>1, <1>3
  <2>2. Timely(r[i])'
    BY <1>2, <1>4, <2>1 DEF Keeps, Timely
  <2>3. CASE i # j
    BY <1>2, <1>4, <1>6, <1>7, <2>1, <2>2, <2>3, KeptApart
  <2>4. CASE i = j /\ again
    <3>1. In(q, i)' /\ Waits(q, i)' /\ i \notin toResume'
      BY <1>2, <1>6, <2>4 DEF Waits, In
    <3>2. QED
      BY <1>2, <1>3, <1>4, <1>5, <1>7, <2>1, <2>2, <2>4, <3>1 DEF Keeps, Fits
  <2>5. CASE i = j /\ ~again
    <3>1. ~In(q, i)' /\ ~Waits(q, i)'
      BY <1>2, <1>4, <1>5, <1>6, <2>5 DEF Waits, In
    <3>2. QED
      BY <1>4, <1>5, <1>7, <2>1, <2>2, <2>5, <3>1 DEF Keeps, Fits, Ended
  <2>6. QED
    BY <2>3, <2>4, <2>5
<1>11. Standing(q, r)'
  BY <1>6, <1>8, <1>9, <1>10 DEF Standing, Lined
<1>12. CASE toResume' = {}
  <2>1. status' = "up" /\ Drain(q, r) /\ RunsTyped(r)
    BY <1>1, <1>2, <1>3, <1>12 DEF RunTyped
  <2>2. QED
    BY <1>11, <2>1, DrainKeeps
<1>13. CASE toResume' # {}
  BY <1>3, <1>11, <1>13, SameStanding
<1>14. QED
  BY <1>12, <1>13

\* The queue and the runs stand after every step.
LEMMA NextStands ==
    ASSUME Whole, [Next]_vars
    PROVE  Standing(queue, run)'
<1>1. CASE UNCHANGED vars
  BY <1>1, NothingMoves DEF Whole, vars, store, facts, process
<1>2. ASSUME NEW j \in Jobs, RunStep(j)
      PROVE  Standing(queue, run)'
  BY <1>2, StartingTurns, ExitTurns, AnswerTurns DEF RunStep
<1>3. ASSUME NEW a \in Attempts, Arrives(a) \/ IsLost(a)
      PROVE  Standing(queue, run)'
  BY <1>3, NothingMoves DEF Whole, Arrives, IsLost, store, facts, process
<1>4. CASE Stopping \/ Crash
  BY <1>4, FlushStands, IdleReachedStands, GoneStands DEF Stopping, Close, Crash
<1>5. CASE Next
  BY <1>2, <1>3, <1>4, <1>5, AdmissionStands, ChildTurns, ControlStands, ShutdownStands,
     StartStands, ResumeStands DEF Next
<1>6. QED
  BY <1>1, <1>5

--------------------------------------------------------------------------------
(* Attempts drawn and executed, answers sent *)

\* No send is begun or ended, and no row goes away.
Quiet ==
    /\ UNCHANGED deliveries
    /\ \A j \in Jobs : jobs[j] # NoJob =>
          jobs'[j] # NoJob /\ jobs'[j].deliveryState = jobs[j].deliveryState

\* Rows never go away.
RowsStay == \A j \in Jobs : jobs[j] # NoJob => jobs'[j] # NoJob

\* Most events are about no send.
LEMMA QuietAppend ==
    ASSUME LP!IInv, NEW j \in Jobs, NEW kind, NEW a \in Attempts \cup {NoAttempt},
           Ledger!Append(j, kind, a), UNCHANGED deliveries,
           kind \notin {"delivery_started"} \cup DeliveryEndKinds
    PROVE  Quiet
<1>1. /\ jobs'[j] # NoJob /\ jobs'[j] = Appended(jobs[j], kind, a)
      /\ \A i \in Jobs : i # j => jobs'[i] = jobs[i]
  BY AppendedRow
<1>2. jobs'[j].deliveryState = jobs[j].deliveryState
  BY <1>1 DEF Appended, DeliveryEndKinds
<1>3. QED
  BY <1>1, <1>2 DEF Quiet

\* None of the events the service records is.
LEMMA QuietRecord ==
    ASSUME LP!IInv, NEW j \in Jobs, NEW kind, NEW a \in Attempts \cup {NoAttempt},
           Ledger!RecordEvent(j, kind, a)
    PROVE  Quiet
BY RecordedRow DEF Quiet

\* Nor is a step without a transaction.
LEMMA QuietNothing ==
    ASSUME UNCHANGED store
    PROVE  Quiet
BY DEF Quiet, store

\* The new row of a job nobody has.
LEMMA QuietCreation ==
    ASSUME LP!IInv, NEW j \in Jobs, NEW row, jobs[j] = NoJob,
           jobs' = [jobs EXCEPT ![j] = row], UNCHANGED deliveries
    PROVE  Quiet
BY StoreTyped DEF Quiet

\* The catch of #run records a failure or a cancellation, or nothing.
LEMMA QuietCatch ==
    ASSUME Whole, NEW j \in Jobs, Catch(j)
    PROVE  Quiet
<1> DEFINE kind == IF run[j].abort = "cancel" THEN "cancelled" ELSE "failed"
<1>1. LP!IInv
  BY DEF Whole, SInv
<1>2. CASE Ledger!RecordEvent(j, kind, jobs[j].attempt)
  <2>1. Ledger!Exists(j)
    BY <1>2 DEF Ledger!RecordEvent, Ledger!Append
  <2>2. jobs[j].attempt \in Attempts \cup {NoAttempt}
    BY <1>1, <2>1, AttemptOfRow
  <2>3. QED
    BY <1>1, <1>2, <2>2, QuietRecord
<1>3. CASE UNCHANGED store
  BY <1>3, QuietNothing
<1>4. QED
  BY <1>2, <1>3 DEF Catch

\* What was drawn and executed stays as it was drawn and executed; a profile is
\* given to new jobs only.
SameDrawn ==
    /\ UNCHANGED <<drawn, executed>>
    /\ \A j \in Jobs : jobs[j] # NoJob => about'[j] = about[j]

\* What was drawn keeps its job when no attempt is drawn or executed.
LEMMA DrawnStays ==
    ASSUME Whole, SameDrawn, RowsStay
    PROVE  Drawn'
<1>1. /\ \A a \in Attempts : drawn[a] # NoJob => drawn[a] \in Jobs /\ jobs[drawn[a]] # NoJob
      /\ \A a \in executed : a \in Attempts /\ drawn[a] # NoJob
      /\ \A a, b \in executed : drawn[a] = drawn[b] /\ about[drawn[a]].writable => a = b
  BY DEF Whole, FactsTyped, Drawn, WritableRunsOnce
<1>2. \A a \in Attempts : drawn'[a] # NoJob => jobs'[drawn'[a]] # NoJob
  BY <1>1 DEF SameDrawn, RowsStay
<1>3. \A a \in executed' : about'[drawn'[a]] = about[drawn[a]]
  BY <1>1 DEF SameDrawn
<1>4. WritableRunsOnce'
  BY <1>1, <1>3 DEF SameDrawn, WritableRunsOnce
<1>5. QED
  BY <1>1, <1>2, <1>4 DEF Drawn, SameDrawn

\* What left keeps its row and its outcome when no send begins or ends.
LEMMA SentStays ==
    ASSUME Whole, Quiet, UNCHANGED network,
           \A a \in Attempts : drawn[a] # NoJob => drawn'[a] = drawn[a]
    PROVE  Sent'
<1>1. /\ \A a \in Outgoing : /\ a \in Attempts /\ drawn[a] \in Jobs /\ drawn'[a] = drawn[a]
                             /\ deliveries[drawn[a]][a] # "none"
                             /\ jobs[drawn[a]].deliveryState \in {"sending", "delivered", "unknown"}
                             /\ jobs[drawn[a]] # NoJob
      /\ \A j \in Jobs, a \in Attempts : deliveries[j][a] = "confirmed" => a \in posted
  BY DEF Whole, FactsTyped, Drawn, Sent, Outgoing
<1>2. UNCHANGED <<wire, posted, Outgoing, deliveries>>
  BY DEF network, Outgoing, Quiet
<1>3. QED
  BY <1>1, <1>2, NoJobIsNoRow DEF Sent, Quiet

\* Most steps are of this kind.
LEMMA QuietStep ==
    ASSUME Whole, Quiet, SameDrawn, UNCHANGED network
    PROVE  Drawn' /\ Sent'
BY DrawnStays, SentStays DEF SameDrawn, Quiet, RowsStay

\* A turn that changes no fact is one of them.
LEMMA QuietTurns ==
    ASSUME Whole, Quiet, UNCHANGED <<facts, network>>
    PROVE  Drawn' /\ Sent'
BY QuietStep DEF facts, SameDrawn

\* A new job has drawn and sent nothing.
LEMMA AdmissionKeeps ==
    ASSUME Whole, Admission
    PROVE  Drawn' /\ Sent'
<1> SUFFICES ASSUME NEW m \in Messages,
                    \/ BeginDispatch(m)
                    \/ \E decision \in {"rejected", "handled"} : DecideMessage(m, decision)
                    \/ DropDuplicate(m)
                    \/ \E j \in Jobs, writable \in BOOLEAN : AdmitMessage(m, j, writable)
             PROVE  Drawn' /\ Sent'
  BY DEF Admission
<1>1. CASE BeginDispatch(m) \/ DropDuplicate(m)
  BY <1>1, QuietNothing, QuietTurns DEF BeginDispatch, DropDuplicate
<1>2. ASSUME NEW decision \in {"rejected", "handled"}, DecideMessage(m, decision)
      PROVE  Drawn' /\ Sent'
  <2>1. UNCHANGED <<jobs, deliveries, facts, network>>
    BY <1>2 DEF DecideMessage, Ledger!ReserveIngress
  <2>2. QED
    BY <2>1, QuietTurns DEF Quiet
<1>3. ASSUME NEW j \in Jobs, NEW writable \in BOOLEAN, AdmitMessage(m, j, writable)
      PROVE  Drawn' /\ Sent'
  <2>1. /\ jobs[j] = NoJob /\ UNCHANGED deliveries
        /\ jobs' = [jobs EXCEPT ![j] = Ledger!FreshRow(TRUE)]
    BY <1>3 DEF AdmitMessage, Ledger!AcceptIngress, Ledger!Exists
  <2>2. Quiet
    BY <2>1, QuietCreation DEF Whole, SInv
  <2>3. SameDrawn /\ UNCHANGED network
    BY <1>3, <2>1 DEF AdmitMessage, SameDrawn, Whole, FactsTyped
  <2>4. QED
    BY <2>2, <2>3, QuietStep
<1>4. QED
  BY <1>1, <1>2, <1>3

\* A new attempt belongs to the job that drew it; it was not executed, nor sent.
LEMMA ReserveKeeps ==
    ASSUME Whole, NEW j \in Jobs, NEW a \in Attempts, Reserve(j, a)
    PROVE  Drawn' /\ Sent'
<1>1. /\ drawn[a] = NoJob /\ drawn' = [drawn EXCEPT ![a] = j]
      /\ UNCHANGED <<about, executed, network, deliveries>>
      /\ Ledger!Append(j, "attempt_reserved", a)
  BY DEF Reserve, Ledger!ReserveAttempt
<1>2. Quiet
  BY <1>1, QuietAppend DEF Whole, SInv, DeliveryEndKinds
<1>3. /\ drawn'[a] = j /\ jobs[j] # NoJob
      /\ \A b \in Attempts : b # a => drawn'[b] = drawn[b]
  BY <1>1 DEF Whole, FactsTyped, Ledger!Append, Ledger!Exists
<1>4. Sent'
  BY <1>1, <1>2, <1>3, SentStays
<1>5. /\ \A b \in Attempts : drawn[b] # NoJob => drawn[b] \in Jobs /\ jobs[drawn[b]] # NoJob
      /\ \A b \in executed : b \in Attempts /\ b # a /\ drawn[b] # NoJob
      /\ \A b, c \in executed : drawn[b] = drawn[c] /\ about[drawn[b]].writable => b = c
  BY <1>1 DEF Whole, FactsTyped, Drawn, WritableRunsOnce
<1>6. \A b \in Attempts : drawn'[b] # NoJob => jobs'[drawn'[b]] # NoJob
  BY <1>2, <1>3, <1>5 DEF Quiet
<1>7. \A b \in executed' : drawn'[b] = drawn[b] /\ drawn'[b] # NoJob
  BY <1>1, <1>3, <1>5
<1>8. WritableRunsOnce'
  BY <1>1, <1>5, <1>7 DEF WritableRunsOnce
<1>9. QED
  BY <1>4, <1>6, <1>7, <1>8 DEF Drawn

\* The child of a job that may write is its first.
LEMMA AttachKeeps ==
    ASSUME Whole, NEW j \in Jobs, Attach(j)
    PROVE  Drawn' /\ Sent'
<1>1. /\ Turn /\ Stage(j) = "spawning" /\ executed' = executed \cup {run[j].attempt}
      /\ UNCHANGED <<about, drawn, network, deliveries>>
      /\ Ledger!Append(j, "attempt_started", run[j].attempt)
  BY DEF Attach, Ledger!AttachAttempt
<1>2. run[j].attempt \in Attempts /\ drawn[run[j].attempt] = j
  BY <1>1, InATurn DEF Stage
<1>3. Quiet
  BY <1>1, <1>2, QuietAppend DEF Whole, SInv, DeliveryEndKinds
<1>4. Sent'
  BY <1>1, <1>3, SentStays
<1>5. about[j].writable => \A a \in executed : drawn[a] # j
  BY <1>1 DEF Whole, Standing, Keeps, Stage
<1>6. /\ \A a \in Attempts : drawn[a] # NoJob => drawn[a] \in Jobs /\ jobs[drawn[a]] # NoJob
      /\ \A a \in executed : drawn[a] # NoJob
      /\ \A a, b \in executed : drawn[a] = drawn[b] /\ about[drawn[a]].writable => a = b
  BY DEF Whole, FactsTyped, Drawn, WritableRunsOnce
<1>7. \A a \in Attempts : drawn'[a] # NoJob => jobs'[drawn'[a]] # NoJob
  BY <1>1, <1>3, <1>6 DEF Quiet
<1>8. \A a, b \in executed' : drawn[a] = drawn[b] /\ about[drawn[a]].writable => a = b
  BY <1>1, <1>2, <1>5, <1>6
<1>9. j # NoJob
  BY NoJobIsNoRow
<1>10. QED
  BY <1>1, <1>2, <1>4, <1>6, <1>7, <1>8, <1>9 DEF Drawn, WritableRunsOnce

\* From the start of a run to its child.
LEMMA StartingKeeps ==
    ASSUME Whole, NEW j \in Jobs,
           \/ AbortedStart(j) \/ StartFails(j)
           \/ \E a \in Attempts : Reserve(j, a)
           \/ SpawnFails(j) \/ Attach(j)
    PROVE  Drawn' /\ Sent'
<1>1. LP!IInv
  BY DEF Whole, SInv
<1>2. CASE AbortedStart(j)
  BY <1>1, <1>2, QuietRecord, QuietTurns DEF AbortedStart
<1>3. CASE StartFails(j)
  BY <1>3, QuietCatch, QuietTurns DEF StartFails
<1>4. CASE SpawnFails(j)
  <2>1. Turn /\ Stage(j) = "spawning" /\ UNCHANGED <<facts, network>>
    BY <1>4 DEF SpawnFails
  <2>2. CASE Ledger!FailAttempt(j, run[j].attempt, TRUE)
    <3> DEFINE row == Appended(jobs[j], "failed", run[j].attempt)
    <3>1. /\ jobs \in [Jobs -> Row \cup {NoJob}] /\ jobs[j] \in Row /\ NoJob \notin Row
          /\ run[j].attempt \in Attempts
      BY <1>1, <2>1, StoreTyped, InATurn DEF Stage
    <3>2. jobs' = [jobs EXCEPT ![j] = Detached(row)] /\ UNCHANGED deliveries
      BY <2>2, SameEvent DEF Ledger!FailAttempt, Ledger!Detached, Detached
    <3>3. row \in Row
      BY <3>1, SameRow, SameEvent, LP!AppendedType, NoAttemptIsNoAttempt, NoJobIsNoRow
    <3>4. row.deliveryState = jobs[j].deliveryState
      BY DEF Appended
    <3>5. Detached(row) \in Row /\ Detached(row).deliveryState = jobs[j].deliveryState
      <4> HIDE DEF row
      <4>1. QED
        BY <3>3, <3>4 DEF Detached, Row
    <3> HIDE DEF row
    <3>6. Quiet
      BY <3>1, <3>2, <3>5 DEF Quiet
    <3>7. QED
      BY <2>1, <3>6, QuietTurns
  <2>3. CASE Catch(j)
    BY <2>1, <2>3, QuietCatch, QuietTurns
  <2>4. QED
    BY <1>4, <2>2, <2>3 DEF SpawnFails
<1>5. QED
  BY <1>2, <1>3, <1>4, ReserveKeeps, AttachKeeps

\* The child, its exit, and what is recorded of it.
LEMMA ChildKeeps ==
    ASSUME Whole, NEW j \in Jobs,
           \/ Child(j)
           \/ \E spoiled, unconfirmed \in BOOLEAN : ChildExits(j, spoiled, unconfirmed)
           \/ EndAttempt(j) \/ EndUnrecorded(j)
    PROVE  Drawn' /\ Sent'
<1>1. LP!IInv /\ RunTyped
  BY DEF Whole, SInv
<1>2. CASE Child(j)
  BY <1>2, QuietNothing, QuietTurns DEF Child, EndEarly, Output
<1>3. ASSUME NEW spoiled \in BOOLEAN, NEW unconfirmed \in BOOLEAN,
             ChildExits(j, spoiled, unconfirmed)
      PROVE  Drawn' /\ Sent'
  <2>1. /\ run[j].attempt \in Attempts /\ UNCHANGED <<facts, network>>
        /\ Ledger!RecordEvent(j, "attempt_exited", run[j].attempt)
    BY <1>1, <1>3 DEF ChildExits, Stage, RunTyped, RunsTyped
  <2>2. QED
    BY <1>1, <2>1, QuietRecord, QuietTurns
<1>4. CASE EndAttempt(j)
  <2>1. /\ run[j].attempt \in Attempts /\ UNCHANGED <<facts, network>>
        /\ Ledger!RecordEvent(j, FinalKind(run[j]), run[j].attempt)
    BY <1>1, <1>4 DEF EndAttempt, Stage, RunTyped, RunsTyped
  <2>2. QED
    BY <1>1, <2>1, QuietRecord, QuietTurns
<1>5. CASE EndUnrecorded(j)
  BY <1>5, QuietCatch, QuietTurns DEF EndUnrecorded
<1>6. QED
  BY <1>2, <1>3, <1>4, <1>5

\* What is known of the answers that left, for the steps that begin or end a send.
LEMMA SentSoFar ==
    ASSUME Whole
    PROVE  /\ \A a \in Outgoing : /\ a \in Attempts /\ drawn[a] \in Jobs /\ jobs[drawn[a]] # NoJob
                                  /\ deliveries[drawn[a]][a] # "none"
                                  /\ jobs[drawn[a]].deliveryState
                                       \in {"sending", "delivered", "unknown"}
           /\ \A j \in Jobs, a \in Attempts : deliveries[j][a] = "confirmed" => a \in posted
           /\ \A j \in Jobs : \A a, b \in Attempts :
                 deliveries[j][a] # "none" /\ deliveries[j][b] # "none" => a = b
           /\ NoJob \notin Jobs
<1>1. \A j \in Jobs : \A a, b \in Attempts :
         deliveries[j][a] # "none" /\ deliveries[j][b] # "none" => a = b
  BY DEF Whole, SInv, LP!IInv, LP!OneStory, LP!OneOf
<1>2. QED
  BY <1>1, NoJobIsNoRow DEF Whole, FactsTyped, Drawn, Sent, Outgoing

\* What a send event says of its job.
LEMMA SendStates ==
    ASSUME NEW row, NEW a
    PROVE  /\ Appended(row, "delivery_started", a).deliveryState = "sending"
           /\ Appended(row, "delivery_confirmed", a).deliveryState = "delivered"
           /\ Appended(row, "delivery_unknown", a).deliveryState = "unknown"
           /\ Appended(row, "delivery_failed", a).deliveryState = "failed"
BY DEF Appended

\* The request of a send goes out with its row, or stays here with it.
LEMMA SendKeeps ==
    ASSUME Whole, NEW j \in Jobs, run[j].attempt \in Attempts, drawn[run[j].attempt] = j,
           Send(j), UNCHANGED <<facts, posted>>
    PROVE  Drawn' /\ Sent'
<1> DEFINE a == run[j].attempt
<1>1. /\ Ledger!Append(j, "delivery_started", a) /\ deliveries[j][a] = "none"
      /\ deliveries' = [deliveries EXCEPT ![j][a] = "started"]
      /\ wire' \in {wire, wire \cup {a}}
  BY DEF Send, Ledger!StartDelivery
<1>2. /\ deliveries \in [Jobs -> [Attempts -> LP!DeliveryStatus]] /\ LP!IInv
  BY StoreTyped DEF Whole, SInv
<1>3. /\ jobs'[j] # NoJob /\ jobs'[j].deliveryState = "sending"
      /\ \A i \in Jobs : i # j => jobs'[i] = jobs[i]
  <2>1. /\ jobs'[j] # NoJob /\ jobs'[j] = Appended(jobs[j], "delivery_started", a)
        /\ \A i \in Jobs : i # j => jobs'[i] = jobs[i]
    BY <1>1, <1>2, AppendedRow
  <2>2. QED
    BY <2>1, SendStates
<1>4. /\ \A i \in Jobs, b \in Attempts :
            deliveries'[i][b] = IF i = j /\ b = a THEN "started" ELSE deliveries[i][b]
  BY <1>1, <1>2
<1>5. Drawn'
  BY <1>3, DrawnStays DEF SameDrawn, RowsStay, facts
<1> HIDE DEF a
<1>6. \A b \in Outgoing' : b \in Outgoing \/ b = a
  BY <1>1 DEF Outgoing
<1>7. ASSUME NEW b \in Outgoing'
      PROVE  /\ drawn'[b] # NoJob /\ deliveries'[drawn'[b]][b] # "none"
             /\ jobs'[drawn'[b]].deliveryState \in {"sending", "delivered", "unknown"}
  <2>1. CASE b \in Outgoing
    BY <1>3, <1>4, <2>1, SentSoFar DEF facts
  <2>2. CASE b = a
    BY <1>3, <1>4, <2>2, SentSoFar DEF facts, a
  <2>3. QED
    BY <1>6, <2>1, <2>2
<1>8. \A i \in Jobs, b \in Attempts : deliveries'[i][b] = "confirmed" => b \in posted'
  BY <1>4, SentSoFar
<1>9. QED
  BY <1>5, <1>7, <1>8 DEF Sent

\* The receipt of a send says of its job what is true of its answer.
LEMMA ReceiptKeeps ==
    ASSUME Whole, NEW j \in Jobs, NEW a \in Attempts,
           NEW receipt \in {"confirmed", "unknown", "failed"},
           Ledger!FinishDelivery(j, a, receipt), UNCHANGED <<facts, network>>,
           receipt = "confirmed" => a \in posted, receipt = "failed" => a \notin Outgoing
    PROVE  Drawn' /\ Sent'
<1>1. /\ Ledger!Append(j, Ledger!DeliveryEndKind(receipt), a) /\ deliveries[j][a] = "started"
      /\ deliveries' = [deliveries EXCEPT ![j][a] = receipt]
  BY DEF Ledger!FinishDelivery
<1>2. /\ deliveries \in [Jobs -> [Attempts -> LP!DeliveryStatus]] /\ LP!IInv
  BY StoreTyped DEF Whole, SInv
<1>3. /\ jobs'[j] # NoJob
      /\ jobs'[j].deliveryState
           = (IF receipt = "confirmed" THEN "delivered" ELSE receipt)
      /\ \A i \in Jobs : i # j => jobs'[i] = jobs[i]
  <2>1. /\ jobs'[j] # NoJob
        /\ jobs'[j] = Appended(jobs[j], Ledger!DeliveryEndKind(receipt), a)
        /\ \A i \in Jobs : i # j => jobs'[i] = jobs[i]
    BY <1>1, <1>2, AppendedRow
  <2>2. QED
    BY <2>1, SendStates DEF Ledger!DeliveryEndKind
<1>4. \A i \in Jobs, b \in Attempts :
         deliveries'[i][b] = IF i = j /\ b = a THEN receipt ELSE deliveries[i][b]
  BY <1>1, <1>2
<1>5. Drawn'
  BY <1>3, DrawnStays DEF SameDrawn, RowsStay, facts
<1>6. Outgoing' = Outgoing /\ posted' = posted /\ drawn' = drawn
  BY DEF Outgoing, network, facts
<1>7. ASSUME NEW b \in Outgoing
      PROVE  /\ drawn[b] # NoJob /\ deliveries'[drawn[b]][b] # "none"
             /\ jobs'[drawn[b]].deliveryState \in {"sending", "delivered", "unknown"}
  <2>1. /\ b \in Attempts /\ drawn[b] \in Jobs /\ drawn[b] # NoJob
        /\ deliveries[drawn[b]][b] # "none"
        /\ jobs[drawn[b]].deliveryState \in {"sending", "delivered", "unknown"}
        /\ drawn[b] = j => a = b
    BY <1>1, SentSoFar
  <2>2. deliveries'[drawn[b]][b] # "none"
    BY <1>4, <2>1
  <2>3. jobs'[drawn[b]].deliveryState \in {"sending", "delivered", "unknown"}
    BY <1>3, <2>1
  <2>4. QED
    BY <2>1, <2>2, <2>3
<1>8. \A i \in Jobs, b \in Attempts : deliveries'[i][b] = "confirmed" => b \in posted
  BY <1>4, SentSoFar
<1>9. QED
  BY <1>5, <1>6, <1>7, <1>8 DEF Sent

\* The answer, its receipt, and the notice of a failure.
LEMMA AnswerKeeps ==
    ASSUME Whole, NEW j \in Jobs,
           \/ Deliver(j) \/ AskDirectMessage(j) \/ NoResult(j)
           \/ \E receipt \in {"confirmed", "failed", "unknown"} :
                SendEnds(j, receipt) \/ SendEndsUnstored(j, receipt)
           \/ ReportEnds(j)
    PROVE  Drawn' /\ Sent'
<1>1. CASE Deliver(j)
  <2>1. UNCHANGED <<facts, posted>> /\ run[j].attempt \in Attempts /\ drawn[run[j].attempt] = j
    <3>1. \/ Turn /\ Stage(j) = "dm"
          \/ Stage(j) = "answering"
      BY <1>1 DEF Deliver
    <3>2. run[j].attempt \in Attempts /\ drawn[run[j].attempt] = j
      BY <3>1, InATurn DEF Stage
    <3>3. QED
      BY <1>1, <3>2 DEF Deliver
  <2>2. CASE Send(j)
    BY <2>1, <2>2, SendKeeps
  <2>3. CASE Catch(j) /\ UNCHANGED wire
    BY <2>1, <2>3, QuietCatch, QuietTurns DEF network
  <2>4. QED
    BY <1>1, <2>2, <2>3 DEF Deliver
<1>2. CASE AskDirectMessage(j) \/ ReportEnds(j)
  BY <1>2, QuietNothing, QuietTurns DEF AskDirectMessage, ReportEnds
<1>3. CASE NoResult(j)
  BY <1>3, QuietCatch, QuietTurns DEF NoResult
<1>4. ASSUME NEW receipt \in {"confirmed", "failed", "unknown"},
             SendEnds(j, receipt) \/ SendEndsUnstored(j, receipt)
      PROVE  Drawn' /\ Sent'
  <2>1. /\ UNCHANGED <<facts, network>> /\ receipt \in Receipts(j)
        /\ Turn /\ Stage(j) \in {"sending", "unsent"}
    BY <1>4 DEF SendEnds, SendEndsUnstored
  <2>2. /\ run[j].attempt \in Attempts
        /\ receipt = "confirmed" => run[j].attempt \in posted
        /\ receipt = "failed" => run[j].attempt \notin Outgoing
    BY <2>1, InATurn DEF Receipts, Stage, Outgoing
  <2>3. CASE Ledger!FinishDelivery(j, run[j].attempt, receipt)
    BY <2>1, <2>2, <2>3, ReceiptKeeps
  <2>4. CASE Ledger!FinishDelivery(j, run[j].attempt, "unknown")
    BY <2>1, <2>2, <2>4, ReceiptKeeps
  <2>5. CASE UNCHANGED store
    BY <2>1, <2>5, QuietNothing, QuietTurns
  <2>6. CASE Catch(j)
    BY <2>1, <2>6, QuietCatch, QuietTurns
  <2>7. QED
    BY <1>4, <2>3, <2>4, <2>5, <2>6 DEF SendEnds, SendEndsUnstored
<1>5. QED
  BY <1>1, <1>2, <1>3, <1>4

\* What Discord takes was sent before.
LEMMA NetworkKeeps ==
    ASSUME Whole, NEW a \in Attempts, Arrives(a) \/ IsLost(a)
    PROVE  Drawn' /\ Sent'
<1>1. UNCHANGED <<jobs, deliveries, about, drawn, executed>>
  BY DEF Arrives, IsLost, store, facts
<1>2. /\ Outgoing' \subseteq Outgoing /\ posted \subseteq posted'
  BY DEF Arrives, IsLost, Outgoing
<1>3. Drawn'
  BY <1>1 DEF Whole, Drawn, WritableRunsOnce
<1>4. QED
  BY <1>1, <1>2, <1>3 DEF Whole, Sent

\* Operators and the watchdog send and execute nothing.
LEMMA ControlKeeps ==
    ASSUME Whole, Control
    PROVE  Drawn' /\ Sent'
<1>1. LP!IInv /\ NoAttempt \in Attempts \cup {NoAttempt}
  BY DEF Whole, SInv
<1>2. ASSUME NEW j \in Jobs, CancelQueued(j) \/ CancelActive(j) \/ Watchdog(j)
      PROVE  Drawn' /\ Sent'
  <2>1. UNCHANGED <<facts, network>>
    BY <1>2 DEF CancelQueued, CancelActive, Watchdog, ControlOnly, facts
  <2>2. CASE UNCHANGED store
    BY <2>1, <2>2, QuietNothing, QuietTurns
  <2>3. CASE Ledger!RecordEvent(j, "cancelled", NoAttempt)
    BY <1>1, <2>1, <2>3, QuietRecord, QuietTurns
  <2>4. CASE Ledger!RecordEvent(j, "failed", jobs[j].attempt)
    <3>1. Ledger!Exists(j)
      BY <2>4 DEF Ledger!RecordEvent, Ledger!Append
    <3>2. QED
      BY <1>1, <2>1, <2>4, <3>1, AttemptOfRow, QuietRecord, QuietTurns
  <2>5. QED
    BY <1>2, <2>2, <2>3, <2>4 DEF CancelQueued, CancelActive, Watchdog
<1>3. ASSUME NEW j \in Jobs, NEW r \in Jobs, NEW writable \in BOOLEAN,
             Replace(j, r, writable)
      PROVE  Drawn' /\ Sent'
  <2>1. /\ jobs[r] = NoJob /\ UNCHANGED deliveries
        /\ jobs' = [jobs EXCEPT ![r] = Ledger!FreshRow(TRUE)]
    BY <1>3 DEF Replace, Ledger!CreateJob, Ledger!Exists
  <2>2. Quiet
    BY <1>1, <2>1, QuietCreation
  <2>3. SameDrawn /\ UNCHANGED network
    BY <1>3, <2>1 DEF Replace, ControlOnly, SameDrawn, Whole, FactsTyped
  <2>4. QED
    BY <2>2, <2>3, QuietStep
<1>4. ASSUME NEW old \in Jobs, NEW new \in Jobs, FinishReplace(old, new)
      PROVE  Drawn' /\ Sent'
  <2>1. UNCHANGED <<facts, network>>
    BY <1>4 DEF FinishReplace, ControlOnly, facts
  <2>2. CASE UNCHANGED store
    BY <2>1, <2>2, QuietNothing, QuietTurns
  <2>3. CASE Ledger!RecordEvent(old, "cancelled", NoAttempt)
    BY <1>1, <2>1, <2>3, QuietRecord, QuietTurns
  <2>4. CASE Ledger!DeleteRecovery(old)
    <3>1. /\ jobs \in [Jobs -> Row \cup {NoJob}] /\ jobs[old] \in Row /\ NoJob \notin Row
          /\ jobs' = [jobs EXCEPT ![old] = [jobs[old] EXCEPT !.envelope = FALSE]]
          /\ UNCHANGED deliveries
      BY <1>1, <2>4, StoreTyped DEF Ledger!DeleteRecovery, Ledger!Exists
    <3>2. /\ [jobs[old] EXCEPT !.envelope = FALSE] \in Row
          /\ [jobs[old] EXCEPT !.envelope = FALSE].deliveryState = jobs[old].deliveryState
      BY <3>1 DEF Row
    <3>3. Quiet
      BY <3>1, <3>2 DEF Quiet
    <3>4. QED
      BY <2>1, <3>3, QuietTurns
  <2>5. QED
    BY <1>4, <2>2, <2>3, <2>4 DEF FinishReplace
<1>5. QED
  BY <1>2, <1>3, <1>4 DEF Control

\* Recovery says of an interrupted send that its end is unknown.
LEMMA StartKeeps ==
    ASSUME Whole, Start
    PROVE  Drawn' /\ Sent'
<1>1. LP!IInv /\ Ledger!RecoverInterruptedWork /\ UNCHANGED <<about, drawn, executed, wire, posted>>
  BY DEF Start, Whole, SInv, facts, network
<1>2. \A j \in Jobs :
        /\ jobs[j] # NoJob => /\ jobs'[j] # NoJob
                              /\ jobs'[j].deliveryState \in {jobs[j].deliveryState, "unknown"}
        /\ \A a \in Attempts : deliveries'[j][a] = deliveries[j][a]
                                 \/ (deliveries[j][a] = "started" /\ deliveries'[j][a] = "unknown")
  BY <1>1, RecoveredJob
<1>3. Drawn'
  BY <1>1, <1>2, DrawnStays DEF SameDrawn, RowsStay
<1>4. QED
  BY <1>1, <1>2, <1>3, SentSoFar DEF Sent, Outgoing

\* Nor does a shutdown, a crash or a start.
LEMMA LifeKeeps ==
    ASSUME Whole,
           Shutdown \/ Stopping \/ Crash \/ Start \/ \E j \in Jobs : ResumeOne(j)
    PROVE  Drawn' /\ Sent'
<1>1. LP!IInv /\ NoAttempt \in Attempts \cup {NoAttempt}
  BY DEF Whole, SInv
<1>2. CASE Shutdown \/ IdleReached \/ Gone
  BY <1>2, QuietNothing, QuietTurns DEF Shutdown, IdleReached, Gone
<1>3. ASSUME NEW j \in Jobs, FlushQueue(j)
      PROVE  Drawn' /\ Sent'
  BY <1>1, <1>3, QuietNothing, QuietRecord, QuietTurns DEF FlushQueue
<1>4. ASSUME NEW j \in Jobs, ResumeOne(j)
      PROVE  Drawn' /\ Sent'
  <2>1. UNCHANGED <<facts, network>> /\ (UNCHANGED store \/ Ledger!ParkRecovered(j))
    BY <1>4 DEF ResumeOne
  <2>2. CASE UNCHANGED store
    BY <2>1, <2>2, QuietNothing, QuietTurns
  <2>3. CASE Ledger!ParkRecovered(j)
    <3>1. Ledger!Append(j, "recovery_review_required", NoAttempt) /\ UNCHANGED deliveries
      BY <2>3 DEF Ledger!ParkRecovered
    <3>2. Quiet
      BY <1>1, <3>1, QuietAppend DEF DeliveryEndKinds
    <3>3. QED
      BY <2>1, <3>2, QuietTurns
  <2>4. QED
    BY <2>1, <2>2, <2>3
<1>5. QED
  BY <1>2, <1>3, <1>4, StartKeeps DEF Stopping, Close, Crash

\* No step of the service breaks Drawn or Sent.
LEMMA NextKeeps ==
    ASSUME Whole, [Next]_vars
    PROVE  Drawn' /\ Sent'
<1>1. CASE UNCHANGED vars
  BY <1>1, QuietNothing, QuietTurns DEF vars
<1>2. ASSUME NEW j \in Jobs, RunStep(j)
      PROVE  Drawn' /\ Sent'
  BY <1>2, StartingKeeps, ChildKeeps, AnswerKeeps DEF RunStep
<1>3. CASE Next
  BY <1>2, <1>3, AdmissionKeeps, ChildKeeps, NetworkKeeps, ControlKeeps, LifeKeeps DEF Next
<1>4. QED
  BY <1>1, <1>3

--------------------------------------------------------------------------------
(* The types of what is not a run, a row or the queue *)

\* Admission.
LEMMA AdmissionTyped ==
    ASSUME FactsTyped, Admission
    PROVE  FactsTyped'
<1>1. ASSUME NEW m \in Messages,
             \/ BeginDispatch(m) \/ DropDuplicate(m)
             \/ \E decision \in {"rejected", "handled"} : DecideMessage(m, decision)
      PROVE  FactsTyped'
  BY <1>1 DEF FactsTyped, BeginDispatch, DropDuplicate, DecideMessage, Dispatching, facts, network
<1>2. ASSUME NEW m \in Messages, NEW j \in Jobs, NEW writable \in BOOLEAN,
             AdmitMessage(m, j, writable)
      PROVE  FactsTyped'
  BY <1>2 DEF FactsTyped, AdmitMessage, Dispatching, network
<1>3. QED
  BY <1>1, <1>2 DEF Admission

\* The turns of a run and of its child.
LEMMA RunTurnsTyped ==
    ASSUME FactsTyped, RunTyped, NEW j \in Jobs, RunStep(j) \/ Child(j)
    PROVE  FactsTyped'
<1>1. RunOnly
  BY DEF RunStep, Child, AbortedStart, StartFails, Reserve, SpawnFails, Attach, ChildExits,
         EndAttempt, EndUnrecorded, Deliver, AskDirectMessage, NoResult, SendEnds,
         SendEndsUnstored, ReportEnds, Output, EndEarly
<1>2. about' = about
  BY DEF RunStep, Child, AbortedStart, StartFails, Reserve, SpawnFails, Attach, ChildExits,
         EndAttempt, EndUnrecorded, Deliver, AskDirectMessage, NoResult, SendEnds,
         SendEndsUnstored, ReportEnds, Output, EndEarly, facts
<1>3. drawn' \in [Attempts -> Jobs \cup {NoJob}]
  <2>1. drawn' = drawn \/ \E a \in Attempts : drawn' = [drawn EXCEPT ![a] = j]
    BY DEF RunStep, Child, AbortedStart, StartFails, Reserve, SpawnFails, Attach, ChildExits,
           EndAttempt, EndUnrecorded, Deliver, AskDirectMessage, NoResult, SendEnds,
           SendEndsUnstored, ReportEnds, Output, EndEarly, facts
  <2>2. QED
    BY <2>1 DEF FactsTyped
<1>4. executed' \subseteq Attempts
  <2>1. CASE Attach(j)
    BY <2>1 DEF Attach, Stage, FactsTyped, RunTyped, RunsTyped
  <2>2. CASE ~Attach(j)
    <3>1. executed' = executed
      BY <2>2 DEF RunStep, Child, AbortedStart, StartFails, Reserve, SpawnFails, ChildExits,
           EndAttempt, EndUnrecorded, Deliver, AskDirectMessage, NoResult, SendEnds,
           SendEndsUnstored, ReportEnds, Output, EndEarly, facts
    <3>2. QED
      BY <3>1 DEF FactsTyped
  <2>3. QED
    BY <2>1, <2>2
<1>5. wire' \subseteq Attempts /\ posted' = posted
  <2>1. CASE Deliver(j)
    <3>1. run[j].attempt \in Attempts
      BY <2>1 DEF Deliver, Stage, RunTyped, RunsTyped
    <3>2. wire' \in {wire, wire \cup {run[j].attempt}} /\ posted' = posted
      BY <2>1 DEF Deliver, Send
    <3>3. QED
      BY <3>1, <3>2 DEF FactsTyped
  <2>2. CASE ~Deliver(j)
    <3>1. wire' = wire /\ posted' = posted
      BY <2>2 DEF RunStep, Child, AbortedStart, StartFails, Reserve, SpawnFails, Attach, ChildExits,
           EndAttempt, EndUnrecorded, AskDirectMessage, NoResult, SendEnds,
           SendEndsUnstored, ReportEnds, Output, EndEarly, network
    <3>2. QED
      BY <3>1 DEF FactsTyped
  <2>3. QED
    BY <2>1, <2>2
<1>6. QED
  BY <1>1, <1>2, <1>3, <1>4, <1>5 DEF FactsTyped, RunOnly

\* Every step.
LEMMA NextTyped ==
    ASSUME FactsTyped, RunTyped, [Next]_vars
    PROVE  FactsTyped'
<1>1. CASE UNCHANGED vars
  BY <1>1 DEF FactsTyped, vars, facts, network, process
<1>2. ASSUME NEW a \in Attempts, Arrives(a) \/ IsLost(a)
      PROVE  FactsTyped'
  BY <1>2 DEF FactsTyped, Arrives, IsLost, facts, process
<1>3. ASSUME NEW j \in Jobs, CancelQueued(j) \/ CancelActive(j) \/ Watchdog(j)
      PROVE  FactsTyped'
  BY <1>3 DEF FactsTyped, CancelQueued, CancelActive, Watchdog, ControlOnly, network
<1>4. ASSUME NEW j \in Jobs, NEW r \in Jobs, NEW writable \in BOOLEAN, Replace(j, r, writable)
      PROVE  FactsTyped'
  BY <1>4 DEF FactsTyped, Replace, ControlOnly, network
<1>5. ASSUME NEW old \in Jobs, NEW new \in Jobs, FinishReplace(old, new)
      PROVE  FactsTyped'
  BY <1>5 DEF FactsTyped, FinishReplace, ControlOnly, network
<1>6. ASSUME Shutdown \/ (\E j \in Jobs : FlushQueue(j)) \/ IdleReached \/ Gone
      PROVE  FactsTyped'
  BY <1>6 DEF FactsTyped, Shutdown, FlushQueue, IdleReached, Gone, facts, network, Statuses
<1>7. CASE Start
  <2>1. starts \in 0..MaxStarts /\ starts < MaxStarts /\ starts' = starts + 1
    BY <1>7 DEF Start, FactsTyped
  <2>2. starts' \in 0..MaxStarts
    BY <2>1, LimitsArePositive
  <2>3. QED
    BY <1>7, <2>2 DEF FactsTyped, Start, facts, network, Statuses
<1>8. ASSUME NEW j \in Jobs, ResumeOne(j)
      PROVE  FactsTyped'
  BY <1>8 DEF FactsTyped, ResumeOne, facts, network, Statuses
<1>9. CASE Next
  BY <1>2, <1>3, <1>4, <1>5, <1>6, <1>7, <1>8, <1>9, AdmissionTyped, RunTurnsTyped
     DEF Next, Control, Stopping, Close, Crash
<1>10. QED
  BY <1>1, <1>9

--------------------------------------------------------------------------------
(* The invariant *)

\* The invariant holds when the service was never started, ...
LEMMA InitWhole == Init => Whole
<1> SUFFICES ASSUME Init PROVE Whole
  OBVIOUS
<1>1. SInv
  BY InitSteps
<1>2. FactsTyped
  BY LimitsArePositive DEF Init, FactsTyped, Statuses
<1>3. /\ \A j \in Jobs : jobs[j] = NoJob /\ about[j].writable = FALSE
      /\ \A j \in Jobs : run[j] = Idle
      /\ \A a \in Attempts : drawn[a] = NoJob
      /\ \A j \in Jobs, a \in Attempts : deliveries[j][a] = "none"
      /\ executed = {} /\ wire = {} /\ posted = {}
      /\ status = "down" /\ queue = <<>> /\ replacing = <<>> /\ toResume = {}
  BY DEF Init, Ledger!Init
<1>4. Lined(queue) /\ \A j : ~In(queue, j)
  BY <1>3, EmptyIsLined
<1>5. Serial(run)
  <2>1. Active(run) = {}
    BY <1>3, IdleTyped DEF Active
  <2>2. IsFiniteSet({}) /\ Cardinality({}) = 0
    BY FS_EmptySet
  <2>3. QED
    BY <2>1, <2>2, LimitsArePositive DEF Serial
<1>6. Idle.stage = "idle" /\ Idle.abort = "none" /\ Idle.term = "none"
  BY DEF Idle
<1>7. ASSUME NEW j \in Jobs PROVE Keeps(queue, run[j], j)
  <2>1. ~Waits(queue, j)
    BY <1>3, <1>4 DEF Waits, Replaces
  <2>2. QED
    BY <1>3, <1>4, <1>6, <2>1 DEF Keeps, Fits, Timely, Replaces
<1>8. Standing(queue, run)
  BY <1>3, <1>4, <1>5, <1>7 DEF Standing, Between, Lined
<1>9. Drawn /\ Sent
  BY <1>3 DEF Drawn, WritableRunsOnce, Sent, Outgoing
<1>10. QED
  BY <1>1, <1>2, <1>8, <1>9 DEF Whole

\* ... every step keeps it, ...
LEMMA NextWhole == Whole /\ [Next]_vars => Whole'
<1> SUFFICES ASSUME Whole, [Next]_vars PROVE Whole'
  OBVIOUS
<1>1. SInv /\ FactsTyped /\ RunTyped
  BY DEF Whole, SInv
<1>2. SInv'
  BY <1>1, NextSteps
<1>3. FactsTyped'
  BY <1>1, NextTyped
<1>4. QED
  BY <1>2, <1>3, NextStands, NextKeeps DEF Whole

\* ... so it holds of every behaviour.
LEMMA AlwaysWhole == Spec => []Whole
BY InitWhole, NextWhole, PTL DEF Spec

--------------------------------------------------------------------------------
(* Which attempts come to the send of an answer *)

\* The run that has gone on to its answer: its backend reported success, and if it
\* did not end by itself, the row says so, and takes no delivery_started.
AnswerOf(row, r) ==
    r.stage \in {"answering", "dm"} =>
        /\ r.outcome = "success"
        /\ r.term # "none" => row.lifecycle \in {"queued", "failed", "cancelled"}

Earned == \A j \in Jobs : AnswerOf(jobs[j], run[j])

\* A step that brings no run to its answer, and leaves those that are there alone.
Elsewhere(j) ==
    run'[j].stage \in {"answering", "dm"} =>
        /\ run[j].stage \in {"answering", "dm"}
        /\ run'[j].outcome = run[j].outcome /\ run'[j].term = run[j].term
        /\ jobs'[j].lifecycle = jobs[j].lifecycle

LEMMA ElsewhereKeeps ==
    ASSUME Earned, NEW j \in Jobs, Elsewhere(j)
    PROVE  AnswerOf(jobs[j], run[j])'
BY DEF Earned, AnswerOf, Elsewhere

LEMMA UntouchedIsElsewhere ==
    ASSUME NEW j \in Jobs, run'[j] = run[j] \/ run'[j] = Starting \/ run'[j] = Idle,
           jobs'[j].lifecycle = jobs[j].lifecycle \/ run[j].stage \notin {"answering", "dm"}
    PROVE  Elsewhere(j)
BY DEF Elsewhere, Starting, Idle

\* An abort is noted in a run; only of a child does it become the reason of its end.
LEMMA AbortIsElsewhere ==
    ASSUME RunTyped, NEW j \in Jobs, NEW why, run'[j] = Aborted(run[j], why),
           jobs'[j] = jobs[j]
    PROVE  Elsewhere(j)
<1>1. run[j] \in RunState
  BY DEF RunTyped, RunsTyped
<1>2. CASE run[j].stage \in {"answering", "dm"}
  <2>1. CASE run[j].abort # "none"
    BY <2>1, <1>2 DEF Aborted, Elsewhere
  <2>2. CASE run[j].abort = "none"
    <3>1. run'[j] = [run[j] EXCEPT !.abort = why, !.term = run[j].term]
      BY <1>1, <1>2, <2>2 DEF Aborted, RunState
    <3>2. QED
      BY <1>1, <1>2, <3>1 DEF Elsewhere, RunState
  <2>3. QED
    BY <2>1, <2>2
<1>3. CASE run[j].stage \notin {"answering", "dm"}
  <2>1. run'[j].stage = run[j].stage
    BY <1>1 DEF Aborted, RunState
  <2>2. QED
    BY <1>3, <2>1 DEF Elsewhere
<1>4. QED
  BY <1>2, <1>3

\* #drain starts runs, and leaves the others.
LEMMA DrainLeaves ==
    ASSUME NEW q, NEW r, Drain(q, r), NEW j \in Jobs
    PROVE  run'[j] = Starting \/ run'[j] = r[j]
BY DEF Drain

\* What one turn of a run does to its own run, and that it leaves the others.
OneTurn(j) ==
    /\ run'[j].stage \notin {"answering", "dm"} \/ EndAttempt(j) \/ AskDirectMessage(j)
    /\ \A i \in Jobs : i # j => Elsewhere(i)

\* One run changes, and one row at most.
LEMMA ChangeIsOneTurn ==
    ASSUME RunTyped, NEW j \in Jobs, NEW r, run' = [run EXCEPT ![j] = r],
           r.stage \notin {"answering", "dm"} \/ EndAttempt(j) \/ AskDirectMessage(j),
           \A i \in Jobs : i # j => jobs'[i] = jobs[i]
    PROVE  OneTurn(j)
<1>1. run'[j] = r /\ \A i \in Jobs : i # j => run'[i] = run[i]
  BY DEF RunTyped, RunsTyped
<1>2. QED
  BY <1>1, UntouchedIsElsewhere DEF OneTurn

LEMMA EndIsOneTurn ==
    ASSUME RunTyped, NEW j \in Jobs, EndRun(j),
           \A i \in Jobs : i # j => jobs'[i] = jobs[i]
    PROVE  OneTurn(j)
<1>1. PICK q, r : q = queue /\ r = [run EXCEPT ![j] = Idle] /\ Drain(q, r)
  BY DEF EndRun
<1>2. r[j] = Idle /\ \A i \in Jobs : i # j => r[i] = run[i]
  BY <1>1 DEF RunTyped, RunsTyped
<1>3. run'[j] = Starting \/ run'[j] = Idle
  BY <1>1, <1>2, DrainLeaves
<1>4. \A i \in Jobs : i # j => Elsewhere(i)
  BY <1>1, <1>2, DrainLeaves, UntouchedIsElsewhere
<1>5. QED
  BY <1>3, <1>4 DEF OneTurn, Starting, Idle

LEMMA ToIsOneTurn ==
    ASSUME RunTyped, NEW j \in Jobs, NEW stage, To(j, stage),
           stage \notin {"answering", "dm"} \/ EndAttempt(j) \/ AskDirectMessage(j),
           \A i \in Jobs : i # j => jobs'[i] = jobs[i]
    PROVE  OneTurn(j)
<1>1. PICK r : r = [run[j] EXCEPT !.stage = stage]
  OBVIOUS
<1>2. run' = [run EXCEPT ![j] = r] /\ r.stage = stage
  BY <1>1 DEF To, RunTyped, RunsTyped, RunState
<1>3. QED
  BY <1>2, ChangeIsOneTurn

LEMMA ReportIsOneTurn ==
    ASSUME RunTyped, NEW j \in Jobs, Report(j),
           \A i \in Jobs : i # j => jobs'[i] = jobs[i]
    PROVE  OneTurn(j)
BY ToIsOneTurn, EndIsOneTurn DEF Report

\* An event is about one row.
LEMMA AppendIsApart ==
    ASSUME LP!IInv, NEW j \in Jobs, NEW kind, NEW a, Ledger!Append(j, kind, a)
    PROVE  \A i \in Jobs : i # j => jobs'[i] = jobs[i]
BY StoreTyped DEF Ledger!Append

LEMMA CatchIsOneTurn ==
    ASSUME Whole, NEW j \in Jobs, Catch(j)
    PROVE  OneTurn(j)
<1>1. RunTyped /\ LP!IInv
  BY DEF Whole, SInv
<1>2. \A i \in Jobs : i # j => jobs'[i] = jobs[i]
  BY <1>1, AppendIsApart DEF Catch, Ledger!RecordEvent, store
<1>3. QED
  BY <1>1, <1>2, ReportIsOneTurn DEF Catch

\* The turns of a run, one after the other.
LEMMA TurnsAreOneTurn ==
    ASSUME Whole, NEW j \in Jobs, RunStep(j) \/ Child(j)
    PROVE  OneTurn(j)
<1>1. RunTyped /\ LP!IInv /\ run[j] \in RunState
  BY DEF Whole, SInv, RunTyped, RunsTyped
<1>2. CASE AbortedStart(j)
  BY <1>1, <1>2, EndIsOneTurn, AppendIsApart DEF AbortedStart, Ledger!RecordEvent
<1>3. CASE StartFails(j) \/ EndUnrecorded(j) \/ NoResult(j)
  BY <1>3, CatchIsOneTurn DEF StartFails, EndUnrecorded, NoResult
<1>4. ASSUME NEW a \in Attempts, Reserve(j, a) PROVE OneTurn(j)
  <2>1. PICK r : r = [run[j] EXCEPT !.stage = "spawning", !.attempt = a]
    OBVIOUS
  <2>2. r.stage = "spawning" /\ run' = [run EXCEPT ![j] = r]
    BY <1>1, <1>4, <2>1 DEF Reserve, RunState, RunTyped, RunsTyped
  <2>3. \A i \in Jobs : i # j => jobs'[i] = jobs[i]
    BY <1>1, <1>4, AppendIsApart DEF Reserve, Ledger!ReserveAttempt
  <2>4. QED
    BY <1>1, <2>2, <2>3, ChangeIsOneTurn
<1>5. CASE SpawnFails(j)
  <2>1. CASE Catch(j)
    BY <2>1, CatchIsOneTurn
  <2>2. CASE Ledger!FailAttempt(j, run[j].attempt, TRUE) /\ Report(j)
    <3>1. \A i \in Jobs : i # j => jobs'[i] = jobs[i]
      BY <1>1, <2>2, StoreTyped DEF Ledger!FailAttempt
    <3>2. QED
      BY <1>1, <2>2, <3>1, ReportIsOneTurn
  <2>3. QED
    BY <1>5, <2>1, <2>2 DEF SpawnFails
<1>6. CASE Attach(j)
  <2>1. PICK r : r = [run[j] EXCEPT !.stage = "child", !.abort = "none"]
    OBVIOUS
  <2>2. PICK s : s = (IF run[j].abort = "none" THEN r ELSE Aborted(r, run[j].abort))
    OBVIOUS
  <2>3. run' = [run EXCEPT ![j] = s]
    BY <1>1, <1>6, <2>1, <2>2 DEF Attach, RunTyped, RunsTyped
  <2>4. r \in RunState /\ r.stage = "child"
    BY <1>1, <2>1 DEF RunState, Stages
  <2>5. s.stage = "child"
    BY <1>1, <2>2, <2>4, AbortedTyped DEF RunState
  <2>6. \A i \in Jobs : i # j => jobs'[i] = jobs[i]
    BY <1>1, <1>6, AppendIsApart DEF Attach, Ledger!AttachAttempt
  <2>7. QED
    BY <1>1, <2>3, <2>5, <2>6, ChangeIsOneTurn
<1>7. CASE Child(j)
  <2>1. /\ Stage(j) = "child" /\ UNCHANGED store
        /\ \/ run' = [run EXCEPT ![j].term = "failed"]
           \/ \E outcome : run' = [run EXCEPT ![j].outcome = outcome]
    BY <1>7 DEF Child, EndEarly, Output
  <2>2. PICK r : run' = [run EXCEPT ![j] = r] /\ r.stage = "child"
    BY <1>1, <2>1 DEF Stage, RunTyped, RunsTyped, RunState
  <2>3. QED
    BY <1>1, <2>1, <2>2, ChangeIsOneTurn DEF store
<1>8. ASSUME NEW spoiled \in BOOLEAN, NEW unconfirmed \in BOOLEAN,
             ChildExits(j, spoiled, unconfirmed)
      PROVE  OneTurn(j)
  <2>1. PICK term, outcome :
           run' = [run EXCEPT ![j] =
                     [run[j] EXCEPT !.stage = "exited", !.term = term, !.outcome = outcome]]
    BY <1>1, <1>8 DEF ChildExits, RunTyped, RunsTyped
  <2>2. PICK r : r = [run[j] EXCEPT !.stage = "exited", !.term = term, !.outcome = outcome]
    OBVIOUS
  <2>3. run' = [run EXCEPT ![j] = r] /\ r.stage = "exited"
    BY <1>1, <2>1, <2>2 DEF RunState
  <2>4. \A i \in Jobs : i # j => jobs'[i] = jobs[i]
    BY <1>1, <1>8, AppendIsApart DEF ChildExits, Ledger!RecordEvent
  <2>5. QED
    BY <1>1, <2>3, <2>4, ChangeIsOneTurn
<1>9. CASE EndAttempt(j)
  <2>1. \A i \in Jobs : i # j => jobs'[i] = jobs[i]
    BY <1>1, <1>9, AppendIsApart DEF EndAttempt, Ledger!RecordEvent
  <2>2. To(j, "answering") \/ Report(j)
    BY <1>9 DEF EndAttempt
  <2>3. QED
    BY <1>1, <1>9, <2>1, <2>2, ToIsOneTurn, ReportIsOneTurn
<1>10. CASE Deliver(j)
  <2>1. CASE Catch(j)
    BY <2>1, CatchIsOneTurn
  <2>2. CASE Send(j)
    <3>1. \A i \in Jobs : i # j => jobs'[i] = jobs[i]
      BY <1>1, <2>2, AppendIsApart DEF Send, Ledger!StartDelivery
    <3>2. QED
      BY <1>1, <2>2, <3>1, ToIsOneTurn DEF Send
  <2>3. QED
    BY <1>10, <2>1, <2>2 DEF Deliver
<1>11. CASE AskDirectMessage(j)
  BY <1>1, <1>11, ToIsOneTurn DEF AskDirectMessage, store
<1>12. ASSUME NEW receipt, SendEnds(j, receipt) \/ SendEndsUnstored(j, receipt)
       PROVE  OneTurn(j)
  <2>1. CASE Catch(j)
    BY <2>1, CatchIsOneTurn
  <2>2. CASE EndRun(j) /\ (UNCHANGED store \/ \E s : Ledger!FinishDelivery(j, run[j].attempt, s))
    <3>1. \A i \in Jobs : i # j => jobs'[i] = jobs[i]
      BY <1>1, <2>2, AppendIsApart DEF Ledger!FinishDelivery, store
    <3>2. QED
      BY <1>1, <2>2, <3>1, EndIsOneTurn
  <2>3. QED
    BY <1>12, <2>1, <2>2 DEF SendEnds, SendEndsUnstored
<1>13. CASE ReportEnds(j)
  BY <1>1, <1>13, EndIsOneTurn DEF ReportEnds, store
<1>14. QED
  BY <1>2, <1>3, <1>4, <1>5, <1>6, <1>7, <1>8, <1>9, <1>10, <1>11, <1>12, <1>13
     DEF RunStep

\* The end of an attempt writes down why it ended before the router looks at what
\* its backend said.
LEMMA EndIsWrittenDown ==
    ASSUME Whole, NEW j \in Jobs, EndAttempt(j)
    PROVE  AnswerOf(jobs[j], run[j])'
<1>1. /\ RunTyped /\ LP!IInv /\ run[j] \in RunState /\ run[j].attempt \in Attempts
      /\ Stage(j) = "exited"
      /\ Ledger!RecordEvent(j, FinalKind(run[j]), run[j].attempt)
  BY DEF EndAttempt, Stage, Whole, SInv, RunTyped, RunsTyped
<1>2. jobs'[j].lifecycle = TransitionFor(FinalKind(run[j]), jobs[j].lifecycle)
  BY <1>1, RecordedRow
<1>3. CASE run[j].outcome = "success"
  <2>1. /\ run'[j].outcome = "success" /\ run'[j].term = run[j].term
    BY <1>1, <1>3 DEF EndAttempt, To, RunTyped, RunsTyped, RunState
  <2>2. run[j].term # "none" => FinalKind(run[j]) \in {"cancelled", "recovered", "failed"}
    BY <1>1 DEF FinalKind, RunState
  <2>3. run[j].term # "none" => jobs'[j].lifecycle \in {"queued", "failed", "cancelled"}
    BY <1>2, <2>2, EndingKinds
  <2>4. QED
    BY <2>1, <2>3 DEF AnswerOf
<1>4. CASE run[j].outcome # "success"
  <2>1. Report(j)
    BY <1>4 DEF EndAttempt
  <2>2. run'[j].stage \in {"reporting", "idle", "starting"}
    <3>1. CASE To(j, "reporting")
      BY <1>1, <3>1 DEF To, RunTyped, RunsTyped, RunState
    <3>2. CASE EndRun(j)
      <4>1. PICK q, r : q = queue /\ r = [run EXCEPT ![j] = Idle] /\ Drain(q, r)
        BY <3>2 DEF EndRun
      <4>2. r[j] = Idle
        BY <1>1, <4>1 DEF RunTyped, RunsTyped
      <4>3. run'[j] = Starting \/ run'[j] = Idle
        BY <4>1, <4>2, DrainLeaves
      <4>4. Starting.stage = "starting" /\ Idle.stage = "idle"
        BY DEF Starting, Idle
      <4>5. QED
        BY <4>3, <4>4
    <3>3. QED
      BY <2>1, <3>1, <3>2 DEF Report
  <2>3. QED
    BY <2>2 DEF AnswerOf
<1>5. QED
  BY <1>3, <1>4

LEMMA TurnsEarn ==
    ASSUME Whole, Earned, NEW j \in Jobs, RunStep(j) \/ Child(j)
    PROVE  Earned'
<1>1. OneTurn(j)
  BY TurnsAreOneTurn
<1>2. \A i \in Jobs : i # j => AnswerOf(jobs[i], run[i])'
  BY <1>1, ElsewhereKeeps DEF OneTurn
<1>3. AnswerOf(jobs[j], run[j])'
  <2>1. CASE EndAttempt(j)
    BY <2>1, EndIsWrittenDown
  <2>2. CASE AskDirectMessage(j)
    <3>1. /\ run[j].stage = "answering" /\ run[j] \in RunState /\ UNCHANGED jobs
          /\ run' = [run EXCEPT ![j].stage = "dm"] /\ run \in [Jobs -> RunState]
      BY <2>2 DEF AskDirectMessage, To, Stage, store, Whole, SInv, RunTyped, RunsTyped
    <3>2. run'[j].outcome = run[j].outcome /\ run'[j].term = run[j].term
      BY <3>1 DEF RunState
    <3>3. QED
      BY <3>1, <3>2 DEF Earned, AnswerOf
  <2>3. CASE run'[j].stage \notin {"answering", "dm"}
    BY <2>3 DEF AnswerOf
  <2>4. QED
    BY <1>1, <2>1, <2>2, <2>3 DEF OneTurn
<1>4. QED
  BY <1>2, <1>3 DEF Earned

\* A job that waits in the queue has no run.
LEMMA QueuedIsIdle ==
    ASSUME Whole, NEW j \in Jobs, In(queue, j)
    PROVE  run[j].stage = "idle"
BY DEF Whole, Standing, Keeps, Waits

\* A step that changes the row of one job, which has no run.
LEMMA RowOfIdle ==
    ASSUME Whole, NEW j \in Jobs, run[j].stage = "idle",
           \A i \in Jobs : i # j => jobs'[i] = jobs[i],
           \A i \in Jobs : run'[i] = run[i] \/ run'[i] = Starting \/ run'[i] = Idle,
           NEW i \in Jobs
    PROVE  Elsewhere(i)
BY UntouchedIsElsewhere

\* An admission is about a job that did not exist.
LEMMA AdmissionElsewhere ==
    ASSUME Whole, Admission, NEW i \in Jobs
    PROVE  Elsewhere(i)
<1>1. LP!IInv /\ \A j \in Jobs : run[j].stage # "idle" => jobs[j] # NoJob
  BY DEF Whole, SInv, Standing, Keeps, Fits
<1>2. CASE UNCHANGED <<jobs, run>>
  BY <1>2, UntouchedIsElsewhere
<1>3. ASSUME NEW m \in Messages, NEW j \in Jobs, NEW writable, AdmitMessage(m, j, writable)
      PROVE  Elsewhere(i)
  <2>1. jobs[j] = NoJob /\ jobs' = [jobs EXCEPT ![j] = Ledger!FreshRow(TRUE)]
    BY <1>3 DEF AdmitMessage, Ledger!AcceptIngress, Ledger!Exists
  <2>2. \A k \in Jobs : k # j => jobs'[k] = jobs[k]
    BY <1>1, <2>1, StoreTyped
  <2>3. \A k \in Jobs : run'[k] = run[k] \/ run'[k] = Starting
    <3>1. PICK q : Drain(q, run)
      BY <1>3 DEF AdmitMessage
    <3>2. QED
      BY <3>1, DrainLeaves
  <2>4. QED
    BY <1>1, <2>1, <2>2, <2>3, RowOfIdle
<1>4. QED
  BY <1>2, <1>3
     DEF Admission, BeginDispatch, DecideMessage, DropDuplicate, AdmitMessage,
         Ledger!ReserveIngress, store

\* replaceJob takes a job out of the queue, or notes an abort in its run.
LEMMA ReplacementElsewhere ==
    ASSUME Whole, NEW old \in Jobs, NEW new \in Jobs, FinishReplace(old, new), NEW i \in Jobs
    PROVE  Elsewhere(i)
<1>1. LP!IInv /\ RunTyped
  BY DEF Whole, SInv
<1>2. CASE Queued(old) /\ Ledger!RecordEvent(old, "cancelled", NoAttempt) /\ \E q : Drain(q, run)
  <2>1. \A k \in Jobs : k # old => jobs'[k] = jobs[k]
    BY <1>1, <1>2, AppendIsApart DEF Ledger!RecordEvent
  <2>2. \A k \in Jobs : run'[k] = run[k] \/ run'[k] = Starting
    BY <1>2, DrainLeaves
  <2>3. run[old].stage = "idle"
    BY <1>2, QueuedIsIdle DEF Queued, In
  <2>4. QED
    BY <2>1, <2>2, <2>3, RowOfIdle
<1>3. CASE UNCHANGED store /\ \E q : Drain(q, [run EXCEPT ![old] = Aborted(@, "cancel")])
  <2>1. PICK q, r : r = [run EXCEPT ![old] = Aborted(run[old], "cancel")] /\ Drain(q, r)
    BY <1>1, <1>3 DEF RunTyped, RunsTyped
  <2>2. r[old] = Aborted(run[old], "cancel") /\ \A k \in Jobs : k # old => r[k] = run[k]
    BY <1>1, <2>1 DEF RunTyped, RunsTyped
  <2>3. run'[i] = Starting \/ run'[i] = r[i]
    BY <2>1, DrainLeaves
  <2>4. QED
    BY <1>1, <1>3, <2>2, <2>3, UntouchedIsElsewhere, AbortIsElsewhere DEF store
<1>4. CASE Stage(old) = "idle" /\ Ledger!DeleteRecovery(old) /\ \E q : Drain(q, run)
  <2>1. \A k \in Jobs : k # old => jobs'[k] = jobs[k]
    BY <1>1, <1>4, StoreTyped DEF Ledger!DeleteRecovery
  <2>2. \A k \in Jobs : run'[k] = run[k] \/ run'[k] = Starting
    BY <1>4, DrainLeaves
  <2>3. QED
    BY <1>4, <2>1, <2>2, RowOfIdle DEF Stage
<1>5. CASE UNCHANGED <<store, run>>
  BY <1>5, UntouchedIsElsewhere DEF store
<1>6. QED
  BY <1>2, <1>3, <1>4, <1>5 DEF FinishReplace

\* Control records only of jobs without a run, and aborts the others.
LEMMA ControlElsewhere ==
    ASSUME Whole, Control, NEW i \in Jobs
    PROVE  Elsewhere(i)
<1>1. LP!IInv /\ RunTyped /\ \A j \in Jobs : run[j].stage # "idle" => jobs[j] # NoJob
  BY DEF Whole, SInv, Standing, Keeps, Fits
<1>2. ASSUME NEW j \in Jobs, CancelQueued(j) PROVE Elsewhere(i)
  <2>1. run[j].stage = "idle" /\ UNCHANGED run
    BY <1>2, QueuedIsIdle DEF CancelQueued, Queued, In
  <2>2. \A k \in Jobs : k # j => jobs'[k] = jobs[k]
    BY <1>1, <1>2, AppendIsApart DEF CancelQueued, Ledger!RecordEvent, store
  <2>3. QED
    BY <2>1, <2>2, RowOfIdle
<1>3. ASSUME NEW j \in Jobs, NEW why, Abort(j, why), UNCHANGED store PROVE Elsewhere(i)
  <2>1. run'[j] = Aborted(run[j], why) /\ \A k \in Jobs : k # j => run'[k] = run[k]
    BY <1>1, <1>3 DEF Abort, RunTyped, RunsTyped
  <2>2. QED
    BY <1>1, <1>3, <2>1, AbortIsElsewhere, UntouchedIsElsewhere DEF store
<1>4. ASSUME NEW j \in Jobs, Watchdog(j) PROVE Elsewhere(i)
  <2>1. CASE Abort(j, "no_progress") /\ UNCHANGED store
    BY <1>3, <2>1
  <2>2. CASE /\ Stage(j) = "idle" /\ UNCHANGED <<queue, run>>
             /\ Ledger!RecordEvent(j, "failed", jobs[j].attempt)
    <3>1. \A k \in Jobs : k # j => jobs'[k] = jobs[k]
      BY <1>1, <2>2, AppendIsApart DEF Ledger!RecordEvent
    <3>2. QED
      BY <2>2, <3>1, RowOfIdle DEF Stage
  <2>3. QED
    BY <1>4, <2>1, <2>2 DEF Watchdog
<1>5. ASSUME NEW j \in Jobs, NEW r \in Jobs, NEW writable, Replace(j, r, writable)
      PROVE  Elsewhere(i)
  <2>1. jobs[r] = NoJob /\ jobs' = [jobs EXCEPT ![r] = Ledger!FreshRow(TRUE)] /\ UNCHANGED run
    BY <1>5 DEF Replace, Ledger!CreateJob, Ledger!Exists
  <2>2. \A k \in Jobs : k # r => jobs'[k] = jobs[k]
    BY <1>1, <2>1, StoreTyped
  <2>3. QED
    BY <1>1, <2>1, <2>2, RowOfIdle
<1>6. ASSUME NEW j \in Jobs, CancelActive(j) PROVE Elsewhere(i)
  BY <1>3, <1>6 DEF CancelActive
<1>7. QED
  BY <1>2, <1>4, <1>5, <1>6, ReplacementElsewhere DEF Control

\* A stop aborts the runs and hands over the queue; a start finds no run.
LEMMA LifeElsewhere ==
    ASSUME Whole,
           Shutdown \/ Stopping \/ Crash \/ Start \/ (\E j \in Jobs : ResumeOne(j)),
           NEW i \in Jobs
    PROVE  Elsewhere(i)
<1>1. LP!IInv /\ RunTyped /\ Standing(queue, run)
  BY DEF Whole, SInv
<1>2. status \in {"down", "resuming"} => \A j \in Jobs : run[j].stage = "idle"
  BY <1>1 DEF Standing, Keeps, Timely
<1>3. CASE Shutdown
  BY <1>1, <1>3, AbortIsElsewhere DEF Shutdown, store
<1>4. ASSUME NEW j \in Jobs, FlushQueue(j) PROVE Elsewhere(i)
  <2>1. In(queue, j)
    <3>1. queue \in Seq(Jobs) /\ queue # <<>>
      BY <1>1, <1>4 DEF FlushQueue, Standing, Lined, Between
    <3>2. 1 \in DOMAIN queue /\ queue[1] = j
      BY <1>4, <3>1 DEF FlushQueue
    <3>3. QED
      BY <3>2 DEF In
  <2>2. \A k \in Jobs : k # j => jobs'[k] = jobs[k]
    BY <1>1, <1>4, AppendIsApart DEF FlushQueue, Ledger!RecordEvent, store
  <2>3. UNCHANGED run
    BY <1>4 DEF FlushQueue
  <2>4. QED
    BY <2>1, <2>2, <2>3, QueuedIsIdle, RowOfIdle
<1>5. CASE IdleReached \/ Close \/ Crash
  <2>1. UNCHANGED store /\ (run'[i] = run[i] \/ run'[i] = Idle)
    BY <1>5 DEF IdleReached, Close, Crash, Gone
  <2>2. QED
    BY <2>1, UntouchedIsElsewhere DEF store
<1>6. CASE Start
  BY <1>2, <1>6, UntouchedIsElsewhere DEF Start
<1>7. ASSUME NEW j \in Jobs, ResumeOne(j) PROVE Elsewhere(i)
  <2>1. run[i].stage = "idle"
    BY <1>2, <1>7 DEF ResumeOne
  <2>2. run'[i] = run[i] \/ run'[i] = Starting
    <3>1. UNCHANGED run \/ \E q : Drain(q, run)
      BY <1>7 DEF ResumeOne
    <3>2. QED
      BY <3>1, DrainLeaves
  <2>3. QED
    BY <2>1, <2>2, UntouchedIsElsewhere
<1>8. QED
  BY <1>3, <1>4, <1>5, <1>6, <1>7 DEF Stopping

LEMMA NextEarned == Whole /\ Earned /\ [Next]_vars => Earned'
<1> SUFFICES ASSUME Whole, Earned, [Next]_vars PROVE Earned'
  OBVIOUS
<1>1. ASSUME \A i \in Jobs : Elsewhere(i) PROVE Earned'
  BY <1>1, ElsewhereKeeps DEF Earned
<1>2. CASE UNCHANGED vars
  BY <1>1, <1>2, UntouchedIsElsewhere DEF vars, store, process
<1>3. ASSUME NEW a \in Attempts, Arrives(a) \/ IsLost(a) PROVE Earned'
  BY <1>1, <1>3, UntouchedIsElsewhere DEF Arrives, IsLost, store, process
<1>4. CASE Next
  BY <1>1, <1>3, <1>4, TurnsEarn, AdmissionElsewhere, ControlElsewhere, LifeElsewhere DEF Next
<1>5. QED
  BY <1>2, <1>4

\* Only Deliver lets an answer out.
LEMMA OnlyDeliverSends ==
    ASSUME [Next]_vars, NEW a \in wire' \ wire
    PROVE  \E j \in Jobs : Deliver(j) /\ Sendable(j) /\ a = run[j].attempt
<1>1. CASE UNCHANGED vars
  BY <1>1 DEF vars, network
<1>2. ASSUME NEW j \in Jobs, RunStep(j) \/ Child(j)
      PROVE  Deliver(j) /\ Sendable(j) /\ a = run[j].attempt
  BY <1>2 DEF RunStep, Child, AbortedStart, StartFails, Reserve, SpawnFails, Attach, ChildExits,
         EndAttempt, EndUnrecorded, Deliver, Send, AskDirectMessage, NoResult, SendEnds,
         SendEndsUnstored, ReportEnds, Output, EndEarly, network
<1>3. CASE Admission
  BY <1>3 DEF Admission, BeginDispatch, DecideMessage, DropDuplicate, AdmitMessage, network
<1>4. CASE Control
  BY <1>4 DEF Control, CancelQueued, CancelActive, Watchdog, Replace, FinishReplace,
              ControlOnly, network
<1>5. CASE Next
  BY <1>2, <1>3, <1>4, <1>5 DEF Next, Arrives, IsLost, Shutdown, Stopping, FlushQueue,
     IdleReached, Close, Crash, Gone, Start, ResumeOne, network
<1>6. QED
  BY <1>1, <1>5

--------------------------------------------------------------------------------
(* What holds of the service *)

\* What the ledger promises under every order of its transactions holds of the service,
\* whatever is admitted, replaced, aborted, lost or started again: its recovery never
\* fails, so it can start on what it left behind (recoverInterruptedWork); the tables
\* agree about every send; a sealed request is gone once nothing may use it; a message
\* has a job of its own and is decided once; and a finished job stays finished.
THEOREM ServiceKeepsLedgerPromises ==
    Spec => /\ []Ledger!RecoveryCannotFail
            /\ []Ledger!DeliveryTablesAgree
            /\ []Ledger!EnvelopeOnlyWhileUseful
            /\ []Ledger!OneJobPerMessage
            /\ Ledger!DecidedOnce
            /\ Ledger!FinishedIsFinal
<1>1. NoJob \notin Jobs /\ NoJob \notin LP!Row
  BY NoJobIsNoRow, SameRow
<1>2. Spec => LP!Spec
  <2>1. Init => LP!Init /\ SInv
    BY InitSteps DEF Ledger!Init, LP!Init
  <2>2. SInv /\ [Next]_vars => SInv' /\ [LP!Next]_(LP!vars)
    BY NextSteps, SameLedger DEF StoreStep, store, LP!vars
  <2>3. QED
    BY <2>1, <2>2, PTL DEF Spec, LP!Spec
<1>3. LP!RecoveryCannotFail => Ledger!RecoveryCannotFail
  BY DEF LP!RecoveryCannotFail, Ledger!RecoveryCannotFail, LP!RecoveryLegal,
     Ledger!RecoveryLegal, LP!Interrupted, Ledger!Interrupted, LP!Exists, Ledger!Exists,
     LP!RecoveryKind, Ledger!RecoveryKind, LP!RecoveryAttempt, Ledger!RecoveryAttempt,
     LP!StartedAttempts, Ledger!StartedAttempts, LP!Appendable, Ledger!Appendable,
     LP!Stale, Ledger!Stale, LP!TransitionFor, Ledger!TransitionFor,
     LP!AllowedTransitions, Ledger!AllowedTransitions, LP!RunningKinds,
     Ledger!RunningKinds, LP!DeliveryEndKinds, Ledger!DeliveryEndKinds,
     LP!Absorbing, Ledger!Absorbing
<1>4. LP!DeliveryTablesAgree => Ledger!DeliveryTablesAgree
  BY DEF LP!DeliveryTablesAgree, Ledger!DeliveryTablesAgree, LP!Agree, Ledger!Agree
<1>5. LP!EnvelopeOnlyWhileUseful => Ledger!EnvelopeOnlyWhileUseful
  BY DEF LP!EnvelopeOnlyWhileUseful, Ledger!EnvelopeOnlyWhileUseful, LP!Exists,
     Ledger!Exists
<1>6. LP!OneJobPerMessage => Ledger!OneJobPerMessage
  BY DEF LP!OneJobPerMessage, Ledger!OneJobPerMessage, LP!Exists, Ledger!Exists
<1>7. LP!Spec => /\ []LP!RecoveryCannotFail /\ []LP!DeliveryTablesAgree
                 /\ []LP!EnvelopeOnlyWhileUseful /\ []LP!OneJobPerMessage
  BY <1>1, NoAttemptIsNoAttempt, LP!AlwaysRecoverable, LP!OneStoryOfASend,
     LP!RequestsAreDropped, LP!OneJobEach
<1>8. LP!Spec => Ledger!DecidedOnce
  BY <1>1, NoAttemptIsNoAttempt, LP!DecidedForever
     DEF LP!DecidedOnce, Ledger!DecidedOnce, LP!vars, Ledger!vars
<1>9. LP!Spec => Ledger!FinishedIsFinal
  BY <1>1, NoAttemptIsNoAttempt, LP!FinishedForever
     DEF LP!FinishedIsFinal, Ledger!FinishedIsFinal, LP!vars, Ledger!vars, LP!Exists,
         Ledger!Exists, LP!Absorbing, Ledger!Absorbing
<1>10. QED
  BY <1>2, <1>3, <1>4, <1>5, <1>6, <1>7, <1>8, <1>9, PTL

\* The rows, the queue, the runs and the messages of the service have their types.
THEOREM ServiceTyped == Spec => []TypeOK
<1>1. Whole => TypeOK
  <2> SUFFICES ASSUME Whole PROVE TypeOK
    OBVIOUS
  <2>1. Ledger!TypeOK
    BY DEF Whole, SInv, LP!IInv, LP!TypeOK, Ledger!TypeOK, LP!Row, Ledger!Row, LP!Lifecycles,
           Ledger!Lifecycles, LP!Absorbing, Ledger!Absorbing, LP!DeliveryStates,
           Ledger!DeliveryStates, LP!RecoveryStates, Ledger!RecoveryStates,
           LP!DeliveryStatus, Ledger!DeliveryStatus, LP!Decided, Ledger!Decided
  <2>2. queue \in Seq(Jobs)
    BY DEF Whole, Standing, Lined
  <2>3. run \in [Jobs -> RunState] /\ FactsTyped
    BY DEF Whole, SInv, RunTyped, RunsTyped
  <2>4. QED
    BY <2>1, <2>2, <2>3 DEF TypeOK, FactsTyped
<1>2. QED
  BY <1>1, AlwaysWhole, PTL

\* Over every end of a run, replacement, recovery and late admission, the turns of
\* one conversation run one at a time, and no more than maxConcurrentJobs run at all
\* (#drain and the finally behind it).
THEOREM OneTurnPerConversation == Spec => []ScopeSerial
<1>1. Whole => ScopeSerial
  BY DEF Whole, Standing, Serial, ScopeSerial
<1>2. QED
  BY <1>1, AlwaysWhole, PTL

\* Whatever was retried, recovered, or sent with an unknown end, Discord never gets
\* the answers of two attempts of one job (deliverJobResult, reserveDelivery and
\* recoverInterruptedWork together).
THEOREM OneAnswerEach == Spec => []OneAnswer
<1>1. Whole => OneAnswer
  <2> SUFFICES ASSUME Whole, NEW a \in Outgoing, NEW b \in Outgoing, drawn[a] = drawn[b]
               PROVE  a = b
    BY DEF OneAnswer
  <2>1. QED
    BY SentSoFar
<1>2. QED
  BY <1>1, AlwaysWhole, PTL

\* A job whose answer may be with Discord is never shown as not sent or failed to
\* send, and one shown as delivered has an answer there (the three receipts of
\* deliverJobResult, the catch of #run and startup recovery).
THEOREM OutcomesAreTrue == Spec => []TruthfulOutcome
<1>1. Whole => TruthfulOutcome
  BY SentSoFar DEF TruthfulOutcome
<1>2. QED
  BY <1>1, AlwaysWhole, PTL

\* A job whose profile may write is executed at most once, over every crash, shutdown
\* and start (resumeRecovered queues only read-only jobs again).
THEOREM WritesOnce == Spec => []WritableRunsOnce
<1>1. Whole => WritableRunsOnce
  BY DEF Whole, Drawn
<1>2. QED
  BY <1>1, AlwaysWhole, PTL

\* Only Attach starts a child.
LEMMA OnlyAttachExecutes ==
    ASSUME [Next]_vars, executed' # executed
    PROVE  \E j \in Jobs : Attach(j)
<1>1. CASE UNCHANGED vars
  BY <1>1 DEF vars, facts
<1>2. ASSUME NEW j \in Jobs, RunStep(j) \/ Child(j)
      PROVE  Attach(j)
  BY <1>2 DEF RunStep, Child, AbortedStart, StartFails, Reserve, SpawnFails, ChildExits,
         EndAttempt, EndUnrecorded, Deliver, AskDirectMessage, NoResult, SendEnds,
         SendEndsUnstored, ReportEnds, Output, EndEarly, facts
<1>3. CASE Admission
  BY <1>3 DEF Admission, BeginDispatch, DecideMessage, DropDuplicate, AdmitMessage, facts
<1>4. CASE Control
  BY <1>4 DEF Control, CancelQueued, CancelActive, Watchdog, Replace, FinishReplace,
              ControlOnly
<1>5. CASE Next
  BY <1>2, <1>3, <1>4, <1>5 DEF Next, Arrives, IsLost, Shutdown, Stopping, FlushQueue,
     IdleReached, Close, Crash, Gone, Start, ResumeOne, facts
<1>6. QED
  BY <1>1, <1>5

\* Once the send of an answer was begun, no backend is started for that job again:
\* the row of a job at its spawn is queued, and a queued row has no delivery.
THEOREM NeverAgainAfterSend == Spec => NoRunAfterSend
<1>1. Whole /\ [Next]_vars =>
        \A a \in executed' \ executed, b \in Attempts : deliveries[drawn[a]][b] = "none"
  <2> SUFFICES ASSUME Whole, [Next]_vars, NEW a \in executed' \ executed, NEW b \in Attempts
               PROVE  deliveries[drawn[a]][b] = "none"
    OBVIOUS
  <2>1. PICK j \in Jobs : Attach(j)
    BY OnlyAttachExecutes
  <2>2. Turn /\ Stage(j) = "spawning" /\ a = run[j].attempt
    BY <2>1 DEF Attach
  <2>3. drawn[a] = j /\ jobs[j] # NoJob /\ jobs[j].lifecycle = "queued"
    BY <2>2, InATurn DEF Fits, Stage
  <2>4. QED
    BY <2>3 DEF Whole, SInv, LP!IInv, LP!OneStory, LP!Agree
<1>2. QED
  BY <1>1, AlwaysWhole, PTL DEF Spec, NoRunAfterSend

\* While the service is up, every job that has not ended is in the queue, once, or has
\* a run, not both (what #run, replaceJob and resumeRecovered leave behind). It is a
\* promise of a store that takes its writes: replaceJob and cancelJob forget a job
\* whose write is refused.
THEOREM NoJobForgotten ==
    ASSUME ~StoreFaults
    PROVE  Spec => []NoOrphan
<1>1. Whole => NoOrphan
  <2> SUFFICES ASSUME Whole, status = "up", Turn, NEW j \in Jobs
               PROVE  LET places == {i \in DOMAIN queue : queue[i] = j}
                      IN  /\ Cardinality(places) <= 1
                          /\ Ledger!Exists(j) /\ ~Ended(jobs[j])
                               => places # {} <=> Stage(j) = "idle"
    BY DEF NoOrphan
  <2> DEFINE places == {i \in DOMAIN queue : queue[i] = j}
  <2>1. Lined(queue) /\ Between(queue) /\ Keeps(queue, run[j], j)
    BY DEF Whole, Standing
  <2>2. places # {} <=> In(queue, j)
    BY DEF In
  <2>3. toResume = {} /\ ~Replaces(j)
    BY <2>1 DEF Between, Turn, Replaces
  <2>4. Waits(queue, j) <=> In(queue, j)
    BY <2>3 DEF Waits
  <2>5. In(queue, j) => Stage(j) = "idle"
    BY <2>1, <2>4 DEF Keeps, Stage
  <2>6. Ledger!Exists(j) /\ ~Ended(jobs[j]) => In(queue, j) \/ Stage(j) # "idle"
    BY <2>1, <2>4 DEF Keeps, Stage, Ledger!Exists
  <2>7. Cardinality(places) <= 1
    <3>1. CASE places = {}
      BY <3>1, FS_EmptySet
    <3>2. CASE places # {}
      <4>1. PICK i : places = {i}
        BY <2>1, <3>2 DEF Lined
      <4>2. QED
        BY <4>1, FS_Singleton
    <3>3. QED
      BY <3>1, <3>2
  <2>8. QED
    BY <2>2, <2>5, <2>6, <2>7
<1>2. QED
  BY <1>1, AlwaysWhole, PTL

\* The store is never closed, and the token never released, under a running child:
\* so it is when no admission hook awaits, for a dispatch that comes back from its
\* hook after waitForIdle has looked starts a run that nobody waits for.
THEOREM StopsClean ==
    ASSUME ~SlowHook
    PROVE  Spec => CleanStop
<1>1. Whole => (status = "draining" => Active(run) = {})
  BY DEF Whole, Standing, Keeps, Timely, Active
<1>2. Whole /\ [Next]_vars => (status = "draining" /\ status' = "down" => Active(run) = {})
  BY <1>1
<1>3. QED
  BY <1>2, AlwaysWhole, PTL DEF Spec, CleanStop

\* An answer sets out only for an attempt that ended by itself and reported success
\* (finish of runBackendAttempt, the look of #run at backendOutcome, reserveDelivery).
THEOREM SentWhenEarned == Spec => SendEarned
<1>1. Init => Earned
  BY DEF Init, Earned, AnswerOf, Idle
<1>2. Whole /\ Earned /\ [Next]_vars =>
        \A a \in wire' \ wire :
            LET r == run[drawn[a]]
            IN  r.attempt = a /\ r.term = "none" /\ r.outcome = "success"
  <2> SUFFICES ASSUME Whole, Earned, [Next]_vars, NEW a \in wire' \ wire
               PROVE  /\ run[drawn[a]].attempt = a
                      /\ run[drawn[a]].term = "none"
                      /\ run[drawn[a]].outcome = "success"
    OBVIOUS
  <2>1. PICK j \in Jobs : Deliver(j) /\ Sendable(j) /\ a = run[j].attempt
    BY OnlyDeliverSends
  <2>2. run[j].stage \in {"answering", "dm"}
    BY <2>1 DEF Deliver, Stage
  <2>3. drawn[a] = j
    BY <2>1, <2>2 DEF Whole, Standing, Keeps
  <2>4. jobs[j].lifecycle \notin {"queued", "failed", "cancelled"}
    BY <2>1, EndingKinds DEF Sendable, Appendable, AllowedTransitions
  <2>5. QED
    BY <2>1, <2>2, <2>3, <2>4 DEF Earned, AnswerOf
<1>3. QED
  BY <1>1, <1>2, NextEarned, AlwaysWhole, PTL DEF Spec, SendEarned
==================================================================================
