-------------------------- MODULE SessionLedgerProofs --------------------------
(******************************************************************************)
(* What SessionLedger guarantees for any sets of jobs, attempts and messages.  *)
(* The invariant relates one row of `jobs` to the delivery rows of that job    *)
(* (Agree) and bounds those rows to one; it is stated over values, so that     *)
(* what one append does to it is a lemma without state (AppendKeepsOneStory).  *)
(******************************************************************************)
EXTENDS SessionLedger, TLAPS

\* at most one delivery row
OneOf(sends) ==
    \A a, b \in Attempts : sends[a] # "none" /\ sends[b] # "none" => a = b

OneStory(row, sends) == Agree(row, sends) /\ OneOf(sends)

IInv == TypeOK /\ \A j \in Jobs : OneStory(jobs[j], deliveries[j])

Sends == [Attempts -> DeliveryStatus]

--------------------------------------------------------------------------------
(* Lemmas about one row *)

\* A lifecycle is never a state the tables do not know.
LEMMA TransitionForType ==
    ASSUME NEW kind, NEW l \in Lifecycles
    PROVE  TransitionFor(kind, l) \in Lifecycles
BY DEF TransitionFor, Lifecycles, Absorbing, DeliveryEndKinds

\* Appending any event to a row gives a row (appendEvent's UPDATE).
LEMMA AppendedType ==
    ASSUME NEW row \in Row, NEW kind, NEW a \in Attempts \cup {NoAttempt}
    PROVE  Appended(row, kind, a) \in Row
<1>1. row.lifecycle \in Lifecycles
  BY DEF Row
<1>2. TransitionFor(kind, row.lifecycle) \in Lifecycles
  BY <1>1, TransitionForType
<1>3. QED
  BY <1>2 DEF Appended, Row, DeliveryStates, RecoveryStates

\* Clearing the attempt of a row gives a row.
LEMMA DetachedType ==
    ASSUME NEW row \in Row
    PROVE  Detached(row) \in Row
BY DEF Detached, Row

\* A finished job stays in the lifecycle it finished in, whatever is appended.
LEMMA AbsorbingStays ==
    ASSUME NEW row \in Row, NEW kind, NEW a,
           row.lifecycle \in Absorbing, Appendable(row, kind, a)
    PROVE  Appended(row, kind, a).lifecycle = row.lifecycle
BY DEF Absorbing, Appendable, Appended, AllowedTransitions

\* The kinds that may be appended outside a delivery or recovery transaction.
PlainKinds == CallerKinds \cup {"attempt_started", "attempt_reserved"}

\* Outside the delivery transactions no append enters or leaves a send, but for
\* the failure of a job that is delivering.
LEMMA PlainAppend ==
    ASSUME NEW row \in Row, NEW kind \in PlainKinds,
           NEW a \in Attempts \cup {NoAttempt}, Appendable(row, kind, a)
    PROVE  /\ Appended(row, kind, a).deliveryState = row.deliveryState
           /\ Appended(row, kind, a).lifecycle = "delivering" => row.lifecycle = "delivering"
           /\ row.lifecycle = "delivering" =>
                Appended(row, kind, a).lifecycle \in {"delivering", "failed"}
<1>1. row.lifecycle \in Lifecycles
  BY DEF Row
<1>2. /\ kind \notin DeliveryEndKinds
      /\ kind # "delivery_started"
      /\ kind # "completed"
      /\ kind # "retry_scheduled"
      /\ kind # "recovery_review_required"
  BY DEF PlainKinds, CallerKinds, RunningKinds, DeliveryEndKinds
<1>3. Appended(row, kind, a).deliveryState = row.deliveryState
  BY <1>2 DEF Appended, DeliveryEndKinds
<1>4. TransitionFor(kind, row.lifecycle) = "delivering" => row.lifecycle = "delivering"
  BY <1>2 DEF TransitionFor
<1>5. row.lifecycle = "delivering" =>
        TransitionFor(kind, row.lifecycle) \in {"delivering", "failed"}
  BY <1>2 DEF TransitionFor, Appendable, AllowedTransitions
<1>6. QED
  BY <1>3, <1>4, <1>5 DEF Appended

\* A plain append that is not delivering afterwards, or keeps the attempt, keeps
\* the story of the job's send.
LEMMA AppendKeepsOneStory ==
    ASSUME NEW row \in Row, NEW sends \in Sends, NEW kind \in PlainKinds,
           NEW a \in Attempts \cup {NoAttempt}, row # NoJob,
           Appendable(row, kind, a), OneStory(row, sends),
           kind = "attempt_reserved" => row.attempt = NoAttempt
    PROVE  OneStory(Appended(row, kind, a), sends)
<1> DEFINE new == Appended(row, kind, a)
<1>1. new \in Row /\ new # NoJob
  BY AppendedType, NoJobIsNoJob
<1>2. /\ new.deliveryState = row.deliveryState
      /\ new.lifecycle = "delivering" => row.lifecycle = "delivering"
      /\ row.lifecycle = "delivering" => new.lifecycle \in {"delivering", "failed"}
      /\ row.lifecycle \in Absorbing => new.lifecycle = row.lifecycle
  BY PlainAppend, AbsorbingStays
<1>3. ASSUME new.lifecycle = "delivering" PROVE new.attempt = row.attempt
  <2>1. row.lifecycle = "delivering" /\ row.attempt \in Attempts
    BY <1>2, <1>3 DEF OneStory, Agree
  <2>2. kind # "attempt_started"
    BY <1>3 DEF Appended, TransitionFor, RunningKinds
  <2>3. kind # "attempt_reserved" /\ row.attempt # NoAttempt
    BY <2>1, NoAttemptIsNoAttempt
  <2>4. a # NoAttempt => a = row.attempt
    BY <2>2, <2>3 DEF Appendable, Stale
  <2>5. QED
    BY <2>4 DEF Appended
<1> HIDE DEF new
<1>4. ASSUME NEW b \in Attempts
      PROVE  /\ sends[b] # "none" => new.lifecycle \in {"delivering", "completed", "failed"}
             /\ sends[b] = "started" => /\ new.lifecycle \in {"delivering", "failed"}
                                        /\ new.deliveryState = "sending"
             /\ sends[b] = "confirmed" => /\ new.lifecycle = "completed"
                                          /\ new.deliveryState = "delivered"
  BY <1>2 DEF OneStory, Agree, Absorbing
<1>5. new.lifecycle = "delivering" =>
        new.attempt \in Attempts /\ sends[new.attempt] = "started"
  BY <1>2, <1>3 DEF OneStory, Agree
<1>6. OneStory(new, sends)
  BY <1>1, <1>4, <1>5 DEF OneStory, Agree
<1>7. QED
  BY <1>6 DEF new

\* What else a row carries does not matter to the story.
LEMMA SameStory ==
    ASSUME NEW row \in Row, NEW new \in Row, NEW sends \in Sends,
           OneStory(row, sends), row # NoJob, new # NoJob,
           new.lifecycle = row.lifecycle, new.deliveryState = row.deliveryState,
           new.lifecycle = "delivering" => new.attempt = row.attempt
    PROVE  OneStory(new, sends)
BY DEF OneStory, Agree

\* A job that is neither delivering nor finished has sent nothing.
LEMMA NothingSent ==
    ASSUME NEW row \in Row, NEW sends \in Sends, OneStory(row, sends),
           row.lifecycle \notin {"delivering", "completed", "failed"}
    PROVE  \A a \in Attempts : sends[a] = "none"
BY DEF OneStory, Agree

\* A job that has sent nothing tells one story in any lifecycle but delivering.
LEMMA NoStory ==
    ASSUME NEW row, NEW sends \in Sends, \A a \in Attempts : sends[a] = "none",
           row # NoJob => row.lifecycle # "delivering"
    PROVE  OneStory(row, sends)
BY DEF OneStory, Agree, OneOf

\* The end of a send: the one open row is closed and the job completes.
LEMMA EndKeepsOneStory ==
    ASSUME NEW row \in Row, NEW sends \in Sends, NEW a \in Attempts,
           NEW status \in {"confirmed", "unknown", "failed"},
           OneStory(row, sends), row # NoJob, sends[a] = "started",
           Appendable(row, DeliveryEndKind(status), a)
    PROVE  OneStory(Appended(row, DeliveryEndKind(status), a),
                    [sends EXCEPT ![a] = status])
<1> DEFINE new == Appended(row, DeliveryEndKind(status), a)
           closed == [sends EXCEPT ![a] = status]
<1>1. DeliveryEndKind(status) \in DeliveryEndKinds
  BY DEF DeliveryEndKind, DeliveryEndKinds
<1>2. new \in Row /\ new # NoJob
  BY AppendedType, NoJobIsNoJob
<1>3. new.lifecycle = "completed"
  BY <1>1 DEF Appended, TransitionFor, DeliveryEndKinds, RunningKinds
<1>4. status = "confirmed" => new.deliveryState = "delivered"
  BY DEF Appended, DeliveryEndKind
<1>5. \A b \in Attempts : closed[b] = IF b = a THEN status ELSE "none"
  BY DEF OneStory, OneOf, Sends
<1> HIDE DEF new, closed
<1>6. OneStory(new, closed)
  BY <1>2, <1>3, <1>4, <1>5 DEF OneStory, Agree, OneOf
<1>7. QED
  BY <1>6 DEF new, closed

--------------------------------------------------------------------------------
(* The invariant *)

LEMMA InitInvariant == Init => IInv
<1> SUFFICES ASSUME Init PROVE IInv
  OBVIOUS
<1>1. TypeOK
  BY DEF Init, TypeOK, DeliveryStatus
<1>2. \A j \in Jobs : OneStory(jobs[j], deliveries[j])
  BY DEF Init, OneStory, Agree, OneOf
<1>3. QED
  BY <1>1, <1>2 DEF IInv

\* What IInv says of one job.
LEMMA OfOneJob ==
    ASSUME IInv, NEW j \in Jobs
    PROVE  /\ jobs[j] \in Row \cup {NoJob}
           /\ Exists(j) => jobs[j] \in Row
           /\ deliveries[j] \in Sends
           /\ OneStory(jobs[j], deliveries[j])
BY DEF IInv, TypeOK, Exists, Sends

\* A fresh row has no delivery: an id that names no job names no delivery either.
LEMMA FreshStory ==
    ASSUME IInv, NEW j \in Jobs, ~Exists(j), NEW envelope \in BOOLEAN
    PROVE  FreshRow(envelope) \in Row /\ OneStory(FreshRow(envelope), deliveries[j])
<1>1. FreshRow(envelope) \in Row
  BY DEF FreshRow, Row, Lifecycles, DeliveryStates, RecoveryStates
<1>2. \A a \in Attempts : deliveries[j][a] = "none"
  BY OfOneJob DEF OneStory, Agree, Exists
<1>3. OneStory(FreshRow(envelope), deliveries[j])
  BY <1>1, <1>2, OfOneJob, NoStory DEF FreshRow
<1>4. QED
  BY <1>1, <1>3

\* A step that changes one job, and only its row and its deliveries.
LEMMA OneJobChanges ==
    ASSUME IInv, NEW j \in Jobs, NEW row \in Row, NEW sends \in Sends,
           OneStory(row, sends),
           jobs' = [jobs EXCEPT ![j] = row],
           deliveries' = [deliveries EXCEPT ![j] = sends],
           ingress' \in [Messages -> [status : Decided \cup {"none"},
                                      job : Jobs \cup {NoJob}]]
    PROVE  IInv'
<1>1. /\ jobs \in [Jobs -> Row \cup {NoJob}]
      /\ deliveries \in [Jobs -> Sends]
      /\ \A i \in Jobs : OneStory(jobs[i], deliveries[i])
  BY DEF IInv, TypeOK, Sends
<1>2. /\ jobs' \in [Jobs -> Row \cup {NoJob}]
      /\ deliveries' \in [Jobs -> Sends]
  BY <1>1
<1>3. ASSUME NEW i \in Jobs
      PROVE  OneStory(jobs'[i], deliveries'[i])
  <2>1. CASE i = j
    BY <1>1, <2>1
  <2>2. CASE i # j
    BY <1>1, <2>2
  <2>3. QED
    BY <2>1, <2>2
<1>4. QED
  BY <1>2, <1>3 DEF IInv, TypeOK, Sends, OneStory, Agree, OneOf

\* The same for a step that leaves the deliveries alone.
LEMMA OneRowChanges ==
    ASSUME IInv, NEW j \in Jobs, NEW row \in Row,
           OneStory(row, deliveries[j]),
           jobs' = [jobs EXCEPT ![j] = row], deliveries' = deliveries,
           ingress' \in [Messages -> [status : Decided \cup {"none"},
                                      job : Jobs \cup {NoJob}]]
    PROVE  IInv'
<1>1. deliveries[j] \in Sends /\ deliveries' = [deliveries EXCEPT ![j] = deliveries[j]]
  BY OfOneJob DEF IInv, TypeOK
<1>2. QED
  BY <1>1, OneJobChanges

--------------------------------------------------------------------------------
(* One lemma per group of transactions *)

LEMMA IngressSteps ==
    ASSUME IInv, NEW m \in Messages
    PROVE  /\ \A status \in {"rejected", "handled"} : ReserveIngress(m, status) => IInv'
           /\ \A j \in Jobs, envelope \in BOOLEAN :
                AcceptIngress(m, j, envelope) => IInv'
<1>1. ingress \in [Messages -> [status : Decided \cup {"none"}, job : Jobs \cup {NoJob}]]
  BY DEF IInv, TypeOK
<1>2. ASSUME NEW status \in {"rejected", "handled"}, ReserveIngress(m, status)
      PROVE  IInv'
  <2>1. ingress' \in [Messages -> [status : Decided \cup {"none"}, job : Jobs \cup {NoJob}]]
    BY <1>1, <1>2 DEF ReserveIngress, Decided
  <2>2. QED
    BY <1>2, <2>1 DEF ReserveIngress, IInv, TypeOK, OneStory, Agree, OneOf
<1>3. ASSUME NEW j \in Jobs, NEW envelope \in BOOLEAN, AcceptIngress(m, j, envelope)
      PROVE  IInv'
  <2>1. ingress' \in [Messages -> [status : Decided \cup {"none"}, job : Jobs \cup {NoJob}]]
    BY <1>1, <1>3 DEF AcceptIngress, Decided
  <2>2. FreshRow(envelope) \in Row /\ OneStory(FreshRow(envelope), deliveries[j])
    BY <1>3, FreshStory DEF AcceptIngress
  <2>3. QED
    BY <1>3, <2>1, <2>2, OneRowChanges DEF AcceptIngress
<1>4. QED
  BY <1>2, <1>3

\* Every transaction that appends one plain event.
LEMMA AppendSteps ==
    ASSUME IInv, NEW j \in Jobs, NEW a \in Attempts \cup {NoAttempt},
           NEW kind \in PlainKinds, Append(j, kind, a),
           kind = "attempt_reserved" => jobs[j].attempt = NoAttempt,
           UNCHANGED <<deliveries, ingress>>
    PROVE  IInv'
<1>1. jobs[j] \in Row /\ jobs[j] # NoJob /\ deliveries[j] \in Sends
      /\ OneStory(jobs[j], deliveries[j])
  BY OfOneJob DEF Append, Exists
<1>2. Appended(jobs[j], kind, a) \in Row
  BY <1>1, AppendedType
<1>3. OneStory(Appended(jobs[j], kind, a), deliveries[j])
  BY <1>1, AppendKeepsOneStory DEF Append
<1>4. jobs' = [jobs EXCEPT ![j] = Appended(jobs[j], kind, a)]
  BY DEF Append
<1>5. ingress' \in [Messages -> [status : Decided \cup {"none"}, job : Jobs \cup {NoJob}]]
  BY DEF IInv, TypeOK
<1>6. QED
  BY <1>2, <1>3, <1>4, <1>5, OneRowChanges

LEMMA FailStep ==
    ASSUME IInv, NEW j \in Jobs, NEW a \in Attempts, NEW unattached \in BOOLEAN,
           FailAttempt(j, a, unattached)
    PROVE  IInv'
<1> DEFINE failed == Appended(jobs[j], "failed", a)
<1>1. jobs[j] \in Row /\ jobs[j] # NoJob /\ deliveries[j] \in Sends
      /\ OneStory(jobs[j], deliveries[j]) /\ Appendable(jobs[j], "failed", a)
  BY OfOneJob DEF FailAttempt, Exists
<1>2. "failed" \in PlainKinds
  BY DEF PlainKinds, CallerKinds
<1>3. failed \in Row /\ failed # NoJob /\ OneStory(failed, deliveries[j])
  BY <1>1, <1>2, AppendedType, AppendKeepsOneStory, NoJobIsNoJob
<1>4. failed.lifecycle = "failed"
  BY DEF Appended, TransitionFor, RunningKinds, DeliveryEndKinds
<1> HIDE DEF failed
<1>5. Detached(failed) \in Row /\ Detached(failed) # NoJob
  BY <1>3, DetachedType, NoJobIsNoJob
<1>6. /\ Detached(failed).lifecycle = failed.lifecycle
      /\ Detached(failed).deliveryState = failed.deliveryState
  BY <1>3 DEF Detached, Row
<1>7. OneStory(Detached(failed), deliveries[j])
  BY <1>1, <1>3, <1>4, <1>5, <1>6, SameStory
<1>8. /\ jobs' = [jobs EXCEPT ![j] = Detached(failed)]
      /\ deliveries' = deliveries
      /\ ingress' \in [Messages -> [status : Decided \cup {"none"}, job : Jobs \cup {NoJob}]]
  BY DEF FailAttempt, failed, IInv, TypeOK
<1>9. QED
  BY <1>5, <1>7, <1>8, OneRowChanges

LEMMA StartStep ==
    ASSUME IInv, NEW j \in Jobs, NEW a \in Attempts, StartDelivery(j, a)
    PROVE  IInv'
<1> DEFINE new == Appended(jobs[j], "delivery_started", a)
           sends == [deliveries[j] EXCEPT ![a] = "started"]
<1>1. jobs[j] \in Row /\ jobs[j] # NoJob /\ deliveries[j] \in Sends
      /\ OneStory(jobs[j], deliveries[j]) /\ deliveries[j][a] = "none"
      /\ Appendable(jobs[j], "delivery_started", a)
  BY OfOneJob DEF StartDelivery, Append, Exists
<1>2. jobs[j].lifecycle \in {"running", "result_ready", "delivering"}
  BY <1>1 DEF Appendable, TransitionFor, AllowedTransitions, Row, Lifecycles, Absorbing,
              RunningKinds, DeliveryEndKinds
<1>3. jobs[j].lifecycle # "delivering"
  <2>1. SUFFICES ASSUME jobs[j].lifecycle = "delivering" PROVE FALSE
    OBVIOUS
  <2>2. jobs[j].attempt \in Attempts /\ deliveries[j][jobs[j].attempt] = "started"
    BY <1>1, <2>1 DEF OneStory, Agree
  <2>3. jobs[j].attempt = a
    BY <1>1, <2>2, NoAttemptIsNoAttempt DEF Appendable, Stale
  <2>4. QED
    BY <1>1, <2>2, <2>3
<1>4. \A b \in Attempts : deliveries[j][b] = "none"
  BY <1>1, <1>2, <1>3, NothingSent
<1>5. new \in Row /\ new # NoJob
  BY <1>1, AppendedType, NoJobIsNoJob
<1>6. sends \in Sends /\ \A b \in Attempts : sends[b] = IF b = a THEN "started" ELSE "none"
  BY <1>1, <1>4 DEF Sends, DeliveryStatus
<1>7. new.lifecycle = "delivering" /\ new.deliveryState = "sending" /\ new.attempt = a
  BY NoAttemptIsNoAttempt DEF Appended, TransitionFor, RunningKinds, DeliveryEndKinds
<1>8. /\ jobs' = [jobs EXCEPT ![j] = new]
      /\ deliveries' = [deliveries EXCEPT ![j] = sends]
      /\ ingress' \in [Messages -> [status : Decided \cup {"none"}, job : Jobs \cup {NoJob}]]
  BY DEF StartDelivery, Append, IInv, TypeOK
<1> HIDE DEF new, sends
<1>9. OneStory(new, sends)
  BY <1>5, <1>6, <1>7 DEF OneStory, Agree, OneOf
<1>10. QED
  BY <1>5, <1>6, <1>8, <1>9, OneJobChanges

LEMMA EndStep ==
    ASSUME IInv, NEW j \in Jobs, NEW a \in Attempts,
           NEW status \in {"confirmed", "unknown", "failed"},
           FinishDelivery(j, a, status) \/ (status = "unknown" /\ RediscoverDelivery(j, a))
    PROVE  IInv'
<1> DEFINE new == Appended(jobs[j], DeliveryEndKind(status), a)
           sends == [deliveries[j] EXCEPT ![a] = status]
<1>1. "unknown" = status => DeliveryEndKind(status) = "delivery_unknown"
  BY DEF DeliveryEndKind
<1>2. /\ deliveries[j][a] = "started"
      /\ deliveries' = [deliveries EXCEPT ![j][a] = status]
      /\ Append(j, DeliveryEndKind(status), a)
      /\ ingress' = ingress
  BY <1>1 DEF FinishDelivery, RediscoverDelivery
<1>3. jobs[j] \in Row /\ jobs[j] # NoJob /\ deliveries[j] \in Sends
      /\ OneStory(jobs[j], deliveries[j])
      /\ Appendable(jobs[j], DeliveryEndKind(status), a)
  BY <1>2, OfOneJob DEF Append, Exists
<1>4. new \in Row
  BY <1>3, AppendedType
<1>5. sends \in Sends
  BY <1>3 DEF Sends, DeliveryStatus
<1>6. OneStory(new, sends)
  BY <1>2, <1>3, EndKeepsOneStory
<1>7. /\ jobs' = [jobs EXCEPT ![j] = new]
      /\ deliveries' = [deliveries EXCEPT ![j] = sends]
      /\ ingress' \in [Messages -> [status : Decided \cup {"none"}, job : Jobs \cup {NoJob}]]
  BY <1>2 DEF Append, IInv, TypeOK
<1>8. QED
  BY <1>4, <1>5, <1>6, <1>7, OneJobChanges

\* What recovery appends is legal, and at most one delivery of the job is open.
LEMMA RecoveryOfOneJob ==
    ASSUME IInv, NEW j \in Jobs, Interrupted(j)
    PROVE  /\ Appendable(jobs[j], RecoveryKind(j), RecoveryAttempt(j))
           /\ \A a, b \in StartedAttempts(j) : a = b
           /\ RecoveryAttempt(j) \in Attempts \cup {NoAttempt}
           /\ StartedAttempts(j) # {} => /\ deliveries[j][RecoveryAttempt(j)] = "started"
                                         /\ RecoveryAttempt(j) \in Attempts
<1>1. jobs[j] \in Row /\ jobs[j] # NoJob /\ deliveries[j] \in Sends
      /\ OneStory(jobs[j], deliveries[j])
      /\ jobs[j].lifecycle \notin {"completed", "failed", "cancelled", "recovery_review"}
  BY OfOneJob DEF Interrupted, Exists, Absorbing
<1>2. \A a, b \in StartedAttempts(j) : a = b
  BY <1>1 DEF StartedAttempts, OneStory, OneOf
<1>3. CASE StartedAttempts(j) # {}
  <2>1. PICK a \in Attempts : deliveries[j][a] = "started"
    BY <1>3 DEF StartedAttempts
  <2>2. jobs[j].lifecycle = "delivering"
    BY <1>1, <2>1 DEF OneStory, Agree
  <2>3. jobs[j].attempt \in Attempts /\ deliveries[j][jobs[j].attempt] = "started"
    BY <1>1, <2>2 DEF OneStory, Agree
  <2>4. RecoveryAttempt(j) \in Attempts /\ deliveries[j][RecoveryAttempt(j)] = "started"
    BY <1>3, <2>1 DEF RecoveryAttempt
  <2>5. RecoveryAttempt(j) = jobs[j].attempt
    BY <1>1, <2>3, <2>4 DEF OneStory, OneOf
  <2>6. RecoveryKind(j) = "delivery_unknown"
    BY <1>3 DEF RecoveryKind
  <2>7. Appendable(jobs[j], "delivery_unknown", RecoveryAttempt(j))
    BY <2>2, <2>5 DEF Appendable, Stale, TransitionFor, AllowedTransitions,
                      RunningKinds, DeliveryEndKinds
  <2>8. QED
    BY <1>2, <1>3, <2>4, <2>6, <2>7
<1>4. CASE StartedAttempts(j) = {}
  <2>1. jobs[j].lifecycle # "delivering"
    BY <1>1, <1>4 DEF OneStory, Agree, StartedAttempts
  <2>2. RecoveryAttempt(j) = jobs[j].attempt /\ jobs[j].attempt \in Attempts \cup {NoAttempt}
    BY <1>1, <1>4 DEF RecoveryAttempt, Row
  <2>3. RecoveryKind(j) \in {"recovered", "recovery_review_required"}
    BY <1>4 DEF RecoveryKind
  <2>4. jobs[j].lifecycle \in {"queued", "running", "waiting_approval", "retry_wait",
                               "result_ready"}
    BY <1>1, <2>1 DEF Row, Lifecycles, Absorbing
  <2>5. TransitionFor(RecoveryKind(j), jobs[j].lifecycle) \in {"queued", "recovery_review"}
    BY <2>3 DEF TransitionFor, RunningKinds, DeliveryEndKinds
  <2>6. TransitionFor(RecoveryKind(j), jobs[j].lifecycle)
          \in AllowedTransitions[jobs[j].lifecycle]
    BY <2>4, <2>5 DEF AllowedTransitions
  <2>7. ~Stale(jobs[j], RecoveryKind(j), jobs[j].attempt)
    BY DEF Stale
  <2>8. Appendable(jobs[j], RecoveryKind(j), RecoveryAttempt(j))
    BY <2>2, <2>6, <2>7 DEF Appendable
  <2>9. QED
    BY <1>2, <1>4, <2>2, <2>8
<1>5. QED
  BY <1>3, <1>4

\* What recovery makes of one interrupted job.
LEMMA RecoveredStory ==
    ASSUME IInv, NEW j \in Jobs, Interrupted(j)
    PROVE  /\ RecoveredRow(j) \in Row
           /\ Rediscovered(j) \in Sends
           /\ OneStory(RecoveredRow(j), Rediscovered(j))
<1> DEFINE row == Appended(jobs[j], RecoveryKind(j), RecoveryAttempt(j))
<1>1. jobs[j] \in Row /\ deliveries[j] \in Sends /\ OneStory(jobs[j], deliveries[j])
      /\ jobs[j].lifecycle \notin {"completed", "failed", "cancelled", "recovery_review"}
  BY OfOneJob DEF Interrupted, Exists, Absorbing
<1>2. row \in Row
  BY <1>1, RecoveryOfOneJob, AppendedType
<1>3. RecoveredRow(j) \in Row /\ RecoveredRow(j).lifecycle = row.lifecycle
  BY <1>2, DetachedType DEF RecoveredRow, Detached, Row
<1>4. Rediscovered(j) \in Sends
  BY <1>1 DEF Rediscovered, Sends, DeliveryStatus
<1>5. row.lifecycle = TransitionFor(RecoveryKind(j), jobs[j].lifecycle)
  BY DEF Appended
<1>6. \A a \in Attempts : deliveries[j][a] # "confirmed"
  BY <1>1 DEF OneStory, Agree
<1>7. CASE StartedAttempts(j) # {}
  <2>1. RecoveredRow(j).lifecycle = "completed"
    BY <1>3, <1>5, <1>7 DEF RecoveryKind, TransitionFor, RunningKinds, DeliveryEndKinds
  <2>2. \A a \in Attempts : Rediscovered(j)[a] \notin {"started", "confirmed"}
    BY <1>6 DEF Rediscovered
  <2>3. \A a \in Attempts : Rediscovered(j)[a] # "none" => deliveries[j][a] # "none"
    BY DEF Rediscovered
  <2>4. OneStory(RecoveredRow(j), Rediscovered(j))
    BY <1>1, <1>3, <2>1, <2>2, <2>3, NoJobIsNoJob DEF OneStory, Agree, OneOf
  <2>5. QED
    BY <1>3, <1>4, <2>4
<1>8. CASE StartedAttempts(j) = {}
  <2>1. jobs[j].lifecycle # "delivering"
    BY <1>1, <1>8, OfOneJob DEF OneStory, Agree, StartedAttempts, Interrupted, Exists
  <2>2. \A a \in Attempts : deliveries[j][a] = "none"
    BY <1>1, <2>1, NothingSent
  <2>3. \A a \in Attempts : Rediscovered(j)[a] = "none"
    BY <2>2 DEF Rediscovered
  <2>4. RecoveryKind(j) \in {"recovered", "recovery_review_required"}
    BY <1>8 DEF RecoveryKind
  <2>5. RecoveredRow(j).lifecycle # "delivering"
    BY <1>3, <1>5, <2>4 DEF TransitionFor, RunningKinds
  <2>6. QED
    BY <1>3, <1>4, <2>3, <2>5, NoStory
<1>9. QED
  BY <1>7, <1>8

LEMMA RecoverySteps ==
    ASSUME IInv
    PROVE  /\ RecoverInterruptedWork => IInv'
           /\ \A j \in Jobs : ParkRecovered(j) \/ DeleteRecovery(j) => IInv'
<1>0. ingress' = ingress =>
        ingress' \in [Messages -> [status : Decided \cup {"none"}, job : Jobs \cup {NoJob}]]
  BY DEF IInv, TypeOK
<1>1. ASSUME RecoverInterruptedWork PROVE IInv'
  <2>1. \A j \in Jobs : /\ jobs'[j] \in Row \cup {NoJob}
                        /\ deliveries'[j] \in Sends
                        /\ OneStory(jobs'[j], deliveries'[j])
    BY <1>1, RecoveredStory, OfOneJob DEF RecoverInterruptedWork
  <2>2. /\ jobs' \in [Jobs -> Row \cup {NoJob}]
        /\ deliveries' \in [Jobs -> Sends]
    BY <1>1, <2>1 DEF RecoverInterruptedWork
  <2>3. QED
    BY <1>0, <1>1, <2>1, <2>2
       DEF RecoverInterruptedWork, IInv, TypeOK, Sends, OneStory, Agree, OneOf
<1>2. ASSUME NEW j \in Jobs, ParkRecovered(j) PROVE IInv'
  <2> DEFINE row == Appended(jobs[j], "recovery_review_required", NoAttempt)
  <2>1. jobs[j] \in Row /\ deliveries[j] \in Sends /\ OneStory(jobs[j], deliveries[j])
        /\ jobs[j].lifecycle = "queued"
    BY <1>2, OfOneJob DEF ParkRecovered
  <2>2. row \in Row /\ row.lifecycle = "recovery_review"
    BY <2>1, AppendedType, SMTT(40) DEF Appended, TransitionFor, RunningKinds, DeliveryEndKinds
  <2>3. OneStory(row, deliveries[j])
    BY <2>1, <2>2, NothingSent, NoStory
  <2>4. jobs' = [jobs EXCEPT ![j] = row]
    BY <1>2 DEF ParkRecovered, Append
  <2>5. QED
    BY <1>0, <1>2, <2>2, <2>3, <2>4, OneRowChanges DEF ParkRecovered
<1>3. ASSUME NEW j \in Jobs, DeleteRecovery(j) PROVE IInv'
  <2> DEFINE row == [jobs[j] EXCEPT !.envelope = FALSE]
  <2>1. jobs[j] \in Row /\ jobs[j] # NoJob /\ deliveries[j] \in Sends
        /\ OneStory(jobs[j], deliveries[j])
    BY <1>3, OfOneJob DEF DeleteRecovery, Exists
  <2>2. row \in Row /\ row # NoJob
    BY <2>1, NoJobIsNoJob DEF Row
  <2>3. row.lifecycle = jobs[j].lifecycle /\ row.deliveryState = jobs[j].deliveryState
        /\ row.attempt = jobs[j].attempt
    BY <2>1 DEF Row
  <2>4. jobs' = [jobs EXCEPT ![j] = row]
    BY <1>3 DEF DeleteRecovery
  <2> HIDE DEF row
  <2>5. OneStory(row, deliveries[j])
    BY <2>1, <2>2, <2>3, SameStory
  <2>6. QED
    BY <1>0, <1>3, <2>2, <2>4, <2>5, OneRowChanges DEF DeleteRecovery
<1>4. QED
  BY <1>1, <1>2, <1>3

--------------------------------------------------------------------------------
(* The theorems *)

LEMMA NextInvariant == IInv /\ [Next]_vars => IInv'
<1> SUFFICES ASSUME IInv, [Next]_vars PROVE IInv'
  OBVIOUS
<1>1. CASE \E m \in Messages, status \in {"rejected", "handled"} : ReserveIngress(m, status)
  BY <1>1, IngressSteps
<1>2. CASE \E m \in Messages, j \in Jobs, envelope \in BOOLEAN : AcceptIngress(m, j, envelope)
  BY <1>2, IngressSteps
<1>3. CASE \E j \in Jobs, envelope \in BOOLEAN : CreateJob(j, envelope)
  <2>1. PICK j \in Jobs, envelope \in BOOLEAN : CreateJob(j, envelope)
    BY <1>3
  <2>2. FreshRow(envelope) \in Row /\ OneStory(FreshRow(envelope), deliveries[j])
    BY <2>1, FreshStory DEF CreateJob
  <2>3. QED
    BY <2>1, <2>2, OneRowChanges DEF CreateJob, IInv, TypeOK
<1>4. CASE \E j \in Jobs, kind \in CallerKinds, a \in Attempts \cup {NoAttempt} :
             RecordEvent(j, kind, a)
  <2>1. PICK j \in Jobs, kind \in CallerKinds, a \in Attempts \cup {NoAttempt} :
           RecordEvent(j, kind, a)
    BY <1>4
  <2>2. kind \in PlainKinds /\ kind # "attempt_reserved"
    BY DEF PlainKinds, CallerKinds, RunningKinds
  <2>3. QED
    BY <2>1, <2>2, AppendSteps DEF RecordEvent
<1>5. CASE \E j \in Jobs, a \in Attempts : ReserveAttempt(j, a)
  <2>1. PICK j \in Jobs, a \in Attempts : ReserveAttempt(j, a)
    BY <1>5
  <2>2. /\ "attempt_reserved" \in PlainKinds
        /\ a \in Attempts \cup {NoAttempt}
        /\ Append(j, "attempt_reserved", a)
        /\ jobs[j].attempt = NoAttempt
        /\ UNCHANGED <<deliveries, ingress>>
    BY <2>1 DEF ReserveAttempt, PlainKinds
  <2>3. QED
    BY <2>2, AppendSteps
<1>6. CASE \E j \in Jobs, a \in Attempts : AttachAttempt(j, a)
  BY <1>6, AppendSteps DEF AttachAttempt, PlainKinds
<1>7. CASE \E j \in Jobs, a \in Attempts, unattached \in BOOLEAN : FailAttempt(j, a, unattached)
  BY <1>7, FailStep
<1>8. CASE \E j \in Jobs, a \in Attempts : StartDelivery(j, a)
  BY <1>8, StartStep
<1>9. CASE \E j \in Jobs, a \in Attempts : RediscoverDelivery(j, a)
  BY <1>9, EndStep
<1>10. CASE \E j \in Jobs, a \in Attempts, status \in {"confirmed", "unknown", "failed"} :
              FinishDelivery(j, a, status)
  BY <1>10, EndStep
<1>11. CASE RecoverInterruptedWork
  BY <1>11, RecoverySteps
<1>12. CASE \E j \in Jobs : ParkRecovered(j)
  BY <1>12, RecoverySteps
<1>13. CASE \E j \in Jobs : DeleteRecovery(j)
  BY <1>13, RecoverySteps
<1>14. CASE UNCHANGED vars
  BY <1>14 DEF vars, IInv, TypeOK, OneStory, Agree, OneOf
<1>15. QED
  BY <1>1, <1>2, <1>3, <1>4, <1>5, <1>6, <1>7, <1>8, <1>9, <1>10, <1>11, <1>12, <1>13,
     <1>14 DEF Next

THEOREM Invariance == Spec => []IInv
BY InitInvariant, NextInvariant, PTL DEF Spec

\* The tables hold only rows the program knows, whatever order the transactions of
\* the three writers run in.
THEOREM TypeCorrect == Spec => []TypeOK
<1>1. IInv => TypeOK
  BY DEF IInv
<1>2. QED
  BY <1>1, Invariance, PTL

\* No job is ever answered twice: one delivery row per job over all its attempts
\* (reserveDelivery, finishDelivery, recoverInterruptedWork).
THEOREM DeliveredOnce == Spec => []OneDelivery
<1>1. IInv => OneDelivery
  BY DEF IInv, OneStory, OneOf, OneDelivery
<1>2. QED
  BY <1>1, Invariance, PTL

\* jobs and delivery_attempts never disagree about a send (appendEvent against the
\* delivery transactions).
THEOREM OneStoryOfASend == Spec => []DeliveryTablesAgree
<1>1. IInv => DeliveryTablesAgree
  BY DEF IInv, OneStory, DeliveryTablesAgree
<1>2. QED
  BY <1>1, Invariance, PTL

\* recoverInterruptedWork never meets a job whose recovery event is illegal, so the
\* service can always start on its store.
THEOREM AlwaysRecoverable == Spec => []RecoveryCannotFail
<1>1. IInv => RecoveryCannotFail
  BY RecoveryOfOneJob DEF RecoveryCannotFail, RecoveryLegal
<1>2. QED
  BY <1>1, Invariance, PTL

--------------------------------------------------------------------------------
(* Finality *)

\* What FinishedIsFinal says of one job in one step.
Final(j) ==
    Exists(j) /\ jobs[j].lifecycle \in Absorbing =>
        /\ jobs'[j].lifecycle = jobs[j].lifecycle
        /\ jobs[j].lifecycle = "completed" =>
              jobs'[j].deliveryState = jobs[j].deliveryState

\* A step that replaces the row of one job is final if its own row is.
LEMMA FinalOfOneRow ==
    ASSUME IInv, NEW i \in Jobs, NEW row, jobs' = [jobs EXCEPT ![i] = row],
           Exists(i) /\ jobs[i].lifecycle \in Absorbing =>
              /\ row.lifecycle = jobs[i].lifecycle
              /\ jobs[i].lifecycle = "completed" => row.deliveryState = jobs[i].deliveryState
    PROVE  \A j \in Jobs : Final(j)
<1>1. jobs \in [Jobs -> Row \cup {NoJob}]
  BY DEF IInv, TypeOK
<1>2. ASSUME NEW j \in Jobs PROVE Final(j)
  <2>1. CASE j = i
    BY <1>1, <2>1 DEF Final
  <2>2. CASE j # i
    BY <1>1, <2>2 DEF Final
  <2>3. QED
    BY <2>1, <2>2
<1>3. QED
  BY <1>2

\* A plain append is final.
LEMMA PlainIsFinal ==
    ASSUME IInv, NEW i \in Jobs, NEW a \in Attempts \cup {NoAttempt},
           NEW kind \in PlainKinds, Exists(i), Appendable(jobs[i], kind, a)
    PROVE  /\ Appended(jobs[i], kind, a) \in Row
           /\ jobs[i].lifecycle \in Absorbing =>
                Appended(jobs[i], kind, a).lifecycle = jobs[i].lifecycle
           /\ Appended(jobs[i], kind, a).deliveryState = jobs[i].deliveryState
BY OfOneJob, AppendedType, AbsorbingStays, PlainAppend DEF Exists

LEMMA AppendIsFinal ==
    ASSUME IInv, NEW i \in Jobs, NEW a \in Attempts \cup {NoAttempt},
           NEW kind \in PlainKinds, Append(i, kind, a)
    PROVE  \A j \in Jobs : Final(j)
BY PlainIsFinal, FinalOfOneRow DEF Append

\* The delivery transactions only touch a job that has not finished.
LEMMA DeliveryIsFinal ==
    ASSUME IInv, NEW i \in Jobs, NEW a \in Attempts,
           NEW kind \in DeliveryEndKinds \cup {"delivery_started"},
           kind # "delivery_started" => deliveries[i][a] = "started",
           kind = "delivery_started" => deliveries[i][a] = "none",
           Append(i, kind, a)
    PROVE  \A j \in Jobs : Final(j)
<1>1. jobs[i] \in Row /\ jobs[i] # NoJob /\ OneStory(jobs[i], deliveries[i])
      /\ Appendable(jobs[i], kind, a)
  BY OfOneJob DEF Append, Exists
<1>2. TransitionFor(kind, jobs[i].lifecycle) \in {"delivering", "completed"}
  BY DEF TransitionFor, RunningKinds, DeliveryEndKinds
<1>3. kind # "delivery_started" => TransitionFor(kind, jobs[i].lifecycle) = "completed"
  BY DEF TransitionFor, RunningKinds, DeliveryEndKinds
<1>4. kind = "delivery_started" => TransitionFor(kind, jobs[i].lifecycle) = "delivering"
  BY DEF TransitionFor, RunningKinds, DeliveryEndKinds
<1>5. jobs[i].lifecycle \notin Absorbing
  <2>1. CASE kind = "delivery_started"
    BY <1>1, <1>4, <2>1 DEF Appendable, AllowedTransitions, Absorbing
  <2>2. CASE kind # "delivery_started"
    <3>1. jobs[i].lifecycle \in {"delivering", "failed"}
      BY <1>1, <2>2 DEF OneStory, Agree
    <3>2. QED
      BY <1>1, <1>3, <2>2, <3>1 DEF Appendable, AllowedTransitions, Absorbing
  <2>3. QED
    BY <2>1, <2>2
<1>6. QED
  BY <1>5, FinalOfOneRow DEF Append

LEMMA NextIsFinal ==
    ASSUME IInv, [Next]_vars
    PROVE  \A j \in Jobs : Final(j)
<1> USE DEF PlainKinds
<1>1. CASE \E m \in Messages, status \in {"rejected", "handled"} : ReserveIngress(m, status)
  BY <1>1 DEF ReserveIngress, Final
<1>2. CASE \E m \in Messages, j \in Jobs, envelope \in BOOLEAN : AcceptIngress(m, j, envelope)
  BY <1>2, FinalOfOneRow DEF AcceptIngress
<1>3. CASE \E j \in Jobs, envelope \in BOOLEAN : CreateJob(j, envelope)
  BY <1>3, FinalOfOneRow DEF CreateJob
<1>4. CASE \E j \in Jobs, kind \in CallerKinds, a \in Attempts \cup {NoAttempt} :
             RecordEvent(j, kind, a)
  BY <1>4, AppendIsFinal DEF RecordEvent
<1>5. CASE \E j \in Jobs, a \in Attempts : ReserveAttempt(j, a)
  BY <1>5, AppendIsFinal DEF ReserveAttempt
<1>6. CASE \E j \in Jobs, a \in Attempts : AttachAttempt(j, a)
  BY <1>6, AppendIsFinal DEF AttachAttempt
<1>7. CASE \E j \in Jobs, a \in Attempts, unattached \in BOOLEAN : FailAttempt(j, a, unattached)
  <2>1. PICK j \in Jobs, a \in Attempts, unattached \in BOOLEAN : FailAttempt(j, a, unattached)
    BY <1>7
  <2>2. "failed" \in PlainKinds
    BY DEF CallerKinds
  <2>3. /\ Appended(jobs[j], "failed", a) \in Row
        /\ jobs[j].lifecycle \in Absorbing =>
             Appended(jobs[j], "failed", a).lifecycle = jobs[j].lifecycle
        /\ Appended(jobs[j], "failed", a).deliveryState = jobs[j].deliveryState
    BY <2>1, <2>2, PlainIsFinal DEF FailAttempt
  <2>4. QED
    BY <2>1, <2>3, FinalOfOneRow DEF FailAttempt, Detached, Row
<1>8. CASE \E j \in Jobs, a \in Attempts : StartDelivery(j, a)
  BY <1>8, DeliveryIsFinal DEF StartDelivery, DeliveryEndKinds
<1>9. CASE \E j \in Jobs, a \in Attempts : RediscoverDelivery(j, a)
  BY <1>9, DeliveryIsFinal DEF RediscoverDelivery, DeliveryEndKinds
<1>10. CASE \E j \in Jobs, a \in Attempts, status \in {"confirmed", "unknown", "failed"} :
              FinishDelivery(j, a, status)
  <2>1. PICK j \in Jobs, a \in Attempts, status \in {"confirmed", "unknown", "failed"} :
              FinishDelivery(j, a, status)
    BY <1>10
  <2>2. DeliveryEndKind(status) \in DeliveryEndKinds /\ DeliveryEndKind(status) # "delivery_started"
    BY DEF DeliveryEndKind, DeliveryEndKinds
  <2>3. QED
    BY <2>1, <2>2, DeliveryIsFinal DEF FinishDelivery
<1>11. CASE RecoverInterruptedWork
  BY <1>11 DEF RecoverInterruptedWork, Interrupted, Final, Absorbing
<1>12. CASE \E j \in Jobs : ParkRecovered(j)
  BY <1>12, FinalOfOneRow DEF ParkRecovered, Append, Absorbing
<1>13. CASE \E j \in Jobs : DeleteRecovery(j)
  <2>1. PICK j \in Jobs : DeleteRecovery(j)
    BY <1>13
  <2>2. jobs[j] \in Row
    BY <2>1, OfOneJob DEF DeleteRecovery
  <2>3. QED
    BY <2>1, <2>2, FinalOfOneRow DEF DeleteRecovery, Row
<1>14. CASE UNCHANGED vars
  BY <1>14 DEF vars, Final
<1>15. QED
  BY <1>1, <1>2, <1>3, <1>4, <1>5, <1>6, <1>7, <1>8, <1>9, <1>10, <1>11, <1>12, <1>13,
     <1>14 DEF Next

\* A finished job is never reopened and the outcome of its send never rewritten, by
\* no transaction of any attempt (appendEvent's transition and stale checks).
THEOREM FinishedForever == Spec => FinishedIsFinal
<1>1. ASSUME IInv, [Next]_vars
      PROVE  \A j \in Jobs : Final(j)
  BY <1>1, NextIsFinal
<1>2. IInv /\ [Next]_vars =>
        [\A j \in Jobs :
          Exists(j) /\ jobs[j].lifecycle \in Absorbing =>
              /\ jobs'[j].lifecycle = jobs[j].lifecycle
              /\ jobs[j].lifecycle = "completed" =>
                    jobs'[j].deliveryState = jobs[j].deliveryState]_vars
  BY <1>1 DEF Final
<1>3. QED
  BY <1>2, Invariance, PTL DEF Spec, FinishedIsFinal
--------------------------------------------------------------------------------
(* What a transaction can do to a row *)

\* the kinds any transaction appends
EventKinds == PlainKinds \cup DeliveryEndKinds \cup {"delivery_started", "recovery_review_required"}

\* the row after one event, with its attempt or cleared of it
AfterEvent(row, new) ==
    \E kind \in EventKinds, a \in Attempts \cup {NoAttempt} :
        /\ Appendable(row, kind, a)
        /\ new = Appended(row, kind, a) \/ new = Detached(Appended(row, kind, a))

RowStep(row, new) ==
    \/ new = row
    \/ row = NoJob /\ \E envelope \in BOOLEAN : new = FreshRow(envelope)
    \/ row \in Row /\ AfterEvent(row, new)
    \/ row \in Row /\ new = [row EXCEPT !.envelope = FALSE]

\* A step that replaces one row leaves every other alone.
LEMMA OneRowStep ==
    ASSUME IInv, NEW i \in Jobs, NEW new, jobs' = [jobs EXCEPT ![i] = new],
           RowStep(jobs[i], new)
    PROVE  \A j \in Jobs : RowStep(jobs[j], jobs'[j])
<1>1. jobs \in [Jobs -> Row \cup {NoJob}]
  BY DEF IInv, TypeOK
<1>2. ASSUME NEW j \in Jobs PROVE RowStep(jobs[j], jobs'[j])
  <2>1. CASE j = i
    BY <1>1, <2>1
  <2>2. CASE j # i
    BY <1>1, <2>2 DEF RowStep
  <2>3. QED
    BY <2>1, <2>2
<1>3. QED
  BY <1>2

LEMMA AppendIsRowStep ==
    ASSUME IInv, NEW i \in Jobs, NEW kind \in EventKinds,
           NEW a \in Attempts \cup {NoAttempt}, Append(i, kind, a)
    PROVE  \A j \in Jobs : RowStep(jobs[j], jobs'[j])
<1>1. jobs[i] \in Row /\ Appendable(jobs[i], kind, a)
  BY OfOneJob DEF Append
<1>2. jobs' = [jobs EXCEPT ![i] = Appended(jobs[i], kind, a)]
  BY DEF Append
<1>3. QED
  BY <1>1, <1>2, OneRowStep DEF RowStep, AfterEvent

\* Whatever a transaction does, each row is kept, made anew, given one legal event,
\* or loses its sealed request.
LEMMA NextRows ==
    ASSUME IInv, [Next]_vars
    PROVE  \A j \in Jobs : RowStep(jobs[j], jobs'[j])
<1>1. CASE \E m \in Messages, status \in {"rejected", "handled"} : ReserveIngress(m, status)
  BY <1>1 DEF ReserveIngress, RowStep
<1>2. CASE \E m \in Messages, j \in Jobs, envelope \in BOOLEAN : AcceptIngress(m, j, envelope)
  <2>1. PICK j \in Jobs, envelope \in BOOLEAN :
           ~Exists(j) /\ jobs' = [jobs EXCEPT ![j] = FreshRow(envelope)]
    BY <1>2 DEF AcceptIngress
  <2>2. QED
    BY <2>1, OneRowStep DEF RowStep, Exists
<1>3. CASE \E j \in Jobs, envelope \in BOOLEAN : CreateJob(j, envelope)
  <2>1. PICK j \in Jobs, envelope \in BOOLEAN :
           ~Exists(j) /\ jobs' = [jobs EXCEPT ![j] = FreshRow(envelope)]
    BY <1>3 DEF CreateJob
  <2>2. QED
    BY <2>1, OneRowStep DEF RowStep, Exists
<1>4. CASE \E j \in Jobs, kind \in CallerKinds, a \in Attempts \cup {NoAttempt} :
             RecordEvent(j, kind, a)
  BY <1>4, AppendIsRowStep DEF RecordEvent, EventKinds, PlainKinds
<1>5. CASE \E j \in Jobs, a \in Attempts : ReserveAttempt(j, a)
  BY <1>5, AppendIsRowStep DEF ReserveAttempt, EventKinds, PlainKinds
<1>6. CASE \E j \in Jobs, a \in Attempts : AttachAttempt(j, a)
  BY <1>6, AppendIsRowStep DEF AttachAttempt, EventKinds, PlainKinds
<1>7. CASE \E j \in Jobs, a \in Attempts, unattached \in BOOLEAN : FailAttempt(j, a, unattached)
  <2>1. PICK j \in Jobs, a \in Attempts :
           /\ jobs[j] \in Row /\ Appendable(jobs[j], "failed", a)
           /\ jobs' = [jobs EXCEPT ![j] = Detached(Appended(jobs[j], "failed", a))]
    BY <1>7, OfOneJob DEF FailAttempt
  <2>2. "failed" \in EventKinds
    BY DEF EventKinds, PlainKinds, CallerKinds
  <2>3. AfterEvent(jobs[j], Detached(Appended(jobs[j], "failed", a)))
    BY <2>1, <2>2 DEF AfterEvent
  <2>4. QED
    BY <2>1, <2>3, OneRowStep DEF RowStep
<1>8. CASE \E j \in Jobs, a \in Attempts : StartDelivery(j, a)
  BY <1>8, AppendIsRowStep DEF StartDelivery, EventKinds
<1>9. CASE \E j \in Jobs, a \in Attempts : RediscoverDelivery(j, a)
  BY <1>9, AppendIsRowStep DEF RediscoverDelivery, EventKinds, DeliveryEndKinds
<1>10. CASE \E j \in Jobs, a \in Attempts, status \in {"confirmed", "unknown", "failed"} :
              FinishDelivery(j, a, status)
  <2>1. PICK j \in Jobs, a \in Attempts, status \in {"confirmed", "unknown", "failed"} :
              Append(j, DeliveryEndKind(status), a)
    BY <1>10 DEF FinishDelivery
  <2>2. DeliveryEndKind(status) \in EventKinds
    BY DEF DeliveryEndKind, DeliveryEndKinds, EventKinds
  <2>3. QED
    BY <2>1, <2>2, AppendIsRowStep
<1>11. CASE RecoverInterruptedWork
  <2>1. ASSUME NEW j \in Jobs, Interrupted(j)
        PROVE  jobs[j] \in Row /\ AfterEvent(jobs[j], RecoveredRow(j))
    <3>1. /\ Appendable(jobs[j], RecoveryKind(j), RecoveryAttempt(j))
          /\ RecoveryAttempt(j) \in Attempts \cup {NoAttempt}
      BY <2>1, RecoveryOfOneJob
    <3>2. RecoveryKind(j) \in EventKinds
      BY DEF RecoveryKind, EventKinds, PlainKinds, CallerKinds, DeliveryEndKinds
    <3>3. QED
      BY <2>1, <3>1, <3>2, OfOneJob DEF AfterEvent, RecoveredRow, Interrupted
  <2>2. QED
    BY <1>11, <2>1 DEF RecoverInterruptedWork, RowStep
<1>12. CASE \E j \in Jobs : ParkRecovered(j)
  BY <1>12, AppendIsRowStep DEF ParkRecovered, EventKinds
<1>13. CASE \E j \in Jobs : DeleteRecovery(j)
  <2>1. PICK j \in Jobs :
           jobs[j] \in Row /\ jobs' = [jobs EXCEPT ![j] = [jobs[j] EXCEPT !.envelope = FALSE]]
    BY <1>13, OfOneJob DEF DeleteRecovery
  <2>2. QED
    BY <2>1, OneRowStep DEF RowStep
<1>14. CASE UNCHANGED vars
  BY <1>14 DEF vars, RowStep
<1>15. QED
  BY <1>1, <1>2, <1>3, <1>4, <1>5, <1>6, <1>7, <1>8, <1>9, <1>10, <1>11, <1>12, <1>13,
     <1>14 DEF Next

\* A row is never removed: nothing makes NoJob of it.
LEMMA RowStays ==
    ASSUME NEW row, NEW new, RowStep(row, new), row # NoJob
    PROVE  new # NoJob
<1>1. CASE row \in Row /\ AfterEvent(row, new)
  BY <1>1, AppendedType, DetachedType, NoJobIsNoJob DEF AfterEvent
<1>2. CASE row \in Row /\ new = [row EXCEPT !.envelope = FALSE]
  <2>1. new \in Row
    BY <1>2 DEF Row
  <2>2. QED
    BY <2>1, NoJobIsNoJob
<1>3. QED
  BY <1>1, <1>2 DEF RowStep

--------------------------------------------------------------------------------
(* The sealed request *)

\* What EnvelopeOnlyWhileUseful says of one row.
Useful(row) ==
    row # NoJob /\ row.envelope =>
        /\ row.lifecycle \notin {"cancelled", "recovery_review"}
        /\ row.lifecycle = "completed" => row.deliveryState \in {"unknown", "failed"}

\* No event leaves a request behind that its job can no longer use (the DELETE of
\* appendEvent against its transitions).
LEMMA AppendedUseful ==
    ASSUME NEW row \in Row, NEW kind, NEW a, Useful(row), Appendable(row, kind, a),
           row # NoJob
    PROVE  LET new == Appended(row, kind, a) IN
           new.envelope =>
               /\ new.lifecycle \notin {"cancelled", "recovery_review"}
               /\ new.lifecycle = "completed" => new.deliveryState \in {"unknown", "failed"}
<1> DEFINE new == Appended(row, kind, a)
<1> SUFFICES ASSUME new.envelope
             PROVE  /\ new.lifecycle \notin {"cancelled", "recovery_review"}
                    /\ new.lifecycle = "completed" => new.deliveryState \in {"unknown", "failed"}
  OBVIOUS
<1>1. /\ row.envelope
      /\ kind \notin {"delivery_confirmed", "completed", "cancelled", "recovery_review_required"}
  BY DEF Appended, DropsEnvelope
<1>2. /\ row.lifecycle \notin {"cancelled", "recovery_review"}
      /\ row.lifecycle = "completed" => row.deliveryState \in {"unknown", "failed"}
  BY <1>1 DEF Useful
<1>3. new.lifecycle = TransitionFor(kind, row.lifecycle)
  BY DEF Appended
<1>4. new.lifecycle \notin {"cancelled", "recovery_review"}
  BY <1>1, <1>2, <1>3 DEF TransitionFor, RunningKinds, DeliveryEndKinds
<1>5. ASSUME new.lifecycle = "completed"
      PROVE  new.deliveryState \in {"unknown", "failed"}
  <2>1. CASE kind \in {"delivery_unknown", "delivery_failed"}
    BY <2>1 DEF Appended
  <2>2. CASE kind \notin {"delivery_unknown", "delivery_failed"}
    <3>1. row.lifecycle = "completed" /\ kind # "delivery_started"
      BY <1>1, <1>3, <1>5, <2>2 DEF TransitionFor, RunningKinds, DeliveryEndKinds
    <3>2. QED
      BY <1>1, <1>2, <2>2, <3>1 DEF Appended
  <2>3. QED
    BY <2>1, <2>2
<1>6. QED
  BY <1>4, <1>5

LEMMA RowStepUseful ==
    ASSUME NEW row, NEW new, RowStep(row, new), Useful(row)
    PROVE  Useful(new)
<1>1. CASE row = NoJob /\ \E envelope \in BOOLEAN : new = FreshRow(envelope)
  BY <1>1 DEF Useful, FreshRow
<1>2. CASE row \in Row /\ AfterEvent(row, new)
  <2>1. PICK kind \in EventKinds, a \in Attempts \cup {NoAttempt} :
           /\ Appendable(row, kind, a)
           /\ new = Appended(row, kind, a) \/ new = Detached(Appended(row, kind, a))
    BY <1>2 DEF AfterEvent
  <2> DEFINE old == Appended(row, kind, a)
  <2>2. /\ old \in Row
        /\ old.envelope => /\ old.lifecycle \notin {"cancelled", "recovery_review"}
                           /\ old.lifecycle = "completed"
                                => old.deliveryState \in {"unknown", "failed"}
    BY <1>2, <2>1, AppendedUseful, AppendedType, NoJobIsNoJob
  <2>3. new = old \/ new = Detached(old)
    BY <2>1
  <2> HIDE DEF old
  <2>4. QED
    BY <2>2, <2>3 DEF Useful, Detached, Row
<1>3. CASE row \in Row /\ new = [row EXCEPT !.envelope = FALSE]
  BY <1>3 DEF Useful, Row
<1>4. QED
  BY <1>1, <1>2, <1>3 DEF RowStep

\* The sealed request of a job is gone as soon as nothing may re-execute the job: no
\* order of events, sends and recoveries leaves one in a cancelled or parked row, or
\* in one whose answer was confirmed (appendEvent, deleteJobRecovery).
THEOREM RequestsAreDropped == Spec => []EnvelopeOnlyWhileUseful
<1> DEFINE UInv == \A j \in Jobs : Useful(jobs[j])
<1>1. Init => UInv
  BY DEF Init, Useful
<1>2. IInv /\ UInv /\ [Next]_vars => UInv'
  BY NextRows, RowStepUseful
<1>3. UInv => EnvelopeOnlyWhileUseful
  BY DEF Useful, EnvelopeOnlyWhileUseful, Exists
<1>4. QED
  BY <1>1, <1>2, <1>3, Invariance, PTL DEF Spec

--------------------------------------------------------------------------------
(* Messages *)

\* What one transaction does to the ingress table: nothing, or one message that was
\* not decided is.
LEMMA NextIngress ==
    ASSUME IInv, [Next]_vars
    PROVE  \/ ingress' = ingress
           \/ \E m \in Messages, status \in {"rejected", "handled"} :
                 /\ ingress[m].status = "none"
                 /\ ingress' = [ingress EXCEPT ![m].status = status]
           \/ \E m \in Messages, j \in Jobs :
                 /\ ingress[m].status = "none"
                 /\ ~Exists(j) /\ Exists(j)'
                 /\ ingress' = [ingress EXCEPT ![m] = [status |-> "accepted", job |-> j]]
<1>1. CASE \E m \in Messages, status \in {"rejected", "handled"} : ReserveIngress(m, status)
  BY <1>1 DEF ReserveIngress
<1>2. CASE \E m \in Messages, j \in Jobs, envelope \in BOOLEAN : AcceptIngress(m, j, envelope)
  <2>1. PICK m \in Messages, j \in Jobs, envelope \in BOOLEAN : AcceptIngress(m, j, envelope)
    BY <1>2
  <2>2. jobs'[j] = FreshRow(envelope)
    BY <2>1 DEF AcceptIngress, IInv, TypeOK
  <2>3. FreshRow(envelope) # NoJob
    BY <2>1, FreshStory, NoJobIsNoJob DEF AcceptIngress
  <2>4. QED
    BY <2>1, <2>2, <2>3 DEF AcceptIngress, Exists
<1>3. CASE UNCHANGED ingress
  BY <1>3
<1>4. QED
  BY <1>1, <1>2, <1>3
     DEF Next, vars, CreateJob, RecordEvent, ReserveAttempt, AttachAttempt, FailAttempt,
         StartDelivery, RediscoverDelivery, FinishDelivery, RecoverInterruptedWork,
         ParkRecovered, DeleteRecovery

\* An accepted message has a job in the store, and no other message has it.
MessagesInv ==
    \A m, n \in Messages :
        ingress[m].status = "accepted" =>
            /\ ingress[m].job \in Jobs /\ Exists(ingress[m].job)
            /\ ingress[n].status = "accepted" /\ ingress[m].job = ingress[n].job => m = n

LEMMA NextMessages ==
    ASSUME IInv, MessagesInv, [Next]_vars
    PROVE  MessagesInv'
<1>1. \A j \in Jobs : Exists(j) => Exists(j)'
  BY NextRows, RowStays DEF Exists
<1>2. ingress \in [Messages -> [status : Decided \cup {"none"}, job : Jobs \cup {NoJob}]]
  BY DEF IInv, TypeOK
<1>3. CASE ingress' = ingress
  BY <1>1, <1>3 DEF MessagesInv, Exists
<1>4. ASSUME NEW m \in Messages, NEW status \in {"rejected", "handled"},
             ingress' = [ingress EXCEPT ![m].status = status]
      PROVE  MessagesInv'
  <2>1. \A n \in Messages :
           ingress'[n].status = "accepted" => ingress'[n] = ingress[n]
    BY <1>2, <1>4
  <2>2. QED
    BY <1>1, <2>1 DEF MessagesInv, Exists
<1>5. ASSUME NEW m \in Messages, NEW j \in Jobs, ~Exists(j), Exists(j)',
             ingress' = [ingress EXCEPT ![m] = [status |-> "accepted", job |-> j]]
      PROVE  MessagesInv'
  <2>1. /\ ingress'[m] = [status |-> "accepted", job |-> j]
        /\ \A n \in Messages : n # m => ingress'[n] = ingress[n]
    BY <1>2, <1>5
  <2>2. QED
    BY <1>1, <1>5, <2>1 DEF MessagesInv, Exists
<1>6. QED
  BY <1>3, <1>4, <1>5, NextIngress

\* Two messages never share a job, and a message is marked accepted only together
\* with its job (acceptIngressAndCreateJob), whatever crash or retry comes between.
THEOREM OneJobEach == Spec => []OneJobPerMessage
<1>1. Init => MessagesInv
  BY DEF Init, MessagesInv
<1>2. IInv /\ MessagesInv /\ [Next]_vars => MessagesInv'
  BY NextMessages
<1>3. MessagesInv => OneJobPerMessage
  BY DEF MessagesInv, OneJobPerMessage
<1>4. QED
  BY <1>1, <1>2, <1>3, Invariance, PTL DEF Spec

\* What was decided about a message is never decided again, by no replayed dispatch.
THEOREM DecidedForever == Spec => DecidedOnce
<1>1. IInv /\ [Next]_vars =>
        [\A m \in Messages : ingress[m].status # "none" => ingress'[m] = ingress[m]]_vars
  <2> SUFFICES ASSUME IInv, [Next]_vars, NEW m \in Messages, ingress[m].status # "none"
               PROVE  ingress'[m] = ingress[m]
    OBVIOUS
  <2>1. ingress \in [Messages -> [status : Decided \cup {"none"}, job : Jobs \cup {NoJob}]]
    BY DEF IInv, TypeOK
  <2>2. QED
    BY <2>1, NextIngress
<1>2. QED
  BY <1>1, Invariance, PTL DEF Spec, DecidedOnce
================================================================================
