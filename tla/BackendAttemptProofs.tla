------------------------ MODULE BackendAttemptProofs ------------------------
(***************************************************************************)
(* For any hosts, backends and reasons to abort: a backend is started at    *)
(* most once, an attempt recorded as succeeded has earned it, and what is   *)
(* answered and put down to the quota is what was heard.                    *)
(***************************************************************************)
EXTENDS BackendAttempt, TLAPS

Outcomes == {"none", "success", "failure"}
Reasons == AbortReasons \cup {"none", "timeout", "approval_ui", "internal_error"}

\* What runBackendAttempt keeps, what a line can be read as, what was heard.
Attempts ==
    [at : {"none", "running", "cleaning", "draining", "forcing", "ended", "abandoned"},
     exit : {"none", "zero", "failed"}, outcome : Outcomes,
     failure : {"none", "quota", "internal_error"}, pending : BOOLEAN,
     text : Texts \cup {"none"}, reason : Reasons, signalled : BOOLEAN, error : BOOLEAN,
     file : {"none", "empty", "unfit", "text"}]
Inspected ==
    [structured : BOOLEAN, outcome : Outcomes, quota : BOOLEAN, pending : BOOLEAN,
     text : {"none", "draft", "final"}, approval : BOOLEAN]
Heardings ==
    [success : BOOLEAN, failure : BOOLEAN, quota : BOOLEAN, hint : BOOLEAN, asked : BOOLEAN,
     last : Texts \cup {"none"}]

Typed ==
    /\ host \in [Hosts -> {"idle", "checked", "preparing", "running", "answered", "dead"}]
    /\ kind \in Kinds
    /\ starts \in Nat
    /\ attempt \in Attempts
    /\ said \in Heardings
    /\ group \in [leader : {"none", "alive", "gone", "lost"}, members : BOOLEAN]

\* One host at a time has the attempt in hand, under a row that is still open; it
\* has not started anything before it runs, and nobody has before there is a row.
InHand(h) == host[h] \in {"preparing", "running"}
HostInv ==
    /\ \A g, h \in Hosts : InHand(g) /\ InHand(h) => g = h
    /\ \A h \in Hosts : InHand(h) => job = "open"
    /\ \A h \in Hosts : host[h] = "preparing" => starts = 0
    /\ job = "none" => starts = 0
    /\ starts <= 1

\* What was heard is in what will decide.
Told(a, s) ==
    /\ s.failure => a.outcome = "failure"
    /\ a.outcome = "success" => s.success
    /\ s.asked => a.reason # "none"

\* Who drains has confirmed the end of the group, or has a reason.
DrainInv ==
    /\ attempt.at = "draining" /\ attempt.reason = "none" => ~group.members
    /\ attempt.at = "forcing" => attempt.reason # "none"

IInv ==
    /\ Typed
    /\ HostInv
    /\ Told(attempt, said)
    /\ DrainInv
    /\ job = "succeeded" => attempt.at = "ended"
    /\ SuccessEarned

-----------------------------------------------------------------------------
(* Lines and what the runner makes of them.                                 *)

RawLines == [form : {"raw"}, quota : BOOLEAN, approval : BOOLEAN]

LEMMA RawLine ==
    /\ Raw \in RawLines
    /\ [Raw EXCEPT !.quota = TRUE] \in RawLines
    /\ [Raw EXCEPT !.approval = TRUE] \in RawLines
<1>1. Raw \in RawLines
  BY DEF Raw, RawLines
<1> QED  BY <1>1 DEF RawLines

Messages ==
    [form : {"json"}, type : {"message", "end", "tool", "error", "approval"},
     status : {"good", "bad", "other"}, quota : BOOLEAN, text : {"draft", "final"}]

LEMMA LineForms ==
    ASSUME NEW m \in Lines
    PROVE  m \in RawLines \/ m = [form |-> "misshapen"] \/ m \in Messages
<1> DEFINE q == [Raw EXCEPT !.quota = TRUE]
           a == [Raw EXCEPT !.approval = TRUE]
           plain == Message("message", "other") \cup Message("end", "good")
           bad == UNION {Message("tool", "bad"), Message("end", "bad"),
                         Message("end", "other"), Message("error", "bad"),
                         Message("approval", "other")}
<1>1. m \in {Raw, q, a, [form |-> "misshapen"]} \/ m \in plain \/ m \in bad
  BY DEF Lines
<1>2. \A type \in {"message", "end", "tool", "error", "approval"},
        status \in {"good", "bad", "other"} : Message(type, status) \subseteq Messages
  BY DEF Message, Messages
<1>3. plain \subseteq Messages /\ bad \subseteq Messages
  BY <1>2
<1> HIDE DEF q, a, plain, bad
<1>4. Raw \in RawLines /\ q \in RawLines /\ a \in RawLines
  BY RawLine DEF q, a
<1> QED  BY <1>1, <1>3, <1>4

\* Only a message has an outcome, a text or a quota's code, a request for an approval
\* has none of them, and a failure that names the quota is a failure.
OnlyMessagesTell(i) ==
    /\ ~i.structured \/ i.approval => i.outcome = "none" /\ i.text = "none" /\ ~i.quota
    /\ i.quota => i.outcome = "failure"

LEMMA WhatALineSays ==
    ASSUME NEW b \in Backends \cup {"codex"}, NEW i \in Readings[b]
    PROVE  i \in Inspected /\ OnlyMessagesTell(i)
<1> USE DEF OnlyMessagesTell
<1>1. PICK m \in Lines : i = inspectBackendLine(b, m)
  BY DEF Readings
<1>2. CASE m \in RawLines
  <2>1. i = [structured |-> FALSE, outcome |-> "none", quota |-> FALSE, pending |-> m.quota,
             text |-> "none", approval |-> m.approval]
    <3>1. m.form = "raw"
      BY <1>2 DEF RawLines
    <3> QED  BY <1>1, <3>1 DEF inspectBackendLine
  <2>2. m.quota \in BOOLEAN /\ m.approval \in BOOLEAN
    BY <1>2 DEF RawLines
  <2> QED  BY <2>1, <2>2 DEF Inspected, Outcomes
<1>3. CASE m = [form |-> "misshapen"]
  <2>1. i = [structured |-> FALSE, outcome |-> "none", quota |-> FALSE, pending |-> FALSE,
             text |-> "none", approval |-> FALSE]
    <3>1. m.form = "misshapen"
      BY <1>3
    <3> QED  BY <1>1, <3>1 DEF inspectBackendLine
  <2> QED  BY <2>1 DEF Inspected, Outcomes
<1>4. CASE m \in Messages
  <2>1. i = [structured |-> TRUE, outcome |-> Outcome(b, m), quota |-> QuotaFailure(m),
             pending |-> FALSE, text |-> TransientResult(b, m),
             approval |-> (m.type = "approval")]
    <3>1. m.form = "json"
      BY <1>4 DEF Messages
    <3> QED  BY <1>1, <3>1 DEF inspectBackendLine
  <2>2. /\ m.text \in {"draft", "final"}
        /\ m.quota \in BOOLEAN
        /\ m.type \in {"message", "end", "tool", "error", "approval"}
    BY <1>4 DEF Messages
  <2>3. Outcome(b, m) \in Outcomes
    BY DEF Outcome, ObservedOutcome, OpenCodeOutcome, Outcomes
  <2>4. TransientResult(b, m) \in {"none", "draft", "final"}
    BY <2>2 DEF TransientResult
  <2>5. QuotaFailure(m) \in BOOLEAN
    BY DEF QuotaFailure
  <2>6. m.type = "approval" =>
           Outcome(b, m) = "none" /\ TransientResult(b, m) = "none" /\ ~QuotaFailure(m)
    BY DEF Outcome, ObservedOutcome, OpenCodeOutcome, QuotaFailure, TransientResult
  <2>7. QuotaFailure(m) => Outcome(b, m) = "failure"
    BY DEF Outcome
  <2> QED  BY <2>1, <2>3, <2>4, <2>5, <2>6, <2>7 DEF Inspected
<1> QED  BY <1>2, <1>3, <1>4, LineForms

\* A reason is taken once and never given back; nothing else but signalled changes.
LEMMA TakesAReason ==
    ASSUME NEW a \in Attempts, NEW reason \in Reasons \ {"none"}, NEW refused \in BOOLEAN
    PROVE  LET t == Terminated(a, reason, refused)
           IN  /\ t \in Attempts
               /\ t.reason # "none"
               /\ t.at = a.at /\ t.outcome = a.outcome /\ t.exit = a.exit /\ t.text = a.text
<1>1. CASE a.reason # "none"
  BY <1>1 DEF Terminated
<1>2. CASE a.reason = "none"
  <2> DEFINE s == ~refused
  <2>1. s \in BOOLEAN
    OBVIOUS
  <2>2. Terminated(a, reason, refused) = [a EXCEPT !.reason = reason, !.signalled = s]
    BY <1>2 DEF Terminated
  <2> HIDE DEF s
  <2> QED  BY <2>1, <2>2 DEF Attempts
<1> QED  BY <1>1, <1>2

LEMMA FailedStream ==
    ASSUME NEW a \in Attempts, NEW refused \in BOOLEAN
    PROVE  LET t == StreamFails(a, refused)
           IN  /\ t \in Attempts
               /\ t.reason # "none"
               /\ t.at = a.at /\ t.outcome = a.outcome /\ t.exit = a.exit /\ t.text = a.text
<1>1. "internal_error" \in Reasons \ {"none"}
  BY DEF Reasons
<1> DEFINE t == Terminated(a, "internal_error", refused)
<1>2. t \in Attempts /\ t.reason # "none" /\ t.at = a.at /\ t.outcome = a.outcome
      /\ t.exit = a.exit /\ t.text = a.text
  BY <1>1, TakesAReason
<1>3. StreamFails(a, refused) = [t EXCEPT !.error = TRUE]
  BY DEF StreamFails
<1> HIDE DEF t
<1> QED  BY <1>2, <1>3, ZenonT(60) DEF Attempts

LEMMA HeardAndTold ==
    ASSUME NEW a \in Attempts, NEW i \in Inspected
    PROVE  LET t == Heard(a, i)
           IN  /\ t \in Attempts
               /\ t.reason = a.reason /\ t.at = a.at /\ t.exit = a.exit
               /\ t.failure = a.failure /\ t.pending = a.pending /\ t.error = a.error
               /\ t.text = IF i.text = "none" THEN a.text ELSE i.text
               /\ i.outcome = "failure" \/ a.outcome = "failure" => t.outcome = "failure"
               /\ t.outcome = "success" => i.outcome = "success" \/ a.outcome = "success"
<1> DEFINE o == IF i.outcome = "failure" \/ (i.outcome = "success" /\ a.outcome # "failure")
                THEN i.outcome ELSE a.outcome
           x == IF i.text = "none" THEN a.text ELSE i.text
<1>1. Heard(a, i) = [a EXCEPT !.outcome = o, !.text = x]
  BY DEF Heard
<1>2. /\ o \in Outcomes
      /\ i.outcome = "failure" \/ a.outcome = "failure" => o = "failure"
      /\ o = "success" => i.outcome = "success" \/ a.outcome = "success"
  BY DEF Attempts, Inspected, Outcomes
<1>3. x \in Texts \cup {"none"}
  BY DEF Attempts, Inspected, Texts
<1>4. x = IF i.text = "none" THEN a.text ELSE i.text
  OBVIOUS
<1> HIDE DEF o, x
<1> DEFINE t == Heard(a, i)
<1>5. /\ t \in Attempts
      /\ t.reason = a.reason /\ t.at = a.at /\ t.exit = a.exit
      /\ t.failure = a.failure /\ t.pending = a.pending /\ t.error = a.error
      /\ t.text = x /\ t.outcome = o
  BY <1>1, <1>2, <1>3 DEF Attempts
<1> HIDE DEF t
<1>6. /\ i.outcome = "failure" \/ a.outcome = "failure" => t.outcome = "failure"
      /\ t.outcome = "success" => i.outcome = "success" \/ a.outcome = "success"
  BY <1>2, <1>5
<1> QED  BY <1>4, <1>5, <1>6 DEF t

\* What one line on stdout leaves behind.
LEMMA RecordedAndTold ==
    ASSUME NEW a \in Attempts, NEW i \in Inspected, NEW refused \in BOOLEAN,
           OnlyMessagesTell(i)
    PROVE  LET t == Recorded(a, i, refused)
           IN  /\ t \in Attempts
               /\ t.at = a.at /\ t.exit = a.exit
               /\ i.outcome = "failure" \/ a.outcome = "failure" => t.outcome = "failure"
               /\ t.outcome = "success" => i.outcome = "success" \/ a.outcome = "success"
               /\ i.approval \/ a.reason # "none" => t.reason # "none"
<1> USE DEF OnlyMessagesTell
<1> DEFINE q == i.quota
           f == IF a.failure = "none" /\ q THEN "quota" ELSE a.failure
           p == a.pending \/ i.pending
           noted == [a EXCEPT !.failure = f, !.pending = p]
<1>1. f \in {"none", "quota", "internal_error"}
  BY DEF Attempts
<1>2. p \in BOOLEAN
  OBVIOUS
<1>3. Recorded(a, i, refused) =
        IF kind.task /\ ~i.structured THEN StreamFails(a, refused)
        ELSE IF i.approval
             THEN [Terminated(noted, "approval_ui", refused) EXCEPT
                       !.error = @ \/ (refused /\ a.reason = "none")]
        ELSE IF refused THEN StreamFails(Heard(noted, i), FALSE)
        ELSE Heard(noted, i)
  BY DEF Recorded
<1> HIDE DEF f, p
<1>4. /\ noted \in Attempts /\ noted.at = a.at /\ noted.exit = a.exit
      /\ noted.outcome = a.outcome /\ noted.reason = a.reason
  BY <1>1, <1>2 DEF Attempts
<1> HIDE DEF noted
<1>5. CASE kind.task /\ ~i.structured
  <2>1. i.outcome = "none"
    BY <1>5 DEF Inspected
  <2> QED  BY <1>3, <1>5, <2>1, FailedStream
<1>6. CASE ~(kind.task /\ ~i.structured) /\ i.approval
  <2> DEFINE t == Terminated(noted, "approval_ui", refused)
             e == t.error \/ (refused /\ a.reason = "none")
  <2>1. /\ t \in Attempts /\ t.reason # "none" /\ t.at = a.at /\ t.outcome = a.outcome
        /\ t.exit = a.exit
    BY <1>4, TakesAReason DEF Reasons
  <2>2. Recorded(a, i, refused) = [t EXCEPT !.error = e]
    BY <1>3, <1>6
  <2>3. e \in BOOLEAN
    OBVIOUS
  <2> HIDE DEF t, e
  <2> QED  BY <1>6, <2>1, <2>2, <2>3 DEF Attempts
<1>7. CASE ~(kind.task /\ ~i.structured) /\ ~i.approval
  <2> DEFINE h == Heard(noted, i)
  <2>1. /\ h \in Attempts
        /\ h.reason = a.reason /\ h.at = a.at /\ h.exit = a.exit
        /\ i.outcome = "failure" \/ a.outcome = "failure" => h.outcome = "failure"
        /\ h.outcome = "success" => i.outcome = "success" \/ a.outcome = "success"
    BY <1>4, HeardAndTold
  <2>2. Recorded(a, i, refused) = IF refused THEN StreamFails(h, FALSE) ELSE h
    BY <1>3, <1>7
  <2> HIDE DEF h
  <2>3. CASE refused
    <3> DEFINE t == StreamFails(h, FALSE)
    <3>1. t \in Attempts /\ t.reason # "none" /\ t.at = h.at /\ t.outcome = h.outcome
          /\ t.exit = h.exit
      BY <2>1, FailedStream
    <3>2. Recorded(a, i, refused) = t
      BY <2>2, <2>3
    <3> HIDE DEF t
    <3> QED  BY <1>7, <2>1, <3>1, <3>2
  <2>4. CASE ~refused
    BY <1>7, <2>1, <2>2, <2>4
  <2> QED  BY <2>3, <2>4
<1> QED  BY <1>5, <1>6, <1>7

\* A line on stderr has no outcome.
LEMMA RecordedFromStderr ==
    ASSUME NEW a \in Attempts, NEW i \in Inspected, NEW refused \in BOOLEAN
    PROVE  LET t == RecordedStderr(a, i, refused)
           IN  /\ t \in Attempts
               /\ t.at = a.at /\ t.exit = a.exit /\ t.outcome = a.outcome
               /\ i.approval \/ a.reason # "none" => t.reason # "none"
<1> DEFINE p == a.pending \/ i.quota \/ i.pending
           noted == [a EXCEPT !.pending = p]
<1>1. p \in BOOLEAN
  OBVIOUS
<1>2. RecordedStderr(a, i, refused) =
        IF i.approval
        THEN [Terminated(noted, "approval_ui", refused) EXCEPT
                  !.error = @ \/ (refused /\ a.reason = "none")]
        ELSE IF refused THEN StreamFails(noted, FALSE)
        ELSE noted
  BY DEF RecordedStderr
<1> HIDE DEF p
<1>3. /\ noted \in Attempts /\ noted.at = a.at /\ noted.exit = a.exit
      /\ noted.outcome = a.outcome /\ noted.reason = a.reason
  BY <1>1 DEF Attempts
<1> HIDE DEF noted
<1>4. CASE i.approval
  <2> DEFINE t == Terminated(noted, "approval_ui", refused)
             e == t.error \/ (refused /\ a.reason = "none")
  <2>1. /\ t \in Attempts /\ t.reason # "none" /\ t.at = a.at /\ t.outcome = a.outcome
        /\ t.exit = a.exit
    BY <1>3, TakesAReason DEF Reasons
  <2>2. RecordedStderr(a, i, refused) = [t EXCEPT !.error = e]
    BY <1>2, <1>4
  <2>3. e \in BOOLEAN
    OBVIOUS
  <2> HIDE DEF t, e
  <2> QED  BY <1>4, <2>1, <2>2, <2>3 DEF Attempts
<1>5. CASE ~i.approval /\ refused
  BY <1>2, <1>3, <1>5, FailedStream, ZenonT(60)
<1>6. CASE ~i.approval /\ ~refused
  BY <1>2, <1>3, <1>6
<1> QED  BY <1>4, <1>5, <1>6

\* What a line on stdout adds to what was heard.
HeardToo(s, i) ==
    [s EXCEPT !.success = @ \/ i.outcome = "success", !.failure = @ \/ i.outcome = "failure",
              !.quota = @ \/ i.quota, !.hint = @ \/ i.pending, !.asked = @ \/ i.approval,
              !.last = IF i.text = "none" THEN @ ELSE i.text]

LEMMA WhatIsHeard ==
    ASSUME NEW s \in Heardings, NEW i \in Inspected
    PROVE  LET t == HeardToo(s, i)
           IN  /\ t \in Heardings
               /\ t.success = (s.success \/ i.outcome = "success")
               /\ t.failure = (s.failure \/ i.outcome = "failure")
               /\ t.quota = (s.quota \/ i.quota) /\ t.hint = (s.hint \/ i.pending)
               /\ t.asked = (s.asked \/ i.approval)
               /\ t.last = IF i.text = "none" THEN s.last ELSE i.text
<1> DEFINE su == s.success \/ i.outcome = "success"
           fa == s.failure \/ i.outcome = "failure"
           qu == s.quota \/ i.quota
           hi == s.hint \/ i.pending
           as == s.asked \/ i.approval
           la == IF i.text = "none" THEN s.last ELSE i.text
           half == [s EXCEPT !.success = su, !.failure = fa, !.quota = qu]
<1>1. /\ su \in BOOLEAN /\ fa \in BOOLEAN /\ qu \in BOOLEAN /\ hi \in BOOLEAN
      /\ as \in BOOLEAN
  OBVIOUS
<1>2. la \in Texts \cup {"none"}
  BY DEF Heardings, Inspected, Texts
<1>3. HeardToo(s, i) = [half EXCEPT !.hint = hi, !.asked = as, !.last = la]
  BY DEF HeardToo
<1> DEFINE t == HeardToo(s, i)
<1> SUFFICES /\ t \in Heardings
             /\ t.success = su /\ t.failure = fa /\ t.quota = qu /\ t.hint = hi
             /\ t.asked = as /\ t.last = la
  OBVIOUS
<1> HIDE DEF su, fa, qu, hi, as, la
<1>4. /\ half \in Heardings
      /\ half.success = su /\ half.failure = fa /\ half.quota = qu
  BY <1>1 DEF Heardings
<1> HIDE DEF half, t
<1> QED  BY <1>1, <1>2, <1>3, <1>4 DEF Heardings, t

\* Nothing that was heard is lost or made up: the text is the last one, and as long as
\* nothing else decides, the quota is what the provider said about it.
Noted(a, s) ==
    /\ a.text = s.last
    /\ a.error => a.reason # "none" \/ (a.exit = "failed" /\ a.at # "running")
    /\ a.reason = "none" /\ ~a.error =>
          /\ a.failure \in {"none", "quota"}
          /\ a.failure = "quota" <=> s.quota
          /\ a.pending <=> s.hint
          /\ s.quota => a.outcome = "failure"

LEMMA StdoutIsNoted ==
    ASSUME NEW a \in Attempts, NEW s \in Heardings, NEW i \in Inspected,
           NEW refused \in BOOLEAN, OnlyMessagesTell(i), Noted(a, s)
    PROVE  Noted(Recorded(a, i, refused), HeardToo(s, i))
<1> DEFINE q == i.quota
           f == IF a.failure = "none" /\ q THEN "quota" ELSE a.failure
           p == a.pending \/ i.pending
           noted == [a EXCEPT !.failure = f, !.pending = p]
           n == HeardToo(s, i)
<1>1. f \in {"none", "quota", "internal_error"}
  BY DEF Attempts
<1>2. p \in BOOLEAN
  OBVIOUS
<1>3. Recorded(a, i, refused) =
        IF kind.task /\ ~i.structured THEN StreamFails(a, refused)
        ELSE IF i.approval
             THEN [Terminated(noted, "approval_ui", refused) EXCEPT
                       !.error = @ \/ (refused /\ a.reason = "none")]
        ELSE IF refused THEN StreamFails(Heard(noted, i), FALSE)
        ELSE Heard(noted, i)
  BY DEF Recorded
<1>4. /\ n.quota = (s.quota \/ i.quota) /\ n.hint = (s.hint \/ i.pending)
      /\ n.last = IF i.text = "none" THEN s.last ELSE i.text
  BY WhatIsHeard
<1>5. f = IF a.failure = "none" /\ i.quota THEN "quota" ELSE a.failure
  OBVIOUS
<1>6. p = (a.pending \/ i.pending)
  OBVIOUS
<1> HIDE DEF f, p, n
<1>7. /\ noted \in Attempts /\ noted.text = a.text /\ noted.reason = a.reason
      /\ noted.at = a.at /\ noted.exit = a.exit /\ noted.outcome = a.outcome /\ noted.error = a.error
      /\ noted.failure = f /\ noted.pending = p
  BY <1>1, <1>2 DEF Attempts
<1> HIDE DEF noted
<1> DEFINE r == Recorded(a, i, refused)
<1> SUFFICES Noted(r, n)
  BY DEF n
<1>8. CASE r.reason # "none" /\ r.text = n.last
  BY <1>8 DEF Noted
<1>9. CASE kind.task /\ ~i.structured
  <2>1. r = StreamFails(a, refused)
    BY <1>3, <1>9
  <2> HIDE DEF r
  <2>2. r.reason # "none" /\ r.text = a.text
    BY <2>1, FailedStream
  <2> QED  BY <1>4, <1>8, <1>9, <2>2 DEF Noted, OnlyMessagesTell
<1>10. CASE ~(kind.task /\ ~i.structured) /\ i.approval
  <2> DEFINE t == Terminated(noted, "approval_ui", refused)
             e == t.error \/ (refused /\ a.reason = "none")
  <2>1. t \in Attempts /\ t.reason # "none" /\ t.text = a.text
    BY <1>7, TakesAReason DEF Reasons
  <2>2. r = [t EXCEPT !.error = e]
    BY <1>3, <1>10
  <2> HIDE DEF r, t, e
  <2>3. r.reason # "none" /\ r.text = a.text
    BY <2>1, <2>2 DEF Attempts
  <2> QED  BY <1>4, <1>8, <1>10, <2>3 DEF Noted, OnlyMessagesTell
<1>11. CASE ~(kind.task /\ ~i.structured) /\ ~i.approval
  <2> DEFINE h == Heard(noted, i)
  <2>1. /\ h \in Attempts
        /\ h.reason = a.reason /\ h.exit = a.exit /\ h.error = a.error /\ h.at = a.at
        /\ h.failure = f /\ h.pending = p
        /\ h.text = IF i.text = "none" THEN a.text ELSE i.text
        /\ i.outcome = "failure" \/ a.outcome = "failure" => h.outcome = "failure"
    BY <1>7, HeardAndTold
  <2>2. r = IF refused THEN StreamFails(h, FALSE) ELSE h
    BY <1>3, <1>11
  <2> HIDE DEF h, r
  <2>3. h.text = n.last
    BY <1>4, <2>1 DEF Noted
  <2>4. CASE refused
    <3>1. r.reason # "none" /\ r.text = h.text
      BY <2>1, <2>2, <2>4, FailedStream
    <3> QED  BY <1>8, <2>3, <3>1
  <2>5. CASE ~refused
    <3>1. r = h
      BY <2>2, <2>5
    <3>2. h.error => h.reason # "none" \/ (h.exit = "failed" /\ h.at # "running")
      BY <2>1 DEF Noted
    <3>3. ASSUME h.reason = "none", ~h.error
          PROVE  /\ h.failure \in {"none", "quota"}
                 /\ h.failure = "quota" <=> n.quota
                 /\ h.pending <=> n.hint
                 /\ n.quota => h.outcome = "failure"
      <4>1. /\ a.failure \in {"none", "quota"}
            /\ a.failure = "quota" <=> s.quota
            /\ a.pending <=> s.hint
            /\ s.quota => a.outcome = "failure"
        BY <2>1, <3>3 DEF Noted
      <4>2. f \in {"none", "quota"} /\ (f = "quota" <=> n.quota)
        BY <1>4, <1>5, <4>1
      <4>3. p <=> n.hint
        BY <1>4, <1>6, <4>1
      <4>4. n.quota => h.outcome = "failure"
        BY <1>4, <2>1, <4>1 DEF OnlyMessagesTell
      <4> QED  BY <2>1, <4>2, <4>3, <4>4
    <3> QED  BY <2>3, <3>1, <3>2, <3>3 DEF Noted
  <2> QED  BY <2>4, <2>5
<1> QED  BY <1>9, <1>10, <1>11

\* What a line on stderr adds to it.
HintedToo(s, i) ==
    [s EXCEPT !.hint = @ \/ i.quota \/ i.pending, !.asked = @ \/ i.approval]

LEMMA WhatIsHinted ==
    ASSUME NEW s \in Heardings, NEW i \in Inspected
    PROVE  LET t == HintedToo(s, i)
           IN  /\ t \in Heardings
               /\ t.success = s.success /\ t.failure = s.failure /\ t.quota = s.quota
               /\ t.hint = (s.hint \/ i.quota \/ i.pending)
               /\ t.asked = (s.asked \/ i.approval) /\ t.last = s.last
<1> DEFINE hi == s.hint \/ i.quota \/ i.pending
           as == s.asked \/ i.approval
           t == HintedToo(s, i)
<1>1. hi \in BOOLEAN /\ as \in BOOLEAN
  OBVIOUS
<1>2. t = [s EXCEPT !.hint = hi, !.asked = as]
  BY DEF HintedToo
<1> SUFFICES /\ t \in Heardings
             /\ t.success = s.success /\ t.failure = s.failure /\ t.quota = s.quota
             /\ t.hint = hi /\ t.asked = as /\ t.last = s.last
  OBVIOUS
<1> HIDE DEF hi, as, t
<1> QED  BY <1>1, <1>2 DEF Heardings

LEMMA StderrIsNoted ==
    ASSUME NEW a \in Attempts, NEW s \in Heardings, NEW i \in Inspected,
           NEW refused \in BOOLEAN, Noted(a, s)
    PROVE  Noted(RecordedStderr(a, i, refused), HintedToo(s, i))
<1> DEFINE p == a.pending \/ i.quota \/ i.pending
           noted == [a EXCEPT !.pending = p]
           n == HintedToo(s, i)
           r == RecordedStderr(a, i, refused)
<1>1. p \in BOOLEAN /\ p = (a.pending \/ i.quota \/ i.pending)
  OBVIOUS
<1>2. r = IF i.approval
          THEN [Terminated(noted, "approval_ui", refused) EXCEPT
                    !.error = @ \/ (refused /\ a.reason = "none")]
          ELSE IF refused THEN StreamFails(noted, FALSE)
          ELSE noted
  BY DEF RecordedStderr
<1>3. /\ n.quota = s.quota /\ n.last = s.last
      /\ n.hint = (s.hint \/ i.quota \/ i.pending)
  BY WhatIsHinted
<1> SUFFICES Noted(r, n)
  OBVIOUS
<1> HIDE DEF p, n
<1>4. /\ noted \in Attempts /\ noted.text = a.text /\ noted.reason = a.reason
      /\ noted.at = a.at /\ noted.exit = a.exit /\ noted.outcome = a.outcome /\ noted.error = a.error
      /\ noted.failure = a.failure /\ noted.pending = p
  BY <1>1 DEF Attempts
<1> HIDE DEF noted, r
<1>5. CASE r.reason # "none" /\ r.text = a.text
  BY <1>3, <1>5 DEF Noted
<1>6. CASE i.approval
  <2> DEFINE t == Terminated(noted, "approval_ui", refused)
             e == t.error \/ (refused /\ a.reason = "none")
  <2>1. t \in Attempts /\ t.reason # "none" /\ t.text = a.text
    BY <1>4, TakesAReason DEF Reasons
  <2>2. r = [t EXCEPT !.error = e]
    BY <1>2, <1>6
  <2> HIDE DEF t, e
  <2>3. r.reason # "none" /\ r.text = a.text
    BY <2>1, <2>2 DEF Attempts
  <2> QED  BY <1>5, <2>3
<1>7. CASE ~i.approval /\ refused
  <2>1. r = StreamFails(noted, FALSE)
    BY <1>2, <1>7
  <2> QED  BY <1>4, <1>5, <2>1, FailedStream
<1>8. CASE ~i.approval /\ ~refused
  <2>1. r = noted
    BY <1>2, <1>8
  <2>2. p = (a.pending \/ i.quota \/ i.pending)
    BY <1>1
  <2> QED  BY <1>3, <1>4, <2>1, <2>2 DEF Noted
<1> QED  BY <1>6, <1>7, <1>8

-----------------------------------------------------------------------------
(* The verdict.                                                             *)

\* Reading the file and the hints on a quota make nothing better.
LEMMA NothingGetsBetter ==
    ASSUME NEW a \in Attempts, NEW file \in {"none", "empty", "unfit", "text"}
    PROVE  LET t == PendingUsed(FileRead(a, file))
           IN  /\ t \in Attempts
               /\ t.at = a.at /\ t.exit = a.exit /\ t.reason = a.reason
               /\ a.outcome = "failure" => t.outcome = "failure"
               /\ t.outcome = "success" => a.outcome = "success"
<1> DEFINE r == FileRead(a, file)
<1>1. /\ r \in Attempts
      /\ r.at = a.at /\ r.exit = a.exit /\ r.reason = a.reason
      /\ a.outcome = "failure" => r.outcome = "failure"
      /\ r.outcome = "success" => a.outcome = "success"
  <2> DEFINE x == [a EXCEPT !.text = "file"]
             y == [a EXCEPT !.outcome = "failure", !.failure = "internal_error"]
  <2>1. r = a \/ r = x \/ (r = y /\ a.outcome = "success")
    BY DEF FileRead
  <2>2. x \in Attempts /\ x.at = a.at /\ x.exit = a.exit /\ x.reason = a.reason
        /\ x.outcome = a.outcome
    BY DEF Attempts, Texts
  <2>3. y \in Attempts /\ y.at = a.at /\ y.exit = a.exit /\ y.reason = a.reason
        /\ y.outcome = "failure"
    BY DEF Attempts, Outcomes
  <2> HIDE DEF r, x, y
  <2> QED  BY <2>1, <2>2, <2>3
<1> HIDE DEF r
<1> DEFINE z == [r EXCEPT !.failure = "quota", !.outcome = "failure"]
<1>2. PendingUsed(r) = r \/ PendingUsed(r) = z
  BY DEF PendingUsed
<1>3. z \in Attempts /\ z.at = r.at /\ z.exit = r.exit /\ z.reason = r.reason
      /\ z.outcome = "failure"
  BY <1>1, ZenonT(60) DEF Attempts, Outcomes
<1> HIDE DEF z
<1>4. LET t == PendingUsed(r)
      IN  /\ t \in Attempts
          /\ t.at = a.at /\ t.exit = a.exit /\ t.reason = a.reason
          /\ a.outcome = "failure" => t.outcome = "failure"
          /\ t.outcome = "success" => a.outcome = "success"
  BY <1>1, <1>2, <1>3
<1> QED  BY <1>4 DEF r

LEMMA OnlyCodexTakesTasks ==
    ASSUME NEW k \in Kinds
    PROVE  k.task => k.backend = "codex"
<1>1. k \in [backend : Backends, task : {FALSE}] \/ k = [backend |-> "codex", task |-> TRUE]
  BY DEF Kinds
<1>2. CASE k \in [backend : Backends, task : {FALSE}]
  BY <1>2
<1>3. CASE k = [backend |-> "codex", task |-> TRUE]
  BY <1>3
<1> QED  BY <1>1, <1>2, <1>3

\* What the verdict is made of: the file of a codex that ended well, and the hints of
\* an exit that did not.
LEMMA TheVerdict ==
    ASSUME NEW a \in Attempts, NEW s, Noted(a, s), kind \in Kinds,
           NEW file \in {"none", "empty", "unfit", "text"}
    PROVE  LET t == PendingUsed(FileRead(a, file))
           IN  /\ t.error = a.error
               /\ t.outcome = "success" =>
                     /\ a.exit = "zero" =>
                           t.text = IF kind.backend = "codex" /\ file = "text"
                                    THEN "file" ELSE s.last
                     /\ a.exit = "zero" /\ kind.task => file = "text"
               /\ a.reason = "none" /\ ~a.error =>
                     (FinalEvent(t) = "quota" <=> s.quota \/ (s.hint /\ a.exit # "zero"))
<1> DEFINE x == [a EXCEPT !.text = "file"]
           y == [a EXCEPT !.outcome = "failure", !.failure = "internal_error"]
           r == FileRead(a, file)
           z == [r EXCEPT !.failure = "quota", !.outcome = "failure"]
           t == PendingUsed(r)
           read == kind.backend = "codex" /\ a.exit = "zero" /\ a.outcome = "success"
<1>1. kind.task => kind.backend = "codex"
  BY OnlyCodexTakesTasks
<1>2. /\ x \in Attempts /\ x.text = "file" /\ x.outcome = a.outcome /\ x.failure = a.failure
      /\ x.error = a.error /\ x.reason = a.reason /\ x.exit = a.exit /\ x.pending = a.pending
  BY DEF Attempts, Texts
<1>3. /\ y \in Attempts /\ y.outcome = "failure" /\ y.failure = "internal_error"
      /\ y.error = a.error /\ y.reason = a.reason /\ y.exit = a.exit
  BY DEF Attempts, Outcomes
<1>4. /\ ~read => r = a
      /\ read /\ file = "text" => r = x
      /\ read /\ file # "text" => r = y \/ (r = a /\ ~kind.task)
  BY DEF FileRead
<1>5. t = IF r.failure = "none" /\ r.exit # "zero" /\ r.pending THEN z ELSE r
  BY DEF PendingUsed
<1> HIDE DEF x, y, r
<1>6. r \in Attempts /\ r.error = a.error /\ r.reason = a.reason /\ r.exit = a.exit
  BY <1>2, <1>3, <1>4
<1>7. /\ z.failure = "quota" /\ z.outcome = "failure"
      /\ z.error = r.error /\ z.reason = r.reason /\ z.exit = r.exit
  BY <1>6 DEF Attempts
<1> HIDE DEF z, t
<1>8. /\ t.error = a.error /\ t.reason = a.reason /\ t.exit = a.exit
  BY <1>5, <1>6, <1>7
<1>9. ASSUME t.outcome = "success", a.exit = "zero"
      PROVE  /\ t.text = IF kind.backend = "codex" /\ file = "text" THEN "file" ELSE s.last
             /\ kind.task => file = "text"
  <2>1. t = r /\ r.outcome = "success"
    BY <1>5, <1>7, <1>9
  <2>2. CASE read
    BY <1>2, <1>3, <1>4, <2>1, <2>2 DEF Noted
  <2>3. CASE ~read
    BY <1>1, <1>4, <1>9, <2>1, <2>3 DEF Noted
  <2> QED  BY <2>2, <2>3
<1>10. ASSUME a.reason = "none", ~a.error
       PROVE  FinalEvent(t) = "quota" <=> s.quota \/ (s.hint /\ a.exit # "zero")
  <2>1. /\ a.failure \in {"none", "quota"}
        /\ a.failure = "quota" <=> s.quota
        /\ a.pending <=> s.hint
        /\ s.quota => a.outcome = "failure"
    BY <1>10 DEF Noted
  <2>2. FinalEvent(t) = IF t.exit = "zero" /\ t.outcome = "success" THEN "succeeded"
                        ELSE IF t.failure # "none" THEN t.failure
                        ELSE IF t.exit = "zero" THEN "internal_error" ELSE "process_exit"
    BY <1>8, <1>10 DEF FinalEvent
  <2>3. CASE read
    <3>1. ~s.quota /\ a.failure = "none"
      BY <2>1, <2>3
    <3>2. t = r /\ t.exit = "zero"
      BY <1>5, <1>6, <2>3
    <3>3. t.failure # "quota"
      BY <1>2, <1>3, <1>4, <2>3, <3>1, <3>2
    <3> QED  BY <2>2, <2>3, <3>1, <3>2, <3>3
  <2>4. CASE ~read /\ a.failure = "quota"
    <3>1. t = a
      BY <1>4, <1>5, <2>4
    <3> QED  BY <2>1, <2>2, <2>4, <3>1
  <2>5. CASE ~read /\ a.failure = "none"
    <3>1. r = a
      BY <1>4, <2>5
    <3>2. CASE a.exit # "zero" /\ a.pending
      <4>1. t = z
        BY <1>5, <2>5, <3>1, <3>2
      <4> QED  BY <1>7, <2>1, <2>2, <3>2, <4>1
    <3>3. CASE ~(a.exit # "zero" /\ a.pending)
      <4>1. t = a
        BY <1>5, <3>1, <3>3
      <4> QED  BY <2>1, <2>2, <2>5, <3>3, <4>1
    <3> QED  BY <3>2, <3>3
  <2> QED  BY <2>1, <2>3, <2>4, <2>5
<1> QED  BY <1>8, <1>9, <1>10 DEF r, t

LEMMA WhatIsRecorded ==
    ASSUME NEW a \in Attempts
    PROVE  /\ FinalEvent(a) # "none"
           /\ FinalEvent(a) = "succeeded" =>
                 a.reason = "none" /\ a.exit = "zero" /\ a.outcome = "success"
BY BackendAssumption DEF FinalEvent, Attempts, Reasons

-----------------------------------------------------------------------------
(* Hosts.                                                                   *)

LEMMA InitHolds == Init => IInv
<1> SUFFICES ASSUME Init PROVE IInv
  OBVIOUS
<1> USE DEF Init
<1>1. NotStarted \in Attempts
  BY DEF NotStarted, Attempts, Outcomes, Reasons
<1>2. Silence \in Heardings
  BY DEF Silence, Heardings
<1>3. Typed
  BY <1>1, <1>2 DEF Typed
<1>4. \A h \in Hosts : InHand(h) => h = Service /\ ~kind.task
  BY DEF InHand
<1>5. HostInv
  BY <1>4 DEF HostInv
<1>6. Told(attempt, said) /\ DrainInv
  BY DEF Told, DrainInv, NotStarted, Silence
<1>7. job # "succeeded"
  OBVIOUS
<1> QED  BY <1>3, <1>5, <1>6, <1>7 DEF IInv, SuccessEarned

\* Who claims, creates, fails or crashes leaves at most one host with the attempt.
LEMMA HostsStep ==
    ASSUME Typed, HostInv, [Next]_vars
    PROVE  HostInv'
<1> USE DEF Typed, HostInv, InHand
<1>1. CASE UNCHANGED <<host, job, starts>>
  BY <1>1
<1>2. ASSUME NEW h \in Hosts, Claim(h)
      PROVE  HostInv'
  BY <1>2 DEF Claim
<1>3. ASSUME NEW h \in Hosts, CreateJob(h)
      PROVE  HostInv'
  <2>1. CASE job = "none"
    <3>1. \A g \in Hosts : ~InHand(g)
      BY <2>1
    <3> QED  BY <1>3, <2>1, <3>1 DEF CreateJob
  <2>2. CASE job # "none"
    BY <1>3, <2>2 DEF CreateJob
  <2> QED  BY <2>1, <2>2
<1>4. ASSUME NEW h \in Hosts, PreparationFails(h)
      PROVE  HostInv'
  BY <1>4 DEF PreparationFails
<1>5. ASSUME NEW h \in Hosts, Start(h)
      PROVE  HostInv'
  <2>1. starts = 0 /\ starts' = 1 /\ job' = "open"
    BY <1>5 DEF Start
  <2>2. \A g \in Hosts \ {h} : ~InHand(g) /\ host'[g] = host[g]
    BY <1>5 DEF Start
  <2>3. host'[h] = "running"
    BY <1>5 DEF Start
  <2> QED  BY <2>1, <2>2, <2>3
<1>6. ASSUME NEW h \in Hosts, Drained(h)
      PROVE  HostInv'
  <2>1. PICK file \in {"none", "empty", "unfit", "text"} :
           job' = FinalEvent(PendingUsed(FileRead(attempt, file)))
    BY <1>6 DEF Drained
  <2>2. job' # "none"
    BY <2>1, NothingGetsBetter, WhatIsRecorded
  <2>3. \A g \in Hosts : host'[g] \notin {"preparing", "running"}
    BY <1>6 DEF Drained
  <2> QED  BY <1>6, <2>2, <2>3 DEF Drained
<1>7. ASSUME NEW h \in Hosts, Crash(h)
      PROVE  HostInv'
  BY <1>7 DEF Crash
<1>8. ASSUME \/ \E i \in Readings[kind.backend], refused \in BOOLEAN :
                    ReadStdout(i, refused) \/ ReadStderr(i, refused)
             \/ Timeout \/ Abort \/ BackendExits \/ ForceKill \/ LeaderDies
             \/ Cleanup \/ DrainTimeout \/ LeaderCleansUp
      PROVE  HostInv'
  <2>1. UNCHANGED <<host, job, starts>>
    BY <1>8 DEF ReadStdout, ReadStderr, Timeout, Abort, BackendExits, ForceKill, LeaderDies,
                Cleanup, DrainTimeout, LeaderCleansUp
  <2> QED  BY <1>1, <2>1
<1> QED  BY <1>1, <1>2, <1>3, <1>4, <1>5, <1>6, <1>7, <1>8 DEF Next, vars

-----------------------------------------------------------------------------
(* The attempt.                                                             *)

\* What the attempt is worth, apart from the hosts.
Rest == /\ Typed
        /\ Told(attempt, said)
        /\ DrainInv
        /\ job = "succeeded" => attempt.at = "ended"
        /\ SuccessEarned

LEMMA KindsKnown ==
    ASSUME NEW k \in Kinds
    PROVE  k.backend \in Backends \cup {"codex"}
<1>1. k \in [backend : Backends, task : {FALSE}] \/ k = [backend |-> "codex", task |-> TRUE]
  BY DEF Kinds
<1>2. CASE k \in [backend : Backends, task : {FALSE}]
  BY <1>2
<1>3. CASE k = [backend |-> "codex", task |-> TRUE]
  BY <1>3
<1> QED  BY <1>1, <1>2, <1>3

\* A step before the end of an attempt records nothing.
LEMMA NotYet ==
    ASSUME Rest, attempt.at # "ended", job' = job, Typed', Told(attempt, said)', DrainInv'
    PROVE  Rest'
BY DEF Rest, SuccessEarned

LEMMA StdoutStep ==
    ASSUME Rest, NEW i \in Readings[kind.backend], NEW refused \in BOOLEAN,
           ReadStdout(i, refused)
    PROVE  Rest'
<1>1. kind.backend \in Backends \cup {"codex"}
  BY KindsKnown DEF Rest, Typed
<1>2. i \in Inspected /\ OnlyMessagesTell(i)
  BY <1>1, WhatALineSays
<1>3. /\ Listening /\ attempt' = Recorded(attempt, i, refused)
      /\ UNCHANGED <<kind, host, job, starts, group>>
  BY DEF ReadStdout
<1>4. /\ attempt' \in Attempts /\ attempt'.at = attempt.at
      /\ i.outcome = "failure" \/ attempt.outcome = "failure" => attempt'.outcome = "failure"
      /\ attempt'.outcome = "success" => i.outcome = "success" \/ attempt.outcome = "success"
      /\ i.approval \/ attempt.reason # "none" => attempt'.reason # "none"
  <2>1. attempt \in Attempts
    BY DEF Rest, Typed
  <2> DEFINE t == Recorded(attempt, i, refused)
  <2>2. /\ t \in Attempts /\ t.at = attempt.at
        /\ i.outcome = "failure" \/ attempt.outcome = "failure" => t.outcome = "failure"
        /\ t.outcome = "success" => i.outcome = "success" \/ attempt.outcome = "success"
        /\ i.approval \/ attempt.reason # "none" => t.reason # "none"
    BY <1>2, <2>1, RecordedAndTold
  <2>3. attempt' = t
    BY <1>3
  <2> HIDE DEF t
  <2> QED  BY <2>2, <2>3
<1>5. said' = HeardToo(said, i)
  BY DEF ReadStdout, HeardToo
<1>6. /\ said' \in Heardings
      /\ said'.success = (said.success \/ i.outcome = "success")
      /\ said'.failure = (said.failure \/ i.outcome = "failure")
      /\ said'.asked = (said.asked \/ i.approval)
  BY <1>2, <1>5, WhatIsHeard DEF Rest, Typed
<1>10. Told(attempt', said')
  BY <1>4, <1>6 DEF Rest, Told
<1>11. Typed' /\ DrainInv'
  BY <1>3, <1>4, <1>6 DEF Rest, Typed, DrainInv
<1>12. attempt.at # "ended" /\ job' = job
  BY <1>3 DEF Listening
<1> QED  BY <1>10, <1>11, <1>12, NotYet

LEMMA StderrStep ==
    ASSUME Rest, NEW i \in Readings[kind.backend], NEW refused \in BOOLEAN,
           ReadStderr(i, refused)
    PROVE  Rest'
<1>1. kind.backend \in Backends \cup {"codex"}
  BY KindsKnown DEF Rest, Typed
<1>2. i \in Inspected
  BY <1>1, WhatALineSays
<1>3. /\ Listening /\ attempt' = RecordedStderr(attempt, i, refused)
      /\ UNCHANGED <<kind, host, job, starts, group>>
  BY DEF ReadStderr
<1>4. /\ attempt' \in Attempts /\ attempt'.at = attempt.at
      /\ attempt'.outcome = attempt.outcome
      /\ i.approval \/ attempt.reason # "none" => attempt'.reason # "none"
  BY <1>2, <1>3, RecordedFromStderr DEF Rest, Typed
<1>5. said' = HintedToo(said, i)
  BY DEF ReadStderr, HintedToo
<1>6. /\ said' \in Heardings /\ said'.success = said.success
      /\ said'.failure = said.failure /\ said'.asked = (said.asked \/ i.approval)
  BY <1>2, <1>5, WhatIsHinted DEF Rest, Typed
<1>9. Told(attempt', said')
  BY <1>4, <1>6 DEF Rest, Told
<1>10. Typed' /\ DrainInv'
  BY <1>3, <1>4, <1>6 DEF Rest, Typed, DrainInv
<1>11. attempt.at # "ended" /\ job' = job
  BY <1>3 DEF Listening
<1> QED  BY <1>9, <1>10, <1>11, NotYet

\* A reason more changes nothing that was heard.
LEMMA AReasonMore ==
    ASSUME attempt \in Attempts, Timeout \/ Abort \/ DrainTimeout
    PROVE  /\ attempt' \in Attempts /\ attempt'.reason # "none"
           /\ attempt'.outcome = attempt.outcome /\ attempt'.text = attempt.text
           /\ attempt.at # "ended" /\ attempt'.at # "ended"
<1>1. PICK reason \in Reasons \ {"none"} :
         \/ attempt' = Terminated(attempt, reason, FALSE)
         \/ attempt' = [Terminated(attempt, reason, FALSE) EXCEPT !.error = TRUE]
         \/ attempt' = [Terminated(attempt, reason, FALSE) EXCEPT !.at = "forcing"]
  <2>1. CASE Timeout
    <3>1. "timeout" \in Reasons \ {"none"}
      BY DEF Reasons
    <3> QED  BY <2>1, <3>1 DEF Timeout
  <2>2. CASE Abort
    <3>1. AbortReasons \cup {"internal_error"} \subseteq Reasons \ {"none"}
      BY BackendAssumption DEF Reasons
    <3> QED  BY <2>2, <3>1 DEF Abort
  <2>3. CASE DrainTimeout
    <3>1. "internal_error" \in Reasons \ {"none"}
      BY DEF Reasons
    <3> QED  BY <2>3, <3>1 DEF DrainTimeout
  <2> QED  BY <2>1, <2>2, <2>3
<1> DEFINE t == Terminated(attempt, reason, FALSE)
<1>2. /\ t \in Attempts /\ t.reason # "none" /\ t.at = attempt.at
      /\ t.outcome = attempt.outcome /\ t.text = attempt.text
  BY TakesAReason
<1>3. \/ attempt' = t \/ attempt' = [t EXCEPT !.error = TRUE]
      \/ attempt' = [t EXCEPT !.at = "forcing"]
  BY <1>1
<1>4. attempt.at # "ended"
  BY DEF Timeout, Abort, DrainTimeout, Listening
<1> HIDE DEF t
<1>5. CASE attempt' = t
  BY <1>2, <1>4, <1>5
<1>6. CASE attempt' = [t EXCEPT !.error = TRUE]
  BY <1>2, <1>4, <1>6 DEF Attempts
<1>7. CASE attempt' = [t EXCEPT !.at = "forcing"]
  BY <1>2, <1>4, <1>7 DEF Attempts
<1> QED  BY <1>3, <1>5, <1>6, <1>7

LEMMA ReasonStep ==
    ASSUME Rest, Timeout \/ Abort \/ DrainTimeout
    PROVE  Rest'
<1>1. /\ attempt' \in Attempts /\ attempt'.reason # "none"
      /\ attempt'.outcome = attempt.outcome
  BY AReasonMore DEF Rest, Typed
<1>2. UNCHANGED <<kind, host, job, starts, group, said>> /\ attempt.at # "ended"
  BY DEF Timeout, Abort, DrainTimeout, Listening
<1> QED  BY <1>1, <1>2, NotYet DEF Rest, Typed, Told, DrainInv

\* A host that claims or gives up touches no attempt.
LEMMA ClaimStep ==
    ASSUME Rest, NEW h \in Hosts, Claim(h) \/ CreateJob(h) \/ PreparationFails(h)
    PROVE  Rest'
<1>1. UNCHANGED <<kind, starts, group, attempt, said>>
  BY DEF Claim, CreateJob, PreparationFails
<1>2. host' \in [Hosts -> {"idle", "checked", "preparing", "running", "answered", "dead"}]
  BY DEF Claim, CreateJob, PreparationFails, Rest, Typed
<1>3. job' = job \/ job' = "open"
  BY DEF Claim, CreateJob, PreparationFails
<1> QED  BY <1>1, <1>2, <1>3 DEF Rest, Typed, Told, DrainInv, SuccessEarned

LEMMA StartStep ==
    ASSUME Rest, HostInv, NEW h \in Hosts, Start(h)
    PROVE  Rest'
<1>1. [NotStarted EXCEPT !.at = "running"] \in Attempts
  BY DEF NotStarted, Attempts, Outcomes, Reasons
<1>2. Silence \in Heardings
  BY DEF Silence, Heardings
<1>3. attempt' = [NotStarted EXCEPT !.at = "running"] /\ said' = Silence
  BY DEF Start
<1>4. attempt'.at = "running" /\ attempt'.outcome = "none"
  BY <1>3 DEF NotStarted
<1>5. said'.failure = FALSE /\ said'.asked = FALSE
  BY <1>3 DEF Silence
<1>6. job' = job /\ job = "open"
  BY DEF Start, HostInv, InHand
<1>7. /\ host' \in [Hosts -> {"idle", "checked", "preparing", "running", "answered", "dead"}]
      /\ kind' \in Kinds /\ starts' \in Nat
      /\ group' \in [leader : {"none", "alive", "gone", "lost"}, members : BOOLEAN]
  BY DEF Start, Rest, Typed
<1>8. Typed'
  BY <1>1, <1>2, <1>3, <1>7 DEF Typed
<1> QED  BY <1>4, <1>5, <1>6, <1>8 DEF Rest, Told, DrainInv, SuccessEarned

\* The backend ends or is killed, or its leader dies: what it said stands.
LEMMA ExitStep ==
    ASSUME Rest, BackendExits \/ ForceKill \/ LeaderDies \/ LeaderCleansUp
    PROVE  Rest'
<1>1. /\ UNCHANGED <<kind, host, job, starts, said>>
      /\ group' \in [leader : {"none", "alive", "gone", "lost"}, members : BOOLEAN]
  <2> DEFINE Groups == [leader : {"none", "alive", "gone", "lost"}, members : BOOLEAN]
  <2>1. UNCHANGED <<kind, host, job, starts, said>>
    BY DEF BackendExits, ForceKill, LeaderDies, LeaderCleansUp
  <2>2. group \in Groups
    BY DEF Rest, Typed
  <2>3. CASE BackendExits
    BY <2>2, <2>3 DEF BackendExits
  <2>4. CASE LeaderDies
    BY <2>2, <2>4 DEF LeaderDies
  <2>5. CASE ForceKill \/ LeaderCleansUp
    <3>1. group' = [leader |-> "gone", members |-> FALSE]
      BY <2>5 DEF ForceKill, LeaderCleansUp
    <3> QED  BY <2>1, <3>1
  <2> QED  BY <2>1, <2>3, <2>4, <2>5
<1>2. CASE attempt' = attempt
  <2>1. group'.members => group.members
    <3>1. attempt \in Attempts /\ group.members \in BOOLEAN
      BY DEF Rest, Typed
    <3>2. CASE BackendExits
      <4>1. attempt.at = "running" /\ attempt'.at = "cleaning"
        BY <3>1, <3>2 DEF BackendExits, Attempts
      <4> QED  BY <1>2, <4>1
    <3>3. CASE LeaderDies
      <4>1. group' = [group EXCEPT !.leader = "lost"]
        BY <3>3 DEF LeaderDies
      <4>2. group'.members = group.members
        BY <4>1 DEF Rest, Typed
      <4> QED  BY <4>2
    <3>4. CASE ForceKill \/ LeaderCleansUp
      <4>1. group' = [leader |-> "gone", members |-> FALSE]
        BY <3>4 DEF ForceKill, LeaderCleansUp
      <4> QED  BY <4>1
    <3> QED  BY <3>2, <3>3, <3>4
  <2> QED  BY <1>1, <1>2, <2>1 DEF Rest, Typed, Told, DrainInv, SuccessEarned
<1>3. CASE attempt' # attempt
  <2>1. PICK exit \in {"zero", "failed"}, e \in BOOLEAN :
          attempt' = [attempt EXCEPT !.at = "cleaning", !.exit = exit, !.error = e]
    <3>1. attempt.error \in BOOLEAN /\ attempt \in Attempts
      BY DEF Rest, Typed, Attempts
    <3>2. CASE BackendExits
      <4>1. PICK exit \in {"zero", "failed"} :
              attempt' = [attempt EXCEPT !.at = "cleaning", !.exit = exit]
        BY <3>2 DEF BackendExits
      <4>2. attempt' = [attempt EXCEPT !.at = "cleaning", !.exit = exit,
                                       !.error = attempt.error]
        BY <3>1, <4>1 DEF Attempts
      <4> QED  BY <3>1, <4>2
    <3>3. CASE ForceKill \/ LeaderDies
      BY <1>3, <3>3 DEF ForceKill, LeaderDies
    <3>4. CASE LeaderCleansUp
      BY <1>3, <3>4 DEF LeaderCleansUp
    <3> QED  BY <3>2, <3>3, <3>4
  <2>2. /\ attempt' \in Attempts /\ attempt'.at = "cleaning"
        /\ attempt'.outcome = attempt.outcome /\ attempt'.reason = attempt.reason
    BY <2>1 DEF Rest, Typed, Attempts
  <2>3. attempt.at = "running"
    BY <1>3 DEF BackendExits, ForceKill, LeaderDies, LeaderCleansUp
  <2> QED  BY <1>1, <2>2, <2>3, NotYet DEF Rest, Typed, Told, DrainInv
<1> QED  BY <1>2, <1>3

LEMMA CleanupStep ==
    ASSUME Rest, Cleanup
    PROVE  Rest'
<1>1. PICK gone \in BOOLEAN :
        /\ group' = [leader |-> IF group.leader # "alive" THEN group.leader
                                ELSE IF gone THEN "gone" ELSE "lost",
                     members |-> group.members /\ ~gone]
        /\ attempt' = CleanedUp(gone)
  BY DEF Cleanup
<1>2. attempt.at = "cleaning" /\ UNCHANGED <<kind, host, job, starts, said>>
  BY DEF Cleanup
<1>3. CASE gone
  <2>1. attempt' = [attempt EXCEPT !.at = "draining"]
    BY <1>1, <1>3 DEF CleanedUp
  <2>2. /\ attempt' \in Attempts /\ attempt'.at = "draining"
        /\ attempt'.outcome = attempt.outcome /\ attempt'.reason = attempt.reason
    BY <2>1 DEF Rest, Typed, Attempts
  <2>3. group' = [leader |-> IF group.leader # "alive" THEN group.leader ELSE "gone",
                  members |-> FALSE]
    BY <1>1, <1>3
  <2>4. /\ group' \in [leader : {"none", "alive", "gone", "lost"}, members : BOOLEAN]
        /\ ~group'.members
    BY <2>3 DEF Rest, Typed
  <2> QED  BY <1>2, <2>2, <2>4, NotYet DEF Rest, Typed, Told, DrainInv
<1>4. CASE ~gone
  <2>1. attempt' = [attempt EXCEPT !.at = "draining", !.error = TRUE,
                        !.reason = "internal_error", !.outcome = "failure",
                        !.failure = "internal_error"]
    BY <1>1, <1>4 DEF CleanedUp
  <2>2. /\ attempt' \in Attempts /\ attempt'.at = "draining"
        /\ attempt'.outcome = "failure" /\ attempt'.reason = "internal_error"
    BY <2>1 DEF Rest, Typed, Attempts, Outcomes, Reasons
  <2> DEFINE members == group.members /\ ~gone
  <2>3. members \in BOOLEAN
    OBVIOUS
  <2>4. group' = [leader |-> IF group.leader # "alive" THEN group.leader ELSE "lost",
                  members |-> members]
    BY <1>1, <1>4
  <2> HIDE DEF members
  <2>5. group' \in [leader : {"none", "alive", "gone", "lost"}, members : BOOLEAN]
    BY <2>3, <2>4 DEF Rest, Typed
  <2> QED  BY <1>2, <2>2, <2>5, NotYet DEF Rest, Typed, Told, DrainInv
<1> QED  BY <1>3, <1>4

\* Recorded as succeeded: nothing that was heard or done stands against it.
LEMMA DrainedStep ==
    ASSUME Rest, NEW h \in Hosts, Drained(h)
    PROVE  Rest'
<1>1. PICK file \in {"none", "empty", "unfit", "text"} :
        /\ attempt' = [PendingUsed(FileRead(attempt, file)) EXCEPT !.at = "ended",
                                                                  !.file = file]
        /\ job' = FinalEvent(PendingUsed(FileRead(attempt, file)))
  BY DEF Drained
<1> DEFINE a == PendingUsed(FileRead(attempt, file))
<1>2. /\ a \in Attempts
      /\ a.at = attempt.at /\ a.exit = attempt.exit /\ a.reason = attempt.reason
      /\ attempt.outcome = "failure" => a.outcome = "failure"
      /\ a.outcome = "success" => attempt.outcome = "success"
  BY NothingGetsBetter DEF Rest, Typed
<1>3. job' = FinalEvent(a) /\ attempt' = [a EXCEPT !.at = "ended", !.file = file]
  BY <1>1
<1> HIDE DEF a
<1>4. /\ attempt' \in Attempts /\ attempt'.at = "ended"
      /\ attempt'.exit = a.exit /\ attempt'.reason = a.reason
      /\ attempt'.outcome = a.outcome
  BY <1>2, <1>3 DEF Attempts
<1>5. /\ UNCHANGED <<kind, starts, group, said>>
      /\ host' \in [Hosts -> {"idle", "checked", "preparing", "running", "answered", "dead"}]
      /\ attempt.at \in {"draining", "forcing"}
      /\ attempt.at = "forcing" \/ ~group.members
  BY DEF Drained, Rest, Typed
<1>6. Typed' /\ DrainInv' /\ Told(attempt', said')
  BY <1>2, <1>4, <1>5 DEF Rest, Typed, Told, DrainInv
<1>7. job' = "succeeded" => SuccessEarned'
  <2> SUFFICES ASSUME job' = "succeeded" PROVE SuccessEarned'
    OBVIOUS
  <2>1. a.reason = "none" /\ a.exit = "zero" /\ a.outcome = "success"
    BY <1>2, <1>3, WhatIsRecorded
  <2>2. attempt.reason = "none" /\ attempt.outcome = "success"
    BY <1>2, <2>1
  <2>3. said.success /\ ~said.failure /\ ~said.asked /\ ~group.members
    BY <1>5, <2>2 DEF Rest, Told, DrainInv
  <2> QED  BY <1>4, <1>5, <2>1, <2>3 DEF SuccessEarned
<1> QED  BY <1>4, <1>6, <1>7 DEF Rest, Told, SuccessEarned

LEMMA CrashStep ==
    ASSUME Rest, HostInv, NEW h \in Hosts, Crash(h)
    PROVE  Rest'
<1>1. /\ UNCHANGED <<kind, job, starts, group>>
      /\ host' \in [Hosts -> {"idle", "checked", "preparing", "running", "answered", "dead"}]
  BY DEF Crash, Rest, Typed
<1>2. CASE host[h] = "running"
  <2>1. attempt' = [NotStarted EXCEPT !.at = "abandoned"] /\ said' = Silence
    BY <1>2 DEF Crash
  <2>2. attempt' \in Attempts /\ attempt'.at = "abandoned" /\ attempt'.outcome = "none"
    BY <2>1 DEF NotStarted, Attempts, Outcomes, Reasons
  <2>3. said' \in Heardings /\ said'.failure = FALSE /\ said'.asked = FALSE
    BY <2>1 DEF Silence, Heardings
  <2>4. job = "open"
    BY <1>2 DEF HostInv, InHand
  <2> QED  BY <1>1, <2>2, <2>3, <2>4 DEF Rest, Typed, Told, DrainInv, SuccessEarned
<1>3. CASE host[h] # "running"
  <2>1. UNCHANGED <<attempt, said>>
    BY <1>3 DEF Crash
  <2> QED  BY <1>1, <2>1 DEF Rest, Typed, Told, DrainInv, SuccessEarned
<1> QED  BY <1>2, <1>3

-----------------------------------------------------------------------------
(* What is answered and what it is put down to.                             *)

\* Nobody is answered before the verdict; from then on nothing changes any more.
Fate ==
    /\ answer \in [Hosts -> [ok : BOOLEAN, text : Texts \cup {"none"}]]
    /\ job \in {"none", "open", "succeeded", "quota", "process_exit", "timeout", "cancelled",
                "recovery", "no_progress", "approval_ui", "internal_error"}
    /\ attempt.at # "ended" => Noted(attempt, said) /\ \A h \in Hosts : ~answer[h].ok
    /\ attempt.at = "ended" => job \notin {"none", "open"}
    /\ AnswerTrue
    /\ QuotaTold

LEMMA InitFate == Init => Fate
<1> SUFFICES ASSUME Init PROVE Fate
  OBVIOUS
<1>1. attempt = NotStarted /\ said = Silence /\ answer = [h \in Hosts |-> Unanswered]
      /\ job \in {"none", "open"}
  BY DEF Init
<1>2. \A h \in Hosts : answer[h] = Unanswered /\ ~answer[h].ok
  BY <1>1 DEF Unanswered
<1>3. answer \in [Hosts -> [ok : BOOLEAN, text : Texts \cup {"none"}]]
  BY <1>1 DEF Unanswered
<1>4. attempt.at # "ended" /\ Noted(attempt, said)
  BY <1>1 DEF NotStarted, Silence, Noted
<1> QED  BY <1>1, <1>2, <1>3, <1>4 DEF Fate, AnswerTrue, QuotaTold

\* Before the verdict only what is noted can change.
LEMMA StillUnanswered ==
    ASSUME Fate, attempt.at # "ended", attempt'.at # "ended", answer' = answer,
           job' = job \/ job' = "open", Noted(attempt, said)'
    PROVE  Fate'
BY DEF Fate, AnswerTrue, QuotaTold

\* A reason more excuses everything but the text.
LEMMA ReasonIsNoted ==
    ASSUME NEW a \in Attempts, NEW s, a.reason # "none", a.text = s.last
    PROVE  Noted(a, s)
BY DEF Noted

\* An exit changes neither what was said nor, but for a killed leader, what decides.
LEMMA ExitIsNoted ==
    ASSUME NEW a \in Attempts, NEW s, Noted(a, s), NEW exit \in {"zero", "failed"},
           NEW e \in BOOLEAN, e => exit = "failed" \/ a.reason # "none",
           a.error => e
    PROVE  Noted([a EXCEPT !.at = "cleaning", !.exit = exit, !.error = e], s)
<1> DEFINE r == [a EXCEPT !.at = "cleaning", !.exit = exit, !.error = e]
<1>1. /\ r.text = a.text /\ r.reason = a.reason /\ r.failure = a.failure
      /\ r.pending = a.pending /\ r.outcome = a.outcome
      /\ r.exit = exit /\ r.error = e /\ r.at = "cleaning"
  BY DEF Attempts
<1> HIDE DEF r
<1>2. Noted(r, s)
  BY <1>1 DEF Noted
<1> QED  BY <1>2 DEF r

LEMMA FateBeforeTheVerdict ==
    ASSUME Rest, HostInv, Fate, attempt.at # "ended", [Next]_vars,
           ~ \E h \in Hosts : Drained(h)
    PROVE  Fate'
<1> USE DEF Rest, Typed
<1>1. Noted(attempt, said) /\ attempt \in Attempts /\ said \in Heardings
  BY DEF Fate
<1>2. ASSUME NEW i \in Readings[kind.backend], NEW refused \in BOOLEAN,
             ReadStdout(i, refused) \/ ReadStderr(i, refused)
      PROVE  Fate'
  <2>1. i \in Inspected /\ OnlyMessagesTell(i)
    BY KindsKnown, WhatALineSays
  <2>2. answer' = answer /\ job' = job
    BY <1>2 DEF ReadStdout, ReadStderr
  <2>3. CASE ReadStdout(i, refused)
    <3>1. attempt' = Recorded(attempt, i, refused) /\ said' = HeardToo(said, i)
      BY <2>3 DEF ReadStdout, HeardToo
    <3>2. Noted(attempt', said')
      BY <1>1, <2>1, <3>1, StdoutIsNoted
    <3>3. attempt'.at = attempt.at
      BY <1>1, <2>1, <3>1, RecordedAndTold
    <3> QED  BY <2>2, <3>2, <3>3, StillUnanswered
  <2>4. CASE ReadStderr(i, refused)
    <3>1. attempt' = RecordedStderr(attempt, i, refused) /\ said' = HintedToo(said, i)
      BY <2>4 DEF ReadStderr, HintedToo
    <3>2. Noted(attempt', said')
      BY <1>1, <2>1, <3>1, StderrIsNoted
    <3>3. attempt'.at = attempt.at
      BY <1>1, <2>1, <3>1, RecordedFromStderr
    <3> QED  BY <2>2, <3>2, <3>3, StillUnanswered
  <2> QED  BY <1>2, <2>3, <2>4
<1>3. ASSUME attempt' = attempt, said' = said, answer' = answer, job' = job \/ job' = "open"
      PROVE  Fate'
  BY <1>1, <1>3, StillUnanswered
<1>4. CASE \E h \in Hosts : Claim(h) \/ CreateJob(h) \/ PreparationFails(h)
  BY <1>3, <1>4 DEF Claim, CreateJob, PreparationFails
<1>5. ASSUME NEW h \in Hosts, Start(h)
      PROVE  Fate'
  <2>1. /\ attempt' = [NotStarted EXCEPT !.at = "running"] /\ said' = Silence
        /\ answer' = answer /\ job' = job
    BY <1>5 DEF Start
  <2>2. attempt'.at = "running" /\ Noted(attempt', said')
    BY <2>1 DEF NotStarted, Silence, Noted
  <2> QED  BY <2>1, <2>2, StillUnanswered
<1>6. ASSUME NEW h \in Hosts, Crash(h)
      PROVE  Fate'
  <2>1. CASE host[h] = "running"
    <3>1. /\ attempt' = [NotStarted EXCEPT !.at = "abandoned"] /\ said' = Silence
          /\ answer' = answer /\ job' = job
      BY <1>6, <2>1 DEF Crash
    <3>2. attempt'.at = "abandoned" /\ Noted(attempt', said')
      BY <3>1 DEF NotStarted, Silence, Noted
    <3> QED  BY <3>1, <3>2, StillUnanswered
  <2>2. CASE host[h] # "running"
    BY <1>3, <1>6, <2>2 DEF Crash
  <2> QED  BY <2>1, <2>2
<1>7. CASE Timeout \/ Abort \/ DrainTimeout
  <2>1. /\ attempt' \in Attempts /\ attempt'.reason # "none" /\ attempt'.text = attempt.text
        /\ attempt'.at # "ended"
    BY <1>1, <1>7, AReasonMore
  <2>2. UNCHANGED <<answer, job, said>>
    BY <1>7 DEF Timeout, Abort, DrainTimeout
  <2>3. Noted(attempt', said')
    BY <1>1, <2>1, <2>2 DEF Noted
  <2> QED  BY <2>1, <2>2, <2>3, StillUnanswered
<1>8. CASE BackendExits \/ ForceKill \/ LeaderDies \/ LeaderCleansUp
  <2>1. UNCHANGED <<answer, job, said>>
    BY <1>8 DEF BackendExits, ForceKill, LeaderDies, LeaderCleansUp
  <2>2. CASE attempt' = attempt
    BY <1>3, <2>1, <2>2
  <2>3. CASE attempt' # attempt
    <3>1. PICK exit \in {"zero", "failed"}, e \in BOOLEAN :
            /\ attempt' = [attempt EXCEPT !.at = "cleaning", !.exit = exit, !.error = e]
            /\ e => exit = "failed" \/ attempt.reason # "none"
            /\ attempt.error => e
      <4>1. attempt.error \in BOOLEAN
        BY <1>1 DEF Attempts
      <4>2. CASE BackendExits
        <5>1. PICK exit \in {"zero", "failed"} :
                attempt' = [attempt EXCEPT !.at = "cleaning", !.exit = exit]
          BY <4>2 DEF BackendExits
        <5>2. attempt' = [attempt EXCEPT !.at = "cleaning", !.exit = exit,
                                         !.error = attempt.error]
          BY <1>1, <5>1 DEF Attempts
        <5>3. attempt.error => exit = "failed" \/ attempt.reason # "none"
          BY <1>1, <4>2 DEF Noted, BackendExits
        <5> QED  BY <4>1, <5>2, <5>3
      <4>3. CASE ForceKill \/ LeaderDies
        BY <2>3, <4>3 DEF ForceKill, LeaderDies
      <4> QED  BY <1>8, <2>3, <4>2, <4>3 DEF LeaderCleansUp
    <3>2. Noted(attempt', said')
      BY <1>1, <2>1, <3>1, ExitIsNoted
    <3>3. attempt'.at = "cleaning"
      BY <1>1, <3>1 DEF Attempts
    <3> QED  BY <2>1, <3>2, <3>3, StillUnanswered
  <2> QED  BY <2>2, <2>3
<1>9. CASE Cleanup
  <2>1. PICK gone \in BOOLEAN : attempt' = CleanedUp(gone)
    BY <1>9 DEF Cleanup
  <2>2. UNCHANGED <<answer, job, said>>
    BY <1>9 DEF Cleanup
  <2>3. CASE gone
    <3>1. attempt' = [attempt EXCEPT !.at = "draining"]
      BY <2>1, <2>3 DEF CleanedUp
    <3>2. /\ attempt'.at = "draining" /\ attempt'.text = attempt.text
          /\ attempt'.error = attempt.error /\ attempt'.reason = attempt.reason
          /\ attempt'.exit = attempt.exit /\ attempt'.failure = attempt.failure
          /\ attempt'.pending = attempt.pending /\ attempt'.outcome = attempt.outcome
      BY <1>1, <3>1 DEF Attempts
    <3>3. Noted(attempt', said')
      BY <1>1, <2>2, <3>2 DEF Noted
    <3> QED  BY <2>2, <3>2, <3>3, StillUnanswered
  <2>4. CASE ~gone
    <3>1. attempt' = [attempt EXCEPT !.at = "draining", !.error = TRUE,
                          !.reason = "internal_error", !.outcome = "failure",
                          !.failure = "internal_error"]
      BY <2>1, <2>4 DEF CleanedUp
    <3>2. /\ attempt'.at = "draining" /\ attempt'.text = attempt.text
          /\ attempt'.reason = "internal_error"
      BY <1>1, <3>1 DEF Attempts
    <3>3. Noted(attempt', said')
      BY <1>1, <2>2, <3>2 DEF Noted
    <3> QED  BY <2>2, <3>2, <3>3, StillUnanswered
  <2> QED  BY <2>3, <2>4
<1>10. CASE UNCHANGED vars
  BY <1>3, <1>10 DEF vars
<1> QED  BY <1>2, <1>4, <1>5, <1>6, <1>7, <1>8, <1>9, <1>10 DEF Next

\* Once there is a verdict nobody claims, starts or says anything any more.
LEMMA FateAfterTheVerdict ==
    ASSUME Rest, HostInv, Fate, attempt.at = "ended", [Next]_vars
    PROVE  Fate'
<1>1. job \notin {"none", "open"} /\ \A h \in Hosts : ~InHand(h)
  BY DEF Fate, HostInv
<1>2. UNCHANGED <<kind, answer, job, attempt, said>>
  <2>1. ~Listening
    BY DEF Listening
  <2>2. ASSUME NEW h \in Hosts, \/ Claim(h) \/ CreateJob(h) \/ PreparationFails(h) \/ Start(h)
                                \/ Drained(h) \/ Crash(h)
        PROVE  UNCHANGED <<kind, answer, job, attempt, said>>
    <3>1. host[h] \notin {"preparing", "running"}
      BY <1>1 DEF InHand
    <3>2. Claim(h) \/ CreateJob(h) \/ Crash(h)
      BY <2>2, <3>1 DEF PreparationFails, Start, Drained
    <3> QED  BY <1>1, <3>1, <3>2 DEF Claim, CreateJob, Crash
  <2>3. ~(Timeout \/ Abort \/ BackendExits \/ ForceKill \/ Cleanup \/ DrainTimeout
            \/ LeaderCleansUp)
    BY <2>1 DEF Timeout, Abort, BackendExits, ForceKill, Cleanup, DrainTimeout, LeaderCleansUp
  <2>4. CASE LeaderDies
    BY <2>4 DEF LeaderDies
  <2>5. ~ \E i \in Readings[kind.backend], refused \in BOOLEAN :
             ReadStdout(i, refused) \/ ReadStderr(i, refused)
    BY <2>1 DEF ReadStdout, ReadStderr
  <2> QED  BY <2>2, <2>3, <2>4, <2>5 DEF Next, vars
<1> QED  BY <1>2 DEF Fate, AnswerTrue, QuotaTold

\* The verdict answers one host, with what was heard or what codex left behind.
LEMMA FateAtTheVerdict ==
    ASSUME Rest, HostInv, Fate, NEW h \in Hosts, Drained(h)
    PROVE  Fate'
<1>1. PICK file \in {"none", "empty", "unfit", "text"} :
        /\ attempt' = [PendingUsed(FileRead(attempt, file)) EXCEPT !.at = "ended",
                                                                  !.file = file]
        /\ job' = FinalEvent(PendingUsed(FileRead(attempt, file)))
        /\ answer' = [answer EXCEPT ![h] = Answer(PendingUsed(FileRead(attempt, file)))]
  BY DEF Drained
<1>2. /\ UNCHANGED <<kind, said>> /\ attempt.at # "ended"
      /\ Noted(attempt, said) /\ \A g \in Hosts : ~answer[g].ok
      /\ attempt \in Attempts /\ kind \in Kinds
  BY DEF Drained, Fate, Rest, Typed
<1> DEFINE a == PendingUsed(FileRead(attempt, file))
           A == Answer(a)
<1>3. /\ a \in Attempts /\ a.exit = attempt.exit /\ a.reason = attempt.reason
  BY <1>2, NothingGetsBetter
<1>4. /\ a.error = attempt.error
      /\ a.outcome = "success" =>
            /\ attempt.exit = "zero" =>
                  a.text = IF kind.backend = "codex" /\ file = "text" THEN "file"
                           ELSE said.last
            /\ attempt.exit = "zero" /\ kind.task => file = "text"
      /\ attempt.reason = "none" /\ ~attempt.error =>
            (FinalEvent(a) = "quota" <=> said.quota \/ (said.hint /\ attempt.exit # "zero"))
  BY <1>2, TheVerdict
<1>5. /\ attempt' = [a EXCEPT !.at = "ended", !.file = file]
      /\ job' = FinalEvent(a)
      /\ answer' = [answer EXCEPT ![h] = A]
  BY <1>1
<1> HIDE DEF a
<1>6. /\ attempt'.at = "ended" /\ attempt'.file = file /\ attempt'.error = attempt.error
      /\ attempt'.reason = attempt.reason /\ attempt'.exit = attempt.exit
  BY <1>3, <1>4, <1>5 DEF Attempts
<1>7. /\ job' \in {"succeeded", "quota", "process_exit", "timeout", "cancelled", "recovery",
                   "no_progress", "approval_ui", "internal_error"}
      /\ job' # "none" /\ job' # "open"
  BY <1>3, <1>5, BackendAssumption DEF FinalEvent, Attempts, Reasons
<1>8. /\ A.ok \in BOOLEAN /\ A.text \in Texts \cup {"none"} /\ A = [ok |-> A.ok, text |-> A.text]
      /\ A.ok => /\ a.outcome = "success" /\ a.text # "none" /\ A.text = a.text
                 /\ IF kind.task THEN a.exit = "zero" /\ a.reason = "none"
                    ELSE FinalEvent(a) = "succeeded"
  <2> DEFINE ok == /\ a.outcome = "success" /\ a.text # "none"
                   /\ IF kind.task THEN a.exit = "zero" /\ a.reason = "none"
                      ELSE FinalEvent(a) = "succeeded"
             text == IF ok THEN a.text ELSE "none"
  <2>1. A = [ok |-> ok, text |-> text]
    BY DEF Answer
  <2>2. ok \in BOOLEAN
    OBVIOUS
  <2>3. text \in Texts \cup {"none"}
    BY <1>3 DEF Attempts
  <2>4. ok => text = a.text
    OBVIOUS
  <2>5. ok => /\ a.outcome = "success" /\ a.text # "none"
              /\ IF kind.task THEN a.exit = "zero" /\ a.reason = "none"
                 ELSE FinalEvent(a) = "succeeded"
    OBVIOUS
  <2> HIDE DEF A, ok, text
  <2> QED  BY <2>1, <2>2, <2>3, <2>4, <2>5
<1> HIDE DEF A
<1>9. answer' \in [Hosts -> [ok : BOOLEAN, text : Texts \cup {"none"}]]
  <2>1. A \in [ok : BOOLEAN, text : Texts \cup {"none"}]
    BY <1>8
  <2> QED  BY <1>5, <2>1 DEF Fate
<1>10. ASSUME NEW g \in Hosts, answer'[g].ok
       PROVE  g = h /\ answer'[g] = A
  BY <1>2, <1>5, <1>10 DEF Fate
<1>11. ASSUME A.ok
       PROVE  /\ job' = "succeeded"
              /\ A.text = IF kind.backend = "codex" /\ file = "text" THEN "file" ELSE said.last
              /\ kind.task => file = "text"
              /\ A.text # "none"
  <2>1. a.exit = "zero"
    BY <1>3, <1>8, <1>11, WhatIsRecorded
  <2>2. FinalEvent(a) = "succeeded"
    <3>1. CASE kind.task
      <4>1. a.reason = "none" /\ ~a.error /\ a.outcome = "success"
        BY <1>2, <1>3, <1>4, <1>8, <1>11, <2>1, <3>1 DEF Noted
      <4> QED  BY <2>1, <4>1 DEF FinalEvent
    <3>2. CASE ~kind.task
      BY <1>8, <1>11, <3>2
    <3> QED  BY <3>1, <3>2
  <2> QED  BY <1>3, <1>4, <1>5, <1>8, <1>11, <2>1, <2>2
<1>12. AnswerTrue'
  BY <1>2, <1>6, <1>10, <1>11 DEF AnswerTrue
<1>13. QuotaTold'
  BY <1>2, <1>4, <1>5, <1>6 DEF QuotaTold
<1> QED  BY <1>6, <1>7, <1>9, <1>12, <1>13 DEF Fate

-----------------------------------------------------------------------------
(* The theorems.                                                            *)

LEMMA StepHolds == IInv /\ [Next]_vars => IInv'
<1> SUFFICES ASSUME IInv, [Next]_vars PROVE IInv'
  OBVIOUS
<1>1. Rest /\ HostInv
  BY DEF IInv, Rest
<1>2. HostInv'
  BY <1>1, HostsStep DEF Rest
<1>3. CASE UNCHANGED vars
  BY <1>1, <1>3 DEF vars, Rest, Typed, Told, DrainInv, SuccessEarned, IInv, HostInv, InHand
<1>4. CASE \E i \in Readings[kind.backend], refused \in BOOLEAN :
             ReadStdout(i, refused) \/ ReadStderr(i, refused)
  BY <1>1, <1>2, <1>4, StdoutStep, StderrStep DEF IInv, Rest
<1>5. CASE \E h \in Hosts : Claim(h) \/ CreateJob(h) \/ PreparationFails(h)
  BY <1>1, <1>2, <1>5, ClaimStep DEF IInv, Rest
<1>6. CASE \E h \in Hosts : Start(h) \/ Crash(h)
  BY <1>1, <1>2, <1>6, StartStep, CrashStep DEF IInv, Rest
<1>7. CASE \E h \in Hosts : Drained(h)
  BY <1>1, <1>2, <1>7, DrainedStep DEF IInv, Rest
<1>8. CASE Timeout \/ Abort \/ DrainTimeout
  BY <1>1, <1>2, <1>8, ReasonStep DEF IInv, Rest
<1>9. CASE BackendExits \/ ForceKill \/ LeaderDies \/ LeaderCleansUp
  BY <1>1, <1>2, <1>9, ExitStep DEF IInv, Rest
<1>10. CASE Cleanup
  BY <1>1, <1>2, <1>10, CleanupStep DEF IInv, Rest
<1> QED  BY <1>3, <1>4, <1>5, <1>6, <1>7, <1>8, <1>9, <1>10 DEF Next

LEMMA AlwaysIInv == Spec => []IInv
BY InitHolds, StepHolds, PTL DEF Spec

\* However many hosts claim a task, whichever is faster, and whenever they die:
\* its backend is started at most once. (runClaimedBackendTask, createJob)
THEOREM NeverTwice == Spec => []ExecutedOnce
<1>1. IInv => ExecutedOnce
  BY DEF IInv, HostInv, ExecutedOnce
<1> QED  BY AlwaysIInv, <1>1, PTL

\* Whatever a backend prints, in whatever order, and however time limits, aborts,
\* exits, the cleanup and refused writes meet: an attempt recorded as succeeded has
\* said so, ended with 0, failed and asked for nothing, and left nobody behind.
\* (runBackendAttempt)
THEOREM SuccessIsEarned == Spec => []SuccessEarned
<1>1. IInv => SuccessEarned
  BY DEF IInv
<1> QED  BY AlwaysIInv, <1>1, PTL

LEMMA AlwaysFate == Spec => []Fate
<1>1. IInv /\ Fate /\ [Next]_vars => Fate'
  <2> SUFFICES ASSUME IInv, Fate, [Next]_vars PROVE Fate'
    OBVIOUS
  <2>1. Rest /\ HostInv
    BY DEF IInv, Rest
  <2> QED  BY <2>1, FateBeforeTheVerdict, FateAfterTheVerdict, FateAtTheVerdict
<1> QED  BY <1>1, InitFate, AlwaysIInv, PTL DEF Spec

\* Every variable keeps its type.
THEOREM AttemptTypes == Spec => []TypeOK
<1>1. IInv /\ Fate => TypeOK
  BY DEF IInv, Typed, Fate, TypeOK, Attempts, Outcomes, Heardings
<1> QED  BY AlwaysIInv, AlwaysFate, <1>1, PTL

\* Whoever runs it, a host is answered with what the backend said last or codex left in its
\* file, and only for an attempt recorded as succeeded: no line that came before or after,
\* no refused write and no abort in between changes which text that is.
\* (runBackendAttempt, runClaimedBackendTask)
THEOREM AnswersAreTrue == Spec => []AnswerTrue
<1>1. Fate => AnswerTrue
  BY DEF Fate
<1> QED  BY AlwaysFate, <1>1, PTL

\* An attempt that nothing cut short is put down to the quota exactly if the provider
\* said so, in whatever order the lines of its two streams came.
\* (classifyBackendFailure, runBackendAttempt)
THEOREM QuotaIsTold == Spec => []QuotaTold
<1>1. Fate => QuotaTold
  BY DEF Fate
<1> QED  BY AlwaysFate, <1>1, PTL

=============================================================================
