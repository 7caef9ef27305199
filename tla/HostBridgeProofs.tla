---------------------------- MODULE HostBridgeProofs ----------------------------
(******************************************************************************)
(* The bridge implements the resumable feed and earns its receipts, for any     *)
(* messages and sessions and whatever is refused, late or lost.                *)
(*                                                                            *)
(* At most one request of the dispatch in progress is on its way, out or back    *)
(* (PipeInv), and it is the one the chain waits for (Awaited).  RequestInv says  *)
(* what holds until the host carries it out, LineInv what its answer proves.     *)
(* ChainInv is about the process that reads it: how far it has come in its       *)
(* session, and what the host's checkpoint has of that.  What the abstract feed   *)
(* itself promises is proved here once, for both keepers of a checkpoint.        *)
(******************************************************************************)
EXTENDS HostBridge, SequenceTheorems, TLAPS

Steps == {"ready", "dispatch", "sequence"}
StepOf(at) == IF at = "save" THEN "sequence" ELSE at

(* Of a way of the pipe, as a value: *)
Has(q, kind) == \E r \in Range(q) : r.kind = kind
Quiet(q) == \A r \in Range(q) : r.kind \notin Steps
Single(q) == \A i, k \in DOMAIN q : q[i].kind \in Steps /\ q[k].kind \in Steps => i = k
\* nothing adopts the session again behind a request to forget it
ClearIsLast(q) ==
    \A i, k \in DOMAIN q : i < k /\ q[i].kind = "clear" => q[k].kind # "ready"

PipeInv ==
    /\ Single(outbox) /\ Single(inbox) /\ (Quiet(outbox) \/ Quiet(inbox))
    /\ ClearIsLast(outbox)

\* the events of session before n that are decided about
DecidedBefore(n) == \A i \in 1..(n - 1) : log[session][i] \in handled \cup {Ready}

LogInv ==
    /\ \A s \in Sessions : log[s] # <<>> => log[s][1] = Ready
    /\ \A s \in Sessions : \A i \in DOMAIN log[s] : log[s][i] = Ready => i = 1
    /\ resumable # 0 => log[resumable] # <<>>
    /\ session # 0 => log[session] # <<>>
    /\ checkpoint.session # 0 => log[checkpoint.session] # <<>>

NothingSkipped ==
    checkpoint.session # 0 =>
        /\ checkpoint.sequence <= Len(log[checkpoint.session])
        /\ \A i \in 1..checkpoint.sequence :
              log[checkpoint.session][i] \in handled \cup {Ready}

Awaits(r) == r.kind \in Steps => r.kind = StepOf(chain.at) /\ r.about = chain.doing
Awaited ==
    Running => \A r \in Range(outbox) \cup Range(inbox) : Awaits(r)

RequestOK(r) ==
    /\ r.kind \in Steps => session # 0 /\ r.about \in DOMAIN log[session]
    /\ r.kind = "ready" => r.about = 1 /\ checkpoint.session # session
    /\ r.kind = "sequence" =>
          /\ checkpoint.session \in {0, session}
          /\ checkpoint.session = session => checkpoint.sequence < r.about
          /\ DecidedBefore(r.about + 1)
RequestInv == \A r \in Range(outbox) : RequestOK(r)

LineOK(l) ==
    /\ l.kind \in Steps => session # 0 /\ l.about \in DOMAIN log[session]
    /\ l.kind = "stop" => l.ok
    /\ l.kind = "ready" /\ l.ok => checkpoint.session \in {0, session}
    /\ l.kind = "dispatch" /\ l.ok => log[session][l.about] \in handled \cup {Ready}
    /\ l.kind = "sequence" /\ l.ok /\ checkpoint.session = session
          => checkpoint.sequence = l.about
LineInv == \A l \in Range(inbox) : LineOK(l)

RefusalIsTold ==
    refused /\ (Running \/ mode = "stopped") => \E l \in Range(inbox) : ~l.ok

SocketInv ==
    mode = "up" =>
        /\ socket = "opening" => session = 0
        /\ socket = "open" => session # 0
        /\ socket = "opening" \/ (socket = "open" /\ next = 1) => ~Has(outbox, "clear")

Ours == checkpoint.session = session
Excused == refused \/ Has(outbox, "clear")

\* how far the process has come in its session
Place ==
    /\ next \in 1..(Len(log[session]) + 1)
    /\ chain.at # "idle" => chain.doing = next - 1 /\ chain.doing # 0
    /\ chain.at = "ready" => chain.doing = 1
    /\ IF chain.at \in {"ready", "dispatch"} THEN DecidedBefore(chain.doing)
       ELSE DecidedBefore(next)

\* what the checkpoint has of that
Saved ==
    /\ next = 1 => ~Ours
    /\ next # 1 /\ chain.at # "ready" => checkpoint.session \in {0, session}
    /\ Ours => checkpoint.sequence < next
    /\ Ours /\ chain.at \in {"ready", "dispatch"} => checkpoint.sequence < chain.doing
    /\ Ours /\ chain.at = "idle" => checkpoint.sequence = next - 1 \/ Excused
    /\ chain.stale /\ ~Excused => ~Ours /\ ~Has(outbox, "ready")

ChainInv ==
    Running => /\ session = 0 => chain.at = "idle"
               /\ chain.at = "idle" => ~chain.stale
               /\ session # 0 => Place /\ Saved

HInv ==
    /\ TypeOK /\ LogInv /\ NothingSkipped /\ PipeInv /\ Awaited /\ RequestInv /\ LineInv
    /\ RefusalIsTold /\ SocketInv /\ ChainInv /\ ReceiptEarned

--------------------------------------------------------------------------------
(* The pipe and the logs *)

LEMMA Appended ==
    ASSUME NEW S, NEW q \in Seq(S), NEW x \in S
    PROVE  /\ Append(q, x) \in Seq(S)
           /\ Range(Append(q, x)) = Range(q) \cup {x}
           /\ Single(q) /\ (Quiet(q) \/ x.kind \notin Steps) => Single(Append(q, x))
           /\ Quiet(q) /\ x.kind \notin Steps => Quiet(Append(q, x))
           /\ ClearIsLast(q) /\ (x.kind # "ready" \/ ~Has(q, "clear"))
                 => ClearIsLast(Append(q, x))
<1> DEFINE r == Append(q, x)
<1>1. /\ r \in Seq(S) /\ Len(r) = Len(q) + 1 /\ r[Len(q) + 1] = x
      /\ \A i \in 1..Len(q) : r[i] = q[i]
  BY AppendProperties
<1>2. DOMAIN q = 1..Len(q) /\ DOMAIN r = 1..(Len(q) + 1) /\ Len(q) \in Nat
  BY <1>1
<1> HIDE DEF r
<1>3. Range(r) = Range(q) \cup {x}
  BY <1>1, <1>2 DEF Range
<1>4. Single(q) /\ (Quiet(q) \/ x.kind \notin Steps) => Single(r)
  BY <1>1, <1>2 DEF Single, Quiet, Range
<1>5. Quiet(q) /\ x.kind \notin Steps => Quiet(r)
  BY <1>3 DEF Quiet
<1>6. ClearIsLast(q) /\ (x.kind # "ready" \/ ~Has(q, "clear")) => ClearIsLast(r)
  BY <1>1, <1>2 DEF ClearIsLast, Has, Range
<1>7. QED
  BY <1>1, <1>3, <1>4, <1>5, <1>6 DEF r

LEMMA Taken ==
    ASSUME NEW S, NEW q \in Seq(S), q # <<>>
    PROVE  /\ Tail(q) \in Seq(S) /\ Head(q) \in S
           /\ Range(q) = {Head(q)} \cup Range(Tail(q))
           /\ Quiet(q) => Quiet(Tail(q))
           /\ Single(q) => /\ Single(Tail(q))
                           /\ Head(q).kind \in Steps => Quiet(Tail(q))
           /\ ClearIsLast(q) => /\ ClearIsLast(Tail(q))
                                /\ Head(q).kind = "clear" => ~Has(Tail(q), "ready")
<1> DEFINE r == Tail(q)
<1>1. /\ r \in Seq(S) /\ Len(r) = Len(q) - 1 /\ \A i \in 1..Len(r) : r[i] = q[i + 1]
  BY HeadTailProperties
<1>2. DOMAIN q = 1..Len(q) /\ Len(q) \in Nat \ {0} /\ DOMAIN r = 1..(Len(q) - 1)
  BY <1>1
<1>3. Head(q) = q[1] /\ Head(q) \in S
  BY <1>2
<1> HIDE DEF r
<1>4. \A i \in DOMAIN r : i + 1 \in DOMAIN q /\ r[i] = q[i + 1] /\ i \in Nat \ {0}
  BY <1>1, <1>2
<1>5. \A i \in DOMAIN q : i # 1 => i - 1 \in DOMAIN r /\ r[i - 1] = q[i]
  BY <1>1, <1>2
<1>6. Range(q) = {Head(q)} \cup Range(r)
  <2>1. 1 \in DOMAIN q
    BY <1>2
  <2>2. QED
    BY <2>1, <1>3, <1>4, <1>5 DEF Range
<1>7. Single(q) => Single(r)
  BY <1>4 DEF Single
<1>8. Single(q) /\ Head(q).kind \in Steps => Quiet(r)
  BY <1>2, <1>3, <1>4 DEF Single, Quiet, Range
<1>9. ClearIsLast(q) => ClearIsLast(r)
  BY <1>4 DEF ClearIsLast
<1>10. ClearIsLast(q) /\ Head(q).kind = "clear" => ~Has(r, "ready")
  BY <1>2, <1>3, <1>4 DEF ClearIsLast, Has, Range
<1>11. QED
  BY <1>1, <1>3, <1>6, <1>7, <1>8, <1>9, <1>10 DEF r, Quiet

LEMMA Empty == Range(<<>>) = {}
BY DEF Range

LEMMA Logs ==
    ASSUME TypeOK, NEW s \in Sessions
    PROVE  /\ log[s] \in Seq(Events) /\ Len(log[s]) \in Nat /\ DOMAIN log[s] = 1..Len(log[s])
           /\ log[s] # <<>> => Len(log[s]) # 0
BY DEF TypeOK

\* Logs only get longer, and nothing decided is taken back.
Grows ==
    /\ handled \subseteq handled'
    /\ \A s \in Sessions :
          /\ Len(log[s]) <= Len(log'[s])
          /\ \A i \in 1..Len(log[s]) : log'[s][i] = log[s][i]

LEMMA StaysDecided ==
    ASSUME TypeOK, TypeOK', Grows, session \in Sessions, UNCHANGED session,
           NEW n \in 1..(Len(log[session]) + 1), DecidedBefore(n)
    PROVE  DecidedBefore(n)'
BY Logs DEF Grows, DecidedBefore

Chains == [at : {"idle", "ready", "dispatch", "save"}, doing : Nat, stale : BOOLEAN]

LEMMA NothingYet ==
    /\ Idle \in Chains /\ Idle.at = "idle" /\ ~Idle.stale
    /\ <<>> \in Seq(Request) /\ <<>> \in Seq(Line) /\ <<>> \in Seq(Events)
<1>1. Idle \in Chains
  BY DEF Idle, Chains
<1>2. QED
  BY <1>1, EmptySeq DEF Idle

--------------------------------------------------------------------------------
(* The process and the session *)

LEMMA InitHInv == Init => HInv
<1> SUFFICES ASSUME Init PROVE HInv
  OBVIOUS
<1>1. TypeOK
  BY NothingYet DEF Init, TypeOK, Chains
<1>2. LogInv
  BY DEF Init, LogInv
<1>3. PipeInv /\ RequestInv /\ LineInv
  BY Empty DEF Init, PipeInv, Single, Quiet, ClearIsLast, RequestInv, LineInv
<1>4. QED
  BY <1>1, <1>2, <1>3 DEF Init, HInv, NothingSkipped, Awaited, RefusalIsTold, SocketInv,
     ChainInv, ReceiptEarned, Running

\* the process is at its end, and nothing else has changed
LEMMA EndKeeps ==
    ASSUME HInv, mode' \in {"off", "failed"}, socket' = "none", chain' \in {chain, Idle},
           UNCHANGED <<host, pipe, session, next, discord>>
    PROVE  HInv'
<1> USE DEF HInv, host, pipe, discord
<1>1. TypeOK'
  BY NothingYet DEF TypeOK, Chains
<1>2. LogInv' /\ NothingSkipped' /\ PipeInv'
  BY DEF LogInv, NothingSkipped, PipeInv
<1>3. RequestInv' /\ LineInv'
  BY DEF RequestInv, RequestOK, LineInv, LineOK, DecidedBefore
<1>4. QED
  BY <1>1, <1>2, <1>3 DEF Awaited, RefusalIsTold, SocketInv, ChainInv, ReceiptEarned, Running

LEMMA StartKeeps == HInv /\ Start => HInv'
<1> SUFFICES ASSUME HInv, Start PROVE HInv'
  OBVIOUS
<1> USE DEF HInv, Start, discord
<1>1. TypeOK'
  BY NothingYet DEF TypeOK, Chains
<1>2. LogInv' /\ NothingSkipped'
  BY DEF LogInv, NothingSkipped
<1>3. PipeInv' /\ RequestInv' /\ LineInv' /\ Awaited' /\ ~Has(outbox, "clear")'
  BY Empty DEF PipeInv, Single, Quiet, ClearIsLast, RequestInv, LineInv, Awaited, Has
<1>4. RefusalIsTold' /\ SocketInv' /\ ChainInv' /\ ReceiptEarned'
  BY <1>3 DEF RefusalIsTold, SocketInv, ChainInv, ReceiptEarned, Idle
<1>5. QED
  BY <1>1, <1>2, <1>3, <1>4

\* a process whose socket is opening has nothing of a dispatch in the pipe
LEMMA OpeningIsQuiet ==
    ASSUME HInv, mode = "up", socket = "opening"
    PROVE  /\ session = 0 /\ chain.at = "idle" /\ ~chain.stale
           /\ Quiet(outbox) /\ Quiet(inbox) /\ ~Has(outbox, "clear")
BY DEF HInv, SocketInv, ChainInv, Running, RequestInv, LineInv, RequestOK, LineOK, Quiet

LEMMA IdentifyKeeps == HInv /\ Identify => HInv'
<1> SUFFICES ASSUME HInv, Identify PROVE HInv'
  OBVIOUS
<1> USE DEF HInv
<1>1. PICK s \in Sessions \ Started :
        log' = [log EXCEPT ![s] = <<Ready>>] /\ resumable' = s /\ session' = s
  BY DEF Identify
<1>2. /\ mode = "up" /\ socket = "opening" /\ next' = 1 /\ socket' = "open"
      /\ mode' = mode /\ chain' = chain /\ outbox' = outbox /\ inbox' = inbox
      /\ checkpoint' = checkpoint /\ handled' = handled /\ refused' = refused
  BY DEF Identify, host, pipe
<1>3. /\ session = 0 /\ chain.at = "idle" /\ ~chain.stale
      /\ Quiet(outbox) /\ Quiet(inbox) /\ ~Has(outbox, "clear")
  BY <1>2, OpeningIsQuiet
<1>4. log[s] = <<>> /\ s # 0
  BY DEF Started, Sessions
<1>5. <<Ready>> \in Seq(Events) /\ Len(<<Ready>>) = 1 /\ <<Ready>>[1] = Ready /\ <<Ready>> # <<>>
      /\ DOMAIN <<Ready>> = {1}
  BY DEF Events
<1>6. TypeOK'
  BY <1>1, <1>2, <1>5 DEF TypeOK
<1>7. log'[s] = <<Ready>> /\ \A t \in Sessions : t # s => log'[t] = log[t]
  BY <1>1 DEF TypeOK
<1>8. checkpoint.session \in Sessions \cup {0} /\ checkpoint.session # s
  BY <1>4 DEF LogInv, TypeOK
<1>9. LogInv'
  <2>1. \A t \in Sessions : log'[t] # <<>> => log'[t][1] = Ready
    BY <1>5, <1>7 DEF LogInv
  <2>2. \A t \in Sessions : \A i \in DOMAIN log'[t] : log'[t][i] = Ready => i = 1
    BY <1>5, <1>7 DEF LogInv
  <2>3. checkpoint.session # 0 => log'[checkpoint.session] # <<>>
    BY <1>7, <1>8 DEF LogInv
  <2>4. QED
    BY <1>1, <1>2, <1>5, <1>7, <2>1, <2>2, <2>3 DEF LogInv
<1>10. NothingSkipped'
  BY <1>2, <1>7, <1>8 DEF NothingSkipped
<1>11. PipeInv' /\ Awaited'
  BY <1>2 DEF PipeInv, Awaited, Awaits, Running
<1>12. RequestInv' /\ LineInv'
  BY <1>2, <1>3 DEF RequestInv, RequestOK, LineInv, LineOK, Quiet, Steps
<1>13. RefusalIsTold' /\ ReceiptEarned'
  BY <1>2 DEF RefusalIsTold, ReceiptEarned, Running
<1>14. SocketInv'
  BY <1>1, <1>2, <1>3, <1>4 DEF SocketInv, Has
<1>15. ChainInv'
  <2>1. Place'
    BY <1>1, <1>2, <1>3, <1>5, <1>7 DEF Place, DecidedBefore
  <2>2. ~Ours'
    BY <1>1, <1>2, <1>8 DEF Ours
  <2>3. Saved'
    BY <1>2, <1>3, <2>2 DEF Saved
  <2>4. QED
    BY <1>1, <1>2, <1>3, <1>4, <2>1, <2>3 DEF ChainInv
<1>16. QED
  BY <1>6, <1>9, <1>10, <1>11, <1>12, <1>13, <1>14, <1>15

LEMMA ResumeKeeps == HInv /\ Resume => HInv'
<1> SUFFICES ASSUME HInv, Resume PROVE HInv'
  OBVIOUS
<1> USE DEF HInv
<1>1. /\ mode = "up" /\ socket = "opening"
      /\ checkpoint.session # 0 /\ checkpoint.sequence # 0
      /\ mode' = mode /\ chain' = chain /\ outbox' = outbox /\ inbox' = inbox
      /\ checkpoint' = checkpoint /\ handled' = handled /\ refused' = refused
      /\ log' = log /\ resumable' = resumable
  BY DEF Resume, host, pipe, discord
<1>2. /\ session = 0 /\ chain.at = "idle" /\ ~chain.stale
      /\ Quiet(outbox) /\ Quiet(inbox) /\ ~Has(outbox, "clear")
  BY <1>1, OpeningIsQuiet
<1>3. \/ socket' = "refused" /\ session' = session /\ next' = next
      \/ socket' = "open" /\ session' = checkpoint.session /\ next' = checkpoint.sequence + 1
  BY DEF Resume
<1>4. checkpoint.session \in Sessions /\ checkpoint.sequence \in Nat \ {0}
  BY <1>1 DEF TypeOK
<1>5. TypeOK'
  BY <1>1, <1>3, <1>4 DEF TypeOK
<1>6. LogInv' /\ NothingSkipped'
  BY <1>1, <1>3, <1>4 DEF LogInv, NothingSkipped
<1>7. PipeInv' /\ Awaited'
  BY <1>1 DEF PipeInv, Awaited, Awaits, Running
<1>8. RequestInv' /\ LineInv'
  BY <1>1, <1>2 DEF RequestInv, RequestOK, LineInv, LineOK, Quiet, Steps
<1>9. RefusalIsTold' /\ ReceiptEarned'
  BY <1>1 DEF RefusalIsTold, ReceiptEarned, Running
<1>10. SocketInv'
  BY <1>1, <1>2, <1>3, <1>4 DEF SocketInv, Has
<1>11. ChainInv'
  <2>1. CASE socket' = "refused" /\ session' = session /\ next' = next
    BY <1>1, <1>2, <2>1 DEF ChainInv
  <2>2. CASE socket' = "open" /\ session' = checkpoint.session /\ next' = checkpoint.sequence + 1
    <3>1. Place'
      <4>1. DecidedBefore(next)'
        BY <1>1, <1>4, <2>2 DEF DecidedBefore, NothingSkipped
      <4>2. next' \in 1..(Len(log'[session']) + 1)
        BY <1>1, <1>4, <2>2, Logs DEF NothingSkipped
      <4>3. QED
        BY <1>1, <1>2, <4>1, <4>2 DEF Place
    <3>2. Saved'
      BY <1>1, <1>2, <1>4, <2>2 DEF Saved, Ours
    <3>3. QED
      BY <1>1, <1>2, <3>1, <3>2 DEF ChainInv
  <2>3. QED
    BY <1>3, <2>1, <2>2
<1>12. QED
  BY <1>5, <1>6, <1>7, <1>8, <1>9, <1>10, <1>11

LEMMA BeginKeeps == HInv /\ Begin => HInv'
<1> SUFFICES ASSUME HInv, Begin PROVE HInv'
  OBVIOUS
<1> USE DEF HInv
<1> PICK first : first = IF log[session][next] = Ready THEN "ready" ELSE "dispatch"
  OBVIOUS
<1> PICK request : request = [kind |-> first, about |-> next]
  OBVIOUS
<1>1. /\ mode = "up" /\ socket = "open" /\ chain.at = "idle" /\ next \in DOMAIN log[session]
      /\ chain' = [at |-> first, doing |-> next, stale |-> FALSE]
      /\ outbox' = Append(outbox, request) /\ next' = next + 1
      /\ mode' = mode /\ socket' = socket /\ session' = session /\ inbox' = inbox
      /\ checkpoint' = checkpoint /\ handled' = handled /\ refused' = refused
      /\ log' = log /\ resumable' = resumable
  BY DEF Begin, Ask, host, discord
<1>2. /\ session \in Sessions /\ session # 0 /\ next \in 1..Len(log[session]) /\ next # 0
      /\ Len(log[session]) \in Nat /\ checkpoint.sequence \in Nat
  BY <1>1, Logs DEF TypeOK, SocketInv, Sessions
<1>3. Place /\ Saved /\ ~chain.stale
  BY <1>1, <1>2 DEF ChainInv, Running
<1>4. Quiet(outbox) /\ Quiet(inbox)
  BY <1>1 DEF Awaited, Awaits, Running, Quiet, StepOf, Steps
<1>5. next = 1 <=> first = "ready"
  BY <1>1, <1>2 DEF LogInv
<1>6. first \in {"ready", "dispatch"} /\ (first = "ready" => next = 1)
  BY <1>5
<1>7. request \in Request /\ request.kind = first /\ request.about = next
  BY <1>1, <1>2 DEF Request, Kinds, TypeOK
<1>8. /\ outbox' \in Seq(Request) /\ Range(outbox') = Range(outbox) \cup {request}
      /\ Single(outbox')
      /\ ClearIsLast(outbox')
  <2>1. first = "ready" => ~Has(outbox, "clear")
    BY <1>1, <1>6 DEF SocketInv
  <2>2. outbox \in Seq(Request)
    BY DEF TypeOK
  <2>3. QED
    BY <1>1, <1>4, <1>7, <2>1, <2>2, Appended DEF PipeInv
<1>9. TypeOK'
  BY <1>1, <1>2, <1>6, <1>8 DEF TypeOK
<1>10. LogInv' /\ NothingSkipped'
  BY <1>1 DEF LogInv, NothingSkipped
<1>11. PipeInv'
  BY <1>1, <1>4, <1>8 DEF PipeInv
<1>12. Awaited'
  BY <1>1, <1>4, <1>6, <1>7, <1>8 DEF Awaited, Awaits, Quiet, StepOf
<1>13. RequestInv'
  <2>1. RequestOK(request)'
    BY <1>1, <1>2, <1>3, <1>6, <1>7 DEF RequestOK, Saved, Ours
  <2>2. \A r \in Range(outbox) : RequestOK(r)'
    BY <1>1 DEF RequestInv, RequestOK, DecidedBefore
  <2>3. QED
    BY <1>8, <2>1, <2>2 DEF RequestInv
<1>14. LineInv' /\ RefusalIsTold' /\ ReceiptEarned'
  BY <1>1 DEF LineInv, LineOK, RefusalIsTold, ReceiptEarned, Running
<1>15. SocketInv'
  BY <1>1, <1>2 DEF SocketInv
<1>16. Excused => Excused'
  BY <1>1, <1>8 DEF Excused, Has
<1>17. Place'
  BY <1>1, <1>2, <1>3, <1>6 DEF Place, DecidedBefore
<1>18. Saved'
  BY <1>1, <1>2, <1>3, <1>5, <1>6 DEF Saved, Ours, Place
<1>19. ChainInv'
  BY <1>1, <1>2, <1>6, <1>17, <1>18 DEF ChainInv
<1>20. QED
  BY <1>9, <1>10, <1>11, <1>12, <1>13, <1>14, <1>15, <1>19

\* a request that is no step of a dispatch, asked for by a process that runs
LEMMA AskKeeps ==
    ASSUME HInv, NEW kind \in {"heartbeat", "clear"}, Ask(kind, 0), mode = "up",
           chain' \in {chain, [chain EXCEPT !.stale = chain.at # "idle"]},
           kind = "heartbeat" => chain' = chain,
           kind = "clear" => socket # "opening" /\ (socket = "refused" \/ next # 1),
           resumable' \in {0, resumable},
           UNCHANGED <<host, inbox, mode, socket, session, next, log>>
    PROVE  HInv'
<1> USE DEF HInv
<1> DEFINE request == [kind |-> kind, about |-> 0]
<1>1. /\ outbox' = Append(outbox, request)
      /\ next' = next /\ inbox' = inbox
      /\ mode' = mode /\ socket' = socket /\ session' = session
      /\ checkpoint' = checkpoint /\ handled' = handled /\ refused' = refused
      /\ log' = log
      /\ chain.at \in {"idle", "ready", "dispatch", "save"} /\ chain.stale \in BOOLEAN
      /\ chain'.at = chain.at /\ chain'.doing = chain.doing /\ chain'.stale \in BOOLEAN
      /\ chain.at = "idle" /\ ~chain.stale => ~chain'.stale
      /\ kind = "heartbeat" => chain'.stale = chain.stale
  BY DEF Ask, host, TypeOK
<1>2. request \in Request /\ request.kind = kind /\ request.kind \notin Steps
  BY DEF Request, Kinds, Steps
<1> HIDE DEF request
<1>3. /\ outbox' \in Seq(Request) /\ Range(outbox') = Range(outbox) \cup {request}
      /\ Single(outbox') /\ ClearIsLast(outbox')
      /\ Quiet(outbox) => Quiet(outbox')
  <2>1. outbox \in Seq(Request) /\ kind # "ready"
    BY DEF TypeOK
  <2>2. QED
    BY <1>1, <1>2, <2>1, Appended DEF PipeInv
<1>4. TypeOK'
  <2>1. chain' \in Chains
    BY DEF TypeOK, Chains
  <2>2. QED
    BY <1>1, <1>3, <2>1 DEF TypeOK, Chains
<1>5. LogInv' /\ NothingSkipped'
  BY <1>1 DEF LogInv, NothingSkipped
<1>6. PipeInv'
  BY <1>1, <1>3 DEF PipeInv
<1>7. Awaited'
  BY <1>1, <1>2, <1>3 DEF Awaited, Awaits, Running
<1>8. RequestInv'
  BY <1>1, <1>2, <1>3 DEF RequestInv, RequestOK, DecidedBefore, Steps
<1>9. LineInv' /\ RefusalIsTold' /\ ReceiptEarned'
  BY <1>1 DEF LineInv, LineOK, RefusalIsTold, ReceiptEarned, Running
<1>10. \A k \in {"ready", "clear"} : Has(outbox', k) <=> Has(outbox, k) \/ kind = k
  BY <1>2, <1>3 DEF Has
<1>11. SocketInv'
  BY <1>1, <1>10 DEF SocketInv
<1>12. ChainInv'
  <2>1. Excused => Excused'
    BY <1>1, <1>10 DEF Excused
  <2>2. kind = "clear" => Excused'
    BY <1>10 DEF Excused
  <2>3. kind = "heartbeat" => (Has(outbox', "ready") <=> Has(outbox, "ready"))
    BY <1>10
  <2>4. Place => Place'
    BY <1>1 DEF Place, DecidedBefore
  <2>5. Saved => Saved'
    BY <1>1, <2>1, <2>2, <2>3 DEF Saved, Ours
  <2>6. QED
    BY <1>1, <2>4, <2>5 DEF ChainInv, Running
<1>13. QED
  BY <1>4, <1>5, <1>6, <1>7, <1>8, <1>9, <1>11, <1>12

LEMMA HeartbeatKeeps == HInv /\ Heartbeat => HInv'
<1> SUFFICES ASSUME HInv, Heartbeat PROVE HInv'
  OBVIOUS
<1>1. /\ Ask("heartbeat", 0) /\ mode = "up" /\ chain' = chain /\ resumable' = resumable
      /\ UNCHANGED <<host, inbox, mode, socket, session, next, log>>
  BY DEF Heartbeat, bridge, discord
<1>2. QED
  BY <1>1, AskKeeps

LEMMA InvalidSessionKeeps == HInv /\ InvalidSession => HInv'
<1> SUFFICES ASSUME HInv, InvalidSession PROVE HInv'
  OBVIOUS
<1>1. /\ Ask("clear", 0) /\ mode = "up" /\ chain' = [chain EXCEPT !.stale = chain.at # "idle"]
      /\ resumable' \in {0, resumable}
      /\ UNCHANGED <<host, inbox, mode, socket, session, next, log>>
      /\ socket # "opening" /\ (socket = "refused" \/ next # 1)
  BY DEF InvalidSession, HInv, TypeOK
<1>2. QED
  BY <1>1, AskKeeps

LEMMA ReconnectKeeps == HInv /\ Reconnect => HInv'
<1> SUFFICES ASSUME HInv, Reconnect PROVE HInv'
  OBVIOUS
<1> USE DEF HInv, Reconnect, host, pipe, discord
<1>1. TypeOK' /\ LogInv' /\ NothingSkipped'
  BY DEF TypeOK, LogInv, NothingSkipped
<1>2. PipeInv' /\ Awaited' /\ RequestInv' /\ LineInv'
  BY DEF PipeInv, Awaited, Awaits, Running, RequestInv, RequestOK, LineInv, LineOK, DecidedBefore
<1>3. SocketInv' /\ RefusalIsTold' /\ ReceiptEarned'
  BY DEF SocketInv, RefusalIsTold, ReceiptEarned, Running
<1>4. ChainInv'
  BY DEF ChainInv, Running, Place, Saved, Ours, Excused, DecidedBefore
<1>5. QED
  BY <1>1, <1>2, <1>3, <1>4

LEMMA StoppedKeeps == HInv /\ Stopped => HInv'
<1> SUFFICES ASSUME HInv, Stopped PROVE HInv'
  OBVIOUS
<1> USE DEF HInv, Stopped, host, pipe, discord
<1>1. TypeOK' /\ LogInv' /\ NothingSkipped'
  BY DEF TypeOK, LogInv, NothingSkipped
<1>2. PipeInv' /\ RequestInv' /\ LineInv'
  BY DEF PipeInv, RequestInv, RequestOK, LineInv, LineOK, DecidedBefore
<1>3. Awaited' /\ SocketInv' /\ ChainInv' /\ RefusalIsTold'
  BY DEF Awaited, SocketInv, ChainInv, RefusalIsTold, Running
<1>4. \A l \in Range(inbox) : l.ok
  BY DEF AllAnswered, LineInv, LineOK, Range
<1>5. ~refused
  BY <1>4 DEF RefusalIsTold, Running
<1>6. ~Excused
  BY <1>5, Empty DEF Excused, AllAnswered, Has
<1>7. ReceiptEarned'
  BY <1>5, <1>6 DEF ReceiptEarned, ChainInv, Running, Saved, Ours, AllAnswered
<1>8. QED
  BY <1>1, <1>2, <1>3, <1>7

LEMMA AskStopKeeps == HInv /\ AskStop => HInv'
<1> SUFFICES ASSUME HInv, AskStop PROVE HInv'
  OBVIOUS
<1> USE DEF HInv
<1>1. /\ mode = "up" /\ inbox' = Append(inbox, StopLine)
      /\ outbox' = outbox /\ UNCHANGED <<host, bridge, discord>>
  BY DEF AskStop
<1>2. StopLine \in Line /\ StopLine.kind = "stop" /\ StopLine.ok
  BY DEF StopLine, Line
<1>3. /\ inbox' \in Seq(Line) /\ Range(inbox') = Range(inbox) \cup {StopLine}
      /\ Single(inbox') /\ (Quiet(inbox) => Quiet(inbox'))
  <2>1. inbox \in Seq(Line) /\ Single(inbox) /\ StopLine.kind \notin Steps
    BY <1>2 DEF PipeInv, TypeOK, Steps
  <2>2. QED
    BY <1>1, <1>2, <2>1, Appended
<1> USE DEF host, bridge, discord
<1>4. TypeOK' /\ LogInv' /\ NothingSkipped'
  BY <1>1, <1>3 DEF TypeOK, LogInv, NothingSkipped
<1>5. PipeInv'
  BY <1>1, <1>3 DEF PipeInv
<1>6. Awaited'
  BY <1>1, <1>2, <1>3 DEF Awaited, Awaits, Running, Steps
<1>7. RequestInv'
  BY <1>1 DEF RequestInv, RequestOK, DecidedBefore
<1>8. LineInv'
  BY <1>1, <1>2, <1>3 DEF LineInv, LineOK, Steps
<1>9. RefusalIsTold' /\ SocketInv' /\ ReceiptEarned'
  BY <1>1, <1>3 DEF RefusalIsTold, SocketInv, ReceiptEarned, Running
<1>10. ChainInv'
  BY <1>1 DEF ChainInv, Running, Place, Saved, Ours, Excused, DecidedBefore
<1>11. QED
  BY <1>4, <1>5, <1>6, <1>7, <1>8, <1>9, <1>10

\* a message joins the log of a session; its first event stays READY, and the only one
LEMMA Posted ==
    ASSUME TypeOK, LogInv, NEW m \in Messages, Post(m)
    PROVE  /\ log' \in [Sessions -> Seq(Events)] /\ Grows
           /\ resumable \in Sessions
           /\ log'[resumable] = Append(log[resumable], m)
           /\ \A s \in Sessions :
                 /\ s # resumable => log'[s] = log[s]
                 /\ log[s] # <<>> => log'[s] # <<>>
                 /\ log'[s] # <<>> => log'[s][1] = Ready
                 /\ \A i \in DOMAIN log'[s] : log'[s][i] = Ready => i = 1
<1>1. /\ resumable \in Sessions /\ log[resumable] # <<>>
      /\ log' = [log EXCEPT ![resumable] = Append(log[resumable], m)] /\ handled' = handled
  BY DEF Post, TypeOK, LogInv, host
<1>2. PICK q \in Seq(Events) : q = log[resumable]
  BY <1>1 DEF TypeOK
<1>3. PICK r : r = Append(q, m)
  OBVIOUS
<1>4. m \in Events /\ m # Ready
  BY ReadyIsNoMessage DEF Events
<1>5. /\ r \in Seq(Events) /\ Len(r) = Len(q) + 1 /\ r[Len(q) + 1] = m
      /\ \A i \in 1..Len(q) : r[i] = q[i]
  BY <1>3, <1>4, AppendProperties
<1>6. /\ Len(q) \in Nat \ {0} /\ DOMAIN r = 1..(Len(q) + 1) /\ DOMAIN q = 1..Len(q)
      /\ r # <<>>
  BY <1>1, <1>2, <1>5
<1>7. /\ log'[resumable] = r /\ \A s \in Sessions : s # resumable => log'[s] = log[s]
      /\ log' \in [Sessions -> Seq(Events)]
  BY <1>1, <1>2, <1>3, <1>5 DEF TypeOK
<1>8. q[1] = Ready /\ \A i \in DOMAIN q : q[i] = Ready => i = 1
  BY <1>1, <1>2 DEF LogInv
<1>9. r[1] = Ready /\ \A i \in DOMAIN r : r[i] = Ready => i = 1
  BY <1>4, <1>5, <1>6, <1>8
<1>10. Grows
  <2>1. Len(q) <= Len(r)
    BY <1>5, <1>6
  <2>2. \A s \in Sessions : Len(log[s]) \in Nat
    BY Logs
  <2>3. QED
    BY <1>1, <1>2, <1>5, <1>7, <2>1, <2>2 DEF Grows
<1>11. QED
  BY <1>1, <1>2, <1>3, <1>6, <1>7, <1>9, <1>10 DEF LogInv

LEMMA PostKeeps == \A m \in Messages : HInv /\ Post(m) => HInv'
<1> SUFFICES ASSUME NEW m \in Messages, HInv, Post(m) PROVE HInv'
  OBVIOUS
<1> USE DEF HInv
<1>1. UNCHANGED <<host, pipe, bridge, resumable>>
  BY DEF Post
<1>2. /\ log' \in [Sessions -> Seq(Events)] /\ Grows
      /\ \A s \in Sessions :
            /\ log[s] # <<>> => log'[s] # <<>>
            /\ log'[s] # <<>> => log'[s][1] = Ready
            /\ \A i \in DOMAIN log'[s] : log'[s][i] = Ready => i = 1
  BY Posted
<1> USE DEF host, pipe, bridge
<1>3. TypeOK'
  BY <1>1, <1>2 DEF TypeOK
<1>4. \A s \in Sessions : Len(log[s]) <= Len(log'[s]) /\ DOMAIN log[s] \subseteq DOMAIN log'[s]
  <2>1. \A s \in Sessions : /\ Len(log[s]) \in Nat /\ Len(log'[s]) \in Nat
                            /\ DOMAIN log[s] = 1..Len(log[s]) /\ DOMAIN log'[s] = 1..Len(log'[s])
    BY <1>2, Logs
  <2>2. QED
    BY <1>2, <2>1 DEF Grows
<1>5. LogInv'
  BY <1>1, <1>2 DEF LogInv, TypeOK
<1>6. NothingSkipped'
  BY <1>1, <1>2, <1>4, Logs DEF NothingSkipped, TypeOK, Grows
<1>7. \A n \in Nat : session \in Sessions /\ n \in 1..(Len(log[session]) + 1)
         /\ DecidedBefore(n) => DecidedBefore(n)'
  BY <1>1, <1>2, <1>3, StaysDecided
<1>8. session # 0 => session \in Sessions /\ Len(log[session]) \in Nat
                     /\ DOMAIN log[session] = 1..Len(log[session])
                     /\ Len(log'[session]) \in Nat /\ Len(log[session]) <= Len(log'[session])
  BY <1>2, <1>4, Logs DEF TypeOK
<1>9. RequestInv'
  <2> SUFFICES ASSUME NEW r \in Range(outbox) PROVE RequestOK(r)'
    BY <1>1 DEF RequestInv
  <2>1. RequestOK(r)
    BY DEF RequestInv
  <2>2. r.kind = "sequence" => DecidedBefore(r.about + 1)'
    <3> HAVE r.kind = "sequence"
    <3>1. session # 0 /\ r.about \in 1..Len(log[session])
      BY <1>8, <2>1 DEF RequestOK, Steps
    <3>2. r.about + 1 \in 1..(Len(log[session]) + 1) /\ r.about + 1 \in Nat
      BY <1>8, <3>1
    <3>3. QED
      BY <1>7, <1>8, <2>1, <3>1, <3>2 DEF RequestOK
  <2>3. QED
    BY <1>1, <1>4, <1>8, <2>1, <2>2 DEF RequestOK
<1>10. LineInv'
  <2> SUFFICES ASSUME NEW l \in Range(inbox) PROVE LineOK(l)'
    BY <1>1 DEF LineInv
  <2>1. LineOK(l)
    BY DEF LineInv
  <2>2. l.kind = "dispatch" /\ l.ok => log'[session][l.about] = log[session][l.about]
    BY <1>2, <1>8, <2>1 DEF LineOK, Steps, Grows
  <2>3. QED
    BY <1>1, <1>4, <1>8, <2>1, <2>2 DEF LineOK
<1>11. PipeInv' /\ Awaited' /\ RefusalIsTold' /\ SocketInv' /\ ReceiptEarned'
  BY <1>1 DEF PipeInv, Awaited, Awaits, RefusalIsTold, SocketInv, ReceiptEarned, Running,
     AllAnswered
<1>12. ChainInv'
  <2>1. session # 0 /\ Place => Place'
    <3> HAVE session # 0 /\ Place
    <3>1. next \in 1..(Len(log[session]) + 1) /\ next \in Nat
      BY <1>8 DEF Place
    <3>2. DecidedBefore(next) => DecidedBefore(next)'
      BY <1>1, <1>7, <1>8, <3>1
    <3>3. chain.at # "idle" => chain.doing \in 1..(Len(log[session]) + 1) /\ chain.doing \in Nat
      BY <1>8, <3>1 DEF Place
    <3>4. chain.at # "idle" /\ DecidedBefore(chain.doing) => DecidedBefore(chain.doing)'
      BY <1>1, <1>7, <1>8, <3>3
    <3>5. QED
      BY <1>1, <1>8, <3>1, <3>2, <3>4 DEF Place
  <2>2. Saved => Saved'
    BY <1>1 DEF Saved, Ours, Excused
  <2>3. QED
    BY <1>1, <2>1, <2>2 DEF ChainInv, Running
<1>13. QED
  BY <1>3, <1>5, <1>6, <1>9, <1>10, <1>11, <1>12

--------------------------------------------------------------------------------
(* Lines from the host *)

\* what a line says of the state in which it is read
LEMMA LineTaken ==
    ASSUME HInv, inbox # <<>>, inbox' = Tail(inbox)
    PROVE  /\ inbox' \in Seq(Line) /\ Head(inbox) \in Line
           /\ Range(inbox) = {Head(inbox)} \cup Range(inbox')
           /\ Single(inbox') /\ (Quiet(inbox) => Quiet(inbox'))
           /\ Head(inbox).kind \in Steps => Quiet(outbox) /\ Quiet(inbox')
           /\ LineOK(Head(inbox))
           /\ Running => Awaits(Head(inbox))
           /\ (refused /\ (Running \/ mode = "stopped") /\ Head(inbox).ok) =>
                 \E l \in Range(inbox') : ~l.ok
<1> USE DEF HInv
<1>1. inbox \in Seq(Line) /\ Single(inbox)
  BY DEF TypeOK, PipeInv
<1>2. /\ inbox' \in Seq(Line) /\ Head(inbox) \in Line
      /\ Range(inbox) = {Head(inbox)} \cup Range(inbox')
      /\ Single(inbox') /\ (Quiet(inbox) => Quiet(inbox'))
      /\ Head(inbox).kind \in Steps => Quiet(inbox')
  BY <1>1, Taken
<1>3. Head(inbox).kind \in Steps => Quiet(outbox)
  BY <1>2 DEF PipeInv, Quiet
<1>4. QED
  BY <1>2, <1>3 DEF LineInv, Awaited, RefusalIsTold

\* the rest of what is on its way is not about the line that was read
LEMMA LineTakenKeeps ==
    ASSUME HInv, inbox # <<>>, inbox' = Tail(inbox), UNCHANGED <<host, session, next, discord>>
    PROVE  LogInv' /\ NothingSkipped' /\ LineInv' /\ \A r \in Range(outbox) : RequestOK(r)'
<1>1. Range(inbox') \subseteq Range(inbox)
  BY LineTaken
<1>2. QED
  BY <1>1 DEF HInv, host, discord, LogInv, NothingSkipped, LineInv, LineOK, RequestInv, RequestOK,
     DecidedBefore

\* a step of the dispatch is done, and the next one is asked for
LEMMA NextStepKeeps ==
    ASSUME HInv, Running, inbox # <<>>, inbox' = Tail(inbox), Head(inbox).ok,
           NEW at \in {"dispatch", "save"},
           Head(inbox).kind = IF at = "save" THEN "dispatch" ELSE "ready",
           at = "save" => ~chain.stale,
           chain' = [chain EXCEPT !.at = at], Ask(StepOf(at), Head(inbox).about),
           UNCHANGED <<host, mode, socket, session, next, discord>>
    PROVE  HInv'
<1> USE DEF HInv
<1> PICK request : request = [kind |-> StepOf(at), about |-> Head(inbox).about]
  OBVIOUS
<1>1. /\ inbox' \in Seq(Line) /\ Head(inbox) \in Line
      /\ Range(inbox) = {Head(inbox)} \cup Range(inbox')
      /\ Quiet(outbox) /\ Quiet(inbox') /\ Single(inbox')
      /\ LineOK(Head(inbox)) /\ Awaits(Head(inbox))
      /\ refused => \E l \in Range(inbox') : ~l.ok
  BY LineTaken DEF Steps
<1>2. /\ LogInv' /\ NothingSkipped' /\ LineInv' /\ \A r \in Range(outbox) : RequestOK(r)'
  BY LineTakenKeeps
<1>3. /\ StepOf(at) \in {"dispatch", "sequence"} /\ StepOf(at) # "ready"
      /\ (StepOf(at) = "sequence" <=> at = "save")
      /\ request.kind = StepOf(at) /\ request.about = Head(inbox).about
  BY DEF StepOf
<1>4. request \in Request /\ request.kind \in Steps
  BY <1>1, <1>3 DEF Request, Kinds, Line, Steps
<1>5. /\ outbox' \in Seq(Request) /\ Range(outbox') = Range(outbox) \cup {request}
      /\ Single(outbox') /\ ClearIsLast(outbox')
  <2>1. /\ outbox \in Seq(Request) /\ Single(outbox) /\ ClearIsLast(outbox)
        /\ outbox' = Append(outbox, request)
    BY DEF TypeOK, PipeInv, Ask
  <2>2. QED
    BY <1>1, <1>3, <1>4, <2>1, Appended
<1>6. /\ chain.at = (IF at = "save" THEN "dispatch" ELSE "ready") /\ chain.doing = Head(inbox).about
      /\ chain'.at = at /\ chain'.doing = chain.doing /\ chain'.stale = chain.stale
      /\ chain' \in Chains
  BY <1>1 DEF Awaits, Steps, StepOf, TypeOK, Chains
<1>7. session # 0 /\ session \in Sessions /\ Place /\ Saved
  BY <1>6 DEF ChainInv, TypeOK
<1>8. chain.doing = next - 1 /\ chain.doing # 0 /\ next # 1 /\ next \in Nat
      /\ chain.doing \in 1..Len(log[session]) /\ checkpoint.sequence \in Nat
  <2>1. Len(log[session]) \in Nat
    BY <1>7, Logs
  <2>2. QED
    BY <1>6, <1>7, <2>1 DEF Place, TypeOK
<1>9. TypeOK'
  BY <1>1, <1>5, <1>6 DEF TypeOK, Chains, host, discord
<1>10. PipeInv'
  BY <1>1, <1>5 DEF PipeInv
<1>11. Awaited'
  BY <1>1, <1>3, <1>5, <1>6 DEF Awaited, Awaits, Quiet
<1>12. at = "save" => DecidedBefore(next)
  <2> HAVE at = "save"
  <2>1. log[session][chain.doing] \in handled \cup {Ready} /\ DecidedBefore(chain.doing)
    BY <1>1, <1>6, <1>7 DEF LineOK, Place
  <2>2. QED
    BY <1>8, <2>1 DEF DecidedBefore
<1>13. RequestInv'
  <2>1. RequestOK(request)
    <3>1. chain.doing \in DOMAIN log[session]
      BY <1>7, <1>8, Logs
    <3>2. at = "save" => /\ checkpoint.session \in {0, session}
                         /\ checkpoint.session = session => checkpoint.sequence < chain.doing
      BY <1>6, <1>7, <1>8 DEF Saved, Ours
    <3>3. chain.doing + 1 = next
      BY <1>8
    <3>4. QED
      BY <1>3, <1>6, <1>7, <1>12, <3>1, <3>2, <3>3 DEF RequestOK
  <2>2. RequestOK(request)'
    BY <2>1 DEF RequestOK, DecidedBefore, host, discord
  <2>3. QED
    BY <1>2, <1>5, <2>2 DEF RequestInv
<1>14. RefusalIsTold' /\ ReceiptEarned'
  BY <1>1 DEF RefusalIsTold, ReceiptEarned, Running, host
<1>15. \A k \in {"ready", "clear"} : Has(outbox', k) <=> Has(outbox, k)
  BY <1>3, <1>5 DEF Has
<1>16. SocketInv'
  BY <1>15 DEF SocketInv
<1>17. ChainInv'
  <2>1. Place'
    <3>1. IF at = "dispatch" THEN DecidedBefore(chain.doing) ELSE DecidedBefore(next)
      BY <1>6, <1>7, <1>12 DEF Place
    <3>2. QED
      BY <1>6, <1>7, <3>1 DEF Place, DecidedBefore, host, discord
  <2>2. Saved'
    <3>1. Excused' <=> Excused
      BY <1>15 DEF Excused, host
    <3>2. checkpoint.session \in {0, session}
      BY <1>1, <1>3, <1>6, <1>7, <1>8 DEF LineOK, Saved
    <3>3. QED
      BY <1>6, <1>7, <1>8, <1>15, <3>1, <3>2 DEF Saved, Ours, host
  <2>3. QED
    BY <1>6, <1>7, <2>1, <2>2 DEF ChainInv
<1>18. QED
  BY <1>2, <1>9, <1>10, <1>11, <1>13, <1>14, <1>16, <1>17

\* a line that moves no dispatch on: it leaves the socket, or ends it
LEMMA NothingMovesKeeps ==
    ASSUME HInv, Running, inbox # <<>>, inbox' = Tail(inbox), Head(inbox).ok,
           mode' \in {mode, "draining"},
           socket' \in {socket, "lost", "closing"},
           UNCHANGED <<host, outbox, chain, session, next, discord>>
    PROVE  HInv'
<1> USE DEF HInv
<1>1. /\ inbox' \in Seq(Line) /\ Range(inbox) = {Head(inbox)} \cup Range(inbox')
      /\ (Quiet(inbox) => Quiet(inbox')) /\ Single(inbox')
      /\ refused => \E l \in Range(inbox') : ~l.ok
  BY LineTaken
<1>2. /\ LogInv' /\ NothingSkipped' /\ LineInv' /\ \A r \in Range(outbox) : RequestOK(r)'
  BY LineTakenKeeps
<1>3. TypeOK'
  BY <1>1 DEF TypeOK, host, discord
<1>4. PipeInv' /\ RequestInv'
  BY <1>1, <1>2 DEF PipeInv, RequestInv
<1>5. Awaited' /\ RefusalIsTold' /\ SocketInv' /\ ReceiptEarned'
  BY <1>1 DEF Awaited, Awaits, RefusalIsTold, SocketInv, ReceiptEarned, Running, host
<1>6. ChainInv'
  BY DEF ChainInv, Running, Place, Saved, Ours, Excused, DecidedBefore, host, discord
<1>7. QED
  BY <1>2, <1>3, <1>4, <1>5, <1>6

\* the dispatch is over: its sequence is saved, or its session was given up meanwhile
LEMMA DispatchOverKeeps ==
    ASSUME HInv, Running, inbox # <<>>, inbox' = Tail(inbox), Head(inbox).ok,
           \/ Head(inbox).kind = "sequence"
           \/ Head(inbox).kind = "dispatch" /\ chain.stale,
           chain' = Idle,
           UNCHANGED <<host, outbox, mode, socket, session, next, discord>>
    PROVE  HInv'
<1> USE DEF HInv
<1>1. /\ inbox' \in Seq(Line) /\ Head(inbox) \in Line
      /\ Range(inbox) = {Head(inbox)} \cup Range(inbox')
      /\ Quiet(outbox) /\ Quiet(inbox') /\ Single(inbox')
      /\ LineOK(Head(inbox)) /\ Awaits(Head(inbox))
      /\ refused => \E l \in Range(inbox') : ~l.ok
  BY LineTaken DEF Steps
<1>2. /\ LogInv' /\ NothingSkipped' /\ LineInv' /\ \A r \in Range(outbox) : RequestOK(r)'
  BY LineTakenKeeps
<1>3. chain'.at = "idle" /\ ~chain'.stale /\ chain' \in Chains
  BY NothingYet
<1>4. /\ chain.at = IF Head(inbox).kind = "sequence" THEN "save" ELSE "dispatch"
      /\ chain.doing = Head(inbox).about
  BY <1>1 DEF Awaits, Steps, StepOf, TypeOK
<1>5. session # 0 /\ session \in Sessions /\ Place /\ Saved
  BY <1>4 DEF ChainInv, TypeOK
<1>6. /\ chain.doing = next - 1 /\ chain.doing # 0 /\ next \in Nat /\ next # 1
      /\ chain.doing \in 1..Len(log[session])
  <2>1. Len(log[session]) \in Nat
    BY <1>5, Logs
  <2>2. QED
    BY <1>4, <1>5, <2>1 DEF Place, TypeOK
<1>7. TypeOK'
  BY <1>1, <1>3 DEF TypeOK, Chains, host, discord
<1>8. PipeInv' /\ RequestInv'
  BY <1>1, <1>2 DEF PipeInv, RequestInv
<1>9. Awaited' /\ RefusalIsTold' /\ SocketInv' /\ ReceiptEarned'
  BY <1>1 DEF Awaited, Awaits, RefusalIsTold, SocketInv, ReceiptEarned, Running, host, Quiet
<1>10. DecidedBefore(next)
  <2>1. CASE Head(inbox).kind = "sequence"
    BY <1>4, <1>5, <2>1 DEF Place
  <2>2. CASE Head(inbox).kind = "dispatch"
    <3>1. log[session][chain.doing] \in handled \cup {Ready} /\ DecidedBefore(chain.doing)
      BY <1>1, <1>4, <1>5, <2>2 DEF LineOK, Place
    <3>2. QED
      BY <1>6, <3>1 DEF DecidedBefore
  <2>3. QED
    BY <2>1, <2>2
<1>11. Place'
  BY <1>3, <1>5, <1>10 DEF Place, DecidedBefore, host, discord
<1>12. Saved'
  <2>1. Ours => checkpoint.sequence = next - 1 \/ Excused
    BY <1>1, <1>4, <1>5, <1>6 DEF Saved, LineOK, Ours
  <2>2. QED
    BY <1>3, <1>4, <1>5, <1>6, <2>1 DEF Saved, Ours, Excused, host
<1>13. ChainInv'
  BY <1>3, <1>5, <1>11, <1>12 DEF ChainInv
<1>14. QED
  BY <1>2, <1>7, <1>8, <1>9, <1>13

\* a refusal ends the process
LEMMA RefusedKeeps ==
    ASSUME HInv, inbox # <<>>, inbox' = Tail(inbox), Fails, UNCHANGED <<host, outbox, discord>>
    PROVE  HInv'
<1> USE DEF HInv, Fails
<1>1. /\ inbox' \in Seq(Line) /\ (Quiet(inbox) => Quiet(inbox')) /\ Single(inbox')
  BY LineTaken
<1>2. /\ LogInv' /\ NothingSkipped' /\ LineInv' /\ \A r \in Range(outbox) : RequestOK(r)'
  BY LineTakenKeeps
<1>3. TypeOK'
  BY <1>1, NothingYet DEF TypeOK, Chains, host, discord
<1>4. PipeInv' /\ RequestInv'
  BY <1>1, <1>2 DEF PipeInv, RequestInv
<1>5. QED
  BY <1>2, <1>3, <1>4 DEF Awaited, RefusalIsTold, SocketInv, ChainInv, ReceiptEarned, Running

LEMMA ReadLineKeeps == HInv /\ ReadLine => HInv'
<1> SUFFICES ASSUME HInv, ReadLine PROVE HInv'
  OBVIOUS
<1>1. /\ Running /\ inbox # <<>> /\ inbox' = Tail(inbox) /\ UNCHANGED <<host, discord>>
  BY DEF ReadLine
<1>2. Head(inbox) \in Line /\ LineOK(Head(inbox))
  BY <1>1, LineTaken
<1>3. CASE Head(inbox).kind = "stop"
  <2>1. Head(inbox).ok
    BY <1>2, <1>3 DEF LineOK
  <2>2. /\ mode' = "draining" /\ socket' \in {"lost", "closing"}
        /\ UNCHANGED <<session, next, chain, outbox>>
    BY <1>3 DEF ReadLine, ReadStop
  <2>3. QED
    BY <1>1, <2>1, <2>2, NothingMovesKeeps
<1>4. CASE Head(inbox).kind # "stop" /\ Head(inbox).ok
  <2>1. Goes(Head(inbox)) /\ UNCHANGED <<mode, session, next>>
    BY <1>4 DEF ReadLine
  <2>2. CASE Head(inbox).kind = "ready"
    <3>1. /\ chain' = [chain EXCEPT !.at = "dispatch"] /\ socket' = socket
          /\ Ask("dispatch", Head(inbox).about)
      BY <2>1, <2>2 DEF Goes
    <3>2. StepOf("dispatch") = "dispatch"
      BY DEF StepOf
    <3>3. QED
      BY <1>1, <1>4, <2>1, <2>2, <3>1, <3>2, NextStepKeeps
  <2>3. CASE Head(inbox).kind = "dispatch" /\ ~chain.stale
    <3>1. /\ chain' = [chain EXCEPT !.at = "save"] /\ socket' = socket
          /\ Ask("sequence", Head(inbox).about)
      BY <2>1, <2>3 DEF Goes
    <3>2. StepOf("save") = "sequence"
      BY DEF StepOf
    <3>3. QED
      BY <1>1, <1>4, <2>1, <2>3, <3>1, <3>2, NextStepKeeps
  <2>4. CASE Head(inbox).kind \in {"clear", "heartbeat"}
    <3>1. socket' \in {socket, "lost"} /\ UNCHANGED <<chain, outbox>>
      BY <2>1, <2>4 DEF Goes
    <3>2. QED
      BY <1>1, <1>4, <2>1, <3>1, NothingMovesKeeps
  <2>5. CASE \/ Head(inbox).kind = "sequence"
             \/ Head(inbox).kind = "dispatch" /\ chain.stale
    <3>1. chain' = Idle /\ UNCHANGED <<socket, outbox>>
      BY <2>1, <2>5 DEF Goes
    <3>2. QED
      BY <1>1, <1>4, <2>1, <2>5, <3>1, DispatchOverKeeps
  <2>6. QED
    BY <1>2, <1>4, <2>2, <2>3, <2>4, <2>5 DEF Line, Kinds
<1>5. CASE Head(inbox).kind # "stop" /\ ~Head(inbox).ok
  <2>1. Fails /\ UNCHANGED outbox
    BY <1>5 DEF ReadLine
  <2>2. QED
    BY <1>1, <2>1, RefusedKeeps
<1>6. QED
  BY <1>3, <1>4, <1>5

--------------------------------------------------------------------------------
(* Answers of the host *)

\* the host answers request r with line l, whatever it has made of it
Answers(r, l) ==
    /\ outbox # <<>> /\ r = Head(outbox) /\ outbox' = Tail(outbox)
    /\ l = [kind |-> r.kind, about |-> r.about, ok |-> l.ok] /\ l.ok \in BOOLEAN
    /\ inbox' = Append(inbox, l)
    /\ refused' = (refused \/ ~l.ok)
    /\ UNCHANGED <<bridge, discord>>

LEMMA RequestTaken ==
    ASSUME HInv, NEW r, NEW l, Answers(r, l)
    PROVE  /\ r \in Request /\ l \in Line /\ l.kind = r.kind /\ l.about = r.about
           /\ Range(outbox) = {r} \cup Range(outbox') /\ Range(inbox') = Range(inbox) \cup {l}
           /\ r.kind \in Steps => Quiet(outbox') /\ Quiet(inbox)
           /\ r.kind = "clear" => ~Has(outbox', "ready")
           /\ RequestOK(r) /\ (Running => Awaits(r))
           /\ outbox' \in Seq(Request) /\ inbox' \in Seq(Line)
           /\ PipeInv' /\ Awaited' /\ RefusalIsTold' /\ SocketInv' /\ ReceiptEarned'
<1> USE DEF HInv
<1>1. /\ outbox # <<>> /\ r = Head(outbox) /\ outbox' = Tail(outbox)
      /\ l = [kind |-> r.kind, about |-> r.about, ok |-> l.ok] /\ l.ok \in BOOLEAN
      /\ inbox' = Append(inbox, l) /\ refused' = (refused \/ ~l.ok)
      /\ mode' = mode /\ socket' = socket /\ session' = session /\ next' = next /\ chain' = chain
  BY DEF Answers, bridge
<1>2. /\ outbox \in Seq(Request) /\ inbox \in Seq(Line)
      /\ Single(outbox) /\ Single(inbox) /\ ClearIsLast(outbox)
  BY DEF TypeOK, PipeInv
<1>3. /\ outbox' \in Seq(Request) /\ r \in Request /\ Range(outbox) = {r} \cup Range(outbox')
      /\ Quiet(outbox) => Quiet(outbox')
      /\ Single(outbox') /\ (r.kind \in Steps => Quiet(outbox'))
      /\ ClearIsLast(outbox') /\ (r.kind = "clear" => ~Has(outbox', "ready"))
  BY <1>1, <1>2, Taken
<1>4. r.kind \in Kinds /\ r.about \in Nat
  BY <1>3 DEF Request
<1>5. l \in Line /\ l.kind = r.kind /\ l.about = r.about
  BY <1>1, <1>4 DEF Line
<1>6. r.kind \in Steps => Quiet(inbox)
  BY <1>3 DEF PipeInv, Quiet
<1>7. /\ inbox' \in Seq(Line) /\ Range(inbox') = Range(inbox) \cup {l}
      /\ Single(inbox') /\ (Quiet(inbox) /\ r.kind \notin Steps => Quiet(inbox'))
  BY <1>1, <1>2, <1>5, <1>6, Appended
<1>8. PipeInv'
  BY <1>3, <1>7 DEF PipeInv
<1>9. RequestOK(r) /\ (Running => Awaits(r))
  BY <1>3 DEF RequestInv, Awaited
<1>10. Awaited'
  <2>1. Awaits(r) => Awaits(l)'
    BY <1>1, <1>5 DEF Awaits
  <2>2. QED
    BY <1>1, <1>3, <1>7, <1>9, <2>1 DEF Awaited, Awaits, Running
<1>11. RefusalIsTold'
  BY <1>1, <1>7 DEF RefusalIsTold, Running
<1>12. SocketInv'
  BY <1>1, <1>3 DEF SocketInv, Has
<1>13. ReceiptEarned'
  BY <1>1 DEF ReceiptEarned, AllAnswered
<1>14. QED
  BY <1>3, <1>5, <1>6, <1>7, <1>8, <1>9, <1>10, <1>11, <1>12, <1>13

\* a refusal, or the note of a heartbeat
LEMMA NothingDoneKeeps ==
    ASSUME HInv, NEW r, NEW l, Answers(r, l), ~l.ok \/ r.kind = "heartbeat",
           UNCHANGED <<checkpoint, handled>>
    PROVE  HInv'
<1> USE DEF HInv
<1>1. /\ l.kind = r.kind /\ l.about = r.about /\ r.kind \in Kinds /\ RequestOK(r)
      /\ Range(outbox) = {r} \cup Range(outbox') /\ Range(inbox') = Range(inbox) \cup {l}
      /\ outbox' \in Seq(Request) /\ inbox' \in Seq(Line)
      /\ PipeInv' /\ Awaited' /\ RefusalIsTold' /\ SocketInv' /\ ReceiptEarned'
  BY RequestTaken DEF Request
<1>2. refused' = (refused \/ ~l.ok) /\ l.ok \in BOOLEAN /\ UNCHANGED <<bridge, discord>>
  BY DEF Answers
<1> USE DEF bridge, discord
<1>3. TypeOK' /\ LogInv' /\ NothingSkipped'
  BY <1>1, <1>2 DEF TypeOK, LogInv, NothingSkipped
<1>4. RequestInv'
  BY <1>1, <1>2 DEF RequestInv, RequestOK, DecidedBefore
<1>5. LineInv'
  <2>1. LineOK(l)'
    BY <1>1, <1>2 DEF RequestOK, LineOK, Steps, Kinds
  <2>2. QED
    BY <1>1, <1>2, <2>1 DEF LineInv, LineOK
<1>6. ChainInv'
  <2>1. Excused => Excused'
    BY <1>1, <1>2 DEF Excused, Has
  <2>2. Has(outbox', "ready") => Has(outbox, "ready")
    BY <1>1 DEF Has
  <2>3. QED
    BY <1>2, <2>1, <2>2 DEF ChainInv, Running, Place, Saved, Ours, DecidedBefore
<1>7. QED
  BY <1>1, <1>3, <1>4, <1>5, <1>6

LEMMA DispatchDoneKeeps ==
    ASSUME HInv, NEW r, NEW l, Answers(r, l), l.ok, r.kind = "dispatch",
           handled' = handled \cup ({log[session][r.about]} \ {Ready}), UNCHANGED checkpoint
    PROVE  HInv'
<1> USE DEF HInv
<1>1. /\ l.kind = r.kind /\ l.about = r.about /\ RequestOK(r)
      /\ Range(outbox) = {r} \cup Range(outbox') /\ Range(inbox') = Range(inbox) \cup {l}
      /\ outbox' \in Seq(Request) /\ inbox' \in Seq(Line)
      /\ PipeInv' /\ Awaited' /\ RefusalIsTold' /\ SocketInv' /\ ReceiptEarned'
  BY RequestTaken
<1>2. refused' = refused /\ UNCHANGED <<bridge, discord>>
  BY DEF Answers, TypeOK
<1>3. session # 0 /\ session \in Sessions /\ r.about \in DOMAIN log[session]
  BY <1>1 DEF RequestOK, Steps, TypeOK
<1> USE DEF bridge, discord
<1>4. handled' \subseteq Messages
  <2>1. log[session][r.about] \in Events
    BY <1>3 DEF TypeOK
  <2>2. QED
    BY <2>1 DEF TypeOK, Events
<1>5. TypeOK' /\ LogInv' /\ NothingSkipped'
  BY <1>1, <1>2, <1>4 DEF TypeOK, LogInv, NothingSkipped
<1>6. RequestInv'
  BY <1>1, <1>2 DEF RequestInv, RequestOK, DecidedBefore
<1>7. LineInv'
  <2>1. LineOK(l)'
    BY <1>1, <1>2, <1>3 DEF LineOK
  <2>2. QED
    BY <1>1, <1>2, <2>1 DEF LineInv, LineOK
<1>8. ChainInv'
  <2>1. Excused => Excused'
    BY <1>1, <1>2 DEF Excused, Has
  <2>2. Has(outbox', "ready") => Has(outbox, "ready")
    BY <1>1 DEF Has
  <2>3. Place => Place'
    BY <1>2 DEF Place, DecidedBefore
  <2>4. QED
    BY <1>2, <2>1, <2>2, <2>3 DEF ChainInv, Running, Saved, Ours
<1>9. QED
  BY <1>1, <1>5, <1>6, <1>7, <1>8

LEMMA SessionSavedKeeps ==
    ASSUME HInv, NEW r, NEW l, Answers(r, l), l.ok, r.kind = "ready",
           checkpoint' = [session |-> session, sequence |-> 0], UNCHANGED handled
    PROVE  HInv'
<1> USE DEF HInv
<1>1. /\ l.kind = r.kind /\ l.about = r.about /\ RequestOK(r) /\ (Running => Awaits(r))
      /\ Range(outbox) = {r} \cup Range(outbox') /\ Range(inbox') = Range(inbox) \cup {l}
      /\ Quiet(outbox') /\ Quiet(inbox)
      /\ outbox' \in Seq(Request) /\ inbox' \in Seq(Line)
      /\ PipeInv' /\ Awaited' /\ RefusalIsTold' /\ SocketInv' /\ ReceiptEarned'
  BY RequestTaken DEF Steps
<1>2. refused' = refused /\ UNCHANGED <<bridge, discord>>
  BY DEF Answers, TypeOK
<1>3. /\ session # 0 /\ session \in Sessions /\ r.about \in DOMAIN log[session] /\ r.about = 1
      /\ log[session] # <<>> /\ Len(log[session]) \in Nat
  BY <1>1, Logs DEF RequestOK, Steps, TypeOK, LogInv
<1>4. checkpoint'.session = session /\ checkpoint'.sequence = 0
  OBVIOUS
<1> USE DEF bridge, discord
<1>5. TypeOK' /\ LogInv' /\ NothingSkipped'
  BY <1>1, <1>2, <1>3, <1>4 DEF TypeOK, LogInv, NothingSkipped
<1>6. RequestInv'
  BY <1>1 DEF RequestInv, RequestOK, Quiet, Steps
<1>7. LineInv'
  <2>1. LineOK(l)'
    BY <1>1, <1>2, <1>3, <1>4 DEF LineOK, Steps
  <2>2. \A k \in Range(inbox) : LineOK(k)'
    BY <1>1, <1>2 DEF LineInv, LineOK, Quiet, Steps
  <2>3. QED
    BY <1>1, <2>1, <2>2 DEF LineInv
<1>8. ChainInv'
  <2> SUFFICES ASSUME Running PROVE ChainInv'
    BY <1>2 DEF ChainInv, Running
  <2>1. chain.at = "ready" /\ chain.doing = 1
    BY <1>1, <1>3 DEF Awaits, Steps, StepOf, TypeOK
  <2>2. Place /\ Saved
    BY <1>3 DEF ChainInv
  <2>3. Place'
    BY <1>2, <2>2 DEF Place, DecidedBefore
  <2>4. next = 2
    BY <2>1, <2>2 DEF Place, TypeOK
  <2>5. chain.stale => Excused'
    <3> HAVE chain.stale
    <3>1. Has(outbox, "ready")
      BY <1>1 DEF Has
    <3>2. Excused
      BY <2>2, <3>1 DEF Saved
    <3>3. QED
      BY <1>1, <1>2, <3>2 DEF Excused, Has
  <2>6. Saved'
    BY <1>2, <1>4, <2>1, <2>4, <2>5 DEF Saved, Ours
  <2>7. QED
    BY <1>2, <1>3, <2>1, <2>3, <2>6 DEF ChainInv
<1>9. QED
  BY <1>1, <1>5, <1>6, <1>7, <1>8

LEMMA SequenceSavedKeeps ==
    ASSUME HInv, NEW r, NEW l, Answers(r, l), l.ok, r.kind = "sequence",
           checkpoint' = [checkpoint EXCEPT !.sequence = r.about], UNCHANGED handled
    PROVE  HInv'
<1> USE DEF HInv
<1>1. /\ l.kind = r.kind /\ l.about = r.about /\ RequestOK(r) /\ (Running => Awaits(r))
      /\ r.about \in Nat
      /\ Range(outbox) = {r} \cup Range(outbox') /\ Range(inbox') = Range(inbox) \cup {l}
      /\ Quiet(outbox') /\ Quiet(inbox)
      /\ outbox' \in Seq(Request) /\ inbox' \in Seq(Line)
      /\ PipeInv' /\ Awaited' /\ RefusalIsTold' /\ SocketInv' /\ ReceiptEarned'
  BY RequestTaken DEF Steps, Request
<1>2. refused' = refused /\ UNCHANGED <<bridge, discord>>
  BY DEF Answers, TypeOK
<1>3. /\ session # 0 /\ session \in Sessions /\ r.about \in 1..Len(log[session])
      /\ Len(log[session]) \in Nat
  BY <1>1, Logs DEF RequestOK, Steps, TypeOK, LogInv
<1>4. checkpoint'.session = checkpoint.session /\ checkpoint'.sequence = r.about
      /\ checkpoint.session \in {0, session}
      /\ checkpoint' \in [session : Sessions \cup {0}, sequence : Nat]
  BY <1>1 DEF TypeOK, RequestOK
<1>5. \A i \in 1..r.about : log[session][i] \in handled \cup {Ready}
  BY <1>1, <1>3 DEF RequestOK, DecidedBefore
<1> USE DEF bridge, discord
<1>6. TypeOK' /\ LogInv'
  BY <1>1, <1>2, <1>4 DEF TypeOK, LogInv
<1>7. NothingSkipped'
  BY <1>2, <1>3, <1>4, <1>5 DEF NothingSkipped
<1>8. RequestInv'
  BY <1>1 DEF RequestInv, RequestOK, Quiet, Steps
<1>9. LineInv'
  <2>1. LineOK(l)'
    BY <1>1, <1>2, <1>3, <1>4, Logs DEF LineOK, Steps
  <2>2. \A k \in Range(inbox) : LineOK(k)'
    BY <1>1, <1>2 DEF LineInv, LineOK, Quiet, Steps
  <2>3. QED
    BY <1>1, <2>1, <2>2 DEF LineInv
<1>10. ChainInv'
  <2> SUFFICES ASSUME Running PROVE ChainInv'
    BY <1>2 DEF ChainInv, Running
  <2>1. chain.at = "save" /\ chain.doing = r.about
    BY <1>1 DEF Awaits, Steps, StepOf, TypeOK
  <2>2. Place /\ Saved
    BY <1>3 DEF ChainInv
  <2>3. Place'
    BY <1>2, <2>2 DEF Place, DecidedBefore
  <2>4. r.about < next /\ next # 1
    BY <1>3, <2>1, <2>2 DEF Place, TypeOK
  <2>5. (Excused => Excused') /\ (Has(outbox', "ready") => Has(outbox, "ready"))
    BY <1>1, <1>2 DEF Excused, Has
  <2>6. Saved'
    BY <1>2, <1>4, <2>1, <2>2, <2>4, <2>5 DEF Saved, Ours
  <2>7. QED
    BY <1>2, <1>3, <2>1, <2>3, <2>6 DEF ChainInv
<1>11. QED
  BY <1>1, <1>6, <1>7, <1>8, <1>9, <1>10

LEMMA ClearedKeeps ==
    ASSUME HInv, NEW r, NEW l, Answers(r, l), l.ok, r.kind = "clear",
           checkpoint' = [session |-> 0, sequence |-> 0], UNCHANGED handled
    PROVE  HInv'
<1> USE DEF HInv
<1>1. /\ l.kind = r.kind /\ l.about = r.about
      /\ Range(outbox) = {r} \cup Range(outbox') /\ Range(inbox') = Range(inbox) \cup {l}
      /\ ~Has(outbox', "ready")
      /\ outbox' \in Seq(Request) /\ inbox' \in Seq(Line)
      /\ PipeInv' /\ Awaited' /\ RefusalIsTold' /\ SocketInv' /\ ReceiptEarned'
  BY RequestTaken
<1>2. refused' = refused /\ UNCHANGED <<bridge, discord>>
  BY DEF Answers, TypeOK
<1>3. checkpoint'.session = 0 /\ checkpoint'.sequence = 0
  OBVIOUS
<1> USE DEF bridge, discord
<1>4. TypeOK' /\ LogInv' /\ NothingSkipped'
  BY <1>1, <1>2, <1>3 DEF TypeOK, LogInv, NothingSkipped
<1>5. session = 0 \/ (session \in Sessions /\ session # 0)
  BY DEF TypeOK
<1>6. RequestInv'
  BY <1>1, <1>2, <1>3, <1>5 DEF RequestInv, RequestOK, DecidedBefore, Steps
<1>7. LineInv'
  BY <1>1, <1>2, <1>3, <1>5 DEF LineInv, LineOK, Steps
<1>8. ChainInv'
  <2>1. session # 0 => ~Ours'
    BY <1>2, <1>3 DEF Ours
  <2>2. Place => Place'
    BY <1>2 DEF Place, DecidedBefore
  <2>3. session # 0 => Saved'
    BY <1>1, <1>2, <1>3, <2>1 DEF Saved
  <2>4. QED
    BY <1>2, <2>2, <2>3 DEF ChainInv, Running
<1>9. QED
  BY <1>1, <1>4, <1>6, <1>7, <1>8

LEMMA AnswerKeeps == \A ok \in BOOLEAN : HInv /\ Answer(ok) => HInv'
<1> SUFFICES ASSUME NEW ok \in BOOLEAN, HInv, Answer(ok) PROVE HInv'
  OBVIOUS
<1> PICK r : r = Head(outbox)
  OBVIOUS
<1> PICK l : l = [kind |-> r.kind, about |-> r.about, ok |-> ok]
  OBVIOUS
<1>1. Answers(r, l) /\ l.ok = ok
  BY DEF Answer, Answers
<1>2. r \in Request
  BY <1>1, RequestTaken
<1>3. ASSUME ~ok PROVE HInv'
  BY <1>1, <1>3, NothingDoneKeeps DEF Answer
<1>4. ASSUME ok PROVE HInv'
  <2>1. CarriesOut(r)
    BY <1>4 DEF Answer
  <2>2. CASE r.kind = "dispatch"
    BY <1>1, <1>4, <2>1, <2>2, DispatchDoneKeeps DEF CarriesOut
  <2>3. CASE r.kind = "ready"
    BY <1>1, <1>4, <2>1, <2>3, SessionSavedKeeps DEF CarriesOut
  <2>4. CASE r.kind = "sequence"
    BY <1>1, <1>4, <2>1, <2>4, SequenceSavedKeeps DEF CarriesOut
  <2>5. CASE r.kind = "clear"
    BY <1>1, <1>4, <2>1, <2>5, ClearedKeeps DEF CarriesOut
  <2>6. CASE r.kind = "heartbeat"
    BY <1>1, <1>4, <2>1, <2>6, NothingDoneKeeps DEF CarriesOut
  <2>7. QED
    BY <1>2, <2>2, <2>3, <2>4, <2>5, <2>6 DEF Request, Kinds
<1>5. QED
  BY <1>3, <1>4

--------------------------------------------------------------------------------

LEMMA NextKeeps == HInv /\ [Next]_vars => HInv'
<1> SUFFICES ASSUME HInv, [Next]_vars PROVE HInv'
  OBVIOUS
<1>1. CASE GiveUp \/ Exit \/ Crash \/ Disconnect
  <2>1. /\ mode' \in {"off", "failed"} /\ socket' = "none" /\ chain' \in {chain, Idle}
        /\ UNCHANGED <<host, pipe, session, next, discord>>
    BY <1>1 DEF GiveUp, Exit, Crash, Disconnect, Fails
  <2>2. QED
    BY <2>1, EndKeeps
<1>2. CASE UNCHANGED vars
  <2> USE <1>2 DEF vars, host, pipe, bridge, discord, HInv
  <2>1. TypeOK' /\ LogInv' /\ NothingSkipped' /\ PipeInv' /\ RefusalIsTold' /\ SocketInv'
        /\ ReceiptEarned' /\ Awaited'
    BY DEF TypeOK, LogInv, NothingSkipped, PipeInv, RefusalIsTold, SocketInv, ReceiptEarned,
       Awaited, Awaits, Running, AllAnswered
  <2>2. RequestInv' /\ LineInv' /\ ChainInv'
    BY DEF RequestInv, RequestOK, LineInv, LineOK, ChainInv, Running, Place, Saved, Ours,
       Excused, DecidedBefore
  <2>3. QED
    BY <2>1, <2>2
<1>3. QED
  BY <1>1, <1>2, StartKeeps, IdentifyKeeps, ResumeKeeps, BeginKeeps, HeartbeatKeeps,
     InvalidSessionKeeps, ReconnectKeeps, ReadLineKeeps, StoppedKeeps, AskStopKeeps,
     AnswerKeeps, PostKeeps DEF Next

\* When the bridge says "stopped", the host owes it nothing and has refused nothing, and
\* the checkpoint of its session is the last event it began, whatever was late, lost or
\* refused before (drainGateway of host-bridge.mjs).
THEOREM ReceiptsAreEarned == Spec => []ReceiptEarned
<1>1. HInv => ReceiptEarned
  BY DEF HInv
<1>2. QED
  BY InitHInv, NextKeeps, <1>1, PTL DEF Spec

\* The host, the pipe and the process hold what their declarations say.
THEOREM BridgeTypes == Spec => []TypeOK
<1>1. HInv => TypeOK
  BY DEF HInv
<1>2. QED
  BY InitHInv, NextKeeps, <1>1, PTL DEF Spec

--------------------------------------------------------------------------------
(* The abstract feed by itself, of any log, handled and checkpoint.            *)

Abstract == INSTANCE ResumableFeed

\* a session that has begun has its READY first
FirstIsReady == \A s \in Sessions : log[s] # <<>> => log[s][1] = Ready

FeedInv == Abstract!TypeOK /\ Abstract!NothingSkipped /\ FirstIsReady

LEMMA InitFeed == Abstract!Init => FeedInv
BY DEF Abstract!Init, Abstract!Nowhere, FeedInv, Abstract!TypeOK, Abstract!NothingSkipped,
   FirstIsReady

LEMMA LongerByOne ==
    ASSUME NEW S, NEW q \in Seq(S), NEW x \in S, NEW r, r = Append(q, x)
    PROVE  /\ Len(r) = Len(q) + 1
           /\ r # <<>>
           /\ r[Len(q) + 1] = x
           /\ \A i \in 1..Len(q) : r[i] = q[i]
BY AppendProperties

\* an appended event leaves the ones before it where they were
LEMMA GrowKeepsFeed ==
    ASSUME FeedInv, NEW s \in Sessions, NEW e \in Messages \cup {Ready}, Abstract!Grow(s, e)
    PROVE  FeedInv'
<1> USE DEF FeedInv, Abstract!TypeOK
<1>1. log[s] \in Seq(Messages \cup {Ready}) /\ log'[s] = Append(log[s], e)
  BY DEF Abstract!Grow
<1>2. /\ Len(log'[s]) = Len(log[s]) + 1
      /\ log'[s] # <<>>
      /\ log'[s][Len(log[s]) + 1] = e
      /\ \A i \in 1..Len(log[s]) : log'[s][i] = log[s][i]
  <2>1. PICK q \in Seq(Messages \cup {Ready}) : q = log[s]
    BY <1>1
  <2>2. PICK r : r = log'[s]
    OBVIOUS
  <2>3. /\ Len(r) = Len(q) + 1 /\ r # <<>> /\ r[Len(q) + 1] = e
        /\ \A i \in 1..Len(q) : r[i] = q[i]
    BY <1>1, <2>1, <2>2, LongerByOne
  <2>4. QED
    BY <2>1, <2>2, <2>3
<1>3. \A t \in Sessions : t # s => log'[t] = log[t]
  BY DEF Abstract!Grow
<1>4. Abstract!TypeOK'
  BY <1>1 DEF Abstract!Grow
<1>5. FirstIsReady'
  <2>1. CASE log[s] = <<>>
    BY <1>2, <1>3, <2>1 DEF Abstract!Grow, FirstIsReady
  <2>2. CASE log[s] # <<>>
    <3>1. Len(log[s]) \in Nat \ {0}
      BY <1>1, <2>2
    <3>2. log'[s][1] = log[s][1]
      BY <1>2, <3>1
    <3>3. QED
      BY <1>3, <2>2, <3>2 DEF FirstIsReady
  <2>3. QED
    BY <2>1, <2>2
<1>6. Abstract!NothingSkipped'
  <2>1. checkpoint' = checkpoint /\ handled' = handled
    BY DEF Abstract!Grow
  <2>2. CASE checkpoint.session = s
    <3>1. Len(log[s]) \in Nat /\ checkpoint.sequence \in Nat
      BY <1>1
    <3>2. QED
      BY <1>2, <2>1, <2>2, <3>1 DEF Abstract!NothingSkipped
  <2>3. CASE checkpoint.session # s
    BY <1>3, <2>1, <2>3 DEF Abstract!NothingSkipped
  <2>4. QED
    BY <2>2, <2>3
<1>7. QED
  BY <1>4, <1>5, <1>6

LEMMA AdoptKeepsFeed ==
    ASSUME FeedInv, NEW s \in Sessions, NEW n \in {0, 1}, Abstract!Adopt(s, n)
    PROVE  FeedInv'
<1> USE DEF FeedInv, Abstract!TypeOK, Abstract!Adopt
<1>1. Len(log[s]) \in Nat \ {0}
  OBVIOUS
<1>2. checkpoint' = [session |-> s, sequence |-> n] /\ log' = log /\ handled' = handled
  BY DEF Abstract!Adopt
<1>3. Abstract!NothingSkipped'
  <2>1. checkpoint'.sequence <= Len(log[s])
    BY <1>1, <1>2
  <2>2. \A i \in 1..n : log[s][i] = Ready
    BY DEF FirstIsReady
  <2>3. QED
    BY <1>2, <2>1, <2>2 DEF Abstract!NothingSkipped
<1>4. QED
  BY <1>2, <1>3 DEF FirstIsReady

\* Whatever is decided, posted, adopted, written late or forgotten, in whatever order: a
\* resume skips no message that was not decided about (saveGatewayState, after onDispatch).
THEOREM FeedSkipsNothing == Abstract!ReplaySpec => []Abstract!NothingSkipped
<1>1. FeedInv /\ [Abstract!ReplayNext]_(Abstract!vars) => FeedInv'
  <2> SUFFICES ASSUME FeedInv, [Abstract!ReplayNext]_(Abstract!vars) PROVE FeedInv'
    OBVIOUS
  <2>1. ASSUME NEW m \in Messages, Abstract!Decide(m) PROVE FeedInv'
    BY <2>1 DEF Abstract!Decide, FeedInv, Abstract!TypeOK, Abstract!NothingSkipped, FirstIsReady
  <2>2. ASSUME NEW n \in 1..Len(log[checkpoint.session]), checkpoint.session # 0,
               Abstract!Advance(n)
        PROVE  FeedInv'
    BY <2>2 DEF Abstract!Advance, FeedInv, Abstract!TypeOK, Abstract!NothingSkipped, FirstIsReady
  <2>3. CASE Abstract!Forget
    BY <2>3 DEF Abstract!Forget, Abstract!Nowhere, FeedInv, Abstract!TypeOK,
       Abstract!NothingSkipped, FirstIsReady
  <2>4. CASE UNCHANGED Abstract!vars
    BY <2>4 DEF Abstract!vars, FeedInv, Abstract!TypeOK, Abstract!NothingSkipped, FirstIsReady
  <2>5. ASSUME NEW n, checkpoint.session # 0, Abstract!FallBack(n) PROVE FeedInv'
    <3>1. /\ checkpoint' = [checkpoint EXCEPT !.sequence = n]
          /\ UNCHANGED <<log, handled>> /\ n \in Nat /\ n <= checkpoint.sequence
      BY <2>5 DEF Abstract!FallBack, FeedInv, Abstract!TypeOK
    <3>2. n <= Len(log[checkpoint.session])
      BY <2>5, <3>1 DEF FeedInv, Abstract!TypeOK, Abstract!NothingSkipped
    <3>3. QED
      BY <2>5, <3>1, <3>2 DEF FeedInv, Abstract!TypeOK, Abstract!NothingSkipped, FirstIsReady
  <2>6. QED
    BY <2>1, <2>2, <2>3, <2>4, <2>5, GrowKeepsFeed, AdoptKeepsFeed
       DEF Abstract!Next, Abstract!ReplayNext
<1>2. FeedInv => Abstract!NothingSkipped
  BY DEF FeedInv
<1>3. QED
  BY InitFeed, <1>1, <1>2, PTL DEF Abstract!ReplaySpec

--------------------------------------------------------------------------------
(* The host's checkpoint is that of a resumable feed.                          *)

Mapped == IF checkpoint.session = 0 THEN [session |-> 0, sequence |-> 0] ELSE checkpoint

LEMMA FeedStays ==
    ASSUME UNCHANGED <<log, handled>>, Mapped' = Mapped
    PROVE  UNCHANGED Feed!vars
BY DEF Feed!vars, Mapped

LEMMA FeedGrows ==
    ASSUME NEW s \in Sessions, NEW e \in Events, e = Ready <=> log[s] = <<>>,
           log' = [log EXCEPT ![s] = Append(@, e)], UNCHANGED <<handled, checkpoint>>
    PROVE  Feed!Next
<1>1. Feed!Grow(s, e)
  BY DEF Feed!Grow
<1>2. QED
  BY <1>1 DEF Feed!Next, Events

\* what the host makes of a request is a step of the feed
LEMMA FeedAnswers ==
    ASSUME HInv, NEW r, RequestOK(r), r \in Request, CarriesOut(r), UNCHANGED discord
    PROVE  [Feed!Next]_(Feed!vars)
<1> USE DEF HInv, discord
<1>1. UNCHANGED log
  OBVIOUS
<1>2. r.kind \in Steps => /\ session \in Sessions /\ session # 0 /\ r.about \in DOMAIN log[session]
                          /\ r.about \in 1..Len(log[session]) /\ Len(log[session]) \in Nat
                          /\ log[session] # <<>> /\ log[session][r.about] \in Events
  BY Logs DEF RequestOK, TypeOK, LogInv
<1>3. CASE r.kind = "dispatch"
  <2>1. /\ checkpoint' = checkpoint
        /\ handled' = handled \cup ({log[session][r.about]} \ {Ready})
    BY <1>3 DEF CarriesOut
  <2>2. CASE log[session][r.about] = Ready
    <3>1. handled' = handled
      BY <2>1, <2>2
    <3>2. QED
      BY <1>1, <2>1, <3>1, FeedStays DEF Mapped
  <2>3. CASE log[session][r.about] # Ready
    <3> DEFINE m == log[session][r.about]
    <3>1. m \in Messages /\ m \in Feed!Posted
      BY <1>2, <1>3, <2>3 DEF Feed!Posted, Steps, Events
    <3>2. Feed!Decide(m)
      BY <1>1, <2>1, <2>3, <3>1 DEF Feed!Decide
    <3>3. QED
      BY <3>1, <3>2 DEF Feed!Next
  <2>4. QED
    BY <2>2, <2>3
<1>4. CASE r.kind = "ready"
  <2>1. /\ checkpoint' = [session |-> session, sequence |-> 0] /\ handled' = handled
        /\ checkpoint.session # session
    BY <1>4 DEF CarriesOut, RequestOK
  <2>2. Feed!Adopt(session, 0)
    BY <1>1, <1>2, <1>4, <2>1 DEF Feed!Adopt, Steps
  <2>3. QED
    BY <1>2, <1>4, <2>2 DEF Feed!Next, Steps
<1>5. CASE r.kind = "sequence"
  <2>1. checkpoint' = [checkpoint EXCEPT !.sequence = r.about] /\ handled' = handled
    BY <1>5 DEF CarriesOut
  <2>2. checkpoint'.session = checkpoint.session /\ checkpoint.session \in {0, session}
        /\ checkpoint.sequence \in Nat
    BY <1>5, <2>1 DEF RequestOK, TypeOK
  <2>3. CASE checkpoint.session = 0
    BY <1>1, <2>1, <2>2, <2>3, FeedStays DEF Mapped
  <2>4. CASE checkpoint.session # 0
    <3>1. /\ session = checkpoint.session /\ checkpoint.sequence < r.about
          /\ \A i \in 1..r.about : log[session][i] \in handled \cup {Ready}
          /\ r.about \in 1..Len(log[session]) /\ Len(log[session]) \in Nat
      BY <1>2, <1>5, <2>2, <2>4 DEF RequestOK, DecidedBefore, Steps
    <3>2. Mapped = checkpoint /\ Mapped' = checkpoint'
      BY <2>2, <2>4 DEF Mapped
    <3>3. r.about \in checkpoint.sequence + 1 .. Len(log[checkpoint.session])
      BY <2>2, <3>1
    <3>4. Feed!Advance(r.about)
      BY <1>1, <2>1, <2>2, <2>4, <3>1, <3>3 DEF Feed!Advance
    <3>5. QED
      BY <2>4, <3>1, <3>4 DEF Feed!Next
  <2>5. QED
    BY <2>3, <2>4
<1>6. CASE r.kind = "clear"
  <2>1. checkpoint' = [session |-> 0, sequence |-> 0] /\ handled' = handled
    BY <1>6 DEF CarriesOut
  <2>2. Feed!Forget
    BY <1>1, <2>1 DEF Feed!Forget, Feed!Nowhere
  <2>3. QED
    BY <2>2 DEF Feed!Next
<1>7. CASE r.kind = "heartbeat"
  <2>1. checkpoint' = checkpoint /\ handled' = handled
    BY <1>7 DEF CarriesOut
  <2>2. QED
    BY <1>1, <2>1, FeedStays DEF Mapped
<1>8. QED
  BY <1>3, <1>4, <1>5, <1>6, <1>7 DEF Request, Kinds

LEMMA FeedStep ==
    ASSUME HInv, [Next]_vars
    PROVE  [Feed!Next]_(Feed!vars)
<1> USE DEF HInv
<1>1. ASSUME UNCHANGED <<log, handled, checkpoint>>
      PROVE  [Feed!Next]_(Feed!vars)
  BY <1>1, FeedStays DEF Mapped
<1>2. CASE Identify
  <2>1. PICK s \in Sessions \ Started : log' = [log EXCEPT ![s] = <<Ready>>]
    BY <1>2 DEF Identify
  <2>2. log[s] = <<>> /\ log' = [log EXCEPT ![s] = Append(@, Ready)]
    <3>1. log[s] = <<>>
      BY DEF Started
    <3>2. Append(<<>>, Ready) = <<Ready>>
      OBVIOUS
    <3>3. QED
      BY <2>1, <3>1, <3>2
  <2>3. QED
    BY <1>2, <2>1, <2>2, FeedGrows DEF Identify, host, Events
<1>3. ASSUME NEW m \in Messages, Post(m)
      PROVE  [Feed!Next]_(Feed!vars)
  <2>1. /\ resumable \in Sessions /\ log[resumable] # <<>> /\ m \in Events /\ m # Ready
        /\ log' = [log EXCEPT ![resumable] = Append(@, m)]
        /\ UNCHANGED <<handled, checkpoint>>
    BY <1>3, ReadyIsNoMessage DEF Post, TypeOK, LogInv, Events, host
  <2>2. QED
    BY <2>1, FeedGrows
<1>4. ASSUME NEW ok \in BOOLEAN, Answer(ok)
      PROVE  [Feed!Next]_(Feed!vars)
  <2>1. CASE ok
    <3>1. /\ CarriesOut(Head(outbox)) /\ UNCHANGED discord /\ outbox # <<>>
      BY <1>4, <2>1 DEF Answer
    <3>2. Head(outbox) \in Request /\ Head(outbox) \in Range(outbox)
      BY <3>1, Taken DEF TypeOK
    <3>3. RequestOK(Head(outbox))
      BY <3>2 DEF RequestInv
    <3>4. QED
      BY <3>1, <3>2, <3>3, FeedAnswers
  <2>2. CASE ~ok
    BY <1>1, <1>4, <2>2 DEF Answer, discord
  <2>3. QED
    BY <2>1, <2>2
<1>5. CASE Start \/ GiveUp \/ Exit \/ Crash \/ Resume \/ Begin \/ Heartbeat \/ InvalidSession
           \/ Reconnect \/ Disconnect \/ ReadLine \/ Stopped \/ AskStop
  BY <1>1, <1>5 DEF Start, GiveUp, Exit, Crash, Resume, Begin, Heartbeat, InvalidSession,
     Reconnect, Disconnect, ReadLine, Stopped, AskStop, host, discord
<1>6. CASE UNCHANGED vars
  BY <1>1, <1>6 DEF vars, host, discord
<1>7. QED
  BY <1>2, <1>3, <1>4, <1>5, <1>6 DEF Next

\* The host's checkpoint moves as a resumable feed's does, over a pipe on which requests are
\* late, refused or lost with the process, and however often bridges are started
\* (host-bridge.mjs, DiscordGatewaySession).
THEOREM BridgeImplementsFeed == Spec => ImplementsFeed
<1>1. Init => Feed!Init
  BY DEF Init, Feed!Init, Feed!Nowhere
<1>2. HInv /\ [Next]_vars => [Feed!Next]_(Feed!vars)
  BY FeedStep
<1>3. QED
  BY InitHInv, NextKeeps, <1>1, <1>2, PTL DEF Spec, ImplementsFeed, Feed!Spec

\* So nothing is lost between two bridges: what lies before the place the host would
\* resume from was answered by the host, whatever requests were late, refused or lost.
THEOREM BridgeSkipsNothing == Spec => []Feed!NothingSkipped
<1>1. HInv => Feed!NothingSkipped
  BY DEF HInv, NothingSkipped, Feed!NothingSkipped
<1>2. QED
  BY InitHInv, NextKeeps, <1>1, PTL DEF Spec
================================================================================
