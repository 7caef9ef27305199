-------------------------- MODULE DiscordGatewayProofs --------------------------
(******************************************************************************)
(* The checkpoint is never ahead of the work, for any number of connections,    *)
(* and is kept as a resumable feed. Two invariants: one for callbacks that      *)
(* outlive their connection, while Discord keeps its session, and one for a      *)
(* Discord that does not, while callbacks end before the next connection.        *)
(*                                                                            *)
(* The first: every dispatch in progress belongs to the session of the          *)
(* checkpoint (which a new session replaces only when there is none), and all    *)
(* that its connection dispatched before it is decided. The second: what the     *)
(* one connection dispatches comes right after the checkpoint, or its session     *)
(* is lost and with it the place.                                              *)
(******************************************************************************)
EXTENDS DiscordGateway, SequenceTheorems, TLAPS

Known == checkpoint.session # 0 /\ checkpoint.sequence # 0

\* the first n events of session s are decided
Done(s, n) == \A i \in 1..n : log[s][i] \in handled \cup {Ready}

LogInv ==
    /\ resumable # 0 => log[resumable] # <<>>
    /\ \A s \in Sessions :
          /\ log[s] # <<>> => log[s][1] = Ready
          /\ \A i \in 2..Len(log[s]) : log[s][i] \in Messages

CheckpointInv ==
    Known =>
        /\ checkpoint.session = resumable
        /\ checkpoint.sequence <= Len(log[checkpoint.session])
        /\ Done(checkpoint.session, checkpoint.sequence)

DispatchInv ==
    \A c \in Conns : Busy(c) =>
        /\ Known
        /\ conn[c].session = checkpoint.session
        /\ conn[c].doing \in 2..Len(log[conn[c].session])
        /\ Done(conn[c].session, conn[c].doing - 1)
        /\ conn[c].done => log[conn[c].session][conn[c].doing] \in handled \cup {Ready}

\* an open connection waits for its READY, or has dispatched the events before next
AwaitsReady(c) ==
    /\ conn[c].next = 1
    /\ conn[c].session # 0 /\ conn[c].session = resumable
    /\ log[resumable] # <<>>
    /\ ~Known

HasDispatched(c) ==
    /\ conn[c].next >= 2
    /\ Known
    /\ conn[c].session = checkpoint.session
    /\ conn[c].next <= Len(log[conn[c].session]) + 1
    /\ IF Busy(c) THEN conn[c].doing = conn[c].next - 1
                  ELSE Done(conn[c].session, conn[c].next - 1)

ConnInv ==
    \A c \in Conns :
        /\ conn[c].state \in {"closed", "opening", "open"}
        /\ conn[c].state = "opening" => ~Busy(c)
        /\ ~Busy(c) => ~conn[c].done
        /\ conn[c].state = "open" => AwaitsReady(c) \/ HasDispatched(c)

GInv ==
    /\ TypeOK
    /\ OneConnection
    /\ LogInv
    /\ CheckpointInv
    /\ DispatchInv
    /\ ConnInv

--------------------------------------------------------------------------------

LEMMA InitGInv == Init => GInv
<1> SUFFICES ASSUME Init PROVE GInv
  OBVIOUS
<1>1. TypeOK
  BY DEF Init, TypeOK, ConnState, Unused, Events
<1>2. OneConnection /\ LogInv /\ CheckpointInv /\ DispatchInv /\ ConnInv
  BY DEF Init, OneConnection, LogInv, CheckpointInv, DispatchInv, ConnInv, Known, Busy, Unused
<1>3. QED
  BY <1>1, <1>2 DEF GInv

\* One connection changes, to a well-typed value.
LEMMA ConnTyped ==
    ASSUME TypeOK, NEW c \in Conns, NEW r \in ConnState
    PROVE  [conn EXCEPT ![c] = r] \in [Conns -> ConnState]
BY DEF TypeOK

LEMMA UnusedTyped == Unused \in ConnState
BY DEF Unused, ConnState

LEMMA RestTyped ==
    ASSUME NEW r \in ConnState
    PROVE  Rest(r) \in ConnState /\ Shut(r) \in ConnState
BY UnusedTyped DEF Rest, Shut, ConnState


Opened(q, s, n) == [q EXCEPT !.state = "open", !.session = s, !.next = n]
Begun(q, n, k) == [q EXCEPT !.doing = n, !.next = k, !.stale = FALSE]

LEMMA OpenedTyped ==
    ASSUME NEW q \in ConnState, NEW s \in Sessions, NEW n \in Nat
    PROVE  /\ Opened(q, s, n) \in ConnState
           /\ Opened(q, s, n).state = "open" /\ Opened(q, s, n).session = s
           /\ Opened(q, s, n).next = n /\ Opened(q, s, n).doing = q.doing
           /\ Opened(q, s, n).done = q.done
BY DEF ConnState, Opened

LEMMA BegunTyped ==
    ASSUME NEW q \in ConnState, NEW n \in Nat, NEW k \in Nat
    PROVE  /\ Begun(q, n, k) \in ConnState
           /\ Begun(q, n, k).state = q.state /\ Begun(q, n, k).session = q.session
           /\ Begun(q, n, k).doing = n /\ Begun(q, n, k).next = k
           /\ Begun(q, n, k).done = q.done
BY DEF ConnState, Begun

\* What only one connection changes, the log and the decisions not.
LEMMA OtherConns ==
    ASSUME TypeOK, NEW c \in Conns, NEW r \in ConnState,
           conn' = [conn EXCEPT ![c] = r]
    PROVE  conn' \in [Conns -> ConnState] /\ conn'[c] = r
           /\ \A d \in Conns : d # c => conn'[d] = conn[d]
BY DEF TypeOK

LEMMA ConnectStep ==
    ASSUME GInv, NEW c \in Conns, Connect(c)
    PROVE  GInv'
<1> DEFINE r == [Unused EXCEPT !.state = "opening"]
<1>1. r \in ConnState /\ r.state = "opening" /\ r.doing = 0 /\ r.done = FALSE
  BY DEF Unused, ConnState
<1>2. conn' = [conn EXCEPT ![c] = r]
  BY DEF Connect, GInv, TypeOK
<1> HIDE DEF r
<1>3. conn' \in [Conns -> ConnState] /\ conn'[c] = r
      /\ \A d \in Conns : d # c => conn'[d] = conn[d]
  BY <1>1, <1>2, OtherConns DEF GInv
<1>4. TypeOK'
  BY <1>3 DEF Connect, GInv, TypeOK, discord
<1>5. OneConnection'
  BY <1>1, <1>3 DEF Connect, GInv, OneConnection
<1>6. LogInv' /\ CheckpointInv'
  BY DEF Connect, GInv, LogInv, CheckpointInv, Known, Done, discord
<1>7. DispatchInv'
  BY <1>1, <1>3 DEF Connect, GInv, DispatchInv, Known, Busy, Done, discord
<1>8. ConnInv'
  BY <1>1, <1>3, ZenonT(60) DEF Connect, GInv, ConnInv, AwaitsReady, HasDispatched, Known, Busy, Done, discord
<1>9. QED
  BY <1>4, <1>5, <1>6, <1>7, <1>8 DEF GInv

LEMMA IdentifyStep ==
    ASSUME GInv, NEW c \in Conns, Identify(c)
    PROVE  GInv'
<1>1. PICK s \in Sessions \ Started :
        /\ log' = [log EXCEPT ![s] = <<Ready>>]
        /\ resumable' = s
        /\ conn' = [conn EXCEPT ![c] = [@ EXCEPT !.state = "open", !.session = s, !.next = 1]]
  BY DEF Identify
<1>2. conn[c] \in ConnState /\ conn[c].state = "opening" /\ conn[c].doing = 0 /\ ~Known
      /\ ~conn[c].done
  BY DEF GInv, TypeOK, Identify, Known, ConnInv, Busy, ConnState
<1>3. UNCHANGED <<checkpoint, handled, mode, gateway>>
  BY DEF Identify
<1> DEFINE r == [conn[c] EXCEPT !.state = "open", !.session = s, !.next = 1]
<1>4. r \in ConnState /\ r.state = "open" /\ r.doing = 0 /\ r.session = s /\ r.next = 1
      /\ ~r.done
  BY <1>2 DEF ConnState
<1> HIDE DEF r
<1>5. conn' = [conn EXCEPT ![c] = r]
  BY <1>1 DEF r, GInv, TypeOK
<1>6. conn' \in [Conns -> ConnState] /\ conn'[c] = r
      /\ \A d \in Conns : d # c => conn'[d] = conn[d]
  BY <1>4, <1>5, OtherConns DEF GInv
<1>7. s \in Nat \ {0} /\ <<Ready>> \in Seq(Events) /\ <<Ready>> # <<>>
      /\ <<Ready>>[1] = Ready /\ Len(<<Ready>>) = 1
  BY SessionsAreNumbered DEF Sessions, Events
<1>8. log' \in [Sessions -> Seq(Events)] /\ log'[s] = <<Ready>>
      /\ \A t \in Sessions : t # s => log'[t] = log[t]
  BY <1>1, <1>7 DEF GInv, TypeOK
<1>9. TypeOK'
  BY <1>1, <1>3, <1>6, <1>8 DEF GInv, TypeOK
<1>10. OneConnection'
  BY <1>2, <1>3, <1>4, <1>6 DEF GInv, OneConnection
<1>11. LogInv'
  <2>1. resumable' # 0 => log'[resumable'] # <<>>
    BY <1>1, <1>7, <1>8
  <2>2. QED
    BY <1>7, <1>8, <2>1 DEF GInv, LogInv
<1>12. CheckpointInv' /\ ~Known'
  BY <1>2, <1>3 DEF CheckpointInv, Known
<1>13. \A d \in Conns : ~Busy(d)
  BY <1>2 DEF GInv, DispatchInv
<1>14. DispatchInv'
  BY <1>4, <1>6, <1>13 DEF DispatchInv, Busy
<1>15. \A d \in Conns : d # c => conn[d].state = "closed"
  BY <1>2 DEF GInv, OneConnection
<1>16. ConnInv'
  BY <1>1, <1>4, <1>6, <1>7, <1>8, <1>12, <1>13, <1>15 DEF GInv, ConnInv, AwaitsReady, Busy
<1>17. QED
  BY <1>9, <1>10, <1>11, <1>12, <1>14, <1>16 DEF GInv

LEMMA ResumeStep ==
    ASSUME GInv, NEW c \in Conns, Resume(c)
    PROVE  GInv'
<1>1. Known /\ checkpoint.session = resumable
      /\ checkpoint.sequence \in Nat /\ resumable \in Sessions /\ resumable # 0
  BY DEF Resume, Resumes, Known, GInv, CheckpointInv, TypeOK
<1>2. /\ conn' = [conn EXCEPT ![c] = [@ EXCEPT !.state = "open", !.session = resumable,
                                               !.next = checkpoint.sequence + 1]]
      /\ UNCHANGED <<checkpoint, handled, mode, gateway, log, resumable>>
  BY <1>1 DEF Resume, Resumes, discord
<1>3. conn[c] \in ConnState /\ conn[c].state = "opening" /\ conn[c].doing = 0
      /\ ~conn[c].done
  BY DEF GInv, TypeOK, Resume, Resumes, ConnInv, Busy, ConnState
<1> DEFINE r == Opened(conn[c], resumable, checkpoint.sequence + 1)
<1>4. r \in ConnState /\ r.state = "open" /\ r.doing = 0
      /\ r.session = resumable /\ r.next = checkpoint.sequence + 1 /\ ~r.done
  <2>1. checkpoint.sequence + 1 \in Nat
    BY <1>1
  <2>2. QED
    BY <1>1, <1>3, <2>1, OpenedTyped
<1> HIDE DEF r
<1>5. conn' = [conn EXCEPT ![c] = r]
  BY <1>2 DEF r, Opened, GInv, TypeOK
<1>6. conn' \in [Conns -> ConnState] /\ conn'[c] = r
      /\ \A d \in Conns : d # c => conn'[d] = conn[d]
  BY <1>4, <1>5, OtherConns DEF GInv
<1>7. TypeOK'
  BY <1>2, <1>6 DEF GInv, TypeOK
<1>8. OneConnection'
  BY <1>2, <1>3, <1>4, <1>6 DEF GInv, OneConnection
<1>9. LogInv' /\ CheckpointInv'
  BY <1>2 DEF GInv, LogInv, CheckpointInv, Known, Done
<1>10. DispatchInv'
  BY <1>2, <1>4, <1>6, ZenonT(60) DEF GInv, DispatchInv, Busy, Known, Done
<1>11. HasDispatched(c)'
  <2>1. Len(log[resumable]) \in Nat
    BY <1>1, LenProperties DEF GInv, TypeOK
  <2>2. checkpoint.sequence <= Len(log[resumable]) /\ Done(resumable, checkpoint.sequence)
    BY <1>1 DEF GInv, CheckpointInv
  <2>3. checkpoint.sequence >= 1
    BY <1>1 DEF Known
  <2>4. r.next - 1 = checkpoint.sequence
    BY <1>1, <1>4
  <2>5. Done(resumable, r.next - 1)
    BY <2>2, <2>4, Zenon
  <2>6. Done(conn[c].session, conn[c].next - 1)'
    BY <1>2, <1>4, <1>6, <2>5 DEF Done
  <2>7. Known' /\ ~Busy(c)'
    BY <1>1, <1>2, <1>4, <1>6 DEF Known, Busy
  <2>8. QED
    BY <1>1, <1>2, <1>4, <1>6, <2>1, <2>2, <2>3, <2>6, <2>7 DEF HasDispatched
<1>12. ConnInv'
  BY <1>2, <1>4, <1>6, <1>11
     DEF GInv, ConnInv, AwaitsReady, HasDispatched, Known, Busy, Done
<1>13. QED
  BY <1>7, <1>8, <1>9, <1>10, <1>12 DEF GInv

\* A READY is the first event of its session, before there is any checkpoint.
LEMMA ReadyIsFirst ==
    ASSUME GInv, NEW c \in Conns, HasNext(c), EventOf(c, conn[c].next) = Ready
    PROVE  /\ conn[c].state = "open" /\ conn[c].next = 1 /\ conn[c].doing = 0
           /\ conn[c].session \in Sessions /\ conn[c].session = resumable
           /\ log[resumable] # <<>>
           /\ ~Known
           /\ \A d \in Conns : ~Busy(d)
           /\ \A d \in Conns : d # c => conn[d].state = "closed"
           /\ conn[c] \in ConnState /\ ~conn[c].done
<1>1. conn[c] \in ConnState /\ conn[c].state = "open" /\ conn[c].doing = 0
      /\ conn[c].session \in Sessions /\ ~conn[c].done
  BY DEF GInv, TypeOK, HasNext, ConnInv, ConnState, Busy
<1>2. conn[c].next \in 1..Len(log[conn[c].session])
  BY <1>1, LenProperties DEF HasNext, GInv, TypeOK
<1>3. Len(log[conn[c].session]) \in Nat
  BY <1>1, LenProperties DEF GInv, TypeOK
<1>4. ~(conn[c].next \in 2..Len(log[conn[c].session]))
  BY <1>1, ReadyIsNoMessage DEF GInv, LogInv, EventOf
<1>5. conn[c].next = 1
  BY <1>2, <1>3, <1>4
<1>6. AwaitsReady(c)
  BY <1>1, <1>5 DEF GInv, ConnInv, HasDispatched
<1>7. QED
  BY <1>1, <1>5, <1>6 DEF AwaitsReady, GInv, DispatchInv, OneConnection

LEMMA TakeReadyStep ==
    ASSUME GInv, NEW c \in Conns, TakeReady(c)
    PROVE  GInv'
<1>1. /\ conn[c].state = "open" /\ conn[c].next = 1 /\ conn[c].doing = 0
      /\ conn[c].session \in Sessions /\ conn[c].session = resumable
      /\ log[resumable] # <<>>
      /\ ~Known
      /\ \A d \in Conns : ~Busy(d)
      /\ \A d \in Conns : d # c => conn[d].state = "closed"
      /\ conn[c] \in ConnState /\ ~conn[c].done
  BY ReadyIsFirst DEF TakeReady
<1>2. /\ checkpoint' = [session |-> resumable, sequence |-> 1]
      /\ UNCHANGED <<handled, mode, gateway, log, resumable>>
  BY <1>1 DEF TakeReady, discord
<1> DEFINE r == [conn[c] EXCEPT !.next = 2]
<1>3. r \in ConnState /\ r.state = "open" /\ r.doing = 0 /\ r.session = resumable
      /\ r.next = 2 /\ ~r.done
  BY <1>1 DEF ConnState
<1>4. conn' = [conn EXCEPT ![c] = r]
  BY <1>1 DEF TakeReady, GInv, TypeOK, ConnState
<1> HIDE DEF r
<1>5. conn' \in [Conns -> ConnState] /\ conn'[c] = r
      /\ \A d \in Conns : d # c => conn'[d] = conn[d]
  BY <1>3, <1>4, OtherConns DEF GInv
<1>6. Len(log[resumable]) \in Nat \ {0} /\ log[resumable][1] = Ready
      /\ resumable \in Nat \ {0}
  BY <1>1, LenProperties, EmptySeq, SessionsAreNumbered DEF GInv, TypeOK, LogInv, Sessions
<1>7. TypeOK'
  BY <1>1, <1>2, <1>5 DEF GInv, TypeOK
<1>8. OneConnection'
  BY <1>1, <1>2, <1>3, <1>5 DEF GInv, OneConnection
<1>9. LogInv'
  BY <1>2 DEF GInv, LogInv
<1>10. CheckpointInv' /\ Known'
  BY <1>2, <1>6 DEF CheckpointInv, Known, Done
<1>11. DispatchInv'
  BY <1>1, <1>3, <1>5 DEF DispatchInv, Busy
<1>12. HasDispatched(c)'
  BY <1>2, <1>3, <1>5, <1>6, <1>10 DEF HasDispatched, Busy, Done
<1>13. ConnInv'
  BY <1>1, <1>3, <1>5, <1>12 DEF GInv, ConnInv, Busy
<1>14. QED
  BY <1>7, <1>8, <1>9, <1>10, <1>11, <1>13 DEF GInv

\* Nothing of this process is left.
LEMMA NothingLeft ==
    ASSUME GInv, mode' = "down", gateway' = NoConn, conn' = [d \in Conns |-> Unused],
           checkpoint' \in [session : Sessions \cup {0}, sequence : Nat],
           checkpoint' = checkpoint \/ checkpoint'.sequence = 0,
           UNCHANGED <<handled, log, resumable>>
    PROVE  GInv'
<1>1. TypeOK'
  BY UnusedTyped DEF GInv, TypeOK
<1>2. OneConnection'
  BY DEF OneConnection, Unused
<1>3. LogInv' /\ CheckpointInv'
  BY DEF GInv, LogInv, CheckpointInv, Known, Done
<1>4. DispatchInv' /\ ConnInv'
  BY DEF DispatchInv, ConnInv, Busy, Unused
<1>5. QED
  BY <1>1, <1>2, <1>3, <1>4 DEF GInv

LEMMA EndSteps ==
    ASSUME GInv, Close \/ Crash \/ \E c \in Conns : CrashInReady(c)
    PROVE  GInv'
<1>1. CASE Close \/ Crash
  BY <1>1, NothingLeft DEF Close, Crash, Gone, discord, GInv, TypeOK
<1>2. CASE \E c \in Conns : CrashInReady(c)
  <2>1. PICK c \in Conns : CrashInReady(c)
    BY <1>2
  <2>2. conn[c].session \in Sessions
    BY <2>1, ReadyIsFirst DEF CrashInReady
  <2>3. QED
    BY <2>1, <2>2, NothingLeft DEF CrashInReady, discord
<1>3. QED
  BY <1>1, <1>2

LEMMA BeginStep ==
    ASSUME GInv, NEW c \in Conns, Begin(c)
    PROVE  GInv'
<1>1. conn[c] \in ConnState /\ conn[c].state = "open" /\ conn[c].doing = 0
      /\ conn[c].session \in Sessions /\ ~conn[c].done /\ conn[c].next \in Nat
  BY DEF Begin, GInv, TypeOK, HasNext, ConnInv, ConnState, Busy
<1>2. conn[c].next \in 1..Len(log[conn[c].session]) /\ Len(log[conn[c].session]) \in Nat
  BY <1>1, LenProperties DEF Begin, HasNext, GInv, TypeOK
<1>3. HasDispatched(c)
  <2>1. ~AwaitsReady(c)
    BY <1>1 DEF AwaitsReady, Begin, EventOf, GInv, LogInv
  <2>2. QED
    BY <1>1, <2>1 DEF GInv, ConnInv
<1>4. UNCHANGED <<checkpoint, handled, mode, gateway, log, resumable>>
  BY DEF Begin, discord
<1> DEFINE r == Begun(conn[c], conn[c].next, conn[c].next + 1)
<1>5. r \in ConnState /\ r.state = "open" /\ r.doing = conn[c].next
      /\ r.session = conn[c].session /\ r.next = conn[c].next + 1 /\ ~r.done
  <2>1. conn[c].next + 1 \in Nat
    BY <1>1
  <2>2. conn[c] \in ConnState /\ conn[c].next \in Nat
    BY <1>1
  <2>3. /\ r \in ConnState
        /\ r.state = conn[c].state /\ r.session = conn[c].session
        /\ r.doing = conn[c].next /\ r.next = conn[c].next + 1
        /\ r.done = conn[c].done
    BY <2>1, <2>2, BegunTyped, ZenonT(60)
  <2> HIDE DEF r
  <2>4. QED
    BY <1>1, <2>3, ZenonT(60)
<1>6. conn' = [conn EXCEPT ![c] = r]
  BY DEF Begin, Begun, GInv, TypeOK
<1> HIDE DEF r
<1>7. conn' \in [Conns -> ConnState] /\ conn'[c] = r
      /\ \A d \in Conns : d # c => conn'[d] = conn[d]
  BY <1>5, <1>6, OtherConns DEF GInv
<1>8. TypeOK'
  BY <1>4, <1>7 DEF GInv, TypeOK
<1>9. OneConnection'
  BY <1>1, <1>4, <1>5, <1>7 DEF GInv, OneConnection
<1>10. LogInv' /\ CheckpointInv'
  BY <1>4 DEF GInv, LogInv, CheckpointInv, Known, Done
<1>11. Known /\ conn[c].session = checkpoint.session /\ Done(conn[c].session, conn[c].next - 1)
  BY <1>1, <1>3 DEF HasDispatched, Busy
<1>12. DispatchInv'
  <2> SUFFICES ASSUME NEW d \in Conns, Busy(d)'
               PROVE  (/\ Known
                       /\ conn[d].session = checkpoint.session
                       /\ conn[d].doing \in 2..Len(log[conn[d].session])
                       /\ Done(conn[d].session, conn[d].doing - 1)
                       /\ conn[d].done =>
                            log[conn[d].session][conn[d].doing] \in handled \cup {Ready})'
    BY DEF DispatchInv
  <2>1. CASE d = c
    <3>1. Done(conn[d].session, conn[d].doing - 1)'
      BY <1>4, <1>5, <1>7, <1>11, <2>1 DEF Done
    <3>2. conn[c].next >= 2
      BY <1>3 DEF HasDispatched
    <3>3. QED
      BY <1>2, <1>4, <1>5, <1>7, <1>11, <2>1, <3>1, <3>2 DEF Known
  <2>2. CASE d # c
    <3>1. conn'[d] = conn[d] /\ Busy(d)
      BY <1>7, <2>2 DEF Busy
    <3>2. Done(conn[d].session, conn[d].doing - 1)'
      BY <1>4, <3>1 DEF GInv, DispatchInv, Done
    <3>3. QED
      BY <1>4, <3>1, <3>2 DEF GInv, DispatchInv, Known
  <2>3. QED
    BY <2>1, <2>2
<1>13. HasDispatched(c)'
  BY <1>2, <1>3, <1>4, <1>5, <1>7, <1>11, SMTT(40) DEF HasDispatched, Busy, Known
<1>14. ConnInv'
  BY <1>1, <1>2, <1>4, <1>5, <1>7, <1>13, SMTT(40)
     DEF GInv, ConnInv, AwaitsReady, HasDispatched, Known, Busy, Done
<1>15. QED
  BY <1>8, <1>9, <1>10, <1>12, <1>14 DEF GInv

LEMMA HandleStep ==
    ASSUME GInv, NEW c \in Conns, Handle(c)
    PROVE  GInv'
<1>1. conn[c] \in ConnState /\ conn[c].doing # 0 /\ conn[c].doing \in Nat
  BY DEF Handle, GInv, TypeOK, Busy, ConnState
<1>2. handled' = handled \cup {EventOf(c, conn[c].doing)}
      /\ UNCHANGED <<checkpoint, mode, gateway, log, resumable>>
  BY DEF Handle, discord
<1> DEFINE r == [conn[c] EXCEPT !.done = TRUE]
<1>3. r \in ConnState /\ r.state = conn[c].state /\ r.doing = conn[c].doing
      /\ r.session = conn[c].session /\ r.next = conn[c].next /\ r.done
  BY <1>1 DEF ConnState
<1>4. conn' = [conn EXCEPT ![c] = r]
  BY DEF Handle, GInv, TypeOK
<1> HIDE DEF r
<1>5. conn' \in [Conns -> ConnState] /\ conn'[c] = r
      /\ \A d \in Conns : d # c => conn'[d] = conn[d]
  BY <1>3, <1>4, OtherConns DEF GInv
<1>6. EventOf(c, conn[c].doing) \in Events /\ EventOf(c, conn[c].doing) # Ready
      => EventOf(c, conn[c].doing) \in Messages
  BY DEF Events
<1>7. /\ Known /\ conn[c].session \in Sessions
      /\ conn[c].doing >= 2
      /\ conn[c].doing <= Len(log[conn[c].session])
      /\ Len(log[conn[c].session]) \in Nat
  BY <1>1, LenProperties
     DEF GInv, TypeOK, DispatchInv, Busy, ConnState, Known
<1>8. handled' \subseteq Messages
  BY <1>1, <1>2, <1>7 DEF GInv, TypeOK, LogInv, EventOf
<1>9. TypeOK'
  BY <1>2, <1>5, <1>8 DEF GInv, TypeOK
<1>10. OneConnection'
  BY <1>2, <1>3, <1>5 DEF GInv, OneConnection
<1>11. LogInv'
  BY <1>2 DEF GInv, LogInv
<1>12. \A s, n : Done(s, n) => Done(s, n)'
  BY <1>2 DEF Done
<1>13. CheckpointInv'
  BY <1>2, <1>12 DEF GInv, CheckpointInv, Known
<1>14. DispatchInv'
  <2> SUFFICES ASSUME NEW d \in Conns, Busy(d)'
               PROVE  (/\ Known
                       /\ conn[d].session = checkpoint.session
                       /\ conn[d].doing \in 2..Len(log[conn[d].session])
                       /\ Done(conn[d].session, conn[d].doing - 1)
                       /\ conn[d].done =>
                            log[conn[d].session][conn[d].doing] \in handled \cup {Ready})'
    BY DEF DispatchInv
  <2>1. Busy(d) /\ conn'[d].session = conn[d].session /\ conn'[d].doing = conn[d].doing
    BY <1>1, <1>3, <1>5 DEF Busy
  <2>2. Known' /\ conn'[d].session = checkpoint'.session
        /\ conn'[d].doing \in 2..Len(log'[conn'[d].session])
    BY <1>2, <2>1 DEF GInv, DispatchInv, Known
  <2>3. Done(conn[d].session, conn[d].doing - 1)'
    BY <1>2, <2>1 DEF GInv, DispatchInv, Done
  <2>4. conn'[d].done =>
          log'[conn'[d].session][conn'[d].doing] \in handled' \cup {Ready}
    BY <1>2, <1>5, <2>1 DEF GInv, DispatchInv, EventOf
  <2>5. QED
    BY <2>2, <2>3, <2>4
<1>15. ConnInv'
  <2> SUFFICES ASSUME NEW d \in Conns
               PROVE  (/\ conn[d].state \in {"closed", "opening", "open"}
                       /\ conn[d].state = "opening" => ~Busy(d)
                       /\ ~Busy(d) => ~conn[d].done
                       /\ conn[d].state = "open" => AwaitsReady(d) \/ HasDispatched(d))'
    BY DEF ConnInv
  <2>1. conn'[d].state = conn[d].state /\ conn'[d].session = conn[d].session
        /\ conn'[d].doing = conn[d].doing /\ conn'[d].next = conn[d].next
        /\ (conn'[d].done # conn[d].done => Busy(d))
    BY <1>1, <1>3, <1>5 DEF Busy
  <2>2. AwaitsReady(d) => AwaitsReady(d)'
    BY <1>2, <2>1 DEF AwaitsReady, Known
  <2>3. HasDispatched(d) => HasDispatched(d)'
    BY <1>2, <1>12, <2>1 DEF HasDispatched, Known, Busy
  <2>4. QED
    BY <2>1, <2>2, <2>3 DEF GInv, ConnInv, Busy
<1>16. QED
  BY <1>9, <1>10, <1>11, <1>13, <1>14, <1>15 DEF GInv

LEMMA FinishStep ==
    ASSUME GInv, NEW c \in Conns, Finish(c)
    PROVE  GInv'
<1>1. conn[c] \in ConnState /\ Busy(c) /\ conn[c].done
      /\ conn[c].session \in Sessions \cup {0} /\ conn[c].doing \in Nat
  BY DEF Finish, GInv, TypeOK, ConnState
<1>2. /\ Known /\ conn[c].session = checkpoint.session /\ checkpoint.session \in Sessions
      /\ conn[c].doing \in 2..Len(log[checkpoint.session])
      /\ Len(log[checkpoint.session]) \in Nat
      /\ conn[c].session = resumable
  BY <1>1, LenProperties DEF GInv, TypeOK, DispatchInv, CheckpointInv, Known
<1>3. Done(conn[c].session, conn[c].doing)
  BY <1>1, <1>2 DEF GInv, DispatchInv, Done
<1> DEFINE r == Rest(conn[c])
<1>4. /\ r \in ConnState /\ r.doing = 0 /\ ~r.done
      /\ (r.state = "closed" <=> conn[c].state = "closed")
      /\ conn[c].state # "closed" =>
            r.state = conn[c].state /\ r.session = conn[c].session /\ r.next = conn[c].next
  BY <1>1 DEF Rest, Unused, ConnState
<1>5. conn' = [conn EXCEPT ![c] = r]
  BY DEF Finish, GInv, TypeOK
<1> HIDE DEF r
<1>6. conn' \in [Conns -> ConnState] /\ conn'[c] = r
      /\ \A d \in Conns : d # c => conn'[d] = conn[d]
  BY <1>4, <1>5, OtherConns DEF GInv
<1>7. UNCHANGED <<handled, mode, gateway, log, resumable>>
  BY DEF Finish, discord
<1>8. /\ checkpoint' \in [session : Sessions \cup {0}, sequence : Nat]
      /\ checkpoint'.session = checkpoint.session
      /\ checkpoint' = checkpoint \/ checkpoint'.sequence = conn[c].doing
  BY <1>1 DEF Finish, GInv, TypeOK
<1>9. Known'
  <2>1. conn[c].doing # 0
    BY <1>1 DEF Busy
  <2>2. QED
    BY <1>2, <1>8, <2>1 DEF Known
<1>10. TypeOK'
  BY <1>6, <1>7, <1>8 DEF GInv, TypeOK
<1>11. OneConnection'
  BY <1>4, <1>6, <1>7 DEF GInv, OneConnection
<1>12. LogInv'
  BY <1>7 DEF GInv, LogInv
<1>13. \A s, n : Done(s, n) => Done(s, n)'
  BY <1>7 DEF Done
<1>14. CheckpointInv'
  <2>1. CASE checkpoint' = checkpoint
    BY <1>7, <2>1 DEF GInv, CheckpointInv, Known, Done
  <2>2. CASE checkpoint'.sequence = conn[c].doing
    <3>1. Done(checkpoint.session, checkpoint.sequence)'
      BY <1>2, <1>3, <1>7, <1>8, <2>2 DEF Done
    <3>2. checkpoint'.session = resumable'
      BY <1>2, <1>7, <1>8
    <3>3. conn[c].doing <= Len(log[checkpoint.session])
      BY <1>1, <1>2
    <3>4. checkpoint'.sequence <= Len(log'[checkpoint'.session])
      BY <1>7, <1>8, <2>2, <3>3
    <3>5. QED
      BY <3>1, <3>2, <3>4 DEF CheckpointInv
  <2>3. QED
    BY <1>8, <2>1, <2>2
<1>15. DispatchInv'
  <2> SUFFICES ASSUME NEW d \in Conns, Busy(d)'
               PROVE  (/\ Known
                       /\ conn[d].session = checkpoint.session
                       /\ conn[d].doing \in 2..Len(log[conn[d].session])
                       /\ Done(conn[d].session, conn[d].doing - 1)
                       /\ conn[d].done =>
                            log[conn[d].session][conn[d].doing] \in handled \cup {Ready})'
    BY DEF DispatchInv
  <2>1. conn'[d] = conn[d] /\ Busy(d)
    BY <1>4, <1>6 DEF Busy
  <2>2. Done(conn[d].session, conn[d].doing - 1)'
    BY <1>7, <2>1 DEF GInv, DispatchInv, Done
  <2>3. QED
    BY <1>7, <1>8, <1>9, <2>1, <2>2 DEF GInv, DispatchInv
<1>16. ConnInv'
  <2> SUFFICES ASSUME NEW d \in Conns
               PROVE  (/\ conn[d].state \in {"closed", "opening", "open"}
                       /\ conn[d].state = "opening" => ~Busy(d)
                       /\ ~Busy(d) => ~conn[d].done
                       /\ conn[d].state = "open" => AwaitsReady(d) \/ HasDispatched(d))'
    BY DEF ConnInv
  <2>1. CASE d = c
    <3>1. ~Busy(d)' /\ ~conn'[d].done
      BY <1>4, <1>6, <2>1 DEF Busy
    <3>2. CASE conn[c].state = "open"
      <4>1. HasDispatched(c)
        BY <1>2, <3>2 DEF GInv, ConnInv, AwaitsReady
      <4>2. conn[c].next \in Nat /\ conn[c].next - 1 = conn[c].doing
        BY <1>1, <4>1 DEF HasDispatched, ConnState
      <4>3. Done(conn[c].session, conn[c].next - 1)'
        BY <1>3, <1>4, <1>6, <1>7, <3>2, <4>2 DEF Done
      <4>4. HasDispatched(c)'
        BY <1>4, <1>6, <1>7, <1>8, <1>9, <2>1, <3>1, <3>2, <4>1, <4>3 DEF HasDispatched
      <4>5. QED
        BY <1>4, <1>6, <2>1, <3>1, <3>2, <4>4
    <3>3. CASE conn[c].state # "open"
      <4>1. conn[c].state = "closed"
        BY <1>1, <3>3 DEF GInv, ConnInv
      <4>2. QED
        BY <1>4, <1>6, <2>1, <3>1, <4>1
    <3>4. QED
      BY <3>2, <3>3
  <2>2. CASE d # c
    <3>1. conn'[d] = conn[d]
      BY <1>6, <2>2
    <3>2. ~AwaitsReady(d)
      BY <1>2 DEF AwaitsReady
    <3>3. HasDispatched(d) => HasDispatched(d)'
      BY <1>7, <1>8, <1>9, <1>13, <3>1 DEF HasDispatched, Busy
    <3>4. QED
      BY <3>1, <3>2, <3>3 DEF GInv, ConnInv, Busy
  <2>3. QED
    BY <2>1, <2>2
<1>17. QED
  BY <1>10, <1>11, <1>12, <1>14, <1>15, <1>16 DEF GInv

\* Connections only end: each is as before, or closed, and is doing what it did or
\* nothing any more.
LEMMA ConnsEnd ==
    ASSUME GInv,
           conn' \in [Conns -> ConnState],
           \A d \in Conns :
              \/ conn'[d] = conn[d]
              \/ conn'[d] = Unused
              \/ conn'[d] = Shut(conn[d]),
           OneConnection',
           mode' \in {"down", "waiting", "connected", "stopping"},
           UNCHANGED <<checkpoint, handled, gateway, log, resumable>>
    PROVE  GInv'
<1>1. TypeOK'
  BY DEF GInv, TypeOK
<1>2. LogInv' /\ CheckpointInv'
  BY DEF GInv, LogInv, CheckpointInv, Known, Done
<1>3. ASSUME NEW d \in Conns
      PROVE  \/ conn'[d] = conn[d]
             \/ conn'[d].state = "closed" /\ ~Busy(d)' /\ ~conn'[d].done
             \/ /\ conn'[d].state = "closed" /\ Busy(d) /\ conn'[d].doing = conn[d].doing
                /\ conn'[d].session = conn[d].session /\ conn'[d].done = conn[d].done
  BY DEF GInv, TypeOK, ConnState, Unused, Shut, Busy
<1>4. DispatchInv'
  BY <1>3 DEF GInv, DispatchInv, Busy, Known, Done
<1>5. ConnInv'
  BY <1>3 DEF GInv, ConnInv, AwaitsReady, HasDispatched, Busy, Known, Done
<1>6. QED
  BY <1>1, <1>2, <1>4, <1>5 DEF GInv

LEMMA CloseSteps ==
    ASSUME GInv,
           \/ Start \/ Stop
           \/ \E c \in Conns : Fail(c)
           \/ \E c \in Conns, again \in BOOLEAN : Disconnect(c, again)
    PROVE  GInv'
<1>1. CASE Start
  <2>1. OneConnection'
    BY <1>1 DEF Start, discord, GInv, OneConnection
  <2>2. QED
    BY <1>1, <2>1, ConnsEnd DEF Start, discord, GInv, TypeOK
<1>2. CASE Stop
  <2>1. conn' \in [Conns -> ConnState]
    BY <1>2, RestTyped DEF Stop, GInv, TypeOK
  <2>2. \A d \in Conns : conn'[d].state = "closed"
    BY <1>2 DEF Stop, Shut, Unused, GInv, TypeOK, ConnState
  <2>3. OneConnection'
    BY <1>2, <2>2 DEF Stop, OneConnection
  <2>4. \A d \in Conns :
              \/ conn'[d] = conn[d]
              \/ conn'[d] = Unused
              \/ conn'[d] = Shut(conn[d])
    BY <1>2 DEF Stop
  <2>5. QED
    BY <1>2, <2>1, <2>3, <2>4, ConnsEnd DEF Stop, discord
<1>3. ASSUME NEW c \in Conns, Fail(c)
      PROVE  GInv'
  <2>1. conn' \in [Conns -> ConnState] /\ conn'[c] = Unused
        /\ \A d \in Conns : d # c => conn'[d] = conn[d]
    BY <1>3, UnusedTyped, OtherConns DEF Fail, GInv
  <2>2. OneConnection'
    BY <1>3, <2>1 DEF Fail, Closes, GInv, OneConnection, Unused
  <2>3. mode' \in {"down", "waiting", "connected", "stopping"}
    BY <1>3 DEF Fail, Closes, GInv, TypeOK
  <2>4. QED
    BY <1>3, <2>1, <2>2, <2>3, ConnsEnd DEF Fail, discord
<1>4. ASSUME NEW c \in Conns, NEW again \in BOOLEAN, Disconnect(c, again)
      PROVE  GInv'
  <2>1. Shut(conn[c]) \in ConnState
    BY RestTyped DEF GInv, TypeOK
  <2>2. conn' = [conn EXCEPT ![c] = Shut(conn[c])]
    BY <1>4 DEF Disconnect, GInv, TypeOK
  <2>3. conn' \in [Conns -> ConnState] /\ conn'[c] = Shut(conn[c])
        /\ \A d \in Conns : d # c => conn'[d] = conn[d]
    BY <2>1, <2>2, OtherConns DEF GInv
  <2>4. conn'[c].state = "closed"
    BY <2>3 DEF Shut, Unused, GInv, TypeOK, ConnState
  <2>5. OneConnection'
    BY <1>4, <2>3, <2>4 DEF Disconnect, Closes, GInv, OneConnection
  <2>6. mode' \in {"down", "waiting", "connected", "stopping"}
    BY <1>4 DEF Disconnect, Closes, GInv, TypeOK
  <2>7. \A d \in Conns :
              \/ conn'[d] = conn[d]
              \/ conn'[d] = Unused
              \/ conn'[d] = Shut(conn[d])
    BY <2>3
  <2>8. QED
    BY <1>4, <2>3, <2>5, <2>6, <2>7, ConnsEnd DEF Disconnect, discord
<1>5. QED
  BY <1>1, <1>2, <1>3, <1>4

LEMMA PostStep ==
    ASSUME GInv, NEW m \in Messages, Post(m)
    PROVE  GInv'
<1> DEFINE s == resumable
<1>1. s \in Sessions /\ log[s] \in Seq(Events) /\ m \in Events
      /\ Len(log[s]) \in Nat
  BY LenProperties DEF Post, GInv, TypeOK, Events
<1>2. UNCHANGED <<checkpoint, handled, mode, gateway, conn, resumable>>
      /\ log' = [log EXCEPT ![s] = Append(log[s], m)]
  BY DEF Post, GInv, TypeOK
<1> HIDE DEF s
<1>3. /\ Append(log[s], m) \in Seq(Events)
      /\ Len(Append(log[s], m)) = Len(log[s]) + 1
      /\ \A i \in 1..Len(log[s]) : Append(log[s], m)[i] = log[s][i]
      /\ Append(log[s], m)[Len(log[s]) + 1] = m
  BY <1>1, AppendProperties
<1>4. log' \in [Sessions -> Seq(Events)] /\ log'[s] = Append(log[s], m)
      /\ \A t \in Sessions : t # s => log'[t] = log[t]
  BY <1>1, <1>2, <1>3 DEF GInv, TypeOK
<1>5. ASSUME NEW t \in Sessions
      PROVE  /\ Len(log[t]) \in Nat /\ Len(log'[t]) \in Nat /\ Len(log[t]) <= Len(log'[t])
             /\ \A i \in 1..Len(log[t]) : log'[t][i] = log[t][i]
  <2>1. CASE t = s
    BY <1>1, <1>3, <1>4, <2>1, SMTT(40)
  <2>2. CASE t # s
    BY <1>4, <2>2, LenProperties DEF GInv, TypeOK
  <2>3. QED
    BY <2>1, <2>2
<1>6. ASSUME NEW t \in Sessions, NEW n \in Int, n <= Len(log[t]), Done(t, n)
      PROVE  Done(t, n)'
  BY <1>2, <1>5, <1>6 DEF Done
<1>7. TypeOK' /\ OneConnection'
  BY <1>2, <1>4 DEF GInv, TypeOK, OneConnection
<1>8. LogInv'
  <2>0. resumable' # 0 => log'[resumable'] # <<>>
    BY <1>1, <1>2, <1>3, <1>4 DEF s
  <2> SUFFICES ASSUME NEW t \in Sessions
               PROVE  (/\ log[t] # <<>> => log[t][1] = Ready
                       /\ \A i \in 2..Len(log[t]) : log[t][i] \in Messages)'
    BY <2>0 DEF LogInv
  <2>1. CASE t = s
    <3>1. log[s] # <<>> /\ Len(log[s]) >= 1
      <4>1. log[s] # <<>>
        BY DEF s, Post, GInv, LogInv
      <4>2. QED
        BY <1>1, <4>1, EmptySeq
    <3>2. log'[s][1] = Ready
      BY <1>1, <1>3, <1>4, <3>1 DEF GInv, LogInv
    <3>3. ASSUME NEW i \in 2..Len(log'[s]) PROVE log'[s][i] \in Messages
      <4>1. i \in 2..Len(log[s]) \/ i = Len(log[s]) + 1
        BY <1>1, <1>3, <1>4
      <4>2. CASE i \in 2..Len(log[s])
        BY <1>1, <1>3, <1>4, <4>2 DEF GInv, LogInv
      <4>3. CASE i = Len(log[s]) + 1
        BY <1>3, <1>4, <4>3
      <4>4. QED
        BY <4>1, <4>2, <4>3
    <3>4. QED
      BY <2>1, <3>2, <3>3
  <2>2. CASE t # s
    BY <1>4, <2>2 DEF GInv, LogInv
  <2>3. QED
    BY <2>1, <2>2
<1>9. CheckpointInv'
  <2> SUFFICES ASSUME Known PROVE CheckpointInv'
    BY <1>2 DEF CheckpointInv, Known
  <2>1. /\ checkpoint.session \in Sessions /\ checkpoint.sequence \in Nat
        /\ checkpoint.session = resumable
        /\ checkpoint.sequence <= Len(log[checkpoint.session])
        /\ Done(checkpoint.session, checkpoint.sequence)
    BY DEF GInv, TypeOK, CheckpointInv, Known
  <2>2. Done(checkpoint.session, checkpoint.sequence)'
    BY <1>2, <1>6, <2>1
  <2>3. checkpoint.sequence <= Len(log'[checkpoint.session])
    BY <1>5, <2>1
  <2>4. QED
    BY <1>2, <2>1, <2>2, <2>3 DEF CheckpointInv
<1>10. DispatchInv'
  <2> SUFFICES ASSUME NEW d \in Conns, Busy(d)'
               PROVE  (/\ Known
                       /\ conn[d].session = checkpoint.session
                       /\ conn[d].doing \in 2..Len(log[conn[d].session])
                       /\ Done(conn[d].session, conn[d].doing - 1)
                       /\ conn[d].done =>
                            log[conn[d].session][conn[d].doing] \in handled \cup {Ready})'
    BY DEF DispatchInv
  <2>1. Busy(d) /\ conn[d].session \in Sessions /\ Known
        /\ conn[d].session = checkpoint.session
        /\ conn[d].doing \in 2..Len(log[conn[d].session])
        /\ Done(conn[d].session, conn[d].doing - 1)
    BY <1>2 DEF Busy, GInv, TypeOK, DispatchInv, Known
  <2>2. Len(log[conn[d].session]) \in Nat /\ Len(log'[conn[d].session]) \in Nat
        /\ Len(log[conn[d].session]) <= Len(log'[conn[d].session])
        /\ log'[conn[d].session][conn[d].doing] = log[conn[d].session][conn[d].doing]
    BY <1>5, <2>1
  <2>3. Done(conn[d].session, conn[d].doing - 1)'
    BY <1>2, <1>6, <2>1, <2>2
  <2>4. Known' /\ conn'[d].session = checkpoint'.session
        /\ conn'[d].doing \in 2..Len(log'[conn'[d].session])
    BY <1>2, <2>1, <2>2 DEF Known
  <2>5. conn'[d].done =>
          log'[conn'[d].session][conn'[d].doing] \in handled' \cup {Ready}
    BY <1>2, <2>1, <2>2 DEF GInv, DispatchInv
  <2>6. QED
    BY <2>3, <2>4, <2>5
<1>11. ConnInv'
  <2> SUFFICES ASSUME NEW d \in Conns
               PROVE  (/\ conn[d].state \in {"closed", "opening", "open"}
                       /\ conn[d].state = "opening" => ~Busy(d)
                       /\ ~Busy(d) => ~conn[d].done
                       /\ conn[d].state = "open" => AwaitsReady(d) \/ HasDispatched(d))'
    BY DEF ConnInv
  <2>1. AwaitsReady(d) => AwaitsReady(d)'
    <3>1. log'[s] # <<>>
      BY <1>1, <1>3, <1>4
    <3>2. QED
      BY <1>2, <3>1 DEF AwaitsReady, Known, s
  <2>2. ASSUME HasDispatched(d) PROVE HasDispatched(d)'
    <3>1. /\ conn[d].session \in Sessions /\ Known
          /\ conn[d].next \in Nat
          /\ conn[d].next <= Len(log[conn[d].session]) + 1
      BY <2>2 DEF HasDispatched, Known, GInv, TypeOK, ConnState
    <3>2. /\ Len(log[conn[d].session]) \in Nat /\ Len(log'[conn[d].session]) \in Nat
          /\ Len(log[conn[d].session]) <= Len(log'[conn[d].session])
      BY <1>5, <3>1
    <3>3. ~Busy(d) => Done(conn[d].session, conn[d].next - 1)'
      <4> SUFFICES ASSUME ~Busy(d) PROVE Done(conn[d].session, conn[d].next - 1)'
        OBVIOUS
      <4>1. Done(conn[d].session, conn[d].next - 1)
        BY <2>2 DEF HasDispatched
      <4>2. conn[d].next - 1 \in Int /\ conn[d].next - 1 <= Len(log[conn[d].session])
        BY <3>1, <3>2
      <4>3. QED
        BY <1>2, <1>6, <3>1, <4>1, <4>2
    <3>4. conn'[d].next <= Len(log'[conn'[d].session]) + 1
      BY <1>2, <3>1, <3>2
    <3>5. QED
      BY <1>2, <2>2, <3>3, <3>4 DEF HasDispatched, Known, Busy
  <2>3. QED
    BY <1>2, <2>1, <2>2 DEF GInv, ConnInv, Busy
<1>12. QED
  BY <1>7, <1>8, <1>9, <1>10, <1>11 DEF GInv

--------------------------------------------------------------------------------

LEMMA StutterStep ==
    ASSUME GInv, UNCHANGED vars
    PROVE  GInv'
BY DEF GInv, vars, TypeOK, OneConnection, LogInv, CheckpointInv, DispatchInv, ConnInv,
       Known, Busy, Done, AwaitsReady, HasDispatched

LEMMA NextKeepsGInv ==
    ASSUME Invalidates = FALSE, GInv, [Next]_vars
    PROVE  GInv'
<1>1. ASSUME NEW c \in Conns, ConnStep(c)
      PROVE  GInv'
  <2>1. CASE InvalidSession(c)
    BY <2>1 DEF InvalidSession, GInv, ConnInv
  <2>2. CASE Fail(c) \/ \E again \in BOOLEAN : Disconnect(c, again)
    BY <2>2, CloseSteps
  <2>3. CASE CrashInReady(c)
    BY <2>3, EndSteps
  <2>4. QED
    BY <1>1, <2>1, <2>2, <2>3, ConnectStep, IdentifyStep, ResumeStep, TakeReadyStep,
       BeginStep, HandleStep, FinishStep DEF ConnStep
<1>2. ASSUME NEW m \in Messages, Post(m)
      PROVE  GInv'
  BY <1>2, PostStep
<1>3. CASE Start \/ Stop
  BY <1>3, CloseSteps
<1>4. CASE Close \/ Crash
  BY <1>4, EndSteps
<1>5. CASE Expire
  BY <1>5 DEF Expire
<1>6. CASE UNCHANGED vars
  BY <1>6, StutterStep
<1>7. QED
  BY <1>1, <1>2, <1>3, <1>4, <1>5, <1>6 DEF Next

LEMMA GInvCovers == GInv => CheckpointCovered
<1> SUFFICES ASSUME GInv, checkpoint.session # 0
             PROVE  /\ checkpoint.sequence <= Len(log[checkpoint.session])
                    /\ EventsUpTo(checkpoint.session, checkpoint.sequence)
                          \subseteq handled \cup {Ready}
  BY DEF CheckpointCovered
<1>1. checkpoint.session \in Sessions /\ checkpoint.sequence \in Nat
      /\ Len(log[checkpoint.session]) \in Nat
  BY LenProperties DEF GInv, TypeOK
<1>2. CASE checkpoint.sequence = 0
  BY <1>1, <1>2 DEF EventsUpTo
<1>3. CASE checkpoint.sequence # 0
  BY <1>1, <1>3 DEF GInv, CheckpointInv, Known, Done, EventsUpTo
<1>4. QED
  BY <1>2, <1>3

--------------------------------------------------------------------------------
(* One connection at a time: the callbacks end within the reconnect delay, and  *)
(* Discord may invalidate its session.                                         *)

\* It has no session: unused, opening, refused, or refused and told so.
Idle(r) == r.session = 0 /\ r.doing = 0 /\ r.state # "open"

\* It waits for its READY; the checkpoint is of no or of an earlier session.
Awaiting(r) ==
    /\ r.session # 0 /\ r.session # checkpoint.session
    /\ r.next = 1 /\ r.doing = 0 /\ log[r.session] # <<>>

\* What it dispatches comes right after the checkpoint.
Current(r) ==
    /\ r.session # 0 /\ r.session = checkpoint.session /\ checkpoint.sequence # 0
    /\ r.next = checkpoint.sequence + (IF r.doing = 0 THEN 1 ELSE 2)
    /\ r.doing # 0 => ~r.stale /\ r.doing = checkpoint.sequence + 1
    /\ r.done => log[r.session][r.doing] \in handled

\* Its session was invalidated after its READY: nothing it saves is a place.
Lost(r) == r.session # 0 /\ checkpoint.session = 0 /\ r.next >= 2

Sound(r) ==
    /\ r.state \in {"opening", "refused"} => Idle(r)
    /\ r.state = "closed" /\ r.doing = 0 => r = Unused
    /\ r.doing = 0 => ~r.done
    /\ r.doing # 0 => r.doing \in 2..Len(log[r.session])
    /\ Idle(r) \/ Awaiting(r) \/ Current(r) \/ Lost(r)

Alone == \A c \in Conns : c # gateway => conn[c] = Unused

CoveredInv ==
    checkpoint.session # 0 =>
        /\ log[checkpoint.session] # <<>>
        /\ checkpoint.sequence <= Len(log[checkpoint.session])
        /\ Done(checkpoint.session, checkpoint.sequence)

SInv ==
    /\ TypeOK
    /\ OneConnection
    /\ LogInv
    /\ CoveredInv
    /\ Alone
    /\ \A c \in Conns : Sound(conn[c])

LEMMA InitSInv == Init => SInv
<1> SUFFICES ASSUME Init PROVE SInv
  OBVIOUS
<1>1. TypeOK
  BY DEF Init, TypeOK, ConnState, Unused, Events
<1>2. OneConnection /\ LogInv /\ CoveredInv /\ Alone
  BY DEF Init, OneConnection, LogInv, CoveredInv, Alone, Unused
<1>3. \A c \in Conns : Sound(conn[c])
  BY DEF Init, Sound, Idle, Unused
<1>4. QED
  BY <1>1, <1>2, <1>3 DEF SInv

\* Whoever is not idle is the only one.
LEMMA OnlyOne ==
    ASSUME SInv, NEW c \in Conns, conn[c].state # "closed" \/ Busy(c)
    PROVE  c = gateway /\ \A d \in Conns \ {c} : conn[d] = Unused
BY DEF SInv, Alone, Unused, Busy

LEMMA UnusedIsSound == Sound(Unused) /\ Sound(Unused)'
BY DEF Sound, Idle, Unused

\* One connection changes, and whatever it tells the checkpoint or Discord.
LEMMA OneMoves ==
    ASSUME SInv, NEW c \in Conns, NEW r \in ConnState,
           conn' = [conn EXCEPT ![c] = r],
           \A d \in Conns \ {c} : conn[d] = Unused,
           gateway' = c,
           mode' \in {"down", "waiting", "connected", "stopping"},
           mode' = "connected" <=> r.state # "closed",
           checkpoint' \in [session : Sessions \cup {0}, sequence : Nat],
           handled' \subseteq Messages,
           log' \in [Sessions -> Seq(Events)],
           resumable' \in Sessions \cup {0},
           LogInv', CoveredInv', Sound(conn[c])'
    PROVE  SInv'
<1>1. conn' \in [Conns -> ConnState] /\ conn'[c] = r
      /\ \A d \in Conns \ {c} : conn'[d] = Unused
  BY OtherConns DEF SInv
<1>2. TypeOK'
  BY <1>1 DEF TypeOK
<1>3. OneConnection' /\ Alone'
  BY <1>1 DEF OneConnection, Alone, Unused
<1>4. \A d \in Conns : Sound(conn[d])'
  <2> TAKE d \in Conns
  <2>1. CASE d = c
    BY <2>1
  <2>2. CASE d # c
    <3>1. conn'[d] = Unused
      BY <1>1, <2>2
    <3>2. QED
      BY <3>1 DEF Sound, Idle, Unused
  <2>3. QED
    BY <2>1, <2>2
<1>5. QED
  BY <1>2, <1>3, <1>4 DEF SInv

\* As OneMoves, when the log, the checkpoint and the decisions stay.
LEMMA OneMovesAlone ==
    ASSUME SInv, NEW c \in Conns, NEW r \in ConnState,
           conn' = [conn EXCEPT ![c] = r],
           \A d \in Conns \ {c} : conn[d] = Unused,
           gateway' = c,
           mode' \in {"down", "waiting", "connected", "stopping"},
           mode' = "connected" <=> r.state # "closed",
           UNCHANGED <<checkpoint, handled, log, resumable>>,
           Sound(r)
    PROVE  SInv'
<1>1. conn'[c] = r
  BY OtherConns DEF SInv
<1>2. Sound(conn[c])'
  BY <1>1 DEF Sound, Idle, Awaiting, Current, Lost
<1>3. LogInv' /\ CoveredInv'
  BY DEF SInv, LogInv, CoveredInv, Done
<1>4. QED
  BY <1>2, <1>3, OneMoves DEF SInv, TypeOK

LEMMA OneConnects ==
    ASSUME SInv, QuickCallbacks, NEW c \in Conns, Connect(c)
    PROVE  SInv'
<1> DEFINE r == [Unused EXCEPT !.state = "opening"]
<1>1. r \in ConnState /\ r.state = "opening" /\ Sound(r)
  BY DEF Unused, ConnState, Sound, Idle
<1>2. conn' = [conn EXCEPT ![c] = r]
  BY DEF Connect, SInv, TypeOK
<1>3. \A d \in Conns : conn[d] = Unused
  <2> TAKE d \in Conns
  <2>1. conn[d].state = "closed" /\ conn[d].doing = 0
    BY DEF Connect, SInv, OneConnection, Busy
  <2>2. QED
    BY <2>1 DEF SInv, Sound
<1> HIDE DEF r
<1>4. QED
  BY <1>1, <1>2, <1>3, OneMovesAlone DEF Connect, discord

LEMMA OneIdentifies ==
    ASSUME SInv, NEW c \in Conns, Identify(c)
    PROVE  SInv'
<1>1. PICK s \in Sessions \ Started :
        /\ log' = [log EXCEPT ![s] = <<Ready>>]
        /\ resumable' = s
        /\ conn' = [conn EXCEPT ![c] = [@ EXCEPT !.state = "open", !.session = s, !.next = 1]]
  BY DEF Identify
<1>2. /\ conn[c] \in ConnState /\ conn[c].state = "opening" /\ Idle(conn[c])
      /\ ~conn[c].done
  BY DEF SInv, TypeOK, Identify, Sound, Idle
<1>3. UNCHANGED <<checkpoint, handled, mode, gateway>>
  BY DEF Identify
<1> DEFINE r == [conn[c] EXCEPT !.state = "open", !.session = s, !.next = 1]
<1>4. r \in ConnState /\ r.state = "open" /\ r.doing = 0 /\ r.session = s /\ r.next = 1
      /\ ~r.done
  BY <1>2 DEF ConnState, Idle
<1> HIDE DEF r
<1>5. conn' = [conn EXCEPT ![c] = r]
  BY <1>1 DEF r, SInv, TypeOK
<1>6. c = gateway /\ \A d \in Conns \ {c} : conn[d] = Unused
  BY <1>2, OnlyOne
<1>7. s \in Nat \ {0} /\ <<Ready>> \in Seq(Events) /\ <<Ready>> # <<>>
      /\ <<Ready>>[1] = Ready /\ Len(<<Ready>>) = 1
  BY SessionsAreNumbered DEF Sessions, Events
<1>8. log' \in [Sessions -> Seq(Events)] /\ log'[s] = <<Ready>> /\ log[s] = <<>>
      /\ \A t \in Sessions : t # s => log'[t] = log[t]
  BY <1>1, <1>7 DEF SInv, TypeOK, Started
<1>9. checkpoint.session # s
  BY <1>7, <1>8 DEF SInv, CoveredInv
<1>10. LogInv'
  <2>1. resumable' # 0 => log'[resumable'] # <<>>
    BY <1>1, <1>7, <1>8
  <2>2. QED
    BY <1>7, <1>8, <2>1 DEF SInv, LogInv
<1>11. CoveredInv'
  <2>1. checkpoint.session \in Sessions \cup {0} /\ checkpoint' = checkpoint /\ handled' = handled
    BY <1>3 DEF SInv, TypeOK
  <2>2. QED
    BY <1>8, <1>9, <2>1 DEF SInv, CoveredInv, Done
<1>12. conn'[c] = r
  BY <1>4, <1>5, OtherConns DEF SInv
<1>13. Sound(conn[c])'
  <2>1. Awaiting(conn[c])'
    BY <1>3, <1>4, <1>7, <1>8, <1>9, <1>12 DEF Awaiting
  <2>2. QED
    BY <1>4, <1>12, <2>1 DEF Sound
<1>14. mode = "connected" /\ mode \in {"down", "waiting", "connected", "stopping"}
  BY <1>2 DEF SInv, OneConnection, TypeOK
<1>15. /\ checkpoint' \in [session : Sessions \cup {0}, sequence : Nat]
       /\ handled' \subseteq Messages
  BY <1>3 DEF SInv, TypeOK
<1>16. QED
  BY <1>1, <1>3, <1>4, <1>5, <1>6, <1>8, <1>10, <1>11, <1>13, <1>14, <1>15, OneMoves

LEMMA OneResumes ==
    ASSUME SInv, NEW c \in Conns, Resume(c)
    PROVE  SInv'
<1>1. /\ conn[c] \in ConnState /\ conn[c].state = "opening" /\ Idle(conn[c])
      /\ ~conn[c].done
  BY DEF SInv, TypeOK, Resume, Resumes, Sound, Idle
<1>2. c = gateway /\ \A d \in Conns \ {c} : conn[d] = Unused
  BY <1>1, OnlyOne
<1>3. UNCHANGED <<checkpoint, handled, mode, gateway, log, resumable>>
  BY DEF Resume, Resumes, discord
<1>4. mode = "connected" /\ mode \in {"down", "waiting", "connected", "stopping"}
  BY <1>1 DEF SInv, OneConnection, TypeOK
<1>5. checkpoint.session \in Sessions /\ checkpoint.session # 0
      /\ checkpoint.sequence \in Nat /\ checkpoint.sequence # 0
  BY DEF Resume, Resumes, SInv, TypeOK
<1>6. CASE conn' = [conn EXCEPT ![c] = [@ EXCEPT !.state = "open", !.session = resumable,
                                                 !.next = checkpoint.sequence + 1]]
           /\ checkpoint.session = resumable
  <2> DEFINE r == Opened(conn[c], resumable, checkpoint.sequence + 1)
  <2>1. r \in ConnState /\ r.state = "open" /\ r.doing = 0 /\ r.session = checkpoint.session
        /\ r.next = checkpoint.sequence + 1 /\ ~r.done
    <3>1. checkpoint.sequence + 1 \in Nat
      BY <1>5
    <3>2. QED
      BY <1>1, <1>5, <1>6, <3>1, OpenedTyped DEF Idle
  <2> HIDE DEF r
  <2>2. conn' = [conn EXCEPT ![c] = r]
    BY <1>6 DEF r, Opened, SInv, TypeOK
  <2>3. Sound(r)
    BY <1>5, <2>1 DEF Sound, Current
  <2>4. QED
    BY <1>2, <1>3, <1>4, <2>1, <2>2, <2>3, OneMovesAlone
<1>7. CASE conn' = [conn EXCEPT ![c].state = "refused"]
  <2> DEFINE r == [conn[c] EXCEPT !.state = "refused"]
  <2>1. r \in ConnState /\ r.state = "refused" /\ r.doing = 0 /\ r.session = 0 /\ ~r.done
    BY <1>1 DEF ConnState, Idle
  <2> HIDE DEF r
  <2>2. conn' = [conn EXCEPT ![c] = r]
    BY <1>7 DEF r, SInv, TypeOK
  <2>3. Sound(r)
    BY <2>1 DEF Sound, Idle
  <2>4. QED
    BY <1>2, <1>3, <1>4, <2>1, <2>2, <2>3, OneMovesAlone
<1>8. QED
  BY <1>6, <1>7 DEF Resume, Resumes

\* The next event of an open connection, and what its phase can be.
LEMMA WhatIsNext ==
    ASSUME SInv, NEW c \in Conns, HasNext(c)
    PROVE  /\ conn[c] \in ConnState /\ conn[c].session \in Sessions /\ conn[c].session # 0
           /\ conn[c].doing = 0 /\ ~conn[c].done
           /\ conn[c].next \in 1..Len(log[conn[c].session])
           /\ Len(log[conn[c].session]) \in Nat
           /\ log[conn[c].session] # <<>>
           /\ IF EventOf(c, conn[c].next) = Ready
              THEN conn[c].next = 1 /\ Awaiting(conn[c])
              ELSE conn[c].next \in 2..Len(log[conn[c].session])
                   /\ (Current(conn[c]) \/ Lost(conn[c]))
<1>1. /\ conn[c] \in ConnState /\ conn[c].session \in Sessions /\ conn[c].session # 0
      /\ conn[c].doing = 0 /\ ~conn[c].done /\ conn[c].next \in Nat
      /\ conn[c].next \in DOMAIN log[conn[c].session]
  BY DEF SInv, TypeOK, HasNext, Busy, Sound, ConnState
<1>2. log[conn[c].session] \in Seq(Events)
  BY <1>1 DEF SInv, TypeOK
<1>3. /\ conn[c].next \in 1..Len(log[conn[c].session])
      /\ Len(log[conn[c].session]) \in Nat
      /\ log[conn[c].session] # <<>>
  BY <1>1, <1>2, LenProperties, EmptySeq
<1>4. ~Idle(conn[c])
  BY <1>1 DEF Idle
<1>5. CASE conn[c].next = 1
  <2>1. EventOf(c, conn[c].next) = Ready
    BY <1>1, <1>3, <1>5 DEF EventOf, SInv, LogInv
  <2>2. ~Current(conn[c]) /\ ~Lost(conn[c])
    <3>1. checkpoint.sequence \in Nat
      BY DEF SInv, TypeOK
    <3>2. QED
      BY <1>1, <1>5, <3>1 DEF Current, Lost
  <2>3. QED
    BY <1>1, <1>3, <1>4, <1>5, <2>1, <2>2 DEF SInv, Sound
<1>6. CASE conn[c].next # 1
  <2>1. conn[c].next \in 2..Len(log[conn[c].session])
    BY <1>3, <1>6
  <2>2. EventOf(c, conn[c].next) # Ready
    BY <1>1, <2>1, ReadyIsNoMessage DEF EventOf, SInv, LogInv
  <2>3. ~Awaiting(conn[c])
    BY <1>6 DEF Awaiting
  <2>4. QED
    BY <1>1, <1>3, <1>4, <2>1, <2>2, <2>3 DEF SInv, Sound
<1>7. QED
  BY <1>5, <1>6

LEMMA OneTakesReady ==
    ASSUME SInv, NEW c \in Conns, TakeReady(c)
    PROVE  SInv'
<1>1. /\ conn[c] \in ConnState /\ conn[c].session \in Sessions /\ conn[c].session # 0
      /\ conn[c].doing = 0 /\ ~conn[c].done /\ conn[c].next = 1
      /\ Len(log[conn[c].session]) \in Nat /\ 1 \in 1..Len(log[conn[c].session])
      /\ log[conn[c].session] # <<>>
  BY WhatIsNext DEF TakeReady
<1>2. /\ checkpoint' = [session |-> conn[c].session, sequence |-> 1]
      /\ UNCHANGED <<handled, mode, gateway, log, resumable>>
  BY <1>1 DEF TakeReady, discord
<1> DEFINE r == [conn[c] EXCEPT !.next = 2]
<1>3. r \in ConnState /\ r.state = conn[c].state /\ r.doing = 0
      /\ r.session = conn[c].session /\ r.next = 2 /\ ~r.done
  BY <1>1 DEF ConnState
<1>4. conn' = [conn EXCEPT ![c] = r]
  BY <1>1 DEF TakeReady, SInv, TypeOK, ConnState
<1> HIDE DEF r
<1>5. conn[c].state \in {"open", "invalid"}
  BY DEF TakeReady, HasNext
<1>6. c = gateway /\ \A d \in Conns \ {c} : conn[d] = Unused
  BY <1>5, OnlyOne
<1>7. mode = "connected" /\ mode \in {"down", "waiting", "connected", "stopping"}
  BY <1>5 DEF SInv, OneConnection, TypeOK
<1>8. LogInv'
  BY <1>2 DEF SInv, LogInv
<1>9. CoveredInv'
  BY <1>1, <1>2 DEF SInv, CoveredInv, Done, LogInv
<1>10. conn'[c] = r
  BY <1>3, <1>4, OtherConns DEF SInv
<1>11. Sound(conn[c])'
  <2>1. Current(conn[c])'
    BY <1>1, <1>2, <1>3, <1>10 DEF Current
  <2>2. QED
    BY <1>3, <1>5, <1>10, <2>1 DEF Sound
<1>12. /\ checkpoint' \in [session : Sessions \cup {0}, sequence : Nat]
       /\ handled' \subseteq Messages /\ log' \in [Sessions -> Seq(Events)]
       /\ resumable' \in Sessions \cup {0}
  BY <1>1, <1>2 DEF SInv, TypeOK
<1>13. QED
  BY <1>2, <1>3, <1>4, <1>5, <1>6, <1>7, <1>8, <1>9, <1>11, <1>12, OneMoves

LEMMA OneBegins ==
    ASSUME SInv, NEW c \in Conns, Begin(c)
    PROVE  SInv'
<1>1. /\ conn[c] \in ConnState /\ conn[c].session \in Sessions /\ conn[c].session # 0
      /\ conn[c].doing = 0 /\ ~conn[c].done
      /\ conn[c].next \in 2..Len(log[conn[c].session])
      /\ Current(conn[c]) \/ Lost(conn[c])
      /\ Len(log[conn[c].session]) \in Nat
  BY WhatIsNext DEF Begin
<1>2. UNCHANGED <<checkpoint, handled, mode, gateway, log, resumable>>
  BY DEF Begin, discord
<1> DEFINE r == Begun(conn[c], conn[c].next, conn[c].next + 1)
<1>3. r \in ConnState /\ r.state = conn[c].state /\ r.doing = conn[c].next
      /\ r.session = conn[c].session /\ r.next = conn[c].next + 1 /\ ~r.done /\ ~r.stale
  <2>0. conn[c].next + 1 \in Nat
    BY <1>1
  <2>1. conn[c] \in ConnState /\ conn[c].next \in Nat
    BY <1>1
  <2>2. r.stale = FALSE
    BY <1>1 DEF Begun, ConnState
  <2>3. /\ r \in ConnState /\ r.state = conn[c].state /\ r.session = conn[c].session
        /\ r.doing = conn[c].next /\ r.next = conn[c].next + 1 /\ r.done = conn[c].done
    <3>1. SUFFICES ASSUME NEW q \in ConnState, NEW n \in Nat, NEW k \in Nat
                   PROVE  LET b == Begun(q, n, k)
                          IN  /\ b \in ConnState /\ b.state = q.state
                              /\ b.session = q.session /\ b.doing = n
                              /\ b.next = k /\ b.done = q.done
      BY <2>0, <2>1, ZenonT(120)
    <3>2. QED
      BY BegunTyped
  <2> HIDE DEF r
  <2>4. QED
    BY <1>1, <2>2, <2>3, ZenonT(60)
<1>4. conn' = [conn EXCEPT ![c] = r]
  BY DEF Begin, Begun, SInv, TypeOK
<1> HIDE DEF r
<1>5. conn[c].state \in {"open", "invalid"}
  BY DEF Begin, HasNext
<1>6. c = gateway /\ \A d \in Conns \ {c} : conn[d] = Unused
  BY <1>5, OnlyOne
<1>7. mode = "connected" /\ mode \in {"down", "waiting", "connected", "stopping"}
  BY <1>5 DEF SInv, OneConnection, TypeOK
<1>8. Current(r) \/ Lost(r)
  <2>1. checkpoint.sequence \in Nat /\ conn[c].next \in Nat
    BY <1>1 DEF SInv, TypeOK
  <2>2. Current(conn[c]) => Current(r)
    BY <1>1, <1>3, <2>1 DEF Current
  <2>3. Lost(conn[c]) => Lost(r)
    BY <1>1, <1>3, <2>1 DEF Lost
  <2>4. QED
    BY <1>1, <2>2, <2>3
<1>9. Sound(r)
  BY <1>1, <1>3, <1>5, <1>8 DEF Sound
<1>10. QED
  BY <1>2, <1>3, <1>4, <1>5, <1>6, <1>7, <1>9, OneMovesAlone

\* What a callback in progress is about.
LEMMA WhatIsDone ==
    ASSUME SInv, NEW c \in Conns, Busy(c)
    PROVE  /\ conn[c] \in ConnState /\ conn[c].session \in Sessions /\ conn[c].session # 0
           /\ conn[c].doing \in 2..Len(log[conn[c].session])
           /\ Len(log[conn[c].session]) \in Nat
           /\ EventOf(c, conn[c].doing) \in Messages
           /\ conn[c].state \in {"open", "invalid", "closed"}
           /\ Current(conn[c]) \/ Lost(conn[c])
           /\ c = gateway /\ \A d \in Conns \ {c} : conn[d] = Unused
           /\ mode \in {"down", "waiting", "connected", "stopping"}
           /\ mode = "connected" <=> conn[c].state # "closed"
<1>1. conn[c] \in ConnState /\ Sound(conn[c]) /\ conn[c].doing # 0
  BY DEF SInv, TypeOK, Busy
<1>2. /\ conn[c].session \in Sessions /\ conn[c].session # 0
      /\ Current(conn[c]) \/ Lost(conn[c])
      /\ conn[c].doing \in 2..Len(log[conn[c].session])
  BY <1>1 DEF Sound, Idle, Awaiting, Current, Lost, ConnState
<1>3. conn[c].state \in {"open", "invalid", "closed"}
  BY <1>1 DEF Sound, Idle, ConnState
<1>4. Len(log[conn[c].session]) \in Nat
  BY <1>2, LenProperties DEF SInv, TypeOK
<1>5. EventOf(c, conn[c].doing) \in Messages
  BY <1>2 DEF SInv, LogInv, EventOf
<1>6. c = gateway /\ \A d \in Conns \ {c} : conn[d] = Unused
  BY OnlyOne
<1>7. mode = "connected" <=> conn[c].state # "closed"
  BY <1>6 DEF SInv, OneConnection, Unused
<1>8. QED
  BY <1>1, <1>2, <1>3, <1>4, <1>5, <1>6, <1>7 DEF SInv, TypeOK

LEMMA OneHandles ==
    ASSUME SInv, NEW c \in Conns, Handle(c)
    PROVE  SInv'
<1>1. Busy(c) /\ conn[c].doing # 0
  BY DEF Handle, Busy
<1>2. /\ handled' = handled \cup {EventOf(c, conn[c].doing)}
      /\ UNCHANGED <<checkpoint, mode, gateway, log, resumable>>
  BY DEF Handle, discord
<1> DEFINE r == [conn[c] EXCEPT !.done = TRUE]
<1>3. r \in ConnState /\ r.state = conn[c].state /\ r.doing = conn[c].doing
      /\ r.session = conn[c].session /\ r.next = conn[c].next /\ r.stale = conn[c].stale
  BY <1>1, WhatIsDone DEF ConnState
<1>4. conn' = [conn EXCEPT ![c] = r]
  BY DEF Handle, SInv, TypeOK
<1> HIDE DEF r
<1>5. conn'[c] = r
  BY <1>3, <1>4, OtherConns DEF SInv
<1>6. handled \subseteq handled' /\ handled' \subseteq Messages
      /\ log[conn[c].session][conn[c].doing] \in handled'
  BY <1>1, <1>2, WhatIsDone DEF EventOf, SInv, TypeOK
<1>7. LogInv'
  BY <1>2 DEF SInv, LogInv
<1>8. CoveredInv'
  BY <1>2, <1>6 DEF SInv, CoveredInv, Done
<1>9. Sound(conn[c])'
  <2>1. Current(conn[c]) => Current(conn[c])'
    BY <1>1, <1>2, <1>3, <1>5, <1>6 DEF Current
  <2>2. Lost(conn[c]) => Lost(conn[c])'
    BY <1>2, <1>3, <1>5 DEF Lost
  <2>3. Current(conn[c])' \/ Lost(conn[c])'
    BY <1>1, <2>1, <2>2, WhatIsDone
  <2>4. /\ conn[c].doing \in 2..Len(log[conn[c].session])
        /\ conn[c].state \in {"open", "invalid", "closed"}
    BY <1>1, WhatIsDone
  <2>5. conn'[c].doing \in 2..Len(log'[conn'[c].session])
    BY <1>2, <1>3, <1>5, <2>4
  <2>6. QED
    BY <1>1, <1>3, <1>5, <2>3, <2>4, <2>5 DEF Sound
<1>10. /\ checkpoint' \in [session : Sessions \cup {0}, sequence : Nat]
       /\ log' \in [Sessions -> Seq(Events)]
       /\ resumable' \in Sessions \cup {0}
  BY <1>2 DEF SInv, TypeOK
<1>11. /\ c = gateway /\ \A d \in Conns \ {c} : conn[d] = Unused
       /\ mode \in {"down", "waiting", "connected", "stopping"}
       /\ mode = "connected" <=> conn[c].state # "closed"
  BY <1>1, WhatIsDone
<1>12. QED
  BY <1>2, <1>3, <1>4, <1>6, <1>7, <1>8, <1>9, <1>10, <1>11, OneMoves

\* A saved sequence is the next one of the checkpoint's session, or none of a session.
LEMMA WhatIsSaved ==
    ASSUME SInv, NEW c \in Conns, Finish(c)
    PROVE  \/ checkpoint' = checkpoint /\ Lost(conn[c])
           \/ /\ Lost(conn[c])
              /\ checkpoint' = [checkpoint EXCEPT !.sequence = conn[c].doing]
           \/ /\ Current(conn[c]) /\ conn[c].doing = checkpoint.sequence + 1
              /\ checkpoint' = [checkpoint EXCEPT !.sequence = conn[c].doing]
              /\ log[conn[c].session][conn[c].doing] \in handled
<1>1. Busy(c) /\ conn[c].doing # 0 /\ conn[c].done
  BY DEF Finish, Busy
<1>2. Current(conn[c]) \/ Lost(conn[c])
  BY <1>1, WhatIsDone
<1>3. CASE Current(conn[c])
  BY <1>1, <1>3 DEF Current, Finish
<1>4. CASE Lost(conn[c])
  BY <1>4 DEF Finish
<1>5. QED
  BY <1>2, <1>3, <1>4

LEMMA OneFinishes ==
    ASSUME SInv, NEW c \in Conns, Finish(c)
    PROVE  SInv'
<1>1. Busy(c) /\ conn[c].doing # 0
  BY DEF Finish, Busy
<1>2. UNCHANGED <<handled, mode, gateway, log, resumable>>
  BY DEF Finish, discord
<1> DEFINE r == Rest(conn[c])
<1>3. conn[c] \in ConnState /\ r \in ConnState
  BY <1>1, WhatIsDone, RestTyped
<1>4. /\ conn[c].state = "closed" => r = Unused
      /\ conn[c].state # "closed" => /\ r.state = conn[c].state /\ r.session = conn[c].session
                                     /\ r.next = conn[c].next
      /\ r.doing = 0 /\ ~r.done
  BY <1>3 DEF Rest, Unused, ConnState
<1>5. conn' = [conn EXCEPT ![c] = r]
  BY DEF Finish, SInv, TypeOK
<1> HIDE DEF r
<1>6. conn'[c] = r
  BY <1>3, <1>5, OtherConns DEF SInv
<1>7. /\ conn[c].doing \in 2..Len(log[conn[c].session]) /\ conn[c].session \in Sessions
      /\ Len(log[conn[c].session]) \in Nat
      /\ conn[c].state \in {"open", "invalid", "closed"}
      /\ c = gateway /\ \A d \in Conns \ {c} : conn[d] = Unused
      /\ mode \in {"down", "waiting", "connected", "stopping"}
      /\ mode = "connected" <=> conn[c].state # "closed"
  BY <1>1, WhatIsDone
<1>8. checkpoint \in [session : Sessions \cup {0}, sequence : Nat]
  BY DEF SInv, TypeOK
<1>9. /\ checkpoint' \in [session : Sessions \cup {0}, sequence : Nat]
      /\ checkpoint'.session = checkpoint.session
  <2>1. checkpoint' = checkpoint \/ checkpoint' = [checkpoint EXCEPT !.sequence = conn[c].doing]
    BY WhatIsSaved
  <2>2. conn[c].doing \in Nat
    BY <1>7
  <2>3. QED
    BY <1>8, <2>1, <2>2
<1>10. LogInv'
  BY <1>2 DEF SInv, LogInv
<1>11. CoveredInv'
  <2> SUFFICES ASSUME checkpoint.session # 0
               PROVE  CoveredInv'
    BY <1>9 DEF CoveredInv
  <2>1. /\ Current(conn[c]) /\ conn[c].doing = checkpoint.sequence + 1
        /\ checkpoint' = [checkpoint EXCEPT !.sequence = conn[c].doing]
        /\ log[conn[c].session][conn[c].doing] \in handled
    BY WhatIsSaved DEF Lost
  <2>2. conn[c].session = checkpoint.session /\ checkpoint.sequence \in Nat
    BY <1>8, <2>1 DEF Current
  <2>3. checkpoint'.sequence = checkpoint.sequence + 1
    BY <1>8, <2>1
  <2>4. Done(checkpoint.session, checkpoint.sequence + 1)
    <3>1. Done(checkpoint.session, checkpoint.sequence)
      BY DEF SInv, CoveredInv
    <3>2. \A i \in 1..(checkpoint.sequence + 1) :
             i \in 1..checkpoint.sequence \/ i = conn[c].doing
      BY <2>1, <2>2
    <3>3. QED
      BY <2>1, <2>2, <3>1, <3>2 DEF Done
  <2>5. Done(checkpoint.session, checkpoint.sequence)'
    BY <1>2, <1>9, <2>3, <2>4 DEF Done
  <2>6. checkpoint'.sequence <= Len(log'[checkpoint'.session])
    BY <1>2, <1>7, <1>9, <2>1, <2>2, <2>3
  <2>7. log'[checkpoint'.session] # <<>>
    BY <1>2, <1>9 DEF SInv, CoveredInv
  <2>8. QED
    BY <2>5, <2>6, <2>7 DEF CoveredInv
<1>12. Sound(conn[c])'
  <2>1. CASE conn[c].state = "closed"
    BY <1>4, <1>6, <2>1 DEF Sound, Idle, Unused
  <2>2. CASE conn[c].state # "closed"
    <3>1. Lost(conn[c]) => Lost(conn[c])'
      BY <1>4, <1>6, <1>9, <2>2 DEF Lost
    <3>2. ASSUME Current(conn[c]), conn[c].doing = checkpoint.sequence + 1,
                 checkpoint' = [checkpoint EXCEPT !.sequence = conn[c].doing]
          PROVE  Current(conn[c])'
      <4>1. checkpoint'.sequence = checkpoint.sequence + 1 /\ checkpoint.sequence \in Nat
        BY <1>8, <3>2
      <4>2. /\ conn'[c].session = checkpoint'.session /\ conn'[c].session # 0
            /\ conn'[c].doing = 0 /\ ~conn'[c].done /\ checkpoint'.sequence # 0
        BY <1>4, <1>6, <1>9, <2>2, <3>2, <4>1 DEF Current
      <4>3. conn'[c].next = checkpoint'.sequence + 1
        BY <1>1, <1>4, <1>6, <2>2, <3>2, <4>1 DEF Current
      <4>4. QED
        BY <4>2, <4>3 DEF Current
    <3>3. Current(conn[c])' \/ Lost(conn[c])'
      BY <3>1, <3>2, WhatIsSaved
    <3>4. QED
      BY <1>4, <1>6, <1>7, <2>2, <3>3 DEF Sound
  <2>3. QED
    BY <2>1, <2>2
<1>13. /\ handled' \subseteq Messages /\ log' \in [Sessions -> Seq(Events)]
       /\ resumable' \in Sessions \cup {0}
  BY <1>2 DEF SInv, TypeOK
<1>14. mode' = "connected" <=> r.state # "closed"
  BY <1>2, <1>4, <1>7 DEF Unused
<1>15. QED
  BY <1>2, <1>3, <1>5, <1>7, <1>9, <1>10, <1>11, <1>12, <1>13, <1>14, OneMoves

LEMMA OneIsInvalidated ==
    ASSUME SInv, NEW c \in Conns, InvalidSession(c)
    PROVE  SInv'
<1>1. conn[c].state \in {"refused", "open"} /\ conn[c] \in ConnState
  BY DEF InvalidSession, SInv, TypeOK
<1>2. c = gateway /\ \A d \in Conns \ {c} : conn[d] = Unused
  BY <1>1, OnlyOne
<1>3. /\ checkpoint' = [session |-> 0, sequence |-> 0]
      /\ resumable' = 0 \/ resumable' = resumable
      /\ UNCHANGED <<handled, mode, gateway, log>>
  BY DEF InvalidSession
<1> DEFINE e == Busy(c)
           r == [conn[c] EXCEPT !.state = "invalid", !.stale = e]
<1>4. e \in BOOLEAN
  BY DEF Busy
<1>5. conn' = [conn EXCEPT ![c] = r]
  BY DEF InvalidSession, SInv, TypeOK
<1> HIDE DEF e
<1>6. /\ r \in ConnState /\ r.state = "invalid" /\ r.doing = conn[c].doing
      /\ r.session = conn[c].session /\ r.next = conn[c].next /\ r.done = conn[c].done
  BY <1>1, <1>4 DEF ConnState
<1> HIDE DEF r
<1>7. conn'[c] = r
  BY <1>5, <1>6, OtherConns DEF SInv
<1>8. Sound(conn[c])'
  <2>1. Idle(conn[c]) => Idle(conn[c])'
    BY <1>6, <1>7 DEF Idle
  <2>2. Awaiting(conn[c]) => Awaiting(conn[c])'
    BY <1>3, <1>6, <1>7 DEF Awaiting
  <2>3. Current(conn[c]) \/ Lost(conn[c]) => Lost(conn[c])'
    <3>1. checkpoint.sequence \in Nat
      BY DEF SInv, TypeOK
    <3>2. Current(conn[c]) => conn[c].next >= 2
      BY <3>1 DEF Current
    <3>3. QED
      BY <1>3, <1>6, <1>7, <3>2 DEF Current, Lost
  <2>4. Sound(conn[c])
    BY DEF SInv
  <2>5. QED
    BY <1>3, <1>6, <1>7, <2>1, <2>2, <2>3, <2>4 DEF Sound
<1>9. LogInv' /\ CoveredInv'
  BY <1>3 DEF SInv, LogInv, CoveredInv
<1>10. mode = "connected" /\ mode \in {"down", "waiting", "connected", "stopping"}
  BY <1>1 DEF SInv, OneConnection, TypeOK
<1>11. /\ checkpoint' \in [session : Sessions \cup {0}, sequence : Nat]
       /\ handled' \subseteq Messages /\ log' \in [Sessions -> Seq(Events)]
       /\ resumable' \in Sessions \cup {0}
  BY <1>3 DEF SInv, TypeOK
<1>12. QED
  BY <1>2, <1>3, <1>5, <1>6, <1>8, <1>9, <1>10, <1>11, OneMoves

\* A connection ends: it is as before, or unused, or closed with its callback.
LEMMA ShutIsSound ==
    ASSUME NEW r \in ConnState, Sound(r)
    PROVE  Sound(Shut(r))
<1>1. CASE r.doing = 0
  BY <1>1, UnusedIsSound DEF Shut
<1>2. CASE r.doing # 0
  <2> DEFINE q == [r EXCEPT !.state = "closed"]
  <2>1. Shut(r) = q
    BY <1>2 DEF Shut
  <2>2. /\ q.state = "closed" /\ q.session = r.session /\ q.next = r.next
        /\ q.doing = r.doing /\ q.done = r.done /\ q.stale = r.stale
    BY DEF ConnState
  <2> HIDE DEF q
  <2>3. Current(r) => Current(q)
    BY <2>2 DEF Current
  <2>4. Lost(r) => Lost(q)
    BY <2>2 DEF Lost
  <2>5. Current(q) \/ Lost(q)
    BY <1>2, <2>3, <2>4 DEF Sound, Idle, Awaiting
  <2>6. Sound(q)
    BY <1>2, <2>2, <2>5 DEF Sound
  <2>7. QED
    BY <2>1, <2>6
<1>3. QED
  BY <1>1, <1>2

LEMMA OneEnds ==
    ASSUME SInv, conn' \in [Conns -> ConnState],
           \A d \in Conns : conn'[d] \in {conn[d], Unused, Shut(conn[d])},
           OneConnection',
           mode' \in {"down", "waiting", "connected", "stopping"},
           \/ gateway' = gateway
           \/ gateway' = NoConn /\ \A d \in Conns : conn'[d] = Unused,
           UNCHANGED <<checkpoint, handled, log, resumable>>
    PROVE  SInv'
<1>1. TypeOK'
  BY DEF SInv, TypeOK
<1>2. LogInv' /\ CoveredInv'
  BY DEF SInv, LogInv, CoveredInv, Done
<1>3. Alone'
  BY DEF SInv, Alone, Shut, Unused
<1>4. \A d \in Conns : Sound(conn[d])'
  <2> TAKE d \in Conns
  <2>1. Sound(conn'[d])
    BY UnusedIsSound, ShutIsSound DEF SInv, TypeOK
  <2>2. QED
    BY <2>1 DEF Sound, Idle, Awaiting, Current, Lost
<1>5. QED
  BY <1>1, <1>2, <1>3, <1>4 DEF SInv

LEMMA OneCloses ==
    ASSUME SInv,
           \/ Start \/ Stop \/ Close \/ Crash
           \/ \E c \in Conns : Fail(c)
           \/ \E c \in Conns, again \in BOOLEAN : Disconnect(c, again)
    PROVE  SInv'
<1>1. CASE Start
  <2>1. OneConnection'
    BY <1>1 DEF Start, discord, SInv, OneConnection
  <2>2. QED
    BY <1>1, <2>1, OneEnds DEF Start, discord, SInv, TypeOK
<1>2. CASE Stop
  <2>1. conn' \in [Conns -> ConnState]
    BY <1>2, RestTyped DEF Stop, SInv, TypeOK
  <2>2. \A d \in Conns : conn'[d].state = "closed"
    BY <1>2 DEF Stop, Shut, Unused, SInv, TypeOK, ConnState
  <2>3. OneConnection'
    BY <1>2, <2>2 DEF Stop, OneConnection
  <2>4. \A d \in Conns : conn'[d] \in {conn[d], Unused, Shut(conn[d])}
    BY <1>2 DEF Stop
  <2>5. QED
    BY <1>2, <2>1, <2>3, <2>4, OneEnds DEF Stop, discord
<1>3. ASSUME NEW c \in Conns, Fail(c)
      PROVE  SInv'
  <2>1. conn' \in [Conns -> ConnState] /\ conn'[c] = Unused
        /\ \A d \in Conns : d # c => conn'[d] = conn[d]
    BY <1>3, UnusedTyped, OtherConns DEF Fail, SInv
  <2>2. OneConnection'
    BY <1>3, <2>1 DEF Fail, Closes, SInv, OneConnection, Unused
  <2>3. mode' \in {"down", "waiting", "connected", "stopping"}
    BY <1>3 DEF Fail, Closes, SInv, TypeOK
  <2>4. \A d \in Conns : conn'[d] \in {conn[d], Unused, Shut(conn[d])}
    BY <2>1
  <2>5. QED
    BY <1>3, <2>1, <2>2, <2>3, <2>4, OneEnds DEF Fail, discord
<1>4. ASSUME NEW c \in Conns, NEW again \in BOOLEAN, Disconnect(c, again)
      PROVE  SInv'
  <2>1. Shut(conn[c]) \in ConnState
    BY RestTyped DEF SInv, TypeOK
  <2>2. conn' = [conn EXCEPT ![c] = Shut(conn[c])]
    BY <1>4 DEF Disconnect, SInv, TypeOK
  <2>3. conn' \in [Conns -> ConnState] /\ conn'[c] = Shut(conn[c])
        /\ \A d \in Conns : d # c => conn'[d] = conn[d]
    BY <2>1, <2>2, OtherConns DEF SInv
  <2>4. conn'[c].state = "closed"
    BY <2>3 DEF Shut, Unused, SInv, TypeOK, ConnState
  <2>5. OneConnection'
    BY <1>4, <2>3, <2>4 DEF Disconnect, Closes, SInv, OneConnection
  <2>6. mode' \in {"down", "waiting", "connected", "stopping"}
    BY <1>4 DEF Disconnect, Closes, SInv, TypeOK
  <2>7. \A d \in Conns : conn'[d] \in {conn[d], Unused, Shut(conn[d])}
    BY <2>3
  <2>8. QED
    BY <1>4, <2>3, <2>5, <2>6, <2>7, OneEnds DEF Disconnect, discord
<1>5. CASE Close \/ Crash
  <2>1. conn' = [d \in Conns |-> Unused] /\ mode' = "down" /\ gateway' = NoConn
        /\ UNCHANGED <<checkpoint, handled, log, resumable>>
    BY <1>5 DEF Close, Crash, Gone, discord
  <2>2. conn' \in [Conns -> ConnState] /\ \A d \in Conns : conn'[d] = Unused
    BY <2>1, UnusedTyped
  <2>3. OneConnection'
    BY <2>1, <2>2 DEF OneConnection, Unused
  <2>4. \A d \in Conns : conn'[d] \in {conn[d], Unused, Shut(conn[d])}
    BY <2>2
  <2>5. QED
    BY <2>1, <2>2, <2>3, <2>4, OneEnds
<1>6. QED
  BY <1>1, <1>2, <1>3, <1>4, <1>5

LEMMA OneCrashesInReady ==
    ASSUME SInv, NEW c \in Conns, CrashInReady(c)
    PROVE  SInv'
<1>1. /\ conn[c].session \in Sessions /\ log[conn[c].session] # <<>>
      /\ Len(log[conn[c].session]) \in Nat
  BY WhatIsNext DEF CrashInReady
<1>2. /\ checkpoint' = [session |-> conn[c].session, sequence |-> 0]
      /\ mode' = "down" /\ gateway' = NoConn /\ conn' = [d \in Conns |-> Unused]
      /\ UNCHANGED <<handled, log, resumable>>
  BY DEF CrashInReady, discord
<1>3. TypeOK'
  BY <1>1, <1>2, UnusedTyped DEF SInv, TypeOK
<1>4. OneConnection' /\ Alone'
  BY <1>2 DEF OneConnection, Alone, Unused
<1>5. LogInv' /\ CoveredInv'
  BY <1>1, <1>2 DEF SInv, LogInv, CoveredInv, Done
<1>6. \A d \in Conns : Sound(conn[d])'
  BY <1>2 DEF Sound, Idle, Unused
<1>7. QED
  BY <1>3, <1>4, <1>5, <1>6 DEF SInv

\* A session that has begun goes on; all that was in its log stays where it was.
LEMMA OneIsPosted ==
    ASSUME SInv, NEW m \in Messages, Post(m)
    PROVE  SInv'
<1> DEFINE s == resumable
<1>1. s \in Sessions /\ log[s] \in Seq(Events) /\ m \in Events
      /\ Len(log[s]) \in Nat /\ log[s] # <<>> /\ Len(log[s]) # 0
  BY LenProperties, EmptySeq DEF Post, SInv, TypeOK, Events, LogInv
<1>2. UNCHANGED <<checkpoint, handled, mode, gateway, conn, resumable>>
      /\ log' = [log EXCEPT ![s] = Append(log[s], m)]
  BY DEF Post, SInv, TypeOK
<1> HIDE DEF s
<1>3. /\ Append(log[s], m) \in Seq(Events)
      /\ Len(Append(log[s], m)) = Len(log[s]) + 1
      /\ \A i \in 1..Len(log[s]) : Append(log[s], m)[i] = log[s][i]
      /\ Append(log[s], m)[Len(log[s]) + 1] = m
  BY <1>1, AppendProperties
<1>4. log' \in [Sessions -> Seq(Events)] /\ log'[s] = Append(log[s], m)
      /\ \A t \in Sessions : t # s => log'[t] = log[t]
  BY <1>1, <1>2, <1>3 DEF SInv, TypeOK
<1>5. ASSUME NEW t \in Sessions
      PROVE  /\ Len(log[t]) \in Nat /\ Len(log'[t]) \in Nat /\ Len(log[t]) <= Len(log'[t])
             /\ \A i \in 1..Len(log[t]) : log'[t][i] = log[t][i]
             /\ log[t] # <<>> => log'[t] # <<>>
             /\ \A i \in 1..Len(log'[t]) : i \in 1..Len(log[t]) \/ log'[t][i] = m
             /\ log[t] = <<>> => log'[t] = <<>>
  <2>1. CASE t = s
    <3>1. log'[t] # <<>>
      BY <1>1, <1>3, <1>4, <2>1, EmptySeq
    <3>2. QED
      BY <1>1, <1>3, <1>4, <2>1, <3>1, SMTT(40)
  <2>2. CASE t # s
    BY <1>4, <2>2, LenProperties DEF SInv, TypeOK
  <2>3. QED
    BY <2>1, <2>2
<1>6. LogInv'
  <2> SUFFICES ASSUME NEW t \in Sessions
               PROVE  (/\ log[t] # <<>> => log[t][1] = Ready
                       /\ \A i \in 2..Len(log[t]) : log[t][i] \in Messages)'
    BY <1>1, <1>2, <1>5 DEF LogInv, s
  <2>1. CASE log[t] = <<>>
    BY <1>5, <2>1, EmptySeq
  <2>2. CASE log[t] # <<>>
    <3>1. Len(log[t]) \in Nat /\ Len(log[t]) # 0
      BY <2>2, LenProperties, EmptySeq DEF SInv, TypeOK
    <3>2. log'[t][1] = Ready
      BY <1>5, <2>2, <3>1 DEF SInv, LogInv
    <3>3. ASSUME NEW i \in 2..Len(log'[t]) PROVE log'[t][i] \in Messages
      <4>1. i \in 1..Len(log'[t]) /\ i # 1
        BY <1>5
      <4>2. CASE i \in 1..Len(log[t])
        BY <1>5, <4>1, <4>2 DEF SInv, LogInv
      <4>3. CASE log'[t][i] = m
        BY <4>3
      <4>4. QED
        BY <1>5, <4>1, <4>2, <4>3
    <3>4. QED
      BY <3>2, <3>3
  <2>3. QED
    BY <2>1, <2>2
<1>7. CoveredInv'
  <2> SUFFICES ASSUME checkpoint.session # 0
               PROVE  CoveredInv'
    BY <1>2 DEF CoveredInv
  <2>1. checkpoint.session \in Sessions /\ checkpoint.sequence \in Nat
    BY DEF SInv, TypeOK
  <2>2. QED
    BY <1>2, <1>5, <2>1 DEF SInv, CoveredInv, Done
<1>8. ASSUME NEW d \in Conns
      PROVE  Sound(conn[d])'
  <2>1. conn[d] \in ConnState /\ Sound(conn[d]) /\ conn'[d] = conn[d]
    BY <1>2 DEF SInv, TypeOK
  <2>2. CASE conn[d].session = 0
    <3>1. Idle(conn[d])
      BY <2>1, <2>2 DEF Sound, Awaiting, Current, Lost
    <3>2. QED
      BY <2>1, <3>1 DEF Sound, Idle
  <2>3. CASE conn[d].session \in Sessions
    <3>1. Awaiting(conn[d]) => Awaiting(conn[d])'
      BY <1>2, <1>5, <2>1, <2>3 DEF Awaiting
    <3>2. conn[d].doing # 0 => /\ conn[d].doing \in 2..Len(log'[conn[d].session])
                               /\ log'[conn[d].session][conn[d].doing]
                                    = log[conn[d].session][conn[d].doing]
      BY <1>5, <2>1, <2>3 DEF Sound
    <3>3. Current(conn[d]) => Current(conn[d])'
      BY <1>2, <2>1, <3>2 DEF Current, Sound
    <3>4. Lost(conn[d]) => Lost(conn[d])'
      BY <1>2, <2>1 DEF Lost
    <3>5. Idle(conn[d]) => Idle(conn[d])'
      BY <2>1 DEF Idle
    <3>6. QED
      BY <2>1, <3>1, <3>2, <3>3, <3>4, <3>5 DEF Sound
  <2>4. QED
    BY <2>1, <2>2, <2>3 DEF ConnState
<1>9. TypeOK' /\ OneConnection' /\ Alone'
  BY <1>2, <1>4 DEF SInv, TypeOK, OneConnection, Alone
<1>10. QED
  BY <1>6, <1>7, <1>8, <1>9 DEF SInv

LEMMA OneExpires ==
    ASSUME SInv, Expire
    PROVE  SInv'
<1>1. resumable' = 0 /\ UNCHANGED <<checkpoint, handled, mode, gateway, conn, log>>
  BY DEF Expire
<1>2. LogInv' /\ CoveredInv' /\ TypeOK'
  BY <1>1 DEF SInv, LogInv, CoveredInv, Done, TypeOK
<1>3. OneConnection' /\ Alone' /\ \A d \in Conns : Sound(conn[d])'
  BY <1>1 DEF SInv, OneConnection, Alone, Sound, Idle, Awaiting, Current, Lost
<1>4. QED
  BY <1>2, <1>3 DEF SInv

LEMMA NextKeepsSInv ==
    ASSUME QuickCallbacks = TRUE, SInv, [Next]_vars
    PROVE  SInv'
<1>1. ASSUME NEW c \in Conns, ConnStep(c)
      PROVE  SInv'
  <2>1. CASE Fail(c) \/ \E again \in BOOLEAN : Disconnect(c, again)
    BY <2>1, OneCloses
  <2>2. QED
    BY <1>1, <2>1, OneConnects, OneIdentifies, OneResumes, OneTakesReady, OneCrashesInReady, OneBegins, OneHandles,
       OneFinishes, OneIsInvalidated DEF ConnStep
<1>2. CASE UNCHANGED vars
  BY <1>2 DEF vars, SInv, TypeOK, OneConnection, LogInv, CoveredInv, Done, Alone, Sound, Idle,
              Awaiting, Current, Lost
<1>3. QED
  BY <1>1, <1>2, OneCloses, OneIsPosted, OneExpires DEF Next

--------------------------------------------------------------------------------
(* The checkpoint is that of a resumable feed.                                 *)

Place == IF checkpoint.session = 0 THEN [session |-> 0, sequence |-> 0] ELSE checkpoint

LEMMA FeedStays ==
    ASSUME UNCHANGED <<log, handled>>, Place' = Place
    PROVE  UNCHANGED Feed!vars
BY DEF Feed!vars, Place

LEMMA FeedGrows ==
    ASSUME NEW s \in Sessions, NEW e \in Events, e = Ready <=> log[s] = <<>>,
           log' = [log EXCEPT ![s] = Append(@, e)], UNCHANGED <<handled, checkpoint>>
    PROVE  Feed!Next
<1>1. Feed!Grow(s, e)
  BY DEF Feed!Grow
<1>2. QED
  BY <1>1 DEF Feed!Next, Events

LEMMA FeedDecides ==
    ASSUME NEW s \in Sessions, NEW i \in DOMAIN log[s], log[s][i] \in Messages,
           handled' = handled \cup {log[s][i]}, UNCHANGED <<log, checkpoint>>
    PROVE  Feed!Next
<1>1. log[s][i] \in Feed!Posted
  BY ReadyIsNoMessage DEF Feed!Posted
<1>2. Feed!Decide(log[s][i])
  BY <1>1 DEF Feed!Decide
<1>3. QED
  BY <1>2 DEF Feed!Next

LEMMA FeedAdopts ==
    ASSUME NEW s \in Sessions, s # 0, NEW n \in {0, 1}, log[s] # <<>>,
           checkpoint.session # s,
           checkpoint' = [session |-> s, sequence |-> n], UNCHANGED <<log, handled>>
    PROVE  Feed!Next
<1>1. Feed!Adopt(s, n)
  BY DEF Feed!Adopt
<1>2. QED
  BY <1>1 DEF Feed!Next

LEMMA FeedAdvances ==
    ASSUME SInv, NEW n, checkpoint.session # 0, n = checkpoint.sequence + 1,
           n <= Len(log[checkpoint.session]), Done(checkpoint.session, n),
           checkpoint' = [checkpoint EXCEPT !.sequence = n], UNCHANGED <<log, handled>>
    PROVE  Feed!Next
<1>1. /\ checkpoint \in [session : Sessions \cup {0}, sequence : Nat]
      /\ Len(log[checkpoint.session]) \in Nat
  BY LenProperties DEF SInv, TypeOK
<1>2. checkpoint'.session = checkpoint.session
  BY <1>1
<1>3. n \in 1..Len(log[checkpoint.session])
  BY <1>1
<1>4. Place = checkpoint /\ Place' = checkpoint'
  BY <1>2 DEF Place
<1>5. Feed!Advance(n)
  BY <1>1, <1>2, <1>3 DEF Feed!Advance, Done
<1>6. QED
  BY <1>3, <1>5 DEF Feed!Next

LEMMA FeedForgets ==
    ASSUME checkpoint' = [session |-> 0, sequence |-> 0], UNCHANGED <<log, handled>>
    PROVE  Feed!Next
<1>1. Feed!Forget
  BY DEF Feed!Forget, Feed!Nowhere
<1>2. QED
  BY <1>1 DEF Feed!Next

LEMMA StartedOf ==
    ASSUME NEW s \in Sessions \ Started, log' = [log EXCEPT ![s] = <<Ready>>]
    PROVE  log[s] = <<>> /\ log' = [log EXCEPT ![s] = Append(@, Ready)]
<1>1. log[s] = <<>>
  BY DEF Started
<1>2. Append(<<>>, Ready) = <<Ready>>
  OBVIOUS
<1>3. QED
  BY <1>1, <1>2

LEMMA FeedFallsBack ==
    ASSUME checkpoint \in [session : Sessions, sequence : Nat], checkpoint.session # 0,
           NEW n, n \in 1..Len(log[checkpoint.session]), n < checkpoint.sequence,
           checkpoint' = [checkpoint EXCEPT !.sequence = n], UNCHANGED <<log, handled>>
    PROVE  Feed!ReplayNext
<1>1. checkpoint'.session = checkpoint.session
  OBVIOUS
<1>2. Place = checkpoint /\ Place' = checkpoint'
  BY <1>1 DEF Place
<1>3. n \in 1..checkpoint.sequence - 1
  <2>1. checkpoint.sequence \in Nat /\ n \in Int /\ 1 <= n
    OBVIOUS
  <2>2. QED
    BY <2>1
<1>4. Feed!FallBack(n)
  BY <1>1, <1>3 DEF Feed!FallBack
<1>5. QED
  BY <1>4 DEF Feed!ReplayNext

LEMMA FeedStep ==
    ASSUME SInv, [Next]_vars
    PROVE  [Feed!Next]_(Feed!vars)
<1>1. ASSUME UNCHANGED <<log, handled, checkpoint>>
      PROVE  [Feed!Next]_(Feed!vars)
  BY <1>1, FeedStays DEF Place
<1>2. ASSUME NEW c \in Conns, ConnStep(c)
      PROVE  [Feed!Next]_(Feed!vars)
  <2>1. CASE Connect(c) \/ Resume(c) \/ Begin(c) \/ Fail(c)
               \/ \E again \in BOOLEAN : Disconnect(c, again)
    BY <1>1, <2>1 DEF Connect, Resume, Resumes, Begin, Fail, Disconnect, discord
  <2>2. CASE Identify(c)
    <3>1. PICK s \in Sessions \ Started : log' = [log EXCEPT ![s] = <<Ready>>]
      BY <2>2 DEF Identify
    <3>2. QED
      BY <2>2, <3>1, StartedOf, FeedGrows DEF Identify, Events
  <2>3. CASE TakeReady(c)
    <3>1. /\ conn[c].session \in Sessions /\ conn[c].session # 0 /\ conn[c].next = 1
          /\ log[conn[c].session] # <<>> /\ Awaiting(conn[c])
      BY <2>3, WhatIsNext DEF TakeReady
    <3>2. QED
      BY <2>3, <3>1, FeedAdopts DEF TakeReady, Awaiting, discord
  <2>4. CASE CrashInReady(c)
    <3>1. /\ conn[c].session \in Sessions /\ conn[c].session # 0
          /\ log[conn[c].session] # <<>> /\ Awaiting(conn[c])
      BY <2>4, WhatIsNext DEF CrashInReady
    <3>2. QED
      BY <2>4, <3>1, FeedAdopts DEF CrashInReady, Awaiting, discord
  <2>5. CASE Handle(c)
    <3>1. /\ conn[c].session \in Sessions
          /\ conn[c].doing \in 2..Len(log[conn[c].session])
          /\ Len(log[conn[c].session]) \in Nat
          /\ EventOf(c, conn[c].doing) \in Messages
      BY <2>5, WhatIsDone DEF Handle
    <3>2. conn[c].doing \in DOMAIN log[conn[c].session]
      BY <3>1, LenProperties DEF SInv, TypeOK
    <3>3. QED
      BY <2>5, <3>1, <3>2, FeedDecides DEF Handle, EventOf, discord
  <2>6. CASE Finish(c)
    <3>1. UNCHANGED <<log, handled>>
      BY <2>6 DEF Finish, discord
    <3>2. CASE checkpoint.session = 0
      <4>1. checkpoint'.session = 0
        BY <2>6, <3>2, WhatIsSaved DEF SInv, TypeOK
      <4>2. Place' = Place
        BY <3>2, <4>1 DEF Place
      <4>3. QED
        BY <3>1, <4>2, FeedStays
    <3>3. CASE checkpoint.session # 0
      <4>1. /\ Current(conn[c]) /\ conn[c].doing = checkpoint.sequence + 1
            /\ checkpoint' = [checkpoint EXCEPT !.sequence = conn[c].doing]
            /\ log[conn[c].session][conn[c].doing] \in handled
        BY <2>6, <3>3, WhatIsSaved DEF Lost
      <4>2. /\ conn[c].doing \in 2..Len(log[conn[c].session])
            /\ conn[c].session = checkpoint.session
            /\ checkpoint.sequence \in Nat
        BY <2>6, <4>1, WhatIsDone DEF Finish, Current, SInv, TypeOK
      <4>3. Done(checkpoint.session, conn[c].doing)
        <5>1. Done(checkpoint.session, checkpoint.sequence)
          BY <3>3 DEF SInv, CoveredInv
        <5>2. \A i \in 1..conn[c].doing : i \in 1..checkpoint.sequence \/ i = conn[c].doing
          BY <4>1, <4>2
        <5>3. QED
          BY <4>1, <4>2, <5>1, <5>2 DEF Done
      <4>4. conn[c].doing <= Len(log[checkpoint.session])
        BY <4>2
      <4>5. QED
        BY <3>1, <3>3, <4>1, <4>3, <4>4, FeedAdvances
    <3>4. QED
      BY <3>2, <3>3
  <2>7. CASE InvalidSession(c)
    BY <2>7, FeedForgets DEF InvalidSession
  <2>8. QED
    BY <1>2, <2>1, <2>2, <2>3, <2>4, <2>5, <2>6, <2>7 DEF ConnStep
<1>3. CASE Start \/ Stop \/ Close \/ Crash \/ Expire
  BY <1>1, <1>3 DEF Start, Stop, Close, Crash, Gone, Expire, discord
<1>4. ASSUME NEW m \in Messages, Post(m)
      PROVE  [Feed!Next]_(Feed!vars)
  <2>1. resumable \in Sessions /\ log[resumable] # <<>>
    BY <1>4 DEF Post, SInv, TypeOK, LogInv
  <2>2. QED
    BY <1>4, <2>1, FeedGrows, ReadyIsNoMessage DEF Post, Events
<1>5. CASE UNCHANGED vars
  BY <1>1, <1>5 DEF vars
<1>6. QED
  BY <1>2, <1>3, <1>4, <1>5 DEF Next

LEMMA SInvCovers == SInv => CheckpointCovered
<1> SUFFICES ASSUME SInv, checkpoint.session # 0
             PROVE  /\ checkpoint.sequence <= Len(log[checkpoint.session])
                    /\ EventsUpTo(checkpoint.session, checkpoint.sequence)
                          \subseteq handled \cup {Ready}
  BY DEF CheckpointCovered
<1>1. QED
  BY DEF SInv, CoveredInv, Done, EventsUpTo

--------------------------------------------------------------------------------
(* Where callbacks outlive their connection, and Discord keeps its session: the *)
(* checkpoint is that of a feed that may be replayed. A connection that waits    *)
(* for its READY is of a session the checkpoint has never named.                *)

FreshInv ==
    /\ checkpoint.session # 0 => log[checkpoint.session] # <<>>
    /\ \A c \in Conns : conn[c].state = "open" /\ conn[c].next = 1
                            => conn[c].session # checkpoint.session

\* The connections that wait for a READY, the sessions begun and the session of the
\* checkpoint are as they were.
LEMMA FreshStays ==
    ASSUME FreshInv, TypeOK,
           checkpoint'.session = checkpoint.session \/ checkpoint'.session = 0,
           \A s \in Sessions : log[s] # <<>> => log'[s] # <<>>,
           \A c \in Conns : conn'[c].state = "open" /\ conn'[c].next = 1 =>
               /\ conn[c].state = "open" /\ conn[c].next = 1
               /\ conn'[c].session = conn[c].session /\ conn[c].session # 0
    PROVE  FreshInv'
BY DEF FreshInv, TypeOK

LEMMA FreshMoves ==
    ASSUME FreshInv, GInv, NEW c \in Conns, NEW r \in ConnState,
           conn' = [conn EXCEPT ![c] = r],
           checkpoint'.session = checkpoint.session \/ checkpoint'.session = 0, log' = log,
           r.state = "open" /\ r.next = 1 =>
               /\ conn[c].state = "open" /\ conn[c].next = 1 /\ r.session = conn[c].session
    PROVE  FreshInv'
<1>1. conn'[c] = r /\ \A d \in Conns : d # c => conn'[d] = conn[d]
  BY OtherConns DEF GInv
<1>2. \A d \in Conns : conn[d].state = "open" /\ conn[d].next = 1 => conn[d].session # 0
  BY DEF GInv, ConnInv, AwaitsReady, HasDispatched
<1>3. QED
  BY <1>1, <1>2, FreshStays DEF GInv

LEMMA ConnKeepsFresh ==
    ASSUME Invalidates = FALSE, GInv, FreshInv, NEW c \in Conns, ConnStep(c)
    PROVE  FreshInv'
<1>1. conn[c] \in ConnState /\ conn \in [Conns -> ConnState]
      /\ checkpoint \in [session : Sessions \cup {0}, sequence : Nat]
      /\ conn[c].next \in Nat
  BY DEF GInv, TypeOK, ConnState
<1>2. CASE Connect(c)
  <2> DEFINE r == [Unused EXCEPT !.state = "opening"]
  <2>1. r \in ConnState /\ r.state = "opening"
    BY DEF Unused, ConnState
  <2>2. conn' = [conn EXCEPT ![c] = r]
    BY <1>2 DEF Connect, Unused
  <2> HIDE DEF r
  <2>3. QED
    BY <1>2, <2>1, <2>2, FreshMoves DEF Connect, discord
<1>3. CASE Identify(c)
  <2>1. PICK s \in Sessions \ Started :
              /\ log' = [log EXCEPT ![s] = <<Ready>>]
              /\ conn' = [conn EXCEPT ![c] = Opened(conn[c], s, 1)]
    BY <1>1, <1>3 DEF Identify, Opened
  <2> DEFINE r == Opened(conn[c], s, 1)
  <2>2. r \in ConnState /\ r.session = s
    BY <1>1, OpenedTyped
  <2>3. conn'[c] = r /\ \A d \in Conns : d # c => conn'[d] = conn[d]
    BY <2>1, <2>2, OtherConns DEF GInv
  <2> HIDE DEF r
  <2>4. checkpoint' = checkpoint /\ conn[c].state = "opening"
    BY <1>3 DEF Identify
  <2>5. checkpoint.session # s
    <3>1. log[s] = <<>> /\ s # 0
      BY DEF Started, Sessions
    <3>2. QED
      BY <3>1 DEF FreshInv
  <2>6. log \in [Sessions -> Seq(Events)] /\ <<Ready>> # <<>>
    BY DEF GInv, TypeOK
  <2>7. \A t \in Sessions : log[t] # <<>> => log'[t] # <<>>
    BY <2>1, <2>6
  <2>8. \A d \in Conns : d # c => conn[d].state = "closed"
    BY <2>4 DEF GInv, OneConnection
  <2>9. QED
    BY <1>1, <2>2, <2>3, <2>4, <2>5, <2>7, <2>8 DEF FreshInv
<1>4. CASE Resume(c)
  <2>1. /\ UNCHANGED <<checkpoint, handled, mode, gateway, log, resumable>>
        /\ checkpoint.sequence \in Nat /\ checkpoint.sequence # 0
    BY <1>1, <1>4 DEF Resume, Resumes, discord
  <2>2. CASE resumable \in Sessions
             /\ conn' = [conn EXCEPT ![c] =
                           Opened(conn[c], resumable, checkpoint.sequence + 1)]
    <3> DEFINE k == checkpoint.sequence + 1
    <3>1. k \in Nat /\ k # 1
      BY <2>1
    <3> HIDE DEF k
    <3> DEFINE r == Opened(conn[c], resumable, k)
    <3>2. r \in ConnState /\ r.next = k
      <4>1. SUFFICES ASSUME NEW q \in ConnState, NEW t \in Sessions, NEW n \in Nat
                     PROVE  LET b == Opened(q, t, n) IN b \in ConnState /\ b.next = n
        BY <1>1, <2>2, <3>1, ZenonT(60)
      <4>2. QED
        BY OpenedTyped
    <3>3. conn' = [conn EXCEPT ![c] = r]
      BY <2>2 DEF k
    <3> HIDE DEF r
    <3>4. QED
      BY <2>1, <3>1, <3>2, <3>3, FreshMoves
  <2>3. CASE conn' = [conn EXCEPT ![c].state = "refused"]
    <3> DEFINE r == [conn[c] EXCEPT !.state = "refused"]
    <3>1. r \in ConnState /\ r.state = "refused"
      BY <1>1 DEF ConnState
    <3>2. conn' = [conn EXCEPT ![c] = r]
      BY <1>1, <2>3
    <3> HIDE DEF r
    <3>3. QED
      BY <2>1, <3>1, <3>2, FreshMoves
  <2>4. QED
    BY <1>1, <1>4, <2>2, <2>3 DEF Resume, Resumes, Opened, GInv, TypeOK
<1>5. CASE TakeReady(c)
  <2>1. /\ conn[c].next = 1 /\ conn[c].session \in Sessions
        /\ conn[c].session = resumable /\ log[resumable] # <<>>
        /\ \A d \in Conns : d # c => conn[d].state = "closed"
    BY <1>5, ReadyIsFirst DEF TakeReady
  <2>2. /\ checkpoint'.session = conn[c].session /\ log' = log
        /\ conn' = [conn EXCEPT ![c].next = conn[c].next + 1]
    BY <1>5 DEF TakeReady, discord
  <2>3. conn'[c].next = 2 /\ \A d \in Conns : d # c => conn'[d].state = "closed"
    BY <1>1, <2>1, <2>2 DEF ConnState
  <2>4. QED
    BY <2>1, <2>2, <2>3 DEF FreshInv
<1>6. CASE CrashInReady(c)
  <2>1. conn[c].session \in Sessions /\ conn[c].session = resumable
        /\ log[resumable] # <<>>
    BY <1>6, ReadyIsFirst DEF CrashInReady
  <2>2. QED
    BY <1>6, <2>1 DEF CrashInReady, FreshInv, Unused, discord
<1>7. CASE Begin(c)
  <2> DEFINE r == Begun(conn[c], conn[c].next, conn[c].next + 1)
  <2>1. conn' = [conn EXCEPT ![c] = r]
    BY <1>1, <1>7 DEF Begin, Begun
  <2>2. EventOf(c, conn[c].next) # Ready /\ HasNext(c)
    BY <1>7 DEF Begin
  <2>3. conn[c].next # 0
    <3>1. conn[c].session \in Sessions
      BY <1>1, <2>2 DEF HasNext, ConnState
    <3>2. conn[c].next \in 1..Len(log[conn[c].session])
      BY <2>2, <3>1, LenProperties DEF HasNext, GInv, TypeOK
    <3>3. QED
      BY <3>2
  <2>4. conn[c].next + 1 \in Nat /\ conn[c].next + 1 # 1
    BY <1>1, <2>3
  <2>5. r \in ConnState /\ r.next = conn[c].next + 1
    <3>1. SUFFICES ASSUME NEW q \in ConnState, NEW n \in Nat, NEW k \in Nat
                   PROVE  LET b == Begun(q, n, k) IN b \in ConnState /\ b.next = k
      BY <1>1, <2>4, ZenonT(60)
    <3>2. QED
      BY BegunTyped
  <2> HIDE DEF r
  <2>6. QED
    BY <1>7, <2>1, <2>4, <2>5, FreshMoves DEF Begin, discord
<1>8. CASE Handle(c)
  <2> DEFINE r == [conn[c] EXCEPT !.done = TRUE]
  <2>1. /\ r \in ConnState /\ r.state = conn[c].state /\ r.session = conn[c].session
        /\ r.next = conn[c].next
    BY <1>1 DEF ConnState
  <2>2. conn' = [conn EXCEPT ![c] = r]
    BY <1>1, <1>8 DEF Handle
  <2> HIDE DEF r
  <2>3. QED
    BY <1>8, <2>1, <2>2, FreshMoves DEF Handle, discord
<1>9. CASE Finish(c) \/ Fail(c) \/ \E again \in BOOLEAN : Disconnect(c, again)
  <2>1. /\ checkpoint'.session = checkpoint.session /\ log' = log
        /\ \E r \in {Rest(conn[c]), Shut(conn[c]), Unused} : conn' = [conn EXCEPT ![c] = r]
    BY <1>1, <1>9 DEF Finish, Fail, Disconnect, discord
  <2>2. PICK r \in {Rest(conn[c]), Shut(conn[c]), Unused} : conn' = [conn EXCEPT ![c] = r]
    BY <2>1
  <2>3. r \in ConnState
    BY <1>1, <2>2, RestTyped, UnusedTyped
  <2>4. r.state = "open" => /\ conn[c].state = "open" /\ r.next = conn[c].next
                            /\ r.session = conn[c].session
    <3>1. Unused.state = "closed"
      BY DEF Unused
    <3>2. CASE r = Unused
      BY <3>1, <3>2
    <3>3. CASE r = Shut(conn[c])
      <4>1. Shut(conn[c]).state = "closed"
        BY <1>1, <3>1 DEF Shut, ConnState
      <4>2. QED
        BY <3>3, <4>1
    <3>4. CASE r = Rest(conn[c])
      <4>1. CASE conn[c].state = "closed"
        BY <3>1, <3>4, <4>1 DEF Rest
      <4>2. CASE conn[c].state # "closed"
        <5>1. r = [conn[c] EXCEPT !.doing = 0, !.done = FALSE, !.stale = FALSE]
          BY <3>4, <4>2 DEF Rest
        <5>2. QED
          BY <1>1, <5>1 DEF ConnState
      <4>3. QED
        BY <4>1, <4>2
    <3>5. QED
      BY <2>2, <3>2, <3>3, <3>4
  <2>5. QED
    BY <2>1, <2>2, <2>3, <2>4, FreshMoves
<1>10. CASE InvalidSession(c)
  BY <1>10 DEF InvalidSession, GInv, ConnInv
<1>11. QED
  BY <1>2, <1>3, <1>4, <1>5, <1>6, <1>7, <1>8, <1>9, <1>10 DEF ConnStep

LEMMA NextKeepsFresh ==
    ASSUME Invalidates = FALSE, GInv, FreshInv, [Next]_vars
    PROVE  FreshInv'
<1>1. CASE \E c \in Conns : ConnStep(c)
  BY <1>1, ConnKeepsFresh
<1>2. \A d \in Conns : conn[d].state = "open" /\ conn[d].next = 1 => conn[d].session # 0
  BY DEF GInv, ConnInv, AwaitsReady, HasDispatched
<1>3. CASE Start \/ Close \/ Crash \/ Expire \/ UNCHANGED vars
  <2>1. /\ checkpoint' = checkpoint /\ log' = log
        /\ conn' = conn \/ conn' = [d \in Conns |-> Unused]
    BY <1>3 DEF Start, Close, Crash, Gone, Expire, vars, discord
  <2>2. QED
    BY <2>1 DEF FreshInv, Unused
<1>4. CASE Stop
  <2>1. /\ checkpoint' = checkpoint /\ log' = log
        /\ conn' = [d \in Conns |-> IF conn[d].state = "closed" THEN conn[d]
                                    ELSE Shut(conn[d])]
    BY <1>4 DEF Stop, discord
  <2>2. \A d \in Conns : conn'[d].state = "closed"
    BY <2>1 DEF Shut, Unused, GInv, TypeOK, ConnState
  <2>3. QED
    BY <2>1, <2>2 DEF FreshInv
<1>5. ASSUME NEW m \in Messages, Post(m)
      PROVE  FreshInv'
  <2>1. /\ UNCHANGED <<checkpoint, conn>>
        /\ log' = [log EXCEPT ![resumable] = Append(log[resumable], m)]
        /\ resumable \in Sessions /\ log \in [Sessions -> Seq(Events)] /\ m \in Events
    BY <1>5 DEF Post, GInv, TypeOK, Events
  <2>2. Append(log[resumable], m) # <<>>
    <3>1. log[resumable] \in Seq(Events)
      BY <2>1
    <3>2. Len(Append(log[resumable], m)) = Len(log[resumable]) + 1
          /\ Len(log[resumable]) \in Nat
      BY <2>1, <3>1, AppendProperties, LenProperties
    <3>3. QED
      BY <3>2
  <2>3. \A s \in Sessions : log[s] # <<>> => log'[s] # <<>>
    BY <2>1, <2>2
  <2>4. QED
    BY <1>2, <2>1, <2>3, FreshStays DEF GInv
<1>6. QED
  BY <1>1, <1>3, <1>4, <1>5 DEF Next

\* The sequence of a late callback is the one after the checkpoint, the checkpoint, or
\* one before it.
LEMMA ReplayFinish ==
    ASSUME GInv, NEW c \in Conns, Finish(c)
    PROVE  [Feed!ReplayNext]_(Feed!vars)
<1>1. /\ Busy(c) /\ conn[c].done
      /\ checkpoint \in [session : Sessions \cup {0}, sequence : Nat]
      /\ UNCHANGED <<log, handled>>
  BY DEF Finish, GInv, TypeOK, discord
<1>2. /\ Known /\ conn[c].session = checkpoint.session /\ checkpoint.session \in Sessions
      /\ conn[c].doing \in 2..Len(log[checkpoint.session])
      /\ Len(log[checkpoint.session]) \in Nat
  BY <1>1, LenProperties DEF GInv, TypeOK, DispatchInv, Known
<1>3. Done(checkpoint.session, conn[c].doing)
  BY <1>1, <1>2 DEF GInv, DispatchInv, Done
<1>4. conn[c].doing \in 1..Len(log[checkpoint.session]) /\ conn[c].doing \in Nat
  BY <1>2
<1>5. checkpoint' = checkpoint \/ checkpoint' = [checkpoint EXCEPT !.sequence = conn[c].doing]
  BY DEF Finish
<1>6. CASE checkpoint' = checkpoint
  BY <1>1, <1>6, FeedStays DEF Place
<1>7. CASE checkpoint' = [checkpoint EXCEPT !.sequence = conn[c].doing]
  <2>1. checkpoint'.session = checkpoint.session /\ checkpoint.session # 0
    BY <1>1, <1>2, <1>7 DEF Known
  <2>2. Place = checkpoint /\ Place' = checkpoint'
    BY <2>1 DEF Place
  <2>3. CASE conn[c].doing > checkpoint.sequence
    <3>1. conn[c].doing \in checkpoint.sequence + 1 .. Len(log[checkpoint.session])
      BY <1>1, <1>4, <2>3
    <3>2. Feed!Advance(conn[c].doing)
      BY <1>1, <1>3, <1>7, <2>1, <3>1 DEF Feed!Advance, Done
    <3>3. QED
      BY <1>4, <2>1, <3>2 DEF Feed!Next, Feed!ReplayNext
  <2>4. CASE conn[c].doing = checkpoint.sequence
    <3>1. checkpoint' = checkpoint
      BY <1>1, <1>7, <2>4
    <3>2. QED
      BY <1>1, <3>1, FeedStays DEF Place
  <2>5. CASE conn[c].doing < checkpoint.sequence
    BY <1>1, <1>2, <1>4, <1>7, <2>1, <2>5, FeedFallsBack
  <2>6. QED
    BY <1>1, <1>4, <2>3, <2>4, <2>5
<1>8. QED
  BY <1>5, <1>6, <1>7

LEMMA ReplayStep ==
    ASSUME Invalidates = FALSE, GInv, FreshInv, [Next]_vars
    PROVE  [Feed!ReplayNext]_(Feed!vars)
<1>1. ASSUME UNCHANGED <<log, handled, checkpoint>>
      PROVE  [Feed!ReplayNext]_(Feed!vars)
  BY <1>1, FeedStays DEF Place
<1>2. ASSUME Feed!Next
      PROVE  Feed!ReplayNext
  BY <1>2 DEF Feed!ReplayNext
<1>3. ASSUME NEW c \in Conns, ConnStep(c)
      PROVE  [Feed!ReplayNext]_(Feed!vars)
  <2>1. CASE Connect(c) \/ Resume(c) \/ Begin(c) \/ Fail(c)
               \/ \E again \in BOOLEAN : Disconnect(c, again)
    BY <1>1, <2>1 DEF Connect, Resume, Resumes, Begin, Fail, Disconnect, discord
  <2>2. CASE Identify(c)
    <3>1. PICK s \in Sessions \ Started : log' = [log EXCEPT ![s] = <<Ready>>]
      BY <2>2 DEF Identify
    <3>2. QED
      BY <1>2, <2>2, <3>1, StartedOf, FeedGrows DEF Identify, Events
  <2>3. CASE TakeReady(c) \/ CrashInReady(c)
    <3>1. /\ conn[c].session \in Sessions /\ conn[c].session # 0 /\ conn[c].next = 1
          /\ log[conn[c].session] # <<>> /\ conn[c].state = "open"
      BY <2>3, ReadyIsFirst DEF TakeReady, CrashInReady, Sessions
    <3>2. /\ \E n \in {0, 1} : checkpoint' = [session |-> conn[c].session, sequence |-> n]
          /\ UNCHANGED <<log, handled>>
      BY <2>3, <3>1 DEF TakeReady, CrashInReady, discord
    <3>3. QED
      BY <1>2, <3>1, <3>2, FeedAdopts DEF FreshInv
  <2>4. CASE Handle(c)
    <3>1. /\ conn[c].session \in Sessions
          /\ conn[c].doing \in 2..Len(log[conn[c].session])
          /\ Len(log[conn[c].session]) \in Nat
      BY <2>4, LenProperties DEF Handle, GInv, DispatchInv, TypeOK, ConnState, Known
    <3>2. EventOf(c, conn[c].doing) \in Messages
      BY <3>1 DEF GInv, LogInv, EventOf
    <3>3. conn[c].doing \in DOMAIN log[conn[c].session]
      BY <3>1, LenProperties DEF GInv, TypeOK
    <3>4. QED
      BY <1>2, <2>4, <3>1, <3>2, <3>3, FeedDecides DEF Handle, EventOf, discord
  <2>5. CASE Finish(c)
    BY <2>5, ReplayFinish
  <2>6. CASE InvalidSession(c)
    BY <2>6 DEF InvalidSession, GInv, ConnInv
  <2>7. QED
    BY <1>3, <2>1, <2>2, <2>3, <2>4, <2>5, <2>6 DEF ConnStep
<1>4. CASE Start \/ Stop \/ Close \/ Crash \/ Expire
  BY <1>1, <1>4 DEF Start, Stop, Close, Crash, Gone, Expire, discord
<1>5. ASSUME NEW m \in Messages, Post(m)
      PROVE  [Feed!ReplayNext]_(Feed!vars)
  <2>1. resumable \in Sessions /\ log[resumable] # <<>>
    BY <1>5 DEF Post, GInv, TypeOK, LogInv
  <2>2. QED
    BY <1>2, <1>5, <2>1, FeedGrows, ReadyIsNoMessage DEF Post, Events
<1>6. CASE UNCHANGED vars
  BY <1>1, <1>6 DEF vars
<1>7. QED
  BY <1>3, <1>4, <1>5, <1>6 DEF Next

--------------------------------------------------------------------------------
(* Types: they need no assumption, only that a callback in progress is about a  *)
(* message in the log.                                                         *)

\* A callback in progress is about a message that Discord has numbered.
InWork(r) ==
    /\ r.state = "opening" => r.doing = 0
    /\ r.doing # 0 => /\ r.session \in Sessions
                      /\ r.doing \in 1..Len(log[r.session])
                      /\ log[r.session][r.doing] \in Messages

TInv == TypeOK /\ \A c \in Conns : InWork(conn[c])

LEMMA InitTInv == Init => TInv
BY InitGInv DEF GInv, TInv, Init, InWork, Unused

LEMMA EndedInWork ==
    ASSUME NEW r \in ConnState, InWork(r)
    PROVE  /\ Unused \in ConnState /\ Shut(r) \in ConnState /\ Rest(r) \in ConnState
           /\ InWork(Unused) /\ InWork(Shut(r)) /\ InWork(Rest(r))
<1>1. InWork(Unused)
  BY DEF InWork, Unused
<1>2. InWork(Shut(r))
  <2>1. CASE r.doing = 0
    BY <1>1, <2>1 DEF Shut
  <2>2. CASE r.doing # 0
    <3> DEFINE q == [r EXCEPT !.state = "closed"]
    <3>1. Shut(r) = q
      BY <2>2 DEF Shut
    <3>2. q.state = "closed" /\ q.session = r.session /\ q.doing = r.doing
      BY DEF ConnState
    <3> HIDE DEF q
    <3>3. QED
      BY <3>1, <3>2 DEF InWork
  <2>3. QED
    BY <2>1, <2>2
<1>3. InWork(Rest(r))
  <2>1. CASE r.state = "closed"
    BY <1>1, <2>1 DEF Rest
  <2>2. CASE r.state # "closed"
    <3>1. Rest(r).doing = 0
      BY <2>2 DEF Rest, ConnState
    <3>2. QED
      BY <3>1 DEF InWork
  <2>3. QED
    BY <2>1, <2>2
<1>4. QED
  BY <1>1, <1>2, <1>3, UnusedTyped, RestTyped

\* One connection changes; the logs stay.
LEMMA TypedMove ==
    ASSUME TInv, NEW c \in Conns, NEW r \in ConnState, InWork(r),
           conn' = [conn EXCEPT ![c] = r], UNCHANGED log
    PROVE  conn' \in [Conns -> ConnState] /\ \A d \in Conns : InWork(conn[d])'
<1>1. conn' \in [Conns -> ConnState] /\ conn'[c] = r
      /\ \A d \in Conns : d # c => conn'[d] = conn[d]
  BY OtherConns DEF TInv
<1>2. QED
  BY <1>1 DEF TInv, InWork

LEMMA TypedStep ==
    ASSUME TInv, NEW c \in Conns, ConnStep(c)
    PROVE  TInv'
<1>1. conn[c] \in ConnState /\ InWork(conn[c]) /\ conn \in [Conns -> ConnState]
  BY DEF TInv, TypeOK
<1>2. CASE Connect(c)
  <2> DEFINE r == [Unused EXCEPT !.state = "opening"]
  <2>1. r \in ConnState /\ r.doing = 0
    BY DEF Unused, ConnState
  <2>2. conn' = [conn EXCEPT ![c] = r]
    BY <1>2 DEF Connect, Unused
  <2> HIDE DEF r
  <2>3. InWork(r)
    BY <2>1 DEF InWork
  <2>4. UNCHANGED <<checkpoint, handled, log, resumable>> /\ mode' = "connected"
        /\ gateway' = c
    BY <1>2 DEF Connect, discord
  <2>5. QED
    BY <2>1, <2>2, <2>3, <2>4, TypedMove DEF TInv, TypeOK
<1>3. CASE Identify(c)
  <2>1. PICK s \in Sessions \ Started :
              /\ log' = [log EXCEPT ![s] = <<Ready>>]
              /\ resumable' = s
              /\ conn' = [conn EXCEPT ![c] = Opened(conn[c], s, 1)]
    BY <1>1, <1>3 DEF Identify, Opened
  <2>2. UNCHANGED <<checkpoint, handled, mode, gateway>> /\ conn[c].state = "opening"
    BY <1>3 DEF Identify
  <2> DEFINE r == Opened(conn[c], s, 1)
  <2>3. r \in ConnState /\ r.doing = 0
    <3>1. conn[c].doing = 0
      BY <1>1, <2>2 DEF InWork
    <3>2. QED
      BY <1>1, <3>1, OpenedTyped
  <2> HIDE DEF r
  <2>4. conn' = [conn EXCEPT ![c] = r]
    BY <2>1 DEF r
  <2>5. conn' \in [Conns -> ConnState] /\ conn'[c] = r
        /\ \A d \in Conns : d # c => conn'[d] = conn[d]
    BY <2>3, <2>4, OtherConns DEF TInv
  <2>6. log \in [Sessions -> Seq(Events)] /\ <<Ready>> \in Seq(Events)
    BY DEF TInv, TypeOK, Events
  <2>7. log' \in [Sessions -> Seq(Events)] /\ log[s] = <<>>
        /\ \A t \in Sessions : t # s => log'[t] = log[t]
    BY <2>1, <2>6 DEF Started
  <2>8. ASSUME NEW d \in Conns
        PROVE  InWork(conn[d])'
    <3>1. CASE d = c
      BY <2>3, <2>5, <3>1 DEF InWork
    <3>2. CASE d # c
      <4>1. InWork(conn[d]) /\ conn'[d] = conn[d] /\ Len(log[s]) = 0
        BY <2>5, <2>7, <3>2, EmptySeq DEF TInv
      <4>2. CASE conn[d].doing # 0
        <5>1. conn[d].session # s
          BY <4>1, <4>2 DEF InWork
        <5>2. QED
          BY <2>7, <4>1, <4>2, <5>1 DEF InWork
      <4>3. CASE conn[d].doing = 0
        BY <4>1, <4>3 DEF InWork
      <4>4. QED
        BY <4>2, <4>3
    <3>3. QED
      BY <3>1, <3>2
  <2>9. QED
    BY <2>1, <2>2, <2>5, <2>7, <2>8 DEF TInv, TypeOK
<1>4. CASE Resume(c)
  <2>1. /\ UNCHANGED <<checkpoint, handled, mode, gateway, log, resumable>>
        /\ conn[c].state = "opening"
        /\ checkpoint.sequence + 1 \in Nat
    BY <1>4 DEF Resume, Resumes, discord, TInv, TypeOK
  <2>2. conn[c].doing = 0
    BY <1>1, <2>1 DEF InWork
  <2>3. CASE resumable \in Sessions
             /\ conn' = [conn EXCEPT ![c] =
                           Opened(conn[c], resumable, checkpoint.sequence + 1)]
    <3> DEFINE r == Opened(conn[c], resumable, checkpoint.sequence + 1)
    <3>1. r \in ConnState /\ r.doing = 0
      <4>1. SUFFICES ASSUME NEW q \in ConnState, q.doing = 0, NEW t \in Sessions, NEW n \in Nat
                     PROVE  LET b == Opened(q, t, n) IN b \in ConnState /\ b.doing = 0
        BY <1>1, <2>1, <2>2, <2>3, ZenonT(120)
      <4>2. QED
        BY <4>1, OpenedTyped
    <3> HIDE DEF r
    <3>2. InWork(r)
      BY <3>1 DEF InWork
    <3>3. conn' = [conn EXCEPT ![c] = r]
      BY <2>3 DEF r
    <3>4. QED
      BY <2>1, <3>1, <3>2, <3>3, TypedMove DEF TInv, TypeOK
  <2>4. CASE conn' = [conn EXCEPT ![c].state = "refused"]
    <3> DEFINE r == [conn[c] EXCEPT !.state = "refused"]
    <3>1. r \in ConnState /\ r.doing = 0
      BY <1>1, <2>2 DEF ConnState
    <3> HIDE DEF r
    <3>2. InWork(r)
      BY <3>1 DEF InWork
    <3>3. conn' = [conn EXCEPT ![c] = r]
      BY <1>1, <2>4 DEF r
    <3>4. QED
      BY <2>1, <3>1, <3>2, <3>3, TypedMove DEF TInv, TypeOK
  <2>5. QED
    BY <1>1, <1>4, <2>3, <2>4 DEF Resume, Resumes, Opened, TInv, TypeOK
<1>5. CASE TakeReady(c)
  <2>1. /\ conn[c].next \in Nat /\ conn[c].session \in Sessions
        /\ UNCHANGED <<handled, mode, gateway, log, resumable>>
        /\ checkpoint' = [session |-> conn[c].session, sequence |-> conn[c].next]
    BY <1>1, <1>5 DEF TakeReady, HasNext, discord, ConnState
  <2> DEFINE r == [conn[c] EXCEPT !.next = conn[c].next + 1]
  <2>2. r \in ConnState /\ r.doing = 0
    BY <1>1, <1>5, <2>1 DEF ConnState, TakeReady, HasNext, Busy
  <2>3. conn' = [conn EXCEPT ![c] = r]
    BY <1>1, <1>5 DEF TakeReady
  <2> HIDE DEF r
  <2>4. InWork(r)
    BY <2>2 DEF InWork
  <2>5. checkpoint' \in [session : Sessions \cup {0}, sequence : Nat]
    BY <2>1
  <2>6. QED
    BY <2>1, <2>2, <2>3, <2>4, <2>5, TypedMove DEF TInv, TypeOK
<1>6. CASE CrashInReady(c)
  <2>1. /\ conn[c].session \in Sessions /\ conn' = [d \in Conns |-> Unused]
        /\ mode' = "down" /\ gateway' = NoConn
        /\ checkpoint' = [session |-> conn[c].session, sequence |-> 0]
        /\ UNCHANGED <<handled, log, resumable>>
    BY <1>1, <1>6 DEF CrashInReady, HasNext, discord, ConnState
  <2>2. \A d \in Conns : InWork(conn[d])'
    BY <2>1 DEF InWork, Unused
  <2>3. checkpoint' \in [session : Sessions \cup {0}, sequence : Nat]
    BY <2>1
  <2>4. QED
    BY <2>1, <2>2, <2>3, UnusedTyped DEF TInv, TypeOK
<1>7. CASE Begin(c)
  <2>1. /\ conn[c].session \in Sessions /\ conn[c].state \in {"open", "invalid"}
        /\ log[conn[c].session] \in Seq(Events)
    BY <1>1, <1>7 DEF Begin, HasNext, ConnState, TInv, TypeOK
  <2>2. /\ conn[c].next \in 1..Len(log[conn[c].session])
        /\ log[conn[c].session][conn[c].next] \in Messages
    BY <1>7, <2>1, LenProperties, ElementOfSeq DEF Begin, HasNext, EventOf, Events
  <2>3. conn[c].next \in Nat /\ conn[c].next + 1 \in Nat
    BY <1>1 DEF ConnState
  <2> DEFINE r == Begun(conn[c], conn[c].next, conn[c].next + 1)
  <2>4. /\ r \in ConnState /\ r.state = conn[c].state /\ r.session = conn[c].session
        /\ r.doing = conn[c].next
    <3>1. SUFFICES ASSUME NEW q \in ConnState, NEW n \in Nat, NEW k \in Nat
                   PROVE  LET b == Begun(q, n, k)
                          IN  /\ b \in ConnState /\ b.state = q.state
                              /\ b.session = q.session /\ b.doing = n
      BY <1>1, <2>3, ZenonT(120)
    <3>2. QED
      BY BegunTyped
  <2>5. conn' = [conn EXCEPT ![c] = r]
    BY <1>1, <1>7 DEF Begin, Begun
  <2> HIDE DEF r
  <2>6. InWork(r)
    BY <2>1, <2>2, <2>4 DEF InWork
  <2>7. UNCHANGED <<checkpoint, handled, mode, gateway, log, resumable>>
    BY <1>7 DEF Begin, discord
  <2>8. QED
    BY <2>4, <2>5, <2>6, <2>7, TypedMove DEF TInv, TypeOK
<1>8. CASE Handle(c)
  <2>1. EventOf(c, conn[c].doing) \in Messages
    BY <1>1, <1>8 DEF Handle, Busy, InWork, EventOf
  <2> DEFINE r == [conn[c] EXCEPT !.done = TRUE]
  <2>2. /\ r \in ConnState /\ r.state = conn[c].state /\ r.session = conn[c].session
        /\ r.doing = conn[c].doing
    BY <1>1 DEF ConnState
  <2>3. conn' = [conn EXCEPT ![c] = r]
    BY <1>1, <1>8 DEF Handle
  <2> HIDE DEF r
  <2>4. InWork(r)
    BY <1>1, <2>2 DEF InWork
  <2>5. /\ handled' = handled \cup {EventOf(c, conn[c].doing)}
        /\ UNCHANGED <<checkpoint, mode, gateway, log, resumable>>
    BY <1>8 DEF Handle, discord
  <2>6. QED
    BY <2>1, <2>2, <2>3, <2>4, <2>5, TypedMove DEF TInv, TypeOK
<1>9. CASE Finish(c)
  <2>1. conn[c].doing \in Nat /\ checkpoint \in [session : Sessions \cup {0}, sequence : Nat]
    BY <1>1 DEF ConnState, TInv, TypeOK
  <2>2. checkpoint' \in [session : Sessions \cup {0}, sequence : Nat]
    BY <1>9, <2>1 DEF Finish
  <2>3. conn' = [conn EXCEPT ![c] = Rest(conn[c])]
        /\ UNCHANGED <<handled, mode, gateway, log, resumable>>
    BY <1>1, <1>9 DEF Finish, discord
  <2>4. QED
    BY <1>1, <2>2, <2>3, EndedInWork, TypedMove DEF TInv, TypeOK
<1>10. CASE Fail(c) \/ \E again \in BOOLEAN : Disconnect(c, again)
  <2>1. /\ mode' \in {"down", "waiting", "connected", "stopping"}
        /\ UNCHANGED <<checkpoint, handled, gateway, log, resumable>>
    BY <1>10 DEF Fail, Disconnect, Closes, discord, TInv, TypeOK
  <2>2. conn' = [conn EXCEPT ![c] = Unused] \/ conn' = [conn EXCEPT ![c] = Shut(conn[c])]
    BY <1>1, <1>10 DEF Fail, Disconnect
  <2>3. QED
    BY <1>1, <2>1, <2>2, EndedInWork, TypedMove DEF TInv, TypeOK
<1>11. CASE InvalidSession(c)
  <2> DEFINE r == [conn[c] EXCEPT !.state = "invalid", !.stale = Busy(c)]
  <2>1. /\ r \in ConnState /\ r.state = "invalid" /\ r.session = conn[c].session
        /\ r.doing = conn[c].doing
    BY <1>1 DEF ConnState, Busy
  <2>2. conn' = [conn EXCEPT ![c] = r]
    BY <1>1, <1>11 DEF InvalidSession
  <2> HIDE DEF r
  <2>3. InWork(r)
    BY <1>1, <2>1 DEF InWork
  <2>4. /\ checkpoint' \in [session : Sessions \cup {0}, sequence : Nat]
        /\ resumable' \in Sessions \cup {0}
        /\ UNCHANGED <<handled, mode, gateway, log>>
    BY <1>11 DEF InvalidSession, TInv, TypeOK
  <2>5. QED
    BY <2>1, <2>2, <2>3, <2>4, TypedMove DEF TInv, TypeOK
<1>12. QED
  BY <1>2, <1>3, <1>4, <1>5, <1>6, <1>7, <1>8, <1>9, <1>10, <1>11 DEF ConnStep

LEMMA TypedNext == TInv /\ [Next]_vars => TInv'
<1> SUFFICES ASSUME TInv, [Next]_vars PROVE TInv'
  OBVIOUS
<1>1. \A c \in Conns : conn[c] \in ConnState /\ InWork(conn[c])
  BY DEF TInv, TypeOK
<1>2. CASE Stop
  <2>1. /\ conn' = [c \in Conns |-> IF conn[c].state = "closed" THEN conn[c]
                                    ELSE Shut(conn[c])]
        /\ mode' = "stopping" /\ UNCHANGED <<checkpoint, handled, gateway, log, resumable>>
    BY <1>2 DEF Stop, discord
  <2>2. \A c \in Conns : conn'[c] \in ConnState /\ InWork(conn'[c])
    BY <1>1, <2>1, EndedInWork
  <2>3. conn' \in [Conns -> ConnState]
    BY <2>1, <2>2
  <2>4. \A c \in Conns : InWork(conn[c])'
    BY <2>1, <2>2 DEF InWork
  <2>5. QED
    BY <2>1, <2>3, <2>4 DEF TInv, TypeOK
<1>3. CASE Close \/ Crash
  <2>1. /\ mode' = "down" /\ gateway' = NoConn /\ conn' = [c \in Conns |-> Unused]
        /\ UNCHANGED <<checkpoint, handled, log, resumable>>
    BY <1>3 DEF Close, Crash, Gone, discord
  <2>2. \A c \in Conns : InWork(conn[c])'
    BY <2>1 DEF InWork, Unused
  <2>3. QED
    BY <2>1, <2>2, UnusedTyped DEF TInv, TypeOK
<1>4. ASSUME NEW m \in Messages, Post(m)
      PROVE  TInv'
  <2> DEFINE s == resumable
  <2>1. s \in Sessions /\ log[s] \in Seq(Events) /\ m \in Events /\ Len(log[s]) \in Nat
    BY <1>4, LenProperties DEF Post, TInv, TypeOK, Events
  <2>2. UNCHANGED <<checkpoint, handled, mode, gateway, conn, resumable>>
        /\ log' = [log EXCEPT ![s] = Append(log[s], m)]
    BY <1>4 DEF Post, TInv, TypeOK
  <2> HIDE DEF s
  <2>3. /\ Append(log[s], m) \in Seq(Events)
        /\ Len(Append(log[s], m)) = Len(log[s]) + 1
        /\ \A i \in 1..Len(log[s]) : Append(log[s], m)[i] = log[s][i]
    BY <2>1, AppendProperties
  <2>4. log' \in [Sessions -> Seq(Events)] /\ log'[s] = Append(log[s], m)
        /\ \A t \in Sessions : t # s => log'[t] = log[t]
    BY <2>1, <2>2, <2>3 DEF TInv, TypeOK
  <2>5. ASSUME NEW t \in Sessions, NEW i \in 1..Len(log[t])
        PROVE  i \in 1..Len(log'[t]) /\ log'[t][i] = log[t][i]
    <3>1. CASE t = s
      BY <2>1, <2>3, <2>4, <3>1
    <3>2. CASE t # s
      BY <2>4, <3>2
    <3>3. QED
      BY <3>1, <3>2
  <2>6. \A c \in Conns : InWork(conn[c])'
    BY <1>1, <2>2, <2>5 DEF InWork
  <2>7. QED
    BY <2>2, <2>4, <2>6 DEF TInv, TypeOK
<1>5. CASE Start \/ Expire \/ UNCHANGED vars
  <2>1. /\ UNCHANGED <<checkpoint, handled, gateway, conn, log>>
        /\ mode' \in {"down", "waiting", "connected", "stopping"}
        /\ resumable' \in Sessions \cup {0}
    BY <1>5 DEF Start, Expire, vars, discord, TInv, TypeOK
  <2>2. QED
    BY <2>1 DEF TInv, TypeOK, InWork
<1>6. QED
  BY <1>2, <1>3, <1>4, <1>5, TypedStep DEF Next

--------------------------------------------------------------------------------
(* The theorems.                                                               *)

\* The checkpoint is never ahead of the work: for any number of connections, of messages,
\* failed callbacks, crashes and restarts, a RESUME skips no undecided message - as long as
\* Discord keeps its session, or no callback outlives the reconnect delay.
\* (onDispatch, saveGatewayState, resumeEpoch)
THEOREM NeverAhead ==
    ASSUME Invalidates = FALSE \/ QuickCallbacks = TRUE
    PROVE  Spec => []CheckpointCovered
<1>1. CASE Invalidates = FALSE
  <2>1. GInv /\ [Next]_vars => GInv'
    BY <1>1, NextKeepsGInv
  <2>2. QED
    BY InitGInv, <2>1, GInvCovers, PTL DEF Spec
<1>2. CASE QuickCallbacks = TRUE
  <2>1. SInv /\ [Next]_vars => SInv'
    BY <1>2, NextKeepsSInv
  <2>2. QED
    BY InitSInv, <2>1, SInvCovers, PTL DEF Spec
<1>3. QED
  BY <1>1, <1>2

\* The state of the connections is well typed, however long callbacks last and whatever
\* Discord does with its sessions.
THEOREM GatewayTypes == Spec => []TypeOK
<1>1. TInv => TypeOK
  BY DEF TInv
<1>2. QED
  BY InitTInv, TypedNext, <1>1, PTL DEF Spec

\* Every step of the gateway is one of a feed that may be replayed, or changes none of it:
\* the checkpoint passes decided messages only, moves within its session, and goes to
\* another one at its READY - however connections end and however long callbacks last, as
\* long as Discord keeps its session, or with any Discord as long as no callback outlives
\* the reconnect delay. (saveGatewayState, resumeEpoch)
THEOREM GatewayOnlyReplays ==
    ASSUME Invalidates = FALSE \/ QuickCallbacks = TRUE
    PROVE  Spec => ReplaysOnly
<1>1. Init => Feed!Init
  BY DEF Init, Feed!Init, Feed!Nowhere
<1>2. CASE Invalidates = FALSE
  <2>1. Init => GInv /\ FreshInv
    BY InitGInv DEF Init, FreshInv, Unused
  <2>2. GInv /\ FreshInv /\ [Next]_vars => (GInv /\ FreshInv)'
    BY <1>2, NextKeepsGInv, NextKeepsFresh
  <2>3. GInv /\ FreshInv /\ [Next]_vars => [Feed!ReplayNext]_(Feed!vars)
    BY <1>2, ReplayStep
  <2>4. QED
    BY <1>1, <2>1, <2>2, <2>3, PTL DEF Spec, ReplaysOnly, Feed!ReplaySpec
<1>3. CASE QuickCallbacks = TRUE
  <2>1. SInv /\ [Next]_vars => SInv'
    BY <1>3, NextKeepsSInv
  <2>2. SInv /\ [Next]_vars => [Feed!ReplayNext]_(Feed!vars)
    BY FeedStep DEF Feed!ReplayNext
  <2>3. QED
    BY <1>1, InitSInv, <2>1, <2>2, PTL DEF Spec, ReplaysOnly, Feed!ReplaySpec
<1>4. QED
  BY <1>2, <1>3

\* Every step of the gateway is one of a resumable feed or changes none of it: within its
\* session the checkpoint moves on only, past decided messages only, and it adopts a
\* session at its READY - however connections end and sessions are invalidated, as long
\* as no callback outlives the reconnect delay. (saveGatewayState)
THEOREM GatewayImplementsFeed ==
    ASSUME QuickCallbacks = TRUE
    PROVE  Spec => ImplementsFeed
<1>1. Init => Feed!Init
  BY DEF Init, Feed!Init, Feed!Nowhere
<1>2. SInv /\ [Next]_vars => SInv'
  BY NextKeepsSInv
<1>3. SInv /\ [Next]_vars => [Feed!Next]_(Feed!vars)
  BY FeedStep
<1>4. QED
  BY InitSInv, <1>1, <1>2, <1>3, PTL DEF Spec, ImplementsFeed, Feed!Spec
================================================================================
