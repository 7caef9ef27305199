------------------------------- MODULE HostBridge -------------------------------
(******************************************************************************)
(* The JSONL bridge of a host that keeps its own ledger: the Gateway session in *)
(* the bridge process, the pipe both ways, and the drain that a clean stop asks *)
(* for.                                                                        *)
(*                                                                            *)
(*   src/runtime/host-bridge.mjs               mode gateway                    *)
(*   src/engine/discord/discord-gateway.mjs    DiscordGatewaySession            *)
(*                                                                            *)
(* The host is external.  It answers requests in their order, hands the bridge *)
(* its checkpoint, and starts no bridge before the last one has ended (README). *)
(* With Faults it may refuse, be too slow or hang up, the process may die and    *)
(* the closing socket may end with another code than 1000.  Discord is the one  *)
(* of DiscordGateway.  A null sequence is 0.                                     *)
(******************************************************************************)
EXTENDS Naturals, Sequences

CONSTANTS
    Messages, Ready,  \* the events: messages, and READY
    MaxSessions,      \* bound: sessions Discord ever makes
    Faults

ASSUME ReadyIsNoMessage == Ready \notin Messages
ASSUME SessionsAreNumbered == MaxSessions \in Nat

VARIABLES
    checkpoint,  \* the host's: session id and sequence; 0 is null
    handled,     \* messages the host has decided about
    refused,     \* the host has refused a request of this process
    outbox,      \* requests on their way to the host
    inbox,       \* its lines on their way back
    mode,        \* the process
    socket,
    session, next,  \* the session on the socket, and its next event
    chain,       \* the dispatch in progress
    log, resumable

host == <<checkpoint, handled, refused>>
pipe == <<outbox, inbox>>
bridge == <<mode, socket, session, next, chain>>
discord == <<log, resumable>>
vars == <<host, pipe, bridge, discord>>

Sessions == 1..MaxSessions
Events == Messages \cup {Ready}

Kinds == {"dispatch", "ready", "sequence", "clear", "heartbeat"}
Request == [kind : Kinds, about : Nat]
StopLine == [kind |-> "stop", about |-> 0, ok |-> TRUE]
Line == [kind : Kinds \cup {"stop"}, about : Nat, ok : BOOLEAN]

Idle == [at |-> "idle", doing |-> 0, stale |-> FALSE]

TypeOK ==
    /\ checkpoint \in [session : Sessions \cup {0}, sequence : Nat]
    /\ handled \subseteq Messages
    /\ refused \in BOOLEAN
    /\ outbox \in Seq(Request) /\ inbox \in Seq(Line)
    /\ mode \in {"off", "up", "draining", "stopped", "failed"}
    /\ socket \in {"none", "opening", "refused", "open", "lost", "closing"}
    /\ session \in Sessions \cup {0} /\ next \in Nat
    /\ chain \in [at : {"idle", "ready", "dispatch", "save"}, doing : Nat, stale : BOOLEAN]
    /\ log \in [Sessions -> Seq(Events)]
    /\ resumable \in Sessions \cup {0}

Init ==
    /\ checkpoint = [session |-> 0, sequence |-> 0]
    /\ handled = {} /\ refused = FALSE
    /\ outbox = <<>> /\ inbox = <<>>
    /\ mode = "off" /\ socket = "none"
    /\ session = 0 /\ next = 0
    /\ chain = Idle
    /\ log = [s \in Sessions |-> <<>>]
    /\ resumable = 0

Running == mode \in {"up", "draining"}
Started == {s \in Sessions : log[s] # <<>>}

Asked(kind) ==
    \/ \E i \in DOMAIN outbox : outbox[i].kind = kind
    \/ \E i \in DOMAIN inbox : inbox[i].kind = kind
AllAnswered == outbox = <<>> /\ \A i \in DOMAIN inbox : inbox[i].kind = "stop"

Ask(kind, about) == outbox' = Append(outbox, [kind |-> kind, about |-> about])

--------------------------------------------------------------------------------
(* The process *)

\* the host spawns a bridge, gives it the checkpoint, and it connects
Start ==
    /\ mode = "off"
    /\ mode' = "up" /\ socket' = "opening"
    /\ session' = 0 /\ next' = 0 /\ chain' = Idle
    /\ outbox' = <<>> /\ inbox' = <<>>
    /\ refused' = FALSE
    /\ UNCHANGED <<checkpoint, handled, discord>>

\* stop: all that is pending is rejected, nothing is asked any more, exit code 1
Fails ==
    /\ mode' = "failed" /\ socket' = "none" /\ chain' = Idle
    /\ UNCHANGED <<session, next>>

\* mutant: no timer for the drain
GiveUpUnlessDraining ==
    /\ Faults
    /\ mode \in {"up", "stopped"}
    /\ Fails
    /\ UNCHANGED <<host, pipe, discord>>

\* EOF, a signal, a request without answer after 10 s or 90 s, a drain after 12 s
GiveUp ==
    /\ Faults
    /\ mode \in {"up", "draining", "stopped"}
    /\ Fails
    /\ UNCHANGED <<host, pipe, discord>>

Exit ==
    /\ mode \in {"stopped", "failed"}
    /\ mode' = "off" /\ socket' = "none"
    /\ UNCHANGED <<host, pipe, session, next, chain, discord>>

Crash ==
    /\ Faults
    /\ mode # "off"
    /\ mode' = "off" /\ socket' = "none" /\ chain' = Idle
    /\ UNCHANGED <<host, pipe, session, next, discord>>

--------------------------------------------------------------------------------
(* The session *)

Identify ==
    /\ mode = "up" /\ socket = "opening"
    /\ checkpoint.session = 0 \/ checkpoint.sequence = 0
    /\ \E s \in Sessions \ Started :
          /\ \A t \in Sessions \ Started : s <= t
          /\ log' = [log EXCEPT ![s] = <<Ready>>]
          /\ resumable' = s
          /\ session' = s
    /\ next' = 1 /\ socket' = "open"
    /\ UNCHANGED <<host, pipe, mode, chain>>

Resume ==
    /\ mode = "up" /\ socket = "opening"
    /\ checkpoint.session # 0 /\ checkpoint.sequence # 0
    /\ IF checkpoint.session = resumable
       THEN /\ socket' = "open" /\ session' = resumable /\ next' = checkpoint.sequence + 1
       ELSE /\ socket' = "refused" /\ UNCHANGED <<session, next>>
    /\ UNCHANGED <<host, pipe, mode, chain, discord>>

\* the next event of the chain: READY saves its session first, others are dispatched
Begin ==
    /\ mode = "up" /\ socket = "open"
    /\ chain.at = "idle"
    /\ next \in DOMAIN log[session]
    /\ LET first == IF log[session][next] = Ready THEN "ready" ELSE "dispatch"
       IN  /\ chain' = [at |-> first, doing |-> next, stale |-> FALSE]
           /\ Ask(first, next)
    /\ next' = next + 1
    /\ UNCHANGED <<host, inbox, mode, socket, session, discord>>

\* op 11 is noted by the host too
Heartbeat ==
    /\ mode = "up" /\ socket = "open"
    /\ ~Asked("heartbeat")
    /\ Ask("heartbeat", 0)
    /\ UNCHANGED <<host, inbox, bridge, discord>>

\* op 9, d: false: a new epoch, and the socket stays until the host has cleared
InvalidSession ==
    /\ mode = "up"
    /\ socket = "refused" \/ (socket = "open" /\ next > 1)
    /\ ~Asked("clear")
    /\ chain' = [chain EXCEPT !.stale = chain.at # "idle"]
    /\ Ask("clear", 0)
    /\ resumable' = IF socket = "open" THEN 0 ELSE resumable
    /\ UNCHANGED <<host, inbox, mode, socket, session, next, log>>

\* op 7, a heartbeat without ACK, op 9, d: true, a frame that cannot be read
Reconnect ==
    /\ mode = "up" /\ socket \in {"opening", "refused", "open"}
    /\ socket' = "lost"
    /\ UNCHANGED <<host, pipe, mode, session, next, chain, discord>>

\* The socket has ended. A bridge does not connect again; one that drains only
\* minds a code other than 1000.
Disconnect ==
    /\ \/ mode = "up"
       \/ mode \in {"draining", "stopped"} /\ (socket = "lost" \/ (socket = "closing" /\ Faults))
    /\ Fails
    /\ UNCHANGED <<host, pipe, discord>>

--------------------------------------------------------------------------------
(* Lines from the host *)

\* what a request that the host has carried out lets go on
Goes(l) ==
    CASE l.kind = "ready" ->
            /\ chain' = [chain EXCEPT !.at = "dispatch"]
            /\ Ask("dispatch", l.about)
            /\ UNCHANGED socket
      [] l.kind = "dispatch" /\ ~chain.stale ->
            /\ chain' = [chain EXCEPT !.at = "save"]
            /\ Ask("sequence", l.about)
            /\ UNCHANGED socket
      [] l.kind = "clear" ->
            /\ socket' = IF socket \in {"open", "refused"} THEN "lost" ELSE socket
            /\ UNCHANGED <<chain, outbox>>
      [] l.kind = "heartbeat" ->
            UNCHANGED <<socket, chain, outbox>>
      [] OTHER ->
            chain' = Idle /\ UNCHANGED <<socket, outbox>>

\* drainGateway: the session takes no more events
ReadStop ==
    /\ mode' = "draining"
    /\ socket' = IF socket = "lost" THEN "lost" ELSE "closing"
    /\ UNCHANGED <<session, next, chain, outbox>>

\* mutant: a refusal is taken for an answer
ReadAnyAnswer ==
    /\ Running
    /\ inbox # <<>>
    /\ inbox' = Tail(inbox)
    /\ IF Head(inbox).kind = "stop" THEN ReadStop
       ELSE Goes(Head(inbox)) /\ UNCHANGED <<mode, session, next>>
    /\ UNCHANGED <<host, discord>>

\* the next line; one that is no answer to anything cannot come from this host
ReadLine ==
    /\ Running
    /\ inbox # <<>>
    /\ inbox' = Tail(inbox)
    /\ LET l == Head(inbox)
       IN  CASE l.kind = "stop" -> ReadStop
             [] l.kind # "stop" /\ l.ok -> Goes(l) /\ UNCHANGED <<mode, session, next>>
             [] OTHER -> Fails /\ UNCHANGED outbox
    /\ UNCHANGED <<host, discord>>

\* mutant: the receipt is not held back by what the host still owes
StoppedAtOnce ==
    /\ mode = "draining"
    /\ mode' = "stopped"
    /\ UNCHANGED <<host, pipe, socket, session, next, chain, discord>>

\* the dispatch has ended and nothing is pending: the receipt
Stopped ==
    /\ mode = "draining"
    /\ chain.at = "idle"
    /\ AllAnswered
    /\ mode' = "stopped"
    /\ UNCHANGED <<host, pipe, socket, session, next, chain, discord>>

--------------------------------------------------------------------------------
(* The host *)

CarriesOut(r) ==
    /\ handled' = IF r.kind = "dispatch" THEN handled \cup ({log[session][r.about]} \ {Ready})
                  ELSE handled
    /\ checkpoint' = CASE r.kind = "ready" -> [session |-> session, sequence |-> 0]
                       [] r.kind = "sequence" -> [checkpoint EXCEPT !.sequence = r.about]
                       [] r.kind = "clear" -> [session |-> 0, sequence |-> 0]
                       [] OTHER -> checkpoint

\* The host takes the next request, carries it out or refuses it, and answers; it
\* may still do so when the bridge has ended.
Answer(ok) ==
    /\ outbox # <<>>
    /\ ok \/ Faults
    /\ outbox' = Tail(outbox)
    /\ IF ok THEN CarriesOut(Head(outbox)) ELSE UNCHANGED <<checkpoint, handled>>
    /\ refused' = (refused \/ ~ok)
    /\ inbox' = Append(inbox, [kind |-> Head(outbox).kind, about |-> Head(outbox).about,
                               ok |-> ok])
    /\ UNCHANGED <<bridge, discord>>

AskStop ==
    /\ mode = "up" /\ ~Asked("stop")
    /\ inbox' = Append(inbox, StopLine)
    /\ UNCHANGED <<host, outbox, bridge, discord>>

Post(m) ==
    /\ resumable # 0
    /\ \A s \in Sessions : \A i \in DOMAIN log[s] : log[s][i] # m
    /\ log' = [log EXCEPT ![resumable] = Append(@, m)]
    /\ UNCHANGED <<host, pipe, bridge, resumable>>

--------------------------------------------------------------------------------

Next ==
    \/ Start \/ GiveUp \/ Exit \/ Crash
    \/ Identify \/ Resume \/ Begin \/ Heartbeat \/ InvalidSession
    \/ Reconnect \/ Disconnect
    \/ ReadLine \/ Stopped
    \/ AskStop \/ \E ok \in BOOLEAN : Answer(ok)
    \/ \E m \in Messages : Post(m)

Spec == Init /\ [][Next]_vars

\* The bridge reads what lies in its pipe and has its timers. Nothing is assumed of
\* the host, nor of Discord.
TimedSpec == Spec /\ WF_vars(ReadLine) /\ WF_vars(Stopped) /\ WF_vars(GiveUp)

--------------------------------------------------------------------------------
(* Properties *)

\* The host's checkpoint keeps the promise of a resumable feed, too, over a pipe on
\* which requests are late, refused or lost with the process: it is never ahead of
\* the host's own work, whatever fails and however often bridges are started.
\* ("commits the received sequence only after waiting for the host's state and
\* dispatch ACKs", README.md)
Feed == INSTANCE ResumableFeed WITH
    checkpoint <- IF checkpoint.session = 0 THEN [session |-> 0, sequence |-> 0] ELSE checkpoint
ImplementsFeed == Feed!Spec

\* A receipt is earned: when the bridge says "stopped" the host owes it nothing and
\* has refused nothing, and the checkpoint is exactly the last event that was begun,
\* so the next bridge neither repeats nor skips one. (drainGateway; README.md: "It
\* confirms up to the last sequence ACK of dispatches that have already started")
ReceiptEarned ==
    mode = "stopped" =>
        /\ AllAnswered
        /\ ~refused
        /\ session # 0 /\ checkpoint.session = session => checkpoint.sequence = next - 1

\* A stop is answered in bounded time, by the receipt or by a failure, however slow
\* the host is. ("If it cannot drain within 12 seconds ...", README.md)
StopEnds == (mode = "draining") ~> (mode \in {"stopped", "failed", "off"})
================================================================================
