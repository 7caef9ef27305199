----------------------------- MODULE DiscordGateway -----------------------------
(******************************************************************************)
(* The Gateway connections of the service, one DiscordGatewaySession each, the *)
(* reconnect loop that makes them, and the durable checkpoint (session id and  *)
(* sequence) from which the next connection resumes.                          *)
(*                                                                            *)
(*   src/engine/discord/discord-gateway.mjs  DiscordGatewaySession             *)
(*   src/engine/discord/service-runtime.mjs  runDiscordService, its loop       *)
(*   src/engine/discord/store-conversation-writer.mjs  gateway_state           *)
(*                                                                            *)
(* Discord is external: it keeps one resumable session, numbers its events     *)
(* from 1 (READY), replays those after the sequence of a RESUME, and may end a  *)
(* connection or, with Invalidates, the session.  A null sequence is 0.         *)
(* What onDispatch does with a message is DiscordService's; here it is the one  *)
(* durable decision about it.  An object in memory is a slot of Conns, used     *)
(* again once the object has nothing left to do.                              *)
(******************************************************************************)
EXTENDS Naturals, Sequences

CONSTANTS
    Messages, Ready,  \* the events: messages, and READY
    Conns, NoConn,
    MaxSessions,      \* bound: sessions Discord ever makes
    QuickCallbacks,   \* every callback ends within the reconnect delay
    Invalidates       \* Discord may invalidate a session

ASSUME ReadyIsNoMessage == Ready \notin Messages
ASSUME SessionsAreNumbered == MaxSessions \in Nat

VARIABLES
    checkpoint,  \* gateway_state: session id and sequence; 0 is null
    handled,     \* messages decided about (ingress_messages)
    mode,        \* where runDiscordService is
    gateway,     \* the newest DiscordGatewaySession of this process
    conn,        \* all of them
    log,         \* by session: the events Discord has numbered
    resumable    \* the session Discord would resume, or 0

vars == <<checkpoint, handled, mode, gateway, conn, log, resumable>>
discord == <<log, resumable>>

Sessions == 1..MaxSessions
Events == Messages \cup {Ready}

Unused == [state |-> "closed", session |-> 0, next |-> 0, doing |-> 0,
           done |-> FALSE, stale |-> FALSE]

ConnState ==
    [ state   : {"opening", "refused", "open", "invalid", "closed"},
      session : Sessions \cup {0},
      next    : Nat,      \* the sequence of the next event of the dispatch chain
      doing   : Nat,      \* the sequence whose dispatch has begun, or 0
      done    : BOOLEAN,  \* its callback has made its decision
      stale   : BOOLEAN ] \* it began in an earlier resumeEpoch

TypeOK ==
    /\ checkpoint \in [session : Sessions \cup {0}, sequence : Nat]
    /\ handled \subseteq Messages
    /\ mode \in {"down", "waiting", "connected", "stopping"}
    /\ gateway \in Conns \cup {NoConn}
    /\ conn \in [Conns -> ConnState]
    /\ log \in [Sessions -> Seq(Events)]
    /\ resumable \in Sessions \cup {0}

Init ==
    /\ checkpoint = [session |-> 0, sequence |-> 0]
    /\ handled = {}
    /\ mode = "down"
    /\ gateway = NoConn
    /\ conn = [c \in Conns |-> Unused]
    /\ log = [s \in Sessions |-> <<>>]
    /\ resumable = 0

Started == {s \in Sessions : log[s] # <<>>}
Busy(c) == conn[c].doing # 0
EventOf(c, i) == log[conn[c].session][i]
EventsUpTo(s, n) == {log[s][i] : i \in 1..n}

--------------------------------------------------------------------------------
(* Opening a connection *)

\* the loop makes the next object; the callback of an earlier one may still run
Connect(c) ==
    /\ mode = "waiting"
    /\ conn[c] = Unused
    /\ QuickCallbacks => \A d \in Conns : ~Busy(d)
    /\ mode' = "connected"
    /\ gateway' = c
    /\ conn' = [conn EXCEPT ![c].state = "opening"]
    /\ UNCHANGED <<checkpoint, handled, discord>>

\* #hello without a whole checkpoint: IDENTIFY, and Discord makes a session
Identify(c) ==
    /\ conn[c].state = "opening"
    /\ checkpoint.session = 0 \/ checkpoint.sequence = 0
    /\ \E s \in Sessions \ Started :
          /\ \A t \in Sessions \ Started : s <= t
          /\ log' = [log EXCEPT ![s] = <<Ready>>]
          /\ resumable' = s
          /\ conn' = [conn EXCEPT ![c] = [@ EXCEPT !.state = "open", !.session = s, !.next = 1]]
    /\ UNCHANGED <<checkpoint, handled, mode, gateway>>

\* what Discord answers to a RESUME: it replays, or refuses a session it does not
\* know; a sequence it has not sent is answered by close 4007, a Disconnect
Resumes(c, first) ==
    /\ conn[c].state = "opening"
    /\ checkpoint.session # 0 /\ checkpoint.sequence # 0
    /\ \/ /\ checkpoint.session = resumable
          /\ checkpoint.sequence <= Len(log[resumable])
          /\ conn' = [conn EXCEPT ![c] = [@ EXCEPT !.state = "open", !.session = resumable,
                                                  !.next = first]]
       \/ /\ checkpoint.session # resumable
          /\ conn' = [conn EXCEPT ![c].state = "refused"]
    /\ UNCHANGED <<checkpoint, handled, mode, gateway, discord>>

\* mutant: off by one in the sequence of the RESUME
ResumeAfterNext(c) == Resumes(c, checkpoint.sequence + 2)

\* #hello with one: RESUME
Resume(c) == Resumes(c, checkpoint.sequence + 1)

--------------------------------------------------------------------------------
(* Dispatches: one after another on a connection *)

HasNext(c) ==
    /\ conn[c].state \in {"open", "invalid"} /\ conn[c].session # 0
    /\ ~Busy(c)
    /\ conn[c].next \in DOMAIN log[conn[c].session]

\* READY is the new checkpoint; its callback returns at once
TakeReady(c) ==
    /\ HasNext(c)
    /\ EventOf(c, conn[c].next) = Ready
    /\ checkpoint' = [session |-> conn[c].session, sequence |-> conn[c].next]
    /\ conn' = [conn EXCEPT ![c].next = @ + 1]
    /\ UNCHANGED <<handled, mode, gateway, discord>>

\* The next message of the chain begins. One that a closed object has not begun is
\* never looked at by it.
Begin(c) ==
    /\ HasNext(c)
    /\ EventOf(c, conn[c].next) # Ready
    /\ conn' = [conn EXCEPT ![c] =
                  [@ EXCEPT !.doing = conn[c].next, !.next = conn[c].next + 1,
                            !.stale = FALSE]]
    /\ UNCHANGED <<checkpoint, handled, mode, gateway, discord>>

\* the callback decides about the message, on whatever is left of the connection
Handle(c) ==
    /\ Busy(c) /\ ~conn[c].done
    /\ handled' = handled \cup {EventOf(c, conn[c].doing)}
    /\ conn' = [conn EXCEPT ![c].done = TRUE]
    /\ UNCHANGED <<checkpoint, mode, gateway, discord>>

Rest(r) ==
    IF r.state = "closed" THEN Unused
    ELSE [r EXCEPT !.doing = 0, !.done = FALSE, !.stale = FALSE]

\* mutant: the sequence is saved before the callback has decided
FinishEarly(c) ==
    /\ Busy(c)
    /\ checkpoint' = IF conn[c].stale THEN checkpoint
                     ELSE [checkpoint EXCEPT !.sequence = conn[c].doing]
    /\ conn' = [conn EXCEPT ![c] = Rest(@)]
    /\ UNCHANGED <<handled, mode, gateway, discord>>

\* the callback has returned: its sequence is saved, unless the epoch has changed
Finish(c) ==
    /\ Busy(c) /\ conn[c].done
    /\ checkpoint' = IF conn[c].stale THEN checkpoint
                     ELSE [checkpoint EXCEPT !.sequence = conn[c].doing]
    /\ conn' = [conn EXCEPT ![c] = Rest(@)]
    /\ UNCHANGED <<handled, mode, gateway, discord>>

--------------------------------------------------------------------------------
(* The end of a connection *)

Shut(r) == IF r.doing = 0 THEN Unused ELSE [r EXCEPT !.state = "closed"]

\* #disconnect and the loop after it; a code that cannot be resumed ends the service
Closes(c, again) ==
    /\ conn[c].state # "closed"
    /\ mode' = IF mode = "stopping" \/ ~again THEN "stopping" ELSE "waiting"

\* The socket closes, for any reason: network, op 7, a resumable op 9, a heartbeat
\* without its ACK, close 4007 after a RESUME with a sequence Discord never sent, ...
Disconnect(c, again) ==
    /\ conn[c].state \in {"opening", "open", "refused", "invalid"}
    /\ Closes(c, again)
    /\ conn' = [conn EXCEPT ![c] = Shut(@)]
    /\ UNCHANGED <<checkpoint, handled, gateway, discord>>

\* the callback throws: the sequence is not saved, and the connection is closed
Fail(c) ==
    /\ Busy(c)
    /\ IF conn[c].state = "closed" THEN UNCHANGED mode ELSE Closes(c, TRUE)
    /\ conn' = [conn EXCEPT ![c] = Unused]
    /\ UNCHANGED <<checkpoint, handled, gateway, discord>>

\* op 9, d: false, up to the await before close: the next event may still begin
InvalidSession(c) ==
    /\ \/ conn[c].state = "refused"
       \/ Invalidates /\ conn[c].state = "open"
    /\ checkpoint' = [session |-> 0, sequence |-> 0]
    /\ resumable' = IF conn[c].state = "open" THEN 0 ELSE resumable
    /\ conn' = [conn EXCEPT ![c] = [@ EXCEPT !.state = "invalid", !.stale = Busy(c)]]
    /\ UNCHANGED <<handled, mode, gateway, log>>

--------------------------------------------------------------------------------
(* The service *)

Start ==
    /\ mode = "down"
    /\ mode' = "waiting"
    /\ UNCHANGED <<checkpoint, handled, gateway, conn, discord>>

\* stop: the newest connection is closed, whatever it is waiting for
Stop ==
    /\ mode \in {"waiting", "connected"}
    /\ mode' = "stopping"
    /\ conn' = [c \in Conns |-> IF conn[c].state = "closed" THEN conn[c] ELSE Shut(conn[c])]
    /\ UNCHANGED <<checkpoint, handled, gateway, discord>>

Gone ==
    /\ mode' = "down"
    /\ gateway' = NoConn
    /\ conn' = [c \in Conns |-> Unused]
    /\ UNCHANGED <<checkpoint, handled, discord>>

\* cleanup: drain waits for the callback of the newest connection, then the store
\* is closed; an older one finds it closed
Close ==
    /\ mode = "stopping"
    /\ gateway # NoConn => ~Busy(gateway)
    /\ Gone

Crash == mode # "down" /\ Gone

\* between the two saves of a READY: the session is known, no sequence is
CrashInReady(c) ==
    /\ HasNext(c)
    /\ EventOf(c, conn[c].next) = Ready
    /\ checkpoint' = [session |-> conn[c].session, sequence |-> 0]
    /\ mode' = "down" /\ gateway' = NoConn /\ conn' = [d \in Conns |-> Unused]
    /\ UNCHANGED <<handled, discord>>

\* Discord has an event for the bot: its session is given it, connected or not
Post(m) ==
    /\ resumable # 0
    /\ \A s \in Sessions : \A i \in DOMAIN log[s] : log[s][i] # m
    /\ log' = [log EXCEPT ![resumable] = Append(@, m)]
    /\ UNCHANGED <<checkpoint, handled, mode, gateway, conn, resumable>>

\* a session nobody is connected to is forgotten
Expire ==
    /\ Invalidates
    /\ resumable # 0
    /\ \A c \in Conns : conn[c].state = "open" => conn[c].session # resumable
    /\ resumable' = 0
    /\ UNCHANGED <<checkpoint, handled, mode, gateway, conn, log>>

--------------------------------------------------------------------------------

ConnStep(c) ==
    \/ Connect(c) \/ Identify(c) \/ Resume(c)
    \/ TakeReady(c) \/ CrashInReady(c)
    \/ Begin(c) \/ Handle(c) \/ Finish(c) \/ Fail(c)
    \/ InvalidSession(c)
    \/ \E again \in BOOLEAN : Disconnect(c, again)

Next ==
    \/ \E c \in Conns : ConnStep(c)
    \/ Start \/ Stop \/ Close \/ Crash
    \/ \E m \in Messages : Post(m)
    \/ Expire

Spec == Init /\ [][Next]_vars

\* The loop goes on by timers. A connection that is made again and again lasts long
\* enough some time, and a callback that is tried again and again succeeds some
\* time: without either the code cannot be expected to get anywhere.
Fairness ==
    /\ WF_vars(\E c \in Conns : Connect(c))
    /\ SF_vars(\E c \in Conns : Identify(c) \/ Resume(c))
    /\ SF_vars(\E c \in Conns : TakeReady(c) \/ Begin(c))
    /\ SF_vars(\E c \in Conns : Handle(c))
    /\ SF_vars(\E c \in Conns : Finish(c))

FairSpec == Spec /\ Fairness

--------------------------------------------------------------------------------
(* Properties *)

\* One bot token has one live connection: however connections fail, only the newest
\* object listens to Discord. (The loop of runDiscordService and #disconnect.)
OneConnection ==
    /\ mode = "connected" <=> \E c \in Conns : conn[c].state # "closed"
    /\ \A c \in Conns : conn[c].state # "closed" => c = gateway

\* The checkpoint is never ahead of the work: what it says needs no replay, the
\* session it names has sent, and every message among it is durably decided. So no
\* failed callback, reconnect, crash or restart makes a RESUME skip a message.
\* ("failed callbacks never advance sequence", test/engine-runtime.test.mjs)
CheckpointCovered ==
    checkpoint.session # 0 =>
        /\ checkpoint.sequence <= Len(log[checkpoint.session])
        /\ EventsUpTo(checkpoint.session, checkpoint.sequence) \subseteq handled \cup {Ready}

\* The checkpoint keeps the promise of a resumable feed: it moves on within its
\* session and never back, only past decided messages, and it changes to another
\* session by its READY only. (A sequence without a session id is never resumed.)
Feed == INSTANCE ResumableFeed WITH
    checkpoint <- IF checkpoint.session = 0 THEN [session |-> 0, sequence |-> 0] ELSE checkpoint
ImplementsFeed == Feed!Spec

\* Where a callback outlives its connection, its sequence may be saved after a later one
\* of the connection that follows: then events come again, and that is all. The
\* checkpoint still passes decided messages only, moves within the log of its session,
\* and goes to another one at its READY. (saveGatewayState takes any sequence, lower ones
\* too, and no session with it.)
ReplaysOnly == Feed!ReplaySpec

\* No message of a session is forgotten: as long as the service stays up and Discord
\* keeps the session, every event it has numbered comes to its decision.
EventuallyHandled ==
    \A m \in Messages, s \in Sessions :
        (/\ resumable = s
         /\ checkpoint.session = s /\ checkpoint.sequence # 0
         /\ m \in EventsUpTo(s, Len(log[s])))
          ~> m \in handled \/ resumable # s \/ mode \in {"stopping", "down"}

\* Work of a session that was invalidated does not come back: its late callback
\* never writes its sequence beside the id of the session that follows. ("invalid-
\* session epoch does not resurrect it", test/engine-runtime.test.mjs)
NoResurrection ==
    [][\A c \in Conns :
          conn[c].doing # 0 /\ conn'[c].doing = 0
            /\ checkpoint'.sequence # checkpoint.sequence
              => checkpoint.session \in {0, conn[c].session}]_vars
================================================================================
