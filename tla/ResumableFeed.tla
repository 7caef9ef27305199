----------------------------- MODULE ResumableFeed -----------------------------
(******************************************************************************)
(* What a durable checkpoint promises, whoever keeps it: a feed of numbered    *)
(* sessions, a set of messages decided about, and the place (session and       *)
(* sequence) from which the feed is resumed.  DiscordGateway keeps it in the   *)
(* session store, HostBridge at a host behind a pipe; both implement this.     *)
(******************************************************************************)
EXTENDS Naturals, Sequences

CONSTANTS
    Messages, Ready,  \* the events: messages, and READY
    Sessions          \* the numbers of sessions, from 1

VARIABLES
    log,        \* by session: its events so far
    handled,    \* messages decided about
    checkpoint  \* where to resume: a session, or 0, and a sequence

vars == <<log, handled, checkpoint>>

Nowhere == [session |-> 0, sequence |-> 0]

Init ==
    /\ log = [s \in Sessions |-> <<>>]
    /\ handled = {}
    /\ checkpoint = Nowhere

Posted == (UNION {{log[s][i] : i \in DOMAIN log[s]} : s \in Sessions}) \ {Ready}

\* a session begins with its READY, and goes on with messages
Grow(s, e) ==
    /\ e = Ready <=> log[s] = <<>>
    /\ log' = [log EXCEPT ![s] = Append(@, e)]
    /\ UNCHANGED <<handled, checkpoint>>

Decide(m) ==
    /\ m \in Posted
    /\ handled' = handled \cup {m}
    /\ UNCHANGED <<log, checkpoint>>

\* another session is the one to resume, at its READY or before
Adopt(s, n) ==
    /\ log[s] # <<>>
    /\ checkpoint.session # s
    /\ checkpoint' = [session |-> s, sequence |-> n]
    /\ UNCHANGED <<log, handled>>

\* within a session the place moves on only, and only past what is decided
Advance(n) ==
    /\ n \in checkpoint.sequence + 1 .. Len(log[checkpoint.session])
    /\ \A i \in 1..n : log[checkpoint.session][i] \in handled \cup {Ready}
    /\ checkpoint' = [checkpoint EXCEPT !.sequence = n]
    /\ UNCHANGED <<log, handled>>

\* an older place of the session is written over a newer one: events come again
FallBack(n) ==
    /\ n \in 1 .. checkpoint.sequence - 1
    /\ checkpoint' = [checkpoint EXCEPT !.sequence = n]
    /\ UNCHANGED <<log, handled>>

\* the session cannot be resumed any more
Forget ==
    /\ checkpoint' = Nowhere
    /\ UNCHANGED <<log, handled>>

Next ==
    \/ \E s \in Sessions :
          \/ \E e \in Messages \cup {Ready} : Grow(s, e)
          \/ \E n \in {0, 1} : Adopt(s, n)
    \/ \E m \in Messages : Decide(m)
    \/ checkpoint.session # 0 /\ \E n \in 1..Len(log[checkpoint.session]) : Advance(n)
    \/ Forget

Spec == Init /\ [][Next]_vars

\* The weaker promise, of a keeper whose writes may come late: nothing is skipped,
\* but what was passed may be sent again.
ReplayNext ==
    \/ Next
    \/ checkpoint.session # 0 /\ \E n \in 1..Len(log[checkpoint.session]) : FallBack(n)

ReplaySpec == Init /\ [][ReplayNext]_vars

--------------------------------------------------------------------------------

TypeOK ==
    /\ log \in [Sessions -> Seq(Messages \cup {Ready})]
    /\ handled \subseteq Messages
    /\ checkpoint \in [session : Sessions \cup {0}, sequence : Nat]

\* Nothing is skipped: what lies before the place to resume from is decided. (The
\* reason for the order in which onDispatch and saveGatewayState are called.)
NothingSkipped ==
    checkpoint.session # 0 =>
        /\ checkpoint.sequence <= Len(log[checkpoint.session])
        /\ \A i \in 1..checkpoint.sequence :
              log[checkpoint.session][i] \in handled \cup {Ready}
================================================================================
