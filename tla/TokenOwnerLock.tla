----------------------------- MODULE TokenOwnerLock -----------------------------
(******************************************************************************)
(* The lock that gives a bot token one owner among all processes of a machine: *)
(* a directory with an owner record, a second directory that guards the         *)
(* reclaiming of a dead owner's lock, and the processes that take, reclaim and  *)
(* release it.                                                                *)
(*                                                                            *)
(*   src/engine/discord/token-owner-lock.mjs                                    *)
(*                                                                            *)
(* One action is one call to the file system that other processes can see.     *)
(* A path names whatever lies there at the time of the call. A process is one   *)
(* incarnation: it comes back, as another one, only when nothing on disk or in  *)
(* memory names it any more.                                                  *)
(******************************************************************************)
EXTENDS FiniteSets

CONSTANTS
    Procs, NoProc,
    NoDir,    \* no directory lies at a path
    IOFaults  \* a call to the file system may fail

ASSUME NoProcIsNoProc == NoProc \notin Procs

VARIABLES
    lock,   \* the directory at lockPath: who made it, its owner.json, its temporaries
    guard,  \* who made the directory at lockPath.reclaim
    aside,  \* by process: the directory at its stalePath
    pc,     \* by process: what it does next
    seen,   \* by process: the owner it has read
    broken, \* some process died in the middle of a call, or the guard was not removed
    undone, \* some process has put a dead lock back over one just made
    misled  \* some process has moved away another lock than the one it inspected

vars == <<lock, guard, aside, pc, seen, broken, undone, misled>>

Dir == [maker : Procs, owner : Procs \cup {NoProc}, temps : SUBSET Procs]
ASSUME NoDirIsNoDir == NoDir \notin Dir

Acquiring == {"refused", "inspect", "check", "stale", "moved", "made", "written", "failed",
              "undo", "swap", "unguard"}
Reclaiming == {"inspect", "check", "stale", "moved", "undo", "swap", "unguard"}
Owning == {"held", "leaving"}

TypeOK ==
    /\ lock \in Dir \cup {NoDir}
    /\ guard \in Procs \cup {NoProc}
    /\ aside \in [Procs -> Dir \cup {NoDir}]
    /\ pc \in [Procs -> {"out", "start"} \cup Acquiring \cup Owning]
    /\ seen \in [Procs -> Procs \cup {NoProc}]
    /\ broken \in BOOLEAN /\ undone \in BOOLEAN /\ misled \in BOOLEAN

Init ==
    /\ lock = NoDir
    /\ guard = NoProc
    /\ aside = [p \in Procs |-> NoDir]
    /\ pc = [p \in Procs |-> "start"]
    /\ seen = [p \in Procs |-> NoProc]
    /\ broken = FALSE /\ undone = FALSE /\ misled = FALSE

Alive(p) == pc[p] # "out"
Empty(p) == [maker |-> p, owner |-> NoProc, temps |-> {}]
Goto(p, where) == pc' = [pc EXCEPT ![p] = where]

--------------------------------------------------------------------------------
(* createOwnedLock *)

\* mkdir of the lock; if it is there, its owner is to be looked at, or, by one who
\* has just moved a stale one away, the race is lost
Create(p) ==
    /\ pc[p] \in {"start", "moved"}
    /\ \/ lock = NoDir /\ lock' = Empty(p) /\ Goto(p, "made")
       \/ lock # NoDir /\ UNCHANGED lock
          /\ Goto(p, IF pc[p] = "start" THEN "refused" ELSE "unguard")
    /\ UNCHANGED <<guard, aside, seen, broken, undone, misled>>

\* the owner record, under a temporary name
Write(p) ==
    /\ pc[p] = "made"
    /\ \/ lock # NoDir /\ lock' = [lock EXCEPT !.temps = @ \cup {p}] /\ Goto(p, "written")
       \/ lock = NoDir /\ UNCHANGED lock /\ Goto(p, "failed")
    /\ UNCHANGED <<guard, aside, seen, broken, undone, misled>>

\* its rename to owner.json
Publish(p) ==
    /\ pc[p] = "written"
    /\ \/ /\ lock # NoDir /\ p \in lock.temps
          /\ lock' = [lock EXCEPT !.owner = p, !.temps = @ \ {p}]
          /\ Goto(p, IF guard = p THEN "swap" ELSE "held")
       \/ /\ ~(lock # NoDir /\ p \in lock.temps)
          /\ UNCHANGED lock
          /\ Goto(p, "failed")
    /\ UNCHANGED <<guard, aside, seen, broken, undone, misled>>

\* A call fails: disk full, no boot id, access control... The error leads to the
\* clause that cleans up after what has been done so far.
Fault(p) ==
    /\ IOFaults
    /\ \/ pc[p] \in {"made", "written"} /\ Goto(p, "failed")
       \/ pc[p] \in {"moved", "swap"} /\ Goto(p, "undo")
       \/ pc[p] \in {"inspect", "stale", "undo"} /\ Goto(p, "unguard")
       \/ pc[p] = "leaving" /\ Goto(p, "out")
    /\ UNCHANGED <<lock, guard, aside, seen, broken, undone, misled>>

\* The calls about the guard have no such clause: it stays when it was made and cannot
\* be given to its owner alone, or when it cannot be removed.
GuardFault(p) ==
    /\ IOFaults
    /\ \/ pc[p] = "refused" /\ guard = NoProc /\ guard' = p
       \/ pc[p] \in {"swap", "unguard"} /\ UNCHANGED guard
    /\ aside' = [aside EXCEPT ![p] = NoDir]
    /\ Goto(p, "out")
    /\ broken' = TRUE
    /\ UNCHANGED <<lock, seen, undone, misled>>

\* the directory this process made is removed again, by its path
Clean(p) ==
    /\ pc[p] = "failed"
    /\ lock' = NoDir
    /\ Goto(p, IF guard = p THEN "undo" ELSE "out")
    /\ UNCHANGED <<guard, aside, seen, broken, undone, misled>>

--------------------------------------------------------------------------------
(* Reclaiming the lock of a dead owner *)

\* mutant: the loser of the guard removes it as well
LoserUnguards(p) ==
    /\ pc[p] = "refused"
    /\ \/ guard = NoProc /\ guard' = p /\ Goto(p, "inspect")
       \/ guard # NoProc /\ guard' = NoProc /\ Goto(p, "out")
    /\ UNCHANGED <<lock, aside, seen, broken, undone, misled>>

\* mkdir of the guard; the loser gives up
TakeGuard(p) ==
    /\ pc[p] = "refused"
    /\ \/ guard = NoProc /\ guard' = p /\ Goto(p, "inspect")
       \/ guard # NoProc /\ UNCHANGED guard /\ Goto(p, "out")
    /\ UNCHANGED <<lock, aside, seen, broken, undone, misled>>

\* mutant: a lock without an owner record is taken for stale
ReadOwnerless(p) ==
    /\ pc[p] = "inspect"
    /\ \/ /\ lock # NoDir /\ lock.owner # NoProc
          /\ seen' = [seen EXCEPT ![p] = lock.owner]
          /\ Goto(p, "check")
       \/ /\ lock # NoDir /\ lock.owner = NoProc
          /\ UNCHANGED seen
          /\ Goto(p, "stale")
       \/ /\ lock = NoDir
          /\ UNCHANGED seen
          /\ Goto(p, "unguard")
    /\ UNCHANGED <<lock, guard, aside, broken, undone, misled>>

\* inspectExistingLock, its first half: the record is read; a lock without one may
\* belong to a slow initializer and is never reclaimed
ReadOwner(p) ==
    /\ pc[p] = "inspect"
    /\ \/ /\ lock # NoDir /\ lock.owner # NoProc
          /\ seen' = [seen EXCEPT ![p] = lock.owner]
          /\ Goto(p, "check")
       \/ /\ ~(lock # NoDir /\ lock.owner # NoProc)
          /\ UNCHANGED seen
          /\ Goto(p, "unguard")
    /\ UNCHANGED <<lock, guard, aside, broken, undone, misled>>

\* Its second half: whether the process of that record lives. Another host or boot,
\* EPERM and a reused process id count as living.
Check(p) ==
    /\ pc[p] = "check"
    /\ \/ ~Alive(seen[p]) /\ Goto(p, "stale")
       \/ Goto(p, "unguard")
    /\ UNCHANGED <<lock, guard, aside, seen, broken, undone, misled>>

\* rename to stalePath of the lock that lies there now
Move(p) ==
    /\ pc[p] = "stale"
    /\ \/ /\ lock # NoDir
          /\ aside' = [aside EXCEPT ![p] = lock]
          /\ lock' = NoDir
          /\ misled' = (misled \/ lock.owner # seen[p])
          /\ Goto(p, "moved")
       \/ /\ lock = NoDir
          /\ UNCHANGED <<aside, lock, misled>>
          /\ Goto(p, "unguard")
    /\ UNCHANGED <<guard, seen, broken, undone>>

\* createOwnedLock failed: the stale lock is put back, which the file system allows
\* if nothing, or an empty directory, lies there
Undo(p) ==
    /\ pc[p] = "undo"
    /\ LET free == lock = NoDir \/ (lock.owner = NoProc /\ lock.temps = {})
       IN  /\ lock' = IF free THEN aside[p] ELSE lock
           /\ undone' = (undone \/ (free /\ lock # NoDir))
    /\ Goto(p, "unguard")
    /\ UNCHANGED <<guard, aside, seen, broken, misled>>

\* mutant: the guard is removed on success only
KeepGuard(p) ==
    /\ pc[p] \in {"swap", "unguard"}
    /\ guard' = IF pc[p] = "swap" THEN NoProc ELSE guard
    /\ aside' = [aside EXCEPT ![p] = NoDir]
    /\ Goto(p, IF pc[p] = "swap" THEN "held" ELSE "out")
    /\ UNCHANGED <<lock, seen, broken, undone, misled>>

\* the stale lock and the guard are removed, and the process has the token or fails
Unguard(p) ==
    /\ pc[p] \in {"swap", "unguard"}
    /\ guard' = NoProc
    /\ aside' = [aside EXCEPT ![p] = NoDir]
    /\ Goto(p, IF pc[p] = "swap" THEN "held" ELSE "out")
    /\ UNCHANGED <<lock, seen, broken, undone, misled>>

--------------------------------------------------------------------------------
(* Release, death and another incarnation *)

\* release reads the record first; a process that is not its own owner fails
Leave(p) ==
    /\ pc[p] = "held"
    /\ Goto(p, IF lock # NoDir /\ lock.owner = p THEN "leaving" ELSE "out")
    /\ UNCHANGED <<lock, guard, aside, seen, broken, undone, misled>>

\* rename of the lock to its release path, from where it is removed
Release(p) ==
    /\ pc[p] = "leaving"
    /\ lock' = NoDir
    /\ Goto(p, "out")
    /\ UNCHANGED <<guard, aside, seen, broken, undone, misled>>

Die(p) ==
    /\ Alive(p)
    /\ Goto(p, "out")
    /\ broken' = (broken \/ pc[p] \in Acquiring \cup {"leaving"})
    /\ UNCHANGED <<lock, guard, aside, seen, undone, misled>>

\* something on disk or in the memory of a process names this incarnation
Names(dir, p) == dir # NoDir /\ (dir.owner = p \/ dir.maker = p \/ p \in dir.temps)
Named(p) ==
    \/ guard = p \/ Names(lock, p)
    \/ \E q \in Procs : Alive(q) /\ (seen[q] = p \/ Names(aside[q], p))

Restart(p) ==
    /\ pc[p] = "out"
    /\ ~Named(p)
    /\ pc' = [pc EXCEPT ![p] = "start"]
    /\ aside' = [aside EXCEPT ![p] = NoDir]
    /\ seen' = [seen EXCEPT ![p] = NoProc]
    /\ UNCHANGED <<lock, guard, broken, undone, misled>>

--------------------------------------------------------------------------------

Step(p) ==
    \/ Create(p) \/ Write(p) \/ Publish(p) \/ Fault(p) \/ GuardFault(p) \/ Clean(p)
    \/ TakeGuard(p) \/ ReadOwner(p) \/ Check(p) \/ Move(p) \/ Undo(p) \/ Unguard(p)
    \/ Leave(p) \/ Release(p) \/ Die(p) \/ Restart(p)

Next == \E p \in Procs : Step(p)

Spec == Init /\ [][Next]_vars

--------------------------------------------------------------------------------
(* Properties *)

\* One token, one owner: no two processes have the lock, whichever of them started,
\* died, reclaimed, released or failed to write meanwhile. ("fail closed ... rather
\* than risk two live Gateway owners", inspectExistingLock) Only two things can break it:
\* a dead lock put back over one just made, which a failing write leads to, and the rename
\* of a lock made after the inspection had read its predecessor's record.
MutualExclusion ==
    ~undone /\ ~misled => \A p, q \in Procs : pc[p] \in Owning /\ pc[q] \in Owning => p = q

\* Without a failing call, two live owners are never risked: "fail closed and require an
\* explicit operator cleanup rather than risk two live Gateway owners"
\* (token-owner-lock.mjs:56).
OneLiveOwner == \A p, q \in Procs : pc[p] \in Owning /\ pc[q] \in Owning => p = q

\* Whatever fails and whoever dies, one process at a time looks into a lock and
\* reclaims it. (acquireStaleReclaimGuard)
OneReclaimer ==
    \A p, q \in Procs :
        pc[p] \in Reclaiming /\ pc[q] \in Reclaiming => p = q

\* Only a death in the middle of a call, a guard that could not be protected or removed,
\* or one of the two histories above can block the token for good, and no other failing
\* call does: otherwise,
\* whenever nobody is in the middle of one, no guard is left behind and a lock that
\* lies there names an owner, living or reclaimable.
NoLeftovers ==
    ~broken /\ ~undone /\ ~misled /\ (\A p \in Procs : pc[p] \notin Acquiring \cup {"leaving"}) =>
        /\ guard = NoProc
        /\ lock # NoDir => lock.owner # NoProc
================================================================================
