---------------------------- MODULE OwnershipProofs ----------------------------
(******************************************************************************)
(* Who owns what, for any set of processes and any number of launches.          *)
(*                                                                              *)
(* A bot token, by its lock: one process reclaims at a time, whatever fails;    *)
(* and one of them owns the token, whatever fails and whoever comes between two *)
(* calls, until a dead lock is put back over one just made or a reclaimer moves *)
(* another lock away than the one it has inspected (token_lock_race shows that  *)
(* the second does happen).                                                     *)
(*                                                                              *)
(* The service row, by the generation of a launch: what the canary of a cutover *)
(* says of the candidate, and what a stop command says of the launch it asked,  *)
(* is true whatever is launched, dies, is rebooted or takes the row over.       *)
(******************************************************************************)
EXTENDS TokenOwnerLock, ServiceOwnership, TLAPS

\* a process that reclaims has made the guard
GuardInv == \A p \in Procs : pc[p] \in Reclaiming => guard = p

RInv == TypeOK /\ GuardInv

\* A process from its mkdir to its release has made the directory that lies there,
\* which has no owner before it publishes one, and its temporary, once written.
MakersInv ==
    \A p \in Procs :
        /\ pc[p] \in {"made", "written", "failed", "swap"} \cup Owning
             => lock # NoDir /\ lock.maker = p
        /\ pc[p] \in {"made", "written", "failed"} => lock.owner = NoProc
        /\ pc[p] = "written" => p \in lock.temps

\* What an inspection has read stays true of the process it names, which does not come
\* back while it is named; of the lock, which others may replace, it says nothing.
InspectedInv ==
    \A p \in Procs :
        /\ pc[p] \in {"check", "stale"} => seen[p] # NoProc
        /\ pc[p] = "stale" => pc[seen[p]] = "out"

\* the owner of a lock is who made it, also of one that was moved aside
OwnerMade(dir) == dir # NoDir /\ dir.owner # NoProc => dir.owner = dir.maker
OwnersInv == OwnerMade(lock) /\ \A p \in Procs : OwnerMade(aside[p])

Rest == MakersInv /\ InspectedInv /\ OwnersInv
MInv == RInv /\ (~undone /\ ~misled => Rest)

--------------------------------------------------------------------------------
(* Types and the guard *)

LEMMA InitTyped == Init => MInv
BY NoProcIsNoProc, NoDirIsNoDir
   DEF Init, MInv, RInv, TypeOK, GuardInv, Rest, MakersInv, InspectedInv, OwnersInv,
       OwnerMade, Reclaiming, Owning

LEMMA StepTyped ==
    ASSUME TypeOK, [Next]_vars
    PROVE  TypeOK'
<1> USE DEF TypeOK, Dir, Acquiring, Owning, Goto
<1>1. CASE UNCHANGED vars
  BY <1>1 DEF vars
<1>2. ASSUME NEW p \in Procs, Step(p)
      PROVE  TypeOK'
  <2>1. CASE Create(p)
    BY <2>1 DEF Create, Empty
  <2>2. CASE Write(p)
    BY <2>2 DEF Write
  <2>3. CASE Publish(p)
    <3>1. CASE lock # NoDir /\ p \in lock.temps
      <4>1. lock \in Dir /\ lock' = [lock EXCEPT !.owner = p, !.temps = lock.temps \ {p}]
        BY <2>3, <3>1 DEF Publish
      <4>2. lock' \in Dir
        BY <4>1
      <4>3. QED
        BY <2>3, <3>1, <4>2 DEF Publish
    <3>2. CASE ~(lock # NoDir /\ p \in lock.temps)
      BY <2>3, <3>2 DEF Publish
    <3>3. QED
      BY <3>1, <3>2
  <2>4. CASE Fault(p)
    BY <2>4 DEF Fault
  <2>5. CASE Clean(p)
    BY <2>5 DEF Clean
  <2>6. CASE TakeGuard(p)
    BY <2>6 DEF TakeGuard
  <2>7. CASE ReadOwner(p)
    BY <2>7 DEF ReadOwner
  <2>8. CASE Check(p)
    BY <2>8 DEF Check
  <2>9. CASE Move(p)
    BY <2>9 DEF Move
  <2>10. CASE Undo(p)
    BY <2>10 DEF Undo
  <2>11. CASE Unguard(p)
    BY <2>11 DEF Unguard
  <2>12. CASE Leave(p)
    BY <2>12 DEF Leave
  <2>13. CASE Release(p)
    BY <2>13 DEF Release
  <2>14. CASE Die(p)
    BY <2>14 DEF Die
  <2>15. CASE Restart(p)
    BY <2>15 DEF Restart
  <2>16. CASE GuardFault(p)
    BY <2>16 DEF GuardFault
  <2>17. QED
    BY <1>2, <2>1, <2>2, <2>3, <2>4, <2>5, <2>6, <2>7, <2>8, <2>9, <2>10, <2>11, <2>12,
       <2>13, <2>14, <2>15, <2>16 DEF Step
<1>3. QED
  BY <1>1, <1>2 DEF Next

\* The lock, the guard and the processes are always of their types.
THEOREM LockTypes == Spec => []TypeOK
<1>1. Init => TypeOK
  BY InitTyped DEF MInv, RInv
<1>2. TypeOK /\ [Next]_vars => TypeOK'
  BY StepTyped
<1>3. QED
  BY <1>1, <1>2, PTL DEF Spec

LEMMA StepGuard ==
    ASSUME RInv, [Next]_vars
    PROVE  RInv'
<1>1. TypeOK'
  BY StepTyped DEF RInv
<1>2. GuardInv'
  <2> USE DEF RInv, TypeOK, GuardInv, Reclaiming, Goto
  <2>1. CASE UNCHANGED vars
    BY <2>1 DEF vars
  <2>2. ASSUME NEW p \in Procs, Step(p)
        PROVE  GuardInv'
    <3>1. CASE Create(p) \/ Write(p) \/ Publish(p) \/ Fault(p) \/ Clean(p)
      BY <3>1 DEF Create, Write, Publish, Fault, Clean
    <3>2. CASE TakeGuard(p)
      BY <3>2, NoProcIsNoProc DEF TakeGuard
    <3>3. CASE ReadOwner(p) \/ Check(p) \/ Move(p) \/ Undo(p)
      BY <3>3 DEF ReadOwner, Check, Move, Undo
    <3>4. CASE Unguard(p) \/ GuardFault(p)
      BY <3>4, NoProcIsNoProc DEF Unguard, GuardFault
    <3>5. CASE Leave(p) \/ Release(p) \/ Die(p) \/ Restart(p)
      BY <3>5 DEF Leave, Release, Die, Restart
    <3>6. QED
      BY <2>2, <3>1, <3>2, <3>3, <3>4, <3>5 DEF Step
  <2>3. QED
    BY <2>1, <2>2 DEF Next
<1>3. QED
  BY <1>1, <1>2 DEF RInv

\* Whatever fails, dies or interrupts: one process at a time looks into a lock and
\* reclaims it (acquireStaleReclaimGuard).
THEOREM OneReclaims == Spec => []OneReclaimer
<1>1. Init => RInv
  BY InitTyped DEF MInv
<1>2. RInv /\ [Next]_vars => RInv'
  BY StepGuard
<1>3. RInv => OneReclaimer
  BY DEF RInv, GuardInv, OneReclaimer
<1>4. QED
  BY <1>1, <1>2, <1>3, PTL DEF Spec

--------------------------------------------------------------------------------
(* One owner *)

LEMMA StepOwned ==
    ASSUME RInv, Rest, [Next]_vars, ~undone', ~misled'
    PROVE  Rest'
<1> USE NoProcIsNoProc, NoDirIsNoDir
    DEF RInv, TypeOK, GuardInv, MakersInv, InspectedInv, OwnersInv, OwnerMade, Rest, Dir,
        Reclaiming, Owning, Goto, Alive
<1>1. CASE UNCHANGED vars
  BY <1>1 DEF vars
<1>2. ASSUME NEW p \in Procs, Step(p)
      PROVE  Rest'
  <2>2. CASE Create(p)
    <3>1. CASE lock = NoDir
      <4>1. lock' = Empty(p) /\ pc' = [pc EXCEPT ![p] = "made"]
        BY <2>2, <3>1 DEF Create
      <4>2. Empty(p) \in Dir
        BY DEF Empty
      <4>3. /\ lock'.maker = p /\ lock'.owner = NoProc /\ lock' # NoDir
            /\ UNCHANGED <<aside, seen>>
            /\ \A q \in Procs : q # p => pc'[q] = pc[q]
            /\ pc'[p] = "made"
        BY <2>2, <3>1, <4>1, <4>2 DEF Create, Empty
      <4>4. MakersInv'
        BY <3>1, <4>3
      <4>5. InspectedInv'
        <5>1. pc[p] # "out" /\ seen' = seen
          BY <2>2, <4>3 DEF Create
        <5>2. QED
          BY <4>3, <5>1
      <4>7. OwnersInv'
        BY <4>3
      <4> HIDE DEF MakersInv, InspectedInv, OwnersInv
      <4>6. QED
        BY <4>4, <4>5, <4>7
    <3>2. CASE lock # NoDir
      BY <2>2, <3>2 DEF Create
    <3>3. QED
      BY <3>1, <3>2
  <2>3. CASE Write(p)
    BY <2>3 DEF Write
  <2>4. CASE Publish(p)
    <3>1. lock # NoDir /\ p \in lock.temps /\ lock \in Dir /\ lock.maker = p
      BY <2>4 DEF Publish
    <3>2. lock' = [lock EXCEPT !.owner = p, !.temps = lock.temps \ {p}]
      BY <2>4, <3>1 DEF Publish
    <3>3. lock' \in Dir /\ lock'.maker = p /\ lock'.owner = p
      BY <3>1, <3>2
    <3>4. PICK where \in {"swap", "held"} : pc' = [pc EXCEPT ![p] = where]
      BY <2>4, <3>1 DEF Publish
    <3>5. \A q \in Procs : q # p => pc'[q] = pc[q]
      BY <3>4
    <3>6. MakersInv'
      BY <3>1, <3>3, <3>4, <3>5
    <3>7. InspectedInv'
      BY <2>4, <3>1, <3>3, <3>4, <3>5 DEF Publish
    <3>8. aside' = aside
      BY <2>4 DEF Publish
    <3>9. QED
      BY <3>3, <3>6, <3>7, <3>8
  <2>5. CASE Fault(p)
    BY <2>5 DEF Fault
  <2>18. CASE GuardFault(p)
    BY <2>18 DEF GuardFault
  <2>16. CASE Clean(p)
    <3>1. lock # NoDir /\ lock.maker = p /\ lock.owner = NoProc
      BY <2>16 DEF Clean
    <3>2. \A q \in Procs : q # p => pc[q] \notin {"made", "written", "failed", "swap"} \cup Owning
      BY <3>1
    <3>3. QED
      BY <2>16, <3>1, <3>2 DEF Clean
  <2>17. CASE Undo(p)
    <3>1. CASE lock = NoDir
      BY <2>17, <3>1 DEF Undo
    <3>2. CASE lock # NoDir
      <4>1. lock' = lock
        BY <2>17, <3>2 DEF Undo
      <4>2. QED
        BY <2>17, <4>1 DEF Undo
    <3>3. QED
      BY <3>1, <3>2
  <2>6. CASE TakeGuard(p)
    BY <2>6 DEF TakeGuard
  <2>7. CASE ReadOwner(p)
    BY <2>7 DEF ReadOwner
  <2>8. CASE Check(p)
    BY <2>8 DEF Check
  <2>9. CASE Move(p)
    <3>1. CASE lock # NoDir
      <4>1. lock.owner = seen[p] /\ seen[p] # NoProc /\ pc[seen[p]] = "out"
        BY <2>9, <3>1 DEF Move
      <4>2. pc[lock.maker] = "out"
        BY <3>1, <4>1
      <4>3. QED
        BY <2>9, <3>1, <4>2 DEF Move
    <3>2. CASE lock = NoDir
      BY <2>9, <3>2 DEF Move
    <3>3. QED
      BY <3>1, <3>2
  <2>10. CASE Unguard(p)
    BY <2>10 DEF Unguard
  <2>11. CASE Leave(p)
    BY <2>11 DEF Leave
  <2>12. CASE Release(p)
    BY <2>12 DEF Release
  <2>13. CASE Die(p)
    BY <2>13 DEF Die
  <2>14. CASE Restart(p)
    BY <2>14 DEF Restart, Named, Names
  <2>15. QED
    BY <1>2, <2>2, <2>3, <2>4, <2>5, <2>6, <2>7, <2>8, <2>9, <2>10, <2>11, <2>12,
       <2>13, <2>14, <2>16, <2>17, <2>18 DEF Step
<1>3. QED
  BY <1>1, <1>2 DEF Next

LEMMA NeverUnmade ==
    ASSUME TypeOK, [Next]_vars
    PROVE  (~undone' => ~undone) /\ (~misled' => ~misled)
BY DEF TypeOK, Next, vars, Step, Create, Write, Publish, Fault, GuardFault, Clean, TakeGuard,
       ReadOwner,
       Check, Move, Undo, Unguard, Leave, Release, Die, Restart

\* One token has one owner (acquireDiscordTokenOwnerLock against inspectExistingLock
\* and release), among any number of processes that start, die and come back, whose calls
\* fail and come between each other's in any order: two owners take a dead lock put back
\* over one just made, or a lock moved away that is not the one inspected.
THEOREM OneOwner == Spec => []MutualExclusion
<1>1. Init => MInv
  BY InitTyped
<1>2. MInv /\ [Next]_vars => MInv'
  BY StepGuard, StepOwned, NeverUnmade DEF MInv, RInv
<1>3. MInv => MutualExclusion
  BY DEF MInv, Rest, MakersInv, MutualExclusion
<1>4. QED
  BY <1>1, <1>2, <1>3, PTL DEF Spec

--------------------------------------------------------------------------------
(* What is left behind *)

\* As long as nobody dies in the middle of a call: who made the guard is still in the
\* middle of reclaiming, who made a lock without an owner is still writing it, and what
\* was moved aside has an owner.
Writing == {"made", "written", "failed"}
LeftInv ==
    /\ guard # NoProc => pc[guard] \in Reclaiming \cup Writing
    /\ lock # NoDir /\ lock.owner = NoProc => pc[lock.maker] \in Writing
    /\ \A p \in Procs : aside[p] # NoDir => aside[p].owner # NoProc

LInv == MInv /\ (~undone /\ ~misled /\ ~broken => LeftInv)

LEMMA StepLeft ==
    ASSUME RInv, Rest, LeftInv, [Next]_vars, ~undone', ~misled', ~broken'
    PROVE  LeftInv'
<1> USE NoProcIsNoProc, NoDirIsNoDir
    DEF RInv, TypeOK, GuardInv, Rest, LeftInv, Writing, Dir, Reclaiming, Goto
<1>1. CASE UNCHANGED vars
  BY <1>1 DEF vars
<1>2. ASSUME NEW p \in Procs, Step(p)
      PROVE  LeftInv'
  <2>1. CASE Create(p)
    <3>1. CASE lock = NoDir
      <4>1. /\ lock' = Empty(p) /\ pc' = [pc EXCEPT ![p] = "made"]
            /\ UNCHANGED <<guard, aside>>
        BY <2>1, <3>1 DEF Create
      <4>2. lock'.maker = p /\ pc'[p] = "made"
        BY <4>1 DEF Empty
      <4>3. QED
        BY <4>1, <4>2
    <3>2. CASE lock # NoDir
      <4>1. pc[p] \notin Writing
        BY <2>1 DEF Create
      <4>2. guard = p => pc'[p] \in Reclaiming
        BY <2>1, <3>2, <4>1 DEF Create
      <4>3. QED
        BY <2>1, <3>2, <4>1, <4>2 DEF Create
    <3>3. QED
      BY <3>1, <3>2
  <2>2. CASE Write(p)
    <3>1. lock # NoDir /\ lock \in Dir /\ pc' = [pc EXCEPT ![p] = "written"]
          /\ lock' = [lock EXCEPT !.temps = lock.temps \cup {p}]
          /\ UNCHANGED <<guard, aside>>
      BY <2>2 DEF Write, MakersInv
    <3>2. lock'.maker = lock.maker /\ lock'.owner = lock.owner
      BY <3>1
    <3>3. QED
      BY <3>1, <3>2
  <2>3. CASE Publish(p)
    <3>1. lock # NoDir /\ p \in lock.temps /\ lock \in Dir
      BY <2>3 DEF Publish, MakersInv
    <3>2. lock' = [lock EXCEPT !.owner = p, !.temps = lock.temps \ {p}]
          /\ pc' = [pc EXCEPT ![p] = IF guard = p THEN "swap" ELSE "held"]
          /\ UNCHANGED <<guard, aside>>
      BY <2>3, <3>1 DEF Publish
    <3>3. lock'.owner = p
      BY <3>1, <3>2
    <3>4. QED
      BY <3>2, <3>3
  <2>4. CASE Fault(p)
    BY <2>4 DEF Fault
  <2>5. CASE Clean(p)
    <3>1. lock' = NoDir /\ pc' = [pc EXCEPT ![p] = IF guard = p THEN "undo" ELSE "out"]
          /\ UNCHANGED <<guard, aside>>
      BY <2>5 DEF Clean
    <3>2. QED
      BY <3>1
  <2>6. CASE TakeGuard(p)
    BY <2>6 DEF TakeGuard
  <2>7. CASE ReadOwner(p) \/ Check(p)
    BY <2>7 DEF ReadOwner, Check
  <2>8. CASE Move(p)
    <3>1. CASE lock # NoDir
      <4>1. lock.owner # NoProc
        BY <2>8, <3>1 DEF Move, InspectedInv
      <4>2. aside' = [aside EXCEPT ![p] = lock] /\ lock' = NoDir /\ UNCHANGED guard
            /\ pc' = [pc EXCEPT ![p] = "moved"]
        BY <2>8, <3>1 DEF Move
      <4>3. QED
        BY <4>1, <4>2
    <3>2. CASE lock = NoDir
      BY <2>8, <3>2 DEF Move
    <3>3. QED
      BY <3>1, <3>2
  <2>9. CASE Undo(p)
    <3>1. lock' \in {lock, aside[p]} /\ pc' = [pc EXCEPT ![p] = "unguard"]
          /\ UNCHANGED <<guard, aside>>
      BY <2>9 DEF Undo
    <3>2. QED
      BY <2>9, <3>1 DEF Undo
  <2>10. CASE Unguard(p)
    <3>1. guard' = NoProc /\ aside' = [aside EXCEPT ![p] = NoDir] /\ UNCHANGED lock
      BY <2>10 DEF Unguard
    <3>2. pc[p] \notin Writing /\ \A q \in Procs : q # p => pc'[q] = pc[q]
      BY <2>10 DEF Unguard
    <3>3. QED
      BY <3>1, <3>2
  <2>11. CASE Leave(p) \/ Release(p)
    BY <2>11 DEF Leave, Release
  <2>12. CASE Die(p)
    <3>1. pc[p] \notin Acquiring
      BY <2>12 DEF Die
    <3>2. QED
      BY <2>12, <3>1 DEF Die, Acquiring
  <2>13. CASE Restart(p)
    BY <2>13 DEF Restart
  <2>14. QED
    BY <1>2, <2>1, <2>2, <2>3, <2>4, <2>5, <2>6, <2>7, <2>8, <2>9, <2>10, <2>11, <2>12,
       <2>13 DEF Step, GuardFault
<1>3. QED
  BY <1>1, <1>2 DEF Next

LEMMA NeverMended == ASSUME TypeOK, [Next]_vars, ~broken' PROVE ~broken
BY DEF TypeOK, Next, vars, Step, Create, Write, Publish, Fault, GuardFault, Clean, TakeGuard,
       ReadOwner,
       Check, Move, Undo, Unguard, Leave, Release, Die, Restart

\* Processes that die outside of a call, and calls that fail - except for those about the
\* guard itself - leave nothing that blocks the token for good (the catch and finally
\* clauses of createOwnedLock and acquireDiscordTokenOwnerLock), until one of the two
\* histories of OneOwner.
THEOREM NothingIsLeft == Spec => []NoLeftovers
<1>1. Init => LInv
  BY InitTyped, NoProcIsNoProc, NoDirIsNoDir DEF LInv, LeftInv, Init
<1>2. LInv /\ [Next]_vars => LInv'
  <2>1. MInv /\ [Next]_vars => MInv'
    BY StepGuard, StepOwned, NeverUnmade DEF MInv, RInv
  <2>2. QED
    BY <2>1, StepLeft, NeverUnmade, NeverMended DEF LInv, MInv, RInv
<1>3. LInv => NoLeftovers
  BY DEF LInv, MInv, RInv, TypeOK, Dir, LeftInv, Writing, NoLeftovers, Acquiring, Reclaiming
<1>4. QED
  BY <1>1, <1>2, <1>3, PTL DEF Spec

--------------------------------------------------------------------------------
(* The service row                                                            *)

Places == {"new", "starting", "up", "draining", "closing", "gone"}
Processes == [at : Places, rev : Revisions \union {0}, token : Tokens \union {NoToken},
              error : BOOLEAN]
Rows == [gen : Generations, running : BOOLEAN, beat : Times]
JobsOfIt == [at : {"none", "queued", "reserved", "running", "done", "failed"},
             by : Generations, runner : Generations, accepting : Generations,
             executing : Generations, final : Times, recovered : BOOLEAN]
Snapshots == [healthy : BOOLEAN, time : Times, gen : Generations]
Canaries == [at : {"none", "read", "continue", "stop"}, time : Times, gen : Generations,
             ok : BOOLEAN, job : JobsOfIt, snap : Snapshots]
Stops == [at : {"none", "waiting", "stopped", "failed"}, gen : Generations, seen : Generations]

Types ==
    /\ now \in Times /\ failed \in BOOLEAN /\ request \in Generations
    /\ proc \in [Launches -> Processes] /\ reused \subseteq Launches /\ booted \subseteq Launches
    /\ row \in Rows /\ job \in JobsOfIt /\ snapshot \in Snapshots
    /\ canary \in Canaries /\ stop \in Stops

\* a revision is that of a launch, and stays with it
ProcInv == \A l \in Launches : proc[l].at = "new" => proc[l].rev = 0

\* the row names a launch, and says "stopped" only if that one did
RowInv ==
    row.gen # 0 => /\ proc[row.gen].at # "new"
                   /\ ~row.running => proc[row.gen].at \in {"closing", "gone"}

\* a job that nobody had to recover is run by the launch that accepted it
JobInv ==
    /\ job.at # "none" => job.by # 0
    /\ job.at \notin {"none", "queued"} /\ ~job.recovered => job.runner = job.by

\* what the canary has read of the candidate stays true
CanaryInv ==
    /\ canary.at \in {"read", "continue"} /\ canary.ok =>
          /\ canary.gen # 0 /\ proc[canary.gen].rev = Candidate
          /\ canary.job.by # 0 /\ proc[canary.job.by].rev = Candidate
          /\ canary.job.at = "done" /\ canary.job.runner = canary.job.by
    /\ canary.at = "continue" =>
          /\ canary.ok
          /\ canary.snap.healthy /\ canary.snap.gen = canary.gen
          /\ canary.snap.time >= canary.job.final

StopInv ==
    /\ stop.at \in {"waiting", "stopped"} => stop.gen # 0
    /\ StoppedIsSilent

OInv == Types /\ ProcInv /\ RowInv /\ JobInv /\ CanaryInv /\ StopInv

--------------------------------------------------------------------------------

LEMMA InitOInv == OwnershipInit => OInv
<1> SUFFICES ASSUME OwnershipInit PROVE OInv
  OBVIOUS
<1> USE OwnershipAssumption
<1>1. /\ NotLaunched \in Processes /\ NotLaunched.at = "new" /\ NotLaunched.rev = 0
      /\ NoJob \in JobsOfIt /\ NoJob.at = "none"
      /\ NoSnapshot \in Snapshots
      /\ NoStop \in Stops /\ NoStop.at = "none"
  BY DEF NotLaunched, Processes, Places, NoJob, JobsOfIt, NoSnapshot, Snapshots, NoStop, Stops,
     Times, Generations
<1>2. NoCanary \in Canaries /\ NoCanary.at = "none"
  BY <1>1 DEF NoCanary, Canaries, Times, Generations
<1>3. row \in Rows /\ row.gen = 0
  BY DEF OwnershipInit, Rows, Times, Generations
<1>4. now \in Times /\ request \in Generations
  BY DEF OwnershipInit, Times, Generations
<1>5. Types
  BY <1>1, <1>2, <1>3, <1>4 DEF OwnershipInit, Types
<1>6. QED
  BY <1>1, <1>2, <1>3, <1>5 DEF OwnershipInit, OInv, ProcInv, RowInv, JobInv, CanaryInv, StopInv,
     StoppedIsSilent

--------------------------------------------------------------------------------
(* What becomes of a launch.                                                 *)

\* a launch is not taken back, keeps its revision, and does not return from its end
Ages(p, q) ==
    /\ p.at # "new" => q.at # "new" /\ q.rev = p.rev
    /\ q.at = "new" => q.rev = 0
    /\ p.at \in {"closing", "gone"} => q.at \in {"closing", "gone"}
Aging == /\ proc' \in [Launches -> Processes]
         /\ \A l \in Launches : Ages(proc[l], proc'[l])

LEMMA AgingKeeps ==
    ASSUME OInv, Aging
    PROVE  /\ ProcInv'
           /\ UNCHANGED row => RowInv'
           /\ UNCHANGED job => JobInv'
           /\ UNCHANGED canary => CanaryInv'
           /\ UNCHANGED stop => StopInv'
<1> USE DEF OInv, Aging, Ages
<1>1. /\ row.gen # 0 => row.gen \in Launches
      /\ canary.gen # 0 => canary.gen \in Launches
      /\ canary.job.by # 0 => canary.job.by \in Launches
      /\ stop.gen # 0 => stop.gen \in Launches
  BY DEF Types, Rows, Canaries, JobsOfIt, Stops, Generations
<1>2. ProcInv'
  BY DEF ProcInv
<1>3. UNCHANGED row => RowInv'
  BY <1>1 DEF RowInv
<1>4. UNCHANGED job => JobInv'
  BY DEF JobInv
<1>5. UNCHANGED canary => CanaryInv'
  <2> SUFFICES ASSUME UNCHANGED canary PROVE CanaryInv'
    OBVIOUS
  <2>1. ASSUME NEW l \in Launches, proc[l].rev = Candidate
        PROVE  proc'[l].rev = Candidate
    BY <2>1 DEF ProcInv, Candidate
  <2>2. QED
    BY <1>1, <2>1 DEF CanaryInv
<1>6. UNCHANGED stop => StopInv'
  BY <1>1 DEF StopInv, StoppedIsSilent
<1>7. QED
  BY <1>2, <1>3, <1>4, <1>5, <1>6

\* the record of a launch that has ended
LEMMA OverIs ==
    ASSUME NEW p \in Processes
    PROVE  Over(p) \in Processes /\ Over(p).at = "gone" /\ Over(p).rev = p.rev
BY DEF Processes, Places, Over, NotLaunched

LEMMA OneAges ==
    ASSUME OInv, NEW l \in Launches, NEW q \in Processes, q.at # "new",
           proc[l].at # "new" => q.rev = proc[l].rev,
           proc[l].at \in {"closing", "gone"} => q.at \in {"closing", "gone"},
           proc' = [proc EXCEPT ![l] = q]
    PROVE  Aging
BY DEF OInv, Types, ProcInv, Aging, Ages

LEMMA NoneAges == OInv /\ UNCHANGED proc => Aging
BY DEF OInv, Types, ProcInv, Aging, Ages

--------------------------------------------------------------------------------
(* The steps.                                                                *)

LEMMA LaunchKeeps ==
    ASSUME OInv, NEW l \in Launches, NEW t \in Tokens, NEW r \in Revisions, Launch(l, t, r)
    PROVE  OInv'
<1>1. PICK p : p = [at |-> "starting", rev |-> r, token |-> t, error |-> FALSE]
  OBVIOUS
<1>2. p \in Processes /\ p.at = "starting" /\ p.rev = r
  BY <1>1 DEF Processes, Places
<1>3. /\ proc[l].at = "new"
      /\ \E q \in {p, Over(p)} : proc' = [proc EXCEPT ![l] = q]
      /\ failed' \in BOOLEAN /\ booted' = booted \union {l}
      /\ UNCHANGED <<now, reused, row, request, job, snapshot, canary, stop>>
  BY <1>1 DEF Launch, OInv, Types
<1>4. PICK q \in {p, Over(p)} : proc' = [proc EXCEPT ![l] = q]
  BY <1>3
<1>5. q \in Processes /\ q.at # "new"
  BY <1>2, <1>4, OverIs
<1>6. Aging
  BY <1>3, <1>4, <1>5, OneAges
<1>7. Types'
  BY <1>3, <1>6 DEF OInv, Types, Aging
<1>8. QED
  BY <1>3, <1>6, <1>7, AgingKeeps DEF OInv

\* what a launch does to itself only
LEMMA LeavingKeeps ==
    ASSUME OInv, NEW l \in Launches,
           Stopping(l) \/ StopRequested(l) \/ Exit(l) \/ Killed(l) \/ PidReused(l)
    PROVE  OInv'
<1> USE DEF OInv
<1>1. proc[l] \in Processes
  BY DEF Types
<1>2. /\ UNCHANGED <<now, booted, row, job, snapshot, canary, stop>>
      /\ failed' \in BOOLEAN /\ request' \in {0, request} /\ reused' \subseteq Launches
  BY DEF Stopping, StopRequested, Exit, Killed, PidReused, Types
<1>3. Aging
  <2>1. CASE Stopping(l) \/ StopRequested(l)
    <3>1. PICK q : q = [proc[l] EXCEPT !.at = "draining"]
      OBVIOUS
    <3>2. proc[l].at = "up" /\ proc' = [proc EXCEPT ![l] = q]
      BY <2>1, <3>1 DEF Stopping, StopRequested
    <3>3. q \in Processes /\ q.at = "draining" /\ q.rev = proc[l].rev
      BY <1>1, <3>1 DEF Processes, Places
    <3>4. QED
      BY <3>2, <3>3, OneAges
  <2>2. CASE Exit(l) \/ Killed(l)
    <3>1. proc' = [proc EXCEPT ![l] = Over(proc[l])]
      BY <2>2 DEF Exit, Killed
    <3>2. QED
      BY <1>1, <3>1, OverIs, OneAges
  <2>3. CASE PidReused(l)
    BY <2>3, NoneAges DEF PidReused
  <2>4. QED
    BY <2>1, <2>2, <2>3
<1>4. Types'
  BY <1>2, <1>3 DEF Types, Aging, Generations
<1>5. QED
  BY <1>2, <1>3, <1>4, AgingKeeps

\* a heartbeat of its own row, and what a launch that goes on says with it
LEMMA TakesRow ==
    ASSUME OInv, NEW l \in Launches, NEW b \in BOOLEAN, proc'[l].at # "new",
           ~b => proc'[l].at \in {"closing", "gone"},
           row' = [gen |-> l, running |-> b, beat |-> now]
    PROVE  row' \in Rows /\ RowInv'
<1>1. l # 0
  BY OwnershipAssumption
<1>2. QED
  BY <1>1 DEF OInv, Types, Rows, Generations, RowInv

LEMMA FirstHeartbeatKeeps ==
    ASSUME OInv, NEW l \in Launches, FirstHeartbeat(l)
    PROVE  OInv'
<1> USE DEF OInv
<1>1. proc[l] \in Processes /\ proc[l].at = "starting"
  BY DEF Types, FirstHeartbeat
<1>2. UNCHANGED <<now, reused, booted, request, snapshot, canary, stop>>
  BY DEF FirstHeartbeat
<1>3. CASE MayOwn(l)
  <2>1. /\ row' = [gen |-> l, running |-> TRUE, beat |-> now]
        /\ proc' = [proc EXCEPT ![l] = [proc[l] EXCEPT !.at = "up"]]
        /\ failed' = FALSE /\ job' = Recovered(job)
    BY <1>3 DEF FirstHeartbeat
  <2>2. Aging /\ proc'[l].at = "up"
    <3>1. PICK q : q = [proc[l] EXCEPT !.at = "up"]
      OBVIOUS
    <3>2. q \in Processes /\ q.at = "up" /\ q.rev = proc[l].rev
      BY <1>1, <3>1 DEF Processes, Places
    <3>3. proc' = [proc EXCEPT ![l] = q]
      BY <2>1, <3>1
    <3>4. QED
      BY <1>1, <3>2, <3>3, OneAges DEF Types
  <2>3. row' \in Rows /\ RowInv'
    BY <2>1, <2>2, TakesRow
  <2>4. job' \in JobsOfIt /\ JobInv'
    <3>1. job' = job \/ job' = [job EXCEPT !.recovered = TRUE]
      BY <2>1 DEF Recovered
    <3>2. QED
      BY <3>1 DEF Types, JobsOfIt, JobInv
  <2>5. Types'
    BY <1>2, <2>1, <2>2, <2>3, <2>4 DEF Types, Aging
  <2>6. QED
    BY <1>2, <2>2, <2>3, <2>4, <2>5, AgingKeeps
<1>4. CASE ~MayOwn(l)
  <2>1. /\ proc' = [proc EXCEPT ![l] = [proc[l] EXCEPT !.at = "draining", !.error = TRUE]]
        /\ UNCHANGED <<row, failed, job>>
    BY <1>4 DEF FirstHeartbeat
  <2>2. Aging
    <3>1. PICK q : q = [proc[l] EXCEPT !.at = "draining", !.error = TRUE]
      OBVIOUS
    <3>2. q \in Processes /\ q.at = "draining" /\ q.rev = proc[l].rev
      BY <1>1, <3>1 DEF Processes, Places
    <3>3. proc' = [proc EXCEPT ![l] = q]
      BY <2>1, <3>1
    <3>4. QED
      BY <1>1, <3>2, <3>3, OneAges
  <2>3. Types'
    BY <1>2, <2>1, <2>2 DEF Types, Aging
  <2>4. QED
    BY <1>2, <2>1, <2>2, <2>3, AgingKeeps
<1>5. QED
  BY <1>3, <1>4

LEMMA HeartbeatKeeps ==
    ASSUME OInv, NEW l \in Launches, Heartbeat(l)
    PROVE  OInv'
<1> USE DEF OInv
<1>1. proc[l] \in Processes /\ proc[l].at = "up"
  BY DEF Types, Heartbeat
<1>2. UNCHANGED <<now, reused, booted, failed, request, job, snapshot, canary, stop>>
  BY DEF Heartbeat
<1>3. CASE MayOwn(l)
  <2>1. row' = [gen |-> l, running |-> TRUE, beat |-> now] /\ proc' = proc
    BY <1>3 DEF Heartbeat
  <2>2. Aging
    BY <2>1, NoneAges
  <2>3. row' \in Rows /\ RowInv'
    BY <1>1, <2>1, TakesRow
  <2>4. Types'
    BY <1>2, <2>1, <2>3 DEF Types
  <2>5. QED
    BY <1>2, <2>2, <2>3, <2>4, AgingKeeps
<1>4. CASE ~MayOwn(l)
  <2>1. proc' = [proc EXCEPT ![l] = Over(proc[l])] /\ row' = row
    BY <1>4 DEF Heartbeat
  <2>2. Aging
    BY <1>1, <2>1, OverIs, OneAges
  <2>3. Types'
    BY <1>2, <2>1, <2>2 DEF Types, Aging
  <2>4. QED
    BY <1>2, <2>1, <2>2, <2>3, AgingKeeps
<1>5. QED
  BY <1>3, <1>4

LEMMA ReportStoppedKeeps ==
    ASSUME OInv, NEW l \in Launches, ReportStopped(l)
    PROVE  OInv'
<1> USE DEF OInv
<1>1. proc[l] \in Processes /\ proc[l].at = "draining"
  BY DEF Types, ReportStopped
<1>2. UNCHANGED <<now, reused, booted, failed, request, job, snapshot, canary, stop>>
  BY DEF ReportStopped
<1>3. PICK q \in Processes : /\ q.at = "closing" /\ q.rev = proc[l].rev
                             /\ proc' = [proc EXCEPT ![l] = q]
  <2>1. CASE proc' = [proc EXCEPT ![l] = [proc[l] EXCEPT !.at = "closing"]]
    <3>1. PICK q : q = [proc[l] EXCEPT !.at = "closing"]
      OBVIOUS
    <3>2. q \in Processes /\ q.at = "closing" /\ q.rev = proc[l].rev
      BY <1>1, <3>1 DEF Processes, Places
    <3>3. QED
      BY <2>1, <3>1, <3>2
  <2>2. CASE proc' = [proc EXCEPT ![l].at = "closing", ![l].error = @ \/ ~MayOwn(l)]
    <3>1. PICK b \in BOOLEAN : b = (proc[l].error \/ ~MayOwn(l))
      BY <1>1 DEF Processes
    <3>2. PICK q : q = [proc[l] EXCEPT !.at = "closing", !.error = b]
      OBVIOUS
    <3>3. proc' = [proc EXCEPT ![l] = q]
      BY <2>2, <3>1, <3>2 DEF Types
    <3>4. q \in Processes /\ q.at = "closing" /\ q.rev = proc[l].rev
      BY <1>1, <3>1, <3>2 DEF Processes, Places
    <3>5. QED
      BY <3>3, <3>4
  <2>3. QED
    BY <2>1, <2>2 DEF ReportStopped
<1>4. Aging /\ proc'[l].at = "closing"
  BY <1>1, <1>3, OneAges DEF Types
<1>5. row' \in Rows /\ RowInv'
  <2>1. CASE row' = [gen |-> l, running |-> FALSE, beat |-> now]
    BY <1>4, <2>1, TakesRow
  <2>2. CASE row' = row
    BY <1>4, <2>2, AgingKeeps DEF Types
  <2>3. QED
    BY <2>1, <2>2 DEF ReportStopped
<1>6. Types'
  BY <1>2, <1>4, <1>5 DEF Types, Aging
<1>7. QED
  BY <1>2, <1>4, <1>5, <1>6, AgingKeeps

LEMMA RebootKeeps ==
    ASSUME OInv, Reboot
    PROVE  OInv'
<1> USE DEF OInv
<1>1. /\ UNCHANGED <<now, row, failed, request, job, snapshot>>
      /\ booted' = {} /\ reused' = {}
      /\ proc' = [l \in Launches |-> IF Live(l) THEN Over(proc[l]) ELSE proc[l]]
  BY DEF Reboot
<1>2. Aging
  <2>1. ASSUME NEW l \in Launches
        PROVE  proc'[l] \in Processes /\ Ages(proc[l], proc'[l])
    <3>1. proc[l] \in Processes
      BY DEF Types
    <3>2. CASE Live(l)
      <4>1. proc'[l] = Over(proc[l])
        BY <1>1, <3>2
      <4>2. QED
        BY <3>1, <4>1, OverIs DEF Ages
    <3>3. CASE ~Live(l)
      BY <1>1, <3>1, <3>3 DEF Ages, ProcInv
    <3>4. QED
      BY <3>2, <3>3
  <2>2. QED
    BY <1>1, <2>1 DEF Aging
<1>3. canary' \in Canaries /\ CanaryInv'
  <2>1. CASE canary' = canary
    BY <1>2, <2>1, AgingKeeps DEF Types
  <2>2. CASE canary' = [canary EXCEPT !.at = "stop"]
    BY <2>2 DEF Types, Canaries, CanaryInv
  <2>3. QED
    BY <2>1, <2>2 DEF Reboot
<1>4. stop' \in Stops /\ StopInv'
  <2>1. CASE stop' = stop
    BY <1>2, <2>1, AgingKeeps DEF Types
  <2>2. CASE stop' = [stop EXCEPT !.at = "failed"]
    BY <2>2 DEF Types, Stops, StopInv, StoppedIsSilent
  <2>3. QED
    BY <2>1, <2>2 DEF Reboot
<1>5. Types'
  BY <1>1, <1>2, <1>3, <1>4 DEF Types, Aging
<1>6. QED
  BY <1>1, <1>2, <1>3, <1>4, <1>5, AgingKeeps

\* the job of the canary: who accepts it also runs it, or it was recovered
LEMMA JobKeeps ==
    ASSUME OInv, NEW l \in Launches,
           createJob(l) \/ reserveAttempt(l) \/ attachAttempt(l) \/ JobDone(l)
    PROVE  OInv'
<1> USE DEF OInv
<1>1. UNCHANGED <<now, proc, reused, booted, row, failed, request, snapshot, canary, stop>>
  BY DEF createJob, reserveAttempt, attachAttempt, JobDone
<1>2. /\ job \in JobsOfIt /\ now \in Times /\ RowGeneration \in Generations
      /\ l \in Generations /\ l # 0
  BY OwnershipAssumption DEF Types, RowGeneration, Rows, Generations
<1>3. job' \in JobsOfIt /\ JobInv'
  <2>1. CASE createJob(l)
    <3>1. job' = [at |-> "queued", by |-> l, runner |-> 0, accepting |-> RowGeneration,
                  executing |-> 0, final |-> 0, recovered |-> FALSE]
      BY <2>1 DEF createJob, NoJob
    <3>2. QED
      BY <1>2, <3>1, OwnershipAssumption DEF JobsOfIt, JobInv, Generations, Times
  <2>2. CASE reserveAttempt(l)
    <3>1. /\ job.at = "queued" /\ (job.by = l \/ job.recovered)
          /\ job' = [job EXCEPT !.at = "reserved", !.runner = l, !.executing = RowGeneration]
      BY <2>2 DEF reserveAttempt
    <3>2. QED
      BY <1>2, <3>1 DEF JobsOfIt, JobInv
  <2>3. CASE attachAttempt(l)
    <3>1. /\ job.at = "reserved"
          /\ \E at \in {"running", "failed"} : job' = [job EXCEPT !.at = at, !.final = now]
      BY <2>3 DEF attachAttempt
    <3>2. QED
      BY <1>2, <3>1 DEF JobsOfIt, JobInv
  <2>4. CASE JobDone(l)
    <3>1. job.at = "running" /\ job' = [job EXCEPT !.at = "done", !.final = now]
      BY <2>4 DEF JobDone
    <3>2. QED
      BY <1>2, <3>1 DEF JobsOfIt, JobInv
  <2>5. QED
    BY <2>1, <2>2, <2>3, <2>4
<1>4. Types'
  BY <1>1, <1>3 DEF Types
<1>5. Aging
  BY <1>1, NoneAges
<1>6. QED
  BY <1>1, <1>3, <1>4, <1>5, AgingKeeps

LEMMA ObserveKeeps ==
    ASSUME OInv, NEW evidence \in BOOLEAN, Observe(evidence)
    PROVE  OInv'
<1> USE DEF OInv
<1>1. UNCHANGED <<now, proc, reused, booted, row, failed, request, job, canary, stop>>
  BY DEF Observe
<1>2. snapshot' \in Snapshots
  <2>1. NoSnapshot \in Snapshots
    BY OwnershipAssumption DEF NoSnapshot, Snapshots, Times, Generations
  <2>2. row.gen \in Generations /\ now \in Times
    BY DEF Types, Rows
  <2>3. QED
    BY <2>1, <2>2 DEF Observe, Snapshots
<1>3. Types'
  BY <1>1, <1>2 DEF Types
<1>4. Aging
  BY <1>1, NoneAges
<1>5. QED
  BY <1>1, <1>3, <1>4, AgingKeeps

\* what the canary reads of the store
LEMMA CanaryReadsKeeps ==
    ASSUME OInv, CanaryReadsStore
    PROVE  OInv'
<1> USE DEF OInv
<1>1. UNCHANGED <<now, proc, reused, booted, row, failed, request, job, snapshot, stop>>
  BY DEF CanaryReadsStore
<1>2. PICK ok \in BOOLEAN :
        /\ ok = (/\ CandidateRuns /\ proc[job.by].rev = Candidate
                 /\ job.accepting = row.gen /\ job.executing = row.gen
                 /\ job.at = "done" /\ ~job.recovered)
        /\ canary' = [at |-> "read", time |-> now, gen |-> row.gen, ok |-> ok, job |-> job,
                      snap |-> NoSnapshot]
  BY DEF CanaryReadsStore
<1>3. /\ canary'.at = "read" /\ canary'.gen = row.gen /\ canary'.ok = ok /\ canary'.job = job
      /\ canary' \in Canaries
  <2>1. NoSnapshot \in Snapshots
    BY OwnershipAssumption DEF NoSnapshot, Snapshots, Times, Generations
  <2>2. row.gen \in Generations /\ now \in Times /\ job \in JobsOfIt
    BY DEF Types, Rows
  <2>3. QED
    BY <1>2, <2>1, <2>2 DEF Canaries
<1>4. CanaryInv'
  <2>1. ok => /\ row.gen # 0 /\ proc[row.gen].rev = Candidate /\ proc[job.by].rev = Candidate
              /\ job.at = "done" /\ ~job.recovered
    BY <1>2 DEF CandidateRuns
  <2>2. ok => job.by # 0 /\ job.runner = job.by
    BY <2>1 DEF JobInv
  <2>3. QED
    BY <1>1, <1>3, <2>1, <2>2 DEF CanaryInv
<1>5. Types'
  BY <1>1, <1>3 DEF Types
<1>6. Aging
  BY <1>1, NoneAges
<1>7. QED
  BY <1>1, <1>4, <1>5, <1>6, AgingKeeps

LEMMA CanaryDecidesKeeps ==
    ASSUME OInv, CanaryDecides
    PROVE  OInv'
<1> USE DEF OInv
<1>1. UNCHANGED <<now, proc, reused, booted, row, failed, request, job, snapshot, stop>>
  BY DEF CanaryDecides
<1>2. PICK at \in {"continue", "stop"} :
        /\ at = (IF canary.ok /\ SnapshotAccepted THEN "continue" ELSE "stop")
        /\ canary' = [canary EXCEPT !.at = at, !.snap = snapshot]
  BY DEF CanaryDecides
<1>3. canary \in Canaries /\ snapshot \in Snapshots /\ canary.at = "read"
  BY DEF Types, CanaryDecides
<1>4. /\ canary'.at = at /\ canary'.gen = canary.gen /\ canary'.ok = canary.ok
      /\ canary'.job = canary.job /\ canary'.snap = snapshot
      /\ canary' \in Canaries
  BY <1>2, <1>3 DEF Canaries
<1>5. CanaryInv'
  <2>1. at = "continue" => /\ canary.ok /\ snapshot.healthy /\ snapshot.gen = canary.gen
                           /\ snapshot.time >= canary.job.final
    BY <1>2 DEF SnapshotAccepted
  <2>2. QED
    BY <1>1, <1>3, <1>4, <2>1 DEF CanaryInv
<1>6. Types'
  BY <1>1, <1>4 DEF Types
<1>7. Aging
  BY <1>1, NoneAges
<1>8. QED
  BY <1>1, <1>5, <1>6, <1>7, AgingKeeps

\* The stop command: what a poll takes for "stopped" is so, of the launch it asked.
LEMMA StopKeeps ==
    ASSUME OInv, StopBegins \/ StopPolls \/ StopGivesUp
    PROVE  OInv'
<1> USE DEF OInv
<1>1. UNCHANGED <<now, proc, reused, booted, row, failed, job, snapshot, canary>>
  BY DEF StopBegins, StopPolls, StopGivesUp
<1>2. stop \in Stops /\ row.gen \in Generations /\ request \in Generations
      /\ Owner \in Generations
  BY DEF Types, Rows, Owner, Generations
<1>3. stop' \in Stops /\ StopInv' /\ request' \in Generations
  <2>1. CASE StopBegins
    <3>1. PICK at \in {"waiting", "failed"} :
            /\ stop' = [at |-> at, gen |-> Owner, seen |-> 0]
            /\ Owner # 0 /\ request' \in {Owner, request}
      BY <2>1 DEF StopBegins
    <3>2. QED
      BY <1>2, <3>1 DEF Stops, StopInv, StoppedIsSilent, Generations
  <2>2. CASE StopPolls
    <3>1. /\ stop.at = "waiting" /\ StopAnswer # "waiting" /\ request' = request
          /\ stop' = [stop EXCEPT !.at = StopAnswer, !.seen = row.gen]
      BY <2>2 DEF StopPolls
    <3>2. StopAnswer \in {"stopped", "failed"}
      BY <3>1 DEF StopAnswer
    <3>3. stop'.at = StopAnswer /\ stop'.gen = stop.gen /\ stop'.seen = row.gen /\ stop' \in Stops
      BY <1>2, <3>1, <3>2 DEF Stops
    <3>4. stop.gen # 0 /\ stop.gen \in Launches
      BY <1>2, <3>1 DEF StopInv, Stops, Generations
    <3>5. StopAnswer = "stopped" /\ row.gen = stop.gen
             => proc[stop.gen].at \in {"closing", "gone"}
      <4> SUFFICES ASSUME StopAnswer = "stopped", row.gen = stop.gen
                   PROVE  proc[stop.gen].at \in {"closing", "gone"}
        OBVIOUS
      <4>1. CASE Owner = 0
        BY <3>4, <4>1 DEF Owner, RowInv
      <4>2. CASE Owner # 0
        <5>1. Observed(stop.gen) = "missing"
          BY <4>2 DEF StopAnswer
        <5>2. ~Live(stop.gen) /\ proc[stop.gen].at # "new"
          BY <3>4, <5>1 DEF Observed, RowInv
        <5>3. proc[stop.gen].at \in Places
          BY <3>4 DEF Types, Processes
        <5>4. QED
          BY <5>2, <5>3 DEF Live, Places
      <4>3. QED
        BY <4>1, <4>2
    <3>6. QED
      BY <1>1, <1>2, <3>1, <3>2, <3>3, <3>4, <3>5 DEF StopInv, StoppedIsSilent
  <2>3. CASE StopGivesUp
    <3>1. stop' = [stop EXCEPT !.at = "failed"] /\ request' = request
      BY <2>3 DEF StopGivesUp
    <3>2. QED
      BY <1>2, <3>1 DEF Stops, StopInv, StoppedIsSilent
  <2>4. QED
    BY <2>1, <2>2, <2>3
<1>4. Types'
  BY <1>1, <1>3 DEF Types
<1>5. Aging
  BY <1>1, NoneAges
<1>6. QED
  BY <1>1, <1>3, <1>4, <1>5, AgingKeeps

LEMMA NextKeeps == OInv /\ [OwnershipNext]_ownershipVars => OInv'
<1> SUFFICES ASSUME OInv, [OwnershipNext]_ownershipVars PROVE OInv'
  OBVIOUS
<1>1. CASE Tick
  <2>1. now' \in Times /\ UNCHANGED <<proc, reused, booted, row, failed, request, job, snapshot,
                                     canary, stop>>
    BY <1>1, OwnershipAssumption DEF Tick, OInv, Types, Times
  <2>2. Types'
    BY <2>1 DEF OInv, Types
  <2>3. QED
    BY <2>1, <2>2, NoneAges, AgingKeeps DEF OInv
<1>2. CASE UNCHANGED ownershipVars
  <2>1. Types'
    BY <1>2 DEF ownershipVars, OInv, Types
  <2>2. QED
    BY <1>2, <2>1, NoneAges, AgingKeeps DEF ownershipVars, OInv
<1>3. QED
  BY <1>1, <1>2, LaunchKeeps, LeavingKeeps, FirstHeartbeatKeeps, HeartbeatKeeps,
     ReportStoppedKeeps, RebootKeeps, JobKeeps, ObserveKeeps, CanaryReadsKeeps,
     CanaryDecidesKeeps, StopKeeps DEF OwnershipNext, OwnershipStep

\* A canary that says "continue" is right about the candidate: it accepted the job and ran it
\* to its end, nothing had to recover it, and the supervisor saw that generation healthy
\* afterwards, whatever launches, deaths and reboots came in between (evaluateCutoverCanary).
THEOREM CanaryIsTrue == OwnershipSpec => []CanaryTrue
<1>1. OInv => CanaryTrue
  BY DEF OInv, CanaryInv, CanaryTrue
<1>2. QED
  BY InitOInv, NextKeeps, <1>1, PTL DEF OwnershipSpec

\* A stop command that answers "stopped" of the launch it asked finds it past its last job
\* (stopOwnedWindowsService, cleanupDiscordServiceResources).
THEOREM StopsAreSilent == OwnershipSpec => []StoppedIsSilent
<1>1. OInv => StoppedIsSilent
  BY DEF OInv, StopInv
<1>2. QED
  BY InitOInv, NextKeeps, <1>1, PTL DEF OwnershipSpec

\* Rows, jobs, snapshots and commands are of the kinds their readers expect, for any number
\* of launches (service_state, evaluateCutoverCanary, stopOwnedWindowsService).
THEOREM OwnershipTypes == OwnershipSpec => []OwnershipTypeOK
<1>1. OInv => OwnershipTypeOK
  BY DEF OInv, Types, OwnershipTypeOK, Processes, Places, Rows, JobsOfIt, Snapshots, Canaries,
     Stops
<1>2. QED
  BY InitOInv, NextKeeps, <1>1, PTL DEF OwnershipSpec
================================================================================
