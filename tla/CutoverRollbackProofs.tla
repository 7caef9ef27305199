---------------------- MODULE CutoverRollbackProofs ----------------------
(***************************************************************************)
(* ArtifactsKept, NoDowngrade and RollbackRuns for any number of            *)
(* directories.  By itself none is inductive.  What a step deletes must be  *)
(* known not to be named by a unit file or the pointer, and that follows    *)
(* from how far the operation has come: Stage says so for each operation.   *)
(* What a unit would start follows from what an install may replace and a   *)
(* restore has stopped: Standing says which unit can be loaded beside which *)
(* unit file.  Restored says what a restore has written at each step.       *)
(***************************************************************************)
EXTENDS CutoverRollback, TLAPS

Refs == {pointer, units.service.dir, units.supervisor.dir}

Shapes ==
    /\ art = [d \in Dirs |-> art[d]]
    /\ units = [service |-> units.service, supervisor |-> units.supervisor]
    /\ op = [kind |-> op.kind, step |-> op.step, dir |-> op.dir, plan |-> op.plan]
    /\ op.kind \in {"none", "prepare", "install", "restore"}
    /\ op.kind # "none" => op.dir \in Dirs
    /\ Refs \subseteq Dirs \union {NoDir}

PrepareStage ==
    op.kind = "prepare" =>
        /\ op.step \in {"make", "finish", "switch", "protect"}
        /\ op.plan.kind = "bundle"
        /\ op.step \in {"make", "finish"} => ~Verified(op.dir)
        /\ op.step \in {"switch", "protect"} => art[op.dir].kind = "bundle"
        /\ op.dir \notin {units.service.dir, units.supervisor.dir}
        /\ op.step # "protect" => op.dir # pointer

InstallStage ==
    op.kind = "install" =>
        /\ op.step \in {"make", "finish", "service unit", "supervisor units", "reload",
                        "timer", "restart", "verify", "remove"}
        /\ op.plan.kind = "runtime"
        /\ op.step \in {"make", "finish"} => ~Verified(op.dir)
        /\ op.step \notin {"make", "finish"} => art[op.dir].kind = "runtime"
        /\ op.step \in {"make", "finish", "service unit"} => op.dir \notin Refs
        /\ op.dir # pointer
        /\ units.supervisor.dir = op.dir \/ op.step = "supervisor units"
              => units.service.dir = op.dir

RestoreStage == op.kind = "restore" => art[op.dir].kind = "bundle"

IInv == Shapes /\ ArtifactsKept /\ PrepareStage /\ InstallStage /\ RestoreStage

\* The program starts with no artifact that anything refers to.
LEMMA InitKept == Init => IInv
  <1> SUFFICES ASSUME Init PROVE IInv
    OBVIOUS
  <1>1. units.service.dir = NoDir /\ units.supervisor.dir = NoDir
        /\ units = [service |-> units.service, supervisor |-> units.supervisor]
    <2>1. PICK u \in {Absent, Legacy} : units = [service |-> u, supervisor |-> u]
      BY DEF Init
    <2>2. u.dir = NoDir
      BY DEF Absent, Legacy, Unit
    <2> QED
      BY <2>1, <2>2
  <1>2. Shapes
    <2>1. art = [d \in Dirs |-> art[d]]
      BY DEF Init
    <2>2. op = NoOp /\ pointer = NoDir
      BY DEF Init
    <2> QED
      BY <1>1, <2>1, <2>2 DEF Shapes, Refs, NoOp
  <1>3. ArtifactsKept
    BY <1>1 DEF Init, ArtifactsKept
  <1> QED
    BY <1>2, <1>3 DEF Init, IInv, NoOp, PrepareStage, InstallStage, RestoreStage

\* A step that touches neither files nor the operation keeps the invariant.
LEMMA ServiceKeeps ==
    ASSUME IInv, UNCHANGED <<art, pointer, units, op, dangling>>
    PROVE  IInv'
  BY DEF IInv, Shapes, Refs, ArtifactsKept, Verified, VerifiedBundle,
         PrepareStage, InstallStage, RestoreStage

\* So does a step that only ends the operation.
LEMMA DoneKeeps ==
    ASSUME IInv, UNCHANGED <<art, pointer, units, dangling>>, Done
    PROVE  IInv'
  BY DEF IInv, Shapes, Refs, ArtifactsKept, Verified, VerifiedBundle, Done, NoOp, Gone, Artifact,
         PrepareStage, InstallStage, RestoreStage

\* A directory that no unit file names, and no pointer that counts, may change freely.
LEMMA FreeDirectory ==
    ASSUME IInv, NEW d \in Dirs, d \notin {units.service.dir, units.supervisor.dir},
           d # pointer \/ dangling', dangling => dangling', NEW v,
           art' = [art EXCEPT ![d] = v], UNCHANGED <<pointer, units>>
    PROVE  ArtifactsKept' /\ art' = [e \in Dirs |-> art'[e]]
                          /\ (Refs \subseteq Dirs \union {NoDir})'
  <1>1. art'[d] = v /\ \A e \in Dirs \ {d} : art'[e] = art[e]
    BY DEF IInv, Shapes
  <1>2. \A u \in {units.service, units.supervisor} :
            u.dir # NoDir => u.dir \in Dirs \ {d} /\ Verified(u.dir)
    BY DEF IInv, Shapes, Refs, ArtifactsKept
  <1>3. pointer # NoDir /\ ~dangling' => pointer \in Dirs \ {d} /\ VerifiedBundle(pointer)
    BY DEF IInv, Shapes, Refs, ArtifactsKept
  <1>4. ArtifactsKept'
    BY <1>1, <1>2, <1>3 DEF ArtifactsKept, Verified, VerifiedBundle
  <1> QED
    BY <1>4 DEF IInv, Shapes, Refs

\* A new name is that of nothing else.
LEMMA FreshIsFree ==
    ASSUME NEW d \in Fresh
    PROVE  d \in Dirs /\ d \notin Refs /\ ~Verified(d)
  BY DEF Fresh, Refs, Verified, Gone, Artifact

\* Every step of a prepare, with its failure.
LEMMA PrepareKeeps ==
    ASSUME IInv, \/ PrepareBegins \/ DirectoryMade \/ BundleFinished \/ PointerSwitched
                 \/ PointerProtected \/ PrepareFails
    PROVE  IInv'
  <1>1. CASE PrepareBegins
    <2>1. PICK d \in Fresh : op'.dir = d /\ op'.kind = "prepare" /\ op'.step = "make"
                            /\ op'.plan.kind = "bundle"
                            /\ op' = [kind |-> op'.kind, step |-> op'.step, dir |-> op'.dir, plan |-> op'.plan]
      BY <1>1 DEF PrepareBegins, Artifact
    <2>2. UNCHANGED <<art, pointer, units, dangling>>
      BY <1>1 DEF PrepareBegins, files
    <2>3. d \in Dirs /\ d \notin Refs /\ ~Verified(d)
      BY FreshIsFree
    <2> QED
      BY <2>1, <2>2, <2>3 DEF IInv, Shapes, Refs, ArtifactsKept, Verified, VerifiedBundle,
                              PrepareStage, InstallStage, RestoreStage
  <1>2. CASE DirectoryMade
    <2>1. op.dir \in Dirs /\ op.dir \notin Refs
      BY <1>2 DEF DirectoryMade, IInv, Shapes, Refs, PrepareStage, InstallStage
    <2>2. ArtifactsKept' /\ art' = [e \in Dirs |-> art'[e]] /\ (Refs \subseteq Dirs \union {NoDir})'
      BY <1>2, <2>1, FreeDirectory DEF DirectoryMade, Refs
    <2>3. art'[op.dir] = Partial /\ op'.dir = op.dir /\ op'.kind = op.kind /\ op'.step = "finish"
          /\ op'.plan = op.plan
          /\ op' = [kind |-> op'.kind, step |-> op'.step, dir |-> op'.dir, plan |-> op'.plan]
      BY <1>2, <2>1 DEF DirectoryMade, Goto, IInv, Shapes
    <2> QED
      BY <1>2, <2>1, <2>2, <2>3 DEF DirectoryMade, IInv, Shapes, Refs, Verified, Partial, Artifact,
                                    PrepareStage, InstallStage, RestoreStage
  <1>3. CASE BundleFinished
    <2>1. op.dir \in Dirs /\ op.dir \notin Refs
      BY <1>3 DEF BundleFinished, At, IInv, Shapes, Refs, PrepareStage
    <2>2. ArtifactsKept' /\ art' = [e \in Dirs |-> art'[e]] /\ (Refs \subseteq Dirs \union {NoDir})'
      BY <1>3, <2>1, FreeDirectory DEF BundleFinished, Refs
    <2>3. art'[op.dir] = op.plan /\ op'.dir = op.dir /\ op'.kind = op.kind /\ op'.step = "switch"
          /\ op'.plan = op.plan
          /\ op' = [kind |-> op'.kind, step |-> op'.step, dir |-> op'.dir, plan |-> op'.plan]
      BY <1>3, <2>1 DEF BundleFinished, Goto, IInv, Shapes
    <2> QED
      BY <1>3, <2>1, <2>2, <2>3 DEF BundleFinished, At, IInv, Shapes, Refs,
                                    PrepareStage, InstallStage, RestoreStage
  <1>4. CASE PointerSwitched
    <2>1. op.kind = "prepare" /\ op.dir \in Dirs /\ art[op.dir].kind = "bundle"
      BY <1>4 DEF PointerSwitched, At, IInv, Shapes, PrepareStage
    <2>2. op'.kind = op.kind /\ op'.dir = op.dir /\ op'.step = "protect" /\ op'.plan = op.plan
          /\ op' = [kind |-> op'.kind, step |-> op'.step, dir |-> op'.dir, plan |-> op'.plan]
      BY <1>4 DEF PointerSwitched, Goto, IInv, Shapes
    <2> QED
      BY <1>4, <2>1, <2>2, DirsAssumption
      DEF PointerSwitched, IInv, Shapes, Refs, ArtifactsKept, Verified, VerifiedBundle,
          PrepareStage, InstallStage, RestoreStage
  <1>5. CASE PointerProtected
    BY <1>5, DoneKeeps DEF PointerProtected, files
  <1>6. CASE PrepareFails
    <2>1. op.dir \in Dirs /\ op.dir \notin {units.service.dir, units.supervisor.dir}
          /\ (op.dir # pointer \/ dangling') /\ (dangling => dangling')
      BY <1>6 DEF PrepareFails, IInv, Shapes, PrepareStage
    <2>2. ArtifactsKept' /\ art' = [e \in Dirs |-> art'[e]] /\ (Refs \subseteq Dirs \union {NoDir})'
      BY <1>6, <2>1, FreeDirectory DEF PrepareFails
    <2> QED
      BY <1>6, <2>2 DEF PrepareFails, Done, NoOp, IInv, Shapes,
                        PrepareStage, InstallStage, RestoreStage
  <1> QED
    BY <1>1, <1>2, <1>3, <1>4, <1>5, <1>6

\* Every step of an install that touches a directory, with its failures.
LEMMA InstallKeeps ==
    ASSUME IInv, InstallBegins \/ RuntimeFinished \/ RuntimeFails \/ InstallFails \/ UnreferencedRemoved
    PROVE  IInv'
  <1>1. CASE InstallBegins
    <2>1. PICK d \in Fresh : op' = [kind |-> "install", step |-> "make", dir |-> d, plan |-> Runtime(head)]
      BY <1>1 DEF InstallBegins
    <2>2. UNCHANGED <<art, pointer, units, dangling>> /\ Runtime(head).kind = "runtime"
      BY <1>1 DEF InstallBegins, files, Runtime, Artifact
    <2>3. d \in Dirs /\ d \notin Refs /\ ~Verified(d)
      BY FreshIsFree
    <2> QED
      BY <2>1, <2>2, <2>3 DEF IInv, Shapes, Refs, ArtifactsKept, Verified, VerifiedBundle,
                              PrepareStage, InstallStage, RestoreStage
  <1>2. CASE RuntimeFinished
    <2>1. op.dir \in Dirs /\ op.dir \notin Refs
      BY <1>2 DEF RuntimeFinished, At, IInv, Shapes, InstallStage
    <2>2. ArtifactsKept' /\ art' = [e \in Dirs |-> art'[e]] /\ (Refs \subseteq Dirs \union {NoDir})'
      BY <1>2, <2>1, FreeDirectory DEF RuntimeFinished, Refs
    <2>3. art'[op.dir] = op.plan /\ op'.dir = op.dir /\ op'.kind = op.kind /\ op'.step = "service unit"
          /\ op'.plan = op.plan
          /\ op' = [kind |-> op'.kind, step |-> op'.step, dir |-> op'.dir, plan |-> op'.plan]
      BY <1>2, <2>1 DEF RuntimeFinished, Goto, IInv, Shapes
    <2> QED
      BY <1>2, <2>1, <2>2, <2>3 DEF RuntimeFinished, At, IInv, Shapes, Refs,
                                    PrepareStage, InstallStage, RestoreStage
  <1>3. CASE RuntimeFails
    <2>1. op.dir \in Dirs /\ op.dir \notin Refs
      BY <1>3 DEF RuntimeFails, IInv, Shapes, InstallStage
    <2>2. ArtifactsKept' /\ art' = [e \in Dirs |-> art'[e]] /\ (Refs \subseteq Dirs \union {NoDir})'
      BY <1>3, <2>1, FreeDirectory DEF RuntimeFails, Refs
    <2> QED
      BY <1>3, <2>2 DEF RuntimeFails, Done, NoOp, IInv, Shapes,
                        PrepareStage, InstallStage, RestoreStage
  <1>4. CASE InstallFails
    <2>1. UNCHANGED <<art, pointer, units, dangling>> /\ op' = [op EXCEPT !.step = "remove"] /\ op.kind = "install"
          /\ op.step \notin {"make", "finish"}
      BY <1>4 DEF InstallFails, Goto, files
    <2> QED
      BY <2>1 DEF IInv, Shapes, Refs, ArtifactsKept, Verified, VerifiedBundle,
                  PrepareStage, InstallStage, RestoreStage
  <1>5. CASE UnreferencedRemoved
    <2>1. op.dir \in Dirs /\ art[op.dir].kind = "runtime" /\ op' = NoOp
          /\ UNCHANGED <<pointer, units, dangling>> /\ op.dir # pointer
          /\ (units.supervisor.dir = op.dir => units.service.dir = op.dir)
      BY <1>5 DEF UnreferencedRemoved, At, Done, IInv, Shapes, InstallStage
    <2>2. CASE units.service.dir = op.dir
      <3>1. art' = [art EXCEPT ![op.dir] = @]
        BY <1>5, <2>2 DEF UnreferencedRemoved
      <3>2. UNCHANGED art
        BY <3>1, <2>1 DEF IInv, Shapes
      <3> QED
        BY <2>1, <3>2, DoneKeeps DEF Done
    <2>3. CASE units.service.dir # op.dir
      <3>1. op.dir \notin {units.service.dir, units.supervisor.dir}
        BY <2>1, <2>3
      <3>2. art' = [art EXCEPT ![op.dir] = Gone]
        BY <1>5, <2>3 DEF UnreferencedRemoved
      <3>3. ArtifactsKept' /\ art' = [e \in Dirs |-> art'[e]] /\ (Refs \subseteq Dirs \union {NoDir})'
        BY <2>1, <3>1, <3>2, FreeDirectory
      <3> QED
        BY <2>1, <3>3 DEF NoOp, IInv, Shapes, PrepareStage, InstallStage, RestoreStage
    <2> QED
      BY <2>2, <2>3
  <1> QED
    BY <1>1, <1>2, <1>3, <1>4, <1>5

\* Install and restore write only units of an artifact that verifies.
LEMMA UnitsKeep ==
    ASSUME IInv, ServiceUnitWritten \/ SupervisorUnitsWritten \/ Reloaded
    PROVE  IInv'
  <1>1. op.dir \in Dirs /\ op.kind \in {"install", "restore"} /\ OpUnit.dir = op.dir
        /\ UNCHANGED <<art, pointer, dangling>>
    BY DEF ServiceUnitWritten, SupervisorUnitsWritten, Reloaded, WritesUnits, files,
           OpUnit, Unit, IInv, Shapes
  <1>2. Verified(op.dir)
    BY <1>1 DEF ServiceUnitWritten, SupervisorUnitsWritten, Reloaded, IInv, Verified,
                InstallStage, RestoreStage
  <1>3. CASE ServiceUnitWritten
    <2>1. units' = [service |-> OpUnit, supervisor |-> units.supervisor]
          /\ op' = [op EXCEPT !.step = "supervisor units"] /\ op.step = "service unit"
      BY <1>3 DEF ServiceUnitWritten, Goto, IInv, Shapes
    <2> QED
      BY <1>1, <1>2, <2>1, ZenonT(60) DEF IInv, Shapes, Refs, ArtifactsKept, Verified, VerifiedBundle,
                              PrepareStage, InstallStage, RestoreStage
  <1>4. CASE SupervisorUnitsWritten
    <2>1. units' = [service |-> units.service, supervisor |-> OpUnit]
          /\ op' = [op EXCEPT !.step = "reload"] /\ op.step = "supervisor units"
      BY <1>4 DEF SupervisorUnitsWritten, Goto, IInv, Shapes
    <2> QED
      BY <1>1, <1>2, <2>1 DEF IInv, Shapes, Refs, ArtifactsKept, Verified, VerifiedBundle,
                              PrepareStage, InstallStage, RestoreStage
  <1>5. CASE Reloaded
    <2>1. UNCHANGED units
          /\ op' = [op EXCEPT !.step = IF op.kind = "install" THEN "timer" ELSE "check"]
          /\ op.step = "reload"
      BY <1>5 DEF Reloaded, Goto, files
    <2> QED
      BY <1>1, <1>2, <2>1 DEF IInv, Shapes, Refs, ArtifactsKept, Verified, VerifiedBundle,
                              PrepareStage, InstallStage, RestoreStage
  <1> QED
    BY <1>3, <1>4, <1>5

\* Every step of a restore.
LEMMA RestoreKeeps ==
    ASSUME IInv, \/ RestoreBegins \/ ServiceStopped \/ ConfigRestored \/ RestoreChecked
                 \/ TimerStopped \/ TimerRestored \/ EnabledRestored \/ RestoreStarted
    PROVE  IInv'
  <1>1. CASE RestoreBegins
    <2>1. pointer \in Dirs /\ art[pointer].kind = "bundle"
          /\ UNCHANGED <<art, pointer, units, dangling>>
          /\ op' = [kind |-> "restore", step |-> "stop", dir |-> pointer, plan |-> Gone]
      BY <1>1 DEF RestoreBegins, VerifiedBundle, files, IInv, Shapes, Refs
    <2> QED
      BY <2>1 DEF IInv, Shapes, Refs, ArtifactsKept, Verified, VerifiedBundle,
                  PrepareStage, InstallStage, RestoreStage
  <1>2. CASE \/ ServiceStopped \/ ConfigRestored \/ RestoreChecked
             \/ TimerStopped \/ TimerRestored \/ EnabledRestored
    <2>1. op.kind = "restore" /\ UNCHANGED <<art, pointer, units, dangling>>
      BY <1>2 DEF ServiceStopped, ConfigRestored, RestoreChecked, TimerStopped, TimerRestored,
                  EnabledRestored, At, files
    <2>2. PICK s : op' = [op EXCEPT !.step = s]
      BY <1>2 DEF ServiceStopped, ConfigRestored, RestoreChecked, TimerStopped, TimerRestored,
                  EnabledRestored, Goto
    <2> QED
      BY <2>1, <2>2 DEF IInv, Shapes, Refs, ArtifactsKept, Verified, VerifiedBundle,
                        PrepareStage, InstallStage, RestoreStage
  <1>3. CASE RestoreStarted
    BY <1>3, DoneKeeps DEF RestoreStarted
  <1> QED
    BY <1>1, <1>2, <1>3

\* Prune deletes what neither the pointer nor a unit file names: it runs only
\* while the two unit files name the same artifact, or none.
LEMMA PruneKeeps ==
    ASSUME IInv, Prune
    PROVE  IInv'
  <1>1. PICK d \in Dirs : ~Retained(d) /\ art' = [art EXCEPT ![d] = Gone]
    BY DEF Prune
  <1>2. UNCHANGED <<pointer, units, op, dangling>> /\ op = NoOp
    BY DEF Prune
  <1>3. d \notin {units.service.dir, units.supervisor.dir} /\ d # pointer
    BY <1>1, DirsAssumption DEF Prune, Retained, ManagedRegistered, Absent, Unit
  <1>4. ArtifactsKept' /\ art' = [e \in Dirs |-> art'[e]] /\ (Refs \subseteq Dirs \union {NoDir})'
    BY <1>1, <1>2, <1>3, FreeDirectory
  <1> QED
    BY <1>2, <1>4 DEF NoOp, IInv, Shapes, PrepareStage, InstallStage, RestoreStage

LEMMA StepKeeps ==
    ASSUME IInv, [Next]_vars
    PROVE  IInv'
  <1>1. CASE \/ PrepareBegins \/ DirectoryMade \/ BundleFinished \/ PointerSwitched
             \/ PointerProtected \/ PrepareFails
    BY <1>1, PrepareKeeps
  <1>2. CASE InstallBegins \/ RuntimeFinished \/ RuntimeFails \/ InstallFails \/ UnreferencedRemoved
    BY <1>2, InstallKeeps
  <1>3. CASE ServiceUnitWritten \/ SupervisorUnitsWritten \/ Reloaded
    BY <1>3, UnitsKeep
  <1>4. CASE \/ RestoreBegins \/ ServiceStopped \/ ConfigRestored \/ RestoreChecked
             \/ TimerStopped \/ TimerRestored \/ EnabledRestored \/ RestoreStarted
    BY <1>4, RestoreKeeps
  <1>5. CASE Prune
    BY <1>5, PruneKeeps
  <1>6. CASE TimerStarted \/ ServiceRestarted
    <2>1. op.kind = "install" /\ op.step \in {"timer", "restart"}
          /\ UNCHANGED <<art, pointer, units, dangling>>
      BY <1>6 DEF TimerStarted, ServiceRestarted, At, files
    <2>2. PICK s \in {"restart", "verify"} : op' = [op EXCEPT !.step = s]
      BY <1>6 DEF TimerStarted, ServiceRestarted, Goto
    <2> QED
      BY <2>1, <2>2 DEF IInv, Shapes, Refs, ArtifactsKept, Verified, VerifiedBundle,
                        PrepareStage, InstallStage, RestoreStage
  <1>7. CASE InstallVerified \/ RestoreFails \/ OperatorDies \/ Reboot
    BY <1>7, DoneKeeps DEF InstallVerified, RestoreFails, OperatorDies, Reboot, files
  <1>8. CASE ServiceStarts \/ ServiceDies \/ AcceptJob \/ JobEnds \/ ServiceCommand
             \/ EditConfig \/ Checkout
    BY <1>8, ServiceKeeps DEF ServiceStarts, ServiceDies, AcceptJob, JobEnds, ServiceCommand,
                              EditConfig, Checkout, files
  <1>9. CASE UNCHANGED vars
    BY <1>9, ServiceKeeps DEF vars
  <1> QED
    BY <1>1, <1>2, <1>3, <1>4, <1>5, <1>6, <1>7, <1>8, <1>9 DEF Next

\* Whatever fails or dies between two steps of prepare, install, restore and
\* prune, the unit files name complete artifacts, and so does the pointer, but for the
\* one history the code does not undo: prepareCutoverRollbackBundle has switched the
\* pointer, its last call fails, and its catch removes the bundle (dangling).
THEOREM NothingNeededIsDeleted == Spec => []ArtifactsKept
  <1>1. IInv => ArtifactsKept
    BY DEF IInv
  <1> QED
    BY <1>1, InitKept, StepKeeps, PTL DEF Spec

-----------------------------------------------------------------------------
(* TypeOK: a bundle has a config to restore, so a restore writes one.       *)

Filled(a) == a.kind = "bundle" => a.config \in Configs

ArtTyped == art \in [Dirs -> Artifacts] /\ \A d \in Dirs : Filled(art[d])
OpTyped == op.dir \in Dirs \union {NoDir} /\ op.plan \in Artifacts /\ Filled(op.plan)
UnitsTyped == units \in [service : UnitValues, supervisor : UnitValues] /\ loaded \in UnitValues
NamesTyped == pointer \in Dirs \union {NoDir} /\ head \in Revisions
              /\ old \in [schema : {1, 2}, managed : BOOLEAN] 
              /\ halfway \in BOOLEAN /\ dangling \in BOOLEAN
ConfigTyped == config \in Configs
ToldTyped == enabled \in BOOLEAN /\ active \in BOOLEAN /\ timer \in BOOLEAN
RunTyped == process \in Revisions \union {0} /\ job \in Revisions \union {0} /\ schema \in 0 .. 2
            /\ late \in BOOLEAN

Typed == /\ ArtTyped /\ OpTyped /\ UnitsTyped /\ NamesTyped /\ ConfigTyped
         /\ ToldTyped /\ RunTyped

\* The artifacts that are not bundles, and the units.
LEMMA ValuesTyped ==
    /\ Gone \in Artifacts /\ Filled(Gone)
    /\ Partial \in Artifacts /\ Filled(Partial)
    /\ \A rev \in Revisions : Runtime(rev) \in Artifacts /\ Filled(Runtime(rev))
    /\ Absent \in UnitValues /\ Legacy \in UnitValues
    /\ \A m \in {"managed", "compat"}, d \in Dirs : Unit(m, d) \in UnitValues
  BY DEF Gone, Partial, Runtime, Artifact, Artifacts, NoSaved, Filled, UnitValues

LEMMA InitTyped == Init => Typed
  <1> SUFFICES ASSUME Init PROVE Typed
    OBVIOUS
  <1>1. \E u \in {Absent, Legacy} : units = [service |-> u, supervisor |-> u]
    BY DEF Init
  <1>2. loaded = units.service
    BY DEF Init
  <1>3. UnitsTyped
    BY <1>1, <1>2, ValuesTyped DEF UnitsTyped
  <1>4. ArtTyped /\ OpTyped
    BY ValuesTyped DEF Init, ArtTyped, OpTyped, NoOp
  <1>5. old \in [schema : {1, 2}, managed : BOOLEAN] /\ process \in {0, Source}
    BY DEF Init
  <1>6. NamesTyped /\ ConfigTyped
    BY <1>5 DEF Init, NamesTyped, ConfigTyped, Configs, Revisions
  <1>7. ToldTyped
    BY DEF Init, ToldTyped
  <1>8. RunTyped
    <2>1. old.schema \in {1, 2}
      BY <1>5
    <2>2. schema = 0 \/ schema = old.schema
      BY DEF Init
    <2>3. job = 0 /\ late \in BOOLEAN
      BY DEF Init
    <2>4. process \in Revisions \union {0} /\ schema \in 0 .. 2
      BY <1>5, <2>1, <2>2 DEF Revisions
    <2> QED
      BY <2>3, <2>4 DEF RunTyped
  <1> QED
    BY <1>3, <1>4, <1>6, <1>7, <1>8 DEF Typed

\* An operation goes on, or is over.
LEMMA OpGoesOn ==
    ASSUME Shapes, OpTyped, (\E s : Goto(s)) \/ Done
    PROVE  OpTyped'
  <1>1. CASE Done
    BY <1>1, ValuesTyped DEF Done, NoOp, OpTyped
  <1>2. ASSUME NEW s, Goto(s) PROVE OpTyped'
    <2>1. op' = [kind |-> op.kind, step |-> s, dir |-> op.dir, plan |-> op.plan]
      BY <1>2 DEF Goto, Shapes
    <2> QED
      BY <2>1 DEF OpTyped
  <1> QED
    BY <1>1, <1>2

\* One directory gets something else.
LEMMA ArtChanges ==
    ASSUME ArtTyped, NEW d, NEW a \in Artifacts, Filled(a), art' = [art EXCEPT ![d] = a]
    PROVE  ArtTyped'
  BY DEF ArtTyped

\* What a unit runs is a revision, and knows a schema.
LEMMA RevisionOfUnit ==
    ASSUME Typed, NEW u \in UnitValues, u.mode # "absent"
    PROVE  RevOf(u) \in Revisions \union {0}
  <1>1. CASE u = Legacy
    BY <1>1 DEF Legacy, Unit, RevOf, Typed, NamesTyped
  <1>2. ASSUME NEW m \in {"managed", "compat"}, NEW d \in Dirs, u = Unit(m, d)
        PROVE  RevOf(u) \in Revisions \union {0}
    <2>1. art[d] \in Artifacts
      BY DEF Typed, ArtTyped
    <2>2. RevOf(u) = art[d].rev
      BY <1>2 DEF RevOf, Unit
    <2> QED
      BY <2>1, <2>2 DEF Artifacts
  <1> QED
    BY <1>1, <1>2 DEF UnitValues, Absent, Unit

LEMMA StartTyped ==
    ASSUME Typed, NEW u \in UnitValues, Started(u), UNCHANGED <<job, late>>
    PROVE  RunTyped'
  <1>1. CASE Launchable(u)
    <2>1. process' \in Revisions \union {0}
      BY <1>1, RevisionOfUnit DEF Started, Launchable
    <2>2. \A rev : SchemaOf(rev) \in {1, 2}
      BY DEF SchemaOf, Typed, NamesTyped
    <2> QED
      BY <1>1, <2>1, <2>2 DEF Started, Typed, RunTyped
  <1>2. CASE ~Launchable(u)
    BY <1>2 DEF Started, Typed, RunTyped
  <1> QED
    BY <1>1, <1>2

LEMMA PrepareTyped ==
    ASSUME IInv, Typed,
           \/ PrepareBegins \/ DirectoryMade \/ BundleFinished \/ PointerSwitched
           \/ PointerProtected \/ PrepareFails
    PROVE  Typed'
  <1> USE DEF Typed
  <1>1. CASE PrepareBegins
    <2>1. PICK d \in Fresh, from \in {"none", "managed", "legacy"}, mode \in {"managed", "compat"} :
             op' = [kind |-> "prepare", step |-> "make", dir |-> d,
                    plan |-> Artifact("bundle", RevOf(units.service), mode, from, config,
                                      [enabled |-> enabled, active |-> active, timer |-> timer])]
      BY <1>1 DEF PrepareBegins
    <2>2. units.service \in UnitValues /\ units.service.mode # "absent"
      BY <1>1 DEF PrepareBegins, ManagedRegistered, LegacyRegistered, Legacy, Unit, UnitsTyped
    <2>3. RevOf(units.service) \in Revisions \union {0}
      BY <2>2, RevisionOfUnit
    <2>4. OpTyped'
      BY <2>1, <2>3, FreshIsFree DEF OpTyped, Artifact, Artifacts, Filled, ConfigTyped, ToldTyped
    <2> QED
      BY <1>1, <2>4 DEF PrepareBegins, files, manager, service, work, ArtTyped, UnitsTyped, NamesTyped,
                        ConfigTyped, ToldTyped, RunTyped
  <1>2. CASE DirectoryMade \/ BundleFinished \/ PrepareFails
    <2>1. OpTyped'
      BY <1>2, OpGoesOn DEF DirectoryMade, BundleFinished, PrepareFails, IInv
    <2>2. PICK a \in {Partial, op.plan, Gone} : art' = [art EXCEPT ![op.dir] = a]
      BY <1>2 DEF DirectoryMade, BundleFinished, PrepareFails
    <2>3. a \in Artifacts /\ Filled(a)
      BY <2>2, ValuesTyped DEF OpTyped
    <2>4. ArtTyped'
      BY <2>2, <2>3, ArtChanges
    <2> QED
      BY <1>2, <2>1, <2>4
      DEF DirectoryMade, BundleFinished, PrepareFails, manager, service, work, UnitsTyped, NamesTyped,
          ConfigTyped, ToldTyped, RunTyped
  <1>3. CASE PointerSwitched \/ PointerProtected
    <2>1. OpTyped'
      BY <1>3, OpGoesOn DEF PointerSwitched, PointerProtected, IInv
    <2> QED
      BY <1>3, <2>1 DEF PointerSwitched, PointerProtected, files, manager, service, work, ArtTyped, UnitsTyped, NamesTyped,
                        ConfigTyped, ToldTyped, RunTyped, OpTyped
  <1> QED
    BY <1>1, <1>2, <1>3

LEMMA InstallTyped ==
    ASSUME IInv, Typed,
           \/ InstallBegins \/ RuntimeFinished \/ RuntimeFails \/ UnreferencedRemoved \/ Prune
           \/ TimerStarted \/ ServiceRestarted \/ InstallVerified \/ InstallFails
    PROVE  Typed'
  <1> USE DEF Typed
  <1>1. CASE InstallBegins
    <2>1. PICK d \in Fresh :
             op' = [kind |-> "install", step |-> "make", dir |-> d, plan |-> Runtime(head)]
      BY <1>1 DEF InstallBegins
    <2>2. OpTyped'
      BY <2>1, ValuesTyped, FreshIsFree DEF OpTyped, NamesTyped
    <2> QED
      BY <1>1, <2>2 DEF InstallBegins, files, manager, service, work, ArtTyped, UnitsTyped, NamesTyped,
                        ConfigTyped, ToldTyped, RunTyped
  <1>2. CASE RuntimeFinished \/ RuntimeFails \/ UnreferencedRemoved \/ Prune
    <2>1. OpTyped'
      BY <1>2, OpGoesOn DEF RuntimeFinished, RuntimeFails, UnreferencedRemoved, Prune, IInv, OpTyped
    <2>2. (UNCHANGED art) \/ \E d \in Dirs, a \in {op.plan, Gone} : art' = [art EXCEPT ![d] = a]
      <3>1. CASE Prune
        BY <3>1 DEF Prune
      <3>2. CASE RuntimeFinished \/ RuntimeFails \/ UnreferencedRemoved
        <4>1. op.dir \in Dirs
          BY <3>2 DEF RuntimeFinished, RuntimeFails, UnreferencedRemoved, At, IInv, Shapes
        <4>2. art = [art EXCEPT ![op.dir] = art[op.dir]]
          BY <4>1 DEF ArtTyped
        <4> QED
          BY <3>2, <4>1, <4>2 DEF RuntimeFinished, RuntimeFails, UnreferencedRemoved
      <3> QED
        BY <1>2, <3>1, <3>2
    <2>3. ArtTyped'
      BY <2>2, ArtChanges, ValuesTyped DEF OpTyped, ArtTyped
    <2> QED
      BY <1>2, <2>1, <2>3
      DEF RuntimeFinished, RuntimeFails, UnreferencedRemoved, Prune, manager, service, work, UnitsTyped,
          NamesTyped, ConfigTyped, ToldTyped, RunTyped
  <1>3. CASE TimerStarted \/ InstallVerified \/ InstallFails
    <2>1. OpTyped'
      BY <1>3, OpGoesOn DEF TimerStarted, InstallVerified, InstallFails, IInv
    <2> QED
      BY <1>3, <2>1 DEF TimerStarted, InstallVerified, InstallFails, files, manager, service, work,
         ArtTyped, UnitsTyped, NamesTyped, ConfigTyped, ToldTyped, RunTyped
  <1>4. CASE ServiceRestarted
    <2>1. OpTyped'
      BY <1>4, OpGoesOn DEF ServiceRestarted, IInv
    <2>2. PICK autoStart \in BOOLEAN :
             /\ enabled' = autoStart /\ active' = autoStart
             /\ IF autoStart THEN Started(loaded) ELSE process' = 0 /\ UNCHANGED schema
      BY <1>4 DEF ServiceRestarted
    <2>3. UNCHANGED <<files, loaded, timer, job, late>>
      BY <1>4 DEF ServiceRestarted, work
    <2>4. RunTyped'
      BY <2>2, <2>3, StartTyped DEF UnitsTyped, RunTyped
    <2> QED
      BY <2>1, <2>2, <2>3, <2>4 DEF files, ArtTyped, UnitsTyped, NamesTyped, ConfigTyped, ToldTyped
  <1> QED
    BY <1>1, <1>2, <1>3, <1>4

LEMMA UnitTyped ==
    ASSUME IInv, Typed, ServiceUnitWritten \/ SupervisorUnitsWritten \/ Reloaded
    PROVE  Typed'
  <1> USE DEF Typed
  <1>1. op.dir \in Dirs
    BY DEF ServiceUnitWritten, SupervisorUnitsWritten, Reloaded, WritesUnits, IInv, Shapes
  <1>2. OpUnit \in UnitValues
    <2>1. art[op.dir].mode \in {"managed", "compat"}
      BY <1>1 DEF ArtTyped, Artifacts
    <2> QED
      BY <1>1, <2>1, ValuesTyped DEF OpUnit
  <1>3. OpTyped'
    BY OpGoesOn DEF ServiceUnitWritten, SupervisorUnitsWritten, Reloaded, IInv
  <1>4. UnitsTyped'
    BY <1>2 DEF ServiceUnitWritten, SupervisorUnitsWritten, Reloaded, UnitsTyped, manager, files
  <1> QED
    BY <1>3, <1>4 DEF ServiceUnitWritten, SupervisorUnitsWritten, Reloaded, manager, files, service, work,
       ArtTyped, NamesTyped, ConfigTyped, ToldTyped, RunTyped

LEMMA RestoreTyped ==
    ASSUME IInv, Typed,
           \/ RestoreBegins \/ ServiceStopped \/ ConfigRestored \/ RestoreChecked
           \/ TimerStopped \/ TimerRestored \/ EnabledRestored \/ RestoreStarted \/ RestoreFails
    PROVE  Typed'
  <1> USE DEF Typed
  <1>1. CASE RestoreBegins
    <2>1. OpTyped'
      BY <1>1, ValuesTyped DEF RestoreBegins, OpTyped, NamesTyped
    <2> QED
      BY <1>1, <2>1 DEF RestoreBegins, files, manager, service, work, ArtTyped, UnitsTyped, NamesTyped,
         ConfigTyped, ToldTyped, RunTyped
  <1>2. CASE ServiceStopped \/ RestoreChecked \/ RestoreFails
    <2>1. OpTyped'
      BY <1>2, OpGoesOn DEF ServiceStopped, RestoreChecked, RestoreFails, IInv
    <2> QED
      BY <1>2, <2>1 DEF ServiceStopped, RestoreChecked, RestoreFails, files, manager, service, work,
         ArtTyped, UnitsTyped, NamesTyped, ConfigTyped, ToldTyped, RunTyped
  <1>3. CASE ConfigRestored
    <2>1. OpTyped'
      BY <1>3, OpGoesOn DEF ConfigRestored, IInv
    <2>2. op.dir \in Dirs /\ art[op.dir].kind = "bundle"
      BY <1>3 DEF ConfigRestored, At, IInv, Shapes, RestoreStage
    <2>3. ConfigTyped'
      BY <1>3, <2>2 DEF ConfigRestored, ConfigTyped, ArtTyped, Filled
    <2> QED
      BY <1>3, <2>1, <2>3 DEF ConfigRestored, manager, service, work, ArtTyped, UnitsTyped, NamesTyped,
         ToldTyped, RunTyped
  <1>4. CASE RestoreStarted
    <2>1. OpTyped'
      BY <1>4, OpGoesOn DEF RestoreStarted, IInv
    <2>2. op.dir \in Dirs
      BY <1>4 DEF RestoreStarted, At, IInv, Shapes
    <2>3. art[op.dir].saved \in [enabled : BOOLEAN, active : BOOLEAN, timer : BOOLEAN]
      BY <2>2 DEF ArtTyped, Artifacts
    <2>4. ToldTyped'
      BY <1>4, <2>3 DEF RestoreStarted, ToldTyped
    <2>5. RunTyped'
      <3>1. UNCHANGED <<job, late>> /\ (Started(loaded) \/ UNCHANGED <<process, schema>>)
        BY <1>4 DEF RestoreStarted, work
      <3> QED
        BY <3>1, StartTyped DEF UnitsTyped, RunTyped
    <2> QED
      BY <1>4, <2>1, <2>4, <2>5 DEF RestoreStarted, ArtTyped, UnitsTyped, NamesTyped, ConfigTyped
  <1>5. CASE TimerStopped \/ TimerRestored \/ EnabledRestored
    <2>1. OpTyped'
      BY <1>5, OpGoesOn DEF TimerStopped, TimerRestored, EnabledRestored, IInv
    <2>2. op.dir \in Dirs
      BY <1>5 DEF TimerStopped, TimerRestored, EnabledRestored, At, IInv, Shapes
    <2>3. art[op.dir].saved \in [enabled : BOOLEAN, active : BOOLEAN, timer : BOOLEAN]
      BY <2>2 DEF ArtTyped, Artifacts
    <2>4. ToldTyped'
      BY <1>5, <2>3 DEF TimerStopped, TimerRestored, EnabledRestored, ToldTyped
    <2> QED
      BY <1>5, <2>1, <2>4 DEF TimerStopped, TimerRestored, EnabledRestored, files, service,
         work, ArtTyped, UnitsTyped, NamesTyped, ConfigTyped, RunTyped
  <1> QED
    BY <1>1, <1>2, <1>3, <1>4, <1>5

LEMMA BesideTyped ==
    ASSUME IInv, Typed,
           \/ ServiceStarts \/ ServiceDies \/ AcceptJob \/ JobEnds \/ ServiceCommand
           \/ EditConfig \/ Checkout \/ OperatorDies \/ Reboot \/ UNCHANGED vars
    PROVE  Typed'
  <1> USE DEF Typed
  <1>1. CASE ServiceStarts
    <2>1. RunTyped'
      BY <1>1, StartTyped DEF ServiceStarts, work, UnitsTyped
    <2> QED
      BY <1>1, <2>1 DEF ServiceStarts, files, manager, ArtTyped, OpTyped, UnitsTyped, NamesTyped,
         ConfigTyped, ToldTyped
  <1>2. CASE ServiceDies \/ AcceptJob \/ JobEnds \/ EditConfig \/ Checkout \/ UNCHANGED vars
    BY <1>2 DEF ServiceDies, AcceptJob, JobEnds, EditConfig, Checkout, vars, files, manager,
       service, work, At, ArtTyped, OpTyped, UnitsTyped, NamesTyped, ConfigTyped, ToldTyped, RunTyped
  <1>3. CASE ServiceCommand
    <2>1. /\ UNCHANGED <<files, loaded, timer, schema, job, late, op>>
          /\ process' \in {process, 0}
      BY <1>3 DEF ServiceCommand, work
    <2>2. ToldTyped'
      BY <1>3 DEF ServiceCommand, ToldTyped
    <2>3. RunTyped'
      BY <2>1 DEF RunTyped
    <2> QED
      BY <2>1, <2>2, <2>3 DEF files, ArtTyped, OpTyped, UnitsTyped, NamesTyped, ConfigTyped
  <1>4. CASE OperatorDies \/ Reboot
    <2>1. OpTyped'
      BY <1>4, OpGoesOn DEF OperatorDies, Reboot, IInv
    <2> QED
      BY <1>4, <2>1 DEF OperatorDies, Reboot, files, manager, service, work, ArtTyped, UnitsTyped,
         NamesTyped, ConfigTyped, ToldTyped, RunTyped
  <1> QED
    BY <1>1, <1>2, <1>3, <1>4

LEMMA StepTyped ==
    ASSUME IInv, Typed, [Next]_vars
    PROVE  Typed'
  BY PrepareTyped, InstallTyped, UnitTyped, RestoreTyped, BesideTyped DEF Next

\* The directories, the unit files, systemd and the store hold what their declarations
\* say, over every failure and death: a restore, too, finds a config to write and a
\* revision to start (restoreCutoverRollbackBundle).
THEOREM CutoverTypes == Spec => []TypeOK
  <1>2. Typed => TypeOK
    BY DEF Typed, ArtTyped, OpTyped, UnitsTyped, NamesTyped, ConfigTyped, ToldTyped, RunTyped,
       TypeOK
  <1> QED
    BY <1>2, InitKept, StepKeeps, InitTyped, StepTyped, PTL DEF Spec

-----------------------------------------------------------------------------
(* NoDowngrade: which revision a unit would start.                          *)

New(u) == u # Absent /\ RevOf(u) = Candidate
Older(u) == u.dir # NoDir /\ art[u.dir].rev # Candidate
Named(u) == u.dir \in Dirs /\ u.mode \notin {"absent", "legacy"}

Values ==
    /\ process \in {0, Source, Candidate} /\ job \in {0, Source, Candidate}
    /\ head \in {Source, Candidate}
    /\ \A d \in Dirs :
          /\ Verified(d) => art[d].rev \in {Source, Candidate}
          /\ art[d].kind = "bundle" =>
                art[d].rev = Source /\ art[d].mode \notin {"absent", "legacy"}
    /\ \A u \in {units.service, loaded} : u \in {Absent, Legacy} \/ Named(u)

NeverRun ==
    /\ units.service = Absent => loaded = Absent
    /\ loaded = Absent => process = 0 /\ job = 0
    /\ units.service = Legacy => loaded = Legacy

\* What systemd has loaded is the unit file, nothing, or what the candidate replaces.
LoadedInv ==
    \/ loaded = units.service
    \/ loaded = Absent
    \/ New(units.service) /\ (loaded = Legacy \/ Older(loaded))

\* Once the candidate ran or accepted a job, only the candidate is started.
Serves ==
    /\ New(units.service)
    /\ loaded = units.service \/ (loaded = Legacy /\ head = Candidate)
Upgraded == process = Candidate \/ (job = Candidate /\ ~late) => Serves

Standing ==
    /\ Values /\ NeverRun
    /\ ~halfway => LoadedInv /\ Upgraded
    /\ ~halfway /\ ~late => OldNeverReinterprets

Planned ==
    /\ op.kind = "prepare" =>
          op.plan.rev = Source /\ op.plan.mode \notin {"absent", "legacy"}
    /\ op.kind = "install" =>
          /\ op.plan.rev \in {Source, Candidate}
          /\ op.step \notin {"make", "finish"} => art[op.dir].rev = op.plan.rev

\* An install replaces what the source revision runs on, or nothing.
Replaces ==
    op.kind = "install" /\ op.step \in {"make", "finish", "service unit"} =>
        /\ loaded \in {units.service, Absent}
        /\ units.service \in {Absent, Legacy} \/ Older(units.service)

\* An install of the source revision is the first of the instance.
First ==
    op.kind = "install" /\ op.plan.rev # Candidate =>
        /\ Candidate \notin {process, job}
        /\ loaded \in {Absent, Unit("managed", op.dir)}

\* A restore has let systemd read its units; and has then stopped what still ran.
Stopped == {"stop timer", "timer", "enable", "start"}
Last == {"check", "stop again"} \union Stopped

Written ==
    /\ op.kind = "install" /\ op.step \in {"supervisor units", "reload"}
          => units.service = Unit("managed", op.dir)
    /\ op.kind = "restore" /\ op.step \in {"supervisor units", "reload"} \union Last
          => Named(units.service) /\ units.service.dir = op.dir
    /\ op.kind = "restore" /\ op.step \in Last => loaded = units.service
    /\ At("restore", "stop again") => job = 0 \/ late
    /\ op.kind = "restore" /\ op.step \in Stopped =>
          process # Candidate /\ (job = Candidate => late)

Operating == Planned /\ First /\ Written /\ (~halfway => Replaces)

NInv == IInv /\ Standing /\ Operating

LEMMA UnitsDiffer ==
    /\ Absent # Legacy /\ Absent.dir = NoDir /\ Legacy.dir = NoDir
    /\ Absent.mode = "absent" /\ Legacy.mode = "legacy"
    /\ \A m, d : Unit(m, d).mode = m /\ Unit(m, d).dir = d
    /\ \A d \in Dirs : Named(Unit("managed", d))
    /\ \A u : Named(u) => u # Absent /\ u # Legacy
  BY DirsAssumption DEF Absent, Legacy, Unit, Named

LEMMA RevisionsDiffer == Source # Candidate /\ Source # 0 /\ Candidate # 0
  BY DEF Source, Candidate

LEMMA InitNInv == Init => NInv
  <1> SUFFICES ASSUME Init PROVE NInv
    OBVIOUS
  <1>1. IInv
    BY InitKept
  <1>2. /\ op = NoOp /\ job = 0 /\ ~late /\ head = Source /\ process \in {0, Source}
        /\ loaded = units.service /\ units.service \in {Absent, Legacy}
        /\ units.service = Absent => process = 0
        /\ \A d \in Dirs : art[d] = Gone
    <2>1. CASE units = [service |-> Absent, supervisor |-> Absent] /\ process = 0
      BY <2>1 DEF Init
    <2>2. CASE units = [service |-> Legacy, supervisor |-> Legacy] /\ process = Source
      BY <2>2, UnitsDiffer DEF Init
    <2> QED
      BY <2>1, <2>2 DEF Init
  <1>3. Standing
    BY <1>2, UnitsDiffer DEF Standing, Values, NeverRun, LoadedInv, Upgraded,
       OldNeverReinterprets, Verified, Gone, Artifact, Source, Candidate
  <1>4. Operating
    BY <1>2 DEF Operating, Planned, First, Written, At, Replaces, NoOp
  <1> QED
    BY <1>1, <1>3, <1>4 DEF NInv

\* No operation is in progress any more.
LEMMA DoneOperates ==
    ASSUME op' = NoOp
    PROVE  Operating'
  BY DEF Operating, Planned, First, Written, At, Replaces, NoOp

\* One directory that nothing names changes.
LEMMA FreeStands ==
    ASSUME NInv, NEW d \in Dirs, d # units.service.dir, NEW v, art' = [art EXCEPT ![d] = v],
           UNCHANGED <<units, loaded, process, job, late, head, halfway>>,
           v.kind \in {"runtime", "bundle"} => v.rev \in {Source, Candidate},
           v.kind = "bundle" => v.rev = Source /\ v.mode \notin {"absent", "legacy"},
           ~halfway => v.rev # Candidate \/ loaded \in {units.service, Absent}
    PROVE  /\ Standing'
           /\ art'[d] = v /\ \A e \in Dirs \ {d} : art'[e] = art[e]
           /\ units.service \in {Absent, Legacy} \/ Older(units.service)
                => units.service \in {Absent, Legacy} \/ Older(units.service)'
  <1>1. art'[d] = v /\ \A e \in Dirs \ {d} : art'[e] = art[e]
    BY DEF NInv, IInv, Shapes
  <1>2. units.service.dir \in (Dirs \ {d}) \union {NoDir}
    BY DEF NInv, IInv, Shapes, Refs
  <1>3. Values'
    <2>1. \A e \in Dirs : (/\ Verified(e) => art[e].rev \in {Source, Candidate}
                           /\ art[e].kind = "bundle" =>
                                art[e].rev = Source /\ art[e].mode \notin {"absent", "legacy"})'
      BY <1>1 DEF NInv, Standing, Values, Verified
    <2> QED
      BY <2>1 DEF NInv, Standing, Values, Named
  <1>4. NeverRun'
    BY DEF NInv, Standing, NeverRun
  <1>5. New(units.service) <=> New(units.service)'
    <2>1. CASE units.service \in {Absent, Legacy}
      BY <2>1, UnitsDiffer DEF New, RevOf
    <2>2. CASE Named(units.service)
      BY <1>1, <1>2, <2>2, DirsAssumption DEF New, RevOf, Named
    <2> QED
      BY <2>1, <2>2 DEF NInv, Standing, Values
  <1>6. units.service \in {Absent, Legacy} \/ Older(units.service)
          => units.service \in {Absent, Legacy} \/ Older(units.service)'
    BY <1>1, <1>2 DEF Older
  <1>7. ASSUME ~halfway PROVE LoadedInv'
    <2>1. CASE loaded \in {units.service, Absent}
      BY <2>1 DEF LoadedInv
    <2>2. CASE loaded \notin {units.service, Absent}
      <3>1. New(units.service) /\ (loaded = Legacy \/ Older(loaded))
        BY <1>7, <2>2 DEF NInv, Standing, LoadedInv
      <3>2. CASE loaded = Legacy
        BY <1>5, <3>1, <3>2 DEF LoadedInv
      <3>3. CASE Named(loaded)
        <4>1. Older(loaded)
          BY <3>1, <3>3, UnitsDiffer
        <4>2. Older(loaded)'
          BY <1>1, <1>7, <2>2, <3>3, <4>1 DEF Older, Named
        <4> QED
          BY <1>5, <3>1, <4>2 DEF LoadedInv
      <3> QED
        BY <2>2, <3>2, <3>3 DEF NInv, Standing, Values
    <2> QED
      BY <2>1, <2>2
  <1>8. (~halfway => Upgraded') /\ (~halfway /\ ~late => OldNeverReinterprets')
    BY <1>5 DEF NInv, Standing, Upgraded, Serves, OldNeverReinterprets
  <1> QED
    BY <1>1, <1>3, <1>4, <1>6, <1>7, <1>8 DEF Standing

\* The files stay, and what runs or waits changes.
LEMMA RunStands ==
    ASSUME NInv, UNCHANGED <<art, loaded, head, halfway>>, units'.service = units.service,
           process' \in {0, Source, Candidate}, job' \in {0, Source, Candidate},
           loaded = Absent => process' = 0 /\ job' = 0,
           ~halfway /\ (process' = Candidate \/ (job' = Candidate /\ ~late')) => Serves,
           ~halfway /\ ~late' => OldNeverReinterprets'
    PROVE  Standing'
  <1>1. Values' /\ NeverRun'
    BY DEF NInv, Standing, Values, NeverRun, Verified, Named
  <1>2. (LoadedInv <=> LoadedInv') /\ (Serves <=> Serves')
    BY DEF LoadedInv, Serves, New, Older, RevOf
  <1> QED
    BY <1>1, <1>2 DEF NInv, Standing, Upgraded

\* What systemd starts has a revision, that of the loaded unit.
LEMMA StartedRight ==
    ASSUME NInv, Started(loaded), process' # 0
    PROVE  /\ Launchable(loaded) /\ process' = RevOf(loaded) /\ loaded # Absent
           /\ process' \in {Source, Candidate}
  <1>1. Launchable(loaded) /\ process' = RevOf(loaded)
    BY DEF Started
  <1>2. loaded # Absent
    BY <1>1, UnitsDiffer DEF Launchable
  <1>3. CASE loaded = Legacy
    BY <1>1, <1>2, <1>3, UnitsDiffer DEF RevOf, NInv, Standing, Values
  <1>4. CASE Named(loaded)
    BY <1>1, <1>2, <1>4, DirsAssumption DEF RevOf, Launchable, Named, NInv, Standing, Values
  <1> QED
    BY <1>2, <1>3, <1>4 DEF NInv, Standing, Values

\* What is started is the candidate if the candidate has run or accepted a job, and it
\* is not if this is the install of the source.
LEMMA StartStands ==
    ASSUME NInv, UNCHANGED <<art, units, loaded, head, halfway, job, late>>,
           Started(loaded) \/ process' \in {0, process}
    PROVE  /\ Standing'
           /\ op.kind = "install" /\ op.plan.rev # Candidate => Candidate \notin {process', job'}
  <1>1. CASE process' \in {0, process}
    <2>1. ~halfway /\ ~late => OldNeverReinterprets'
      BY <1>1 DEF NInv, Standing, OldNeverReinterprets
    <2>2. process' \in {0, Source, Candidate} /\ job' \in {0, Source, Candidate}
      BY <1>1 DEF NInv, Standing, Values
    <2>3. loaded = Absent => process' = 0 /\ job' = 0
      BY <1>1 DEF NInv, Standing, NeverRun
    <2>4. ~halfway /\ (process' = Candidate \/ (job' = Candidate /\ ~late')) => Serves
      BY <1>1 DEF NInv, Standing, Upgraded, Source, Candidate
    <2>5. Standing'
      BY <2>1, <2>2, <2>3, <2>4, RunStands
    <2> QED
      BY <1>1, <2>5 DEF NInv, Operating, First, Source, Candidate
  <1>2. CASE Started(loaded) /\ process' # 0
    <2>1. /\ Launchable(loaded) /\ process' = RevOf(loaded) /\ loaded # Absent
          /\ process' \in {Source, Candidate}
      BY <1>2, StartedRight
    <2>2. ~halfway /\ process' = Candidate => Serves
      <3> SUFFICES ASSUME ~halfway, RevOf(loaded) = Candidate PROVE Serves
        BY <2>1
      <3>1. CASE loaded = units.service
        BY <2>1, <3>1 DEF Serves, New
      <3>2. CASE loaded = Legacy /\ New(units.service)
        BY <3>2, UnitsDiffer DEF Serves, RevOf
      <3>3. CASE Older(loaded)
        BY <2>1, <3>3, UnitsDiffer DEF Older, RevOf, NInv, Standing, Values, Named
      <3> QED
        BY <2>1, <3>1, <3>2, <3>3 DEF NInv, Standing, LoadedInv
    <2>3. ~halfway /\ job = Candidate /\ ~late => process' = Candidate /\ Serves
      <3> SUFFICES ASSUME ~halfway, job = Candidate, ~late PROVE process' = Candidate /\ Serves
        OBVIOUS
      <3>1. Serves
        BY DEF NInv, Standing, Upgraded
      <3>2. CASE loaded = units.service
        BY <2>1, <3>1, <3>2 DEF Serves, New
      <3>3. CASE loaded = Legacy /\ head = Candidate
        BY <2>1, <3>1, <3>3, UnitsDiffer DEF RevOf
      <3> QED
        BY <3>1, <3>2, <3>3 DEF Serves
    <2>4. ~halfway /\ ~late => OldNeverReinterprets'
      BY <2>1, <2>3 DEF OldNeverReinterprets, Source, Candidate, NInv, Standing, Values
    <2>5. Standing'
      <3>1. job' \in {0, Source, Candidate}
        BY DEF NInv, Standing, Values
      <3>2. ~halfway /\ (process' = Candidate \/ (job' = Candidate /\ ~late')) => Serves
        BY <2>2, <2>3
      <3> QED
        BY <2>1, <2>4, <3>1, <3>2, RunStands
    <2>6. ASSUME op.kind = "install", op.plan.rev # Candidate
          PROVE  Candidate \notin {process', job'}
      <3>1. loaded = Unit("managed", op.dir) /\ job' # Candidate /\ op.dir \in Dirs
        BY <2>1, <2>6 DEF NInv, Operating, First, IInv, Shapes
      <3>2. Verified(op.dir)
        BY <2>1, <3>1, UnitsDiffer, DirsAssumption DEF Launchable
      <3>3. RevOf(loaded) = op.plan.rev
        <4>1. op.step \notin {"make", "finish"}
          BY <2>6, <3>2 DEF NInv, IInv, InstallStage
        <4>2. art[op.dir].rev = op.plan.rev
          BY <2>6, <4>1 DEF NInv, Operating, Planned
        <4>3. loaded.mode = "managed" /\ loaded.dir = op.dir
          BY <3>1, UnitsDiffer
        <4> QED
          BY <4>2, <4>3 DEF RevOf
      <3> QED
        BY <2>1, <2>6, <3>1, <3>3
    <2> QED
      BY <2>5, <2>6
  <1> QED
    BY <1>1, <1>2

\* Nothing that Standing is about changes but the supervisor's units.
LEMMA SameStands ==
    ASSUME NInv, UNCHANGED <<art, loaded, process, job, late, head, halfway>>,
           units'.service = units.service
    PROVE  Standing'
  <1>1. ~halfway /\ ~late => OldNeverReinterprets'
    BY DEF NInv, Standing, OldNeverReinterprets
  <1> QED
    BY <1>1, RunStands DEF NInv, Standing, Values, NeverRun, Upgraded

\* systemd reads the unit file again.
LEMMA LoadStands ==
    ASSUME NInv, UNCHANGED <<art, units, job, late, head, halfway>>, loaded' = units.service,
           process' \in {0, process}
    PROVE  Standing'
  <1>1. Values' /\ NeverRun'
    BY DEF NInv, Standing, Values, NeverRun, Verified, Named
  <1>2. LoadedInv' /\ (New(units.service) <=> New(units.service)')
    BY DEF LoadedInv, New, RevOf
  <1>3. (~halfway => Upgraded') /\ (~halfway /\ ~late => OldNeverReinterprets')
    BY <1>2 DEF NInv, Standing, Upgraded, Serves, OldNeverReinterprets, Source, Candidate
  <1> QED
    BY <1>1, <1>2, <1>3 DEF Standing

LEMMA PrepareStands ==
    ASSUME NInv, \/ PrepareBegins \/ BundleFinished \/ PointerSwitched
                 \/ PointerProtected \/ PrepareFails
    PROVE  Standing' /\ Operating'
  <1>1. CASE PrepareBegins
    <2>1. /\ UNCHANGED <<art, units, loaded, process, job, late, head, halfway>>
          /\ ManagedRegistered \/ LegacyRegistered
          /\ op'.kind = "prepare" /\ op'.plan.rev = RevOf(units.service)
          /\ op'.plan.rev # Candidate /\ op'.plan.mode \in {"managed", "compat"}
      BY <1>1 DEF PrepareBegins, files, manager, service, work, Artifact
    <2>2. RevOf(units.service) \in {Source, Candidate}
      <3>1. CASE LegacyRegistered
        BY <3>1, UnitsDiffer DEF LegacyRegistered, RevOf, NInv, Standing, Values
      <3>2. CASE ManagedRegistered
        BY <3>2, UnitsDiffer DEF ManagedRegistered, RevOf, NInv, Standing, Values, Named
      <3> QED
        BY <2>1, <3>1, <3>2
    <2>3. Standing'
      BY <2>1, SameStands
    <2> QED
      BY <2>1, <2>2, <2>3 DEF Operating, Planned, First, Written, At, Replaces
  <1>2. CASE BundleFinished
    <2>1. /\ op.dir \in Dirs /\ op.dir # units.service.dir /\ op.kind = "prepare"
          /\ op.plan.rev = Source /\ op.plan.mode \notin {"absent", "legacy"}
      BY <1>2 DEF BundleFinished, At, NInv, IInv, Shapes, PrepareStage, Operating, Planned
    <2>2. art' = [art EXCEPT ![op.dir] = op.plan]
          /\ UNCHANGED <<units, loaded, process, job, late, head, halfway>>
      BY <1>2 DEF BundleFinished, manager, service, work
    <2>3. Standing'
      BY <2>1, <2>2, FreeStands, RevisionsDiffer
    <2>4. op'.kind = "prepare" /\ op'.plan = op.plan
      BY <1>2, <2>1 DEF BundleFinished, Goto, NInv, IInv, Shapes
    <2> QED
      BY <2>1, <2>3, <2>4 DEF Operating, Planned, First, Written, At, Replaces
  <1>3. CASE PointerSwitched
    <2>1. UNCHANGED <<art, units, loaded, process, job, late, head, halfway>>
          /\ op'.kind = "prepare" /\ op'.plan = op.plan
      BY <1>3 DEF PointerSwitched, At, Goto, manager, service, work, NInv, IInv, Shapes
    <2>2. op.kind = "prepare"
      BY <1>3 DEF PointerSwitched, At
    <2>3. Standing'
      BY <2>1, SameStands
    <2> QED
      BY <2>1, <2>2, <2>3 DEF NInv, Operating, Planned, First, Written, At, Replaces
  <1>5. CASE PointerProtected
    BY <1>5, SameStands, DoneOperates DEF PointerProtected, Done, files, manager, service, work
  <1>4. CASE PrepareFails
    <2>1. op.dir \in Dirs /\ op.dir # units.service.dir
      BY <1>4 DEF PrepareFails, NInv, IInv, Shapes, PrepareStage
    <2>2. art' = [art EXCEPT ![op.dir] = Gone]
          /\ UNCHANGED <<units, loaded, process, job, late, head, halfway>>
      BY <1>4 DEF PrepareFails, manager, service, work
    <2>3. Gone.kind = "none" /\ Gone.rev = 0
      BY DEF Gone, Artifact
    <2>4. Standing'
      BY <2>1, <2>2, <2>3, FreeStands, RevisionsDiffer
    <2> QED
      BY <1>4, <2>4, DoneOperates DEF PrepareFails, Done
  <1> QED
    BY <1>1, <1>2, <1>3, <1>4, <1>5

LEMMA DirectoryStands ==
    ASSUME NInv, DirectoryMade
    PROVE  Standing' /\ Operating'
  <1>1. /\ op.dir \in Dirs /\ op.dir # units.service.dir /\ op.kind \in {"prepare", "install"}
        /\ op.step = "make"
    BY DEF DirectoryMade, NInv, IInv, Shapes, Refs, PrepareStage, InstallStage
  <1>2. art' = [art EXCEPT ![op.dir] = Partial]
        /\ UNCHANGED <<units, loaded, process, job, late, head, halfway>>
    BY DEF DirectoryMade, manager, service, work
  <1>3. Partial.kind = "partial" /\ Partial.rev = 0
    BY DEF Partial, Artifact
  <1>4. /\ Standing'
        /\ units.service \in {Absent, Legacy} \/ Older(units.service)
             => units.service \in {Absent, Legacy} \/ Older(units.service)'
    BY <1>1, <1>2, <1>3, FreeStands, RevisionsDiffer
  <1>5. op'.kind = op.kind /\ op'.dir = op.dir /\ op'.plan = op.plan /\ op'.step = "finish"
    BY DEF DirectoryMade, Goto, NInv, IInv, Shapes
  <1> QED
    BY <1>1, <1>2, <1>4, <1>5 DEF NInv, Operating, Planned, First, Written, At, Replaces

LEMMA InstallStands ==
    ASSUME NInv, InstallBegins \/ RuntimeFinished \/ RuntimeFails \/ UnreferencedRemoved
    PROVE  Standing' /\ Operating'
  <1>1. CASE InstallBegins
    <2>1. PICK d \in Fresh : op' = [kind |-> "install", step |-> "make", dir |-> d,
                                   plan |-> Runtime(head)]
      BY <1>1 DEF InstallBegins
    <2>2. UNCHANGED <<art, units, loaded, process, job, late, head, halfway>>
      BY <1>1 DEF InstallBegins, files, manager, service, work
    <2>3. Standing'
      BY <2>2, SameStands
    <2>4. Runtime(head).rev = head /\ head \in {Source, Candidate}
      BY DEF Runtime, Artifact, NInv, Standing, Values
    <2>5. CASE ~ExistingRegistration
      <3>1. units.service = Absent /\ loaded = Absent /\ process = 0 /\ job = 0
        BY <2>5 DEF ExistingRegistration, NInv, Standing, NeverRun
      <3> QED
        BY <2>1, <2>2, <2>3, <2>4, <3>1
        DEF Operating, Planned, First, Written, At, Replaces, Candidate
    <2>6. CASE VerifiedUpgrade
      <3>1. pointer \in Dirs /\ art[pointer].rev = Source /\ head = Candidate
        BY <2>6 DEF VerifiedUpgrade, VerifiedBundle, NInv, IInv, Shapes, Refs, Standing, Values
      <3>2. ASSUME ~halfway
            PROVE  /\ loaded \in {units.service, Absent}
                   /\ units.service \in {Absent, Legacy} \/ Older(units.service)
        <4>1. CASE LegacyRegistered
          BY <4>1 DEF LegacyRegistered, NInv, Standing, NeverRun
        <4>2. CASE ManagedRegistered /\ RevOf(units.service) = Source
          <5>1. Named(units.service) /\ ~New(units.service)
            BY <4>2, UnitsDiffer DEF ManagedRegistered, New, NInv, Standing, Values, Named,
                                     Source, Candidate
          <5>2. Older(units.service)
            BY <4>2, <5>1, DirsAssumption DEF Older, Named, RevOf, Source, Candidate
          <5> QED
            BY <3>2, <5>1, <5>2 DEF NInv, Standing, LoadedInv
        <4> QED
          BY <2>6, <3>1, <4>1, <4>2 DEF VerifiedUpgrade
      <3> QED
        BY <2>1, <2>2, <2>3, <2>4, <3>1, <3>2
        DEF Operating, Planned, First, Written, At, Replaces, Older
    <2> QED
      BY <1>1, <2>5, <2>6 DEF InstallBegins
  <1>2. CASE RuntimeFinished
    <2>1. /\ op.dir \in Dirs /\ op.dir # units.service.dir /\ op.kind = "install" /\ op.step = "finish"
          /\ op.plan.kind = "runtime" /\ op.plan.rev \in {Source, Candidate}
          /\ ~halfway => loaded \in {units.service, Absent}
      BY <1>2 DEF RuntimeFinished, At, NInv, IInv, Shapes, Refs, InstallStage, Operating, Planned,
                  Replaces
    <2>2. art' = [art EXCEPT ![op.dir] = op.plan]
          /\ UNCHANGED <<units, loaded, process, job, late, head, halfway>>
      BY <1>2 DEF RuntimeFinished, manager, service, work
    <2>3. /\ Standing' /\ art'[op.dir] = op.plan
          /\ units.service \in {Absent, Legacy} \/ Older(units.service)
               => units.service \in {Absent, Legacy} \/ Older(units.service)'
      BY <2>1, <2>2, FreeStands
    <2>4. /\ op'.kind = op.kind /\ op'.dir = op.dir /\ op'.plan = op.plan
          /\ op'.step = "service unit"
      BY <1>2 DEF RuntimeFinished, Goto, NInv, IInv, Shapes
    <2> QED
      BY <2>1, <2>2, <2>3, <2>4 DEF NInv, Operating, Planned, First, Written, At, Replaces
  <1>3. CASE RuntimeFails \/ (UnreferencedRemoved /\ units.service.dir # op.dir)
    <2>1. op.dir \in Dirs /\ op.dir # units.service.dir
      BY <1>3 DEF RuntimeFails, UnreferencedRemoved, At, NInv, IInv, Shapes, InstallStage, Refs
    <2>2. art' = [art EXCEPT ![op.dir] = Gone]
          /\ UNCHANGED <<units, loaded, process, job, late, head, halfway>> /\ op' = NoOp
      BY <1>3 DEF RuntimeFails, UnreferencedRemoved, Done, manager, service, work
    <2>3. Gone.kind = "none" /\ Gone.rev = 0
      BY DEF Gone, Artifact
    <2> QED
      BY <2>1, <2>2, <2>3, FreeStands, DoneOperates, RevisionsDiffer
  <1>4. CASE UnreferencedRemoved /\ units.service.dir = op.dir
    <2>1. /\ UNCHANGED <<units, loaded, process, job, late, head, halfway>> /\ op' = NoOp
          /\ art' = [art EXCEPT ![op.dir] = @]
      BY <1>4 DEF UnreferencedRemoved, Done, manager, service, work
    <2>2. UNCHANGED art
      BY <1>4, <2>1 DEF UnreferencedRemoved, At, NInv, IInv, Shapes
    <2> QED
      BY <2>1, <2>2, SameStands, DoneOperates
  <1> QED
    BY <1>1, <1>2, <1>3, <1>4

LEMMA PruneStands ==
    ASSUME NInv, Prune
    PROVE  Standing' /\ Operating'
  <1>1. PICK d \in Dirs : ~Retained(d) /\ art' = [art EXCEPT ![d] = Gone]
    BY DEF Prune
  <1>2. UNCHANGED <<units, loaded, process, job, late, head, halfway>> /\ op' = NoOp
    BY DEF Prune, manager, service, work
  <1>3. d # units.service.dir
    BY <1>1, DirsAssumption DEF Prune, Retained, ManagedRegistered, Absent, Unit
  <1>4. Gone.kind = "none" /\ Gone.rev = 0
    BY DEF Gone, Artifact
  <1> QED
    BY <1>1, <1>2, <1>3, <1>4, FreeStands, DoneOperates, RevisionsDiffer

\* An install writes the candidate's unit over the source's, or the first unit of all.
LEMMA UnitWritten ==
    ASSUME NInv, ServiceUnitWritten
    PROVE  Standing' /\ Operating'
  <1>1. /\ op.dir \in Dirs /\ op.step = "service unit" /\ op.kind \in {"install", "restore"}
        /\ units'.service = OpUnit
        /\ UNCHANGED <<art, loaded, process, job, late, head>>
        /\ op'.kind = op.kind /\ op'.dir = op.dir /\ op'.plan = op.plan
        /\ op'.step = "supervisor units"
    BY DEF ServiceUnitWritten, WritesUnits, Goto, manager, service, work, NInv, IInv, Shapes
  <1>2. Named(OpUnit) /\ OpUnit.dir = op.dir
    <2>1. CASE op.kind = "install"
      <3>1. OpUnit.mode = "managed" /\ OpUnit.dir = op.dir
        BY <2>1 DEF OpUnit, Unit
      <3> QED
        BY <1>1, <3>1 DEF Named
    <2>2. CASE op.kind = "restore"
      <3>1. art[op.dir].mode \notin {"absent", "legacy"}
        BY <1>1, <2>2 DEF NInv, IInv, RestoreStage, Standing, Values
      <3>2. OpUnit.mode = art[op.dir].mode /\ OpUnit.dir = op.dir
        BY <2>2 DEF OpUnit, Unit
      <3> QED
        BY <1>1, <3>1, <3>2 DEF Named
    <2> QED
      BY <1>1, <2>1, <2>2
  <1>3. Values' /\ NeverRun'
    BY <1>1, <1>2, UnitsDiffer DEF NInv, Standing, Values, NeverRun, Verified, Named
  <1>4. CASE op.kind = "install"
    <2>1. (halfway' <=> halfway) /\ OpUnit = Unit("managed", op.dir)
          /\ art[op.dir].rev = op.plan.rev
      BY <1>1, <1>4 DEF ServiceUnitWritten, OpUnit, NInv, Operating, Planned
    <2>2. op.plan.rev = Candidate => New(units.service)'
      <3>1. units'.service = OpUnit /\ OpUnit # Absent /\ OpUnit.mode # "legacy"
            /\ art'[OpUnit.dir].rev = op.plan.rev
        BY <1>1, <1>2, <2>1, UnitsDiffer DEF Named
      <3> QED
        BY <3>1 DEF New, RevOf
    <2>3. ASSUME ~halfway
          PROVE  LoadedInv' /\ Upgraded' /\ (~late => OldNeverReinterprets')
      <3>1. /\ loaded \in {units.service, Absent}
            /\ units.service \in {Absent, Legacy} \/ Older(units.service)
        BY <1>1, <1>4, <2>3 DEF NInv, Operating, Replaces
      <3>2. LoadedInv'
        <4>1. CASE op.plan.rev = Candidate
          <5>1. loaded = Absent \/ loaded = Legacy \/ Older(loaded)
            BY <3>1
          <5>2. loaded' = Absent \/ loaded' = Legacy \/ Older(loaded)'
            BY <1>1, <5>1 DEF Older
          <5> QED
            BY <2>2, <4>1, <5>2 DEF LoadedInv
        <4>2. CASE op.plan.rev # Candidate
          BY <1>1, <1>4, <2>1, <4>2 DEF LoadedInv, NInv, Operating, First
        <4> QED
          BY <4>1, <4>2
      <3>3. ASSUME process = Candidate \/ (job = Candidate /\ ~late) PROVE Serves'
        <4>1. op.plan.rev = Candidate
          BY <1>4, <3>3 DEF NInv, Operating, First
        <4>2. Serves
          BY <2>3, <3>3 DEF NInv, Standing, Upgraded
        <4>3. loaded = Legacy /\ head = Candidate
          <5>1. ~Named(units.service)
            BY <3>1, <4>2, UnitsDiffer DEF Serves, New, Older, Named, RevOf
          <5>2. units.service = Legacy
            BY <4>2, <5>1 DEF Serves, New, NInv, Standing, Values
          <5> QED
            BY <4>2, <5>2, UnitsDiffer DEF Serves, New, RevOf
        <4> QED
          BY <1>1, <2>2, <4>1, <4>3 DEF Serves
      <3>4. Upgraded'
        BY <1>1, <3>3 DEF Upgraded
      <3> QED
        BY <1>1, <2>3, <3>2, <3>4 DEF NInv, Standing, OldNeverReinterprets
    <2>4. Operating'
      BY <1>1, <1>4, <2>1 DEF NInv, Operating, Planned, First, Written, At, Replaces
    <2>5. late' = late
      BY <1>1
    <2> QED
      BY <1>3, <2>1, <2>3, <2>4, <2>5 DEF Standing
  <1>5. CASE op.kind = "restore"
    <2>1. halfway'
      BY <1>5 DEF ServiceUnitWritten
    <2>2. Named(units.service)' /\ units'.service.dir = op'.dir
      BY <1>1, <1>2 DEF Named
    <2>3. Operating'
      BY <1>1, <1>5, <2>1, <2>2 DEF Operating, Planned, First, Written, At, Last, Stopped
    <2> QED
      BY <1>3, <2>1, <2>3 DEF Standing
  <1> QED
    BY <1>1, <1>4, <1>5

LEMMA UnitsLoaded ==
    ASSUME NInv, SupervisorUnitsWritten \/ Reloaded
    PROVE  Standing' /\ Operating'
  <1>1. /\ op.kind \in {"install", "restore"} /\ op.step \in {"supervisor units", "reload"}
        /\ UNCHANGED <<art, process, job, late, head, halfway, active, timer>>
        /\ units'.service = units.service
        /\ op'.kind = op.kind /\ op'.dir = op.dir /\ op'.plan = op.plan
    BY DEF SupervisorUnitsWritten, Reloaded, WritesUnits, Goto, files, manager, service, work,
           NInv, IInv, Shapes
  <1>2. CASE SupervisorUnitsWritten
    <2>1. loaded' = loaded /\ op'.step = "reload" /\ op.step = "supervisor units"
      BY <1>2 DEF SupervisorUnitsWritten, Goto, manager, NInv, IInv, Shapes
    <2>2. Standing'
      BY <1>1, <2>1, SameStands
    <2>3. Named(units.service) => Named(units.service)'
      BY <1>1 DEF Named
    <2> QED
      BY <1>1, <2>1, <2>2, <2>3
      DEF NInv, Operating, Planned, First, Written, Last, Stopped, At, Replaces
  <1>3. CASE Reloaded
    <2>1. /\ loaded' = units.service /\ UNCHANGED units /\ op.step = "reload"
          /\ op'.step = IF op.kind = "install" THEN "timer" ELSE "check"
      BY <1>3 DEF Reloaded, Goto, files, NInv, IInv, Shapes
    <2>2. Standing'
      BY <1>1, <2>1, LoadStands
    <2> QED
      BY <1>1, <2>1, <2>2
      DEF NInv, Operating, Planned, First, Written, Last, Stopped, At, Replaces
  <1> QED
    BY <1>2, <1>3

\* The rest of an install: what runs changes, the files do not.
LEMMA RunInstalled ==
    ASSUME NInv, TimerStarted \/ ServiceRestarted \/ InstallVerified \/ InstallFails
    PROVE  Standing' /\ Operating'
  <1>1. /\ UNCHANGED <<art, units, loaded, head, halfway, job, late>>
        /\ Started(loaded) \/ process' \in {0, process}
        /\ op.kind = "install" /\ op.step \notin {"make", "finish"}
    BY DEF TimerStarted, ServiceRestarted, InstallVerified, InstallFails, At, files, manager,
           service, work
  <1>2. /\ Standing'
        /\ op.plan.rev # Candidate => Candidate \notin {process', job'}
    BY <1>1, StartStands
  <1>3. CASE InstallVerified
    BY <1>2, <1>3, DoneOperates DEF InstallVerified, Done
  <1>4. CASE TimerStarted \/ ServiceRestarted \/ InstallFails
    <2>1. op'.kind = op.kind /\ op'.dir = op.dir /\ op'.plan = op.plan
          /\ op'.step \in {"restart", "verify", "remove"}
      BY <1>4 DEF TimerStarted, ServiceRestarted, InstallFails, Goto, NInv, IInv, Shapes
    <2> QED
      BY <1>1, <1>2, <2>1 DEF NInv, Operating, Planned, First, Written, At, Replaces
  <1> QED
    BY <1>3, <1>4

\* From the last reload on, a restore has its bundle's unit loaded: the source's.
LEMMA RestoredUnit ==
    ASSUME NInv, op.kind = "restore", op.step \in Last
    PROVE  /\ loaded = units.service /\ Named(loaded) /\ loaded.dir = op.dir
           /\ art[op.dir].rev = Source /\ RevOf(loaded) = Source
  <1>1. loaded = units.service /\ Named(loaded) /\ loaded.dir = op.dir
    BY DEF NInv, Operating, Written
  <1>2. art[op.dir].rev = Source
    BY DEF NInv, IInv, Shapes, RestoreStage, Standing, Values
  <1> QED
    BY <1>1, <1>2 DEF Named, RevOf

LEMMA RestoreStands ==
    ASSUME NInv, \/ RestoreBegins \/ ServiceStopped \/ ConfigRestored \/ RestoreChecked
                 \/ TimerStopped \/ TimerRestored \/ EnabledRestored
                 \/ RestoreStarted \/ RestoreFails
    PROVE  Standing' /\ Operating'
  <1>1. ASSUME UNCHANGED <<art, units, loaded, head, halfway, job, late>>,
               process' \in {0, process}, op'.kind = "restore", Written'
        PROVE  Standing' /\ Operating'
    <2>1. Standing'
      BY <1>1, StartStands
    <2> QED
      BY <1>1, <2>1 DEF Operating, Planned, First, Replaces
  <1>2. CASE RestoreBegins
    <2>1. op'.kind = "restore" /\ op'.step = "stop"
      BY <1>2 DEF RestoreBegins
    <2>2. Written'
      BY <2>1 DEF Written, Last, Stopped, At
    <2> QED
      BY <1>1, <1>2, <2>1, <2>2 DEF RestoreBegins, files, manager, service, work
  <1>3. CASE ServiceStopped
    <2>1. /\ op.kind = "restore" /\ op'.kind = "restore" /\ op'.dir = op.dir
          /\ \/ op.step = "stop" /\ op'.step = "config"
             \/ op.step = "stop again" /\ op'.step = "stop timer"
          /\ process' = 0 /\ UNCHANGED <<art, units, loaded, head, halfway, job, late>>
      BY <1>3 DEF ServiceStopped, Goto, files, work, NInv, IInv, Shapes
    <2>2. op.step = "stop again" => job = 0 \/ late
      BY <2>1 DEF NInv, Operating, Written, At
    <2>3. Named(units.service) <=> Named(units.service)'
      BY <2>1 DEF Named
    <2>4. Written'
      BY <2>1, <2>2, <2>3, RevisionsDiffer
      DEF NInv, Operating, Written, Last, Stopped, At
    <2> QED
      BY <1>1, <2>1, <2>4
  <1>4. CASE ConfigRestored \/ RestoreChecked \/ TimerStopped \/ TimerRestored \/ EnabledRestored
    <2>1. /\ op.kind = "restore"
          /\ \/ op.step = "config" /\ Goto("service unit")
             \/ op.step = "check" /\ Goto("stop again") /\ job = 0
             \/ op.step = "stop timer" /\ Goto("timer")
             \/ op.step = "timer" /\ Goto("enable")
             \/ op.step = "enable" /\ Goto("start")
          /\ UNCHANGED <<art, units, loaded, head, halfway, process, job, late>>
      BY <1>4 DEF ConfigRestored, RestoreChecked, RollbackSafe, LedgerIdle, TimerStopped,
                  TimerRestored, EnabledRestored, At, files, manager, service, work
    <2>2. /\ op'.kind = "restore" /\ op'.dir = op.dir
          /\ \/ op'.step = "service unit"
             \/ op.step = "check" /\ op'.step = "stop again" /\ job = 0
             \/ op.step \in Stopped /\ op'.step \in Stopped
      BY <2>1 DEF Goto, Stopped, NInv, IInv, Shapes
    <2>3. Named(units.service) <=> Named(units.service)'
      BY <2>1 DEF Named
    <2>4. Written'
      BY <2>1, <2>2, <2>3 DEF NInv, Operating, Written, Last, Stopped, At
    <2> QED
      BY <1>1, <2>1, <2>2, <2>4
  <1>5. CASE RestoreStarted
    <2>1. /\ op.kind = "restore" /\ op.step \in Last /\ op.step \in Stopped
          /\ op' = NoOp /\ UNCHANGED <<art, units, loaded, head, job, late>>
          /\ Started(loaded) \/ process' = process
      BY <1>5 DEF RestoreStarted, At, Done, work, Last, Stopped
    <2>2. /\ loaded = units.service /\ Named(loaded) /\ RevOf(loaded) = Source
      BY <2>1, RestoredUnit
    <2>3. process \in {0, Source} /\ (job = Candidate => late)
      BY <2>1 DEF NInv, Operating, Written, Standing, Values
    <2>4. process' \in {0, Source}
      BY <2>1, <2>2, <2>3 DEF Started
    <2>5. Values' /\ NeverRun'
      <3>1. loaded # Absent
        BY <2>2, UnitsDiffer
      <3> QED
        BY <2>1, <2>4, <3>1 DEF NInv, Standing, Values, NeverRun, Verified, Named
    <2>6. LoadedInv'
      BY <2>1, <2>2 DEF LoadedInv
    <2>7. Upgraded' /\ (~late' => OldNeverReinterprets')
      BY <2>1, <2>3, <2>4, RevisionsDiffer
      DEF Upgraded, OldNeverReinterprets, Source, Candidate, NInv, Standing, Values
    <2> QED
      BY <2>1, <2>5, <2>6, <2>7, DoneOperates DEF Standing
  <1>6. CASE RestoreFails
    BY <1>6, SameStands, DoneOperates DEF RestoreFails, Done, files, manager, service, work
  <1> QED
    BY <1>2, <1>3, <1>4, <1>5, <1>6

\* What goes on beside the operations.
LEMMA BesideStands ==
    ASSUME NInv, ServiceStarts \/ ServiceDies \/ AcceptJob \/ JobEnds \/ ServiceCommand
                 \/ EditConfig
    PROVE  Standing' /\ Operating'
  <1>1. UNCHANGED <<art, units, loaded, head, halfway, op>>
    BY DEF ServiceStarts, ServiceDies, AcceptJob, JobEnds, ServiceCommand, EditConfig,
           files, manager
  <1> DEFINE Stops == At("restore", "stop again") => job' = 0 \/ late'
             Idle == op.kind = "restore" /\ op.step \in Stopped =>
                         process' # Candidate /\ (job' = Candidate => late')
  <1>2. ASSUME AcceptJob \/ JobEnds PROVE Standing' /\ First' /\ Stops /\ Idle
    <2>1. /\ process' = process /\ process # 0
          /\ \/ job' = process /\ late' = At("restore", "stop again")
             \/ job' = 0 /\ late' = FALSE
      BY <1>2 DEF AcceptJob, JobEnds
    <2>2. process' \in {0, Source, Candidate} /\ job' \in {0, Source, Candidate}
          /\ (loaded = Absent => process' = 0 /\ job' = 0)
      BY <2>1 DEF NInv, Standing, Values, NeverRun
    <2>3. ~halfway /\ ~late' => OldNeverReinterprets'
      <3>1. job' = process' \/ job' = 0
        BY <2>1
      <3> QED
        BY <2>2, <3>1 DEF OldNeverReinterprets, Source, Candidate
    <2>4. ~halfway /\ (process' = Candidate \/ (job' = Candidate /\ ~late')) => Serves
      BY <2>1, RevisionsDiffer DEF NInv, Standing, Upgraded
    <2>5. Standing'
      BY <1>1, <2>2, <2>3, <2>4, RunStands
    <2>6. First'
      BY <1>1, <2>1, RevisionsDiffer DEF NInv, Operating, First
    <2>7. Stops
      BY <2>1
    <2>8. Idle
      BY <2>1, RevisionsDiffer DEF NInv, Operating, Written
    <2> QED
      BY <2>5, <2>6, <2>7, <2>8
  <1>3. ASSUME ServiceStarts \/ ServiceDies \/ ServiceCommand \/ EditConfig
        PROVE  Standing' /\ First' /\ Stops /\ Idle
    <2>1. UNCHANGED <<job, late>> /\ (Started(loaded) \/ process' \in {0, process})
      BY <1>3 DEF ServiceStarts, ServiceDies, ServiceCommand, EditConfig, service, work
    <2>2. /\ Standing'
          /\ op.kind = "install" /\ op.plan.rev # Candidate => Candidate \notin {process', job'}
      BY <1>1, <2>1, StartStands
    <2>3. First'
      BY <1>1, <2>2 DEF NInv, Operating, First
    <2>4. Stops
      <3>1. At("restore", "stop again") => job = 0 \/ late
        BY DEF NInv, Operating, Written
      <3> QED
        BY <2>1, <3>1
    <2>5. Idle
      <3> SUFFICES ASSUME op.kind = "restore", op.step \in Stopped
                   PROVE  process' # Candidate /\ (job' = Candidate => late')
        OBVIOUS
      <3>1. RevOf(loaded) = Source
        BY RestoredUnit DEF Last
      <3>2. process # Candidate /\ (job = Candidate => late)
        BY DEF NInv, Operating, Written
      <3> QED
        BY <2>1, <3>1, <3>2, RevisionsDiffer DEF Started, Candidate
    <2> QED
      BY <2>2, <2>3, <2>4, <2>5
  <1>4. Standing' /\ First' /\ Stops /\ Idle
    BY <1>2, <1>3
  <1>5. Written'
    <2>1. Named(units.service) <=> Named(units.service)'
      BY <1>1 DEF Named
    <2> QED
      BY <1>1, <1>4, <2>1 DEF NInv, Operating, Written, At
  <1>6. Planned' /\ (~halfway => Replaces')
    BY <1>1 DEF NInv, Operating, Planned, Replaces, Older
  <1> QED
    BY <1>1, <1>4, <1>5, <1>6 DEF Operating

\* A checkout does not take the candidate from under a legacy unit.
LEMMA CheckoutStands ==
    ASSUME NInv, Checkout
    PROVE  Standing' /\ Operating'
  <1>1. /\ UNCHANGED <<art, units, loaded, process, job, late, halfway, op>>
        /\ head' \in {Source, Candidate}
        /\ Legacy \in {units.service, loaded} => head' = Candidate
    BY DEF Checkout, manager, service, work, Revisions
  <1>2. New(units.service) => New(units.service)'
    <2>1. CASE units.service \in {Absent, Legacy}
      BY <1>1, <2>1, UnitsDiffer DEF New, RevOf
    <2>2. CASE Named(units.service)
      BY <1>1, <2>2 DEF New, RevOf, Named
    <2> QED
      BY <2>1, <2>2 DEF NInv, Standing, Values
  <1>3. Values' /\ NeverRun'
    BY <1>1 DEF NInv, Standing, Values, NeverRun, Verified, Named
  <1>4. (~halfway => LoadedInv' /\ Upgraded') /\ (~halfway /\ ~late => OldNeverReinterprets')
    BY <1>1, <1>2 DEF NInv, Standing, LoadedInv, Upgraded, Serves, OldNeverReinterprets, Older
  <1>5. Operating'
    BY <1>1 DEF NInv, Operating, Planned, First, Written, At, Replaces, Named, Older
  <1> QED
    BY <1>1, <1>3, <1>4, <1>5 DEF Standing

LEMMA NextStands ==
    ASSUME NInv, [Next]_vars
    PROVE  NInv'
  <1>1. IInv'
    BY StepKeeps DEF NInv
  <1>2. CASE OperatorDies
    BY <1>1, <1>2, SameStands, DoneOperates DEF OperatorDies, Done, files, manager, service, work, NInv
  <1>3. CASE Reboot
    BY <1>1, <1>3, LoadStands, DoneOperates DEF Reboot, Done, files, work, NInv
  <1>4. CASE UNCHANGED vars
    <2>1. Standing'
      BY <1>4, SameStands DEF vars
    <2>2. UNCHANGED <<art, units, loaded, process, job, late, op, halfway>>
      BY <1>4 DEF vars
    <2>3. Planned' /\ (~halfway => Replaces')
      BY <2>2 DEF NInv, Operating, Planned, Replaces, Older
    <2>4. First' /\ Written'
      BY <2>2 DEF NInv, Operating, First, Written, At, Named
    <2>5. Operating'
      BY <2>2, <2>3, <2>4 DEF Operating
    <2> QED
      BY <1>1, <2>1, <2>5 DEF NInv
  <1>5. CASE Next /\ ~OperatorDies /\ ~Reboot
    <2>1. Standing' /\ Operating'
      BY <1>5, PrepareStands, DirectoryStands, InstallStands, PruneStands, UnitWritten,
         UnitsLoaded, RunInstalled, RestoreStands, BesideStands, CheckoutStands DEF Next
    <2> QED
      BY <1>1, <2>1 DEF NInv
  <1> QED
    BY <1>2, <1>3, <1>4, <1>5

\* No revision older than the one that accepted a job runs on it, whatever fails, dies or
\* is started between the steps of install and restore (restoreCutoverRollbackBundle) -
\* unless a restore has written a unit file and then failed, or the open job was accepted
\* between a restore's last look at the ledger and the stop that follows it.  The workspace
\* may be checked out at any time, but not back to the source revision while a legacy unit,
\* which runs the workspace's files, is installed or loaded.
THEOREM OldNeverRuns == Spec => []NoDowngrade
  <1>1. NInv => NoDowngrade
    BY DEF NInv, Standing, NoDowngrade
  <1> QED
    BY <1>1, InitNInv, NextStands, PTL DEF Spec

-----------------------------------------------------------------------------
(* RollbackRuns: what a restore has written by the step it is at.           *)

Restored ==
    op.kind = "restore" =>
        /\ op.step \in {"service unit", "supervisor units", "reload"} \union Last
              => config = art[op.dir].config
        /\ op.step \in {"supervisor units", "reload"} \union Last => units.service = OpUnit
        /\ op.step \in {"reload"} \union Last => units.supervisor = OpUnit
        /\ op.step \in {"stop again"} \union Stopped => schema <= SchemaOf(art[op.dir].rev)

LEMMA RestoreWrites ==
    ASSUME NInv, Typed, Restored, [Next]_vars
    PROVE  Restored'
  <1>1. CASE RestoreBegins
    BY <1>1 DEF RestoreBegins, Restored, Last, Stopped
  <1>2. CASE \/ ServiceStopped \/ ConfigRestored \/ RestoreChecked
             \/ TimerStopped \/ TimerRestored \/ EnabledRestored
    <2>1. UNCHANGED <<art, units, schema, old>> /\ op.kind = "restore"
      BY <1>2 DEF ServiceStopped, ConfigRestored, RestoreChecked, TimerStopped, TimerRestored,
                  EnabledRestored, At, files, service
    <2>2. /\ op'.kind = op.kind /\ op'.dir = op.dir
          /\ \/ op'.step = "config"
             \/ op'.step = "service unit" /\ config' = art[op.dir].config
             \/ op'.step = "stop again" /\ op.step = "check" /\ config' = config
                /\ schema <= SchemaOf(art[op.dir].rev)
             \/ op'.step \in Stopped /\ op.step \in {"stop again"} \union Stopped
                /\ config' = config
      <3>1. CASE ServiceStopped
        BY <3>1 DEF ServiceStopped, Goto, files, Stopped, NInv, IInv, Shapes
      <3>2. CASE ConfigRestored
        BY <3>2 DEF ConfigRestored, Goto, NInv, IInv, Shapes
      <3>3. CASE RestoreChecked
        BY <3>3 DEF RestoreChecked, RollbackSafe, At, Goto, files, NInv, IInv, Shapes
      <3>4. CASE TimerStopped \/ TimerRestored \/ EnabledRestored
        BY <3>4 DEF TimerStopped, TimerRestored, EnabledRestored, At, Goto, files, Stopped,
                    NInv, IInv, Shapes
      <3> QED
        BY <1>2, <3>1, <3>2, <3>3, <3>4
    <2> QED
      BY <2>1, <2>2 DEF Restored, OpUnit, SchemaOf, Last, Stopped
  <1>3. CASE ServiceUnitWritten
    <2>1. /\ op.step = "service unit" /\ op'.kind = op.kind /\ op'.dir = op.dir
          /\ op'.step = "supervisor units" /\ UNCHANGED <<art, config>>
          /\ units'.service = OpUnit
      BY <1>3 DEF ServiceUnitWritten, Goto, NInv, IInv, Shapes
    <2> QED
      BY <2>1 DEF Restored, OpUnit, Last, Stopped
  <1>4. CASE SupervisorUnitsWritten
    <2>1. /\ op.step = "supervisor units" /\ op'.kind = op.kind /\ op'.dir = op.dir
          /\ op'.step = "reload" /\ UNCHANGED <<art, config>>
          /\ units'.service = units.service /\ units'.supervisor = OpUnit
      BY <1>4 DEF SupervisorUnitsWritten, Goto, NInv, IInv, Shapes
    <2> QED
      BY <2>1 DEF Restored, OpUnit, Last, Stopped
  <1>5. CASE Reloaded
    <2>1. /\ op.step = "reload" /\ op'.kind = op.kind /\ op'.dir = op.dir
          /\ op'.step = (IF op.kind = "install" THEN "timer" ELSE "check")
          /\ UNCHANGED <<art, config, units>>
      BY <1>5 DEF Reloaded, Goto, files, NInv, IInv, Shapes
    <2> QED
      BY <2>1 DEF Restored, OpUnit, Last, Stopped
  <1>6. CASE ServiceStarts \/ ServiceDies \/ AcceptJob \/ JobEnds \/ ServiceCommand
             \/ Checkout \/ UNCHANGED vars
    <2>1. UNCHANGED <<art, units, config, op, old>>
      BY <1>6 DEF ServiceStarts, ServiceDies, AcceptJob, JobEnds, ServiceCommand, Checkout,
                  files, vars
    <2>2. ASSUME op.kind = "restore", op.step \in {"stop again"} \union Stopped
          PROVE  schema' <= SchemaOf(art[op.dir].rev)
      <3>1. schema <= SchemaOf(art[op.dir].rev)
        BY <2>2 DEF Restored
      <3>2. RevOf(loaded) = Source /\ art[op.dir].rev = Source
        BY <2>2, RestoredUnit DEF Last
      <3>3. schema' \in {schema, SchemaOf(RevOf(loaded))}
        BY <1>6 DEF ServiceStarts, Started, ServiceDies, AcceptJob, JobEnds, ServiceCommand,
                    Checkout, service, vars
      <3>4. CASE schema' = schema
        BY <3>1, <3>4
      <3>5. CASE schema' = SchemaOf(Source)
        BY <3>2, <3>5 DEF SchemaOf, Source, Candidate, Typed, NamesTyped
      <3> QED
        BY <3>2, <3>3, <3>4, <3>5
    <2> QED
      BY <2>1, <2>2 DEF Restored, OpUnit, SchemaOf
  <1>7. CASE EditConfig
    BY <1>7 DEF EditConfig, Restored
  <1>8. CASE \/ PointerProtected \/ PrepareFails \/ RuntimeFails \/ InstallVerified
             \/ UnreferencedRemoved \/ RestoreStarted \/ RestoreFails \/ OperatorDies \/ Reboot
             \/ Prune
    <2>1. op' = NoOp
      BY <1>8 DEF PointerProtected, PrepareFails, RuntimeFails, InstallVerified,
                  UnreferencedRemoved, RestoreStarted, RestoreFails, OperatorDies, Reboot,
                  Prune, Done
    <2> QED
      BY <2>1 DEF Restored, NoOp
  <1>9. CASE PrepareBegins \/ InstallBegins
    <2>1. op'.kind \in {"prepare", "install"}
      BY <1>9 DEF PrepareBegins, InstallBegins
    <2> QED
      BY <2>1 DEF Restored
  <1>10. CASE \/ DirectoryMade \/ BundleFinished \/ PointerSwitched \/ RuntimeFinished
              \/ TimerStarted \/ ServiceRestarted \/ InstallFails
    <2>1. op.kind \in {"prepare", "install"} /\ \E s : Goto(s)
      BY <1>10 DEF DirectoryMade, BundleFinished, PointerSwitched, RuntimeFinished,
                   TimerStarted, ServiceRestarted, InstallFails, At
    <2>2. op'.kind = op.kind
      BY <2>1 DEF Goto, NInv, IInv, Shapes
    <2> QED
      BY <2>1, <2>2 DEF Restored
  <1> QED
    BY <1>1, <1>2, <1>3, <1>4, <1>5, <1>6, <1>7, <1>8, <1>9, <1>10 DEF Next

\* A restore that reports success has brought back the units, the config and the
\* registration of its bundle, and if the service ran then, the old revision runs now
\* (restoreCutoverRollbackBundle), whatever else goes on meanwhile.
THEOREM RestoreBringsBack == Spec => RollbackRuns
  <1>1. Init => NInv /\ Typed /\ Restored
    <2>1. Init => op.kind = "none"
      BY DEF Init, NoOp
    <2> QED
      BY <2>1, InitNInv, InitTyped DEF Restored
  <1>2. NInv /\ Typed /\ Restored /\ [Next]_vars => (NInv /\ Typed /\ Restored)'
    BY NextStands, StepTyped, RestoreWrites DEF NInv
  <1>3. ASSUME NInv, Restored, RestoreStarted
        PROVE  LET b == art[op.dir]
               IN /\ units.service = Unit(b.mode, op.dir) /\ units.supervisor = units.service
                  /\ config' = b.config
                  /\ b.saved.active => process' = b.rev
    <2>1. /\ op.kind = "restore" /\ op.step = "start" /\ op.dir \in Dirs
          /\ units.service = OpUnit /\ units.supervisor = OpUnit
          /\ config' = art[op.dir].config /\ schema <= SchemaOf(art[op.dir].rev)
          /\ art[op.dir].kind = "bundle"
      BY <1>3 DEF RestoreStarted, At, NInv, IInv, Shapes, RestoreStage, Restored, Last, Stopped
    <2>2. OpUnit = Unit(art[op.dir].mode, op.dir)
      BY <2>1 DEF OpUnit
    <2>3. /\ loaded = units.service /\ Named(loaded) /\ loaded.dir = op.dir
          /\ art[op.dir].rev = Source /\ RevOf(loaded) = Source
      BY <1>3, <2>1, RestoredUnit DEF Last, Stopped
    <2>4. Launchable(loaded)
      BY <2>1, <2>3 DEF Launchable, Verified, Named
    <2>5. process \in {0, Source}
      BY <1>3, <2>1 DEF NInv, Operating, Written, Stopped, Standing, Values
    <2>6. art[op.dir].saved.active => process' = art[op.dir].rev
      BY <1>3, <2>3, <2>4, <2>5 DEF RestoreStarted, Started
    <2> QED
      BY <2>1, <2>2, <2>6
  <1> QED
    BY <1>1, <1>2, <1>3, PTL DEF Spec, RollbackRuns
=============================================================================
