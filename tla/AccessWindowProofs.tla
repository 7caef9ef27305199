-------------------------- MODULE AccessWindowProofs --------------------------
(***************************************************************************)
(* The access of a turn for any agents, jobs, configurations and edits.     *)
(*                                                                         *)
(* What a child may do is said of its command line; the lemmas on values    *)
(* show that the command line is bare exactly if the access is read-only,   *)
(* whatever the backend (BareIsReadOnly), and that a lowered access stays   *)
(* lowered (AccessOnlyFalls).  The rest is an invariant of a work item      *)
(* (Sound), of an item that this service may still run (InUse), and of an   *)
(* item and the one it replaces (Descends).                                *)
(***************************************************************************)
EXTENDS AccessWindow, TLAPS

Asks == {"none", "read-only"}
Accesses == {"read-only", "workspace-write", "danger-full-access"}
Places == {"queued", "loading", "preparing", "running", "interrupted", "review", "done", "failed"}

\* A work item: an attenuated request was admitted, sealed and given access as
\* read-only, and its command line is the one of its backend and access.
Sound(x) ==
    /\ x = [at |-> x.at, agent |-> x.agent, backend |-> x.backend, from |-> x.from,
            source |-> x.source, asked |-> x.asked, ceiling |-> x.ceiling,
            access |-> x.access, options |-> x.options, envelope |-> x.envelope]
    /\ x.at \in Places /\ x.agent \in Agents
    /\ x.asked \in Asks /\ x.ceiling \in Asks /\ x.access \in Accesses
    /\ x.asked = "read-only" => x.ceiling = "read-only"
    /\ x.ceiling = "read-only" => x.access = "read-only"
    /\ \E c \in Configs : c.backend = x.backend /\ x.options = BackendOptions(c, x.access)
    /\ x.envelope.kept =>
          /\ x.envelope.revision.backend = x.backend
          /\ x.envelope.ceiling \in Asks
          /\ x.asked = "read-only" => x.envelope.ceiling = "read-only"

\* An item that may still run was sealed under what the service has loaded, and
\* has the access this gives; one that came back by itself is read-only.
InUse(x) ==
    /\ Current(x.envelope, x.agent)
    /\ x.access = Access(Config, x.ceiling)
    /\ x.from = "recovery" => x.access = "read-only"

\* A successor was asked for as its first predecessor was.
Descends(j) ==
    /\ job[j].source \in Jobs
    /\ job[job[j].source] # Unused
    /\ job[j].asked = job[job[j].source].asked

Types ==
    /\ disk \in Disk
    /\ router = [up |-> router.up, loaded |-> router.loaded, latched |-> router.latched]
    /\ router.loaded \in Disk
    /\ job = [j \in Jobs |-> job[j]]

AInv ==
    /\ Types
    /\ \A j \in Jobs : job[j] # Unused => Sound(job[j]) /\ Descends(j)
    /\ \A j \in Jobs : job[j].at \in Active => router.up /\ InUse(job[j])

-----------------------------------------------------------------------------
(* The operators on values.                                                  *)

LEMMA AccessKinds ==
    ASSUME NEW c, NEW ceiling
    PROVE  /\ Access(c, ceiling) \in Accesses
           /\ ceiling = "read-only" => Access(c, ceiling) = "read-only"
  BY DEF Access, Accesses

LEMMA CeilingKinds ==
    ASSUME NEW c, NEW asked \in Asks
    PROVE  /\ EffectiveCeiling(c, asked) \in Asks
           /\ asked = "read-only" => EffectiveCeiling(c, asked) = "read-only"
  BY DEF EffectiveCeiling, Asks

\* What a configuration makes of a ceiling is never more than of the request, and
\* an item that the configuration made read-only stays so when its ceiling is
\* computed again, unless it was the ceiling that made it so.
LEMMA AccessOnlyFalls ==
    ASSUME NEW c, NEW ceiling, NEW other, Access(c, ceiling) = "read-only",
           ceiling # "read-only"
    PROVE  Access(c, other) = "read-only"
  BY DEF Access

\* On each backend the command line is read-only for the access read-only only.
LEMMA CommandFits ==
    ASSUME NEW b \in Backends, NEW a \in Accesses
    PROVE  ReadOnlyOptions(b, CommandOptions(b, a)) <=> a = "read-only"
  <1>1. CASE b = "codex"
    BY <1>1 DEF ReadOnlyOptions, CommandOptions
  <1>2. CASE b = "opencode"
    BY <1>2 DEF ReadOnlyOptions, CommandOptions
  <1>3. CASE b = "claude"
    BY <1>3 DEF ReadOnlyOptions, CommandOptions
  <1>4. CASE b = "grok"
    BY <1>4 DEF ReadOnlyOptions, CommandOptions
  <1> QED
    BY <1>1, <1>2, <1>3, <1>4 DEF Backends

LEMMA BareIsReadOnly ==
    ASSUME NEW x, Sound(x)
    PROVE  Bare(x) <=> x.access = "read-only"
  <1>1. PICK c \in Configs : c.backend = x.backend /\ x.options = BackendOptions(c, x.access)
    BY DEF Sound
  <1>2. x.backend \in Backends /\ x.access \in Accesses
    BY <1>1, ConfigsAssumption DEF Sound
  <1>3. /\ x.options.command = CommandOptions(x.backend, x.access)
        /\ x.options.grants = (c.network /\ ~ReadOnlyOptions(x.backend, x.options.command))
    BY <1>1 DEF BackendOptions
  <1>4. ReadOnlyOptions(x.backend, x.options.command) <=> x.access = "read-only"
    BY <1>2, <1>3, CommandFits
  <1>5. /\ Child(x).writes = ~ReadOnlyOptions(x.backend, x.options.command)
        /\ Child(x).grants = x.options.grants
    BY DEF Child, Invocation
  <1> QED
    BY <1>3, <1>4, <1>5 DEF Bare

LEMMA Fields ==
    ASSUME NEW x, Sound(x), NEW at, NEW from, NEW envelope
    PROVE  /\ [x EXCEPT !.at = at, !.from = from] =
                [at |-> at, agent |-> x.agent, backend |-> x.backend, from |-> from,
                 source |-> x.source, asked |-> x.asked, ceiling |-> x.ceiling,
                 access |-> x.access, options |-> x.options, envelope |-> x.envelope]
           /\ [x EXCEPT !.at = at, !.envelope = envelope] =
                [at |-> at, agent |-> x.agent, backend |-> x.backend, from |-> x.from,
                 source |-> x.source, asked |-> x.asked, ceiling |-> x.ceiling,
                 access |-> x.access, options |-> x.options, envelope |-> envelope]
  <1> DEFINE moved == [x EXCEPT !.at = at]
  <1>1. moved = [at |-> at, agent |-> x.agent, backend |-> x.backend, from |-> x.from,
                 source |-> x.source, asked |-> x.asked, ceiling |-> x.ceiling,
                 access |-> x.access, options |-> x.options, envelope |-> x.envelope]
    BY DEF Sound
  <1>2. /\ [x EXCEPT !.at = at, !.from = from] = [moved EXCEPT !.from = from]
        /\ [x EXCEPT !.at = at, !.envelope = envelope] = [moved EXCEPT !.envelope = envelope]
    OBVIOUS
  <1> HIDE DEF moved
  <1>3. [moved EXCEPT !.from = from] =
                [at |-> at, agent |-> x.agent, backend |-> x.backend, from |-> from,
                 source |-> x.source, asked |-> x.asked, ceiling |-> x.ceiling,
                 access |-> x.access, options |-> x.options, envelope |-> x.envelope]
    BY <1>1
  <1>4. [moved EXCEPT !.envelope = envelope] =
                [at |-> at, agent |-> x.agent, backend |-> x.backend, from |-> x.from,
                 source |-> x.source, asked |-> x.asked, ceiling |-> x.ceiling,
                 access |-> x.access, options |-> x.options, envelope |-> envelope]
    BY <1>1
  <1> QED
    BY <1>2, <1>3, <1>4

\* What only moves an item leaves it what it is.
LEMMA Moved ==
    ASSUME NEW x, Sound(x), NEW s \in Places
    PROVE  LET y == [x EXCEPT !.at = s]
           IN  /\ Sound(y) /\ y.at = s
               /\ y.agent = x.agent /\ y.source = x.source /\ y.asked = x.asked
               /\ y.access = x.access
               /\ InUse(x) => InUse(y)
  <1> DEFINE y == [x EXCEPT !.at = s]
  <1>1. y = [at |-> s, agent |-> x.agent, backend |-> x.backend, from |-> x.from,
             source |-> x.source, asked |-> x.asked, ceiling |-> x.ceiling,
             access |-> x.access, options |-> x.options, envelope |-> x.envelope]
    BY DEF Sound
  <1>2. /\ y.at = s /\ y.agent = x.agent /\ y.backend = x.backend /\ y.from = x.from
        /\ y.source = x.source /\ y.asked = x.asked /\ y.ceiling = x.ceiling
        /\ y.access = x.access /\ y.options = x.options /\ y.envelope = x.envelope
    BY <1>1
  <1> HIDE DEF y
  <1>3. Sound(y)
    BY <1>1, <1>2 DEF Sound
  <1>4. InUse(x) => InUse(y)
    BY <1>2 DEF InUse
  <1> QED
    BY <1>2, <1>3, <1>4 DEF y

\* An item gets the access of another ceiling, under the configuration it was
\* sealed under.
LEMMA Lowered ==
    ASSUME NEW x, Sound(x), Config \in Configs, Current(x.envelope, x.agent),
           NEW ceiling \in Asks, x.asked = "read-only" => ceiling = "read-only"
    PROVE  LET y == WithCeiling(x, ceiling)
           IN  /\ Sound(y) /\ y.at = x.at
               /\ y.agent = x.agent /\ y.source = x.source /\ y.asked = x.asked
               /\ y.access = Access(Config, ceiling)
               /\ (x.from = "recovery" => y.access = "read-only") => InUse(y)
  <1> DEFINE y == WithCeiling(x, ceiling)
             access == Access(Config, ceiling)
             options == BackendOptions(Config, access)
  <1>1. y = [at |-> x.at, agent |-> x.agent, backend |-> x.backend, from |-> x.from,
             source |-> x.source, asked |-> x.asked, ceiling |-> ceiling,
             access |-> access, options |-> options, envelope |-> x.envelope]
    <2>1. y = [x EXCEPT !.ceiling = ceiling, !.access = access, !.options = options]
      BY DEF WithCeiling
    <2> HIDE DEF y, access, options
    <2> QED
      BY <2>1 DEF Sound
  <1>2. /\ y.at = x.at /\ y.agent = x.agent /\ y.backend = x.backend /\ y.from = x.from
        /\ y.source = x.source /\ y.asked = x.asked /\ y.ceiling = ceiling
        /\ y.access = Access(Config, ceiling)
        /\ y.options = BackendOptions(Config, y.access) /\ y.envelope = x.envelope
    BY <1>1
  <1>3. Config.backend = x.backend
    BY DEF Current, Sound, Revision
  <1> HIDE DEF y
  <1>4. Sound(y)
    BY <1>1, <1>2, <1>3, AccessKinds DEF Sound
  <1>5. (x.from = "recovery" => y.access = "read-only") => InUse(y)
    BY <1>2 DEF InUse
  <1> QED
    BY <1>2, <1>4, <1>5 DEF y

\* A new item is sealed under what the service has loaded.
LEMMA Created ==
    ASSUME Config \in Configs, NEW a \in Agents, NEW source, NEW asked \in Asks,
           NEW from \in {"message", "retry"}
    PROVE  LET y == WorkItem(a, from, source, asked, EffectiveCeiling(Config, asked))
           IN  /\ Sound(y) /\ InUse(y) /\ y.at = "queued"
               /\ y.source = source /\ y.asked = asked
  <1> DEFINE ceiling == EffectiveCeiling(Config, asked)
             y == WorkItem(a, from, source, asked, ceiling)
             e == Envelope(a, asked, ceiling)
  <1>1. /\ ceiling \in Asks /\ Access(Config, ceiling) \in Accesses
        /\ asked = "read-only" => ceiling = "read-only"
        /\ ceiling = "read-only" => Access(Config, ceiling) = "read-only"
    BY AccessKinds, CeilingKinds
  <1>2. /\ e.kept /\ e.revision = Revision(Config) /\ e.context = router.loaded.context[a]
        /\ e.ceiling = ceiling /\ e.revision.backend = Config.backend
    BY DEF Envelope, Revision
  <1> HIDE DEF ceiling, e
  <1>3. y = [at |-> "queued", agent |-> a, backend |-> Config.backend, from |-> from,
             source |-> source, asked |-> asked, ceiling |-> ceiling,
             access |-> Access(Config, ceiling),
             options |-> BackendOptions(Config, Access(Config, ceiling)), envelope |-> e]
    BY DEF WorkItem, e
  <1>4. /\ y.at = "queued" /\ y.agent = a /\ y.backend = Config.backend /\ y.from = from
        /\ y.source = source /\ y.asked = asked /\ y.ceiling = ceiling
        /\ y.access = Access(Config, ceiling)
        /\ y.options = BackendOptions(Config, y.access) /\ y.envelope = e
    BY <1>3
  <1> HIDE DEF y
  <1>5. Sound(y)
    BY <1>1, <1>2, <1>3, <1>4 DEF Sound, Places
  <1>6. InUse(y)
    BY <1>2, <1>4 DEF InUse, Current
  <1> QED
    BY <1>4, <1>5, <1>6 DEF y, ceiling

-----------------------------------------------------------------------------
(* A step.                                                                   *)

\* The inputs as they are now allow the item to start (SpawnAuthorized).
Authorized(j) ==
    LET c == disk.config
    IN  /\ c = Config
        /\ disk.context[job[j].agent] = router.loaded.context[job[j].agent]
        /\ \/ Bare(job[j]) /\ ~c.policy
           \/ /\ job[j].asked = "none"
              /\ EffectiveActions(c) \cap Mutations # {}
              /\ ~Shut(c)
              /\ c.policy => allows

\* What one step may make of the item of j.
Becomes(j, x) ==
    /\ Sound(x)
    /\ job[j] # Unused =>
          /\ x.source = job[j].source /\ x.asked = job[j].asked
          /\ x.at \in Active /\ job[j].access = "read-only" => x.access = "read-only"
    /\ job[j] = Unused =>
          \/ x.source = j
          \/ /\ x.source \in Jobs /\ job[x.source] # Unused
             /\ x.asked = job[x.source].asked
    /\ x.at \in Active => router.up /\ InUse(x)
    /\ x.at # "running" \/ Authorized(j)

Kept ==
    /\ AInv'
    /\ \A j \in Jobs :
          /\ job[j] # Unused /\ job'[j].at \in Active /\ job[j].access = "read-only"
                => job'[j].access = "read-only"
          /\ job[j].at # "running" /\ job'[j].at = "running" => Authorized(j)

SameRouter ==
    /\ router' = [up |-> router'.up, loaded |-> router'.loaded, latched |-> router'.latched]
    /\ router'.up = router.up /\ router'.loaded = router.loaded

LEMMA UnusedIsNoItem ==
    /\ Unused.at = "unused" /\ "unused" \notin Active
    /\ \A x : Sound(x) => x # Unused /\ x.at # "unused"
  BY DEF Unused, Sound, Places, Active, Pending

\* Each job keeps its item or gets one that it may become.
LEMMA StepKeeps ==
    ASSUME AInv, SameRouter, disk' \in Disk, job' = [j \in Jobs |-> job'[j]],
           \A j \in Jobs : job'[j] = job[j] \/ Becomes(j, job'[j])
    PROVE  Kept
  <1>1. Types'
    BY DEF AInv, Types, SameRouter
  <1>2. Config' = Config /\ router'.loaded = router.loaded /\ router'.up = router.up
    BY DEF SameRouter, Config
  <1>3. ASSUME NEW j \in Jobs, job[j] # Unused
        PROVE  /\ job'[j] # Unused /\ job'[j].source = job[j].source
               /\ job'[j].asked = job[j].asked
    BY <1>3, UnusedIsNoItem DEF Becomes
  <1>4. ASSUME NEW j \in Jobs, job'[j] # Unused
        PROVE  Sound(job[j])' /\ Descends(j)'
    <2>1. Sound(job'[j])
      BY <1>4 DEF AInv, Becomes
    <2>2. Descends(j)'
      <3>1. CASE job[j] # Unused
        <4>1. Descends(j)
          BY <3>1 DEF AInv
        <4> QED
          BY <1>3, <3>1, <4>1 DEF Descends
      <3>2. CASE job[j] = Unused
        <4>1. Becomes(j, job'[j])
          BY <1>4, <3>2
        <4>2. CASE job'[j].source = j
          BY <1>4, <4>2 DEF Descends
        <4>3. CASE job'[j].source # j
          <5>1. /\ job'[j].source \in Jobs /\ job[job'[j].source] # Unused
                /\ job'[j].asked = job[job'[j].source].asked
            BY <3>2, <4>1, <4>3 DEF Becomes
          <5> QED
            BY <1>3, <5>1 DEF Descends
        <4> QED
          BY <4>2, <4>3
      <3> QED
        BY <3>1, <3>2
    <2> QED
      BY <2>1, <2>2 DEF Sound
  <1>5. ASSUME NEW j \in Jobs, job'[j].at \in Active
        PROVE  router'.up /\ InUse(job[j])'
    <2>1. router.up /\ InUse(job'[j])
      BY <1>5 DEF AInv, Becomes
    <2> QED
      BY <1>2, <2>1 DEF InUse, Current
  <1>6. AInv'
    BY <1>1, <1>4, <1>5 DEF AInv
  <1> QED
    BY <1>6 DEF Kept, Becomes

\* The same of a step on one job.
LEMMA OneKeeps ==
    ASSUME AInv, SameRouter, UNCHANGED disk, NEW j \in Jobs, NEW x,
           job' = [job EXCEPT ![j] = x], Becomes(j, x)
    PROVE  Kept
  <1>1. job' = [i \in Jobs |-> IF i = j THEN x ELSE job[i]]
    BY DEF AInv, Types
  <1>2. job' = [i \in Jobs |-> job'[i]]
    BY <1>1
  <1>3. \A i \in Jobs : job'[i] = job[i] \/ Becomes(i, job'[i])
    BY <1>1
  <1>4. disk' \in Disk
    BY DEF AInv, Types
  <1> QED
    BY <1>2, <1>3, <1>4, StepKeeps

LEMMA VerifyingKeepsRouter ==
    ASSUME AInv, UNCHANGED router \/ \E a : VerifyRuntimeInputs(a)
    PROVE  SameRouter
  BY DEF AInv, Types, SameRouter, VerifyRuntimeInputs

\* An item that moves on without getting another access.
LEMMA MoveKeeps ==
    ASSUME AInv, SameRouter, UNCHANGED disk, NEW j \in Jobs, job[j].at \in Active,
           NEW s \in Places, job' = [job EXCEPT ![j] = [job[j] EXCEPT !.at = s]],
           s = "running" => Authorized(j)
    PROVE  Kept
  <1>1. job[j] # Unused /\ Sound(job[j]) /\ router.up /\ InUse(job[j])
    BY UnusedIsNoItem DEF AInv
  <1> DEFINE x == [job[j] EXCEPT !.at = s]
  <1>2. /\ Sound(x) /\ x.at = s /\ x.source = job[j].source /\ x.asked = job[j].asked
        /\ x.access = job[j].access /\ InUse(x)
    BY <1>1, Moved
  <1>3. job' = [job EXCEPT ![j] = x]
    OBVIOUS
  <1> HIDE DEF x
  <1>4. Becomes(j, x)
    BY <1>1, <1>2 DEF Becomes
  <1> QED
    BY <1>3, <1>4, OneKeeps

-----------------------------------------------------------------------------
(* The actions.                                                              *)

LEMMA AdmitKeeps ==
    ASSUME AInv, NEW j \in Jobs, NEW a \in Agents, NEW asked \in Asks, Admit(j, a, asked)
    PROVE  Kept
  <1> DEFINE x == WorkItem(a, "message", j, asked, EffectiveCeiling(Config, asked))
  <1>1. SameRouter /\ UNCHANGED disk /\ router.up /\ job[j] = Unused
    BY VerifyingKeepsRouter DEF Admit, Serving, NextUnused
  <1>2. CASE job' = job
    BY <1>1, <1>2, StepKeeps DEF AInv, Types
  <1>3. CASE job' = [job EXCEPT ![j] = x]
    <2>1. Config \in Configs
      BY DEF AInv, Types, Disk, Config
    <2>2. Sound(x) /\ InUse(x) /\ x.at = "queued" /\ x.source = j
      BY <2>1, Created
    <2> HIDE DEF x
    <2>3. Becomes(j, x)
      BY <1>1, <2>2 DEF Becomes
    <2> QED
      BY <1>1, <1>3, <2>3, OneKeeps
  <1> QED
    BY <1>2, <1>3 DEF Admit

LEMMA UsedItem ==
    ASSUME AInv, NEW j \in Jobs, job[j].at # "unused"
    PROVE  /\ job[j] # Unused /\ Sound(job[j]) /\ Config \in Configs
           /\ job[j].at \in Active => router.up /\ InUse(job[j])
  BY UnusedIsNoItem DEF AInv, Types, Disk, Config

\* The access of a turn is recomputed when the queue reaches it.
LEMMA ReconciledFalls ==
    ASSUME AInv, NEW j \in Jobs, job[j].at = "queued"
    PROVE  LET y == Reconciled(job[j])
           IN  /\ Sound(y) /\ InUse(y)
               /\ y.source = job[j].source /\ y.asked = job[j].asked
               /\ job[j].access = "read-only" => y.access = "read-only"
  <1> DEFINE x == job[j]
             ceiling == EffectiveCeiling(Config, x.asked)
             y == WithCeiling(x, ceiling)
  <1>1. Sound(x) /\ InUse(x) /\ Config \in Configs
    BY UsedItem DEF Active, Pending
  <1>2. CASE Reconciled(x) = x
    BY <1>1, <1>2
  <1>3. CASE Reconciled(x) # x
    <2>1. Reconciled(x) = y
      BY <1>3 DEF Reconciled
    <2>2. ~(x.asked = "none" /\ x.ceiling = "read-only" /\ x.access = "read-only")
      BY <1>3 DEF Reconciled
    <2>3. /\ ceiling \in Asks
          /\ x.asked = "read-only" => ceiling = "read-only"
      BY <1>1, CeilingKinds DEF Sound
    <2>4. /\ Sound(y) /\ y.source = x.source /\ y.asked = x.asked
          /\ y.access = Access(Config, ceiling)
          /\ (x.from = "recovery" => y.access = "read-only") => InUse(y)
      BY <1>1, <2>3, Lowered DEF InUse
    <2>5. x.access = "read-only" => Access(Config, ceiling) = "read-only"
      <3>1. CASE x.ceiling = "read-only" /\ x.access = "read-only"
        <4>1. ceiling = "read-only"
          BY <1>1, <2>2, <2>3, <3>1 DEF Sound, Asks
        <4> QED
          BY <4>1, AccessKinds
      <3>2. CASE x.ceiling # "read-only" /\ x.access = "read-only"
        <4>1. Access(Config, x.ceiling) = "read-only"
          BY <1>1, <3>2 DEF InUse
        <4> QED
          BY <3>2, <4>1, AccessOnlyFalls
      <3> QED
        BY <3>1, <3>2
    <2>6. InUse(y)
      BY <1>1, <2>4, <2>5 DEF InUse
    <2> QED
      BY <2>1, <2>4, <2>5, <2>6
  <1> QED
    BY <1>2, <1>3

LEMMA RunBeginsKeeps ==
    ASSUME AInv, NEW j \in Jobs, RunBegins(j)
    PROVE  Kept
  <1> DEFINE y == Reconciled(job[j])
  <1>1. /\ SameRouter /\ UNCHANGED disk /\ router.up /\ job[j].at = "queued"
        /\ \/ job' = [job EXCEPT ![j] = [job[j] EXCEPT !.at = "failed"]]
           \/ \E s \in {"failed", "loading", "preparing"} :
                 job' = [job EXCEPT ![j] = [y EXCEPT !.at = s]]
    <2>1. VerifyRuntimeInputs(job[j].agent) /\ UNCHANGED disk /\ Serving /\ job[j].at = "queued"
      BY DEF RunBegins
    <2>2. SameRouter
      BY <2>1, VerifyingKeepsRouter
    <2>3. CASE ~Unchanged(job[j].agent)
      BY <2>1, <2>2, <2>3 DEF RunBegins, Serving
    <2>4. CASE Unchanged(job[j].agent)
      <3>1. CASE ~WindowOpenFor(y.access) \/ ~PolicyAllows(y.access)
        BY <2>1, <2>2, <2>4, <3>1 DEF RunBegins, Serving
      <3>2. CASE WindowOpenFor(y.access) /\ PolicyAllows(y.access)
        BY <2>1, <2>2, <2>4, <3>2 DEF RunBegins, Serving
      <3> QED
        BY <3>1, <3>2
    <2> QED
      BY <2>3, <2>4
  <1>2. job[j].at \in Active
    BY <1>1 DEF Active, Pending
  <1>3. CASE job' = [job EXCEPT ![j] = [job[j] EXCEPT !.at = "failed"]]
    BY <1>1, <1>2, <1>3, MoveKeeps DEF Places
  <1>4. ASSUME NEW s \in {"failed", "loading", "preparing"},
               job' = [job EXCEPT ![j] = [y EXCEPT !.at = s]]
        PROVE  Kept
    <2> DEFINE x == [y EXCEPT !.at = s]
    <2>1. /\ Sound(y) /\ InUse(y) /\ y.source = job[j].source /\ y.asked = job[j].asked
          /\ job[j].access = "read-only" => y.access = "read-only"
      BY <1>1, ReconciledFalls
    <2>2. job' = [job EXCEPT ![j] = x]
      BY <1>4
    <2>5. s \in Places
      BY DEF Places
    <2> HIDE DEF y
    <2>3. /\ Sound(x) /\ InUse(x) /\ x.at = s /\ x.source = y.source /\ x.asked = y.asked
          /\ x.access = y.access
      BY <2>1, <2>5, Moved
    <2> HIDE DEF x
    <2>4. Becomes(j, x)
      BY <1>1, <1>2, <2>1, <2>3, UsedItem, UnusedIsNoItem DEF Becomes
    <2> QED
      BY <1>1, <2>2, <2>4, OneKeeps
  <1> QED
    BY <1>1, <1>3, <1>4

\* A child starts only through the last check before the spawn.
LEMMA SpawnKeeps ==
    ASSUME AInv, NEW j \in Jobs, Spawn(j)
    PROVE  Kept
  <1>1. SameRouter /\ UNCHANGED disk /\ job[j].at \in Active
    BY VerifyingKeepsRouter DEF Spawn, Active, Pending
  <1>2. PICK s \in {"running", "failed"} :
            /\ job' = [job EXCEPT ![j] = [job[j] EXCEPT !.at = s]]
            /\ s = "running" => PreSpawnCheck(j)
    BY DEF Spawn
  <1>3. ASSUME PreSpawnCheck(j) PROVE Authorized(j)
    <2>1. /\ disk.config = Config
          /\ disk.context[job[j].agent] = router.loaded.context[job[j].agent]
          /\ WindowOpenFor(job[j].access) /\ PolicyAllows(job[j].access)
      BY <1>3 DEF PreSpawnCheck, Unchanged, GlobalDiffers, AgentDiffers, ContextDiffers
    <2>2. Sound(job[j]) /\ job[j].access = Access(Config, job[j].ceiling)
      BY <1>1, UsedItem, UnusedIsNoItem DEF InUse
    <2>3. CASE job[j].access = "read-only"
      <3>1. ~Config.policy
        BY <2>1, <2>3 DEF PolicyAllows, BridgeAllows
      <3>2. Bare(job[j])
        BY <2>2, <2>3, BareIsReadOnly
      <3> QED
        BY <2>1, <3>1, <3>2 DEF Authorized
    <2>4. CASE job[j].access # "read-only"
      <3>1. job[j].asked = "none"
        BY <2>2, <2>4 DEF Sound, Asks
      <3>2. EffectiveActions(Config) \cap Mutations # {}
        BY <2>2, <2>4 DEF Access
      <3>3. ~Shut(Config) /\ (Config.policy => allows)
        BY <2>1, <2>4 DEF WindowOpenFor, PolicyAllows, BridgeAllows
      <3> QED
        BY <2>1, <3>1, <3>2, <3>3 DEF Authorized
    <2> QED
      BY <2>3, <2>4
  <1>4. s \in Places
    BY DEF Places
  <1> QED
    BY <1>1, <1>2, <1>3, <1>4, MoveKeeps

LEMMA TurnKeeps ==
    ASSUME AInv, NEW j \in Jobs, HistoryLoaded(j) \/ Ends(j) \/ PreparationFails(j) \/ Cancel(j)
    PROVE  Kept
  <1>1. /\ UNCHANGED <<disk, router>> /\ job[j].at \in Active
        /\ \E s \in {"preparing", "failed", "done"} :
              job' = [job EXCEPT ![j] = [job[j] EXCEPT !.at = s]]
    BY DEF HistoryLoaded, Ends, PreparationFails, Cancel, Active, Pending
  <1>2. SameRouter
    BY <1>1, VerifyingKeepsRouter
  <1>3. {"preparing", "failed", "done"} \subseteq Places \ {"running"}
    BY DEF Places
  <1> QED
    BY <1>1, <1>2, <1>3, MoveKeeps

\* An interrupted turn comes back only where its sealed ceiling is read-only now.
LEMMA ResumeKeeps ==
    ASSUME AInv, NEW j \in Jobs, Resume(j)
    PROVE  Kept
  <1> DEFINE x == job[j]
             y == WithCeiling(x, x.envelope.ceiling)
             z == [y EXCEPT !.at = "queued", !.from = "recovery"]
  <1>1. /\ SameRouter /\ UNCHANGED disk /\ router.up /\ x.at = "interrupted"
        /\ job' = [job EXCEPT ![j] = Resumed(x)]
    BY VerifyingKeepsRouter DEF Resume
  <1>2. Sound(x) /\ x # Unused /\ Config \in Configs
    BY <1>1, UsedItem
  <1>3. CASE ~Resumable(x)
    <2> DEFINE w == [x EXCEPT !.at = "review"]
    <2>1. "review" \in Places /\ "review" \notin Active
      BY DEF Places, Active, Pending
    <2>2. Sound(w) /\ w.at = "review" /\ w.source = x.source /\ w.asked = x.asked
      BY <1>2, <2>1, Moved
    <2>3. Resumed(x) = w
      BY <1>3 DEF Resumed
    <2> HIDE DEF w
    <2>4. Becomes(j, w)
      BY <1>2, <2>1, <2>2 DEF Becomes
    <2> QED
      BY <1>1, <2>3, <2>4, OneKeeps
  <1>4. CASE Resumable(x)
    <2>1. /\ Current(x.envelope, x.agent)
          /\ Access(Config, x.envelope.ceiling) = "read-only"
      BY <1>4 DEF Resumable
    <2>2. /\ x.envelope.ceiling \in Asks
          /\ x.asked = "read-only" => x.envelope.ceiling = "read-only"
      BY <1>2, <2>1 DEF Sound, Current
    <2>3. /\ Sound(y) /\ y.source = x.source /\ y.asked = x.asked
          /\ y.access = "read-only" /\ InUse(y)
      BY <1>2, <2>1, <2>2, Lowered
    <2>4. Resumed(x) = z
      BY <1>4 DEF Resumed
    <2> HIDE DEF y
    <2>5. z = [at |-> "queued", agent |-> y.agent, backend |-> y.backend, from |-> "recovery",
               source |-> y.source, asked |-> y.asked, ceiling |-> y.ceiling,
               access |-> y.access, options |-> y.options, envelope |-> y.envelope]
      BY <2>3, Fields
    <2>6. /\ z.at = "queued" /\ z.agent = y.agent /\ z.backend = y.backend
          /\ z.source = y.source /\ z.asked = y.asked /\ z.ceiling = y.ceiling
          /\ z.access = y.access /\ z.options = y.options /\ z.envelope = y.envelope
      BY <2>5
    <2> HIDE DEF z
    <2>7. Sound(z)
      BY <2>3, <2>5, <2>6 DEF Sound, Places
    <2>8. InUse(z)
      BY <2>3, <2>6 DEF InUse
    <2>9. Becomes(j, z)
      BY <1>1, <1>2, <2>3, <2>6, <2>7, <2>8 DEF Becomes
    <2> QED
      BY <1>1, <2>4, <2>9, OneKeeps
  <1> QED
    BY <1>3, <1>4

\* A retry takes the place of its predecessor and asks for what was asked then.
LEMMA ReplaceKeeps ==
    ASSUME AInv, NEW j \in Jobs, NEW k \in Jobs, Replace(j, k)
    PROVE  Kept
  <1> DEFINE x == job[j]
             s == IF x.at \in Active THEN "done" ELSE x.at
             y == [x EXCEPT !.at = s, !.envelope = NoEnvelope]
             z == Replacement(j)
  <1>1. /\ SameRouter /\ UNCHANGED disk /\ router.up /\ k # j /\ job[k] = Unused
        /\ x.at \in Active \/ x.at = "failed"
    BY VerifyingKeepsRouter DEF Replace, Serving, NextUnused
  <1>2. Sound(x) /\ x # Unused /\ Config \in Configs
    BY <1>1, UsedItem, UnusedIsNoItem
  <1>3. job' = [i \in Jobs |-> IF i = k THEN z ELSE IF i = j THEN y ELSE job[i]]
    <2>1. job = [i \in Jobs |-> job[i]]
      BY DEF AInv, Types
    <2>2. job' = [job EXCEPT ![k] = z, ![j].at = IF @ \in Active THEN "done" ELSE @,
                            ![j].envelope = NoEnvelope]
      BY DEF Replace
    <2> HIDE DEF z
    <2> QED
      BY <1>1, <2>1, <2>2
  <1>4. s \in {"done", "failed"}
    BY <1>1
  <1> HIDE DEF s
  <1>5. Sound(y) /\ y.at = s /\ y.source = x.source /\ y.asked = x.asked
    <2>1. y = [at |-> s, agent |-> x.agent, backend |-> x.backend, from |-> x.from,
               source |-> x.source, asked |-> x.asked, ceiling |-> x.ceiling,
               access |-> x.access, options |-> x.options, envelope |-> NoEnvelope]
      BY <1>2, Fields
    <2>2. /\ y.at = s /\ y.agent = x.agent /\ y.backend = x.backend /\ y.from = x.from
          /\ y.source = x.source /\ y.asked = x.asked /\ y.ceiling = x.ceiling
          /\ y.access = x.access /\ y.options = x.options /\ y.envelope = NoEnvelope
          /\ ~NoEnvelope.kept
      BY <2>1 DEF NoEnvelope
    <2> HIDE DEF y
    <2> QED
      BY <1>2, <1>4, <2>1, <2>2 DEF Sound, Places
  <1>6. Becomes(j, y)
    <2>1. "done" \notin Active /\ "failed" \notin Active
      BY DEF Active, Pending
    <2> HIDE DEF y
    <2> QED
      BY <1>2, <1>4, <1>5, <2>1 DEF Becomes
  <1>7. Sound(z) /\ InUse(z) /\ z.at = "queued" /\ z.source = j /\ z.asked = x.asked
    <2>1. x.agent \in Agents /\ x.asked \in Asks
      BY <1>2 DEF Sound
    <2> QED
      BY <1>2, <2>1, Created DEF Replacement
  <1> HIDE DEF z, y
  <1>8. Becomes(k, z)
    BY <1>1, <1>2, <1>7 DEF Becomes
  <1>9. /\ job' = [i \in Jobs |-> job'[i]] /\ disk' \in Disk
        /\ \A i \in Jobs : job'[i] = job[i] \/ Becomes(i, job'[i])
    BY <1>1, <1>3, <1>6, <1>8 DEF AInv, Types
  <1> QED
    BY <1>1, <1>9, StepKeeps

\* What the service forgets when it stops: no item is in use any more.
LEMMA StopKeeps ==
    ASSUME AInv, Stop
    PROVE  Kept
  <1>1. /\ Types' /\ job' = [j \in Jobs |-> job'[j]]
        /\ \A j \in Jobs : job'[j] = IF job[j].at \in Active
                                     THEN [job[j] EXCEPT !.at = "interrupted"] ELSE job[j]
    BY DEF Stop, AInv, Types
  <1>2. "interrupted" \in Places /\ "interrupted" \notin Active
    BY DEF Places, Active, Pending
  <1>3. ASSUME NEW j \in Jobs
        PROVE  /\ job'[j].at \notin Active
               /\ job[j] # Unused <=> job'[j] # Unused
               /\ job[j] # Unused => /\ Sound(job'[j]) /\ job'[j].source = job[j].source
                                     /\ job'[j].asked = job[j].asked
    <2>1. CASE job[j].at \in Active
      <3> DEFINE y == [job[j] EXCEPT !.at = "interrupted"]
      <3>1. Sound(job[j]) /\ job[j] # Unused
        BY <2>1, UsedItem, UnusedIsNoItem
      <3>2. Sound(y) /\ y.at = "interrupted" /\ y.source = job[j].source
            /\ y.asked = job[j].asked
        BY <1>2, <3>1, Moved
      <3>3. job'[j] = y
        BY <1>1, <2>1
      <3> HIDE DEF y
      <3> QED
        BY <1>2, <3>1, <3>2, <3>3, UnusedIsNoItem
    <2>2. CASE job[j].at \notin Active
      BY <1>1, <2>2 DEF AInv
    <2> QED
      BY <2>1, <2>2
  <1>4. ASSUME NEW j \in Jobs, job'[j] # Unused
        PROVE  Sound(job[j])' /\ Descends(j)'
    <2>1. Sound(job'[j]) /\ Descends(j)
      BY <1>3, <1>4 DEF AInv
    <2>2. Descends(j)'
      BY <1>3, <1>4, <2>1 DEF Descends
    <2> QED
      BY <2>1, <2>2 DEF Sound
  <1>5. AInv'
    BY <1>1, <1>3, <1>4 DEF AInv
  <1>6. "running" \in Active
    BY DEF Active
  <1> QED
    BY <1>3, <1>5, <1>6 DEF Kept

\* A start finds no item in use, and the disk as it is.
LEMMA StartKeeps ==
    ASSUME AInv, Start
    PROVE  Kept
  <1>1. Types' /\ UNCHANGED job /\ \A j \in Jobs : job[j].at \notin Active
    BY DEF Start, AInv, Types
  <1>2. ASSUME NEW j \in Jobs, job'[j] # Unused
        PROVE  Sound(job[j])' /\ Descends(j)'
    <2>1. Sound(job[j]) /\ Descends(j)
      BY <1>1, <1>2 DEF AInv
    <2> QED
      BY <1>1, <2>1 DEF Sound, Descends
  <1>3. AInv'
    BY <1>1, <1>2 DEF AInv
  <1> QED
    BY <1>1, <1>3 DEF Kept

LEMMA WorldKeeps ==
    ASSUME AInv, Edit \/ Tick \/ Decide \/ UNCHANGED vars
    PROVE  Kept
  <1>1. UNCHANGED <<router, job>>
    BY DEF Edit, Tick, Decide, vars
  <1>2. disk' \in Disk
    <2>1. CASE Edit
      <3>1. /\ disk = [config |-> disk.config, context |-> disk.context,
                       manifest |-> disk.manifest]
            /\ disk.config \in Configs /\ disk.context \in [Agents -> {0, 1}]
            /\ disk.manifest \in {0, 1}
        BY DEF AInv, Types, Disk
      <3>2. CASE \E c \in Configs : disk' = [disk EXCEPT !.config = c]
        BY <3>1, <3>2 DEF Disk
      <3>3. CASE \E a \in Agents : disk' = [disk EXCEPT !.context[a] = 1 - @]
        <4>1. PICK a \in Agents : disk' = [disk EXCEPT !.context[a] = 1 - @]
          BY <3>3
        <4>2. /\ disk' = [config |-> disk.config, manifest |-> disk.manifest,
                          context |-> [disk.context EXCEPT ![a] = 1 - disk.context[a]]]
              /\ [disk.context EXCEPT ![a] = 1 - disk.context[a]] \in [Agents -> {0, 1}]
          BY <3>1, <4>1
        <4> QED
          BY <3>1, <4>1, <4>2 DEF Disk
      <3>4. CASE disk' = [disk EXCEPT !.manifest = 1 - @]
        BY <3>1, <3>4 DEF Disk
      <3> QED
        BY <2>1, <3>2, <3>3, <3>4 DEF Edit
    <2>2. CASE UNCHANGED disk
      BY <2>2 DEF AInv, Types
    <2> QED
      BY <2>1, <2>2 DEF Tick, Decide, vars
  <1>3. SameRouter
    BY <1>1, VerifyingKeepsRouter
  <1> QED
    BY <1>1, <1>2, <1>3, StepKeeps DEF AInv, Types

LEMMA NextKeeps ==
    ASSUME AInv, [Next]_vars
    PROVE  Kept
  <1>1. CASE \E j \in Jobs, a \in Agents, asked \in {"none", "read-only"} : Admit(j, a, asked)
    BY <1>1, AdmitKeeps DEF Asks
  <1>2. ASSUME NEW j \in Jobs,
               \/ RunBegins(j) \/ HistoryLoaded(j) \/ Spawn(j) \/ Ends(j)
               \/ PreparationFails(j) \/ Cancel(j) \/ Resume(j)
        PROVE  Kept
    BY <1>2, RunBeginsKeeps, TurnKeeps, SpawnKeeps, ResumeKeeps
  <1>3. ASSUME NEW j \in Jobs, NEW k \in Jobs, Replace(j, k)
        PROVE  Kept
    BY <1>3, ReplaceKeeps
  <1>4. CASE Stop \/ Start \/ Edit \/ Tick \/ Decide \/ UNCHANGED vars
    BY <1>4, StopKeeps, StartKeeps, WorldKeeps
  <1> QED
    BY <1>1, <1>2, <1>3, <1>4 DEF Next

LEMMA InitAInv == Init => AInv
  BY UnusedIsNoItem DEF Init, AInv, Types, Disk

-----------------------------------------------------------------------------
(* The theorems.                                                             *)

\* An operator's read-only submission stays read-only through every retry, edit of the
\* configuration, opening of the window, crash and recovery (submitOperatorJob,
\* replaceJob, #reconcileMutationAccess).
THEOREM ReadOnlyStaysReadOnly == Spec => []AttenuationHolds
  <1>1. AInv => AttenuationHolds
    <2> SUFFICES ASSUME AInv, NEW j \in Jobs, job[j] # Unused,
                        job[job[j].source].asked = "read-only"
                 PROVE  job[j].asked = "read-only" /\ job[j].access = "read-only"
      BY DEF AttenuationHolds
    <2> QED
      BY DEF AInv, Descends, Sound
  <1> QED
    BY <1>1, InitAInv, NextKeeps, PTL DEF Spec, Kept

\* What the router takes up again by itself after a restart has a read-only command line
\* and was sealed under the configuration and the context the service now runs with.
THEOREM RecoveryIsReadOnly == Spec => []RecoveredReadOnly
  <1>1. AInv => RecoveredReadOnly
    <2> SUFFICES ASSUME AInv, NEW j \in Jobs, job[j].at \in Active, job[j].from = "recovery"
                 PROVE  Bare(job[j]) /\ Current(job[j].envelope, job[j].agent)
      BY DEF RecoveredReadOnly
    <2>1. Sound(job[j]) /\ InUse(job[j])
      BY UsedItem, UnusedIsNoItem
    <2> QED
      BY <2>1, BareIsReadOnly DEF InUse
  <1> QED
    BY <1>1, InitAInv, NextKeeps, PTL DEF Spec, Kept

\* No child starts with more than the files on the disk, the clock, the policy and the
\* request allow at that moment (preSpawnCheck of discord-router.mjs and the command
\* lines of adapters.mjs).
THEOREM SpawnIsAuthorized == Spec => SpawnAuthorized
  <1>1. AInv /\ [Next]_vars =>
          [\A j \in Jobs : job[j].at # "running" /\ job'[j].at = "running" => Authorized(j)]_vars
    BY NextKeeps DEF Kept
  <1>2. AInv /\ [Next]_vars => AInv'
    BY NextKeeps DEF Kept
  <1> QED
    BY <1>1, <1>2, InitAInv, PTL DEF Spec, SpawnAuthorized, Authorized

\* Nothing but an explicit retry, which is a new job, gives a read-only turn more.
THEOREM OnlyEverLowered == Spec => NeverWidened
  <1>1. ASSUME AInv, [Next]_vars, NEW j \in Jobs, job[j] # Unused, job'[j].at \in Active,
               Bare(job[j])
        PROVE  Bare(job'[j])
    <2>1. Kept
      BY <1>1, NextKeeps
    <2>2. Sound(job[j]) /\ job[j].access = "read-only"
      BY <1>1, BareIsReadOnly DEF AInv
    <2>3. job'[j].access = "read-only"
      BY <1>1, <2>1, <2>2 DEF Kept
    <2>4. Sound(job[j])'
      BY <1>1, <2>1, UnusedIsNoItem DEF Kept, AInv
    <2>5. Sound(job'[j])
      BY <2>4 DEF Sound
    <2> QED
      BY <2>3, <2>5, BareIsReadOnly
  <1>2. AInv /\ [Next]_vars => AInv'
    BY NextKeeps DEF Kept
  <1>3. AInv /\ [Next]_vars =>
          [\A j \in Jobs : job[j] # Unused /\ job'[j].at \in Active /\ Bare(job[j])
                            => Bare(job'[j])]_vars
    BY <1>1
  <1> QED
    BY <1>2, <1>3, InitAInv, PTL DEF Spec, NeverWidened
===============================================================================
