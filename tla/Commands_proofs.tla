-------------------------- MODULE Commands_proofs --------------------------
(***************************************************************************)
(* The commands around the core: config migrate for any number of pro-     *)
(* cesses, one verify for any files, budget and output, and the dispatcher *)
(* for any tasks, rows, missions and clock.                                *)
(***************************************************************************)
EXTENDS Dispatch, VerifyExec, ConfigMigration, FiniteSetTheorems, TLAPS

-----------------------------------------------------------------------------
(* config migrate *)

\* A migration no edit has disturbed since it planned finds its source, with the
\* planned policy, every other source in agreement and no backup; from the install
\* on the canonical file has that policy.
CalmPlans ==
    \A m \in Migrators : step[m] # "idle" /\ calm[m] =>
       LET s == plan[m].source
           e == plan[m].effective
       IN /\ s \in Legacy /\ file[s] = e /\ Validates(e) /\ ~Exists(Backup[s])
          /\ \A n \in Sources : Exists(n) => file[n] = e
          /\ step[m] = "install" => raw[m] = IF Exists(Canonical) THEN Nothing ELSE e
          /\ step[m] \in {"recheck", "rename"} => file[Canonical] = e

\* The last plan, if nobody edited since, is the holder's.
AcceptedHeld ==
    accepted # Nothing /\ holder # Nothing => calm[holder] /\ plan[holder].source = accepted

CMInv == CMTypeOK /\ calm \in [Migrators -> BOOLEAN] /\ CalmPlans /\ AcceptedHeld /\ RerunAccepted

\* The names of the policy files and of their backups.
LEMMA PolicyNames ==
  /\ Legacy \subseteq Sources /\ Canonical \in Sources /\ Sources \subseteq Names
  /\ Canonical \notin Legacy
  /\ \A s \in Legacy : Backup[s] \in Names /\ Backup[s] \notin Sources
BY DEF Legacy, Sources, Canonical, Names, Backup

\* A policy that names a known profile is a file and parses.
LEMMA ValidIsFile ==
  ASSUME NEW e, Validates(e)
  PROVE  e \in Contents /\ e # Nothing /\ Parses(e) /\ e # "malformed"
BY NothingAssumption DEF Validates, Profiles, Contents, Parses

\* When every source there is says the same valid policy, that policy is resolved.
LEMMA ResolvesTo ==
  ASSUME NEW f, NEW e, Validates(e), \E n \in Sources : f[n] = e,
         \A n \in Sources : f[n] # Nothing => f[n] = e
  PROVE  Resolve(f) = e
<1> DEFINE present == {n \in Sources : f[n] # Nothing}
           values == {f[n] : n \in present}
<1>1. present # {} /\ values = {e}
  BY ValidIsFile
<1>2. Cardinality(values) = 1 /\ "malformed" \notin values
  BY <1>1, ValidIsFile, FS_Singleton
<1>3. (CHOOSE v \in values : TRUE) = e
  BY <1>1
<1> QED BY <1>1, <1>2, <1>3 DEF Resolve

\* Leaving gives the lock back and touches nobody else.
LEMMA LeaveType ==
  ASSUME CMTypeOK, NEW m \in Migrators, step[m] # "idle", Leave(m)
  PROVE  /\ holder' = Nothing /\ \A k \in Migrators : step'[k] = "idle"
         /\ step' \in [Migrators -> {"idle", "read", "install", "recheck", "rename"}]
         /\ plan' \in [Migrators -> {Nothing} \cup [source : Legacy, effective : Contents]]
         /\ raw' \in [Migrators -> Contents \cup {Nothing}]
<1>1. \A k \in Migrators \ {m} : step[k] = "idle"
  BY DEF CMTypeOK
<1> QED BY <1>1 DEF Leave, CMTypeOK

\* A migration that dies or gives up before its rename, undisturbed, can be run again.
LEMMA LeavesRunnable ==
  ASSUME CMInv, NEW m \in Migrators, step[m] # "idle", Leave(m), UNCHANGED <<file, accepted>>
  PROVE  RerunAccepted'
<1> SUFFICES ASSUME accepted # Nothing
             PROVE  accepted \in Selected(accepted) /\ Plannable(accepted)
  <2>1. Selected(accepted)' = Selected(accepted)' /\ accepted' = accepted
    OBVIOUS
  <2> QED BY <2>1 DEF RerunAccepted, Selected, Plannable, Finished, Completed, Exists
<1>1. holder = m /\ m # Nothing
  BY ConfigAssumption DEF CMInv, CMTypeOK
<1>2. calm[m] /\ plan[m].source = accepted
  BY <1>1 DEF CMInv, AcceptedHeld
<1>3. accepted \in Legacy /\ Validates(file[accepted]) /\ ~Exists(Backup[accepted])
      /\ \A n \in Sources : Exists(n) => file[n] = file[accepted]
  BY <1>2 DEF CMInv, CalmPlans
<1>4. Exists(accepted)
  BY <1>3, ValidIsFile DEF Exists
<1> QED BY <1>3, <1>4 DEF Selected, Plannable

\* Giving up keeps the invariant.
LEMMA LeaveStep ==
  ASSUME CMInv, NEW m \in Migrators, step[m] # "idle", Leave(m),
         UNCHANGED <<file, accepted, calm>>
  PROVE  CMInv'
<1>1. CMTypeOK' /\ holder' = Nothing /\ \A k \in Migrators : step'[k] = "idle"
  BY LeaveType, ConfigAssumption DEF CMInv, CMTypeOK
<1>2. CalmPlans' /\ AcceptedHeld'
  BY <1>1 DEF CalmPlans, AcceptedHeld
<1> QED BY <1>1, <1>2, LeavesRunnable DEF CMInv

\* What an undisturbed plan says of the files, at a glance.
LEMMA CalmPlan ==
  ASSUME CMInv, NEW m \in Migrators, step[m] # "idle", calm[m],
         NEW s, NEW e, s = plan[m].source, e = plan[m].effective
  PROVE  /\ s \in Legacy /\ file[s] = e /\ Validates(e) /\ e # Nothing /\ ~Exists(Backup[s])
         /\ \A n \in Sources : Exists(n) => file[n] = e
         /\ step[m] = "install" => raw[m] = IF Exists(Canonical) THEN Nothing ELSE e
         /\ step[m] \in {"recheck", "rename"} => file[Canonical] = e
         /\ Resolve(file) = e
<1>1. /\ s \in Legacy /\ file[s] = e /\ Validates(e) /\ ~Exists(Backup[s])
      /\ \A n \in Sources : Exists(n) => file[n] = e
      /\ step[m] = "install" => raw[m] = IF Exists(Canonical) THEN Nothing ELSE e
      /\ step[m] \in {"recheck", "rename"} => file[Canonical] = e
  BY DEF CMInv, CalmPlans
<1>2. s \in Sources
  BY <1>1, PolicyNames
<1>3. Resolve(file) = e
  BY <1>1, <1>2, ResolvesTo DEF Exists
<1> QED BY <1>1, <1>3, ValidIsFile

\* The steps of one migration, each with what it does to the invariant and, when
\* no edit disturbed it, to the policy that is resolved.
LEMMA PlanStep ==
  ASSUME CMInv, NEW m \in Migrators, NEW requested \in Legacy \cup {Nothing},
         Plan(m, requested)
  PROVE  CMInv'
<1>1. PICK s \in Selected(requested) :
         /\ Plannable(s) /\ accepted' = s
         /\ plan' = [plan EXCEPT ![m] = [source |-> s, effective |-> file[s]]]
  BY DEF Plan
<1>2. s \in Legacy /\ Exists(s) /\ file[s] \in Contents /\ Validates(file[s])
  BY <1>1, ValidIsFile DEF Selected, Plannable
<1>3. /\ holder = Nothing /\ holder' = m /\ step[m] = "idle" /\ m # Nothing
      /\ step' = [step EXCEPT ![m] = "read"] /\ calm' = [calm EXCEPT ![m] = TRUE]
      /\ file' = file /\ raw' = raw
      /\ \A k \in Migrators : step[k] = "idle"
  BY ConfigAssumption DEF Plan, CMInv, CMTypeOK
<1>4. plan'[m] = [source |-> s, effective |-> file[s]] /\ step'[m] = "read" /\ calm'[m]
      /\ \A k \in Migrators \ {m} : step'[k] = "idle"
  BY <1>1, <1>3 DEF CMInv, CMTypeOK
<1>5. plan' \in [Migrators -> {Nothing} \cup [source : Legacy, effective : Contents]]
  BY <1>1, <1>2 DEF CMInv, CMTypeOK
<1>6. CMTypeOK' /\ calm' \in [Migrators -> BOOLEAN]
  <2>1. \A k \in Migrators :
           /\ step'[k] # "idle" <=> holder' = k
           /\ step'[k] # "idle" => plan'[k] \in [source : Legacy, effective : Contents]
    BY <1>2, <1>3, <1>4
  <2>2. step' \in [Migrators -> {"idle", "read", "install", "recheck", "rename"}]
        /\ calm' \in [Migrators -> BOOLEAN]
    BY <1>3 DEF CMInv, CMTypeOK
  <2> QED BY <1>3, <1>5, <2>1, <2>2 DEF CMInv, CMTypeOK
<1>7. CalmPlans'
  BY <1>1, <1>2, <1>3, <1>4 DEF CalmPlans, Plannable, Exists
<1>8. AcceptedHeld' /\ RerunAccepted'
  BY <1>1, <1>3, <1>4 DEF AcceptedHeld, RerunAccepted
<1> QED BY <1>6, <1>7, <1>8 DEF CMInv

LEMMA ReadStep ==
  ASSUME CMInv, NEW m \in Migrators, ReadSource(m)
  PROVE  CMInv' /\ Resolve(file') = Resolve(file)
<1>1. step[m] = "read" /\ UNCHANGED <<file, accepted, calm>>
  BY DEF ReadSource
<1>2. CASE Leave(m)
  BY <1>1, <1>2, LeaveStep
<1>3. ASSUME /\ Exists(plan[m].source)
             /\ raw' = [raw EXCEPT ![m] =
                          IF Exists(Canonical) THEN Nothing ELSE file[plan[m].source]]
             /\ step' = [step EXCEPT ![m] = "install"]
             /\ UNCHANGED <<holder, plan>>
      PROVE  CMInv'
  <2>1. holder = m /\ \A k \in Migrators \ {m} : step[k] = "idle"
    BY <1>1 DEF CMInv, CMTypeOK
  <2>2. plan[m].source \in Legacy
    BY <1>1, <1>3 DEF CMInv, CMTypeOK
  <2>3. raw'[m] \in Contents \cup {Nothing}
    BY <1>3, <2>2, PolicyNames DEF CMInv, CMTypeOK
  <2>4. CMTypeOK'
    BY <1>1, <1>3, <2>1, <2>3 DEF CMInv, CMTypeOK
  <2>5. CalmPlans'
    <3>1. step'[m] = "install" /\ \A k \in Migrators \ {m} : step'[k] = "idle"
      BY <1>3, <2>1 DEF CMInv, CMTypeOK
    <3>2. raw'[m] = IF Exists(Canonical) THEN Nothing ELSE file[plan[m].source]
      BY <1>3 DEF CMInv, CMTypeOK
    <3> QED BY <1>1, <1>3, <3>1, <3>2 DEF CMInv, CalmPlans, Exists
  <2>6. AcceptedHeld' /\ RerunAccepted'
    BY <1>1, <1>3, <2>1, ConfigAssumption DEF CMInv, AcceptedHeld, RerunAccepted
  <2> QED BY <1>1, <2>4, <2>5, <2>6 DEF CMInv
<1> QED BY <1>1, <1>2, <1>3 DEF ReadSource

\* The canonical file is written with the policy that was planned, so the sources
\* agree before and after.
LEMMA InstallStep ==
  ASSUME CMInv, NEW m \in Migrators, Install(m)
  PROVE  CMInv' /\ (calm[m] => Resolve(file') = Resolve(file))
<1>1. step[m] = "install" /\ UNCHANGED <<accepted, calm>>
  BY DEF Install
<1>2. ASSUME Leave(m), UNCHANGED file
      PROVE  CMInv' /\ Resolve(file') = Resolve(file)
  BY <1>1, <1>2, LeaveStep
<1>3. ASSUME /\ raw[m] # Nothing => Validates(raw[m])
             /\ file' = IF raw[m] = Nothing THEN file ELSE [file EXCEPT ![Canonical] = raw[m]]
             /\ step' = [step EXCEPT ![m] = "recheck"]
             /\ UNCHANGED <<holder, plan, raw>>
      PROVE  CMInv' /\ (calm[m] => Resolve(file') = Resolve(file))
  <2>1. holder = m /\ m # Nothing /\ \A k \in Migrators \ {m} : step[k] = "idle"
    BY <1>1, ConfigAssumption DEF CMInv, CMTypeOK
  <2>2. step'[m] = "recheck" /\ \A k \in Migrators \ {m} : step'[k] = "idle"
    BY <1>3, <2>1 DEF CMInv, CMTypeOK
  <2>3. file' \in [Names -> Contents \cup {Nothing}]
    BY <1>3, PolicyNames DEF CMInv, CMTypeOK
  <2>4. CMTypeOK'
    BY <1>1, <1>3, <2>1, <2>2, <2>3 DEF CMInv, CMTypeOK
  <2>5. \A n \in Names \ {Canonical} : file'[n] = file[n]
    BY <1>3 DEF CMInv, CMTypeOK
  <2>6. ASSUME calm[m], NEW s, NEW e, s = plan[m].source, e = plan[m].effective
        PROVE  /\ s \in Legacy /\ file'[s] = e /\ Validates(e) /\ e # Nothing
               /\ file'[Backup[s]] = Nothing
               /\ \A n \in Sources : file'[n] # Nothing => file'[n] = e
               /\ file'[Canonical] = e
               /\ Resolve(file') = e /\ Resolve(file) = e
    <3>1. /\ s \in Legacy /\ file[s] = e /\ Validates(e) /\ e # Nothing /\ ~Exists(Backup[s])
          /\ \A n \in Sources : Exists(n) => file[n] = e
          /\ raw[m] = IF Exists(Canonical) THEN Nothing ELSE e
          /\ Resolve(file) = e
      BY <1>1, <2>6, CalmPlan
    <3>2. file'[Canonical] = e
      BY <1>3, <3>1, PolicyNames DEF Exists, CMInv, CMTypeOK
    <3>3. file'[s] = e /\ file'[Backup[s]] = Nothing
      BY <2>5, <3>1, PolicyNames DEF Exists
    <3>4. \A n \in Sources : file'[n] # Nothing => file'[n] = e
      BY <2>5, <3>1, <3>2, PolicyNames DEF Exists
    <3>5. Resolve(file') = e
      BY <3>1, <3>2, <3>4, PolicyNames, ResolvesTo
    <3> QED BY <3>1, <3>2, <3>3, <3>4, <3>5
  <2>7. CalmPlans'
    BY <1>1, <1>3, <2>2, <2>6 DEF CalmPlans, Exists
  <2>8. AcceptedHeld' /\ RerunAccepted'
    BY <1>1, <1>3, <2>1 DEF CMInv, AcceptedHeld, RerunAccepted
  <2> QED BY <1>1, <2>4, <2>6, <2>7, <2>8 DEF CMInv
<1> QED BY <1>2, <1>3 DEF Install

LEMMA RecheckStep ==
  ASSUME CMInv, NEW m \in Migrators, Recheck(m)
  PROVE  CMInv' /\ Resolve(file') = Resolve(file)
<1>1. step[m] = "recheck" /\ UNCHANGED <<file, accepted, calm>>
  BY DEF Recheck
<1>2. CASE Leave(m)
  BY <1>1, <1>2, LeaveStep
<1>3. ASSUME step' = [step EXCEPT ![m] = "rename"], UNCHANGED <<holder, plan, raw>>
      PROVE  CMInv'
  <2>1. holder = m /\ m # Nothing /\ \A k \in Migrators \ {m} : step[k] = "idle"
    BY <1>1, ConfigAssumption DEF CMInv, CMTypeOK
  <2>2. step'[m] = "rename" /\ \A k \in Migrators \ {m} : step'[k] = "idle"
    BY <1>3, <2>1 DEF CMInv, CMTypeOK
  <2>3. CMTypeOK'
    BY <1>1, <1>3, <2>1, <2>2 DEF CMInv, CMTypeOK
  <2>4. CalmPlans'
    BY <1>1, <1>3, <2>2 DEF CMInv, CalmPlans, Exists
  <2>5. AcceptedHeld' /\ RerunAccepted'
    BY <1>1, <1>3, <2>1 DEF CMInv, AcceptedHeld, RerunAccepted
  <2> QED BY <1>1, <2>3, <2>4, <2>5 DEF CMInv
<1> QED BY <1>1, <1>2, <1>3 DEF Recheck

\* The rename: the canonical file alone says the policy now, the backup agrees.
LEMMA PreserveStep ==
  ASSUME CMInv, NEW m \in Migrators, Preserve(m)
  PROVE  CMInv' /\ (calm[m] => Resolve(file') = Resolve(file))
<1> DEFINE s == plan[m].source
           e == plan[m].effective
<1>1. /\ step[m] = "rename" /\ Leave(m) /\ UNCHANGED <<accepted, calm>>
      /\ file' = IF Exists(s) THEN [file EXCEPT ![Backup[s]] = file[s], ![s] = Nothing]
                              ELSE file
  BY DEF Preserve
<1>2. holder = m /\ m # Nothing /\ holder' = Nothing /\ \A k \in Migrators : step'[k] = "idle"
  BY <1>1, LeaveType, ConfigAssumption DEF CMInv, CMTypeOK
<1>3. s \in Legacy /\ s \in Names /\ Backup[s] \in Names /\ Backup[s] \notin Sources
  BY <1>1, PolicyNames DEF CMInv, CMTypeOK
<1>4. file' \in [Names -> Contents \cup {Nothing}]
  BY <1>1, <1>3 DEF CMInv, CMTypeOK
<1>5. CMTypeOK'
  BY <1>1, <1>2, <1>4, LeaveType, ConfigAssumption DEF CMInv, CMTypeOK
<1>6. CalmPlans' /\ AcceptedHeld'
  BY <1>2 DEF CalmPlans, AcceptedHeld
<1>7. ASSUME calm[m]
      PROVE  /\ Resolve(file') = Resolve(file)
             /\ file'[Canonical] = e /\ file'[Backup[s]] = e /\ file'[s] = Nothing
             /\ e # Nothing /\ Parses(e)
  <2>1. /\ file[s] = e /\ Validates(e) /\ e # Nothing
        /\ \A n \in Sources : Exists(n) => file[n] = e
        /\ file[Canonical] = e /\ Resolve(file) = e
    BY <1>1, <1>7, CalmPlan
  <2>2. file' = [file EXCEPT ![Backup[s]] = e, ![s] = Nothing]
    BY <1>1, <2>1 DEF Exists
  <2>3. file'[Backup[s]] = e /\ file'[s] = Nothing
        /\ \A n \in Sources \ {s} : file'[n] = file[n]
    BY <1>3, <2>2, PolicyNames DEF CMInv, CMTypeOK
  <2>4. file'[Canonical] = e
    BY <1>3, <2>1, <2>3, PolicyNames
  <2>5. \A n \in Sources : file'[n] # Nothing => file'[n] = e
    BY <2>1, <2>3 DEF Exists
  <2>6. Resolve(file') = e
    BY <2>1, <2>4, <2>5, PolicyNames, ResolvesTo
  <2> QED BY <2>1, <2>3, <2>4, <2>6, ValidIsFile
<1>8. RerunAccepted'
  <2>1. ASSUME accepted # Nothing
        PROVE  (~Exists(accepted) /\ Completed(accepted))'
    <3>1. calm[m] /\ s = accepted
      BY <1>1, <1>2, <2>1 DEF CMInv, AcceptedHeld
    <3>2. file'[Canonical] = e /\ file'[Backup[accepted]] = e /\ file'[accepted] = Nothing
          /\ e # Nothing /\ Parses(e)
      BY <1>7, <3>1
    <3> HIDE DEF s, e
    <3> QED BY <1>1, <3>2 DEF Completed, Exists
  <2> QED BY <1>1, <2>1 DEF RerunAccepted, Finished
<1> QED BY <1>1, <1>5, <1>6, <1>7, <1>8 DEF CMInv

LEMMA CrashStep ==
  ASSUME CMInv, NEW m \in Migrators, Crash(m)
  PROVE  CMInv'
BY LeaveStep DEF Crash

\* An edit, or the template of `specd init`, disturbs every migration under way.
LEMMA DisturbStep ==
  ASSUME CMInv, accepted' = Nothing, calm' = [m \in Migrators |-> FALSE],
         UNCHANGED proc, file' \in [Names -> Contents \cup {Nothing}]
  PROVE  CMInv'
BY DEF CMInv, CMTypeOK, CalmPlans, AcceptedHeld, RerunAccepted, proc

LEMMA EditStep ==
  ASSUME CMInv, NEW n \in Sources, NEW c \in Contents \cup {Nothing}, EditPolicy(n, c)
  PROVE  CMInv'
<1>1. file' \in [Names -> Contents \cup {Nothing}]
  BY PolicyNames DEF EditPolicy, CMInv, CMTypeOK
<1> QED BY <1>1, DisturbStep DEF EditPolicy

LEMMA ScaffoldStep ==
  ASSUME CMInv, Scaffold
  PROVE  CMInv'
<1>1. "default" \in Contents
  BY DEF Contents, Profiles
<1>2. file' \in [Names -> Contents \cup {Nothing}]
  BY <1>1, PolicyNames DEF Scaffold, CMInv, CMTypeOK
<1> QED BY <1>2, DisturbStep DEF Scaffold

LEMMA CMQuiet ==
  ASSUME CMInv, UNCHANGED <<file, holder, step, plan, raw, accepted, calm>>
  PROVE  CMInv'
BY DEF CMInv, CMTypeOK, CalmPlans, AcceptedHeld, RerunAccepted, Exists, Selected,
       Plannable, Finished, Completed

LEMMA CMStep == CMInv /\ [CMNext]_cmvars => CMInv'
<1> SUFFICES ASSUME CMInv, [CMNext]_cmvars PROVE CMInv'
  OBVIOUS
<1>1. ASSUME NEW m \in Migrators, NEW requested \in Legacy \cup {Nothing}, Plan(m, requested)
      PROVE  CMInv'
  BY <1>1, PlanStep
<1>2. ASSUME NEW m \in Migrators, Migrating(m) PROVE CMInv'
  BY <1>2, ReadStep, InstallStep, RecheckStep, PreserveStep DEF Migrating
<1>3. ASSUME NEW m \in Migrators, Crash(m) PROVE CMInv'
  BY <1>3, CrashStep
<1>4. CASE FindNone
  BY <1>4, CMQuiet DEF FindNone, proc
<1>5. CASE Scaffold
  BY <1>5, ScaffoldStep
<1>6. ASSUME NEW n \in Sources, NEW c \in Contents \cup {Nothing}, EditPolicy(n, c)
      PROVE  CMInv'
  BY <1>6, EditStep
<1>7. CASE UNCHANGED cmvars
  BY <1>7, CMQuiet DEF cmvars, proc
<1> QED BY <1>1, <1>2, <1>3, <1>4, <1>5, <1>6, <1>7 DEF CMNext

LEMMA CMStart == CMInit => CMInv
BY ConfigAssumption DEF CMInit, CMInv, CMTypeOK, CalmPlans, AcceptedHeld, RerunAccepted

\* The inductive invariant of config migrate: whichever migrations die where, and
\* whoever edits when.
THEOREM MigrateSafety == CMSpec => []CMInv
BY CMStart, CMStep, PTL DEF CMSpec

\* Types, and the spec lock held by exactly the migration that is running
\* (config_migrate.go MigrateConfig).
THEOREM MigrateTypes == CMSpec => []CMTypeOK
<1>1. CMInv => CMTypeOK
  BY DEF CMInv
<1> QED BY <1>1, MigrateSafety, PTL

\* However many processes migrate and wherever one dies, the same command accepts
\* the project again unless somebody edited a policy (docs/upgrade.md:15-16).
THEOREM MigrateRerun == CMSpec => []RerunAccepted
<1>1. CMInv => RerunAccepted
  BY DEF CMInv
<1> QED BY <1>1, MigrateSafety, PTL

\* No step of an undisturbed migration changes the policy `config show` resolves.
THEOREM MigratePreserves == CMSpec => PolicyPreserved
<1>1. ASSUME CMInv, NEW m \in Migrators, Migrating(m), calm[m]
      PROVE  Resolve(file') = Resolve(file)
  BY <1>1, ReadStep, InstallStep, RecheckStep, PreserveStep DEF Migrating
<1>2. CMInv => \A m \in Migrators :
                 Migrating(m) /\ calm[m] => Resolve(file') = Resolve(file)
  BY <1>1
<1> QED BY <1>2, MigrateSafety, PTL DEF PolicyPreserved

-----------------------------------------------------------------------------
(* One run of verify *)

\* What a git patch of the tree t says, and the tree where nothing is unstaged.
PatchOf(t) == [f \in {g \in Files : t[g] # {}} |-> t[f]]
Clean == [f \in Files |-> {}]

\* Within the budget, every chunk written is in a pipe or in a buffer.
Accounted == ~exceeded => got["out"] + got["err"] + pipe["out"] + pipe["err"] = written

\* Before the command starts nobody writes, the pipes are empty, and the tree is the
\* first one.
NotStarted == pc = "before" => Drained /\ worktree = start

\* Once cmd.Run has returned, nobody writes and the pipes stay empty.
Ended == pc \notin {"before", "run"} => Drained

\* Exit 0 means a shell that passed, before the deadline and within the budget.
Earned == pc \notin {"before", "run"} /\ exit = 0 => shell = "passed" /\ ~late /\ ~exceeded

\* The patch of the operator's work, and, if no neighbour wrote, the patch of what
\* is to be taken away and the tree without it.
Reverting ==
    /\ pc # "before" /\ opts.revert => before = PatchOf(start)
    /\ pc = "unapply" /\ alone => after = PatchOf(worktree)
    /\ pc = "reapply" /\ alone => worktree = Clean
    /\ pc \in {"after", "unapply", "reapply"} => opts.revert

VXInv == /\ VXTypeOK /\ Accounted /\ NotStarted /\ Ended /\ Earned /\ Reverting
         /\ RevertRestores

\* A patch of a tree is a patch.
LEMMA PatchType ==
  ASSUME NEW t \in [Files -> SUBSET Editors]
  PROVE  PatchOf(t) \in Patch /\ NoPatch \in Patch
<1>1. PatchOf(t) \in [{g \in Files : t[g] # {}} -> SUBSET Editors]
  BY DEF PatchOf
<1>2. NoPatch \in [{} -> SUBSET Editors]
  BY DEF NoPatch
<1> QED BY <1>1, <1>2 DEF Patch

\* git apply gives a tree.
LEMMA PatchedType ==
  ASSUME NEW t \in [Files -> SUBSET Editors], NEW p \in Patch, NEW r \in BOOLEAN
  PROVE  Patched(t, p, r) \in [Files -> SUBSET Editors]
<1>1. PICK S \in SUBSET Files : p \in [S -> SUBSET Editors]
  BY DEF Patch
<1>2. \A f \in DOMAIN p : p[f] \in SUBSET Editors
  BY <1>1
<1> QED BY <1>2 DEF Patched

\* A patch taken from a tree and applied in reverse cleans it; applied to the clean
\* tree it gives the tree back.
LEMMA PatchUndone ==
  ASSUME NEW t \in [Files -> SUBSET Editors]
  PROVE  Patched(t, PatchOf(t), TRUE) = Clean /\ Patched(Clean, PatchOf(t), FALSE) = t
BY DEF Patched, PatchOf, Clean

\* A chunk counted at one of the two streams.
LEMMA Moved ==
  ASSUME NEW p \in [Streams -> Nat], NEW s \in Streams, NEW d \in Int
  PROVE  LET q == [p EXCEPT ![s] = @ + d]
         IN  q["out"] + q["err"] = p["out"] + p["err"] + d
BY DEF Streams

LEMMA VXStart == VXInit => VXInv
<1> SUFFICES ASSUME VXInit PROVE VXInv
  OBVIOUS
<1>1. worktree \in [Files -> SUBSET Editors] /\ start \in [Files -> SUBSET Editors]
  BY DEF VXInit, Editors
<1>2. before \in Patch /\ after \in Patch
  BY <1>1, PatchType DEF VXInit
<1>3. pipe \in [Streams -> 0..PipeSize] /\ got \in [Streams -> Nat] /\ left \in 0..Limit
      /\ written \in 0..MaxWritten /\ treeEdits \in 0..MaxTreeEdits
  BY BoundsAssumption DEF VXInit
<1>4. VXTypeOK
  BY <1>1, <1>2, <1>3 DEF VXInit, VXTypeOK, ShellStates
<1>5. Accounted
  BY DEF VXInit, Accounted, Streams
<1> QED BY <1>4, <1>5 DEF VXInit, VXInv, NotStarted, Ended, Earned, Reverting,
                          RevertRestores, Alive, Drained

\* What every part of the invariant but the types and the account depends on.
LEMMA VXQuiet ==
  ASSUME VXInv, UNCHANGED <<opts, pc, late, exit, worktree, before, after, alone, start>>,
         (pc = "run" /\ shell = "running") \/ UNCHANGED shell,
         (pc = "run" /\ shell = "running") \/ helper' \in {helper, FALSE},
         pc = "run" \/ UNCHANGED <<pipe, exceeded>>
  PROVE  NotStarted' /\ Ended' /\ Earned' /\ Reverting' /\ RevertRestores'
<1>1. NotStarted'
  BY DEF VXInv, NotStarted, Drained, Alive, VXTypeOK
<1>2. Ended'
  BY DEF VXInv, Ended, Drained, Alive, VXTypeOK
<1>3. Earned'
  BY DEF VXInv, Earned
<1>4. Reverting' /\ RevertRestores'
  BY DEF VXInv, Reverting, RevertRestores, PatchOf, Clean
<1> QED BY <1>1, <1>2, <1>3, <1>4

\* Somebody who can write means that cmd.Run has not returned.
LEMMA AliveRuns == VXInv /\ Alive => pc = "run"
BY DEF VXInv, VXTypeOK, NotStarted, Ended, Drained

LEMMA WriteStep ==
  ASSUME VXInv, NEW s \in Streams, Write(s)
  PROVE  VXInv'
<1>1. pc = "run"
  BY AliveRuns DEF Write
<1>2. VXTypeOK'
  BY BoundsAssumption DEF Write, work, patches, VXInv, VXTypeOK
<1>3. Accounted'
  <2>1. pipe \in [Streams -> Nat] /\ got \in [Streams -> Nat] /\ written \in Nat
    BY BoundsAssumption DEF VXInv, VXTypeOK
  <2>2. pipe'["out"] + pipe'["err"] = pipe["out"] + pipe["err"] + 1
    BY <2>1, Moved DEF Write
  <2>3. \A t \in Streams : pipe'[t] \in Nat /\ pipe[t] \in Nat /\ got[t] \in Nat
    BY <2>1, <1>2, BoundsAssumption DEF VXTypeOK
  <2>4. "out" \in Streams /\ "err" \in Streams
    BY DEF Streams
  <2> QED BY <2>1, <2>2, <2>3, <2>4 DEF Write, VXInv, Accounted
<1> QED BY <1>1, <1>2, <1>3, VXQuiet DEF Write, work, patches, VXInv

LEMMA CopyStep ==
  ASSUME VXInv, NEW s \in Streams, Copy(s)
  PROVE  VXInv'
<1>1. PICK n \in 1..pipe[s] :
         LET kept == IF Limit > 0 /\ n > left THEN left ELSE n
         IN  /\ pipe' = [pipe EXCEPT ![s] = @ - n]
             /\ got' = [got EXCEPT ![s] = @ + kept]
             /\ left' = IF Limit > 0 THEN left - kept ELSE left
             /\ exceeded' = (exceeded \/ kept < n)
             /\ UNCHANGED <<opts, pc, shell, helper, written, late, exit, work, patches, start>>
  BY DEF Copy
<1> DEFINE kept == IF Limit > 0 /\ n > left THEN left ELSE n
<1>2. pipe \in [Streams -> 0..PipeSize] /\ got \in [Streams -> Nat] /\ written \in Nat
      /\ left \in 0..Limit /\ Limit \in Nat /\ PipeSize \in Nat
  BY BoundsAssumption DEF VXInv, VXTypeOK
<1>3. n \in Nat /\ n > 0 /\ n <= pipe[s] /\ kept \in Nat /\ kept <= n
      /\ (Limit > 0 => kept <= left)
  BY <1>2
<1>4. pc = "run"
  <2>1. pipe[s] # 0
    BY <1>2, <1>3
  <2> QED BY <2>1 DEF VXInv, NotStarted, Ended, Drained
<1>5. VXTypeOK'
  <2>1. pipe' \in [Streams -> 0..PipeSize] /\ got' \in [Streams -> Nat] /\ left' \in 0..Limit
        /\ exceeded' \in BOOLEAN
    BY <1>1, <1>2, <1>3 DEF VXInv, VXTypeOK
  <2> QED BY <1>1, <2>1 DEF VXInv, VXTypeOK, work, patches
<1>6. Accounted'
  <2>1. SUFFICES ASSUME ~exceeded'
                 PROVE  got'["out"] + got'["err"] + pipe'["out"] + pipe'["err"] = written'
    BY DEF Accounted
  <2>2. ~exceeded /\ kept = n
    BY <1>1, <1>3, <2>1
  <2>3. got["out"] + got["err"] + pipe["out"] + pipe["err"] = written
    BY <2>2 DEF VXInv, Accounted
  <2>4. pipe \in [Streams -> Nat] /\ pipe' = [pipe EXCEPT ![s] = @ + (-n)]
    <3>1. pipe \in [Streams -> Nat] /\ pipe' = [pipe EXCEPT ![s] = @ - n] /\ pipe[s] \in Nat
      BY <1>1, <1>2
    <3>2. pipe[s] - n = pipe[s] + (-n)
      BY <1>3, <3>1
    <3> QED BY <3>1, <3>2
  <2>5. got' = [got EXCEPT ![s] = @ + n]
    BY <1>1, <2>2
  <2>6. pipe'["out"] + pipe'["err"] = pipe["out"] + pipe["err"] + (-n)
    BY <1>3, <2>4, Moved
  <2>7. got'["out"] + got'["err"] = got["out"] + got["err"] + n
    BY <1>2, <1>3, <2>5, Moved
  <2>8. \A t \in Streams : pipe[t] \in Int /\ got[t] \in Int /\ pipe'[t] \in Int /\ got'[t] \in Int
    BY <1>2, <1>5 DEF VXTypeOK
  <2>9. "out" \in Streams /\ "err" \in Streams /\ written' = written
    BY <1>1 DEF Streams
  <2> QED BY <1>3, <2>3, <2>6, <2>7, <2>8, <2>9
<1> QED BY <1>1, <1>4, <1>5, <1>6, VXQuiet DEF VXInv, work, patches

\* The steps that only move processes: they end, fork, are killed or reaped.
LEMMA ProcessStep ==
  ASSUME VXInv,
         \/ Fork \/ HelperEnds \/ Kill \/ Reap
         \/ \E how \in {"passed", "empty", "failed"} : ShellEnds(how)
  PROVE  VXInv'
<1>1. UNCHANGED <<opts, pc, pipe, got, left, exceeded, written, late, exit, worktree,
                  treeEdits, alone, before, after, start>>
      /\ shell' \in ShellStates /\ helper' \in BOOLEAN
  BY DEF Fork, HelperEnds, Kill, Reap, ShellEnds, work, patches, VXInv, VXTypeOK, ShellStates
<1>2. VXTypeOK' /\ Accounted'
  BY <1>1 DEF VXInv, VXTypeOK, Accounted, Patch, Streams
<1>3. shell = "running" => pc = "run"
  BY AliveRuns DEF Alive
<1>4. /\ (pc = "run" /\ shell = "running") \/ shell' = shell
      /\ (pc = "run" /\ shell = "running") \/ helper' \in {helper, FALSE}
  BY <1>3 DEF Fork, HelperEnds, Kill, Reap, ShellEnds
<1> QED BY <1>1, <1>2, <1>4, VXQuiet DEF VXInv

LEMMA TreeStep ==
  ASSUME VXInv, NEW f \in Files, CommandEdits(f) \/ NeighbourEdits(f)
  PROVE  VXInv'
<1>1. PICK who \in {"command", "neighbour"}, c \in SUBSET Editors :
        /\ EditFile(who, f, c)
        /\ who = "command" => Alive
        /\ who = "neighbour" => pc \notin {"before", "done"}
  <2>1. worktree[f] \in SUBSET Editors
    BY DEF VXInv, VXTypeOK
  <2>2. worktree[f] \cup {"command"} \in SUBSET Editors
        /\ worktree[f] \cup {"neighbour"} \in SUBSET Editors /\ {} \in SUBSET Editors
    BY <2>1 DEF Editors
  <2> QED BY <2>2 DEF CommandEdits, NeighbourEdits
<1>2. who = "command" => pc = "run"
  BY <1>1, AliveRuns
<1>3. worktree' \in [Files -> SUBSET Editors] /\ treeEdits' \in 0..MaxTreeEdits
      /\ alone' \in BOOLEAN
  BY <1>1, BoundsAssumption DEF EditFile, VXInv, VXTypeOK
<1>4. UNCHANGED <<opts, pc, shell, helper, pipe, got, left, exceeded, written, late, exit,
                  before, after, start>>
  BY <1>1 DEF EditFile, exec, patches
<1>5. VXTypeOK' /\ Accounted'
  BY <1>3, <1>4 DEF VXInv, VXTypeOK, Accounted
<1>6. pc \notin {"before", "done"} /\ (pc = "run" \/ alone' = FALSE)
  BY <1>1, <1>2 DEF EditFile
<1>7. NotStarted' /\ Ended' /\ Earned'
  BY <1>4, <1>6 DEF VXInv, NotStarted, Ended, Drained, Alive, Earned
<1>8. Reverting' /\ RevertRestores'
  BY <1>4, <1>6 DEF VXInv, Reverting, RevertRestores, PatchOf
<1> QED BY <1>5, <1>7, <1>8 DEF VXInv

LEMMA DeadlineStep == ASSUME VXInv, Deadline PROVE VXInv'
BY DEF Deadline, exec, work, patches, VXInv, VXTypeOK, Accounted, NotStarted, Ended, Drained,
       Alive, Earned, Reverting, RevertRestores, PatchOf, Clean

LEMMA BeginStep ==
  ASSUME VXInv, Begin
  PROVE  VXInv'
<1>1. worktree = start /\ worktree \in [Files -> SUBSET Editors] /\ pc = "before"
  BY DEF Begin, VXInv, VXTypeOK, NotStarted
<1>2. before' \in Patch /\ (opts.revert => before' = PatchOf(start))
  BY <1>1, PatchType DEF Begin, GitDiff, PatchOf
<1>3. VXTypeOK' /\ Accounted'
  BY <1>2 DEF Begin, work, VXInv, VXTypeOK, Accounted, ShellStates
<1>4. Reverting'
  BY <1>2 DEF Begin, Reverting, PatchOf
<1> QED BY <1>3, <1>4 DEF Begin, VXInv, NotStarted, Ended, Earned, RevertRestores

LEMMA ReturnStep ==
  ASSUME VXInv, Return
  PROVE  VXInv'
<1>1. /\ pc = "run" /\ Drained /\ exit' = Classified
      /\ pc' = IF opts.revert /\ exit' # 0 THEN "after" ELSE "done"
      /\ UNCHANGED <<opts, shell, helper, pipe, got, left, exceeded, written, late, worktree,
                     treeEdits, alone, before, after, start>>
  BY DEF Return, exec, work, patches
<1>2. exit' \in {0, 1, TimeoutExitCode, LimitExitCode, NoTestsExitCode}
      /\ (exit' = 0 => shell = "passed" /\ ~late /\ ~exceeded)
  BY <1>1 DEF Classified, Cancelled, TimeoutExitCode, LimitExitCode, NoTestsExitCode
<1>3. VXTypeOK' /\ Accounted'
  BY <1>1, <1>2 DEF VXInv, VXTypeOK, Accounted
<1>4. NotStarted' /\ Ended' /\ Earned'
  BY <1>1, <1>2 DEF NotStarted, Ended, Drained, Alive, Earned
<1>5. Reverting' /\ RevertRestores'
  BY <1>1 DEF VXInv, Reverting, RevertRestores, PatchOf
<1> QED BY <1>3, <1>4, <1>5 DEF VXInv

\* withRevertOnFail, step by step: the patch fits the tree it was taken from, so the
\* tree is cleaned; and the first patch fits the clean tree.
LEMMA RevertStep ==
  ASSUME VXInv, TakeAfter \/ Unapply \/ Reapply
  PROVE  VXInv'
<1>1. UNCHANGED <<opts, shell, helper, pipe, got, left, exceeded, written, late, exit,
                  treeEdits, alone, before, start>>
      /\ pc \in {"after", "unapply", "reapply"} /\ opts.revert
      /\ pc' \in {"unapply", "reapply", "done"}
  BY DEF TakeAfter, Unapply, Reapply, exec, work, patches, VXInv, Reverting
<1>2. worktree \in [Files -> SUBSET Editors] /\ before \in Patch /\ after \in Patch
      /\ start \in [Files -> SUBSET Editors]
  BY DEF VXInv, VXTypeOK
<1>3. worktree' \in [Files -> SUBSET Editors] /\ after' \in Patch
  BY <1>2, PatchType, PatchedType DEF TakeAfter, Unapply, Reapply, work, patches, GitDiff, PatchOf
<1>4. VXTypeOK' /\ Accounted'
  BY <1>1, <1>3 DEF VXInv, VXTypeOK, Accounted
<1>5. NotStarted' /\ Ended' /\ Earned'
  BY <1>1 DEF VXInv, NotStarted, Ended, Drained, Alive, Earned
<1>6. before = PatchOf(start)
  BY <1>1 DEF VXInv, Reverting
<1>7. CASE TakeAfter
  <2>1. pc' = "unapply" /\ after' = PatchOf(worktree) /\ worktree' = worktree
    BY <1>7 DEF TakeAfter, GitDiff, PatchOf, work
  <2>2. Reverting' /\ RevertRestores'
    BY <1>1, <1>6, <2>1 DEF Reverting, RevertRestores, PatchOf
  <2> QED BY <1>4, <1>5, <2>2 DEF VXInv
<1>8. CASE Unapply
  <2>1. pc = "unapply" /\ pc' = "reapply" /\ worktree' = Patched(worktree, after, TRUE)
    BY <1>8 DEF Unapply
  <2>2. alone => worktree' = Clean
    <3>1. alone => after = PatchOf(worktree)
      BY <2>1 DEF VXInv, Reverting
    <3> QED BY <1>2, <2>1, <3>1, PatchUndone
  <2>3. Reverting' /\ RevertRestores'
    BY <1>1, <1>6, <2>1, <2>2 DEF Reverting, RevertRestores, PatchOf, Clean
  <2> QED BY <1>4, <1>5, <2>3 DEF VXInv
<1>9. CASE Reapply
  <2>1. pc = "reapply" /\ pc' = "done" /\ worktree' = Patched(worktree, before, FALSE)
    BY <1>9 DEF Reapply
  <2>2. alone => worktree' = start
    <3>1. alone => worktree = Clean
      BY <2>1 DEF VXInv, Reverting
    <3> QED BY <1>2, <1>6, <2>1, <3>1, PatchUndone
  <2>3. Reverting' /\ RevertRestores'
    BY <1>1, <1>6, <2>1, <2>2 DEF Reverting, RevertRestores, PatchOf
  <2> QED BY <1>4, <1>5, <2>3 DEF VXInv
<1> QED BY <1>7, <1>8, <1>9

LEMMA VXStep == VXInv /\ [VXNext]_vxvars => VXInv'
<1> SUFFICES ASSUME VXInv, [VXNext]_vxvars PROVE VXInv'
  OBVIOUS
<1>1. CASE Command
  BY <1>1, WriteStep, ProcessStep, TreeStep DEF Command
<1>2. CASE Run
  BY <1>2, BeginStep, CopyStep, ProcessStep, ReturnStep, RevertStep DEF Run
<1>3. CASE Deadline
  BY <1>3, DeadlineStep
<1>4. ASSUME NEW f \in Files, NeighbourEdits(f) PROVE VXInv'
  BY <1>4, TreeStep
<1>5. CASE UNCHANGED vxvars
  BY <1>5 DEF vxvars, exec, work, patches, VXInv, VXTypeOK, Accounted, NotStarted, Ended,
              Drained, Alive, Earned, Reverting, RevertRestores, PatchOf, Clean
<1> QED BY <1>1, <1>2, <1>3, <1>4, <1>5 DEF VXNext

\* The inductive invariant of a verify: for any files, output budget, pipe and
\* neighbour.
THEOREM VerifySafety == VXSpec => []VXInv
BY VXStart, VXStep, PTL DEF VXSpec

\* Types: no chunk overfills a pipe, the budget never goes below zero, and what
\* git diff says is always a patch of tracked files (core/verify/exec.go).
THEOREM VerifyTypes == VXSpec => []VXTypeOK
<1>1. VXInv => VXTypeOK
  BY DEF VXInv
<1> QED BY <1>1, VerifySafety, PTL

\* A run recorded as passing ended by itself, in time, with all it wrote in the
\* buffers (core/verify/exec.go Run).
THEOREM VerifyEarned == VXSpec => []PassIsEarned
<1>1. VXInv => PassIsEarned
  <2> SUFFICES ASSUME VXInv, pc \notin {"before", "run"}, exit = 0
               PROVE  shell = "passed" /\ ~late /\ ~helper /\ got["out"] + got["err"] = written
    BY DEF PassIsEarned
  <2>1. shell = "passed" /\ ~late /\ ~exceeded /\ ~helper /\ pipe["out"] = 0 /\ pipe["err"] = 0
    BY DEF VXInv, Earned, Ended, Drained, Alive, Streams
  <2>2. got["out"] \in Nat /\ got["err"] \in Nat
    BY DEF VXInv, VXTypeOK, Streams
  <2> QED BY <2>1, <2>2 DEF VXInv, Accounted
<1> QED BY <1>1, VerifySafety, PTL

\* --revert-on-fail puts the operator's tree back, whatever the command did to
\* whichever files (cmd/verify.go withRevertOnFail).
THEOREM VerifyReverts == VXSpec => []RevertRestores
<1>1. VXInv => RevertRestores
  BY DEF VXInv
<1> QED BY <1>1, VerifySafety, PTL

-----------------------------------------------------------------------------
(* The command table *)

\* The verbs of a task, and the row of the table that each has.
LEMMA TaskVerbs ==
  /\ \A c \in Commands : c.task => c.name \in {"complete-task", "verify"}
  /\ \A c \in Commands : c.name \in {"complete-task", "verify"} =>
                            c = Verb(c.name, PostRequirements, 1, FALSE, TRUE)
  /\ \A n \in {"complete-task", "verify"} :
        \E c \in Commands : c.name = n
<1> DEFINE Two == {Verb(n, PostRequirements, 1, FALSE, TRUE) : n \in {"complete-task", "verify"}}
<1>1. \A c \in Commands : c \in Two \/ (~c.task /\ c.name \notin {"complete-task", "verify"})
  <2>1. \A c \in SetupVerbs : ~c.task /\ c.name \notin {"complete-task", "verify"}
    BY DEF SetupVerbs, Plain, Verb
  <2>2. \A c \in RepairVerbs : ~c.task /\ c.name \notin {"complete-task", "verify"}
    BY DEF RepairVerbs, Plain, Verb
  <2>3. \A c \in WorkVerbs : c \in Two \/ (~c.task /\ c.name \notin {"complete-task", "verify"})
    BY DEF WorkVerbs, Plain, Verb
  <2>4. \A c \in HostVerbs : ~c.task /\ c.name \notin {"complete-task", "verify"}
    BY DEF HostVerbs, Plain, Verb
  <2>5. \A c \in CloseVerbs : ~c.task /\ c.name \notin {"complete-task", "verify"}
    BY DEF CloseVerbs, Plain, Verb
  <2> QED BY <2>1, <2>2, <2>3, <2>4, <2>5 DEF Commands
<1>2. Two \subseteq Commands
  BY DEF Commands, WorkVerbs
<1>3. \A c \in Two : c.name \in {"complete-task", "verify"}
                     /\ c = Verb(c.name, PostRequirements, 1, FALSE, TRUE)
  BY DEF Verb
<1>4. ASSUME NEW n \in {"complete-task", "verify"} PROVE \E c \in Two : c.name = n
  <2>1. Verb(n, PostRequirements, 1, FALSE, TRUE).name = n
    BY DEF Verb
  <2> QED BY <2>1
<1> HIDE DEF Two
<1> QED BY <1>1, <1>2, <1>3, <1>4

\* What the dispatcher looks up of the two verbs.
LEMMA WorkVerbRow ==
  ASSUME NEW n \in {"complete-task", "verify"}
  PROVE  /\ CommandByName[n] = Verb(n, PostRequirements, 1, FALSE, TRUE)
         /\ CommandByName[n].slug = 1 /\ "execute" \in CommandByName[n].phases
<1>1. PICK c \in Commands : c.name = n
  BY TaskVerbs
<1>2. CommandByName[n] = CHOOSE d \in Commands : d.name = n
  BY <1>1 DEF CommandByName
<1>3. (CHOOSE d \in Commands : d.name = n) \in Commands
      /\ (CHOOSE d \in Commands : d.name = n).name = n
  BY <1>1
<1>4. CommandByName[n] = Verb(n, PostRequirements, 1, FALSE, TRUE)
  BY <1>2, <1>3, TaskVerbs
<1> QED BY <1>4 DEF Verb, PostRequirements, Phases

\* No agent has an operation of the brain, and its operations of one task are the
\* two that need a packet and write.
LEMMA AgentOps ==
  ASSUME NEW o \in Operations, o.actor = "agent"
  PROVE  /\ o.command # "brain"
         /\ o.task => /\ o.authority /\ o.effect = "write"
                      /\ o.command \in {"complete-task", "verify"}
<1>1. CASE o \in OperationDefinitions
  <2>1. \A cmd, subs, eff : \A d \in Open(cmd, subs, eff) : d.command = cmd /\ d.task = FALSE
    BY DEF Open, Def
  <2>2. \A cmd, subs, act, t : \A d \in Reserved(cmd, subs, act, t) : d.actor = act
    BY DEF Reserved, Def
  <2> DEFINE Fine(d) ==
               \/ d.actor # "agent"
               \/ d.command # "brain" /\ d.task = FALSE
               \/ d.command \in {"complete-task", "verify"} /\ d.effect = "write" /\ d.authority = TRUE
  <2>3. ASSUME NEW d \in NamedOperations PROVE Fine(d)
    <3>1. /\ Fine(Def("complete-task", "", <<"complete-task">>, "agent", "write", TRUE, TRUE))
          /\ Fine(Def("verify", "", <<"verify", "task">>, "agent", "write", TRUE, TRUE))
          /\ Fine(Def("verify", "", <<"verify", "criterion">>, "agent", "write", TRUE, FALSE))
      BY DEF Def
    <3>2. /\ Fine(Def("mode", "", <<"mode", "read">>, "agent", "read", FALSE, FALSE))
          /\ Fine(Def("agents", "", <<"agents", "inspect">>, "agent", "read", FALSE, FALSE))
          /\ Fine(Def("report", "", <<"report", "render">>, "agent", "read", FALSE, FALSE))
          /\ Fine(Def("task", "", <<"task", "show">>, "agent", "read", FALSE, FALSE))
      BY DEF Def
    <3>3. /\ Fine(Def("mode", "", <<"mode", "set">>, "human", "write", TRUE, FALSE))
          /\ Fine(Def("undo", "", <<"undo">>, "operator", "write", TRUE, FALSE))
          /\ Fine(Def("task", "", <<"task", "override">>, "human", "write", TRUE, TRUE))
          /\ Fine(Def("brain", "status", <<"brain", "status">>, "operator", "read", FALSE, FALSE))
      BY DEF Def
    <3> HIDE DEF Fine
    <3> QED BY <3>1, <3>2, <3>3 DEF NamedOperations
  <2> QED BY <1>1, <2>1, <2>2, <2>3 DEF OperationDefinitions
<1>2. ASSUME NEW c \in Commands, \A d \in OperationDefinitions : d.command # c.name,
             o.command = c.name, o.task = c.task
      PROVE  o.command # "brain" /\ ~o.task
  <2>1. Def("complete-task", "", <<"complete-task">>, "agent", "write", TRUE, TRUE)
          \in OperationDefinitions
        /\ Def("verify", "", <<"verify", "task">>, "agent", "write", TRUE, TRUE)
          \in OperationDefinitions
        /\ Def("brain", "status", <<"brain", "status">>, "operator", "read", FALSE, FALSE)
          \in OperationDefinitions
    BY DEF OperationDefinitions, NamedOperations
  <2>2. c.name \notin {"complete-task", "verify", "brain"}
    BY <1>2, <2>1 DEF Def
  <2> QED BY <1>2, <2>2, TaskVerbs
<1>3. ASSUME o \notin OperationDefinitions
      PROVE  \E c \in Commands : /\ \A d \in OperationDefinitions : d.command # c.name
                                 /\ o.command = c.name /\ o.task = c.task
  <2>1. PICK c \in {v \in Commands : \A d \in OperationDefinitions : d.command # v.name} :
          o = Def(c.name, "", <<c.name>>, DefaultOperationActor(c), DefaultOperationEffect(c.name),
                  DefaultAuthorityRequired(c.name), c.task)
    BY <1>3 DEF Operations, BuildOperations
  <2> QED BY <2>1 DEF Def
<1> QED BY <1>1, <1>2, <1>3

-----------------------------------------------------------------------------
(* The dispatcher *)

\* A lease's packet is what a claim builds from its mission, no later than now and no
\* longer than the mission.
PacketsOfMissions ==
    \A l \in leases :
       LET mission == missions[l.mission]
       IN \E issued \in 0..now, expires \in 0..mission.expires :
             l.packet = BuildAuthority(mission.task, mission.row, "execute", mission.head,
                                       issued, expires)

DispatchInv == TypeOK /\ PacketsOfMissions

\* The operations of a task that a worker has as tools.
LEMMA WorkOps ==
  ASSUME NEW op \in WorkOperations
  PROVE  /\ op \in Operations /\ op \in CoreTools /\ op.task /\ op.actor = "agent"
         /\ op.authority /\ op.effect = "write" /\ op.command \in {"complete-task", "verify"}
         /\ ~ForbiddenTool(op.command) /\ Mutable(op)
         /\ \A t : Usage(op, Slug, t) = <<Slug, t>>
<1>1. op \in Operations /\ op \in CoreTools /\ op.task /\ op.actor = "agent"
      /\ ~ForbiddenTool(op.command)
  BY DEF WorkOperations, CoreTools
<1>2. op.authority /\ op.effect = "write" /\ op.command \in {"complete-task", "verify"}
  BY <1>1, AgentOps
<1>3. \A t : Usage(op, Slug, t) = <<Slug, t>>
  BY <1>2 DEF Usage
<1> QED BY <1>1, <1>2, <1>3 DEF Mutable

\* How the dispatcher reads their words: slug first, task second.
LEMMA WorkWords ==
  ASSUME NEW op \in WorkOperations, NEW t
  PROVE  LET words == <<Slug, t>>
         IN  /\ Len(words) = 2 /\ words[1] = Slug /\ words[2] = t
             /\ SlugAt(op, words) /\ words[CommandByName[op.command].slug] = Slug
             /\ "execute" \in AllowedPhases(op)
             /\ op.command \notin {"task", "next", "brain"}
BY WorkOps, WorkVerbRow DEF SlugAt, AllowedPhases

\* A lease is of a mission.
LEMMA MissionType ==
  ASSUME TypeOK, NEW l \in leases
  PROVE  /\ l.mission \in DOMAIN missions
         /\ missions[l.mission] \in [task : Tasks, row : Row, head : 1..Tip, expires : 0..MaxTime]
<1> DEFINE M == [task : Tasks, row : Row, head : 1..Tip, expires : 0..MaxTime]
<1>1. missions \in Seq(M) /\ l.mission \in DOMAIN missions
  BY DEF TypeOK
<1> HIDE DEF M
<1>2. missions[l.mission] \in M
  BY <1>1
<1> QED BY <1>1, <1>2 DEF M

\* A packet of the invariant opened up.
LEMMA PacketFields ==
  ASSUME DispatchInv, NEW l \in leases,
         NEW mission, mission = missions[l.mission], NEW p, p = l.packet
  PROVE  /\ mission.task \in Tasks /\ mission.row \in Row
         /\ p # None /\ p.task = mission.task /\ p.role = mission.row.role
         /\ p.phase = "execute" /\ p.baseline = mission.head
         /\ p.issued \in 0..now /\ p.expires \in Int /\ p.expires <= mission.expires
         /\ p.write = IF mission.row.role \in WriteRoles THEN mission.row.files ELSE {}
         /\ mission.row.role = "craftsman" =>
              p.tools = {"status", "context", "check"} \cup {"verify", "complete-task"}
         /\ mission.row.role = "validator" => p.tools = {"status", "context", "check"} \cup {"verify"}
<1>1. missions[l.mission] \in [task : Tasks, row : Row, head : 1..Tip, expires : 0..MaxTime]
      /\ p \in Packets
  BY MissionType DEF DispatchInv, TypeOK
<1>2. PICK issued \in 0..now, expires \in 0..mission.expires :
         p = BuildAuthority(mission.task, mission.row, "execute", mission.head, issued, expires)
  BY DEF DispatchInv, PacketsOfMissions
<1>3. mission.expires \in Nat /\ now \in Nat
  BY <1>1, DispatchAssumption DEF DispatchInv, TypeOK
<1>4. p # None
  BY <1>1, NoneAssumption
<1>5. /\ p.task = mission.task /\ p.role = mission.row.role
      /\ p.phase = "execute" /\ p.baseline = mission.head
      /\ p.issued = issued /\ p.expires = expires
      /\ p.write = IF mission.row.role \in WriteRoles THEN mission.row.files ELSE {}
  BY <1>2 DEF BuildAuthority
<1>6. p.tools = {"status", "context", "check"} \cup
               (CASE mission.row.role \in WriteRoles -> {"verify", "complete-task"}
                  [] mission.row.role = "validator" -> {"verify"}
                  [] mission.row.role = "auditor" -> {"report"}
                  [] OTHER -> {})
  BY <1>2 DEF BuildAuthority
<1>7. /\ mission.row.role = "craftsman" =>
           p.tools = {"status", "context", "check"} \cup {"verify", "complete-task"}
      /\ mission.row.role = "validator" =>
           p.tools = {"status", "context", "check"} \cup {"verify"}
  BY <1>6 DEF WriteRoles
<1>8. mission \in [task : Tasks, row : Row, head : 1..Tip, expires : 0..MaxTime]
  BY <1>1
<1>9. mission.task \in Tasks /\ mission.row \in Row
  BY <1>8
<1>10. p.issued \in 0..now
  <2>1. p.issued = issued
    BY <1>5
  <2> QED BY <2>1
<1>11. p.expires \in Int /\ p.expires <= mission.expires
  <2>1. p.expires = expires
    BY <1>5
  <2>2. expires \in Int /\ expires <= mission.expires
    BY <1>3
  <2> QED BY <2>1, <2>2
<1>12. /\ p.task = mission.task /\ p.role = mission.row.role
       /\ p.phase = "execute" /\ p.baseline = mission.head
  BY <1>5
<1>13. p.write = IF mission.row.role \in WriteRoles THEN mission.row.files ELSE {}
  BY <1>5
<1> QED BY <1>4, <1>7, <1>9, <1>10, <1>11, <1>12, <1>13

\* The two kinds of rows.
LEMMA RowKinds ==
  ASSUME NEW r \in Row
  PROVE  /\ r = [role |-> r.role, files |-> r.files]
         /\ r.role \in {"craftsman", "validator"}
         /\ r.role = "validator" => r.files = {}
         /\ r.files \in SUBSET Paths
BY DEF Row, WriteRoles

\* Under the production profile what the server lets a worker do is of its row.
LEMMA InScope ==
  ASSUME DispatchInv, production, NEW op \in WorkOperations, NEW t \in Tasks, NEW l \in leases,
         MCPDispatch(op, Usage(op, Slug, t), l.packet),
         NEW mission, mission = missions[l.mission]
  PROVE  /\ mission.task = t /\ mission.row = rows[t]
         /\ now < mission.expires /\ phase = "execute"
         /\ rows[t].role = "craftsman" => Diff(mission.head) \subseteq rows[t].files
         /\ op.command = "complete-task" => rows[t].role = "craftsman"
<1> DEFINE words == <<Slug, t>>
           p == l.packet
<1>1. Usage(op, Slug, t) = words /\ op.task /\ op.command \in {"complete-task", "verify"} /\ Mutable(op)
  BY WorkOps
<1>2. Len(words) = 2 /\ words[1] = Slug /\ words[2] = t /\ SlugAt(op, words)
      /\ op.command # "task"
  BY WorkWords
<1>3. /\ mission.task \in Tasks /\ mission.row \in Row
      /\ p # None /\ p.task = mission.task /\ p.role = mission.row.role
      /\ p.phase = "execute" /\ p.baseline = mission.head
      /\ p.issued \in 0..now /\ p.expires \in Int /\ p.expires <= mission.expires
      /\ p.write = IF mission.row.role \in WriteRoles THEN mission.row.files ELSE {}
      /\ mission.row.role = "validator" => p.tools = {"status", "context", "check"} \cup {"verify"}
  BY PacketFields
<1>4. now \in Int /\ mission.expires \in Int /\ rows[t] \in Row
  <2>1. missions[l.mission] \in [task : Tasks, row : Row, head : 1..Tip, expires : 0..MaxTime]
    BY MissionType DEF DispatchInv
  <2> QED BY <2>1, DispatchAssumption DEF DispatchInv, TypeOK
<1> HIDE DEF words
<1>5. AuthorityDispatch(op, words, p)
  BY <1>1, <1>3 DEF MCPDispatch, RunDispatch
<1>6. ProductionTask(op)
  BY <1>1 DEF ProductionTask
<1>7. ProductionMissionScope(op, words, p)
      /\ AuthorizeTool(p, op.command, Diff(p.baseline), now, phase, TRUE)
  BY <1>1, <1>2, <1>5, <1>6 DEF AuthorityDispatch, Mutable
<1>8. /\ p.task = t /\ p.role = rows[t].role
      /\ \E k \in leases : /\ missions[k.mission].row.files = rows[t].files
                           /\ p.write = missions[k.mission].row.files
  BY <1>2, <1>7 DEF ProductionMissionScope
<1>9. mission.task = t /\ mission.row.role = rows[t].role /\ p.write = rows[t].files
  BY <1>3, <1>8
<1>10. mission.row = rows[t]
  <2>1. mission.row.files = rows[t].files
    BY <1>3, <1>4, <1>9, RowKinds DEF WriteRoles
  <2> QED BY <1>3, <1>4, <1>9, <2>1, RowKinds
<1>11. now < mission.expires /\ phase = "execute"
  BY <1>3, <1>4, <1>7 DEF AuthorizeTool, ValidateAuthority
<1>12. rows[t].role = "craftsman" => Diff(mission.head) \subseteq rows[t].files
  BY <1>3, <1>7, <1>9 DEF AuthorizeTool
<1>13. op.command = "complete-task" => rows[t].role = "craftsman"
  BY <1>3, <1>4, <1>7, <1>9, RowKinds DEF AuthorizeTool
<1> QED BY <1>9, <1>10, <1>11, <1>12, <1>13

\* The worker whose row and packet still stand gets through every check.
LEMMA CanWork ==
  ASSUME DispatchInv, NEW l \in leases, NEW op \in WorkOperations,
         NEW mission, mission = missions[l.mission],
         mission.row = rows[mission.task], mission.row.role = "craftsman",
         now < l.packet.expires, phase = "execute",
         Diff(mission.head) \subseteq mission.row.files
  PROVE  MCPDispatch(op, Usage(op, Slug, mission.task), l.packet)
<1> DEFINE t == mission.task
           words == <<Slug, t>>
           p == l.packet
<1>1. /\ Usage(op, Slug, t) = words /\ op.task /\ op.actor = "agent" /\ op \in CoreTools
      /\ op.command \in {"complete-task", "verify"} /\ Mutable(op) /\ ~ForbiddenTool(op.command)
  BY WorkOps
<1>2. /\ Len(words) = 2 /\ words[1] = Slug /\ words[2] = t
      /\ SlugAt(op, words) /\ words[CommandByName[op.command].slug] = Slug
      /\ "execute" \in AllowedPhases(op)
      /\ op.command \notin {"task", "next", "brain"}
  BY WorkWords
<1>3. /\ t \in Tasks /\ p # None /\ p.task = t /\ p.role = mission.row.role
      /\ p.phase = "execute" /\ p.baseline = mission.head /\ p.issued \in 0..now
      /\ p.write = mission.row.files /\ op.command \in p.tools
  <2>1. /\ t \in Tasks /\ p # None /\ p.task = t /\ p.role = mission.row.role
        /\ p.phase = "execute" /\ p.baseline = mission.head /\ p.issued \in 0..now
        /\ p.write = IF mission.row.role \in WriteRoles THEN mission.row.files ELSE {}
        /\ p.tools = {"status", "context", "check"} \cup {"verify", "complete-task"}
    BY PacketFields
  <2> QED BY <1>1, <2>1 DEF WriteRoles
<1>4. now \in Int
  BY DispatchAssumption DEF DispatchInv, TypeOK
<1> HIDE DEF words, t, p
<1>5. ValidateAuthority(p, now, "execute")
  BY <1>3, <1>4 DEF ValidateAuthority, p
<1>6. \A paths : paths \subseteq p.write =>
         AuthorizeTool(p, op.command, paths, now, "execute", Mutable(op))
  BY <1>3, <1>5 DEF AuthorizeTool, WriteRoles
<1>7. ProductionMissionScope(op, words, p)
  <2>1. /\ l.packet = p /\ missions[l.mission].task = t
        /\ missions[l.mission].row = rows[t]
        /\ missions[l.mission].head = p.baseline
        /\ p.role = rows[t].role /\ p.write = rows[t].files
    BY <1>3 DEF t, p
  <2>2. /\ Len(words) >= 2 /\ op.command # "task" /\ words[1] = Slug /\ words[2] = t
        /\ t \in Tasks /\ p.task = t
    BY <1>2, <1>3
  <2> QED BY <2>1, <2>2 DEF ProductionMissionScope
<1>8. AuthorityDispatch(op, words, p)
  <2>1. AuthorizeTool(p, op.command, IF ProductionTask(op) THEN Diff(p.baseline) ELSE {}, now,
                      "execute", Mutable(op))
    BY <1>3, <1>6
  <2> QED BY <1>2, <1>3, <1>7, <2>1 DEF AuthorityDispatch
<1>9. RunDispatch(op, words, p)
  BY <1>2, <1>3, <1>8 DEF RunDispatch, CheckPhase, CheckFreshDispatch
<1>10. Executable(op, "mcp", p.phase, RouteAuthorized(p))
  BY <1>1, <1>2, <1>3 DEF Executable, RouteDispatches, RouteAuthorized
<1>11. AuthorizeTool(p, op.command, {}, now, p.phase, Mutable(op))
  BY <1>3, <1>6
<1> QED BY <1>1, <1>3, <1>9, <1>10, <1>11 DEF MCPDispatch, t, p

\* What a claim builds is a packet.
LEMMA ClaimedPacket ==
  ASSUME NEW t \in Tasks, NEW r \in Row, NEW head \in 1..MaxHead,
         NEW issued \in 0..MaxTime, NEW expires \in 0..MaxTime
  PROVE  BuildAuthority(t, r, "execute", head, issued, expires) \in Packets
<1> DEFINE names == {c.name : c \in Commands}
           tools == {"status", "context", "check"} \cup
               (CASE r.role \in WriteRoles -> {"verify", "complete-task"}
                  [] r.role = "validator" -> {"verify"}
                  [] r.role = "auditor" -> {"report"}
                  [] OTHER -> {})
           write == IF r.role \in WriteRoles THEN r.files ELSE {}
<1>1. {"verify", "complete-task"} \subseteq names
  BY TaskVerbs
<1>2. {"status", "context", "check"} \subseteq names
  <2>1. Verb("status", Phases, 1, FALSE, FALSE) \in Commands
        /\ Verb("check", Phases, 1, FALSE, FALSE) \in Commands
        /\ Verb("context", PostRequirements, 1, FALSE, FALSE) \in Commands
    BY DEF Commands, WorkVerbs, Plain
  <2>2. \A n, ps : Verb(n, ps, 1, FALSE, FALSE).name = n
    BY DEF Verb
  <2> QED BY <2>1, <2>2
<1> HIDE DEF names
<1>3. tools \subseteq names
  BY <1>1, <1>2, RowKinds DEF WriteRoles
<1>4. write \in SUBSET Paths
  BY RowKinds
<1> HIDE DEF tools, write
<1>5. r.role \in {q.role : q \in Row} /\ "execute" \in Phases
  BY DEF Phases
<1>6. [task |-> t, role |-> r.role, phase |-> "execute", baseline |-> head,
       issued |-> issued, expires |-> expires, tools |-> tools, write |-> write] \in Packets
  BY <1>3, <1>4, <1>5 DEF Packets, names
<1> QED BY <1>6 DEF BuildAuthority, tools, write

\* Before the first step, and what every step but a dispatch and a claim does: the
\* session stays and the clock does not go back.
LEMMA DispatchStart == Init => DispatchInv
<1> SUFFICES ASSUME Init PROVE DispatchInv
  OBVIOUS
<1>1. tree \in [Paths -> 0..1] /\ snaps = <<tree>> /\ rows \in [Tasks -> Row]
  BY DEF Init
<1>2. snaps \in Seq([Paths -> 0..1]) /\ Tip = 1
  BY <1>1 DEF Tip
<1>3. \A M : <<>> \in Seq(M)
  OBVIOUS
<1>4. phase \in Phases /\ now \in 0..MaxTime /\ edits \in 0..MaxEdits /\ Tip \in 1..MaxHead
  BY <1>2, DispatchAssumption DEF Init, Phases
<1>5. TypeOK
  BY <1>1, <1>2, <1>3, <1>4 DEF Init, TypeOK
<1> QED BY <1>5 DEF Init, DispatchInv, PacketsOfMissions

LEMMA SessionKept ==
  ASSUME DispatchInv, UNCHANGED <<missions, leases>>, now' \in 0..MaxTime, now <= now',
         snaps' \in Seq([Paths -> 0..1]), Tip' \in 1..MaxHead, Tip <= Tip',
         phase' \in Phases, stale' \in BOOLEAN, production' \in BOOLEAN,
         rows' \in [Tasks -> Row], tree' \in [Paths -> 0..1], edits' \in 0..MaxEdits
  PROVE  DispatchInv'
<1> DEFINE M(n) == [task : Tasks, row : Row, head : 1..n, expires : 0..MaxTime]
<1>1. missions' \in Seq(M(Tip'))
  <2>1. missions \in Seq(M(Tip)) /\ Tip \in Nat /\ Tip' \in Nat
    BY DispatchAssumption DEF DispatchInv, TypeOK
  <2>2. M(Tip) \subseteq M(Tip')
    BY <2>1
  <2> HIDE DEF M
  <2> QED BY <2>1, <2>2
<1>2. TypeOK'
  BY <1>1 DEF DispatchInv, TypeOK
<1>3. PacketsOfMissions'
  <2>1. now \in Nat /\ now' \in Nat
    BY DispatchAssumption DEF DispatchInv, TypeOK
  <2>2. 0..now \subseteq 0..now'
    BY <2>1
  <2> QED BY <2>2 DEF DispatchInv, PacketsOfMissions
<1> QED BY <1>2, <1>3 DEF DispatchInv

LEMMA MissionStep ==
  ASSUME DispatchInv, NEW t \in Tasks, DispatchMission(t)
  PROVE  DispatchInv'
<1> DEFINE M == [task : Tasks, row : Row, head : 1..Tip, expires : 0..MaxTime]
           m == [task |-> t, row |-> rows[t], head |-> Tip, expires |-> now + LeaseTTL]
<1>1. missions \in Seq(M) /\ missions' = Append(missions, m)
  BY DEF DispatchInv, TypeOK, DispatchMission
<1>2. m \in M
  BY DispatchAssumption DEF DispatchInv, TypeOK, DispatchMission
<1>3. UNCHANGED <<phase, stale, production, rows, edits, leases, tree, snaps, now>>
  BY DEF DispatchMission, workspace, files
<1> HIDE DEF M, m
<1>4. missions' \in Seq(M) /\ DOMAIN missions \subseteq DOMAIN missions'
      /\ \A i \in DOMAIN missions : missions'[i] = missions[i]
  BY <1>1, <1>2
<1>5. TypeOK'
  BY <1>3, <1>4 DEF DispatchInv, TypeOK, M, Tip
<1>6. PacketsOfMissions'
  BY <1>3, <1>4, MissionType DEF DispatchInv, PacketsOfMissions
<1> QED BY <1>5, <1>6 DEF DispatchInv

LEMMA ClaimStep ==
  ASSUME DispatchInv, NEW i \in DOMAIN missions, ClaimMission(i)
  PROVE  DispatchInv'
<1> DEFINE M == [task : Tasks, row : Row, head : 1..Tip, expires : 0..MaxTime]
           mission == missions[i]
           expires == IF now + LeaseTTL < mission.expires THEN now + LeaseTTL
                      ELSE mission.expires
           p == BuildAuthority(mission.task, mission.row, "execute", mission.head, now, expires)
           k == [mission |-> i, packet |-> p]
<1>1. leases' = leases \cup {k}
      /\ UNCHANGED <<phase, stale, production, rows, edits, missions, tree, snaps, now>>
  BY DEF ClaimMission, workspace, files
<1>2. missions \in Seq(M)
  BY DEF DispatchInv, TypeOK
<1>3. mission \in M
  <2> HIDE DEF M
  <2> QED BY <1>2
<1>4. now \in 0..MaxTime /\ LeaseTTL \in Nat /\ MaxTime \in Nat /\ Tip \in 1..MaxHead
      /\ MaxHead \in Nat
  BY DispatchAssumption DEF DispatchInv, TypeOK
<1>5. mission.task \in Tasks /\ mission.row \in Row /\ mission.head \in 1..MaxHead
      /\ mission.expires \in 0..MaxTime
  BY <1>3, <1>4
<1>6. expires \in 0..mission.expires /\ expires \in 0..MaxTime /\ now \in 0..now
  BY <1>4, <1>5
<1>7. p \in Packets
  BY <1>4, <1>5, <1>6, ClaimedPacket
<1>8. TypeOK'
  <2>1. k.mission = i /\ k.packet = p
    OBVIOUS
  <2> HIDE DEF k, p
  <2> QED BY <1>1, <1>7, <2>1 DEF DispatchInv, TypeOK, Tip
<1>9. PacketsOfMissions'
  <2> SUFFICES ASSUME NEW l \in leases'
               PROVE  \E issued \in 0..now, e \in 0..missions[l.mission].expires :
                         l.packet = BuildAuthority(missions[l.mission].task, missions[l.mission].row,
                                       "execute", missions[l.mission].head, issued, e)
    BY <1>1 DEF PacketsOfMissions
  <2>1. CASE l \in leases
    BY <2>1 DEF DispatchInv, PacketsOfMissions
  <2>2. CASE l = k
    BY <1>6, <2>2
  <2> QED BY <1>1, <2>1, <2>2
<1> QED BY <1>8, <1>9 DEF DispatchInv

LEMMA DispatchStep == DispatchInv /\ [Next]_vars => DispatchInv'
<1> SUFFICES ASSUME DispatchInv, [Next]_vars PROVE DispatchInv'
  OBVIOUS
<1>1. /\ now \in 0..MaxTime /\ snaps \in Seq([Paths -> 0..1]) /\ Tip \in 1..MaxHead
      /\ phase \in Phases /\ stale \in BOOLEAN /\ production \in BOOLEAN
      /\ rows \in [Tasks -> Row] /\ tree \in [Paths -> 0..1] /\ edits \in 0..MaxEdits
      /\ MaxTime \in Nat /\ MaxHead \in Nat /\ MaxEdits \in Nat
  BY DispatchAssumption DEF DispatchInv, TypeOK
<1>2. now <= now /\ Tip <= Tip /\ (Edited => edits' \in 0..MaxEdits)
  BY <1>1 DEF Edited
<1>3. ASSUME NEW t \in Tasks, DispatchMission(t) PROVE DispatchInv'
  BY <1>3, MissionStep
<1>4. ASSUME NEW i \in DOMAIN missions, ClaimMission(i) PROVE DispatchInv'
  BY <1>4, ClaimStep
<1>5. ASSUME NEW t \in Tasks, NEW r \in Row, EditRow(t, r) PROVE DispatchInv'
  <2>1. rows' \in [Tasks -> Row]
    BY <1>1, <1>5 DEF EditRow
  <2> QED BY <1>1, <1>2, <1>5, <2>1, SessionKept DEF EditRow, session, files, Tip
<1>6. CASE EditProfile \/ Amend
  BY <1>1, <1>2, <1>6, SessionKept DEF EditProfile, Amend, session, files, Tip
<1>7. CASE MovePhase
  <2>1. phase' \in Phases
    BY <1>7 DEF MovePhase, PhaseOrder, Phases
  <2> QED BY <1>1, <1>2, <1>7, <2>1, SessionKept DEF MovePhase, session, files, Tip
<1>8. ASSUME NEW f \in Paths, Touch(f) PROVE DispatchInv'
  <2>1. tree' \in [Paths -> 0..1]
    BY <1>1, <1>8 DEF Touch
  <2> QED BY <1>1, <1>2, <1>8, <2>1, SessionKept DEF Touch, session, workspace, Tip
<1>9. CASE Commit
  <2> DEFINE T == [Paths -> 0..1]
  <2>1. tree \in T /\ snaps \in Seq(T) /\ snaps' = Append(snaps, tree)
    BY <1>1, <1>9 DEF Commit
  <2> HIDE DEF T
  <2>2. snaps' \in Seq(T) /\ Len(snaps') = Len(snaps) + 1
    BY <2>1
  <2>3. snaps' \in Seq([Paths -> 0..1]) /\ Tip' \in 1..MaxHead /\ Tip <= Tip'
    BY <1>1, <1>9, <2>2 DEF Commit, Tip, T
  <2> QED BY <1>1, <1>2, <1>9, <2>3, SessionKept DEF Commit, session, workspace
<1>10. CASE Tick
  BY <1>1, <1>2, <1>10, SessionKept DEF Tick, session, workspace, files, Tip
<1>11. CASE UNCHANGED vars
  BY <1>1, <1>2, <1>11, SessionKept DEF vars, Tip
<1> QED BY <1>3, <1>4, <1>5, <1>6, <1>7, <1>8, <1>9, <1>10, <1>11 DEF Next

\* The inductive invariant of the workspace: types, and every packet in use the one a
\* claim built from its mission.
THEOREM DispatchSafety == Spec => []DispatchInv
BY DispatchStart, DispatchStep, PTL DEF Spec

\* A command the guidance shows an agent as executable is not refused, of the whole
\* table and in every phase, profile and state of the approvals (cmd/dispatch.go).  It
\* rests on the table alone (AgentOps): the dispatcher asks of the workspace only what
\* the route has asked.
THEOREM AdvertisedRuns == Spec => []AdvertisedAccepted
<1>1. AdvertisedAccepted
  <2> SUFFICES ASSUME NEW op \in Operations, NEW transport \in {"cli", "mcp"}, NEW t \in Tasks,
                      Executable(op, transport, phase, RouteAuthorized(None)),
                      op.command = "next" => ~stale
               PROVE  RunDispatch(op, Usage(op, Slug, t), None)
    BY DEF AdvertisedAccepted
  <2>1. phase \in AllowedPhases(op) /\ op.actor = "agent" /\ (op.authority => ~production)
    BY DEF Executable, RouteAuthorized
  <2>2. op.command # "brain" /\ (op.task => op.authority)
    BY <2>1, AgentOps
  <2>3. ~ProductionTask(op)
    BY <2>1, <2>2 DEF ProductionTask
  <2> QED BY <2>1, <2>2, <2>3 DEF RunDispatch, CheckPhase, CheckFreshDispatch
<1> QED BY <1>1, PTL

\* Under the production profile the server lets a worker complete or verify only the
\* task of its own mission, still of this row, in time, and with nothing changed out of
\* scope (cmd/dispatch.go enforceAuthorityDispatch).
THEOREM ScopeKept == Spec => []WorkStaysInScope
<1>1. DispatchInv => WorkStaysInScope
  <2> SUFFICES ASSUME DispatchInv, production, NEW op \in WorkOperations, NEW t \in Tasks,
                      NEW l \in leases, MCPDispatch(op, Usage(op, Slug, t), l.packet)
               PROVE  LET mission == missions[l.mission]
                      IN /\ mission.task = t /\ mission.row = rows[t]
                         /\ now < mission.expires /\ phase = "execute"
                         /\ rows[t].role = "craftsman" => Diff(mission.head) \subseteq rows[t].files
                         /\ op.command = "complete-task" => rows[t].role = "craftsman"
    BY DEF WorkStaysInScope
  <2> QED BY InScope
<1> QED BY <1>1, DispatchSafety, PTL

\* And the fences stop no worker whose row and packet still stand.
THEOREM WorkersWork == Spec => []ClaimantCanWork
<1>1. DispatchInv => ClaimantCanWork
  BY CanWork DEF ClaimantCanWork
<1> QED BY <1>1, DispatchSafety, PTL

=============================================================================
