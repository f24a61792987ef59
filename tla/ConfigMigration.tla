-------------------------- MODULE ConfigMigration --------------------------
(***************************************************************************)
(* The project's policy files: how a policy is selected (config show and   *)
(* validate, ResolveConfigSource), what the handlers load (configPaths and *)
(* LoadConfig), and `config migrate`, which installs .specd/config.yaml    *)
(* and renames the legacy file to a backup (core/config_migrate.go).       *)
(*                                                                         *)
(* Migrations hold the spec lock, but the operator's editor and `specd     *)
(* init` do not, and a migrating process may die between any two steps.    *)
(* A policy is the value of its `profile` key; layout, modes and the       *)
(* directory sync are left out, and a lock left by a dead process is taken *)
(* over at once (SpecLock models how).                                     *)
(* The specification's own names begin with CM: Commands_proofs extends    *)
(* this module beside others.                                              *)
(***************************************************************************)
EXTENDS Naturals, FiniteSets

CONSTANTS Migrators,   \* processes that run `config migrate`
          Nothing,     \* no file, no process
          MaxPolicyEdits, \* bound: edits by the operator
          MaxCalls     \* bound: migrations begun

ASSUME ConfigAssumption ==
    Nothing \notin Migrators /\ MaxPolicyEdits \in Nat /\ MaxCalls \in Nat

VARIABLES file,      \* content of each policy file and each backup
          holder,    \* who holds the spec lock
          step, plan, \* where each migration is, and its ConfigMigration
          raw,       \* what it read of the source; Nothing: target exists
          scaffold,  \* `specd init` found no policy file
          policyEdits, calls, \* counters of the bounds
          accepted, calm    \* history: the last plan made, undisturbed
                            \* by an edit; no edit since m planned

proc == <<holder, step, plan, raw>>
cmvars == <<file, proc, scaffold, policyEdits, calls, accepted, calm>>

Canonical == "config.yaml"
Legacy == {"project.yml", "project.yaml"}
Sources == Legacy \cup {Canonical}
Backup == [s \in Legacy |-> IF s = "project.yml" THEN "yml.bak" ELSE "yaml.bak"]
Names == Sources \cup {Backup[s] : s \in Legacy}

Profiles == {"default", "production"}

\* "bogus" parses and names no known profile; "malformed" does not parse.
Contents == Profiles \cup {"bogus", "malformed"}

ASSUME NothingAssumption == Nothing \notin Contents /\ Nothing \notin Legacy

Exists(n) == file[n] # Nothing
Parses(c) == c # "malformed"
Validates(c) == c \in Profiles

---------------------------------------------------------------------------
\* What the sources say together: nothing, one policy, or an error.
Resolve(f) ==
    LET present == {n \in Sources : f[n] # Nothing}
        values == {f[n] : n \in present}
    IN  IF present = {} THEN Nothing
        ELSE IF "malformed" \in values \/ Cardinality(values) > 1 THEN "refused"
        ELSE CHOOSE v \in values : TRUE

\* applyConfigMap: a value it does not know leaves the default in place.
Applied(c) == IF c \in Profiles THEN c ELSE "default"

\* The policy in force in every handler: project.yml, or the defaults.
Loaded(f) == Applied(f["project.yml"])

---------------------------------------------------------------------------
\* completedMigration
Completed(s) ==
    /\ Exists(Canonical) /\ Exists(Backup[s])
    /\ Parses(file[Canonical]) /\ file[Canonical] = file[Backup[s]]

\* The source planConfigMigration takes: the requested one, or the only one.
Selected(requested) ==
    {s \in Legacy :
        /\ Exists(s)
        /\ \/ requested = s
           \/ requested = Nothing /\ \A t \in Legacy \ {s} : ~Exists(t)}

\* Nothing is left to migrate and the backup agrees with the canonical file.
Finished(requested) ==
    IF requested = Nothing
    THEN (\A s \in Legacy : ~Exists(s)) /\ \E s \in Legacy : Completed(s)
    ELSE ~Exists(requested) /\ Completed(requested)

\* Mutant: a canonical file that an earlier run installed is in the way.
Plannable_FreshTarget(s) ==
    Validates(file[s]) /\ ~Exists(Backup[s]) /\ ~Exists(Canonical)
    /\ \A n \in Sources : Exists(n) => file[n] = file[s]

\* The checks on the selected source, on its twin, on the backup and on a
\* canonical file that is already there.
Plannable(s) ==
    /\ Validates(file[s])
    /\ \A n \in Sources : Exists(n) => file[n] = file[s]
    /\ ~Exists(Backup[s])

---------------------------------------------------------------------------
CMInit ==
    /\ file \in [Names -> Contents \cup {Nothing}]
    /\ \A s \in Legacy : file[Backup[s]] = Nothing
    /\ holder = Nothing
    /\ step = [m \in Migrators |-> "idle"]
    /\ plan = [m \in Migrators |-> Nothing]
    /\ raw = [m \in Migrators |-> Nothing]
    /\ scaffold = FALSE
    /\ policyEdits = 0 /\ calls = 0
    /\ accepted = Nothing
    /\ calm = [m \in Migrators |-> TRUE]

Leave(m) ==
    /\ holder' = Nothing
    /\ step' = [step EXCEPT ![m] = "idle"]
    /\ plan' = [plan EXCEPT ![m] = Nothing]
    /\ raw' = [raw EXCEPT ![m] = Nothing]

\* MigrateConfig takes the lock and plans; the plan pins the policy that
\* the canonical file has to have when it is installed.
Plan(m, requested) ==
    /\ step[m] = "idle" /\ holder = Nothing /\ calls < MaxCalls
    /\ calls' = calls + 1
    /\ \E s \in Selected(requested) :
        /\ Plannable(s)
        /\ plan' = [plan EXCEPT ![m] = [source |-> s, effective |-> file[s]]]
        /\ accepted' = s
    /\ holder' = m
    /\ step' = [step EXCEPT ![m] = "read"]
    /\ calm' = [calm EXCEPT ![m] = TRUE]
    /\ UNCHANGED <<file, raw, scaffold, policyEdits>>

\* The source is read a second time, then the target is looked for.
ReadSource(m) ==
    /\ step[m] = "read"
    /\ UNCHANGED <<file, scaffold, policyEdits, calls, accepted, calm>>
    /\ IF ~Exists(plan[m].source)
       THEN Leave(m)
       ELSE /\ raw' = [raw EXCEPT ![m] =
                          IF Exists(Canonical) THEN Nothing ELSE file[plan[m].source]]
            /\ step' = [step EXCEPT ![m] = "install"]
            /\ UNCHANGED <<holder, plan>>

\* Mutant: the target is written in place, so a death leaves half of it.
Install_InPlace(m) ==
    /\ step[m] = "install"
    /\ UNCHANGED <<scaffold, policyEdits, calls, accepted, calm, holder, plan, raw>>
    /\ \E c \in {raw[m], "malformed"} :
        file' = IF raw[m] = Nothing THEN file ELSE [file EXCEPT ![Canonical] = c]
    /\ step' = [step EXCEPT ![m] = "recheck"]

\* atomicWriteConfig: a temporary file is validated, then renamed.
Install(m) ==
    /\ step[m] = "install"
    /\ UNCHANGED <<scaffold, policyEdits, calls, accepted, calm>>
    /\ IF raw[m] # Nothing /\ ~Validates(raw[m])
       THEN Leave(m) /\ UNCHANGED file
       ELSE /\ file' = IF raw[m] = Nothing THEN file
                       ELSE [file EXCEPT ![Canonical] = raw[m]]
            /\ step' = [step EXCEPT ![m] = "recheck"]
            /\ UNCHANGED <<holder, plan, raw>>

\* What is installed has to be what was planned.
Recheck(m) ==
    /\ step[m] = "recheck"
    /\ UNCHANGED <<file, scaffold, policyEdits, calls, accepted, calm>>
    /\ IF file[Canonical] # plan[m].effective
       THEN Leave(m)
       ELSE step' = [step EXCEPT ![m] = "rename"] /\ UNCHANGED <<holder, plan, raw>>

\* os.Rename replaces a file that is already at the backup's name.
Preserve(m) ==
    LET s == plan[m].source IN
    /\ step[m] = "rename"
    /\ file' = IF Exists(s) THEN [file EXCEPT ![Backup[s]] = file[s], ![s] = Nothing]
                            ELSE file
    /\ Leave(m)
    /\ UNCHANGED <<scaffold, policyEdits, calls, accepted, calm>>

Crash(m) ==
    /\ step[m] # "idle"
    /\ Leave(m)
    /\ UNCHANGED <<file, scaffold, policyEdits, calls, accepted, calm>>

\* writeCanonicalConfig looks for every spelling, then writes the template.
FindNone ==
    /\ ~scaffold /\ \A n \in Sources : ~Exists(n)
    /\ scaffold' = TRUE
    /\ UNCHANGED <<file, proc, policyEdits, calls, accepted, calm>>

Scaffold ==
    /\ scaffold
    /\ scaffold' = FALSE
    /\ file' = [file EXCEPT ![Canonical] = "default"]
    /\ accepted' = Nothing
    /\ calm' = [m \in Migrators |-> FALSE]
    /\ UNCHANGED <<proc, policyEdits, calls>>

\* The operator writes or removes a policy file.
EditPolicy(n, c) ==
    /\ policyEdits < MaxPolicyEdits /\ file[n] # c
    /\ policyEdits' = policyEdits + 1
    /\ file' = [file EXCEPT ![n] = c]
    /\ accepted' = Nothing
    /\ calm' = [m \in Migrators |-> FALSE]
    /\ UNCHANGED <<proc, scaffold, calls>>

Migrating(m) ==
    \/ ReadSource(m)
    \/ Install(m)
    \/ Recheck(m)
    \/ Preserve(m)

CMNext ==
    \/ \E m \in Migrators :
        \/ \E requested \in Legacy \cup {Nothing} : Plan(m, requested)
        \/ Migrating(m)
        \/ Crash(m)
    \/ FindNone \/ Scaffold
    \/ \E n \in Sources, c \in Contents \cup {Nothing} : EditPolicy(n, c)

CMSpec == CMInit /\ [][CMNext]_cmvars

---------------------------------------------------------------------------
\* A migration that no edit disturbs never changes what `config show`
\* resolves: not between the install and the rename, not when two legacy
\* files agree, not after an earlier migration died half way, and not when
\* another process migrates the twin (config_migrate.go MigrateConfig).
PolicyPreserved ==
    [][\A m \in Migrators :
        Migrating(m) /\ calm[m] => Resolve(file') = Resolve(file)]_cmvars

\* Wherever a migration dies, the same command accepts the project again:
\* either it plans the source once more, or it reports the completed result
\* (docs/upgrade.md:15-16), unless somebody changed a policy file.
RerunAccepted ==
    accepted # Nothing /\ holder = Nothing =>
        \/ Finished(accepted)
        \/ accepted \in Selected(accepted) /\ Plannable(accepted)

\* The policy `config show` selects is the one the handlers run under: the
\* first file in the order of docs/configuration.md:6-8 is the one selected
\* (docs/configuration.md:15-16).
RuntimeIsEffective ==
    Resolve(file) \in Profiles => Loaded(file) = Resolve(file)

\* Types, and the lock held exactly by the migration that is running.
CMTypeOK ==
    /\ file \in [Names -> Contents \cup {Nothing}]
    /\ holder \in Migrators \cup {Nothing}
    /\ \A m \in Migrators :
        /\ step[m] # "idle" <=> holder = m
        /\ step[m] # "idle" => plan[m] \in [source : Legacy, effective : Contents]
    /\ step \in [Migrators -> {"idle", "read", "install", "recheck", "rename"}]
    /\ plan \in [Migrators -> {Nothing} \cup [source : Legacy, effective : Contents]]
    /\ raw \in [Migrators -> Contents \cup {Nothing}]

=============================================================================
