----------------------------- MODULE Portfolio -----------------------------
(***************************************************************************)
(* The specs of one workspace and what ties them together: the program     *)
(* links of .specd/program.json (core/program.go, cmd/link.go), the        *)
(* retirement of a complete spec into .specd/archive (core/archive.go,     *)
(* cmd/archive.go), the seeding of an incident successor                   *)
(* (cmd/incident.go) and the dependency gate in front of execution         *)
(* (cmd/check.go).                                                         *)
(*                                                                         *)
(* A command first looks at the workspace, then takes the root lock, then  *)
(* writes several files one after the other.  A write may fail (the        *)
(* command rolls back what it wrote) and a process may die between two     *)
(* writes (nothing is rolled back; the lock is taken over, see SpecLock).  *)
(*                                                                         *)
(* A spec's directory is absent, partly written (no state.json yet) or     *)
(* whole.  Its documents, tasks and gates are reduced to "green": all      *)
(* gates pass and all tasks are complete.  A link's kind stands for its    *)
(* kind and reason.  Owner and evidence reference of an archive request    *)
(* are the same in every request.                                          *)
(***************************************************************************)
EXTENDS Naturals

CONSTANTS Specs,        \* slugs
          Procs,        \* concurrent specd processes
          Kinds,        \* kinds a user may give a link
          Supersedes,   \* kind and reason archive gives its link
          Regresses,    \* kind and reason incident seed gives its link
          MaxFaults,    \* bound: failed writes
          MaxCrashes,   \* bound: processes that die inside a command
          None

ASSUME NoneAssumption == None \notin Specs \cup Procs
ASSUME KindsAssumption == {Supersedes, Regresses} \subseteq Kinds
                          /\ Supersedes # Regresses
ASSUME BoundsAssumption == MaxFaults \in Nat /\ MaxCrashes \in Nat

VARIABLES active,    \* the directory under .specd/specs
          stage,     \* status of state.json: planning, executing, complete
          green,     \* specComplete: gates green and tasks complete
          archived,  \* slugs with a directory under .specd/archive/specs
          manifest,  \* archive.json: the recorded successor, or None
          links,     \* program.json
          lock,      \* holder of the root lock
          pc, op,    \* what each process is doing
          faults, crashes

vars == <<active, stage, green, archived, manifest, links, lock, pc, op,
          faults, crashes>>

Link == [from : Specs, to : Specs, kind : Kinds]

(***************************************************************************)
(* Program.Deps, WouldCycle, AddTypedLink, IncompleteDeps.                 *)
(***************************************************************************)
Deps(E, s) == {l.to : l \in {k \in E : k.from = s}}

Closed(E, C) == \A l \in E : l.from \in C => l.to \in C

\* What the depth-first search from s visits: the least closed set around s.
Reachable(E, s) == {x \in Specs : \A C \in SUBSET Specs :
                                     s \in C /\ Closed(E, C) => x \in C}

HasLink(E, from, to) == \E l \in E : l.from = from /\ l.to = to

\* Mutant: only a link straight back is refused.
WouldCycle_Direct(E, from, to) == from = to \/ HasLink(E, to, from)

WouldCycle(E, from, to) == from \in Reachable(E, to)

\* AddTypedLink: the same link again is a no-op, another kind is a conflict.
Addable(E, l) == \A k \in E : k.from = l.from /\ k.to = l.to => k = l

\* specComplete: an archived spec cannot be loaded, so it is not complete.
Complete(s) == active[s] = "whole" /\ green[s]

IncompleteDeps(s) == {d \in Deps(links, s) : ~Complete(d)}

Before == [active |-> active, archived |-> archived, manifest |-> manifest,
           links |-> links]

Idle == [spec |-> None]

Init == /\ active = [s \in Specs |-> "none"]
        /\ stage = [s \in Specs |-> "planning"]
        /\ green = [s \in Specs |-> FALSE]
        /\ archived = {}
        /\ manifest = [s \in Specs |-> None]
        /\ links = {}
        /\ lock = None
        /\ pc = [p \in Procs |-> "idle"]
        /\ op = [p \in Procs |-> Idle]
        /\ faults = 0 /\ crashes = 0

------------------------------------------------------------------------------
(* One spec's own life, as far as the others see it. *)

\* runNew: a slug with no state.json is free, whatever else is there.
NewSpec(s) == /\ lock = None
              /\ active[s] # "whole"
              /\ active' = [active EXCEPT ![s] = "whole"]
              /\ stage' = [stage EXCEPT ![s] = "planning"]
              /\ green' = [green EXCEPT ![s] = FALSE]
              /\ UNCHANGED <<archived, manifest, links, lock, pc, op, faults, crashes>>

\* approve into executing: buildReadiness reads program.json under the lock.
StartExecuting(s) == /\ lock = None
                     /\ active[s] = "whole" /\ stage[s] = "planning"
                     /\ IncompleteDeps(s) = {}
                     /\ stage' = [stage EXCEPT ![s] = "executing"]
                     /\ UNCHANGED <<active, green, archived, manifest, links, lock,
                                    pc, op, faults, crashes>>

FinishTasks(s) == /\ lock = None
                  /\ active[s] = "whole" /\ stage[s] = "executing"
                  /\ green' = [green EXCEPT ![s] = TRUE]
                  /\ UNCHANGED <<active, stage, archived, manifest, links, lock,
                                 pc, op, faults, crashes>>

\* A gate of a spec that is done turns red again: HEAD moved, a file changed.
Regress(s) == /\ Complete(s)
              /\ green' = [green EXCEPT ![s] = FALSE]
              /\ UNCHANGED <<active, stage, archived, manifest, links, lock,
                             pc, op, faults, crashes>>

\* approve into complete.
CompleteSpec(s) == /\ lock = None
                   /\ stage[s] = "executing" /\ Complete(s)
                   /\ stage' = [stage EXCEPT ![s] = "complete"]
                   /\ UNCHANGED <<active, green, archived, manifest, links, lock,
                                  pc, op, faults, crashes>>

------------------------------------------------------------------------------
(* Commands.  Each starts with a look at the workspace without the lock. *)

Call(p, what, s, other, kind) ==
    /\ pc[p] = "idle"
    /\ s # other
    /\ pc' = [pc EXCEPT ![p] = what]
    /\ op' = [op EXCEPT ![p] = [spec |-> s, other |-> other, kind |-> kind]]
    /\ UNCHANGED <<active, stage, green, archived, manifest, links, lock, faults, crashes>>

CallLink(p) == \E s, t \in Specs, k \in Kinds :
                  /\ active[s] # "none" /\ active[t] # "none"
                  /\ Call(p, "link", s, t, k)

\* The successor's directory must exist.
CallArchive(p) == \E s, t \in Specs : /\ active[t] # "none"
                                      /\ Call(p, "archive", s, t, Supersedes)

\* The source's status is read from its active directory.
CallIncident(p) == \E s, t \in Specs :
                      /\ active[t] = "whole" /\ stage[t] = "complete"
                      /\ Call(p, "incident", s, t, Regresses)

\* A command ends, done or refused.
End(p) == /\ pc' = [pc EXCEPT ![p] = "idle"]
          /\ op' = [op EXCEPT ![p] = Idle]

Release(p) == End(p) /\ lock' = None

Refuse(p) == /\ End(p)
             /\ UNCHANGED <<active, stage, green, archived, manifest, links, lock,
                            faults, crashes>>

\* runLink under the lock; an existing link of any kind is left as it is.
AddLink(p) ==
    /\ pc[p] = "link" /\ lock = None
    /\ LET l == [from |-> op[p].spec, to |-> op[p].other, kind |-> op[p].kind] IN
       IF HasLink(links, l.from, l.to) \/ WouldCycle(links, l.from, l.to)
       THEN Refuse(p)
       ELSE /\ links' = links \cup {l}
            /\ End(p)
            /\ UNCHANGED <<active, stage, green, archived, manifest, lock, faults, crashes>>

\* runUnlink looks at nothing before it has the lock.
RemoveLink == \E l \in links :
                 /\ lock = None
                 /\ links' = links \ {l}
                 /\ UNCHANGED <<active, stage, green, archived, manifest, lock, pc, op,
                                faults, crashes>>

Take(p, next) == /\ lock = None
                 /\ lock' = p
                 /\ pc' = [pc EXCEPT ![p] = next]
                 /\ UNCHANGED <<stage, green, archived, manifest, links, faults, crashes>>

------------------------------------------------------------------------------
(* specd archive <spec> --successor <other> *)

Edge(p) == IF op[p].kind = Supersedes
           THEN [from |-> op[p].other, to |-> op[p].spec, kind |-> Supersedes]
           ELSE [from |-> op[p].spec, to |-> op[p].other, kind |-> Regresses]

LinkFits(p) == /\ ~WouldCycle(links, Edge(p).from, Edge(p).to)
               /\ Addable(links, Edge(p))

\* A manifest that records the same request is replayed; another is a conflict.
BeginArchive(p) ==
    /\ pc[p] = "archive"
    /\ LET s == op[p].spec
           replay == manifest[s] # None
           fits == IF replay THEN manifest[s] = op[p].other
                   ELSE active[s] = "whole" /\ stage[s] = "complete"
       IN IF LinkFits(p) /\ fits
          THEN /\ Take(p, IF replay THEN "saving" ELSE "moving")
               /\ op' = [op EXCEPT ![p] = [spec |-> s, other |-> op[p].other,
                              kind |-> op[p].kind, fresh |-> ~replay, before |-> Before]]
               /\ UNCHANGED active
          ELSE lock = None /\ Refuse(p)

\* os.Rename fails when an interrupted archive left a directory there.
MoveHistory(p) ==
    /\ pc[p] = "moving"
    /\ op[p].spec \notin archived
    /\ archived' = archived \cup {op[p].spec}
    /\ active' = [active EXCEPT ![op[p].spec] = "none"]
    /\ pc' = [pc EXCEPT ![p] = "manifest"]
    /\ UNCHANGED <<stage, green, manifest, links, lock, op, faults, crashes>>

WriteManifest(p) ==
    /\ pc[p] = "manifest"
    /\ manifest' = [manifest EXCEPT ![op[p].spec] = op[p].other]
    /\ pc' = [pc EXCEPT ![p] = "saving"]
    /\ UNCHANGED <<active, stage, green, archived, links, lock, op, faults, crashes>>

SaveLink(p) ==
    /\ pc[p] \in {"saving", "seeded"}
    /\ links' = links \cup {Edge(p)}
    /\ Release(p)
    /\ UNCHANGED <<active, stage, green, archived, manifest, faults, crashes>>

\* RestoreArchive: archive.json goes first, then the directory comes back.
RemoveManifest(p) ==
    /\ pc[p] = "restore"
    /\ manifest' = [manifest EXCEPT ![op[p].spec] = None]
    /\ pc' = [pc EXCEPT ![p] = "unmove"]
    /\ UNCHANGED <<active, stage, green, archived, links, lock, op, faults, crashes>>

MoveBack(p) ==
    /\ pc[p] = "unmove"
    /\ archived' = archived \ {op[p].spec}
    /\ active' = [active EXCEPT ![op[p].spec] = "whole"]
    /\ Release(p)
    /\ UNCHANGED <<stage, green, manifest, links, faults, crashes>>

------------------------------------------------------------------------------
(* specd incident seed <spec> --source-spec <other> *)

\* Mutant: an existing directory is seeded over.
BeginIncident_Overwrite(p) ==
    /\ pc[p] = "incident" /\ LinkFits(p)
    /\ Take(p, "seeding")
    /\ active' = [active EXCEPT ![op[p].spec] = "partial"]
    /\ op' = [op EXCEPT ![p] = [spec |-> op[p].spec, other |-> op[p].other,
                   kind |-> Regresses, fresh |-> TRUE, before |-> Before]]

BeginIncident(p) ==
    /\ pc[p] = "incident"
    /\ IF LinkFits(p) /\ active[op[p].spec] = "none"
       THEN /\ Take(p, "seeding")
            /\ active' = [active EXCEPT ![op[p].spec] = "partial"]
            /\ op' = [op EXCEPT ![p] = [spec |-> op[p].spec, other |-> op[p].other,
                           kind |-> op[p].kind, fresh |-> TRUE, before |-> Before]]
       ELSE lock = None /\ Refuse(p)

SeedState(p) ==
    /\ pc[p] = "seeding"
    /\ active' = [active EXCEPT ![op[p].spec] = "whole"]
    /\ stage' = [stage EXCEPT ![op[p].spec] = "planning"]
    /\ green' = [green EXCEPT ![op[p].spec] = FALSE]
    /\ pc' = [pc EXCEPT ![p] = "seeded"]
    /\ UNCHANGED <<archived, manifest, links, lock, op, faults, crashes>>

------------------------------------------------------------------------------
(* Failure of the write a command is at, and what its error path does. *)

Fault == faults < MaxFaults /\ faults' = faults + 1

\* The rename is refused for good reason, or fails.
MoveFails(p) ==
    /\ pc[p] = "moving"
    /\ IF op[p].spec \in archived THEN UNCHANGED faults ELSE Fault
    /\ Release(p)
    /\ UNCHANGED <<active, stage, green, archived, manifest, links, crashes>>

ManifestFails(p) ==
    /\ pc[p] = "manifest" /\ Fault
    /\ pc' = [pc EXCEPT ![p] = "unmove"]
    /\ UNCHANGED <<active, stage, green, archived, manifest, links, lock, op, crashes>>

\* Mutant: the archive stays when its link cannot be saved.
SaveFails_Keep(p) ==
    /\ pc[p] = "saving" /\ Fault
    /\ Release(p)
    /\ UNCHANGED <<active, stage, green, archived, manifest, links, crashes>>

\* A replayed archive is not rolled back: it was there before the call.
SaveFails(p) ==
    /\ pc[p] = "saving" /\ Fault
    /\ IF op[p].fresh THEN pc' = [pc EXCEPT ![p] = "restore"] /\ UNCHANGED <<lock, op>>
       ELSE Release(p)
    /\ UNCHANGED <<active, stage, green, archived, manifest, links, crashes>>

RestoreFails(p) ==
    /\ pc[p] \in {"restore", "unmove"} /\ Fault
    /\ Release(p)
    /\ UNCHANGED <<active, stage, green, archived, manifest, links, crashes>>

\* The deferred RemoveAll of a seed that was not committed.
SeedFails(p) ==
    /\ pc[p] \in {"seeding", "seeded"} /\ Fault
    /\ active' = [active EXCEPT ![op[p].spec] = "none"]
    /\ Release(p)
    /\ UNCHANGED <<stage, green, archived, manifest, links, crashes>>

Crash(p) ==
    /\ lock = p /\ crashes < MaxCrashes
    /\ crashes' = crashes + 1
    /\ Release(p)
    /\ UNCHANGED <<active, stage, green, archived, manifest, links, faults>>

------------------------------------------------------------------------------
Life(s) == \/ NewSpec(s) \/ StartExecuting(s) \/ FinishTasks(s)
           \/ Regress(s) \/ CompleteSpec(s)

Command(p) == \/ CallLink(p) \/ CallArchive(p) \/ CallIncident(p)
              \/ AddLink(p)
              \/ BeginArchive(p) \/ MoveHistory(p) \/ WriteManifest(p)
              \/ RemoveManifest(p) \/ MoveBack(p)
              \/ BeginIncident(p) \/ SeedState(p) \/ SaveLink(p)

Failure(p) == \/ MoveFails(p) \/ ManifestFails(p) \/ SaveFails(p)
              \/ RestoreFails(p) \/ SeedFails(p) \/ Crash(p)

Next == \/ \E s \in Specs : Life(s)
        \/ RemoveLink
        \/ \E p \in Procs : Command(p) \/ Failure(p)

Spec == Init /\ [][Next]_vars

------------------------------------------------------------------------------
Frontier == {s \in Specs : active[s] # "none" /\ ~Complete(s) /\ IncompleteDeps(s) = {}}

Snapshot == [active : [Specs -> {"none", "partial", "whole"}],
             archived : SUBSET Specs,
             manifest : [Specs -> Specs \cup {None}],
             links : SUBSET Link]

Request == [spec : Specs, other : Specs, kind : Kinds]

Writing == [spec : Specs, other : Specs, kind : Kinds, fresh : BOOLEAN,
            before : Snapshot]

TypeOK == /\ active \in [Specs -> {"none", "partial", "whole"}]
          /\ stage \in [Specs -> {"planning", "executing", "complete"}]
          /\ green \in [Specs -> BOOLEAN]
          /\ archived \in SUBSET Specs
          /\ manifest \in [Specs -> Specs \cup {None}]
          /\ links \in SUBSET Link
          /\ lock \in Procs \cup {None}
          /\ pc \in [Procs -> {"idle", "link", "archive", "incident",
                               "moving", "manifest", "saving", "restore", "unmove",
                               "seeding", "seeded"}]
          /\ op \in [Procs -> {Idle} \cup Request \cup Writing]
          /\ faults \in 0..MaxFaults /\ crashes \in 0..MaxCrashes

\* The lock is held exactly by the process in the middle of its writes.
InWrites(p) == pc[p] \in {"moving", "manifest", "saving", "restore", "unmove",
                          "seeding", "seeded"}

LockHeld == \A p \in Procs : (lock = p) <=> InWrites(p)

\* Which record a process carries, and which command it belongs to.
Carried ==
    \A p \in Procs :
       /\ pc[p] \in {"link", "archive", "incident"} => op[p] \in Request
       /\ InWrites(p) => op[p] \in Writing
       /\ pc[p] \in {"archive", "moving", "manifest", "saving", "restore", "unmove"}
             => op[p].kind = Supersedes
       /\ pc[p] \in {"incident", "seeding", "seeded"} => op[p].kind = Regresses
       /\ pc[p] \in {"moving", "manifest", "restore", "unmove"} => op[p].fresh

\* The link a command in the middle of its writes will save was checked
\* against the links as they still are.
PendingFits == \A p \in Procs :
                  InWrites(p) => ~WouldCycle(links, Edge(p).from, Edge(p).to)

\* How far the directories, the manifest and the links are from what they
\* were when process p took the lock.
Halfway(p) ==
    LET s == op[p].spec
        b == op[p].before
        moved == /\ archived = b.archived \cup {s}
                 /\ active = [b.active EXCEPT ![s] = "none"]
                 /\ s \notin b.archived
    IN /\ links = b.links
       /\ pc[p] = "moving" \/ (pc[p] = "saving" /\ ~op[p].fresh)
             => active = b.active /\ archived = b.archived /\ manifest = b.manifest
       /\ pc[p] = "saving" /\ ~op[p].fresh => manifest[s] = op[p].other /\ s \in archived
       /\ pc[p] \in {"manifest", "unmove"} => moved /\ manifest = b.manifest
       /\ pc[p] \in {"saving", "restore"} /\ op[p].fresh
             => moved /\ manifest = [b.manifest EXCEPT ![s] = op[p].other]
       /\ pc[p] \in {"moving", "manifest", "saving", "restore", "unmove"} /\ op[p].fresh
             => b.active[s] = "whole" /\ stage[s] = "complete" /\ b.manifest[s] = None
       /\ pc[p] \in {"seeding", "seeded"}
             => /\ b.active[s] = "none"
                /\ archived = b.archived /\ manifest = b.manifest
       /\ pc[p] = "seeding" => active = [b.active EXCEPT ![s] = "partial"]
       /\ pc[p] = "seeded" => /\ active = [b.active EXCEPT ![s] = "whole"]
                              /\ stage[s] = "planning"
       /\ pc[p] \in {"restore", "unmove"} => faults >= 1

WritesTracked == \A p \in Procs : InWrites(p) => Halfway(p)

\* An archive record is written in a directory of the archive.
ManifestsArchived == \A s \in Specs : manifest[s] # None => s \in archived

NoCycle(E) == \A S \in SUBSET Specs :
                 (\A s \in S : \E l \in E : l.from = s /\ l.to \in S) => S = {}

(***************************************************************************)
(* No spec ever waits for itself through other specs.  link, archive and   *)
(* incident seed each add links, after checks some of which ran before     *)
(* the lock was taken; no set of specs may hold a link for each member     *)
(* back into the set.                                                      *)
(***************************************************************************)
Acyclic == NoCycle(links)

IInv == /\ TypeOK /\ LockHeld /\ Carried /\ PendingFits
        /\ WritesTracked /\ ManifestsArchived /\ Acyclic

HasHistory(s) == (active[s] = "whole" /\ stage[s] = "complete") \/ s \in archived

(***************************************************************************)
(* The history of a complete spec is never lost: whatever fails or dies    *)
(* in archive and incident seed, its directory is where it was or in the   *)
(* archive.                                                                *)
(***************************************************************************)
HistoryKept == [][\A s \in Specs : HasHistory(s) => HasHistory(s)']_vars

After(p) == IF op[p].kind = Supersedes
            THEN [op[p].before EXCEPT !.archived = @ \cup {op[p].spec},
                                      !.manifest = [@ EXCEPT ![op[p].spec] = op[p].other],
                                      !.active = IF op[p].fresh THEN [@ EXCEPT ![op[p].spec] = "none"] ELSE @,
                                      !.links = @ \cup {Edge(p)}]
            ELSE [op[p].before EXCEPT !.active = [@ EXCEPT ![op[p].spec] = "whole"],
                                      !.links = @ \cup {Edge(p)}]

(***************************************************************************)
(* An archive or a seed that runs to its end, whichever of its writes      *)
(* failed, has made all its changes to the directories, the manifest and   *)
(* the links or none of them, as long as the roll back itself meets no     *)
(* second fault.                                                           *)
(***************************************************************************)
AllOrNothing ==
    [][\A p \in Procs :
         lock = p /\ lock' = None /\ crashes' = crashes /\ faults' <= 1
            => Before' \in {op[p].before, After(p)}]_vars

(***************************************************************************)
(* What the link table promises: a dependency that reached completion      *)
(* holds nobody back.  Archive accepts only complete specs, so an archived *)
(* dependency must not block its successor.  The code does not keep this:  *)
(* specComplete loads the spec from the active directory and fails.        *)
(***************************************************************************)
ArchivedSatisfies == \A s \in Specs, d \in archived :
                        d \notin IncompleteDeps(s) \/ manifest[d] = None \/ active[d] # "none"

==============================================================================
