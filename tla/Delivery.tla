------------------------------ MODULE Delivery ------------------------------
(***************************************************************************)
(* The delivery ledgers of one spec: release candidates, deployment        *)
(* attempts, conflicting adapter envelopes and submissions                 *)
(* (core/delivery_ledger.go, core/adapter_envelope.go, core/submit.go,     *)
(* cmd/release.go, cmd/deploy.go, cmd/submit.go).                          *)
(*                                                                         *)
(* Each command reads first, without the lock, and appends one line under  *)
(* it.  What happens under the lock is one step; a process may die before  *)
(* any step, and in the middle of an append, which leaves half a line, or  *)
(* a whole line without its line feed.                                     *)
(*                                                                         *)
(* The content address of a candidate is its content.  SBOM, provenance,   *)
(* bootstrap digest and evidence set change with the artifact or with the  *)
(* revision.  Strategy, population, window, adapter and authority of a     *)
(* deployment are left out.                                                *)
(***************************************************************************)
EXTENDS Naturals, FiniteSets, SequencesExt

CONSTANTS Procs,         \* specd processes
          Heads,         \* git commits
          Artifacts,     \* artifact digests
          Environments,  \* environments
          UserKeys,      \* idempotency keys a caller chooses
          MaxRevision,   \* bound: saves of state.json
          MaxLines,      \* bound: lines of a ledger
          MaxCrashes     \* bound: processes that die

ASSUME BoundsAssumption == /\ MaxRevision \in Nat \ {0}
                           /\ MaxLines \in Nat /\ MaxCrashes \in Nat

ASSUME ProcsAssumption == IsFiniteSet(Procs)

VARIABLES head, revision,              \* the work tree and state.json
          releases, deployments, submissions,  \* the ledgers
          conflicts,                   \* deployment-conflicts.jsonl
          pc, op,                      \* what each process is doing
          fired,                       \* successful submissions, asked again or not
          crashes

vars == <<head, revision, releases, deployments, submissions, conflicts, pc, op,
          fired, crashes>>

Candidate == [revision : 1..MaxRevision, head : Heads, artifact : Artifacts]

\* deploymentID: spec, release and environment.
DeploymentId == [release : Candidate, environment : Environments]

\* The default key of a deployment is its id.
Keys == UserKeys \cup DeploymentId

Status == {"requested", "observing", "failed"}

\* attempt is kept beside the payload: applying an envelope overrides it.
Payload == [id : DeploymentId, key : Keys, status : Status, envelope : BOOLEAN]

Idle == [what |-> "none"]

(***************************************************************************)
(* A ledger is its lines; Glued is a line that holds the end of one append *)
(* and the whole of another.  tail tells how the file ends: with a line    *)
(* feed, with half a line that is not among the lines, or with a whole     *)
(* last line without a line feed.                                          *)
(***************************************************************************)
Glued == [glued |-> TRUE]
Empty == [lines |-> <<>>, tail |-> "clean"]
Tails == {"clean", "half", "whole"}

Readable(l) == Glued \notin {l.lines[i] : i \in DOMAIN l.lines}

\* readLedger drops half a last line, LoadSubmissions fails on it.
Loadable(l) == Readable(l) /\ l.tail # "half"

Records(l) == {l.lines[i] : i \in DOMAIN l.lines} \ {Glued}

\* AppendFile writes where the file ends, whatever is there.
Appended(l, r) ==
    [lines |-> CASE l.tail = "clean" -> Append(l.lines, r)
                 [] l.tail = "half"  -> Append(l.lines, Glued)
                 [] l.tail = "whole" -> [l.lines EXCEPT ![Len(l.lines)] = Glued],
     tail  |-> "clean"]

\* What an append that dies leaves: half of its line, or all but the line feed.
\* Behind a last line without a line feed it takes that line with it.
Torn(l, r) ==
    CASE l.tail = "clean" -> {[l EXCEPT !.tail = "half"], [Appended(l, r) EXCEPT !.tail = "whole"]}
      [] l.tail = "half"  -> {l}
      [] l.tail = "whole" -> {[lines |-> Front(l.lines), tail |-> "half"]}

Room(l) == Len(l.lines) < MaxLines

Init == /\ head \in Heads
        /\ revision = 1
        /\ releases = Empty /\ deployments = Empty /\ submissions = Empty
        /\ conflicts = {}
        /\ pc = [p \in Procs |-> "idle"]
        /\ op = [p \in Procs |-> Idle]
        /\ fired = [h \in Heads |-> [again \in BOOLEAN |-> 0]]
        /\ crashes = 0

ledgers == <<releases, deployments, submissions, conflicts>>

Goto(p, next, o) == /\ pc' = [pc EXCEPT ![p] = next]
                    /\ op' = [op EXCEPT ![p] = o]

Finish(p) == Goto(p, "idle", Idle)

------------------------------------------------------------------------------
(* specd release candidate *)

BeginRelease(p) ==
    /\ pc[p] = "idle" /\ Room(releases)
    /\ \E a \in Artifacts :
          Goto(p, "release", [what |-> "release", revision |-> revision, artifact |-> a])
    /\ UNCHANGED <<head, revision, ledgers, fired, crashes>>

\* HEAD is read last, after the revision and the evidence.
PinRelease(p) ==
    /\ pc[p] = "release"
    /\ Goto(p, "freeze", [what |-> "freeze", candidate |->
                 [revision |-> op[p].revision, head |-> head, artifact |-> op[p].artifact]])
    /\ UNCHANGED <<head, revision, ledgers, fired, crashes>>

\* Mutant: the same candidate is frozen twice.
Freeze_Again(p) ==
    /\ pc[p] = "freeze" /\ Readable(releases) /\ Room(releases)
    /\ releases' = Appended(releases, op[p].candidate)
    /\ Finish(p)
    /\ UNCHANGED <<head, revision, deployments, submissions, conflicts, fired, crashes>>

\* FreezeReleaseCandidate under the lock; a candidate frozen before stands.
Freeze(p) ==
    /\ pc[p] = "freeze"
    /\ IF Readable(releases) /\ op[p].candidate \notin Records(releases)
       THEN Room(releases) /\ releases' = Appended(releases, op[p].candidate)
       ELSE UNCHANGED releases
    /\ Finish(p)
    /\ UNCHANGED <<head, revision, deployments, submissions, conflicts, fired, crashes>>

------------------------------------------------------------------------------
(* specd deploy, and the result an adapter delivers *)

AttemptsOf(l, id) == {d.attempt : d \in {e \in Records(l) : e.id = id}}

NextAttempt(l, id) == IF AttemptsOf(l, id) = {} THEN 1
                      ELSE 1 + CHOOSE n \in AttemptsOf(l, id) :
                                  \A k \in AttemptsOf(l, id) : k <= n

Deployment(x, n) == [id |-> x.id, key |-> x.key, status |-> x.status,
                     envelope |-> x.envelope, attempt |-> n]

\* The release is looked up in a ledger read without the lock.
BeginDeploy(p) ==
    /\ pc[p] = "idle" /\ Readable(releases) /\ Room(deployments)
    /\ \E r \in Records(releases), e \in Environments :
          LET id == [release |-> r, environment |-> e] IN
          \E k \in UserKeys \cup {id} :
             Goto(p, "deploy", [what |-> "deploy",
                  payload |-> [id |-> id, key |-> k, status |-> "requested",
                               envelope |-> FALSE]])
    /\ UNCHANGED <<head, revision, ledgers, fired, crashes>>

\* AppendDeploymentAttempt: the attempt is derived under the lock.
RecordDeploy(p) ==
    /\ pc[p] = "deploy"
    /\ IF Readable(deployments)
       THEN /\ Room(deployments)
            /\ deployments' = Appended(deployments,
                    Deployment(op[p].payload, NextAttempt(deployments, op[p].payload.id)))
       ELSE UNCHANGED deployments
    /\ Finish(p)
    /\ UNCHANGED <<head, revision, releases, submissions, conflicts, fired, crashes>>

WithKey(k) == {i \in DOMAIN deployments.lines : deployments.lines[i] \in Records(deployments)
                                               /\ deployments.lines[i].key = k}

FirstWithKey(k) == deployments.lines[CHOOSE i \in WithKey(k) : \A j \in WithKey(k) : i <= j]

\* Mutant: an envelope is recognised by its payload.
ApplyEnvelope_ByPayload(x) ==
    /\ Readable(deployments) /\ Room(deployments)
    /\ \A d \in Records(deployments) : Deployment(x, d.attempt) # d
    /\ deployments' = Appended(deployments, Deployment(x, NextAttempt(deployments, x.id)))
    /\ UNCHANGED <<head, revision, releases, submissions, conflicts, pc, op, fired, crashes>>

\* ApplyDeploymentAdapterEnvelope: the first line with the key decides.
ApplyEnvelope(x) ==
    /\ Readable(deployments)
    /\ IF WithKey(x.key) = {}
       THEN /\ Room(deployments)
            /\ deployments' = Appended(deployments, Deployment(x, NextAttempt(deployments, x.id)))
            /\ UNCHANGED conflicts
       ELSE LET first == FirstWithKey(x.key)
                incoming == Deployment(x, first.attempt)
            IN /\ conflicts' = conflicts \cup (IF incoming = first THEN {} ELSE {incoming})
               /\ UNCHANGED deployments
    /\ UNCHANGED <<head, revision, releases, submissions, pc, op, fired, crashes>>

\* An adapter's payload is checked for shape only; nothing looks it up in the
\* releases.  An envelope may be delivered any number of times.
Envelopes == {x \in [id : {[release |-> r, environment |-> e] :
                              r \in Records(releases), e \in Environments},
                     key : Keys, status : Status \ {"requested"}, envelope : {TRUE}] :
                 x.key \in UserKeys \cup {x.id}}

------------------------------------------------------------------------------
(* specd submit *)

SubmittedAt(h) == \E s \in Records(submissions) : s.exit = 0 /\ s.head = h

\* Gates and tasks are green; the ledger is read without the lock.
BeginSubmit(p) ==
    /\ pc[p] = "idle" /\ Room(submissions)
    /\ Loadable(submissions)
    /\ \E resubmit \in BOOLEAN :
          /\ SubmittedAt(head) => resubmit
          /\ Goto(p, "submit", [what |-> "submit", head |-> head, resubmit |-> resubmit])
    /\ UNCHANGED <<head, revision, ledgers, fired, crashes>>

\* The operator's command runs without the lock.
RunSubmit(p) ==
    /\ pc[p] = "submit"
    /\ \E exit \in {0, 1} :
          /\ Goto(p, "record", [what |-> "record", head |-> op[p].head, exit |-> exit])
          /\ fired' = IF exit = 1 THEN fired
                      ELSE [fired EXCEPT ![op[p].head][op[p].resubmit] = @ + 1]
    /\ UNCHANGED <<head, revision, ledgers, crashes>>

Submission(p) == [head |-> op[p].head, exit |-> op[p].exit]

\* Mutant: a record for the commit makes another one unnecessary.
RecordSubmit_Once(p) ==
    /\ pc[p] = "record"
    /\ submissions' = IF SubmittedAt(op[p].head) THEN submissions
                      ELSE Appended(submissions, Submission(p))
    /\ Finish(p)
    /\ UNCHANGED <<head, revision, releases, deployments, conflicts, fired, crashes>>

\* AppendSubmission does not read the ledger.
RecordSubmit(p) ==
    /\ pc[p] = "record" /\ Room(submissions)
    /\ submissions' = Appended(submissions, Submission(p))
    /\ Finish(p)
    /\ UNCHANGED <<head, revision, releases, deployments, conflicts, fired, crashes>>

------------------------------------------------------------------------------
(* The world around *)

Commit == /\ head' \in Heads \ {head}
          /\ UNCHANGED <<revision, ledgers, pc, op, fired, crashes>>

Save == /\ revision < MaxRevision
        /\ revision' = revision + 1
        /\ UNCHANGED <<head, ledgers, pc, op, fired, crashes>>

Die(p) == /\ crashes < MaxCrashes /\ crashes' = crashes + 1
          /\ Finish(p)
          /\ UNCHANGED <<head, revision, conflicts, fired>>

Crash(p) == /\ pc[p] # "idle"
            /\ Die(p)
            /\ UNCHANGED <<releases, deployments, submissions>>

TearRelease(p) ==
    /\ pc[p] = "freeze" /\ Readable(releases) /\ Room(releases)
    /\ op[p].candidate \notin Records(releases)
    /\ releases' \in Torn(releases, op[p].candidate)
    /\ Die(p)
    /\ UNCHANGED <<deployments, submissions>>

TearDeploy(p) ==
    /\ pc[p] = "deploy" /\ Readable(deployments) /\ Room(deployments)
    /\ deployments' \in Torn(deployments,
           Deployment(op[p].payload, NextAttempt(deployments, op[p].payload.id)))
    /\ Die(p)
    /\ UNCHANGED <<releases, submissions>>

TearEnvelope(x) ==
    /\ crashes < MaxCrashes /\ crashes' = crashes + 1
    /\ Readable(deployments) /\ Room(deployments) /\ WithKey(x.key) = {}
    /\ deployments' \in Torn(deployments, Deployment(x, NextAttempt(deployments, x.id)))
    /\ UNCHANGED <<head, revision, releases, submissions, conflicts, pc, op, fired>>

TearSubmit(p) ==
    /\ pc[p] = "record" /\ Room(submissions)
    /\ submissions' \in Torn(submissions, Submission(p))
    /\ Die(p)
    /\ UNCHANGED <<releases, deployments>>

------------------------------------------------------------------------------
ReleaseStep(p) == BeginRelease(p) \/ PinRelease(p) \/ Freeze(p) \/ TearRelease(p)

DeployStep(p) == BeginDeploy(p) \/ RecordDeploy(p) \/ TearDeploy(p)

SubmitStep(p) == BeginSubmit(p) \/ RunSubmit(p) \/ RecordSubmit(p) \/ TearSubmit(p)

Next == \/ \E p \in Procs : ReleaseStep(p) \/ DeployStep(p) \/ SubmitStep(p) \/ Crash(p)
        \/ \E x \in Envelopes : ApplyEnvelope(x) \/ TearEnvelope(x)
        \/ Commit \/ Save

Spec == Init /\ [][Next]_vars

------------------------------------------------------------------------------
Submitted == [head : Heads, exit : {0, 1}]

Attempt == [id : DeploymentId, key : Keys, status : Status, envelope : BOOLEAN,
            attempt : 1..MaxLines]

IsLedger(l, R) == /\ l \in [lines : Seq(R \cup {Glued}), tail : Tails]
                  /\ Len(l.lines) <= MaxLines
                  /\ l.tail = "whole" => l.lines # <<>>

Steps == {"idle", "release", "freeze", "deploy", "submit", "record"}

\* What a process carries at a step.
Doing == [step \in Steps |->
    CASE step = "idle"    -> {Idle}
      [] step = "release" -> [what : {"release"}, revision : 1..MaxRevision,
                              artifact : Artifacts]
      [] step = "freeze"  -> [what : {"freeze"}, candidate : Candidate]
      [] step = "deploy"  -> [what : {"deploy"}, payload : Payload]
      [] step = "submit"  -> [what : {"submit"}, head : Heads, resubmit : BOOLEAN]
      [] step = "record"  -> [what : {"record"}, head : Heads, exit : {0, 1}]]

TypeOK == /\ head \in Heads /\ revision \in 1..MaxRevision
          /\ IsLedger(releases, Candidate)
          /\ IsLedger(deployments, Attempt)
          /\ IsLedger(submissions, Submitted)
          /\ conflicts \subseteq Attempt
          /\ pc \in [Procs -> Steps] /\ op = [p \in Procs |-> op[p]]
          /\ \A p \in Procs : op[p] \in Doing[pc[p]]
          /\ fired \in [Heads -> [BOOLEAN -> Nat]]
          /\ crashes \in 0..MaxCrashes

(***************************************************************************)
(* A deployment that deploy records belongs to a candidate that was frozen *)
(* and still is, and no candidate is frozen twice; deploy looks it up      *)
(* without the lock while others freeze.  A second crash may take a        *)
(* candidate that the first one left without its line feed.                *)
(***************************************************************************)
BoundToRelease ==
    Readable(releases) /\ crashes <= 1 =>
       /\ \A i, j \in DOMAIN releases.lines : i # j => releases.lines[i] # releases.lines[j]
       /\ \A d \in Records(deployments) : ~d.envelope => d.id.release \in Records(releases)

(***************************************************************************)
(* An envelope takes effect once, however often it is delivered: its key   *)
(* was never in the ledger before, and its own record is never what it     *)
(* conflicts with.                                                         *)
(***************************************************************************)
EnvelopeOnce ==
    crashes <= 1 =>
       /\ \A i \in DOMAIN deployments.lines :
             deployments.lines[i] # Glued /\ deployments.lines[i].envelope
                => \A j \in 1..(i - 1) : deployments.lines[j] # Glued
                                            => deployments.lines[j].key # deployments.lines[i].key
       /\ \A c \in conflicts : c \notin Records(deployments)

(***************************************************************************)
(* The submission ledger is a full audit trail: unless a process dies,     *)
(* each successful submission has its own record, resubmissions included.  *)
(***************************************************************************)
AuditComplete ==
    crashes = 0 =>
       \A h \in Heads :
          fired[h][TRUE] + fired[h][FALSE] =
             Cardinality({i \in DOMAIN submissions.lines :
                             submissions.lines[i].head = h /\ submissions.lines[i].exit = 0})
             + Cardinality({p \in Procs : pc[p] = "record" /\ op[p].head = h /\ op[p].exit = 0})

(***************************************************************************)
(* core/submit.go:94-96 promises that a double fire at the same HEAD is   *)
(* refused unless the operator asks for it.  The code does not keep this:  *)
(* the ledger is read before the command runs and written after it.        *)
(***************************************************************************)
SubmittedOnce == \A h \in Heads : fired[h][FALSE] <= 1

==============================================================================
