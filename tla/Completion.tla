----------------------------- MODULE Completion -----------------------------
(***************************************************************************)
(* How a task of one spec becomes complete: the driver session a host      *)
(* opens and acknowledges context under (core/session.go, cmd/session.go), *)
(* the evidence verify records (cmd/verify.go, core/evidence.go), the      *)
(* escalation ratchet (core/escalation.go), the run ledger                 *)
(* (core/runledger.go) and complete-task itself (cmd/lifecycle.go).        *)
(*                                                                         *)
(* A member of Procs is one running command.  A command that takes the     *)
(* spec lock holds it from its first locked step to its last; verify, the  *)
(* first half of `session open` and the appends to evidence.jsonl run      *)
(* without it.  A task stands for its row, its declared file and its       *)
(* verify command.                                                         *)
(***************************************************************************)
EXTENDS Integers, Sequences, FiniteSets

CONSTANTS
  Tasks,        \* the rows of tasks.md
  TestTasks,    \* those whose quality contract requires a test envelope
  Procs,        \* commands that may run at the same time
  None,         \* absent
  MaxFails,     \* escalation.max_verify_fails; 0 disables the ratchet
  MaxHead, MaxSessions, MaxAcks, MaxNonces, MaxEvidence, MaxAttempt,
  MaxClock, MaxCrashes \* bounds of an instance

ASSUME TasksAssumption == TestTasks \subseteq Tasks
ASSUME ProcsAssumption == IsFiniteSet(Procs)
ASSUME NoneAssumption == None \notin Tasks /\ None \notin Procs /\ None \notin Nat
ASSUME BoundsAssumption ==
  /\ MaxFails \in Nat /\ MaxHead \in Nat /\ MaxSessions \in Nat /\ MaxAcks \in Nat
  /\ MaxNonces \in Nat /\ MaxEvidence \in Nat /\ MaxAttempt \in Nat \ {0}
  /\ MaxClock \in Nat /\ MaxCrashes \in Nat

VARIABLES
  session,    \* driver-session.json
  issued,     \* the <<session, nonce>> pairs `session action` has printed
  status,     \* state.json: the tasks it calls complete
  doc,        \* tasks.md: the tasks that carry the complete marker
  attempt,    \* workflow-events.jsonl: the current attempt of each task
  evidence,   \* evidence.jsonl
  overrides,  \* overrides.jsonl
  runs,       \* runs.jsonl: the attempts allocated to each task, in order
  evals,      \* the eval store: heads a test envelope of a task was stamped for
  head,       \* git HEAD
  docAt,      \* git: tasks.md as committed at each head
  changed,    \* git: the commit a task's declared file last changes in
              \* (head + 1: it differs from HEAD in the work tree)
  clock,      \* the second Clock() is in
  lock,       \* who holds the spec lock
  local,      \* the program counter and local data of each command
  used,       \* history: the bindings under which a task was completed
  opened, acks, crashes \* budgets: sessions opened, acks begun, crashes

files == <<session, issued, status, doc, attempt, evidence, overrides, runs, evals>>
world == <<head, docAt, changed, clock>>
budgets == <<opened, acks, crashes>>
vars == <<files, world, lock, local, used, budgets>>

Heads == 0 .. MaxHead
Nonces == 1 .. MaxNonces
SessionIds == 1 .. MaxSessions
Attempts == 1 .. MaxAttempt
Outcomes == {"pass", "fail", "zero"}

(* ContextReceipt: whose context was acknowledged, and whether in full; `of`
   is the session the ack read before it started writing.                   *)
Receipt == [task : Tasks, complete : BOOLEAN, of : SessionIds]

(* DriverSession without what never changes after open. *)
Session == [id : SessionIds, revision : Nat, base : Heads,
            receipt : Receipt \cup {None}, authority : Receipt \cup {None},
            spent : SUBSET Nonces, expired : BOOLEAN]

ASSUME SessionAssumption == None \notin Session

(* EvidenceRecord: exit 0 is "pass" or, when no test ran, "zero". *)
Record == [task : Tasks, outcome : Outcomes, head : Heads,
           attempt : Attempts, at : 0 .. MaxClock]

Override == [task : Tasks, at : 0 .. MaxClock]

Binding == [session : SessionIds, nonce : Nonces] \cup {None}

Idle == [pc |-> "idle"]

Local ==
  {Idle}
  \cup [pc : {"save"}, id : SessionIds, seen : Nat, base : Heads]
  \cup [pc : {"rotate", "record", "bind"}, receipt : Receipt, base : Heads]
  \cup [pc : {"verify"}, task : Tasks]
  \cup [pc : {"append"}, record : Record]
  \cup [pc : {"allocate"}, task : Tasks, head : Heads, passed : BOOLEAN]
  \cup [pc : {"stamp"}, task : Tasks, head : Heads]
  \cup [pc : {"spend"}, task : Tasks, head : Heads, binding : Binding, outcome : Outcomes]
  \cup [pc : {"write"}, task : Tasks, head : Heads, binding : Binding]
  \cup [pc : {"mark"}, task : Tasks, head : Heads, before : SUBSET Tasks]
  \cup [pc : {"annotate"}, task : Tasks, head : Heads]

(* Program counters at which the command holds the spec lock. *)
Locked == {"spend", "write", "mark", "annotate"}

Init ==
  /\ session = None /\ issued = {}
  /\ status = {} /\ doc = {} /\ attempt = [t \in Tasks |-> 1]
  /\ evidence = <<>> /\ overrides = <<>>
  /\ runs = [t \in Tasks |-> <<>>] /\ evals = [t \in Tasks |-> {}]
  /\ head = 0 /\ docAt = [h \in Heads |-> {}] /\ changed = [t \in Tasks |-> 0]
  /\ clock = 0 /\ lock = None /\ local = [p \in Procs |-> Idle]
  /\ used = {} /\ opened = 0 /\ acks = 0 /\ crashes = 0

-----------------------------------------------------------------------------
(* Helpers. *)

Goto(p, l) == local' = [local EXCEPT ![p] = l]
At(p, pc) == local[p].pc = pc

(* ExitCode == 0 *)
Passed(r) == r.outcome # "fail"

(* LoadEvidence: the last record of a task bound to its current attempt. *)
BoundTo(t) == {i \in DOMAIN evidence :
                 evidence[i].task = t /\ evidence[i].attempt = attempt[t]}
HasEvidence(t) == BoundTo(t) # {}
Latest(t) ==
  evidence[CHOOSE i \in BoundTo(t) : \A j \in BoundTo(t) : j <= i]

(* ConsecutiveVerifyFails merges evidence and overrides by second; within a
   second an override sorts last, records stay in append order.  A failure
   counts unless a pass or an override of its task sorts after it.          *)
SortsAfter(j, i) ==
  evidence[j].at > evidence[i].at \/ (evidence[j].at = evidence[i].at /\ j > i)
Counts(t, i) ==
  /\ evidence[i].task = t /\ ~Passed(evidence[i])
  /\ \A j \in DOMAIN evidence :
       evidence[j].task = t /\ Passed(evidence[j]) => ~SortsAfter(j, i)
  /\ \A k \in DOMAIN overrides :
       overrides[k].task = t => overrides[k].at < evidence[i].at
FailCount(t) == Cardinality({i \in DOMAIN evidence : Counts(t, i)})
Escalated(t) == MaxFails > 0 /\ FailCount(t) >= MaxFails

(* session.ID != "" && !session.Expired(now) *)
Live == session # None /\ ~session.expired

(* enforceDiffScope against the session's baseline: the declared files of
   the other tasks that differ from it, and tasks.md unless its difference is
   the markers of the tasks state.json calls complete.                       *)
Diff(b) == {t \in Tasks : changed[t] > b}
OutsideScope(t, b) == Diff(b) \ {t} # {}
MarkersAttributable(b) == doc = docAt[b] \/ doc = docAt[b] \cup status
InScope(t) ==
  session # None => ~OutsideScope(t, session.base) /\ MarkersAttributable(session.base)

(* sessionBinding and ValidateOperation.  An expired session still refuses:
   the empty binding it yields does not name the session.                    *)
BindingValid(b) ==
  session # None =>
    /\ ~session.expired /\ b # None /\ b.session = session.id
    /\ session.receipt # None /\ session.receipt.complete
    /\ session.authority # None /\ b.nonce \notin session.spent

-----------------------------------------------------------------------------
(* The revision LoadDriverSession reports; a missing file has revision 0. *)
FileRevision == IF session = None THEN 0 ELSE session.revision

(* specd session open: load without the lock, compare-and-swap with it. *)

OpenRead(p) ==
  /\ At(p, "idle") /\ opened < MaxSessions /\ opened' = opened + 1
  /\ Goto(p, [pc |-> "save", id |-> opened + 1, seen |-> FileRevision, base |-> head])
  /\ UNCHANGED <<files, world, lock, used, acks, crashes>>

OpenSave(p) ==
  /\ At(p, "save") /\ lock = None /\ Goto(p, Idle)
  /\ session' = IF FileRevision = local[p].seen
                THEN [id |-> local[p].id, revision |-> local[p].seen + 1,
                      base |-> local[p].base, receipt |-> None, authority |-> None,
                      spent |-> {}, expired |-> FALSE]
                ELSE session
  /\ UNCHANGED <<issued, status, doc, attempt, evidence, overrides, runs, evals,
                 world, lock, used, budgets>>

(* BuildContextReceipt: complete when every required digest was supplied. *)
Acknowledged(t, full) == [task |-> t, complete |-> full, of |-> session.id]

(* specd session ack: reads the session, then three locked writes. *)
AckBegin(p, t, full) ==
  /\ At(p, "idle") /\ Live /\ acks < MaxAcks
  /\ acks' = acks + 1
  /\ Goto(p, [pc |-> "rotate", base |-> head,
              receipt |-> Acknowledged(t, full)])
  /\ UNCHANGED <<files, world, lock, used, opened, crashes>>

(* The check the three writes repeat: still the session that was read. *)
SessionKnown(id) == Live /\ session.id = id

AckWrite(p, next, then) ==
  /\ lock = None
  /\ IF SessionKnown(local[p].receipt.of)
     THEN session' = [next EXCEPT !.revision = @ + 1] /\ Goto(p, then)
     ELSE UNCHANGED session /\ Goto(p, Idle)
  /\ UNCHANGED <<issued, status, doc, attempt, evidence, overrides, runs, evals,
                 world, lock, used, budgets>>

AckRotate_Replaces(p) ==
  /\ At(p, "rotate")
  /\ AckWrite(p, [session EXCEPT !.base = local[p].base, !.receipt = None,
                                 !.authority = None, !.spent = {}],
              [local[p] EXCEPT !.pc = "record"])

AckRotate(p) ==
  /\ At(p, "rotate")
  /\ AckWrite(p, [session EXCEPT !.base = local[p].base, !.receipt = None, !.authority = None],
              [local[p] EXCEPT !.pc = "record"])

AckRecord(p) ==
  /\ At(p, "record")
  /\ AckWrite(p, [session EXCEPT !.receipt = local[p].receipt],
              IF local[p].receipt.complete THEN [local[p] EXCEPT !.pc = "bind"] ELSE Idle)

(* AuthorizeWithReceipt let the packet through: the receipt is complete. *)
AckBind(p) ==
  /\ At(p, "bind") /\ local[p].receipt.complete
  /\ AckWrite(p, [session EXCEPT !.authority = local[p].receipt], Idle)

(* specd session close *)
Close ==
  /\ lock = None /\ session # None /\ session' = None
  /\ UNCHANGED <<issued, status, doc, attempt, evidence, overrides, runs, evals,
                 world, lock, local, used, budgets>>

(* specd session action: mints a nonce, writes nothing. *)
MintNonce ==
  /\ Live /\ Cardinality(issued) < MaxNonces
  /\ issued' = issued \cup {[session |-> session.id, nonce |-> Cardinality(issued) + 1]}
  /\ UNCHANGED <<session, status, doc, attempt, evidence, overrides, runs, evals,
                 world, lock, local, used, budgets>>

-----------------------------------------------------------------------------
(* specd verify: the ratchet is read before the command runs, HEAD after it,
   the record is stamped and then appended, nothing of it under the lock.    *)

VerifyBegin_NoRatchet(p, t) ==
  /\ At(p, "idle") /\ Len(evidence) < MaxEvidence
  /\ Goto(p, [pc |-> "verify", task |-> t])
  /\ UNCHANGED <<files, world, lock, used, budgets>>

VerifyBegin(p, t) ==
  /\ At(p, "idle") /\ ~Escalated(t) /\ Len(evidence) < MaxEvidence
  /\ Goto(p, [pc |-> "verify", task |-> t])
  /\ UNCHANGED <<files, world, lock, used, budgets>>

VerifyRan(p, o) ==
  /\ At(p, "verify")
  /\ Goto(p, [pc |-> "append",
              record |-> [task |-> local[p].task, outcome |-> o, head |-> head,
                          attempt |-> attempt[local[p].task], at |-> clock]])
  /\ UNCHANGED <<files, world, lock, used, budgets>>

(* AppendEvidence *)
VerifyAppend(p) ==
  /\ At(p, "append")
  /\ evidence' = Append(evidence, local[p].record)
  /\ LET r == local[p].record
     IN Goto(p, [pc |-> "allocate", task |-> r.task, head |-> r.head, passed |-> Passed(r)])
  /\ UNCHANGED <<session, issued, status, doc, attempt, overrides, runs, evals,
                 world, lock, used, budgets>>

(* nextRunIdentity: one past the highest attempt of the task's chain. *)
NextRun(t) ==
  IF runs[t] = <<>> THEN 1
  ELSE 1 + (CHOOSE n \in {runs[t][i] : i \in DOMAIN runs[t]} :
              \A i \in DOMAIN runs[t] : runs[t][i] <= n)

AllocateRun(p) ==
  /\ At(p, "allocate") /\ lock = None
  /\ LET t == local[p].task
     IN /\ runs' = [runs EXCEPT ![t] = Append(@, NextRun(t))]
        /\ Goto(p, IF local[p].passed
                   THEN [pc |-> "stamp", task |-> t, head |-> local[p].head] ELSE Idle)
  /\ UNCHANGED <<session, issued, status, doc, attempt, evidence, overrides, evals,
                 world, lock, used, budgets>>

(* BuildVerifyEnvelopes, AppendEval *)
StampEnvelope(p) ==
  /\ At(p, "stamp") /\ Goto(p, Idle)
  /\ LET l == local[p]
     IN evals' = IF l.task \in TestTasks
                 THEN [evals EXCEPT ![l.task] = @ \cup {l.head}] ELSE evals
  /\ UNCHANGED <<session, issued, status, doc, attempt, evidence, overrides, runs,
                 world, lock, used, budgets>>

(* specd task --override *)
ClearEscalation(t) ==
  /\ lock = None /\ Escalated(t)
  /\ overrides' = Append(overrides, [task |-> t, at |-> clock])
  /\ UNCHANGED <<session, issued, status, doc, attempt, evidence, runs, evals,
                 world, lock, local, used, budgets>>

-----------------------------------------------------------------------------
(* specd complete-task *)

(* EvaluateQuality: a required envelope is fresh when it names HEAD. *)
QualityMet(t) == t \in TestTasks => head \in evals[t]

EvidenceReady(t) ==
  HasEvidence(t) /\ Passed(Latest(t)) /\ Latest(t).head = head /\ QualityMet(t)

(* verifyEvidenceReady, asked only after the nonce is spent. *)
StatusPassing(outcome) == outcome = "pass"

CompleteBegin(p, t, b) ==
  /\ At(p, "idle") /\ lock = None
  /\ EvidenceReady(t) /\ BindingValid(b) /\ InScope(t) /\ ~Escalated(t)
  /\ lock' = p
  /\ Goto(p, [pc |-> "spend", task |-> t, head |-> head, binding |-> b,
              outcome |-> Latest(t).outcome])
  /\ UNCHANGED <<files, world, used, budgets>>

(* enforceSessionBinding, then CompleteTaskWithQuality on the evidence that
   was loaded first: a record of a run that matched no test refuses here.    *)
CompleteSpend(p) ==
  LET l == local[p]
      b == l.binding
  IN /\ At(p, "spend")
     /\ session' = IF session # None /\ BindingValid(b)
                   THEN [session EXCEPT !.spent = @ \cup {b.nonce}, !.revision = @ + 1]
                   ELSE session
     /\ IF BindingValid(b) /\ StatusPassing(l.outcome)
        THEN /\ Goto(p, [pc |-> "write", task |-> l.task, head |-> l.head,
                         binding |-> IF session = None THEN None ELSE b])
             /\ UNCHANGED lock
        ELSE Goto(p, Idle) /\ lock' = None
     /\ UNCHANGED <<issued, status, doc, attempt, evidence, overrides, runs, evals,
                    world, used, budgets>>

(* SaveStateCAS *)
CompleteWrite(p) ==
  LET l == local[p]
  IN /\ At(p, "write")
     /\ Goto(p, [pc |-> "mark", task |-> l.task, head |-> l.head, before |-> status])
     /\ status' = status \cup {l.task}
     /\ used' = used \cup ({l.binding} \ {None})
     /\ UNCHANGED <<session, issued, doc, attempt, evidence, overrides, runs, evals,
                    world, lock, budgets>>

CompleteMark_NoRollback(p, written) ==
  LET l == local[p]
  IN /\ At(p, "mark") /\ UNCHANGED status
     /\ IF written
        THEN /\ doc' = doc \cup {l.task} /\ UNCHANGED lock
             /\ Goto(p, [pc |-> "annotate", task |-> l.task, head |-> l.head])
        ELSE UNCHANGED doc /\ Goto(p, Idle) /\ lock' = None
     /\ UNCHANGED <<session, issued, attempt, evidence, overrides, runs, evals,
                    world, used, budgets>>

(* taskCompleteAtomicWrite; when it fails the state loaded before the save
   is put back.                                                              *)
CompleteMark(p, written) ==
  LET l == local[p]
  IN /\ At(p, "mark")
     /\ IF written
        THEN /\ doc' = doc \cup {l.task} /\ UNCHANGED <<status, lock>>
             /\ Goto(p, [pc |-> "annotate", task |-> l.task, head |-> l.head])
        ELSE /\ status' = l.before /\ UNCHANGED doc
             /\ Goto(p, Idle) /\ lock' = None
     /\ UNCHANGED <<session, issued, attempt, evidence, overrides, runs, evals,
                    world, used, budgets>>

(* With telemetry flags a supplementary record is appended. *)
CompleteAnnotate(p, telemetry) ==
  /\ At(p, "annotate") /\ Goto(p, Idle) /\ lock' = None
  /\ LET l == local[p]
     IN evidence' = IF telemetry /\ Len(evidence) < MaxEvidence
                    THEN Append(evidence, [task |-> l.task, outcome |-> "pass", head |-> l.head,
                                           attempt |-> attempt[l.task], at |-> clock])
                    ELSE evidence
  /\ UNCHANGED <<session, issued, status, doc, attempt, overrides, runs, evals,
                 world, used, budgets>>

-----------------------------------------------------------------------------
(* Everybody else. *)

Reopen_MarkerOnly(t) ==
  /\ lock = None /\ t \in doc /\ attempt[t] < MaxAttempt
  /\ attempt' = [attempt EXCEPT ![t] = @ + 1] /\ doc' = doc \ {t}
  /\ UNCHANGED <<session, issued, status, evidence, overrides, runs, evals,
                 world, lock, local, used, budgets>>

(* `specd reopen <task>`, as far as completion sees it; module Workflow has
   its writes.                                                               *)
Reopen(t) ==
  /\ lock = None /\ t \in doc /\ attempt[t] < MaxAttempt
  /\ attempt' = [attempt EXCEPT ![t] = @ + 1]
  /\ status' = status \ {t} /\ doc' = doc \ {t}
  /\ UNCHANGED <<session, issued, evidence, overrides, runs, evals,
                 world, lock, local, used, budgets>>

Edit(t) ==
  /\ changed[t] <= head /\ changed' = [changed EXCEPT ![t] = head + 1]
  /\ UNCHANGED <<files, head, docAt, clock, lock, local, used, budgets>>

Commit ==
  /\ head < MaxHead /\ head' = head + 1
  /\ docAt' = [docAt EXCEPT ![head + 1] = doc]
  /\ UNCHANGED <<files, changed, clock, lock, local, used, budgets>>

Tick ==
  /\ clock < MaxClock /\ clock' = clock + 1
  /\ UNCHANGED <<files, head, docAt, changed, lock, local, used, budgets>>

Expire ==
  /\ Live /\ session' = [session EXCEPT !.expired = TRUE]
  /\ UNCHANGED <<issued, status, doc, attempt, evidence, overrides, runs, evals,
                 world, lock, local, used, budgets>>

(* A command dies; the next one takes a dead holder's lock over. *)
Crash(p) ==
  /\ ~At(p, "idle") /\ crashes < MaxCrashes /\ crashes' = crashes + 1
  /\ Goto(p, Idle) /\ lock' = IF lock = p THEN None ELSE lock
  /\ UNCHANGED <<files, world, used, opened, acks>>

Command(p) ==
  \/ OpenRead(p) \/ OpenSave(p)
  \/ \E t \in Tasks, full \in BOOLEAN : AckBegin(p, t, full)
  \/ AckRotate(p) \/ AckRecord(p) \/ AckBind(p)
  \/ \E t \in Tasks : VerifyBegin(p, t)
  \/ \E o \in Outcomes : VerifyRan(p, o)
  \/ VerifyAppend(p) \/ AllocateRun(p) \/ StampEnvelope(p)
  \/ \E t \in Tasks, b \in issued \cup {None} : CompleteBegin(p, t, b)
  \/ CompleteSpend(p) \/ CompleteWrite(p)
  \/ \E written \in BOOLEAN : CompleteMark(p, written)
  \/ \E telemetry \in BOOLEAN : CompleteAnnotate(p, telemetry)
  \/ Crash(p)

Environment ==
  \/ Close \/ MintNonce
  \/ \E t \in Tasks : ClearEscalation(t) \/ Reopen(t) \/ Edit(t)
  \/ Commit \/ Tick \/ Expire

Next == (\E p \in Procs : Command(p)) \/ Environment

Spec == Init /\ [][Next]_vars

-----------------------------------------------------------------------------
(* specd drive: the exact command a host is told to run next.              *)

(* The head of the frontier: the first task tasks.md does not call complete. *)
Selected == CHOOSE t \in Tasks \ doc : TRUE

DriveNextStep ==
  CASE doc = Tasks -> "done"
    [] doc # Tasks /\ ~Live -> "session open"
    [] doc # Tasks /\ Live
       /\ (session.receipt = None \/ ~session.receipt.complete \/ session.authority = None)
       -> "session ack"
    [] OTHER -> "session action"

FreshBindings == {b \in issued : b.session = session.id /\ b.nonce \notin session.spent}

(* One host that runs what drive names.  Told to act, it changes the task's
   file, verifies, mints a nonce and completes the task.                     *)
Started(p) ==
  \/ OpenSave(p) \/ AckRotate(p) \/ AckRecord(p) \/ AckBind(p)
  \/ VerifyRan(p, "pass") \/ VerifyAppend(p) \/ AllocateRun(p) \/ StampEnvelope(p)
  \/ CompleteSpend(p) \/ CompleteWrite(p) \/ CompleteMark(p, TRUE)
  \/ CompleteAnnotate(p, FALSE)

Act(p) ==
  \/ Edit(Selected)
  \/ ~EvidenceReady(Selected) /\ changed[Selected] > 0 /\ VerifyBegin(p, Selected)
  \/ FreshBindings = {} /\ MintNonce
  \/ changed[Selected] > 0 /\ \E b \in FreshBindings : CompleteBegin(p, Selected, b)

FollowDrive(p) ==
  \/ Started(p)
  \/ DriveNextStep = "session open" /\ OpenRead(p)
  \/ DriveNextStep = "session ack" /\ AckBegin(p, Selected, TRUE)
  \/ DriveNextStep = "session action" /\ Act(p)

HostNext == \E p \in Procs : FollowDrive(p)
HostSpec == Init /\ [][HostNext]_vars /\ WF_vars(HostNext)

-----------------------------------------------------------------------------
(* Properties. *)

TypeOK ==
  /\ session \in Session \cup {None}
  /\ issued \subseteq [session : SessionIds, nonce : Nonces]
  /\ status \subseteq Tasks /\ doc \subseteq Tasks /\ attempt \in [Tasks -> Attempts]
  /\ evidence \in Seq(Record) /\ overrides \in Seq(Override)
  /\ runs \in [Tasks -> Seq(Nat)] /\ evals \in [Tasks -> SUBSET Heads]
  /\ head \in Heads /\ docAt \in [Heads -> SUBSET Tasks]
  /\ changed \in [Tasks -> 0 .. MaxHead + 1] /\ clock \in 0 .. MaxClock
  /\ lock \in Procs \cup {None} /\ local \in [Procs -> Local]
  /\ used \subseteq [session : SessionIds, nonce : Nonces]
  /\ opened \in 0 .. MaxSessions /\ acks \in 0 .. MaxAcks /\ crashes \in 0 .. MaxCrashes

(* The command inside the critical section is the one the lock names. *)
LockHeld == \A p \in Procs : local[p].pc \in Locked <=> lock = p

(* A task state.json calls complete has a passing record of its current
   attempt: no reopen, rollback, crash or late append of an older attempt's
   record leaves it complete without one (runTaskComplete, AppendEvidence).  *)
Proven(t) == \E i \in BoundTo(t) : evidence[i].outcome = "pass"
EvidenceBacked == \A t \in status : Proven(t)

(* A nonce completes at most one task, and once: not twice after the task is
   reopened, nor after an ack rotates the session, nor in a session opened
   over it (SpendNonce, RotateDriverSession).                                *)
NonceSpentOnce ==
  \A p \in Procs : At(p, "write") /\ local[p].binding # None => local[p].binding \notin used

(* What the open session holds was acknowledged for it: an ack that read one
   session never writes its receipt or authority into the next one.          *)
AckOfSession ==
  session # None =>
    /\ session.receipt # None => session.receipt.of = session.id
    /\ session.authority # None => session.authority.of = session.id

(* state.json and tasks.md call the same tasks complete whenever no command
   is between its two writes, unless a crash separated them.                 *)
MarkersAgree == crashes = 0 /\ lock = None => status = doc

(* The escalation ratchet is checked before the command runs and counts after
   it, so verifies in flight can pass it; each by one failure and no more.   *)
InFlight(t) == {p \in Procs :
                  \/ At(p, "verify") /\ local[p].task = t
                  \/ At(p, "append") /\ local[p].record.task = t}
RatchetHolds ==
  MaxFails > 0 =>
    \A t \in Tasks : FailCount(t) + Cardinality(InFlight(t)) < MaxFails + Cardinality(Procs)

(* Attempts of a task's run chain are 1, 2, 3, ... without gap or repeat. *)
RunsNumbered == \A t \in Tasks : \A i \in DOMAIN runs[t] : runs[t][i] = i

(* What a command holds between its steps is still true of the files. *)
LocalSound ==
  \A p \in Procs :
    LET l == local[p]
    IN /\ l.pc = "spend" /\ StatusPassing(l.outcome) => Proven(l.task)
       /\ l.pc \in {"write", "mark", "annotate"} => Proven(l.task)
       /\ l.pc = "mark" => l.before \subseteq status /\ status = l.before \cup {l.task}
       /\ l.pc = "bind" => l.receipt.complete

(* Session ids are used once, also by an open that has not saved yet. *)
SessionsNumbered ==
  /\ session # None => session.id <= opened
  /\ \A b \in used : b.session <= opened
  /\ \A p \in Procs : At(p, "save") =>
       /\ local[p].id <= opened
       /\ session # None => session.id # local[p].id
       /\ \A b \in used : b.session # local[p].id
       /\ \A q \in Procs : q # p /\ At(q, "save") => local[q].id # local[p].id

(* The open session remembers every nonce a task was completed with under it. *)
NoncesRemembered ==
  /\ session # None => \A b \in used : b.session = session.id => b.nonce \in session.spent
  /\ \A p \in Procs : At(p, "write") /\ local[p].binding # None =>
       /\ session # None /\ local[p].binding.session = session.id
       /\ local[p].binding.nonce \in session.spent

(* Without a crash the files differ only inside complete-task. *)
MarkersInStep ==
  crashes = 0 =>
    IF \E p \in Procs : At(p, "mark")
    THEN \A p \in Procs : At(p, "mark") => local[p].before = doc
    ELSE status = doc

IInv ==
  /\ TypeOK /\ LockHeld /\ LocalSound /\ SessionsNumbered /\ NoncesRemembered
  /\ EvidenceBacked /\ NonceSpentOnce /\ AckOfSession /\ MarkersInStep /\ RunsNumbered

(* The nonce is spent only once the gates pass: a completion that spends one
   goes on to complete the task.                                             *)
SpentOnlyToComplete ==
  [][\A p \in Procs : CompleteSpend(p) /\ session' # session => At(p, "write")']_vars

(* A host that runs what drive names completes every task. *)
DriveReachesCompletion == <>(doc = Tasks)
=============================================================================
