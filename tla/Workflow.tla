------------------------------ MODULE Workflow ------------------------------
(***************************************************************************)
(* The workflow ledger of one spec: state.json, tasks.md, the append-only  *)
(* workflow-events.jsonl and the transaction journal beside it.            *)
(*                                                                         *)
(* The repairs (reopen, scope amendment, descendant resolution, undo) are  *)
(* event-first: recover, plan, journal, append the event, write tasks.md,  *)
(* save the projection, remove the journal.  The other commands            *)
(* (complete-task, approve, midreq, ...) save state.json and append no     *)
(* event.  Every command runs under WithSpecLock, so op holds at most one; *)
(* an action is the code up to its next write, and a command can die       *)
(* before any of them.                                                     *)
(*                                                                         *)
(* The prover and the checker see an event by its resulting revision,      *)
(* which the chain makes unique in the ledger; the code uses its digest.   *)
(***************************************************************************)
EXTENDS Integers, Sequences, SequencesExt

CONSTANTS
    Tasks,
    Dependents,    \* Dependents[t]: what depends on t, transitively (impactReach)
    Done,          \* the tasks complete at the start
    None,          \* no journal, no event
    FirstRevision, \* revision of state.json at the start
    MaxRevision,   \* bound: revisions of state.json
    MaxFaults      \* bound: commands that die, writes that fail

ASSUME DependentsAssumption ==
    /\ Dependents \in [Tasks -> SUBSET Tasks]
    /\ \A t \in Tasks : t \notin Dependents[t]
ASSUME TasksAssumption == Tasks # {} /\ Done \subseteq Tasks
ASSUME RevisionAssumption ==
    FirstRevision \in Nat \ {0} /\ MaxRevision \in Nat /\ MaxFaults \in Nat

VARIABLES
    state,      \* state.json
    doc,        \* tasks.md
    ledger,     \* complete lines of workflow-events.jsonl
    torn,       \* the ledger ends in a line without its newline
    journal,    \* workflow-events.jsonl.transaction.json: the event it holds
    lease,      \* session.json: attempt a live lease of the task was granted at, or 0
    evidence,   \* evidence.jsonl: passing verify records, by task and attempt
    op,         \* the command that holds the spec lock
    touched,    \* state.json or tasks.md was written outside the ledger since
                \* its last event
    faults

files == <<state, doc, ledger, torn, journal, lease, evidence>>
vars == <<state, doc, ledger, torn, journal, lease, evidence, op, touched, faults>>

Kinds == {"reopen", "amend", "spec", "artifact", "resolve", "undo"}
Status == [Tasks -> {"pending", "complete"}]
State == [rev : Nat, last : Nat, status : Status, records : Nat]
Doc == [mark : [Tasks -> {"pending", "running", "complete"}],
        scope : [Tasks -> BOOLEAN]]    \* the amended path is declared
Event == [kind : Kinds, task : Tasks, exp : Nat, res : Nat, attempt : Nat,
          hit : SUBSET Tasks, status : Status, records : Nat,
          before : Doc, after : Doc]
Steps == {"recover", "replay", "plan", "journal", "append", "artifact", "save",
          "unjournal", "mark"}
Op == [step : Steps, kind : Kinds \cup {"complete"}, task : Tasks,
       doc : Doc \cup {None},           \* tasks.md as the command read it
       back : State \cup {None},        \* rollbackState of complete-task
       event : Event \cup {None}]
Idle == [step |-> "idle"]

ASSUME NoneAssumption == None \notin Event

TypeOK ==
    /\ state \in State
    /\ doc \in Doc
    /\ ledger \in Seq(Event)
    /\ torn \in BOOLEAN
    /\ journal \in Event \cup {None}
    /\ lease \in [Tasks -> Nat]
    /\ evidence \subseteq Tasks \X Nat
    /\ op \in Op \cup {Idle}
    /\ touched \in BOOLEAN
    /\ faults \in Nat

-----------------------------------------------------------------------------
(* What the ledger says.                                                     *)

Tip == ledger[Len(ledger)]

LedgerEndsAt(rev) == ledger # <<>> => Tip.res = rev

\* The reopen events of t, by position.
Reopens(t) == {i \in DOMAIN ledger : ledger[i].kind = "reopen" /\ ledger[i].task = t}

CurrentTaskAttempt(t) ==
    IF Reopens(t) = {} THEN 1
    ELSE ledger[CHOOSE i \in Reopens(t) : \A j \in Reopens(t) : j <= i].attempt

\* An event that answers the staleness of d: its own reopen, or a resolution.
Answers(e, d) == e.task = d /\ e.kind \in {"reopen", "resolve"}

StaleDescendants ==
    {d \in Tasks : \E i \in DOMAIN ledger :
        /\ d \in ledger[i].hit
        /\ \A j \in DOMAIN ledger : j > i => ~Answers(ledger[j], d)}

\* The position of LastEventID; the events after it are not in state.json yet.
Checkpoint ==
    IF state.last = 0 THEN 0
    ELSE CHOOSE i \in DOMAIN ledger : ledger[i].res = state.last
Projected == Checkpoint = Len(ledger)
FirstUnprojected == ledger[Checkpoint + 1]

-----------------------------------------------------------------------------
(* Building an event.                                                        *)

\* NewWorkflowEvent on the recovered state.
NewEvent(kind, t, attempt, hit, status, records, after) ==
    [kind |-> kind, task |-> t, exp |-> state.rev, res |-> state.rev + 1,
     attempt |-> attempt, hit |-> hit, status |-> status, records |-> records,
     before |-> doc, after |-> after]

Projection(e) ==
    [rev |-> e.res, last |-> e.res, status |-> e.status, records |-> e.records]

\* The transition writes tasks.md too; scope amend attaches it even unchanged.
Bound(e) == e.kind = "amend" \/ e.before # e.after

TaskReopenEvent(t) ==
    NewEvent("reopen", t, CurrentTaskAttempt(t) + 1, Dependents[t],
             [state.status EXCEPT ![t] = "pending"], state.records,
             [doc EXCEPT !.mark[t] = "pending"])

ScopeAmendEvent(t) ==
    NewEvent("amend", t, 0, {}, state.status, state.records,
             [doc EXCEPT !.scope[t] = TRUE])

SpecReopenEvent(t) ==
    NewEvent("spec", t, 0, {}, [u \in Tasks |-> "pending"], state.records,
             [doc EXCEPT !.mark = [u \in Tasks |-> "pending"]])

\* An artifact reopen and a resolution change nothing kept here.
ArtifactReopenEvent(t) ==
    NewEvent("artifact", t, 0, {}, state.status, state.records, doc)

DescendantResolutionEvent(t) ==
    NewEvent("resolve", t, 0, {}, state.status, state.records, doc)

\* The projection of the predecessor's event; tasks.md is not part of it.
UndoCompensation ==
    LET prior == ledger[Len(ledger) - 1] IN
    NewEvent("undo", Tip.task, 0, {}, prior.status, prior.records, doc)

-----------------------------------------------------------------------------
(* RecoverWorkflowState, run first by every event-first command.  The code   *)
(* runs it again in Commit* and in CommitWorkflowTransition: under the lock  *)
(* those runs find nothing to do.                                            *)

Committed == \E i \in DOMAIN ledger : ledger[i] = journal

\* recoverTransitionArtifact accepts the journal it finds.
JournalFits ==
    \/ journal = None
    \/ /\ Committed
       /\ Tip = journal
       /\ state.rev \in {journal.exp, journal.res}
       /\ doc \in {journal.before, journal.after}
    \/ /\ journal # None /\ ~Committed
       /\ state.rev = journal.exp
       /\ LedgerEndsAt(journal.exp)
       /\ doc = journal.before

\* The event LastEventID names is in the ledger, at the revision of state.json.
CheckpointFits ==
    state.last # 0 =>
        /\ \E i \in DOMAIN ledger : ledger[i].res = state.last
        /\ state.rev = state.last

\* As a bug: an event is replayed whatever revision it expects.
ReplayFits_Always == TRUE

ReplayFits == ~Projected => FirstUnprojected.exp = state.rev

Recoverable == JournalFits /\ CheckpointFits /\ ReplayFits

\* The repairs of the whole spec name no task.
SomeTask == CHOOSE t \in Tasks : TRUE

\* A command loads tasks.md before it recovers.
Begin(kind, t) ==
    [step |-> "recover", kind |-> kind, task |-> t, doc |-> doc, back |-> None,
     event |-> None]

\* Bound: at the last revision only a command that has something to recover.
Start(kind, t) ==
    /\ op = Idle
    /\ state.rev < MaxRevision \/ journal # None \/ ~Projected
    /\ op' = Begin(kind, t)
    /\ UNCHANGED <<files, touched, faults>>

\* As a bug: any journal is dropped without finishing its write.
RecoverArtifact_Drops ==
    /\ op.step = "recover"
    /\ JournalFits
    /\ journal' = None
    /\ op' = [op EXCEPT !.step = "replay"]
    /\ UNCHANGED <<state, doc, ledger, torn, lease, evidence, touched, faults>>

\* An uncommitted journal is dropped, a committed one finishes its write of
\* tasks.md.
RecoverArtifact ==
    /\ op.step = "recover"
    /\ JournalFits
    /\ journal' = IF Committed THEN journal ELSE None
    /\ doc' = IF Committed THEN journal.after ELSE doc
    /\ op' = [op EXCEPT !.step = "replay"]
    /\ UNCHANGED <<state, ledger, torn, lease, evidence, touched, faults>>

ReplayEvent ==
    /\ op.step = "replay"
    /\ CheckpointFits /\ ~Projected /\ ReplayFits
    /\ state' = Projection(FirstUnprojected)
    /\ UNCHANGED <<doc, ledger, torn, journal, lease, evidence, op, touched, faults>>

Recovered ==
    /\ op.step = "replay"
    /\ CheckpointFits /\ Projected
    /\ journal' = None
    /\ op' = [op EXCEPT !.step = "plan"]
    /\ UNCHANGED <<state, doc, ledger, torn, lease, evidence, touched, faults>>

RecoverRefused ==
    /\ \/ op.step = "recover" /\ ~JournalFits
       \/ op.step = "replay" /\ ~(CheckpointFits /\ ReplayFits)
    /\ op' = Idle
    /\ UNCHANGED <<files, touched, faults>>

-----------------------------------------------------------------------------
(* Planning, and the writes of CommitWorkflowTransition.  The operator's     *)
(* --expect-revision, reason and consumption records are not kept: any plan  *)
(* may also be refused.                                                      *)

Commit(e) ==
    op' = [op EXCEPT !.step = IF Bound(e) THEN "journal" ELSE "append",
                     !.doc = None, !.event = e]

Plan(kind) ==
    /\ op.step = "plan" /\ op.kind = kind
    /\ state.rev < MaxRevision

\* As a bug: the attempt is opened without surrendering its leases.
PlanTaskReopen_KeepsLeases ==
    /\ Plan("reopen")
    /\ op.doc.mark[op.task] = "complete"
    /\ Commit(TaskReopenEvent(op.task))
    /\ UNCHANGED <<files, touched, faults>>

\* The leases of the task and of its dependents end before the event lands.
SurrenderLeases(t) ==
    lease' = [u \in Tasks |-> IF u \in {t} \cup Dependents[t] THEN 0 ELSE lease[u]]

\* Only a completed task, by the markers read before recovery.
PlanTaskReopen ==
    /\ Plan("reopen")
    /\ op.doc.mark[op.task] = "complete"
    /\ SurrenderLeases(op.task)
    /\ Commit(TaskReopenEvent(op.task))
    /\ UNCHANGED <<state, doc, ledger, torn, journal, evidence, touched, faults>>

\* Only while the task runs, and only a path it does not declare.
PlanScopeAmend ==
    /\ Plan("amend")
    /\ op.doc.mark[op.task] = "running" /\ ~op.doc.scope[op.task]
    /\ Commit(ScopeAmendEvent(op.task))
    /\ UNCHANGED <<files, touched, faults>>

PlanSpecReopen ==
    /\ Plan("spec")
    /\ Commit(SpecReopenEvent(op.task))
    /\ UNCHANGED <<files, touched, faults>>

PlanArtifactReopen ==
    /\ Plan("artifact")
    /\ Commit(ArtifactReopenEvent(op.task))
    /\ UNCHANGED <<files, touched, faults>>

PlanDescendantResolution ==
    /\ Plan("resolve")
    /\ op.task \in StaleDescendants
    /\ Commit(DescendantResolutionEvent(op.task))
    /\ UNCHANGED <<files, touched, faults>>

\* Only the latest event, with a predecessor, and never a compensation.
Undoable == Len(ledger) > 1 /\ Tip.kind # "undo"

PlanUndo ==
    /\ Plan("undo")
    /\ Undoable
    /\ Commit(UndoCompensation)
    /\ UNCHANGED <<files, touched, faults>>

PlanRefused ==
    /\ op.step = "plan"
    /\ op' = Idle
    /\ UNCHANGED <<files, touched, faults>>

\* As a bug: tasks.md is written before the event that announces it.
WriteJournal_WithArtifact ==
    /\ op.step = "journal"
    /\ journal' = op.event
    /\ doc' = op.event.after
    /\ op' = [op EXCEPT !.step = "append"]
    /\ UNCHANGED <<state, ledger, torn, lease, evidence, touched, faults>>

WriteJournal ==
    /\ op.step = "journal"
    /\ doc = op.event.before
    /\ journal' = op.event
    /\ op' = [op EXCEPT !.step = "append"]
    /\ UNCHANGED <<state, doc, ledger, torn, lease, evidence, touched, faults>>

\* AppendWorkflowEvent: one more line, on the revision of the last one; a torn
\* line is cut off.
AppendLine(e) ==
    /\ LedgerEndsAt(e.exp)
    /\ ledger' = Append(ledger, e)
    /\ torn' = FALSE

AppendWorkflowEvent ==
    /\ op.step = "append"
    /\ AppendLine(op.event)
    /\ op' = [op EXCEPT !.step = IF Bound(op.event) THEN "artifact" ELSE "save"]
    /\ touched' = FALSE
    /\ UNCHANGED <<state, doc, journal, lease, evidence, faults>>

WriteArtifact ==
    /\ op.step = "artifact"
    /\ doc' = op.event.after
    /\ op' = [op EXCEPT !.step = "save"]
    /\ UNCHANGED <<state, ledger, torn, journal, lease, evidence, touched, faults>>

SaveProjection ==
    /\ op.step = "save"
    /\ state.rev = op.event.exp
    /\ state' = Projection(op.event)
    /\ op' = IF Bound(op.event) THEN [op EXCEPT !.step = "unjournal"] ELSE Idle
    /\ UNCHANGED <<doc, ledger, torn, journal, lease, evidence, touched, faults>>

RemoveJournal ==
    /\ op.step = "unjournal"
    /\ journal' = None
    /\ op' = Idle
    /\ UNCHANGED <<state, doc, ledger, torn, lease, evidence, touched, faults>>

-----------------------------------------------------------------------------
(* The commands that save state.json without an event.                       *)

\* complete-task, with passing evidence for the current attempt.
CompleteTask(t) ==
    /\ op = Idle
    /\ state.rev + 1 < MaxRevision
    /\ <<t, CurrentTaskAttempt(t)>> \in evidence
    /\ state' = [state EXCEPT !.rev = @ + 1, !.status[t] = "complete"]
    /\ op' = [Begin("complete", t) EXCEPT !.step = "mark", !.back = state]
    /\ touched' = TRUE
    /\ UNCHANGED <<doc, ledger, torn, journal, lease, evidence, faults>>

Completed == [op.doc EXCEPT !.mark[op.task] = "complete"]

MarkComplete ==
    /\ op.step = "mark"
    /\ doc' = Completed
    /\ op' = Idle
    /\ UNCHANGED <<state, ledger, torn, journal, lease, evidence, touched, faults>>

\* The write of tasks.md reports an error, perhaps only of its last fsync; the
\* old state is saved back, two revisions on.
MarkFails(late) ==
    /\ op.step = "mark"
    /\ faults < MaxFaults
    /\ doc' = IF late THEN Completed ELSE doc
    /\ state' = [op.back EXCEPT !.rev = state.rev + 1]
    /\ op' = Idle
    /\ faults' = faults + 1
    /\ UNCHANGED <<ledger, torn, journal, lease, evidence, touched>>

\* midreq or decision; approve, orchestrate, spike, clarify and the security
\* gate save the same way.
AppendScoped ==
    /\ op = Idle
    /\ state.rev < MaxRevision
    /\ state' = [state EXCEPT !.rev = @ + 1, !.records = @ + 1]
    /\ touched' = TRUE
    /\ UNCHANGED <<doc, ledger, torn, journal, lease, evidence, op, faults>>

-----------------------------------------------------------------------------
(* The rest of the session.                                                  *)

\* specd verify passes: the record is bound to the current attempt.  It takes
\* no lock, but only complete-task reads the record, in one action: between
\* commands is as good as during one.
Verify(t) ==
    /\ op = Idle
    /\ <<t, CurrentTaskAttempt(t)>> \notin evidence
    /\ evidence' = evidence \cup {<<t, CurrentTaskAttempt(t)>>}
    /\ UNCHANGED <<state, doc, ledger, torn, journal, lease, op, touched, faults>>

\* brain claim leases a task whose marker is not complete.
ClaimMission(t) ==
    /\ op = Idle
    /\ lease[t] = 0 /\ doc.mark[t] # "complete"
    /\ lease' = [lease EXCEPT ![t] = CurrentTaskAttempt(t)]
    /\ UNCHANGED <<state, doc, ledger, torn, journal, evidence, op, touched, faults>>

\* tasks.md is edited by hand between commands: no command writes this marker.
EditTasks(t) ==
    /\ op = Idle
    /\ doc.mark[t] = "pending"
    /\ doc' = [doc EXCEPT !.mark[t] = "running"]
    /\ touched' = TRUE
    /\ UNCHANGED <<state, ledger, torn, journal, lease, evidence, op, faults>>

\* The command dies before its next write; an append may leave half a line.
Crash ==
    /\ op # Idle
    /\ faults < MaxFaults
    /\ torn' \in IF op.step = "append" THEN {torn, TRUE} ELSE {torn}
    /\ op' = Idle
    /\ faults' = faults + 1
    /\ UNCHANGED <<state, doc, ledger, journal, lease, evidence, touched>>

\* The append fails, perhaps after half a line: the journal is dropped.
AppendFails ==
    /\ op.step = "append"
    /\ faults < MaxFaults
    /\ torn' \in {torn, TRUE}
    /\ journal' = None
    /\ op' = Idle
    /\ faults' = faults + 1
    /\ UNCHANGED <<state, doc, ledger, lease, evidence, touched>>

\* The append is durable but its fsync reports an error: tasks.md rolls
\* forward, the command stops.
AppendLateError ==
    /\ op.step = "append"
    /\ faults < MaxFaults
    /\ AppendLine(op.event)
    /\ doc' = IF Bound(op.event) THEN op.event.after ELSE doc
    /\ op' = Idle
    /\ touched' = FALSE
    /\ faults' = faults + 1
    /\ UNCHANGED <<state, journal, lease, evidence>>

Init ==
    /\ state = [rev |-> FirstRevision, last |-> 0, records |-> 0, status |->
                [t \in Tasks |-> IF t \in Done THEN "complete" ELSE "pending"]]
    /\ doc = [mark |-> state.status, scope |-> [t \in Tasks |-> FALSE]]
    /\ evidence = Done \X {1}
    /\ ledger = <<>> /\ torn = FALSE
    /\ journal = None
    /\ lease = [t \in Tasks |-> 0]
    /\ op = Idle
    /\ touched = FALSE
    /\ faults = 0

Repair ==
    \/ \E kind \in {"reopen", "amend", "resolve"}, t \in Tasks : Start(kind, t)
    \/ \E kind \in {"spec", "artifact", "undo"} : Start(kind, SomeTask)
    \/ RecoverArtifact \/ ReplayEvent \/ Recovered \/ RecoverRefused
    \/ PlanTaskReopen \/ PlanScopeAmend \/ PlanSpecReopen \/ PlanArtifactReopen
    \/ PlanDescendantResolution \/ PlanUndo \/ PlanRefused
    \/ WriteJournal \/ AppendWorkflowEvent \/ WriteArtifact \/ SaveProjection
    \/ RemoveJournal

Direct ==
    \/ \E t \in Tasks : CompleteTask(t)
    \/ MarkComplete
    \/ AppendScoped

Environment ==
    \/ \E t \in Tasks : Verify(t) \/ ClaimMission(t) \/ EditTasks(t)
    \/ Crash \/ AppendFails \/ AppendLateError
    \/ \E late \in BOOLEAN : MarkFails(late)

Next == Repair \/ Direct \/ Environment

Spec == Init /\ [][Next]_vars

-----------------------------------------------------------------------------
(* Properties.                                                               *)

\* Each event follows the one before it.
LedgerIsChain ==
    \A i \in DOMAIN ledger :
        /\ ledger[i].res = ledger[i].exp + 1
        /\ i > 1 => ledger[i].exp = ledger[i - 1].res

\* What state.json names as its checkpoint is in the ledger.
CheckpointInLedger ==
    state.last # 0 => \E i \in DOMAIN ledger : ledger[i].res = state.last

\* What a command in flight has established at each step.
CommandSound ==
    /\ op.step \in {"recover", "replay", "plan"} => op.doc \in Doc
    /\ op.step = "mark" =>
        /\ op.doc \in Doc /\ op.back \in State
        /\ op.back.last = state.last /\ op.back.records = state.records
    /\ op.step \in {"plan", "journal", "append"} =>
        LedgerEndsAt(state.rev) /\ (ledger # <<>> => state.last = state.rev)
    /\ op.step \in {"journal", "append", "artifact", "save"} =>
        op.event \in Event /\ op.event.exp = state.rev /\ op.event.res = state.rev + 1
    /\ op.step \in {"journal", "append"} => op.event.records = state.records
    /\ op.step = "journal" => doc = op.event.before
    /\ op.step \in {"artifact", "save"} => ledger # <<>> /\ Tip = op.event

\* No event expects a later revision than the one of state.json; all events
\* carry the same records (any other record moves the revision away from the
\* chain), and so does state.json while an event is due or was saved last.
RecordsAgree ==
    /\ state.last <= state.rev
    /\ \A i \in DOMAIN ledger :
        /\ ledger[i].exp <= state.rev
        /\ \/ ledger[i].exp = state.rev
           \/ ledger[i].res = state.rev /\ state.last = state.rev
           => ledger[i].records = state.records
        /\ i > 1 => ledger[i].records = ledger[i - 1].records

\* The ledger is a chain, state.json names an event of it and agrees with it,
\* and a command in flight holds what recovery and planning established
\* (AppendWorkflowEvent, RecoverWorkflowState, CommitWorkflowTransition).
IInv == TypeOK /\ LedgerIsChain /\ CheckpointInLedger /\ CommandSound /\ RecordsAgree

\* Later events expect later revisions.
LedgerIsOrdered ==
    \A i, j \in DOMAIN ledger : i < j => ledger[i].res <= ledger[j].exp

\* With nothing written outside the ledger, state.json has or awaits the last
\* event, tasks.md has it or the journal holds it, and a journal whose event is
\* not in the ledger was overtaken by nothing.
AtRest ==
    /\ ledger # <<>> =>
        /\ \/ state = Projection(Tip)
           \/ /\ state.rev = Tip.exp
              /\ state.last = IF Len(ledger) = 1 THEN 0 ELSE state.rev
        /\ doc = Tip.after \/ (journal = Tip /\ doc = Tip.before)
    /\ journal # None =>
        \/ ledger # <<>> /\ journal = Tip
        \/ /\ state.rev = journal.exp /\ journal.res = journal.exp + 1
           /\ LedgerEndsAt(state.rev)
           /\ doc = journal.before

\* What a command in flight has written, step by step.
CommandWrites ==
    /\ op.step = "replay" /\ journal # None =>
        ledger # <<>> /\ journal = Tip /\ doc = Tip.after
    /\ op.step \in {"plan", "journal"} => journal = None
    /\ op.step \in {"journal", "append"} => doc = op.event.before
    /\ op.step \in {"journal", "artifact"} => Bound(op.event)
    /\ op.step \in {"append", "artifact", "save"} =>
        journal = IF Bound(op.event) THEN op.event ELSE None
    /\ op.step \in {"artifact", "save", "unjournal"} => ~touched
    /\ op.step = "save" => doc = op.event.after
    /\ op.step = "unjournal" =>
        ledger # <<>> /\ journal = Tip /\ doc = Tip.after /\ state = Projection(Tip)
    /\ op.step = "mark" => touched

\* A repair leaves its files, between any two of its writes, as its recovery
\* expects them (CommitWorkflowTransition against RecoverWorkflowState).
RecoveryInv == LedgerIsOrdered /\ CommandWrites /\ (~touched => AtRest)

\* Between commands, with nothing written outside the ledger since its last
\* event, recovery never refuses: whatever step a repair died at, the next one
\* completes it (RecoverWorkflowState, recoverTransitionArtifact).
RecoveryCompletes == op = Idle /\ ~touched => Recoverable

\* Between commands nothing is left to recover.
Settled == op = Idle /\ journal = None /\ Projected

\* Event, state.json and tasks.md move together: once nothing is left to
\* recover and nothing was written outside the ledger, both files are as the
\* last event has them.
EventNeverHalfApplied ==
    Settled /\ ~touched /\ ledger # <<>> =>
        state = Projection(Tip) /\ doc = Tip.after

\* A repair that has recovered and planned meets none of the checks of its
\* commit: tasks.md is as previewed, the ledger ends at the revision it expects
\* and so does state.json.
CommitNeverConflicts ==
    /\ op.step = "journal" => doc = op.event.before
    /\ op.step = "append" => LedgerEndsAt(op.event.exp)
    /\ op.step = "save" => state.rev = op.event.exp

\* A lease outlives no attempt: reopen surrenders it before the next attempt is
\* in the ledger, wherever the command dies.
LeaseOfCurrentAttempt ==
    \A t \in Tasks : lease[t] \in {0, CurrentTaskAttempt(t)}

\* The ledger only grows; undo and recovery take nothing out of it.
LedgerAppendOnly == [][IsPrefix(ledger, ledger')]_vars

\* No repair, recovery or undo saves a projection that drops a decision another
\* command has recorded in state.json since.
RecordsKept == [][state'.records >= state.records]_vars

\* The files as the next command finds them, once its recovery has replayed the
\* event that is due and finished the write of tasks.md (RecoverWorkflowState);
\* a recovery that refuses leaves them alone.
RecoveredState ==
    IF Recoverable /\ ~Projected THEN Projection(FirstUnprojected) ELSE state
RecoveredDoc == IF Recoverable /\ Committed THEN journal.after ELSE doc

Atomic == INSTANCE AtomicLedger WITH
              events <- ledger,
              state <- RecoveredState,
              doc <- RecoveredDoc,
              beside <- touched

\* The files implement a ledger whose repairs are one step each: a repair is
\* built on what recovery leaves, takes effect when its event is appended, on
\* state.json and tasks.md at once, and no write, crash or recovery before or
\* after that step changes what the next command finds.
LedgerSpec == Atomic!Spec

\* What user-guide.md says of undo: an approval that moves the revision makes
\* it refuse with the fresh revision to re-run against, so without a crash the
\* repair itself stays possible.
RepairStaysPossible == op = Idle /\ faults = 0 => Recoverable

\* What runTaskComplete says of tasks.md and state.json: the two never drift.
NeverDrift ==
    Settled /\ faults = 0 =>
        \A t \in Tasks : state.status[t] = "complete" <=> doc.mark[t] = "complete"
=============================================================================
