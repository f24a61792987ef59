---------------------------- MODULE Clarification ----------------------------
(* Questions about the rows of tasks.md and about the spec (core/clarification.go,
   cmd/clarification.go).  The operator edits rows and markers by hand and
   complete-task and reopen rewrite markers; a command that records a question or
   its resolution reads tasks.md before it takes the spec lock and state.json
   under it, so that several commands and edits overlap.

   A row is the set of tasks it depends on, which stands for its contract: two
   rows are the same version when they are the same set.  Rows are keyed by id,
   so that a duplicate or empty id is out of the model.                      *)
EXTENDS Naturals, FiniteSets

CONSTANTS
    Tasks, Commands,
    Absent,           \* no such row, no version
    Spec_,            \* the spec itself, the other thing a question can be about
    MaxChanges        \* bound: questions opened and changes of tasks.md

ASSUME ClarificationAssumption ==
    (\A row \in SUBSET Tasks : row # Absent) /\ Spec_ \notin Tasks /\ MaxChanges \in Nat

VARIABLES
    rows,       \* tasks.md: task -> its dependencies, or Absent
    marker,     \* tasks.md: task -> its status
    records,    \* the clarification records of state.json
    command,    \* the clarification commands under way
    edits

clvars == <<rows, marker, records, command, edits>>

Row == SUBSET Tasks
Rows == [Tasks -> Row \cup {Absent}]
Statuses == {"pending", "running", "complete"}   \* blocked is handed out as little as running
Present == {t \in Tasks : rows[t] # Absent}
Entities == Tasks \cup {Spec_}
Resolutions == {"answered", "withdrawn"}   \* an expired question is judged as a withdrawn one
Ids == 1..MaxChanges
Idle == [step |-> "idle"]
Records == [id : Ids, seq : 0..1, transition : Resolutions \cup {"open"},
            entity : Entities, blocking : BOOLEAN,
            version : Row \cup {Absent}, read : Row \cup {Absent}]

CLTypeOK ==
    /\ rows \in Rows
    /\ marker \in [Tasks -> Statuses]
    /\ records \subseteq Records
    /\ \A r \in records : r.seq = 0 <=> r.transition = "open"
    /\ command \in [Commands -> {Idle} \cup [step : {"lock"}, rows : Rows]]
    /\ edits \in 0..MaxChanges

----------------------------------------------------------------------------
(* Questions. *)

Opened(id) == {r \in records : r.id = id /\ r.seq = 0}
Resolved(id) == {r \in records : r.id = id /\ r.seq = 1}
Questions == {r \in records : r.transition = "open"}
NextClarificationID == Cardinality(Questions) + 1

\* The record that a question is judged by: its resolution once there is one.
Latest == {r \in records : r.seq = 1 \/ Resolved(r.id) = {}}

\* ClarificationTaskFacts: the questions a task waits for.  A resolution that is
\* an answer holds for the version it was given for; without a version, on
\* either side, it holds.
TaskWaits(t, current) ==
    {r \in Latest :
       /\ r.blocking /\ r.entity = t
       /\ \/ r.transition = "open"
          \/ /\ r.transition = "answered"
             /\ current[t] # Absent /\ r.version # Absent /\ current[t] # r.version}

\* context refuses on the questions alone, status shows stale answers as well.
NoVersions == [t \in Tasks |-> Absent]
ContextRefuses(t) == TaskWaits(t, NoVersions) # {}
StatusWaits(t) == TaskWaits(t, rows) # {}

----------------------------------------------------------------------------
(* The clarification commands. *)

\* runClarification reads tasks.md; what it was asked for is told at AppendRecord.
Begin(c) ==
    /\ command[c] = Idle
    /\ command' = [command EXCEPT ![c] = [step |-> "lock", rows |-> rows]]
    /\ UNCHANGED <<rows, marker, records, edits>>

Requests ==
    [transition : {"open"}, entity : Entities, blocking : BOOLEAN, id : {0}]
      \cup [transition : Resolutions, entity : {Spec_}, blocking : {FALSE}, id : Ids]

\* Mutant: the version is read again under the lock.
EntityVersion_Late(read, entity) == IF entity \in Tasks THEN rows[entity] ELSE Absent

\* The version of what a record is about: tasks have one, when they are there.
EntityVersion(read, entity) == IF entity \in Tasks THEN read[entity] ELSE Absent

\* Mutant: a question may be resolved again.
PlanRefuses_Reresolve(request) ==
    IF request.transition = "open" THEN Opened(NextClarificationID) # {}
    ELSE Opened(request.id) = {}

\* PlanClarification: a resolution needs its question open, and inherits what it
\* was about.  A question gets an id nobody has used.
PlanRefuses(request) ==
    IF request.transition = "open" THEN Opened(NextClarificationID) # {}
    ELSE Opened(request.id) = {} \/ Resolved(request.id) # {}
Planned(request, read) ==
    LET asked == CHOOSE r \in Opened(request.id) : TRUE
        about == IF request.transition = "open" THEN request ELSE asked
    IN [id |-> IF request.transition = "open" THEN NextClarificationID ELSE request.id,
        seq |-> IF request.transition = "open" THEN 0 ELSE 1,
        transition |-> request.transition, entity |-> about.entity,
        blocking |-> about.blocking, version |-> EntityVersion(read, about.entity),
        read |-> IF about.entity \in Tasks THEN read[about.entity] ELSE Absent]

\* It appends its record under the spec lock.  `read` is what the command
\* had read of the entity, an observation of the model.
AppendRecord(c, request) ==
    LET record == Planned(request, command[c].rows)
    IN /\ command[c].step = "lock"
       /\ request.transition = "open" => edits + Cardinality(Questions) < MaxChanges
       /\ command' = [command EXCEPT ![c] = Idle]
       /\ records' = IF PlanRefuses(request) THEN records
                     ELSE {r \in records : <<r.id, r.seq>> # <<record.id, record.seq>>}
                            \cup {record}
       /\ UNCHANGED <<rows, marker, edits>>

----------------------------------------------------------------------------
(* tasks.md. *)

Edited == edits + Cardinality(Questions) < MaxChanges /\ edits' = edits + 1

EditRow(t, row) ==
    /\ Edited /\ rows[t] # row
    /\ rows' = [rows EXCEPT ![t] = row]
    /\ UNCHANGED <<marker, records, command>>

\* By hand, or by complete-task, which asks for evidence and not for the
\* dependencies, or by reopen, which asks for neither.
Mark(t, status) ==
    /\ Edited /\ t \in Present /\ marker[t] # status
    /\ marker' = [marker EXCEPT ![t] = status]
    /\ UNCHANGED <<rows, records, command>>

CLInit ==
    /\ rows \in Rows
    /\ marker \in [Tasks -> {"pending", "complete"}]
    /\ \A t \in Tasks :
         marker[t] = "complete" => t \in Present /\ \A d \in rows[t] : marker[d] = "complete"
    /\ records = {} /\ edits = 0
    /\ command = [c \in Commands |-> Idle]

CLNext ==
    \/ \E c \in Commands : Begin(c)
    \/ \E c \in Commands, request \in Requests : AppendRecord(c, request)
    \/ \E t \in Tasks, row \in Row \cup {Absent} : EditRow(t, row)
    \/ \E t \in Tasks, status \in Statuses : Mark(t, status)

CLSpec == CLInit /\ [][CLNext]_clvars

----------------------------------------------------------------------------
(* Properties. *)

\* An answer never covers a contract that was written after the person who gave
\* it had read the row: status shows the task as waiting, unless the row was
\* missing then or is missing now.  The version is pinned from what the command
\* read before it waited for the lock.
AnswersCoverWhatWasRead ==
    \A r \in Latest :
        /\ r.transition = "answered" /\ r.blocking /\ r.entity \in Present
        /\ r.read # Absent /\ r.read # rows[r.entity]
        => StatusWaits(r.entity)

\* Questions stand: however commands overlap, no record is lost or rewritten,
\* and a task whose context is refused is given out again only when a person
\* has resolved a question about that very task.
QuestionsStand ==
    [][/\ records \subseteq records'
       /\ \A t \in Tasks :
            ContextRefuses(t) /\ ~ContextRefuses(t)' =>
              \E r \in records' \ records :
                r.transition \in Resolutions /\ r.entity = t]_records
=============================================================================
