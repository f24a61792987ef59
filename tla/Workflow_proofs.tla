-------------------------- MODULE Workflow_proofs --------------------------
(***************************************************************************)
(* The workflow ledger, for any spec, any number of commands, crashes and  *)
(* failing writes.                                                         *)
(***************************************************************************)
EXTENDS Workflow, WellFoundedInduction, TLAPS

\* A set of positions has a last one.
LEMMA LastPosition ==
  ASSUME NEW n \in Nat, NEW S \in SUBSET (1 .. n), S # {}
  PROVE  \E i \in S : \A j \in S : j <= i
<1> DEFINE T == {k \in Nat : n - k \in S}
<1>1. T \subseteq Nat /\ T # {}
  <2>1. PICK i \in S : TRUE
    OBVIOUS
  <2>2. n - i \in Nat /\ n - (n - i) = i
    BY <2>1
  <2> QED BY <2>1, <2>2
<1>2. PICK k \in T : \A m \in T : k <= m
  <2> DEFINE R == {ss \in Nat \X Nat : ss[1] < ss[2]}
  <2>1. IsWellFoundedOn(R, Nat)
    BY NatLessThanWellFounded DEF OpToRel
  <2>2. \E k \in T : \A m \in T : <<m, k>> \notin R
    <3> HIDE DEF T, R
    <3> QED BY <1>1, <2>1, WFMin
  <2>3. PICK k \in T : \A m \in T : <<m, k>> \notin R
    <3> HIDE DEF T, R
    <3> QED BY <2>2
  <2>4. ASSUME NEW m \in T PROVE k <= m
    <3>1. <<m, k>> \notin R /\ <<m, k>> \in Nat \X Nat
      BY <2>3
    <3>2. ~(m < k)
      BY <3>1
    <3> QED BY <3>2
  <2> QED BY <2>4
<1>3. n - k \in S
  OBVIOUS
<1>4. ASSUME NEW j \in S PROVE j <= n - k
  <2>1. j \in Nat /\ n - j \in Nat /\ n - (n - j) = j
    OBVIOUS
  <2>2. n - j \in T
    BY <2>1
  <2>3. k <= n - j
    BY <2>2, <1>2
  <2> QED BY <2>1, <2>3
<1> QED BY <1>3, <1>4

\* The attempt of a task is a number.
LEMMA AttemptType ==
  ASSUME ledger \in Seq(Event), NEW t \in Tasks
  PROVE  CurrentTaskAttempt(t) \in Nat
<1>1. CASE Reopens(t) = {}
  BY <1>1 DEF CurrentTaskAttempt
<1>2. CASE Reopens(t) # {}
  <2> DEFINE last == CHOOSE i \in Reopens(t) : \A j \in Reopens(t) : j <= i
  <2>1. Reopens(t) \in SUBSET (1 .. Len(ledger)) /\ Len(ledger) \in Nat
    BY DEF Reopens
  <2>2. \E i \in Reopens(t) : \A j \in Reopens(t) : j <= i
    BY <1>2, <2>1, LastPosition
  <2>3. last \in Reopens(t)
    BY <2>2
  <2>4. CurrentTaskAttempt(t) = ledger[last].attempt
    BY <1>2 DEF CurrentTaskAttempt
  <2> HIDE DEF last
  <2>5. ledger[last] \in Event
    BY <2>1, <2>3
  <2> QED BY <2>4, <2>5 DEF Event
<1> QED BY <1>1, <1>2

\* What NewWorkflowEvent builds expects the revision of state.json and has
\* tasks.md as it is.
LEMMA NewEventType ==
  ASSUME TypeOK,
         NEW kind \in Kinds, NEW t \in Tasks, NEW attempt \in Nat,
         NEW hit \in SUBSET Tasks, NEW status \in Status, NEW records \in Nat,
         NEW after \in Doc
  PROVE  LET e == NewEvent(kind, t, attempt, hit, status, records, after) IN
         /\ e \in Event /\ e.exp = state.rev /\ e.res = state.rev + 1
         /\ e.before = doc /\ e.records = records
<1>1. state.rev \in Nat /\ doc \in Doc
  BY DEF TypeOK, State
<1> QED BY <1>1 DEF NewEvent, Event

\* The projection of an event is a state.
LEMMA ProjectionType ==
  ASSUME NEW e \in Event
  PROVE  Projection(e) \in State
BY DEF Projection, Event, State

\* A command that is not idle is a record of Op.
LEMMA OpType ==
  ASSUME TypeOK, op.step # "idle"
  PROVE  op \in Op
BY DEF TypeOK, Idle

\* When the checkpoint fits and every event is projected, the ledger ends at
\* the revision of state.json, the one saved with the last event.
LEMMA RecoveredEnds ==
  ASSUME TypeOK, CheckpointFits, Projected
  PROVE  LedgerEndsAt(state.rev) /\ (ledger # <<>> => state.last = state.rev)
<1>1. CASE state.last = 0
  <2>1. Len(ledger) = 0
    BY <1>1 DEF Projected, Checkpoint
  <2> QED BY <2>1 DEF TypeOK, LedgerEndsAt
<1>2. CASE state.last # 0
  <2>1. \E i \in DOMAIN ledger : ledger[i].res = state.last
    BY <1>2 DEF CheckpointFits
  <2>2. ledger[Checkpoint].res = state.last
    BY <1>2, <2>1 DEF Checkpoint
  <2>3. state.rev = state.last
    BY <1>2 DEF CheckpointFits
  <2> QED BY <2>2, <2>3 DEF Projected, LedgerEndsAt, Tip
<1> QED BY <1>1, <1>2

\* Appending on the revision of the last line keeps the chain, and every line.
LEMMA AppendKeepsChain ==
  ASSUME TypeOK, LedgerIsChain, NEW e \in Event, e.res = e.exp + 1, AppendLine(e)
  PROVE  /\ ledger' \in Seq(Event) /\ torn' = FALSE
         /\ LedgerIsChain'
         /\ ledger' # <<>> /\ Tip' = e
         /\ DOMAIN ledger \subseteq DOMAIN ledger'
         /\ \A i \in DOMAIN ledger : ledger'[i] = ledger[i]
<1>1. ledger \in Seq(Event) /\ Len(ledger) \in Nat
  BY DEF TypeOK
<1>2. ledger' = Append(ledger, e) /\ torn' = FALSE /\ LedgerEndsAt(e.exp)
  BY DEF AppendLine
<1>3. /\ ledger' \in Seq(Event) /\ Len(ledger') = Len(ledger) + 1
      /\ DOMAIN ledger = 1 .. Len(ledger)
      /\ DOMAIN ledger' = 1 .. Len(ledger) + 1
      /\ \A i \in 1 .. Len(ledger) : ledger'[i] = ledger[i]
      /\ ledger'[Len(ledger) + 1] = e
  BY <1>1, <1>2
<1>4. ASSUME NEW i \in DOMAIN ledger'
      PROVE  /\ ledger'[i].res = ledger'[i].exp + 1
             /\ i > 1 => ledger'[i].exp = ledger'[i - 1].res
  <2>1. CASE i \in DOMAIN ledger
    <3>1. i > 1 => i - 1 \in DOMAIN ledger
      BY <1>1, <1>3, <2>1
    <3> QED BY <1>3, <2>1, <3>1 DEF LedgerIsChain
  <2>2. CASE i = Len(ledger) + 1
    <3>1. ASSUME i > 1 PROVE Tip = ledger'[i - 1] /\ Tip.res = e.exp
      <4>1. Len(ledger) \in 1 .. Len(ledger) /\ i - 1 = Len(ledger) /\ ledger # <<>>
        BY <1>1, <2>2, <3>1
      <4> QED BY <1>2, <1>3, <4>1 DEF LedgerEndsAt, Tip
    <3> QED BY <1>3, <2>2, <3>1
  <2> QED BY <1>1, <1>3, <2>1, <2>2
<1>5. LedgerIsChain'
  BY <1>4 DEF LedgerIsChain
<1>6. ledger' # <<>> /\ Tip' = e
  BY <1>1, <1>3 DEF Tip
<1> QED BY <1>1, <1>2, <1>3, <1>5, <1>6

\* A plan that commits an event of the recovered state.
LEMMA CommitSound ==
  ASSUME IInv, op.step = "plan",
         NEW e \in Event, e.exp = state.rev, e.res = state.rev + 1, e.before = doc,
         e.records = state.records, Commit(e), lease' \in [Tasks -> Nat],
         UNCHANGED <<state, doc, ledger, torn, journal, evidence, touched, faults>>
  PROVE  IInv'
<1>1. op \in Op
  BY OpType DEF IInv
<1>2. LedgerEndsAt(state.rev) /\ (ledger # <<>> => state.last = state.rev)
  BY DEF IInv, CommandSound
<1>3. /\ op' \in Op
      /\ op'.step \in {"journal", "append"}
      /\ op'.event = e
  BY <1>1 DEF Commit, Op, Steps
<1>4. TypeOK'
  BY <1>3 DEF IInv, TypeOK
<1>5. LedgerIsChain' /\ CheckpointInLedger' /\ RecordsAgree'
  BY DEF IInv, LedgerIsChain, CheckpointInLedger, RecordsAgree
<1>6. CommandSound'
  BY <1>2, <1>3 DEF CommandSound, LedgerEndsAt, Tip
<1> QED BY <1>4, <1>5, <1>6 DEF IInv

-----------------------------------------------------------------------------
(* IInv is inductive.                                                        *)

\* A spec before its first event satisfies IInv.
LEMMA InitSound == Init => IInv
<1> SUFFICES ASSUME Init PROVE IInv
  OBVIOUS
<1>1. state \in State /\ doc \in Doc
  BY RevisionAssumption DEF Init, State, Doc, Status
<1>2. TypeOK
  <2>1. evidence \subseteq Tasks \X Nat
    BY TasksAssumption DEF Init
  <2>2. lease \in [Tasks -> Nat] /\ faults \in Nat /\ ledger \in Seq(Event)
    BY DEF Init
  <2> QED BY <1>1, <2>1, <2>2 DEF Init, TypeOK
<1>3. LedgerIsChain /\ CheckpointInLedger /\ CommandSound
  BY DEF Init, LedgerIsChain, CheckpointInLedger, CommandSound, Idle
<1>4. RecordsAgree
  BY RevisionAssumption DEF Init, RecordsAgree
<1> QED BY <1>2, <1>3, <1>4 DEF IInv

\* The lines of the ledger are events.
LEMMA LineType ==
  ASSUME TypeOK, NEW i \in DOMAIN ledger
  PROVE  ledger[i] \in Event /\ ledger[i].exp \in Nat /\ ledger[i].res \in Nat
<1>1. ledger \in Seq(Event)
  BY DEF TypeOK
<1>2. ledger[i] \in Event
  BY <1>1
<1> QED BY <1>2 DEF Event

\* Steps that leave state.json and the ledger alone keep their agreement.
LEMMA RecordsUnchanged ==
  ASSUME RecordsAgree, UNCHANGED <<state, ledger>>
  PROVE  RecordsAgree'
BY DEF RecordsAgree

\* So do the saves that append no event: they move the revision on, and drop no
\* record.
LEMMA RecordsMoveOn ==
  ASSUME TypeOK, LedgerIsChain, RecordsAgree, UNCHANGED ledger,
         state'.rev = state.rev + 1, state'.last = state.last
  PROVE  RecordsAgree'
<1>1. state.rev \in Nat /\ state.last \in Nat /\ state'.last # state'.rev
  BY DEF TypeOK, State, RecordsAgree
<1>2. ASSUME NEW i \in DOMAIN ledger
      PROVE  /\ ledger[i].exp \in Nat
             /\ ledger[i].exp <= state'.rev /\ ledger[i].exp # state'.rev
  BY <1>1, LineType DEF RecordsAgree
<1> QED BY <1>1, <1>2 DEF RecordsAgree

\* And the saves of the projection of an event that state.json awaits.
LEMMA RecordsProjected ==
  ASSUME TypeOK, LedgerIsChain, RecordsAgree, UNCHANGED ledger,
         NEW k \in DOMAIN ledger, ledger[k].exp = state.rev,
         state' = Projection(ledger[k])
  PROVE  RecordsAgree' /\ state'.records = state.records
<1>1. state.rev \in Nat /\ \A i \in DOMAIN ledger : ledger[i].exp \in Nat
  BY LineType DEF TypeOK, State
<1>2. /\ state'.rev = state.rev + 1 /\ state'.last = state'.rev
      /\ state'.records = ledger[k].records
  BY DEF Projection, LedgerIsChain
<1>3. state'.records = state.records
  BY <1>2 DEF RecordsAgree
<1>4. ASSUME NEW i \in DOMAIN ledger
      PROVE  /\ ledger[i].exp <= state'.rev /\ ledger[i].exp # state'.rev
             /\ ledger[i].res = state'.rev => ledger[i].records = state'.records
  <2>1. ledger[i].exp <= state.rev /\ ledger[i].res = ledger[i].exp + 1
    BY DEF RecordsAgree, LedgerIsChain
  <2>2. ledger[i].exp <= state'.rev /\ ledger[i].exp # state'.rev
    BY <1>1, <1>2, <2>1
  <2>3. ASSUME ledger[i].res = state'.rev PROVE ledger[i].records = state'.records
    <3>1. ledger[i].exp = state.rev
      BY <1>1, <1>2, <2>1, <2>3
    <3> QED BY <1>3, <3>1 DEF RecordsAgree
  <2> QED BY <2>2, <2>3
<1>5. /\ state'.last <= state'.rev
      /\ \A i \in DOMAIN ledger : i > 1 => ledger[i].records = ledger[i - 1].records
  BY <1>1, <1>2 DEF RecordsAgree
<1>6. RecordsAgree'
  BY <1>4, <1>5 DEF RecordsAgree
<1> QED BY <1>3, <1>6

\* And an append of an event that carries the records of state.json.
LEMMA RecordsAppended ==
  ASSUME TypeOK, LedgerIsChain, RecordsAgree, UNCHANGED state,
         NEW e \in Event, AppendLine(e),
         e.exp = state.rev, e.res = state.rev + 1, e.records = state.records,
         LedgerEndsAt(state.rev), ledger # <<>> => state.last = state.rev
  PROVE  RecordsAgree'
<1>1. /\ ledger \in Seq(Event) /\ Len(ledger) \in Nat
      /\ state.rev \in Nat /\ state.last \in Nat
  BY DEF TypeOK, State
<1>2. /\ DOMAIN ledger = 1 .. Len(ledger)
      /\ DOMAIN ledger' = 1 .. Len(ledger) + 1
      /\ \A i \in 1 .. Len(ledger) : ledger'[i] = ledger[i]
      /\ ledger'[Len(ledger) + 1] = e
  BY <1>1 DEF AppendLine
<1>3. ASSUME NEW i \in DOMAIN ledger'
      PROVE  /\ ledger'[i].exp <= state.rev
             /\ \/ ledger'[i].exp = state.rev
                \/ ledger'[i].res = state.rev /\ state.last = state.rev
                => ledger'[i].records = state.records
             /\ i > 1 => ledger'[i].records = ledger'[i - 1].records
  <2>1. CASE i \in DOMAIN ledger
    <3>1. i > 1 => i - 1 \in DOMAIN ledger
      BY <1>1, <1>2, <2>1
    <3> QED BY <1>2, <2>1, <3>1 DEF RecordsAgree
  <2>2. CASE i = Len(ledger) + 1
    <3>1. ASSUME i > 1 PROVE ledger'[i - 1].records = state.records
      <4>1. /\ Len(ledger) \in DOMAIN ledger /\ i - 1 = Len(ledger) /\ ledger # <<>>
            /\ ledger'[i - 1] = ledger[Len(ledger)]
        BY <1>1, <1>2, <2>2, <3>1
      <4>2. ledger[Len(ledger)].res = state.rev /\ state.last = state.rev
        BY <4>1 DEF LedgerEndsAt, Tip
      <4> QED BY <4>1, <4>2 DEF RecordsAgree
    <3> QED BY <1>1, <1>2, <2>2, <3>1
  <2> QED BY <1>1, <1>2, <2>1, <2>2
<1> QED BY <1>3 DEF RecordsAgree

\* Starting a command, and the steps of its recovery, preserve IInv.
LEMMA RecoverySound ==
  ASSUME IInv,
         \/ \E kind \in Kinds, t \in Tasks : Start(kind, t)
         \/ RecoverArtifact \/ ReplayEvent \/ Recovered \/ RecoverRefused
  PROVE  IInv'
<1> USE DEF IInv
<1>1. ASSUME NEW kind \in Kinds, NEW t \in Tasks, Start(kind, t) PROVE IInv'
  <2>1. op' \in Op /\ op'.step = "recover" /\ op'.doc = doc
    BY <1>1 DEF Start, Begin, Op, Steps, TypeOK
  <2>2. TypeOK' /\ LedgerIsChain' /\ CheckpointInLedger'
    BY <1>1, <2>1 DEF Start, TypeOK, files, LedgerIsChain, CheckpointInLedger
  <2>3. CommandSound'
    BY <1>1, <2>1 DEF CommandSound, TypeOK
  <2> QED BY <1>1, <2>2, <2>3, RecordsUnchanged DEF Start, files
<1>2. CASE RecoverArtifact
  <2>1. op \in Op
    BY <1>2, OpType DEF RecoverArtifact
  <2>2. op' \in Op /\ op'.step = "replay" /\ op'.doc = op.doc
    BY <1>2, <2>1 DEF RecoverArtifact, Op, Steps
  <2>3. Committed => journal \in Event
    BY DEF Committed, TypeOK
  <2>4. doc' \in Doc /\ journal' \in Event \cup {None}
    BY <1>2, <2>3 DEF RecoverArtifact, TypeOK, Event
  <2>5. TypeOK' /\ LedgerIsChain' /\ CheckpointInLedger'
    BY <1>2, <2>2, <2>4 DEF RecoverArtifact, TypeOK, LedgerIsChain, CheckpointInLedger
  <2>6. CommandSound'
    BY <1>2, <2>2 DEF CommandSound, RecoverArtifact
  <2> QED BY <1>2, <2>5, <2>6, RecordsUnchanged DEF RecoverArtifact
<1>3. CASE ReplayEvent
  <2>1. Checkpoint \in Nat /\ Checkpoint + 1 \in DOMAIN ledger
    <3>1. Checkpoint \in 0 .. Len(ledger) /\ Len(ledger) \in Nat
      <4>1. state.last # 0 => \E i \in DOMAIN ledger : ledger[i].res = state.last
        BY DEF CheckpointInLedger
      <4> QED BY <4>1 DEF Checkpoint, TypeOK
    <3> QED BY <1>3, <3>1 DEF ReplayEvent, Projected, TypeOK
  <2>2. FirstUnprojected \in Event /\ \E i \in DOMAIN ledger : FirstUnprojected = ledger[i]
    BY <2>1 DEF FirstUnprojected, TypeOK
  <2>3. state' \in State /\ state'.last = FirstUnprojected.res
    BY <1>3, <2>2, ProjectionType DEF ReplayEvent, Projection
  <2>4. TypeOK' /\ LedgerIsChain' /\ CheckpointInLedger'
    BY <1>3, <2>2, <2>3 DEF ReplayEvent, TypeOK, LedgerIsChain, CheckpointInLedger
  <2>5. CommandSound'
    BY <1>3 DEF CommandSound, ReplayEvent
  <2>6. RecordsAgree'
    BY <1>3, <2>1, RecordsProjected DEF ReplayEvent, ReplayFits, FirstUnprojected
  <2> QED BY <2>4, <2>5, <2>6
<1>4. CASE Recovered
  <2>1. op \in Op
    BY <1>4, OpType DEF Recovered
  <2>2. op' \in Op /\ op'.step = "plan" /\ op'.doc = op.doc
    BY <1>4, <2>1 DEF Recovered, Op, Steps
  <2>3. TypeOK' /\ LedgerIsChain' /\ CheckpointInLedger'
    BY <1>4, <2>2 DEF Recovered, TypeOK, LedgerIsChain, CheckpointInLedger
  <2>4. LedgerEndsAt(state.rev) /\ (ledger # <<>> => state.last = state.rev)
    BY <1>4, RecoveredEnds DEF Recovered
  <2>5. CommandSound'
    BY <1>4, <2>2, <2>4 DEF CommandSound, Recovered, LedgerEndsAt, Tip
  <2> QED BY <1>4, <2>3, <2>5, RecordsUnchanged DEF Recovered
<1>5. CASE RecoverRefused
  BY <1>5, RecordsUnchanged DEF RecoverRefused, files, TypeOK, LedgerIsChain, CheckpointInLedger,
              CommandSound, Idle
<1> QED BY <1>1, <1>2, <1>3, <1>4, <1>5

\* What a plan reads has its type.
LEMMA PlanTypes ==
  ASSUME IInv, op.step = "plan"
  PROVE  /\ op.task \in Tasks
         /\ state.status \in Status /\ state.records \in Nat
         /\ doc.mark \in [Tasks -> {"pending", "running", "complete"}]
         /\ doc.scope \in [Tasks -> BOOLEAN]
BY OpType DEF IInv, TypeOK, State, Doc, Op

\* Every plan, refused or committed, preserves IInv.
LEMMA PlanSound ==
  ASSUME IInv,
         \/ PlanTaskReopen \/ PlanScopeAmend \/ PlanSpecReopen \/ PlanArtifactReopen
         \/ PlanDescendantResolution \/ PlanUndo \/ PlanRefused
  PROVE  IInv'
<1>a. TypeOK /\ ledger \in Seq(Event) /\ lease \in [Tasks -> Nat] /\ doc \in Doc
  BY DEF IInv, TypeOK
<1>1. CASE PlanTaskReopen
  <2>1. op.step = "plan"
    BY <1>1 DEF PlanTaskReopen, Plan
  <2> DEFINE t == op.task
             e == TaskReopenEvent(t)
             after == [doc EXCEPT !.mark[t] = "pending"]
  <2>2. /\ t \in Tasks /\ CurrentTaskAttempt(t) + 1 \in Nat
        /\ Dependents[t] \in SUBSET Tasks
        /\ [state.status EXCEPT ![t] = "pending"] \in Status
        /\ state.records \in Nat
    BY <1>a, <2>1, PlanTypes, AttemptType, DependentsAssumption DEF Status
  <2>3. after \in Doc
    BY <1>a, <2>1, PlanTypes DEF Doc
  <2>4. /\ e \in Event /\ e.exp = state.rev /\ e.res = state.rev + 1
        /\ e.before = doc /\ e.records = state.records
    BY <1>a, <2>2, <2>3, NewEventType DEF TaskReopenEvent, Kinds
  <2>5. lease' \in [Tasks -> Nat]
    BY <1>1, <1>a DEF PlanTaskReopen, SurrenderLeases
  <2>6. Commit(e)
    BY <1>1 DEF PlanTaskReopen
  <2> HIDE DEF e
  <2> QED BY <1>1, <2>1, <2>4, <2>5, <2>6, CommitSound DEF PlanTaskReopen
<1>2. CASE PlanScopeAmend
  <2>1. op.step = "plan"
    BY <1>2 DEF PlanScopeAmend, Plan
  <2> DEFINE e == ScopeAmendEvent(op.task)
             after == [doc EXCEPT !.scope[op.task] = TRUE]
  <2>2. after \in Doc
    BY <1>a, <2>1, PlanTypes DEF Doc
  <2>3. /\ e \in Event /\ e.exp = state.rev /\ e.res = state.rev + 1
        /\ e.before = doc /\ e.records = state.records
    <3>1. /\ op.task \in Tasks /\ state.status \in Status /\ state.records \in Nat
          /\ "amend" \in Kinds /\ {} \in SUBSET Tasks
      BY <2>1, PlanTypes DEF Kinds
    <3>2. state.rev \in Nat
      BY <1>a DEF TypeOK, State
    <3> QED BY <1>a, <2>2, <3>1, <3>2 DEF ScopeAmendEvent, NewEvent, Event
  <2>4. Commit(e)
    BY <1>2 DEF PlanScopeAmend
  <2> HIDE DEF e
  <2> QED BY <1>2, <1>a, <2>1, <2>3, <2>4, CommitSound DEF PlanScopeAmend, files
<1>3. CASE PlanSpecReopen
  <2>1. op.step = "plan"
    BY <1>3 DEF PlanSpecReopen, Plan
  <2> DEFINE e == SpecReopenEvent(op.task)
             after == [doc EXCEPT !.mark = [u \in Tasks |-> "pending"]]
             status == [u \in Tasks |-> "pending"]
  <2>2. after \in Doc /\ status \in Status
    BY <1>a DEF Doc, Status
  <2>3. /\ e \in Event /\ e.exp = state.rev /\ e.res = state.rev + 1
        /\ e.before = doc /\ e.records = state.records
    <3>1. /\ op.task \in Tasks /\ state.status \in Status /\ state.records \in Nat
          /\ "spec" \in Kinds /\ {} \in SUBSET Tasks
      BY <2>1, PlanTypes DEF Kinds
    <3>2. state.rev \in Nat
      BY <1>a DEF TypeOK, State
    <3> QED BY <1>a, <2>2, <3>1, <3>2 DEF SpecReopenEvent, NewEvent, Event
  <2>4. Commit(e)
    BY <1>3 DEF PlanSpecReopen
  <2> HIDE DEF e
  <2> QED BY <1>3, <1>a, <2>1, <2>3, <2>4, CommitSound DEF PlanSpecReopen, files
<1>4. CASE PlanArtifactReopen
  <2>1. op.step = "plan"
    BY <1>4 DEF PlanArtifactReopen, Plan
  <2> DEFINE e == ArtifactReopenEvent(op.task)
  <2>2. /\ e \in Event /\ e.exp = state.rev /\ e.res = state.rev + 1
        /\ e.before = doc /\ e.records = state.records
    <3>1. /\ op.task \in Tasks /\ state.status \in Status /\ state.records \in Nat
          /\ "artifact" \in Kinds /\ {} \in SUBSET Tasks
      BY <2>1, PlanTypes DEF Kinds
    <3>2. state.rev \in Nat
      BY <1>a DEF TypeOK, State
    <3> QED BY <1>a, <3>1, <3>2 DEF ArtifactReopenEvent, NewEvent, Event
  <2>3. Commit(e)
    BY <1>4 DEF PlanArtifactReopen
  <2> HIDE DEF e
  <2> QED BY <1>4, <1>a, <2>1, <2>2, <2>3, CommitSound DEF PlanArtifactReopen, files
<1>5. CASE PlanDescendantResolution
  <2>1. op.step = "plan"
    BY <1>5 DEF PlanDescendantResolution, Plan
  <2> DEFINE e == DescendantResolutionEvent(op.task)
  <2>2. /\ e \in Event /\ e.exp = state.rev /\ e.res = state.rev + 1
        /\ e.before = doc /\ e.records = state.records
    <3>1. /\ op.task \in Tasks /\ state.status \in Status /\ state.records \in Nat
          /\ "resolve" \in Kinds /\ {} \in SUBSET Tasks
      BY <2>1, PlanTypes DEF Kinds
    <3>2. state.rev \in Nat
      BY <1>a DEF TypeOK, State
    <3> QED BY <1>a, <3>1, <3>2 DEF DescendantResolutionEvent, NewEvent, Event
  <2>3. Commit(e)
    BY <1>5 DEF PlanDescendantResolution
  <2> HIDE DEF e
  <2> QED
    BY <1>5, <1>a, <2>1, <2>2, <2>3, CommitSound DEF PlanDescendantResolution, files
<1>6. CASE PlanUndo
  <2>1. op.step = "plan" /\ Len(ledger) > 1
    BY <1>6 DEF PlanUndo, Plan, Undoable
  <2> DEFINE e == UndoCompensation
  <2>2. Tip \in Event /\ ledger[Len(ledger) - 1] \in Event
    BY <1>a, <2>1 DEF Tip
  <2>3. /\ Tip.task \in Tasks /\ ledger[Len(ledger) - 1].status \in Status
        /\ ledger[Len(ledger) - 1].records \in Nat
    BY <2>2 DEF Event
  <2>a. ledger[Len(ledger) - 1].records = state.records
    <3>1. Len(ledger) \in DOMAIN ledger /\ ledger # <<>>
      BY <1>a, <2>1
    <3>2. Tip.res = state.rev /\ state.last = state.rev
      BY <2>1, <3>1 DEF IInv, CommandSound, LedgerEndsAt
    <3>3. ledger[Len(ledger)].records = state.records
      BY <3>1, <3>2 DEF IInv, RecordsAgree, Tip
    <3>4. ledger[Len(ledger)].records = ledger[Len(ledger) - 1].records
      BY <2>1, <3>1 DEF IInv, RecordsAgree
    <3> QED BY <3>3, <3>4
  <2>4. /\ e \in Event /\ e.exp = state.rev /\ e.res = state.rev + 1
        /\ e.before = doc /\ e.records = state.records
    BY <1>a, <2>3, <2>a, NewEventType DEF UndoCompensation, Kinds
  <2>5. Commit(e)
    BY <1>6 DEF PlanUndo
  <2> HIDE DEF e
  <2> QED BY <1>6, <1>a, <2>1, <2>4, <2>5, CommitSound DEF PlanUndo, files
<1>7. CASE PlanRefused
  BY <1>7, RecordsUnchanged DEF PlanRefused, files, IInv, TypeOK, LedgerIsChain, CheckpointInLedger,
              CommandSound, Idle
<1> QED BY <1>1, <1>2, <1>3, <1>4, <1>5, <1>6, <1>7

\* The writes of CommitWorkflowTransition preserve IInv.
LEMMA CommitStepsSound ==
  ASSUME IInv,
         \/ WriteJournal \/ AppendWorkflowEvent \/ WriteArtifact \/ SaveProjection
         \/ RemoveJournal
  PROVE  IInv'
<1>a. /\ TypeOK /\ LedgerIsChain /\ CheckpointInLedger /\ CommandSound
      /\ RecordsAgree
  BY DEF IInv
<1>1. CASE WriteJournal
  <2>1. op \in Op /\ op.step = "journal" /\ op.event \in Event
    BY <1>1, <1>a, OpType DEF WriteJournal, CommandSound
  <2>2. op' \in Op /\ op'.step = "append" /\ op'.event = op.event
    BY <1>1, <2>1 DEF WriteJournal, Op, Steps
  <2>3. TypeOK' /\ LedgerIsChain' /\ CheckpointInLedger'
    BY <1>1, <1>a, <2>1, <2>2
       DEF WriteJournal, TypeOK, LedgerIsChain, CheckpointInLedger
  <2>4. CommandSound'
    BY <1>1, <1>a, <2>1, <2>2 DEF WriteJournal, CommandSound, LedgerEndsAt, Tip
  <2> QED BY <1>1, <1>a, <2>3, <2>4, RecordsUnchanged DEF WriteJournal, IInv
<1>2. CASE AppendWorkflowEvent
  <2>1. /\ op \in Op /\ op.step = "append" /\ op.event \in Event
        /\ op.event.exp = state.rev /\ op.event.res = state.rev + 1
    BY <1>2, <1>a, OpType DEF AppendWorkflowEvent, CommandSound
  <2>2. /\ op' \in Op /\ op'.step \in {"artifact", "save"} /\ op'.event = op.event
    BY <1>2, <2>1 DEF AppendWorkflowEvent, Op, Steps
  <2>3. AppendLine(op.event) /\ op.event.res = op.event.exp + 1
    BY <1>2, <2>1 DEF AppendWorkflowEvent
  <2>4. /\ ledger' \in Seq(Event) /\ torn' = FALSE /\ LedgerIsChain'
        /\ ledger' # <<>> /\ Tip' = op.event
        /\ DOMAIN ledger \subseteq DOMAIN ledger'
        /\ \A i \in DOMAIN ledger : ledger'[i] = ledger[i]
    BY <1>a, <2>1, <2>3, AppendKeepsChain
  <2>5. TypeOK'
    BY <1>2, <1>a, <2>2, <2>4 DEF AppendWorkflowEvent, TypeOK
  <2>6. CheckpointInLedger'
    BY <1>2, <1>a, <2>4 DEF AppendWorkflowEvent, CheckpointInLedger
  <2>7. CommandSound'
    BY <1>2, <2>1, <2>2, <2>4 DEF AppendWorkflowEvent, CommandSound
  <2>8. RecordsAgree'
    <3>1. /\ op.event.records = state.records /\ LedgerEndsAt(state.rev)
          /\ ledger # <<>> => state.last = state.rev
      BY <1>a, <2>1 DEF CommandSound
    <3> QED BY <1>2, <1>a, <2>1, <2>3, <3>1, RecordsAppended DEF AppendWorkflowEvent
  <2> QED BY <2>4, <2>5, <2>6, <2>7, <2>8 DEF IInv
<1>3. CASE WriteArtifact
  <2>1. op \in Op /\ op.step = "artifact" /\ op.event \in Event
    BY <1>3, <1>a, OpType DEF WriteArtifact, CommandSound
  <2>2. op' \in Op /\ op'.step = "save" /\ op'.event = op.event
    BY <1>3, <2>1 DEF WriteArtifact, Op, Steps
  <2>3. op.event.after \in Doc
    BY <2>1 DEF Event
  <2>4. TypeOK' /\ LedgerIsChain' /\ CheckpointInLedger'
    BY <1>3, <1>a, <2>2, <2>3
       DEF WriteArtifact, TypeOK, LedgerIsChain, CheckpointInLedger
  <2>5. CommandSound'
    BY <1>3, <1>a, <2>1, <2>2 DEF WriteArtifact, CommandSound, Tip
  <2> QED BY <1>3, <1>a, <2>4, <2>5, RecordsUnchanged DEF WriteArtifact, IInv
<1>4. CASE SaveProjection
  <2>1. /\ op \in Op /\ op.event \in Event /\ ledger # <<>> /\ Tip = op.event
    BY <1>4, <1>a, OpType DEF SaveProjection, CommandSound
  <2>2. op' \in Op \cup {Idle} /\ op'.step \in {"unjournal", "idle"}
    BY <1>4, <2>1 DEF SaveProjection, Op, Steps, Idle
  <2>3. state' \in State /\ state'.last = Tip.res
    BY <1>4, <2>1, ProjectionType DEF SaveProjection, Projection
  <2>4. Len(ledger) \in DOMAIN ledger
    BY <1>a, <2>1 DEF TypeOK
  <2>5. TypeOK' /\ LedgerIsChain' /\ CheckpointInLedger'
    BY <1>4, <1>a, <2>2, <2>3, <2>4
       DEF SaveProjection, TypeOK, LedgerIsChain, CheckpointInLedger, Tip
  <2>6. CommandSound'
    BY <2>2 DEF CommandSound
  <2>7. RecordsAgree'
    <3>1. op.event.exp = state.rev
      BY <1>4, <1>a DEF SaveProjection, CommandSound
    <3> QED BY <1>4, <1>a, <2>1, <2>4, <3>1, RecordsProjected DEF SaveProjection, Tip
  <2> QED BY <2>5, <2>6, <2>7 DEF IInv
<1>5. CASE RemoveJournal
  BY <1>5, <1>a, RecordsUnchanged DEF RemoveJournal, IInv, TypeOK, LedgerIsChain, CheckpointInLedger,
                    CommandSound, Idle
<1> QED BY <1>1, <1>2, <1>3, <1>4, <1>5

\* The commands that save state.json without an event preserve IInv.
LEMMA DirectSound ==
  ASSUME IInv, Direct
  PROVE  IInv'
<1>a. TypeOK /\ LedgerIsChain /\ CheckpointInLedger /\ RecordsAgree
  BY DEF IInv
<1>1. ASSUME NEW t \in Tasks, CompleteTask(t) PROVE IInv'
  <2>1. /\ op' \in Op /\ op'.step = "mark" /\ op'.doc \in Doc
        /\ op'.back = state
    BY <1>1, <1>a DEF CompleteTask, Begin, Op, Steps, TypeOK
  <2>2. /\ state' \in State /\ state'.rev = state.rev + 1 /\ state'.last = state.last
        /\ state'.records = state.records
    <3>1. /\ state.rev + 1 \in Nat /\ state.last \in Nat /\ state.records \in Nat
          /\ [state.status EXCEPT ![t] = "complete"] \in Status
      BY <1>a DEF TypeOK, State, Status
    <3>2. state' = [rev |-> state.rev + 1, last |-> state.last,
                    status |-> [state.status EXCEPT ![t] = "complete"],
                    records |-> state.records]
      BY <1>1, <1>a DEF CompleteTask, TypeOK, State
    <3> QED BY <3>1, <3>2 DEF State
  <2>3. TypeOK' /\ LedgerIsChain' /\ CheckpointInLedger'
    BY <1>1, <1>a, <2>1, <2>2
       DEF CompleteTask, TypeOK, LedgerIsChain, CheckpointInLedger
  <2>4. CommandSound'
    BY <1>a, <2>1, <2>2 DEF CommandSound, TypeOK
  <2>5. RecordsAgree'
    BY <1>1, <1>a, <2>2, RecordsMoveOn DEF CompleteTask
  <2> QED BY <2>3, <2>4, <2>5 DEF IInv
<1>2. CASE MarkComplete
  <2>1. op \in Op /\ op.doc \in Doc
    BY <1>2, <1>a, OpType DEF MarkComplete, IInv, CommandSound
  <2>2. Completed \in Doc
    BY <2>1 DEF Completed, Doc, Op
  <2>3. TypeOK' /\ LedgerIsChain' /\ CheckpointInLedger' /\ CommandSound'
    BY <1>2, <1>a, <2>2 DEF MarkComplete, TypeOK, LedgerIsChain, CheckpointInLedger,
                            CommandSound, Idle
  <2> QED BY <1>2, <1>a, <2>3, RecordsUnchanged DEF MarkComplete, IInv
<1>3. CASE AppendScoped
  <2>1. state' \in State /\ state'.rev = state.rev + 1 /\ state'.last = state.last
    <3>1. /\ state.rev + 1 \in Nat /\ state.last \in Nat /\ state.records + 1 \in Nat
          /\ state.status \in Status
      BY <1>a DEF TypeOK, State
    <3>2. state' = [rev |-> state.rev + 1, last |-> state.last,
                    status |-> state.status, records |-> state.records + 1]
      BY <1>3, <1>a DEF AppendScoped, TypeOK, State
    <3> QED BY <3>1, <3>2 DEF State
  <2>2. TypeOK' /\ LedgerIsChain' /\ CheckpointInLedger' /\ CommandSound'
    BY <1>3, <1>a, <2>1 DEF AppendScoped, TypeOK, LedgerIsChain, CheckpointInLedger,
                            CommandSound, Idle
  <2>3. RecordsAgree'
    BY <1>3, <1>a, <2>1, RecordsMoveOn DEF AppendScoped
  <2> QED BY <2>2, <2>3 DEF IInv
<1> QED BY <1>1, <1>2, <1>3 DEF Direct

\* The other writers, the crashes and the failing writes preserve IInv.
LEMMA EnvironmentSound ==
  ASSUME IInv, Environment
  PROVE  IInv'
<1>a. /\ TypeOK /\ LedgerIsChain /\ CheckpointInLedger /\ CommandSound
      /\ RecordsAgree /\ ledger \in Seq(Event) /\ doc \in Doc
  BY DEF IInv, TypeOK
<1>1. ASSUME NEW t \in Tasks, Verify(t) PROVE IInv'
  <2>1. evidence' \subseteq Tasks \X Nat
    BY <1>1, <1>a, AttemptType DEF Verify, TypeOK
  <2> QED BY <1>1, <1>a, <2>1, RecordsUnchanged
          DEF Verify, IInv, TypeOK, LedgerIsChain,
                                 CheckpointInLedger, CommandSound, Idle
<1>2. ASSUME NEW t \in Tasks, ClaimMission(t) PROVE IInv'
  <2>1. lease' \in [Tasks -> Nat]
    BY <1>2, <1>a, AttemptType DEF ClaimMission, TypeOK
  <2> QED BY <1>2, <1>a, <2>1, RecordsUnchanged
          DEF ClaimMission, IInv, TypeOK, LedgerIsChain,
                                 CheckpointInLedger, CommandSound, Idle
<1>3. ASSUME NEW t \in Tasks, EditTasks(t) PROVE IInv'
  <2>1. doc' \in Doc
    BY <1>3, <1>a DEF EditTasks, Doc
  <2> QED BY <1>3, <1>a, <2>1, RecordsUnchanged
          DEF EditTasks, IInv, TypeOK, LedgerIsChain,
                                 CheckpointInLedger, CommandSound, Idle
<1>4. CASE Crash
  <2>1. torn' \in BOOLEAN /\ faults' \in Nat
    <3>1. torn' = torn \/ torn' = TRUE
      BY <1>4 DEF Crash
    <3>2. torn' \in BOOLEAN
      BY <1>a, <3>1, Zenon DEF TypeOK
    <3>3. faults' \in Nat
      BY <1>4, <1>a DEF Crash, TypeOK
    <3> QED BY <3>2, <3>3
  <2> QED BY <1>4, <1>a, <2>1, RecordsUnchanged
          DEF Crash, IInv, TypeOK, LedgerIsChain,
                                 CheckpointInLedger, CommandSound, Idle
<1>5. CASE AppendLateError
  <2>1. /\ op.event \in Event
        /\ op.event.exp = state.rev /\ op.event.res = state.rev + 1
    BY <1>5, <1>a DEF AppendLateError, CommandSound
  <2>2. AppendLine(op.event) /\ op.event.res = op.event.exp + 1
    BY <1>5, <2>1 DEF AppendLateError
  <2>3. /\ ledger' \in Seq(Event) /\ torn' = FALSE /\ LedgerIsChain'
        /\ DOMAIN ledger \subseteq DOMAIN ledger'
        /\ \A i \in DOMAIN ledger : ledger'[i] = ledger[i]
    BY <1>a, <2>1, <2>2, AppendKeepsChain
  <2>4. doc' \in Doc /\ faults' \in Nat
    BY <1>5, <1>a, <2>1 DEF AppendLateError, TypeOK, Event
  <2>5. TypeOK'
    BY <1>5, <1>a, <2>3, <2>4 DEF AppendLateError, TypeOK
  <2>6. CheckpointInLedger'
    BY <1>5, <1>a, <2>3 DEF AppendLateError, CheckpointInLedger
  <2>7. CommandSound'
    BY <1>5 DEF AppendLateError, CommandSound, Idle
  <2>8. RecordsAgree'
    <3>1. /\ op.event.records = state.records /\ LedgerEndsAt(state.rev)
          /\ ledger # <<>> => state.last = state.rev
      BY <1>5, <1>a DEF AppendLateError, CommandSound
    <3> QED BY <1>5, <1>a, <2>1, <2>2, <3>1, RecordsAppended DEF AppendLateError
  <2> QED BY <2>3, <2>5, <2>6, <2>7, <2>8 DEF IInv
<1>6. ASSUME NEW late \in BOOLEAN, MarkFails(late) PROVE IInv'
  <2>1. /\ op \in Op /\ op.doc \in Doc /\ op.back \in State
        /\ op.back.last = state.last
    BY <1>6, <1>a, OpType DEF MarkFails, CommandSound
  <2>2. state' \in State /\ state'.rev = state.rev + 1 /\ state'.last = state.last
    <3>1. state.rev + 1 \in Nat
      BY <1>a DEF TypeOK, State
    <3> QED BY <1>6, <2>1, <3>1 DEF MarkFails, State
  <2>3. doc' \in Doc /\ faults' \in Nat
    <3>1. Completed \in Doc
      BY <2>1 DEF Completed, Doc, Op
    <3> QED BY <1>6, <1>a, <3>1 DEF MarkFails, TypeOK
  <2>4. CheckpointInLedger' /\ RecordsAgree'
    BY <1>6, <1>a, <2>2, RecordsMoveOn DEF MarkFails, CheckpointInLedger
  <2> QED BY <1>6, <1>a, <2>2, <2>3, <2>4
          DEF MarkFails, IInv, TypeOK, LedgerIsChain, CommandSound, Idle
<1>7. CASE AppendFails
  <2>1. torn' \in BOOLEAN /\ faults' \in Nat
    <3>1. torn' = torn \/ torn' = TRUE
      BY <1>7 DEF AppendFails
    <3>2. torn' \in BOOLEAN
      BY <1>a, <3>1, Zenon DEF TypeOK
    <3>3. faults' \in Nat
      BY <1>7, <1>a DEF AppendFails, TypeOK
    <3> QED BY <3>2, <3>3
  <2> QED BY <1>7, <1>a, <2>1, RecordsUnchanged
          DEF AppendFails, IInv, TypeOK, LedgerIsChain, CheckpointInLedger, CommandSound,
              Idle
<1> QED BY <1>1, <1>2, <1>3, <1>4, <1>5, <1>6, <1>7 DEF Environment

-----------------------------------------------------------------------------
(* The theorems.                                                             *)

\* Every step preserves IInv.
LEMMA StepSound == IInv /\ [Next]_vars => IInv'
<1> SUFFICES ASSUME IInv, [Next]_vars PROVE IInv'
  OBVIOUS
<1>1. CASE Repair
  <2>1. SomeTask \in Tasks
    BY TasksAssumption DEF SomeTask
  <2>2. CASE \/ \E kind \in {"reopen", "amend", "resolve"}, t \in Tasks : Start(kind, t)
             \/ \E kind \in {"spec", "artifact", "undo"} : Start(kind, SomeTask)
    <3>1. PICK kind \in Kinds, t \in Tasks : Start(kind, t)
      BY <2>1, <2>2 DEF Kinds
    <3> QED BY <3>1, RecoverySound
  <2>3. CASE RecoverArtifact \/ ReplayEvent \/ Recovered \/ RecoverRefused
    BY <2>3, RecoverySound
  <2>4. CASE \/ PlanTaskReopen \/ PlanScopeAmend \/ PlanSpecReopen
             \/ PlanArtifactReopen \/ PlanDescendantResolution \/ PlanUndo
             \/ PlanRefused
    BY <2>4, PlanSound
  <2>5. CASE \/ WriteJournal \/ AppendWorkflowEvent \/ WriteArtifact
             \/ SaveProjection \/ RemoveJournal
    BY <2>5, CommitStepsSound
  <2> QED BY <1>1, <2>2, <2>3, <2>4, <2>5 DEF Repair
<1>2. CASE Direct
  BY <1>2, DirectSound
<1>3. CASE Environment
  BY <1>3, EnvironmentSound
<1>4. CASE UNCHANGED vars
  BY <1>4, RecordsUnchanged DEF vars, files, IInv, TypeOK, LedgerIsChain, CheckpointInLedger,
     CommandSound, LedgerEndsAt, Tip
<1> QED BY <1>1, <1>2, <1>3, <1>4 DEF Next

\* The inductive invariant holds in every state: the ledger is a chain, the
\* checkpoint of state.json is in it, and a command in flight holds what its
\* recovery and its plan established, however many commands die or fail.
THEOREM Invariance == Spec => []IInv
<1> QED BY InitSound, StepSound, PTL DEF Spec

\* Every variable keeps its type.
THEOREM TypeCorrect == Spec => []TypeOK
<1>1. IInv => TypeOK
  BY DEF IInv
<1> QED BY <1>1, Invariance, PTL

\* A repair that has recovered and planned never meets the conflict checks of
\* CommitWorkflowTransition, AppendWorkflowEvent and SaveStateCAS.
THEOREM NoConflict == Spec => []CommitNeverConflicts
<1>1. IInv => CommitNeverConflicts
  BY DEF IInv, CommandSound, CommitNeverConflicts
<1> QED BY <1>1, Invariance, PTL

\* No step takes a line out of the workflow ledger or rewrites one.
THEOREM LedgerGrows == Spec => LedgerAppendOnly
<1>1. ASSUME TypeOK, [Next]_vars PROVE [IsPrefix(ledger, ledger')]_vars
  <2>1. ledger \in Seq(Event)
    BY <1>1 DEF TypeOK
  <2>2. IsPrefix(ledger, ledger)
    BY <2>1 DEF IsPrefix
  <2>3. CASE AppendWorkflowEvent \/ AppendLateError
    <3>1. PICK e : ledger' = Append(ledger, e)
      BY <2>3 DEF AppendWorkflowEvent, AppendLateError, AppendLine
    <3> QED BY <2>1, <3>1 DEF IsPrefix
  <2>4. CASE ~(AppendWorkflowEvent \/ AppendLateError) /\ Next
    <3>1. ledger' = ledger
      BY <2>4 DEF Next, Repair, Direct, Environment, Start, RecoverArtifact, ReplayEvent,
         Recovered, RecoverRefused, PlanTaskReopen, PlanScopeAmend, PlanSpecReopen,
         PlanArtifactReopen, PlanDescendantResolution, PlanUndo, PlanRefused,
         WriteJournal, WriteArtifact, SaveProjection, RemoveJournal, CompleteTask,
         MarkComplete, AppendScoped, Verify, ClaimMission, EditTasks, Crash,
         AppendFails, MarkFails, files
    <3> QED BY <2>2, <3>1
  <2> QED BY <1>1, <2>2, <2>3, <2>4 DEF vars
<1> QED BY <1>1, TypeCorrect, PTL DEF Spec, LedgerAppendOnly

\* No step drops a record another command saved: where a repair, a recovery or
\* an undo would, the replay is refused first.
LEMMA RecordsStep ==
  ASSUME IInv, [Next]_vars
  PROVE  state'.records >= state.records
<1>1. TypeOK /\ LedgerIsChain /\ RecordsAgree /\ CommandSound /\ state.records \in Nat
  BY DEF IInv, TypeOK, State
<1>2. CASE ReplayEvent
  <2>1. Checkpoint \in 0 .. Len(ledger) /\ Len(ledger) \in Nat
    BY DEF IInv, CheckpointInLedger, Checkpoint, TypeOK
  <2>2. Checkpoint + 1 \in DOMAIN ledger
    BY <1>1, <1>2, <2>1 DEF ReplayEvent, Projected, TypeOK
  <2>3. state'.records = state.records
    BY <1>1, <1>2, <2>2, RecordsProjected DEF ReplayEvent, ReplayFits, FirstUnprojected
  <2> QED BY <1>1, <2>3
<1>3. CASE SaveProjection
  <2>1. Tip = op.event /\ ledger # <<>> /\ op.event.exp = state.rev
    BY <1>1, <1>3 DEF SaveProjection, CommandSound
  <2>2. Len(ledger) \in DOMAIN ledger
    BY <1>1, <2>1 DEF TypeOK
  <2>3. state'.records = state.records
    BY <1>1, <1>3, <2>1, <2>2, RecordsProjected DEF SaveProjection, Tip
  <2> QED BY <1>1, <2>3
<1>4. CASE AppendScoped
  BY <1>1, <1>4 DEF AppendScoped, TypeOK, State
<1>5. CASE \E t \in Tasks : CompleteTask(t)
  BY <1>1, <1>5 DEF CompleteTask, TypeOK, State
<1>6. CASE \E late \in BOOLEAN : MarkFails(late)
  <2>1. op.back \in State /\ op.back.records = state.records
    BY <1>1, <1>6 DEF MarkFails, CommandSound
  <2> QED BY <1>1, <1>6, <2>1 DEF MarkFails, State
<1>7. CASE /\ Next
           /\ ~(\/ ReplayEvent \/ SaveProjection \/ AppendScoped
                \/ \E t \in Tasks : CompleteTask(t)
                \/ \E late \in BOOLEAN : MarkFails(late))
  <2>1. state' = state
    BY <1>7 DEF Next, Repair, Direct, Environment, Start, RecoverArtifact, Recovered,
       RecoverRefused, PlanTaskReopen, PlanScopeAmend, PlanSpecReopen,
       PlanArtifactReopen, PlanDescendantResolution, PlanUndo, PlanRefused,
       WriteJournal, AppendWorkflowEvent, WriteArtifact, RemoveJournal,
       MarkComplete, Verify, ClaimMission, EditTasks, Crash, AppendFails,
       AppendLateError, files
  <2> QED BY <1>1, <2>1
<1>8. CASE UNCHANGED vars
  BY <1>1, <1>8 DEF vars
<1> QED BY <1>2, <1>3, <1>4, <1>5, <1>6, <1>7, <1>8

\* No repair, recovery or undo saves a projection that drops a record another
\* command saved: the replay is refused first.
THEOREM RecordsNeverLost == Spec => RecordsKept
<1>1. IInv /\ [Next]_vars => [state'.records >= state.records]_vars
  BY RecordsStep
<1> QED BY <1>1, Invariance, PTL DEF Spec, RecordsKept

-----------------------------------------------------------------------------
(* Leases.                                                                   *)

\* A repair that is about to open an attempt has surrendered its leases.
SurrenderedFirst ==
    op.step \in {"journal", "append"} /\ op.event.kind = "reopen" =>
        lease[op.event.task] = 0

\* A step that appends no reopen of a task leaves its attempt alone.
LEMMA AttemptUnchanged ==
  ASSUME TypeOK, NEW t \in Tasks,
         \/ UNCHANGED ledger
         \/ \E e \in Event : AppendLine(e) /\ ~(e.kind = "reopen" /\ e.task = t)
  PROVE  CurrentTaskAttempt(t)' = CurrentTaskAttempt(t)
<1>1. CASE UNCHANGED ledger
  BY <1>1 DEF CurrentTaskAttempt, Reopens
<1>2. CASE \E e \in Event : AppendLine(e) /\ ~(e.kind = "reopen" /\ e.task = t)
  <2>1. PICK e \in Event : AppendLine(e) /\ ~(e.kind = "reopen" /\ e.task = t)
    BY <1>2
  <2>2. /\ DOMAIN ledger = 1 .. Len(ledger) /\ Len(ledger) \in Nat
        /\ DOMAIN ledger' = 1 .. Len(ledger) + 1
        /\ \A i \in 1 .. Len(ledger) : ledger'[i] = ledger[i]
        /\ ledger'[Len(ledger) + 1] = e
    BY <2>1 DEF AppendLine, TypeOK
  <2>3. ASSUME NEW i PROVE i \in Reopens(t)' <=> i \in Reopens(t)
    BY <2>1, <2>2 DEF Reopens
  <2>4. Reopens(t)' = Reopens(t)
    BY <2>3
  <2>5. CASE Reopens(t) = {}
    BY <2>4, <2>5 DEF CurrentTaskAttempt
  <2>6. CASE Reopens(t) # {}
    <3> DEFINE last == CHOOSE i \in Reopens(t) : \A j \in Reopens(t) : j <= i
    <3>1. Reopens(t) \in SUBSET (1 .. Len(ledger))
      BY <2>2 DEF Reopens
    <3>2. \E i \in Reopens(t) : \A j \in Reopens(t) : j <= i
      BY <2>2, <2>6, <3>1, LastPosition
    <3>3. last \in Reopens(t)
      BY <3>2
    <3>4. CurrentTaskAttempt(t) = ledger[last].attempt
      BY <2>6 DEF CurrentTaskAttempt
    <3>5. CurrentTaskAttempt(t)' = ledger'[last].attempt
      BY <2>4, <2>6 DEF CurrentTaskAttempt
    <3> HIDE DEF last
    <3> QED BY <2>2, <3>1, <3>3, <3>4, <3>5
  <2> QED BY <2>5, <2>6
<1> QED BY <1>1, <1>2

\* An append of a committed event keeps every lease at the current attempt.
LEMMA LeaseAppended ==
  ASSUME IInv, LeaseOfCurrentAttempt, SurrenderedFirst,
         op.step = "append", AppendLine(op.event), UNCHANGED lease
  PROVE  LeaseOfCurrentAttempt'
<1>1. op.event \in Event /\ TypeOK
  BY DEF IInv, CommandSound
<1>2. ASSUME NEW t \in Tasks PROVE lease[t] \in {0, CurrentTaskAttempt(t)'}
  <2>1. CASE op.event.kind = "reopen" /\ op.event.task = t
    BY <2>1 DEF SurrenderedFirst
  <2>2. CASE ~(op.event.kind = "reopen" /\ op.event.task = t)
    <3>1. CurrentTaskAttempt(t)' = CurrentTaskAttempt(t)
      BY <1>1, <2>2, AttemptUnchanged
    <3> QED BY <3>1 DEF LeaseOfCurrentAttempt
  <2> QED BY <2>1, <2>2
<1> QED BY <1>2 DEF LeaseOfCurrentAttempt

\* A plan commits a reopen only with the lease of its task surrendered.
LEMMA LeasePlanned ==
  ASSUME IInv, LeaseOfCurrentAttempt,
         \/ PlanTaskReopen \/ PlanScopeAmend \/ PlanSpecReopen \/ PlanArtifactReopen
         \/ PlanDescendantResolution \/ PlanUndo \/ PlanRefused
  PROVE  LeaseOfCurrentAttempt' /\ SurrenderedFirst'
<1>1. CASE PlanTaskReopen
  <2>1. op \in Op /\ op.step = "plan" /\ TypeOK
    BY <1>1, OpType DEF PlanTaskReopen, Plan, IInv
  <2>2. /\ op'.event = TaskReopenEvent(op.task) /\ op'.event.task = op.task
        /\ op.task \in Tasks
    BY <1>1, <2>1 DEF PlanTaskReopen, Commit, TaskReopenEvent, NewEvent, Op
  <2>3. lease'[op.task] = 0
    BY <1>1, <2>2 DEF PlanTaskReopen, SurrenderLeases
  <2>4. ASSUME NEW t \in Tasks PROVE lease'[t] \in {0, CurrentTaskAttempt(t)'}
    <3>1. CurrentTaskAttempt(t)' = CurrentTaskAttempt(t)
      BY <1>1, <2>1, AttemptUnchanged DEF PlanTaskReopen
    <3>2. lease'[t] \in {0, lease[t]}
      BY <1>1 DEF PlanTaskReopen, SurrenderLeases
    <3> QED BY <3>1, <3>2 DEF LeaseOfCurrentAttempt
  <2> QED BY <2>2, <2>3, <2>4 DEF LeaseOfCurrentAttempt, SurrenderedFirst
<1>2. CASE \/ PlanScopeAmend \/ PlanSpecReopen \/ PlanArtifactReopen
           \/ PlanDescendantResolution \/ PlanUndo
  <2>1. PICK e : Commit(e) /\ e.kind # "reopen"
    BY <1>2 DEF PlanScopeAmend, PlanSpecReopen, PlanArtifactReopen, UndoCompensation,
                PlanDescendantResolution, PlanUndo, ScopeAmendEvent, SpecReopenEvent,
                ArtifactReopenEvent, DescendantResolutionEvent, NewEvent
  <2>2. op \in Op /\ UNCHANGED <<ledger, lease>>
    BY <1>2, OpType DEF PlanScopeAmend, PlanSpecReopen, PlanArtifactReopen, Plan,
                        PlanDescendantResolution, PlanUndo, files, IInv
  <2>3. op'.event = e
    BY <2>1, <2>2 DEF Commit, Op
  <2> QED BY <2>1, <2>2, <2>3
          DEF SurrenderedFirst, LeaseOfCurrentAttempt, CurrentTaskAttempt, Reopens
<1>3. CASE PlanRefused
  BY <1>3 DEF PlanRefused, files, Idle, SurrenderedFirst, LeaseOfCurrentAttempt,
              CurrentTaskAttempt, Reopens
<1> QED BY <1>1, <1>2, <1>3

\* A lease outlives no attempt: wherever a reopen dies, the next attempt enters
\* the ledger with the leases of the one before surrendered.
THEOREM LeaseFollowsAttempt == Spec => []LeaseOfCurrentAttempt
<1> DEFINE Inv == IInv /\ LeaseOfCurrentAttempt /\ SurrenderedFirst
<1>1. Init => Inv
  BY InitSound DEF Init, LeaseOfCurrentAttempt, SurrenderedFirst, Idle
<1>2. Inv /\ [Next]_vars => Inv'
  <2> SUFFICES ASSUME Inv, [Next]_vars PROVE LeaseOfCurrentAttempt' /\ SurrenderedFirst'
    BY StepSound
  <2>1. CASE \/ PlanTaskReopen \/ PlanScopeAmend \/ PlanSpecReopen
             \/ PlanArtifactReopen \/ PlanDescendantResolution \/ PlanUndo
             \/ PlanRefused
    BY <2>1, LeasePlanned
  <2>2. CASE AppendWorkflowEvent
    <3>1. /\ op.step = "append" /\ AppendLine(op.event) /\ UNCHANGED lease
          /\ op'.step \in {"artifact", "save"}
      BY <2>2, OpType DEF AppendWorkflowEvent, IInv, Op, Steps
    <3> QED BY <3>1, LeaseAppended DEF SurrenderedFirst
  <2>3. CASE AppendLateError
    <3>1. op.step = "append" /\ AppendLine(op.event) /\ UNCHANGED lease /\ op' = Idle
      BY <2>3 DEF AppendLateError
    <3> QED BY <3>1, LeaseAppended DEF SurrenderedFirst, Idle
  <2>4. CASE WriteJournal
    <3>1. /\ op.step = "journal" /\ op'.event = op.event /\ UNCHANGED <<ledger, lease>>
      BY <2>4, OpType DEF WriteJournal, IInv, Op
    <3> QED BY <3>1 DEF SurrenderedFirst, LeaseOfCurrentAttempt, CurrentTaskAttempt,
                        Reopens
  <2>5. ASSUME NEW t \in Tasks, ClaimMission(t)
        PROVE  LeaseOfCurrentAttempt' /\ SurrenderedFirst'
    <3>1. /\ op' = Idle /\ UNCHANGED ledger /\ TypeOK
          /\ lease' = [lease EXCEPT ![t] = CurrentTaskAttempt(t)]
      BY <2>5 DEF ClaimMission, IInv
    <3>2. ASSUME NEW u \in Tasks PROVE lease'[u] \in {0, CurrentTaskAttempt(u)'}
      <4>1. CurrentTaskAttempt(u)' = CurrentTaskAttempt(u)
        BY <3>1, AttemptUnchanged
      <4>2. lease'[u] = IF u = t THEN CurrentTaskAttempt(u) ELSE lease[u]
        BY <3>1 DEF TypeOK
      <4> QED BY <4>1, <4>2 DEF LeaseOfCurrentAttempt
    <3> QED BY <3>1, <3>2 DEF Idle, SurrenderedFirst, LeaseOfCurrentAttempt
  <2>6. CASE \/ \E kind \in Kinds, t \in Tasks \cup {SomeTask} : Start(kind, t)
             \/ RecoverArtifact \/ ReplayEvent \/ Recovered \/ RecoverRefused
             \/ WriteArtifact \/ SaveProjection \/ RemoveJournal \/ Direct
             \/ \E t \in Tasks : Verify(t) \/ EditTasks(t)
             \/ Crash \/ AppendFails \/ \E late \in BOOLEAN : MarkFails(late)
    <3>1. UNCHANGED <<ledger, lease>>
      BY <2>6
         DEF Direct, Start, RecoverArtifact, ReplayEvent, Recovered, RecoverRefused,
             WriteArtifact, SaveProjection, RemoveJournal, CompleteTask, MarkComplete,
             AppendScoped, Verify, EditTasks, Crash, AppendFails, MarkFails, files
    <3>2. op'.step \notin {"journal", "append"}
      <4>1. CASE \/ RecoverRefused \/ RemoveJournal \/ MarkComplete \/ AppendScoped
                 \/ \E t \in Tasks : Verify(t) \/ EditTasks(t)
                 \/ Crash \/ AppendFails \/ \E late \in BOOLEAN : MarkFails(late)
        <5>1. op' = Idle
          BY <4>1 DEF RecoverRefused, RemoveJournal, MarkComplete, AppendScoped, Verify,
                      EditTasks, Crash, AppendFails, MarkFails
        <5> QED BY <5>1 DEF Idle
      <4>2. ASSUME NEW kind \in Kinds, NEW t \in Tasks \cup {SomeTask}, Start(kind, t)
            PROVE  op'.step \notin {"journal", "append"}
        BY <4>2 DEF Start, Begin
      <4>5. ASSUME NEW t \in Tasks, CompleteTask(t)
            PROVE  op'.step \notin {"journal", "append"}
        BY <4>5 DEF CompleteTask, Begin
      <4>3. CASE RecoverArtifact \/ Recovered \/ WriteArtifact \/ SaveProjection
        <5>1. op \in Op
          BY <4>3, OpType DEF RecoverArtifact, Recovered, WriteArtifact, SaveProjection,
                              IInv
        <5>2. op'.step \in {"replay", "plan", "save", "unjournal", "idle"}
          BY <4>3, <5>1 DEF RecoverArtifact, Recovered, WriteArtifact, SaveProjection,
                            Op, Idle
        <5> QED BY <5>2
      <4>4. CASE ReplayEvent
        BY <4>4 DEF ReplayEvent
      <4> QED BY <2>6, <4>1, <4>2, <4>5, <4>3, <4>4 DEF Direct
    <3> QED BY <3>2, <3>1 DEF SurrenderedFirst, LeaseOfCurrentAttempt, CurrentTaskAttempt,
                        Reopens
  <2>7. CASE UNCHANGED vars
    BY <2>7 DEF vars, SurrenderedFirst, LeaseOfCurrentAttempt, CurrentTaskAttempt,
                Reopens
  <2> QED BY <2>1, <2>2, <2>3, <2>4, <2>5, <2>6, <2>7
          DEF Next, Repair, Environment, Kinds
<1>3. Inv => LeaseOfCurrentAttempt
  OBVIOUS
<1> QED BY <1>1, <1>2, <1>3, PTL DEF Spec

-----------------------------------------------------------------------------
(***************************************************************************)
(* Recovery of the workflow ledger: whatever write a repair dies at, the   *)
(* next command finds files its recovery accepts and completes.            *)
(***************************************************************************)

\* The last line of a ledger that has one.
LEMMA TipType ==
  ASSUME TypeOK, ledger # <<>>
  PROVE  /\ Len(ledger) \in DOMAIN ledger /\ Len(ledger) \in Nat
         /\ Tip = ledger[Len(ledger)] /\ Tip \in Event /\ Tip # None
<1>1. ledger \in Seq(Event)
  BY DEF TypeOK
<1>2. Len(ledger) \in DOMAIN ledger /\ Len(ledger) \in Nat
  BY <1>1
<1> QED BY <1>1, <1>2, LineType, NoneAssumption DEF Tip

\* A spec before its first event satisfies RecoveryInv.
LEMMA InitRecovery == Init => RecoveryInv
BY DEF Init, RecoveryInv, LedgerIsOrdered, CommandWrites, AtRest, Idle

\* Steps that leave state.json, tasks.md, the ledger and the journal alone keep
\* what AtRest says of them.
LEMMA AtRestUnchanged ==
  ASSUME UNCHANGED <<state, doc, ledger, journal>>
  PROVE  (AtRest <=> AtRest') /\ (LedgerIsOrdered <=> LedgerIsOrdered')
BY DEF AtRest, LedgerIsOrdered, Tip, LedgerEndsAt, Projection

\* With nothing written outside the ledger, the first event that is not
\* projected is the last one, and state.json is at the revision it expects.
LEMMA CheckpointAtRest ==
  ASSUME IInv, LedgerIsOrdered, AtRest
  PROVE  /\ CheckpointFits /\ ReplayFits
         /\ ~Projected => ledger # <<>> /\ FirstUnprojected = Tip
         /\ Projected /\ ledger # <<>> => state = Projection(Tip)
<1>1. CASE ledger = <<>>
  <2>1. DOMAIN ledger = {} /\ Len(ledger) = 0
    BY <1>1
  <2>2. state.last = 0
    BY <2>1 DEF IInv, CheckpointInLedger
  <2> QED BY <1>1, <2>1, <2>2
          DEF CheckpointFits, ReplayFits, Projected, Checkpoint
<1>2. CASE ledger # <<>>
  <2> DEFINE n == Len(ledger)
  <2>1. /\ n \in DOMAIN ledger /\ n \in Nat /\ Tip = ledger[n]
        /\ DOMAIN ledger = 1 .. n
    BY <1>2, TipType DEF IInv, TypeOK
  <2>2. \A i \in DOMAIN ledger :
          /\ ledger[i].exp \in Nat /\ ledger[i].res \in Nat
          /\ ledger[i].res = ledger[i].exp + 1
    BY LineType DEF IInv, LedgerIsChain
  <2>3. \A i, j \in DOMAIN ledger : ledger[i].res = ledger[j].res => i = j
    <3>1. ASSUME NEW i \in DOMAIN ledger, NEW j \in DOMAIN ledger, i < j
          PROVE  ledger[i].res < ledger[j].res
      BY <2>2, <3>1 DEF LedgerIsOrdered
    <3> QED BY <2>1, <2>2, <3>1
  <2>4. ASSUME NEW k \in DOMAIN ledger, state.last = ledger[k].res
        PROVE  Checkpoint = k
    <3>1. state.last # 0
      BY <2>2, <2>4
    <3>2. \A i \in DOMAIN ledger : ledger[i].res = state.last <=> i = k
      BY <2>3, <2>4
    <3> QED BY <3>1, <3>2 DEF Checkpoint
  <2>5. CASE state = Projection(Tip)
    <3>1. state.last = ledger[n].res /\ state.rev = state.last
      BY <2>1, <2>5 DEF Projection
    <3>2. Checkpoint = n
      BY <2>1, <2>4, <3>1
    <3> HIDE DEF n
    <3>3. CheckpointFits
      BY <2>1, <3>1 DEF CheckpointFits
    <3> QED BY <2>5, <3>2, <3>3 DEF ReplayFits, Projected, n
  <2>6. CASE /\ state.rev = Tip.exp
             /\ state.last = IF Len(ledger) = 1 THEN 0 ELSE state.rev
    <3>1. CASE n = 1
      <4>1. Checkpoint = 0 /\ state.last = 0
        BY <2>6, <3>1 DEF Checkpoint
      <4> QED BY <1>2, <2>1, <2>6, <3>1, <4>1
              DEF CheckpointFits, ReplayFits, Projected, FirstUnprojected
    <3>2. CASE n # 1
      <4>1. n - 1 \in DOMAIN ledger /\ (n - 1) + 1 = n /\ n > 1
        BY <2>1, <3>2
      <4>2. ledger[n - 1].res = Tip.exp
        BY <2>1, <4>1 DEF IInv, LedgerIsChain
      <4>3. state.last = ledger[n - 1].res /\ state.rev = state.last
        BY <2>6, <3>2, <4>2
      <4>4. Checkpoint = n - 1
        BY <2>4, <4>1, <4>3
      <4>5. CheckpointFits
        BY <4>1, <4>3 DEF CheckpointFits
      <4>6. ~Projected /\ FirstUnprojected = Tip
        <5>1. Checkpoint # n /\ Checkpoint + 1 = n
          <6> HIDE DEF n
          <6>1. n - 1 # n
            BY <2>1
          <6> QED BY <4>1, <4>4, <6>1
        <5> QED BY <2>1, <5>1 DEF Projected, FirstUnprojected
      <4> QED BY <1>2, <2>6, <4>5, <4>6 DEF ReplayFits
    <3> QED BY <3>1, <3>2
  <2> QED BY <1>2, <2>5, <2>6 DEF AtRest
<1> QED BY <1>1, <1>2

\* A journal whose event is in the ledger holds an event, and JournalFits then
\* says it is the last one.
LEMMA CommittedIsTip ==
  ASSUME IInv, JournalFits
  PROVE  /\ Committed => ledger # <<>> /\ journal = Tip /\ journal # None
         /\ ledger # <<>> /\ journal = Tip => Committed
<1>1. ASSUME Committed PROVE ledger # <<>> /\ journal = Tip /\ journal # None
  <2>1. PICK i \in DOMAIN ledger : ledger[i] = journal
    BY <1>1 DEF Committed
  <2>2. journal # None /\ ledger # <<>>
    BY <2>1, LineType, NoneAssumption DEF IInv
  <2> QED BY <1>1, <2>2 DEF JournalFits
<1>2. ASSUME ledger # <<>>, journal = Tip PROVE Committed
  BY <1>2, TipType DEF Committed, IInv
<1> QED BY <1>1, <1>2

-----------------------------------------------------------------------------
(* RecoveryInv is inductive.                                                 *)

\* Starting a command, and the steps of its recovery, preserve RecoveryInv.
LEMMA RecoveryStepsRest ==
  ASSUME IInv, RecoveryInv,
         \/ \E kind \in Kinds, t \in Tasks : Start(kind, t)
         \/ RecoverArtifact \/ ReplayEvent \/ Recovered \/ RecoverRefused
  PROVE  RecoveryInv'
<1>a. LedgerIsOrdered /\ CommandWrites /\ (~touched => AtRest)
  BY DEF RecoveryInv
<1>1. ASSUME NEW kind \in Kinds, NEW t \in Tasks, Start(kind, t) PROVE RecoveryInv'
  <2>1. op'.step = "recover" /\ UNCHANGED <<state, doc, ledger, journal, touched>>
    BY <1>1 DEF Start, Begin, files
  <2> QED BY <1>a, <2>1, AtRestUnchanged DEF RecoveryInv, CommandWrites
<1>2. CASE RecoverArtifact
  <2>1. op \in Op /\ op'.step = "replay"
    BY <1>2, OpType DEF RecoverArtifact, IInv, Op, Steps
  <2>2. UNCHANGED <<state, ledger, touched>> /\ JournalFits
    BY <1>2 DEF RecoverArtifact
  <2>3. CASE Committed
    <3>1. ledger # <<>> /\ journal = Tip /\ journal' = Tip /\ doc' = Tip.after
      BY <1>2, <2>2, <2>3, CommittedIsTip DEF RecoverArtifact
    <3>2. CommandWrites'
      BY <2>1, <2>2, <3>1 DEF CommandWrites, Tip
    <3>3. (~touched => AtRest)'
      BY <1>a, <2>2, <3>1 DEF AtRest, Tip, Projection
    <3> QED BY <1>a, <2>2, <3>2, <3>3 DEF RecoveryInv, LedgerIsOrdered
  <2>4. CASE ~Committed
    <3>1. journal' = None /\ doc' = doc
      BY <1>2, <2>4 DEF RecoverArtifact
    <3>2. CommandWrites'
      BY <2>1, <3>1 DEF CommandWrites
    <3>3. ledger # <<>> => journal # Tip
      BY <2>2, <2>4, CommittedIsTip
    <3>4. (~touched => AtRest)'
      BY <1>a, <2>2, <3>1, <3>3 DEF AtRest, Tip, Projection
    <3> QED BY <1>a, <2>2, <3>2, <3>4 DEF RecoveryInv, LedgerIsOrdered
  <2> QED BY <2>3, <2>4
<1>3. CASE ReplayEvent
  <2>1. /\ op.step = "replay" /\ ~Projected
        /\ UNCHANGED <<doc, ledger, journal, touched, op>>
        /\ state' = Projection(FirstUnprojected)
    BY <1>3 DEF ReplayEvent
  <2>2. CommandWrites'
    BY <1>a, <2>1 DEF CommandWrites, Tip
  <2>3. ASSUME ~touched PROVE AtRest'
    <3>1. AtRest /\ ledger # <<>> /\ state' = Projection(Tip)
      BY <1>a, <2>1, <2>3, CheckpointAtRest
    <3>2. journal # None => journal = Tip
      BY <1>a, <2>1 DEF CommandWrites
    <3> QED BY <2>1, <3>1, <3>2 DEF AtRest, Tip, Projection
  <2> QED BY <1>a, <2>1, <2>2, <2>3 DEF RecoveryInv, LedgerIsOrdered
<1>4. CASE Recovered
  <2>1. /\ op \in Op /\ op.step = "replay" /\ op'.step = "plan" /\ journal' = None
        /\ UNCHANGED <<state, doc, ledger, touched>>
    BY <1>4, OpType DEF Recovered, IInv, Op, Steps
  <2>2. CommandWrites'
    BY <2>1 DEF CommandWrites
  <2>3. ASSUME ~touched PROVE AtRest'
    <3>1. ledger # <<>> => doc = Tip.after
      BY <1>a, <2>1, <2>3, TipType DEF AtRest, CommandWrites, IInv
    <3> QED BY <1>a, <2>1, <2>3, <3>1 DEF AtRest, Tip, Projection
  <2> QED BY <1>a, <2>1, <2>2, <2>3 DEF RecoveryInv, LedgerIsOrdered
<1>5. CASE RecoverRefused
  <2>1. op' = Idle /\ UNCHANGED <<state, doc, ledger, journal, touched>>
    BY <1>5 DEF RecoverRefused, files
  <2> QED BY <1>a, <2>1, AtRestUnchanged DEF RecoveryInv, CommandWrites, Idle
<1> QED BY <1>1, <1>2, <1>3, <1>4, <1>5

\* A plan commits an event built on tasks.md as it is.
LEMMA CommitRests ==
  ASSUME IInv, RecoveryInv, op.step = "plan",
         NEW e, e.before = doc, Commit(e),
         UNCHANGED <<state, doc, ledger, torn, journal, evidence, touched, faults>>
  PROVE  RecoveryInv'
<1>1. /\ op \in Op /\ op'.event = e
      /\ op'.step = IF Bound(e) THEN "journal" ELSE "append"
  BY OpType DEF IInv, Commit, Op, Steps
<1>2. journal = None
  BY DEF RecoveryInv, CommandWrites
<1>3. CommandWrites'
  BY <1>1, <1>2 DEF CommandWrites, Bound
<1> QED BY <1>3, AtRestUnchanged DEF RecoveryInv

\* Every plan, refused or committed, preserves RecoveryInv.
LEMMA PlansRest ==
  ASSUME IInv, RecoveryInv,
         \/ PlanTaskReopen \/ PlanScopeAmend \/ PlanSpecReopen \/ PlanArtifactReopen
         \/ PlanDescendantResolution \/ PlanUndo \/ PlanRefused
  PROVE  RecoveryInv'
<1>1. CASE PlanTaskReopen
  <2>1. /\ op.step = "plan" /\ TaskReopenEvent(op.task).before = doc
        /\ Commit(TaskReopenEvent(op.task))
        /\ UNCHANGED <<state, doc, ledger, torn, journal, evidence, touched, faults>>
    BY <1>1 DEF PlanTaskReopen, Plan, TaskReopenEvent, NewEvent
  <2> QED BY <2>1, CommitRests
<1>2. CASE PlanScopeAmend
  <2>1. /\ op.step = "plan" /\ ScopeAmendEvent(op.task).before = doc
        /\ Commit(ScopeAmendEvent(op.task))
        /\ UNCHANGED <<state, doc, ledger, torn, journal, evidence, touched, faults>>
    BY <1>2 DEF PlanScopeAmend, Plan, ScopeAmendEvent, NewEvent, files
  <2> QED BY <2>1, CommitRests
<1>3. CASE PlanSpecReopen
  <2>1. /\ op.step = "plan" /\ SpecReopenEvent(op.task).before = doc
        /\ Commit(SpecReopenEvent(op.task))
        /\ UNCHANGED <<state, doc, ledger, torn, journal, evidence, touched, faults>>
    BY <1>3 DEF PlanSpecReopen, Plan, SpecReopenEvent, NewEvent, files
  <2> QED BY <2>1, CommitRests
<1>4. CASE PlanArtifactReopen
  <2>1. /\ op.step = "plan" /\ ArtifactReopenEvent(op.task).before = doc
        /\ Commit(ArtifactReopenEvent(op.task))
        /\ UNCHANGED <<state, doc, ledger, torn, journal, evidence, touched, faults>>
    BY <1>4 DEF PlanArtifactReopen, Plan, ArtifactReopenEvent, NewEvent, files
  <2> QED BY <2>1, CommitRests
<1>5. CASE PlanDescendantResolution
  <2>1. /\ op.step = "plan" /\ DescendantResolutionEvent(op.task).before = doc
        /\ Commit(DescendantResolutionEvent(op.task))
        /\ UNCHANGED <<state, doc, ledger, torn, journal, evidence, touched, faults>>
    BY <1>5 DEF PlanDescendantResolution, Plan, DescendantResolutionEvent, NewEvent,
                files
  <2> QED BY <2>1, CommitRests
<1>6. CASE PlanUndo
  <2>1. /\ op.step = "plan" /\ UndoCompensation.before = doc
        /\ Commit(UndoCompensation)
        /\ UNCHANGED <<state, doc, ledger, torn, journal, evidence, touched, faults>>
    BY <1>6 DEF PlanUndo, Plan, UndoCompensation, NewEvent, files
  <2> QED BY <2>1, CommitRests
<1>7. CASE PlanRefused
  <2>1. op' = Idle /\ UNCHANGED <<state, doc, ledger, journal, touched>>
    BY <1>7 DEF PlanRefused, files
  <2> QED BY <2>1, AtRestUnchanged DEF RecoveryInv, CommandWrites, Idle
<1> QED BY <1>1, <1>2, <1>3, <1>4, <1>5, <1>6, <1>7

\* An append is, once durable, all a repair needs: its event is the last one,
\* state.json awaits it, and tasks.md has it or the journal holds it.
LEMMA AppendRests ==
  ASSUME IInv, RecoveryInv, op.step = "append", AppendLine(op.event),
         UNCHANGED <<state, journal>>,
         doc' \in {doc, IF Bound(op.event) THEN op.event.after ELSE doc}
  PROVE  AtRest' /\ LedgerIsOrdered' /\ ledger' # <<>> /\ Tip' = op.event
<1> DEFINE e == op.event
<1>1. /\ e \in Event /\ e.exp = state.rev /\ e.res = state.rev + 1 /\ e.res = e.exp + 1
      /\ LedgerEndsAt(state.rev) /\ (ledger # <<>> => state.last = state.rev)
      /\ TypeOK /\ LedgerIsChain /\ LedgerIsOrdered /\ e # None
      /\ state.rev \in Nat
  BY NoneAssumption DEF IInv, CommandSound, RecoveryInv, TypeOK, State
<1>2. e.before = doc /\ journal = IF Bound(e) THEN e ELSE None
  BY DEF RecoveryInv, CommandWrites
<1>3. /\ ledger' \in Seq(Event) /\ ledger' # <<>> /\ Tip' = e
  BY <1>1, AppendKeepsChain
<1>4. /\ DOMAIN ledger = 1 .. Len(ledger) /\ Len(ledger) \in Nat
      /\ Len(ledger') = Len(ledger) + 1 /\ DOMAIN ledger' = 1 .. Len(ledger) + 1
      /\ \A i \in DOMAIN ledger : ledger'[i] = ledger[i]
      /\ ledger'[Len(ledger) + 1] = e
  BY <1>1 DEF AppendLine, TypeOK
<1>5. \A i \in DOMAIN ledger : ledger[i].res <= e.exp
  <2>1. ASSUME NEW i \in DOMAIN ledger PROVE ledger[i].res <= e.exp
    <3>1. /\ ledger # <<>> /\ Len(ledger) \in DOMAIN ledger
          /\ ledger[Len(ledger)].res = e.exp
      BY <1>1, <1>4, <2>1 DEF LedgerEndsAt, Tip
    <3>2. ledger[Len(ledger)].res = ledger[Len(ledger)].exp + 1
      BY <1>1, <3>1 DEF LedgerIsChain
    <3>3. i < Len(ledger) => ledger[i].res <= ledger[Len(ledger)].exp
      BY <1>1, <2>1, <3>1 DEF LedgerIsOrdered
    <3>4. i = Len(ledger) \/ i < Len(ledger)
      BY <1>4, <2>1
    <3>5. ledger[Len(ledger)].exp \in Nat /\ ledger[i].res \in Nat
      BY <1>1, <2>1, <3>1, LineType
    <3> QED BY <1>1, <3>1, <3>2, <3>3, <3>4, <3>5
  <2> QED BY <2>1
<1>6. LedgerIsOrdered'
  <2>1. ASSUME NEW i \in DOMAIN ledger', NEW j \in DOMAIN ledger', i < j
        PROVE  ledger'[i].res <= ledger'[j].exp
    <3>1. i \in DOMAIN ledger
      BY <1>4, <2>1
    <3>2. CASE j \in DOMAIN ledger
      BY <1>1, <1>4, <2>1, <3>1, <3>2 DEF LedgerIsOrdered
    <3>3. CASE j = Len(ledger) + 1
      BY <1>4, <1>5, <3>1, <3>3
    <3> QED BY <1>4, <2>1, <3>2, <3>3
  <2> QED BY <2>1 DEF LedgerIsOrdered
<1>7. state'.rev = Tip'.exp /\ state'.last = IF Len(ledger') = 1 THEN 0 ELSE state'.rev
  <2>1. ledger = <<>> => state.last = 0
    BY DEF IInv, CheckpointInLedger
  <2>2. ledger = <<>> <=> Len(ledger') = 1
    BY <1>1, <1>4 DEF TypeOK
  <2> QED BY <1>1, <1>3, <2>1, <2>2
<1>8. doc' = Tip'.after \/ (journal' = Tip' /\ doc' = Tip'.before)
  <2> HIDE DEF e
  <2>1. CASE Bound(e)
    BY <1>2, <1>3, <2>1 DEF e
  <2>2. CASE ~Bound(e)
    BY <1>2, <1>3, <2>2 DEF Bound, e
  <2> QED BY <2>1, <2>2
<1>9. journal' # None => journal' = Tip'
  BY <1>2, <1>3
<1> QED BY <1>3, <1>6, <1>7, <1>8, <1>9 DEF AtRest

\* The writes of CommitWorkflowTransition preserve RecoveryInv.
LEMMA CommitStepsRest ==
  ASSUME IInv, RecoveryInv,
         \/ WriteJournal \/ AppendWorkflowEvent \/ WriteArtifact \/ SaveProjection
         \/ RemoveJournal
  PROVE  RecoveryInv'
<1>a. LedgerIsOrdered /\ CommandWrites /\ (~touched => AtRest)
  BY DEF RecoveryInv
<1>1. CASE WriteJournal
  <2>1. /\ op \in Op /\ op.step = "journal" /\ op'.step = "append"
        /\ op'.event = op.event /\ journal' = op.event
        /\ UNCHANGED <<state, doc, ledger, touched>>
    BY <1>1, OpType DEF WriteJournal, IInv, Op, Steps
  <2>2. /\ op.event \in Event
        /\ op.event.exp = state.rev /\ op.event.res = state.rev + 1
        /\ LedgerEndsAt(state.rev)
    BY <2>1 DEF IInv, CommandSound
  <2>3. journal = None /\ doc = op.event.before /\ Bound(op.event)
    BY <1>a, <2>1 DEF CommandWrites
  <2>4. CommandWrites'
    BY <2>1, <2>3 DEF CommandWrites, Bound
  <2>5. ASSUME ~touched PROVE AtRest'
    <3>1. ledger # <<>> => doc = Tip.after
      BY <1>a, <2>3, <2>5, TipType DEF AtRest, IInv
    <3> QED BY <1>a, <2>1, <2>2, <2>3, <2>5, <3>1
            DEF AtRest, Tip, Projection, LedgerEndsAt
  <2> QED BY <1>a, <2>1, <2>4, <2>5 DEF RecoveryInv, LedgerIsOrdered
<1>2. CASE AppendWorkflowEvent
  <2>1. /\ op \in Op /\ op.step = "append" /\ AppendLine(op.event)
        /\ op'.step = IF Bound(op.event) THEN "artifact" ELSE "save"
        /\ op'.event = op.event /\ touched' = FALSE
        /\ UNCHANGED <<state, doc, journal>>
    BY <1>2, OpType DEF AppendWorkflowEvent, IInv, Op, Steps
  <2>2. AtRest' /\ LedgerIsOrdered' /\ ledger' # <<>> /\ Tip' = op.event
    BY <2>1, AppendRests
  <2>3. /\ op.event.before = doc
        /\ journal = IF Bound(op.event) THEN op.event ELSE None
    BY <1>a, <2>1 DEF CommandWrites
  <2>4. CommandWrites'
    BY <2>1, <2>3 DEF CommandWrites, Bound
  <2> QED BY <2>2, <2>4 DEF RecoveryInv
<1>3. CASE WriteArtifact
  <2>1. /\ op \in Op /\ op.step = "artifact" /\ op'.step = "save"
        /\ op'.event = op.event /\ doc' = op.event.after
        /\ UNCHANGED <<state, ledger, journal, touched>>
    BY <1>3, OpType DEF WriteArtifact, IInv, Op, Steps
  <2>2. ledger # <<>> /\ Tip = op.event /\ Tip # None
    BY <2>1, TipType DEF IInv, CommandSound
  <2>3. /\ Bound(op.event) /\ journal = op.event /\ AtRest
    BY <1>a, <2>1 DEF CommandWrites
  <2>4. CommandWrites'
    BY <1>a, <2>1, <2>3 DEF CommandWrites, Bound
  <2>5. AtRest'
    BY <2>1, <2>2, <2>3 DEF AtRest, Tip, Projection
  <2> QED BY <1>a, <2>1, <2>4, <2>5 DEF RecoveryInv, LedgerIsOrdered
<1>4. CASE SaveProjection
  <2>1. /\ op \in Op /\ op.step = "save" /\ state' = Projection(op.event)
        /\ op' = IF Bound(op.event) THEN [op EXCEPT !.step = "unjournal"] ELSE Idle
        /\ UNCHANGED <<doc, ledger, journal, touched>>
    BY <1>4, OpType DEF SaveProjection, IInv
  <2>2. ledger # <<>> /\ Tip = op.event
    BY <2>1 DEF IInv, CommandSound
  <2>3. /\ journal = IF Bound(op.event) THEN op.event ELSE None
        /\ doc = op.event.after /\ ~touched
    BY <1>a, <2>1 DEF CommandWrites
  <2>4. AtRest'
    BY <2>1, <2>2, <2>3 DEF AtRest, Tip, Projection
  <2>5. CASE Bound(op.event)
    <3>1. op'.step = "unjournal" /\ journal = Tip
      BY <2>1, <2>2, <2>3, <2>5 DEF Op, Steps
    <3>2. CommandWrites'
      BY <2>1, <2>2, <2>3, <3>1 DEF CommandWrites, Tip, Projection
    <3> QED BY <1>a, <2>1, <2>4, <3>2 DEF RecoveryInv, LedgerIsOrdered
  <2>6. CASE ~Bound(op.event)
    BY <1>a, <2>1, <2>4, <2>6 DEF RecoveryInv, LedgerIsOrdered, CommandWrites, Idle
  <2> QED BY <2>5, <2>6
<1>5. CASE RemoveJournal
  <2>1. /\ op.step = "unjournal" /\ op' = Idle /\ journal' = None
        /\ UNCHANGED <<state, doc, ledger, touched>>
    BY <1>5 DEF RemoveJournal
  <2>2. doc = Tip.after /\ state = Projection(Tip)
    BY <1>a, <2>1 DEF CommandWrites
  <2>3. AtRest'
    BY <2>1, <2>2 DEF AtRest, Tip, Projection
  <2> QED BY <1>a, <2>1, <2>3 DEF RecoveryInv, LedgerIsOrdered, CommandWrites, Idle
<1> QED BY <1>1, <1>2, <1>3, <1>4, <1>5

\* The other commands, the crashes and the failing writes preserve RecoveryInv.
LEMMA OthersRest ==
  ASSUME IInv, RecoveryInv, Direct \/ Environment
  PROVE  RecoveryInv'
<1>a. LedgerIsOrdered /\ CommandWrites /\ (~touched => AtRest)
  BY DEF RecoveryInv
<1>1. ASSUME NEW t \in Tasks, CompleteTask(t) PROVE RecoveryInv'
  <2>1. op'.step = "mark" /\ touched' /\ UNCHANGED ledger
    BY <1>1 DEF CompleteTask, Begin
  <2> QED BY <1>a, <2>1 DEF RecoveryInv, LedgerIsOrdered, CommandWrites
<1>2. CASE MarkComplete \/ \E late \in BOOLEAN : MarkFails(late)
  <2>1. op' = Idle /\ touched' /\ UNCHANGED ledger
    BY <1>2, <1>a DEF MarkComplete, MarkFails, CommandWrites
  <2> QED BY <1>a, <2>1 DEF RecoveryInv, LedgerIsOrdered, CommandWrites, Idle
<1>3. CASE AppendScoped \/ \E t \in Tasks : EditTasks(t)
  <2>1. op' = Idle /\ touched' /\ UNCHANGED ledger
    BY <1>3 DEF AppendScoped, EditTasks
  <2> QED BY <1>a, <2>1 DEF RecoveryInv, LedgerIsOrdered, CommandWrites, Idle
<1>4. CASE Crash \/ \E t \in Tasks : Verify(t) \/ ClaimMission(t)
  <2>1. op' = Idle /\ UNCHANGED <<state, doc, ledger, journal, touched>>
    BY <1>4 DEF Crash, Verify, ClaimMission
  <2> QED BY <1>a, <2>1, AtRestUnchanged DEF RecoveryInv, CommandWrites, Idle
<1>5. CASE AppendLateError
  <2>1. /\ op.step = "append" /\ AppendLine(op.event) /\ op' = Idle
        /\ touched' = FALSE /\ UNCHANGED <<state, journal>>
        /\ doc' = IF Bound(op.event) THEN op.event.after ELSE doc
    BY <1>5 DEF AppendLateError
  <2>2. AtRest' /\ LedgerIsOrdered'
    BY <2>1, AppendRests
  <2> QED BY <2>1, <2>2 DEF RecoveryInv, CommandWrites, Idle
<1>6. CASE AppendFails
  <2>1. /\ op.step = "append" /\ op' = Idle /\ journal' = None
        /\ UNCHANGED <<state, doc, ledger, touched>>
    BY <1>6 DEF AppendFails
  <2>2. ASSUME ~touched PROVE AtRest'
    <3>1. /\ LedgerEndsAt(state.rev) /\ op.event.res = state.rev + 1
          /\ state.rev \in Nat
      BY <2>1 DEF IInv, CommandSound, TypeOK, State
    <3>2. ledger # <<>> => journal # Tip
      BY <1>a, <2>1, <3>1, TipType DEF CommandWrites, LedgerEndsAt, IInv
    <3> QED BY <1>a, <2>1, <2>2, <3>2 DEF AtRest, Tip, Projection
  <2> QED BY <1>a, <2>1, <2>2 DEF RecoveryInv, LedgerIsOrdered, CommandWrites, Idle
<1> QED BY <1>1, <1>2, <1>3, <1>4, <1>5, <1>6 DEF Direct, Environment

\* Every step preserves RecoveryInv.
LEMMA StepRests == IInv /\ RecoveryInv /\ [Next]_vars => RecoveryInv'
<1> SUFFICES ASSUME IInv, RecoveryInv, [Next]_vars PROVE RecoveryInv'
  OBVIOUS
<1>1. CASE Repair
  <2>1. SomeTask \in Tasks
    BY TasksAssumption DEF SomeTask
  <2>2. CASE \/ \E kind \in {"reopen", "amend", "resolve"}, t \in Tasks : Start(kind, t)
             \/ \E kind \in {"spec", "artifact", "undo"} : Start(kind, SomeTask)
    <3>1. PICK kind \in Kinds, t \in Tasks : Start(kind, t)
      BY <2>1, <2>2 DEF Kinds
    <3> QED BY <3>1, RecoveryStepsRest
  <2>3. CASE RecoverArtifact \/ ReplayEvent \/ Recovered \/ RecoverRefused
    BY <2>3, RecoveryStepsRest
  <2>4. CASE \/ PlanTaskReopen \/ PlanScopeAmend \/ PlanSpecReopen
             \/ PlanArtifactReopen \/ PlanDescendantResolution \/ PlanUndo
             \/ PlanRefused
    BY <2>4, PlansRest
  <2>5. CASE \/ WriteJournal \/ AppendWorkflowEvent \/ WriteArtifact
             \/ SaveProjection \/ RemoveJournal
    BY <2>5, CommitStepsRest
  <2> QED BY <1>1, <2>2, <2>3, <2>4, <2>5 DEF Repair
<1>2. CASE Direct \/ Environment
  BY <1>2, OthersRest
<1>3. CASE UNCHANGED vars
  <2>1. UNCHANGED <<state, doc, ledger, journal, op, touched>>
    BY <1>3 DEF vars
  <2> QED BY <2>1, AtRestUnchanged
          DEF RecoveryInv, CommandWrites, Bound, Tip, Projection
<1> QED BY <1>1, <1>2, <1>3 DEF Next

\* With nothing written outside the ledger the recovery accepts the files.
LEMMA CleanRecovers ==
  ASSUME IInv, RecoveryInv, ~touched
  PROVE  Recoverable
<1>1. LedgerIsOrdered /\ AtRest
  BY DEF RecoveryInv
<1>2. CheckpointFits /\ ReplayFits
  BY <1>1, CheckpointAtRest
<1>3. JournalFits
  <2>1. CASE ledger # <<>> /\ journal = Tip
    <3>1. Committed
      BY <2>1, TipType DEF IInv, Committed
    <3>2. state.rev \in {Tip.exp, Tip.res} /\ doc \in {Tip.before, Tip.after}
      BY <1>1, <2>1 DEF AtRest, Projection
    <3> QED BY <2>1, <3>1, <3>2 DEF JournalFits
  <2>2. CASE /\ journal # None /\ state.rev = journal.exp
             /\ journal.res = journal.exp + 1
             /\ LedgerEndsAt(state.rev) /\ doc = journal.before
             /\ ~(ledger # <<>> /\ journal = Tip)
    <3>1. ASSUME NEW i \in DOMAIN ledger, ledger[i] = journal PROVE FALSE
      <4>1. /\ ledger # <<>> /\ Len(ledger) \in DOMAIN ledger
            /\ DOMAIN ledger = 1 .. Len(ledger) /\ Len(ledger) \in Nat
            /\ Tip = ledger[Len(ledger)]
        BY <3>1, TipType DEF IInv, TypeOK
      <4>2. /\ Tip.exp \in Nat /\ Tip.res \in Nat /\ Tip.res = Tip.exp + 1
            /\ journal.res \in Nat /\ journal.exp \in Nat
        BY <3>1, <4>1, LineType DEF IInv, LedgerIsChain
      <4>3. i < Len(ledger)
        BY <2>2, <3>1, <4>1
      <4>4. journal.res <= Tip.exp
        BY <1>1, <3>1, <4>1, <4>3 DEF LedgerIsOrdered
      <4>5. Tip.res = journal.exp
        BY <2>2, <4>1 DEF LedgerEndsAt
      <4> QED BY <2>2, <4>2, <4>4, <4>5
    <3>2. ~Committed
      BY <3>1 DEF Committed
    <3> QED BY <2>2, <3>2 DEF JournalFits
  <2> QED BY <1>1, <2>1, <2>2 DEF AtRest, JournalFits
<1> QED BY <1>2, <1>3 DEF Recoverable

-----------------------------------------------------------------------------
(* The theorems.                                                             *)

\* Between any two writes of a repair its files are as recovery expects them.
THEOREM RecoveryInvariance == Spec => [](IInv /\ RecoveryInv)
<1>1. Init => IInv /\ RecoveryInv
  BY InitSound, InitRecovery
<1>2. IInv /\ RecoveryInv /\ [Next]_vars => (IInv /\ RecoveryInv)'
  BY StepSound, StepRests
<1> QED BY <1>1, <1>2, PTL DEF Spec

\* Whatever step a repair dies at or fails at, the recovery of the next command
\* accepts the files it left, as long as no other command wrote them meanwhile.
THEOREM RecoveryNeverRefuses == Spec => []RecoveryCompletes
<1>1. IInv /\ RecoveryInv => RecoveryCompletes
  BY CleanRecovers DEF RecoveryCompletes
<1> QED BY <1>1, RecoveryInvariance, PTL

\* Event, state.json and tasks.md move together: when nothing is left to
\* recover, both files are as the last event has them.
THEOREM NeverHalfApplied == Spec => []EventNeverHalfApplied
<1>1. IInv /\ RecoveryInv => EventNeverHalfApplied
  <2> SUFFICES ASSUME IInv, RecoveryInv, Settled, ~touched, ledger # <<>>
               PROVE  state = Projection(Tip) /\ doc = Tip.after
    BY DEF EventNeverHalfApplied
  <2>1. LedgerIsOrdered /\ AtRest /\ journal = None /\ Projected
    BY DEF RecoveryInv, Settled
  <2>2. state = Projection(Tip)
    BY <2>1, CheckpointAtRest
  <2>3. doc = Tip.after
    BY <2>1, TipType DEF AtRest, IInv
  <2> QED BY <2>2, <2>3
<1> QED BY <1>1, RecoveryInvariance, PTL

-----------------------------------------------------------------------------
(***************************************************************************)
(* The files implement AtomicLedger: a repair happens when its event is    *)
(* appended, and only then.                                                *)
(***************************************************************************)

\* What RecoveryInv makes of the recovered files.
RecoveredClean ==
    /\ ledger = <<>> => RecoveredState = state /\ RecoveredDoc = doc
    /\ ledger # <<>> => RecoveredState = Projection(Tip) /\ RecoveredDoc = Tip.after

\* With nothing written outside the ledger, recovery leaves both files as the
\* last event has them, and as they are when there is no event.
LEMMA CleanRecovered == IInv /\ RecoveryInv /\ ~touched => RecoveredClean
<1> SUFFICES ASSUME IInv, RecoveryInv, ~touched PROVE RecoveredClean
  OBVIOUS
<1>1. /\ Recoverable /\ JournalFits /\ AtRest /\ LedgerIsOrdered
  BY CleanRecovers DEF Recoverable, RecoveryInv
<1>2. Committed <=> ledger # <<>> /\ journal = Tip
  BY <1>1, CommittedIsTip
<1>3. /\ ~Projected => ledger # <<>> /\ FirstUnprojected = Tip
      /\ Projected /\ ledger # <<>> => state = Projection(Tip)
  BY <1>1, CheckpointAtRest
<1>4. CASE ledger = <<>>
  BY <1>2, <1>3, <1>4 DEF RecoveredClean, RecoveredState, RecoveredDoc
<1>5. CASE ledger # <<>>
  <2>1. RecoveredState = Projection(Tip)
    BY <1>1, <1>3, <1>5 DEF RecoveredState
  <2>2. RecoveredDoc = Tip.after
    <3>1. CASE journal = Tip
      BY <1>1, <1>2, <1>5, <3>1 DEF RecoveredDoc
    <3>2. CASE journal # Tip
      <4>1. doc = Tip.after
        BY <1>1, <1>5, <3>2 DEF AtRest
      <4> QED BY <1>2, <3>2, <4>1 DEF RecoveredDoc
    <3> QED BY <3>1, <3>2
  <2> QED BY <1>5, <2>1, <2>2 DEF RecoveredClean
<1> QED BY <1>4, <1>5

\* The same of the next state.
LEMMA CleanRecoveredNext == (IInv /\ RecoveryInv /\ ~touched => RecoveredClean)'
<1> QED BY CleanRecovered, PTL

\* What recovery leaves are files, and no record is missing from them: an event
\* that is replayed carries the records of state.json.
RecoveredSound ==
    /\ RecoveredState \in State /\ RecoveredDoc \in Doc
    /\ RecoveredState.records = state.records

LEMMA Recovering == IInv => RecoveredSound
<1> SUFFICES ASSUME IInv PROVE RecoveredSound
  OBVIOUS
<1>1. TypeOK /\ LedgerIsChain /\ RecordsAgree /\ CheckpointInLedger
  BY DEF IInv
<1>2. state \in State /\ doc \in Doc /\ ledger \in Seq(Event)
  BY <1>1 DEF TypeOK
<1>3. RecoveredState \in State /\ RecoveredState.records = state.records
  <2>1. CASE Recoverable /\ ~Projected
    <3>1. Checkpoint \in 0 .. Len(ledger) /\ Len(ledger) \in Nat
      BY <1>1, <1>2 DEF CheckpointInLedger, Checkpoint
    <3>2. Checkpoint + 1 \in DOMAIN ledger
      BY <1>2, <2>1, <3>1 DEF Projected
    <3>3. FirstUnprojected \in Event /\ FirstUnprojected.exp = state.rev
      BY <1>1, <2>1, <3>2, LineType DEF FirstUnprojected, Recoverable, ReplayFits
    <3>4. FirstUnprojected.records = state.records
      BY <1>1, <3>2, <3>3 DEF RecordsAgree, FirstUnprojected
    <3>5. RecoveredState = Projection(FirstUnprojected)
      BY <2>1 DEF RecoveredState
    <3>6. Projection(FirstUnprojected) \in State
      BY <3>3, ProjectionType
    <3> QED BY <3>4, <3>5, <3>6 DEF Projection
  <2>2. CASE ~(Recoverable /\ ~Projected)
    BY <1>2, <2>2 DEF RecoveredState
  <2> QED BY <2>1, <2>2
<1>4. RecoveredDoc \in Doc
  <2>1. CASE Committed
    <3>1. PICK i \in DOMAIN ledger : ledger[i] = journal
      BY <2>1 DEF Committed
    <3>2. journal \in Event
      BY <1>1, <3>1, LineType
    <3>3. journal.after \in Doc
      BY <3>2 DEF Event
    <3> QED BY <1>2, <3>3 DEF RecoveredDoc
  <2>2. CASE ~Committed
    BY <1>2, <2>2 DEF RecoveredDoc
  <2> QED BY <2>1, <2>2
<1> QED BY <1>3, <1>4 DEF RecoveredSound

LEMMA RecoveringNext == (IInv => RecoveredSound)'
<1> QED BY Recovering, PTL

\* A repair about to append finds nothing to recover: the files are as it has
\* them before its event.
LEMMA AppendFinds ==
  ASSUME IInv, RecoveryInv, op.step = "append"
  PROVE  RecoveredState = state /\ RecoveredDoc = doc
<1>1. /\ LedgerEndsAt(state.rev) /\ (ledger # <<>> => state.last = state.rev)
      /\ op.event \in Event /\ op.event.exp = state.rev /\ op.event.res = state.rev + 1
      /\ journal = IF Bound(op.event) THEN op.event ELSE None
  BY DEF IInv, CommandSound, RecoveryInv, CommandWrites
<1>2. CASE ledger = <<>>
  <2>1. DOMAIN ledger = {} /\ Len(ledger) = 0
    BY <1>2
  <2>2. state.last = 0 /\ ~Committed
    BY <2>1 DEF IInv, CheckpointInLedger, Committed
  <2>3. Projected
    BY <2>1, <2>2 DEF Projected, Checkpoint
  <2> QED BY <2>2, <2>3 DEF RecoveredState, RecoveredDoc
<1>3. CASE ledger # <<>>
  <2> DEFINE n == Len(ledger)
  <2>1. /\ n \in DOMAIN ledger /\ n \in Nat /\ Tip = ledger[n]
        /\ DOMAIN ledger = 1 .. n
    BY <1>3, TipType DEF IInv, TypeOK
  <2>2. \A i \in DOMAIN ledger :
          /\ ledger[i] \in Event /\ ledger[i].exp \in Nat /\ ledger[i].res \in Nat
          /\ ledger[i].res = ledger[i].exp + 1
    BY LineType DEF IInv, LedgerIsChain
  <2> HIDE DEF n
  <2>3. ledger[n].res = state.rev /\ state.last = state.rev
    BY <1>1, <1>3, <2>1 DEF LedgerEndsAt
  <2>4. \A i \in DOMAIN ledger : i # n => ledger[i].res < state.rev
    <3>1. SUFFICES ASSUME NEW i \in DOMAIN ledger, i # n
                   PROVE  ledger[i].res < state.rev
      OBVIOUS
    <3>2. i < n
      BY <2>1, <3>1
    <3>3. ledger[i].res <= ledger[n].exp
      BY <2>1, <3>2 DEF RecoveryInv, LedgerIsOrdered
    <3> QED BY <2>1, <2>2, <2>3, <3>3
  <2>5. Projected
    <3>1. state.last # 0
      BY <2>1, <2>2, <2>3
    <3>2. \A i \in DOMAIN ledger : ledger[i].res = state.last <=> i = n
      BY <2>1, <2>2, <2>3, <2>4
    <3>3. Checkpoint = n
      BY <2>1, <3>1, <3>2 DEF Checkpoint
    <3> QED BY <3>3 DEF Projected, n
  <2>6. ~Committed
    <3>1. \A i \in DOMAIN ledger : ledger[i].res <= state.rev
      BY <2>1, <2>2, <2>3, <2>4
    <3>2. \A i \in DOMAIN ledger : ledger[i] # op.event
      BY <1>1, <2>1, <2>2, <2>3, <3>1
    <3>3. \A i \in DOMAIN ledger : ledger[i] # None
      BY <2>2, NoneAssumption
    <3> QED BY <1>1, <3>2, <3>3 DEF Committed
  <2> QED BY <2>5, <2>6 DEF RecoveredState, RecoveredDoc
<1> QED BY <1>2, <1>3

\* Only an append adds to the ledger, and it alone says that nothing was written
\* outside it.
LEMMA OnlyAppendsClean ==
  ASSUME [Next]_vars
  PROVE  \/ AppendWorkflowEvent \/ AppendLateError
         \/ ledger' = ledger /\ touched' \in {touched, TRUE}
BY DEF Next, Repair, Direct, Environment, Start, RecoverArtifact, ReplayEvent,
       Recovered, RecoverRefused, PlanTaskReopen, PlanScopeAmend, PlanSpecReopen,
       PlanArtifactReopen, PlanDescendantResolution, PlanUndo, PlanRefused,
       WriteJournal, WriteArtifact, SaveProjection, RemoveJournal, CompleteTask,
       MarkComplete, AppendScoped, Verify, ClaimMission, EditTasks, Crash,
       AppendFails, MarkFails, files, vars

\* Before the first event nothing but the other writers touches the files.
LEMMA NothingBeforeFirstEvent ==
  ASSUME IInv, RecoveryInv, [Next]_vars, ledger = <<>>, ledger' = ledger,
         ~touched, ~touched'
  PROVE  UNCHANGED <<state, doc>>
<1>1. DOMAIN ledger = {} /\ Len(ledger) = 0
  OBVIOUS
<1>2. ~Committed /\ Projected
  BY <1>1 DEF IInv, CheckpointInLedger, Committed, Projected, Checkpoint
<1>3. op.step \notin {"artifact", "save", "mark"}
  BY DEF IInv, CommandSound, RecoveryInv, CommandWrites
<1>4. CASE RecoverArtifact
  BY <1>2, <1>4 DEF RecoverArtifact
<1>5. CASE ReplayEvent \/ WriteArtifact \/ SaveProjection \/ MarkComplete
  BY <1>2, <1>3, <1>5 DEF ReplayEvent, WriteArtifact, SaveProjection, MarkComplete
<1>6. CASE \E late \in BOOLEAN : MarkFails(late)
  BY <1>3, <1>6 DEF MarkFails
<1>7. CASE AppendWorkflowEvent \/ AppendLateError
  BY <1>1, <1>7 DEF AppendWorkflowEvent, AppendLateError, AppendLine, IInv, TypeOK
<1>8. CASE /\ [Next]_vars
           /\ ~(\/ RecoverArtifact \/ ReplayEvent \/ WriteArtifact \/ SaveProjection
                \/ MarkComplete \/ AppendWorkflowEvent \/ AppendLateError
                \/ \E late \in BOOLEAN : MarkFails(late))
  BY <1>8 DEF Next, Repair, Direct, Environment, Start,
     Recovered, RecoverRefused, PlanTaskReopen, PlanScopeAmend, PlanSpecReopen,
     PlanArtifactReopen, PlanDescendantResolution, PlanUndo, PlanRefused,
     WriteJournal, RemoveJournal, CompleteTask, AppendScoped, Verify, ClaimMission,
     EditTasks, Crash, AppendFails, files, vars
<1> QED BY <1>4, <1>5, <1>6, <1>7, <1>8

\* The step that appends is the repair.
LEMMA AppendIsRepair ==
  ASSUME IInv, RecoveryInv, IInv', RecoveryInv', AppendWorkflowEvent \/ AppendLateError
  PROVE  Atomic!Next
<1> DEFINE n == Len(ledger) + 1
<1>1. op.step = "append" /\ AppendLine(op.event) /\ touched' = FALSE
  BY DEF AppendWorkflowEvent, AppendLateError
<1>2. RecoveredState = state /\ RecoveredDoc = doc
  BY <1>1, AppendFinds
<1>3. /\ op.event \in Event /\ op.event.exp = state.rev /\ op.event.res = state.rev + 1
      /\ op.event.records = state.records /\ op.event.before = doc
      /\ LedgerEndsAt(state.rev)
  BY <1>1 DEF IInv, CommandSound, RecoveryInv, CommandWrites
<1>4. /\ ledger' = Append(ledger, op.event)
      /\ n \in DOMAIN ledger' \ DOMAIN ledger /\ ledger'[n] = op.event
      /\ ledger' # <<>> /\ ledger'[Len(ledger')] = op.event
  <2>1. ledger \in Seq(Event) /\ ledger' = Append(ledger, op.event)
    BY <1>1 DEF AppendLine, IInv, TypeOK
  <2> QED BY <1>3, <2>1
<1>5. RecoveredState' = Projection(op.event) /\ RecoveredDoc' = op.event.after
  <2>1. RecoveredClean'
    BY <1>1, CleanRecoveredNext
  <2>2. Tip' = op.event
    BY <1>4 DEF Tip
  <2>3. RecoveredState' = Projection(Tip)' /\ RecoveredDoc' = Tip'.after
    BY <1>4, <2>1 DEF RecoveredClean
  <2> QED BY <2>2, <2>3 DEF Projection
<1>6. ledger # <<>> => Atomic!Last(ledger).res = state.rev
  BY <1>3 DEF LedgerEndsAt, Tip, Atomic!Last
<1>7. Atomic!Repair(op.event)
  BY <1>1, <1>2, <1>3, <1>4, <1>5, <1>6 DEF Atomic!Repair, Atomic!Outcome, Projection
<1> HIDE DEF n
<1> QED BY <1>4, <1>7 DEF Atomic!Next

\* Every other step changes nothing the next command finds, or is a writer's.
LEMMA LedgerStep ==
  ASSUME IInv, RecoveryInv, IInv', RecoveryInv', [Next]_vars
  PROVE  [Atomic!Next]_(Atomic!vars)
<1>1. CASE AppendWorkflowEvent \/ AppendLateError
  BY <1>1, AppendIsRepair
<1>2. CASE ledger' = ledger /\ touched' = TRUE
  <2>1. RecoveredState.records = state.records
    BY Recovering DEF RecoveredSound
  <2>2. /\ RecoveredState' \in State /\ RecoveredDoc' \in Doc
        /\ RecoveredState'.records = state'.records
    BY RecoveringNext DEF RecoveredSound
  <2>3. state'.records >= state.records
    BY RecordsStep
  <2>4. Atomic!Beside
    BY <1>2, <2>1, <2>2, <2>3 DEF Atomic!Beside
  <2> QED BY <2>4 DEF Atomic!Next
<1>3. CASE ledger' = ledger /\ touched' = touched /\ ~touched
  <2>1. RecoveredClean /\ RecoveredClean'
    BY <1>3, CleanRecovered, CleanRecoveredNext
  <2>2. CASE ledger # <<>>
    <3>1. RecoveredState = Projection(Tip) /\ RecoveredDoc = Tip.after
      BY <2>1, <2>2 DEF RecoveredClean
    <3>2. RecoveredState' = Projection(Tip)' /\ RecoveredDoc' = Tip'.after
      BY <1>3, <2>1, <2>2 DEF RecoveredClean
    <3>3. Tip' = Tip
      BY <1>3 DEF Tip
    <3> QED BY <1>3, <3>1, <3>2, <3>3 DEF Projection, Atomic!vars
  <2>3. CASE ledger = <<>>
    <3>1. RecoveredState = state /\ RecoveredDoc = doc
      BY <2>1, <2>3 DEF RecoveredClean
    <3>2. RecoveredState' = state' /\ RecoveredDoc' = doc'
      BY <1>3, <2>1, <2>3 DEF RecoveredClean
    <3>3. UNCHANGED <<state, doc>>
      BY <1>3, <2>3, NothingBeforeFirstEvent
    <3> QED BY <1>3, <3>1, <3>2, <3>3 DEF Atomic!vars
  <2> QED BY <2>2, <2>3
<1> QED BY <1>1, <1>2, <1>3, OnlyAppendsClean DEF IInv, TypeOK

\* The files of a spec implement a ledger of atomic repairs: whatever write a
\* repair dies or fails at, the next command finds both files as they were
\* before its event or both as they are after it.
THEOREM RepairsAtomic == Spec => LedgerSpec
<1>1. Init => Atomic!Init
  <2> SUFFICES ASSUME Init PROVE Atomic!Init
    OBVIOUS
  <2>1. IInv /\ RecoveryInv
    BY InitSound, InitRecovery
  <2>2. ledger = <<>> /\ touched = FALSE /\ state.last = 0
    BY DEF Init
  <2>3. RecoveredState = state /\ RecoveredState \in State /\ RecoveredDoc \in Doc
    BY <2>1, <2>2, CleanRecovered, Recovering DEF RecoveredClean, RecoveredSound
  <2> QED BY <2>2, <2>3 DEF Atomic!Init
<1>2. IInv /\ RecoveryInv /\ (IInv /\ RecoveryInv)' /\ [Next]_vars
        => [Atomic!Next]_(Atomic!vars)
  BY LedgerStep
<1> QED BY <1>1, <1>2, RecoveryInvariance, PTL DEF Spec, LedgerSpec, Atomic!Spec

=============================================================================
