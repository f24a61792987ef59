---------------------------- MODULE BrainSession ----------------------------
(***************************************************************************)
(* The orchestration "brain" of one spec: session.json, the write-ahead    *)
(* checkpoint.json and the append-only ACP ledger acp.jsonl, and every     *)
(* `specd brain` subcommand that changes one of them (start, step/run,     *)
(* claim, heartbeat, report, release, cancel, resume).                     *)
(*                                                                         *)
(* A member of Procs is one running specd invocation.  An action is the    *)
(* code between two durable writes, so the other invocations, the clock, a *)
(* git commit and a crash can come between any two of them.  The spec lock *)
(* is a mutex here: SpecLock models the lock file itself.                  *)
(***************************************************************************)
EXTENDS Integers, Sequences, FiniteSets

CONSTANTS
    Procs,        \* specd invocations that may run at the same time
    Tasks,        \* task ids; their order stands for the string order of ids
    Deps,         \* Deps[t]: the tasks the depends-on cell of t names
    Paths,        \* paths in the worktree
    Files,        \* Files[t]: the declared files of t
    MissionTTL,   \* lifetime of an unclaimed mission: LeaseTTL or a shorter deadline
    LeaseTTL,     \* brainLeaseTTL
    MaxRetries,   \* routing.max_retries
    None,         \* no process, mission, event or lease
    MaxTime,      \* bound: the clock stops here
    MaxHead,      \* bound: commits that move HEAD
    MaxStep,      \* bound: dispatches that advance the step counter
    MaxRevision,  \* bound: writes of session.json
    MaxLedger,    \* bound: lines of acp.jsonl
    MaxCrashes,   \* bound: crashes
    TornWrites    \* a crash may leave half a ledger line behind

ASSUME TasksAssumption == Tasks \subseteq Nat /\ Tasks # {} /\ IsFiniteSet(Tasks)
ASSUME PlanAssumption ==
    /\ Deps \in [Tasks -> SUBSET Tasks]
    /\ Files \in [Tasks -> SUBSET Paths]
ASSUME LimitAssumption ==
    /\ MissionTTL \in Nat \ {0}
    /\ LeaseTTL \in Nat /\ MissionTTL <= LeaseTTL
    /\ MaxRetries \in Nat
ASSUME BoundAssumption ==
    /\ {MaxTime, MaxHead, MaxStep, MaxRevision, MaxLedger, MaxCrashes} \subseteq Nat
    /\ TornWrites \in BOOLEAN

VARIABLES
    session,      \* session.json (Session)
    checkpoint,   \* checkpoint.json: the mission it carries, None before any
    ledger,       \* acp.jsonl: its readable events, oldest first
    tail,         \* the end of acp.jsonl: clean, torn, or a line nobody can decode
    lock,         \* the invocation inside WithSpecLock, or None
    local,        \* local[p]: program counter and variables of invocation p
    done,         \* tasks marked complete in tasks.md
    now,          \* the clock
    head,         \* git HEAD
    crashes       \* crashes so far

files == <<session, checkpoint, ledger, tail, done>>
world == <<now, head, crashes>>
vars == <<session, checkpoint, ledger, tail, lock, local, done, now, head, crashes>>

-----------------------------------------------------------------------------
(* Data *)

Id == Nat \X Tasks
StepOf(id) == id[1]
TaskOf(id) == id[2]

\* MissionV1: the pins the brain compares.  SessionID, role and digests never
\* change within one session; the declared files are Files[TaskOf(id)].
Mission == [id: Id, attempt: Nat, head: Nat, expires: Nat]

ASSUME NoneAssumption == None \notin Procs \cup Mission

\* A lease of a mission.  LeaseID is random, but a mission is claimed at most
\* once (MissionsDistinct), so the mission's id names its lease.
Reason == {"", "operator", "stale baseline", "released by controller"}
Lease == [id: Id, attempt: Nat, issued: Nat, expires: Nat,
          state: {"active", "revoked"}, reason: Reason]

Session == [rev: Nat, state: {"running", "cancelled"}, step: Nat,
            leases: SUBSET Lease, pending: SUBSET Mission,
            missions: SUBSET Mission, waiting: BOOLEAN]

\* LoadSession of a file that does not exist.
NoSession == [rev |-> 0, state |-> "running", step |-> 0, leases |-> {},
              pending |-> {}, missions |-> {}, waiting |-> FALSE]

DispatchEvent == [kind: {"dispatch"}, id: Id, mission: Mission]
LeaseEvent == [kind: {"claim", "heartbeat", "cancel"}, id: Id, lease: Lease]
ReportEvent == [kind: {"report"}, id: Id]
ACPEvent == DispatchEvent \cup LeaseEvent \cup ReportEvent

Phase == {"idle", "checkpoint", "ledgerRead", "ledgerAppend", "save",
          "append", "complete", "report", "cancel"}

\* path: which command a dispatch in flight belongs to
Local == [pc: Phase, path: {"step", "reissue", "resume"}, view: Session,
          mission: Mission \cup {None}, event: ACPEvent \cup {None},
          todo: SUBSET Lease]

IdleLocal == [pc |-> "idle", path |-> "step", view |-> NoSession,
              mission |-> None, event |-> None, todo |-> {}]

Ids(S) == {m.id : m \in S}
Known(s) == Ids(s.pending) \cup Ids(s.missions)
Terminal(s) == s.state = "cancelled"

\* A lease that still grants work: active and within its TTL.
Live(l) == l.state = "active" /\ now < l.expires

AtMost(x, y) == IF x <= y THEN x ELSE y
AtLeast(x, y) == IF x >= y THEN x ELSE y

TypeOK ==
    /\ session \in Session
    /\ checkpoint \in Mission \cup {None}
    /\ ledger \in Seq(ACPEvent)
    /\ tail \in {"clean", "torn", "corrupt"}
    /\ lock \in Procs \cup {None}
    /\ local \in [Procs -> Local]
    /\ done \in SUBSET Tasks
    /\ now \in Nat /\ head \in Nat /\ crashes \in Nat

-----------------------------------------------------------------------------
(* The ledger *)

Readable == tail # "corrupt"
Logged(events, id) == \E i \in DOMAIN events : events[i].id = id
HasEvent(id) == Logged(ledger, id)
EventsOf(kind, id) == {i \in DOMAIN ledger : ledger[i].kind = kind /\ ledger[i].id = id}
FirstOf(S) == {i \in S : \A j \in S : i <= j}

\* AppendACP opens with O_APPEND and writes the event and its newline: behind a
\* torn line the two make one line that no reader can decode.
AppendACP(e) ==
    IF tail = "clean"
    THEN ledger' = Append(ledger, e) /\ UNCHANGED tail
    ELSE tail' = "corrupt" /\ UNCHANGED ledger

-----------------------------------------------------------------------------
(* Invocations *)

Goto(p, l) == local' = [local EXCEPT ![p] = l]
Finish(p) == Goto(p, IdleLocal)
Begin(p) ==                       \* within the bounds, p starts a command
    /\ local[p].pc = "idle"
    /\ session.rev < MaxRevision
    /\ Len(ledger) < MaxLedger
BeginLocked(p) == Begin(p) /\ lock = None
Unlock(p) == lock' = IF lock = p THEN None ELSE lock
CanLock(p) == lock \in {p, None}

\* SaveSessionCAS: reload under the spec lock, refuse a moved revision.
SaveSessionCAS_Blind(next) == session' = [next EXCEPT !.rev = session.rev + 1]
SaveSessionCAS(next) ==
    session' = IF session.rev = next.rev THEN [next EXCEPT !.rev = @ + 1] ELSE session

\* The locked commands load, check and save in one critical section and append
\* their event before they leave it.
SaveThenAppend(p, next, e) ==
    /\ lock' = p
    /\ SaveSessionCAS(next)
    /\ Goto(p, [IdleLocal EXCEPT !.pc = "append", !.event = e])
    /\ UNCHANGED <<checkpoint, ledger, tail, done, world>>

AppendEvent(p) ==
    /\ local[p].pc = "append"
    /\ AppendACP(local[p].event)
    /\ Unlock(p)
    /\ Finish(p)
    /\ UNCHANGED <<session, checkpoint, done, world>>

\* `brain start`: a session at revision 0 is one that does not exist.
Start(p) ==
    /\ BeginLocked(p)
    /\ session.rev = 0
    /\ SaveSessionCAS(NoSession)
    /\ UNCHANGED <<checkpoint, ledger, tail, lock, local, done, world>>

-----------------------------------------------------------------------------
(* brain step: reads without the spec lock, then checkpoint, ledger, session *)

\* Leases of complete tasks are dropped from the copy in memory.
Sensed(s) == [s EXCEPT !.leases = {l \in @ : TaskOf(l.id) \notin done}]

\* [task, expires] of the leases, whatever their state, and of the missions
\* nobody has claimed yet.
Reservations(s) ==
    {[task |-> TaskOf(r.id), expires |-> r.expires] : r \in s.leases \cup s.pending}

\* Nothing increments Lease.Retries, so `Retries < maxRetries` is MaxRetries > 0.
Escalation(s) == MaxRetries = 0 /\ \E r \in Reservations(s) : r.expires <= now

FrontierExcluding(withheld) ==
    {t \in Tasks \ done : Deps[t] \subseteq done /\ t \notin withheld}

Withheld(s, escalated) ==
    escalated \cup {r.task : r \in {q \in Reservations(s) : now < q.expires}}

PreDispatchConflict(s, t) ==
    \E l \in s.leases :
        /\ Live(l)
        /\ TaskOf(l.id) # t
        /\ l.id \in Known(s)
        /\ Files[t] \cap Files[TaskOf(l.id)] # {}

\* Decide says dispatch.  Cost brakes, missing authority or a missing worker
\* turn any step into a wait, so they need no state: they are StepWait.
StepDispatch(p) ==
    /\ Begin(p)
    /\ ~Terminal(session) /\ Readable
    /\ session.step < MaxStep /\ now + MissionTTL <= MaxTime
    /\ LET s == Sensed(session) IN
       \E escalated \in SUBSET Tasks :
          LET frontier == FrontierExcluding(Withheld(s, escalated)) IN
          \E t \in frontier :
             /\ \A u \in frontier : t <= u
             /\ ~Escalation(s)
             /\ ~PreDispatchConflict(s, t)
             /\ Goto(p, [IdleLocal EXCEPT
                    !.pc = "checkpoint",
                    !.view = [s EXCEPT !.waiting = FALSE],
                    !.mission = [id |-> <<session.step + 1, t>>, attempt |-> 1,
                                 head |-> head, expires |-> now + MissionTTL]])
    /\ UNCHANGED <<files, lock, world>>

\* Decide says anything else; the session is saved only if the step released a
\* lease or changed the approval marker.
StepWait(p) ==
    /\ Begin(p)
    /\ ~Terminal(session) /\ Readable
    /\ \E waiting \in BOOLEAN :
          LET s == [Sensed(session) EXCEPT !.waiting = waiting] IN
          /\ waiting => Tasks \subseteq done /\ ~Escalation(s)
          /\ s # session
          /\ Goto(p, [IdleLocal EXCEPT !.pc = "save", !.view = s])
    /\ UNCHANGED <<files, lock, world>>

\* SaveCheckpoint, under the spec lock.
SaveCheckpoint(p) ==
    /\ local[p].pc = "checkpoint" /\ lock = None
    /\ checkpoint' = local[p].mission
    /\ local' = [local EXCEPT ![p].pc = "ledgerRead"]
    /\ UNCHANGED <<session, ledger, tail, lock, done, world>>

\* AppendDispatch, its read: a mission id the ledger already carries is refused.
ReadLedger_OfSession(p) ==
    /\ local[p].pc = "ledgerRead"
    /\ IF local[p].mission.id \notin Known(session)
       THEN local' = [local EXCEPT ![p].pc = "ledgerAppend"] /\ UNCHANGED lock
       ELSE Finish(p) /\ Unlock(p)
    /\ UNCHANGED <<files, world>>
ReadLedger(p) ==
    /\ local[p].pc = "ledgerRead"
    /\ IF Readable /\ ~HasEvent(local[p].mission.id)
       THEN local' = [local EXCEPT ![p].pc = "ledgerAppend"] /\ UNCHANGED lock
       ELSE Finish(p) /\ Unlock(p)
    /\ UNCHANGED <<files, world>>

\* AppendDispatch, its append, and what the caller then does to its session.
AppendDispatch(p) ==
    /\ local[p].pc = "ledgerAppend"
    /\ LET m == local[p].mission IN
       /\ AppendACP([kind |-> "dispatch", id |-> m.id, mission |-> m])
       /\ IF local[p].path = "resume"
          THEN Finish(p) /\ Unlock(p)
          ELSE /\ local' = [local EXCEPT ![p].pc = "save",
                                         ![p].view.step = StepOf(m.id),
                                         ![p].view.pending = @ \cup {m}]
               /\ UNCHANGED lock
    /\ UNCHANGED <<session, checkpoint, done, world>>

\* The session write of step, of resume's re-issue and of cancel.  A step whose
\* revision moved fails with SESSION_WRITE_FAILED and leaves its dispatch behind.
SaveSession(p) ==
    /\ local[p].pc = "save" /\ CanLock(p)
    /\ SaveSessionCAS(local[p].view)
    /\ Unlock(p)
    /\ Finish(p)
    /\ UNCHANGED <<checkpoint, ledger, tail, done, world>>

-----------------------------------------------------------------------------
(* Workers: claim, heartbeat, report *)

\* A worktree without declared isolation is serial: any live lease refuses the
\* claim, and one whose mission the session does not carry refuses it too.
CheckParallelConflict_Scopes(m) ==
    /\ \A l \in session.leases : Live(l) => l.id \in Ids(session.missions)
    /\ \A l \in session.leases :
          Live(l) => l.id = m.id \/ Files[TaskOf(m.id)] \cap Files[TaskOf(l.id)] = {}
CheckParallelConflict(m) ==
    \A l \in session.leases : Live(l) => l.id \in Ids(session.missions) /\ l.id = m.id

CheckClaimConflict(m) ==
    ~\E l \in session.leases :
        Live(l) /\ TaskOf(l.id) = TaskOf(m.id) /\ l.attempt = m.attempt

ClaimLease(m) ==
    [id |-> m.id, attempt |-> m.attempt, issued |-> now,
     expires |-> AtMost(now + LeaseTTL, m.expires), state |-> "active", reason |-> ""]

Claim(p, m) ==
    /\ BeginLocked(p)
    /\ m \in session.pending
    /\ CheckClaimConflict(m) /\ CheckParallelConflict(m)
    /\ now < m.expires
    /\ SaveThenAppend(p, [session EXCEPT !.pending = @ \ {m},
                                         !.missions = @ \cup {m},
                                         !.leases = @ \cup {ClaimLease(m)}],
                      [kind |-> "claim", id |-> m.id, lease |-> ClaimLease(m)])

\* RenewLease: at most four TTLs after the lease was issued.  (A renewal that
\* changes nothing is left out: it only spends a revision.)
RenewLease(l) == [l EXCEPT !.expires = AtMost(now + LeaseTTL, l.issued + 4 * LeaseTTL)]

Heartbeat(p, l) ==
    /\ BeginLocked(p)
    /\ l \in session.leases /\ Live(l)
    /\ now < RenewLease(l).expires
    /\ RenewLease(l) # l /\ RenewLease(l).expires <= MaxTime
    /\ SaveThenAppend(p, [session EXCEPT !.leases = (@ \ {l}) \cup {RenewLease(l)}],
                      [kind |-> "heartbeat", id |-> l.id, lease |-> RenewLease(l)])

\* brainWorkerReport checks the lease and the baseline without the spec lock ...
ReportCheck(p, l) ==
    /\ Begin(p)
    /\ l \in session.leases /\ Live(l)
    /\ \E m \in session.missions :
          /\ m.id = l.id /\ m.attempt = l.attempt
          /\ m.head = head
          /\ Goto(p, [IdleLocal EXCEPT !.pc = "complete", !.mission = m])
    /\ UNCHANGED <<files, lock, world>>

\* ... then runTaskComplete marks the task in its own critical section ...
ReportComplete(p) ==
    /\ local[p].pc = "complete" /\ lock = None
    /\ done' = done \cup {TaskOf(local[p].mission.id)}
    /\ local' = [local EXCEPT ![p].pc = "report"]
    /\ UNCHANGED <<session, checkpoint, ledger, tail, lock, world>>

\* ... or refuses (evidence behind HEAD, diff outside the scope, escalation) ...
ReportRefused(p) ==
    /\ local[p].pc = "complete" /\ lock = None
    /\ Finish(p)
    /\ UNCHANGED <<files, lock, world>>

\* ... and the lease is dropped in a third.
ReportRelease(p) ==
    /\ local[p].pc = "report" /\ lock = None
    /\ LET id == local[p].mission.id IN
       SaveThenAppend(p, [session EXCEPT !.leases = {l \in @ : l.id # id}],
                      [kind |-> "report", id |-> id])

-----------------------------------------------------------------------------
(* Operators: release, cancel *)

Revoked(l, reason) == [l EXCEPT !.state = "revoked", !.reason = reason]

Release(p, l) ==
    /\ BeginLocked(p)
    /\ l \in session.leases
    /\ SaveThenAppend(p, [session EXCEPT !.leases = @ \ {l}],
                      [kind |-> "cancel", id |-> l.id,
                       lease |-> Revoked(l, "released by controller")])

\* brainCancel works on a copy: the leases are revoked and logged one by one and
\* the copy is saved last, all in one critical section.
CancelBegin(p) ==
    /\ BeginLocked(p)
    /\ ~Terminal(session)
    /\ lock' = p
    /\ Goto(p, [IdleLocal EXCEPT !.pc = IF session.leases = {} THEN "save" ELSE "cancel",
                                 !.view = [session EXCEPT !.state = "cancelled"],
                                 !.todo = session.leases])
    /\ UNCHANGED <<files, world>>

\* CancelLease on the next lease.  The last one leads to the save.
AfterLease(p, l) ==
    [local[p] EXCEPT !.todo = @ \ {l},
                     !.pc = IF local[p].todo \ {l} = {} THEN "save" ELSE "cancel"]

CancelActive(p, l) ==
    /\ l.state = "active"
    /\ LET gone == Revoked(l, "operator") IN
       /\ AppendACP([kind |-> "cancel", id |-> l.id, lease |-> gone])
       /\ Goto(p, [AfterLease(p, l) EXCEPT !.view.leases = (@ \ {l}) \cup {gone}])
    /\ UNCHANGED <<session, checkpoint, lock, done, world>>

CancelAgain(p, l) ==
    /\ l.state = "revoked" /\ l.reason = "operator"
    /\ Goto(p, AfterLease(p, l))
    /\ UNCHANGED <<files, lock, world>>

\* CANCEL_REASON_CONFLICT: the command fails before it saves anything.
CancelConflict(p, l) ==
    /\ l.state = "revoked" /\ l.reason # "operator"
    /\ Finish(p) /\ Unlock(p)
    /\ UNCHANGED <<files, world>>

CancelLease(p) ==
    /\ local[p].pc = "cancel"
    /\ \E l \in local[p].todo :
          CancelActive(p, l) \/ CancelAgain(p, l) \/ CancelConflict(p, l)

-----------------------------------------------------------------------------
(* brain resume: one critical section; a dead holder's lock is taken over *)

\* The leases, active and expired ones too, whose mission pins an older HEAD.
Stale == {l \in session.leases :
            /\ l.state = "active"
            /\ \E m \in session.missions : m.id = l.id /\ m.head # head}

\* The first stale mission is pinned again to the current HEAD.  No later part of
\* resume runs, and exhausted attempts refuse the whole command.
ResumeReissue(p) ==
    /\ BeginLocked(p)
    /\ ~Terminal(session)
    /\ session.step < MaxStep
    /\ \E l \in Stale, m \in session.missions :
          LET next == [id |-> <<session.step + 1, TaskOf(m.id)>>,
                       attempt |-> m.attempt + 1, head |-> head,
                       expires |-> now + MissionTTL] IN
          /\ m.id = l.id /\ m.head # head
          /\ m.attempt < MaxRetries + 1
          /\ checkpoint' = next
          /\ Goto(p, [IdleLocal EXCEPT
                 !.pc = "ledgerRead", !.path = "reissue", !.mission = next,
                 !.view = [session EXCEPT
                     !.leases = (@ \ {l}) \cup {Revoked(l, "stale baseline")}]])
    /\ lock' = p
    /\ UNCHANGED <<session, ledger, tail, done, world>>

\* The checkpoint outran the ledger.
Crashed == checkpoint # None /\ ~HasEvent(checkpoint.id)

\* What replaying the whole ledger over the leases of s makes of the lease of id:
\* the last report drops it, a claim gives it back, the first cancel after that
\* replaces it unless it is revoked already.  Heartbeats are not replayed.
ReplayedLease(s, id) ==
    LET held == {l \in s.leases : l.id = id /\ EventsOf("report", id) = {}}
        claim == FirstOf({i \in EventsOf("claim", id) :
                             \A r \in EventsOf("report", id) : r < i})
        base == IF held # {} THEN held ELSE {ledger[i].lease : i \in claim}
        cancel == FirstOf({i \in EventsOf("cancel", id) :
                              held = {} => \A c \in claim : c < i})
    IN {IF l.state = "active" /\ cancel # {}
        THEN ledger[CHOOSE i \in cancel : TRUE].lease
        ELSE l : l \in base}

\* The missions of the checkpoint and of dispatch events that the session does
\* not carry.
Dispatched(known) ==
    {ledger[i].mission : i \in {j \in DOMAIN ledger :
        /\ ledger[j].kind = "dispatch" /\ ledger[j].id \notin known
        /\ j \in FirstOf(EventsOf("dispatch", ledger[j].id))}}
Orphans(s) ==
    LET unsaved == {m \in {checkpoint} \ {None} : m.id \notin Known(s)}
    IN unsaved \cup Dispatched(Known(s) \cup Ids(unsaved))

ReconcileSession_StepOnly(s) ==
    [s EXCEPT !.step = IF checkpoint = None THEN @ ELSE AtLeast(@, StepOf(checkpoint.id))]
ReconcileSession(s) ==
    [s EXCEPT !.pending = @ \cup Orphans(s),
              !.step = IF checkpoint = None THEN @ ELSE AtLeast(@, StepOf(checkpoint.id)),
              !.leases = UNION {ReplayedLease(s, id) :
                                  id \in Ids(@) \cup {ledger[i].id : i \in DOMAIN ledger}}]

\* A live lease of a session that has not crashed is another controller's work.
Recoverable(next) == Crashed \/ ~\E l \in next.leases : Live(l)

\* Only revoked leases survive a resume.
Reclaimed(s) == [s EXCEPT !.leases = {l \in @ : l.state = "revoked"}]

\* (A resume that changes nothing is left out: it only spends a revision.)
ResumeReconcile(p) ==
    /\ BeginLocked(p)
    /\ ~Terminal(session)
    /\ Stale = {} /\ Readable
    /\ LET next == ReconcileSession(session) IN
       /\ Recoverable(next)
       /\ Crashed \/ Reclaimed(next) # session
       /\ SaveSessionCAS(Reclaimed(next))
    /\ IF Crashed
       THEN lock' = p /\ Goto(p, [IdleLocal EXCEPT !.pc = "ledgerRead", !.path = "resume",
                                                  !.mission = checkpoint])
       ELSE UNCHANGED <<lock, local>>
    /\ UNCHANGED <<checkpoint, ledger, tail, done, world>>

-----------------------------------------------------------------------------
(* The world outside *)

\* `specd complete-task` by the driving agent.
CompleteTask(t) ==
    /\ lock = None /\ t \notin done
    /\ done' = done \cup {t}
    /\ UNCHANGED <<session, checkpoint, ledger, tail, lock, local, world>>

Tick ==
    /\ now < MaxTime
    /\ now' = now + 1
    /\ UNCHANGED <<files, lock, local, head, crashes>>

MoveHead ==
    /\ head < MaxHead
    /\ head' = head + 1
    /\ UNCHANGED <<files, lock, local, now, crashes>>

\* p dies between two durable writes.  Its lock file stays; lockIsStale lets the
\* next invocation take it over, so the lock is free again.
Crash(p) ==
    /\ local[p].pc # "idle" /\ crashes < MaxCrashes
    /\ crashes' = crashes + 1
    /\ Finish(p) /\ Unlock(p)
    /\ UNCHANGED <<files, now, head>>

\* p dies inside AppendACP's write.
CrashTorn(p) ==
    /\ TornWrites /\ tail = "clean"
    /\ \/ local[p].pc \in {"append", "ledgerAppend"}
       \/ local[p].pc = "cancel" /\ \E l \in local[p].todo : l.state = "active"
    /\ crashes < MaxCrashes
    /\ crashes' = crashes + 1
    /\ tail' = "torn"
    /\ Finish(p) /\ Unlock(p)
    /\ UNCHANGED <<session, checkpoint, ledger, done, now, head>>

-----------------------------------------------------------------------------

Init ==
    /\ session = NoSession
    /\ checkpoint = None
    /\ ledger = <<>> /\ tail = "clean"
    /\ lock = None
    /\ local = [p \in Procs |-> IdleLocal]
    /\ done = {}
    /\ now = 0 /\ head = 0 /\ crashes = 0

\* Steps of a command already running.
Continue(p) ==
    \/ SaveCheckpoint(p) \/ ReadLedger(p) \/ AppendDispatch(p) \/ SaveSession(p)
    \/ AppendEvent(p)
    \/ ReportComplete(p) \/ ReportRefused(p) \/ ReportRelease(p)
    \/ CancelLease(p)

Command(p) ==
    \/ Start(p) \/ StepDispatch(p) \/ StepWait(p)
    \/ \E m \in session.pending : Claim(p, m)
    \/ \E l \in session.leases : Heartbeat(p, l) \/ ReportCheck(p, l) \/ Release(p, l)
    \/ CancelBegin(p)
    \/ ResumeReissue(p) \/ ResumeReconcile(p)

Next ==
    \/ \E p \in Procs : Command(p) \/ Continue(p) \/ Crash(p) \/ CrashTorn(p)
    \/ \E t \in Tasks : CompleteTask(t)
    \/ Tick \/ MoveHead

Spec == Init /\ [][Next]_vars

\* A command that runs goes on unless it crashes, time passes, and an operator
\* who needs to keeps running the recovery the refusals name, `specd brain resume`.
Fairness ==
    /\ WF_vars(Tick)
    /\ \A p \in Procs : /\ WF_vars(Continue(p))
                        /\ SF_vars(ResumeReissue(p) \/ ResumeReconcile(p))

FairSpec == Spec /\ Fairness

-----------------------------------------------------------------------------
(* The inductive invariant behind the safety properties, for a session s or   *)
(* a copy v of it, the events of the ledger and the record l of an invocation. *)

DistinctMissions(s) ==
    /\ \A m, n \in s.pending \cup s.missions : m.id = n.id => m = n
    /\ s.pending \cap s.missions = {}

BackedLeases(s) ==
    /\ \A l \in s.leases : l.id \in Ids(s.missions)
    /\ \A k, l \in s.leases : k.id = l.id => k = l

\* A mission the ledger has not seen has an id below the step counter, so the
\* next id can only clash with one that AppendDispatch refuses.
StepCovers(s, events) ==
    \A m \in s.pending \cup s.missions : Logged(events, m.id) \/ StepOf(m.id) <= s.step

\* What SaveSessionCAS may write over a session of the same revision.
Extends(v, s, events) ==
    /\ v.missions = s.missions /\ s.pending \subseteq v.pending
    /\ DistinctMissions(v) /\ BackedLeases(v) /\ StepCovers(v, events)
    /\ s.step <= v.step
    /\ \A l \in v.leases : l \in s.leases \/ l.state = "revoked"
    /\ Terminal(s) => Terminal(v)

Dispatching(l) == l.pc \in {"checkpoint", "ledgerRead", "ledgerAppend"}
HasView(l) == (Dispatching(l) /\ l.path # "resume") \/ l.pc \in {"save", "cancel"}

\* What an invocation in flight relies on.
Sound(l, s, events) ==
    /\ HasView(l) => l.view.rev <= s.rev
    /\ HasView(l) /\ l.view.rev = s.rev => Extends(l.view, s, events)
    /\ Dispatching(l) => l.mission # None
    /\ Dispatching(l) /\ l.path # "resume" => StepOf(l.mission.id) = l.view.step + 1
    /\ l.pc = "ledgerAppend" /\ l.path # "resume" /\ l.view.rev = s.rev =>
          l.mission.id \notin Known(l.view)
    /\ l.pc \in {"complete", "report"} => l.mission \in s.missions
    /\ l.pc = "append" => /\ l.event \in LeaseEvent \cup ReportEvent
                          /\ l.event.id \in Ids(s.missions)
                          /\ l.event \in LeaseEvent => l.event.lease.id = l.event.id
    /\ l.pc = "cancel" => l.todo \subseteq l.view.leases
    /\ \A k \in l.todo : k.id \in Ids(s.missions)

LedgerSound(events, s) ==
    \A i \in DOMAIN events :
        \/ events[i] \in DispatchEvent /\ events[i].mission.id = events[i].id
        \/ /\ events[i] \in LeaseEvent /\ events[i].lease.id = events[i].id
           /\ events[i].id \in Ids(s.missions)
        \/ events[i] \in ReportEvent /\ events[i].id \in Ids(s.missions)

OneLive == \A k, l \in session.leases : Live(k) /\ Live(l) => k = l

SessionSound(s, events) ==
    /\ DistinctMissions(s) /\ BackedLeases(s) /\ StepCovers(s, events)
    /\ s.rev = 0 => s = NoSession

IInv ==
    /\ TypeOK
    /\ OneLive
    /\ SessionSound(session, ledger)
    /\ LedgerSound(ledger, session)
    /\ \A p \in Procs : Sound(local[p], session, ledger)

-----------------------------------------------------------------------------
(* Safety, whatever runs at the same time *)

\* Whatever steps, claims, resumes and crashes interleave, the shared worktree
\* has at most one writer: two live leases never coexist (CheckParallelConflict).
OneLiveWriter ==
    \A k, l \in session.leases : Live(k) /\ Live(l) => k = l

\* A mission id names one mission, pending or claimed but never both, although
\* ids are recomputed after a crash and put back from the ledger by resume.
MissionsDistinct ==
    /\ \A m, n \in session.pending \cup session.missions : m.id = n.id => m = n
    /\ session.pending \cap session.missions = {}

\* Every lease has its mission and no mission two leases, so no lease can end in
\* PARALLEL_MISSION_UNKNOWN or be released in place of another.
LeasesBacked ==
    /\ Ids(session.leases) \subseteq Ids(session.missions)
    /\ \A k, l \in session.leases : k.id = l.id => k = l

\* A claim logged in the ledger is always of a mission the session has granted:
\* SaveSessionCAS comes before the append, and no later write loses the mission.
ClaimsBacked ==
    \A i \in DOMAIN ledger :
        ledger[i].kind # "dispatch" => ledger[i].id \in Ids(session.missions)

\* No write forgets a mission: neither a stale copy nor a resume that rebuilds
\* the session (a lost update would free the task of a running worker).
MissionsNeverForgotten ==
    [][/\ Known(session) \subseteq Known(session')
       /\ session.missions \subseteq session'.missions]_vars

\* A cancelled session stays cancelled, also under the late write of a command
\* that had read it running.
CancelIsFinal == [][Terminal(session) => Terminal(session')]_vars

\* A live lease leaves the session only because its task is complete, it was
\* released or revoked, or resume recovers from a crashed dispatch.
LiveLeaseKept ==
    [][\A l \in session.leases :
          Live(l) /\ l.id \notin Ids(session'.leases) =>
             \/ TaskOf(l.id) \in done
             \/ \E p \in Procs : Release(p, l)
             \/ Crashed]_vars

\* The session implements the life of a mission: a grant is never doubled, never
\* repeated for the same mission and never given to a mission nobody offered.
Holders == {l.id : l \in {k \in session.leases : Live(k)}}
Life == INSTANCE MissionLifecycle WITH
            Missions <- Id,
            Nobody <- None,
            offered <- Ids(session.pending),
            granted <- Ids(session.missions),
            holder <- IF Holders = {} THEN None ELSE CHOOSE id \in Holders : TRUE

LifecycleSpec == Life!Spec

-----------------------------------------------------------------------------
(* Safety of one command at a time *)

\* The ledger never carries one mission twice (ErrDuplicateMission).
DispatchedOnce ==
    \A i, j \in DOMAIN ledger :
        ledger[i].kind = "dispatch" /\ ledger[j].kind = "dispatch"
            /\ ledger[i].id = ledger[j].id => i = j

-----------------------------------------------------------------------------
(* Recovery *)

OutOfBounds ==
    \/ session.rev >= MaxRevision \/ Len(ledger) >= MaxLedger
    \/ \E l \in session.leases : l.expires > MaxTime

\* A dispatch the ledger carries reaches the session, whatever crashed on the way.
DispatchReachesSession ==
    \A t \in Tasks, n \in 1 .. MaxStep :
        EventsOf("dispatch", <<n, t>>) # {} ~>
            <<n, t>> \in Known(session) \/ Terminal(session) \/ OutOfBounds

\* A resume that is not killed leaves the checkpoint and the ledger agreed, or a
\* ledger that a torn line has made unreadable: no crash needs a second resume.
ResumeSettles ==
    [][\A p \in Procs :
          local[p].path = "resume" /\ local'[p].pc = "idle" /\ crashes' = crashes =>
             ~Crashed' \/ ~Readable']_vars

\* A torn final line costs at most itself: the ledger stays readable.
LedgerReadable == Readable

=============================================================================
