----------------------------- MODULE Approvals -----------------------------
(***************************************************************************)
(* How a spec moves through its lifecycle: approval by a human, approval   *)
(* delegated to a bearer of a grant, and the reopens that move it back.    *)
(*                                                                         *)
(* specd approve, reopen, midreq and complete-task hold the spec lock for  *)
(* the whole command and write state.json once, so each is one action.     *)
(* specd delegate approve holds the project's authority lock over several  *)
(* writes to two files, the grant ledger and state.json, and may die       *)
(* between any two of them; commands that take only the spec lock run in   *)
(* between.                                                                *)
(*                                                                         *)
(* A readiness gate that judges the text of an artifact is not modelled:   *)
(* it may refuse any approval, which then changes nothing.                 *)
(***************************************************************************)
EXTENDS Integers, FiniteSets

CONSTANTS
    Procs,       \* processes that run specd delegate approve
    Grants,      \* grant ids
    Human,       \* who signs an interactive approval
    None,
    Covers,      \* Covers[g]: the gates whose approval the grant may stand for
    MaxUses,     \* uses a grant is issued with
    MaxRevision, \* bound: revisions of state.json
    MaxCycle,    \* bound: lifecycle cycles
    MaxCrashes   \* bound: processes that die

NextStatus ==
    [requirements |-> "design", design |-> "tasks", tasks |-> "executing",
     executing |-> "verifying", verifying |-> "complete"]
Status == DOMAIN NextStatus \cup {"complete"}
Artifacts == {"requirements", "design", "tasks"}

\* The approval of a stage is recorded under its name, that of verifying under
\* complete.
ApprovalGateFor(s) == IF s \in {"verifying", "complete"} THEN "complete" ELSE s
Gates == {"requirements", "design", "tasks", "executing", "complete"}

ASSUME GrantsAssumption ==
    /\ Human \notin Grants /\ None \notin Grants \cup Procs
    /\ Covers \in [Grants -> SUBSET Gates]
ASSUME BoundsAssumption ==
    MaxUses \in Nat \ {0} /\ MaxRevision \in Nat /\ MaxCycle \in Nat \ {0} /\ MaxCrashes \in Nat

VARIABLES
    status, cycle, rev,   \* state.json
    worked,       \* state.json and tasks.md: the one task is complete
    approval,     \* records approval:<gate>
    archived,     \* records approval:<gate>:cycle:<n>
    answered,     \* records approval_request:*: the <<gate, cycle>> already approved
    amendments,   \* records amendment:<n>
    reopened,     \* workflow-events.jsonl holds a spec reopen
    grants,       \* projection of authority/grants.jsonl
    torn,         \* grants.jsonl ends in half a line
    owner,        \* holder of the authority lock
    local,        \* specd delegate approve, by process
    crashes

state == <<status, cycle, rev, worked, approval, archived, answered, amendments, reopened>>
authority == <<grants, torn, owner, local, crashes>>
vars == <<status, cycle, rev, worked, approval, archived, answered, amendments,
          reopened, grants, torn, owner, local, crashes>>

Revisions == 0 .. MaxRevision
Requests == Gates \X Revisions
Record == [rev : Revisions, by : Grants \cup {Human}]
ASSUME NoneAssumption == None \notin Record \cup Requests

\* A grant's uses are the requests its appended events leave reserved or consumed.
Grant == [issued : BOOLEAN, revoked : BOOLEAN, expired : BOOLEAN,
          reserved : SUBSET Requests, consumed : SUBSET Requests]
Uses(g) == grants[g].reserved \cup grants[g].consumed

Idle == [pc |-> "idle", grant |-> None, request |-> None]
Begun == {"reconcile", "load", "reserve", "approve", "consume", "release"}
Local == [pc : Begun, grant : Grants, request : Requests \cup {None}] \cup {Idle}

TypeOK ==
    /\ status \in Status /\ cycle \in 1 .. MaxCycle /\ rev \in Revisions
    /\ worked \in BOOLEAN /\ reopened \in BOOLEAN /\ torn \in BOOLEAN
    /\ approval \in [Gates -> Record \cup {None}]
    /\ archived \subseteq Gates \X (1 .. MaxCycle) \X Record
    /\ answered \subseteq Gates \X (1 .. MaxCycle)
    /\ amendments \subseteq [rev : Revisions, hits : SUBSET Gates]
    /\ grants \in [Grants -> Grant]
    /\ owner \in Procs \cup {None}
    /\ local \in [Procs -> Local]
    /\ crashes \in 0 .. MaxCrashes

Init ==
    /\ status = "requirements" /\ cycle = 1 /\ rev = 0 /\ worked = FALSE
    /\ approval = [x \in Gates |-> None] /\ archived = {}
    /\ answered = {}
    /\ amendments = {} /\ reopened = FALSE
    /\ grants = [g \in Grants |-> [issued |-> FALSE, revoked |-> FALSE, expired |-> FALSE,
                                   reserved |-> {}, consumed |-> {}]]
    /\ torn = FALSE /\ owner = None
    /\ local = [p \in Procs |-> Idle] /\ crashes = 0

Save == rev < MaxRevision /\ rev' = rev + 1

-----------------------------------------------------------------------------
(* The approval transaction *)

\* A record approved before the amendment that names its gate is stale.  A first
\* amendment at revision 0 stamps no revision and outlives every approval.
RecordIsFresh(x, r) ==
    \A a \in amendments : x \in a.hits => a.rev > 0 /\ r.rev > a.rev

\* StateFreshness reads every record of kind approval, those a spec reopen moved
\* to their cycle's key included.
NoStaleRecords ==
    /\ \A x \in Gates : approval[x] # None => RecordIsFresh(x, approval[x])
    /\ \A k \in archived : RecordIsFresh(k[1], k[3])

\* The target the gates are run for: requirements and design are their own.
ApproveTarget == IF status \in {"requirements", "design"} THEN status ELSE NextStatus[status]

ApprovalGate_Approved ==
    \/ approval["requirements"] # None /\ approval["design"] # None
    \/ (ApproveTarget \in {"tasks", "executing"} => NoStaleRecords) /\ ~worked
ApprovalGate ==
    /\ ApproveTarget \in {"tasks", "executing"} => NoStaleRecords
    /\ worked => approval["requirements"] # None /\ approval["design"] # None

\* After a spec reopen, executing is not left while a task is pending.
PendingCompletion == status = "executing" /\ reopened => worked

\* An approval opens the request of its gate and cycle and answers it at once, and
\* an approved request takes no other.  No command leaves one open.
RequestAnswerable(x) == <<x, cycle>> \notin answered

\* approveSpec, for a human or for the bearer of a grant.
ApproveSpec(by) ==
    LET x == ApprovalGateFor(status) IN
    /\ status \in DOMAIN NextStatus /\ PendingCompletion /\ ApprovalGate
    /\ RequestAnswerable(x)
    /\ Save
    /\ status' = NextStatus[status]
    /\ approval' = [approval EXCEPT ![x] = [rev |-> rev, by |-> by]]
    /\ answered' = answered \cup {<<x, cycle>>}
    /\ UNCHANGED <<cycle, worked, archived, amendments, reopened>>

Approve == ApproveSpec(Human) /\ UNCHANGED authority

-----------------------------------------------------------------------------
(* Other commands on the spec *)

\* verify and complete-task, of the last task: not in the first phase, and the
\* task gate lets the tasks and complete statuses through without approvals.
RequireTaskGate ==
    \/ status \in {"tasks", "complete"}
    \/ approval["requirements"] # None /\ approval["design"] # None
CompleteTask ==
    /\ ~worked /\ status # "requirements" /\ RequireTaskGate
    /\ Save /\ worked' = TRUE
    /\ UNCHANGED <<status, cycle, approval, archived, answered, amendments, reopened, authority>>

\* Reopening a completed task leaves status and approvals alone.
ReopenTask ==
    /\ worked /\ Save /\ worked' = FALSE
    /\ UNCHANGED <<status, cycle, approval, archived, answered, amendments, reopened, authority>>

\* specd midreq: an amendment that always names design and tasks.
Midreq ==
    /\ Save
    /\ \E scope \in {{"requirements"}, {}} :
          amendments' = amendments \cup {[rev |-> rev, hits |-> scope \cup {"design", "tasks"}]}
    /\ UNCHANGED <<status, cycle, worked, approval, archived, answered, reopened, authority>>

\* Back, or on, to the stage of the artifact, within the cycle.  Only open approval
\* requests are invalidated, and none is open.
ReopenArtifact ==
    /\ Save
    /\ \E a \in Artifacts : status' = a
    /\ UNCHANGED <<cycle, worked, approval, archived, answered, amendments, reopened, authority>>

\* A new cycle: approvals move to the old cycle's keys, the tasks start over.
ReopenSpec ==
    /\ cycle < MaxCycle /\ Save
    /\ status' = "requirements" /\ cycle' = cycle + 1 /\ worked' = FALSE /\ reopened' = TRUE
    /\ archived' = archived \cup {<<x, cycle, approval[x]>> : x \in {y \in Gates : approval[y] # None}}
    /\ approval' = [x \in Gates |-> None]
    /\ UNCHANGED <<answered, amendments, authority>>

-----------------------------------------------------------------------------
(* Delegated approval, under the authority lock *)

\* A command that finds the ledger torn, or the grant missing, refuses.
Readable(g) == ~torn /\ grants[g].issued

Issue(g) ==
    /\ owner = None /\ ~torn /\ ~grants[g].issued
    /\ grants' = [grants EXCEPT ![g] = [@ EXCEPT !.issued = TRUE]]
    /\ UNCHANGED <<state, torn, owner, local, crashes>>

\* Revocation waits for the lock, so for a delegated approval in flight.
Revoke_Unlocked(g) ==
    /\ Readable(g)
    /\ grants' = [grants EXCEPT ![g] = [@ EXCEPT !.revoked = TRUE]]
    /\ UNCHANGED <<state, torn, owner, local, crashes>>
Revoke(g) ==
    /\ owner = None /\ Readable(g)
    /\ grants' = [grants EXCEPT ![g] = [@ EXCEPT !.revoked = TRUE]]
    /\ UNCHANGED <<state, torn, owner, local, crashes>>

Expire(g) ==
    /\ grants[g].issued /\ ~grants[g].expired
    /\ grants' = [grants EXCEPT ![g] = [@ EXCEPT !.expired = TRUE]]
    /\ UNCHANGED <<state, torn, owner, local, crashes>>

\* Process p takes the authority lock to approve with grant g.
Begin_NotRevoked(p, g) ==
    /\ owner = None /\ local[p] = Idle /\ Readable(g) /\ ~grants[g].revoked
    /\ owner' = p
    /\ local' = [local EXCEPT ![p] = [pc |-> "reconcile", grant |-> g, request |-> None]]
    /\ UNCHANGED <<state, grants, torn, crashes>>
Begin(p, g) ==
    /\ owner = None /\ local[p] = Idle /\ Readable(g)
    /\ owner' = p
    /\ local' = [local EXCEPT ![p] = [pc |-> "reconcile", grant |-> g, request |-> None]]
    /\ UNCHANGED <<state, grants, torn, crashes>>

At(p, where) == owner = p /\ local[p].pc = where
Goto(p, where) == local' = [local EXCEPT ![p].pc = where]
Finish(p) == owner' = None /\ local' = [local EXCEPT ![p] = Idle]

\* An open reservation is settled by the approval it names: the record under its
\* gate pins the revision its request was made at.
ApprovalCommitted(q) == approval[q[1]] # None /\ approval[q[1]].rev = q[2]

SetUses(g, reserved, consumed) ==
    [grants EXCEPT ![g] = [@ EXCEPT !.reserved = reserved, !.consumed = consumed]]
Prepared(g, q) == SetUses(g, grants[g].reserved \cup {q}, grants[g].consumed)
Consumed(g, q) == SetUses(g, grants[g].reserved \ {q}, grants[g].consumed \cup {q})
Released(g, q) == SetUses(g, grants[g].reserved \ {q}, grants[g].consumed)

\* reconcileGrantUses settles what a dead process left open, one append at a time.
ReconcileOne_Release(p) ==
    LET g == local[p].grant IN
    /\ At(p, "reconcile")
    /\ \E q \in grants[g].reserved : grants' = Released(g, q)
    /\ UNCHANGED <<state, torn, owner, local, crashes>>
ReconcileOne(p) ==
    LET g == local[p].grant IN
    /\ At(p, "reconcile")
    /\ \E q \in grants[g].reserved :
          grants' = IF ApprovalCommitted(q) THEN Consumed(g, q) ELSE Released(g, q)
    /\ UNCHANGED <<state, torn, owner, local, crashes>>

\* With nothing left open, the request is keyed by the gate and revision just read,
\* without the spec lock.
Load(p) ==
    /\ At(p, "reconcile") /\ grants[local[p].grant].reserved = {}
    /\ local' = [local EXCEPT ![p].pc = "reserve",
                              ![p].request = <<ApprovalGateFor(status), rev>>]
    /\ UNCHANGED <<state, grants, torn, owner, crashes>>

\* AuthorizeDelegatedTransition
Authorized(g, q) ==
    /\ ~grants[g].revoked /\ ~grants[g].expired /\ q[1] \in Covers[g]
    /\ q \notin Uses(g)
    /\ Cardinality(Uses(g)) < MaxUses

Reserve(p) ==
    LET g == local[p].grant
        q == local[p].request IN
    /\ At(p, "reserve") /\ Authorized(g, q)
    /\ grants' = Prepared(g, q)
    /\ Goto(p, "approve")
    /\ UNCHANGED <<state, torn, owner, crashes>>
Refuse(p) ==
    /\ At(p, "reserve") /\ ~Authorized(local[p].grant, local[p].request)
    /\ Finish(p)
    /\ UNCHANGED <<state, grants, torn, crashes>>

\* approveSpec under the spec lock: it refuses a state that moved since Load.
Commit(p) ==
    /\ At(p, "approve") /\ rev = local[p].request[2] /\ ApproveSpec(local[p].grant)
    /\ Goto(p, "consume")
    /\ UNCHANGED <<grants, torn, owner, crashes>>

\* A moved state, or any gate, refuses.
CommitRefused(p) ==
    /\ At(p, "approve")
    /\ Goto(p, "release")
    /\ UNCHANGED <<state, grants, torn, owner, crashes>>

Close(p) ==
    LET g == local[p].grant
        q == local[p].request IN
    /\ \/ At(p, "consume") /\ grants' = Consumed(g, q)
       \/ At(p, "release") /\ grants' = Released(g, q)
    /\ Finish(p)
    /\ UNCHANGED <<state, torn, crashes>>

\* The next thing p does is append to the ledger.
Appending(p) ==
    \/ local[p].pc = "reconcile" /\ grants[local[p].grant].reserved # {}
    \/ local[p].pc = "reserve" /\ Authorized(local[p].grant, local[p].request)
    \/ local[p].pc \in {"consume", "release"}

\* A process dies, inside an append perhaps; its lock is reclaimed as stale.
Crash(p) ==
    /\ crashes < MaxCrashes /\ owner = p
    /\ crashes' = crashes + 1
    /\ Finish(p)
    /\ torn' \in IF Appending(p) THEN BOOLEAN ELSE {torn}
    /\ UNCHANGED <<state, grants>>

-----------------------------------------------------------------------------

SpecStep == Approve \/ CompleteTask \/ ReopenTask \/ Midreq \/ ReopenArtifact \/ ReopenSpec
GrantStep(g) == Issue(g) \/ Revoke(g) \/ Expire(g)
DelegateStep(p) ==
    \/ \E g \in Grants : Begin(p, g)
    \/ ReconcileOne(p) \/ Load(p) \/ Reserve(p) \/ Refuse(p)
    \/ Commit(p) \/ CommitRefused(p) \/ Close(p)

Next ==
    \/ SpecStep
    \/ \E g \in Grants : GrantStep(g)
    \/ \E p \in Procs : DelegateStep(p) \/ Crash(p)

Spec == Init /\ [][Next]_vars

\* A process that holds the lock runs on, and a bearer keeps trying its grant.
Working(p) ==
    ReconcileOne(p) \/ Load(p) \/ Reserve(p) \/ Refuse(p) \/ Commit(p) \/ CommitRefused(p) \/ Close(p)
Fairness ==
    /\ \A p \in Procs : WF_vars(Working(p))
    /\ \A g \in Grants : SF_vars(\E p \in Procs : Begin(p, g))
FairSpec == Spec /\ Fairness

-----------------------------------------------------------------------------
(* Properties *)

\* ReserveGrantUse counts reservations as uses: neither crashes, nor requests that
\* race with other commands, let a grant be used more often than it was issued for.
GrantNeverOverdrawn ==
    \A g \in Grants : IsFiniteSet(Uses(g)) /\ Cardinality(Uses(g)) <= MaxUses

\* An approval that names a grant stands on a use of it for the gate and revision
\* approved, whoever settled the use after the process that approved died.
ApprovalBacked ==
    \A x \in Gates :
        approval[x] # None /\ approval[x].by \in Grants
            => <<x, approval[x].rev>> \in Uses(approval[x].by)

\* The approval of request q by grant g, in this cycle or an earlier one.
Approved(g, q) ==
    LET r == [rev |-> q[2], by |-> g] IN
    approval[q[1]] = r \/ \E c \in 1 .. MaxCycle : <<q[1], c, r>> \in archived

\* From the moment it reads the state, the holder of the authority lock has no
\* reservation of its grant before it but its own: reconcileGrantUses has settled
\* every other, and nobody adds one.
ReconcileSettles ==
    \A p \in Procs :
        LET g == local[p].grant IN
        /\ owner = p <=> local[p] # Idle
        /\ local[p].pc = "reserve" => grants[g].reserved = {}
        /\ local[p].pc \in {"approve", "consume", "release"}
              => grants[g].reserved = {local[p].request}

\* A request names the gate the state it was read from stands at, until that state
\* moves; its approval is in place exactly when its use is to be consumed, and the
\* grant has not been revoked before.
RequestSound ==
    \A p \in Procs :
        LET g == local[p].grant
            q == local[p].request IN
        local[p].pc \in Begun \ {"reconcile"} =>
            /\ q # None /\ q[2] <= rev
            /\ local[p].pc \in {"reserve", "approve"} /\ q[2] = rev => q[1] = ApprovalGateFor(status)
            /\ local[p].pc # "consume" => approval[q[1]] # [rev |-> q[2], by |-> g]
            /\ local[p].pc = "consume" => Approved(g, q)
            /\ local[p].pc = "approve" => ~grants[g].revoked

\* What is on record was recorded at a revision now past, an approval once a cycle.
PastRevisions ==
    /\ \A a \in amendments : a.rev < rev
    /\ \A x \in Gates : approval[x] # None => <<x, cycle>> \in answered /\ approval[x].rev < rev

\* The tasks are never approved over requirements or a design that an earlier
\* amendment had outdated, through however many reopens.
StaleNeverPlanned ==
    approval["tasks"] # None =>
        \A a \in amendments, x \in {"requirements", "design"} :
            x \in a.hits /\ approval[x] # None /\ approval[x].rev <= a.rev
                => approval["tasks"].rev <= a.rev

IInv ==
    /\ TypeOK /\ GrantNeverOverdrawn /\ ApprovalBacked /\ ReconcileSettles
    /\ RequestSound /\ PastRevisions /\ StaleNeverPlanned

\* Once revoke has returned, the grant approves nothing more, though an approval
\* with it was in flight when it was called.
RevokedApprovesNothing ==
    [][\A g \in Grants, x \in Gates :
          grants[g].revoked /\ approval'[x] # approval[x] /\ approval'[x] # None
              => approval'[x].by # g]_vars

\* An approval stands unchanged until its cycle ends: going back a stage and
\* approving again does not rewrite who approved it or at which revision.
ApprovalNotRewritten ==
    [][cycle' = cycle => \A x \in Gates : approval[x] # None => approval'[x] = approval[x]]_vars

\* A reservation a dead process left is settled by the next use of the grant, even
\* one that is refused because the grant was revoked or is used up.
ReservationSettles ==
    \A g \in Grants : grants[g].reserved # {} ~> (grants[g].reserved = {} \/ torn)

\* Once nothing is reserved, a grant has spent exactly the approvals it stands for.
UsesExact ==
    \A g \in Grants :
        grants[g].reserved = {} =>
            grants[g].consumed = {q \in Requests : Approved(g, q)}

\* The status moves forward only by an approval, one stage at a time.
Order == <<"requirements", "design", "tasks", "executing", "verifying", "complete">>
ForwardOnlyByApproval ==
    [][\A i, j \in 1 .. 6 :
          status = Order[i] /\ status' = Order[j] /\ i < j
              => j = i + 1 /\ approval'[ApprovalGateFor(status)] # approval[ApprovalGateFor(status)]]_vars
=============================================================================
