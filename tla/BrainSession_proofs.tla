------------------------ MODULE BrainSession_proofs ------------------------
(***************************************************************************)
(* The safety of BrainSession for every set of invocations, tasks, time-   *)
(* outs and bounds: IInv is inductive, and the safety properties follow.   *)
(***************************************************************************)
EXTENDS BrainSession, TLAPS

-----------------------------------------------------------------------------
(* Types *)

\* A command in flight and a fresh local record are well typed.
LEMMA IdleType == IdleLocal \in Local /\ NoSession \in Session
BY DEF IdleLocal, NoSession, Local, Session, Phase

\* A compare-and-swap writes a session or leaves the old one.
LEMMA CASType ==
  ASSUME session \in Session, NEW next \in Session, SaveSessionCAS(next)
  PROVE  session' \in Session
BY DEF SaveSessionCAS, Session

\* Writing one well-typed local record keeps all of them so.
LEMMA LocalType ==
  ASSUME local \in [Procs -> Local], NEW p \in Procs, NEW l \in Local, Goto(p, l)
  PROVE  local' \in [Procs -> Local]
BY DEF Goto

\* AppendACP keeps the ledger a sequence of events, whatever its tail.
LEMMA AppendType ==
  ASSUME ledger \in Seq(ACPEvent), tail \in {"clean", "torn", "corrupt"},
         NEW e \in ACPEvent, AppendACP(e)
  PROVE  ledger' \in Seq(ACPEvent) /\ tail' \in {"clean", "torn", "corrupt"}
BY DEF AppendACP

\* Step and task make a mission id and come back out of it.
LEMMA IdType ==
  ASSUME NEW n \in Nat, NEW t \in Tasks
  PROVE  <<n, t>> \in Id /\ StepOf(<<n, t>>) = n /\ TaskOf(<<n, t>>) = t
BY DEF Id, StepOf, TaskOf

\* The step of an id is a number and its task a task.
LEMMA IdParts == ASSUME NEW id \in Id PROVE StepOf(id) \in Nat /\ TaskOf(id) \in Tasks
BY DEF Id, StepOf, TaskOf

\* Claiming or renewing a lease gives a lease.
LEMMA ClaimLeaseType ==
  ASSUME now \in Nat, NEW m \in Mission
  PROVE  ClaimLease(m) \in Lease
<1>1. m.id \in Id /\ m.attempt \in Nat /\ m.expires \in Nat
  BY DEF Mission
<1>2. AtMost(now + LeaseTTL, m.expires) \in Nat
  BY <1>1, LimitAssumption DEF AtMost
<1> QED BY <1>1, <1>2 DEF ClaimLease, Lease, Reason

\* Renewing a lease gives a lease.
LEMMA RenewLeaseType ==
  ASSUME now \in Nat, NEW l \in Lease
  PROVE  RenewLease(l) \in Lease
<1>1. l.issued \in Nat
  BY DEF Lease
<1>2. AtMost(now + LeaseTTL, l.issued + 4 * LeaseTTL) \in Nat
  BY <1>1, LimitAssumption DEF AtMost
<1> QED BY <1>2 DEF RenewLease, Lease

\* The locked commands (save, then append later) keep the types.
LEMMA AppendLaterType ==
  ASSUME TypeOK, NEW p \in Procs, NEW next \in Session, NEW e \in ACPEvent,
         SaveThenAppend(p, next, e)
  PROVE  TypeOK'
<1>1. session' \in Session
  BY CASType DEF SaveThenAppend, TypeOK
<1>2. local' \in [Procs -> Local]
  <2>1. [IdleLocal EXCEPT !.pc = "append", !.event = e] \in Local
    BY IdleType DEF IdleLocal, Local, Phase
  <2> QED BY <2>1, LocalType DEF SaveThenAppend, TypeOK
<1> QED BY <1>1, <1>2 DEF SaveThenAppend, TypeOK, world

\* The events of the ledger carry a mission or lease of their own id.
LEMMA EventParts ==
  ASSUME IInv, NEW i \in DOMAIN ledger
  PROVE  /\ ledger[i].kind = "dispatch" =>
               ledger[i].mission \in Mission /\ ledger[i].mission.id = ledger[i].id
         /\ ledger[i].kind \in {"claim", "cancel"} =>
               /\ ledger[i].lease \in Lease /\ ledger[i].lease.id = ledger[i].id
               /\ ledger[i].id \in Ids(session.missions)
BY DEF IInv, LedgerSound, DispatchEvent, LeaseEvent, ReportEvent

\* What the replay of one mission leaves is a lease of that granted mission.
LEMMA ReplayedLeaseType ==
  ASSUME IInv, NEW id, NEW l \in ReplayedLease(session, id)
  PROVE  l \in Lease /\ l.id = id /\ id \in Ids(session.missions)
<1> DEFINE held == {k \in session.leases : k.id = id /\ EventsOf("report", id) = {}}
           claim == FirstOf({i \in EventsOf("claim", id) :
                               \A r \in EventsOf("report", id) : r < i})
           base == IF held # {} THEN held ELSE {ledger[i].lease : i \in claim}
           cancel == FirstOf({i \in EventsOf("cancel", id) :
                                held = {} => \A c \in claim : c < i})
<1>1. \A k \in held : k \in Lease /\ k.id = id /\ id \in Ids(session.missions)
  BY DEF IInv, TypeOK, Session, SessionSound, BackedLeases
<1>2. \A i \in claim \cup cancel : /\ ledger[i].lease \in Lease
                                 /\ ledger[i].lease.id = id
                                 /\ id \in Ids(session.missions)
  <2>1. \A i \in claim \cup cancel :
          /\ i \in DOMAIN ledger /\ ledger[i].kind \in {"claim", "cancel"}
          /\ ledger[i].id = id
    BY DEF FirstOf, EventsOf
  <2> QED BY <2>1, EventParts
<1>3. PICK b \in base : l = IF b.state = "active" /\ cancel # {}
                           THEN ledger[CHOOSE i \in cancel : TRUE].lease
                           ELSE b
  BY DEF ReplayedLease
<1> HIDE DEF cancel, claim, held
<1>4. b \in Lease /\ b.id = id /\ id \in Ids(session.missions)
  BY <1>1, <1>2
<1>5. cancel # {} => (CHOOSE i \in cancel : TRUE) \in cancel
  OBVIOUS
<1> QED BY <1>2, <1>3, <1>4, <1>5

\* The least line of a set of ledger lines is unique.
LEMMA FirstOfUnique ==
  ASSUME ledger \in Seq(ACPEvent), NEW S \in SUBSET DOMAIN ledger,
         NEW i \in FirstOf(S), NEW j \in FirstOf(S)
  PROVE  i = j
<1>1. \A n \in S : n \in Nat
  OBVIOUS
<1>2. i \in S /\ j \in S /\ i <= j /\ j <= i
  BY DEF FirstOf
<1> QED BY <1>1, <1>2

\* Replaying one mission leaves it at most one lease.
LEMMA ReplayedLeaseUnique ==
  ASSUME IInv, NEW id, NEW k \in ReplayedLease(session, id),
         NEW l \in ReplayedLease(session, id)
  PROVE  k = l
<1> DEFINE held == {h \in session.leases : h.id = id /\ EventsOf("report", id) = {}}
           claims == {i \in EventsOf("claim", id) :
                        \A r \in EventsOf("report", id) : r < i}
           claim == FirstOf(claims)
           base == IF held # {} THEN held ELSE {ledger[i].lease : i \in claim}
           cancel == FirstOf({i \in EventsOf("cancel", id) :
                                held = {} => \A c \in claim : c < i})
           Replay(b) == IF b.state = "active" /\ cancel # {}
                        THEN ledger[CHOOSE i \in cancel : TRUE].lease ELSE b
<1>1. \A g, h \in held : g = h
  BY DEF IInv, SessionSound, BackedLeases
<1>2. \A i, j \in claim : i = j
  <2>1. claims \in SUBSET DOMAIN ledger
    BY DEF EventsOf
  <2> HIDE DEF claims
  <2> QED BY <2>1, FirstOfUnique DEF IInv, TypeOK
<1>3. PICK a \in base : k = Replay(a)
  BY DEF ReplayedLease
<1>4. PICK b \in base : l = Replay(b)
  BY DEF ReplayedLease
<1> HIDE DEF held, claim, cancel
<1>5. a = b
  BY <1>1, <1>2
<1> QED BY <1>3, <1>4, <1>5

\* A dispatch event to adopt carries a mission the caller does not know.
LEMMA DispatchedType ==
  ASSUME IInv, NEW known, NEW m \in Dispatched(known)
  PROVE  m \in Mission /\ m.id \notin known /\ Logged(ledger, m.id)
<1> PICK i \in DOMAIN ledger : /\ ledger[i].kind = "dispatch" /\ ledger[i].id \notin known
                              /\ m = ledger[i].mission
  BY DEF Dispatched
<1> QED BY EventParts DEF Logged

\* Everything resume adopts is a mission.
LEMMA OrphansType ==
  ASSUME IInv
  PROVE  Orphans(session) \in SUBSET Mission
BY DispatchedType DEF Orphans, IInv, TypeOK

\* The session resume saves, written out, and its type.
LEMMA ReconcileType ==
  ASSUME IInv
  PROVE  /\ Reclaimed(ReconcileSession(session)) \in Session
         /\ Reclaimed(ReconcileSession(session)) =
              [session EXCEPT
                 !.pending = @ \cup Orphans(session),
                 !.step = IF checkpoint = None THEN @ ELSE AtLeast(@, StepOf(checkpoint.id)),
                 !.leases = {l \in UNION {ReplayedLease(session, id) :
                     id \in Ids(@) \cup {ledger[i].id : i \in DOMAIN ledger}} :
                         l.state = "revoked"}]
<1> DEFINE leases == UNION {ReplayedLease(session, id) :
                       id \in Ids(session.leases) \cup {ledger[i].id : i \in DOMAIN ledger}}
           step == IF checkpoint = None THEN session.step
                   ELSE AtLeast(session.step, StepOf(checkpoint.id))
<1>1. session \in Session
  BY DEF IInv, TypeOK
<1>2. leases \in SUBSET Lease
  BY ReplayedLeaseType
<1>3. step \in Nat
  BY <1>1, IdParts DEF IInv, TypeOK, Mission, Session, AtLeast
<1>4. Reclaimed(ReconcileSession(session)) =
        [session EXCEPT !.pending = @ \cup Orphans(session), !.step = step,
                        !.leases = {l \in leases : l.state = "revoked"}]
  BY <1>1 DEF ReconcileSession, Reclaimed, Session
<1>5. Reclaimed(ReconcileSession(session)) \in Session
  <2> HIDE DEF leases, step
  <2> QED BY <1>1, <1>2, <1>3, <1>4, OrphansType DEF Session
<1> QED BY <1>4, <1>5

\* Two lines dispatching the same mission are one mission to resume.
LEMMA DispatchedUnique ==
  ASSUME IInv, NEW known, NEW m \in Dispatched(known), NEW n \in Dispatched(known),
         m.id = n.id
  PROVE  m = n
<1>1. PICK i \in DOMAIN ledger :
        /\ ledger[i].kind = "dispatch" /\ m = ledger[i].mission
        /\ i \in FirstOf(EventsOf("dispatch", ledger[i].id))
  BY DEF Dispatched
<1>2. PICK j \in DOMAIN ledger :
        /\ ledger[j].kind = "dispatch" /\ n = ledger[j].mission
        /\ j \in FirstOf(EventsOf("dispatch", ledger[j].id))
  BY DEF Dispatched
<1>3. ledger[i].id = ledger[j].id
  BY <1>1, <1>2, EventParts
<1>4. EventsOf("dispatch", ledger[i].id) \in SUBSET DOMAIN ledger
  BY DEF EventsOf
<1>5. i = j
  BY <1>1, <1>2, <1>3, <1>4, FirstOfUnique DEF IInv, TypeOK
<1> QED BY <1>1, <1>2, <1>5

\* What resume adopts is new to the session, one mission per id, and known to
\* the ledger or covered by the checkpoint's step.
LEMMA OrphansSound ==
  ASSUME IInv
  PROVE  /\ \A m \in Orphans(session) :
               /\ m.id \notin Known(session)
               /\ Logged(ledger, m.id) \/ (checkpoint # None /\ m = checkpoint)
         /\ \A m, n \in Orphans(session) : m.id = n.id => m = n
<1> DEFINE unsaved == {m \in {checkpoint} \ {None} : m.id \notin Known(session)}
           known == Known(session) \cup Ids(unsaved)
<1>1. Orphans(session) = unsaved \cup Dispatched(known)
  BY DEF Orphans
<1>2. \A m \in unsaved : m = checkpoint /\ checkpoint # None /\ m.id \notin Known(session)
  OBVIOUS
<1>3. \A m \in unsaved : m.id \in known
  BY DEF Ids
<1>4. \A m \in Dispatched(known) : m.id \notin known /\ Logged(ledger, m.id)
  BY DispatchedType
<1>5. \A m, n \in Dispatched(known) : m.id = n.id => m = n
  BY DispatchedUnique
<1>6. \A m \in Dispatched(known) : m.id \notin Known(session)
  BY <1>4
<1> HIDE DEF unsaved, known
<1> QED BY <1>1, <1>2, <1>3, <1>4, <1>5, <1>6

\* Every command keeps the types, one step of the proof per action.
LEMMA TypeStep == IInv /\ [Next]_vars => TypeOK'
<1> SUFFICES ASSUME TypeOK, IInv, [Next]_vars PROVE TypeOK'
  BY DEF IInv
<1> USE IdleType DEF files, world
<1>0. CASE UNCHANGED vars
  BY <1>0 DEF vars, TypeOK
<1>1. ASSUME NEW p \in Procs, Start(p) PROVE TypeOK'
  BY <1>1, CASType DEF Start, TypeOK
<1>2. ASSUME NEW p \in Procs, StepDispatch(p) PROVE TypeOK'
  <2>1. PICK t \in Tasks, e \in SUBSET Tasks :
          Goto(p, [IdleLocal EXCEPT !.pc = "checkpoint",
                     !.view = [Sensed(session) EXCEPT !.waiting = FALSE],
                     !.mission = [id |-> <<session.step + 1, t>>, attempt |-> 1,
                                  head |-> head, expires |-> now + MissionTTL]])
    BY <1>2 DEF StepDispatch, FrontierExcluding
  <2>2. [Sensed(session) EXCEPT !.waiting = FALSE] \in Session
    BY DEF TypeOK, Sensed, Session
  <2>3. [id |-> <<session.step + 1, t>>, attempt |-> 1,
         head |-> head, expires |-> now + MissionTTL] \in Mission
    BY IdType, LimitAssumption DEF TypeOK, Session, Mission
  <2>4. local' \in [Procs -> Local]
    BY <2>1, <2>2, <2>3, LocalType DEF TypeOK, Local, Phase, IdleLocal
  <2> QED BY <1>2, <2>4 DEF StepDispatch, TypeOK
<1>3. ASSUME NEW p \in Procs, StepWait(p) PROVE TypeOK'
  <2>1. PICK w \in BOOLEAN :
          Goto(p, [IdleLocal EXCEPT !.pc = "save",
                     !.view = [Sensed(session) EXCEPT !.waiting = w]])
    BY <1>3 DEF StepWait
  <2>2. [Sensed(session) EXCEPT !.waiting = w] \in Session
    BY DEF TypeOK, Sensed, Session
  <2>3. local' \in [Procs -> Local]
    BY <2>1, <2>2, LocalType DEF TypeOK, Local, Phase, IdleLocal
  <2> QED BY <1>3, <2>3 DEF StepWait, TypeOK
<1>4. ASSUME NEW p \in Procs, NEW m \in session.pending, Claim(p, m) PROVE TypeOK'
  <2> DEFINE next == [session EXCEPT !.pending = @ \ {m}, !.missions = @ \cup {m},
                                     !.leases = @ \cup {ClaimLease(m)}]
             event == [kind |-> "claim", id |-> m.id, lease |-> ClaimLease(m)]
  <2>1. m \in Mission /\ ClaimLease(m) \in Lease
    BY ClaimLeaseType DEF TypeOK, Session
  <2>2. next \in Session
    BY <2>1 DEF TypeOK, Session
  <2>3. event \in ACPEvent
    BY <2>1 DEF ACPEvent, LeaseEvent, Mission
  <2> HIDE DEF next, event
  <2>4. SaveThenAppend(p, next, event)
    BY <1>4 DEF Claim, next, event
  <2> QED BY <2>2, <2>3, <2>4, AppendLaterType
<1>5. ASSUME NEW p \in Procs, NEW l \in session.leases, Heartbeat(p, l) PROVE TypeOK'
  <2> DEFINE next == [session EXCEPT !.leases = (@ \ {l}) \cup {RenewLease(l)}]
             event == [kind |-> "heartbeat", id |-> l.id, lease |-> RenewLease(l)]
  <2>1. l \in Lease /\ RenewLease(l) \in Lease
    BY RenewLeaseType DEF TypeOK, Session
  <2>2. next \in Session
    BY <2>1 DEF TypeOK, Session
  <2>3. event \in ACPEvent
    BY <2>1 DEF ACPEvent, LeaseEvent, Lease
  <2> HIDE DEF next, event
  <2>4. SaveThenAppend(p, next, event)
    BY <1>5 DEF Heartbeat, next, event
  <2> QED BY <2>2, <2>3, <2>4, AppendLaterType
<1>6. ASSUME NEW p \in Procs, NEW l \in session.leases, ReportCheck(p, l) PROVE TypeOK'
  <2>1. PICK m \in session.missions :
          Goto(p, [IdleLocal EXCEPT !.pc = "complete", !.mission = m])
    BY <1>6 DEF ReportCheck
  <2>2. local' \in [Procs -> Local]
    BY <2>1, LocalType DEF TypeOK, Session, Local, Phase, IdleLocal
  <2> QED BY <1>6, <2>2 DEF ReportCheck, TypeOK
<1>7. ASSUME NEW p \in Procs, NEW l \in session.leases, Release(p, l) PROVE TypeOK'
  <2> DEFINE next == [session EXCEPT !.leases = @ \ {l}]
             event == [kind |-> "cancel", id |-> l.id,
                       lease |-> Revoked(l, "released by controller")]
  <2>1. l \in Lease /\ Revoked(l, "released by controller") \in Lease
    BY DEF TypeOK, Session, Lease, Revoked, Reason
  <2>2. next \in Session
    BY <2>1 DEF TypeOK, Session
  <2>3. event \in ACPEvent
    BY <2>1 DEF ACPEvent, LeaseEvent, Lease
  <2> HIDE DEF next, event
  <2>4. SaveThenAppend(p, next, event)
    BY <1>7 DEF Release, next, event
  <2> QED BY <2>2, <2>3, <2>4, AppendLaterType
<1>8. ASSUME NEW p \in Procs, CancelBegin(p) PROVE TypeOK'
  <2>1. PICK pc \in {"save", "cancel"} :
          Goto(p, [IdleLocal EXCEPT !.pc = pc,
                     !.view = [session EXCEPT !.state = "cancelled"],
                     !.todo = session.leases])
    BY <1>8 DEF CancelBegin
  <2>2. [session EXCEPT !.state = "cancelled"] \in Session
    BY DEF TypeOK, Session
  <2>3. local' \in [Procs -> Local]
    BY <2>1, <2>2, LocalType DEF TypeOK, Session, Local, Phase, IdleLocal
  <2> QED BY <1>8, <2>3 DEF CancelBegin, TypeOK
<1>9. ASSUME NEW p \in Procs, ResumeReissue(p) PROVE TypeOK'
  <2>1. PICK l \in Stale, m \in session.missions :
          LET next == [id |-> <<session.step + 1, TaskOf(m.id)>>,
                       attempt |-> m.attempt + 1, head |-> head,
                       expires |-> now + MissionTTL] IN
          /\ checkpoint' = next
          /\ Goto(p, [IdleLocal EXCEPT
                 !.pc = "ledgerRead", !.path = "reissue", !.mission = next,
                 !.view = [session EXCEPT
                     !.leases = (@ \ {l}) \cup {Revoked(l, "stale baseline")}]])
    BY <1>9 DEF ResumeReissue
  <2> DEFINE next == [id |-> <<session.step + 1, TaskOf(m.id)>>,
                       attempt |-> m.attempt + 1, head |-> head,
                       expires |-> now + MissionTTL]
             view == [session EXCEPT
                        !.leases = (@ \ {l}) \cup {Revoked(l, "stale baseline")}]
  <2>2. m \in Mission /\ l \in Lease /\ MissionTTL \in Nat
    BY LimitAssumption DEF TypeOK, Session, Stale
  <2>3. next \in Mission
    <3>1. <<session.step + 1, TaskOf(m.id)>> \in Id
      BY <2>2, IdParts, IdType DEF Mission, TypeOK, Session
    <3> QED BY <2>2, <3>1 DEF Mission, TypeOK
  <2>4. view \in Session
    <3>1. Revoked(l, "stale baseline") \in Lease
      BY <2>2 DEF Lease, Revoked, Reason
    <3>2. (session.leases \ {l}) \cup {Revoked(l, "stale baseline")} \in SUBSET Lease
      BY <3>1 DEF TypeOK, Session
    <3> QED BY <3>2 DEF TypeOK, Session
  <2>5. local' \in [Procs -> Local]
    <3> HIDE DEF next, view
    <3>1. [IdleLocal EXCEPT !.pc = "ledgerRead", !.path = "reissue",
                            !.mission = next, !.view = view] \in Local
      BY <2>3, <2>4 DEF Local, Phase, IdleLocal
    <3> QED BY <2>1, <3>1, LocalType DEF TypeOK, next, view
  <2> QED BY <1>9, <2>1, <2>3, <2>5 DEF ResumeReissue, TypeOK
<1>10. ASSUME NEW p \in Procs, ResumeReconcile(p) PROVE TypeOK'
  <2>1. Reclaimed(ReconcileSession(session)) \in Session
    BY ReconcileType
  <2>2. session' \in Session
    BY <1>10, <2>1, CASType DEF ResumeReconcile, TypeOK
  <2>3. lock' \in Procs \cup {None} /\ local' \in [Procs -> Local]
    <3>1. CASE Crashed
      <4>1. [IdleLocal EXCEPT !.pc = "ledgerRead", !.path = "resume",
                              !.mission = checkpoint] \in Local
        BY DEF IdleLocal, Local, Phase, TypeOK
      <4> QED BY <1>10, <3>1, <4>1, LocalType DEF ResumeReconcile, TypeOK
    <3>2. CASE ~Crashed
      BY <1>10, <3>2 DEF ResumeReconcile, TypeOK
    <3> QED BY <3>1, <3>2
  <2> QED BY <1>10, <2>2, <2>3 DEF ResumeReconcile, TypeOK
<1>11. ASSUME NEW p \in Procs, SaveCheckpoint(p) PROVE TypeOK'
  BY <1>11 DEF SaveCheckpoint, TypeOK, Local, Phase
<1>12. ASSUME NEW p \in Procs, ReadLedger(p) PROVE TypeOK'
  <2>1. CASE Readable /\ ~HasEvent(local[p].mission.id)
    BY <1>12, <2>1 DEF ReadLedger, TypeOK, Local, Phase
  <2>2. CASE ~(Readable /\ ~HasEvent(local[p].mission.id))
    BY <1>12, <2>2 DEF ReadLedger, TypeOK, Finish, Goto, Unlock
  <2> QED BY <2>1, <2>2
<1>13. ASSUME NEW p \in Procs, AppendDispatch(p) PROVE TypeOK'
  <2>1. local[p].mission \in Mission /\ local[p].view \in Session
    BY <1>13 DEF AppendDispatch, TypeOK, Local, IInv, Sound, Dispatching
  <2> DEFINE m == local[p].mission
             event == [kind |-> "dispatch", id |-> m.id, mission |-> m]
  <2>2. event \in ACPEvent
    BY <2>1 DEF ACPEvent, DispatchEvent, Mission
  <2>3. ledger' \in Seq(ACPEvent) /\ tail' \in {"clean", "torn", "corrupt"}
    BY <1>13, <2>2, AppendType DEF AppendDispatch, TypeOK
  <2>4. CASE local[p].path = "resume"
    BY <1>13, <2>3, <2>4 DEF AppendDispatch, TypeOK, Finish, Goto, Unlock
  <2>5. CASE local[p].path # "resume"
    <3>1. StepOf(m.id) \in Nat
      BY <2>1, IdParts DEF Mission
    <3>2. [local[p] EXCEPT !.pc = "save", !.view.step = StepOf(m.id),
                           !.view.pending = @ \cup {m}] \in Local
      BY <2>1, <3>1 DEF TypeOK, Local, Phase, Session
    <3> QED BY <1>13, <2>3, <2>5, <3>2, ZenonT(40) DEF AppendDispatch, TypeOK
  <2> QED BY <2>4, <2>5
<1>14. ASSUME NEW p \in Procs, SaveSession(p) PROVE TypeOK'
  <2>1. local[p].view \in Session
    BY DEF TypeOK, Local
  <2>2. session' \in Session
    BY <1>14, <2>1, CASType DEF SaveSession, TypeOK
  <2> QED BY <1>14, <2>2 DEF SaveSession, TypeOK, Finish, Goto, Unlock
<1>15. ASSUME NEW p \in Procs, AppendEvent(p) PROVE TypeOK'
  <2>1. local[p].event \in ACPEvent
    BY <1>15 DEF AppendEvent, IInv, Sound, ACPEvent
  <2>2. ledger' \in Seq(ACPEvent) /\ tail' \in {"clean", "torn", "corrupt"}
    BY <1>15, <2>1, AppendType DEF AppendEvent, TypeOK
  <2> QED BY <1>15, <2>2 DEF AppendEvent, TypeOK, Finish, Goto, Unlock
<1>16. ASSUME NEW p \in Procs, ReportComplete(p) PROVE TypeOK'
  <2>1. local[p].mission \in Mission
    BY <1>16 DEF ReportComplete, IInv, TypeOK, Session, Sound
  <2>2. TaskOf(local[p].mission.id) \in Tasks
    BY <2>1, IdParts DEF Mission
  <2> QED BY <1>16, <2>2 DEF ReportComplete, TypeOK, Local, Phase
<1>17. ASSUME NEW p \in Procs, ReportRefused(p) PROVE TypeOK'
  BY <1>17 DEF ReportRefused, TypeOK, Finish, Goto
<1>18. ASSUME NEW p \in Procs, ReportRelease(p) PROVE TypeOK'
  <2> DEFINE id == local[p].mission.id
             next == [session EXCEPT !.leases = {l \in @ : l.id # id}]
             event == [kind |-> "report", id |-> id]
  <2>1. id \in Id
    BY <1>18 DEF ReportRelease, IInv, TypeOK, Session, Sound, Mission
  <2>2. next \in Session /\ event \in ACPEvent
    BY <2>1 DEF TypeOK, Session, ACPEvent, ReportEvent
  <2>3. SaveThenAppend(p, next, event)
    BY <1>18 DEF ReportRelease
  <2> QED BY <2>2, <2>3, AppendLaterType
<1>19. ASSUME NEW p \in Procs, CancelLease(p) PROVE TypeOK'
  <2>1. PICK l \in local[p].todo :
          CancelActive(p, l) \/ CancelAgain(p, l) \/ CancelConflict(p, l)
    BY <1>19 DEF CancelLease
  <2>2. local[p] \in Local /\ l \in Lease /\ Revoked(l, "operator") \in Lease
    <3>1. local[p] \in Local
      BY DEF TypeOK
    <3>2. l \in Lease
      BY <3>1 DEF Local
    <3>3. Revoked(l, "operator") \in Lease
      BY <3>2 DEF Lease, Revoked, Reason
    <3> QED BY <3>1, <3>2, <3>3
  <2>3. AfterLease(p, l) \in Local
    BY <2>2 DEF AfterLease, Local, Phase
  <2>4. CASE CancelActive(p, l)
    <3>1. [kind |-> "cancel", id |-> l.id, lease |-> Revoked(l, "operator")] \in ACPEvent
      BY <2>2 DEF ACPEvent, LeaseEvent, Lease
    <3>2. ledger' \in Seq(ACPEvent) /\ tail' \in {"clean", "torn", "corrupt"}
      BY <2>4, <3>1, AppendType DEF CancelActive, TypeOK
    <3>3. [AfterLease(p, l) EXCEPT
              !.view.leases = (@ \ {l}) \cup {Revoked(l, "operator")}] \in Local
      BY <2>2, <2>3 DEF Local, Session
    <3> QED BY <2>4, <3>2, <3>3, LocalType DEF CancelActive, TypeOK
  <2>5. CASE CancelAgain(p, l)
    BY <2>3, <2>5, LocalType DEF CancelAgain, TypeOK
  <2>6. CASE CancelConflict(p, l)
    BY <2>6 DEF CancelConflict, TypeOK, Finish, Goto, Unlock
  <2> QED BY <2>1, <2>4, <2>5, <2>6
<1>20. ASSUME NEW p \in Procs, Crash(p) PROVE TypeOK'
  BY <1>20 DEF Crash, TypeOK, Finish, Goto, Unlock
<1>21. ASSUME NEW p \in Procs, CrashTorn(p) PROVE TypeOK'
  BY <1>21 DEF CrashTorn, TypeOK, Finish, Goto, Unlock
<1>22. ASSUME NEW t \in Tasks, CompleteTask(t) PROVE TypeOK'
  BY <1>22 DEF CompleteTask, TypeOK
<1>23. CASE Tick
  BY <1>23 DEF Tick, TypeOK
<1>24. CASE MoveHead
  BY <1>24 DEF MoveHead, TypeOK
<1> QED
  BY <1>0, <1>1, <1>2, <1>3, <1>4, <1>5, <1>6, <1>7, <1>8, <1>9, <1>10, <1>11, <1>12,
     <1>13, <1>14, <1>15, <1>16, <1>17, <1>18, <1>19, <1>20, <1>21, <1>22, <1>23, <1>24
     DEF Next, Command, Continue

-----------------------------------------------------------------------------
(* The invariant *)

\* An idle invocation relies on nothing.
LEMMA IdleSound == ASSUME NEW s, NEW events PROVE Sound(IdleLocal, s, events)
BY DEF Sound, IdleLocal, HasView, Dispatching

\* What p relies on survives the other invocations: a written session has a new
\* revision, missions are only added, the ledger only grows.
LEMMA SoundKept ==
  ASSUME NEW l \in Local, NEW s \in Session, NEW t \in Session, NEW L, NEW M,
         Sound(l, s, L),
         t = s \/ t.rev > s.rev,
         s.missions \subseteq t.missions,
         \A id : Logged(L, id) => Logged(M, id)
  PROVE  Sound(l, t, M)
<1>1. l.view.rev \in Nat /\ s.rev \in Nat /\ t.rev \in Nat
  BY DEF Local, Session
<1>2. HasView(l) => l.view.rev <= t.rev
  BY <1>1 DEF Sound
<1>3. HasView(l) /\ l.view.rev = t.rev => t = s
  BY <1>1 DEF Sound
<1>4. HasView(l) /\ l.view.rev = t.rev => Extends(l.view, t, M)
  BY <1>3 DEF Sound, Extends, StepCovers
<1>5. l.pc = "ledgerAppend" /\ l.path # "resume" => HasView(l)
  BY DEF HasView, Dispatching
<1>6. \A id \in Ids(s.missions) : id \in Ids(t.missions)
  BY DEF Ids
<1> QED BY <1>2, <1>3, <1>4, <1>5, <1>6 DEF Sound

\* Granting more missions keeps the ledger sound.
LEMMA LedgerKept ==
  ASSUME NEW s, NEW t, NEW events, LedgerSound(events, s), s.missions \subseteq t.missions
  PROVE  LedgerSound(events, t)
BY DEF LedgerSound, Ids

\* An append adds one event to the end, or spoils the line it lands on.
LEMMA LedgerAppended ==
  ASSUME ledger \in Seq(ACPEvent), NEW e \in ACPEvent, AppendACP(e), NEW s,
         LedgerSound(ledger, s),
         \/ e \in DispatchEvent /\ e.mission.id = e.id
         \/ e \in LeaseEvent /\ e.lease.id = e.id /\ e.id \in Ids(s.missions)
         \/ e \in ReportEvent /\ e.id \in Ids(s.missions)
  PROVE  /\ LedgerSound(ledger', s)
         /\ \A id : Logged(ledger, id) => Logged(ledger', id)
<1>1. CASE ledger' = Append(ledger, e)
  <2>1. /\ DOMAIN ledger' = 1 .. Len(ledger) + 1
        /\ \A i \in DOMAIN ledger : i \in DOMAIN ledger' /\ ledger'[i] = ledger[i]
        /\ ledger'[Len(ledger) + 1] = e
        /\ DOMAIN ledger = 1 .. Len(ledger) /\ Len(ledger) \in Nat
    BY <1>1
  <2>2. \A i \in DOMAIN ledger' : i \in DOMAIN ledger \/ ledger'[i] = e
    BY <2>1
  <2> QED BY <2>1, <2>2 DEF LedgerSound, Logged
<1>2. CASE ledger' = ledger
  BY <1>2
<1> QED BY <1>1, <1>2 DEF AppendACP

\* The invariant, from what a step does to the session, the ledger and one
\* invocation.
LEMMA Assemble ==
  ASSUME IInv, TypeOK', NEW p \in Procs,
         \A q \in Procs \ {p} : local'[q] = local[q],
         \/ session' = session
         \/ /\ session'.rev > session.rev
            /\ DistinctMissions(session') /\ BackedLeases(session')
            /\ StepCovers(session', ledger'),
         session.missions \subseteq session'.missions,
         \A id : Logged(ledger, id) => Logged(ledger', id),
         LedgerSound(ledger', session'),
         OneLive',
         Sound(local'[p], session', ledger')
  PROVE  IInv'
<1>1. \A q \in Procs : Sound(local'[q], session', ledger')
  <2> TAKE q \in Procs
  <2>1. CASE q # p
    <3>1. local[q] \in Local /\ session \in Session /\ session' \in Session
      BY DEF IInv, TypeOK
    <3>2. Sound(local[q], session', ledger')
      BY <3>1, SoundKept DEF IInv
    <3> QED BY <2>1, <3>2
  <2> QED BY <2>1
<1>2. SessionSound(session', ledger')
  <2>1. session.rev \in Nat
    BY DEF IInv, TypeOK, Session
  <2>2. StepCovers(session', ledger')
    BY DEF IInv, SessionSound, StepCovers
  <2> QED BY <2>1, <2>2 DEF IInv, SessionSound
<1> QED BY <1>1, <1>2 DEF IInv

\* Steps that write neither the session nor the ledger.
LEMMA Quiet ==
  ASSUME IInv, TypeOK', NEW p \in Procs,
         \A q \in Procs \ {p} : local'[q] = local[q],
         session' = session, ledger' = ledger, now' >= now,
         Sound(local'[p], session, ledger)
  PROVE  IInv'
<1>1. OneLive'
  <2>1. \A l \in session.leases : Live(l)' => Live(l)
    BY DEF IInv, TypeOK, Session, Lease, Live
  <2> QED BY <2>1 DEF IInv, OneLive
<1> QED BY <1>1, Assemble DEF IInv, SessionSound

\* SaveThenAppend of a session that keeps its missions apart and its leases
\* backed, and of an event about one of its missions.
LEMMA SaveThenAppendStep ==
  ASSUME IInv, TypeOK', NEW p \in Procs, NEW next \in Session, NEW e,
         SaveThenAppend(p, next, e),
         next.rev = session.rev,
         DistinctMissions(next), BackedLeases(next), StepCovers(next, ledger),
         session.missions \subseteq next.missions,
         \A k, l \in next.leases : Live(k) /\ Live(l) => k = l,
         e \in LeaseEvent \cup ReportEvent, e.id \in Ids(next.missions),
         e \in LeaseEvent => e.lease.id = e.id
  PROVE  IInv'
<1>1. session' = [next EXCEPT !.rev = @ + 1] /\ session'.rev = session.rev + 1
  BY DEF SaveThenAppend, SaveSessionCAS, Session
<1>2. session'.rev > session.rev
  BY <1>1 DEF IInv, TypeOK, Session
<1>3. /\ session'.missions = next.missions /\ session'.pending = next.pending
      /\ session'.leases = next.leases /\ session'.step = next.step
  BY <1>1 DEF Session
<1>4. DistinctMissions(session') /\ BackedLeases(session') /\ StepCovers(session', ledger')
  BY <1>3 DEF SaveThenAppend, DistinctMissions, BackedLeases, StepCovers
<1>5. OneLive'
  BY <1>3 DEF SaveThenAppend, world, OneLive, Live
<1>6. LedgerSound(ledger', session')
  BY <1>3, LedgerKept DEF SaveThenAppend, IInv
<1>7. local' = [local EXCEPT ![p] = [IdleLocal EXCEPT !.pc = "append", !.event = e]]
  BY DEF SaveThenAppend, Goto
<1>8. Sound(local'[p], session', ledger')
  BY <1>3, <1>7 DEF Sound, IdleLocal, HasView, Dispatching, IInv, TypeOK
<1> QED BY <1>2, <1>3, <1>4, <1>5, <1>6, <1>7, <1>8, Assemble DEF SaveThenAppend, IInv, TypeOK

\* A mission is not the missing mission.
LEMMA MissionNotNone == ASSUME NEW m \in Mission PROVE m # None
BY NoneAssumption

\* What a step keeps in memory may be written over the session it has read.
LEMMA SensedExtends ==
  ASSUME IInv, NEW w \in BOOLEAN
  PROVE  LET view == [Sensed(session) EXCEPT !.waiting = w] IN
         /\ Extends(view, session, ledger)
         /\ view.rev = session.rev /\ view.step = session.step
<1> DEFINE view == [Sensed(session) EXCEPT !.waiting = w]
<1>1. /\ view.pending = session.pending /\ view.missions = session.missions
      /\ view.leases \subseteq session.leases /\ view.step = session.step
      /\ view.state = session.state /\ view.rev = session.rev
  BY DEF Sensed, IInv, TypeOK, Session
<1> HIDE DEF view
<1>2. Extends(view, session, ledger)
  BY <1>1 DEF Extends, IInv, TypeOK, Session, SessionSound, DistinctMissions, BackedLeases,
     StepCovers, Terminal
<1> QED BY <1>1, <1>2 DEF view

\* What resume saves: the missions are kept, nothing is live.
LEMMA ReconcileSound ==
  ASSUME IInv
  PROVE  LET next == Reclaimed(ReconcileSession(session)) IN
         /\ next \in Session
         /\ next.rev = session.rev /\ next.missions = session.missions
         /\ DistinctMissions(next) /\ BackedLeases(next) /\ StepCovers(next, ledger)
         /\ \A l \in next.leases : l.state = "revoked"
<1> DEFINE next == Reclaimed(ReconcileSession(session))
           ids == Ids(session.leases) \cup {ledger[i].id : i \in DOMAIN ledger}
           step == IF checkpoint = None THEN session.step
                   ELSE AtLeast(session.step, StepOf(checkpoint.id))
<1>1. next \in Session
  BY ReconcileType
<1>2. /\ next.rev = session.rev /\ next.missions = session.missions
      /\ next.pending = session.pending \cup Orphans(session)
      /\ next.step = step
      /\ \A l \in next.leases :
            l.state = "revoked" /\ \E id \in ids : l \in ReplayedLease(session, id)
  <2> DEFINE leases == {l \in UNION {ReplayedLease(session, id) : id \in ids} :
                          l.state = "revoked"}
             pending == session.pending \cup Orphans(session)
  <2>1. next = [session EXCEPT !.pending = pending, !.step = step, !.leases = leases]
    BY ReconcileType
  <2>2. \A l \in leases :
          l.state = "revoked" /\ \E id \in ids : l \in ReplayedLease(session, id)
    OBVIOUS
  <2> HIDE DEF leases, pending, step, ids, next
  <2>3. /\ next.rev = session.rev /\ next.missions = session.missions
        /\ next.pending = pending /\ next.step = step /\ next.leases = leases
    BY <2>1 DEF IInv, TypeOK, Session
  <2> QED BY <2>2, <2>3 DEF pending
<1>3. /\ step >= session.step /\ step \in Nat /\ session.step \in Nat
      /\ checkpoint # None => StepOf(checkpoint.id) <= step
  BY IdParts DEF IInv, TypeOK, Mission, Session, AtLeast
<1> HIDE DEF next, ids, step
<1>4. DistinctMissions(next)
  <2>1. \A m \in session.pending \cup session.missions : m.id \in Known(session)
    BY DEF Known, Ids
  <2>2. \A m \in Orphans(session) : m.id \notin Known(session)
    BY OrphansSound
  <2>3. \A m, n \in Orphans(session) : m.id = n.id => m = n
    BY OrphansSound
  <2> QED BY <1>2, <2>1, <2>2, <2>3 DEF IInv, SessionSound, DistinctMissions
<1>5. BackedLeases(next)
  BY <1>2, ReplayedLeaseType, ReplayedLeaseUnique DEF BackedLeases
<1>6. StepCovers(next, ledger)
  <2>1. \A m \in session.pending \cup session.missions : StepOf(m.id) \in Nat
    BY IdParts DEF IInv, TypeOK, Session, Mission
  <2> QED BY <1>2, <1>3, <2>1, OrphansSound DEF IInv, SessionSound, StepCovers
<1> QED BY <1>1, <1>2, <1>4, <1>5, <1>6 DEF next

\* Every command, crash, commit and tick keeps the invariant: one step per action.
LEMMA InvStep == IInv /\ [Next]_vars => IInv'
<1> SUFFICES ASSUME IInv, [Next]_vars PROVE IInv'
  OBVIOUS
<1>t. TypeOK' /\ TypeOK
  BY TypeStep DEF IInv
<1>s. \A p \in Procs : Sound(local[p], session, ledger) /\ local[p] \in Local
  BY <1>t DEF IInv, TypeOK
<1> USE <1>t DEF files, world
<1>0. CASE UNCHANGED vars
  BY <1>0 DEF vars, IInv, OneLive, Live
<1>1. ASSUME NEW p \in Procs, Start(p) PROVE IInv'
  <2>1. session = NoSession
    BY <1>1 DEF Start, IInv, SessionSound
  <2>2. session' = [NoSession EXCEPT !.rev = 1]
    BY <1>1, <2>1 DEF Start, SaveSessionCAS, NoSession
  <2>3. /\ session'.pending = {} /\ session'.missions = {} /\ session'.leases = {}
        /\ session'.rev > session.rev /\ session.missions = {}
    BY <2>1, <2>2 DEF NoSession
  <2>4. DistinctMissions(session') /\ BackedLeases(session') /\ StepCovers(session', ledger')
    BY <2>3 DEF DistinctMissions, BackedLeases, StepCovers
  <2>5. OneLive' /\ LedgerSound(ledger', session')
    BY <1>1, <2>3, LedgerKept DEF Start, OneLive, IInv
  <2>6. Sound(local'[p], session', ledger')
    BY <1>s, <1>1, <2>3, SoundKept DEF Start, TypeOK
  <2> QED BY <1>1, <2>3, <2>4, <2>5, <2>6, Assemble DEF Start
<1>2. ASSUME NEW p \in Procs, StepDispatch(p) PROVE IInv'
  <2>1. PICK t \in Tasks :
          Goto(p, [IdleLocal EXCEPT !.pc = "checkpoint",
                     !.view = [Sensed(session) EXCEPT !.waiting = FALSE],
                     !.mission = [id |-> <<session.step + 1, t>>, attempt |-> 1,
                                  head |-> head, expires |-> now + MissionTTL]])
    BY <1>2 DEF StepDispatch, FrontierExcluding
  <2> DEFINE view == [Sensed(session) EXCEPT !.waiting = FALSE]
             mission == [id |-> <<session.step + 1, t>>, attempt |-> 1,
                         head |-> head, expires |-> now + MissionTTL]
  <2>2. Extends(view, session, ledger) /\ view.rev = session.rev /\ view.step = session.step
    BY SensedExtends
  <2>3. mission # None /\ StepOf(mission.id) = session.step + 1
    <3>1. session.step + 1 \in Nat /\ MissionTTL \in Nat /\ now \in Nat /\ head \in Nat
      BY LimitAssumption DEF TypeOK, Session
    <3>2. mission \in Mission
      BY <3>1, IdType DEF Mission
    <3>3. StepOf(mission.id) = session.step + 1
      BY <3>1, IdType
    <3> QED BY <3>2, <3>3, MissionNotNone
  <2> HIDE DEF view, mission
  <2>4. local'[p] = [IdleLocal EXCEPT !.pc = "checkpoint", !.view = view, !.mission = mission]
    BY <2>1 DEF view, mission, Goto, TypeOK
  <2>5. Sound(local'[p], session, ledger)
    BY <2>2, <2>3, <2>4 DEF IdleLocal, Sound, HasView, Dispatching, TypeOK, Session
  <2> QED BY <1>2, <2>1, <2>5, Quiet DEF StepDispatch, Goto, TypeOK
<1>3. ASSUME NEW p \in Procs, StepWait(p) PROVE IInv'
  <2>1. PICK w \in BOOLEAN :
          Goto(p, [IdleLocal EXCEPT !.pc = "save",
                     !.view = [Sensed(session) EXCEPT !.waiting = w]])
    BY <1>3 DEF StepWait
  <2> DEFINE view == [Sensed(session) EXCEPT !.waiting = w]
  <2>2. Extends(view, session, ledger) /\ view.rev = session.rev
    BY SensedExtends
  <2> HIDE DEF view
  <2>3. local'[p] = [IdleLocal EXCEPT !.pc = "save", !.view = view]
    BY <2>1 DEF view, Goto, TypeOK
  <2>4. Sound(local'[p], session, ledger)
    BY <2>2, <2>3 DEF IdleLocal, Sound, HasView, Dispatching, TypeOK, Session
  <2> QED BY <1>3, <2>1, <2>4, Quiet DEF StepWait, Goto, TypeOK
<1>4. ASSUME NEW p \in Procs, NEW m \in session.pending, Claim(p, m) PROVE IInv'
  <2> DEFINE lease == ClaimLease(m)
             next == [session EXCEPT !.pending = @ \ {m}, !.missions = @ \cup {m},
                                     !.leases = @ \cup {lease}]
             event == [kind |-> "claim", id |-> m.id, lease |-> lease]
  <2>1. m \in Mission /\ lease \in Lease /\ lease.id = m.id
    BY ClaimLeaseType DEF TypeOK, Session, ClaimLease
  <2> HIDE DEF lease
  <2>2. next \in Session /\ event \in LeaseEvent
    BY <2>1 DEF TypeOK, Session, LeaseEvent, Mission
  <2>3. /\ next.rev = session.rev /\ next.step = session.step
        /\ next.pending = session.pending \ {m}
        /\ next.missions = session.missions \cup {m}
        /\ next.leases = session.leases \cup {lease}
    BY DEF TypeOK, Session
  <2>4. event.id = m.id /\ event.lease.id = m.id
    BY <2>1
  <2>5. SaveThenAppend(p, next, event)
    BY <1>4 DEF Claim, lease
  <2> HIDE DEF next, event
  <2>6. m.id \notin Ids(session.missions)
    BY DEF IInv, SessionSound, DistinctMissions, Ids
  <2>7. \A l \in session.leases : l.id \in Ids(session.missions) /\ l.id # m.id
    BY <2>6 DEF IInv, SessionSound, BackedLeases
  <2>8. DistinctMissions(next) /\ StepCovers(next, ledger)
    BY <2>3 DEF IInv, SessionSound, DistinctMissions, StepCovers
  <2>9. BackedLeases(next)
    BY <2>1, <2>3, <2>7 DEF IInv, SessionSound, BackedLeases, Ids
  <2>10. \A l \in session.leases : ~Live(l)
    BY <1>4, <2>7 DEF Claim, CheckParallelConflict
  <2>11. \A k, l \in next.leases : Live(k) /\ Live(l) => k = l
    BY <2>3, <2>10
  <2>12. event.id \in Ids(next.missions)
    BY <2>3, <2>4 DEF Ids
  <2> QED BY <2>2, <2>3, <2>4, <2>5, <2>8, <2>9, <2>11, <2>12, SaveThenAppendStep
<1>5. ASSUME NEW p \in Procs, NEW l \in session.leases, Heartbeat(p, l) PROVE IInv'
  <2> DEFINE new == RenewLease(l)
             next == [session EXCEPT !.leases = (@ \ {l}) \cup {new}]
             event == [kind |-> "heartbeat", id |-> l.id, lease |-> new]
  <2>1. l \in Lease /\ new \in Lease /\ new.id = l.id
    BY RenewLeaseType DEF TypeOK, Session, RenewLease, Lease
  <2> HIDE DEF new
  <2>2. next \in Session /\ event \in LeaseEvent
    BY <2>1 DEF TypeOK, Session, LeaseEvent, Lease
  <2>3. /\ next.rev = session.rev /\ next.step = session.step
        /\ next.pending = session.pending /\ next.missions = session.missions
        /\ next.leases = (session.leases \ {l}) \cup {new}
    BY DEF TypeOK, Session
  <2>4. event.id = l.id /\ event.lease.id = l.id
    BY <2>1
  <2>5. SaveThenAppend(p, next, event)
    BY <1>5 DEF Heartbeat, new
  <2> HIDE DEF next, event
  <2>6. l.id \in Ids(session.missions)
    BY DEF IInv, SessionSound, BackedLeases
  <2>7. DistinctMissions(next) /\ StepCovers(next, ledger) /\ BackedLeases(next)
    BY <2>1, <2>3, <2>6 DEF IInv, SessionSound, DistinctMissions, StepCovers, BackedLeases
  <2>8. \A k \in session.leases \ {l} : ~Live(k)
    BY <1>5 DEF Heartbeat, IInv, OneLive
  <2>9. \A j, k \in next.leases : Live(j) /\ Live(k) => j = k
    BY <2>3, <2>8
  <2> QED BY <2>2, <2>3, <2>4, <2>5, <2>6, <2>7, <2>9, SaveThenAppendStep
<1>6. ASSUME NEW p \in Procs, NEW l \in session.leases, ReportCheck(p, l) PROVE IInv'
  <2>1. PICK m \in session.missions :
          Goto(p, [IdleLocal EXCEPT !.pc = "complete", !.mission = m])
    BY <1>6 DEF ReportCheck
  <2>2. Sound(local'[p], session, ledger)
    BY <2>1 DEF TypeOK, Goto, IdleLocal, Sound, HasView, Dispatching
  <2> QED BY <1>6, <2>1, <2>2, Quiet DEF ReportCheck, Goto, TypeOK
<1>7. ASSUME NEW p \in Procs, NEW l \in session.leases, Release(p, l) PROVE IInv'
  <2> DEFINE next == [session EXCEPT !.leases = @ \ {l}]
             gone == Revoked(l, "released by controller")
             event == [kind |-> "cancel", id |-> l.id, lease |-> gone]
  <2>1. l \in Lease /\ gone \in Lease /\ gone.id = l.id
    BY DEF TypeOK, Session, Lease, Revoked, Reason
  <2>2. next \in Session /\ event \in LeaseEvent
    BY <2>1 DEF TypeOK, Session, LeaseEvent, Lease
  <2>3. DistinctMissions(next) /\ BackedLeases(next) /\ StepCovers(next, ledger)
    BY DEF IInv, SessionSound, DistinctMissions, BackedLeases, StepCovers, Session
  <2>4. next.rev = session.rev /\ next.missions = session.missions /\ next.leases \subseteq session.leases
    BY DEF Session
  <2>5. l.id \in Ids(next.missions)
    BY <2>4 DEF IInv, SessionSound, BackedLeases
  <2>6. event.id = l.id /\ event.lease.id = l.id
    BY <2>1
  <2>7. SaveThenAppend(p, next, event)
    BY <1>7 DEF Release
  <2> HIDE DEF next, event
  <2> QED BY <2>2, <2>3, <2>4, <2>5, <2>6, <2>7, SaveThenAppendStep DEF IInv, OneLive
<1>8. ASSUME NEW p \in Procs, CancelBegin(p) PROVE IInv'
  <2>1. PICK pc \in {"save", "cancel"} :
          Goto(p, [IdleLocal EXCEPT !.pc = pc,
                     !.view = [session EXCEPT !.state = "cancelled"],
                     !.todo = session.leases])
    BY <1>8 DEF CancelBegin
  <2> DEFINE view == [session EXCEPT !.state = "cancelled"]
  <2>2. Extends(view, session, ledger) /\ view.rev = session.rev /\ view.leases = session.leases
    <3>1. /\ view.pending = session.pending /\ view.missions = session.missions
          /\ view.leases = session.leases /\ view.step = session.step
          /\ view.state = "cancelled" /\ view.rev = session.rev
      BY DEF Session
    <3> HIDE DEF view
    <3> QED BY <3>1 DEF Extends, IInv, TypeOK, Session, SessionSound, DistinctMissions,
                        BackedLeases, StepCovers, Terminal
  <2>3. \A k \in session.leases : k.id \in Ids(session.missions)
    BY DEF IInv, SessionSound, BackedLeases
  <2> HIDE DEF view
  <2>4. local'[p] = [IdleLocal EXCEPT !.pc = pc, !.view = view, !.todo = session.leases]
    BY <2>1 DEF view, Goto, TypeOK
  <2>5. Sound(local'[p], session, ledger)
    <3>1. /\ local'[p].pc = pc /\ local'[p].view = view /\ local'[p].todo = session.leases
          /\ session.rev \in Nat
      BY <2>4 DEF IdleLocal, TypeOK, Session
    <3> QED BY <2>2, <2>3, <3>1 DEF Sound, HasView, Dispatching
  <2>6. session' = session /\ ledger' = ledger /\ now' = now
    BY <1>8 DEF CancelBegin
  <2>7. \A q \in Procs \ {p} : local'[q] = local[q]
    BY <2>1 DEF Goto, TypeOK
  <2> QED BY <2>5, <2>6, <2>7, Quiet DEF TypeOK
<1>9. ASSUME NEW p \in Procs, ResumeReissue(p) PROVE IInv'
  <2>1. PICK l \in Stale, m \in session.missions :
          Goto(p, [IdleLocal EXCEPT
                 !.pc = "ledgerRead", !.path = "reissue",
                 !.mission = [id |-> <<session.step + 1, TaskOf(m.id)>>,
                              attempt |-> m.attempt + 1, head |-> head,
                              expires |-> now + MissionTTL],
                 !.view = [session EXCEPT
                     !.leases = (@ \ {l}) \cup {Revoked(l, "stale baseline")}]])
    BY <1>9 DEF ResumeReissue
  <2> DEFINE mission == [id |-> <<session.step + 1, TaskOf(m.id)>>,
                         attempt |-> m.attempt + 1, head |-> head,
                         expires |-> now + MissionTTL]
             gone == Revoked(l, "stale baseline")
             view == [session EXCEPT !.leases = (@ \ {l}) \cup {gone}]
  <2>2. m \in Mission /\ l \in Lease /\ l \in session.leases
    BY DEF TypeOK, Session, Stale
  <2>3. mission # None /\ StepOf(mission.id) = session.step + 1
    <3>1. /\ session.step + 1 \in Nat /\ MissionTTL \in Nat /\ now \in Nat /\ head \in Nat
          /\ TaskOf(m.id) \in Tasks /\ m.attempt + 1 \in Nat
      BY <2>2, LimitAssumption, IdParts DEF TypeOK, Session, Mission
    <3>2. mission \in Mission
      BY <3>1, IdType DEF Mission
    <3>3. StepOf(mission.id) = session.step + 1
      BY <3>1, IdType
    <3> QED BY <3>2, <3>3, MissionNotNone
  <2>4. gone.id = l.id /\ gone.state = "revoked"
    BY <2>2 DEF Revoked, Lease
  <2> HIDE DEF gone
  <2>5. /\ view.pending = session.pending /\ view.missions = session.missions
        /\ view.leases = (session.leases \ {l}) \cup {gone} /\ view.step = session.step
        /\ view.state = session.state /\ view.rev = session.rev
    BY DEF TypeOK, Session
  <2> HIDE DEF view, mission
  <2>6. Extends(view, session, ledger)
    <3>1. BackedLeases(view)
      BY <2>2, <2>4, <2>5 DEF IInv, SessionSound, BackedLeases
    <3> QED BY <2>4, <2>5, <3>1 DEF Extends, IInv, TypeOK, Session, SessionSound,
              DistinctMissions, StepCovers, Terminal
  <2>7. local'[p] = [IdleLocal EXCEPT !.pc = "ledgerRead", !.path = "reissue",
                                      !.mission = mission, !.view = view]
    BY <2>1 DEF view, mission, gone, Goto, TypeOK
  <2>8. Sound(local'[p], session, ledger)
    <3>1. /\ local'[p].pc = "ledgerRead" /\ local'[p].view = view
          /\ local'[p].mission = mission /\ local'[p].todo = {}
          /\ session.rev \in Nat
      BY <2>7 DEF IdleLocal, TypeOK, Session
    <3> QED BY <2>3, <2>5, <2>6, <3>1 DEF Sound, HasView, Dispatching
  <2> QED BY <1>9, <2>1, <2>8, Quiet DEF ResumeReissue, Goto, TypeOK
<1>10. ASSUME NEW p \in Procs, ResumeReconcile(p) PROVE IInv'
  <2> DEFINE next == Reclaimed(ReconcileSession(session))
  <2>1. /\ next \in Session /\ next.rev = session.rev /\ next.missions = session.missions
        /\ DistinctMissions(next) /\ BackedLeases(next) /\ StepCovers(next, ledger)
        /\ \A l \in next.leases : l.state = "revoked"
    BY ReconcileSound
  <2>2. SaveSessionCAS(next) /\ ledger' = ledger
    BY <1>10 DEF ResumeReconcile
  <2> HIDE DEF next
  <2>3. /\ session'.rev > session.rev
        /\ session'.pending = next.pending /\ session'.missions = next.missions
        /\ session'.leases = next.leases /\ session'.step = next.step
    BY <2>1, <2>2 DEF SaveSessionCAS, TypeOK, Session
  <2>4. DistinctMissions(session') /\ BackedLeases(session') /\ StepCovers(session', ledger')
    BY <2>1, <2>2, <2>3 DEF DistinctMissions, BackedLeases, StepCovers
  <2>5. OneLive'
    BY <2>1, <2>3 DEF OneLive, Live
  <2>6. LedgerSound(ledger', session') /\ session.missions \subseteq session'.missions
    BY <2>1, <2>2, <2>3, LedgerKept DEF IInv
  <2>7. Sound(local'[p], session', ledger')
    <3>1. CASE Crashed
      <4>1. local'[p] = [IdleLocal EXCEPT !.pc = "ledgerRead", !.path = "resume",
                                          !.mission = checkpoint]
        BY <1>10, <3>1 DEF ResumeReconcile, Goto, TypeOK
      <4> QED BY <3>1, <4>1 DEF Crashed, IdleLocal, Sound, HasView, Dispatching
    <3>2. CASE ~Crashed
      <4>1. local' = local
        BY <1>10, <3>2 DEF ResumeReconcile
      <4> QED BY <1>s, <2>1, <2>2, <2>3, <4>1, SoundKept DEF TypeOK
    <3> QED BY <3>1, <3>2
  <2>8. \A q \in Procs \ {p} : local'[q] = local[q]
    BY <1>10 DEF ResumeReconcile, Goto, TypeOK
  <2> QED BY <2>2, <2>3, <2>4, <2>5, <2>6, <2>7, <2>8, Assemble
<1>11. ASSUME NEW p \in Procs, SaveCheckpoint(p) PROVE IInv'
  <2>1. local'[p] = [local[p] EXCEPT !.pc = "ledgerRead"] /\ local[p].pc = "checkpoint"
    BY <1>11 DEF SaveCheckpoint, TypeOK
  <2>2. Sound(local'[p], session, ledger)
    BY <1>s, <2>1 DEF Sound, HasView, Dispatching, Local
  <2> QED BY <1>11, <2>2, Quiet DEF SaveCheckpoint, TypeOK
<1>12. ASSUME NEW p \in Procs, ReadLedger(p) PROVE IInv'
  <2>1. CASE Readable /\ ~HasEvent(local[p].mission.id)
    <3>1. local'[p] = [local[p] EXCEPT !.pc = "ledgerAppend"] /\ local[p].pc = "ledgerRead"
      BY <1>12, <2>1 DEF ReadLedger, TypeOK
    <3>2. ASSUME local[p].path # "resume", local[p].view.rev = session.rev
          PROVE  local[p].mission.id \notin Known(local[p].view)
      <4>1. /\ StepCovers(local[p].view, ledger)
            /\ StepOf(local[p].mission.id) = local[p].view.step + 1
        BY <1>s, <3>1, <3>2 DEF Sound, HasView, Dispatching, Extends
      <4>2. local[p].view.step \in Nat
        BY <1>s DEF Local, Session
      <4> QED BY <2>1, <4>1, <4>2 DEF StepCovers, HasEvent, Known, Ids
    <3>3. Sound(local'[p], session, ledger)
      BY <1>s, <3>1, <3>2 DEF Sound, HasView, Dispatching, Local
    <3> QED BY <1>12, <2>1, <3>3, Quiet DEF ReadLedger, TypeOK
  <2>2. CASE ~(Readable /\ ~HasEvent(local[p].mission.id))
    <3>1. Sound(local'[p], session, ledger)
      BY <1>12, <2>2, IdleSound DEF ReadLedger, Finish, Goto, TypeOK
    <3> QED BY <1>12, <2>2, <3>1, Quiet DEF ReadLedger, Finish, Goto, TypeOK
  <2> QED BY <2>1, <2>2
<1>13. ASSUME NEW p \in Procs, AppendDispatch(p) PROVE IInv'
  <2> DEFINE m == local[p].mission
             event == [kind |-> "dispatch", id |-> m.id, mission |-> m]
             v == local[p].view
  <2>1. m \in Mission /\ v \in Session /\ local[p].pc = "ledgerAppend"
    BY <1>s, <1>13 DEF AppendDispatch, Local, Sound, Dispatching
  <2>2. event \in DispatchEvent /\ event \in ACPEvent
    BY <2>1 DEF ACPEvent, DispatchEvent, Mission
  <2>3. AppendACP(event)
    BY <1>13 DEF AppendDispatch
  <2>4. /\ LedgerSound(ledger', session)
        /\ \A id : Logged(ledger, id) => Logged(ledger', id)
    <3> HIDE DEF event
    <3>1. event.id = m.id /\ event.mission = m
      BY DEF event
    <3> QED BY <2>2, <2>3, <3>1, LedgerAppended DEF IInv, TypeOK
  <2>5. OneLive'
    BY <1>13 DEF AppendDispatch, IInv, OneLive, Live
  <2>6. Sound(local'[p], session, ledger')
    <3>1. CASE local[p].path = "resume"
      BY <1>13, <3>1, IdleSound DEF AppendDispatch, Finish, Goto, TypeOK
    <3>2. CASE local[p].path # "resume"
      <4> DEFINE w == [v EXCEPT !.step = StepOf(m.id), !.pending = @ \cup {m}]
      <4>1. /\ local'[p].pc = "save" /\ local'[p].view = w
            /\ local'[p].todo = local[p].todo
        <5>1. local' = [local EXCEPT ![p].pc = "save", ![p].view.step = StepOf(m.id),
                                     ![p].view.pending = @ \cup {m}]
          BY <1>13, <3>2 DEF AppendDispatch
        <5>2. local \in [Procs -> Local]
          BY <1>s DEF TypeOK
        <5>3. local'[p] = [local[p] EXCEPT !.pc = "save", !.view.step = StepOf(m.id),
                                           !.view.pending = @ \cup {m}]
          BY <5>1, <5>2
        <5>4. local[p] = [local[p] EXCEPT !.view = v] /\ local[p] \in Local
          BY <5>2 DEF Local
        <5> QED BY <5>3, <5>4 DEF Local
      <4>2. /\ w.rev = v.rev /\ w.step = StepOf(m.id) /\ w.pending = v.pending \cup {m}
            /\ w.missions = v.missions /\ w.leases = v.leases /\ w.state = v.state
        BY <2>1 DEF Session
      <4> HIDE DEF w
      <4>3. v.rev <= session.rev /\ StepOf(m.id) = v.step + 1
        BY <1>s, <2>1, <3>2 DEF Sound, HasView, Dispatching
      <4>4. ASSUME v.rev = session.rev PROVE Extends(w, session, ledger')
        <5>1. Extends(v, session, ledger) /\ m.id \notin Known(v)
          BY <1>s, <2>1, <3>2, <4>4 DEF Sound, HasView, Dispatching
        <5>2. v.step \in Nat /\ session.step \in Nat
          BY <2>1 DEF Session, TypeOK
        <5>3. DistinctMissions(w)
          BY <4>2, <5>1 DEF Extends, DistinctMissions, Known, Ids
        <5>4. BackedLeases(w)
          BY <4>2, <5>1 DEF Extends, BackedLeases
        <5>5. StepCovers(w, ledger')
          <6>1. \A n \in v.pending \cup v.missions :
                  Logged(ledger', n.id) \/ StepOf(n.id) <= w.step
            <7> TAKE n \in v.pending \cup v.missions
            <7>1. StepOf(n.id) \in Nat
              BY <2>1, IdParts DEF Session, Mission
            <7> QED BY <2>4, <4>2, <4>3, <5>1, <5>2, <7>1 DEF Extends, StepCovers
          <6>2. StepOf(m.id) <= w.step
            BY <2>1, <4>2, IdParts DEF Mission
          <6> QED BY <4>2, <6>1, <6>2 DEF StepCovers
        <5> QED BY <4>2, <4>3, <5>1, <5>2, <5>3, <5>4, <5>5 DEF Extends, Terminal
      <4> QED BY <1>s, <4>1, <4>2, <4>3, <4>4 DEF Sound, HasView, Dispatching
    <3> QED BY <3>1, <3>2
  <2> QED BY <1>13, <2>4, <2>5, <2>6, Assemble DEF AppendDispatch, Finish, Goto, TypeOK
<1>14. ASSUME NEW p \in Procs, SaveSession(p) PROVE IInv'
  <2> DEFINE v == local[p].view
  <2>1. v \in Session /\ local[p].pc = "save" /\ SaveSessionCAS(v)
    BY <1>s, <1>14 DEF SaveSession, Local
  <2>2. local' = [local EXCEPT ![p] = IdleLocal]
    BY <1>14 DEF SaveSession, Finish, Goto
  <2>3. Sound(local'[p], session', ledger')
    BY <2>2, IdleSound DEF TypeOK
  <2>4. CASE session.rev # v.rev
    <3>1. session' = session
      BY <2>1, <2>4 DEF SaveSessionCAS
    <3> QED BY <1>14, <2>2, <2>3, <3>1, Quiet DEF SaveSession, TypeOK
  <2>5. CASE session.rev = v.rev
    <3>1. session' = [v EXCEPT !.rev = v.rev + 1]
      BY <2>1, <2>5 DEF SaveSessionCAS
    <3>2. /\ session'.rev > session.rev
          /\ session'.pending = v.pending /\ session'.missions = v.missions
          /\ session'.leases = v.leases /\ session'.step = v.step
      BY <2>1, <2>5, <3>1 DEF Session
    <3>3. Extends(v, session, ledger)
      BY <1>s, <2>1, <2>5 DEF Sound, HasView
    <3>4. DistinctMissions(session') /\ BackedLeases(session') /\ StepCovers(session', ledger')
      BY <1>14, <3>2, <3>3 DEF SaveSession, Extends, DistinctMissions, BackedLeases, StepCovers
    <3>5. OneLive'
      BY <1>14, <3>2, <3>3 DEF SaveSession, Extends, IInv, OneLive, Live
    <3>6. LedgerSound(ledger', session') /\ session.missions \subseteq session'.missions
      BY <1>14, <3>2, <3>3 DEF SaveSession, Extends, IInv, LedgerSound, Ids
    <3> QED BY <1>14, <2>2, <2>3, <3>2, <3>4, <3>5, <3>6, Assemble DEF SaveSession, TypeOK
  <2> QED BY <2>4, <2>5
<1>15. ASSUME NEW p \in Procs, AppendEvent(p) PROVE IInv'
  <2>1. local[p].event \in LeaseEvent \cup ReportEvent
    BY <1>s, <1>15 DEF AppendEvent, Sound
  <2>2. /\ LedgerSound(ledger', session)
        /\ \A id : Logged(ledger, id) => Logged(ledger', id)
    BY <1>s, <1>15, <2>1, LedgerAppended
       DEF AppendEvent, Sound, IInv, TypeOK, ACPEvent
  <2>3. local' = [local EXCEPT ![p] = IdleLocal]
    BY <1>15 DEF AppendEvent, Finish, Goto
  <2>4. Sound(local'[p], session', ledger')
    BY <2>3, IdleSound DEF TypeOK
  <2>5. OneLive'
    BY <1>15 DEF AppendEvent, IInv, OneLive, Live
  <2> QED BY <1>15, <2>2, <2>3, <2>4, <2>5, Assemble DEF AppendEvent, TypeOK
<1>16. ASSUME NEW p \in Procs, ReportComplete(p) PROVE IInv'
  <2>1. local'[p] = [local[p] EXCEPT !.pc = "report"] /\ local[p].pc = "complete"
    BY <1>16 DEF ReportComplete, TypeOK
  <2>2. Sound(local'[p], session, ledger)
    BY <1>s, <2>1 DEF Sound, HasView, Dispatching, Local
  <2> QED BY <1>16, <2>2, Quiet DEF ReportComplete, TypeOK
<1>17. ASSUME NEW p \in Procs, ReportRefused(p) PROVE IInv'
  <2>1. Sound(local'[p], session, ledger)
    BY <1>17, IdleSound DEF ReportRefused, Finish, Goto, TypeOK
  <2> QED BY <1>17, <2>1, Quiet DEF ReportRefused, Finish, Goto, TypeOK
<1>18. ASSUME NEW p \in Procs, ReportRelease(p) PROVE IInv'
  <2> DEFINE id == local[p].mission.id
             next == [session EXCEPT !.leases = {l \in @ : l.id # id}]
             event == [kind |-> "report", id |-> id]
  <2>1. local[p].mission \in session.missions
    BY <1>s, <1>18 DEF ReportRelease, Sound
  <2>2. id \in Id /\ id \in Ids(session.missions)
    BY <2>1 DEF TypeOK, Session, Mission, Ids
  <2>3. next \in Session /\ event \in ReportEvent
    BY <2>2 DEF TypeOK, Session, ReportEvent
  <2>4. /\ next.rev = session.rev /\ next.step = session.step
        /\ next.pending = session.pending /\ next.missions = session.missions
        /\ next.leases \subseteq session.leases
    BY DEF TypeOK, Session
  <2>5. SaveThenAppend(p, next, event)
    BY <1>18 DEF ReportRelease
  <2>6. event.id = id /\ event \notin LeaseEvent
    BY DEF LeaseEvent
  <2> HIDE DEF next, event
  <2>7. DistinctMissions(next) /\ StepCovers(next, ledger) /\ BackedLeases(next)
    BY <2>4 DEF IInv, SessionSound, DistinctMissions, StepCovers, BackedLeases
  <2> QED BY <2>2, <2>3, <2>4, <2>5, <2>6, <2>7, SaveThenAppendStep DEF IInv, OneLive
<1>19. ASSUME NEW p \in Procs, CancelLease(p) PROVE IInv'
  <2>1. PICK l \in local[p].todo :
          CancelActive(p, l) \/ CancelAgain(p, l) \/ CancelConflict(p, l)
    BY <1>19 DEF CancelLease
  <2> DEFINE v == local[p].view
             gone == Revoked(l, "operator")
  <2>2. local[p].pc = "cancel" /\ l \in Lease /\ v \in Session /\ local[p] \in Local
    BY <1>s, <1>19 DEF CancelLease, Local
  <2>3. /\ AfterLease(p, l).pc \in {"save", "cancel"}
        /\ AfterLease(p, l).view = v
        /\ AfterLease(p, l).todo = local[p].todo \ {l}
    BY <2>2 DEF AfterLease, Local
  <2>4. l \in v.leases /\ l.id \in Ids(session.missions)
    BY <1>s, <2>2 DEF Sound
  <2>5. CASE CancelActive(p, l)
    <3>1. gone \in Lease /\ gone.id = l.id /\ gone.state = "revoked"
      BY <2>2 DEF Revoked, Lease, Reason
    <3> HIDE DEF gone
    <3> DEFINE event == [kind |-> "cancel", id |-> l.id, lease |-> gone]
               w == [v EXCEPT !.leases = (@ \ {l}) \cup {gone}]
    <3>2. event \in LeaseEvent /\ event \in ACPEvent /\ event.id = l.id /\ event.lease = gone
      BY <2>2, <3>1 DEF LeaseEvent, ACPEvent, Lease
    <3>3. AppendACP(event)
      BY <2>5 DEF CancelActive, gone
    <3> HIDE DEF event
    <3>4. /\ LedgerSound(ledger', session)
          /\ \A id : Logged(ledger, id) => Logged(ledger', id)
      BY <2>4, <3>1, <3>2, <3>3, LedgerAppended DEF IInv, TypeOK
    <3>5. /\ local'[p].pc \in {"save", "cancel"} /\ local'[p].view = w
          /\ local'[p].todo = local[p].todo \ {l}
      <4> DEFINE a == AfterLease(p, l)
      <4>1. local'[p] = [a EXCEPT !.view.leases = (@ \ {l}) \cup {gone}]
        BY <2>5 DEF CancelActive, gone, Goto, TypeOK
      <4>2. /\ DOMAIN a = {"pc", "path", "view", "mission", "event", "todo"}
            /\ a.view = v
        BY <2>2, <2>3 DEF AfterLease, Local
      <4> HIDE DEF a
      <4>3. a.pc \in {"save", "cancel"} /\ a.todo = local[p].todo \ {l}
        BY <2>3 DEF a
      <4> QED BY <2>2, <4>1, <4>2, <4>3 DEF Local
    <3>6. /\ w.rev = v.rev /\ w.step = v.step /\ w.pending = v.pending
          /\ w.missions = v.missions /\ w.state = v.state
          /\ w.leases = (v.leases \ {l}) \cup {gone}
      BY <2>2 DEF Session
    <3> HIDE DEF w
    <3>7. ASSUME v.rev = session.rev PROVE Extends(w, session, ledger')
      <4>1. Extends(v, session, ledger)
        BY <1>s, <2>2, <3>7 DEF Sound, HasView
      <4>2. BackedLeases(w)
        BY <2>4, <3>1, <3>6, <4>1 DEF Extends, BackedLeases
      <4> QED BY <3>1, <3>4, <3>6, <4>1, <4>2 DEF Extends, DistinctMissions, StepCovers, Terminal
    <3>8. Sound(local'[p], session, ledger')
      BY <1>s, <2>2, <3>5, <3>6, <3>7 DEF Sound, HasView, Dispatching
    <3>9. OneLive'
      BY <2>5 DEF CancelActive, IInv, OneLive, Live
    <3> QED BY <2>5, <3>4, <3>8, <3>9, Assemble DEF CancelActive, Goto, TypeOK
  <2>6. CASE CancelAgain(p, l)
    <3>1. Sound(local'[p], session, ledger)
      BY <1>s, <2>2, <2>3, <2>6 DEF CancelAgain, Goto, Sound, HasView, Dispatching
    <3> QED BY <2>6, <3>1, Quiet DEF CancelAgain, Goto, TypeOK
  <2>7. CASE CancelConflict(p, l)
    <3>1. Sound(local'[p], session, ledger)
      BY <2>7, IdleSound DEF CancelConflict, Finish, Goto, TypeOK
    <3> QED BY <2>7, <3>1, Quiet DEF CancelConflict, Finish, Goto, TypeOK
  <2> QED BY <2>1, <2>5, <2>6, <2>7
<1>20. ASSUME NEW p \in Procs, Crash(p) PROVE IInv'
  <2>1. Sound(local'[p], session, ledger)
    BY <1>20, IdleSound DEF Crash, Finish, Goto, TypeOK
  <2> QED BY <1>20, <2>1, Quiet DEF Crash, Finish, Goto, TypeOK
<1>21. ASSUME NEW p \in Procs, CrashTorn(p) PROVE IInv'
  <2>1. Sound(local'[p], session, ledger)
    BY <1>21, IdleSound DEF CrashTorn, Finish, Goto, TypeOK
  <2> QED BY <1>21, <2>1, Quiet DEF CrashTorn, Finish, Goto, TypeOK
<1>22. ASSUME NEW t \in Tasks, CompleteTask(t) PROVE IInv'
  BY <1>22 DEF CompleteTask, IInv, OneLive, Live
<1>23. CASE Tick
  <2>1. OneLive'
    BY <1>23 DEF Tick, IInv, OneLive, Live, TypeOK, Session, Lease
  <2> QED BY <1>23, <2>1 DEF Tick, IInv
<1>24. CASE MoveHead
  BY <1>24 DEF MoveHead, IInv, OneLive, Live
<1> QED
  BY <1>0, <1>1, <1>2, <1>3, <1>4, <1>5, <1>6, <1>7, <1>8, <1>9, <1>10, <1>11, <1>12,
     <1>13, <1>14, <1>15, <1>16, <1>17, <1>18, <1>19, <1>20, <1>21, <1>22, <1>23, <1>24
     DEF Next, Command, Continue

\* A repository without a session satisfies the invariant.
LEMMA InvInit == Init => IInv
<1> SUFFICES ASSUME Init PROVE IInv
  OBVIOUS
<1>1. TypeOK
  <2>1. ledger \in Seq(ACPEvent)
    BY DEF Init
  <2> QED BY <2>1, IdleType DEF Init, TypeOK
<1>2. OneLive /\ SessionSound(session, ledger)
  BY DEF Init, OneLive, SessionSound, DistinctMissions, BackedLeases, StepCovers, NoSession
<1>3. LedgerSound(ledger, session)
  BY DEF Init, LedgerSound
<1>4. \A p \in Procs : Sound(local[p], session, ledger)
  BY IdleSound DEF Init
<1> QED BY <1>1, <1>2, <1>3, <1>4 DEF IInv

\* The invariant of session, ledger and every invocation in flight.
THEOREM Safety == Spec => []IInv
<1> QED BY InvInit, InvStep, PTL DEF Spec

-----------------------------------------------------------------------------
(* What follows *)

\* session.json, the checkpoint, the ledger and every invocation stay well typed.
THEOREM TypeCorrect == Spec => []TypeOK
<1>1. IInv => TypeOK
  BY DEF IInv
<1> QED BY <1>1, Safety, PTL

\* Two live leases never coexist in the shared worktree, for any number of
\* invocations, tasks, crashes and time-outs.
THEOREM OneWriter == Spec => []OneLiveWriter
<1>1. IInv => OneLiveWriter
  BY DEF IInv, OneLive, OneLiveWriter
<1> QED BY <1>1, Safety, PTL

\* A mission id names one mission, pending or claimed.
THEOREM Distinct == Spec => []MissionsDistinct
<1>1. IInv => MissionsDistinct
  BY DEF IInv, SessionSound, DistinctMissions, MissionsDistinct
<1> QED BY <1>1, Safety, PTL

\* Every lease has its mission, and no mission two leases.
THEOREM Backed == Spec => []LeasesBacked
<1>1. IInv => LeasesBacked
  BY DEF IInv, SessionSound, BackedLeases, LeasesBacked, Ids
<1> QED BY <1>1, Safety, PTL

\* Every claim, heartbeat, report or cancel in the ledger is of a mission the
\* session has granted.
THEOREM ClaimsAreBacked == Spec => []ClaimsBacked
<1>1. IInv => ClaimsBacked
  BY DEF IInv, LedgerSound, DispatchEvent, ClaimsBacked
<1> QED BY <1>1, Safety, PTL

\* What a step may do to the written session.
SessionKept ==
    /\ Known(session) \subseteq Known(session')
    /\ session.missions \subseteq session'.missions
    /\ Terminal(session) => Terminal(session')

\* Every step keeps the missions and the end of the session.
LEMMA SessionStep == IInv /\ [Next]_vars => SessionKept
<1> SUFFICES ASSUME IInv, [Next]_vars PROVE SessionKept
  OBVIOUS
<1> USE DEF files
<1>t. session \in Session /\ session.rev \in Nat
  BY DEF IInv, TypeOK, Session
<1>1. ASSUME NEW next \in Session, SaveSessionCAS(next), next.rev = session.rev,
             Known(session) \subseteq Known(next),
             session.missions \subseteq next.missions,
             Terminal(session) => Terminal(next)
      PROVE  SessionKept
  <2>1. /\ session'.pending = next.pending /\ session'.missions = next.missions
        /\ session'.state = next.state
    BY <1>1 DEF SaveSessionCAS, Session
  <2> QED BY <1>1, <2>1 DEF Known, Terminal, SessionKept
<1>2. CASE session' = session
  BY <1>2 DEF SessionKept
<1>3. ASSUME NEW p \in Procs, Start(p) PROVE SessionKept
  <2>1. session = NoSession
    BY <1>3 DEF Start, IInv, SessionSound
  <2> QED BY <2>1 DEF NoSession, Known, Ids, Terminal, SessionKept
<1>4. ASSUME NEW p \in Procs, NEW m \in session.pending, Claim(p, m) PROVE SessionKept
  <2> DEFINE lease == ClaimLease(m)
             next == [session EXCEPT !.pending = @ \ {m}, !.missions = @ \cup {m},
                                     !.leases = @ \cup {lease}]
  <2>1. lease \in Lease /\ m \in Mission
    BY ClaimLeaseType DEF IInv, TypeOK, Session
  <2>2. SaveSessionCAS(next)
    BY <1>4 DEF Claim, SaveThenAppend
  <2> HIDE DEF lease
  <2>3. next \in Session /\ next.rev = session.rev /\ next.state = session.state
        /\ next.pending = session.pending \ {m}
        /\ next.missions = session.missions \cup {m}
    BY <1>t, <2>1 DEF Session
  <2> HIDE DEF next
  <2> QED BY <1>1, <2>2, <2>3 DEF Known, Ids, Terminal
<1>5. ASSUME NEW p \in Procs, NEW leases \in SUBSET Lease,
             SaveSessionCAS([session EXCEPT !.leases = leases])
      PROVE  SessionKept
  <2> DEFINE next == [session EXCEPT !.leases = leases]
  <2>1. /\ next \in Session /\ next.rev = session.rev /\ next.state = session.state
        /\ next.pending = session.pending /\ next.missions = session.missions
    BY <1>t DEF Session
  <2> HIDE DEF next
  <2>2. SaveSessionCAS(next)
    BY <1>5 DEF next
  <2> QED BY <1>1, <2>1, <2>2 DEF Known, Terminal
<1>6. ASSUME NEW p \in Procs, NEW l \in session.leases, Heartbeat(p, l) PROVE SessionKept
  <2>1. (session.leases \ {l}) \cup {RenewLease(l)} \in SUBSET Lease
    BY RenewLeaseType DEF IInv, TypeOK, Session
  <2> QED BY <1>5, <1>6, <2>1 DEF Heartbeat, SaveThenAppend
<1>7. ASSUME NEW p \in Procs, NEW l \in session.leases, Release(p, l) PROVE SessionKept
  <2>1. session.leases \ {l} \in SUBSET Lease
    BY <1>t DEF Session
  <2> QED BY <1>5, <1>7, <2>1 DEF Release, SaveThenAppend
<1>8. ASSUME NEW p \in Procs, ReportRelease(p) PROVE SessionKept
  <2>1. {l \in session.leases : l.id # local[p].mission.id} \in SUBSET Lease
    BY <1>t DEF Session
  <2> QED BY <1>5, <1>8, <2>1 DEF ReportRelease, SaveThenAppend
<1>9. ASSUME NEW p \in Procs, ResumeReconcile(p) PROVE SessionKept
  <2> DEFINE next == Reclaimed(ReconcileSession(session))
  <2>1. /\ next \in Session /\ next.rev = session.rev /\ next.missions = session.missions
        /\ session.pending \subseteq next.pending /\ next.state = session.state
    BY <1>t, ReconcileType, ReconcileSound, ZenonT(40) DEF Session
  <2>2. SaveSessionCAS(next)
    BY <1>9 DEF ResumeReconcile
  <2> HIDE DEF next
  <2> QED BY <1>1, <2>1, <2>2 DEF Known, Ids, Terminal
<1>10. ASSUME NEW p \in Procs, SaveSession(p) PROVE SessionKept
  <2> DEFINE v == local[p].view
  <2>1. v \in Session /\ local[p].pc = "save" /\ SaveSessionCAS(v)
    BY <1>10 DEF SaveSession, IInv, TypeOK, Local
  <2>2. CASE v.rev = session.rev
    <3>1. Extends(v, session, ledger)
      BY <2>1, <2>2 DEF IInv, Sound, HasView
    <3> QED BY <1>1, <2>1, <2>2, <3>1 DEF Extends, Known, Ids
  <2>3. CASE v.rev # session.rev
    BY <1>2, <2>1, <2>3 DEF SaveSessionCAS
  <2> QED BY <2>2, <2>3
<1>11. ASSUME NEW p \in Procs,
              \/ StepDispatch(p) \/ StepWait(p) \/ CancelBegin(p) \/ ResumeReissue(p)
              \/ \E l \in session.leases : ReportCheck(p, l)
       PROVE  SessionKept
  BY <1>2, <1>11 DEF StepDispatch, StepWait, CancelBegin, ResumeReissue, ReportCheck
<1>12. ASSUME NEW p \in Procs, Command(p) PROVE SessionKept
  BY <1>3, <1>4, <1>6, <1>7, <1>9, <1>11, <1>12 DEF Command
<1>13. ASSUME NEW p \in Procs, Continue(p) PROVE SessionKept
  <2>1. ASSUME SaveCheckpoint(p) \/ ReadLedger(p) \/ AppendDispatch(p) \/ AppendEvent(p)
               \/ ReportComplete(p) \/ ReportRefused(p) \/ CancelLease(p)
        PROVE  SessionKept
    BY <1>2, <2>1 DEF SaveCheckpoint, ReadLedger, AppendDispatch, AppendEvent, ReportComplete,
                ReportRefused, CancelLease, CancelActive, CancelAgain, CancelConflict
  <2> QED BY <1>8, <1>10, <1>13, <2>1 DEF Continue
<1>14. ASSUME NEW p \in Procs, Crash(p) \/ CrashTorn(p) PROVE SessionKept
  BY <1>2, <1>14 DEF Crash, CrashTorn
<1>15. ASSUME NEW t \in Tasks, CompleteTask(t) PROVE SessionKept
  BY <1>2, <1>15 DEF CompleteTask
<1>16. CASE Tick \/ MoveHead
  BY <1>2, <1>16 DEF Tick, MoveHead
<1>17. CASE UNCHANGED vars
  BY <1>2, <1>17 DEF vars
<1> QED BY <1>12, <1>13, <1>14, <1>15, <1>16, <1>17 DEF Next

\* No write of session.json forgets a mission or a claim.
THEOREM NeverForgotten == Spec => MissionsNeverForgotten
<1>1. IInv /\ [Next]_vars =>
        [/\ Known(session) \subseteq Known(session')
         /\ session.missions \subseteq session'.missions]_vars
  BY SessionStep DEF SessionKept
<1> QED BY <1>1, Safety, PTL DEF Spec, MissionsNeverForgotten

\* A cancelled session stays cancelled, under late writes too.
THEOREM CancelFinal == Spec => CancelIsFinal
<1>1. IInv /\ [Next]_vars => [Terminal(session) => Terminal(session')]_vars
  BY SessionStep DEF SessionKept
<1> QED BY <1>1, Safety, PTL DEF Spec, CancelIsFinal

-----------------------------------------------------------------------------
(* Live leases: what a second invariant says of them, and the steps that end one *)

\* A report in the ledger is of a complete task, a cancel carries a revoked lease.
Settled(e, d) ==
    /\ e.kind = "report" => TaskOf(e.id) \in d
    /\ e.kind = "cancel" => e.lease.state = "revoked"

\* A copy that may still be written over the session drops no lease of a task in
\* hand; a report is on its way only for a complete task.
Keeps(l, s, d) ==
    /\ HasView(l) /\ l.view.rev = s.rev =>
          \A k \in s.leases : k.id \in Ids(l.view.leases) \/ TaskOf(k.id) \in d
    /\ l.pc = "report" => TaskOf(l.mission.id) \in d
    /\ l.pc = "append" => Settled(l.event, d)

KInv == /\ \A p \in Procs : Keeps(local[p], session, done)
        /\ \A i \in DOMAIN ledger : Settled(ledger[i], done)

LEMMA IdleKeeps == ASSUME NEW s, NEW d PROVE Keeps(IdleLocal, s, d)
BY DEF Keeps, IdleLocal, HasView, Dispatching

\* Tasks stay complete and a written session has a new revision, so the others' copies
\* and reports stay what they were.
LEMMA KeepsKept ==
  ASSUME NEW l \in Local, NEW s \in Session, NEW t \in Session, NEW d, NEW e, d \subseteq e,
         HasView(l) => l.view.rev <= s.rev, t = s \/ t.rev > s.rev, Keeps(l, s, d)
  PROVE  Keeps(l, t, e)
<1>1. l.view.rev \in Nat /\ s.rev \in Nat /\ t.rev \in Nat
  BY DEF Local, Session
<1>2. HasView(l) /\ l.view.rev = t.rev => t = s
  BY <1>1
<1> QED BY <1>2 DEF Keeps, Settled

\* The invariant, from what a step does to the session, tasks.md, the ledger and one
\* invocation.
LEMMA KeepAssemble ==
  ASSUME IInv, KInv, TypeOK', NEW p \in Procs,
         \A q \in Procs \ {p} : local'[q] = local[q],
         session' = session \/ session'.rev > session.rev,
         done \subseteq done',
         local'[p] = local[p] \/ Keeps(local'[p], session', done'),
         \/ ledger' = ledger
         \/ \E e : AppendACP(e) /\ Settled(e, done)
  PROVE  KInv'
<1>1. /\ session \in Session /\ session' \in Session /\ \A q \in Procs : local[q] \in Local
      /\ \A q \in Procs : Sound(local[q], session, ledger) /\ Keeps(local[q], session, done)
  BY DEF IInv, TypeOK, KInv
<1>2. \A q \in Procs : Keeps(local[q], session', done')
  BY <1>1, KeepsKept DEF Sound
<1>3. \A q \in Procs : Keeps(local'[q], session', done')
  <2> TAKE q \in Procs
  <2>1. CASE q = p
    BY <1>2, <2>1
  <2>2. CASE q # p
    BY <1>2, <2>2
  <2> QED BY <2>1, <2>2
<1>4. \A i \in DOMAIN ledger : Settled(ledger[i], done')
  BY DEF KInv, Settled
<1>5. \A i \in DOMAIN ledger' : Settled(ledger'[i], done')
  <2>1. CASE ledger' = ledger
    BY <1>4, <2>1
  <2>2. ASSUME NEW e, AppendACP(e), Settled(e, done), ledger' # ledger
        PROVE  \A i \in DOMAIN ledger' : Settled(ledger'[i], done')
    <3>1. ledger' = Append(ledger, e) /\ ledger \in Seq(ACPEvent)
      BY <2>2 DEF AppendACP, IInv, TypeOK
    <3>2. DOMAIN ledger' = 1 .. Len(ledger) + 1 /\ DOMAIN ledger = 1 .. Len(ledger)
          /\ Len(ledger) \in Nat
          /\ \A i \in DOMAIN ledger' : IF i = Len(ledger) + 1 THEN ledger'[i] = e
                                                              ELSE ledger'[i] = ledger[i]
      BY <3>1
    <3>3. Settled(e, done')
      BY <2>2 DEF Settled
    <3> QED BY <1>4, <3>2, <3>3
  <2> QED BY <2>1, <2>2
<1> QED BY <1>3, <1>5 DEF KInv

\* A compare-and-swap that writes takes a new revision.
LEMMA CASRevision ==
  ASSUME session \in Session, NEW next \in Session, SaveSessionCAS(next)
  PROVE  session' = session \/ session'.rev > session.rev
BY DEF SaveSessionCAS, Session

LEMMA KeepSaveThenAppend ==
  ASSUME IInv, KInv, TypeOK', NEW p \in Procs, NEW next \in Session, NEW e,
         SaveThenAppend(p, next, e), Settled(e, done)
  PROVE  KInv'
<1>1. session' = session \/ session'.rev > session.rev
  BY CASRevision DEF SaveThenAppend, IInv, TypeOK
<1>2. local' = [local EXCEPT ![p] = [IdleLocal EXCEPT !.pc = "append", !.event = e]]
      /\ ledger' = ledger /\ done' = done
  BY DEF SaveThenAppend, Goto
<1>3. Keeps(local'[p], session', done')
  BY <1>2 DEF Keeps, IdleLocal, HasView, Dispatching, IInv, TypeOK
<1> QED BY <1>1, <1>2, <1>3, KeepAssemble DEF IInv, TypeOK

\* Steps after which p is idle.
LEMMA KeepFinish ==
  ASSUME IInv, KInv, TypeOK', NEW p \in Procs, Finish(p),
         session' = session \/ session'.rev > session.rev, UNCHANGED done,
         ledger' = ledger \/ \E e : AppendACP(e) /\ Settled(e, done)
  PROVE  KInv'
<1>1. local' = [local EXCEPT ![p] = IdleLocal]
  BY DEF Finish, Goto
<1>2. local'[p] = IdleLocal /\ \A q \in Procs \ {p} : local'[q] = local[q]
  BY <1>1 DEF IInv, TypeOK
<1> QED BY <1>2, IdleKeeps, KeepAssemble

\* Steps that leave the session and the ledger alone and take p to l.
LEMMA KeepGoto ==
  ASSUME IInv, KInv, TypeOK', NEW p \in Procs, NEW l, local' = [local EXCEPT ![p] = l],
         UNCHANGED <<session, done>>,
         ledger' = ledger \/ \E e : AppendACP(e) /\ Settled(e, done),
         Keeps(l, session, done)
  PROVE  KInv'
<1>1. local'[p] = l /\ \A q \in Procs \ {p} : local'[q] = local[q]
  BY DEF IInv, TypeOK
<1> QED BY <1>1, KeepAssemble

\* What a copy in memory keeps of the leases it was made from.
LEMMA KeepView ==
  ASSUME NEW l, NEW d, l.pc \in {"checkpoint", "ledgerRead", "save", "cancel"},
         \A k \in session.leases : k.id \in Ids(l.view.leases) \/ TaskOf(k.id) \in d
  PROVE  Keeps(l, session, d)
BY DEF Keeps

LEMMA KeepStep == IInv /\ KInv /\ [Next]_vars => KInv'
<1> SUFFICES ASSUME IInv, KInv, [Next]_vars PROVE KInv'
  OBVIOUS
<1>t. TypeOK' /\ TypeOK /\ session \in Session /\ \A p \in Procs : local[p] \in Local
  BY TypeStep DEF IInv, TypeOK
<1>k. \A p \in Procs : Keeps(local[p], session, done)
  BY DEF KInv
<1> USE DEF files, world
<1>1. ASSUME NEW p \in Procs, Start(p) PROVE KInv'
  BY <1>1, <1>t, IdleType, CASRevision, KeepAssemble DEF Start
<1>2. ASSUME NEW p \in Procs, StepDispatch(p) PROVE KInv'
  <2>1. PICK m : Goto(p, [IdleLocal EXCEPT !.pc = "checkpoint",
                           !.view = [Sensed(session) EXCEPT !.waiting = FALSE], !.mission = m])
        /\ UNCHANGED <<session, ledger, done>>
    BY <1>2 DEF StepDispatch
  <2> DEFINE v == [Sensed(session) EXCEPT !.waiting = FALSE]
             l == [IdleLocal EXCEPT !.pc = "checkpoint", !.view = v, !.mission = m]
  <2>2. \A k \in session.leases : k \in v.leases \/ TaskOf(k.id) \in done
    BY <1>t DEF Sensed, Session
  <2> HIDE DEF v
  <2>3. l.pc = "checkpoint" /\ l.view = v
    BY DEF IdleLocal
  <2>4. local' = [local EXCEPT ![p] = l]
    BY <2>1 DEF Goto, v
  <2> HIDE DEF l
  <2>5. Keeps(l, session, done)
    BY <2>2, <2>3, KeepView DEF Ids
  <2> QED BY <1>t, <2>1, <2>4, <2>5, KeepGoto
<1>3. ASSUME NEW p \in Procs, StepWait(p) PROVE KInv'
  <2>1. PICK w \in BOOLEAN :
          Goto(p, [IdleLocal EXCEPT !.pc = "save", !.view = [Sensed(session) EXCEPT !.waiting = w]])
        /\ UNCHANGED <<session, ledger, done>>
    BY <1>3 DEF StepWait
  <2> DEFINE v == [Sensed(session) EXCEPT !.waiting = w]
             l == [IdleLocal EXCEPT !.pc = "save", !.view = v]
  <2>2. \A k \in session.leases : k \in v.leases \/ TaskOf(k.id) \in done
    BY <1>t DEF Sensed, Session
  <2> HIDE DEF v
  <2>3. l.pc = "save" /\ l.view = v
    BY DEF IdleLocal
  <2>4. local' = [local EXCEPT ![p] = l]
    BY <2>1 DEF Goto, v
  <2> HIDE DEF l
  <2>5. Keeps(l, session, done)
    BY <2>2, <2>3, KeepView DEF Ids
  <2> QED BY <1>t, <2>1, <2>4, <2>5, KeepGoto
<1>4. ASSUME NEW p \in Procs, NEW m \in session.pending, Claim(p, m) PROVE KInv'
  <2> DEFINE lease == ClaimLease(m)
             next == [session EXCEPT !.pending = @ \ {m}, !.missions = @ \cup {m},
                                     !.leases = @ \cup {lease}]
             e == [kind |-> "claim", id |-> m.id, lease |-> lease]
  <2>1. lease \in Lease /\ m \in Mission
    BY <1>t, ClaimLeaseType DEF TypeOK, Session
  <2>2. SaveThenAppend(p, next, e)
    BY <1>4 DEF Claim
  <2>3. Settled(e, done)
    BY DEF Settled
  <2> HIDE DEF lease, e
  <2>4. next \in Session
    BY <1>t, <2>1 DEF Session
  <2> HIDE DEF next
  <2> QED BY <1>t, <2>2, <2>3, <2>4, KeepSaveThenAppend
<1>5. ASSUME NEW p \in Procs, NEW leases \in SUBSET Lease, NEW e,
             SaveThenAppend(p, [session EXCEPT !.leases = leases], e), Settled(e, done)
      PROVE  KInv'
  <2>1. [session EXCEPT !.leases = leases] \in Session
    BY <1>t DEF Session
  <2> QED BY <1>5, <1>t, <2>1, KeepSaveThenAppend
<1>6. ASSUME NEW p \in Procs, NEW l \in session.leases, Heartbeat(p, l) PROVE KInv'
  <2>1. (session.leases \ {l}) \cup {RenewLease(l)} \in SUBSET Lease
    BY <1>t, RenewLeaseType DEF TypeOK, Session
  <2>2. Settled([kind |-> "heartbeat", id |-> l.id, lease |-> RenewLease(l)], done)
    BY DEF Settled
  <2> QED BY <1>5, <1>6, <2>1, <2>2 DEF Heartbeat
<1>7. ASSUME NEW p \in Procs, NEW l \in session.leases, Release(p, l) PROVE KInv'
  <2>1. session.leases \ {l} \in SUBSET Lease /\ l \in Lease
    BY <1>t DEF Session
  <2>2. Settled([kind |-> "cancel", id |-> l.id,
                 lease |-> Revoked(l, "released by controller")], done)
    BY <2>1 DEF Settled, Revoked, Lease
  <2> QED BY <1>5, <1>7, <2>1, <2>2 DEF Release
<1>8. ASSUME NEW p \in Procs, ReportRelease(p) PROVE KInv'
  <2>1. {l \in session.leases : l.id # local[p].mission.id} \in SUBSET Lease
    BY <1>t DEF Session
  <2>2. Settled([kind |-> "report", id |-> local[p].mission.id], done)
    BY <1>8, <1>k DEF ReportRelease, Keeps, Settled
  <2> QED BY <1>5, <1>8, <2>1, <2>2 DEF ReportRelease
<1>9. ASSUME NEW p \in Procs, NEW l \in session.leases, ReportCheck(p, l) PROVE KInv'
  <2>1. PICK m : Goto(p, [IdleLocal EXCEPT !.pc = "complete", !.mission = m])
    BY <1>9 DEF ReportCheck
  <2>2. Keeps([IdleLocal EXCEPT !.pc = "complete", !.mission = m], session, done)
    BY DEF Keeps, IdleLocal, HasView, Dispatching
  <2> QED BY <1>9, <1>t, <2>1, <2>2, KeepGoto DEF ReportCheck, Goto
<1>10. ASSUME NEW p \in Procs, CancelBegin(p) PROVE KInv'
  <2> DEFINE v == [session EXCEPT !.state = "cancelled"]
             pc == IF session.leases = {} THEN "save" ELSE "cancel"
             l == [IdleLocal EXCEPT !.pc = pc, !.view = v, !.todo = session.leases]
  <2>1. v.leases = session.leases
    BY <1>t DEF Session
  <2>2. local' = [local EXCEPT ![p] = l] /\ UNCHANGED <<session, ledger, done>>
    BY <1>10 DEF CancelBegin, Goto
  <2> HIDE DEF v
  <2>3. l.pc \in {"save", "cancel"} /\ l.view = v
    BY DEF IdleLocal
  <2> HIDE DEF l
  <2>4. Keeps(l, session, done)
    BY <2>1, <2>3, KeepView DEF Ids
  <2> QED BY <1>t, <2>2, <2>4, KeepGoto
<1>11. ASSUME NEW p \in Procs, ResumeReissue(p) PROVE KInv'
  <2>0. PICK k \in session.leases : \E n :
          /\ Goto(p, [IdleLocal EXCEPT !.pc = "ledgerRead", !.path = "reissue", !.mission = n,
                 !.view = [session EXCEPT
                     !.leases = (@ \ {k}) \cup {Revoked(k, "stale baseline")}]])
          /\ UNCHANGED <<session, ledger, done>>
    BY <1>11 DEF ResumeReissue, Stale
  <2>1. PICK n :
          /\ Goto(p, [IdleLocal EXCEPT !.pc = "ledgerRead", !.path = "reissue", !.mission = n,
                 !.view = [session EXCEPT
                     !.leases = (@ \ {k}) \cup {Revoked(k, "stale baseline")}]])
          /\ UNCHANGED <<session, ledger, done>>
    BY <2>0
  <2> DEFINE r == Revoked(k, "stale baseline")
             v == [session EXCEPT !.leases = (@ \ {k}) \cup {r}]
             l == [IdleLocal EXCEPT !.pc = "ledgerRead", !.path = "reissue", !.mission = n,
                                    !.view = v]
  <2>2. r.id = k.id
    BY <1>t DEF Revoked, Session, Lease
  <2> HIDE DEF r
  <2>3. v.leases = (session.leases \ {k}) \cup {r}
    BY <1>t DEF Session
  <2>4. local' = [local EXCEPT ![p] = l]
    BY <2>1 DEF Goto, r
  <2> HIDE DEF v
  <2>5. l.pc = "ledgerRead" /\ l.view = v
    BY DEF IdleLocal
  <2> HIDE DEF l
  <2>6. \A j \in session.leases : j.id \in Ids(v.leases)
    BY <2>2, <2>3 DEF Ids
  <2>7. Keeps(l, session, done)
    BY <2>5, <2>6, KeepView
  <2> QED BY <1>t, <2>1, <2>4, <2>7, KeepGoto
<1>12. ASSUME NEW p \in Procs, ResumeReconcile(p) PROVE KInv'
  <2>1. Reclaimed(ReconcileSession(session)) \in Session
    BY ReconcileSound
  <2>2. session' = session \/ session'.rev > session.rev
    BY <1>12, <1>t, <2>1, CASRevision DEF ResumeReconcile
  <2>3. ledger' = ledger /\ done' = done
        /\ \/ UNCHANGED local
           \/ local' = [local EXCEPT ![p] = [IdleLocal EXCEPT !.pc = "ledgerRead",
                                               !.path = "resume", !.mission = checkpoint]]
    BY <1>12 DEF ResumeReconcile, Goto
  <2>4. Keeps([IdleLocal EXCEPT !.pc = "ledgerRead", !.path = "resume", !.mission = checkpoint],
              session', done')
    BY DEF Keeps, IdleLocal, HasView, Dispatching
  <2>5. /\ \A q \in Procs \ {p} : local'[q] = local[q]
        /\ local'[p] = local[p] \/ Keeps(local'[p], session', done')
    BY <1>t, <2>3, <2>4 DEF TypeOK
  <2> QED BY <1>t, <2>2, <2>3, <2>5, KeepAssemble
<1>13. ASSUME NEW p \in Procs, SaveCheckpoint(p) \/ ReadLedger(p) PROVE KInv'
  <2>1. UNCHANGED <<session, ledger, done>>
        /\ \/ Finish(p)
           \/ \E pc \in {"ledgerRead", "ledgerAppend"} : local' = [local EXCEPT ![p].pc = pc]
        /\ local[p].pc \in {"checkpoint", "ledgerRead"}
    BY <1>13 DEF SaveCheckpoint, ReadLedger
  <2>2. ASSUME NEW pc \in {"ledgerRead", "ledgerAppend"}, local' = [local EXCEPT ![p].pc = pc]
        PROVE  KInv'
    <3> DEFINE l == [local[p] EXCEPT !.pc = pc]
    <3>1. l.pc = pc /\ l.view = local[p].view /\ l.path = local[p].path
      BY <1>t DEF Local
    <3>2. local' = [local EXCEPT ![p] = l]
      BY <2>2
    <3> HIDE DEF l
    <3>3. Keeps(l, session, done)
      BY <1>k, <2>1, <3>1 DEF Keeps, HasView, Dispatching
    <3> QED BY <1>t, <2>1, <3>2, <3>3, KeepGoto
  <2>3. CASE Finish(p)
    BY <1>t, <2>1, <2>3, KeepFinish
  <2> QED BY <2>1, <2>2, <2>3
<1>14. ASSUME NEW p \in Procs, AppendDispatch(p) PROVE KInv'
  <2> DEFINE m == local[p].mission
             e == [kind |-> "dispatch", id |-> m.id, mission |-> m]
             l == [local[p] EXCEPT !.pc = "save", !.view.step = StepOf(m.id),
                                   !.view.pending = @ \cup {m}]
  <2>1. /\ local[p].pc = "ledgerAppend" /\ AppendACP(e) /\ UNCHANGED <<session, done>>
        /\ IF local[p].path = "resume" THEN Finish(p) ELSE local' = [local EXCEPT ![p] = l]
    BY <1>14 DEF AppendDispatch
  <2>2. Settled(e, done)
    BY DEF Settled
  <2> HIDE DEF e
  <2>3. l.pc = "save" /\ l.view.leases = local[p].view.leases /\ l.view.rev = local[p].view.rev
    BY <1>t DEF Local, Session
  <2> HIDE DEF l
  <2>4. local[p].path # "resume" => Keeps(l, session, done)
    BY <1>k, <2>1, <2>3 DEF Keeps, HasView, Dispatching
  <2> QED BY <1>t, <2>1, <2>2, <2>4, KeepGoto, KeepFinish
<1>15. ASSUME NEW p \in Procs, SaveSession(p) PROVE KInv'
  <2>1. local[p].view \in Session
    BY <1>t DEF Local
  <2>2. session' = session \/ session'.rev > session.rev
    BY <1>15, <1>t, <2>1, CASRevision DEF SaveSession
  <2> QED BY <1>15, <1>t, <2>2, KeepFinish DEF SaveSession
<1>16. ASSUME NEW p \in Procs, AppendEvent(p) PROVE KInv'
  <2>1. Settled(local[p].event, done)
    BY <1>16, <1>k DEF AppendEvent, Keeps
  <2> QED BY <1>16, <1>t, <2>1, KeepFinish DEF AppendEvent
<1>17. ASSUME NEW p \in Procs, ReportComplete(p) PROVE KInv'
  <2> DEFINE l == [local[p] EXCEPT !.pc = "report"]
  <2>1. l.pc = "report" /\ l.mission = local[p].mission
    BY <1>t DEF Local
  <2>2. local' = [local EXCEPT ![p] = l] /\ done \subseteq done' /\ UNCHANGED <<session, ledger>>
        /\ TaskOf(local[p].mission.id) \in done'
    BY <1>17 DEF ReportComplete
  <2> HIDE DEF l
  <2>3. Keeps(l, session', done')
    BY <2>1, <2>2 DEF Keeps, HasView, Dispatching
  <2>4. local'[p] = l /\ \A q \in Procs \ {p} : local'[q] = local[q]
    BY <1>t, <2>2 DEF TypeOK
  <2> QED BY <1>t, <2>2, <2>3, <2>4, KeepAssemble
<1>18. ASSUME NEW p \in Procs, ReportRefused(p) \/ Crash(p) \/ CrashTorn(p) PROVE KInv'
  BY <1>18, <1>t, KeepFinish DEF ReportRefused, Crash, CrashTorn
<1>19. ASSUME NEW p \in Procs, CancelLease(p) PROVE KInv'
  <2>1. PICK k \in local[p].todo : CancelActive(p, k) \/ CancelAgain(p, k) \/ CancelConflict(p, k)
    BY <1>19 DEF CancelLease
  <2>2. local[p].pc = "cancel" /\ k \in Lease
    BY <1>19, <1>t, <2>1 DEF CancelLease, Local
  <2> DEFINE a == AfterLease(p, k)
             gone == Revoked(k, "operator")
             e == [kind |-> "cancel", id |-> k.id, lease |-> gone]
             l == [a EXCEPT !.view.leases = (@ \ {k}) \cup {gone}]
  <2>3. a \in Local /\ a.view = local[p].view /\ a.pc \in {"save", "cancel"}
    BY <1>t DEF AfterLease, Local, Phase
  <2>4. gone.id = k.id /\ gone.state = "revoked"
    BY <2>2 DEF Revoked, Lease
  <2>5. HasView(local[p])
    BY <2>2 DEF HasView
  <2> HIDE DEF a, gone
  <2>6. l.pc = a.pc /\ l.view.rev = a.view.rev
        /\ l.view.leases = (a.view.leases \ {k}) \cup {gone}
    BY <2>3 DEF Local, Session
  <2>7. CASE CancelActive(p, k)
    <3>1. local' = [local EXCEPT ![p] = l] /\ AppendACP(e) /\ UNCHANGED <<session, done>>
      BY <2>7 DEF CancelActive, Goto, a, gone
    <3>2. Settled(e, done)
      BY <2>4 DEF Settled
    <3>3. \A j \in Ids(a.view.leases) : j \in Ids(l.view.leases)
      BY <2>4, <2>6 DEF Ids
    <3> HIDE DEF l, e
    <3>4. Keeps(l, session, done)
      BY <1>k, <2>3, <2>5, <2>6, <3>3 DEF Keeps
    <3> QED BY <1>t, <3>1, <3>2, <3>4, KeepGoto
  <2>8. CASE CancelAgain(p, k)
    <3>1. local' = [local EXCEPT ![p] = a] /\ UNCHANGED <<session, ledger, done>>
      BY <2>8 DEF CancelAgain, Goto, a
    <3>2. Keeps(a, session, done)
      BY <1>k, <2>3, <2>5 DEF Keeps
    <3> QED BY <1>t, <3>1, <3>2, KeepGoto
  <2>9. CASE CancelConflict(p, k)
    BY <1>t, <2>9, KeepFinish DEF CancelConflict
  <2> QED BY <2>1, <2>7, <2>8, <2>9
<1>20. ASSUME UNCHANGED <<session, ledger, local>>, done \subseteq done' PROVE KInv'
  BY <1>20 DEF KInv, Keeps, Settled
<1>21. ASSUME NEW t \in Tasks, CompleteTask(t) PROVE KInv'
  BY <1>20, <1>21 DEF CompleteTask
<1>22. CASE Tick \/ MoveHead \/ UNCHANGED vars
  BY <1>20, <1>22 DEF Tick, MoveHead, vars
<1>23. ASSUME NEW p \in Procs, Command(p) PROVE KInv'
  BY <1>1, <1>2, <1>3, <1>4, <1>6, <1>7, <1>9, <1>10, <1>11, <1>12, <1>23 DEF Command
<1>24. ASSUME NEW p \in Procs, Continue(p) PROVE KInv'
  BY <1>8, <1>13, <1>14, <1>15, <1>16, <1>17, <1>18, <1>19, <1>24 DEF Continue
<1> QED BY <1>18, <1>21, <1>22, <1>23, <1>24 DEF Next

\* A resume that finds no crash ends no live lease of a task in hand: it refuses to
\* work while one would survive the replay, and a revoked one stays in the session.
LEMMA ReplayKeeps ==
  ASSUME IInv, KInv, NEW l \in session.leases, Live(l), TaskOf(l.id) \notin done,
         ~\E k \in ReconcileSession(session).leases : Live(k)
  PROVE  l.id \in Ids(Reclaimed(ReconcileSession(session)).leases)
<1> DEFINE id == l.id
           next == ReconcileSession(session)
           held == {k \in session.leases : k.id = id /\ EventsOf("report", id) = {}}
           claim == FirstOf({i \in EventsOf("claim", id) :
                               \A r \in EventsOf("report", id) : r < i})
           base == IF held # {} THEN held ELSE {ledger[i].lease : i \in claim}
           cancel == FirstOf({i \in EventsOf("cancel", id) :
                                held = {} => \A c \in claim : c < i})
           x == IF l.state = "active" /\ cancel # {}
                THEN ledger[CHOOSE i \in cancel : TRUE].lease ELSE l
<1>1. EventsOf("report", id) = {}
  BY DEF KInv, Settled, EventsOf
<1>2. l \in held
  BY <1>1
<1>3. x \in ReplayedLease(session, id)
  BY <1>2 DEF ReplayedLease
<1>4. \A y \in ReplayedLease(session, id) : y \in next.leases
  <2> DEFINE leases == UNION {ReplayedLease(session, i) :
                                i \in Ids(session.leases) \cup {ledger[j].id : j \in DOMAIN ledger}}
  <2>1. next.leases = leases
    BY DEF ReconcileSession, IInv, TypeOK, Session
  <2>2. id \in Ids(session.leases)
    BY DEF Ids
  <2> HIDE DEF next
  <2> QED BY <2>1, <2>2
<1>5. \A i \in cancel : ledger[i].lease.state = "revoked" /\ ledger[i].lease.id = id
  <2>1. \A i \in cancel : i \in DOMAIN ledger /\ ledger[i].kind = "cancel" /\ ledger[i].id = id
    BY DEF FirstOf, EventsOf
  <2> HIDE DEF cancel
  <2> QED BY <2>1, EventParts DEF KInv, Settled
<1> HIDE DEF cancel, held, claim, base
<1>6. x.id = id /\ (x = l \/ x.state = "revoked")
  <2>1. CASE l.state = "active" /\ cancel # {}
    <3>1. (CHOOSE i \in cancel : TRUE) \in cancel
      BY <2>1
    <3> QED BY <1>5, <2>1, <3>1
  <2>2. CASE ~(l.state = "active" /\ cancel # {})
    BY <2>2
  <2> QED BY <2>1, <2>2
<1> HIDE DEF x
<1>7. x \in next.leases /\ x.id = l.id /\ x.state = "revoked"
  BY <1>3, <1>4, <1>6
<1>8. Reclaimed(next).leases = {k \in next.leases : k.state = "revoked"}
  BY DEF Reclaimed, ReconcileSession, IInv, TypeOK, Session
<1> HIDE DEF next
<1>9. x \in Reclaimed(next).leases
  BY <1>7, <1>8
<1> QED BY <1>7, <1>9 DEF Ids, next

\* The steps that take a live lease out of the session.
LEMMA LeaseStep ==
  ASSUME IInv, KInv, [Next]_vars, NEW l \in session.leases, Live(l),
         l.id \notin Ids(session'.leases), TaskOf(l.id) \notin done, ~Crashed
  PROVE  \E p \in Procs : Release(p, l)
<1> USE DEF files
<1>t. session \in Session /\ session.rev \in Nat /\ l.id \in Ids(session.leases)
  BY DEF IInv, TypeOK, Session, Ids
<1>0. session' # session
  BY <1>t
<1>1. ASSUME NEW leases, SaveSessionCAS([session EXCEPT !.leases = leases])
      PROVE  session'.leases = leases
  BY <1>1, <1>t DEF SaveSessionCAS, Session
<1>2. ASSUME NEW p \in Procs, Start(p) PROVE FALSE
  BY <1>2 DEF Start, IInv, SessionSound, NoSession
<1>3. ASSUME NEW p \in Procs, NEW m \in session.pending, Claim(p, m) PROVE FALSE
  <2> DEFINE lease == ClaimLease(m)
  <2>1. SaveSessionCAS([session EXCEPT !.pending = @ \ {m}, !.missions = @ \cup {m},
                                       !.leases = @ \cup {lease}])
    BY <1>3 DEF Claim, SaveThenAppend
  <2> HIDE DEF lease
  <2>2. session'.leases = session.leases \cup {lease}
    BY <1>t, <2>1 DEF SaveSessionCAS, Session
  <2> QED BY <2>2 DEF Ids
<1>4. ASSUME NEW p \in Procs, NEW k \in session.leases, Heartbeat(p, k) PROVE FALSE
  <2>1. session'.leases = (session.leases \ {k}) \cup {RenewLease(k)}
    BY <1>1, <1>4 DEF Heartbeat, SaveThenAppend
  <2>2. RenewLease(k).id = k.id
    BY <1>t DEF RenewLease, Session, Lease
  <2> QED BY <2>1, <2>2 DEF Ids
<1>5. ASSUME NEW p \in Procs, NEW k \in session.leases, Release(p, k) PROVE Release(p, l)
  <2>1. session'.leases = session.leases \ {k}
    BY <1>1, <1>5 DEF Release, SaveThenAppend
  <2>2. k = l
    BY <2>1 DEF Ids
  <2> QED BY <1>5, <2>2
<1>6. ASSUME NEW p \in Procs, ReportRelease(p) PROVE FALSE
  <2>1. session'.leases = {k \in session.leases : k.id # local[p].mission.id}
    BY <1>1, <1>6 DEF ReportRelease, SaveThenAppend
  <2>2. l.id = local[p].mission.id
    BY <2>1 DEF Ids
  <2>3. TaskOf(local[p].mission.id) \in done
    BY <1>6 DEF ReportRelease, KInv, Keeps
  <2> QED BY <2>2, <2>3
<1>7. ASSUME NEW p \in Procs, ResumeReconcile(p) PROVE FALSE
  <2> DEFINE next == Reclaimed(ReconcileSession(session))
  <2>1. ~\E k \in ReconcileSession(session).leases : Live(k)
    BY <1>7 DEF ResumeReconcile, Recoverable
  <2>2. l.id \in Ids(next.leases)
    BY <2>1, ReplayKeeps
  <2>3. SaveSessionCAS(next) /\ next \in Session
    BY <1>7, ReconcileSound DEF ResumeReconcile
  <2> HIDE DEF next
  <2>4. session'.leases = next.leases
    BY <1>0, <2>3 DEF SaveSessionCAS, Session
  <2> QED BY <2>2, <2>4
<1>8. ASSUME NEW p \in Procs, SaveSession(p) PROVE FALSE
  <2> DEFINE v == local[p].view
  <2>1. v \in Session /\ local[p].pc = "save" /\ SaveSessionCAS(v)
    BY <1>8 DEF SaveSession, IInv, TypeOK, Local
  <2>2. v.rev = session.rev
    BY <1>0, <2>1 DEF SaveSessionCAS
  <2>3. session'.leases = v.leases
    BY <2>1, <2>2 DEF SaveSessionCAS, Session
  <2>4. l.id \in Ids(v.leases)
    BY <2>1, <2>2 DEF KInv, Keeps, HasView
  <2> QED BY <2>3, <2>4
<1>9. ASSUME NEW p \in Procs,
              \/ StepDispatch(p) \/ StepWait(p) \/ CancelBegin(p) \/ ResumeReissue(p)
              \/ \E k \in session.leases : ReportCheck(p, k)
       PROVE  FALSE
  BY <1>0, <1>9 DEF StepDispatch, StepWait, CancelBegin, ResumeReissue, ReportCheck
<1>10. ASSUME NEW p \in Procs, Command(p) PROVE Release(p, l)
  BY <1>2, <1>3, <1>4, <1>5, <1>7, <1>9, <1>10 DEF Command
<1>11. ASSUME NEW p \in Procs, Continue(p) PROVE FALSE
  <2>1. ASSUME SaveCheckpoint(p) \/ ReadLedger(p) \/ AppendDispatch(p) \/ AppendEvent(p)
               \/ ReportComplete(p) \/ ReportRefused(p) \/ CancelLease(p)
        PROVE  FALSE
    BY <1>0, <2>1 DEF SaveCheckpoint, ReadLedger, AppendDispatch, AppendEvent, ReportComplete,
                ReportRefused, CancelLease, CancelActive, CancelAgain, CancelConflict
  <2> QED BY <1>6, <1>8, <1>11, <2>1 DEF Continue
<1>12. ASSUME NEW p \in Procs, Crash(p) \/ CrashTorn(p) PROVE FALSE
  BY <1>0, <1>12 DEF Crash, CrashTorn
<1>13. ASSUME NEW t \in Tasks, CompleteTask(t) PROVE FALSE
  BY <1>0, <1>13 DEF CompleteTask
<1>14. CASE Tick \/ MoveHead \/ UNCHANGED vars
  BY <1>0, <1>14 DEF Tick, MoveHead, vars
<1> QED BY <1>10, <1>11, <1>12, <1>13, <1>14 DEF Next

\* Reports in the ledger are of complete tasks, and no copy in memory that may still
\* be written drops the lease of a task in hand.
THEOREM KeepSafety == Spec => []KInv
<1>1. Init => KInv
  BY IdleKeeps DEF Init, KInv
<1> QED BY <1>1, KeepStep, Safety, PTL DEF Spec

\* Whatever steps, resumes, cancels and late writes interleave, a live lease leaves the
\* session only for a complete task, a release, or a crashed dispatch that resume
\* recovers (cmd/brain.go brainResume, brainStep).
THEOREM LeaseKept == Spec => LiveLeaseKept
<1>1. IInv /\ KInv /\ [Next]_vars =>
        [\A l \in session.leases :
            Live(l) /\ l.id \notin Ids(session'.leases) =>
               \/ TaskOf(l.id) \in done
               \/ \E p \in Procs : Release(p, l)
               \/ Crashed]_vars
  BY LeaseStep
<1> QED BY <1>1, Safety, KeepSafety, PTL DEF Spec, LiveLeaseKept

-----------------------------------------------------------------------------
(* A resume that is not killed *)

\* A resume that has found a crash keeps the lock until it is done; nobody moves
\* the checkpoint under it, and that is the mission it is about to record.
ResumeHolds ==
    \A p \in Procs : local[p].path = "resume" =>
        /\ lock = p /\ local[p].mission = checkpoint
        /\ local[p].pc \in {"ledgerRead", "ledgerAppend"}

\* Only its own four steps move a resume: the other commands that run meanwhile
\* write neither the checkpoint nor the lock.
LEMMA ResumeMoves ==
  ASSUME IInv, ResumeHolds, [Next]_vars, NEW q \in Procs, local[q].path = "resume"
  PROVE  \/ local'[q] = local[q] /\ lock' = lock /\ checkpoint' = checkpoint
         \/ ReadLedger(q) \/ AppendDispatch(q) \/ Crash(q) \/ CrashTorn(q)
<1> DEFINE Stays == local'[q] = local[q] /\ lock' = lock /\ checkpoint' = checkpoint
           Moves == ReadLedger(q) \/ AppendDispatch(q) \/ Crash(q) \/ CrashTorn(q)
<1>t. \A p \in Procs : local[p] \in Local /\ DOMAIN local = Procs
  BY DEF IInv, TypeOK
<1>h. lock = q /\ q # None /\ local[q].pc \in {"ledgerRead", "ledgerAppend"}
  BY NoneAssumption DEF ResumeHolds
<1> USE DEF files, world
<1>1. ASSUME NEW p \in Procs, Command(p) PROVE Stays
  <2>0. lock # None
    BY <1>h
  <2>1. p # q
    BY <1>1, <1>h DEF Command, Start, StepDispatch, StepWait, Claim, Heartbeat, ReportCheck,
       Release, CancelBegin, ResumeReissue, ResumeReconcile, BeginLocked, Begin
  <2>2. StepDispatch(p) \/ StepWait(p) \/ \E l \in session.leases : ReportCheck(p, l)
    BY <1>1, <2>0 DEF Command, Start, Claim, Heartbeat, Release, CancelBegin, ResumeReissue,
       ResumeReconcile, BeginLocked
  <2>3. (\E l : Goto(p, l)) /\ lock' = lock /\ checkpoint' = checkpoint
    BY <2>2 DEF StepDispatch, StepWait, ReportCheck
  <2> QED BY <1>t, <2>1, <2>3 DEF Goto
<1>2. ASSUME NEW p \in Procs, Continue(p), p # q PROVE Stays
  <2>0. lock # None /\ lock # p
    BY <1>h, <1>2
  <2>1. ReadLedger(p) \/ AppendDispatch(p) \/ AppendEvent(p) \/ CancelLease(p)
    BY <1>2, <2>0 DEF Continue, SaveCheckpoint, SaveSession, CanLock, ReportComplete,
       ReportRefused, ReportRelease
  <2>2. ASSUME Unlock(p) PROVE lock' = lock
    BY <2>0, <2>2 DEF Unlock
  <2>3. CASE ReadLedger(p)
    <3>1. local'[q] = local[q]
      BY <1>t, <1>2, <2>3 DEF ReadLedger, Finish, Goto
    <3> QED BY <2>2, <2>3, <3>1 DEF ReadLedger
  <2>4. CASE AppendDispatch(p)
    <3>1. local'[q] = local[q]
      BY <1>t, <1>2, <2>4 DEF AppendDispatch, Finish, Goto
    <3>2. lock' = lock
      BY <2>2, <2>4 DEF AppendDispatch
    <3> QED BY <2>4, <3>1, <3>2 DEF AppendDispatch
  <2>5. CASE AppendEvent(p)
    BY <1>t, <1>2, <2>2, <2>5 DEF AppendEvent, Finish, Goto
  <2>6. CASE CancelLease(p)
    <3>1. PICK l \in local[p].todo : CancelActive(p, l) \/ CancelAgain(p, l) \/ CancelConflict(p, l)
      BY <2>6 DEF CancelLease
    <3>2. checkpoint' = checkpoint /\ (lock' = lock \/ Unlock(p)) /\ \E k : Goto(p, k)
      BY <3>1 DEF CancelActive, CancelAgain, CancelConflict, Finish
    <3> QED BY <1>t, <1>2, <2>2, <3>2 DEF Goto
  <2> QED BY <2>1, <2>3, <2>4, <2>5, <2>6
<1>3. ASSUME Continue(q) PROVE Moves
  BY <1>3, <1>h DEF Continue, SaveCheckpoint, SaveSession, AppendEvent, ReportComplete,
     ReportRefused, ReportRelease, CancelLease
<1>4. ASSUME NEW p \in Procs, Crash(p) \/ CrashTorn(p), p # q PROVE Stays
  <2>1. Finish(p) /\ Unlock(p) /\ checkpoint' = checkpoint
    BY <1>4 DEF Crash, CrashTorn
  <2> QED BY <1>t, <1>4, <1>h, <2>1 DEF Finish, Goto, Unlock
<1>5. ASSUME NEW t \in Tasks, CompleteTask(t) PROVE Stays
  BY <1>5 DEF CompleteTask
<1>6. CASE Tick \/ MoveHead \/ UNCHANGED vars
  BY <1>6 DEF Tick, MoveHead, vars
<1> QED BY <1>1, <1>2, <1>3, <1>4, <1>5, <1>6 DEF Next

\* A command becomes a resume that has found a crash in one step, which takes the
\* lock and the checkpoint's mission.
LEMMA ResumeBegins ==
  ASSUME IInv, ResumeHolds, [Next]_vars, NEW q \in Procs,
         local[q].path # "resume", local'[q].path = "resume"
  PROVE  lock' = q /\ local'[q].mission = checkpoint' /\ local'[q].pc = "ledgerRead"
<1>t. \A p \in Procs : local[p] \in Local /\ DOMAIN local = Procs
  BY DEF IInv, TypeOK
<1>i. IdleLocal \in Local /\ IdleLocal.path = "step"
  BY IdleType DEF IdleLocal
<1> USE DEF files, world
<1>o. ASSUME NEW p \in Procs, NEW l, Goto(p, l), l.path # "resume" PROVE FALSE
  BY <1>o, <1>t DEF Goto
<1>f. ASSUME NEW p \in Procs, Finish(p) PROVE FALSE
  BY <1>f, <1>i, <1>o DEF Finish
<1>s. ASSUME NEW p \in Procs, NEW next, NEW e, SaveThenAppend(p, next, e) PROVE FALSE
  <2>1. [IdleLocal EXCEPT !.pc = "append", !.event = e].path = "step"
    BY DEF IdleLocal
  <2> QED BY <1>o, <1>s, <2>1 DEF SaveThenAppend
<1>1. ASSUME NEW p \in Procs, Command(p) PROVE ResumeReconcile(q)
  <2>1. ~Start(p)
    BY DEF Start
  <2>2. ASSUME StepDispatch(p) PROVE FALSE
    <3>1. \E v, m : Goto(p, [IdleLocal EXCEPT !.pc = "checkpoint", !.view = v, !.mission = m])
      BY <2>2 DEF StepDispatch
    <3> QED BY <1>o, <3>1 DEF IdleLocal
  <2>3. ASSUME StepWait(p) PROVE FALSE
    <3>1. \E v : Goto(p, [IdleLocal EXCEPT !.pc = "save", !.view = v])
      BY <2>3 DEF StepWait
    <3> QED BY <1>o, <3>1 DEF IdleLocal
  <2>4. ASSUME NEW m \in session.pending, Claim(p, m) PROVE FALSE
    BY <1>s, <2>4 DEF Claim
  <2>5. ASSUME NEW l \in session.leases, Heartbeat(p, l) \/ Release(p, l) PROVE FALSE
    BY <1>s, <2>5 DEF Heartbeat, Release
  <2>6. ASSUME NEW l \in session.leases, ReportCheck(p, l) PROVE FALSE
    <3>1. \E m : Goto(p, [IdleLocal EXCEPT !.pc = "complete", !.mission = m])
      BY <2>6 DEF ReportCheck
    <3> QED BY <1>o, <3>1 DEF IdleLocal
  <2>7. ASSUME CancelBegin(p) PROVE FALSE
    <3>1. \E c, v, d : Goto(p, [IdleLocal EXCEPT !.pc = c, !.view = v, !.todo = d])
      BY <2>7 DEF CancelBegin
    <3> QED BY <1>o, <3>1 DEF IdleLocal
  <2>8. ASSUME ResumeReissue(p) PROVE FALSE
    <3>1. \E m, v : Goto(p, [IdleLocal EXCEPT !.pc = "ledgerRead", !.path = "reissue",
                                              !.mission = m, !.view = v])
      BY <2>8 DEF ResumeReissue
    <3> QED BY <1>o, <3>1 DEF IdleLocal
  <2>9. ASSUME ResumeReconcile(p) PROVE p = q
    BY <1>t, <2>9 DEF ResumeReconcile, Goto
  <2> QED BY <1>1, <2>1, <2>2, <2>3, <2>4, <2>5, <2>6, <2>7, <2>8, <2>9 DEF Command
<1>2. ASSUME NEW p \in Procs, Continue(p) PROVE FALSE
  <2>1. ASSUME NEW c, local' = [local EXCEPT ![p].pc = c] PROVE FALSE
    BY <1>t, <2>1 DEF Local
  <2>2. ~SaveCheckpoint(p) /\ ~ReportComplete(p)
    BY <2>1 DEF SaveCheckpoint, ReportComplete
  <2>3. ~ReadLedger(p)
    BY <1>f, <2>1 DEF ReadLedger
  <2>4. ASSUME AppendDispatch(p) PROVE FALSE
    <3>1. CASE local[p].path = "resume"
      BY <1>f, <2>4, <3>1 DEF AppendDispatch
    <3>2. CASE local[p].path # "resume"
      <4>1. local' = [local EXCEPT ![p].pc = "save", ![p].view.step = StepOf(local[p].mission.id),
                                   ![p].view.pending = @ \cup {local[p].mission}]
        BY <2>4, <3>2 DEF AppendDispatch
      <4> QED BY <1>t, <4>1 DEF Local
    <3> QED BY <3>1, <3>2
  <2>5. ~SaveSession(p) /\ ~AppendEvent(p) /\ ~ReportRefused(p)
    BY <1>f DEF SaveSession, AppendEvent, ReportRefused
  <2>6. ~ReportRelease(p)
    BY <1>s DEF ReportRelease
  <2>7. ASSUME CancelLease(p) PROVE FALSE
    <3>1. local[p].path # "resume"
      BY <2>7 DEF CancelLease, ResumeHolds
    <3>2. PICK l \in local[p].todo : CancelActive(p, l) \/ CancelAgain(p, l) \/ CancelConflict(p, l)
      BY <2>7 DEF CancelLease
    <3>3. AfterLease(p, l) \in [pc : {"save", "cancel"}, path : {local[p].path}, view : Session,
                                mission : Mission \cup {None}, event : ACPEvent \cup {None},
                                todo : SUBSET Lease]
      BY <1>t DEF AfterLease, Local
    <3>4. ~CancelConflict(p, l)
      BY <1>f DEF CancelConflict
    <3>5. ~CancelAgain(p, l)
      BY <1>o, <3>1, <3>3 DEF CancelAgain
    <3>6. ~CancelActive(p, l)
      <4> SUFFICES ASSUME CancelActive(p, l) PROVE FALSE
        OBVIOUS
      <4> DEFINE a == AfterLease(p, l)
      <4>1. PICK v : Goto(p, [a EXCEPT !.view.leases = v])
        BY DEF CancelActive
      <4>2. a.path = local[p].path
        BY <3>3
      <4>3. DOMAIN a = {"pc", "path", "view", "mission", "event", "todo"}
        BY <3>3
      <4> HIDE DEF a
      <4>4. [a EXCEPT !.view.leases = v].path = a.path
        BY <4>3
      <4> QED BY <1>o, <3>1, <4>1, <4>2, <4>4
    <3> QED BY <3>2, <3>4, <3>5, <3>6
  <2> QED BY <1>2, <2>2, <2>3, <2>4, <2>5, <2>6, <2>7 DEF Continue
<1>3. ASSUME NEW p \in Procs, Crash(p) \/ CrashTorn(p) PROVE FALSE
  BY <1>3, <1>f DEF Crash, CrashTorn
<1>4. ASSUME NEW t \in Tasks, CompleteTask(t) PROVE FALSE
  BY <1>4 DEF CompleteTask
<1>5. CASE Tick \/ MoveHead \/ UNCHANGED vars
  BY <1>5 DEF Tick, MoveHead, vars
<1>6. ASSUME ResumeReconcile(q)
      PROVE  lock' = q /\ local'[q].mission = checkpoint' /\ local'[q].pc = "ledgerRead"
  <2>1. Crashed
    BY <1>6 DEF ResumeReconcile
  <2>2. Goto(q, [IdleLocal EXCEPT !.pc = "ledgerRead", !.path = "resume", !.mission = checkpoint])
    BY <1>6, <2>1 DEF ResumeReconcile
  <2> QED BY <1>6, <1>t, <2>1, <2>2 DEF ResumeReconcile, Goto, IdleLocal
<1> QED BY <1>1, <1>2, <1>3, <1>4, <1>5, <1>6 DEF Next

\* What one resume does while it holds the lock.
LEMMA ResumeWorks ==
  ASSUME IInv, ResumeHolds, NEW q \in Procs, local[q].path = "resume",
         ReadLedger(q) \/ AppendDispatch(q) \/ Crash(q) \/ CrashTorn(q)
  PROVE  /\ local'[q].path = "resume" =>
              lock' = q /\ local'[q].mission = checkpoint' /\ local'[q].pc = "ledgerAppend"
         /\ local'[q].pc = "idle" /\ crashes' = crashes => ~Crashed' \/ ~Readable'
<1>t. local[q] \in Local /\ DOMAIN local = Procs /\ ledger \in Seq(ACPEvent) /\ crashes \in Nat
  BY DEF IInv, TypeOK
<1>h. lock = q /\ local[q].mission = checkpoint
  BY DEF ResumeHolds
<1>f. ASSUME Finish(q) PROVE local'[q].path = "step"
  BY <1>t, <1>f DEF Finish, Goto, IdleLocal
<1>1. CASE ReadLedger(q)
  <2>c. checkpoint' = checkpoint /\ ledger' = ledger /\ tail' = tail
    BY <1>1 DEF ReadLedger, files
  <2>1. CASE Readable /\ ~HasEvent(local[q].mission.id)
    <3>1. local' = [local EXCEPT ![q].pc = "ledgerAppend"] /\ lock' = lock
      BY <1>1, <2>1 DEF ReadLedger
    <3>2. local'[q].pc = "ledgerAppend" /\ local'[q].mission = local[q].mission
      BY <1>t, <3>1 DEF Local
    <3> QED BY <1>h, <2>c, <3>1, <3>2
  <2>2. CASE ~(Readable /\ ~HasEvent(local[q].mission.id))
    <3>1. Finish(q)
      BY <1>1, <2>2 DEF ReadLedger
    <3>2. ~Crashed' \/ ~Readable'
      BY <1>h, <2>c, <2>2 DEF Crashed, Readable, HasEvent, Logged
    <3> QED BY <1>f, <3>1, <3>2
  <2> QED BY <2>1, <2>2
<1>2. CASE AppendDispatch(q)
  <2> DEFINE m == local[q].mission
             e == [kind |-> "dispatch", id |-> m.id, mission |-> m]
  <2>1. AppendACP(e) /\ checkpoint' = checkpoint /\ Finish(q)
    BY <1>2 DEF AppendDispatch
  <2>2. e.id = m.id
    OBVIOUS
  <2> HIDE DEF e
  <2>3. CASE tail = "clean"
    <3>1. ledger' = Append(ledger, e)
      BY <2>1, <2>3 DEF AppendACP
    <3>2. Len(ledger) + 1 \in DOMAIN ledger' /\ ledger'[Len(ledger) + 1] = e
      BY <1>t, <3>1
    <3>3. ~Crashed'
      BY <1>h, <2>1, <2>2, <3>2 DEF Crashed, HasEvent, Logged
    <3> QED BY <1>f, <2>1, <3>3
  <2>4. CASE tail # "clean"
    BY <1>f, <2>1, <2>4 DEF AppendACP, Readable
  <2> QED BY <2>3, <2>4
<1>3. CASE Crash(q) \/ CrashTorn(q)
  <2>1. Finish(q) /\ crashes' = crashes + 1
    BY <1>3 DEF Crash, CrashTorn
  <2> QED BY <1>f, <1>t, <2>1
<1> QED BY <1>1, <1>2, <1>3

\* A resume holds the lock in every state, for any number of other commands.
LEMMA ResumeSafety == Spec => []ResumeHolds
<1>1. Init => ResumeHolds
  BY DEF Init, IdleLocal, ResumeHolds
<1>2. IInv /\ ResumeHolds /\ [Next]_vars => ResumeHolds'
  <2> SUFFICES ASSUME IInv, ResumeHolds, [Next]_vars, NEW q \in Procs, local'[q].path = "resume"
               PROVE  /\ lock' = q /\ local'[q].mission = checkpoint'
                      /\ local'[q].pc \in {"ledgerRead", "ledgerAppend"}
    BY DEF ResumeHolds
  <2>1. CASE local[q].path # "resume"
    BY <2>1, ResumeBegins
  <2>2. CASE local[q].path = "resume"
    <3>1. CASE local'[q] = local[q] /\ lock' = lock /\ checkpoint' = checkpoint
      BY <2>2, <3>1 DEF ResumeHolds
    <3>2. CASE ReadLedger(q) \/ AppendDispatch(q) \/ Crash(q) \/ CrashTorn(q)
      BY <2>2, <3>2, ResumeWorks
    <3> QED BY <2>2, <3>1, <3>2, ResumeMoves
  <2> QED BY <2>1, <2>2
<1> QED BY <1>1, <1>2, Safety, PTL DEF Spec

\* A resume that is not killed leaves checkpoint and ledger agreed, whatever the
\* other commands do meanwhile, or an unreadable ledger behind.
THEOREM ResumesSettle == Spec => ResumeSettles
<1> DEFINE Settles == \A p \in Procs :
             local[p].path = "resume" /\ local'[p].pc = "idle" /\ crashes' = crashes =>
                ~Crashed' \/ ~Readable'
<1>1. IInv /\ ResumeHolds /\ [Next]_vars => [Settles]_vars
  <2> SUFFICES ASSUME IInv, ResumeHolds, [Next]_vars, NEW p \in Procs,
                      local[p].path = "resume", local'[p].pc = "idle", crashes' = crashes
               PROVE  ~Crashed' \/ ~Readable'
    OBVIOUS
  <2>1. local'[p] # local[p]
    BY DEF ResumeHolds
  <2> QED BY <2>1, ResumeMoves, ResumeWorks
<1>2. Spec => [][Settles]_vars
  BY <1>1, Safety, ResumeSafety, PTL DEF Spec
<1> QED BY <1>2 DEF ResumeSettles

-----------------------------------------------------------------------------
(***************************************************************************)
(* session.json implements MissionLifecycle: a claim is a Grant, every     *)
(* other step of every invocation, the clock and a crash is a Turn.        *)
(***************************************************************************)

Holder == IF Holders = {} THEN None ELSE CHOOSE id \in Holders : TRUE

\* At most one mission holds the worktree.
LEMMA HolderUnique == ASSUME OneLive PROVE \A x, y \in Holders : x = y
BY DEF OneLive, Holders

\* A step that grants nothing and adds no live lease is a Turn.
LEMMA TurnStep ==
  ASSUME IInv, IInv', session'.missions = session.missions,
         session.pending \subseteq session'.pending, Holders' \subseteq Holders
  PROVE  Life!Next
<1>1. Ids(session.pending) \subseteq Ids(session'.pending)
  BY DEF Ids
<1>2. Ids(session'.pending) \in SUBSET (Id \ Ids(session.missions))
  BY SMTT(30) DEF IInv, TypeOK, Session, Mission, SessionSound, DistinctMissions, Ids
<1>3. Holder' \in {Holder, None}
  <2>1. CASE Holders' = {}
    BY <2>1 DEF Holder
  <2>2. CASE Holders' # {}
    <3>1. Holders' = Holders
      BY <2>2, HolderUnique DEF IInv
    <3> QED BY <3>1 DEF Holder
  <2> QED BY <2>1, <2>2
<1>4. Ids(session'.missions) = Ids(session.missions)
  OBVIOUS
<1> QED BY <1>1, <1>2, <1>3, <1>4 DEF Life!Next, Life!Turn, Holder

\* Time passes and leases go or are revoked: nobody new holds the worktree.
LEMMA FewerHolders ==
  ASSUME TypeOK, now' \in Nat, now' >= now,
         \A l \in session'.leases : l \in session.leases \/ l.state = "revoked"
  PROVE  Holders' \subseteq Holders
BY DEF TypeOK, Session, Lease, Live, Holders

\* A claim is a Grant: no lease was live, and the new one is.
LEMMA GrantStep ==
  ASSUME IInv, IInv', NEW p \in Procs, NEW m \in session.pending, Claim(p, m)
  PROVE  Life!Next
<1> DEFINE lease == ClaimLease(m)
           next == [session EXCEPT !.pending = @ \ {m}, !.missions = @ \cup {m},
                                   !.leases = @ \cup {lease}]
<1>1. /\ m \in Mission /\ lease \in Lease /\ lease.id = m.id
      /\ lease.state = "active" /\ now < lease.expires
  <2>1. m \in Mission /\ now \in Nat
    BY DEF IInv, TypeOK, Session
  <2>2. now < m.expires /\ m.expires \in Nat
    BY <2>1 DEF Claim, Mission
  <2>3. now < AtMost(now + LeaseTTL, m.expires)
    BY <2>1, <2>2, LimitAssumption DEF AtMost
  <2> QED BY <2>1, <2>3, ClaimLeaseType DEF ClaimLease
<1>2. SaveSessionCAS(next) /\ now' = now
  BY DEF Claim, SaveThenAppend, world
<1> HIDE DEF lease
<1>3. /\ session'.pending = session.pending \ {m}
      /\ session'.missions = session.missions \cup {m}
      /\ session'.leases = session.leases \cup {lease}
  BY <1>2 DEF SaveSessionCAS, IInv, TypeOK, Session
<1>4. /\ Ids(session'.pending) = Ids(session.pending) \ {m.id}
      /\ Ids(session'.missions) = Ids(session.missions) \cup {m.id}
      /\ m.id \in Ids(session.pending)
  BY <1>3 DEF Ids, IInv, SessionSound, DistinctMissions
<1>5. m.id \notin Ids(session.missions)
  BY DEF IInv, SessionSound, DistinctMissions, Ids
<1>6. \A l \in session.leases : ~Live(l)
  BY <1>5 DEF Claim, CheckParallelConflict, IInv, SessionSound, BackedLeases
<1>7. Holders = {}
  BY <1>6 DEF Holders
<1>8. Holders' = {m.id}
  BY <1>1, <1>2, <1>3, <1>6 DEF Holders, Live
<1>9. Holder = None /\ Holder' = m.id
  BY <1>7, <1>8 DEF Holder
<1> QED BY <1>4, <1>9 DEF Life!Next, Life!Grant, Holder

\* Every step of BrainSession is a step of MissionLifecycle.
LEMMA LifeStep == IInv /\ IInv' /\ [Next]_vars => Life!Next
<1> SUFFICES ASSUME IInv, IInv', [Next]_vars PROVE Life!Next
  OBVIOUS
<1> USE DEF files, world
<1>t. TypeOK /\ now \in Nat /\ session \in Session
  BY DEF IInv, TypeOK
<1>1. ASSUME session' = session, now' = now PROVE Life!Next
  <2>1. Holders' = Holders
    BY <1>1 DEF Holders, Live
  <2> QED BY <1>1, <2>1, TurnStep
<1>2. ASSUME NEW next \in Session, SaveSessionCAS(next), now' = now, next.rev = session.rev,
             session.missions = next.missions, session.pending \subseteq next.pending,
             \A l \in next.leases : l \in session.leases \/ l.state = "revoked"
      PROVE  Life!Next
  <2>1. /\ session'.pending = next.pending /\ session'.missions = next.missions
        /\ session'.leases = next.leases
    BY <1>2 DEF SaveSessionCAS, Session
  <2>2. Holders' \subseteq Holders
    BY <1>t, <1>2, <2>1, FewerHolders
  <2> QED BY <1>2, <2>1, <2>2, TurnStep
<1>3. ASSUME NEW p \in Procs, Start(p) PROVE Life!Next
  <2>1. session = NoSession
    BY <1>3 DEF Start, IInv, SessionSound
  <2> QED BY <1>2, <1>3, <2>1, IdleType DEF Start
<1>4. ASSUME NEW p \in Procs, NEW l \in session.leases, Heartbeat(p, l) PROVE Life!Next
  <2> DEFINE new == RenewLease(l)
             next == [session EXCEPT !.leases = (@ \ {l}) \cup {new}]
  <2>1. new \in Lease /\ new.id = l.id
    BY <1>t, RenewLeaseType DEF Session, RenewLease, Lease
  <2>2. SaveSessionCAS(next) /\ now' = now /\ Live(l)
    BY <1>4 DEF Heartbeat, SaveThenAppend
  <2> HIDE DEF new
  <2>3. /\ session'.pending = session.pending /\ session'.missions = session.missions
        /\ session'.leases = (session.leases \ {l}) \cup {new}
    BY <1>t, <2>2 DEF SaveSessionCAS, Session
  <2>4. Holders' \subseteq Holders
    BY <2>1, <2>2, <2>3 DEF Holders, Live
  <2> QED BY <2>3, <2>4, TurnStep
<1>5. ASSUME NEW leases \in SUBSET session.leases, now' = now,
             SaveSessionCAS([session EXCEPT !.leases = leases])
      PROVE  Life!Next
  <2> DEFINE next == [session EXCEPT !.leases = leases]
  <2>1. /\ next \in Session /\ next.rev = session.rev /\ next.leases = leases
        /\ next.pending = session.pending /\ next.missions = session.missions
    BY <1>t DEF Session
  <2> HIDE DEF next
  <2>2. SaveSessionCAS(next)
    BY <1>5 DEF next
  <2> QED BY <1>2, <1>5, <2>1, <2>2
<1>6. ASSUME NEW p \in Procs, NEW l \in session.leases, Release(p, l) PROVE Life!Next
  BY <1>5, <1>6 DEF Release, SaveThenAppend
<1>7. ASSUME NEW p \in Procs, ReportRelease(p) PROVE Life!Next
  BY <1>5, <1>7 DEF ReportRelease, SaveThenAppend
<1>8. ASSUME NEW p \in Procs, ResumeReconcile(p) PROVE Life!Next
  <2> DEFINE next == Reclaimed(ReconcileSession(session))
  <2>1. /\ next \in Session /\ next.rev = session.rev /\ next.missions = session.missions
        /\ session.pending \subseteq next.pending
        /\ \A l \in next.leases : l.state = "revoked"
    BY <1>t, ReconcileType, ReconcileSound, ZenonT(40) DEF Session
  <2>2. SaveSessionCAS(next) /\ now' = now
    BY <1>8 DEF ResumeReconcile
  <2> HIDE DEF next
  <2> QED BY <1>2, <2>1, <2>2
<1>9. ASSUME NEW p \in Procs, SaveSession(p) PROVE Life!Next
  <2> DEFINE v == local[p].view
  <2>1. /\ v \in Session /\ local[p].pc = "save" /\ SaveSessionCAS(v) /\ now' = now
    BY <1>9 DEF SaveSession, IInv, TypeOK, Local
  <2>2. CASE v.rev = session.rev
    <3>1. Extends(v, session, ledger)
      BY <2>1, <2>2 DEF IInv, Sound, HasView
    <3> QED BY <1>2, <2>1, <2>2, <3>1 DEF Extends
  <2>3. CASE v.rev # session.rev
    BY <1>1, <2>1, <2>3 DEF SaveSessionCAS
  <2> QED BY <2>2, <2>3
<1>10. ASSUME NEW p \in Procs,
              \/ StepDispatch(p) \/ StepWait(p) \/ CancelBegin(p) \/ ResumeReissue(p)
              \/ \E l \in session.leases : ReportCheck(p, l)
       PROVE  Life!Next
  BY <1>1, <1>10 DEF StepDispatch, StepWait, CancelBegin, ResumeReissue, ReportCheck
<1>11. ASSUME NEW p \in Procs, Command(p) PROVE Life!Next
  BY <1>3, <1>4, <1>6, <1>8, <1>10, <1>11, GrantStep DEF Command
<1>12. ASSUME NEW p \in Procs, Continue(p) PROVE Life!Next
  <2>1. ASSUME SaveCheckpoint(p) \/ ReadLedger(p) \/ AppendDispatch(p) \/ AppendEvent(p)
               \/ ReportComplete(p) \/ ReportRefused(p) \/ CancelLease(p)
        PROVE  Life!Next
    BY <1>1, <2>1 DEF SaveCheckpoint, ReadLedger, AppendDispatch, AppendEvent,
       ReportComplete, ReportRefused, CancelLease, CancelActive, CancelAgain, CancelConflict
  <2> QED BY <1>7, <1>9, <1>12, <2>1 DEF Continue
<1>13. ASSUME NEW p \in Procs, Crash(p) \/ CrashTorn(p) PROVE Life!Next
  BY <1>1, <1>13 DEF Crash, CrashTorn
<1>14. ASSUME NEW t \in Tasks, CompleteTask(t) PROVE Life!Next
  BY <1>1, <1>14 DEF CompleteTask
<1>15. CASE Tick
  <2>1. session' = session /\ now' \in Nat /\ now' >= now
    BY <1>t, <1>15 DEF Tick
  <2> QED BY <1>t, <2>1, FewerHolders, TurnStep
<1>16. CASE MoveHead
  BY <1>1, <1>16 DEF MoveHead
<1>17. CASE UNCHANGED vars
  BY <1>1, <1>17 DEF vars
<1> QED BY <1>11, <1>12, <1>13, <1>14, <1>15, <1>16, <1>17 DEF Next

\* session.json implements the life of a mission: a grant is never doubled,
\* repeated or given to a mission nobody offered.
THEOREM Refinement == Spec => LifecycleSpec
<1>1. Init => Life!Init
  BY DEF Init, NoSession, Ids, Holders, Life!Init
<1>2. IInv /\ IInv' /\ [Next]_vars => [Life!Next]_(Life!vars)
  BY LifeStep
<1> QED BY <1>1, <1>2, Safety, PTL DEF Spec, LifecycleSpec, Life!Spec

=============================================================================
