------------------------- MODULE Approvals_proofs -------------------------
(***************************************************************************)
(* Approval and delegated approval, for any number of processes, grants,   *)
(* uses, revisions and crashes.                                            *)
(***************************************************************************)
EXTENDS Approvals, FiniteSetTheorems, TLAPS

USE GrantsAssumption, BoundsAssumption, NoneAssumption

\* The gate of a status, and the status an approval leads to.
LEMMA StatusGate ==
  ASSUME NEW s \in Status
  PROVE  /\ ApprovalGateFor(s) \in Gates
         /\ s \in DOMAIN NextStatus => NextStatus[s] \in Status
BY DEF Status, NextStatus, ApprovalGateFor, Gates

\* Only the holder of the authority lock is under way.
LEMMA OthersIdle ==
  ASSUME TypeOK, ReconcileSettles, NEW p \in Procs, owner # p
  PROVE  local[p] = Idle /\ local[p].pc = "idle"
BY DEF TypeOK, ReconcileSettles, Idle

\* The holder has a grant and, once it has read the state, a request.
LEMMA HolderLocal ==
  ASSUME TypeOK, ReconcileSettles, RequestSound, NEW p \in Procs, owner = p
  PROVE  /\ local[p].pc \in Begun /\ local[p].grant \in Grants
         /\ local[p].pc # "reconcile" => local[p].request \in Requests
         /\ local[p] \in [pc : Begun, grant : Grants, request : Requests \cup {None}]
<1>1. local[p] # Idle
  BY DEF ReconcileSettles
<1>2. local[p] \in [pc : Begun, grant : Grants, request : Requests \cup {None}]
  BY <1>1 DEF TypeOK, Local
<1> QED BY <1>2 DEF RequestSound

\* A save of the state by a command that holds only the spec lock.
LEMMA SaveType ==
  ASSUME rev \in Revisions, Save
  PROVE  rev' \in Revisions /\ rev' = rev + 1 /\ rev \in Nat
BY DEF Save, Revisions

-----------------------------------------------------------------------------
(* Types *)

LEMMA ApproveSpecType ==
  ASSUME TypeOK, NEW by \in Grants \cup {Human}, ApproveSpec(by)
  PROVE  /\ status' \in Status /\ rev' \in Revisions /\ cycle' = cycle /\ worked' = worked
         /\ approval' \in [Gates -> Record \cup {None}]
         /\ archived' = archived /\ amendments' = amendments /\ reopened' = reopened
         /\ answered' \subseteq Gates \X (1 .. MaxCycle)
<1>1. ApprovalGateFor(status) \in Gates /\ NextStatus[status] \in Status
  BY StatusGate DEF TypeOK, ApproveSpec
<1>2. rev' \in Revisions
  BY SaveType DEF TypeOK, ApproveSpec
<1>3. [rev |-> rev, by |-> by] \in Record
  BY DEF TypeOK, Record
<1>4. approval' \in [Gates -> Record \cup {None}]
  BY <1>1, <1>3 DEF TypeOK, ApproveSpec
<1> QED BY <1>1, <1>2, <1>4 DEF TypeOK, ApproveSpec

\* Changing one entry of a grant keeps its type, and that of the ledger.
LEMMA GrantUpdate ==
  ASSUME NEW h \in Grant
  PROVE  /\ \A S, T \in SUBSET Requests : [h EXCEPT !.reserved = S, !.consumed = T] \in Grant
         /\ [h EXCEPT !.issued = TRUE] \in Grant
         /\ [h EXCEPT !.revoked = TRUE] \in Grant
         /\ [h EXCEPT !.expired = TRUE] \in Grant
         /\ h.reserved \subseteq Requests /\ h.consumed \subseteq Requests
BY DEF Grant

LEMMA SetUsesType ==
  ASSUME grants \in [Grants -> Grant], NEW g \in Grants,
         NEW S \in SUBSET Requests, NEW T \in SUBSET Requests
  PROVE  /\ SetUses(g, S, T) \in [Grants -> Grant]
         /\ SetUses(g, S, T)[g].reserved = S /\ SetUses(g, S, T)[g].consumed = T
         /\ SetUses(g, S, T)[g].revoked = grants[g].revoked
         /\ SetUses(g, S, T)[g].issued = grants[g].issued
         /\ \A h \in Grants \ {g} : SetUses(g, S, T)[h] = grants[h]
<1>1. grants[g] \in Grant
  OBVIOUS
<1>2. [grants[g] EXCEPT !.reserved = S, !.consumed = T] \in Grant
  BY <1>1, GrantUpdate
<1> QED BY <1>1, <1>2 DEF SetUses, Grant

LEMMA UsesType ==
  ASSUME grants \in [Grants -> Grant], NEW g \in Grants, NEW q \in Requests
  PROVE  /\ Consumed(g, q) \in [Grants -> Grant]
         /\ Released(g, q) \in [Grants -> Grant]
         /\ Prepared(g, q) \in [Grants -> Grant]
<1>0. grants[g] \in Grant
  OBVIOUS
<1>1. grants[g].reserved \subseteq Requests /\ grants[g].consumed \subseteq Requests
  BY <1>0, GrantUpdate
<1>2. /\ grants[g].reserved \ {q} \in SUBSET Requests
      /\ grants[g].reserved \cup {q} \in SUBSET Requests
      /\ grants[g].consumed \cup {q} \in SUBSET Requests
      /\ grants[g].consumed \in SUBSET Requests
  BY <1>1
<1>3. Consumed(g, q) \in [Grants -> Grant]
  BY <1>2, SetUsesType DEF Consumed
<1>4. Released(g, q) \in [Grants -> Grant]
  BY <1>2, SetUsesType DEF Released
<1>5. Prepared(g, q) \in [Grants -> Grant]
  BY <1>2, SetUsesType DEF Prepared
<1> QED BY <1>3, <1>4, <1>5

LEMMA TypeNext ==
  ASSUME TypeOK, ReconcileSettles, RequestSound, [Next]_vars
  PROVE  TypeOK'
<1>1. CASE Approve
  BY <1>1, ApproveSpecType DEF TypeOK, Approve, authority
<1>2. CASE CompleteTask
  BY <1>2, SaveType DEF TypeOK, CompleteTask, authority
<1>3. CASE ReopenTask
  BY <1>3, SaveType DEF TypeOK, ReopenTask, authority
<1>4. CASE Midreq
  <2>1. PICK scope \in {{"requirements"}, {}} :
            amendments' = amendments \cup {[rev |-> rev, hits |-> scope \cup {"design", "tasks"}]}
    BY <1>4 DEF Midreq
  <2>2. scope \cup {"design", "tasks"} \in SUBSET Gates
    BY DEF Gates
  <2>3. [rev |-> rev, hits |-> scope \cup {"design", "tasks"}] \in [rev : Revisions, hits : SUBSET Gates]
    BY <2>2 DEF TypeOK
  <2>4. amendments' \subseteq [rev : Revisions, hits : SUBSET Gates]
    BY <2>1, <2>3 DEF TypeOK
  <2> QED BY <2>4, <1>4, SaveType DEF TypeOK, Midreq, authority
<1>5. CASE ReopenArtifact
  <2>1. status' \in Status
    BY <1>5 DEF ReopenArtifact, Artifacts, Status, NextStatus
  <2> QED BY <2>1, <1>5, SaveType DEF TypeOK, ReopenArtifact, authority
<1>6. CASE ReopenSpec
  <2>1. status' \in Status /\ cycle' \in 1 .. MaxCycle
    BY <1>6 DEF ReopenSpec, Status, NextStatus, TypeOK
  <2>2. archived' \subseteq Gates \X (1 .. MaxCycle) \X Record
    BY <1>6 DEF ReopenSpec, TypeOK
  <2>3. approval' \in [Gates -> Record \cup {None}]
    BY <1>6 DEF ReopenSpec
  <2> QED BY <2>1, <2>2, <2>3, <1>6, SaveType DEF TypeOK, ReopenSpec, authority
<1>7. ASSUME NEW g \in Grants, GrantStep(g)
      PROVE  TypeOK'
  <2>1. grants' \in [Grants -> Grant]
    <3>1. \E h \in {[grants[g] EXCEPT !.issued = TRUE], [grants[g] EXCEPT !.revoked = TRUE],
                     [grants[g] EXCEPT !.expired = TRUE]} :
             grants' = [grants EXCEPT ![g] = h]
      BY <1>7 DEF GrantStep, Issue, Revoke, Expire
    <3>2. grants[g] \in Grant
      BY DEF TypeOK
    <3>3. PICK h \in Grant : grants' = [grants EXCEPT ![g] = h]
      <4>1. /\ [grants[g] EXCEPT !.issued = TRUE] \in Grant
            /\ [grants[g] EXCEPT !.revoked = TRUE] \in Grant
            /\ [grants[g] EXCEPT !.expired = TRUE] \in Grant
        BY <3>2, GrantUpdate
      <4> QED BY <3>1, <4>1
    <3> QED BY <3>3 DEF TypeOK
  <2> QED BY <2>1, <1>7 DEF GrantStep, Issue, Revoke, Expire, TypeOK, state
<1>8. ASSUME NEW p \in Procs, NEW g \in Grants, Begin(p, g)
      PROVE  TypeOK'
  BY <1>8 DEF Begin, TypeOK, state, Local, Begun
<1>9. ASSUME NEW p \in Procs, ReconcileOne(p)
      PROVE  TypeOK'
  <2>1. local[p].grant \in Grants
    BY <1>9, HolderLocal DEF ReconcileOne, At
  <2>2. grants[local[p].grant].reserved \subseteq Requests
    BY <2>1, GrantUpdate DEF TypeOK
  <2>3. grants' \in [Grants -> Grant]
    BY <1>9, <2>1, <2>2, UsesType DEF ReconcileOne, TypeOK
  <2> QED BY <1>9, <2>3 DEF ReconcileOne, TypeOK, state
<1>10. ASSUME NEW p \in Procs, Load(p)
       PROVE  TypeOK'
  <2>1. local[p] \in [pc : Begun, grant : Grants, request : Requests \cup {None}]
    BY <1>10, HolderLocal DEF Load, At
  <2>2. <<ApprovalGateFor(status), rev>> \in Requests
    BY StatusGate DEF TypeOK, Requests
  <2>3. local' \in [Procs -> Local]
    BY <1>10, <2>1, <2>2 DEF Load, TypeOK, Local, Begun
  <2> QED BY <1>10, <2>3 DEF Load, TypeOK, state
<1>11. ASSUME NEW p \in Procs, Reserve(p)
       PROVE  TypeOK'
  <2>1. /\ local[p] \in [pc : Begun, grant : Grants, request : Requests \cup {None}]
        /\ local[p].request \in Requests
    BY <1>11, HolderLocal DEF Reserve, At
  <2>2. local' \in [Procs -> Local]
    BY <1>11, <2>1 DEF Reserve, Goto, TypeOK, Local, Begun
  <2>3. grants' \in [Grants -> Grant]
    BY <1>11, <2>1, UsesType DEF Reserve, TypeOK
  <2> QED BY <1>11, <2>2, <2>3 DEF Reserve, TypeOK, state
<1>12. ASSUME NEW p \in Procs, Refuse(p)
       PROVE  TypeOK'
  BY <1>12 DEF Refuse, Finish, TypeOK, state, Local
<1>13. ASSUME NEW p \in Procs, Commit(p)
       PROVE  TypeOK'
  <2>1. local[p] \in [pc : Begun, grant : Grants, request : Requests \cup {None}]
    BY <1>13, HolderLocal DEF Commit, At
  <2>2. local' \in [Procs -> Local]
    BY <1>13, <2>1 DEF Commit, Goto, TypeOK, Local, Begun
  <2>3. ApproveSpec(local[p].grant) /\ local[p].grant \in Grants
    BY <1>13, <2>1 DEF Commit
  <2> QED BY <1>13, <2>2, <2>3, ApproveSpecType DEF Commit, TypeOK
<1>14. ASSUME NEW p \in Procs, CommitRefused(p)
       PROVE  TypeOK'
  <2>1. local[p] \in [pc : Begun, grant : Grants, request : Requests \cup {None}]
    BY <1>14, HolderLocal DEF CommitRefused, At
  <2>2. local' \in [Procs -> Local]
    BY <1>14, <2>1 DEF CommitRefused, Goto, TypeOK, Local, Begun
  <2> QED BY <1>14, <2>2 DEF CommitRefused, TypeOK, state
<1>15. ASSUME NEW p \in Procs, Close(p)
       PROVE  TypeOK'
  <2>1. local[p].grant \in Grants /\ local[p].request \in Requests
    BY <1>15, HolderLocal DEF Close, At
  <2>2. grants' \in [Grants -> Grant]
    BY <1>15, <2>1, UsesType DEF Close, TypeOK
  <2> QED BY <1>15, <2>2 DEF Close, Finish, TypeOK, state, Local
<1>16. ASSUME NEW p \in Procs, Crash(p)
       PROVE  TypeOK'
  BY <1>16 DEF Crash, Finish, TypeOK, state, Local
<1>17. CASE UNCHANGED vars
  BY <1>17 DEF TypeOK, vars
<1> QED
  BY <1>1, <1>2, <1>3, <1>4, <1>5, <1>6, <1>7, <1>8, <1>9, <1>10, <1>11, <1>12, <1>13,
     <1>14, <1>15, <1>16, <1>17 DEF Next, SpecStep, DelegateStep

-----------------------------------------------------------------------------
(* What the steps change *)

\* The uses of the grant that is written, and of the others.
LEMMA UsesEffect ==
  ASSUME grants \in [Grants -> Grant], NEW g \in Grants, NEW q \in Requests
  PROVE  /\ Consumed(g, q)[g].reserved = grants[g].reserved \ {q}
         /\ Consumed(g, q)[g].consumed = grants[g].consumed \cup {q}
         /\ Consumed(g, q)[g].revoked = grants[g].revoked
         /\ Released(g, q)[g].reserved = grants[g].reserved \ {q}
         /\ Released(g, q)[g].consumed = grants[g].consumed
         /\ Released(g, q)[g].revoked = grants[g].revoked
         /\ Prepared(g, q)[g].reserved = grants[g].reserved \cup {q}
         /\ Prepared(g, q)[g].consumed = grants[g].consumed
         /\ Prepared(g, q)[g].revoked = grants[g].revoked
         /\ \A h \in Grants \ {g} : /\ Consumed(g, q)[h] = grants[h]
                                   /\ Released(g, q)[h] = grants[h]
                                   /\ Prepared(g, q)[h] = grants[h]
<1>0. grants[g] \in Grant
  OBVIOUS
<1>1. ASSUME NEW S, NEW T
      PROVE  /\ SetUses(g, S, T)[g].reserved = S /\ SetUses(g, S, T)[g].consumed = T
             /\ SetUses(g, S, T)[g].revoked = grants[g].revoked
             /\ \A h \in Grants \ {g} : SetUses(g, S, T)[h] = grants[h]
  BY <1>0 DEF SetUses, Grant
<1> QED BY <1>1 DEF Consumed, Released, Prepared

\* Issuing, revoking or expiring a grant leaves its uses alone, and an approval in
\* flight its authority.
LEMMA FlagEffect ==
  ASSUME TypeOK, NEW g \in Grants, GrantStep(g), NEW h \in Grants
  PROVE  /\ grants'[h].reserved = grants[h].reserved
         /\ grants'[h].consumed = grants[h].consumed
         /\ owner # None => grants'[h].revoked = grants[h].revoked
<1>1. /\ \E e \in {[grants[g] EXCEPT !.issued = TRUE], [grants[g] EXCEPT !.revoked = TRUE],
                   [grants[g] EXCEPT !.expired = TRUE]} :
            /\ grants' = [grants EXCEPT ![g] = e]
            /\ owner # None => e = [grants[g] EXCEPT !.expired = TRUE]
  BY DEF GrantStep, Issue, Revoke, Expire
<1>2. grants[g] \in Grant
  BY DEF TypeOK
<1>3. \A e \in {[grants[g] EXCEPT !.issued = TRUE], [grants[g] EXCEPT !.revoked = TRUE],
               [grants[g] EXCEPT !.expired = TRUE]} :
          e.reserved = grants[g].reserved /\ e.consumed = grants[g].consumed
  BY <1>2 DEF Grant
<1>4. [grants[g] EXCEPT !.expired = TRUE].revoked = grants[g].revoked
  BY <1>2 DEF Grant
<1> QED BY <1>1, <1>3, <1>4 DEF TypeOK

\* A command with the spec lock alone saves once and leaves the grants alone.
LEMMA SpecStepFrame ==
  ASSUME SpecStep
  PROVE  Save /\ UNCHANGED authority
BY DEF SpecStep, Approve, ApproveSpec, CompleteTask, ReopenTask, Midreq, ReopenArtifact,
       ReopenSpec, authority

-----------------------------------------------------------------------------
(* A grant is never overdrawn *)

LEMMA UsesNext ==
  ASSUME TypeOK, ReconcileSettles, RequestSound, GrantNeverOverdrawn, [Next]_vars
  PROVE  GrantNeverOverdrawn'
<1>1. ASSUME \A h \in Grants : Uses(h)' = Uses(h)
      PROVE  GrantNeverOverdrawn'
  <2> SUFFICES ASSUME NEW h \in Grants
               PROVE  IsFiniteSet(Uses(h)') /\ Cardinality(Uses(h)') <= MaxUses
    BY DEF GrantNeverOverdrawn
  <2> QED BY <1>1 DEF GrantNeverOverdrawn
<1>2. CASE UNCHANGED grants
  <2>1. \A h \in Grants : Uses(h)' = Uses(h)
    BY <1>2 DEF Uses
  <2> QED BY <1>1, <2>1
<1>3. ASSUME NEW g \in Grants, GrantStep(g)
      PROVE  GrantNeverOverdrawn'
  <2>1. \A h \in Grants : Uses(h)' = Uses(h)
    BY <1>3, FlagEffect DEF Uses
  <2> QED BY <1>1, <2>1
<1>4. ASSUME NEW g \in Grants, NEW q \in grants[g].reserved,
             grants' = Consumed(g, q) \/ grants' = Released(g, q)
      PROVE  GrantNeverOverdrawn'
  <2>0. grants \in [Grants -> Grant] /\ grants[g] \in Grant
    BY DEF TypeOK
  <2>1. q \in Requests /\ grants \in [Grants -> Grant]
    BY <2>0, GrantUpdate
  <2>2. Uses(g)' \subseteq Uses(g) /\ \A h \in Grants \ {g} : Uses(h)' = Uses(h)
    BY <1>4, <2>1, UsesEffect DEF Uses
  <2>3. IsFiniteSet(Uses(g)') /\ Cardinality(Uses(g)') <= Cardinality(Uses(g))
    BY <2>2, FS_Subset DEF GrantNeverOverdrawn
  <2>4. Cardinality(Uses(g)') \in Nat /\ Cardinality(Uses(g)) \in Nat
    BY <2>3, FS_CardinalityType DEF GrantNeverOverdrawn
  <2> QED BY <2>2, <2>3, <2>4 DEF GrantNeverOverdrawn
<1>5. ASSUME NEW p \in Procs, ReconcileOne(p)
      PROVE  GrantNeverOverdrawn'
  <2>1. PICK g \in Grants : g = local[p].grant
    BY <1>5, HolderLocal DEF ReconcileOne, At
  <2>2. PICK q \in grants[g].reserved : grants' = Consumed(g, q) \/ grants' = Released(g, q)
    BY <1>5, <2>1 DEF ReconcileOne
  <2> QED BY <2>1, <2>2, <1>4
<1>6. ASSUME NEW p \in Procs, Reserve(p)
      PROVE  GrantNeverOverdrawn'
  <2>0. PICK g \in Grants, q \in Requests : g = local[p].grant /\ q = local[p].request
    BY <1>6, HolderLocal DEF Reserve, At
  <2>1. grants \in [Grants -> Grant]
    BY DEF TypeOK
  <2>2. grants' = Prepared(g, q) /\ Cardinality(Uses(g)) < MaxUses
    BY <1>6, <2>0 DEF Reserve, Authorized
  <2>3. Uses(g)' = Uses(g) \cup {q} /\ \A h \in Grants \ {g} : Uses(h)' = Uses(h)
    BY <2>1, <2>2, UsesEffect DEF Uses
  <2>4. /\ IsFiniteSet(Uses(g)') /\ Cardinality(Uses(g)) \in Nat
        /\ Cardinality(Uses(g)') \in {Cardinality(Uses(g)), Cardinality(Uses(g)) + 1}
    BY <2>1, <2>3, FS_AddElement, FS_CardinalityType DEF GrantNeverOverdrawn
  <2>5. Cardinality(Uses(g)') <= MaxUses
    BY <2>2, <2>4
  <2> QED BY <2>3, <2>4, <2>5 DEF GrantNeverOverdrawn
<1>7. ASSUME NEW p \in Procs, Close(p)
      PROVE  GrantNeverOverdrawn'
  <2>1. PICK g \in Grants, q \in Requests :
           g = local[p].grant /\ q = local[p].request /\ q \in grants[g].reserved
    BY <1>7, HolderLocal DEF Close, At, ReconcileSettles
  <2>2. grants' = Consumed(g, q) \/ grants' = Released(g, q)
    BY <1>7, <2>1 DEF Close
  <2> QED BY <2>1, <2>2, <1>4
<1>8. SpecStep => UNCHANGED grants
  BY SpecStepFrame DEF authority
<1> QED
  BY <1>2, <1>3, <1>5, <1>6, <1>7, <1>8
  DEF Next, DelegateStep, Begin, Load, Refuse, Commit, CommitRefused, Crash, vars

-----------------------------------------------------------------------------
(* The authority lock *)

LEMMA LockNext ==
  ASSUME TypeOK, ReconcileSettles, RequestSound, [Next]_vars
  PROVE  ReconcileSettles'
<1>0. ASSUME NEW p \in Procs, owner \in {None, p},
             \A r \in Procs \ {p} : local'[r] = local[r], owner' \in {None, p},
             owner' = p <=> local'[p] # Idle,
             local'[p].pc = "reserve" => grants'[local'[p].grant].reserved = {},
             local'[p].pc \in {"approve", "consume", "release"}
                => grants'[local'[p].grant].reserved = {local'[p].request}
      PROVE  ReconcileSettles'
  <2>1. ASSUME NEW r \in Procs \ {p}
        PROVE  owner' # r /\ local'[r] = Idle /\ local'[r].pc = "idle"
    BY <1>0, OthersIdle
  <2> QED BY <1>0, <2>1 DEF ReconcileSettles
<1>1. CASE SpecStep
  BY <1>1, SpecStepFrame DEF ReconcileSettles, authority
<1>2. ASSUME NEW g \in Grants, GrantStep(g)
      PROVE  ReconcileSettles'
  <2>1. ASSUME NEW p \in Procs, local[p].pc # "idle"
        PROVE  local[p].grant \in Grants
    BY <2>1 DEF TypeOK, Local, Idle
  <2>2. /\ owner' = owner /\ local' = local
        /\ \A h \in Grants : grants'[h].reserved = grants[h].reserved
    BY <1>2, FlagEffect DEF GrantStep, Issue, Revoke, Expire
  <2>3. ASSUME NEW p \in Procs
        PROVE  /\ owner' = p <=> local'[p] # Idle
               /\ local'[p].pc = "reserve" => grants'[local'[p].grant].reserved = {}
               /\ local'[p].pc \in {"approve", "consume", "release"}
                     => grants'[local'[p].grant].reserved = {local'[p].request}
    BY <2>1, <2>2 DEF ReconcileSettles
  <2> QED BY <2>3 DEF ReconcileSettles
<1>3. ASSUME NEW p \in Procs, NEW g \in Grants, Begin(p, g)
      PROVE  ReconcileSettles'
  BY <1>0, <1>3 DEF Begin, TypeOK, Idle
<1>4. ASSUME NEW p \in Procs, ReconcileOne(p)
      PROVE  ReconcileSettles'
  BY <1>0, <1>4 DEF ReconcileOne, At, ReconcileSettles
<1>5. ASSUME NEW p \in Procs, Load(p)
      PROVE  ReconcileSettles'
  <2>1. local[p] \in [pc : Begun, grant : Grants, request : Requests \cup {None}]
    BY <1>5, HolderLocal DEF Load, At
  <2>2. local'[p].pc = "reserve" /\ local'[p].grant = local[p].grant
    BY <1>5, <2>1 DEF Load, TypeOK
  <2>3. /\ owner = p /\ owner' = p /\ grants'[local'[p].grant].reserved = {}
        /\ \A r \in Procs \ {p} : local'[r] = local[r]
    BY <1>5, <2>2 DEF Load, At, TypeOK
  <2>4. local'[p] # Idle /\ local'[p].pc \notin {"approve", "consume", "release"}
    BY <2>2 DEF Idle
  <2> QED BY <1>0, <2>3, <2>4
<1>6. ASSUME NEW p \in Procs, Reserve(p)
      PROVE  ReconcileSettles'
  <2>1. /\ local[p] \in [pc : Begun, grant : Grants, request : Requests \cup {None}]
        /\ local[p].request \in Requests
    BY <1>6, HolderLocal DEF Reserve, At
  <2>2. /\ local'[p].pc = "approve" /\ local'[p].grant = local[p].grant
        /\ local'[p].request = local[p].request
    BY <1>6, <2>1 DEF Reserve, Goto, TypeOK
  <2>3. grants[local[p].grant].reserved = {}
    BY <1>6 DEF Reserve, At, ReconcileSettles
  <2>4. grants'[local[p].grant].reserved = {local[p].request}
    BY <1>6, <2>1, <2>3, UsesEffect DEF Reserve, TypeOK
  <2> QED BY <1>0, <1>6, <2>2, <2>4 DEF Reserve, Goto, At, TypeOK, Idle
<1>7. ASSUME NEW p \in Procs, Refuse(p) \/ Close(p) \/ Crash(p)
      PROVE  ReconcileSettles'
  BY <1>0, <1>7 DEF Refuse, Close, Crash, At, Finish, TypeOK, Idle
<1>8. ASSUME NEW p \in Procs, Commit(p) \/ CommitRefused(p)
      PROVE  ReconcileSettles'
  <2>1. owner = p /\ owner' = owner /\ grants' = grants /\ local[p].pc = "approve"
    BY <1>8 DEF Commit, CommitRefused, At
  <2>2. local[p] \in [pc : Begun, grant : Grants, request : Requests \cup {None}]
    BY <2>1, HolderLocal
  <2>3. /\ local'[p].pc \in {"consume", "release"} /\ local'[p].grant = local[p].grant
        /\ local'[p].request = local[p].request
        /\ \A r \in Procs \ {p} : local'[r] = local[r]
    BY <1>8, <2>2 DEF Commit, CommitRefused, Goto, TypeOK
  <2>4. grants[local[p].grant].reserved = {local[p].request}
    BY <2>1 DEF ReconcileSettles
  <2> QED BY <1>0, <2>1, <2>3, <2>4 DEF Idle
<1>9. CASE UNCHANGED vars
  BY <1>9 DEF vars, ReconcileSettles
<1> QED
  BY <1>1, <1>2, <1>3, <1>4, <1>5, <1>6, <1>7, <1>8, <1>9 DEF Next, DelegateStep

-----------------------------------------------------------------------------
(* Requests and the approvals they name *)

\* An approval fills a gate that is empty in this cycle.
LEMMA ApproveSpecEffect ==
  ASSUME TypeOK, PastRevisions, NEW by \in Grants \cup {Human}, ApproveSpec(by)
  PROVE  /\ approval[ApprovalGateFor(status)] = None
         /\ approval'[ApprovalGateFor(status)] = [rev |-> rev, by |-> by]
         /\ ApprovalGateFor(status) \in Gates
         /\ <<ApprovalGateFor(status), cycle>> \in answered'
         /\ \A x \in Gates \ {ApprovalGateFor(status)} : approval'[x] = approval[x]
         /\ answered \subseteq answered' /\ archived' = archived /\ cycle' = cycle
         /\ rev' = rev + 1 /\ amendments' = amendments /\ rev \in Nat
<1>1. ApprovalGateFor(status) \in Gates
  BY StatusGate DEF TypeOK
<1>2. <<ApprovalGateFor(status), cycle>> \notin answered
  BY DEF ApproveSpec, RequestAnswerable
<1>3. approval[ApprovalGateFor(status)] = None
  BY <1>1, <1>2 DEF PastRevisions
<1> QED BY <1>1, <1>3, SaveType DEF ApproveSpec, TypeOK

\* A command with the spec lock alone neither takes an approval by a grant away nor
\* makes one; a spec reopen moves it.
LEMMA ApprovedKept ==
  ASSUME TypeOK, PastRevisions, SpecStep, NEW g \in Grants, NEW q \in Requests
  PROVE  /\ Approved(g, q) => Approved(g, q)'
         /\ approval[q[1]] # [rev |-> q[2], by |-> g] => approval'[q[1]] # [rev |-> q[2], by |-> g]
<1> DEFINE r == [rev |-> q[2], by |-> g]
<1>0. q[1] \in Gates /\ r.by = g /\ r # None /\ g # Human
  <2>1. q[1] \in Gates /\ q[2] \in Revisions
    BY DEF Requests
  <2>2. Human \notin Grants
    BY GrantsAssumption
  <2>3. r # None
    BY <2>1, NoneAssumption DEF Record
  <2> QED BY <2>1, <2>2, <2>3
<1>1. CASE Approve
  <2>1. ApproveSpec(Human)
    BY <1>1 DEF Approve
  <2>2. /\ \A x \in Gates : approval[x] # None => approval'[x] = approval[x]
        /\ \A x \in Gates : approval'[x] = approval[x] \/ approval'[x].by = Human
        /\ archived' = archived
    <3>1. Human \in Grants \cup {Human}
      OBVIOUS
    <3>2. /\ approval[ApprovalGateFor(status)] = None
          /\ approval'[ApprovalGateFor(status)] = [rev |-> rev, by |-> Human]
          /\ \A x \in Gates \ {ApprovalGateFor(status)} : approval'[x] = approval[x]
          /\ archived' = archived
      BY <2>1, <3>1, ApproveSpecEffect
    <3> QED BY <3>2
  <2> QED BY <1>0, <2>2 DEF Approved
<1>2. CASE ReopenSpec
  <2>1. cycle \in 1 .. MaxCycle /\ cycle' \in 1 .. MaxCycle
    BY <1>2 DEF ReopenSpec, TypeOK
  <2>2. approval[q[1]] = r => <<q[1], cycle, r>> \in archived'
    BY <1>2, <1>0 DEF ReopenSpec
  <2>3. archived \subseteq archived' /\ approval'[q[1]] = None
    BY <1>2, <1>0 DEF ReopenSpec
  <2> QED BY <1>0, <2>1, <2>2, <2>3 DEF Approved
<1>3. CASE CompleteTask \/ ReopenTask \/ Midreq \/ ReopenArtifact
  <2>1. approval' = approval /\ archived' = archived
    BY <1>3 DEF CompleteTask, ReopenTask, Midreq, ReopenArtifact
  <2> QED BY <2>1 DEF Approved
<1> QED BY <1>1, <1>2, <1>3 DEF SpecStep

LEMMA RequestNext ==
  ASSUME TypeOK, ReconcileSettles, RequestSound, PastRevisions, [Next]_vars
  PROVE  RequestSound'
<1> DEFINE Sound(p) ==
      LET g == local[p].grant
          q == local[p].request IN
      local[p].pc \in Begun \ {"reconcile"} =>
          /\ q # None /\ q[2] <= rev
          /\ local[p].pc \in {"reserve", "approve"} /\ q[2] = rev => q[1] = ApprovalGateFor(status)
          /\ local[p].pc # "consume" => approval[q[1]] # [rev |-> q[2], by |-> g]
          /\ local[p].pc = "consume" => Approved(g, q)
          /\ local[p].pc = "approve" => ~grants[g].revoked
<1>0. ASSUME NEW p \in Procs, owner \in {None, p},
             \A r \in Procs \ {p} : local'[r] = local[r], Sound(p)'
      PROVE  RequestSound'
  <2>1. ASSUME NEW r \in Procs \ {p}
        PROVE  local'[r].pc \notin Begun
    BY <1>0, OthersIdle DEF Begun
  <2>2. ASSUME NEW r \in Procs
        PROVE  Sound(r)'
    BY <1>0, <2>1
  <2> QED BY <2>2 DEF RequestSound
<1>1. CASE SpecStep
  <2>1. UNCHANGED <<grants, local>> /\ rev' = rev + 1 /\ rev \in Nat
    BY <1>1, SpecStepFrame, SaveType DEF authority, TypeOK
  <2>2. ASSUME NEW p \in Procs, local[p].pc \in Begun \ {"reconcile"}
        PROVE  Sound(p)'
    <3>1. PICK g \in Grants, q \in Requests : g = local[p].grant /\ q = local[p].request
      BY <2>2, HolderLocal DEF ReconcileSettles, Begun, Idle
    <3>2. q # None /\ q[2] <= rev /\ q[2] \in Nat /\ q[2] < rev'
      <4>1. q # None /\ q[2] <= rev
        BY <2>2, <3>1 DEF RequestSound
      <4>2. q[2] \in Nat
        BY <3>1 DEF Requests, Revisions
      <4> QED BY <2>1, <4>1, <4>2
    <3>3. /\ local[p].pc # "consume" => approval'[q[1]] # [rev |-> q[2], by |-> g]
          /\ local[p].pc = "consume" => Approved(g, q)'
      BY <1>1, <2>2, <3>1, ApprovedKept DEF RequestSound
    <3>4. local[p].pc = "approve" => ~grants[g].revoked
      BY <2>2, <3>1 DEF RequestSound
    <3> QED BY <2>1, <3>1, <3>2, <3>3, <3>4
  <2> QED BY <2>1, <2>2 DEF RequestSound
<1>2. ASSUME NEW g \in Grants, GrantStep(g)
      PROVE  RequestSound'
  <2>1. UNCHANGED <<owner, local, state>>
    BY <1>2 DEF GrantStep, Issue, Revoke, Expire
  <2>2. ASSUME NEW p \in Procs, local[p].pc \in Begun \ {"reconcile"}
        PROVE  Sound(p)'
    <3>1. owner = p /\ owner # None /\ local[p].grant \in Grants
      BY <2>2, HolderLocal DEF ReconcileSettles, Begun, Idle
    <3>2. grants'[local[p].grant].revoked = grants[local[p].grant].revoked
      BY <1>2, <3>1, FlagEffect
    <3> QED BY <2>1, <2>2, <3>2 DEF RequestSound, state, Approved
  <2> QED BY <2>1, <2>2 DEF RequestSound
<1>3. ASSUME NEW p \in Procs, NEW g \in Grants, Begin(p, g)
      PROVE  RequestSound'
  BY <1>0, <1>3 DEF Begin, TypeOK
<1>4. ASSUME NEW p \in Procs, ReconcileOne(p)
      PROVE  RequestSound'
  BY <1>0, <1>4 DEF ReconcileOne, At
<1>5. ASSUME NEW p \in Procs, Load(p)
      PROVE  RequestSound'
  <2>1. local[p] \in [pc : Begun, grant : Grants, request : Requests \cup {None}]
    BY <1>5, HolderLocal DEF Load, At
  <2>2. /\ local'[p].pc = "reserve" /\ local'[p].grant = local[p].grant
        /\ local'[p].request = <<ApprovalGateFor(status), rev>>
        /\ owner = p /\ \A r \in Procs \ {p} : local'[r] = local[r]
        /\ UNCHANGED <<status, rev, approval>>
    BY <1>5, <2>1 DEF Load, TypeOK, At, state
  <2>3. <<ApprovalGateFor(status), rev>> # None /\ rev \in Nat /\ ApprovalGateFor(status) \in Gates
    BY StatusGate, NoneAssumption DEF TypeOK, Revisions, Requests
  <2>4. approval[ApprovalGateFor(status)] # [rev |-> rev, by |-> local[p].grant]
    <3>1. [rev |-> rev, by |-> local[p].grant] # None
      BY <2>1, NoneAssumption DEF Record, TypeOK
    <3>2. approval[ApprovalGateFor(status)] # None => approval[ApprovalGateFor(status)].rev < rev
      BY <2>3 DEF PastRevisions
    <3> QED BY <2>3, <3>1, <3>2
  <2>5. Sound(p)'
    BY <2>2, <2>3, <2>4
  <2> QED BY <1>0, <2>2, <2>5
<1>6. ASSUME NEW p \in Procs, Reserve(p)
      PROVE  RequestSound'
  <2>1. PICK g \in Grants, q \in Requests : g = local[p].grant /\ q = local[p].request
    BY <1>6, HolderLocal DEF Reserve, At
  <2>2. /\ local'[p].pc = "approve" /\ local'[p].grant = g /\ local'[p].request = q
        /\ owner = p /\ \A r \in Procs \ {p} : local'[r] = local[r]
        /\ UNCHANGED <<status, rev, approval>> /\ local[p].pc = "reserve"
    BY <1>6, <2>1 DEF Reserve, TypeOK, At, Goto, state, Local, Idle
  <2>3. ~grants'[g].revoked
    BY <1>6, <2>1, UsesEffect DEF Reserve, Authorized, TypeOK
  <2>4. Sound(p)'
    BY <2>1, <2>2, <2>3 DEF RequestSound, Begun
  <2> QED BY <1>0, <2>2, <2>4
<1>7. ASSUME NEW p \in Procs, Refuse(p) \/ Close(p) \/ Crash(p)
      PROVE  RequestSound'
  <2>1. owner = p /\ local' = [local EXCEPT ![p] = Idle]
    BY <1>7 DEF Refuse, Close, Crash, At, Finish
  <2>2. local'[p].pc = "idle" /\ \A r \in Procs \ {p} : local'[r] = local[r]
    BY <2>1 DEF TypeOK, Idle
  <2>3. Sound(p)'
    BY <2>2 DEF Begun
  <2> QED BY <1>0, <2>1, <2>2, <2>3
<1>8. ASSUME NEW p \in Procs, Commit(p)
      PROVE  RequestSound'
  <2>1. PICK g \in Grants, q \in Requests : g = local[p].grant /\ q = local[p].request
    BY <1>8, HolderLocal DEF Commit, At
  <2>2. /\ local'[p].pc = "consume" /\ local'[p].grant = g /\ local'[p].request = q
        /\ owner = p /\ \A r \in Procs \ {p} : local'[r] = local[r]
        /\ local[p].pc = "approve" /\ rev = q[2] /\ ApproveSpec(g)
    BY <1>8, <2>1 DEF Commit, TypeOK, At, Goto, Local, Idle
  <2>3. q[1] = ApprovalGateFor(status) /\ q # None
    BY <2>1, <2>2 DEF RequestSound, Begun
  <2>4. approval'[q[1]] = [rev |-> q[2], by |-> g] /\ rev' = rev + 1 /\ rev \in Nat
    BY <2>2, <2>3, ApproveSpecEffect
  <2>5. Sound(p)'
    BY <2>2, <2>3, <2>4 DEF Approved
  <2> QED BY <1>0, <2>2, <2>5
<1>9. ASSUME NEW p \in Procs, CommitRefused(p)
      PROVE  RequestSound'
  <2>1. PICK g \in Grants, q \in Requests : g = local[p].grant /\ q = local[p].request
    BY <1>9, HolderLocal DEF CommitRefused, At
  <2>2. /\ local'[p].pc = "release" /\ local'[p].grant = g /\ local'[p].request = q
        /\ owner = p /\ \A r \in Procs \ {p} : local'[r] = local[r]
        /\ local[p].pc = "approve" /\ UNCHANGED <<status, rev, approval>>
    BY <1>9, <2>1 DEF CommitRefused, TypeOK, At, Goto, Local, Idle, state
  <2>3. Sound(p)'
    BY <2>1, <2>2 DEF RequestSound, Begun
  <2> QED BY <1>0, <2>2, <2>3
<1>10. CASE UNCHANGED vars
  BY <1>10 DEF vars, RequestSound, Approved
<1> QED
  BY <1>1, <1>2, <1>3, <1>4, <1>5, <1>6, <1>7, <1>8, <1>9, <1>10 DEF Next, DelegateStep

-----------------------------------------------------------------------------
(* Revisions, amendments and the uses approvals stand on *)

LEMMA PastNext ==
  ASSUME TypeOK, ReconcileSettles, RequestSound, PastRevisions, [Next]_vars
  PROVE  PastRevisions'
<1>1. ASSUME NEW by \in Grants \cup {Human}, ApproveSpec(by)
      PROVE  PastRevisions'
  <2>1. rev' = rev + 1 /\ rev \in Nat /\ amendments' = amendments
    BY <1>1, ApproveSpecEffect
  <2>2. ASSUME NEW a \in amendments
        PROVE  a.rev < rev'
    <3>1. a.rev \in Nat /\ a.rev < rev
      BY DEF PastRevisions, TypeOK, Revisions
    <3> QED BY <2>1, <3>1
  <2>3. ASSUME NEW x \in Gates, approval'[x] # None
        PROVE  <<x, cycle>> \in answered' /\ approval'[x].rev < rev'
    <3>1. CASE x = ApprovalGateFor(status)
      <4>1. approval'[x] = [rev |-> rev, by |-> by] /\ <<x, cycle>> \in answered'
        BY <1>1, <3>1, ApproveSpecEffect
      <4>2. approval'[x].rev = rev
        BY <4>1
      <4> QED BY <2>1, <4>1, <4>2
    <3>2. CASE x # ApprovalGateFor(status)
      <4>1. approval'[x] = approval[x] /\ answered \subseteq answered'
        BY <1>1, <3>2, ApproveSpecEffect
      <4>2. approval[x].rev \in Nat
        BY <2>3, <4>1 DEF TypeOK, Record, Revisions
      <4> QED BY <2>1, <2>3, <4>1, <4>2 DEF PastRevisions
    <3> QED BY <3>1, <3>2
  <2>4. cycle' = cycle
    BY <1>1, ApproveSpecEffect
  <2> QED BY <2>1, <2>2, <2>3, <2>4 DEF PastRevisions
<1>2. CASE SpecStep /\ ~Approve
  <2>1. rev' = rev + 1 /\ rev \in Nat
    BY <1>2, SpecStepFrame, SaveType DEF TypeOK
  <2>2. ASSUME NEW a \in amendments'
        PROVE  a.rev < rev'
    <3>1. a \in amendments \/ a.rev = rev
      BY <1>2, <2>2 DEF SpecStep, CompleteTask, ReopenTask, Midreq, ReopenArtifact, ReopenSpec
    <3>2. a \in amendments => a.rev \in Nat /\ a.rev < rev
      BY DEF PastRevisions, TypeOK, Revisions
    <3> QED BY <2>1, <3>1, <3>2
  <2>3. ASSUME NEW x \in Gates, approval'[x] # None
        PROVE  <<x, cycle'>> \in answered' /\ approval'[x].rev < rev'
    <3>1. approval' = approval /\ cycle' = cycle /\ answered' = answered
      BY <1>2, <2>3 DEF SpecStep, CompleteTask, ReopenTask, Midreq, ReopenArtifact, ReopenSpec
    <3>2. approval[x].rev \in Nat
      BY <2>3, <3>1 DEF TypeOK, Record, Revisions
    <3> QED BY <2>1, <2>3, <3>1, <3>2 DEF PastRevisions
  <2> QED BY <2>2, <2>3 DEF PastRevisions
<1>3. CASE Approve
  BY <1>1, <1>3 DEF Approve
<1>4. ASSUME NEW p \in Procs, Commit(p)
      PROVE  PastRevisions'
  <2>1. local[p].grant \in Grants /\ ApproveSpec(local[p].grant)
    BY <1>4, HolderLocal DEF Commit, At
  <2> QED BY <1>1, <2>1
<1>5. CASE UNCHANGED state
  BY <1>5 DEF state, PastRevisions
<1> QED
  BY <1>2, <1>3, <1>4, <1>5 DEF Next, DelegateStep, GrantStep, Issue, Revoke, Expire, Begin,
     ReconcileOne, Load, Reserve, Refuse, CommitRefused, Close, Crash, vars, state

LEMMA StaleNext ==
  ASSUME TypeOK, ReconcileSettles, RequestSound, PastRevisions, StaleNeverPlanned, [Next]_vars
  PROVE  StaleNeverPlanned'
<1>1. ASSUME NEW by \in Grants \cup {Human}, ApproveSpec(by)
      PROVE  StaleNeverPlanned'
  <2> DEFINE g == ApprovalGateFor(status)
  <2>0. /\ approval'[g] = [rev |-> rev, by |-> by] /\ g \in Gates
        /\ \A x \in Gates \ {g} : approval'[x] = approval[x]
        /\ amendments' = amendments /\ rev \in Nat
    BY <1>1, ApproveSpecEffect
  <2> SUFFICES ASSUME approval'["tasks"] # None, NEW a \in amendments,
                      NEW x \in {"requirements", "design"},
                      x \in a.hits, approval'[x] # None, approval'[x].rev <= a.rev
               PROVE  approval'["tasks"].rev <= a.rev
    BY <2>0 DEF StaleNeverPlanned
  <2>1. x \in Gates /\ "tasks" \in Gates /\ x # "tasks" /\ a.rev \in Nat /\ a.rev < rev
    BY DEF Gates, PastRevisions, TypeOK, Revisions
  <2>2. x # g
    <3> SUFFICES ASSUME x = g PROVE FALSE
      OBVIOUS
    <3>1. approval'[x].rev = rev
      BY <2>0
    <3> QED BY <2>0, <2>1, <3>1
  <2>3. approval'[x] = approval[x]
    BY <2>0, <2>1, <2>2
  <2>4. CASE g = "tasks"
    <3>1. status = "tasks"
      BY <2>4 DEF ApprovalGateFor
    <3>2. NoStaleRecords
      BY <1>1, <3>1 DEF ApproveSpec, ApprovalGate, ApproveTarget, NextStatus
    <3>3. approval[x].rev > a.rev
      BY <2>1, <2>3, <3>2 DEF NoStaleRecords, RecordIsFresh
    <3>4. approval[x].rev \in Nat
      BY <2>1, <2>3 DEF TypeOK, Record, Revisions
    <3> QED BY <2>1, <2>3, <3>3, <3>4
  <2>5. CASE g # "tasks"
    BY <2>0, <2>1, <2>3, <2>5 DEF StaleNeverPlanned
  <2> QED BY <2>4, <2>5
<1>2. CASE Midreq
  <2>1. approval' = approval
    BY <1>2 DEF Midreq
  <2>2. ASSUME NEW a \in amendments', a \notin amendments
        PROVE  a.rev = rev
    BY <1>2, <2>2 DEF Midreq
  <2>3. approval["tasks"] # None => approval["tasks"].rev <= rev
    <3>1. "tasks" \in Gates
      BY DEF Gates
    <3>2. approval["tasks"] # None => approval["tasks"].rev \in Nat /\ rev \in Nat
      BY <3>1 DEF TypeOK, Record, Revisions
    <3>3. approval["tasks"] # None => approval["tasks"].rev < rev
      BY <3>1 DEF PastRevisions
    <3> QED BY <3>2, <3>3
  <2> QED BY <2>1, <2>2, <2>3 DEF StaleNeverPlanned
<1>3. CASE ReopenSpec
  BY <1>3 DEF ReopenSpec, StaleNeverPlanned, Gates
<1>4. CASE CompleteTask \/ ReopenTask \/ ReopenArtifact
  BY <1>4 DEF CompleteTask, ReopenTask, ReopenArtifact, StaleNeverPlanned
<1>5. CASE Approve
  BY <1>1, <1>5 DEF Approve
<1>6. ASSUME NEW p \in Procs, Commit(p)
      PROVE  StaleNeverPlanned'
  <2>1. local[p].grant \in Grants /\ ApproveSpec(local[p].grant)
    BY <1>6, HolderLocal DEF Commit, At
  <2> QED BY <1>1, <2>1
<1>7. CASE UNCHANGED state
  BY <1>7 DEF state, StaleNeverPlanned
<1> QED
  BY <1>2, <1>3, <1>4, <1>5, <1>6, <1>7 DEF Next, SpecStep, DelegateStep, GrantStep, Issue, Revoke,
     Expire, Begin, ReconcileOne, Load, Reserve, Refuse, CommitRefused, Close, Crash, vars, state

\* Consuming a use keeps it, and taking one keeps every other.
LEMMA BackedNext ==
  ASSUME TypeOK, ReconcileSettles, RequestSound, PastRevisions, ApprovalBacked, [Next]_vars
  PROVE  ApprovalBacked'
<1>1. ASSUME approval' = approval, \A h \in Grants : Uses(h) \subseteq Uses(h)'
      PROVE  ApprovalBacked'
  BY <1>1 DEF ApprovalBacked
<1>2. CASE SpecStep
  <2>0. grants' = grants
    BY <1>2, SpecStepFrame DEF authority
  <2>1. \A h \in Grants : Uses(h)' = Uses(h)
    BY <2>0 DEF Uses
  <2>2. CASE Approve
    <3>1. ApproveSpec(Human) /\ Human \in Grants \cup {Human} /\ Human \notin Grants
      BY <2>2 DEF Approve
    <3>2. /\ approval'[ApprovalGateFor(status)] = [rev |-> rev, by |-> Human]
          /\ \A x \in Gates \ {ApprovalGateFor(status)} : approval'[x] = approval[x]
      BY <3>1, ApproveSpecEffect
    <3>3. approval'[ApprovalGateFor(status)].by = Human
      BY <3>2
    <3>4. \A x \in Gates : approval'[x] = approval[x] \/ approval'[x].by = Human
      BY <3>2, <3>3
    <3> QED BY <2>1, <3>1, <3>4 DEF ApprovalBacked
  <2>3. CASE ReopenSpec
    <3>1. \A x \in Gates : approval'[x] = None
      BY <2>3 DEF ReopenSpec
    <3> QED BY <3>1 DEF ApprovalBacked
  <2>4. CASE CompleteTask \/ ReopenTask \/ Midreq \/ ReopenArtifact
    <3>1. approval' = approval
      BY <2>4 DEF CompleteTask, ReopenTask, Midreq, ReopenArtifact
    <3> QED BY <1>1, <2>1, <3>1
  <2> QED BY <1>2, <2>2, <2>3, <2>4 DEF SpecStep
<1>3. ASSUME NEW g \in Grants, GrantStep(g)
      PROVE  ApprovalBacked'
  <2>1. \A h \in Grants : Uses(h)' = Uses(h)
    BY <1>3, FlagEffect DEF Uses
  <2>2. approval' = approval
    BY <1>3 DEF GrantStep, Issue, Revoke, Expire, state
  <2> QED BY <1>1, <2>1, <2>2
<1>4. ASSUME UNCHANGED <<grants, approval>>
      PROVE  ApprovalBacked'
  <2>1. \A h \in Grants : Uses(h)' = Uses(h)
    BY <1>4 DEF Uses
  <2> QED BY <1>1, <1>4, <2>1
<1>5. ASSUME NEW g \in Grants, NEW q \in Requests, grants' = Consumed(g, q) \/ grants' = Prepared(g, q),
             approval' = approval
      PROVE  ApprovalBacked'
  <2>1. \A h \in Grants : Uses(h) \subseteq Uses(h)'
    BY <1>5, UsesEffect DEF Uses, TypeOK
  <2> QED BY <1>1, <1>5, <2>1
\* A released request is not the one its gate's approval was made by.
<1>6. ASSUME NEW g \in Grants, NEW q \in Requests, grants' = Released(g, q), approval' = approval,
             approval[q[1]] # [rev |-> q[2], by |-> g]
      PROVE  ApprovalBacked'
  <2> SUFFICES ASSUME NEW x \in Gates, approval[x] # None, approval[x].by \in Grants
               PROVE  \A h \in Grants : h = approval[x].by => <<x, approval[x].rev>> \in Uses(h)'
    BY <1>6 DEF ApprovalBacked, Uses
  <2>1. <<x, approval[x].rev>> \in Uses(approval[x].by)
    BY DEF ApprovalBacked
  <2>2. approval[x].by = g => <<x, approval[x].rev>> # q
    <3>1. approval[x] \in Record
      BY DEF TypeOK
    <3>2. approval[x] = [rev |-> approval[x].rev, by |-> approval[x].by]
      BY <3>1 DEF Record
    <3> QED BY <1>6, <3>2
  <2>3. \A h \in Grants : \A r \in Uses(h) : h # g \/ r # q => r \in Uses(h)'
    BY <1>6, UsesEffect DEF Uses, TypeOK
  <2> QED BY <2>1, <2>2, <2>3
<1>7. ASSUME NEW p \in Procs, ReconcileOne(p)
      PROVE  ApprovalBacked'
  <2>1. PICK g \in Grants : g = local[p].grant
    BY <1>7, HolderLocal DEF ReconcileOne, At
  <2>2. PICK q \in grants[g].reserved :
            grants' = IF ApprovalCommitted(q) THEN Consumed(g, q) ELSE Released(g, q)
    BY <1>7, <2>1 DEF ReconcileOne
  <2>3. grants[g] \in Grant
    BY DEF TypeOK
  <2>4. q \in Requests
    BY <2>3, GrantUpdate
  <2>5. approval' = approval
    BY <1>7 DEF ReconcileOne, state
  <2>6. CASE ApprovalCommitted(q)
    BY <1>5, <2>2, <2>4, <2>5, <2>6
  <2>7. CASE ~ApprovalCommitted(q)
    <3>1. approval[q[1]] # [rev |-> q[2], by |-> g]
      <4>1. [rev |-> q[2], by |-> g] # None
        BY <2>4, NoneAssumption DEF Requests, Record
      <4> QED BY <2>7, <4>1 DEF ApprovalCommitted
    <3> QED BY <1>6, <2>2, <2>4, <2>5, <2>7, <3>1
  <2> QED BY <2>6, <2>7
<1>8. ASSUME NEW p \in Procs, Reserve(p)
      PROVE  ApprovalBacked'
  <2>1. local[p].grant \in Grants /\ local[p].request \in Requests
    BY <1>8, HolderLocal DEF Reserve, At
  <2> QED BY <1>5, <1>8, <2>1 DEF Reserve, state
<1>9. ASSUME NEW p \in Procs, Commit(p)
      PROVE  ApprovalBacked'
  <2>1. PICK g \in Grants, q \in Requests : g = local[p].grant /\ q = local[p].request
    BY <1>9, HolderLocal DEF Commit, At
  <2>2. /\ local[p].pc = "approve" /\ rev = q[2] /\ ApproveSpec(g) /\ grants' = grants
    BY <1>9, <2>1 DEF Commit, At
  <2>3. q[1] = ApprovalGateFor(status) /\ grants[g].reserved = {q}
    BY <2>1, <2>2 DEF RequestSound, ReconcileSettles, Begun
  <2>4. approval'[q[1]] = [rev |-> q[2], by |-> g] /\ \A x \in Gates \ {q[1]} : approval'[x] = approval[x]
    BY <2>2, <2>3, ApproveSpecEffect
  <2>5. \A h \in Grants : Uses(h)' = Uses(h)
    BY <2>2 DEF Uses
  <2>6. q \in Uses(g) /\ q = <<q[1], q[2]>>
    BY <2>3 DEF Uses, Requests
  <2> SUFFICES ASSUME NEW x \in Gates, approval'[x] # None, approval'[x].by \in Grants
               PROVE  <<x, approval'[x].rev>> \in Uses(approval'[x].by)
    BY <2>5 DEF ApprovalBacked
  <2>7. CASE x = q[1]
    <3>1. approval'[x].rev = q[2] /\ approval'[x].by = g
      BY <2>4, <2>7
    <3> QED BY <2>6, <2>7, <3>1
  <2>8. CASE x # q[1]
    <3>1. approval'[x] = approval[x]
      BY <2>4, <2>8
    <3> QED BY <3>1 DEF ApprovalBacked
  <2> QED BY <2>7, <2>8
<1>10. ASSUME NEW p \in Procs, Close(p)
       PROVE  ApprovalBacked'
  <2>1. PICK g \in Grants, q \in Requests : g = local[p].grant /\ q = local[p].request
    BY <1>10, HolderLocal DEF Close, At
  <2>2. approval' = approval
    BY <1>10 DEF Close, state
  <2>3. CASE local[p].pc = "consume"
    BY <1>5, <1>10, <2>1, <2>2, <2>3 DEF Close, At
  <2>4. CASE local[p].pc = "release"
    <3>1. approval[q[1]] # [rev |-> q[2], by |-> g]
      BY <2>1, <2>4 DEF RequestSound, Begun
    <3>2. grants' = Released(g, q)
      BY <1>10, <2>1, <2>4 DEF Close, At
    <3> QED BY <1>6, <2>2, <3>1, <3>2
  <2> QED BY <1>10, <2>3, <2>4 DEF Close, At
<1>11. ASSUME NEW p \in Procs,
              \/ \E g \in Grants : Begin(p, g)
              \/ Load(p) \/ Refuse(p) \/ CommitRefused(p) \/ Crash(p)
       PROVE  ApprovalBacked'
  BY <1>4, <1>11 DEF Begin, Load, Refuse, CommitRefused, Crash, state
<1>12. CASE UNCHANGED vars
  BY <1>4, <1>12 DEF vars
<1> QED
  BY <1>2, <1>3, <1>7, <1>8, <1>9, <1>10, <1>11, <1>12 DEF Next, DelegateStep

-----------------------------------------------------------------------------
(* The theorems *)

LEMMA InitInv == ASSUME Init PROVE IInv
<1>1. TypeOK
  <2>1. status \in Status /\ cycle \in 1 .. MaxCycle /\ rev \in Revisions /\ crashes \in 0 .. MaxCrashes
    BY DEF Init, Status, NextStatus, Revisions
  <2>2. grants \in [Grants -> Grant]
    BY DEF Init, Grant
  <2>3. local \in [Procs -> Local] /\ owner \in Procs \cup {None}
    BY DEF Init, Local
  <2>4. /\ approval \in [Gates -> Record \cup {None}]
        /\ archived \subseteq Gates \X (1 .. MaxCycle) \X Record
        /\ answered \subseteq Gates \X (1 .. MaxCycle)
        /\ amendments \subseteq [rev : Revisions, hits : SUBSET Gates]
    BY DEF Init
  <2> QED BY <2>1, <2>2, <2>3, <2>4 DEF TypeOK, Init
<1>2. GrantNeverOverdrawn
  <2>1. \A g \in Grants : Uses(g) = {}
    BY DEF Init, Uses
  <2>2. IsFiniteSet({}) /\ Cardinality({}) = 0
    BY FS_EmptySet
  <2> QED BY <2>1, <2>2 DEF GrantNeverOverdrawn
<1>3. ApprovalBacked /\ PastRevisions /\ StaleNeverPlanned
  BY DEF Init, ApprovalBacked, PastRevisions, StaleNeverPlanned, Gates
<1>4. ReconcileSettles
  <2>1. \A p \in Procs : local[p] = Idle /\ local[p].pc = "idle" /\ owner # p
    BY DEF Init, Idle
  <2> QED BY <2>1 DEF ReconcileSettles
<1>5. RequestSound
  BY DEF Init, RequestSound, Begun, Idle
<1> QED BY <1>1, <1>2, <1>3, <1>4, <1>5 DEF IInv

\* The lifecycle of a spec: everything below holds in every state that approvals by
\* hand, delegated approvals and reopens, with processes dying at any step, reach.
THEOREM Safety == Spec => []IInv
<1>1. Init => IInv
  BY InitInv
<1>2. IInv /\ [Next]_vars => IInv'
  BY TypeNext, UsesNext, BackedNext, LockNext, RequestNext, PastNext, StaleNext DEF IInv
<1> QED BY <1>1, <1>2, PTL DEF Spec

\* Reservations made, settled and lost to dead processes by AuthorizeDelegatedTransition
\* and reconcileGrantUses never take a grant past the uses it was issued with.
THEOREM NotOverdrawn == Spec => []GrantNeverOverdrawn
<1>1. IInv => GrantNeverOverdrawn
  BY DEF IInv
<1> QED BY <1>1, Safety, PTL

\* No approval by a grant outlives its use: the crash recovery never releases one that
\* the state already holds.
THEOREM Backed == Spec => []ApprovalBacked
<1>1. IInv => ApprovalBacked
  BY DEF IInv
<1> QED BY <1>1, Safety, PTL

\* The tasks artifact is not approved over requirements or a design that an earlier
\* amendment had outdated.
THEOREM NeverPlannedStale == Spec => []StaleNeverPlanned
<1>1. IInv => StaleNeverPlanned
  BY DEF IInv
<1> QED BY <1>1, Safety, PTL

\* A step that approves is a human's, or the commit of the grant that is on record,
\* and that grant was not revoked.
LEMMA ApprovingStep ==
  ASSUME TypeOK, ReconcileSettles, RequestSound, PastRevisions, [Next]_vars
  PROVE  /\ \A g \in Grants, x \in Gates :
               grants[g].revoked /\ approval'[x] # approval[x] /\ approval'[x] # None => approval'[x].by # g
         /\ cycle' = cycle => \A x \in Gates : approval[x] # None => approval'[x] = approval[x]
<1> DEFINE A == \A g \in Grants, x \in Gates :
                  grants[g].revoked /\ approval'[x] # approval[x] /\ approval'[x] # None
                      => approval'[x].by # g
           B == cycle' = cycle => \A x \in Gates : approval[x] # None => approval'[x] = approval[x]
<1>1. ASSUME NEW by \in Grants \cup {Human}, ApproveSpec(by), by \in Grants => ~grants[by].revoked
      PROVE  A /\ B
  <2>1. /\ approval[ApprovalGateFor(status)] = None
        /\ approval'[ApprovalGateFor(status)] = [rev |-> rev, by |-> by]
        /\ \A x \in Gates \ {ApprovalGateFor(status)} : approval'[x] = approval[x]
    BY <1>1, ApproveSpecEffect
  <2>2. approval'[ApprovalGateFor(status)].by = by
    BY <2>1
  <2> QED BY <1>1, <2>1, <2>2
<1>2. CASE Approve
  BY <1>1, <1>2 DEF Approve
<1>3. CASE ReopenSpec
  <2>1. cycle' # cycle
    BY <1>3 DEF ReopenSpec, TypeOK
  <2>2. \A x \in Gates : approval'[x] = None
    BY <1>3 DEF ReopenSpec
  <2> QED BY <2>1, <2>2
<1>4. ASSUME NEW p \in Procs, Commit(p)
      PROVE  A /\ B
  <2>1. local[p].grant \in Grants /\ ApproveSpec(local[p].grant) /\ local[p].pc = "approve"
    BY <1>4, HolderLocal DEF Commit, At
  <2>2. ~grants[local[p].grant].revoked
    BY <2>1 DEF RequestSound, Begun
  <2> QED BY <1>1, <2>1, <2>2
<1>5. CASE approval' = approval
  BY <1>5
<1> QED
  BY <1>2, <1>3, <1>4, <1>5 DEF Next, SpecStep, DelegateStep, CompleteTask, ReopenTask, Midreq,
     ReopenArtifact, GrantStep, Issue, Revoke, Expire, Begin, ReconcileOne, Load, Reserve, Refuse,
     CommitRefused, Close, Crash, vars, state

\* A revoked grant approves nothing, although the revocation may have been called while
\* an approval with it was in flight.
THEOREM RevocationHolds == Spec => RevokedApprovesNothing
<1>1. IInv /\ [Next]_vars =>
        \A g \in Grants, x \in Gates :
            grants[g].revoked /\ approval'[x] # approval[x] /\ approval'[x] # None => approval'[x].by # g
  BY ApprovingStep DEF IInv
<1> QED BY <1>1, Safety, PTL DEF Spec, RevokedApprovesNothing

\* Who approved a stage, and at which revision, stays on record until its cycle ends.
THEOREM NotRewritten == Spec => ApprovalNotRewritten
<1>1. IInv /\ [Next]_vars =>
        (cycle' = cycle => \A x \in Gates : approval[x] # None => approval'[x] = approval[x])
  BY ApprovingStep DEF IInv
<1> QED BY <1>1, Safety, PTL DEF Spec, ApprovalNotRewritten
=============================================================================
