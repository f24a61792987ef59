-------------------------- MODULE Portfolio_proofs --------------------------
(***************************************************************************)
(* Proofs about Portfolio, for every set of slugs and of processes and     *)
(* every number of faults and crashes: the program links never form a      *)
(* cycle, no history is lost and an archive or a seed is all or nothing.   *)
(***************************************************************************)
EXTENDS Portfolio, TLAPS

(* Reachable(E, s) contains s and is closed under the links of E. *)
LEMMA ReachableClosed ==
    ASSUME NEW E \in SUBSET Link, NEW s \in Specs
    PROVE  /\ s \in Reachable(E, s)
           /\ Closed(E, Reachable(E, s))
  <1>1. s \in Reachable(E, s)
    BY DEF Reachable
  <1>2. ASSUME NEW l \in E, l.from \in Reachable(E, s)
        PROVE  l.to \in Reachable(E, s)
    <2>1. l.to \in Specs
      BY DEF Link
    <2>2. ASSUME NEW C \in SUBSET Specs, s \in C, Closed(E, C)
          PROVE  l.to \in C
      BY <1>2, <2>2 DEF Reachable, Closed
    <2>. QED BY <2>1, <2>2 DEF Reachable
  <1>. QED BY <1>1, <1>2 DEF Closed

(* A link that WouldCycle lets through closes no cycle. *)
LEMMA AddKeepsNoCycle ==
    ASSUME NEW E \in SUBSET Link, NEW l \in Link,
           NoCycle(E), ~WouldCycle(E, l.from, l.to)
    PROVE  NoCycle(E \cup {l})
  <1>. DEFINE R == Reachable(E, l.to)
  <1>1. l.to \in Specs /\ l.from \in Specs
    BY DEF Link
  <1>2. /\ l.to \in R
        /\ Closed(E, R)
        /\ l.from \notin R
    BY <1>1, ReachableClosed DEF WouldCycle
  <1>3. ASSUME NEW S \in SUBSET Specs,
               \A s \in S : \E k \in E \cup {l} : k.from = s /\ k.to \in S
        PROVE  S = {}
    <2>1. S \cap R = {}
      <3>1. ASSUME NEW s \in S \cap R
            PROVE  \E k \in E : k.from = s /\ k.to \in S \cap R
        <4>1. PICK k \in E \cup {l} : k.from = s /\ k.to \in S
          BY <1>3
        <4>2. k # l
          BY <4>1, <1>2
        <4>. QED BY <4>1, <4>2, <1>2 DEF Closed
      <3>2. S \cap R \in SUBSET Specs
        OBVIOUS
      <3>. HIDE DEF R
      <3>. QED BY <3>1, <3>2 DEF NoCycle
    <2>2. ASSUME NEW s \in S
          PROVE  \E k \in E : k.from = s /\ k.to \in S
      <3>1. PICK k \in E \cup {l} : k.from = s /\ k.to \in S
        BY <1>3
      <3>2. k # l
        BY <3>1, <2>1, <1>2
      <3>. QED BY <3>1, <3>2
    <2>. QED BY <2>2 DEF NoCycle
  <1>. QED BY <1>3 DEF NoCycle

LEMMA FewerLinksNoCycle ==
    ASSUME NEW E, NEW F \in SUBSET E, NoCycle(E)
    PROVE  NoCycle(F)
  BY DEF NoCycle

LEMMA InitInv == Init => IInv
  <1>. SUFFICES ASSUME Init PROVE IInv
    OBVIOUS
  <1>1. TypeOK
    BY NoneAssumption, BoundsAssumption DEF Init, TypeOK, Idle, Link
  <1>2. NoCycle({})
    BY DEF NoCycle
  <1>. QED BY <1>1, <1>2, NoneAssumption
       DEF Init, IInv, LockHeld, Carried, PendingFits, WritesTracked,
           ManifestsArchived, Acyclic, InWrites

(* Steps that leave what the invariant speaks of alone, but for the stage  *)
(* of specs while no command is in its writes.                             *)
LEMMA LifeStep ==
    ASSUME IInv, NEW s \in Specs, Life(s)
    PROVE  IInv'
  <1>. USE DEF IInv
  <1>1. TypeOK'
    BY DEF TypeOK, Life, NewSpec, StartExecuting, FinishTasks, Regress, CompleteSpec
  <1>2. UNCHANGED <<archived, manifest, links, lock, pc, op, faults>>
    BY DEF Life, NewSpec, StartExecuting, FinishTasks, Regress, CompleteSpec
  <1>3. LockHeld' /\ Carried' /\ PendingFits' /\ ManifestsArchived' /\ Acyclic'
    BY <1>2 DEF LockHeld, Carried, PendingFits, ManifestsArchived, Acyclic,
                InWrites, Edge
  <1>4. WritesTracked'
    <2>1. CASE lock = None
      BY <2>1, <1>2, NoneAssumption DEF WritesTracked, LockHeld, InWrites
    <2>2. CASE lock # None
      <3>1. UNCHANGED <<active, stage>>
        BY <2>2 DEF Life, NewSpec, StartExecuting, FinishTasks, Regress, CompleteSpec
      <3>. QED BY <3>1, <1>2 DEF WritesTracked, Halfway, InWrites
    <2>. QED BY <2>1, <2>2
  <1>. QED BY <1>1, <1>3, <1>4

(* Steps of a process that is looking around: no write is under way that   *)
(* the step could disturb.                                                 *)
LEMMA CallStep ==
    ASSUME IInv, NEW p \in Procs, CallLink(p) \/ CallArchive(p) \/ CallIncident(p)
    PROVE  IInv'
  <1>. USE DEF IInv
  <1>1. PICK what \in {"link", "archive", "incident"}, s \in Specs, t \in Specs, k \in Kinds :
          /\ Call(p, what, s, t, k)
          /\ what = "archive" => k = Supersedes
          /\ what = "incident" => k = Regresses
    BY KindsAssumption DEF CallLink, CallArchive, CallIncident
  <1>2. /\ pc[p] = "idle"
        /\ pc' = [pc EXCEPT ![p] = what]
        /\ op' = [op EXCEPT ![p] = [spec |-> s, other |-> t, kind |-> k]]
        /\ UNCHANGED <<active, stage, green, archived, manifest, links, lock, faults, crashes>>
    BY <1>1 DEF Call
  <1>3. [spec |-> s, other |-> t, kind |-> k] \in Request
    BY DEF Request
  <1>4. /\ pc'[p] = what /\ op'[p] = [spec |-> s, other |-> t, kind |-> k]
        /\ \A q \in Procs : q # p => pc'[q] = pc[q] /\ op'[q] = op[q]
    BY <1>2 DEF TypeOK
  <1>5. TypeOK'
    BY <1>2, <1>3 DEF TypeOK
  <1>6. ~InWrites(p) /\ ~InWrites(p)'
    BY <1>2, <1>4 DEF InWrites
  <1>7. \A q \in Procs : q # p => (InWrites(q)' <=> InWrites(q))
    BY <1>4 DEF InWrites
  <1>8. LockHeld'
    BY <1>2, <1>6, <1>7 DEF LockHeld
  <1>9. Carried'
    <2>. SUFFICES ASSUME NEW q \in Procs PROVE Carried!(q)'
      BY DEF Carried
    <2>1. CASE q = p
      <3> HIDE DEF IInv
      <3>1. /\ pc'[p] \in {"link", "archive", "incident"} /\ op'[p] \in Request
            /\ pc'[p] = "archive" => op'[p].kind = Supersedes
            /\ pc'[p] = "incident" => op'[p].kind = Regresses
        BY <1>1, <1>3, <1>4
      <3>2. Carried!(p)'
        BY <1>6, <3>1
      <3> QED BY <2>1, <3>2
    <2>2. CASE q # p
      BY <2>2, <1>4, <1>7 DEF Carried
    <2>. QED BY <2>1, <2>2
  <1>10. PendingFits' /\ WritesTracked'
    <2>. SUFFICES ASSUME NEW q \in Procs, InWrites(q)'
                  PROVE  ~WouldCycle(links, Edge(q).from, Edge(q).to)' /\ Halfway(q)'
      BY DEF PendingFits, WritesTracked
    <2>1. q # p /\ InWrites(q)
      BY <1>6, <1>7
    <2>2. pc'[q] = pc[q] /\ op'[q] = op[q]
      BY <2>1, <1>4
    <2>3. ~WouldCycle(links, Edge(q).from, Edge(q).to) /\ Halfway(q)
      BY <2>1 DEF PendingFits, WritesTracked
    <2> HIDE DEF IInv
    <2>4. Edge(q)' = Edge(q) /\ links' = links
      BY <1>2, <2>2 DEF Edge
    <2>5. UNCHANGED <<active, stage, archived, manifest, links, faults>>
      BY <1>2
    <2>6. Halfway(q)'
      BY <2>2, <2>3, <2>5 DEF Halfway
    <2> QED BY <2>3, <2>4, <2>6
  <1>. QED BY <1>2, <1>5, <1>8, <1>9, <1>10 DEF ManifestsArchived, Acyclic

(* What one process's step has to show: the others are not in their       *)
(* writes, so only its own record, link and progress can be disturbed.     *)
LEMMA OwnStep ==
    ASSUME IInv, NEW p \in Procs, NEW x, NEW o,
           pc' = [pc EXCEPT ![p] = x], op' = [op EXCEPT ![p] = o],
           lock \in {None, p},
           InWrites(p)' => lock' = p, ~InWrites(p)' => lock' = None,
           Carried!(p)',
           InWrites(p)' => ~WouldCycle(links, Edge(p).from, Edge(p).to)' /\ Halfway(p)'
    PROVE  LockHeld' /\ Carried' /\ PendingFits' /\ WritesTracked'
  <1>. USE DEF IInv
  <1>1. \A q \in Procs : q # p => pc'[q] = pc[q] /\ op'[q] = op[q]
    BY DEF TypeOK
  <1>2. \A q \in Procs : q # p => ~InWrites(q)
    BY NoneAssumption DEF LockHeld
  <1>3. \A q \in Procs : q # p => ~InWrites(q)'
    BY <1>1, <1>2 DEF InWrites
  <1>4. LockHeld'
    BY <1>3, NoneAssumption DEF LockHeld
  <1>5. Carried'
    <2>. SUFFICES ASSUME NEW q \in Procs PROVE Carried!(q)'
      BY DEF Carried
    <2>1. CASE q = p
      BY <2>1
    <2>2. CASE q # p
      BY <2>2, <1>1, <1>3 DEF Carried, InWrites
    <2>. QED BY <2>1, <2>2
  <1>6. PendingFits' /\ WritesTracked'
    BY <1>3 DEF PendingFits, WritesTracked
  <1>. QED BY <1>4, <1>5, <1>6

(* A command that ends without touching directories, manifests or links,   *)
(* or after a change that keeps types, archive records and acyclicity.     *)
LEMMA EndStep ==
    ASSUME IInv, NEW p \in Procs, End(p), lock \in {None, p}, lock' = None
    PROVE  LockHeld' /\ Carried' /\ PendingFits' /\ WritesTracked'
  <1>1. pc'[p] = "idle"
    BY DEF End, IInv, TypeOK
  <1>2. ~InWrites(p)' /\ Carried!(p)'
    BY <1>1 DEF InWrites
  <1>. QED BY <1>2, OwnStep DEF End

LEMMA EndTypes ==
    ASSUME TypeOK, NEW p \in Procs, End(p)
    PROVE  /\ pc' \in [Procs -> {"idle", "link", "archive", "incident",
                               "moving", "manifest", "saving", "restore", "unmove",
                               "seeding", "seeded"}]
           /\ op' \in [Procs -> {Idle} \cup Request \cup Writing]
  BY DEF TypeOK, End

LEMMA EdgeTyped ==
    ASSUME TypeOK, Carried, NEW p \in Procs,
           InWrites(p) \/ pc[p] \in {"archive", "incident"}
    PROVE  Edge(p) \in Link
  <1>1. op[p].spec \in Specs /\ op[p].other \in Specs
    BY DEF Carried, Request, Writing
  <1>. QED BY <1>1, KindsAssumption DEF Edge, Link

LEMMA LinkStep ==
    ASSUME IInv, NEW p \in Procs, AddLink(p)
    PROVE  IInv'
  <1>. USE DEF IInv
  <1>. DEFINE l == [from |-> op[p].spec, to |-> op[p].other, kind |-> op[p].kind]
  <1>1. End(p) /\ lock = None /\ lock' = None
    BY DEF AddLink, Refuse
  <1>2. UNCHANGED <<active, stage, green, archived, manifest, faults, crashes>>
    BY DEF AddLink, Refuse
  <1>3. l \in Link
    BY DEF AddLink, Carried, Request, Link
  <1>4. links' \in SUBSET Link /\ NoCycle(links')
    <2>1. CASE links' = links
      BY <2>1 DEF TypeOK, Acyclic
    <2>2. CASE links' # links
      <3>1. links' = links \cup {l} /\ ~WouldCycle(links, l.from, l.to)
        BY <2>2 DEF AddLink, Refuse
      <3>2. links \in SUBSET Link /\ NoCycle(links)
        BY DEF TypeOK, Acyclic
      <3>. HIDE DEF l
      <3>. QED BY <3>1, <3>2, <1>3, AddKeepsNoCycle
    <2>. QED BY <2>1, <2>2
  <1>5. TypeOK'
    BY <1>1, <1>2, <1>4, EndTypes DEF TypeOK
  <1>. QED BY <1>1, <1>2, <1>4, <1>5, EndStep DEF ManifestsArchived, Acyclic

LEMMA UnlinkStep ==
    ASSUME IInv, RemoveLink
    PROVE  IInv'
  <1>. USE DEF IInv
  <1>1. /\ lock = None /\ links' \in SUBSET links
        /\ UNCHANGED <<active, stage, green, archived, manifest, lock, pc, op,
                       faults, crashes>>
    BY DEF RemoveLink
  <1>2. TypeOK' /\ LockHeld' /\ Carried' /\ ManifestsArchived'
    BY <1>1 DEF TypeOK, LockHeld, Carried, ManifestsArchived, InWrites
  <1>3. PendingFits' /\ WritesTracked'
    BY <1>1, NoneAssumption DEF PendingFits, WritesTracked, LockHeld, InWrites
  <1>4. Acyclic'
    BY <1>1, FewerLinksNoCycle DEF Acyclic
  <1>. QED BY <1>2, <1>3, <1>4

LEMMA BeginArchiveStep ==
    ASSUME IInv, NEW p \in Procs, BeginArchive(p)
    PROVE  IInv'
  <1>. USE DEF IInv
  <1>. DEFINE s == op[p].spec
              replay == manifest[s] # None
              o == [spec |-> s, other |-> op[p].other, kind |-> op[p].kind,
                    fresh |-> ~replay, before |-> Before]
              x == IF replay THEN "saving" ELSE "moving"
  <1>1. UNCHANGED <<active, stage, green, archived, manifest, links, faults, crashes>>
    BY DEF BeginArchive, Take, Refuse
  <1>2. pc[p] = "archive" /\ op[p] \in Request /\ op[p].kind = Supersedes /\ lock = None
    BY DEF BeginArchive, Carried, Take
  <1>3. CASE Refuse(p)
    <2>1. End(p) /\ lock' = None
      BY <1>2, <1>3 DEF Refuse
    <2>2. TypeOK'
      BY <1>1, <2>1, EndTypes DEF TypeOK
    <2>. QED BY <1>1, <1>2, <2>1, <2>2, EndStep DEF ManifestsArchived, Acyclic
  <1>4. CASE ~Refuse(p)
    <2>1. /\ LinkFits(p)
          /\ pc' = [pc EXCEPT ![p] = x] /\ op' = [op EXCEPT ![p] = o]
          /\ lock' = p
          /\ IF replay THEN manifest[s] = op[p].other
             ELSE active[s] = "whole" /\ stage[s] = "complete"
      BY <1>4, <1>2 DEF BeginArchive, Take
    <2>2. pc'[p] = x /\ op'[p] = o
      BY <2>1 DEF TypeOK
    <2>3. o \in Writing
      BY <1>2 DEF Request, Writing, Before, Snapshot, TypeOK
    <2>4. TypeOK'
      BY <1>1, <2>1, <2>3 DEF TypeOK
    <2>5. InWrites(p)' /\ Carried!(p)'
      <3>1. op'[p] \in Writing /\ op'[p].kind = Supersedes /\ op'[p].fresh = ~replay
        BY <1>2, <2>2, <2>3
      <3>2. CASE replay
        BY <2>2, <3>1, <3>2 DEF InWrites
      <3>3. CASE ~replay
        BY <2>2, <3>1, <3>3 DEF InWrites
      <3>. QED BY <3>2, <3>3
    <2>6. ~WouldCycle(links, Edge(p).from, Edge(p).to)'
      <3>1. Edge(p)' = Edge(p)
        BY <2>2 DEF Edge
      <3>. QED BY <3>1, <1>1, <2>1 DEF LinkFits, WouldCycle, Reachable
    <2>7. Halfway(p)'
      <3>1. replay => s \in archived
        BY <1>2 DEF ManifestsArchived, Request
      <3>2. /\ op'[p].spec = s /\ op'[p].other = op[p].other /\ op'[p].fresh = ~replay
            /\ op'[p].before = Before
        BY <2>2
      <3>3. /\ op'[p].before.active = active' /\ op'[p].before.archived = archived'
            /\ op'[p].before.manifest = manifest' /\ op'[p].before.links = links'
        BY <3>2, <1>1 DEF Before
      <3>. HIDE DEF o
      <3>4. CASE replay
        <4>1. pc'[p] = "saving" /\ op'[p].fresh = FALSE
          BY <3>4, <2>2, <3>2
        <4>. QED BY <1>1, <2>1, <3>1, <3>2, <3>3, <3>4, <4>1 DEF Halfway
      <3>5. CASE ~replay
        <4>1. pc'[p] = "moving" /\ op'[p].fresh = TRUE
          BY <3>5, <2>2, <3>2
        <4>. QED BY <1>1, <2>1, <3>2, <3>3, <3>5, <4>1 DEF Halfway
      <3>. QED BY <3>4, <3>5
    <2>8. LockHeld' /\ Carried' /\ PendingFits' /\ WritesTracked'
      BY <1>2, <2>1, <2>5, <2>6, <2>7, OwnStep
    <2>. QED BY <1>1, <2>4, <2>8 DEF ManifestsArchived, Acyclic
  <1>. QED BY <1>3, <1>4

LEMMA BeginIncidentStep ==
    ASSUME IInv, NEW p \in Procs, BeginIncident(p)
    PROVE  IInv'
  <1>. USE DEF IInv
  <1>. DEFINE s == op[p].spec
              o == [spec |-> s, other |-> op[p].other, kind |-> op[p].kind,
                    fresh |-> TRUE, before |-> Before]
  <1>1. UNCHANGED <<stage, green, archived, manifest, links, faults, crashes>>
    BY DEF BeginIncident, Take, Refuse
  <1>2. pc[p] = "incident" /\ op[p] \in Request /\ op[p].kind = Regresses /\ lock = None
    BY DEF BeginIncident, Carried, Take
  <1>3. CASE Refuse(p)
    <2>1. End(p) /\ lock' = None /\ active' = active
      BY <1>2, <1>3 DEF Refuse
    <2>2. TypeOK'
      BY <1>1, <2>1, EndTypes DEF TypeOK
    <2>. QED BY <1>1, <1>2, <2>1, <2>2, EndStep DEF ManifestsArchived, Acyclic
  <1>4. CASE ~Refuse(p)
    <2>1. /\ LinkFits(p) /\ active[s] = "none"
          /\ pc' = [pc EXCEPT ![p] = "seeding"] /\ op' = [op EXCEPT ![p] = o]
          /\ active' = [active EXCEPT ![s] = "partial"]
          /\ lock' = p
      BY <1>4, <1>2 DEF BeginIncident, Take
    <2>2. pc'[p] = "seeding" /\ op'[p] = o
      BY <2>1 DEF TypeOK
    <2>3. o \in Writing
      BY <1>2 DEF Request, Writing, Before, Snapshot, TypeOK
    <2>4. TypeOK'
      BY <1>1, <2>1, <2>3 DEF TypeOK
    <2>5. InWrites(p)' /\ Carried!(p)'
      <3>1. op'[p] \in Writing /\ op'[p].kind = Regresses
        BY <1>2, <2>2, <2>3
      <3>. QED BY <2>2, <3>1, KindsAssumption DEF InWrites
    <2>6. ~WouldCycle(links, Edge(p).from, Edge(p).to)'
      <3>1. Edge(p)' = Edge(p)
        BY <2>2 DEF Edge
      <3>. QED BY <3>1, <1>1, <2>1 DEF LinkFits, WouldCycle, Reachable
    <2>7. Halfway(p)'
      <3>1. op'[p].spec = s /\ op'[p].before = Before
        BY <2>2
      <3>2. /\ op'[p].before.active = active /\ op'[p].before.archived = archived'
            /\ op'[p].before.manifest = manifest' /\ op'[p].before.links = links'
        BY <3>1, <1>1 DEF Before
      <3>. QED BY <2>1, <2>2, <3>1, <3>2 DEF Halfway
    <2>8. LockHeld' /\ Carried' /\ PendingFits' /\ WritesTracked'
      BY <1>2, <2>1, <2>5, <2>6, <2>7, OwnStep
    <2>. QED BY <1>1, <2>4, <2>8 DEF ManifestsArchived, Acyclic
  <1>. QED BY <1>3, <1>4

(* A write after which the command goes on: its record and the links stay. *)
LEMMA WriteStep ==
    ASSUME IInv, NEW p \in Procs, InWrites(p),
           NEW x \in {"manifest", "saving", "restore", "unmove", "seeded"},
           pc' = [pc EXCEPT ![p] = x], op' = op, lock' = lock, links' = links,
           x \in {"manifest", "saving", "restore", "unmove"} => op[p].kind = Supersedes,
           x = "seeded" => op[p].kind = Regresses,
           x \in {"manifest", "restore", "unmove"} => op[p].fresh,
           Halfway(p)'
    PROVE  /\ LockHeld' /\ Carried' /\ PendingFits' /\ WritesTracked' /\ Acyclic'
           /\ pc' \in [Procs -> {"idle", "link", "archive", "incident",
                               "moving", "manifest", "saving", "restore", "unmove",
                               "seeding", "seeded"}]
  <1>. USE DEF IInv
  <1>1. pc'[p] = x /\ op'[p] = op[p] /\ op' = [op EXCEPT ![p] = op[p]] /\ lock = p
    BY DEF TypeOK, LockHeld
  <1>2. InWrites(p)' /\ Carried!(p)'
    BY <1>1 DEF InWrites, Carried
  <1>3. Edge(p)' = Edge(p)
    BY <1>1 DEF Edge
  <1>4. ~WouldCycle(links, Edge(p).from, Edge(p).to)'
    BY <1>3 DEF PendingFits, WouldCycle, Reachable
  <1>5. LockHeld' /\ Carried' /\ PendingFits' /\ WritesTracked'
    BY <1>1, <1>2, <1>4, OwnStep
  <1>. QED BY <1>5 DEF Acyclic, TypeOK

LEMMA MoveHistoryStep ==
    ASSUME IInv, NEW p \in Procs, MoveHistory(p)
    PROVE  IInv'
  <1>. USE DEF IInv
  <1>1. InWrites(p) /\ pc[p] = "moving" /\ op[p] \in Writing /\ op[p].fresh
        /\ op[p].kind = Supersedes /\ Halfway(p)
    BY DEF MoveHistory, InWrites, Carried, WritesTracked
  <1>2. pc'[p] = "manifest" /\ op'[p] = op[p]
    BY DEF MoveHistory, TypeOK
  <1>3. Halfway(p)'
    BY <1>1, <1>2 DEF MoveHistory, Halfway
  <1>4. op[p].spec \in Specs
    BY <1>1 DEF Writing
  <1>5. TypeOK'
    BY <1>4 DEF MoveHistory, TypeOK
  <1>6. ManifestsArchived'
    BY DEF MoveHistory, ManifestsArchived
  <1>. QED BY <1>1, <1>3, <1>5, <1>6, WriteStep DEF MoveHistory

LEMMA WriteManifestStep ==
    ASSUME IInv, NEW p \in Procs, WriteManifest(p)
    PROVE  IInv'
  <1>. USE DEF IInv
  <1>1. InWrites(p) /\ pc[p] = "manifest" /\ op[p] \in Writing /\ op[p].fresh
        /\ op[p].kind = Supersedes /\ Halfway(p)
    BY DEF WriteManifest, InWrites, Carried, WritesTracked
  <1>2. pc'[p] = "saving" /\ op'[p] = op[p]
    BY DEF WriteManifest, TypeOK
  <1>3. Halfway(p)'
    BY <1>1, <1>2 DEF WriteManifest, Halfway
  <1>4. op[p].spec \in Specs /\ op[p].other \in Specs /\ op[p].spec \in archived
    BY <1>1 DEF Writing, Halfway
  <1>5. TypeOK'
    BY <1>4 DEF WriteManifest, TypeOK
  <1>6. ManifestsArchived'
    BY <1>4 DEF WriteManifest, ManifestsArchived, TypeOK
  <1>. QED BY <1>1, <1>3, <1>5, <1>6, WriteStep DEF WriteManifest

LEMMA RemoveManifestStep ==
    ASSUME IInv, NEW p \in Procs, RemoveManifest(p)
    PROVE  IInv'
  <1>. USE DEF IInv
  <1>1. InWrites(p) /\ pc[p] = "restore" /\ op[p] \in Writing /\ op[p].fresh
        /\ op[p].kind = Supersedes /\ Halfway(p)
    BY DEF RemoveManifest, InWrites, Carried, WritesTracked
  <1>2. pc'[p] = "unmove" /\ op'[p] = op[p]
    BY DEF RemoveManifest, TypeOK
  <1>3. op[p].spec \in Specs /\ op[p].before.manifest \in [Specs -> Specs \cup {None}]
    BY <1>1 DEF Writing, Snapshot
  <1>4. manifest' = op[p].before.manifest
    <2>1. /\ manifest = [op[p].before.manifest EXCEPT ![op[p].spec] = op[p].other]
          /\ op[p].before.manifest[op[p].spec] = None
      BY <1>1 DEF Halfway
    <2>. QED BY <2>1, <1>3 DEF RemoveManifest
  <1>5. Halfway(p)'
    BY <1>1, <1>2, <1>4 DEF RemoveManifest, Halfway
  <1>6. TypeOK'
    BY <1>3 DEF RemoveManifest, TypeOK
  <1>7. ManifestsArchived'
    BY DEF RemoveManifest, ManifestsArchived, TypeOK
  <1>. QED BY <1>1, <1>5, <1>6, <1>7, WriteStep DEF RemoveManifest

LEMMA SeedStateStep ==
    ASSUME IInv, NEW p \in Procs, SeedState(p)
    PROVE  IInv'
  <1>. USE DEF IInv
  <1>1. InWrites(p) /\ pc[p] = "seeding" /\ op[p] \in Writing
        /\ op[p].kind = Regresses /\ Halfway(p)
    BY DEF SeedState, InWrites, Carried, WritesTracked
  <1>2. pc'[p] = "seeded" /\ op'[p] = op[p]
    BY DEF SeedState, TypeOK
  <1>3. op[p].spec \in Specs /\ op[p].before.active \in [Specs -> {"none", "partial", "whole"}]
    BY <1>1 DEF Writing, Snapshot
  <1>4. active' = [op[p].before.active EXCEPT ![op[p].spec] = "whole"]
    BY <1>1, <1>3 DEF SeedState, Halfway
  <1>5. stage'[op[p].spec] = "planning"
    BY <1>3 DEF SeedState, TypeOK
  <1>6. Halfway(p)'
    BY <1>1, <1>2, <1>4, <1>5 DEF SeedState, Halfway
  <1>7. TypeOK'
    BY <1>3 DEF SeedState, TypeOK
  <1>8. ManifestsArchived'
    BY DEF SeedState, ManifestsArchived
  <1>. QED BY <1>1, <1>6, <1>7, <1>8, WriteStep DEF SeedState

LEMMA ManifestFailsStep ==
    ASSUME IInv, NEW p \in Procs, ManifestFails(p)
    PROVE  IInv'
  <1>. USE DEF IInv
  <1>1. InWrites(p) /\ pc[p] = "manifest" /\ op[p].fresh
        /\ op[p].kind = Supersedes /\ Halfway(p)
    BY DEF ManifestFails, InWrites, Carried, WritesTracked
  <1>2. pc'[p] = "unmove" /\ op'[p] = op[p]
    BY DEF ManifestFails, TypeOK
  <1>3. faults' \in 0..MaxFaults /\ faults' >= 1
    BY BoundsAssumption DEF ManifestFails, Fault, TypeOK
  <1>4. Halfway(p)'
    BY <1>1, <1>2, <1>3 DEF ManifestFails, Halfway
  <1>5. TypeOK'
    BY <1>3 DEF ManifestFails, TypeOK
  <1>6. ManifestsArchived'
    BY DEF ManifestFails, ManifestsArchived
  <1>. QED BY <1>1, <1>4, <1>5, <1>6, WriteStep DEF ManifestFails

(* The link cannot be saved: a fresh archive is taken back, a replay ends. *)
LEMMA SaveFailsStep ==
    ASSUME IInv, NEW p \in Procs, SaveFails(p)
    PROVE  IInv'
  <1>. USE DEF IInv
  <1>1. InWrites(p) /\ pc[p] = "saving" /\ op[p].kind = Supersedes /\ Halfway(p) /\ lock = p
    BY DEF SaveFails, InWrites, Carried, WritesTracked, LockHeld
  <1>2. UNCHANGED <<active, stage, green, archived, manifest, links, crashes>>
    BY DEF SaveFails
  <1>3. faults' \in 0..MaxFaults /\ faults' >= 1
    BY BoundsAssumption DEF SaveFails, Fault, TypeOK
  <1>4. ManifestsArchived' /\ Acyclic'
    BY <1>2 DEF ManifestsArchived, Acyclic
  <1>5. CASE op[p].fresh
    <2>1. pc' = [pc EXCEPT ![p] = "restore"] /\ lock' = lock /\ op' = op
      BY <1>5 DEF SaveFails
    <2>2. pc'[p] = "restore" /\ op'[p] = op[p]
      BY <2>1 DEF TypeOK
    <2>3. Halfway(p)'
      BY <1>1, <1>2, <1>3, <1>5, <2>2 DEF Halfway
    <2>4. TypeOK'
      BY <1>2, <1>3, <2>1 DEF TypeOK
    <2>. QED BY <1>1, <1>2, <1>4, <1>5, <2>1, <2>3, <2>4, WriteStep
  <1>6. CASE ~op[p].fresh
    <2>1. End(p) /\ lock' = None
      BY <1>6 DEF SaveFails, Release
    <2>2. TypeOK'
      BY <1>2, <1>3, <2>1, EndTypes DEF TypeOK
    <2>. QED BY <1>1, <1>4, <2>1, <2>2, EndStep
  <1>. QED BY <1>5, <1>6

LEMMA SaveLinkStep ==
    ASSUME IInv, NEW p \in Procs, SaveLink(p)
    PROVE  IInv'
  <1>. USE DEF IInv
  <1>1. InWrites(p) /\ lock = p
    BY DEF SaveLink, InWrites, LockHeld
  <1>2. End(p) /\ lock' = None /\ links' = links \cup {Edge(p)}
        /\ UNCHANGED <<active, stage, green, archived, manifest, faults, crashes>>
    BY DEF SaveLink, Release
  <1>3. Edge(p) \in Link
    BY <1>1, EdgeTyped
  <1>4. NoCycle(links')
    <2>1. ~WouldCycle(links, Edge(p).from, Edge(p).to)
      BY <1>1 DEF PendingFits
    <2>. QED BY <1>2, <1>3, <2>1, AddKeepsNoCycle DEF TypeOK, Acyclic
  <1>5. TypeOK'
    BY <1>2, <1>3, EndTypes DEF TypeOK
  <1>. QED BY <1>1, <1>2, <1>4, <1>5, EndStep DEF ManifestsArchived, Acyclic

LEMMA MoveBackStep ==
    ASSUME IInv, NEW p \in Procs, MoveBack(p)
    PROVE  IInv'
  <1>. USE DEF IInv
  <1>1. InWrites(p) /\ lock = p /\ pc[p] = "unmove" /\ op[p] \in Writing /\ Halfway(p)
        /\ op[p].fresh
    BY DEF MoveBack, InWrites, LockHeld, Carried, WritesTracked
  <1>2. End(p) /\ lock' = None
        /\ UNCHANGED <<stage, green, manifest, links, faults, crashes>>
    BY DEF MoveBack, Release
  <1>3. op[p].spec \in Specs /\ manifest[op[p].spec] = None
    BY <1>1 DEF Halfway, Writing
  <1>4. TypeOK'
    BY <1>2, <1>3, EndTypes DEF TypeOK, MoveBack
  <1>5. ManifestsArchived'
    BY <1>2, <1>3 DEF MoveBack, ManifestsArchived
  <1>. QED BY <1>1, <1>2, <1>4, <1>5, EndStep DEF Acyclic

(* The writes that fail for good and the process that dies. *)
LEMMA StopStep ==
    ASSUME IInv, NEW p \in Procs,
           MoveFails(p) \/ RestoreFails(p) \/ SeedFails(p) \/ Crash(p)
    PROVE  IInv'
  <1>1. lock = p
    BY DEF MoveFails, RestoreFails, SeedFails, Crash, IInv, LockHeld, InWrites
  <1>2. End(p) /\ lock' = None /\ UNCHANGED <<stage, green, archived, manifest, links>>
    BY DEF MoveFails, RestoreFails, SeedFails, Crash, Release
  <1>3. active' \in [Specs -> {"none", "partial", "whole"}]
    BY DEF MoveFails, RestoreFails, SeedFails, Crash, IInv, TypeOK
  <1>4. faults' \in 0..MaxFaults /\ crashes' \in 0..MaxCrashes
    BY BoundsAssumption DEF MoveFails, RestoreFails, SeedFails, Crash, Fault, IInv, TypeOK
  <1>5. TypeOK'
    BY <1>2, <1>3, <1>4, EndTypes DEF IInv, TypeOK
  <1>6. LockHeld' /\ Carried' /\ PendingFits' /\ WritesTracked'
    BY <1>1, <1>2, EndStep
  <1>7. ManifestsArchived' /\ Acyclic'
    BY <1>2 DEF IInv, ManifestsArchived, Acyclic
  <1>. QED BY <1>5, <1>6, <1>7 DEF IInv

LEMMA StutterStep == ASSUME IInv, UNCHANGED vars PROVE IInv'
  <1>1. TypeOK'
    BY DEF vars, IInv, TypeOK
  <1>2. \A p \in Procs : InWrites(p)' <=> InWrites(p)
    BY DEF vars, InWrites
  <1>3. LockHeld' /\ Carried'
    BY <1>2 DEF vars, IInv, LockHeld, Carried
  <1>4. \A p \in Procs : (Halfway(p)' <=> Halfway(p)) /\ Edge(p)' = Edge(p)
    BY DEF vars, Halfway, Edge
  <1>6. PendingFits'
    BY <1>2, <1>4 DEF vars, IInv, PendingFits
  <1>7. WritesTracked'
    BY <1>2, <1>4 DEF vars, IInv, WritesTracked
  <1>5. ManifestsArchived' /\ Acyclic'
    BY DEF vars, IInv, ManifestsArchived, Acyclic, NoCycle
  <1> QED BY <1>1, <1>3, <1>5, <1>6, <1>7 DEF IInv

LEMMA NextInv == ASSUME IInv, [Next]_vars PROVE IInv'
  <1>1. ASSUME NEW s \in Specs, Life(s) PROVE IInv'
    BY <1>1, LifeStep
  <1>2. ASSUME NEW p \in Procs, Command(p) PROVE IInv'
    BY <1>2, CallStep, LinkStep, BeginArchiveStep, MoveHistoryStep,
       WriteManifestStep, RemoveManifestStep, MoveBackStep, BeginIncidentStep,
       SeedStateStep, SaveLinkStep DEF Command
  <1>3. ASSUME NEW p \in Procs, Failure(p) PROVE IInv'
    BY <1>3, ManifestFailsStep, SaveFailsStep, StopStep DEF Failure
  <1>. QED BY <1>1, <1>2, <1>3, UnlinkStep, StutterStep DEF Next

(***************************************************************************)
(* The inductive invariant: whatever the interleaving, a process in the    *)
(* middle of its writes holds the lock, knows how far it got, and the link *)
(* it is about to save still closes no cycle.                              *)
(***************************************************************************)
THEOREM Safety == Spec => []IInv
  BY InitInv, NextInv, PTL DEF Spec

(* No spec ever depends on itself through other specs. *)
THEOREM LinksAcyclic == Spec => []Acyclic
  <1>1. IInv => Acyclic
    BY DEF IInv
  <1>. QED BY <1>1, Safety, PTL

LEMMA HistoryStep ==
    ASSUME IInv, [Next]_vars, NEW s \in Specs, HasHistory(s)
    PROVE  HasHistory(s)'
  <1>. USE DEF IInv
  <1>1. CASE UNCHANGED vars
    BY <1>1 DEF vars, HasHistory
  <1>2. ASSUME NEW t \in Specs, Life(t) PROVE HasHistory(s)'
    BY <1>2 DEF Life, NewSpec, StartExecuting, FinishTasks, Regress, CompleteSpec,
                HasHistory, TypeOK
  <1>3. ASSUME RemoveLink PROVE HasHistory(s)'
    BY <1>3 DEF RemoveLink, HasHistory
  <1>4. ASSUME NEW p \in Procs, MoveHistory(p) PROVE HasHistory(s)'
    <2>1. CASE s = op[p].spec
      BY <1>4, <2>1 DEF MoveHistory, HasHistory
    <2>2. CASE s # op[p].spec
      BY <1>4, <2>2 DEF MoveHistory, HasHistory, TypeOK
    <2>. QED BY <2>1, <2>2
  <1>5. ASSUME NEW p \in Procs, MoveBack(p) PROVE HasHistory(s)'
    <2>1. op[p].fresh /\ Halfway(p) /\ pc[p] = "unmove"
      BY <1>5 DEF MoveBack, InWrites, Carried, WritesTracked
    <2>2. CASE s = op[p].spec
      <3>1. stage[s] = "complete"
        BY <2>1, <2>2 DEF Halfway
      <3>. QED BY <1>5, <2>2, <3>1 DEF MoveBack, HasHistory, TypeOK
    <2>3. CASE s # op[p].spec
      BY <1>5, <2>3 DEF MoveBack, HasHistory, TypeOK
    <2>. QED BY <2>2, <2>3
  <1>6. ASSUME NEW p \in Procs, SeedState(p) \/ SeedFails(p) PROVE HasHistory(s)'
    <2>1. Halfway(p) /\ pc[p] \in {"seeding", "seeded"} /\ op[p] \in Writing
      BY <1>6 DEF SeedState, SeedFails, InWrites, WritesTracked, Carried
    <2>2. ~(active[op[p].spec] = "whole" /\ stage[op[p].spec] = "complete")
      <3>1. op[p].spec \in Specs /\ op[p].before.active \in [Specs -> {"none", "partial", "whole"}]
        BY <2>1 DEF Writing, Snapshot
      <3>. QED BY <2>1, <3>1 DEF Halfway
    <2>3. CASE s = op[p].spec
      BY <1>6, <2>2, <2>3 DEF SeedState, SeedFails, HasHistory
    <2>4. CASE s # op[p].spec
      BY <1>6, <2>4 DEF SeedState, SeedFails, HasHistory, TypeOK
    <2>. QED BY <2>3, <2>4
  <1>7. ASSUME NEW p \in Procs, BeginIncident(p) PROVE HasHistory(s)'
    <2>1. CASE Refuse(p)
      BY <2>1 DEF Refuse, HasHistory
    <2>2. CASE ~Refuse(p)
      <3>1. active[op[p].spec] = "none" /\ stage' = stage /\ archived' = archived
            /\ active' = [active EXCEPT ![op[p].spec] = "partial"]
        BY <1>7, <2>2 DEF BeginIncident, Take
      <3>. QED BY <3>1 DEF HasHistory, TypeOK
    <2>. QED BY <2>1, <2>2
  <1>8. ASSUME NEW p \in Procs,
               CallLink(p) \/ CallArchive(p) \/ CallIncident(p) \/ AddLink(p)
               \/ BeginArchive(p) \/ WriteManifest(p) \/ RemoveManifest(p) \/ SaveLink(p)
               \/ MoveFails(p) \/ ManifestFails(p) \/ SaveFails(p) \/ RestoreFails(p)
               \/ Crash(p)
        PROVE  HasHistory(s)'
    <2>1. UNCHANGED <<active, stage, archived>>
      BY <1>8 DEF CallLink, CallArchive, CallIncident, Call, AddLink, BeginArchive, Take,
         Refuse, WriteManifest, RemoveManifest, SaveLink, MoveFails, ManifestFails,
         SaveFails, RestoreFails, Crash
    <2>. QED BY <2>1 DEF HasHistory
  <1>. QED BY <1>1, <1>2, <1>3, <1>4, <1>5, <1>6, <1>7, <1>8 DEF Next, Command, Failure

(* Archive and incident seed never lose the history of a complete spec.    *)
THEOREM HistoryIsKept == Spec => HistoryKept
  <1>1. IInv /\ [Next]_vars => [\A s \in Specs : HasHistory(s) => HasHistory(s)']_vars
    BY HistoryStep
  <1>. QED BY <1>1, Safety, PTL DEF Spec, HistoryKept

(* How a command that held the lock gives it up.                           *)
LEMMA ReleaseCases ==
    ASSUME IInv, [Next]_vars, NEW p \in Procs, lock = p, lock' = None, crashes' = crashes
    PROVE  MoveBack(p) \/ SaveLink(p) \/ MoveFails(p) \/ SaveFails(p) \/ RestoreFails(p)
           \/ SeedFails(p)
  <1>. USE DEF IInv
  <1>1. ~UNCHANGED vars
    BY NoneAssumption DEF vars
  <1>2. ~RemoveLink
    BY NoneAssumption DEF RemoveLink
  <1>3. ASSUME NEW s \in Specs PROVE ~Life(s)
    BY NoneAssumption DEF Life, NewSpec, StartExecuting, FinishTasks, Regress, CompleteSpec
  <1>4. PICK q \in Procs : Command(q) \/ Failure(q)
    BY <1>1, <1>2, <1>3 DEF Next
  <1>5. ~(CallLink(q) \/ CallArchive(q) \/ CallIncident(q) \/ AddLink(q)
          \/ BeginArchive(q) \/ MoveHistory(q) \/ WriteManifest(q) \/ RemoveManifest(q)
          \/ BeginIncident(q) \/ SeedState(q) \/ ManifestFails(q))
    BY NoneAssumption
       DEF CallLink, CallArchive, CallIncident, Call, AddLink, BeginArchive, Take,
           Refuse, MoveHistory, WriteManifest, RemoveManifest, BeginIncident, SeedState,
           ManifestFails
  <1>6. ~Crash(q)
    BY DEF Crash, TypeOK
  <1>7. MoveBack(q) \/ SaveLink(q) \/ MoveFails(q) \/ SaveFails(q) \/ RestoreFails(q)
           \/ SeedFails(q)
    BY <1>4, <1>5, <1>6 DEF Command, Failure
  <1>8. InWrites(q)
    BY <1>7 DEF MoveBack, SaveLink, MoveFails, SaveFails, RestoreFails, SeedFails, InWrites
  <1>9. q = p
    BY <1>8 DEF LockHeld
  <1>. QED BY <1>7, <1>9

LEMMA AllOrNothingStep ==
    ASSUME IInv, [Next]_vars, NEW p \in Procs,
           lock = p, lock' = None, crashes' = crashes, faults' <= 1
    PROVE  Before' \in {op[p].before, After(p)}
  <1>. USE DEF IInv
  <1>. DEFINE s == op[p].spec
              b == op[p].before
  <1>1. /\ InWrites(p) /\ Halfway(p) /\ op[p] \in Writing
        /\ pc[p] \in {"moving", "manifest", "saving", "restore", "unmove"}
              => op[p].kind = Supersedes
        /\ pc[p] \in {"seeding", "seeded"} => op[p].kind = Regresses
        /\ pc[p] \in {"moving", "manifest", "restore", "unmove"} => op[p].fresh
    BY DEF LockHeld, WritesTracked, Carried
  <1>2. /\ s \in Specs /\ op[p].other \in Specs /\ b \in Snapshot /\ op[p].fresh \in BOOLEAN
        /\ b.active \in [Specs -> {"none", "partial", "whole"}]
        /\ b.manifest \in [Specs -> Specs \cup {None}]
        /\ b.archived \in SUBSET Specs /\ b.links \in SUBSET Link
        /\ b = [active |-> b.active, archived |-> b.archived, manifest |-> b.manifest,
                links |-> b.links]
    BY <1>1 DEF Writing, Snapshot
  <1>3. ASSUME active' = b.active, archived' = b.archived, manifest' = b.manifest,
               links' = b.links
        PROVE  Before' = b
    BY <1>2, <1>3 DEF Before
  <1>4. CASE MoveFails(p)
    <2>1. pc[p] = "moving" /\ UNCHANGED <<active, archived, manifest, links>>
      BY <1>4 DEF MoveFails
    <2>2. links = b.links /\ active = b.active /\ archived = b.archived /\ manifest = b.manifest
      BY <1>1, <2>1 DEF Halfway
    <2>. QED BY <1>3, <2>1, <2>2
  <1>5. CASE SaveFails(p)
    <2>1. pc[p] = "saving" /\ ~op[p].fresh /\ UNCHANGED <<active, archived, manifest, links>>
      BY <1>5, NoneAssumption DEF SaveFails
    <2>2. links = b.links /\ active = b.active /\ archived = b.archived /\ manifest = b.manifest
      BY <1>1, <2>1 DEF Halfway
    <2>. QED BY <1>3, <2>1, <2>2
  <1>6. CASE MoveBack(p)
    <2>1. /\ pc[p] = "unmove" /\ op[p].fresh /\ UNCHANGED <<manifest, links>>
          /\ archived' = archived \ {s} /\ active' = [active EXCEPT ![s] = "whole"]
      BY <1>1, <1>6 DEF MoveBack
    <2>2. /\ links = b.links /\ manifest = b.manifest
          /\ archived = b.archived \cup {s} /\ s \notin b.archived
          /\ active = [b.active EXCEPT ![s] = "none"] /\ b.active[s] = "whole"
      BY <1>1, <2>1 DEF Halfway
    <2>3. archived' = b.archived
      BY <2>1, <2>2
    <2>4. active' = b.active
      BY <1>2, <2>1, <2>2
    <2>. QED BY <1>3, <2>1, <2>2, <2>3, <2>4
  <1>7. CASE RestoreFails(p)
    <2>1. pc[p] \in {"restore", "unmove"} /\ faults' = faults + 1
      BY <1>7 DEF RestoreFails, Fault
    <2>2. faults >= 1 /\ faults \in Nat
      BY <1>1, <2>1, BoundsAssumption DEF Halfway, TypeOK
    <2>. QED BY <2>1, <2>2
  <1>8. CASE SeedFails(p)
    <2>1. /\ pc[p] \in {"seeding", "seeded"} /\ UNCHANGED <<archived, manifest, links>>
          /\ active' = [active EXCEPT ![s] = "none"]
      BY <1>8 DEF SeedFails
    <2>2. /\ links = b.links /\ manifest = b.manifest /\ archived = b.archived
          /\ b.active[s] = "none"
          /\ active \in {[b.active EXCEPT ![s] = "partial"], [b.active EXCEPT ![s] = "whole"]}
      BY <1>1, <2>1 DEF Halfway
    <2>3. active' = b.active
      BY <1>2, <2>1, <2>2
    <2>. QED BY <1>3, <2>1, <2>2, <2>3
  <1>9. CASE SaveLink(p)
    <2>1. /\ pc[p] \in {"saving", "seeded"} /\ UNCHANGED <<active, archived, manifest>>
          /\ links' = links \cup {Edge(p)}
      BY <1>9 DEF SaveLink
    <2>2. links' = b.links \cup {Edge(p)}
      BY <1>1, <2>1 DEF Halfway
    <2>3. CASE pc[p] = "seeded"
      <3>1. /\ op[p].kind # Supersedes
            /\ active' = [b.active EXCEPT ![s] = "whole"]
            /\ archived' = b.archived /\ manifest' = b.manifest
        BY <1>1, <2>1, <2>3, KindsAssumption DEF Halfway
      <3>2. Before' = After(p)
        BY <1>2, <2>2, <3>1 DEF Before, After
      <3>. QED BY <3>2
    <2>4. CASE pc[p] = "saving" /\ op[p].fresh
      <3>1. /\ op[p].kind = Supersedes
            /\ active' = [b.active EXCEPT ![s] = "none"]
            /\ archived' = b.archived \cup {s}
            /\ manifest' = [b.manifest EXCEPT ![s] = op[p].other]
        BY <1>1, <2>1, <2>4 DEF Halfway
      <3>2. Before' = After(p)
        BY <1>2, <2>2, <2>4, <3>1 DEF Before, After
      <3>. QED BY <3>2
    <2>5. CASE pc[p] = "saving" /\ ~op[p].fresh
      <3>1. /\ op[p].kind = Supersedes
            /\ active' = b.active /\ archived' = b.archived /\ manifest' = b.manifest
            /\ b.manifest[s] = op[p].other /\ s \in b.archived
        BY <1>1, <2>1, <2>5 DEF Halfway
      <3>2. archived' = b.archived \cup {s} /\ manifest' = [b.manifest EXCEPT ![s] = op[p].other]
        BY <1>2, <3>1
      <3>3. Before' = After(p)
        BY <1>2, <2>2, <2>5, <3>1, <3>2 DEF Before, After
      <3>. QED BY <3>3
    <2>. QED BY <1>2, <2>1, <2>3, <2>4, <2>5
  <1>. QED BY <1>4, <1>5, <1>6, <1>7, <1>8, <1>9, ReleaseCases

(* An archive or a seed that no crash cut short did everything or nothing. *)
THEOREM CommandsAtomic == Spec => AllOrNothing
  <1>1. ASSUME IInv, [Next]_vars
        PROVE  [\A p \in Procs :
                  lock = p /\ lock' = None /\ crashes' = crashes /\ faults' <= 1
                     => Before' \in {op[p].before, After(p)}]_vars
    BY <1>1, AllOrNothingStep
  <1>. QED BY <1>1, Safety, PTL DEF Spec, AllOrNothing

=============================================================================
