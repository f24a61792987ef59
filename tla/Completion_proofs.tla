------------------------- MODULE Completion_proofs -------------------------
(***************************************************************************)
(* Sessions, evidence and completion, for any number of commands, tasks,   *)
(* sessions, records, reopens and crashes.                                 *)
(***************************************************************************)
EXTENDS Completion, FiniteSetTheorems, WellFoundedInduction, TLAPS

USE ProcsAssumption, NoneAssumption, BoundsAssumption

\* A set of positions has a last one.
LEMMA LastOf ==
  ASSUME NEW n \in Nat, NEW S \in SUBSET (1 .. n), S # {}
  PROVE  \E i \in S : \A j \in S : j <= i
<1> DEFINE T == {k \in Nat : n - k \in S}
           R == {ss \in Nat \X Nat : ss[1] < ss[2]}
<1>1. T \subseteq Nat /\ T # {}
  <2>1. PICK i \in S : TRUE
    OBVIOUS
  <2>2. n - i \in Nat /\ n - (n - i) = i
    BY <2>1
  <2> QED BY <2>1, <2>2
<1>2. IsWellFoundedOn(R, Nat)
  BY NatLessThanWellFounded DEF OpToRel
<1>3. \E k \in T : \A m \in T : <<m, k>> \notin R
  <2> HIDE DEF T, R
  <2> QED BY <1>1, <1>2, WFMin
<1>4. PICK k \in T : \A m \in T : <<m, k>> \notin R
  <2> HIDE DEF T, R
  <2> QED BY <1>3
<1>5. ASSUME NEW j \in S PROVE j <= n - k
  <2>1. j \in Nat /\ n - j \in Nat /\ n - (n - j) = j
    OBVIOUS
  <2>2. n - j \in T
    BY <2>1
  <2>3. <<n - j, k>> \notin R /\ <<n - j, k>> \in Nat \X Nat
    BY <2>2, <1>4
  <2>4. ~(n - j < k)
    BY <2>3
  <2> QED BY <2>1, <2>4
<1> QED BY <1>5

-----------------------------------------------------------------------------
(* What a command holds *)

\* The program counter of a command says what else it holds.
LEMMA LocalShape ==
  ASSUME NEW l \in Local
  PROVE  /\ l.pc = "save" => l \in [pc : {"save"}, id : SessionIds, seen : Nat, base : Heads]
         /\ l.pc \in {"rotate", "record", "bind"} =>
              l \in [pc : {"rotate", "record", "bind"}, receipt : Receipt, base : Heads]
         /\ l.pc = "verify" => l \in [pc : {"verify"}, task : Tasks]
         /\ l.pc = "append" => l \in [pc : {"append"}, record : Record]
         /\ l.pc = "allocate" =>
              l \in [pc : {"allocate"}, task : Tasks, head : Heads, passed : BOOLEAN]
         /\ l.pc = "stamp" => l \in [pc : {"stamp"}, task : Tasks, head : Heads]
         /\ l.pc = "spend" => l \in [pc : {"spend"}, task : Tasks, head : Heads,
                                     binding : Binding, outcome : Outcomes]
         /\ l.pc = "write" => l \in [pc : {"write"}, task : Tasks, head : Heads,
                                     binding : Binding]
         /\ l.pc = "mark" => l \in [pc : {"mark"}, task : Tasks, head : Heads,
                                    before : SUBSET Tasks]
         /\ l.pc = "annotate" => l \in [pc : {"annotate"}, task : Tasks, head : Heads]
<1>1. l.pc = "save" => l \in [pc : {"save"}, id : SessionIds, seen : Nat, base : Heads]
  BY DEF Local, Idle
<1>2. l.pc \in {"rotate", "record", "bind"} =>
        l \in [pc : {"rotate", "record", "bind"}, receipt : Receipt, base : Heads]
  BY DEF Local, Idle
<1>3. l.pc = "verify" => l \in [pc : {"verify"}, task : Tasks]
  BY DEF Local, Idle
<1>4. l.pc = "append" => l \in [pc : {"append"}, record : Record]
  BY DEF Local, Idle
<1>5. l.pc = "allocate" =>
        l \in [pc : {"allocate"}, task : Tasks, head : Heads, passed : BOOLEAN]
  BY DEF Local, Idle
<1>6. l.pc = "stamp" => l \in [pc : {"stamp"}, task : Tasks, head : Heads]
  BY DEF Local, Idle
<1>7. l.pc = "spend" => l \in [pc : {"spend"}, task : Tasks, head : Heads,
                               binding : Binding, outcome : Outcomes]
  BY DEF Local, Idle
<1>8. l.pc = "write" => l \in [pc : {"write"}, task : Tasks, head : Heads,
                               binding : Binding]
  BY DEF Local, Idle
<1>9. l.pc = "mark" => l \in [pc : {"mark"}, task : Tasks, head : Heads,
                              before : SUBSET Tasks]
  BY DEF Local, Idle
<1>10. l.pc = "annotate" => l \in [pc : {"annotate"}, task : Tasks, head : Heads]
  BY DEF Local, Idle
<1> QED BY <1>1, <1>2, <1>3, <1>4, <1>5, <1>6, <1>7, <1>8, <1>9, <1>10

\* A step of a command changes what that command holds, and nobody else's.
LEMMA GotoLocal ==
  ASSUME TypeOK, NEW p \in Procs, NEW l, Goto(p, l)
  PROVE  /\ local'[p] = l /\ \A q \in Procs \ {p} : local'[q] = local[q]
         /\ l \in Local => local' \in [Procs -> Local]
BY DEF TypeOK, Goto

\* Nobody else's step changes what a command holds.
LEMMA OthersKeep ==
  ASSUME TypeOK, NEW p \in Procs, Command(p), NEW q \in Procs, q # p
  PROVE  local'[q] = local[q]
<1>1. local \in [Procs -> Local]
  BY DEF TypeOK
<1>2. (\E l : Goto(p, l)) => local'[q] = local[q]
  BY <1>1 DEF Goto
<1>3. \E l : Goto(p, l)
  BY Zenon DEF Command, OpenRead, OpenSave, AckBegin, AckRotate, AckRecord, AckBind, AckWrite,
     VerifyBegin, VerifyRan, VerifyAppend, AllocateRun, StampEnvelope, CompleteBegin,
     CompleteSpend, CompleteWrite, CompleteMark, CompleteAnnotate, Crash
<1> QED BY <1>2, <1>3

-----------------------------------------------------------------------------
(* Types *)

\* Finitely many nonces can be issued.
LEMMA IssuedFinite ==
  ASSUME TypeOK
  PROVE  IsFiniteSet(issued) /\ Cardinality(issued) \in Nat
<1> DEFINE Pairs == SessionIds \X Nonces
           Issuable == [session : SessionIds, nonce : Nonces]
           pair == [b \in Issuable |-> <<b.session, b.nonce>>]
<1>1. IsFiniteSet(SessionIds) /\ IsFiniteSet(Nonces)
  BY FS_Interval DEF SessionIds, Nonces
<1>2. IsFiniteSet(Pairs)
  BY <1>1, FS_Product
<1>3. pair \in Injection(Issuable, Pairs)
  <2>1. pair \in [Issuable -> Pairs]
    OBVIOUS
  <2>2. ASSUME NEW a \in Issuable, NEW b \in Issuable, pair[a] = pair[b] PROVE a = b
    <3>1. a.session = b.session /\ a.nonce = b.nonce
      BY <2>2
    <3> QED BY <3>1
  <2>3. IsInjective(pair)
    <3>1. DOMAIN pair = Issuable
      OBVIOUS
    <3> HIDE DEF pair
    <3> QED BY <2>2, <3>1 DEF IsInjective
  <2> QED BY <2>1, <2>3 DEF Injection
<1>4. IsFiniteSet(Issuable)
  BY <1>2, <1>3, FS_Injection
<1>5. issued \in SUBSET Issuable
  BY DEF TypeOK
<1> QED BY <1>4, <1>5, FS_Subset, FS_CardinalityType

\* The last record of a task's current attempt is one of the records.
LEMMA LatestBound ==
  ASSUME TypeOK, NEW t \in Tasks, HasEvidence(t)
  PROVE  \E i \in BoundTo(t) : Latest(t) = evidence[i] /\ evidence[i] \in Record
<1>1. Len(evidence) \in Nat /\ DOMAIN evidence = 1 .. Len(evidence)
  BY DEF TypeOK
<1>2. BoundTo(t) \in SUBSET (1 .. Len(evidence)) /\ BoundTo(t) # {}
  BY <1>1 DEF BoundTo, HasEvidence
<1>3. \E i \in BoundTo(t) : \A j \in BoundTo(t) : j <= i
  BY <1>1, <1>2, LastOf
<1> DEFINE last == CHOOSE i \in BoundTo(t) : \A j \in BoundTo(t) : j <= i
<1>4. last \in BoundTo(t)
  BY <1>3
<1>5. evidence[last] \in Record
  BY <1>1, <1>2, <1>4 DEF TypeOK
<1> QED BY <1>4, <1>5 DEF Latest

\* The number of a task's next run is one past the last one.
LEMMA NextRunNumber ==
  ASSUME TypeOK, RunsNumbered, NEW t \in Tasks
  PROVE  NextRun(t) = Len(runs[t]) + 1
<1> DEFINE taken == {runs[t][i] : i \in DOMAIN runs[t]}
           top == CHOOSE n \in taken : \A i \in DOMAIN runs[t] : runs[t][i] <= n
<1>1. runs[t] \in Seq(Nat) /\ Len(runs[t]) \in Nat /\ DOMAIN runs[t] = 1 .. Len(runs[t])
  BY DEF TypeOK
<1>2. \A i \in 1 .. Len(runs[t]) : runs[t][i] = i
  BY <1>1 DEF RunsNumbered
<1>3. CASE runs[t] = <<>>
  BY <1>3 DEF NextRun
<1>4. CASE runs[t] # <<>>
  <2>1. Len(runs[t]) # 0
    BY <1>1, <1>4
  <2>2. Len(runs[t]) \in taken /\ \A i \in DOMAIN runs[t] : runs[t][i] <= Len(runs[t])
    BY <1>1, <1>2, <2>1
  <2>3. top \in taken /\ \A i \in DOMAIN runs[t] : runs[t][i] <= top
    BY <2>2
  <2>4. top = Len(runs[t])
    BY <2>1, <2>3, <1>1, <1>2
  <2>5. NextRun(t) = 1 + top
    BY <1>4 DEF NextRun
  <2> HIDE DEF top
  <2> QED BY <2>4, <2>5, <1>1
<1> QED BY <1>3, <1>4

\* The open session, and one that a command has changed.
LEMMA SessionEdit ==
  ASSUME NEW s \in Session
  PROVE  /\ \A b \in Heads :
              [s EXCEPT !.base = b, !.receipt = None, !.authority = None] \in Session
         /\ \A r \in Receipt :
              [s EXCEPT !.receipt = r] \in Session /\ [s EXCEPT !.authority = r] \in Session
         /\ \A n \in Nonces :
              [s EXCEPT !.spent = @ \cup {n}, !.revision = @ + 1] \in Session
         /\ [s EXCEPT !.revision = @ + 1] \in Session
         /\ [s EXCEPT !.expired = TRUE] \in Session
<1>1. /\ s.revision + 1 \in Nat
      /\ \A n \in Nonces : s.spent \cup {n} \in SUBSET Nonces
  BY DEF Session
<1>2. ASSUME NEW b \in Heads
      PROVE  [s EXCEPT !.base = b, !.receipt = None, !.authority = None] \in Session
  BY DEF Session
<1>3. ASSUME NEW r \in Receipt
      PROVE  [s EXCEPT !.receipt = r] \in Session /\ [s EXCEPT !.authority = r] \in Session
  BY DEF Session
<1>4. ASSUME NEW v \in Nat, NEW N \in SUBSET Nonces
      PROVE  /\ [s EXCEPT !.spent = N, !.revision = v] \in Session
             /\ [s EXCEPT !.revision = v] \in Session
  BY DEF Session
<1>5. [s EXCEPT !.expired = TRUE] \in Session
  BY DEF Session
<1> QED BY <1>1, <1>2, <1>3, <1>4, <1>5

\* What a command goes on with has the shape Local says.
LEMMA LocalMade ==
  /\ Idle \in Local
  /\ \A i \in SessionIds, n \in Nat, b \in Heads :
       [pc |-> "save", id |-> i, seen |-> n, base |-> b] \in Local
  /\ \A r \in Receipt, b \in Heads, c \in {"rotate", "record", "bind"} :
       [pc |-> c, receipt |-> r, base |-> b] \in Local
  /\ \A t \in Tasks : [pc |-> "verify", task |-> t] \in Local
  /\ \A r \in Record : [pc |-> "append", record |-> r] \in Local
  /\ \A t \in Tasks, h \in Heads, v \in BOOLEAN :
       [pc |-> "allocate", task |-> t, head |-> h, passed |-> v] \in Local
  /\ \A t \in Tasks, h \in Heads : [pc |-> "stamp", task |-> t, head |-> h] \in Local
  /\ \A t \in Tasks, h \in Heads, b \in Binding, o \in Outcomes :
       [pc |-> "spend", task |-> t, head |-> h, binding |-> b, outcome |-> o] \in Local
  /\ \A t \in Tasks, h \in Heads, b \in Binding :
       [pc |-> "write", task |-> t, head |-> h, binding |-> b] \in Local
  /\ \A t \in Tasks, h \in Heads, B \in SUBSET Tasks :
       [pc |-> "mark", task |-> t, head |-> h, before |-> B] \in Local
  /\ \A t \in Tasks, h \in Heads : [pc |-> "annotate", task |-> t, head |-> h] \in Local
<1>1. Idle \in Local
  BY DEF Local
<1>2. ASSUME NEW i \in SessionIds, NEW n \in Nat, NEW b \in Heads
      PROVE  [pc |-> "save", id |-> i, seen |-> n, base |-> b] \in Local
  BY DEF Local
<1>3. ASSUME NEW r \in Receipt, NEW b \in Heads, NEW c \in {"rotate", "record", "bind"}
      PROVE  [pc |-> c, receipt |-> r, base |-> b] \in Local
  BY DEF Local
<1>4. ASSUME NEW t \in Tasks, NEW h \in Heads
      PROVE  /\ [pc |-> "verify", task |-> t] \in Local
             /\ [pc |-> "stamp", task |-> t, head |-> h] \in Local
             /\ [pc |-> "annotate", task |-> t, head |-> h] \in Local
             /\ \A v \in BOOLEAN :
                  [pc |-> "allocate", task |-> t, head |-> h, passed |-> v] \in Local
  BY DEF Local
<1>5. ASSUME NEW r \in Record PROVE [pc |-> "append", record |-> r] \in Local
  BY DEF Local
<1>6. ASSUME NEW t \in Tasks, NEW h \in Heads, NEW b \in Binding
      PROVE  /\ \A o \in Outcomes : [pc |-> "spend", task |-> t, head |-> h,
                                     binding |-> b, outcome |-> o] \in Local
             /\ [pc |-> "write", task |-> t, head |-> h, binding |-> b] \in Local
  BY DEF Local
<1>7. ASSUME NEW t \in Tasks, NEW h \in Heads, NEW B \in SUBSET Tasks
      PROVE  [pc |-> "mark", task |-> t, head |-> h, before |-> B] \in Local
  BY DEF Local
<1>8. Heads # {} /\ \A t \in Tasks : [pc |-> "verify", task |-> t] \in Local
  BY DEF Local, Heads
<1> QED BY <1>1, <1>2, <1>3, <1>4, <1>5, <1>6, <1>7, <1>8

\* TypeOK by parts: a step changes a few of them.
FilesOK ==
  /\ status \subseteq Tasks /\ doc \subseteq Tasks /\ attempt \in [Tasks -> Attempts]
  /\ evidence \in Seq(Record) /\ overrides \in Seq(Override)
  /\ runs \in [Tasks -> Seq(Nat)] /\ evals \in [Tasks -> SUBSET Heads]
  /\ issued \subseteq [session : SessionIds, nonce : Nonces]
WorldOK ==
  /\ head \in Heads /\ docAt \in [Heads -> SUBSET Tasks]
  /\ changed \in [Tasks -> 0 .. MaxHead + 1] /\ clock \in 0 .. MaxClock
  /\ opened \in 0 .. MaxSessions /\ acks \in 0 .. MaxAcks /\ crashes \in 0 .. MaxCrashes
CommandsOK ==
  /\ lock \in Procs \cup {None} /\ local \in [Procs -> Local]
  /\ used \subseteq [session : SessionIds, nonce : Nonces]
SessionOK == session \in Session \cup {None}

LEMMA TypeParts == TypeOK <=> FilesOK /\ WorldOK /\ CommandsOK /\ SessionOK
BY DEF TypeOK, FilesOK, WorldOK, CommandsOK, SessionOK

\* One write of an acknowledgement.
LEMMA AckWriteType ==
  ASSUME TypeOK, NEW p \in Procs, NEW next, NEW then, AckWrite(p, next, then),
         session # None => next \in Session, then \in Local
  PROVE  TypeOK'
<1>1. SessionOK'
  <2>1. CASE SessionKnown(local[p].receipt.of)
    <3>1. session' = [next EXCEPT !.revision = @ + 1] /\ session # None
      BY <2>1 DEF AckWrite, SessionKnown, Live
    <3> QED BY <3>1, SessionEdit DEF SessionOK
  <2>2. CASE ~SessionKnown(local[p].receipt.of)
    BY <2>2 DEF AckWrite, TypeOK, SessionOK
  <2> QED BY <2>1, <2>2
<1>2. local' \in [Procs -> Local]
  <2>1. Goto(p, Idle) \/ Goto(p, then)
    BY DEF AckWrite
  <2> QED BY <2>1, LocalMade, GotoLocal
<1>3. CommandsOK'
  BY <1>2 DEF AckWrite, TypeOK, CommandsOK
<1>4. FilesOK' /\ WorldOK'
  BY DEF AckWrite, TypeOK, FilesOK, WorldOK, world, budgets
<1> QED BY <1>1, <1>3, <1>4, TypeParts DEF TypeOK, FilesOK, WorldOK, CommandsOK, SessionOK

\* The three writes of an acknowledgement.
LEMMA AckType ==
  ASSUME TypeOK, NEW p \in Procs, AckRotate(p) \/ AckRecord(p) \/ AckBind(p)
  PROVE  TypeOK'
<1> DEFINE l == local[p]
<1>1. l.receipt \in Receipt /\ l.base \in Heads
      /\ \A c \in {"record", "bind"} : [l EXCEPT !.pc = c] \in Local
  <2>1. l \in Local /\ l.pc \in {"rotate", "record", "bind"}
    BY DEF TypeOK, AckRotate, AckRecord, AckBind, At
  <2>2. l \in [pc : {"rotate", "record", "bind"}, receipt : Receipt, base : Heads]
    BY <2>1, LocalShape
  <2>3. ASSUME NEW c \in {"record", "bind"}
        PROVE  [l EXCEPT !.pc = c] = [pc |-> c, receipt |-> l.receipt, base |-> l.base]
    <3> HIDE DEF l
    <3> QED BY <2>2
  <2>4. l.receipt \in Receipt /\ l.base \in Heads
    BY <2>2
  <2>5. ASSUME NEW c \in {"record", "bind"} PROVE [l EXCEPT !.pc = c] \in Local
    <3>1. [pc |-> c, receipt |-> l.receipt, base |-> l.base] \in Local
      BY <2>4, LocalMade
    <3> QED BY <2>3, <3>1
  <2> QED BY <2>4, <2>5
<1>2. CASE AckRotate(p)
  <2>1. session # None =>
          [session EXCEPT !.base = l.base, !.receipt = None, !.authority = None] \in Session
    BY <1>1, SessionEdit DEF TypeOK
  <2> QED BY <1>1, <1>2, <2>1, AckWriteType DEF AckRotate
<1>3. CASE AckRecord(p)
  <2>1. session # None => [session EXCEPT !.receipt = l.receipt] \in Session
    BY <1>1, SessionEdit DEF TypeOK
  <2>2. (IF l.receipt.complete THEN [l EXCEPT !.pc = "bind"] ELSE Idle) \in Local
    BY <1>1, LocalMade
  <2> QED BY <1>3, <2>1, <2>2, AckWriteType DEF AckRecord
<1>4. CASE AckBind(p)
  <2>1. session # None => [session EXCEPT !.authority = l.receipt] \in Session
    BY <1>1, SessionEdit DEF TypeOK
  <2> QED BY <1>4, <2>1, LocalMade, AckWriteType DEF AckBind
<1> QED BY <1>2, <1>3, <1>4

\* Opening a session and beginning an acknowledgement.
LEMMA SessionType ==
  ASSUME TypeOK, NEW p \in Procs,
         \/ OpenRead(p) \/ OpenSave(p)
         \/ \E t \in Tasks, full \in BOOLEAN : AckBegin(p, t, full)
  PROVE  TypeOK'
<1>1. CASE OpenRead(p)
  <2>1. opened + 1 \in SessionIds /\ FileRevision \in Nat /\ opened + 1 \in 0 .. MaxSessions
    BY <1>1 DEF OpenRead, TypeOK, SessionIds, FileRevision, Session
  <2>2. local' \in [Procs -> Local]
    <3>1. [pc |-> "save", id |-> opened + 1, seen |-> FileRevision, base |-> head] \in Local
      BY <2>1, LocalMade DEF TypeOK
    <3> QED BY <1>1, <3>1, GotoLocal DEF OpenRead
  <2> QED BY <1>1, <2>1, <2>2 DEF OpenRead, TypeOK, files, world
<1>2. CASE OpenSave(p)
  <2>1. local[p] \in [pc : {"save"}, id : SessionIds, seen : Nat, base : Heads]
    BY <1>2, LocalShape DEF OpenSave, At, TypeOK
  <2>2. session' \in Session \cup {None}
    BY <1>2, <2>1 DEF OpenSave, TypeOK, Session
  <2>3. local' \in [Procs -> Local]
    BY <1>2, LocalMade, GotoLocal DEF OpenSave
  <2> QED BY <1>2, <2>2, <2>3 DEF OpenSave, TypeOK, world, budgets
<1>3. ASSUME NEW t \in Tasks, NEW full \in BOOLEAN, AckBegin(p, t, full) PROVE TypeOK'
  <2>1. Acknowledged(t, full) \in Receipt
    BY <1>3 DEF AckBegin, Live, Acknowledged, Receipt, TypeOK, Session
  <2>2. local' \in [Procs -> Local]
    <3>1. [pc |-> "rotate", receipt |-> Acknowledged(t, full), base |-> head] \in Local
      BY <2>1, LocalMade DEF TypeOK
    <3>2. [pc |-> "rotate", base |-> head, receipt |-> Acknowledged(t, full)] \in Local
      BY <3>1
    <3> QED BY <1>3, <3>2, GotoLocal DEF AckBegin
  <2>3. acks' \in 0 .. MaxAcks
    BY <1>3 DEF AckBegin, TypeOK
  <2> QED BY <1>3, <2>2, <2>3 DEF AckBegin, TypeOK, files, world
<1> QED BY <1>1, <1>2, <1>3

\* Closing a session, letting it expire, minting a nonce.
LEMMA SessionLifeType ==
  ASSUME TypeOK, Close \/ MintNonce \/ Expire
  PROVE  TypeOK'
<1>1. CASE Close
  BY <1>1 DEF Close, TypeOK, world, budgets
<1>2. CASE MintNonce
  <2>1. session.id \in SessionIds
    BY <1>2 DEF MintNonce, Live, TypeOK, Session
  <2>2. Cardinality(issued) + 1 \in Nonces
    <3>1. Cardinality(issued) \in Nat /\ Cardinality(issued) < MaxNonces
      BY <1>2, IssuedFinite DEF MintNonce
    <3> QED BY <3>1 DEF Nonces
  <2>3. [session |-> session.id, nonce |-> Cardinality(issued) + 1]
          \in [session : SessionIds, nonce : Nonces]
    BY <2>1, <2>2
  <2> QED BY <1>2, <2>3 DEF MintNonce, TypeOK, world, budgets
<1>3. CASE Expire
  <2>1. session' \in Session
    BY <1>3, SessionEdit DEF Expire, Live, TypeOK
  <2> QED BY <1>3, <2>1 DEF Expire, TypeOK, world, budgets
<1> QED BY <1>1, <1>2, <1>3

\* Verify: the command runs, the record, the run and the envelope are written.
LEMMA VerifyType ==
  ASSUME TypeOK, RunsNumbered, NEW p \in Procs,
         \/ \E t \in Tasks : VerifyBegin(p, t)
         \/ \E o \in Outcomes : VerifyRan(p, o)
         \/ VerifyAppend(p) \/ AllocateRun(p) \/ StampEnvelope(p)
  PROVE  TypeOK'
<1> DEFINE l == local[p]
<1>0. l \in Local
  BY DEF TypeOK
<1>1. ASSUME NEW t \in Tasks, VerifyBegin(p, t) PROVE TypeOK'
  <2>1. local' \in [Procs -> Local]
    BY <1>1, LocalMade, GotoLocal DEF VerifyBegin
  <2> QED BY <1>1, <2>1 DEF VerifyBegin, TypeOK, files, world, budgets
<1>2. ASSUME NEW o \in Outcomes, VerifyRan(p, o) PROVE TypeOK'
  <2>1. l.task \in Tasks
    BY <1>0, <1>2, LocalShape DEF VerifyRan, At
  <2>2. [task |-> l.task, outcome |-> o, head |-> head, attempt |-> attempt[l.task], at |-> clock]
          \in Record
    BY <2>1 DEF TypeOK, Record
  <2>3. local' \in [Procs -> Local]
    BY <1>2, <2>2, LocalMade, GotoLocal DEF VerifyRan
  <2> QED BY <1>2, <2>3 DEF VerifyRan, TypeOK, files, world, budgets
<1>3. CASE VerifyAppend(p)
  <2>1. l.record \in Record
    BY <1>0, <1>3, LocalShape DEF VerifyAppend, At
  <2>2. evidence' \in Seq(Record)
    BY <1>3, <2>1 DEF VerifyAppend, TypeOK
  <2>3. local' \in [Procs -> Local]
    <3>1. l.record.task \in Tasks /\ l.record.head \in Heads /\ Passed(l.record) \in BOOLEAN
      BY <2>1 DEF Record, Passed
    <3> QED BY <1>3, <3>1, LocalMade, GotoLocal DEF VerifyAppend
  <2> QED BY <1>3, <2>2, <2>3 DEF VerifyAppend, TypeOK, world, budgets
<1>4. CASE AllocateRun(p)
  <2>1. l.task \in Tasks /\ l.head \in Heads
    BY <1>0, <1>4, LocalShape DEF AllocateRun, At
  <2>2. runs' \in [Tasks -> Seq(Nat)]
    <3>1. NextRun(l.task) \in Nat /\ runs[l.task] \in Seq(Nat)
      BY <1>4, <2>1, NextRunNumber DEF TypeOK
    <3>2. Append(runs[l.task], NextRun(l.task)) \in Seq(Nat)
      BY <3>1
    <3> QED BY <1>4, <2>1, <3>2 DEF AllocateRun, TypeOK
  <2>3. local' \in [Procs -> Local]
    BY <1>4, <2>1, LocalMade, GotoLocal DEF AllocateRun
  <2> QED BY <1>4, <2>2, <2>3 DEF AllocateRun, TypeOK, world, budgets
<1>5. CASE StampEnvelope(p)
  <2>1. l.task \in Tasks /\ l.head \in Heads
    BY <1>0, <1>5, LocalShape DEF StampEnvelope, At
  <2>2. evals' \in [Tasks -> SUBSET Heads]
    BY <1>5, <2>1 DEF StampEnvelope, TypeOK
  <2>3. local' \in [Procs -> Local]
    BY <1>5, LocalMade, GotoLocal DEF StampEnvelope
  <2> QED BY <1>5, <2>2, <2>3 DEF StampEnvelope, TypeOK, world, budgets
<1> QED BY <1>1, <1>2, <1>3, <1>4, <1>5

\* complete-task, from its first locked step to its last.
LEMMA CompleteType ==
  ASSUME TypeOK, NEW p \in Procs,
         \/ \E t \in Tasks, b \in issued \cup {None} : CompleteBegin(p, t, b)
         \/ CompleteSpend(p) \/ CompleteWrite(p)
         \/ \E w \in BOOLEAN : CompleteMark(p, w)
         \/ \E telemetry \in BOOLEAN : CompleteAnnotate(p, telemetry)
  PROVE  TypeOK'
<1> DEFINE l == local[p]
<1>0. l \in Local
  BY DEF TypeOK
<1>1. ASSUME NEW t \in Tasks, NEW b \in issued \cup {None}, CompleteBegin(p, t, b)
      PROVE  TypeOK'
  <2>1. b \in Binding
    BY DEF TypeOK, Binding
  <2>2. Latest(t).outcome \in Outcomes
    <3>1. HasEvidence(t)
      BY <1>1 DEF CompleteBegin, EvidenceReady
    <3> QED BY <3>1, LatestBound DEF Record
  <2>3. local' \in [Procs -> Local]
    BY <1>1, <2>1, <2>2, LocalMade, GotoLocal DEF CompleteBegin, TypeOK
  <2> QED BY <1>1, <2>3 DEF CompleteBegin, TypeOK, files, world, budgets
<1>2. CASE CompleteSpend(p)
  <2>1. l.task \in Tasks /\ l.head \in Heads /\ l.binding \in Binding
    BY <1>0, <1>2, LocalShape DEF CompleteSpend, At
  <2>2. session' \in Session \cup {None}
    <3>1. CASE session # None /\ BindingValid(l.binding)
      <4>1. l.binding.nonce \in Nonces
        BY <2>1, <3>1 DEF BindingValid, Binding
      <4> QED BY <1>2, <3>1, <4>1, SessionEdit DEF CompleteSpend, TypeOK
    <3>2. CASE ~(session # None /\ BindingValid(l.binding))
      BY <1>2, <3>2 DEF CompleteSpend, TypeOK
    <3> QED BY <3>1, <3>2
  <2>3. local' \in [Procs -> Local]
    <3>1. (IF session = None THEN None ELSE l.binding) \in Binding
      BY <2>1 DEF Binding
    <3> QED BY <1>2, <2>1, <3>1, LocalMade, GotoLocal DEF CompleteSpend
  <2>4. lock' \in Procs \cup {None}
    BY <1>2 DEF CompleteSpend, TypeOK
  <2> QED BY <1>2, <2>2, <2>3, <2>4 DEF CompleteSpend, TypeOK, world, budgets
<1>3. CASE CompleteWrite(p)
  <2>1. l.task \in Tasks /\ l.head \in Heads /\ l.binding \in Binding
    BY <1>0, <1>3, LocalShape DEF CompleteWrite, At
  <2>2. local' \in [Procs -> Local]
    BY <1>3, <2>1, LocalMade, GotoLocal DEF CompleteWrite, TypeOK
  <2>3. used' \subseteq [session : SessionIds, nonce : Nonces]
    BY <1>3, <2>1 DEF CompleteWrite, TypeOK, Binding
  <2> QED BY <1>3, <2>1, <2>2, <2>3 DEF CompleteWrite, TypeOK, world, budgets
<1>4. ASSUME NEW w \in BOOLEAN, CompleteMark(p, w) PROVE TypeOK'
  <2>1. l.task \in Tasks /\ l.head \in Heads /\ l.before \in SUBSET Tasks
    BY <1>0, <1>4, LocalShape DEF CompleteMark, At
  <2>2. local' \in [Procs -> Local]
    BY <1>4, <2>1, LocalMade, GotoLocal DEF CompleteMark
  <2>3. status' \subseteq Tasks /\ doc' \subseteq Tasks /\ lock' \in Procs \cup {None}
    BY <1>4, <2>1 DEF CompleteMark, TypeOK
  <2> QED BY <1>4, <2>2, <2>3 DEF CompleteMark, TypeOK, world, budgets
<1>5. ASSUME NEW telemetry \in BOOLEAN, CompleteAnnotate(p, telemetry) PROVE TypeOK'
  <2>1. l.task \in Tasks /\ l.head \in Heads
    BY <1>0, <1>5, LocalShape DEF CompleteAnnotate, At
  <2>2. [task |-> l.task, outcome |-> "pass", head |-> l.head,
         attempt |-> attempt[l.task], at |-> clock] \in Record
    BY <2>1 DEF TypeOK, Record, Outcomes
  <2>3. evidence' \in Seq(Record)
    BY <1>5, <2>2 DEF CompleteAnnotate, TypeOK
  <2>4. local' \in [Procs -> Local]
    BY <1>5, LocalMade, GotoLocal DEF CompleteAnnotate
  <2> QED BY <1>5, <2>3, <2>4 DEF CompleteAnnotate, TypeOK, world, budgets
<1> QED BY <1>1, <1>2, <1>3, <1>4, <1>5

\* Every step keeps the types.
LEMMA TypeNext ==
  ASSUME TypeOK, RunsNumbered, [Next]_vars
  PROVE  TypeOK'
<1>1. ASSUME NEW p \in Procs, Crash(p) PROVE TypeOK'
  <2>1. local' \in [Procs -> Local] /\ lock' \in Procs \cup {None} /\ crashes' \in 0 .. MaxCrashes
    <3>1. Goto(p, Idle) /\ lock' \in {lock, None} /\ crashes' = crashes + 1 /\ crashes < MaxCrashes
      BY <1>1 DEF Crash
    <3>2. local' \in [Procs -> Local]
      BY <3>1, LocalMade, GotoLocal
    <3> QED BY <3>1, <3>2 DEF TypeOK
  <2>2. UNCHANGED <<files, world, used, opened, acks>>
    BY <1>1 DEF Crash
  <2> QED BY <2>1, <2>2 DEF TypeOK, files, world
<1>2. ASSUME NEW p \in Procs, Command(p) PROVE TypeOK'
  BY <1>1, <1>2, SessionType, AckType, VerifyType, CompleteType DEF Command
<1>3. ASSUME NEW t \in Tasks, ClearEscalation(t) PROVE TypeOK'
  <2>1. [task |-> t, at |-> clock] \in Override
    BY DEF TypeOK, Override
  <2>2. overrides' \in Seq(Override)
    BY <1>3, <2>1 DEF ClearEscalation, TypeOK
  <2> QED BY <1>3, <2>2 DEF ClearEscalation, TypeOK, world, budgets
<1>4. ASSUME NEW t \in Tasks, Reopen(t) PROVE TypeOK'
  <2>1. attempt' \in [Tasks -> Attempts]
    BY <1>4 DEF Reopen, TypeOK, Attempts
  <2> QED BY <1>4, <2>1 DEF Reopen, TypeOK, world, budgets
<1>5. ASSUME NEW t \in Tasks, Edit(t) PROVE TypeOK'
  <2>1. changed' \in [Tasks -> 0 .. MaxHead + 1]
    BY <1>5 DEF Edit, TypeOK, Heads
  <2> QED BY <1>5, <2>1 DEF Edit, TypeOK, files, budgets
<1>6. CASE Commit
  <2>1. head' \in Heads /\ docAt' \in [Heads -> SUBSET Tasks]
    BY <1>6 DEF Commit, TypeOK, Heads
  <2> QED BY <1>6, <2>1 DEF Commit, TypeOK, files, budgets
<1>7. CASE Tick
  BY <1>7 DEF Tick, TypeOK, files, budgets
<1>8. CASE Close \/ MintNonce \/ Expire
  BY <1>8, SessionLifeType
<1>9. CASE UNCHANGED vars
  BY <1>9 DEF vars, files, world, budgets, TypeOK
<1> QED BY <1>2, <1>3, <1>4, <1>5, <1>6, <1>7, <1>8, <1>9 DEF Next, Environment

-----------------------------------------------------------------------------
(* What a step may change *)

\* The files and the world, by the actions that write them.
LEMMA FilesStep ==
  ASSUME [Next]_vars
  PROVE  \/ UNCHANGED <<status, doc, attempt, evidence, used>>
         \/ \E p \in Procs :
              \/ VerifyAppend(p) \/ CompleteWrite(p)
              \/ \E w \in BOOLEAN : CompleteMark(p, w)
              \/ \E telemetry \in BOOLEAN : CompleteAnnotate(p, telemetry)
         \/ \E t \in Tasks : Reopen(t)
<1>1. ASSUME NEW p \in Procs, Command(p)
      PROVE  \/ UNCHANGED <<status, doc, attempt, evidence, used>>
             \/ VerifyAppend(p) \/ CompleteWrite(p)
             \/ \E w \in BOOLEAN : CompleteMark(p, w)
             \/ \E telemetry \in BOOLEAN : CompleteAnnotate(p, telemetry)
  BY <1>1 DEF Command, OpenRead, OpenSave, AckBegin, AckRotate, AckRecord, AckBind, AckWrite,
     VerifyBegin, VerifyRan, AllocateRun, StampEnvelope, CompleteBegin, CompleteSpend, Crash, files
<1>2. CASE Environment
  BY <1>2 DEF Environment, Close, MintNonce, ClearEscalation, Edit, Commit, Tick, Expire, files
<1> QED BY <1>1, <1>2 DEF Next, vars, files

\* A command outside the lock leaves lock and locked program counters alone.
LEMMA LockStep ==
  ASSUME TypeOK, LockHeld, [Next]_vars
  PROVE  LockHeld'
<1>0. ASSUME NEW p \in Procs, NEW pc, local' = [local EXCEPT ![p] = pc],
             \/ /\ lock' = lock /\ (pc.pc \in Locked <=> local[p].pc \in Locked)
             \/ /\ lock = None /\ lock' = p /\ pc.pc \in Locked
             \/ /\ lock = p /\ lock' = None /\ pc.pc \notin Locked
      PROVE  LockHeld'
  BY <1>0 DEF TypeOK, LockHeld
<1> DEFINE Out(p) == local[p].pc \notin Locked
<1>1. Idle.pc \notin Locked
  BY DEF Idle, Locked
<1>2. ASSUME NEW p \in Procs, OpenRead(p) \/ OpenSave(p) PROVE LockHeld'
  BY <1>0, <1>1, <1>2 DEF OpenRead, OpenSave, Goto, At, Locked
<1>3. ASSUME NEW p \in Procs,
             (\E t \in Tasks, full \in BOOLEAN : AckBegin(p, t, full))
               \/ AckRotate(p) \/ AckRecord(p) \/ AckBind(p)
      PROVE  LockHeld'
  <2>1. local[p] \in Local
    BY DEF TypeOK
  <2>2. local[p].pc \in {"rotate", "record", "bind"} =>
          \A c \in {"record", "bind"} : [local[p] EXCEPT !.pc = c].pc = c
    BY <2>1, LocalShape
  <2> QED BY <1>0, <1>1, <1>3, <2>2
          DEF AckBegin, AckRotate, AckRecord, AckBind, AckWrite, Goto, At, Locked
<1>4. ASSUME NEW p \in Procs,
             \/ \E t \in Tasks : VerifyBegin(p, t)
             \/ \E o \in Outcomes : VerifyRan(p, o)
             \/ VerifyAppend(p) \/ AllocateRun(p) \/ StampEnvelope(p)
      PROVE  LockHeld'
  BY <1>0, <1>1, <1>4
     DEF VerifyBegin, VerifyRan, VerifyAppend, AllocateRun, StampEnvelope, Goto, At, Locked
<1>5. ASSUME NEW p \in Procs,
             \/ \E t \in Tasks, b \in issued \cup {None} : CompleteBegin(p, t, b)
             \/ CompleteSpend(p) \/ CompleteWrite(p)
             \/ \E w \in BOOLEAN : CompleteMark(p, w)
             \/ \E telemetry \in BOOLEAN : CompleteAnnotate(p, telemetry)
      PROVE  LockHeld'
  <2>1. local[p].pc \in Locked <=> lock = p
    BY DEF LockHeld
  <2> QED BY <1>0, <1>1, <1>5, <2>1
          DEF CompleteBegin, CompleteSpend, CompleteWrite, CompleteMark, CompleteAnnotate,
              Goto, At, Locked
<1>6. ASSUME NEW p \in Procs, Crash(p) PROVE LockHeld'
  <2>1. local[p].pc \in Locked <=> lock = p
    BY DEF LockHeld
  <2> QED BY <1>0, <1>1, <1>6, <2>1 DEF Crash, Goto
<1>7. CASE Environment
  BY <1>7 DEF Environment, Close, MintNonce, ClearEscalation, Reopen, Edit, Commit, Tick, Expire,
              LockHeld
<1>8. CASE UNCHANGED vars
  BY <1>8 DEF vars, LockHeld
<1>9. ASSUME NEW p \in Procs, Command(p) PROVE LockHeld'
  BY <1>9, <1>2, <1>3, <1>4, <1>5, <1>6 DEF Command
<1> QED BY <1>7, <1>8, <1>9 DEF Next

\* While q holds the lock, and does not step itself, the files it works on
\* stay as they are, but for records appended to evidence.jsonl.
LEMMA HolderUndisturbed ==
  ASSUME TypeOK, LockHeld, [Next]_vars,
         NEW q \in Procs, local[q].pc \in Locked, local'[q] = local[q]
  PROVE  /\ UNCHANGED <<status, doc, attempt, used>>
         /\ \/ evidence' = evidence
            \/ \E r \in Record : evidence' = Append(evidence, r)
         /\ \/ session' = session
            \/ Expire
<1>1. lock = q /\ q # None
  BY DEF LockHeld
<1>2. \A p \in Procs : local[p].pc \in Locked => p = q
  BY <1>1 DEF LockHeld
<1>3. \A l : Goto(q, l) => l = local[q]
  BY DEF Goto, TypeOK
<1>4. ASSUME NEW p \in Procs, Command(p), p # q
      PROVE  /\ UNCHANGED <<status, doc, attempt, used, session>>
             /\ \/ evidence' = evidence
                \/ \E r \in Record : evidence' = Append(evidence, r)
  <2>1. local[p].pc \notin Locked
    BY <1>2, <1>4
  <2>2. CASE VerifyAppend(p)
    <3>1. local[p].record \in Record
      BY <2>2, LocalShape DEF VerifyAppend, At, TypeOK
    <3> QED BY <2>2, <3>1 DEF VerifyAppend
  <2> QED BY <1>1, <1>4, <2>1, <2>2
          DEF Command, OpenRead, OpenSave, AckBegin, AckRotate, AckRecord, AckBind, AckWrite,
     VerifyBegin, VerifyRan, AllocateRun, StampEnvelope, CompleteBegin, CompleteSpend,
     CompleteWrite, CompleteMark, CompleteAnnotate, Crash, At, Locked, files
<1>5. CASE Environment
  BY <1>1, <1>5 DEF Environment, Close, MintNonce, ClearEscalation, Reopen, Edit, Commit, Tick,
                    Expire, files
<1>6. CASE UNCHANGED vars
  BY <1>6 DEF vars, files
<1>7. ~Command(q)
  <2>1. \A l : Goto(q, l) => l.pc = local[q].pc
    BY <1>3
  <2>2. ~(CompleteSpend(q) \/ CompleteWrite(q) \/ Crash(q))
    BY <2>1 DEF CompleteSpend, CompleteWrite, Crash, At, Idle, Locked
  <2>3. ~(\E w \in BOOLEAN : CompleteMark(q, w) \/ CompleteAnnotate(q, w))
    BY <2>1 DEF CompleteMark, CompleteAnnotate, At, Idle, Locked
  <2> QED BY <2>2, <2>3 DEF Command, OpenRead, OpenSave, AckBegin, AckRotate, AckRecord,
        AckBind, VerifyBegin, VerifyRan, VerifyAppend, AllocateRun, StampEnvelope,
        CompleteBegin, At, Locked
<1> QED BY <1>4, <1>5, <1>6, <1>7 DEF Next

\* Which step leads to which program counter.
LEMMA Arrives ==
  ASSUME TypeOK, NEW p \in Procs, Command(p)
  PROVE  LET m == local'[p]
         IN  /\ m.pc = "save" => OpenRead(p)
             /\ m.pc = "bind" => AckRecord(p)
             /\ m.pc = "verify" => \E t \in Tasks : VerifyBegin(p, t)
             /\ m.pc = "append" => \E o \in Outcomes : VerifyRan(p, o)
             /\ m.pc = "spend" =>
                  \E t \in Tasks, b \in issued \cup {None} : CompleteBegin(p, t, b)
             /\ m.pc = "write" => CompleteSpend(p)
             /\ m.pc = "mark" => CompleteWrite(p)
             /\ m.pc = "annotate" => \E w \in BOOLEAN : CompleteMark(p, w)
<1> DEFINE m == local'[p]
<1>1. \A k : Goto(p, k) => m = k
  BY GotoLocal
<1>2. m = Idle => m.pc = "idle"
  BY DEF Idle
<1>3. OpenSave(p) \/ Crash(p) => m.pc = "idle"
  BY <1>1, <1>2 DEF OpenSave, Crash
<1>4. ASSUME NEW t \in Tasks, NEW full \in BOOLEAN, AckBegin(p, t, full)
      PROVE  m.pc = "rotate"
  BY <1>1, <1>4 DEF AckBegin
<1>5. AckRotate(p) \/ AckBind(p) => m.pc \in {"idle", "record"}
  <2>1. AckRotate(p) => local[p] \in
          [pc : {"rotate", "record", "bind"}, receipt : Receipt, base : Heads]
    BY LocalShape DEF AckRotate, At, TypeOK
  <2>2. AckRotate(p) => [local[p] EXCEPT !.pc = "record"].pc = "record"
    BY <2>1
  <2> QED BY <1>1, <1>2, <2>2 DEF AckRotate, AckBind, AckWrite
<1>6. AckRecord(p) => m.pc \in {"idle", "bind"}
  <2>1. AckRecord(p) => local[p] \in
          [pc : {"rotate", "record", "bind"}, receipt : Receipt, base : Heads]
    BY LocalShape DEF AckRecord, At, TypeOK
  <2>2. AckRecord(p) => [local[p] EXCEPT !.pc = "bind"].pc = "bind"
    BY <2>1
  <2> QED BY <1>1, <1>2, <2>2 DEF AckRecord, AckWrite
<1>7. OpenRead(p) => m.pc = "save"
  BY <1>1 DEF OpenRead
<1>8. ASSUME NEW t \in Tasks, VerifyBegin(p, t) PROVE m.pc = "verify"
  BY <1>1, <1>8 DEF VerifyBegin
<1>9. ASSUME NEW o \in Outcomes, VerifyRan(p, o) PROVE m.pc = "append"
  BY <1>1, <1>9 DEF VerifyRan
<1>10. VerifyAppend(p) => m.pc = "allocate"
  BY <1>1 DEF VerifyAppend
<1>11. AllocateRun(p) \/ StampEnvelope(p) => m.pc \in {"idle", "stamp"}
  BY <1>1, <1>2 DEF AllocateRun, StampEnvelope
<1>12. ASSUME NEW t \in Tasks, NEW b \in issued \cup {None}, CompleteBegin(p, t, b)
       PROVE  m.pc = "spend"
  BY <1>1, <1>12 DEF CompleteBegin
<1>13. CompleteSpend(p) => m.pc \in {"idle", "write"}
  BY <1>1, <1>2 DEF CompleteSpend
<1>14. CompleteWrite(p) => m.pc = "mark"
  BY <1>1 DEF CompleteWrite
<1>15. ASSUME NEW w \in BOOLEAN, CompleteMark(p, w) PROVE m.pc \in {"idle", "annotate"}
  BY <1>1, <1>2, <1>15 DEF CompleteMark
<1>16. ASSUME NEW telemetry \in BOOLEAN, CompleteAnnotate(p, telemetry) PROVE m.pc = "idle"
  BY <1>1, <1>2, <1>16 DEF CompleteAnnotate
<1> HIDE DEF m
<1>17. /\ m.pc = "save" => OpenRead(p)
       /\ m.pc = "bind" => AckRecord(p)
       /\ m.pc = "write" => CompleteSpend(p)
       /\ m.pc = "mark" => CompleteWrite(p)
  BY <1>3, <1>4, <1>5, <1>6, <1>7, <1>8, <1>9, <1>10, <1>11, <1>12, <1>13, <1>14, <1>15, <1>16
     DEF Command
<1>18. /\ m.pc = "verify" => \E t \in Tasks : VerifyBegin(p, t)
       /\ m.pc = "append" => \E o \in Outcomes : VerifyRan(p, o)
  BY <1>3, <1>4, <1>5, <1>6, <1>7, <1>8, <1>9, <1>10, <1>11, <1>12, <1>13, <1>14, <1>15, <1>16
     DEF Command
<1>19. /\ m.pc = "spend" =>
            \E t \in Tasks, b \in issued \cup {None} : CompleteBegin(p, t, b)
       /\ m.pc = "annotate" => \E w \in BOOLEAN : CompleteMark(p, w)
  BY <1>3, <1>4, <1>5, <1>6, <1>7, <1>8, <1>9, <1>10, <1>11, <1>12, <1>13, <1>14, <1>15, <1>16
     DEF Command
<1> QED BY <1>17, <1>18, <1>19 DEF m

-----------------------------------------------------------------------------
(* Evidence *)

\* A passing record of a task's attempt stays one while records are appended.
LEMMA ProvenKept ==
  ASSUME TypeOK, NEW t \in Tasks, Proven(t), attempt'[t] = attempt[t],
         \/ evidence' = evidence
         \/ \E r \in Record : evidence' = Append(evidence, r)
  PROVE  Proven(t)'
<1>1. PICK i \in BoundTo(t) : evidence[i].outcome = "pass"
  BY DEF Proven
<1>2. Len(evidence) \in Nat /\ DOMAIN evidence = 1 .. Len(evidence)
  BY DEF TypeOK
<1>3. i \in DOMAIN evidence' /\ evidence'[i] = evidence[i]
  <2>1. CASE evidence' = evidence
    BY <2>1, <1>1 DEF BoundTo
  <2>2. ASSUME NEW r \in Record, evidence' = Append(evidence, r)
        PROVE  i \in DOMAIN evidence' /\ evidence'[i] = evidence[i]
    <3>1. evidence \in Seq(Record) /\ i \in 1 .. Len(evidence)
      BY <1>1, <1>2 DEF BoundTo, TypeOK
    <3>2. /\ Len(Append(evidence, r)) = Len(evidence) + 1
          /\ DOMAIN Append(evidence, r) = 1 .. Len(evidence) + 1
          /\ Append(evidence, r)[i] = evidence[i]
      BY <3>1
    <3> QED BY <2>2, <3>1, <3>2
  <2> QED BY <2>1, <2>2
<1> QED BY <1>1, <1>3 DEF Proven, BoundTo

\* LocalSound, for one command.
SoundOf(l) ==
  /\ l.pc = "spend" /\ StatusPassing(l.outcome) => Proven(l.task)
  /\ l.pc \in {"write", "mark", "annotate"} => Proven(l.task)
  /\ l.pc = "mark" => l.before \subseteq status /\ status = l.before \cup {l.task}
  /\ l.pc = "bind" => l.receipt.complete

LEMMA LocalSoundParts == LocalSound <=> \A p \in Procs : SoundOf(local[p])
BY DEF LocalSound, SoundOf

\* What a command holds stays true while others step.
LEMMA SoundUndisturbed ==
  ASSUME TypeOK, LockHeld, [Next]_vars,
         NEW q \in Procs, SoundOf(local[q]), local'[q] = local[q]
  PROVE  SoundOf(local[q])'
<1> DEFINE l == local[q]
<1>1. CASE l.pc \notin Locked
  <2>1. l.pc \notin {"spend", "write", "mark", "annotate"}
    BY <1>1 DEF Locked
  <2> QED BY <2>1 DEF SoundOf
<1>2. CASE l.pc \in Locked
  <2>1. /\ UNCHANGED <<status, attempt>>
        /\ \/ evidence' = evidence
           \/ \E r \in Record : evidence' = Append(evidence, r)
    BY <1>2, HolderUndisturbed
  <2>2. l.task \in Tasks
    <3>1. l \in Local /\ l.pc \in {"spend", "write", "mark", "annotate"}
      BY <1>2 DEF TypeOK, Locked
    <3> HIDE DEF l
    <3> QED BY <3>1, LocalShape
  <2>3. Proven(l.task) => Proven(l.task)'
    BY <2>1, <2>2, ProvenKept
  <2> QED BY <2>1, <2>3 DEF SoundOf, StatusPassing, Proven, BoundTo
<1> QED BY <1>1, <1>2

\* What a command finds out in a step is true.
LEMMA SoundFound ==
  ASSUME TypeOK, LockHeld, LocalSound, NEW p \in Procs, Command(p)
  PROVE  SoundOf(local[p])'
<1> DEFINE l == local[p]
           m == local'[p]
<1>0. l \in Local /\ SoundOf(l)
  BY LocalSoundParts DEF TypeOK
<1>1. m.pc \notin {"spend", "write", "mark", "annotate", "bind"} => SoundOf(local[p])'
  BY DEF SoundOf
<1>2. \A k : Goto(p, k) => m = k
  BY GotoLocal
<1>3. CASE m.pc = "bind" /\ AckRecord(p)
  <2>1. l \in [pc : {"rotate", "record", "bind"}, receipt : Receipt, base : Heads]
    BY <1>0, <1>3, LocalShape DEF AckRecord, At
  <2>2. [l EXCEPT !.pc = "bind"].receipt = l.receipt /\ Idle.pc = "idle"
    BY <2>1 DEF Idle
  <2>3. m.receipt.complete
    BY <1>2, <1>3, <2>2 DEF AckRecord, AckWrite
  <2> QED BY <1>3, <2>3 DEF SoundOf
<1>4. ASSUME NEW t \in Tasks, NEW b \in issued \cup {None}, CompleteBegin(p, t, b)
      PROVE  SoundOf(local[p])'
  <2>1. /\ m.pc = "spend" /\ m.task = t /\ m.outcome = Latest(t).outcome
        /\ HasEvidence(t) /\ UNCHANGED <<evidence, attempt>>
    BY <1>2, <1>4 DEF CompleteBegin, EvidenceReady, files
  <2>2. m.outcome = "pass" => Proven(t)
    BY <2>1, LatestBound DEF Proven
  <2> QED BY <2>1, <2>2 DEF SoundOf, StatusPassing, Proven, BoundTo
<1>5. CASE m.pc = "write" /\ CompleteSpend(p)
  <2>1. /\ m.task = l.task /\ StatusPassing(l.outcome) /\ UNCHANGED <<evidence, attempt>>
    BY <1>2, <1>5 DEF CompleteSpend, Idle
  <2>2. l.pc = "spend"
    BY <1>5 DEF CompleteSpend, At
  <2> QED BY <1>0, <1>5, <2>1, <2>2 DEF SoundOf, Proven, BoundTo
<1>6. CASE CompleteWrite(p)
  <2>1. /\ m.pc = "mark" /\ m.task = l.task /\ m.before = status
        /\ status' = status \cup {l.task} /\ UNCHANGED <<evidence, attempt>>
    BY <1>2, <1>6 DEF CompleteWrite
  <2>2. l.pc = "write"
    BY <1>6 DEF CompleteWrite, At
  <2> QED BY <1>0, <2>1, <2>2 DEF SoundOf, Proven, BoundTo
<1>7. ASSUME NEW w \in BOOLEAN, CompleteMark(p, w), m.pc = "annotate"
      PROVE  SoundOf(local[p])'
  <2>1. m.task = l.task /\ UNCHANGED <<evidence, attempt>>
    BY <1>2, <1>7 DEF CompleteMark, Idle
  <2>2. l.pc = "mark"
    BY <1>7 DEF CompleteMark, At
  <2> QED BY <1>0, <1>7, <2>1, <2>2 DEF SoundOf, Proven, BoundTo
<1> QED BY <1>1, <1>3, <1>4, <1>5, <1>6, <1>7, Arrives

LEMMA LocalSoundNext ==
  ASSUME TypeOK, LockHeld, LocalSound, [Next]_vars
  PROVE  LocalSound'
<1>1. ASSUME NEW p \in Procs, Command(p), NEW q \in Procs PROVE SoundOf(local[q])'
  <2>1. CASE q = p
    BY <1>1, <2>1, SoundFound
  <2>2. CASE q # p
    BY <1>1, <2>2, OthersKeep, SoundUndisturbed, LocalSoundParts
  <2> QED BY <2>1, <2>2
<1>2. ASSUME Environment \/ UNCHANGED vars, NEW q \in Procs PROVE SoundOf(local[q])'
  <2>1. local' = local
    BY <1>2 DEF Environment, Close, MintNonce, ClearEscalation, Reopen, Edit, Commit, Tick,
                Expire, vars
  <2> QED BY <2>1, SoundUndisturbed, LocalSoundParts
<1>3. \A q \in Procs : SoundOf(local[q])'
  BY <1>1, <1>2 DEF Next
<1> QED BY <1>3 DEF LocalSound, SoundOf

\* A task called complete keeps its passing record.
LEMMA EvidenceNext ==
  ASSUME TypeOK, LocalSound, EvidenceBacked, [Next]_vars
  PROVE  EvidenceBacked'
<1>0. ASSUME NEW t \in Tasks, Proven(t), attempt'[t] = attempt[t],
             \/ evidence' = evidence
             \/ \E r \in Record : evidence' = Append(evidence, r)
      PROVE  Proven(t)'
  BY <1>0, ProvenKept
<1>1. CASE UNCHANGED <<status, doc, attempt, evidence, used>>
  BY <1>1 DEF EvidenceBacked, Proven, BoundTo
<1>2. ASSUME NEW p \in Procs,
             \/ VerifyAppend(p)
             \/ \E telemetry \in BOOLEAN : CompleteAnnotate(p, telemetry)
      PROVE  EvidenceBacked'
  <2>1. UNCHANGED <<status, attempt>>
    BY <1>2 DEF VerifyAppend, CompleteAnnotate
  <2>2. \/ evidence' = evidence
        \/ \E r \in Record : evidence' = Append(evidence, r)
    <3>1. local[p] \in Local
      BY DEF TypeOK
    <3>2. CASE VerifyAppend(p)
      <4>1. local[p].record \in Record
        BY <3>1, <3>2, LocalShape DEF VerifyAppend, At
      <4> QED BY <3>2, <4>1 DEF VerifyAppend
    <3>3. ASSUME NEW telemetry \in BOOLEAN, CompleteAnnotate(p, telemetry)
          PROVE  \/ evidence' = evidence
                 \/ \E r \in Record : evidence' = Append(evidence, r)
      <4>1. local[p].task \in Tasks /\ local[p].head \in Heads
        BY <3>1, <3>3, LocalShape DEF CompleteAnnotate, At
      <4>2. [task |-> local[p].task, outcome |-> "pass", head |-> local[p].head,
             attempt |-> attempt[local[p].task], at |-> clock] \in Record
        BY <4>1 DEF TypeOK, Record, Outcomes
      <4> QED BY <3>3, <4>2 DEF CompleteAnnotate
    <3> QED BY <1>2, <3>2, <3>3
  <2> QED BY <1>0, <2>1, <2>2 DEF EvidenceBacked, TypeOK
<1>3. ASSUME NEW p \in Procs, CompleteWrite(p) PROVE EvidenceBacked'
  <2>1. Proven(local[p].task)
    BY <1>3, LocalSoundParts DEF CompleteWrite, At, SoundOf
  <2> QED BY <1>3, <2>1 DEF CompleteWrite, EvidenceBacked, Proven, BoundTo
<1>4. ASSUME NEW p \in Procs, NEW w \in BOOLEAN, CompleteMark(p, w) PROVE EvidenceBacked'
  <2>1. local[p].before \subseteq status
    BY <1>4, LocalSoundParts DEF CompleteMark, At, SoundOf
  <2> QED BY <1>4, <2>1 DEF CompleteMark, EvidenceBacked, Proven, BoundTo
<1>5. ASSUME NEW t \in Tasks, Reopen(t) PROVE EvidenceBacked'
  <2>1. ASSUME NEW u \in status \ {t} PROVE attempt'[u] = attempt[u]
    BY <1>5 DEF Reopen, TypeOK
  <2>2. \A u \in status \ {t} : Proven(u)'
    BY <1>0, <1>5, <2>1 DEF Reopen, EvidenceBacked, TypeOK
  <2> QED BY <1>5, <2>2 DEF Reopen, EvidenceBacked
<1> QED BY <1>1, <1>2, <1>3, <1>4, <1>5, FilesStep

-----------------------------------------------------------------------------
(* Sessions and nonces *)

\* What a step that edits the open session leaves true of it.
Edited ==
  /\ session # None /\ session' # None
  /\ session'.id = session.id /\ session.spent \subseteq session'.spent
  /\ session'.receipt \notin {session.receipt, None} => session'.receipt.of = session.id
  /\ session'.authority \notin {session.authority, None} => session'.authority.of = session.id

OpenedBy(p) ==
  /\ At(p, "save")
  /\ session' = [id |-> local[p].id, revision |-> local[p].seen + 1, base |-> local[p].base,
                 receipt |-> None, authority |-> None, spent |-> {}, expired |-> FALSE]

\* A session is opened, closed or edited.
LEMMA SessionStep ==
  ASSUME TypeOK, RunsNumbered, [Next]_vars
  PROVE  \/ session' = session
         \/ session' = None
         \/ \E p \in Procs : OpenSave(p) /\ OpenedBy(p)
         \/ Edited
<1>1. TypeOK'
  BY TypeNext
<1>2. session # None => session \in Session
  BY DEF TypeOK
<1>3. ASSUME NEW s, session # None, session' = [s EXCEPT !.revision = @ + 1],
             s \in Session, s.id = session.id, session.spent \subseteq s.spent,
             s.receipt \notin {session.receipt, None} => s.receipt.of = session.id,
             s.authority \notin {session.authority, None} => s.authority.of = session.id
      PROVE  Edited
  <2>1. session' \in Session /\ session' # None
    BY <1>3, SessionEdit, SessionAssumption
  <2>2. /\ session'.id = s.id /\ session'.spent = s.spent
        /\ session'.receipt = s.receipt /\ session'.authority = s.authority
    BY <1>3 DEF Session
  <2> QED BY <1>3, <2>1, <2>2 DEF Edited
<1>4. ASSUME NEW p \in Procs, AckRotate(p) PROVE session' = session \/ Edited
  <2> DEFINE s == [session EXCEPT !.base = local[p].base, !.receipt = None, !.authority = None]
  <2>1. CASE SessionKnown(local[p].receipt.of)
    <3>1. session # None /\ session' = [s EXCEPT !.revision = @ + 1]
      BY <1>4, <2>1 DEF AckRotate, AckWrite, SessionKnown, Live
    <3>2. local[p].base \in Heads
      BY <1>4, LocalShape DEF AckRotate, At, TypeOK
    <3>3. s \in Session
      BY <1>2, <3>1, <3>2, SessionEdit
    <3>4. /\ s.id = session.id /\ s.spent = session.spent
          /\ s.receipt = None /\ s.authority = None
      BY <1>2, <3>1 DEF Session
    <3> HIDE DEF s
    <3> QED BY <1>3, <3>1, <3>3, <3>4
  <2> QED BY <1>4, <2>1 DEF AckRotate, AckWrite
<1>5. ASSUME NEW p \in Procs, AckRecord(p) \/ AckBind(p) PROVE session' = session \/ Edited
  <2> DEFINE r == local[p].receipt
             s == [session EXCEPT !.receipt = r]
             u == [session EXCEPT !.authority = r]
  <2>1. CASE SessionKnown(r.of)
    <3>1. /\ session # None /\ session.id = r.of
          /\ \/ session' = [s EXCEPT !.revision = @ + 1]
             \/ session' = [u EXCEPT !.revision = @ + 1]
      BY <1>5, <2>1 DEF AckRecord, AckBind, AckWrite, SessionKnown, Live
    <3>2. r \in Receipt
      BY <1>5, LocalShape DEF AckRecord, AckBind, At, TypeOK
    <3>3. s \in Session /\ u \in Session
      BY <1>2, <3>1, <3>2, SessionEdit
    <3>4. /\ s.id = session.id /\ s.spent = session.spent
          /\ s.receipt = r /\ s.authority = session.authority
      BY <1>2, <3>1 DEF Session
    <3>5. /\ u.id = session.id /\ u.spent = session.spent
          /\ u.authority = r /\ u.receipt = session.receipt
      BY <1>2, <3>1 DEF Session
    <3> HIDE DEF s, u
    <3>6. CASE session' = [s EXCEPT !.revision = @ + 1]
      BY <1>3, <3>1, <3>3, <3>4, <3>6
    <3>7. CASE session' = [u EXCEPT !.revision = @ + 1]
      BY <1>3, <3>1, <3>3, <3>5, <3>7
    <3> QED BY <3>1, <3>6, <3>7
  <2> QED BY <1>5, <2>1 DEF AckRecord, AckBind, AckWrite
<1>6. ASSUME NEW p \in Procs, CompleteSpend(p) PROVE session' = session \/ Edited
  <2> DEFINE b == local[p].binding
  <2>1. CASE session # None /\ BindingValid(b)
    <3>1. /\ session' = [session EXCEPT !.spent = @ \cup {b.nonce}, !.revision = @ + 1]
          /\ session \in Session
      BY <1>2, <1>6, <2>1 DEF CompleteSpend
    <3>2. local[p].binding \in Binding
      BY <1>6, LocalShape DEF CompleteSpend, At, TypeOK
    <3>3. b.nonce \in Nonces
      BY <2>1, <3>2 DEF Binding, BindingValid
    <3>4. session' \in Session /\ session' # None
      BY <3>1, <3>3, SessionEdit, SessionAssumption
    <3>5. /\ session'.id = session.id /\ session'.spent = session.spent \cup {b.nonce}
          /\ session'.receipt = session.receipt /\ session'.authority = session.authority
      BY <3>1 DEF Session
    <3> QED BY <2>1, <3>4, <3>5 DEF Edited
  <2> QED BY <1>6, <2>1 DEF CompleteSpend
<1>7. ASSUME Expire PROVE Edited
  <2>1. session # None /\ session' = [session EXCEPT !.expired = TRUE] /\ session \in Session
    BY <1>2, <1>7 DEF Expire, Live
  <2>2. session' \in Session /\ session' # None
    BY <2>1, SessionEdit, SessionAssumption
  <2>3. /\ session'.id = session.id /\ session'.spent = session.spent
        /\ session'.receipt = session.receipt /\ session'.authority = session.authority
    BY <2>1 DEF Session
  <2> QED BY <2>1, <2>2, <2>3 DEF Edited
<1>8. ASSUME NEW p \in Procs, OpenSave(p) PROVE session' = session \/ OpenedBy(p)
  BY <1>8 DEF OpenSave, OpenedBy
<1>9. ASSUME NEW p \in Procs, Command(p)
      PROVE  \/ session' = session \/ Edited
             \/ OpenSave(p) /\ OpenedBy(p)
  BY <1>4, <1>5, <1>6, <1>8, <1>9 DEF Command, OpenRead, AckBegin, VerifyBegin, VerifyRan,
     VerifyAppend, AllocateRun, StampEnvelope, CompleteBegin, CompleteWrite, CompleteMark,
     CompleteAnnotate, Crash, files
<1>10. CASE Environment
  BY <1>7, <1>10 DEF Environment, Close, MintNonce, ClearEscalation, Reopen, Edit, Commit, Tick,
                     files
<1>11. CASE UNCHANGED vars
  BY <1>11 DEF vars, files
<1> QED BY <1>9, <1>10, <1>11 DEF Next

\* The open session holds only what was acknowledged for it.
LEMMA AckNext ==
  ASSUME TypeOK, RunsNumbered, AckOfSession, [Next]_vars
  PROVE  AckOfSession'
<1>1. CASE session' = session \/ session' = None
  BY <1>1 DEF AckOfSession
<1>2. ASSUME NEW p \in Procs, OpenedBy(p) PROVE AckOfSession'
  BY <1>2 DEF AckOfSession, OpenedBy
<1>3. CASE Edited
  BY <1>3 DEF AckOfSession, Edited
<1> QED BY <1>1, <1>2, <1>3, SessionStep

\* A binding is used by the write of a completion that holds it.
LEMMA UsedStep ==
  ASSUME TypeOK, NoncesRemembered, [Next]_vars
  PROVE  \/ used' = used
         \/ /\ session' = session /\ opened' = opened /\ session # None
            /\ \E b \in [session : SessionIds, nonce : Nonces] :
                 /\ used' = used \cup {b}
                 /\ b.session = session.id /\ b.nonce \in session.spent
<1>1. ASSUME NEW p \in Procs, CompleteWrite(p), used' # used
      PROVE  /\ session' = session /\ opened' = opened /\ session # None
             /\ \E b \in [session : SessionIds, nonce : Nonces] :
                  /\ used' = used \cup {b}
                  /\ b.session = session.id /\ b.nonce \in session.spent
  <2> DEFINE b == local[p].binding
  <2>1. At(p, "write") /\ used' = used \cup ({b} \ {None})
    BY <1>1 DEF CompleteWrite
  <2>2. b # None
    BY <1>1, <2>1
  <2>3. b \in [session : SessionIds, nonce : Nonces]
    BY <2>1, <2>2, LocalShape DEF At, TypeOK, Binding
  <2>4. session # None /\ b.session = session.id /\ b.nonce \in session.spent
    BY <2>1, <2>2 DEF NoncesRemembered
  <2>5. used' = used \cup {b}
    BY <2>1, <2>2
  <2> QED BY <1>1, <2>3, <2>4, <2>5 DEF CompleteWrite, budgets
<1>2. ASSUME NEW p \in Procs, Command(p), ~CompleteWrite(p) PROVE used' = used
  BY <1>2 DEF Command, OpenRead, OpenSave, AckBegin, AckRotate, AckRecord, AckBind, AckWrite,
     VerifyBegin, VerifyRan, VerifyAppend, AllocateRun, StampEnvelope, CompleteBegin,
     CompleteSpend, CompleteMark, CompleteAnnotate, Crash
<1>3. CASE Environment
  BY <1>3 DEF Environment, Close, MintNonce, ClearEscalation, Reopen, Edit, Commit, Tick, Expire
<1>4. CASE UNCHANGED vars
  BY <1>4 DEF vars
<1> QED BY <1>1, <1>2, <1>3, <1>4 DEF Next

\* Only the first half of an open takes a session id.
LEMMA OpenedStep ==
  ASSUME TypeOK, [Next]_vars
  PROVE  /\ opened \in Nat /\ opened' \in Nat /\ opened <= opened'
         /\ \A p \in Procs : OpenRead(p) => opened' = opened + 1 /\ session' = session
                                            /\ used' = used /\ local'[p].id = opened + 1
<1>1. opened \in Nat
  BY DEF TypeOK
<1>2. ASSUME NEW p \in Procs, OpenRead(p)
      PROVE  /\ opened' = opened + 1 /\ session' = session
             /\ used' = used /\ local'[p].id = opened + 1
  BY <1>2, GotoLocal DEF OpenRead, files
<1>3. ASSUME NEW p \in Procs, Command(p), ~OpenRead(p) PROVE opened' = opened
  BY <1>3 DEF Command, OpenSave, AckBegin, AckRotate, AckRecord, AckBind, AckWrite,
     VerifyBegin, VerifyRan, VerifyAppend, AllocateRun, StampEnvelope, CompleteBegin,
     CompleteSpend, CompleteWrite, CompleteMark, CompleteAnnotate, Crash, budgets
<1>4. ASSUME Environment PROVE opened' = opened
  BY <1>4 DEF Environment, Close, MintNonce, ClearEscalation, Reopen, Edit, Commit, Tick, Expire,
              budgets
<1>5. ASSUME UNCHANGED vars PROVE opened' = opened
  BY <1>5 DEF vars, budgets
<1>6. (\E p \in Procs : OpenRead(p)) \/ opened' = opened
  BY <1>3, <1>4, <1>5 DEF Next
<1>7. opened' \in Nat /\ opened <= opened'
  BY <1>1, <1>2, <1>6
<1> QED BY <1>1, <1>2, <1>7

\* A command keeps what it holds, or arrives where it is by a step of its own.
LEMMA KeepsOrArrives ==
  ASSUME TypeOK, [Next]_vars, NEW q \in Procs
  PROVE  local'[q] = local[q] \/ Command(q)
<1>1. ASSUME NEW p \in Procs, Command(p) PROVE local'[q] = local[q] \/ Command(q)
  BY <1>1, OthersKeep
<1>2. CASE Environment \/ UNCHANGED vars
  BY <1>2 DEF Environment, Close, MintNonce, ClearEscalation, Reopen, Edit, Commit, Tick,
              Expire, vars
<1> QED BY <1>1, <1>2 DEF Next

\* Session ids are used once.
LEMMA SessionsNext ==
  ASSUME TypeOK, RunsNumbered, NoncesRemembered, SessionsNumbered, [Next]_vars
  PROVE  SessionsNumbered'
<1> DEFINE Saving(p) == local[p].pc = "save"
<1>0. opened \in Nat /\ opened' \in Nat /\ opened <= opened'
  BY OpenedStep
<1>1. /\ session # None => session.id \in Nat
      /\ \A b \in used : b.session \in Nat
      /\ \A p \in Procs : Saving(p) => local[p].id \in Nat
  <2>1. \A p \in Procs : Saving(p) => local[p].id \in SessionIds
    BY LocalShape DEF TypeOK
  <2>2. SessionIds \subseteq Nat
    BY DEF SessionIds
  <2> QED BY <2>1, <2>2 DEF TypeOK, Session
<1>2. ASSUME session' # None PROVE session'.id <= opened'
  <2>1. CASE session' = session
    BY <1>0, <1>1, <1>2, <2>1 DEF SessionsNumbered
  <2>2. ASSUME NEW p \in Procs, OpenedBy(p) PROVE session'.id <= opened'
    BY <1>0, <1>1, <2>2 DEF SessionsNumbered, OpenedBy, At
  <2>3. CASE Edited
    BY <1>0, <1>1, <2>3 DEF SessionsNumbered, Edited
  <2> QED BY <1>2, <2>1, <2>2, <2>3, SessionStep
<1>3. ASSUME NEW b \in used' PROVE b.session <= opened'
  <2>1. CASE b \in used
    BY <1>0, <1>1, <2>1 DEF SessionsNumbered
  <2>2. CASE b \notin used
    <3>1. session # None /\ b.session = session.id
      BY <1>3, <2>2, UsedStep
    <3> QED BY <1>0, <1>1, <3>1 DEF SessionsNumbered
  <2> QED BY <2>1, <2>2
<1>4. ASSUME NEW p \in Procs, Saving(p), local'[p] = local[p]
      PROVE  /\ local[p].id <= opened'
             /\ session' # None => session'.id # local[p].id
             /\ \A b \in used' : b.session # local[p].id
  <2>1. local[p].id <= opened'
    BY <1>0, <1>1, <1>4 DEF SessionsNumbered, At
  <2>2. ASSUME session' # None PROVE session'.id # local[p].id
    <3>1. CASE session' = session
      BY <1>4, <2>2, <3>1 DEF SessionsNumbered, At
    <3>2. ASSUME NEW q \in Procs, OpenSave(q), OpenedBy(q) PROVE session'.id # local[p].id
      <4>1. q # p
        <5>1. local'[q] = Idle
          BY <3>2, GotoLocal DEF OpenSave
        <5> QED BY <1>4, <5>1 DEF Idle
      <4> QED BY <1>4, <3>2, <4>1 DEF SessionsNumbered, OpenedBy, At
    <3>3. CASE Edited
      BY <1>4, <3>3 DEF SessionsNumbered, Edited, At
    <3> QED BY <2>2, <3>1, <3>2, <3>3, SessionStep
  <2>3. ASSUME NEW b \in used' PROVE b.session # local[p].id
    <3>1. CASE b \in used
      BY <1>4, <3>1 DEF SessionsNumbered, At
    <3>2. CASE b \notin used
      <4>1. session # None /\ b.session = session.id
        BY <2>3, <3>2, UsedStep
      <4> QED BY <1>4, <4>1 DEF SessionsNumbered, At
    <3> QED BY <3>1, <3>2
  <2> QED BY <2>1, <2>2, <2>3
<1>5. ASSUME NEW p \in Procs, OpenRead(p)
      PROVE  /\ local'[p].id = opened + 1 /\ local'[p].id <= opened'
             /\ session' # None => session'.id # local'[p].id
             /\ \A b \in used' : b.session # local'[p].id
             /\ \A q \in Procs \ {p} : Saving(q) => local[q].id # local'[p].id
  <2>1. /\ opened' = opened + 1 /\ session' = session
        /\ used' = used /\ local'[p].id = opened + 1
    BY <1>5, OpenedStep
  <2> QED BY <1>0, <1>1, <2>1 DEF SessionsNumbered, At
<1>6. ASSUME NEW p \in Procs, Saving(p)'
      PROVE  (Saving(p) /\ local'[p] = local[p]) \/ OpenRead(p)
  BY <1>6, KeepsOrArrives, Arrives
<1>7. ASSUME NEW p \in Procs, Saving(p)', NEW q \in Procs, q # p, Saving(q)'
      PROVE  local'[q].id # local'[p].id
  <2>1. CASE local'[p] = local[p] /\ Saving(p) /\ local'[q] = local[q] /\ Saving(q)
    BY <1>7, <2>1 DEF SessionsNumbered, At
  <2>2. CASE OpenRead(p)
    <3>1. local'[q] = local[q]
      BY <1>7, <2>2, OthersKeep DEF Command
    <3> QED BY <1>5, <1>7, <2>2, <3>1
  <2>3. CASE OpenRead(q)
    <3>1. local'[p] = local[p]
      BY <1>7, <2>3, OthersKeep DEF Command
    <3> QED BY <1>5, <1>7, <2>3, <3>1
  <2> QED BY <1>6, <1>7, <2>1, <2>2, <2>3
<1>8. ASSUME NEW p \in Procs, Saving(p)'
      PROVE  /\ local'[p].id <= opened'
             /\ session' # None => session'.id # local'[p].id
             /\ \A b \in used' : b.session # local'[p].id
  BY <1>4, <1>5, <1>6, <1>8
<1> QED BY <1>2, <1>3, <1>7, <1>8 DEF SessionsNumbered, At

\* The open session remembers its nonces, and the write under way holds one.
LEMMA NoncesNext ==
  ASSUME TypeOK, RunsNumbered, LockHeld, SessionsNumbered, NoncesRemembered, [Next]_vars
  PROVE  NoncesRemembered'
<1>1. ASSUME session' # None, NEW b \in used', b.session = session'.id
      PROVE  b.nonce \in session'.spent
  <2>1. CASE b \notin used
    BY <1>1, <2>1, UsedStep
  <2>2. CASE b \in used
    <3>1. CASE session' = session
      BY <1>1, <2>2, <3>1 DEF NoncesRemembered
    <3>2. ASSUME NEW p \in Procs, OpenedBy(p) PROVE FALSE
      BY <1>1, <2>2, <3>2 DEF OpenedBy, SessionsNumbered
    <3>3. CASE Edited
      BY <1>1, <2>2, <3>3 DEF NoncesRemembered, Edited
    <3> QED BY <1>1, <3>1, <3>2, <3>3, SessionStep
  <2> QED BY <2>1, <2>2
<1>2. ASSUME NEW p \in Procs, local'[p].pc = "write", local'[p].binding # None
      PROVE  /\ session' # None /\ local'[p].binding.session = session'.id
             /\ local'[p].binding.nonce \in session'.spent
  <2> DEFINE b == local[p].binding
  <2>1. CASE local'[p] = local[p]
    <3>1. /\ session # None /\ b.session = session.id /\ b.nonce \in session.spent
      BY <1>2, <2>1 DEF NoncesRemembered, At
    <3>2. session' = session \/ Expire
      BY <1>2, <2>1, HolderUndisturbed DEF Locked
    <3>3. ASSUME Expire
          PROVE  session' # None /\ session'.id = session.id /\ session'.spent = session.spent
      <4>1. session \in Session /\ session' = [session EXCEPT !.expired = TRUE]
        BY <3>3 DEF Expire, Live, TypeOK
      <4>2. session' \in Session
        BY <4>1, SessionEdit
      <4> QED BY <4>1, <4>2, SessionAssumption DEF Session
    <3> QED BY <2>1, <3>1, <3>2, <3>3
  <2>2. CASE Command(p)
    <3>1. CompleteSpend(p)
      BY <1>2, <2>2, Arrives
    <3>2. /\ local'[p].binding = b /\ session # None /\ BindingValid(b)
      BY <1>2, <3>1, GotoLocal DEF CompleteSpend, Idle
    <3>3. session' = [session EXCEPT !.spent = @ \cup {b.nonce}, !.revision = @ + 1]
      BY <3>1, <3>2 DEF CompleteSpend
    <3>4. session \in Session /\ b.session = session.id
      BY <3>2 DEF BindingValid, TypeOK
    <3>5. b \in Binding /\ b # None
      BY <3>1, <3>2, LocalShape DEF CompleteSpend, At, TypeOK, BindingValid
    <3>6. session' \in Session
      BY <3>3, <3>4, <3>5, SessionEdit DEF Binding
    <3>7. session'.id = session.id /\ session'.spent = session.spent \cup {b.nonce}
      BY <3>3, <3>4 DEF Session
    <3> QED BY <3>2, <3>4, <3>6, <3>7, SessionAssumption
  <2> QED BY <2>1, <2>2, KeepsOrArrives
<1> QED BY <1>1, <1>2 DEF NoncesRemembered, At

\* No binding completes twice.
LEMMA NonceOnceNext ==
  ASSUME TypeOK, LockHeld, NoncesRemembered, NonceSpentOnce, [Next]_vars
  PROVE  NonceSpentOnce'
<1>1. ASSUME NEW p \in Procs, local'[p].pc = "write", local'[p].binding # None
      PROVE  local'[p].binding \notin used'
  <2>1. CASE local'[p] = local[p]
    <3>1. used' = used
      BY <1>1, <2>1, HolderUndisturbed DEF Locked
    <3> QED BY <1>1, <2>1, <3>1 DEF NonceSpentOnce, At
  <2>2. CASE Command(p)
    <3>1. CompleteSpend(p)
      BY <1>1, <2>2, Arrives
    <3>2. /\ local'[p].binding = local[p].binding /\ session # None
          /\ BindingValid(local[p].binding) /\ used' = used
      BY <1>1, <3>1, GotoLocal DEF CompleteSpend, Idle
    <3> QED BY <3>2 DEF BindingValid, NoncesRemembered
  <2> QED BY <2>1, <2>2, KeepsOrArrives
<1> QED BY <1>1 DEF NonceSpentOnce, At

-----------------------------------------------------------------------------
(* The two files, the run chains and the ratchet *)

\* Only complete-task and a crash leave the write of the markers.
LEMMA LeavesMark ==
  ASSUME TypeOK, NEW p \in Procs, Command(p), local[p].pc = "mark"
  PROVE  Crash(p) \/ \E w \in BOOLEAN : CompleteMark(p, w)
BY DEF Command, OpenRead, OpenSave, AckBegin, AckRotate, AckRecord, AckBind, VerifyBegin,
   VerifyRan, VerifyAppend, AllocateRun, StampEnvelope, CompleteBegin, CompleteSpend,
   CompleteWrite, CompleteAnnotate, At

\* A crash is counted.
LEMMA CrashStep ==
  ASSUME TypeOK, [Next]_vars, crashes' = 0
  PROVE  crashes = 0 /\ \A p \in Procs : ~Crash(p)
<1>1. crashes \in Nat
  BY DEF TypeOK
<1>2. ASSUME NEW p \in Procs, Crash(p) PROVE FALSE
  BY <1>1, <1>2 DEF Crash
<1>3. ASSUME NEW p \in Procs, Command(p) PROVE crashes = 0
  BY <1>2, <1>3 DEF Command, OpenRead, OpenSave, AckBegin, AckRotate, AckRecord, AckBind,
     AckWrite, VerifyBegin, VerifyRan, VerifyAppend, AllocateRun, StampEnvelope, CompleteBegin,
     CompleteSpend, CompleteWrite, CompleteMark, CompleteAnnotate, budgets
<1>4. ASSUME Environment \/ UNCHANGED vars PROVE crashes = 0
  BY <1>4 DEF Environment, Close, MintNonce, ClearEscalation, Reopen, Edit, Commit, Tick, Expire,
              budgets, vars
<1> QED BY <1>2, <1>3, <1>4 DEF Next

\* The two files differ only inside complete-task.
LEMMA MarkersNext ==
  ASSUME TypeOK, LockHeld, LocalSound, MarkersInStep, [Next]_vars
  PROVE  MarkersInStep'
<1> SUFFICES ASSUME crashes' = 0
             PROVE  IF \E p \in Procs : local'[p].pc = "mark"
                    THEN \A p \in Procs : local'[p].pc = "mark" => local'[p].before = doc'
                    ELSE status' = doc'
  BY DEF MarkersInStep, At
<1>0. crashes = 0 /\ \A p \in Procs : ~Crash(p)
  BY CrashStep
<1>1. \A p \in Procs : local[p].pc = "mark" => lock = p /\ local[p].before = doc
  BY <1>0 DEF MarkersInStep, LockHeld, Locked, At
<1>2. (\A p \in Procs : local[p].pc # "mark") => status = doc
  BY <1>0 DEF MarkersInStep, At
<1>3. ASSUME NEW p \in Procs, CompleteWrite(p)
      PROVE  /\ local'[p].pc = "mark" /\ local'[p].before = doc'
             /\ \A q \in Procs \ {p} : local'[q].pc # "mark"
  <2>1. local[p].pc = "write" /\ lock = p
    BY <1>3 DEF CompleteWrite, At, LockHeld, Locked
  <2>2. \A q \in Procs : local[q].pc # "mark"
    BY <1>1, <2>1
  <2> QED BY <1>2, <1>3, <2>2, GotoLocal DEF CompleteWrite
<1>4. ASSUME NEW p \in Procs, NEW w \in BOOLEAN, CompleteMark(p, w)
      PROVE  status' = doc' /\ \A q \in Procs : local'[q].pc # "mark"
  <2>1. /\ local[p].pc = "mark" /\ lock = p /\ local[p].before = doc
        /\ status = doc \cup {local[p].task}
    BY <1>1, <1>4, LocalSoundParts DEF CompleteMark, At, SoundOf
  <2>2. \A q \in Procs \ {p} : local'[q].pc # "mark"
    BY <1>1, <1>4, <2>1, GotoLocal DEF CompleteMark
  <2>3. local'[p].pc # "mark"
    BY <1>4, GotoLocal DEF CompleteMark, Idle
  <2> QED BY <1>4, <2>1, <2>2, <2>3 DEF CompleteMark
<1>5. ASSUME NEW t \in Tasks, Reopen(t)
      PROVE  status' = doc' /\ \A q \in Procs : local'[q].pc # "mark"
  BY <1>1, <1>2, <1>5 DEF Reopen
<1>6. ASSUME \A p \in Procs : ~CompleteWrite(p) /\ \A w \in BOOLEAN : ~CompleteMark(p, w),
             \A t \in Tasks : ~Reopen(t)
      PROVE  IF \E p \in Procs : local'[p].pc = "mark"
             THEN \A p \in Procs : local'[p].pc = "mark" => local'[p].before = doc'
             ELSE status' = doc'
  <2>1. UNCHANGED <<status, doc>>
    <3>1. ASSUME NEW p \in Procs, VerifyAppend(p) PROVE UNCHANGED <<status, doc>>
      BY <3>1 DEF VerifyAppend
    <3>2. ASSUME NEW p \in Procs, NEW telemetry \in BOOLEAN, CompleteAnnotate(p, telemetry)
          PROVE  UNCHANGED <<status, doc>>
      BY <3>2 DEF CompleteAnnotate
    <3> QED BY <1>6, <3>1, <3>2, FilesStep
  <2>2. ASSUME NEW q \in Procs, local'[q].pc = "mark" PROVE local'[q] = local[q]
    BY <1>6, <2>2, KeepsOrArrives, Arrives
  <2>3. ASSUME NEW q \in Procs, local[q].pc = "mark" PROVE local'[q] = local[q]
    BY <1>0, <1>6, <2>3, KeepsOrArrives, LeavesMark
  <2> QED BY <1>1, <1>2, <2>1, <2>2, <2>3
<1> QED BY <1>3, <1>4, <1>5, <1>6

\* The runs of a task are numbered without gap or repeat.
LEMMA RunsNext ==
  ASSUME TypeOK, RunsNumbered, [Next]_vars
  PROVE  RunsNumbered'
<1>1. ASSUME NEW p \in Procs, AllocateRun(p) PROVE RunsNumbered'
  <2> DEFINE t == local[p].task
  <2>1. t \in Tasks
    BY <1>1, LocalShape DEF AllocateRun, At, TypeOK
  <2>2. /\ runs[t] \in Seq(Nat) /\ Len(runs[t]) \in Nat
        /\ \A i \in 1 .. Len(runs[t]) : runs[t][i] = i
    <3>1. runs[t] \in Seq(Nat)
      BY <2>1 DEF TypeOK
    <3>2. Len(runs[t]) \in Nat /\ DOMAIN runs[t] = 1 .. Len(runs[t])
      BY <3>1
    <3>3. \A i \in DOMAIN runs[t] : runs[t][i] = i
      BY <2>1 DEF RunsNumbered
    <3> HIDE DEF t
    <3> QED BY <3>1, <3>2, <3>3
  <2>3. NextRun(t) = Len(runs[t]) + 1
    BY <2>1, NextRunNumber
  <2>4. runs' = [runs EXCEPT ![t] = Append(@, NextRun(t))]
    BY <1>1 DEF AllocateRun
  <2>5. runs'[t] = Append(runs[t], Len(runs[t]) + 1)
    BY <2>1, <2>3, <2>4 DEF TypeOK
  <2> HIDE DEF t
  <2>6. \A i \in DOMAIN runs'[t] : runs'[t][i] = i
    BY <2>2, <2>5
  <2>7. \A u \in Tasks \ {t} : runs'[u] = runs[u]
    BY <2>1, <2>4 DEF TypeOK
  <2> QED BY <2>6, <2>7 DEF RunsNumbered
<1>2. ASSUME NEW p \in Procs, Command(p), ~AllocateRun(p) PROVE runs' = runs
  BY <1>2 DEF Command, OpenRead, OpenSave, AckBegin, AckRotate, AckRecord, AckBind, AckWrite,
     VerifyBegin, VerifyRan, VerifyAppend, StampEnvelope, CompleteBegin, CompleteSpend,
     CompleteWrite, CompleteMark, CompleteAnnotate, Crash, files
<1>3. ASSUME Environment \/ UNCHANGED vars PROVE runs' = runs
  BY <1>3 DEF Environment, Close, MintNonce, ClearEscalation, Reopen, Edit, Commit, Tick, Expire,
              files, vars
<1>4. runs' = runs => RunsNumbered'
  BY DEF RunsNumbered
<1> QED BY <1>1, <1>2, <1>3, <1>4 DEF Next

Failures(t) == {i \in DOMAIN evidence : Counts(t, i)}

\* What the ratchet counts, and the verifies under way, are finite.
LEMMA RatchetFinite ==
  ASSUME TypeOK, NEW t
  PROVE  /\ IsFiniteSet(Failures(t)) /\ Cardinality(Failures(t)) \in Nat
         /\ FailCount(t) = Cardinality(Failures(t))
         /\ IsFiniteSet(InFlight(t)) /\ Cardinality(InFlight(t)) \in Nat
         /\ Cardinality(Procs) \in Nat /\ Cardinality(InFlight(t)) <= Cardinality(Procs)
<1>1. Len(evidence) \in Nat /\ DOMAIN evidence = 1 .. Len(evidence)
  BY DEF TypeOK
<1>2. IsFiniteSet(1 .. Len(evidence))
  BY <1>1, FS_Interval
<1>3. Failures(t) \in SUBSET (1 .. Len(evidence))
  BY <1>1 DEF Failures
<1>4. InFlight(t) \in SUBSET Procs
  BY DEF InFlight
<1> QED BY <1>2, <1>3, <1>4, FS_Subset, FS_CardinalityType DEF FailCount, Failures

\* A record appended to the file excuses no earlier failure's count but its
\* own task's, and adds at most itself.
LEMMA FailuresAppend ==
  ASSUME TypeOK, NEW t \in Tasks, NEW r \in Record, evidence' = Append(evidence, r),
         overrides' = overrides
  PROVE  /\ r.task # t \/ Passed(r) => Failures(t)' \subseteq Failures(t)
         /\ Failures(t)' \subseteq Failures(t) \cup {Len(evidence) + 1}
<1>1. /\ Len(evidence) \in Nat /\ DOMAIN evidence = 1 .. Len(evidence)
      /\ DOMAIN evidence' = 1 .. Len(evidence) + 1
      /\ \A i \in 1 .. Len(evidence) : evidence'[i] = evidence[i]
      /\ evidence'[Len(evidence) + 1] = r
  <2>1. evidence \in Seq(Record)
    BY DEF TypeOK
  <2> QED BY <2>1
<1>2. ASSUME NEW i \in DOMAIN evidence, Counts(t, i)' PROVE Counts(t, i)
  <2>1. /\ evidence[i].task = t /\ ~Passed(evidence[i])
        /\ \A k \in DOMAIN overrides : overrides[k].task = t => overrides[k].at < evidence[i].at
    BY <1>1, <1>2 DEF Counts, Passed
  <2>2. ASSUME NEW j \in DOMAIN evidence, evidence[j].task = t, Passed(evidence[j])
        PROVE  ~SortsAfter(j, i)
    BY <1>1, <1>2, <2>2 DEF Counts, Passed, SortsAfter
  <2> QED BY <2>1, <2>2 DEF Counts
<1>3. ASSUME NEW i \in DOMAIN evidence', i \notin DOMAIN evidence, Counts(t, i)'
      PROVE  i = Len(evidence) + 1 /\ r.task = t /\ ~Passed(r)
  <2>1. i = Len(evidence) + 1
    BY <1>1, <1>3
  <2>2. evidence'[i] = r
    BY <1>1, <2>1
  <2> QED BY <1>3, <2>1, <2>2 DEF Counts, Passed
<1>4. ASSUME NEW i \in Failures(t)'
      PROVE  i \in Failures(t) \/ (i = Len(evidence) + 1 /\ r.task = t /\ ~Passed(r))
  <2>1. i \in DOMAIN evidence' /\ Counts(t, i)'
    BY <1>4 DEF Failures
  <2> QED BY <1>2, <1>3, <2>1 DEF Failures
<1> QED BY <1>4

\* Fewer failures and fewer verifies keep the ratchet.
LEMMA RatchetShrinks ==
  ASSUME TypeOK, TypeOK', NEW t \in Tasks,
         FailCount(t) + Cardinality(InFlight(t)) < MaxFails + Cardinality(Procs),
         Failures(t)' \subseteq Failures(t), InFlight(t)' \subseteq InFlight(t)
  PROVE  FailCount(t)' + Cardinality(InFlight(t)') < MaxFails + Cardinality(Procs)
<1> DEFINE F == Failures(t)
           G == Failures(t)'
           I == InFlight(t)
           J == InFlight(t)'
<1>1. /\ IsFiniteSet(F) /\ IsFiniteSet(I) /\ FailCount(t) = Cardinality(F)
      /\ Cardinality(F) \in Nat /\ Cardinality(I) \in Nat /\ Cardinality(Procs) \in Nat
  BY RatchetFinite
<1>2. FailCount(t)' = Cardinality(G)
  BY DEF FailCount, Failures
<1>3. G \in SUBSET F /\ J \in SUBSET I
  OBVIOUS
<1> HIDE DEF F, G, I, J
<1>4. /\ Cardinality(G) <= Cardinality(F) /\ Cardinality(J) <= Cardinality(I)
      /\ Cardinality(G) \in Nat /\ Cardinality(J) \in Nat
  BY <1>1, <1>3, FS_Subset, FS_CardinalityType
<1>5. Cardinality(F) + Cardinality(I) < MaxFails + Cardinality(Procs)
  BY <1>1 DEF I
<1>6. Cardinality(G) + Cardinality(J) < MaxFails + Cardinality(Procs)
  BY <1>1, <1>4, <1>5
<1> QED BY <1>2, <1>6 DEF J

\* Verifies in flight pass the ratchet by one failure each.
LEMMA RatchetNext ==
  ASSUME TypeOK, TypeOK', RatchetHolds, [Next]_vars
  PROVE  RatchetHolds'
<1> SUFFICES ASSUME MaxFails > 0, NEW t \in Tasks
             PROVE  FailCount(t)' + Cardinality(InFlight(t)') < MaxFails + Cardinality(Procs)
  BY DEF RatchetHolds
<1> DEFINE Kept == FailCount(t)' + Cardinality(InFlight(t)') < MaxFails + Cardinality(Procs)
<1>0. FailCount(t) + Cardinality(InFlight(t)) < MaxFails + Cardinality(Procs)
  BY DEF RatchetHolds
<1>1. Failures(t)' \subseteq Failures(t) /\ InFlight(t)' \subseteq InFlight(t) => Kept
  BY <1>0, RatchetShrinks
<1>2. UNCHANGED <<evidence, overrides>> => Failures(t)' = Failures(t)
  BY DEF Failures, Counts, SortsAfter
<1>3. local' = local => InFlight(t)' = InFlight(t)
  BY DEF InFlight, At
<1>4. ASSUME NEW p \in Procs, \A q \in Procs \ {p} : local'[q] = local[q],
             \/ p \in InFlight(t)
             \/ ~(local'[p].pc = "verify" /\ local'[p].task = t)
                  /\ ~(local'[p].pc = "append" /\ local'[p].record.task = t)
      PROVE  InFlight(t)' \subseteq InFlight(t)
  BY <1>4 DEF InFlight, At
<1>5. ASSUME NEW p \in Procs, VerifyBegin(p, t) PROVE Kept
  <2>1. FailCount(t) < MaxFails /\ UNCHANGED <<evidence, overrides>>
    BY <1>5, RatchetFinite DEF VerifyBegin, Escalated, files
  <2>2. FailCount(t)' = FailCount(t)
    BY <2>1 DEF FailCount, Counts, SortsAfter
  <2>3. InFlight(t)' \in SUBSET Procs
    BY DEF InFlight
  <2>4. /\ Cardinality(InFlight(t)') \in Nat /\ Cardinality(Procs) \in Nat
        /\ Cardinality(InFlight(t)') <= Cardinality(Procs)
    BY <2>3, FS_Subset, FS_CardinalityType
  <2>5. FailCount(t) \in Nat
    BY RatchetFinite
  <2> QED BY <2>1, <2>2, <2>4, <2>5
<1>6. ASSUME NEW p \in Procs, NEW u \in Tasks \ {t}, VerifyBegin(p, u) PROVE Kept
  <2>1. local'[p].pc = "verify" /\ local'[p].task = u /\ \A q \in Procs \ {p} : local'[q] = local[q]
    BY <1>6, GotoLocal DEF VerifyBegin
  <2> QED BY <1>1, <1>2, <1>4, <1>6, <2>1 DEF VerifyBegin, files
<1>7. ASSUME NEW p \in Procs, NEW o \in Outcomes, VerifyRan(p, o) PROVE Kept
  <2>1. /\ local[p].pc = "verify" /\ local'[p].pc = "append"
        /\ local'[p].record.task = local[p].task /\ \A q \in Procs \ {p} : local'[q] = local[q]
    BY <1>7, GotoLocal DEF VerifyRan, At
  <2>2. local[p].task = t => p \in InFlight(t)
    BY <2>1 DEF InFlight, At
  <2> QED BY <1>1, <1>2, <1>4, <1>7, <2>1, <2>2 DEF VerifyRan, files
<1>8. ASSUME NEW p \in Procs, VerifyAppend(p) PROVE Kept
  <2> DEFINE r == local[p].record
  <2>1. /\ local[p].pc = "append" /\ r \in Record /\ evidence' = Append(evidence, r)
        /\ overrides' = overrides
    BY <1>8, LocalShape DEF VerifyAppend, At, TypeOK
  <2>2. local'[p].pc = "allocate" /\ \A q \in Procs \ {p} : local'[q] = local[q]
    BY <1>8, GotoLocal DEF VerifyAppend
  <2>3. InFlight(t)' \subseteq InFlight(t) \ {p}
    BY <2>2 DEF InFlight, At
  <2>4. CASE r.task # t
    BY <1>1, <2>1, <2>3, <2>4, FailuresAppend
  <2>5. CASE r.task = t
    <3> DEFINE F == Failures(t)
               G == Failures(t)'
               I == InFlight(t)
               J == InFlight(t)'
               n == Len(evidence) + 1
    <3>1. /\ IsFiniteSet(F) /\ IsFiniteSet(I) /\ FailCount(t) = Cardinality(F)
          /\ Cardinality(F) \in Nat /\ Cardinality(I) \in Nat /\ Cardinality(Procs) \in Nat
      BY RatchetFinite
    <3>2. FailCount(t)' = Cardinality(G)
      BY DEF FailCount, Failures
    <3>3. G \in SUBSET (F \cup {n}) /\ J \in SUBSET (I \ {p})
      BY <2>1, <2>3, FailuresAppend
    <3>4. p \in I
      BY <2>1, <2>5 DEF InFlight, At
    <3>5. Cardinality(F) + Cardinality(I) < MaxFails + Cardinality(Procs)
      BY <1>0, <3>1
    <3> HIDE DEF F, G, I, J, n
    <3>6. /\ IsFiniteSet(F \cup {n}) /\ Cardinality(F \cup {n}) <= Cardinality(F) + 1
          /\ Cardinality(F \cup {n}) \in Nat
      <4>1. IsFiniteSet(F \cup {n})
        BY <3>1, FS_AddElement
      <4>2. Cardinality(F \cup {n}) = IF n \in F THEN Cardinality(F) ELSE Cardinality(F) + 1
        BY <3>1, FS_AddElement
      <4> QED BY <3>1, <4>1, <4>2
    <3>7. IsFiniteSet(I \ {p}) /\ Cardinality(I \ {p}) = Cardinality(I) - 1
      BY <3>1, <3>4, FS_RemoveElement
    <3>8. /\ Cardinality(G) <= Cardinality(F \cup {n}) /\ Cardinality(G) \in Nat
          /\ Cardinality(J) <= Cardinality(I \ {p}) /\ Cardinality(J) \in Nat
      BY <3>3, <3>6, <3>7, FS_Subset, FS_CardinalityType
    <3>9. Cardinality(G) + Cardinality(J) < MaxFails + Cardinality(Procs)
      BY <3>1, <3>5, <3>6, <3>7, <3>8
    <3> QED BY <3>2, <3>9 DEF J
  <2> QED BY <2>4, <2>5
<1>9. ASSUME NEW p \in Procs, NEW telemetry \in BOOLEAN, CompleteAnnotate(p, telemetry)
      PROVE  Kept
  <2> DEFINE r == [task |-> local[p].task, outcome |-> "pass", head |-> local[p].head,
                   attempt |-> attempt[local[p].task], at |-> clock]
  <2>1. local'[p].pc = "idle" /\ \A q \in Procs \ {p} : local'[q] = local[q]
    BY <1>9, GotoLocal DEF CompleteAnnotate, Idle
  <2>2. overrides' = overrides /\ (evidence' = evidence \/ evidence' = Append(evidence, r))
    BY <1>9 DEF CompleteAnnotate
  <2>3. r \in Record /\ Passed(r)
    <3>1. local[p] \in Local /\ local[p].pc = "annotate"
      BY <1>9 DEF CompleteAnnotate, At, TypeOK
    <3>2. local[p].task \in Tasks /\ local[p].head \in Heads
      BY <3>1, LocalShape
    <3> QED BY <3>2 DEF TypeOK, Record, Outcomes, Passed
  <2> HIDE DEF r
  <2>4. Failures(t)' \subseteq Failures(t)
    BY <1>2, <2>2, <2>3, FailuresAppend
  <2> QED BY <1>1, <1>4, <2>1, <2>4
<1>10. ASSUME NEW p \in Procs, Command(p), \A u \in Tasks : ~VerifyBegin(p, u),
              \A o \in Outcomes : ~VerifyRan(p, o), ~VerifyAppend(p),
              \A telemetry \in BOOLEAN : ~CompleteAnnotate(p, telemetry)
       PROVE  Kept
  <2>1. UNCHANGED <<evidence, overrides>>
    BY <1>10 DEF Command, OpenRead, OpenSave, AckBegin, AckRotate, AckRecord, AckBind, AckWrite,
       AllocateRun, StampEnvelope, CompleteBegin, CompleteSpend, CompleteWrite, CompleteMark,
       Crash, files
  <2>2. local'[p].pc \notin {"verify", "append"}
    BY <1>10, Arrives
  <2>3. \A q \in Procs \ {p} : local'[q] = local[q]
    BY <1>10, OthersKeep
  <2> QED BY <1>1, <1>2, <1>4, <2>1, <2>2, <2>3
<1>11. ASSUME NEW u \in Tasks, ClearEscalation(u) PROVE Kept
  <2> DEFINE v == [task |-> u, at |-> clock]
  <2>1. evidence' = evidence /\ local' = local /\ overrides' = Append(overrides, v)
    BY <1>11 DEF ClearEscalation
  <2>2. /\ DOMAIN overrides \subseteq DOMAIN overrides'
        /\ \A k \in DOMAIN overrides : overrides'[k] = overrides[k]
    <3>1. overrides \in Seq(Override)
      BY DEF TypeOK
    <3> HIDE DEF v
    <3> QED BY <2>1, <3>1
  <2>3. \A i \in DOMAIN evidence : Counts(t, i)' => Counts(t, i)
    BY <2>1, <2>2 DEF Counts, SortsAfter
  <2>4. Failures(t)' \subseteq Failures(t)
    BY <2>1, <2>3 DEF Failures
  <2> QED BY <1>1, <1>3, <2>1, <2>4
<1>12. ASSUME Environment \/ UNCHANGED vars, \A u \in Tasks : ~ClearEscalation(u) PROVE Kept
  <2>1. UNCHANGED <<evidence, overrides, local>>
    BY <1>12 DEF Environment, Close, MintNonce, Reopen, Edit, Commit, Tick, Expire, files, vars
  <2> QED BY <1>1, <1>2, <1>3, <2>1
<1>13. ASSUME NEW p \in Procs, NEW u \in Tasks, VerifyBegin(p, u) PROVE Kept
  BY <1>5, <1>6, <1>13
<1>14. ASSUME NEW p \in Procs, Command(p) PROVE Kept
  BY <1>7, <1>8, <1>9, <1>10, <1>13, <1>14
<1> QED BY <1>11, <1>12, <1>14 DEF Next

-----------------------------------------------------------------------------
(* The theorems *)

LEMMA InitIInv ==
  ASSUME Init
  PROVE  IInv /\ RatchetHolds
<1>1. \A p \in Procs : local[p] = Idle /\ local[p].pc = "idle"
  BY DEF Init, Idle
<1>2. TypeOK
  <2>1. 1 \in Attempts /\ 0 \in Heads
    BY DEF Attempts, Heads
  <2>2. local \in [Procs -> Local]
    BY LocalMade DEF Init
  <2>3. /\ evidence \in Seq(Record) /\ overrides \in Seq(Override)
        /\ runs \in [Tasks -> Seq(Nat)]
    BY DEF Init
  <2>4. /\ attempt \in [Tasks -> Attempts] /\ evals \in [Tasks -> SUBSET Heads]
        /\ docAt \in [Heads -> SUBSET Tasks] /\ changed \in [Tasks -> 0 .. MaxHead + 1]
    BY <2>1 DEF Init
  <2> QED BY <2>1, <2>2, <2>3, <2>4 DEF Init, TypeOK
<1>3. LockHeld /\ LocalSound /\ SessionsNumbered /\ NoncesRemembered /\ NonceSpentOnce
  BY <1>1 DEF Init, LockHeld, LocalSound, SessionsNumbered, NoncesRemembered, NonceSpentOnce,
              At, Locked
<1>4. EvidenceBacked /\ AckOfSession /\ MarkersInStep /\ RunsNumbered
  <2>1. \A p \in Procs : ~At(p, "mark")
    BY <1>1 DEF At
  <2> QED BY <2>1 DEF Init, EvidenceBacked, AckOfSession, MarkersInStep, RunsNumbered
<1>5. RatchetHolds
  <2>1. ASSUME MaxFails > 0, NEW t \in Tasks
        PROVE  FailCount(t) + Cardinality(InFlight(t)) < MaxFails + Cardinality(Procs)
    <3>1. Failures(t) = {} /\ InFlight(t) = {}
      BY <1>1 DEF Init, Failures, InFlight, At
    <3>2. FailCount(t) = 0 /\ Cardinality(InFlight(t)) = 0 /\ Cardinality(Procs) \in Nat
      BY <3>1, FS_EmptySet, FS_CardinalityType DEF FailCount, Failures
    <3> QED BY <2>1, <3>2
  <2> QED BY <2>1 DEF RatchetHolds
<1> QED BY <1>2, <1>3, <1>4, <1>5 DEF IInv

LEMMA NextIInv ==
  ASSUME IInv, [Next]_vars
  PROVE  IInv'
<1> USE DEF IInv
<1>1. TypeOK' /\ LockHeld' /\ RunsNumbered'
  BY TypeNext, LockStep, RunsNext
<1>2. LocalSound' /\ EvidenceBacked' /\ MarkersInStep'
  BY LocalSoundNext, EvidenceNext, MarkersNext
<1>3. SessionsNumbered' /\ NoncesRemembered' /\ NonceSpentOnce' /\ AckOfSession'
  BY SessionsNext, NoncesNext, NonceOnceNext, AckNext
<1> QED BY <1>1, <1>2, <1>3

\* The inductive invariant of sessions, evidence and completion.
THEOREM Safety == Spec => []IInv
<1>1. Init => IInv
  BY InitIInv
<1>2. IInv /\ [Next]_vars => IInv'
  BY NextIInv
<1> QED BY <1>1, <1>2, PTL DEF Spec

\* Every variable keeps its type.
THEOREM TypeCorrect == Spec => []TypeOK
<1>1. IInv => TypeOK
  BY DEF IInv
<1> QED BY <1>1, Safety, PTL

\* Every task state.json calls complete has a passing record of its current
\* attempt, whatever is reopened, rolled back, interrupted or appended late.
THEOREM Backed == Spec => []EvidenceBacked
<1>1. IInv => EvidenceBacked
  BY DEF IInv
<1> QED BY <1>1, Safety, PTL

\* A nonce completes one task, once (SpendNonce, RotateDriverSession).
THEOREM SpentOnce == Spec => []NonceSpentOnce
<1>1. IInv => NonceSpentOnce
  BY DEF IInv
<1> QED BY <1>1, Safety, PTL

\* An acknowledgement never writes into a session it did not read.
THEOREM Acknowledges == Spec => []AckOfSession
<1>1. IInv => AckOfSession
  BY DEF IInv
<1> QED BY <1>1, Safety, PTL

\* state.json and tasks.md agree whenever nobody is between the two writes of
\* complete-task, unless a crash separated them.
THEOREM Agree == Spec => []MarkersAgree
<1>1. ASSUME IInv, crashes = 0, lock = None PROVE status = doc
  <2>1. \A p \in Procs : ~At(p, "mark")
    BY <1>1 DEF IInv, LockHeld, Locked, At
  <2> QED BY <1>1, <2>1 DEF IInv, MarkersInStep
<1>2. IInv => MarkersAgree
  BY <1>1 DEF MarkersAgree
<1> QED BY <1>2, Safety, PTL

\* The runs of every task are numbered 1, 2, 3, ... by nextRunIdentity.
THEOREM Numbered == Spec => []RunsNumbered
<1>1. IInv => RunsNumbered
  BY DEF IInv
<1> QED BY <1>1, Safety, PTL

\* Verifies in flight pass the escalation ratchet by one failure each, for any
\* limit and any number of commands.
THEOREM Ratchet == Spec => []RatchetHolds
<1>1. Init => RatchetHolds
  BY InitIInv
<1>2. TypeOK /\ TypeOK' /\ RatchetHolds /\ [Next]_vars => RatchetHolds'
  BY RatchetNext
<1> QED BY <1>1, <1>2, TypeCorrect, PTL DEF Spec
=============================================================================
