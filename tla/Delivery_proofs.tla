-------------------------- MODULE Delivery_proofs --------------------------
(***************************************************************************)
(* The delivery ledgers, for any number of processes, commits, candidates, *)
(* environments, lines and crashes.                                        *)
(***************************************************************************)
EXTENDS Delivery, FiniteSetTheorems, WellFoundedInduction, TLAPS

-----------------------------------------------------------------------------
(* Ledgers *)

\* A glued line is no record of any ledger.
LEMMA GluedIsNoRecord ==
  Glued \notin Candidate /\ Glued \notin Attempt /\ Glued \notin Submitted
<1>1. DOMAIN Glued = {"glued"}
  BY DEF Glued
<1>2. ASSUME NEW c \in Candidate PROVE "head" \in DOMAIN c
  BY DEF Candidate
<1>3. ASSUME NEW d \in Attempt PROVE "key" \in DOMAIN d
  BY DEF Attempt
<1>4. ASSUME NEW s \in Submitted PROVE "head" \in DOMAIN s
  BY DEF Submitted
<1> QED BY <1>1, <1>2, <1>3, <1>4

\* Every line of l2 is glued, is where it was in l, or is r behind the lines of l.
NewLines(l, r, l2) ==
    \A i \in DOMAIN l2.lines :
       \/ l2.lines[i] = Glued
       \/ i \in DOMAIN l.lines /\ l2.lines[i] = l.lines[i]
       \/ i = Len(l.lines) + 1 /\ l2.lines[i] = r

\* No line of l is lost.
KeepsLines(l, l2) ==
    \A i \in DOMAIN l.lines : i \in DOMAIN l2.lines /\ l2.lines[i] = l.lines[i]

\* Appending to a sequence, replacing its last line, and cutting it off.
LEMMA LineEdits ==
  ASSUME NEW R, NEW lines \in Seq(R), NEW r \in R
  PROVE  /\ Append(lines, r) \in Seq(R) /\ Len(Append(lines, r)) = Len(lines) + 1
         /\ DOMAIN Append(lines, r) = 1 .. (Len(lines) + 1)
         /\ \A i \in 1 .. Len(lines) : Append(lines, r)[i] = lines[i]
         /\ Append(lines, r)[Len(lines) + 1] = r
         /\ DOMAIN lines = 1 .. Len(lines) /\ Len(lines) \in Nat
OBVIOUS

LEMMA LastReplaced ==
  ASSUME NEW R, NEW lines \in Seq(R), NEW r \in R
  PROVE  /\ [lines EXCEPT ![Len(lines)] = r] \in Seq(R)
         /\ DOMAIN [lines EXCEPT ![Len(lines)] = r] = DOMAIN lines
         /\ Len([lines EXCEPT ![Len(lines)] = r]) = Len(lines)
<1> DEFINE m == [lines EXCEPT ![Len(lines)] = r]
<1>1. Len(lines) \in Nat /\ lines \in [1 .. Len(lines) -> R]
  OBVIOUS
<1>2. m \in [1 .. Len(lines) -> R] /\ DOMAIN m = DOMAIN lines
  BY <1>1
<1>3. m \in Seq(R) /\ Len(m) = Len(lines)
  <2> HIDE DEF m
  <2> QED BY <1>1, <1>2
<1> QED BY <1>2, <1>3

LEMMA LastDropped ==
  ASSUME NEW R, NEW lines \in Seq(R), lines # <<>>
  PROVE  /\ Front(lines) \in Seq(R) /\ Len(Front(lines)) = Len(lines) - 1
         /\ DOMAIN Front(lines) = 1 .. (Len(lines) - 1)
         /\ \A i \in 1 .. (Len(lines) - 1) : Front(lines)[i] = lines[i]
<1>1. Len(lines) \in Nat /\ Len(lines) >= 1
  OBVIOUS
<1>2. Front(lines) = [i \in 1 .. (Len(lines) - 1) |-> lines[i]]
  BY <1>1 DEF Front
<1> QED BY <1>1, <1>2

\* A file of whole lines.
LEMMA LedgerMade ==
  ASSUME NEW R, NEW lines \in Seq(R \cup {Glued}), Len(lines) <= MaxLines
  PROVE  /\ IsLedger([lines |-> lines, tail |-> "clean"], R)
         /\ [lines |-> lines, tail |-> "clean"].tail = "clean"
BY DEF IsLedger, Tails

\* An append that completes: readable afterwards only if the file ended with a
\* line feed, and then nothing is lost.
LEMMA AppendedShape ==
  ASSUME NEW R, NEW l, NEW r \in R, IsLedger(l, R), Room(l), MaxLines \in Nat
  PROVE  /\ IsLedger(Appended(l, r), R) /\ Appended(l, r).tail = "clean"
         /\ NewLines(l, r, Appended(l, r))
         /\ l.tail = "clean" => /\ Appended(l, r).lines = Append(l.lines, r)
                                /\ KeepsLines(l, Appended(l, r))
         /\ l.tail # "clean" => ~Readable(Appended(l, r))
<1> DEFINE a == Appended(l, r)
           S == R \cup {Glued}
<1>1. l.lines \in Seq(S) /\ l.tail \in Tails /\ r \in S /\ Glued \in S
  BY DEF IsLedger
<1>2. CASE l.tail = "clean"
  <2>1. a.lines = Append(l.lines, r) /\ a = [lines |-> a.lines, tail |-> "clean"]
    BY <1>2 DEF Appended
  <2>2. a.lines \in Seq(S) /\ Len(a.lines) <= MaxLines /\ a.lines # <<>>
    BY <1>1, <2>1 DEF Room
  <2>3. NewLines(l, r, a) /\ KeepsLines(l, a)
    <3> HIDE DEF a, S
    <3> QED BY <1>1, <2>1, LineEdits DEF NewLines, KeepsLines
  <2>4. IsLedger(a, R) /\ a.tail = "clean"
    <3> HIDE DEF a
    <3> QED BY <2>1, <2>2, LedgerMade
  <2> HIDE DEF a, S
  <2> QED BY <1>2, <2>1, <2>3, <2>4 DEF a
<1>3. CASE l.tail = "half"
  <2>1. a.lines = Append(l.lines, Glued) /\ a = [lines |-> a.lines, tail |-> "clean"]
    BY <1>3 DEF Appended
  <2>2. a.lines \in Seq(S) /\ Len(a.lines) <= MaxLines /\ a.lines # <<>>
    BY <1>1, <2>1 DEF Room
  <2>3. NewLines(l, r, a)
    <3> HIDE DEF a, S
    <3> QED BY <1>1, <2>1, LineEdits DEF NewLines
  <2>4. ~Readable(a)
    <3> HIDE DEF a, S
    <3>1. Len(l.lines) + 1 \in DOMAIN a.lines /\ a.lines[Len(l.lines) + 1] = Glued
      BY <1>1, <2>1, LineEdits
    <3> QED BY <3>1 DEF Readable
  <2>5. IsLedger(a, R) /\ a.tail = "clean"
    <3> HIDE DEF a
    <3> QED BY <2>1, <2>2, LedgerMade
  <2> HIDE DEF a, S
  <2> QED BY <1>3, <2>3, <2>4, <2>5 DEF a
<1>4. CASE l.tail = "whole"
  <2>1. /\ a.lines = [l.lines EXCEPT ![Len(l.lines)] = Glued]
        /\ a = [lines |-> a.lines, tail |-> "clean"]
    BY <1>4 DEF Appended
  <2>2. a.lines \in Seq(S) /\ Len(a.lines) = Len(l.lines) /\ DOMAIN a.lines = DOMAIN l.lines
    <3> HIDE DEF S
    <3> QED BY <1>1, <2>1, LastReplaced
  <2>3. Len(a.lines) <= MaxLines
    BY <2>2 DEF IsLedger
  <2>4. NewLines(l, r, a)
    BY <1>1, <2>1, <2>2 DEF NewLines
  <2>5. ~Readable(a)
    <3>1. l.lines # <<>>
      BY <1>4 DEF IsLedger
    <3>2. Len(l.lines) \in DOMAIN l.lines
      BY <1>1, <3>1
    <3> QED BY <2>1, <2>2, <3>2 DEF Readable
  <2>6. IsLedger(a, R) /\ a.tail = "clean"
    <3> HIDE DEF a
    <3> QED BY <2>1, <2>2, <2>3, LedgerMade
  <2> HIDE DEF a, S
  <2> QED BY <1>4, <2>4, <2>5, <2>6 DEF a
<1> QED BY <1>1, <1>2, <1>3, <1>4 DEF Tails

\* An append that dies: a line is lost only behind an earlier death.
LEMMA TornShape ==
  ASSUME NEW R, NEW l, NEW r \in R, NEW l2 \in Torn(l, r), IsLedger(l, R), Room(l),
         MaxLines \in Nat
  PROVE  /\ IsLedger(l2, R) /\ NewLines(l, r, l2)
         /\ l.tail # "whole" => KeepsLines(l, l2)
         /\ l2.lines # l.lines => \/ l.tail = "clean" /\ l2.lines = Append(l.lines, r)
                                  \/ l.tail = "whole"
<1>1. l \in [lines : Seq(R \cup {Glued}), tail : Tails]
  BY DEF IsLedger
<1>2. CASE l2.lines = l.lines /\ l2.tail = "half" /\ l2 = [lines |-> l2.lines, tail |-> "half"]
  BY <1>1, <1>2 DEF IsLedger, NewLines, KeepsLines, Tails
<1>3. CASE l.tail = "clean" /\ l2 = [Appended(l, r) EXCEPT !.tail = "whole"]
  <2>1. Appended(l, r).lines = Append(l.lines, r) /\ IsLedger(Appended(l, r), R)
        /\ NewLines(l, r, Appended(l, r)) /\ KeepsLines(l, Appended(l, r))
    BY <1>3, AppendedShape
  <2>2. l2.lines = Append(l.lines, r) /\ l2.tail = "whole"
        /\ l2 = [lines |-> l2.lines, tail |-> "whole"]
    BY <1>3, <2>1 DEF Appended
  <2>3. l2.lines # <<>>
    BY <1>1, <2>2
  <2>4. Append(l.lines, r) \in Seq(R \cup {Glued}) /\ Len(Append(l.lines, r)) <= MaxLines
    BY <2>1 DEF IsLedger
  <2>5. IsLedger(l2, R)
    BY <2>2, <2>3, <2>4 DEF IsLedger, Tails
  <2> QED BY <1>3, <2>1, <2>2, <2>5 DEF NewLines, KeepsLines
<1>4. CASE l.tail = "whole" /\ l2 = [lines |-> Front(l.lines), tail |-> "half"]
  <2>1. l.lines # <<>> /\ l.lines \in Seq(R \cup {Glued}) /\ Len(l.lines) <= MaxLines
    BY <1>1, <1>4 DEF IsLedger
  <2>2. /\ l2.lines \in Seq(R \cup {Glued}) /\ Len(l2.lines) = Len(l.lines) - 1
        /\ DOMAIN l2.lines = 1 .. (Len(l.lines) - 1)
        /\ \A i \in 1 .. (Len(l.lines) - 1) : l2.lines[i] = l.lines[i]
    <3>1. l2.lines = Front(l.lines)
      BY <1>4
    <3> QED BY <2>1, <3>1, LastDropped
  <2>3. Len(l.lines) \in Nat /\ DOMAIN l.lines = 1 .. Len(l.lines)
    BY <2>1
  <2>4. IsLedger(l2, R)
    BY <1>4, <2>1, <2>2, <2>3 DEF IsLedger, Tails
  <2>5. NewLines(l, r, l2)
    BY <2>2, <2>3 DEF NewLines
  <2> QED BY <1>4, <2>4, <2>5
<1>5. \/ l2.lines = l.lines /\ l2.tail = "half" /\ l2 = [lines |-> l2.lines, tail |-> "half"]
      \/ l.tail = "clean" /\ l2 = [Appended(l, r) EXCEPT !.tail = "whole"]
      \/ l.tail = "whole" /\ l2 = [lines |-> Front(l.lines), tail |-> "half"]
  BY <1>1 DEF Torn, Tails
<1> QED BY <1>2, <1>3, <1>4, <1>5

-----------------------------------------------------------------------------
(* Records, attempts and keys *)

\* A set of numbers has a least one.
LEMMA LeastNumber ==
  ASSUME NEW S \in SUBSET Nat, S # {}
  PROVE  \E i \in S : \A j \in S : i <= j
<1> DEFINE R == {ss \in Nat \X Nat : ss[1] < ss[2]}
<1>1. IsWellFoundedOn(R, Nat)
  BY NatLessThanWellFounded DEF OpToRel
<1>2. \E k \in S : \A m \in S : <<m, k>> \notin R
  <2> HIDE DEF R
  <2> QED BY <1>1, WFMin
<1>3. PICK k \in S : \A m \in S : <<m, k>> \notin R
  <2> HIDE DEF R
  <2> QED BY <1>2
<1>4. ASSUME NEW m \in S PROVE k <= m
  <2>1. <<m, k>> \notin R /\ <<m, k>> \in Nat \X Nat
    BY <1>3
  <2>2. ~(m < k)
    BY <2>1
  <2> QED BY <2>2
<1> QED BY <1>4

\* A bounded set of numbers has a greatest one.
LEMMA GreatestNumber ==
  ASSUME NEW n \in Nat, NEW S \in SUBSET (0 .. n), S # {}
  PROVE  \E i \in S : \A j \in S : j <= i
<1> DEFINE T == {k \in Nat : k <= n /\ n - k \in S}
<1>1. T \subseteq Nat /\ T # {}
  <2>1. PICK i \in S : TRUE
    OBVIOUS
  <2>2. n - i \in Nat /\ n - i <= n /\ n - (n - i) = i
    BY <2>1
  <2> QED BY <2>1, <2>2
<1>2. PICK k \in T : \A m \in T : k <= m
  <2> HIDE DEF T
  <2> QED BY <1>1, LeastNumber
<1>3. n - k \in S
  OBVIOUS
<1>4. ASSUME NEW j \in S PROVE j <= n - k
  <2>1. j \in Nat /\ n - j \in Nat /\ n - j <= n /\ n - (n - j) = j
    OBVIOUS
  <2>2. n - j \in T
    BY <2>1
  <2>3. k <= n - j
    BY <2>2, <1>2
  <2> QED BY <2>1, <2>3
<1> QED BY <1>3, <1>4

\* Attempts are no larger than the position of their record.
Fitting(l) == \A i \in DOMAIN l.lines : l.lines[i] # Glued => l.lines[i].attempt <= i

\* The records of a ledger are typed, and are its lines that are not glued.
LEMMA RecordType ==
  ASSUME NEW R, NEW l, IsLedger(l, R), Glued \notin R
  PROVE  /\ DOMAIN l.lines = 1 .. Len(l.lines) /\ Len(l.lines) \in Nat
         /\ \A i \in DOMAIN l.lines : l.lines[i] # Glued => l.lines[i] \in R
         /\ \A i \in DOMAIN l.lines : l.lines[i] # Glued <=> l.lines[i] \in Records(l)
         /\ Records(l) \subseteq R
<1>1. l.lines \in Seq(R \cup {Glued})
  BY DEF IsLedger
<1>2. \A i \in DOMAIN l.lines : l.lines[i] \in R \cup {Glued}
  BY <1>1
<1>3. DOMAIN l.lines = 1 .. Len(l.lines) /\ Len(l.lines) \in Nat
  BY <1>1
<1> QED BY <1>2, <1>3 DEF Records

\* The next attempt fits the next line, and is above the attempts before it.
LEMMA NextAttemptFits ==
  ASSUME NEW l, NEW id, IsLedger(l, Attempt), Fitting(l)
  PROVE  /\ NextAttempt(l, id) \in 1 .. (Len(l.lines) + 1)
         /\ \A d \in Records(l) : d.id = id => d.attempt < NextAttempt(l, id)
<1> DEFINE n == Len(l.lines)
           A == AttemptsOf(l, id)
<1>1. n \in Nat /\ \A d \in Records(l) : d.attempt \in 1 .. n
  <2>1. n \in Nat
    BY RecordType, GluedIsNoRecord
  <2>2. ASSUME NEW d \in Records(l) PROVE d.attempt \in 1 .. n
    <3>1. PICK i \in DOMAIN l.lines : l.lines[i] = d
      BY DEF Records
    <3>2. d # Glued /\ d \in Attempt /\ i \in 1 .. n
      BY <3>1, RecordType, GluedIsNoRecord DEF Records
    <3>3. d.attempt \in 1 .. MaxLines /\ d.attempt <= i
      BY <3>1, <3>2 DEF Fitting, Attempt
    <3> QED BY <2>1, <3>2, <3>3, BoundsAssumption
  <2> QED BY <2>1, <2>2
<1>2. A \in SUBSET (0 .. n) /\ \A d \in Records(l) : d.id = id => d.attempt \in A
  BY <1>1 DEF AttemptsOf
<1>3. CASE A = {}
  BY <1>1, <1>2, <1>3 DEF NextAttempt
<1>4. CASE A # {}
  <2> DEFINE last == CHOOSE k \in A : \A m \in A : m <= k
  <2>1. \E k \in A : \A m \in A : m <= k
    <3> HIDE DEF A, n
    <3> QED BY <1>1, <1>2, <1>4, GreatestNumber
  <2>2. last \in A /\ \A m \in A : m <= last
    <3> HIDE DEF A
    <3> QED BY <2>1
  <2>3. NextAttempt(l, id) = 1 + last
    BY <1>4 DEF NextAttempt
  <2> HIDE DEF last, A, n
  <2>4. last \in 0 .. n /\ 1 + last \in 1 .. (n + 1)
    BY <1>1, <1>2, <2>2
  <2>5. ASSUME NEW d \in Records(l), d.id = id PROVE d.attempt < 1 + last
    <3>1. d.attempt <= last /\ d.attempt \in 0 .. n
      BY <1>2, <2>2, <2>5
    <3> QED BY <3>1, <2>4, <1>1
  <2> QED BY <2>3, <2>4, <2>5 DEF n
<1> QED BY <1>3, <1>4

\* The line an envelope is compared with has its key.
LEMMA FirstWithKeyType ==
  ASSUME IsLedger(deployments, Attempt), NEW k, WithKey(k) # {}
  PROVE  /\ FirstWithKey(k) \in Records(deployments) /\ FirstWithKey(k).key = k
         /\ \E i \in WithKey(k) : /\ FirstWithKey(k) = deployments.lines[i]
                                 /\ \A j \in WithKey(k) : i <= j
<1> DEFINE first == CHOOSE i \in WithKey(k) : \A j \in WithKey(k) : i <= j
<1>1. WithKey(k) \in SUBSET Nat
  BY RecordType, GluedIsNoRecord DEF WithKey
<1>2. \E i \in WithKey(k) : \A j \in WithKey(k) : i <= j
  BY <1>1, LeastNumber
<1>3. first \in WithKey(k) /\ \A j \in WithKey(k) : first <= j
  BY <1>2
<1>4. FirstWithKey(k) = deployments.lines[first]
  BY DEF FirstWithKey
<1> QED BY <1>3, <1>4 DEF WithKey

\* A line that is not glued has the key.
Known(l, k) == \E i \in DOMAIN l.lines : l.lines[i] # Glued /\ l.lines[i].key = k

LEMMA WithKeyIsKnown ==
  ASSUME IsLedger(deployments, Attempt), NEW k
  PROVE  /\ WithKey(k) = {i \in DOMAIN deployments.lines :
                            deployments.lines[i] # Glued /\ deployments.lines[i].key = k}
         /\ WithKey(k) # {} <=> Known(deployments, k)
<1>1. WithKey(k) = {i \in DOMAIN deployments.lines :
                      deployments.lines[i] # Glued /\ deployments.lines[i].key = k}
  BY RecordType, GluedIsNoRecord DEF WithKey
<1> QED BY <1>1 DEF Known

-----------------------------------------------------------------------------
(* The inductive invariant *)

\* Files end with a line feed, and submissions are readable, until a process dies.
CleanUntilCrash ==
    crashes = 0 => /\ releases.tail = "clean" /\ deployments.tail = "clean"
                   /\ submissions.tail = "clean" /\ Readable(submissions)

\* Attempts fit the lines they are written on.
AttemptsFit == Fitting(deployments)

\* A deployment about to be recorded is no envelope, and its candidate is still frozen.
DeploysFrozen ==
    \A p \in Procs : pc[p] = "deploy" =>
       /\ ~op[p].payload.envelope
       /\ crashes <= 1 /\ Readable(releases) => op[p].payload.id.release \in Records(releases)

\* What conflicts is an envelope whose key is in the ledger, for good.
ConflictsKnown ==
    \A c \in conflicts :
       /\ c.envelope
       /\ crashes <= 1 /\ Readable(deployments) => WithKey(c.key) # {}

IInv == /\ TypeOK /\ CleanUntilCrash /\ AttemptsFit /\ DeploysFrozen /\ ConflictsKnown
        /\ BoundToRelease /\ EnvelopeOnce /\ AuditComplete

-----------------------------------------------------------------------------
(* What a step may change *)

\* One line is written to the candidates.
ReleaseWrite(c) ==
    /\ Readable(releases) /\ Room(releases) /\ c \notin Records(releases)
    /\ \/ releases' = Appended(releases, c) /\ crashes' = crashes
       \/ releases' \in Torn(releases, c) /\ crashes' = crashes + 1
    /\ UNCHANGED <<deployments, submissions, conflicts>>

\* One line is written to the deployments.
DeployWrite(x) ==
    LET d == Deployment(x, NextAttempt(deployments, x.id)) IN
    /\ Readable(deployments) /\ Room(deployments)
    /\ \/ deployments' = Appended(deployments, d) /\ crashes' = crashes
       \/ deployments' \in Torn(deployments, d) /\ crashes' = crashes + 1
    /\ UNCHANGED <<releases, submissions, conflicts>>

\* One line is written to the submissions.
SubmitWrite(s) ==
    /\ Room(submissions)
    /\ \/ submissions' = Appended(submissions, s) /\ crashes' = crashes
       \/ submissions' \in Torn(submissions, s) /\ crashes' = crashes + 1
    /\ UNCHANGED <<releases, deployments, conflicts>>

\* A step writes at most one ledger, and knows why.
LEMMA LedgerMoves ==
  ASSUME Next
  PROVE  \/ UNCHANGED ledgers
         \/ \E p \in Procs : pc[p] = "freeze" /\ ReleaseWrite(op[p].candidate)
         \/ \E p \in Procs : pc[p] = "deploy" /\ DeployWrite(op[p].payload)
         \/ \E x \in Envelopes : WithKey(x.key) = {} /\ DeployWrite(x)
         \/ \E p \in Procs : pc[p] = "record" /\ SubmitWrite(Submission(p))
         \/ \E x \in Envelopes :
               /\ Readable(deployments) /\ WithKey(x.key) # {}
               /\ LET first == FirstWithKey(x.key)
                      incoming == Deployment(x, first.attempt)
                  IN conflicts' = conflicts \cup (IF incoming = first THEN {} ELSE {incoming})
               /\ UNCHANGED <<releases, deployments, submissions, crashes>>
<1>1. ASSUME NEW p \in Procs, ReleaseStep(p)
      PROVE  \/ UNCHANGED ledgers
             \/ pc[p] = "freeze" /\ ReleaseWrite(op[p].candidate)
  BY <1>1 DEF ReleaseStep, BeginRelease, PinRelease, Freeze, TearRelease, ledgers, ReleaseWrite,
              Die
<1>2. ASSUME NEW p \in Procs, DeployStep(p)
      PROVE  \/ UNCHANGED ledgers
             \/ pc[p] = "deploy" /\ DeployWrite(op[p].payload)
  BY <1>2 DEF DeployStep, BeginDeploy, RecordDeploy, TearDeploy, ledgers, DeployWrite, Die
<1>3. ASSUME NEW p \in Procs, SubmitStep(p)
      PROVE  \/ UNCHANGED ledgers
             \/ pc[p] = "record" /\ SubmitWrite(Submission(p))
  BY <1>3 DEF SubmitStep, BeginSubmit, RunSubmit, RecordSubmit, TearSubmit, ledgers,
              SubmitWrite, Die
<1>4. ASSUME NEW p \in Procs, Crash(p) PROVE UNCHANGED ledgers
  BY <1>4 DEF Crash, Die, ledgers
<1>5. ASSUME Commit \/ Save PROVE UNCHANGED ledgers
  BY <1>5 DEF Commit, Save, ledgers
<1>6. ASSUME NEW x \in Envelopes, TearEnvelope(x)
      PROVE  WithKey(x.key) = {} /\ DeployWrite(x)
  BY <1>6 DEF TearEnvelope, DeployWrite
<1>7. ASSUME NEW x \in Envelopes, ApplyEnvelope(x), WithKey(x.key) = {}
      PROVE  DeployWrite(x)
  BY <1>7 DEF ApplyEnvelope, DeployWrite
<1>8. ASSUME NEW x \in Envelopes, ApplyEnvelope(x), WithKey(x.key) # {}
      PROVE  /\ Readable(deployments)
             /\ LET first == FirstWithKey(x.key)
                    incoming == Deployment(x, first.attempt)
                IN conflicts' = conflicts \cup (IF incoming = first THEN {} ELSE {incoming})
             /\ UNCHANGED <<releases, deployments, submissions, crashes>>
  BY <1>8 DEF ApplyEnvelope
<1> QED BY <1>1, <1>2, <1>3, <1>4, <1>5, <1>6, <1>7, <1>8 DEF Next

-----------------------------------------------------------------------------
(* Types *)

\* What a process carries at each step.
LEMMA DoingIs ==
  /\ Doing["idle"] = {Idle}
  /\ Doing["release"] = [what : {"release"}, revision : 1..MaxRevision, artifact : Artifacts]
  /\ Doing["freeze"] = [what : {"freeze"}, candidate : Candidate]
  /\ Doing["deploy"] = [what : {"deploy"}, payload : Payload]
  /\ Doing["submit"] = [what : {"submit"}, head : Heads, resubmit : BOOLEAN]
  /\ Doing["record"] = [what : {"record"}, head : Heads, exit : {0, 1}]
BY DEF Doing, Steps

\* The candidate, payload or submission of a process about to write it.
LEMMA CarriedType ==
  ASSUME TypeOK, NEW p \in Procs
  PROVE  /\ pc[p] = "freeze" => op[p].candidate \in Candidate
         /\ pc[p] = "deploy" => op[p].payload \in Payload
         /\ pc[p] = "record" => /\ Submission(p) \in Submitted
                                /\ op[p].head \in Heads /\ op[p].exit \in {0, 1}
         /\ pc[p] = "submit" => op[p].head \in Heads /\ op[p].resubmit \in BOOLEAN
<1>1. op[p] \in Doing[pc[p]]
  BY DEF TypeOK
<1>2. CASE pc[p] = "freeze"
  <2>1. op[p] \in [what : {"freeze"}, candidate : Candidate]
    BY <1>1, <1>2, DoingIs
  <2> QED BY <1>2, <2>1
<1>3. CASE pc[p] = "deploy"
  <2>1. op[p] \in [what : {"deploy"}, payload : Payload]
    BY <1>1, <1>3, DoingIs
  <2> QED BY <1>3, <2>1
<1>4. CASE pc[p] = "record"
  <2>1. op[p] \in [what : {"record"}, head : Heads, exit : {0, 1}]
    BY <1>1, <1>4, DoingIs
  <2> QED BY <1>4, <2>1 DEF Submission, Submitted
<1>5. CASE pc[p] = "submit"
  <2>1. op[p] \in [what : {"submit"}, head : Heads, resubmit : BOOLEAN]
    BY <1>1, <1>5, DoingIs
  <2> QED BY <1>5, <2>1
<1> QED BY <1>2, <1>3, <1>4, <1>5

\* Every process is at a step and carries what belongs to it.
LocalType == /\ pc \in [Procs -> Steps] /\ op = [p \in Procs |-> op[p]]
             /\ \A p \in Procs : op[p] \in Doing[pc[p]]

LEMMA GotoType ==
  ASSUME LocalType, NEW p \in Procs, NEW next \in Steps, NEW o \in Doing[next],
         Goto(p, next, o)
  PROVE  /\ LocalType' /\ pc'[p] = next /\ op'[p] = o
         /\ \A q \in Procs \ {p} : pc'[q] = pc[q] /\ op'[q] = op[q]
BY DEF LocalType, Goto

LEMMA FinishType ==
  ASSUME LocalType, NEW p \in Procs, Finish(p)
  PROVE  /\ LocalType' /\ pc'[p] = "idle"
         /\ \A q \in Procs \ {p} : pc'[q] = pc[q] /\ op'[q] = op[q]
BY GotoType, DoingIs DEF Finish, Steps

\* An envelope is a payload that names a frozen candidate.
LEMMA EnvelopeType ==
  ASSUME IsLedger(releases, Candidate), NEW x \in Envelopes
  PROVE  x \in Payload /\ x.envelope = TRUE
<1> DEFINE I == {[release |-> r, environment |-> e] :
                    r \in Records(releases), e \in Environments}
           E == [id : I, key : Keys, status : Status \ {"requested"}, envelope : {TRUE}]
<1>1. Envelopes = {y \in E : y.key \in UserKeys \cup {y.id}}
  BY DEF Envelopes
<1>2. x \in E
  <2> HIDE DEF E
  <2> QED BY <1>1
<1>3. Records(releases) \subseteq Candidate
  BY RecordType, GluedIsNoRecord
<1>4. I \subseteq DeploymentId
  BY <1>3 DEF DeploymentId
<1>5. x.id \in DeploymentId /\ x.key \in Keys /\ x.status \in Status /\ x.envelope = TRUE
      /\ x = [id |-> x.id, key |-> x.key, status |-> x.status, envelope |-> x.envelope]
  <2> HIDE DEF I
  <2> QED BY <1>2, <1>4
<1> QED BY <1>5 DEF Payload

LEMMA DeploymentType ==
  ASSUME NEW x \in Payload, NEW n \in 1 .. MaxLines
  PROVE  /\ Deployment(x, n) \in Attempt
         /\ Deployment(x, n).id = x.id /\ Deployment(x, n).key = x.key
         /\ Deployment(x, n).envelope = x.envelope /\ Deployment(x, n).attempt = n
BY DEF Deployment, Payload, Attempt

\* A written ledger stays a ledger.
LEMMA WriteType ==
  ASSUME NEW R, NEW l, NEW r \in R, NEW l2, IsLedger(l, R), Room(l),
         l2 = Appended(l, r) \/ l2 \in Torn(l, r)
  PROVE  IsLedger(l2, R) /\ NewLines(l, r, l2)
BY AppendedShape, TornShape, BoundsAssumption

\* Who is at "deploy" after a step was there before, or has just found its
\* candidate among the frozen ones.
DeployArrives(q) ==
    pc'[q] = "deploy" =>
       \/ pc[q] = "deploy" /\ op'[q] = op[q]
       \/ /\ Readable(releases) /\ UNCHANGED ledgers
          /\ ~op'[q].payload.envelope
          /\ op'[q].payload.id.release \in Records(releases)

LEMMA LocalMoves ==
  ASSUME TypeOK, Next
  PROVE  LocalType' /\ \A q \in Procs : DeployArrives(q)
<1>0. LocalType
  BY DEF TypeOK, LocalType
<1>1. ASSUME NEW p \in Procs, Finish(p)
      PROVE  LocalType' /\ \A q \in Procs : DeployArrives(q)
  BY <1>0, <1>1, FinishType DEF DeployArrives
<1>2. ASSUME UNCHANGED <<pc, op>>
      PROVE  LocalType' /\ \A q \in Procs : DeployArrives(q)
  BY <1>0, <1>2 DEF LocalType, DeployArrives
<1>3. ASSUME NEW p \in Procs, NEW next \in Steps \ {"deploy"}, NEW o \in Doing[next],
             Goto(p, next, o)
      PROVE  LocalType' /\ \A q \in Procs : DeployArrives(q)
  BY <1>0, <1>3, GotoType DEF DeployArrives
<1>4. ASSUME NEW p \in Procs, BeginRelease(p)
      PROVE  LocalType' /\ \A q \in Procs : DeployArrives(q)
  <2>1. PICK a \in Artifacts :
          Goto(p, "release", [what |-> "release", revision |-> revision, artifact |-> a])
    BY <1>4 DEF BeginRelease
  <2>2. [what |-> "release", revision |-> revision, artifact |-> a] \in Doing["release"]
    BY DoingIs DEF TypeOK
  <2> QED BY <2>1, <2>2, <1>3 DEF Steps
<1>5. ASSUME NEW p \in Procs, PinRelease(p)
      PROVE  LocalType' /\ \A q \in Procs : DeployArrives(q)
  <2> DEFINE c == [revision |-> op[p].revision, head |-> head, artifact |-> op[p].artifact]
  <2>1. op[p] \in Doing["release"] /\ Goto(p, "freeze", [what |-> "freeze", candidate |-> c])
    BY <1>0, <1>5 DEF PinRelease, LocalType
  <2>2. c \in Candidate
    BY <2>1, DoingIs DEF TypeOK, Candidate
  <2>3. [what |-> "freeze", candidate |-> c] \in Doing["freeze"]
    BY <2>2, DoingIs
  <2> QED BY <2>1, <2>3, <1>3 DEF Steps
<1>6. ASSUME NEW p \in Procs, BeginDeploy(p)
      PROVE  LocalType' /\ \A q \in Procs : DeployArrives(q)
  <2>1. PICK r \in Records(releases), e \in Environments :
          \E k \in UserKeys \cup {[release |-> r, environment |-> e]} :
             Goto(p, "deploy", [what |-> "deploy",
                  payload |-> [id |-> [release |-> r, environment |-> e], key |-> k,
                               status |-> "requested", envelope |-> FALSE]])
    BY <1>6 DEF BeginDeploy
  <2> DEFINE id == [release |-> r, environment |-> e]
  <2>2. PICK k \in UserKeys \cup {id} :
             Goto(p, "deploy", [what |-> "deploy",
                  payload |-> [id |-> id, key |-> k, status |-> "requested",
                               envelope |-> FALSE]])
    BY <2>1
  <2> DEFINE x == [id |-> id, key |-> k, status |-> "requested", envelope |-> FALSE]
             o == [what |-> "deploy", payload |-> x]
  <2>3. id \in DeploymentId /\ id.release = r
    BY RecordType, GluedIsNoRecord DEF TypeOK, DeploymentId
  <2>4. x \in Payload /\ x.envelope = FALSE /\ x.id = id
    <3> HIDE DEF id
    <3> QED BY <2>3 DEF Payload, Keys, Status
  <2>5. o \in Doing["deploy"] /\ o.payload = x /\ Goto(p, "deploy", o)
    <3>1. Goto(p, "deploy", o)
      BY <2>2
    <3> HIDE DEF x
    <3> QED BY <3>1, <2>4, DoingIs
  <2> HIDE DEF o, x, id
  <2>6. LocalType' /\ op'[p] = o /\ \A q \in Procs \ {p} : pc'[q] = pc[q] /\ op'[q] = op[q]
    BY <1>0, <2>5, GotoType DEF Steps
  <2>7. Readable(releases) /\ UNCHANGED ledgers
    BY <1>6 DEF BeginDeploy
  <2>8. ASSUME NEW q \in Procs PROVE DeployArrives(q)
    <3>1. CASE q = p
      BY <3>1, <2>3, <2>4, <2>5, <2>6, <2>7 DEF DeployArrives
    <3>2. CASE q # p
      BY <3>2, <2>6 DEF DeployArrives
    <3> QED BY <3>1, <3>2
  <2> QED BY <2>6, <2>8
<1>7. ASSUME NEW p \in Procs, BeginSubmit(p)
      PROVE  LocalType' /\ \A q \in Procs : DeployArrives(q)
  <2>1. PICK resubmit \in BOOLEAN :
          Goto(p, "submit", [what |-> "submit", head |-> head, resubmit |-> resubmit])
    BY <1>7 DEF BeginSubmit
  <2>2. [what |-> "submit", head |-> head, resubmit |-> resubmit] \in Doing["submit"]
    BY DoingIs DEF TypeOK
  <2> QED BY <2>1, <2>2, <1>3 DEF Steps
<1>8. ASSUME NEW p \in Procs, RunSubmit(p)
      PROVE  LocalType' /\ \A q \in Procs : DeployArrives(q)
  <2>1. PICK exit \in {0, 1} :
          Goto(p, "record", [what |-> "record", head |-> op[p].head, exit |-> exit])
    BY <1>8 DEF RunSubmit
  <2>2. op[p] \in Doing["submit"]
    BY <1>0, <1>8 DEF RunSubmit, LocalType
  <2>3. [what |-> "record", head |-> op[p].head, exit |-> exit] \in Doing["record"]
    BY <2>2, DoingIs
  <2> QED BY <2>1, <2>3, <1>3 DEF Steps
<1>9. ASSUME NEW p \in Procs, ReleaseStep(p) \/ DeployStep(p) \/ SubmitStep(p) \/ Crash(p)
      PROVE  LocalType' /\ \A q \in Procs : DeployArrives(q)
  <2>1. \/ BeginRelease(p) \/ PinRelease(p) \/ BeginDeploy(p) \/ BeginSubmit(p)
        \/ RunSubmit(p) \/ Finish(p)
    BY <1>9 DEF ReleaseStep, DeployStep, SubmitStep, Freeze, TearRelease, RecordDeploy,
                TearDeploy, RecordSubmit, TearSubmit, Crash, Die
  <2> QED BY <2>1, <1>1, <1>4, <1>5, <1>6, <1>7, <1>8
<1>10. ASSUME \/ \E x \in Envelopes : ApplyEnvelope(x) \/ TearEnvelope(x)
              \/ Commit \/ Save
       PROVE  UNCHANGED <<pc, op>>
  BY <1>10 DEF ApplyEnvelope, TearEnvelope, Commit, Save
<1> QED BY <1>2, <1>9, <1>10 DEF Next

\* The counters, the commit and the revision.
LEMMA CountersType ==
  ASSUME TypeOK, Next
  PROVE  /\ head' \in Heads /\ revision' \in 1..MaxRevision
         /\ fired' \in [Heads -> [BOOLEAN -> Nat]] /\ crashes' \in 0..MaxCrashes
         /\ (crashes' = crashes \/ crashes' = crashes + 1)
<1>0. head \in Heads /\ revision \in 1..MaxRevision /\ crashes \in 0..MaxCrashes
      /\ fired \in [Heads -> [BOOLEAN -> Nat]]
  BY DEF TypeOK
<1>1. ASSUME NEW p \in Procs, RunSubmit(p)
      PROVE  fired' \in [Heads -> [BOOLEAN -> Nat]]
  <2>1. op[p] \in [what : {"submit"}, head : Heads, resubmit : BOOLEAN]
    BY <1>1, DoingIs DEF RunSubmit, TypeOK
  <2> DEFINE h == op[p].head
             b == op[p].resubmit
  <2>2. h \in Heads /\ b \in BOOLEAN
    BY <2>1
  <2>3. fired' = fired \/ fired' = [fired EXCEPT ![h][b] = @ + 1]
    BY <1>1 DEF RunSubmit
  <2>4. fired[h] \in [BOOLEAN -> Nat] /\ fired[h][b] + 1 \in Nat
    BY <1>0, <2>2
  <2> HIDE DEF h, b
  <2> QED BY <1>0, <2>2, <2>3, <2>4
<1>2. fired' \in [Heads -> [BOOLEAN -> Nat]]
  <2>1. (\E p \in Procs : RunSubmit(p)) \/ fired' = fired
    BY DEF Next, ReleaseStep, DeployStep, SubmitStep, BeginRelease, PinRelease, Freeze,
           TearRelease, BeginDeploy, RecordDeploy, TearDeploy, BeginSubmit, RecordSubmit,
           TearSubmit, Crash, Die, ApplyEnvelope, TearEnvelope, Commit, Save
  <2> QED BY <2>1, <1>0, <1>1
<1>3. /\ head' \in Heads
      /\ revision' = revision \/ (revision < MaxRevision /\ revision' = revision + 1)
      /\ \/ crashes' = crashes
         \/ crashes < MaxCrashes /\ crashes' = crashes + 1
  BY <1>0 DEF Next, ReleaseStep, DeployStep, SubmitStep, BeginRelease, PinRelease, Freeze,
         TearRelease, BeginDeploy, RecordDeploy, TearDeploy, BeginSubmit, RunSubmit, RecordSubmit,
         TearSubmit, Crash, Die, ApplyEnvelope, TearEnvelope, Commit, Save
<1> QED BY <1>0, <1>2, <1>3, BoundsAssumption

\* What a deployment writes is an attempt that fits.
LEMMA DeployWriteType ==
  ASSUME TypeOK, AttemptsFit, NEW x \in Payload, DeployWrite(x),
         NEW d, d = Deployment(x, NextAttempt(deployments, x.id))
  PROVE  /\ d \in Attempt /\ d.id = x.id /\ d.key = x.key /\ d.envelope = x.envelope
         /\ IsLedger(deployments', Attempt) /\ NewLines(deployments, d, deployments')
         /\ AttemptsFit'
<1>1. IsLedger(deployments, Attempt) /\ Room(deployments)
  BY DEF TypeOK, DeployWrite
<1>2. DOMAIN deployments.lines = 1 .. Len(deployments.lines) /\ Len(deployments.lines) \in Nat
  BY <1>1, RecordType, GluedIsNoRecord
<1>3. NextAttempt(deployments, x.id) \in 1 .. (Len(deployments.lines) + 1)
  BY <1>1, NextAttemptFits DEF AttemptsFit
<1>4. NextAttempt(deployments, x.id) \in 1 .. MaxLines
  BY <1>1, <1>2, <1>3, BoundsAssumption DEF Room
<1>5. d \in Attempt /\ d.id = x.id /\ d.key = x.key /\ d.envelope = x.envelope
      /\ d.attempt = NextAttempt(deployments, x.id)
  BY <1>4, DeploymentType
<1>6. deployments' = Appended(deployments, d) \/ deployments' \in Torn(deployments, d)
  BY DEF DeployWrite
<1>7. IsLedger(deployments', Attempt) /\ NewLines(deployments, d, deployments')
  BY <1>1, <1>5, <1>6, WriteType
<1>8. AttemptsFit'
  BY <1>2, <1>3, <1>5, <1>7 DEF AttemptsFit, Fitting, NewLines
<1> QED BY <1>5, <1>7, <1>8

\* Types, and attempts that fit.
LEMMA TypeStep ==
  ASSUME TypeOK, AttemptsFit, Next
  PROVE  TypeOK' /\ AttemptsFit'
<1>0. IsLedger(releases, Candidate) /\ IsLedger(deployments, Attempt)
      /\ IsLedger(submissions, Submitted) /\ conflicts \subseteq Attempt
      /\ \A p \in Procs : op[p] \in Doing[pc[p]]
  BY DEF TypeOK
<1> DEFINE Good == /\ IsLedger(releases', Candidate) /\ IsLedger(deployments', Attempt)
                   /\ IsLedger(submissions', Submitted) /\ conflicts' \subseteq Attempt
                   /\ AttemptsFit'
<1>1. ASSUME UNCHANGED ledgers PROVE Good
  BY <1>0, <1>1 DEF ledgers, AttemptsFit
<1>2. ASSUME NEW p \in Procs, pc[p] = "freeze", ReleaseWrite(op[p].candidate) PROVE Good
  <2>1. op[p].candidate \in Candidate
    BY <1>2, CarriedType
  <2>2. IsLedger(releases', Candidate)
    BY <1>0, <1>2, <2>1, WriteType DEF ReleaseWrite
  <2> QED BY <1>0, <1>2, <2>2 DEF ReleaseWrite, AttemptsFit
<1>3. ASSUME NEW x \in Payload, DeployWrite(x) PROVE Good
  <2>1. IsLedger(deployments', Attempt) /\ AttemptsFit'
    BY <1>3, DeployWriteType
  <2> QED BY <1>0, <1>3, <2>1 DEF DeployWrite
<1>4. ASSUME NEW p \in Procs, pc[p] = "deploy", DeployWrite(op[p].payload) PROVE Good
  <2>1. op[p].payload \in Payload
    BY <1>4, CarriedType
  <2> QED BY <1>3, <1>4, <2>1
<1>5. ASSUME NEW p \in Procs, pc[p] = "record", SubmitWrite(Submission(p)) PROVE Good
  <2>1. Submission(p) \in Submitted
    BY <1>5, CarriedType
  <2>2. IsLedger(submissions', Submitted)
    BY <1>0, <1>5, <2>1, WriteType DEF SubmitWrite
  <2> QED BY <1>0, <1>5, <2>2 DEF SubmitWrite, AttemptsFit
<1>6. ASSUME NEW x \in Envelopes, WithKey(x.key) # {},
             conflicts' = conflicts \cup
                (IF Deployment(x, FirstWithKey(x.key).attempt) = FirstWithKey(x.key)
                 THEN {} ELSE {Deployment(x, FirstWithKey(x.key).attempt)}),
             UNCHANGED <<releases, deployments, submissions, crashes>>
      PROVE  Good
  <2>1. x \in Payload
    BY <1>0, EnvelopeType
  <2>2. FirstWithKey(x.key) \in Attempt
    BY <1>0, <1>6, FirstWithKeyType, RecordType, GluedIsNoRecord
  <2>3. FirstWithKey(x.key).attempt \in 1 .. MaxLines
    BY <2>2 DEF Attempt
  <2>4. Deployment(x, FirstWithKey(x.key).attempt) \in Attempt
    BY <2>1, <2>3, DeploymentType
  <2> QED BY <1>0, <1>6, <2>4 DEF AttemptsFit
<1>7. ASSUME NEW x \in Envelopes, DeployWrite(x) PROVE Good
  <2>1. x \in Payload
    BY <1>0, EnvelopeType
  <2> QED BY <1>3, <1>7, <2>1
<1>8. Good
  <2> HIDE DEF Good
  <2> QED BY LedgerMoves, <1>1, <1>2, <1>4, <1>5, <1>6, <1>7
<1>9. LocalType'
  BY LocalMoves
<1> QED BY <1>8, <1>9, CountersType DEF TypeOK, LocalType

\* Nothing is torn before a process dies.
LEMMA CleanStep ==
  ASSUME TypeOK, AttemptsFit, CleanUntilCrash, Next
  PROVE  CleanUntilCrash'
<1>0. crashes \in Nat /\ (crashes' = crashes \/ crashes' = crashes + 1)
  BY CountersType, BoundsAssumption DEF TypeOK
<1> SUFFICES ASSUME crashes' = 0
             PROVE  /\ releases'.tail = "clean" /\ deployments'.tail = "clean"
                    /\ submissions'.tail = "clean" /\ Readable(submissions)'
  BY DEF CleanUntilCrash
<1>1. crashes = 0 /\ releases.tail = "clean" /\ deployments.tail = "clean"
      /\ submissions.tail = "clean" /\ Readable(submissions)
  BY <1>0 DEF CleanUntilCrash
<1>2. ASSUME NEW p \in Procs, pc[p] = "record", SubmitWrite(Submission(p))
      PROVE  submissions'.tail = "clean" /\ Readable(submissions)'
  <2>1. Submission(p) \in Submitted /\ IsLedger(submissions, Submitted)
    BY <1>2, CarriedType DEF TypeOK
  <2>2. submissions' = Appended(submissions, Submission(p)) /\ Room(submissions)
    BY <1>0, <1>1, <1>2 DEF SubmitWrite
  <2>3. submissions'.tail = "clean" /\ submissions'.lines = Append(submissions.lines, Submission(p))
    BY <1>1, <2>1, <2>2, AppendedShape, BoundsAssumption
  <2>4. Submission(p) # Glued
    BY <2>1, GluedIsNoRecord
  <2>5. NewLines(submissions, Submission(p), submissions')
    BY <2>1, <2>2, WriteType
  <2>6. KeepsLines(submissions, submissions')
    BY <1>1, <2>1, <2>2, AppendedShape, BoundsAssumption
  <2>7. submissions.lines \in Seq(Submitted \cup {Glued})
    BY <2>1 DEF IsLedger
  <2>8. ASSUME NEW i \in DOMAIN submissions'.lines PROVE submissions'.lines[i] # Glued
    <3>1. Submission(p) \in Submitted \cup {Glued}
      BY <2>1
    <3>2. i \in 1 .. (Len(submissions.lines) + 1)
      BY <2>3, <2>7, <3>1, LineEdits
    <3>3. CASE i = Len(submissions.lines) + 1
      BY <2>3, <2>4, <2>7, <3>1, <3>3, LineEdits
    <3>4. CASE i \in DOMAIN submissions.lines
      BY <1>1, <2>6, <3>4 DEF KeepsLines, Readable
    <3> QED BY <3>2, <3>3, <3>4, <2>7
  <2> QED BY <2>3, <2>8 DEF Readable
<1>3. ASSUME NEW x, DeployWrite(x) PROVE deployments'.tail = "clean"
  BY <1>0, <1>1, <1>3 DEF DeployWrite, Appended
<1>4. ASSUME NEW c, ReleaseWrite(c) PROVE releases'.tail = "clean"
  BY <1>0, <1>1, <1>4 DEF ReleaseWrite, Appended
<1>5. ASSUME submissions' = submissions PROVE submissions'.tail = "clean" /\ Readable(submissions)'
  BY <1>1, <1>5
<1> QED
  BY LedgerMoves, <1>1, <1>2, <1>3, <1>4, <1>5
     DEF ledgers, ReleaseWrite, DeployWrite, SubmitWrite

-----------------------------------------------------------------------------
(* Deployments are bound to frozen candidates *)

\* No two lines are the same, and a record that is not there yet makes no difference.
Distinct(lines) == \A i, j \in DOMAIN lines : i # j => lines[i] # lines[j]

LEMMA DistinctAppend ==
  ASSUME NEW R, NEW l, NEW c \in R, IsLedger(l, R), c \notin Records(l), c # Glued,
         Distinct(l.lines)
  PROVE  Distinct(Append(l.lines, c))
<1>1. l.lines \in Seq(R \cup {Glued}) /\ c \in R \cup {Glued}
  BY DEF IsLedger
<1>2. \A i \in DOMAIN l.lines : l.lines[i] # c
  BY DEF Records
<1> QED BY <1>1, <1>2, LineEdits DEF Distinct

\* Lines that stay are records that stay.
LEMMA RecordsStay ==
  ASSUME NEW l, NEW l2, KeepsLines(l, l2)
  PROVE  Records(l) \subseteq Records(l2) /\ (Readable(l2) => Readable(l))
BY DEF KeepsLines, Records, Readable

\* As long as no second process dies, readable candidates stay frozen, each once.
LEMMA FrozenStay ==
  ASSUME TypeOK, AttemptsFit, CleanUntilCrash, BoundToRelease, Next,
         crashes' <= 1, Readable(releases')
  PROVE  /\ crashes <= 1 /\ Readable(releases)
         /\ Records(releases) \subseteq Records(releases') /\ Distinct(releases'.lines)
<1>0. crashes \in Nat /\ (crashes' = crashes \/ crashes' = crashes + 1)
      /\ IsLedger(releases, Candidate)
  BY CountersType, BoundsAssumption DEF TypeOK
<1>1. CASE releases' = releases
  BY <1>0, <1>1 DEF BoundToRelease, Distinct
<1>2. ASSUME NEW p \in Procs, pc[p] = "freeze", ReleaseWrite(op[p].candidate)
      PROVE  /\ crashes <= 1 /\ Readable(releases)
             /\ Records(releases) \subseteq Records(releases') /\ Distinct(releases'.lines)
  <2> DEFINE c == op[p].candidate
  <2>1. c \in Candidate /\ c # Glued /\ Room(releases) /\ c \notin Records(releases)
        /\ Readable(releases)
    BY <1>2, CarriedType, GluedIsNoRecord DEF ReleaseWrite
  <2> HIDE DEF c
  <2>2. /\ KeepsLines(releases, releases')
        /\ releases'.lines = releases.lines \/ releases'.lines = Append(releases.lines, c)
    <3>1. CASE releases' = Appended(releases, c)
      BY <3>1, <1>0, <2>1, AppendedShape, BoundsAssumption
    <3>2. CASE releases' \in Torn(releases, c) /\ crashes' = crashes + 1
      <4>1. releases.tail = "clean"
        BY <1>0, <3>2 DEF CleanUntilCrash
      <4> QED BY <3>2, <4>1, <1>0, <2>1, TornShape, BoundsAssumption
    <3> QED BY <1>2, <3>1, <3>2 DEF ReleaseWrite, c
  <2>3. Distinct(releases.lines)
    BY <1>0, <2>1 DEF BoundToRelease, Distinct
  <2>4. Distinct(releases'.lines)
    BY <1>0, <2>1, <2>2, <2>3, DistinctAppend
  <2> QED BY <1>0, <2>1, <2>2, <2>4, RecordsStay
<1> QED BY LedgerMoves, <1>1, <1>2 DEF ledgers, DeployWrite, SubmitWrite

\* What a step adds to the records of the deployments.
LEMMA DeploymentsAdded ==
  ASSUME TypeOK, AttemptsFit, Next, NEW d \in Records(deployments')
  PROVE  \/ d \in Records(deployments)
         \/ d.envelope
         \/ \E p \in Procs : pc[p] = "deploy" /\ d.id = op[p].payload.id
                             /\ d.envelope = op[p].payload.envelope
<1>0. IsLedger(releases, Candidate)
  BY DEF TypeOK
<1>1. ASSUME NEW x \in Payload, DeployWrite(x)
      PROVE  \/ d \in Records(deployments)
             \/ d.id = x.id /\ d.envelope = x.envelope
  <2> DEFINE new == Deployment(x, NextAttempt(deployments, x.id))
  <2>1. NewLines(deployments, new, deployments') /\ new.id = x.id /\ new.envelope = x.envelope
    BY <1>1, DeployWriteType
  <2> HIDE DEF new
  <2> QED BY <2>1 DEF Records, NewLines
<1>2. CASE deployments' = deployments
  BY <1>2
<1>3. ASSUME NEW x \in Envelopes, DeployWrite(x) PROVE d \in Records(deployments) \/ d.envelope
  BY <1>0, <1>1, <1>3, EnvelopeType
<1>4. ASSUME NEW p \in Procs, pc[p] = "deploy", DeployWrite(op[p].payload)
      PROVE  d \in Records(deployments) \/ (d.id = op[p].payload.id
                                            /\ d.envelope = op[p].payload.envelope)
  BY <1>1, <1>4, CarriedType
<1> QED BY LedgerMoves, <1>2, <1>3, <1>4 DEF ledgers, ReleaseWrite, SubmitWrite

LEMMA BoundStep ==
  ASSUME TypeOK, AttemptsFit, CleanUntilCrash, DeploysFrozen, BoundToRelease, Next
  PROVE  DeploysFrozen' /\ BoundToRelease'
<1>0. crashes \in Nat /\ (crashes' = crashes \/ crashes' = crashes + 1)
  BY CountersType, BoundsAssumption DEF TypeOK
<1>1. ASSUME NEW p \in Procs, pc'[p] = "deploy"
      PROVE  /\ ~op'[p].payload.envelope
             /\ crashes' <= 1 /\ Readable(releases')
                   => op'[p].payload.id.release \in Records(releases')
  <2>1. DeployArrives(p)
    BY LocalMoves
  <2>2. CASE pc[p] = "deploy" /\ op'[p] = op[p]
    BY <2>2, FrozenStay DEF DeploysFrozen
  <2>3. CASE /\ UNCHANGED ledgers /\ ~op'[p].payload.envelope
             /\ op'[p].payload.id.release \in Records(releases)
    BY <2>3 DEF ledgers
  <2> QED BY <1>1, <2>1, <2>2, <2>3 DEF DeployArrives
<1>2. ASSUME Readable(releases'), crashes' <= 1,
             NEW d \in Records(deployments'), ~d.envelope
      PROVE  d.id.release \in Records(releases')
  <2>1. crashes <= 1 /\ Readable(releases) /\ Records(releases) \subseteq Records(releases')
    BY <1>2, FrozenStay
  <2>2. CASE d \in Records(deployments)
    BY <1>2, <2>1, <2>2 DEF BoundToRelease
  <2>3. ASSUME NEW p \in Procs, pc[p] = "deploy", d.id = op[p].payload.id
        PROVE  d.id.release \in Records(releases')
    BY <2>1, <2>3 DEF DeploysFrozen
  <2> QED BY <1>2, <2>2, <2>3, DeploymentsAdded
<1>3. BoundToRelease'
  BY <1>2, FrozenStay DEF BoundToRelease, Distinct
<1> QED BY <1>1, <1>3 DEF DeploysFrozen

-----------------------------------------------------------------------------
(* Envelopes take effect once *)

\* No line before an envelope has its key.
KeysOnce(l) ==
    \A i \in DOMAIN l.lines :
       l.lines[i] # Glued /\ l.lines[i].envelope
          => \A j \in 1..(i - 1) : l.lines[j] # Glued => l.lines[j].key # l.lines[i].key

\* A line that is no envelope, or brings a new key, keeps it so.
LEMMA KeysOnceWritten ==
  ASSUME NEW l, NEW l2, NEW d, IsLedger(l, Attempt), IsLedger(l2, Attempt),
         NewLines(l, d, l2), KeysOnce(l), d.envelope => ~Known(l, d.key)
  PROVE  KeysOnce(l2)
<1>0. DOMAIN l.lines = 1 .. Len(l.lines) /\ Len(l.lines) \in Nat
      /\ DOMAIN l2.lines = 1 .. Len(l2.lines) /\ Len(l2.lines) \in Nat
  BY RecordType, GluedIsNoRecord
<1> SUFFICES ASSUME NEW i \in DOMAIN l2.lines, l2.lines[i] # Glued, l2.lines[i].envelope,
                    NEW j \in 1 .. (i - 1), l2.lines[j] # Glued
             PROVE  l2.lines[j].key # l2.lines[i].key
  BY DEF KeysOnce
<1>1. j \in DOMAIN l2.lines /\ j < i
  BY <1>0
<1>2. CASE i \in DOMAIN l.lines /\ l2.lines[i] = l.lines[i]
  <2>1. j \in DOMAIN l.lines /\ l2.lines[j] = l.lines[j]
    BY <1>0, <1>1, <1>2 DEF NewLines
  <2> QED BY <1>2, <2>1 DEF KeysOnce
<1>3. CASE i = Len(l.lines) + 1 /\ l2.lines[i] = d
  <2>1. j \in DOMAIN l.lines /\ l2.lines[j] = l.lines[j]
    BY <1>0, <1>1, <1>3 DEF NewLines
  <2> QED BY <1>3, <2>1 DEF Known
<1> QED BY <1>2, <1>3 DEF NewLines

\* A deployment that is written leaves a readable ledger only if nothing is lost.
LEMMA DeployKeeps ==
  ASSUME TypeOK, AttemptsFit, CleanUntilCrash, NEW x \in Payload, DeployWrite(x),
         crashes' <= 1, Readable(deployments')
  PROVE  KeepsLines(deployments, deployments')
<1> DEFINE d == Deployment(x, NextAttempt(deployments, x.id))
<1>1. d \in Attempt /\ IsLedger(deployments, Attempt) /\ Room(deployments)
  BY DeployWriteType DEF TypeOK, DeployWrite
<1>2. CASE deployments' = Appended(deployments, d)
  BY <1>1, <1>2, AppendedShape, BoundsAssumption
<1>3. CASE deployments' \in Torn(deployments, d) /\ crashes' = crashes + 1
  <2>1. deployments.tail = "clean"
    BY <1>3, BoundsAssumption DEF CleanUntilCrash, TypeOK
  <2> QED BY <1>1, <1>3, <2>1, TornShape, BoundsAssumption
<1> QED BY <1>2, <1>3 DEF DeployWrite

\* A deployment that brings a new key, or is no envelope, conflicts with nothing.
LEMMA EnvelopeWrite ==
  ASSUME TypeOK, AttemptsFit, CleanUntilCrash, ConflictsKnown, EnvelopeOnce,
         NEW x \in Payload, DeployWrite(x), x.envelope => WithKey(x.key) = {}, Next
  PROVE  ConflictsKnown' /\ EnvelopeOnce'
<1> DEFINE d == Deployment(x, NextAttempt(deployments, x.id))
<1>0. crashes \in Nat /\ (crashes' = crashes \/ crashes' = crashes + 1)
      /\ IsLedger(deployments, Attempt) /\ conflicts' = conflicts /\ Readable(deployments)
  BY CountersType, BoundsAssumption DEF TypeOK, DeployWrite
<1>1. d.key = x.key /\ d.envelope = x.envelope /\ d \in Attempt
      /\ IsLedger(deployments', Attempt) /\ NewLines(deployments, d, deployments')
  BY DeployWriteType
<1> HIDE DEF d
<1>2. d.envelope => ~Known(deployments, d.key)
  BY <1>0, <1>1, WithKeyIsKnown
<1>3. ASSUME crashes' <= 1 PROVE KeysOnce(deployments')
  <2>1. KeysOnce(deployments)
    BY <1>0, <1>3 DEF EnvelopeOnce, KeysOnce
  <2> QED BY <1>0, <1>1, <1>2, <2>1, KeysOnceWritten
<1>4. ASSUME NEW c \in conflicts, crashes' <= 1
      PROVE  /\ c.envelope /\ c \notin Records(deployments) /\ Known(deployments, c.key)
  BY <1>0, <1>4, WithKeyIsKnown DEF ConflictsKnown, EnvelopeOnce
<1>5. ASSUME NEW c \in conflicts, crashes' <= 1
      PROVE  c \notin Records(deployments')
  <2>1. c # d
    BY <1>2, <1>4, <1>5
  <2> QED BY <1>1, <1>4, <1>5, <2>1 DEF Records, NewLines
<1>6. ASSUME NEW c \in conflicts, crashes' <= 1, Readable(deployments')
      PROVE  WithKey(c.key)' # {}
  <2>1. PICK i \in DOMAIN deployments.lines :
           deployments.lines[i] # Glued /\ deployments.lines[i].key = c.key
    BY <1>4, <1>6 DEF Known
  <2>2. i \in DOMAIN deployments'.lines /\ deployments'.lines[i] # Glued
        /\ deployments'.lines[i].key = c.key
    BY <1>6, <2>1, DeployKeeps DEF KeepsLines
  <2>3. deployments'.lines[i] \in Records(deployments')
    BY <2>2 DEF Records
  <2> QED BY <2>2, <2>3 DEF WithKey
<1>7. ConflictsKnown'
  BY <1>0, <1>6 DEF ConflictsKnown
<1>8. EnvelopeOnce'
  BY <1>0, <1>3, <1>5 DEF EnvelopeOnce, KeysOnce
<1> QED BY <1>7, <1>8

\* An envelope that conflicts is none of the records.
LEMMA ConflictWrite ==
  ASSUME TypeOK, ConflictsKnown, EnvelopeOnce, NEW x \in Envelopes, WithKey(x.key) # {},
         conflicts' = conflicts \cup
            (IF Deployment(x, FirstWithKey(x.key).attempt) = FirstWithKey(x.key)
             THEN {} ELSE {Deployment(x, FirstWithKey(x.key).attempt)}),
         UNCHANGED <<releases, deployments, submissions, crashes>>
  PROVE  ConflictsKnown' /\ EnvelopeOnce'
<1> DEFINE first == FirstWithKey(x.key)
           incoming == Deployment(x, first.attempt)
<1>1. IsLedger(deployments, Attempt) /\ IsLedger(releases, Candidate)
  BY DEF TypeOK
<1>2. first \in Records(deployments) /\ first.key = x.key
  BY <1>1, FirstWithKeyType
<1>3. PICK i \in WithKey(x.key) : first = deployments.lines[i] /\ \A j \in WithKey(x.key) : i <= j
  BY <1>1, FirstWithKeyType
<1>4. incoming.key = x.key /\ incoming.envelope = TRUE
  <2>1. first \in Attempt
    BY <1>1, <1>2, RecordType, GluedIsNoRecord
  <2>2. first.attempt \in 1 .. MaxLines
    BY <2>1 DEF Attempt
  <2> QED BY <1>1, <2>2, EnvelopeType, DeploymentType
<1> HIDE DEF first, incoming
<1>5. ASSUME crashes <= 1, incoming # first
      PROVE  incoming \notin Records(deployments)
  <2> SUFFICES ASSUME incoming \in Records(deployments) PROVE FALSE
    OBVIOUS
  <2>1. PICK j \in DOMAIN deployments.lines : deployments.lines[j] = incoming
    BY DEF Records
  <2>2. deployments.lines[j] # Glued /\ j \in WithKey(x.key)
    BY <1>4, <2>1 DEF Records, WithKey
  <2>3. i \in 1 .. Len(deployments.lines) /\ j \in 1 .. Len(deployments.lines) /\ i <= j /\ i # j
        /\ Len(deployments.lines) \in Nat
    BY <1>1, <1>3, <1>5, <2>1, <2>2, RecordType, GluedIsNoRecord DEF WithKey
  <2>4. i \in 1 .. (j - 1)
    BY <2>3
  <2>5. first # Glued
    BY <1>2 DEF Records
  <2> QED BY <1>2, <1>3, <1>4, <1>5, <2>1, <2>2, <2>4, <2>5 DEF EnvelopeOnce
<1>6. ASSUME NEW c \in conflicts', c \notin conflicts
      PROVE  c = incoming /\ incoming # first
  BY <1>6 DEF incoming, first
<1>7. ConflictsKnown'
  <2> SUFFICES ASSUME NEW c \in conflicts'
               PROVE  c.envelope /\ (crashes <= 1 /\ Readable(deployments) => WithKey(c.key) # {})
    BY DEF ConflictsKnown, WithKey
  <2>1. CASE c \in conflicts
    BY <2>1 DEF ConflictsKnown
  <2>2. CASE c \notin conflicts
    BY <2>2, <1>4, <1>6
  <2> QED BY <2>1, <2>2
<1>8. EnvelopeOnce'
  <2>1. ASSUME crashes <= 1, NEW c \in conflicts' PROVE c \notin Records(deployments)
    BY <1>5, <1>6, <2>1 DEF EnvelopeOnce
  <2> QED BY <2>1 DEF EnvelopeOnce
<1> QED BY <1>7, <1>8

LEMMA EnvelopeStep ==
  ASSUME TypeOK, AttemptsFit, CleanUntilCrash, DeploysFrozen, ConflictsKnown, EnvelopeOnce, Next
  PROVE  ConflictsKnown' /\ EnvelopeOnce'
<1>0. crashes \in Nat /\ (crashes' = crashes \/ crashes' = crashes + 1)
      /\ IsLedger(releases, Candidate)
  BY CountersType, BoundsAssumption DEF TypeOK
<1>1. ASSUME UNCHANGED <<deployments, conflicts>> PROVE ConflictsKnown' /\ EnvelopeOnce'
  BY <1>0, <1>1 DEF ConflictsKnown, EnvelopeOnce, WithKey
<1>2. ASSUME NEW p \in Procs, pc[p] = "deploy", DeployWrite(op[p].payload)
      PROVE  ConflictsKnown' /\ EnvelopeOnce'
  BY <1>2, EnvelopeWrite, CarriedType DEF DeploysFrozen
<1>3. ASSUME NEW x \in Envelopes, WithKey(x.key) = {}, DeployWrite(x)
      PROVE  ConflictsKnown' /\ EnvelopeOnce'
  BY <1>0, <1>3, EnvelopeWrite, EnvelopeType
<1> QED BY LedgerMoves, <1>1, <1>2, <1>3, ConflictWrite DEF ledgers, ReleaseWrite, SubmitWrite

-----------------------------------------------------------------------------
(* The audit trail *)

\* The records of successful submissions at h, and who is about to write one.
Written(h) == {i \in DOMAIN submissions.lines :
                 submissions.lines[i].head = h /\ submissions.lines[i].exit = 0}

Waiting(h) == {p \in Procs : pc[p] = "record" /\ op[p].head = h /\ op[p].exit = 0}

Fired(h) == fired[h][TRUE] + fired[h][FALSE]

LEMMA AuditIs ==
  AuditComplete <=>
     (crashes = 0 => \A h \in Heads :
        Fired(h) = Cardinality(Written(h)) + Cardinality(Waiting(h)))
BY DEF AuditComplete, Written, Waiting, Fired

\* One of two counters goes up by one.
LEMMA OneMore ==
  ASSUME NEW f \in [BOOLEAN -> Nat], NEW b \in BOOLEAN, NEW g, g = [f EXCEPT ![b] = @ + 1]
  PROVE  g[TRUE] + g[FALSE] = f[TRUE] + f[FALSE] + 1
<1>1. DOMAIN f = BOOLEAN /\ f[TRUE] \in Nat /\ f[FALSE] \in Nat
  BY Zenon
<1>2. CASE b = TRUE
  <2>1. g[TRUE] = f[TRUE] + 1 /\ g[FALSE] = f[FALSE]
    BY <1>1, <1>2, Zenon
  <2> DEFINE t == f[TRUE]
             u == f[FALSE]
  <2>2. t + 1 + u = t + u + 1
    <3>1. t \in Nat /\ u \in Nat
      BY <1>1
    <3> HIDE DEF t, u
    <3> QED BY <3>1
  <2> QED BY <2>1, <2>2, Zenon
<1>3. CASE b = FALSE
  <2>1. g[TRUE] = f[TRUE] /\ g[FALSE] = f[FALSE] + 1
    BY <1>1, <1>3, Zenon
  <2> DEFINE t == f[TRUE]
             u == f[FALSE]
  <2>2. t + (u + 1) = t + u + 1
    <3>1. t \in Nat /\ u \in Nat
      BY <1>1
    <3> HIDE DEF t, u
    <3> QED BY <3>1
  <2> QED BY <2>1, <2>2, Zenon
<1> QED BY <1>2, <1>3, Zenon

\* Both are finite.
LEMMA AuditFinite ==
  ASSUME TypeOK, NEW h
  PROVE  /\ IsFiniteSet(Written(h)) /\ Cardinality(Written(h)) \in Nat
         /\ IsFiniteSet(Waiting(h)) /\ Cardinality(Waiting(h)) \in Nat
<1>1. DOMAIN submissions.lines = 1 .. Len(submissions.lines) /\ Len(submissions.lines) \in Nat
  BY RecordType, GluedIsNoRecord DEF TypeOK
<1>2. IsFiniteSet(1 .. Len(submissions.lines)) /\ IsFiniteSet(Procs)
  BY <1>1, FS_Interval, ProcsAssumption
<1>3. Written(h) \in SUBSET (1 .. Len(submissions.lines)) /\ Waiting(h) \in SUBSET Procs
  BY <1>1 DEF Written, Waiting
<1>4. IsFiniteSet(Written(h)) /\ IsFiniteSet(Waiting(h))
  BY <1>2, <1>3, FS_Subset
<1> QED BY <1>4, FS_CardinalityType

\* Only a submission fires, and only its record leaves "record", as long as nobody dies.
LEMMA SubmitMoves ==
  ASSUME TypeOK, Next, crashes' = crashes
  PROVE  \/ \E p \in Procs : RunSubmit(p) \/ RecordSubmit(p)
         \/ /\ UNCHANGED <<submissions, fired>>
            /\ \A h : Waiting(h)' = Waiting(h)
<1>0. /\ pc \in [Procs -> Steps] /\ op = [p \in Procs |-> op[p]]
      /\ crashes # crashes + 1
  BY BoundsAssumption DEF TypeOK
<1> DEFINE Same == /\ UNCHANGED <<submissions, fired>>
                   /\ \A q \in Procs : /\ pc'[q] = "record" <=> pc[q] = "record"
                                       /\ pc[q] = "record" => op'[q] = op[q]
<1>1. ASSUME NEW p \in Procs, NEW next \in Steps \ {"record"}, NEW o, Goto(p, next, o),
             pc[p] # "record", UNCHANGED <<submissions, fired>>
      PROVE  Same
  BY <1>0, <1>1 DEF Goto
<1>2. ASSUME NEW p \in Procs, ReleaseStep(p) PROVE Same
  <2>1. /\ \E next \in {"idle", "release", "freeze"} : \E o : Goto(p, next, o)
        /\ pc[p] \in {"idle", "release", "freeze"}
        /\ UNCHANGED <<submissions, fired>>
    BY <1>0, <1>2 DEF ReleaseStep, BeginRelease, PinRelease, Freeze, TearRelease, Finish,
                      Die, ledgers
  <2> QED BY <2>1, <1>1 DEF Steps
<1>3. ASSUME NEW p \in Procs, DeployStep(p) PROVE Same
  <2>1. /\ \E next \in {"idle", "deploy"} : \E o : Goto(p, next, o)
        /\ pc[p] \in {"idle", "deploy"}
        /\ UNCHANGED <<submissions, fired>>
    BY <1>0, <1>3 DEF DeployStep, BeginDeploy, RecordDeploy, TearDeploy, Finish, Die, ledgers
  <2> QED BY <2>1, <1>1 DEF Steps
<1>4. ASSUME NEW p \in Procs, BeginSubmit(p) PROVE Same
  <2>1. /\ \E o : Goto(p, "submit", o)
        /\ pc[p] = "idle" /\ UNCHANGED <<submissions, fired>>
    BY <1>4 DEF BeginSubmit, ledgers
  <2> QED BY <2>1, <1>1 DEF Steps
<1>5. ASSUME NEW p \in Procs, TearSubmit(p) \/ Crash(p) PROVE FALSE
  BY <1>0, <1>5 DEF TearSubmit, Crash, Die
<1>6. ASSUME \/ \E x \in Envelopes : ApplyEnvelope(x) \/ TearEnvelope(x)
             \/ Commit \/ Save
      PROVE  Same
  BY <1>6 DEF ApplyEnvelope, TearEnvelope, Commit, Save, ledgers
<1>7. Same => \A h : Waiting(h)' = Waiting(h)
  BY DEF Waiting
<1> QED BY <1>2, <1>3, <1>4, <1>5, <1>6, <1>7 DEF Next, SubmitStep

\* The command of a submission succeeds: one more fired, one more to be recorded.
LEMMA AuditRun ==
  ASSUME TypeOK, CleanUntilCrash, AuditComplete, NEW p \in Procs, RunSubmit(p), crashes = 0,
         NEW h \in Heads
  PROVE  Fired(h)' = Cardinality(Written(h)') + Cardinality(Waiting(h)')
<1>0. pc \in [Procs -> Steps] /\ op = [q \in Procs |-> op[q]]
      /\ fired \in [Heads -> [BOOLEAN -> Nat]]
  BY DEF TypeOK
<1>1. pc[p] = "submit" /\ op[p].head \in Heads /\ op[p].resubmit \in BOOLEAN
  BY CarriedType DEF RunSubmit
<1>2. PICK exit \in {0, 1} :
         /\ Goto(p, "record", [what |-> "record", head |-> op[p].head, exit |-> exit])
         /\ fired' = IF exit = 1 THEN fired
                     ELSE [fired EXCEPT ![op[p].head][op[p].resubmit] = @ + 1]
  BY DEF RunSubmit
<1>3. Written(h)' = Written(h)
  BY DEF RunSubmit, ledgers, Written
<1>4. pc'[p] = "record" /\ op'[p].head = op[p].head /\ op'[p].exit = exit
      /\ \A q \in Procs \ {p} : pc'[q] = pc[q] /\ op'[q] = op[q]
  BY <1>0, <1>2 DEF Goto
<1>5. Fired(h) = Cardinality(Written(h)) + Cardinality(Waiting(h))
  BY AuditIs
<1>6. CASE exit = 0 /\ op[p].head = h
  <2>1. p \notin Waiting(h) /\ Waiting(h)' = Waiting(h) \cup {p}
    BY <1>1, <1>4, <1>6 DEF Waiting
  <2>2. Cardinality(Waiting(h)') = Cardinality(Waiting(h)) + 1
    BY <2>1, AuditFinite, FS_AddElement
  <2>3. fired' = [fired EXCEPT ![h][op[p].resubmit] = @ + 1]
    BY <1>2, <1>6
  <2>4. Fired(h)' = Fired(h) + 1
    <3> DEFINE b == op[p].resubmit
    <3>1. b \in BOOLEAN /\ fired' = [fired EXCEPT ![h][b] = @ + 1]
      BY <1>1, <2>3
    <3> HIDE DEF b
    <3>2. fired[h] \in [BOOLEAN -> Nat] /\ fired'[h] = [fired[h] EXCEPT ![b] = @ + 1]
      BY <1>0, <3>1
    <3> QED BY <3>1, <3>2, OneMore DEF Fired
  <2> QED BY <1>3, <1>5, <2>2, <2>4, AuditFinite
<1>7. CASE ~(exit = 0 /\ op[p].head = h)
  <2>1. Waiting(h)' = Waiting(h)
    BY <1>1, <1>4, <1>7 DEF Waiting
  <2>2. fired'[h] = fired[h]
    BY <1>0, <1>1, <1>2, <1>7
  <2>3. Fired(h)' = Fired(h)
    BY <2>2 DEF Fired
  <2> QED BY <1>3, <1>5, <2>1, <2>3
<1> QED BY <1>6, <1>7

\* The record is written: one line more, one fewer to come.
LEMMA AuditRecord ==
  ASSUME TypeOK, CleanUntilCrash, AuditComplete, NEW p \in Procs, RecordSubmit(p), crashes = 0,
         NEW h \in Heads
  PROVE  Fired(h)' = Cardinality(Written(h)') + Cardinality(Waiting(h)')
<1>0. pc \in [Procs -> Steps] /\ op = [q \in Procs |-> op[q]] /\ IsLedger(submissions, Submitted)
  BY DEF TypeOK
<1> DEFINE s == Submission(p)
           n == Len(submissions.lines)
<1>1. pc[p] = "record" /\ s \in Submitted /\ s.head = op[p].head /\ s.exit = op[p].exit
      /\ Fired(h)' = Fired(h)
  BY CarriedType DEF RecordSubmit, Submission, Fired
<1>2. submissions' = Appended(submissions, s) /\ submissions.tail = "clean" /\ Room(submissions)
  BY DEF RecordSubmit, CleanUntilCrash
<1>3. submissions'.lines = Append(submissions.lines, s)
      /\ submissions.lines \in Seq(Submitted \cup {Glued})
  BY <1>0, <1>2 DEF Appended, IsLedger
<1> HIDE DEF s
<1>4. /\ DOMAIN submissions'.lines = 1 .. (n + 1) /\ submissions'.lines[n + 1] = s
      /\ DOMAIN submissions.lines = 1 .. n /\ n \in Nat
      /\ \A i \in 1 .. n : submissions'.lines[i] = submissions.lines[i]
  BY <1>1, <1>3, LineEdits
<1> HIDE DEF n
<1>5. pc'[p] = "idle" /\ \A q \in Procs \ {p} : pc'[q] = pc[q] /\ op'[q] = op[q]
  BY <1>0 DEF RecordSubmit, Finish, Goto
<1>6. Fired(h) = Cardinality(Written(h)) + Cardinality(Waiting(h))
  BY AuditIs
<1>7. CASE s.exit = 0 /\ s.head = h
  <2>1. p \in Waiting(h) /\ Waiting(h)' = Waiting(h) \ {p}
    BY <1>1, <1>5, <1>7 DEF Waiting
  <2>2. n + 1 \notin Written(h) /\ Written(h)' = Written(h) \cup {n + 1}
    BY <1>4, <1>7 DEF Written
  <2>3. Cardinality(Waiting(h)') = Cardinality(Waiting(h)) - 1
    BY <2>1, AuditFinite, FS_RemoveElement
  <2>4. Cardinality(Written(h)') = Cardinality(Written(h)) + 1
    BY <2>2, AuditFinite, FS_AddElement
  <2> QED BY <1>1, <1>6, <2>3, <2>4, AuditFinite
<1>8. CASE ~(s.exit = 0 /\ s.head = h)
  <2>1. Waiting(h)' = Waiting(h)
    BY <1>1, <1>5, <1>8 DEF Waiting
  <2>2. Written(h)' = Written(h)
    BY <1>4, <1>8 DEF Written
  <2> QED BY <1>1, <1>6, <2>1, <2>2
<1> QED BY <1>7, <1>8

LEMMA AuditStep ==
  ASSUME TypeOK, AttemptsFit, CleanUntilCrash, AuditComplete, Next
  PROVE  AuditComplete'
<1>0. crashes \in Nat /\ (crashes' = crashes \/ crashes' = crashes + 1)
  BY CountersType, BoundsAssumption DEF TypeOK
<1>1. ASSUME crashes' = 0, NEW h \in Heads
      PROVE  Fired(h)' = Cardinality(Written(h)') + Cardinality(Waiting(h)')
  <2>1. crashes = 0 /\ crashes' = crashes
    BY <1>0, <1>1
  <2>2. CASE UNCHANGED <<submissions, fired>> /\ \A k : Waiting(k)' = Waiting(k)
    <3>1. Written(h)' = Written(h)
      BY <2>2 DEF Written
    <3>2. Fired(h)' = Fired(h)
      BY <2>2 DEF Fired
    <3> QED BY <2>1, <2>2, <3>1, <3>2, AuditIs
  <2> QED BY <2>1, <2>2, SubmitMoves, AuditRun, AuditRecord
<1> QED BY <1>1 DEF AuditComplete, Written, Waiting, Fired

-----------------------------------------------------------------------------
(* The theorems *)

\* A spec before its first release.
LEMMA InitSound == Init => IInv
<1> SUFFICES ASSUME Init PROVE IInv
  OBVIOUS
<1>1. /\ releases = Empty /\ deployments = Empty /\ submissions = Empty /\ conflicts = {}
      /\ crashes = 0 /\ pc = [p \in Procs |-> "idle"] /\ op = [p \in Procs |-> Idle]
      /\ fired = [h \in Heads |-> [again \in BOOLEAN |-> 0]]
  BY DEF Init
<1>2. \A R : IsLedger(Empty, R) /\ Empty.lines = <<>> /\ Empty.tail = "clean" /\ Len(Empty.lines) = 0
             /\ DOMAIN Empty.lines = {}
  BY BoundsAssumption DEF IsLedger, Empty, Tails
<1>3. TypeOK
  BY <1>1, <1>2, DoingIs, BoundsAssumption DEF Init, TypeOK, Steps
<1>4. Records(Empty) = {} /\ Readable(Empty)
  BY <1>2 DEF Records, Readable
<1>5. CleanUntilCrash /\ AttemptsFit /\ DeploysFrozen /\ ConflictsKnown
  BY <1>1, <1>2, <1>4 DEF CleanUntilCrash, AttemptsFit, Fitting, DeploysFrozen, ConflictsKnown
<1>6. BoundToRelease /\ EnvelopeOnce
  BY <1>1, <1>2, <1>4 DEF BoundToRelease, EnvelopeOnce
<1>7. AuditComplete
  <2>1. \A h : Written(h) = {} /\ Waiting(h) = {}
    BY <1>1, <1>2 DEF Written, Waiting
  <2>2. Cardinality({}) = 0
    BY FS_EmptySet
  <2>3. ASSUME NEW h \in Heads PROVE Fired(h) = 0
    <3>1. fired[h][TRUE] = 0 /\ fired[h][FALSE] = 0
      BY <1>1, Zenon
    <3> QED BY <3>1 DEF Fired
  <2> QED BY <2>1, <2>2, <2>3, AuditIs
<1> QED BY <1>3, <1>5, <1>6, <1>7 DEF IInv

\* The inductive invariant of the delivery ledgers.
THEOREM Safety == Spec => []IInv
<1>1. IInv /\ [Next]_vars => IInv'
  <2> SUFFICES ASSUME IInv, [Next]_vars PROVE IInv'
    OBVIOUS
  <2>1. CASE Next
    BY <2>1, TypeStep, CleanStep, BoundStep, EnvelopeStep, AuditStep DEF IInv
  <2>2. CASE UNCHANGED vars
    <3>1. (TypeOK /\ CleanUntilCrash /\ AttemptsFit)'
      BY <2>2 DEF vars, IInv, TypeOK, CleanUntilCrash, AttemptsFit
    <3>2. (DeploysFrozen /\ ConflictsKnown)'
      BY <2>2 DEF vars, IInv, DeploysFrozen, ConflictsKnown, WithKey
    <3>3. (BoundToRelease /\ EnvelopeOnce)'
      BY <2>2 DEF vars, IInv, BoundToRelease, EnvelopeOnce
    <3>4. AuditComplete'
      BY <2>2 DEF vars, IInv, AuditComplete
    <3> QED BY <3>1, <3>2, <3>3, <3>4 DEF IInv
  <2> QED BY <2>1, <2>2
<1> QED BY <1>1, InitSound, PTL DEF Spec

\* Every variable keeps its type; attempts stay within the lines of a ledger.
THEOREM TypeCorrect == Spec => []TypeOK
<1>1. IInv => TypeOK
  BY DEF IInv
<1> QED BY <1>1, Safety, PTL

\* deploy looks its candidate up in a ledger read without the lock, and records
\* it under the lock: the candidate is still frozen then, and frozen once.
THEOREM Bound == Spec => []BoundToRelease
<1>1. IInv => BoundToRelease
  BY DEF IInv
<1> QED BY <1>1, Safety, PTL

\* An adapter may deliver an envelope any number of times, among deployments
\* that choose its key: it takes effect once.
THEOREM AppliedOnce == Spec => []EnvelopeOnce
<1>1. IInv => EnvelopeOnce
  BY DEF IInv
<1> QED BY <1>1, Safety, PTL

\* However many submissions overlap, each one that succeeds has its own record
\* unless a process dies.
THEOREM Audited == Spec => []AuditComplete
<1>1. IInv => AuditComplete
  BY DEF IInv
<1> QED BY <1>1, Safety, PTL

\* Later attempts at the same deployment have greater numbers.
Rising(l) ==
    \A i, j \in DOMAIN l.lines :
       /\ i < j /\ l.lines[i] # Glued /\ l.lines[j] # Glued /\ l.lines[i].id = l.lines[j].id
       => l.lines[i].attempt < l.lines[j].attempt

AttemptsRise == Rising(deployments)

LEMMA RisingStep ==
  ASSUME IInv, AttemptsRise, Next
  PROVE  AttemptsRise'
<1>0. TypeOK /\ AttemptsFit /\ IsLedger(deployments, Attempt) /\ IsLedger(releases, Candidate)
  BY DEF IInv, TypeOK
<1>1. CASE deployments' = deployments
  BY <1>1 DEF AttemptsRise
<1>2. ASSUME NEW x \in Payload, DeployWrite(x) PROVE AttemptsRise'
  <2> DEFINE d == Deployment(x, NextAttempt(deployments, x.id))
  <2>1. /\ NewLines(deployments, d, deployments') /\ d.id = x.id
        /\ IsLedger(deployments', Attempt)
    BY <1>0, <1>2, DeployWriteType
  <2>2. d.attempt = NextAttempt(deployments, x.id)
    BY DEF Deployment
  <2> HIDE DEF d
  <2>3. \A i \in DOMAIN deployments.lines :
           deployments.lines[i] # Glued /\ deployments.lines[i].id = d.id
              => deployments.lines[i].attempt < d.attempt
    BY <1>0, <2>1, <2>2, NextAttemptFits, RecordType, GluedIsNoRecord DEF AttemptsFit
  <2>4. /\ DOMAIN deployments.lines = 1 .. Len(deployments.lines) /\ Len(deployments.lines) \in Nat
        /\ DOMAIN deployments'.lines = 1 .. Len(deployments'.lines)
        /\ Len(deployments'.lines) \in Nat
    BY <1>0, <2>1, RecordType, GluedIsNoRecord
  <2> SUFFICES ASSUME NEW i \in DOMAIN deployments'.lines, NEW j \in DOMAIN deployments'.lines,
                      i < j, deployments'.lines[i] # Glued, deployments'.lines[j] # Glued,
                      deployments'.lines[i].id = deployments'.lines[j].id
               PROVE  deployments'.lines[i].attempt < deployments'.lines[j].attempt
    BY DEF AttemptsRise, Rising
  <2>5. CASE j \in DOMAIN deployments.lines /\ deployments'.lines[j] = deployments.lines[j]
    <3>1. i \in DOMAIN deployments.lines /\ deployments'.lines[i] = deployments.lines[i]
      BY <2>1, <2>4, <2>5 DEF NewLines
    <3> QED BY <2>5, <3>1 DEF AttemptsRise, Rising
  <2>6. CASE j = Len(deployments.lines) + 1 /\ deployments'.lines[j] = d
    <3>1. i \in DOMAIN deployments.lines /\ deployments'.lines[i] = deployments.lines[i]
      BY <2>1, <2>4, <2>6 DEF NewLines
    <3> QED BY <2>3, <2>6, <3>1
  <2> QED BY <2>1, <2>5, <2>6 DEF NewLines
<1>3. ASSUME NEW p \in Procs, pc[p] = "deploy", DeployWrite(op[p].payload) PROVE AttemptsRise'
  BY <1>0, <1>2, <1>3, CarriedType
<1>4. ASSUME NEW x \in Envelopes, DeployWrite(x) PROVE AttemptsRise'
  BY <1>0, <1>2, <1>4, EnvelopeType
<1> QED BY LedgerMoves, <1>1, <1>3, <1>4 DEF ledgers, ReleaseWrite, SubmitWrite

\* However deploys and envelopes overlap and whoever dies, two attempts at one
\* deployment never have the same number, and the later line has the greater one.
THEOREM AttemptsInOrder == Spec => []AttemptsRise
<1>1. Init => AttemptsRise
  BY DEF Init, Empty, AttemptsRise, Rising
<1>2. IInv /\ AttemptsRise /\ [Next]_vars => AttemptsRise'
  BY RisingStep DEF vars, AttemptsRise
<1> QED BY <1>1, <1>2, Safety, PTL DEF Spec

=============================================================================
