-------------------------- MODULE SpecLock_proofs --------------------------
(***************************************************************************)
(* The spec lock excludes, for any number of goroutines and processes,     *)
(* while no process dies and no critical section outlasts lockStale; and   *)
(* the clarification commands, which read tasks.md before they wait for    *)
(* that lock, keep every question and pin every answer.                    *)
(***************************************************************************)
EXTENDS SpecLock, TaskFrontier, FiniteSetTheorems, TLAPS

\* Ages stay below their caps.
LEMMA OldestType == ASSUME NEW cap \in Nat, NEW n \in 0 .. cap PROVE Oldest(n, cap) \in 0 .. cap
BY DEF Oldest

\* The caps and time-outs are numbers.
LEMMA Numbers ==
  /\ MaxAge \in Nat /\ Timeout + 1 \in Nat /\ MaxDepth \in Nat /\ MaxHold \in Nat
  /\ MaxPause \in Nat /\ Stale \in Nat /\ MaxFaults \in Nat
  /\ MaxHold <= MaxAge /\ MaxPause <= MaxHold /\ MaxHold <= Stale
BY LockAssumption, HoldAssumption DEF MaxAge

\* The winner of the file is the only one.
LEMMA OneHas == ASSUME FileSound PROVE \A s, t \in Threads : Has(s) /\ Has(t) => s = t
BY DEF FileSound

\* Every step keeps the types and the bound on nested calls.
LEMMA TypeStep ==
  IInv /\ [Next]_vars =>
    TypeOK' /\ (\A t \in Threads : pc[t] # "run" => frames[t] < MaxDepth)'
<1> DEFINE Nested == \A t \in Threads : pc[t] # "run" => frames[t] < MaxDepth
<1> SUFFICES ASSUME IInv, [Next]_vars PROVE TypeOK' /\ Nested'
  OBVIOUS
<1> USE Numbers
<1>t. TypeOK /\ Nested
  BY DEF IInv
<1>0. CASE UNCHANGED vars
  BY <1>t, <1>0 DEF vars, TypeOK
<1>1. ASSUME NEW t \in Threads, Enter(t) PROVE TypeOK' /\ Nested'
  <2>1. CASE owner[Process[t]] = t
    BY <1>t, <1>1, <2>1 DEF Enter, TypeOK, Processes
  <2>2. CASE owner[Process[t]] # t
    BY <1>t, <1>1, <2>2 DEF Enter, Attempt, Goto, TypeOK
  <2> QED BY <2>1, <2>2
<1>2. ASSUME NEW t \in Threads, Create(t) PROVE TypeOK' /\ Nested'
  <2>1. CASE file = None
    <3>1. [by |-> t, stamped |-> FALSE, age |-> 0] \in File
      BY DEF File
    <3> QED BY <1>t, <1>2, <2>1, <3>1 DEF Create, Goto, TypeOK
  <2>2. CASE file # None
    BY <1>t, <1>2, <2>2 DEF Create, Goto, TypeOK
  <2> QED BY <2>1, <2>2
<1>3. ASSUME NEW t \in Threads, Stamp(t) PROVE TypeOK' /\ Nested'
  <2>1. file' \in File \cup {None}
    BY <1>t, <1>3 DEF Stamp, TypeOK, File
  <2> QED BY <1>t, <1>3, <2>1 DEF Stamp, Goto, TypeOK
<1>4. ASSUME NEW t \in Threads, StampFails(t) PROVE TypeOK' /\ Nested'
  BY <1>t, <1>4 DEF StampFails, Goto, TypeOK
<1>5. ASSUME NEW t \in Threads, Own(t) PROVE TypeOK' /\ Nested'
  BY <1>t, <1>5 DEF Own, Goto, TypeOK, Processes
<1>6. ASSUME NEW t \in Threads, Inspect(t) PROVE TypeOK' /\ Nested'
  BY <1>t, <1>6 DEF Inspect, Goto, TypeOK
<1>7. ASSUME NEW t \in Threads, Remove(t) PROVE TypeOK' /\ Nested'
  BY <1>t, <1>7 DEF Remove, Goto, TypeOK
<1>8. ASSUME NEW t \in Threads, Retry(t) PROVE TypeOK' /\ Nested'
  <2>1. CASE Expired(t)
    BY <1>t, <1>8, <2>1 DEF Retry, Goto, TypeOK
  <2>2. CASE ~Expired(t)
    BY <1>t, <1>8, <2>2 DEF Retry, Attempt, Goto, TypeOK
  <2> QED BY <2>1, <2>2
<1>9. ASSUME NEW t \in Threads, Unlock(t) PROVE TypeOK' /\ Nested'
  <2>1. /\ file' \in File \cup {None} /\ owner' \in [Processes -> Threads \cup {None}]
        /\ depth' \in [Processes -> Int]
    BY <1>t, <1>9 DEF Unlock, TypeOK, Processes
  <2>2. frames' \in [Threads -> 0 .. MaxDepth] /\ \A s \in Threads : frames'[s] <= frames[s]
    BY <1>t, <1>9 DEF Unlock, TypeOK
  <2> QED BY <1>t, <1>9, <2>1, <2>2 DEF Unlock, TypeOK
<1>10. ASSUME NEW q \in Processes, Die(q) PROVE TypeOK' /\ Nested'
  BY <1>t, <1>10 DEF Die, TypeOK
<1>11. CASE Tick
  <2>1. file' \in File \cup {None}
    BY <1>t, <1>11, OldestType DEF Tick, TypeOK, File
  <2>2. age' \in [Threads -> 0 .. MaxAge]
    BY <1>t, <1>11 DEF Tick, Patient, TypeOK
  <2>3. waited' \in [Threads -> 0 .. Timeout + 1]
    BY <1>t, <1>11, OldestType DEF Tick, TypeOK
  <2> QED BY <1>t, <1>11, <2>1, <2>2, <2>3 DEF Tick, TypeOK
<1> QED BY <1>0, <1>1, <1>2, <1>3, <1>4, <1>5, <1>6, <1>7, <1>8, <1>9, <1>10, <1>11
       DEF Next, Work

\* A goroutine that has nothing, before and after its step, disturbs nobody.
LEMMA Looking ==
  ASSUME FileSound, MemorySound, CallsSound, NEW t \in Threads, ~Has(t),
         UNCHANGED <<file, frames, owner, depth>>,
         \A s \in Threads \ {t} : pc'[s] = pc[s] /\ age'[s] = age[s],
         pc'[t] \in {"run", "create", "inspect", "wait"},
         pc'[t] = "create" => age'[t] <= MaxPause
  PROVE  FileSound' /\ MemorySound' /\ CallsSound'
<1>1. \A s \in Threads : Has(s)' <=> Has(s)
  BY DEF Has, Inside
<1>2. FileSound'
  BY <1>1 DEF FileSound
<1>3. MemorySound'
  BY DEF MemorySound, Inside
<1>4. CallsSound'
  BY DEF CallsSound, Inside, Has
<1> QED BY <1>2, <1>3, <1>4

\* Every step keeps the invariant; a fault makes its second half vacuous.
LEMMA InvStep == IInv /\ [Next]_vars => IInv'
<1> DEFINE Sound == FileSound /\ MemorySound /\ CallsSound
<1> SUFFICES ASSUME IInv, [Next]_vars, faults' = 0 PROVE Sound'
  BY TypeStep DEF IInv
<1>t. TypeOK
  BY DEF IInv
<1> USE Numbers
<1>0. CASE UNCHANGED vars
  BY <1>0 DEF vars, IInv, FileSound, MemorySound, CallsSound, Has, Inside
<1>4. ASSUME \/ \E t \in Threads : StampFails(t)
             \/ \E q \in Processes : Die(q)
      PROVE  FALSE
  BY <1>t, <1>4 DEF StampFails, Die, TypeOK
<1>s. CASE Next
  <2>f. FileSound /\ MemorySound /\ CallsSound
    BY <1>t, <1>s, <1>4 DEF Next, IInv, Work, Enter, Create, Stamp, Own, Inspect, Remove,
       Retry, Unlock, Tick
  <2>1. ASSUME NEW t \in Threads, Enter(t) PROVE Sound'
    <3>1. CASE owner[Process[t]] = t
      BY <1>t, <2>f, <2>1, <3>1
         DEF Enter, TypeOK, Processes, FileSound, MemorySound, CallsSound, Has, Inside
    <3>2. CASE owner[Process[t]] # t
      <4>1. ~Has(t)
        BY <1>t, <2>f, <2>1, <3>2 DEF Enter, MemorySound, Has
      <4>2. /\ pc' = [pc EXCEPT ![t] = "create"] /\ age' = [age EXCEPT ![t] = 0]
            /\ UNCHANGED <<file, frames, owner, depth>>
        BY <2>1, <3>2 DEF Enter, Attempt, Goto
      <4> QED BY <1>t, <2>f, <4>1, <4>2, Looking DEF TypeOK
    <3> QED BY <3>1, <3>2
  <2>2. ASSUME NEW t \in Threads, Create(t) PROVE Sound'
    <3>0. ~Has(t)
      BY <2>f, <2>2 DEF Create, CallsSound, Has
    <3>1. CASE file = None
      <4>1. /\ file' = [by |-> t, stamped |-> FALSE, age |-> 0]
            /\ pc' = [pc EXCEPT ![t] = "stamp"] /\ UNCHANGED <<age, frames, owner, depth>>
        BY <2>2, <3>1 DEF Create, Goto
      <4>2. file'.by = t /\ file'.age = 0 /\ file' # None
        <5>1. file' \in File /\ file'.by = t /\ file'.age = 0
          BY <4>1 DEF File
        <5> QED BY <5>1, NoneAssumption
      <4>3. \A s \in Threads : ~Has(s)
        BY <2>f, <3>1 DEF FileSound
      <4>4. FileSound'
        <5>1. \A s \in Threads : Has(s)' => s = t
          BY <1>t, <4>1, <4>3 DEF TypeOK, Has, Inside
        <5>2. age'[t] \in Nat /\ age'[t] <= MaxHold
          BY <1>t, <2>f, <2>2, <4>1 DEF TypeOK, Create, CallsSound
        <5>3. Has(t)'
          BY <1>t, <4>1 DEF TypeOK, Has
        <5> QED BY <4>2, <5>1, <5>2, <5>3 DEF FileSound
      <4> QED BY <1>t, <2>f, <3>0, <4>1, <4>4 DEF TypeOK, MemorySound, CallsSound, Has, Inside
    <3>2. CASE file # None
      <4>1. pc' = [pc EXCEPT ![t] = "inspect"] /\ UNCHANGED <<file, age, frames, owner, depth>>
        BY <2>2, <3>2 DEF Create, Goto
      <4> QED BY <1>t, <2>f, <3>0, <4>1, Looking DEF TypeOK
    <3> QED BY <3>1, <3>2
  <2>3. ASSUME NEW t \in Threads, Stamp(t) PROVE Sound'
    <3>1. Has(t) /\ file # None /\ file.by = t
      BY <2>f, <2>3 DEF Stamp, Has, FileSound
    <3>2. /\ file' = [file EXCEPT !.stamped = TRUE, !.age = age[t]]
          /\ pc' = [pc EXCEPT ![t] = "own"] /\ UNCHANGED <<age, frames, owner, depth>>
      BY <2>3, <3>1 DEF Stamp, Goto
    <3>3. file' # None /\ file'.by = t /\ file'.age = age[t]
      <4>1. file \in File /\ age[t] \in 0 .. MaxAge
        BY <1>t, <3>1 DEF TypeOK
      <4>2. file' \in File /\ file'.by = t /\ file'.age = age[t]
        BY <3>1, <3>2, <4>1 DEF File
      <4> QED BY <4>2, NoneAssumption
    <3>4. \A s \in Threads : Has(s)' <=> Has(s)
      BY <1>t, <2>3, <3>2 DEF TypeOK, Stamp, Has, Inside
    <3>5. FileSound'
      BY <1>t, <2>f, <3>1, <3>2, <3>3, <3>4 DEF FileSound, TypeOK
    <3> QED BY <1>t, <2>f, <2>3, <3>2, <3>5 DEF Stamp, TypeOK, MemorySound, CallsSound, Inside
  <2>5. ASSUME NEW t \in Threads, Own(t) PROVE Sound'
    <3>1. Has(t) /\ frames[t] = 0
      BY <1>t, <2>f, <2>5 DEF Own, Has, CallsSound, Inside, TypeOK
    <3>2. \A s \in Threads : ~Inside(s)
      BY <2>f, <3>1, OneHas DEF Has, Inside
    <3>3. /\ pc' = [pc EXCEPT ![t] = "run"] /\ frames' = [frames EXCEPT ![t] = 1]
          /\ owner' = [owner EXCEPT ![Process[t]] = t]
          /\ depth' = [depth EXCEPT ![Process[t]] = 1] /\ UNCHANGED <<file, age>>
      BY <1>t, <2>5, <3>1 DEF Own, Goto, TypeOK
    <3>4. \A s \in Threads : Has(s)' <=> Has(s)
      BY <1>t, <3>1, <3>2, <3>3 DEF TypeOK, Has, Inside
    <3>5. FileSound'
      BY <2>f, <3>3, <3>4 DEF FileSound
    <3>6. MemorySound'
      BY <1>t, <2>f, <3>2, <3>3 DEF TypeOK, Processes, MemorySound, Inside
    <3>7. CallsSound'
      BY <1>t, <2>f, <3>3 DEF TypeOK, CallsSound, Inside
    <3> QED BY <3>5, <3>6, <3>7
  <2>6. ASSUME NEW t \in Threads, Inspect(t) PROVE Sound'
    <3>1. ~LockIsStale(t)
      BY <1>t, <2>f DEF LockIsStale, TypeOK, File, FileSound
    <3>2. pc' = [pc EXCEPT ![t] = "wait"] /\ UNCHANGED <<file, age, frames, owner, depth>>
      BY <2>6, <3>1 DEF Inspect, Goto
    <3>3. ~Has(t)
      BY <2>f, <2>6 DEF Inspect, CallsSound, Has
    <3> QED BY <1>t, <2>f, <3>2, <3>3, Looking DEF TypeOK
  <2>7. ASSUME NEW t \in Threads, Remove(t) PROVE Sound'
    BY <2>f, <2>7 DEF Remove, CallsSound
  <2>8. ASSUME NEW t \in Threads, Retry(t) PROVE Sound'
    <3>1. ~Has(t)
      BY <2>f, <2>8 DEF Retry, CallsSound, Has
    <3>2. CASE Expired(t)
      <4>1. pc' = [pc EXCEPT ![t] = "run"] /\ UNCHANGED <<file, age, frames, owner, depth>>
        BY <2>8, <3>2 DEF Retry, Goto
      <4> QED BY <1>t, <2>f, <3>1, <4>1, Looking DEF TypeOK
    <3>3. CASE ~Expired(t)
      <4>1. /\ pc' = [pc EXCEPT ![t] = "create"] /\ age' = [age EXCEPT ![t] = 0]
            /\ UNCHANGED <<file, frames, owner, depth>>
        BY <2>8, <3>3 DEF Retry, Attempt, Goto
      <4> QED BY <1>t, <2>f, <3>1, <4>1, Looking DEF TypeOK
    <3> QED BY <3>2, <3>3
  <2>9. ASSUME NEW t \in Threads, Unlock(t) PROVE Sound'
    <3>1. /\ Inside(t) /\ owner[Process[t]] = t /\ depth[Process[t]] = frames[t]
          /\ \A s \in Threads : Has(s) => s = t
      BY <2>f, <2>9, OneHas DEF Unlock, MemorySound, Inside, Has
    <3>2. /\ frames' = [frames EXCEPT ![t] = frames[t] - 1]
          /\ depth' = [depth EXCEPT ![Process[t]] = depth[Process[t]] - 1]
          /\ UNCHANGED <<pc, age>> /\ pc[t] = "run"
      BY <2>9 DEF Unlock
    <3>3. CASE depth[Process[t]] > 1
      <4>1. UNCHANGED <<file, owner>>
        BY <2>9, <3>3 DEF Unlock
      <4>2. \A s \in Threads : (Has(s)' <=> Has(s)) /\ (Inside(s)' <=> Inside(s))
        BY <1>t, <3>1, <3>2, <3>3 DEF TypeOK, Has, Inside
      <4>3. FileSound'
        BY <2>f, <3>2, <4>1, <4>2 DEF FileSound
      <4>4. MemorySound'
        BY <1>t, <2>f, <3>1, <3>2, <4>1, <4>2 DEF TypeOK, Processes, MemorySound, Has
      <4> QED BY <2>f, <3>2, <4>2, <4>3, <4>4 DEF CallsSound
    <3>4. CASE ~(depth[Process[t]] > 1)
      <4>1. file' = None /\ owner' = [owner EXCEPT ![Process[t]] = None]
        BY <2>9, <3>4 DEF Unlock
      <4>2. \A s \in Threads : ~Has(s)' /\ ~Inside(s)'
        BY <1>t, <3>1, <3>2, <3>4 DEF TypeOK, Has, Inside
      <4>3. \A s \in Threads : owner'[Process[s]] # s
        BY <1>t, <2>f, <3>1, <4>1, NoneAssumption DEF TypeOK, Processes, MemorySound, Has
      <4> QED BY <2>f, <3>2, <4>1, <4>2, <4>3 DEF FileSound, MemorySound, CallsSound
    <3> QED BY <3>3, <3>4
  <2>11. CASE Tick
    <3>1. UNCHANGED <<pc, frames, owner, depth>>
      BY <2>11 DEF Tick
    <3>2. \A s \in Threads : (Has(s)' <=> Has(s)) /\ (Inside(s)' <=> Inside(s))
      BY <3>1 DEF Has, Inside
    <3>3. ASSUME NEW s \in Threads, Has(s)
          PROVE  /\ file' # None /\ file'.by = s
                 /\ file'.age <= age'[s] /\ age'[s] <= MaxHold
      <4>1. /\ file # None /\ file.by = s /\ file \in File
            /\ file.age <= age[s] /\ age[s] <= MaxHold
        BY <1>t, <2>f, <3>3 DEF FileSound, TypeOK
      <4>2. age'[s] = age[s] + 1 /\ age[s] < MaxHold
        BY <1>t, <2>11, <3>3 DEF Tick, Patient, Has, Inside, TypeOK
      <4>3. file' = [file EXCEPT !.age = Oldest(file.age, MaxAge)]
        BY <2>11, <4>1 DEF Tick
      <4>4. Oldest(file.age, MaxAge) \in 0 .. MaxAge /\ Oldest(file.age, MaxAge) <= file.age + 1
        BY <4>1 DEF File, Oldest
      <4>5. file' \in File /\ file'.by = s /\ file'.age = Oldest(file.age, MaxAge)
        BY <4>1, <4>3, <4>4 DEF File
      <4> QED BY <1>t, <4>1, <4>2, <4>4, <4>5, NoneAssumption DEF File, TypeOK
    <3>4. file' # None => \E s \in Threads : Has(s)'
      BY <2>f, <2>11, <3>2 DEF Tick, FileSound
    <3>5. FileSound'
      BY <3>2, <3>3, <3>4 DEF FileSound
    <3>6. \A s \in Threads : pc[s] = "create" => age'[s] <= MaxPause
      BY <1>t, <2>11 DEF Tick, Patient, TypeOK
    <3> QED BY <2>f, <3>1, <3>2, <3>5, <3>6 DEF MemorySound, CallsSound
  <2> QED BY <1>4, <1>s, <2>1, <2>2, <2>3, <2>5, <2>6, <2>7, <2>8, <2>9, <2>11
         DEF Next, Work
<1> QED BY <1>0, <1>s

\* Nobody has called yet.
LEMMA InvInit == Init => IInv
BY Numbers, NoneAssumption
   DEF Init, IInv, TypeOK, Processes, FileSound, MemorySound, CallsSound, Has, Inside

\* The invariant of the lock file, the memory of each process and every call.
THEOREM Safety == Spec => []IInv
<1> QED BY InvInit, InvStep, PTL DEF Spec

\* The lock file and the state of every call stay well typed, faults or not.
THEOREM TypeCorrect == Spec => []TypeOK
<1>1. IInv => TypeOK
  BY DEF IInv
<1> QED BY <1>1, Safety, PTL

\* No two goroutines are inside WithSpecLock at once, while nothing has failed.
THEOREM Exclusive == Spec => []ExclusiveWithoutFaults
<1>1. IInv => ExclusiveWithoutFaults
  BY OneHas DEF IInv, ExclusiveWithoutFaults, MutualExclusion, Has
<1> QED BY <1>1, Safety, PTL

\* A holder's file, owner and depth stay its own, while nothing has failed.
THEOREM HolderKeeps == Spec => []HolderKeepsLock
<1>1. IInv => HolderKeepsLock
  BY DEF IInv, HolderKeepsLock, FileSound, MemorySound, Has
<1> QED BY <1>1, Safety, PTL

-----------------------------------------------------------------------------
(* Questions and their answers: commands that read tasks.md before they wait *)
(* for that lock and plan from state.json once they have it.                 *)

\* The ids of the questions are 1, 2, 3 ... without a gap, so that the number of
\* questions is an id nobody has used.
Numbered == {q.id : q \in Questions} = 1..Cardinality(Questions)

\* A key of state.json has one record.
Keyed == \A r, s \in records : r.id = s.id /\ r.seq = s.seq => r = s

\* A resolution is of a question that was asked, and is about the same entity.
Inherits ==
    \A r \in records : r.seq = 1 =>
       \E q \in records : q.seq = 0 /\ q.id = r.id /\ q.entity = r.entity /\ q.blocking = r.blocking

\* A record about a task is pinned to the row its author's command had read.
Pinned == \A r \in records : r.entity \in Tasks => r.version = r.read

CLInv == CLTypeOK /\ IsFiniteSet(records) /\ Numbered /\ Keyed /\ Inherits /\ Pinned

\* There are finitely many questions.
LEMMA QuestionsFinite ==
  ASSUME IsFiniteSet(records) PROVE IsFiniteSet(Questions) /\ Cardinality(Questions) \in Nat
<1>1. Questions \subseteq records
  BY DEF Questions
<1> QED BY <1>1, FS_Subset, FS_CardinalityType

\* What a command that is not refused appends: a well-typed record under a key
\* nobody has used, about what the question it resolves is about.
LEMMA PlannedRecord ==
  ASSUME CLInv, NEW c \in Commands, NEW request \in Requests, AppendRecord(c, request),
         ~PlanRefuses(request)
  PROVE  LET record == Planned(request, command[c].rows)
         IN /\ record \in Records
            /\ records' = records \cup {record}
            /\ \A r \in records : r.id = record.id => r.seq # record.seq
            /\ record.seq = 0 <=> record.transition = "open"
            /\ record.seq = 0 => record.id = Cardinality(Questions) + 1
            /\ record.entity \in Tasks => record.version = record.read
            /\ record.seq = 1 =>
                 \E q \in records : /\ q.seq = 0 /\ q.id = record.id
                                    /\ q.entity = record.entity /\ q.blocking = record.blocking
<1> DEFINE read == command[c].rows
           record == Planned(request, read)
           asked == CHOOSE r \in Opened(request.id) : TRUE
           about == IF request.transition = "open" THEN request ELSE asked
<1>1. read \in Rows
  BY DEF CLInv, CLTypeOK, AppendRecord, Idle
<1>2. record = [id |-> IF request.transition = "open" THEN NextClarificationID ELSE request.id,
                seq |-> IF request.transition = "open" THEN 0 ELSE 1,
                transition |-> request.transition, entity |-> about.entity,
                blocking |-> about.blocking, version |-> EntityVersion(read, about.entity),
                read |-> IF about.entity \in Tasks THEN read[about.entity] ELSE Absent]
  BY DEF Planned
<1>n. Cardinality(Questions) \in Nat
  BY QuestionsFinite DEF CLInv
<1>3. request.transition # "open" =>
        /\ asked \in records /\ asked.id = request.id /\ asked.seq = 0
        /\ asked.entity \in Entities /\ asked.blocking \in BOOLEAN
  BY DEF PlanRefuses, Opened, CLInv, CLTypeOK, Records
<1>a. request.transition = "open" => request.entity \in Entities /\ request.blocking \in BOOLEAN
  BY DEF Requests, Resolutions
<1>i. request.transition # "open" => request.id \in Ids
  BY DEF Requests, Resolutions
<1> HIDE DEF asked
<1>4. about.entity \in Entities /\ about.blocking \in BOOLEAN
  BY <1>3, <1>a
<1>5. request.transition \in Resolutions \cup {"open"}
  BY DEF Requests
<1>6. record.id \in Ids
  <2>1. CASE request.transition = "open"
    <3>1. edits \in Nat /\ edits + Cardinality(Questions) < MaxChanges
      BY <2>1 DEF AppendRecord, CLInv, CLTypeOK
    <3> QED BY <1>2, <1>n, <2>1, <3>1, ClarificationAssumption DEF Ids, NextClarificationID
  <2>2. CASE request.transition # "open"
    BY <1>2, <1>i, <2>2
  <2> QED BY <2>1, <2>2
<1>7. EntityVersion(read, about.entity) \in Row \cup {Absent}
      /\ (about.entity \in Tasks => EntityVersion(read, about.entity) = read[about.entity])
  BY <1>1 DEF EntityVersion, Rows
<1>8. record \in Records
  <2>1. (IF about.entity \in Tasks THEN read[about.entity] ELSE Absent) \in Row \cup {Absent}
    BY <1>1 DEF Rows
  <2>2. (IF request.transition = "open" THEN 0 ELSE 1) \in 0..1
    OBVIOUS
  <2> HIDE DEF read, about
  <2> QED BY <1>2, <1>4, <1>5, <1>6, <1>7, <2>1, <2>2 DEF Records
<1>9. \A r \in records : r.id = record.id => r.seq # record.seq
  <2> SUFFICES ASSUME NEW r \in records, r.id = record.id, r.seq = record.seq PROVE FALSE
    OBVIOUS
  <2>1. CASE request.transition = "open"
    BY <1>2, <2>1 DEF PlanRefuses, Opened
  <2>2. CASE request.transition # "open"
    BY <1>2, <2>2 DEF PlanRefuses, Resolved
  <2> QED BY <2>1, <2>2
<1>10. records' = records \cup {record}
  <2>1. records' = {r \in records : <<r.id, r.seq>> # <<record.id, record.seq>>} \cup {record}
    BY DEF AppendRecord
  <2> QED BY <1>9, <2>1
<1>11. record.seq = 1 =>
         \E q \in records : /\ q.seq = 0 /\ q.id = record.id
                            /\ q.entity = record.entity /\ q.blocking = record.blocking
  <2> SUFFICES ASSUME record.seq = 1
               PROVE  /\ asked \in records /\ asked.seq = 0 /\ asked.id = record.id
                      /\ asked.entity = record.entity /\ asked.blocking = record.blocking
    OBVIOUS
  <2>1. request.transition # "open"
    BY <1>2
  <2>2. about = asked
    BY <2>1
  <2> HIDE DEF about
  <2> QED BY <1>2, <1>3, <2>1, <2>2
<1>12. (record.seq = 0 <=> record.transition = "open")
       /\ (record.seq = 0 => record.id = Cardinality(Questions) + 1)
  BY <1>2 DEF NextClarificationID
<1>13. record.entity \in Tasks => record.version = record.read
  BY <1>2, <1>7
<1> HIDE DEF record
<1> QED BY <1>8, <1>9, <1>10, <1>11, <1>12, <1>13 DEF record

\* A new record keeps the numbering, the keys, the questions and the versions.
LEMMA AppendKeeps ==
  ASSUME CLInv, NEW c \in Commands, NEW request \in Requests, AppendRecord(c, request)
  PROVE  CLInv'
<1> DEFINE record == Planned(request, command[c].rows)
<1>c. command' \in [Commands -> {Idle} \cup [step : {"lock"}, rows : Rows]]
  BY DEF AppendRecord, CLInv, CLTypeOK
<1>e. rows' = rows /\ marker' = marker /\ edits' = edits
  BY DEF AppendRecord
<1>1. CASE PlanRefuses(request)
  <2>1. records' = records
    BY <1>1 DEF AppendRecord
  <2> QED BY <1>c, <1>e, <2>1
          DEF CLInv, CLTypeOK, Numbered, Keyed, Inherits, Pinned, Questions
<1>2. CASE ~PlanRefuses(request)
  <2>1. /\ record \in Records
        /\ records' = records \cup {record}
        /\ \A r \in records : r.id = record.id => r.seq # record.seq
        /\ record.seq = 0 <=> record.transition = "open"
        /\ record.seq = 0 => record.id = Cardinality(Questions) + 1
        /\ record.entity \in Tasks => record.version = record.read
        /\ record.seq = 1 =>
             \E q \in records : /\ q.seq = 0 /\ q.id = record.id
                                /\ q.entity = record.entity /\ q.blocking = record.blocking
    BY <1>2, PlannedRecord
  <2> HIDE DEF record
  <2>2. CLTypeOK'
    BY <1>c, <1>e, <2>1 DEF CLInv, CLTypeOK
  <2>3. IsFiniteSet(records')
    BY <2>1, FS_AddElement DEF CLInv
  <2>4. Numbered'
    <3>n. IsFiniteSet(Questions) /\ Cardinality(Questions) \in Nat
      BY QuestionsFinite DEF CLInv
    <3>1. CASE record.seq = 0
      <4>1. Questions' = Questions \cup {record} /\ record \notin Questions
        BY <2>1, <3>1 DEF Questions
      <4>2. Cardinality(Questions') = Cardinality(Questions) + 1
        BY <3>n, <4>1, FS_AddElement
      <4>3. {q.id : q \in Questions'} = {q.id : q \in Questions} \cup {Cardinality(Questions) + 1}
        BY <2>1, <3>1, <4>1
      <4> QED BY <3>n, <4>2, <4>3 DEF CLInv, Numbered
    <3>2. CASE record.seq # 0
      <4>1. Questions' = Questions
        BY <2>1, <3>2 DEF Questions
      <4> QED BY <4>1 DEF CLInv, Numbered
    <3> QED BY <3>1, <3>2
  <2>5. Keyed'
    BY <2>1 DEF CLInv, Keyed
  <2>6. Inherits'
    BY <2>1 DEF CLInv, Inherits
  <2>7. Pinned'
    BY <2>1 DEF CLInv, Pinned
  <2> QED BY <2>2, <2>3, <2>4, <2>5, <2>6, <2>7 DEF CLInv
<1> QED BY <1>1, <1>2

\* The other steps leave the records alone.
LEMMA CLStep == CLInv /\ [CLNext]_clvars => CLInv'
<1> SUFFICES ASSUME CLInv, [CLNext]_clvars PROVE CLInv'
  OBVIOUS
<1>n. Cardinality(Questions) \in Nat
  BY QuestionsFinite DEF CLInv
<1>s. ASSUME records' = records, CLTypeOK' PROVE CLInv'
  BY <1>s DEF CLInv, Numbered, Keyed, Inherits, Pinned, Questions
<1>0. CASE UNCHANGED clvars
  BY <1>0, <1>s DEF clvars, CLInv, CLTypeOK
<1>1. ASSUME NEW c \in Commands, Begin(c) PROVE CLInv'
  <2>1. [step |-> "lock", rows |-> rows] \in [step : {"lock"}, rows : Rows]
    BY DEF CLInv, CLTypeOK
  <2>2. CLTypeOK' /\ records' = records
    BY <1>1, <2>1 DEF Begin, CLInv, CLTypeOK
  <2> QED BY <1>s, <2>2
<1>2. ASSUME NEW c \in Commands, NEW request \in Requests, AppendRecord(c, request)
      PROVE  CLInv'
  BY <1>2, AppendKeeps
<1>3. ASSUME NEW t \in Tasks, NEW row \in Row \cup {Absent}, EditRow(t, row) PROVE CLInv'
  <2>1. edits' \in 0..MaxChanges
    BY <1>3, <1>n, ClarificationAssumption DEF EditRow, Edited, CLInv, CLTypeOK
  <2>2. rows' \in Rows
    BY <1>3 DEF EditRow, CLInv, CLTypeOK, Rows
  <2>3. CLTypeOK' /\ records' = records
    BY <1>3, <2>1, <2>2 DEF EditRow, CLInv, CLTypeOK
  <2> QED BY <1>s, <2>3
<1>4. ASSUME NEW t \in Tasks, NEW status \in Statuses, Mark(t, status) PROVE CLInv'
  <2>1. edits' \in 0..MaxChanges
    BY <1>4, <1>n, ClarificationAssumption DEF Mark, Edited, CLInv, CLTypeOK
  <2>2. CLTypeOK' /\ records' = records
    BY <1>4, <2>1 DEF Mark, CLInv, CLTypeOK
  <2> QED BY <1>s, <2>2
<1> QED BY <1>0, <1>1, <1>2, <1>3, <1>4 DEF CLNext

\* Nobody has asked yet.
LEMMA CLStart == CLInit => CLInv
<1> SUFFICES ASSUME CLInit PROVE CLInv
  OBVIOUS
<1>1. Questions = {} /\ records = {}
  BY DEF CLInit, Questions
<1>2. Cardinality(Questions) = 0 /\ IsFiniteSet(records)
  BY <1>1, FS_EmptySet
<1>3. CLTypeOK
  BY <1>1, ClarificationAssumption DEF CLInit, CLTypeOK, Statuses
<1> QED BY <1>1, <1>2, <1>3 DEF CLInv, Numbered, Keyed, Inherits, Pinned

\* The invariant of the questions, for any number of commands, tasks and edits.
THEOREM QuestionSafety == CLSpec => []CLInv
<1> QED BY CLStart, CLStep, PTL DEF CLSpec

\* No answer covers a row its author's command had not read.
THEOREM AnswersCover == CLSpec => []AnswersCoverWhatWasRead
<1>1. CLInv => AnswersCoverWhatWasRead
  <2> SUFFICES ASSUME CLInv, NEW r \in Latest, r.transition = "answered", r.blocking,
                      r.entity \in Present, r.read # Absent, r.read # rows[r.entity]
               PROVE  r \in TaskWaits(r.entity, rows)
    BY DEF AnswersCoverWhatWasRead, StatusWaits
  <2>1. r.entity \in Tasks /\ rows[r.entity] # Absent
    BY DEF Present
  <2>2. r.version = r.read
    BY <2>1 DEF CLInv, Pinned, Latest
  <2> QED BY <2>1, <2>2 DEF TaskWaits
<1> QED BY <1>1, QuestionSafety, PTL

\* A step that answers no question about a task leaves the task's context refused.
LEMMA RefusedUntilResolved ==
  ASSUME CLInv, CLInv', records \subseteq records', NEW t \in Tasks,
         ContextRefuses(t), ~ContextRefuses(t)'
  PROVE  \E s \in records' \ records : s.transition \in Resolutions /\ s.entity = t
<1>1. PICK r \in Latest : r.blocking /\ r.entity = t /\ r.transition = "open"
  BY DEF ContextRefuses, TaskWaits, NoVersions
<1>2. r \in records /\ r.seq = 0 /\ Resolved(r.id) = {}
  BY <1>1 DEF Latest, CLInv, CLTypeOK
<1>3. r \notin Latest'
  <2>1. TaskWaits(t, NoVersions)' = {}
    BY DEF ContextRefuses
  <2> QED BY <1>1, <2>1 DEF TaskWaits
<1>4. PICK s \in records' : s.id = r.id /\ s.seq = 1
  BY <1>2, <1>3 DEF Latest, Resolved
<1>5. s \notin records
  BY <1>2, <1>4 DEF Resolved
<1>6. s.transition \in Resolutions
  BY <1>4 DEF CLInv, CLTypeOK, Records
<1>7. PICK q \in records' : q.seq = 0 /\ q.id = s.id /\ q.entity = s.entity
  BY <1>4 DEF CLInv, Inherits
<1>8. q = r
  BY <1>2, <1>4, <1>7 DEF CLInv, Keyed
<1> QED BY <1>1, <1>5, <1>6, <1>7, <1>8

\* No record is lost, and only a person's resolution of a question about a task
\* ends the refusal of its context.
THEOREM QuestionsKept == CLSpec => QuestionsStand
<1> DEFINE Stands == /\ records \subseteq records'
                     /\ \A t \in Tasks :
                          ContextRefuses(t) /\ ~ContextRefuses(t)' =>
                            \E r \in records' \ records :
                              r.transition \in Resolutions /\ r.entity = t
<1>1. CLInv /\ CLInv' /\ [CLNext]_clvars => [Stands]_records
  <2> SUFFICES ASSUME CLInv, CLInv', [CLNext]_clvars PROVE [Stands]_records
    OBVIOUS
  <2>1. records \subseteq records'
    <3>1. ASSUME NEW c \in Commands, NEW request \in Requests, AppendRecord(c, request)
          PROVE  records \subseteq records'
      <4>1. CASE PlanRefuses(request)
        BY <3>1, <4>1 DEF AppendRecord
      <4>2. CASE ~PlanRefuses(request)
        BY <3>1, <4>2, PlannedRecord
      <4> QED BY <4>1, <4>2
    <3> QED BY <3>1 DEF CLNext, clvars, Begin, EditRow, Mark
  <2> QED BY <2>1, RefusedUntilResolved
<1>2. CLSpec => [][Stands]_records
  BY <1>1, QuestionSafety, PTL DEF CLSpec
<1> QED BY <1>2 DEF QuestionsStand

----------------------------------------------------------------------------
(* The frontier. *)

\* What a row depends on is closed: it goes on to the dependencies of what is
\* below, as far as they are rows.
LEMMA BelowClosed ==
  ASSUME NEW t \in Present, NEW d \in Below(t), rows[d] \subseteq Present
  PROVE  rows[d] \subseteq Below(t)
BY DEF Below, Closed

\* A row is below another because that one depends on it, or on one it is below.
LEMMA BelowThrough ==
  ASSUME \A x \in Present : rows[x] \subseteq Present,
         NEW t \in Present, NEW d \in Below(t), d \notin rows[t]
  PROVE  \E e \in rows[t] : d \in Below(e)
<1> DEFINE L == {x \in Present : x \in rows[t] \/ \E e \in rows[t] : x \in Below(e)}
<1>1. rows[t] \subseteq L
  OBVIOUS
<1>2. Closed(L)
  <2> SUFFICES ASSUME NEW x \in L PROVE rows[x] \subseteq L
    BY DEF Closed
  <2>1. rows[x] \subseteq Present
    OBVIOUS
  <2>2. CASE x \in rows[t]
    <3>1. rows[x] \subseteq Below(x)
      BY <2>1 DEF Below
    <3> QED BY <2>1, <2>2, <3>1
  <2>3. ASSUME NEW e \in rows[t], x \in Below(e) PROVE rows[x] \subseteq L
    <3>1. rows[x] \subseteq Below(e)
      BY <2>1, <2>3, BelowClosed
    <3> QED BY <2>1, <3>1
  <2> QED BY <2>2, <2>3
<1>3. L \in SUBSET Present
  OBVIOUS
<1> HIDE DEF L
<1>4. d \in L
  BY <1>1, <1>2, <1>3 DEF Below
<1> QED BY <1>4 DEF L

\* On a valid graph no row waits for itself, however long the way round.
LEMMA NotBelowItself ==
  ASSUME WellFormed, NEW t \in Present PROVE t \notin Below(t)
<1> DEFINE S == {d \in Present : t \in Below(d)}
<1>1. ASSUME NEW d \in S, t \in Below(t) PROVE rows[d] \cap S # {}
  <2>1. CASE t \in rows[d]
    BY <1>1, <2>1
  <2>2. CASE t \notin rows[d]
    <3>1. PICK e \in rows[d] : t \in Below(e)
      BY <1>1, <2>2, BelowThrough DEF WellFormed
    <3>2. e \in Present
      BY DEF WellFormed
    <3> QED BY <3>1, <3>2
  <2> QED BY <2>1, <2>2
<1>2. S \in SUBSET Present
  OBVIOUS
<1>3. ASSUME t \in Below(t) PROVE S = {}
  <2> HIDE DEF S
  <2> QED BY <1>1, <1>2, <1>3 DEF WellFormed, NoLoop
<1> QED BY <1>3

\* As long as a row of a valid graph is pending and none is running or blocked,
\* one of the pending rows is handed out.
LEMMA SomeReady ==
  ASSUME WellFormed, \A t \in Present : marker[t] \in {"pending", "complete"},
         PendingBlockers # {}
  PROVE  FrontierExcluding({}) # {}
<1>1. PendingBlockers \in SUBSET Present
  BY DEF PendingBlockers
<1>2. PICK t \in PendingBlockers : rows[t] \cap PendingBlockers = {}
  BY <1>1 DEF WellFormed, NoLoop
<1>3. DependencyWaits(t) = {}
  BY <1>1, <1>2 DEF WellFormed, DependencyWaits, PendingBlockers
<1> QED BY <1>2, <1>3 DEF Frontier, FrontierExcluding, PendingBlockers

\* A task handed out has all that it depends on complete, at any depth, when the
\* dependencies of every complete task are.
LEMMA AllBelowComplete ==
  ASSUME NEW t \in Frontier, NEW d \in Below(t),
         \A x \in Present : marker[x] = "complete" => \A e \in rows[x] : marker[e] = "complete"
  PROVE  marker[d] = "complete"
<1> DEFINE L == {x \in Present : marker[x] = "complete"}
<1>1. WellFormed /\ t \in Present /\ DependencyWaits(t) = {}
  BY DEF Frontier
<1>2. rows[t] \subseteq L
  BY <1>1 DEF WellFormed, DependencyWaits
<1>3. Closed(L)
  BY <1>1 DEF WellFormed, Closed
<1>4. L \in SUBSET Present
  OBVIOUS
<1>5. d \in L
  <2> HIDE DEF L
  <2> QED BY <1>2, <1>3, <1>4 DEF Below
<1> QED BY <1>5

\* Work never stops by itself, for any number of tasks, whatever the rows are
\* edited to and in whatever order the markers are set.
THEOREM WorkRemains == CLSpec => []NeverStalls
<1>1. NeverStalls
  <2>1. ASSUME NEW t \in Frontier PROVE t \notin Below(t)
    BY NotBelowItself DEF Frontier
  <2> QED BY <2>1, SomeReady, AllBelowComplete DEF NeverStalls
<1> QED BY <1>1, PTL

\* Of finitely many rows, the graph is valid exactly when no row waits for
\* itself, directly or through others: the row with the least below it among
\* those of a loop would have one of them, with less, below it.
THEOREM LoopIsCycle ==
  ASSUME IsFiniteSet(Present), \A t \in Present : rows[t] \subseteq Present
  PROVE  WellFormed <=> \A t \in Present : t \notin Below(t)
<1>1. ASSUME WellFormed, NEW t \in Present PROVE t \notin Below(t)
  BY <1>1, NotBelowItself
<1>2. ASSUME \A t \in Present : t \notin Below(t) PROVE NoLoop
  <2> SUFFICES ASSUME NEW S \in SUBSET Present, \A t \in S : rows[t] \cap S # {}, S # {}
               PROVE  FALSE
    BY DEF NoLoop
  <2> DEFINE T == {Below(t) : t \in S}
  <2>1. T \subseteq FiniteSubsetsOf(Present) /\ T # {}
    <3>1. \A t \in S : Below(t) \in SUBSET Present
      BY DEF Below
    <3>2. \A t \in S : IsFiniteSet(Below(t))
      BY <3>1, FS_Subset
    <3> QED BY <3>1, <3>2 DEF FiniteSubsetsOf
  <2>2. PICK B \in T : \A C \in T : <<C, B>> \notin StrictSubsetOrdering(Present)
    <3> HIDE DEF T
    <3> QED BY <2>1, FS_StrictSubsetOrderingWellFounded, WFMin
  <2>3. PICK t \in S : B = Below(t)
    BY <2>2
  <2>4. PICK d \in S : d \in rows[t]
    BY <2>3
  <2>5. d \in Below(t) /\ d \notin Below(d)
    BY <1>2, <2>4 DEF Below
  <2>6. Below(d) \subseteq Below(t)
    <3> SUFFICES ASSUME NEW e \in Below(d), NEW L \in SUBSET Present,
                        Closed(L), rows[t] \subseteq L
                 PROVE  e \in L
      BY DEF Below
    <3>1. rows[d] \subseteq L
      BY <2>4 DEF Closed
    <3> QED BY <3>1 DEF Below
  <2>7. <<Below(d), Below(t)>> \in StrictSubsetOrdering(Present)
    BY <2>5, <2>6 DEF StrictSubsetOrdering, Below
  <2> QED BY <2>2, <2>3, <2>7
<1> QED BY <1>1, <1>2 DEF WellFormed

=============================================================================
